----------------------------- MODULE ToolProofs -----------------------------
(***************************************************************************)
(* Proofs of what survives a dump and an import, and that a session whose  *)
(* commands did not overlap replays to the state it led to: for any        *)
(* clients, commands, keys and texts, whatever requests of the tool fail.  *)
(***************************************************************************)
EXTENDS Tool, SequenceTheorems, FiniteSetTheorems, TLAPS

-----------------------------------------------------------------------------
(* Commands and keyspaces                                                  *)

\* What SET, HSET and EXPIRE leave under their key.
Stored(text) == Entry("string", {text}, NoTTL)
Hashed(held, fields) ==
  IF held = Gone THEN Entry("hash", fields, NoTTL)
                 ELSE Entry("hash", held.value \cup fields, held.ttl)
Lasting(held) == Entry(held.type, held.value, SomeTTL)

LEMMA ContentFields ==
  ASSUME NEW c \in Content
  PROVE  /\ c \in [type : Type, value : SUBSET Text, ttl : {NoTTL, SomeTTL}]
         /\ c = Entry(c.type, c.value, c.ttl) /\ c # Gone
         /\ c.value # {} /\ (c.type = "string" => Single(c.value))
  BY ToolAssumption DEF Content, Entry

LEMMA EntryIsContent ==
  ASSUME NEW type \in Type, NEW value \in SUBSET Text, NEW ttl \in {NoTTL, SomeTTL},
         value # {}, type = "string" => Single(value)
  PROVE  /\ Entry(type, value, ttl) \in Content
         /\ Entry(type, value, ttl).type = type /\ Entry(type, value, ttl).value = value
         /\ Entry(type, value, ttl).ttl = ttl /\ Entry(type, value, ttl) # Gone
  BY ToolAssumption DEF Content, Entry

LEMMA WithExpiry ==
  ASSUME NEW r \in [type : Type, value : SUBSET Text, ttl : {NoTTL, SomeTTL}], NEW ttl
  PROVE  [r EXCEPT !.ttl = ttl] = Entry(r.type, r.value, ttl)
  BY DEF Entry

\* SET, in a command or in writeKeyValue.
LEMMA SetKeeps ==
  ASSUME NEW db \in Keyspace, NEW k \in Key, NEW text \in Text
  PROVE  /\ SetTo(db, k, text) \in Keyspace
         /\ SetTo(db, k, text)[k] = Stored(text)
         /\ \A j \in Key \ {k} : SetTo(db, k, text)[j] = db[j]
<1> DEFINE e == Stored(text)
<1>1. {text} \in SUBSET Text /\ {text} # {} /\ Single({text})
  BY DEF Single
<1>2. e \in Content
  BY <1>1, EntryIsContent DEF Type, Stored
<1>3. SetTo(db, k, text) = [db EXCEPT ![k] = e]
  BY DEF SetTo, Stored
<1> HIDE DEF e
<1>4. /\ SetTo(db, k, text) \in Keyspace /\ SetTo(db, k, text)[k] = e
      /\ \A j \in Key \ {k} : SetTo(db, k, text)[j] = db[j]
  BY <1>2, <1>3 DEF Keyspace
<1> QED
  BY <1>4 DEF e

\* HSET on a key that takes it.
LEMMA HSetKeeps ==
  ASSUME NEW db \in Keyspace, NEW k \in Key, NEW fields \in SUBSET Text, fields # {}, ~Refuses(db, k)
  PROVE  /\ HSetTo(db, k, fields) \in Keyspace
         /\ HSetTo(db, k, fields)[k] = Hashed(db[k], fields)
         /\ \A j \in Key \ {k} : HSetTo(db, k, fields)[j] = db[j]
<1>1. CASE db[k] = Gone
  <2> DEFINE e == Entry("hash", fields, NoTTL)
  <2>1. e \in Content
    BY EntryIsContent DEF Type
  <2>2. HSetTo(db, k, fields) = [db EXCEPT ![k] = e]
    BY <1>1 DEF HSetTo
  <2> HIDE DEF e
  <2>3. /\ HSetTo(db, k, fields) \in Keyspace /\ HSetTo(db, k, fields)[k] = e
        /\ \A j \in Key \ {k} : HSetTo(db, k, fields)[j] = db[j]
    BY <2>1, <2>2 DEF Keyspace
  <2> QED
    BY <1>1, <2>3 DEF e, Hashed
<1>2. CASE db[k] # Gone
  <2>1. db[k] \in Content /\ db[k].type = "hash"
    BY <1>2 DEF Keyspace, Refuses, Is
  <2>2. /\ db[k] \in [type : Type, value : SUBSET Text, ttl : {NoTTL, SomeTTL}]
        /\ db[k] = Entry("hash", db[k].value, db[k].ttl) /\ db[k].value # {}
    BY <2>1, ContentFields
  <2> DEFINE e == Entry("hash", db[k].value \cup fields, db[k].ttl)
  <2>3. e \in Content
    <3>1. db[k].value \cup fields \in SUBSET Text /\ db[k].value \cup fields # {}
      BY <2>2
    <3> QED
      BY <2>2, <3>1, EntryIsContent DEF Type
  <2>4. [db[k] EXCEPT !.value = @ \cup fields] = e
    BY <2>2 DEF Entry
  <2>5. HSetTo(db, k, fields) = [db EXCEPT ![k] = e]
    BY <1>2, <2>4 DEF HSetTo
  <2> HIDE DEF e
  <2>6. /\ HSetTo(db, k, fields) \in Keyspace /\ HSetTo(db, k, fields)[k] = e
        /\ \A j \in Key \ {k} : HSetTo(db, k, fields)[j] = db[j]
    BY <2>3, <2>5 DEF Keyspace
  <2> QED
    BY <1>2, <2>6 DEF e, Hashed
<1> QED
  BY <1>1, <1>2

\* EXPIRE on a key that is there.
LEMMA ExpireKeeps ==
  ASSUME NEW db \in Keyspace, NEW k \in Key, db[k] # Gone
  PROVE  /\ Expiring(db, k) \in Keyspace
         /\ Expiring(db, k)[k] = Lasting(db[k])
         /\ \A j \in Key \ {k} : Expiring(db, k)[j] = db[j]
<1>1. db[k] \in Content
  BY DEF Keyspace
<1>2. /\ db[k] \in [type : Type, value : SUBSET Text, ttl : {NoTTL, SomeTTL}]
      /\ db[k] = Entry(db[k].type, db[k].value, db[k].ttl)
      /\ db[k].value # {} /\ (db[k].type = "string" => Single(db[k].value))
  BY <1>1, ContentFields
<1> DEFINE e == Lasting(db[k])
<1>3. e \in Content
  BY <1>2, EntryIsContent DEF Lasting
<1>4. [db[k] EXCEPT !.ttl = SomeTTL] = e
  BY <1>2, WithExpiry DEF Lasting
<1>5. Expiring(db, k) = [db EXCEPT ![k] = e]
  BY <1>4 DEF Expiring
<1> HIDE DEF e
<1>6. /\ Expiring(db, k) \in Keyspace /\ Expiring(db, k)[k] = e
      /\ \A j \in Key \ {k} : Expiring(db, k)[j] = db[j]
  BY <1>3, <1>5 DEF Keyspace
<1> QED
  BY <1>6 DEF e

\* A command changes its key only, and that as a function of what the key holds:
\* commands for different keys commute.
LEMMA ApplyLocal ==
  ASSUME NEW db \in Keyspace, NEW c \in Request
  PROVE  /\ Apply(db, c) \in Keyspace
         /\ \A j \in Key \ {c.key} : Apply(db, c)[j] = db[j]
<1>0. c.op \in {"set", "hset", "expire", "del"} /\ c.key \in Key /\ c.text \in Text
  BY DEF Request
<1>1. CASE c.op = "set"
  BY <1>0, <1>1, SetKeeps DEF Apply
<1>2. CASE c.op = "hset" /\ ~Refuses(db, c.key)
  <2> DEFINE fields == {c.text}
  <2>1. fields \in SUBSET Text /\ fields # {}
    BY <1>0
  <2>2. Apply(db, c) = HSetTo(db, c.key, fields)
    BY <1>2 DEF Apply
  <2> HIDE DEF fields
  <2> QED
    BY <1>0, <1>2, <2>1, <2>2, HSetKeeps
<1>3. CASE c.op = "expire" /\ db[c.key] # Gone
  <2>1. Apply(db, c) = Expiring(db, c.key)
    BY <1>3 DEF Apply
  <2> QED
    BY <1>0, <1>3, <2>1, ExpireKeeps
<1>4. CASE c.op = "del"
  <2>1. Apply(db, c) = [db EXCEPT ![c.key] = Gone]
    BY <1>4 DEF Apply
  <2> QED
    BY <1>0, <2>1 DEF Keyspace
<1>5. CASE (c.op = "hset" /\ Refuses(db, c.key)) \/ (c.op = "expire" /\ db[c.key] = Gone)
  BY <1>5 DEF Apply
<1> QED
  BY <1>0, <1>1, <1>2, <1>3, <1>4, <1>5

LEMMA ApplyAgrees ==
  ASSUME NEW db \in Keyspace, NEW other \in Keyspace, NEW c \in Request, other[c.key] = db[c.key]
  PROVE  Apply(other, c)[c.key] = Apply(db, c)[c.key]
<1>0. c.op \in {"set", "hset", "expire", "del"} /\ c.key \in Key /\ c.text \in Text
  BY DEF Request
<1>1. CASE c.op = "set"
  <2>1. Apply(db, c) = SetTo(db, c.key, c.text) /\ Apply(other, c) = SetTo(other, c.key, c.text)
    BY <1>1 DEF Apply
  <2> QED
    BY <1>0, <2>1, SetKeeps
<1>2. CASE c.op = "hset" /\ ~Refuses(db, c.key)
  <2> DEFINE fields == {c.text}
  <2>1. fields \in SUBSET Text /\ fields # {} /\ ~Refuses(other, c.key)
    BY <1>0, <1>2 DEF Refuses
  <2>2. Apply(db, c) = HSetTo(db, c.key, fields) /\ Apply(other, c) = HSetTo(other, c.key, fields)
    BY <1>2, <2>1 DEF Apply
  <2> HIDE DEF fields
  <2> QED
    BY <1>0, <1>2, <2>1, <2>2, HSetKeeps
<1>3. CASE c.op = "expire" /\ db[c.key] # Gone
  <2>1. Apply(db, c) = Expiring(db, c.key) /\ Apply(other, c) = Expiring(other, c.key)
    BY <1>3 DEF Apply
  <2> QED
    BY <1>0, <1>3, <2>1, ExpireKeeps
<1>4. CASE c.op = "del"
  <2>1. Apply(db, c) = [db EXCEPT ![c.key] = Gone] /\ Apply(other, c) = [other EXCEPT ![c.key] = Gone]
    BY <1>4 DEF Apply
  <2> QED
    BY <1>0, <2>1 DEF Keyspace
<1>5. CASE (c.op = "hset" /\ Refuses(db, c.key)) \/ (c.op = "expire" /\ db[c.key] = Gone)
  BY <1>5 DEF Apply, Refuses
<1> QED
  BY <1>0, <1>1, <1>2, <1>3, <1>4, <1>5

-----------------------------------------------------------------------------
(* What JSON leaves of a value, a keyspace and a command                   *)

LEMMA ReplacedKeeps ==
  ASSUME NEW value \in SUBSET Text
  PROVE  /\ Replaced(value) \in SUBSET Text /\ (Replaced(value) = {} <=> value = {})
         /\ Single(value) => Single(Replaced(value))
<1>0. \A t \in Text : Marshalled[t] \in Text
  BY ToolAssumption
<1>1. Replaced(value) \in SUBSET Text /\ (Replaced(value) = {} <=> value = {})
  BY <1>0 DEF Replaced
<1>2. ASSUME Single(value) PROVE Single(Replaced(value))
  <2>1. PICK t \in Text : value = {t}
    BY <1>2 DEF Single
  <2>2. Replaced(value) = {Marshalled[t]}
    BY <2>1 DEF Replaced
  <2> QED
    BY <1>0, <2>1, <2>2 DEF Single
<1> QED
  BY <1>1, <1>2

LEMMA PassedContent ==
  ASSUME NEW c \in Content
  PROVE  /\ Passed(c) = Entry(c.type, Replaced(c.value), c.ttl)
         /\ Passed(c) \in Content /\ Passed(c) # Gone
         /\ Passed(c).type = c.type /\ Passed(c).value = Replaced(c.value) /\ Passed(c).ttl = c.ttl
<1>1. /\ c \in [type : Type, value : SUBSET Text, ttl : {NoTTL, SomeTTL}] /\ c # Gone
      /\ c.value # {} /\ (c.type = "string" => Single(c.value))
  BY ContentFields
<1>2. Passed(c) = Entry(c.type, Replaced(c.value), c.ttl)
  BY <1>1 DEF Passed
<1>3. /\ c.type \in Type /\ c.value \in SUBSET Text /\ c.ttl \in {NoTTL, SomeTTL}
      /\ Replaced(c.value) \in SUBSET Text /\ Replaced(c.value) # {}
      /\ c.type = "string" => Single(Replaced(c.value))
  BY <1>1, ReplacedKeeps
<1> QED
  BY <1>2, <1>3, EntryIsContent

LEMMA PassedKeyspace ==
  ASSUME NEW db \in Keyspace
  PROVE  /\ PassedAll(db) \in Keyspace
         /\ \A k \in Key : PassedAll(db)[k] = Passed(db[k]) /\ (Passed(db[k]) = Gone <=> db[k] = Gone)
<1>1. ASSUME NEW k \in Key
      PROVE  Passed(db[k]) \in Content \cup {Gone} /\ (Passed(db[k]) = Gone <=> db[k] = Gone)
  <2>1. CASE db[k] = Gone
    BY <2>1 DEF Passed
  <2>2. CASE db[k] # Gone
    <3>1. db[k] \in Content
      BY <2>2 DEF Keyspace
    <3> QED
      BY <2>2, <3>1, PassedContent
  <2> QED
    BY <2>1, <2>2
<1> QED
  BY <1>1 DEF PassedAll, Keyspace

LEMMA LineIsRequest ==
  ASSUME NEW cmd \in Request
  PROVE  /\ Line(cmd) \in Request /\ Line(cmd).op = cmd.op /\ Line(cmd).key = cmd.key
         /\ Line(cmd).text = Marshalled[cmd.text]
<1>1. cmd.text \in Text /\ Marshalled[cmd.text] \in Text
  BY ToolAssumption DEF Request
<1> QED
  BY <1>1 DEF Line, Request

\* A line does to what is left of a key what the command did to the key itself.
LEMMA PassedApply ==
  ASSUME NEW db \in Keyspace, NEW c \in Request
  PROVE  Apply(PassedAll(db), Line(c))[c.key] = Passed(Apply(db, c)[c.key])
<1>0. c.op \in {"set", "hset", "expire", "del"} /\ c.key \in Key /\ c.text \in Text
  BY DEF Request
<1>a. PICK k \in Key : k = c.key
  BY <1>0
<1>b. PICK t \in Text : t = c.text
  BY <1>0
<1>c. PICK far \in Keyspace : far = PassedAll(db)
  BY PassedKeyspace
<1>d. PICK line \in Request : line = Line(c)
  BY LineIsRequest
<1>e. line.op = c.op /\ line.key = k /\ line.text = Marshalled[t] /\ Marshalled[t] \in Text
  BY <1>a, <1>b, <1>d, LineIsRequest, ToolAssumption
<1>f. far[k] = Passed(db[k]) /\ (far[k] = Gone <=> db[k] = Gone)
  BY <1>c, PassedKeyspace
<1>g. db[k] # Gone => /\ db[k] \in Content /\ db[k].value \in SUBSET Text /\ db[k].ttl \in {NoTTL, SomeTTL}
                      /\ db[k].type \in Type /\ db[k].value # {}
                      /\ (db[k].type = "string" => Single(db[k].value))
                      /\ far[k].type = db[k].type /\ far[k].value = Replaced(db[k].value)
                      /\ far[k].ttl = db[k].ttl
  <2>1. CASE db[k] = Gone
    BY <2>1
  <2>2. CASE db[k] # Gone
    <3>1. db[k] \in Content
      BY <2>2 DEF Keyspace
    <3> QED
      BY <1>f, <3>1, ContentFields, PassedContent
  <2> QED
    BY <2>1, <2>2
<1>h. Refuses(far, k) <=> Refuses(db, k)
  BY <1>f, <1>g DEF Refuses, Is
<1>i. PICK text : text = {t}
  OBVIOUS
<1>j. PICK texts : texts = {Marshalled[t]}
  OBVIOUS
<1>k. /\ text \in SUBSET Text /\ text # {} /\ Single(text)
      /\ texts \in SUBSET Text /\ texts # {} /\ texts = Replaced(text)
  BY <1>e, <1>i, <1>j DEF Single, Replaced
<1>1. CASE c.op = "set"
  <2>1. Apply(db, c) = SetTo(db, k, t) /\ Apply(far, line) = SetTo(far, k, Marshalled[t])
    BY <1>1, <1>a, <1>b, <1>e DEF Apply
  <2>2. Apply(db, c)[k] = Entry("string", text, NoTTL) /\ Apply(far, line)[k] = Entry("string", texts, NoTTL)
    BY <1>e, <1>i, <1>j, <2>1, SetKeeps DEF Stored
  <2>3. PICK e \in Content : e = Entry("string", text, NoTTL) /\ e.type = "string" /\ e.value = text /\ e.ttl = NoTTL
    BY <1>k, EntryIsContent DEF Type
  <2>4. Passed(e) = Entry("string", texts, NoTTL)
    BY <1>k, <2>3, PassedContent
  <2> QED
    BY <1>a, <1>c, <1>d, <2>2, <2>3, <2>4
<1>2. CASE c.op = "hset" /\ ~Refuses(db, k)
  <2>1. Apply(db, c) = HSetTo(db, k, text) /\ Apply(far, line) = HSetTo(far, k, texts)
    BY <1>2, <1>a, <1>b, <1>e, <1>h, <1>i, <1>j DEF Apply
  <2>2. Apply(db, c)[k] = Hashed(db[k], text) /\ Apply(far, line)[k] = Hashed(far[k], texts)
    BY <1>2, <1>h, <1>k, <2>1, HSetKeeps
  <2>3. ASSUME NEW value \in SUBSET Text, value # {}, NEW ttl \in {NoTTL, SomeTTL}
        PROVE  Passed(Entry("hash", value, ttl)) = Entry("hash", Replaced(value), ttl)
    <3>1. PICK e \in Content : e = Entry("hash", value, ttl) /\ e.type = "hash" /\ e.value = value /\ e.ttl = ttl
      BY <2>3, EntryIsContent DEF Type
    <3> QED
      BY <3>1, PassedContent
  <2>4. CASE db[k] = Gone
    BY <1>a, <1>c, <1>d, <1>f, <1>k, <2>2, <2>3, <2>4 DEF Hashed
  <2>5. CASE db[k] # Gone
    <3>1. PICK fields \in SUBSET Text : fields = db[k].value \cup text
      BY <1>g, <1>k, <2>5
    <3>2. fields # {} /\ Replaced(fields) = far[k].value \cup texts
      BY <1>g, <1>k, <2>5, <3>1 DEF Replaced
    <3>3. /\ Apply(db, c)[k] = Entry("hash", fields, db[k].ttl)
          /\ Apply(far, line)[k] = Entry("hash", Replaced(fields), db[k].ttl)
      BY <1>f, <1>g, <2>2, <2>5, <3>1, <3>2 DEF Hashed
    <3> QED
      BY <1>a, <1>c, <1>d, <1>g, <2>3, <2>5, <3>2, <3>3
  <2> QED
    BY <2>4, <2>5
<1>3. CASE c.op = "expire" /\ db[k] # Gone
  <2>1. Apply(db, c) = Expiring(db, k) /\ Apply(far, line) = Expiring(far, k)
    BY <1>3, <1>a, <1>e, <1>f DEF Apply
  <2>2. /\ Apply(db, c)[k] = Entry(db[k].type, db[k].value, SomeTTL)
        /\ Apply(far, line)[k] = Entry(db[k].type, Replaced(db[k].value), SomeTTL)
    BY <1>3, <1>f, <1>g, <2>1, ExpireKeeps DEF Lasting
  <2>3. PICK e \in Content : /\ e = Entry(db[k].type, db[k].value, SomeTTL) /\ e.type = db[k].type
                             /\ e.value = db[k].value /\ e.ttl = SomeTTL
    BY <1>3, <1>g, EntryIsContent
  <2>4. Passed(e) = Entry(db[k].type, Replaced(db[k].value), SomeTTL)
    BY <2>3, PassedContent
  <2> QED
    BY <1>a, <1>c, <1>d, <2>2, <2>3, <2>4
<1>4. CASE c.op = "del"
  <2>1. Apply(db, c) = [db EXCEPT ![k] = Gone] /\ Apply(far, line) = [far EXCEPT ![k] = Gone]
    BY <1>4, <1>a, <1>e DEF Apply
  <2>2. Apply(db, c)[k] = Gone /\ Apply(far, line)[k] = Gone
    BY <2>1 DEF Keyspace
  <2> QED
    BY <1>a, <1>c, <1>d, <2>2 DEF Passed
<1>5. CASE (c.op = "hset" /\ Refuses(db, k)) \/ (c.op = "expire" /\ db[k] = Gone)
  <2>1. Apply(db, c) = db /\ Apply(far, line) = far
    BY <1>5, <1>a, <1>e, <1>f, <1>h DEF Apply
  <2> QED
    BY <1>a, <1>c, <1>d, <1>f, <2>1
<1> QED
  BY <1>0, <1>a, <1>1, <1>2, <1>3, <1>4, <1>5

-----------------------------------------------------------------------------
(* Items of a dump                                                         *)

LEMMA SprintIsText ==
  ASSUME NEW it \in Item
  PROVE  Sprint(it) \in Text /\ \A t \in Text : it.type = "string" /\ it.value = {t} => Sprint(it) = t
<1>1. NilText \in Text /\ Printed \in Text
  BY ToolAssumption
<1>2. it.type = "string" => it.value = {} \/ Single(it.value)
  BY DEF Item
<1>3. CASE it.type = "string" /\ it.value # {}
  <2>1. PICK t \in Text : it.value = {t}
    BY <1>2, <1>3 DEF Single
  <2>2. (CHOOSE x \in {t} : TRUE) = t
    OBVIOUS
  <2>3. Sprint(it) = t
    BY <1>3, <2>1, <2>2 DEF Sprint
  <2> QED
    BY <2>1, <2>3
<1>4. CASE ~(it.type = "string" /\ it.value # {})
  BY <1>1, <1>4 DEF Sprint
<1> QED
  BY <1>3, <1>4

\* What writeKeyValue leaves of an item, and of the other keys.
LEMMA WrittenAt ==
  ASSUME target \in Keyspace, NEW it \in Item, ~Unfit(it)
  PROVE  /\ Written(it) \in Keyspace
         /\ Written(it)[it.key] # Gone
         /\ it.type = "string" => Written(it)[it.key] = Stored(Sprint(it))
         /\ it.type = "hash" => Written(it)[it.key] = Hashed(target[it.key], it.value)
         /\ \A j \in Key \ {it.key} : Written(it)[j] = target[j]
<1>0. /\ it.key \in Key /\ it.type \in {"string", "hash", "list"} /\ it.value \in SUBSET Text
      /\ it.type # "string" => it.value # {}
  BY DEF Item, Type
<1>1. CASE it.type = "hash"
  <2>1. Written(it) = HSetTo(target, it.key, it.value) /\ ~Refuses(target, it.key) /\ it.value # {}
    BY <1>0, <1>1 DEF Written, Unfit
  <2>2. /\ Written(it) \in Keyspace /\ Written(it)[it.key] = Hashed(target[it.key], it.value)
        /\ \A j \in Key \ {it.key} : Written(it)[j] = target[j]
    BY <1>0, <2>1, HSetKeeps
  <2>3. Written(it)[it.key] # Gone
    <3>1. target[it.key] # Gone => target[it.key] \in Content
      BY <1>0 DEF Keyspace
    <3>2. target[it.key] # Gone => target[it.key].value \in SUBSET Text
                                   /\ target[it.key].ttl \in {NoTTL, SomeTTL}
      BY <3>1, ContentFields
    <3>3. CASE target[it.key] = Gone
      BY <1>0, <2>1, <2>2, <3>3, EntryIsContent DEF Hashed, Type
    <3>4. CASE target[it.key] # Gone
      <4> DEFINE v == target[it.key].value \cup it.value
      <4>1. v \in SUBSET Text /\ v # {}
        BY <1>0, <2>1, <3>2, <3>4
      <4>2. Written(it)[it.key] = Entry("hash", v, target[it.key].ttl)
        BY <2>2, <3>4 DEF Hashed
      <4> HIDE DEF v
      <4> QED
        BY <3>2, <3>4, <4>1, <4>2, EntryIsContent DEF Type
    <3> QED
      BY <3>3, <3>4
  <2> QED
    BY <1>1, <2>2, <2>3
<1>2. CASE it.type # "hash"
  <2>1. Written(it) = SetTo(target, it.key, Sprint(it))
    BY <1>0, <1>2 DEF Written
  <2>2. Sprint(it) \in Text
    BY SprintIsText
  <2>3. /\ Written(it) \in Keyspace /\ Written(it)[it.key] = Stored(Sprint(it))
        /\ \A j \in Key \ {it.key} : Written(it)[j] = target[j]
    BY <1>0, <2>1, <2>2, SetKeeps
  <2>4. Stored(Sprint(it)) # Gone
    <3>1. {Sprint(it)} \in SUBSET Text /\ {Sprint(it)} # {} /\ Single({Sprint(it)})
      BY <2>2 DEF Single
    <3> QED
      BY <3>1, EntryIsContent DEF Stored, Type
  <2> QED
    BY <1>2, <2>3, <2>4
<1> QED
  BY <1>1, <1>2

LEMMA KeysOf ==
  ASSUME NEW S \in SUBSET Key
  PROVE  SetToSeq(S) \in Seq(S) /\ \A ids \in SetToSeqs(S) : ids \in Seq(S)
<1>1. Cardinality(S) \in Nat /\ ExistsBijection(1..Cardinality(S), S)
  BY ToolAssumption, FS_Subset, FS_CardinalityType
<1>2. \E f \in [1..Cardinality(S) -> S] : IsInjective(f)
  BY <1>1 DEF ExistsBijection, Bijection, Injection, IsInjective
<1>3. SetToSeq(S) \in [1..Cardinality(S) -> S]
  BY <1>2 DEF SetToSeq
<1> QED
  BY <1>1, <1>3 DEF SetToSeqs

LEMMA Heads ==
  ASSUME NEW S, NEW q \in Seq(S), q # <<>>
  PROVE  /\ Head(q) \in S /\ Tail(q) \in Seq(S) /\ Len(q) \in Nat \ {0}
         /\ Len(Tail(q)) = Len(q) - 1 /\ Head(q) = q[1]
         /\ \A i \in DOMAIN Tail(q) : i + 1 \in DOMAIN q /\ Tail(q)[i] = q[i + 1]
         /\ Head(q) \in ToSet(q) /\ ToSet(Tail(q)) \subseteq ToSet(q)
<1>1. /\ Head(q) \in S /\ Tail(q) \in Seq(S) /\ Len(q) \in Nat \ {0}
      /\ Len(Tail(q)) = Len(q) - 1 /\ Head(q) = q[1]
      /\ \A i \in DOMAIN Tail(q) : i + 1 \in DOMAIN q /\ Tail(q)[i] = q[i + 1]
  OBVIOUS
<1> QED
  BY <1>1 DEF ToSet

LEMMA InToSet ==
  ASSUME NEW S, NEW q \in Seq(S)
  PROVE  ToSet(q) \subseteq S
  BY DEF ToSet

-----------------------------------------------------------------------------
(* Types, and what the tool may be doing                                   *)

\* One job at a time, an export before any other; an EXPIRE follows the write of
\* its key.
JobInv ==
  /\ \A i, j \in used \cap Loads : i = j
  /\ \A i, j \in used \cap Exports : i = j
  /\ pc = "get" => used = {"export"} /\ dump \in Seq(Item)
  /\ pc = "import" => "import" \in used \/ "seed" \in used
  /\ pc \in {"restore", "expire"} => "restore" \in used
  /\ pc = "replay" => "replay" \in used
  /\ pc = "expire" => /\ Head(todo).key \in loaded /\ Head(todo).ttl > 0
                      /\ target[Head(todo).key] # Gone
  /\ used \cap Loads = {} => target = start /\ loaded = {}

BaseInv == TypeOK /\ JobInv

LEMMA BaseInit == Init => BaseInv
<1> SUFFICES ASSUME Init PROVE BaseInv
  OBVIOUS
<1>1. source \in Keyspace /\ target \in Keyspace
  BY ToolAssumption DEF Init, Keyspace
<1>2. TypeOK
  BY <1>1, ToolAssumption DEF Init, TypeOK
<1>3. JobInv
  BY DEF Init, JobInv
<1> QED
  BY <1>2, <1>3 DEF BaseInv

\* A client, which neither the tool nor the second server notices.
LEMMA ClientBase ==
  ASSUME BaseInv, UNCHANGED <<second, start, pc, todo, used, smooth, dump, taken>>,
         source' \in Keyspace, session' \in Seq(Request), pending' \in [Client -> Command \cup {None}],
         issued' \in 0..MaxCommands, clean' \in BOOLEAN, fresh' \subseteq Key
  PROVE  BaseInv'
<1>1. TypeOK'
  BY DEF BaseInv, TypeOK, second
<1>2. JobInv'
  BY DEF BaseInv, JobInv, second
<1> QED
  BY <1>1, <1>2 DEF BaseInv

LEMMA ExecuteKeeps ==
  ASSUME TypeOK, NEW cmd \in Command, Execute(cmd)
  PROVE  /\ source' \in Keyspace /\ fresh' \subseteq Key
         /\ UNCHANGED <<second, start, pc, todo, used, smooth, dump, taken>>
<1>1. cmd \in Request /\ source \in Keyspace
  BY ToolAssumption DEF TypeOK
<1> QED
  BY <1>1, ApplyLocal DEF Execute, TypeOK

LEMMA ClientsBase == BaseInv /\ Clients => BaseInv'
<1> SUFFICES ASSUME BaseInv, Clients PROVE BaseInv'
  OBVIOUS
<1>t. TypeOK
  BY DEF BaseInv
<1>1. ASSUME NEW c \in Client, Run(c) PROVE BaseInv'
  <2>1. pending[c] \in Command
    BY <1>t, <1>1 DEF Run, TypeOK
  <2>2. pending' \in [Client -> Command \cup {None}] /\ UNCHANGED <<session, issued, clean>>
    BY <1>t, <1>1 DEF Run, TypeOK
  <2> QED
    BY <1>t, <1>1, <2>1, <2>2, ExecuteKeeps, ClientBase DEF Run, TypeOK
<1>2. ASSUME NEW c \in Client, RunFails(c) PROVE BaseInv'
  BY <1>t, <1>2, ClientBase DEF RunFails, TypeOK, file
<1>3. ASSUME NEW c \in Client, NEW cmd \in Command, Record(c, cmd) PROVE BaseInv'
  <2>1. session' \in Seq(Request)
    BY <1>t, <1>3, ToolAssumption, LineIsRequest, AppendProperties DEF Record, Appended, TypeOK
  <2>2. issued' \in 0..MaxCommands
    BY <1>t, <1>3, ToolAssumption DEF Record, Issue, TypeOK
  <2> QED
    BY <1>t, <1>3, <2>1, <2>2, ClientBase DEF Record, TypeOK, file
<1>4. ASSUME NEW cmd \in Command, RunUnrecorded(cmd) PROVE BaseInv'
  <2>1. issued' \in 0..MaxCommands
    BY <1>t, <1>4, ToolAssumption DEF RunUnrecorded, Issue, TypeOK
  <2> QED
    BY <1>t, <1>4, <2>1, ExecuteKeeps, ClientBase DEF RunUnrecorded, TypeOK
<1> QED
  BY <1>1, <1>2, <1>3, <1>4 DEF Clients

LEMMA ThenGoes ==
  ASSUME NEW S, NEW p, p # "idle", NEW jobs \in Seq(S), Then(p, jobs)
  PROVE  todo' \in Seq(S) /\ pc' \in {"idle", p} /\ (pc' = "idle" <=> todo' = <<>>)
  BY DEF Then

LEMMA Begins ==
  ASSUME BaseInv, NEW job, NEW o, Begin(job, o)
  PROVE  /\ pc = "idle" /\ todo = <<>> /\ used \cap Loads = {} /\ target = start /\ loaded = {}
         /\ used' = used \cup {job} /\ smooth' \in BOOLEAN /\ (smooth' => smooth)
         /\ job \notin Loads => used = {}
  BY DEF BaseInv, TypeOK, JobInv, Begin

\* A job that works through a list on the second server.
LEMMA LoadBase ==
  ASSUME BaseInv, UNCHANGED <<source, session, pending, issued, start, used, dump, taken, fresh>>,
         clean' \in BOOLEAN, smooth' \in BOOLEAN, target' \in Keyspace, loaded' \subseteq Key,
         used \cap Loads # {},
         NEW p \in {"import", "restore", "replay"},
         p = "import" => "import" \in used \/ "seed" \in used,
         p \in {"restore", "replay"} => p \in used,
         NEW S, NEW jobs \in Seq(S), Then(p, jobs), S = IF p = "restore" THEN Item ELSE Request
  PROVE  BaseInv'
<1>1. todo' \in Seq(S) /\ pc' \in {"idle", p} /\ (pc' = "idle" <=> todo' = <<>>)
  BY ThenGoes
<1>2. TypeOK'
  BY <1>1 DEF BaseInv, TypeOK
<1>3. JobInv'
  BY <1>1 DEF BaseInv, JobInv
<1> QED
  BY <1>2, <1>3 DEF BaseInv

\* A job that begins to load.
LEMMA BeginBase ==
  ASSUME BaseInv, NEW job \in Loads, NEW o, Begin(job, o),
         UNCHANGED <<source, session, pending, issued, second, start, dump, fresh>>,
         clean' \in BOOLEAN, taken' \in Keyspace,
         NEW p \in {"import", "restore", "replay"},
         p = "import" <=> job \in {"import", "seed"}, p \in {"restore", "replay"} => p = job,
         NEW S, NEW jobs \in Seq(S), Then(p, jobs), S = IF p = "restore" THEN Item ELSE Request
  PROVE  BaseInv'
<1>1. todo' \in Seq(S) /\ pc' \in {"idle", p} /\ (pc' = "idle" <=> todo' = <<>>)
  BY ThenGoes
<1>2. used \cap Loads = {} /\ used' = used \cup {job} /\ smooth' \in BOOLEAN
  BY Begins
<1>3. TypeOK'
  BY <1>1, <1>2 DEF BaseInv, TypeOK, second
<1>4. JobInv'
  <2>1. used' \cap Loads = {job} /\ used' \cap Exports = used \cap Exports
    BY <1>2 DEF Loads, Exports
  <2>2. job \in used'
    BY <1>2
  <2> QED
    BY <1>1, <2>1, <2>2 DEF BaseInv, JobInv
<1> QED
  BY <1>3, <1>4 DEF BaseInv

\* An export leaves both servers alone.
LEMMA ExportBase ==
  ASSUME BaseInv, UNCHANGED <<first, second, start>>, smooth' \in BOOLEAN,
         used' = {"export"} \/ used' = {"exportData"} \/ (used' = used /\ pc = "get"),
         used \subseteq used', used \cap Loads = {},
         taken' \in Keyspace, fresh' \subseteq Key, dump' # None => dump' \in Seq(Item),
         pc' \in {"idle", "get"}, pc' = "idle" <=> todo' = <<>>,
         pc' = "get" => todo' \in Seq(Key) /\ used' = {"export"} /\ dump' \in Seq(Item)
  PROVE  BaseInv'
<1>1. used' \in {{"export"}, {"exportData"}}
  BY DEF BaseInv, JobInv
<1>2. TypeOK'
  BY <1>1 DEF BaseInv, TypeOK, first, second, Exports
<1>3. used' \cap Loads = {} /\ used' \cap Exports = used'
  BY <1>1 DEF Loads, Exports
<1>4. JobInv'
  BY <1>1, <1>3 DEF BaseInv, JobInv, second
<1> QED
  BY <1>2, <1>4 DEF BaseInv

LEMMA ExportItems ==
  ASSUME TypeOK, NEW k \in Key, NEW value \in {{}, Got(k)}
  PROVE  [key |-> k, type |-> "string", ttl |-> NoTTL, value |-> value] \in Item
<1>1. CASE value = {}
  BY <1>1 DEF Item, Type
<1>2. CASE value # {}
  <2>1. value = Replaced(source[Path[k]].value) /\ Path[k] \in Key /\ Is("string", source[Path[k]])
    BY <1>2 DEF Got
  <2>2. source[Path[k]] \in Content
    BY <2>1 DEF TypeOK, Keyspace, Is
  <2>3. Single(value) /\ value \in SUBSET Text
    BY <2>1, <2>2, ContentFields, ReplacedKeeps DEF Is
  <2> QED
    BY <2>3 DEF Item, Type
<1> QED
  BY <1>1, <1>2

LEMMA ExportJobBase ==
  ASSUME BaseInv, NEW o, NEW keys \in SetToSeqs({k \in Key : source[k] # Gone}), Export(o, keys)
  PROVE  BaseInv'
<1>t. TypeOK
  BY DEF BaseInv
<1>1. keys \in Seq(Key)
  BY KeysOf
<1>2. Begin("export", o) /\ "export" \notin Loads
  BY DEF Export, Loads
<1>3. /\ pc = "idle" /\ todo = <<>> /\ used = {} /\ used' = {"export"} /\ smooth' \in BOOLEAN
      /\ used \cap Loads = {}
  BY <1>2, Begins
<1>4. CASE o = "lost"
  BY <1>t, <1>3, <1>4, ExportBase DEF Export, TypeOK, file
<1>5. CASE o # "lost"
  <2> DEFINE jobs == IF o = "ok" THEN keys ELSE <<>>
  <2>1. jobs \in Seq(Key) /\ Then("get", jobs)
    BY <1>1, <1>5 DEF Export
  <2> HIDE DEF jobs
  <2>2. todo' \in Seq(Key) /\ pc' \in {"idle", "get"} /\ (pc' = "idle" <=> todo' = <<>>)
    BY <2>1, ThenGoes
  <2>3. dump' = <<>> /\ taken' = source /\ fresh' = ToSet(todo') /\ UNCHANGED <<first, second, start>>
    BY <1>5 DEF Export
  <2>4. fresh' \subseteq Key
    BY <2>2, <2>3, InToSet
  <2>5. taken' \in Keyspace /\ dump' \in Seq(Item)
    BY <1>t, <2>3 DEF TypeOK
  <2> QED
    BY <1>3, <2>2, <2>3, <2>4, <2>5, ExportBase
<1> QED
  BY <1>4, <1>5

LEMMA ExportKeyBase ==
  ASSUME BaseInv, NEW o, ExportKey(o)
  PROVE  BaseInv'
<1>t. TypeOK /\ JobInv
  BY DEF BaseInv
<1>1. pc = "get" /\ used = {"export"} /\ dump \in Seq(Item) /\ todo \in Seq(Key) /\ todo # <<>>
  BY <1>t DEF ExportKey, TypeOK, JobInv
<1>2. Head(todo) \in Key /\ Tail(todo) \in Seq(Key)
  BY <1>1, Heads
<1>3. todo' \in Seq(Key) /\ pc' \in {"idle", "get"} /\ (pc' = "idle" <=> todo' = <<>>)
  BY <1>2, ThenGoes DEF ExportKey, Advance
<1>4. dump' \in Seq(Item)
  <2> DEFINE it == [key |-> Head(todo), type |-> "string", ttl |-> NoTTL,
                    value |-> IF o = "ok" THEN Got(Head(todo)) ELSE {}]
  <2>1. it \in Item
    BY <1>t, <1>2, ExportItems
  <2>2. dump' = IF o = "lost" THEN dump ELSE Append(dump, it)
    BY DEF ExportKey
  <2> HIDE DEF it
  <2> QED
    BY <1>1, <2>1, <2>2, AppendProperties
<1>5. fresh' \subseteq Key /\ taken' \in Keyspace /\ smooth' \in BOOLEAN
  BY <1>t DEF ExportKey, Advance, TypeOK
<1>6. UNCHANGED <<first, second, start, used>> /\ used \cap Loads = {}
  BY <1>1 DEF ExportKey, Advance, Loads
<1> QED
  BY <1>1, <1>3, <1>4, <1>5, <1>6, ExportBase

LEMMA ExportCrashBase == BaseInv /\ ExportCrash => BaseInv'
<1> SUFFICES ASSUME BaseInv, ExportCrash PROVE BaseInv'
  OBVIOUS
<1>1. pc' = "idle" /\ todo' = <<>> /\ dump' = None /\ pc = "get"
  BY DEF ExportCrash, Then
<1>2. used \cap Loads = {}
  BY <1>1 DEF BaseInv, JobInv, Loads
<1> QED
  BY <1>1, <1>2, ExportBase DEF ExportCrash, BaseInv, TypeOK

LEMMA ExportDataBase == BaseInv /\ ExportData => BaseInv'
<1> SUFFICES ASSUME BaseInv, ExportData PROVE BaseInv'
  OBVIOUS
<1>t. TypeOK
  BY DEF BaseInv
<1>1. Begin("exportData", "ok") /\ "exportData" \notin Loads
  BY DEF ExportData, Loads
<1>2. /\ pc = "idle" /\ todo = <<>> /\ used = {} /\ used' = {"exportData"} /\ smooth' \in BOOLEAN
      /\ used \cap Loads = {}
  BY <1>1, Begins
<1> DEFINE there == {k \in Key : source[k] # Gone}
           keys == SetToSeq(there)
<1>3. keys \in Seq(there)
  BY KeysOf
<1>4. /\ dump' = [i \in DOMAIN keys |-> [key |-> keys[i], type |-> Passed(source[keys[i]]).type,
                                         value |-> Passed(source[keys[i]]).value,
                                         ttl |-> Passed(source[keys[i]]).ttl]]
      /\ fresh' = ToSet(keys) /\ taken' = source /\ UNCHANGED <<first, second, start, pc, todo>>
  BY DEF ExportData
<1> HIDE DEF keys
<1>5. fresh' \subseteq Key
  BY <1>3, <1>4, InToSet
<1>6. dump' \in Seq(Item)
  <2>1. ASSUME NEW i \in DOMAIN keys PROVE dump'[i] \in Item
    <3>1. keys[i] \in Key /\ source[keys[i]] \in Content
      BY <1>t, <1>3 DEF TypeOK, Keyspace
    <3>2. PICK c \in Content : c = Passed(source[keys[i]])
      BY <3>1, PassedContent
    <3>3. /\ c \in [type : Type, value : SUBSET Text, ttl : {NoTTL, SomeTTL}]
          /\ c.value # {} /\ (c.type = "string" => Single(c.value))
      BY ContentFields
    <3> QED
      BY <1>4, <3>1, <3>2, <3>3 DEF Item
  <2> QED
    BY <1>3, <1>4, <2>1
<1> QED
  BY <1>t, <1>2, <1>4, <1>5, <1>6, ExportBase DEF TypeOK

LEMMA SendBase ==
  ASSUME BaseInv, NEW job \in {"import", "seed"}, NEW o, NEW cmds \in Seq(Request), Send(job, cmds, o)
  PROVE  BaseInv'
<1> DEFINE jobs == IF o = "ok" THEN cmds ELSE <<>>
<1>1. jobs \in Seq(Request) /\ Then("import", jobs) /\ Begin(job, o) /\ job \in Loads
  BY DEF Send, Loads
<1> HIDE DEF jobs
<1> QED
  BY <1>1, BeginBase DEF Send, BaseInv, TypeOK, first, file

\* What import sends of a dump.
LEMMA SentOfDump ==
  ASSUME TypeOK, dump # None
  PROVE  [i \in DOMAIN dump |-> [op |-> "set", key |-> dump[i].key, text |-> Sprint(dump[i])]] \in Seq(Request)
<1> DEFINE cmds == [i \in DOMAIN dump |-> [op |-> "set", key |-> dump[i].key, text |-> Sprint(dump[i])]]
<1>1. dump \in Seq(Item)
  BY DEF TypeOK
<1>2. ASSUME NEW i \in DOMAIN dump PROVE cmds[i] \in Request
  <2>1. dump[i] \in Item
    BY <1>1
  <2> QED
    BY <2>1, SprintIsText DEF Request, Item
<1> QED
  BY <1>1, <1>2

\* One request of the list at hand.
LEMMA OneLoaded ==
  ASSUME BaseInv, NEW o, NEW p \in {"import", "restore", "replay"},
         pc = p \/ (pc = "expire" /\ p = "restore"), Advance(p, o),
         UNCHANGED <<source, session, pending, issued, clean, dump, taken, fresh>>,
         target' \in Keyspace, loaded' \subseteq Key
  PROVE  BaseInv'
<1> DEFINE S == IF p = "restore" THEN Item ELSE Request
<1>1. todo \in Seq(S) /\ todo # <<>>
  BY DEF BaseInv, TypeOK
<1>2. Tail(todo) \in Seq(S) /\ Then(p, Tail(todo)) /\ smooth' \in BOOLEAN /\ UNCHANGED <<start, used>>
  BY <1>1, Heads DEF Advance, BaseInv, TypeOK
<1>3. used \cap Loads # {} /\ (p = "import" => "import" \in used \/ "seed" \in used)
      /\ (p \in {"restore", "replay"} => p \in used) /\ clean' \in BOOLEAN
  BY DEF BaseInv, JobInv, TypeOK, Loads
<1> QED
  BY <1>2, <1>3, LoadBase

LEMMA ImportSetBase == ASSUME BaseInv, NEW o, ImportSet(o) PROVE BaseInv'
<1>t. TypeOK
  BY DEF BaseInv
<1>1. Head(todo) \in Request /\ pc = "import"
  BY <1>t, Heads DEF ImportSet, TypeOK
<1>2. Apply(target, Head(todo)) \in Keyspace /\ Head(todo).key \in Key
  BY <1>t, <1>1, ApplyLocal DEF TypeOK, Request
<1>3. target' \in Keyspace /\ loaded' \subseteq Key
  BY <1>t, <1>2 DEF ImportSet, TypeOK, second
<1> QED
  BY <1>1, <1>3, OneLoaded DEF ImportSet, first, file

LEMMA ReplayLineBase == ASSUME BaseInv, NEW o, ReplayLine(o) PROVE BaseInv'
<1>t. TypeOK
  BY DEF BaseInv
<1>1. Head(todo) \in Request /\ pc = "replay"
  BY <1>t, Heads DEF ReplayLine, TypeOK
<1>2. Apply(target, Head(todo)) \in Keyspace
  BY <1>t, <1>1, ApplyLocal DEF TypeOK
<1>3. target' \in Keyspace /\ loaded' \subseteq Key
  BY <1>t, <1>2 DEF ReplayLine, TypeOK
<1> QED
  BY <1>1, <1>3, OneLoaded DEF ReplayLine, first, file

LEMMA RestoreItemBase == ASSUME BaseInv, RestoreItem PROVE BaseInv'
<1>t. TypeOK /\ JobInv
  BY DEF BaseInv
<1> DEFINE it == Head(todo)
<1>1. it \in Item /\ pc = "restore" /\ ~Unfit(it) /\ todo \in Seq(Item) /\ todo # <<>>
  BY <1>t, Heads DEF RestoreItem, TypeOK
<1>2. Written(it) \in Keyspace /\ Written(it)[it.key] # Gone /\ it.key \in Key
  BY <1>t, <1>1, WrittenAt DEF TypeOK, Item
<1>3. target' = Written(it) /\ loaded' = loaded \cup {it.key} /\ UNCHANGED <<first, file>>
  BY DEF RestoreItem
<1>4. target' \in Keyspace /\ loaded' \subseteq Key
  BY <1>t, <1>2, <1>3 DEF TypeOK
<1>5. CASE it.ttl > 0
  <2>1. pc' = "expire" /\ UNCHANGED <<start, todo, used, smooth>>
    BY <1>5 DEF RestoreItem
  <2>2. TypeOK'
    BY <1>t, <1>1, <1>3, <1>4, <2>1 DEF TypeOK, first, file
  <2>3. it' = it /\ used \cap Loads # {} /\ "restore" \in used
    BY <1>t, <1>1, <2>1 DEF JobInv, Loads
  <2>4. JobInv'
    BY <1>t, <1>2, <1>3, <1>5, <2>1, <2>3 DEF JobInv
  <2> QED
    BY <2>2, <2>4 DEF BaseInv
<1>6. CASE ~(it.ttl > 0)
  BY <1>1, <1>3, <1>4, <1>6, OneLoaded DEF RestoreItem, first, file
<1> QED
  BY <1>5, <1>6

LEMMA RestoreStopsBase == ASSUME BaseInv, NEW o, RestoreStops(o) PROVE BaseInv'
<1>t. TypeOK
  BY DEF BaseInv
<1> DEFINE it == Head(todo)
<1>1. it \in Item /\ it.key \in Key /\ pc = "restore" /\ smooth' \in BOOLEAN
  BY <1>t, Heads DEF RestoreStops, TypeOK, Item
<1>2. target' \in Keyspace /\ loaded' \subseteq Key
  BY <1>t, <1>1, WrittenAt DEF RestoreStops, TypeOK, second
<1>3. pc' = "idle" /\ todo' = <<>> /\ UNCHANGED <<first, start, used, file>>
  BY DEF RestoreStops, Then
<1>4. TypeOK'
  BY <1>t, <1>1, <1>2, <1>3 DEF TypeOK, first, file
<1>5. JobInv'
  BY <1>1, <1>3 DEF BaseInv, JobInv, Loads
<1> QED
  BY <1>4, <1>5 DEF BaseInv

LEMMA RestoreExpireBase == ASSUME BaseInv, NEW o, RestoreExpire(o) PROVE BaseInv'
<1>t. TypeOK /\ JobInv
  BY DEF BaseInv
<1>1. Head(todo) \in Item /\ pc = "expire" /\ Head(todo).key \in Key /\ target[Head(todo).key] # Gone
  BY <1>t, Heads DEF RestoreExpire, TypeOK, JobInv, Item
<1>2. target' \in Keyspace /\ loaded' \subseteq Key
  BY <1>t, <1>1, ExpireKeeps DEF RestoreExpire, TypeOK
<1> QED
  BY <1>1, <1>2, OneLoaded DEF RestoreExpire, first, file

LEMMA JobsBase == BaseInv /\ Jobs => BaseInv'
<1> SUFFICES ASSUME BaseInv, Jobs PROVE BaseInv'
  OBVIOUS
<1>t. TypeOK
  BY DEF BaseInv
<1>1. ASSUME NEW o, Import(o) PROVE BaseInv'
  BY <1>t, <1>1, SentOfDump, SendBase DEF Import
<1>2. ASSUME NEW o, Seed(o) PROVE BaseInv'
  BY <1>2, ToolAssumption, SendBase DEF Seed
<1>3. ASSUME Restore PROVE BaseInv'
  <2>1. dump \in Seq(Item) /\ "restore" \in Loads
    BY <1>t, <1>3 DEF Restore, TypeOK, Loads
  <2> QED
    BY <1>t, <1>3, <2>1, BeginBase DEF Restore, TypeOK, first, file
<1>4. ASSUME Replay PROVE BaseInv'
  <2>1. session \in Seq(Request) /\ "replay" \in Loads
    BY <1>t, ToolAssumption DEF TypeOK, Loads
  <2>2. taken' \in Keyspace /\ clean' \in BOOLEAN
    BY <1>t, <1>4 DEF Replay, TypeOK
  <2> QED
    BY <1>t, <1>4, <2>1, <2>2, BeginBase DEF Replay
<1> QED
  BY <1>1, <1>2, <1>3, <1>4, ExportJobBase, ExportKeyBase, ExportCrashBase, ExportDataBase, ImportSetBase,
     ReplayLineBase, RestoreItemBase, RestoreStopsBase, RestoreExpireBase DEF Jobs

\* The type invariant, with what the tool may be doing.
THEOREM ToolBase == Spec => []BaseInv
<1>1. BaseInv /\ UNCHANGED vars => BaseInv'
  BY DEF BaseInv, TypeOK, JobInv, vars, first, second, file
<1> QED
  BY <1>1, BaseInit, ClientsBase, JobsBase, PTL DEF Spec, Next

\* The type invariant of the two servers and the tool.
THEOREM ToolTypeCorrect == Spec => []TypeOK
<1>1. BaseInv => TypeOK
  BY DEF BaseInv
<1> QED
  BY <1>1, ToolBase, PTL

-----------------------------------------------------------------------------
(* Replay                                                                  *)

Empty == [k \in Key |-> Gone]
Waits(c) == pending[c] # None

\* h[n] is what the first n lines of the session make of an empty keyspace.
Played(h) ==
  /\ h \in [0..Len(session) -> Keyspace] /\ h[0] = Empty
  /\ \A n \in 1..Len(session) : h[n] = Apply(h[n - 1], session[n])

\* db is what JSON leaves of what the first server will hold once every command
\* that waits has run: they are for different keys, so the order does not matter.
Ahead(db) ==
  /\ \A c, d \in Client : Waits(c) /\ Waits(d) /\ pending[c].key = pending[d].key => c = d
  /\ \A c \in Client : Waits(c) => db[pending[c].key] = Passed(Apply(source, pending[c])[pending[c].key])
  /\ \A k \in Key : (\A c \in Client : Waits(c) => pending[c].key # k) => db[k] = Passed(source[k])

\* The replay has come as far in h as its list is shorter than the session.
Reached(h) ==
  LET n == Len(session) - Len(todo) IN
  /\ n >= 0 /\ target = h[n]
  /\ \A i \in 1..Len(todo) : todo[i] = session[n + i]

Replayed(h) ==
  /\ \A c \in Client : ~Waits(c)
  /\ PassedAll(taken) = h[Len(session)]
  /\ smooth /\ start = Empty => Reached(h)

PlayInv ==
  clean => \E h : /\ Played(h)
                  /\ used \cap Loads = {} => Ahead(h[Len(session)])
                  /\ "replay" \in used => Replayed(h)

LEMMA EmptyKeyspace == Empty \in Keyspace
  BY DEF Empty, Keyspace

LEMMA PlayInit == Init => PlayInv
<1> SUFFICES ASSUME Init PROVE PlayInv
  OBVIOUS
<1> DEFINE h == [n \in 0..0 |-> Empty]
<1>1. session = <<>> /\ Len(session) = 0 /\ h[0] = Empty /\ source = Empty
  BY DEF Init, Empty
<1>2. Played(h)
  BY <1>1, EmptyKeyspace DEF Played
<1>3. \A c \in Client : ~Waits(c)
  BY DEF Init, Waits
<1>4. Ahead(h[0])
  BY <1>1, <1>3 DEF Ahead, Empty, Passed
<1>5. used = {}
  BY DEF Init
<1> HIDE DEF h
<1> QED
  BY <1>1, <1>2, <1>4, <1>5 DEF PlayInv

\* The command a client is to run next, appended to the session.
LEMMA RecordPlays ==
  ASSUME TypeOK, PlayInv, NEW c \in Client, NEW cmd \in Command, Record(c, cmd) PROVE PlayInv'
<1> SUFFICES ASSUME clean' PROVE PlayInv'
  BY DEF PlayInv
<1>1. /\ clean /\ \A d \in Client : Waits(d) => pending[d].key # cmd.key
      /\ used \cap Loads = {} /\ ~Waits(c)
      /\ session' = Append(session, Line(cmd)) /\ pending' = [pending EXCEPT ![c] = cmd]
      /\ used' = used /\ source' = source
  BY DEF Record, Issue, Waits, Appended
<1> DEFINE N == Len(session)
<1>2. PICK h : Played(h) /\ Ahead(h[N])
  BY <1>1 DEF PlayInv
<1>l. PICK line \in Request : line = Line(cmd) /\ line.key = cmd.key
  BY ToolAssumption, LineIsRequest
<1>3. /\ cmd \in Request /\ cmd # None /\ cmd.key \in Key /\ N \in Nat
      /\ session' \in Seq(Request) /\ Len(session') = N + 1 /\ session'[N + 1] = line
      /\ \A n \in 1..N : session'[n] = session[n]
  BY <1>1, <1>l, ToolAssumption, AppendProperties DEF TypeOK, Request
<1>4. h[N] \in Keyspace /\ source \in Keyspace
  BY <1>2, <1>3 DEF Played, TypeOK
<1>n. PICK next : next = Apply(h[N], line)
  OBVIOUS
<1>g. PICK g : g = [n \in 0..(N + 1) |-> IF n <= N THEN h[n] ELSE next]
  OBVIOUS
<1>5. /\ next \in Keyspace /\ \A j \in Key \ {cmd.key} : next[j] = h[N][j]
      /\ next[cmd.key] = Passed(Apply(source, cmd)[cmd.key])
  <2>1. Passed(source[cmd.key]) = h[N][cmd.key]
    BY <1>1, <1>2, <1>3 DEF Ahead
  <2>2. PICK far \in Keyspace : far = PassedAll(source) /\ far[cmd.key] = Passed(source[cmd.key])
    BY <1>3, <1>4, PassedKeyspace
  <2>3. Apply(far, line)[cmd.key] = next[cmd.key]
    BY <1>4, <1>l, <1>n, <2>1, <2>2, ApplyAgrees
  <2>4. Apply(far, line)[cmd.key] = Passed(Apply(source, cmd)[cmd.key])
    BY <1>3, <1>4, <1>l, <2>2, PassedApply
  <2>5. next \in Keyspace /\ \A j \in Key \ {cmd.key} : next[j] = h[N][j]
    BY <1>4, <1>l, <1>n, ApplyLocal
  <2> QED
    BY <2>3, <2>4, <2>5
<1>6. Played(g)'
  <2>1. g \in [0..Len(session') -> Keyspace] /\ g[0] = Empty
    BY <1>2, <1>3, <1>5, <1>g DEF Played
  <2>2. ASSUME NEW n \in 1..Len(session') PROVE g[n] = Apply(g[n - 1], session'[n])
    BY <1>2, <1>3, <1>n, <1>g DEF Played
  <2> QED
    BY <2>1, <2>2 DEF Played
<1>7. g[Len(session')] = next
  BY <1>3, <1>g
<1>8. Ahead(next)'
  <2>1. \A d \in Client : Waits(d)' <=> (Waits(d) \/ d = c)
    BY <1>1, <1>3 DEF Waits, TypeOK
  <2>2. \A d \in Client \ {c} : pending'[d] = pending[d]
    BY <1>1
  <2>3. pending'[c] = cmd
    BY <1>1 DEF TypeOK
  <2>4. \A d \in Client : Waits(d) => d # c /\ pending[d].key # cmd.key /\ pending[d].key \in Key
    BY <1>1, ToolAssumption DEF TypeOK, Waits, Request
  <2>5. \A d, e \in Client : Waits(d)' /\ Waits(e)' /\ pending'[d].key = pending'[e].key => d = e
    BY <1>2, <2>1, <2>2, <2>3, <2>4 DEF Ahead
  <2>6. \A d \in Client : Waits(d)' => next[pending'[d].key] = Passed(Apply(source, pending'[d])[pending'[d].key])
    BY <1>2, <1>5, <2>1, <2>2, <2>3, <2>4 DEF Ahead
  <2>7. ASSUME NEW k \in Key, \A d \in Client : Waits(d)' => pending'[d].key # k
        PROVE  next[k] = Passed(source[k])
    <3>1. k # cmd.key
      BY <2>1, <2>3, <2>7
    <3>2. \A d \in Client : Waits(d) => pending[d].key # k
      BY <2>1, <2>2, <2>4, <2>7
    <3> QED
      BY <1>2, <1>5, <3>1, <3>2 DEF Ahead
  <2> QED
    BY <1>1, <2>5, <2>6, <2>7 DEF Ahead
<1>9. "replay" \notin used'
  BY <1>1 DEF Loads
<1> QED
  BY <1>6, <1>7, <1>8, <1>9 DEF PlayInv

\* A command that runs brings its key to where the session has it, and leaves
\* those that wait for other keys what they were to find.
LEMMA RunPlays ==
  ASSUME TypeOK, PlayInv, NEW c \in Client, Run(c) PROVE PlayInv'
<1> SUFFICES ASSUME clean' PROVE PlayInv'
  BY DEF PlayInv
<1>1. /\ clean /\ Waits(c) /\ source' = Apply(source, pending[c])
      /\ pending' = [pending EXCEPT ![c] = None]
      /\ UNCHANGED <<session, used>>
  BY DEF Run, Waits, Execute
<1>2. PICK h : /\ Played(h)
               /\ used \cap Loads = {} => Ahead(h[Len(session)])
               /\ "replay" \in used => Replayed(h)
  BY <1>1 DEF PlayInv
<1>3. "replay" \notin used
  BY <1>1, <1>2 DEF Replayed
<1>4. Played(h)'
  BY <1>1, <1>2 DEF Played
<1>5. PICK db : db = h[Len(session)]
  OBVIOUS
<1>6. ASSUME used \cap Loads = {} PROVE Ahead(db)'
  <2>0. Ahead(db)
    BY <1>2, <1>5, <1>6
  <2>1. /\ source \in Keyspace
        /\ \A d \in Client : Waits(d) => pending[d] \in Request /\ pending[d].key \in Key
    BY ToolAssumption DEF TypeOK, Waits, Request
  <2>2. /\ source' \in Keyspace
        /\ \A j \in Key \ {pending[c].key} : source'[j] = source[j]
    BY <1>1, <2>1, ApplyLocal
  <2>3. \A d \in Client : Waits(d)' <=> (Waits(d) /\ d # c)
    BY <1>1 DEF Waits, TypeOK
  <2>4. \A d \in Client \ {c} : pending'[d] = pending[d]
    BY <1>1
  <2>5. \A d, e \in Client : Waits(d)' /\ Waits(e)' /\ pending'[d].key = pending'[e].key => d = e
    BY <2>0, <2>3, <2>4 DEF Ahead
  <2>6. ASSUME NEW d \in Client, Waits(d)'
        PROVE  db[pending'[d].key] = Passed(Apply(source', pending'[d])[pending'[d].key])
    <3>1. d # c /\ Waits(d) /\ pending'[d] = pending[d]
      BY <2>3, <2>4, <2>6
    <3>2. pending[d].key # pending[c].key
      BY <1>1, <2>0, <3>1 DEF Ahead
    <3>3. source'[pending[d].key] = source[pending[d].key]
      BY <2>1, <2>2, <3>1, <3>2
    <3>4. Apply(source', pending[d])[pending[d].key] = Apply(source, pending[d])[pending[d].key]
      BY <2>1, <2>2, <3>1, <3>3, ApplyAgrees
    <3> QED
      BY <2>0, <3>1, <3>4 DEF Ahead
  <2>7. ASSUME NEW k \in Key, \A d \in Client : Waits(d)' => pending'[d].key # k
        PROVE  db[k] = Passed(source'[k])
    <3>1. CASE k = pending[c].key
      BY <1>1, <2>0, <3>1 DEF Ahead
    <3>2. CASE k # pending[c].key
      <4>1. \A d \in Client : Waits(d) => pending[d].key # k
        BY <2>3, <2>4, <2>7, <3>2
      <4> QED
        BY <2>0, <2>2, <3>2, <4>1 DEF Ahead
    <3> QED
      BY <3>1, <3>2
  <2> QED
    BY <2>5, <2>6, <2>7 DEF Ahead
<1>7. used' \cap Loads = {} => Ahead(h[Len(session)])'
  <2>1. h[Len(session')] = db
    BY <1>1, <1>5
  <2> QED
    BY <1>1, <1>6, <2>1
<1> QED
  BY <1>1, <1>3, <1>4, <1>7 DEF PlayInv

\* A job that neither replays nor ends a replay.
LEMMA PlayStays ==
  ASSUME PlayInv, clean' => clean, UNCHANGED <<session, pending, source>>,
         "replay" \notin used', used \subseteq used'
  PROVE  PlayInv'
<1> SUFFICES ASSUME clean' PROVE PlayInv'
  BY DEF PlayInv
<1>1. PICK h : Played(h) /\ (used \cap Loads = {} => Ahead(h[Len(session)]))
  BY DEF PlayInv
<1>2. Played(h)'
  BY <1>1 DEF Played
<1>3. used' \cap Loads = {} => Ahead(h[Len(session)])'
  BY <1>1 DEF Ahead, Waits
<1> QED
  BY <1>2, <1>3 DEF PlayInv

\* Nobody waits, so the first server is where the session leads.
LEMMA ReplayPlays ==
  ASSUME BaseInv, PlayInv, Replay PROVE PlayInv'
<1> SUFFICES ASSUME clean' PROVE PlayInv'
  BY DEF PlayInv
<1>t. TypeOK
  BY DEF BaseInv
<1>1. /\ clean /\ \A c \in Client : ~Waits(c)
      /\ Begin("replay", "ok") /\ todo' = session /\ taken' = source
      /\ UNCHANGED <<source, session, pending, target, start>>
  BY DEF Replay, Waits, Then, second
<1>2. used \cap Loads = {} /\ target = start /\ used' = used \cup {"replay"}
  BY <1>1, Begins
<1>3. PICK h : Played(h) /\ Ahead(h[Len(session)])
  BY <1>1, <1>2 DEF PlayInv
<1>4. Played(h)'
  BY <1>1, <1>3 DEF Played
<1>5. h[Len(session)] = PassedAll(source)
  <2>1. h[Len(session)] \in Keyspace /\ source \in Keyspace
    BY <1>t, <1>3 DEF Played, TypeOK
  <2>2. \A k \in Key : h[Len(session)][k] = Passed(source[k])
    BY <1>1, <1>3 DEF Ahead
  <2> QED
    BY <2>1, <2>2 DEF Keyspace, PassedAll
<1>6. Replayed(h)'
  <2>1. (\A c \in Client : ~Waits(c))' /\ PassedAll(taken') = h[Len(session')]
    BY <1>1, <1>5 DEF Waits
  <2>2. start' = Empty => Reached(h)'
    <3>1. Len(session') - Len(todo') = 0 /\ h[0] = Empty /\ Len(session) \in Nat
      BY <1>t, <1>1, <1>3 DEF Played, TypeOK
    <3> QED
      BY <1>1, <1>2, <3>1 DEF Reached
  <2> QED
    BY <2>1, <2>2 DEF Replayed, Empty
<1>7. used' \cap Loads # {}
  BY <1>2 DEF Loads
<1> QED
  BY <1>4, <1>6, <1>7 DEF PlayInv

\* One line further.
LEMMA ReplayLinePlays ==
  ASSUME BaseInv, PlayInv, NEW o, ReplayLine(o) PROVE PlayInv'
<1> SUFFICES ASSUME clean' PROVE PlayInv'
  BY DEF PlayInv
<1>t. TypeOK /\ JobInv
  BY DEF BaseInv
<1>1. /\ pc = "replay" /\ todo' = Tail(todo) /\ (smooth' => smooth /\ target' = Apply(target, Head(todo)))
      /\ UNCHANGED <<source, session, pending, clean, start, used, taken>>
  BY DEF ReplayLine, Advance, Then, first, file
<1>2. clean /\ "replay" \in used
  BY <1>t, <1>1 DEF JobInv
<1>3. PICK h : Played(h) /\ Replayed(h)
  BY <1>2 DEF PlayInv
<1>4. Played(h)'
  BY <1>1, <1>3 DEF Played
<1>5. ASSUME smooth', start = Empty PROVE Reached(h)'
  <2>1. Reached(h)
    BY <1>1, <1>3, <1>5 DEF Replayed
  <2>2. todo \in Seq(Request) /\ todo # <<>> /\ Len(session) \in Nat
    BY <1>t, <1>1 DEF TypeOK
  <2>3. /\ Len(todo) \in Nat \ {0} /\ Len(Tail(todo)) = Len(todo) - 1 /\ Head(todo) = todo[1]
        /\ \A i \in 1..(Len(todo) - 1) : Tail(todo)[i] = todo[i + 1]
    BY <2>2
  <2> DEFINE n == Len(session) - Len(todo)
  <2>4. n \in Nat /\ n + 1 \in 1..Len(session) /\ target = h[n] /\ todo[1] = session[n + 1]
    BY <2>1, <2>2, <2>3 DEF Reached
  <2>5. target' = h[n + 1]
    BY <1>1, <1>3, <1>5, <2>3, <2>4 DEF Played
  <2>6. Len(session') - Len(todo') = n + 1
    BY <1>1, <2>2, <2>3
  <2>7. \A i \in 1..Len(todo') : todo'[i] = session'[n + 1 + i]
    BY <1>1, <2>1, <2>2, <2>3 DEF Reached
  <2> QED
    BY <2>4, <2>5, <2>6, <2>7 DEF Reached
<1>6. Replayed(h)'
  BY <1>1, <1>3, <1>5 DEF Replayed, Waits, Empty
<1>7. used' \cap Loads # {}
  BY <1>1, <1>2 DEF Loads
<1> QED
  BY <1>4, <1>6, <1>7 DEF PlayInv

LEMMA PlayStep == BaseInv /\ PlayInv /\ [Next]_vars => PlayInv'
<1> SUFFICES ASSUME BaseInv, PlayInv, [Next]_vars PROVE PlayInv'
  OBVIOUS
<1>t. TypeOK /\ JobInv
  BY DEF BaseInv
<1>1. ASSUME NEW c \in Client, RunFails(c) PROVE PlayInv'
  BY <1>1 DEF RunFails, PlayInv
<1>2. ASSUME NEW cmd \in Command, RunUnrecorded(cmd) PROVE PlayInv'
  BY <1>2 DEF RunUnrecorded, PlayInv
<1>3. ASSUME NEW job, NEW o, Begin(job, o), job # "replay", UNCHANGED first PROVE PlayInv'
  <2>1. "replay" \notin used' /\ used \subseteq used'
    BY <1>3, Begins DEF Loads
  <2> QED
    BY <1>3, <2>1, PlayStays DEF first
<1>4. ASSUME UNCHANGED <<first, used>>, "replay" \notin used PROVE PlayInv'
  BY <1>4, PlayStays DEF first
<1>5. ASSUME NEW o, NEW keys, Export(o, keys) PROVE PlayInv'
  BY <1>3, <1>5 DEF Export
<1>6. ASSUME NEW o, ExportKey(o) PROVE PlayInv'
  BY <1>t, <1>4, <1>6 DEF ExportKey, Advance, JobInv
<1>7. ASSUME ExportCrash PROVE PlayInv'
  BY <1>t, <1>4, <1>7 DEF ExportCrash, JobInv
<1>8. ASSUME ExportData PROVE PlayInv'
  BY <1>3, <1>8 DEF ExportData
<1>9. ASSUME NEW o, Import(o) \/ Seed(o) PROVE PlayInv'
  BY <1>3, <1>9 DEF Import, Seed, Send
<1>10. ASSUME Restore PROVE PlayInv'
  BY <1>3, <1>10 DEF Restore
<1>11. pc \in {"import", "restore", "expire"} => "replay" \notin used
  BY <1>t DEF JobInv, Loads
<1>12. ASSUME NEW o, ImportSet(o) PROVE PlayInv'
  BY <1>4, <1>11, <1>12 DEF ImportSet, Advance
<1>13. ASSUME RestoreItem PROVE PlayInv'
  BY <1>4, <1>11, <1>13 DEF RestoreItem, Advance
<1>14. ASSUME NEW o, RestoreStops(o) PROVE PlayInv'
  BY <1>4, <1>11, <1>14 DEF RestoreStops
<1>15. ASSUME NEW o, RestoreExpire(o) PROVE PlayInv'
  BY <1>4, <1>11, <1>15 DEF RestoreExpire, Advance
<1>16. ASSUME UNCHANGED vars PROVE PlayInv'
  <2> SUFFICES ASSUME clean PROVE PlayInv'
    BY <1>16 DEF PlayInv, vars, first
  <2>1. PICK h : /\ Played(h)
                 /\ used \cap Loads = {} => Ahead(h[Len(session)])
                 /\ "replay" \in used => Replayed(h)
    BY DEF PlayInv
  <2>2. Played(h)' /\ (used' \cap Loads = {} => Ahead(h[Len(session)])') /\ ("replay" \in used' => Replayed(h)')
    BY <1>16, <2>1 DEF Played, Ahead, Replayed, Reached, Waits, Empty, vars, first, second, file
  <2> QED
    BY <2>2 DEF PlayInv
<1>17. CASE Clients
  BY <1>t, <1>1, <1>2, <1>17, RecordPlays, RunPlays DEF Clients
<1>18. CASE Jobs
  BY <1>5, <1>6, <1>7, <1>8, <1>9, <1>10, <1>12, <1>13, <1>14, <1>15, <1>18, ReplayPlays, ReplayLinePlays DEF Jobs
<1> QED
  BY <1>16, <1>17, <1>18 DEF Next

\* A session whose commands for a key did not overlap, that all ran and no other
\* beside them, takes an empty server to what JSON leaves of the state it led the
\* first one to: each waits for a key of its own, a command depends on its key
\* only, and its line does to what is left of the key what it did to the key
\* (recorder.go:25-41, commands.go:30-48, replay in main.go:99-127 of
\* cmd/upstash-local).
THEOREM SessionsReplay == Spec => []ReplayAgrees
<1>1. BaseInv /\ PlayInv => ReplayAgrees
  <2> SUFFICES ASSUME BaseInv, PlayInv, Done({"replay"}), clean, smooth, \A k \in Key : start[k] = Gone
               PROVE  target = PassedAll(taken)
    BY DEF ReplayAgrees
  <2>1. "replay" \in used /\ todo = <<>> /\ start \in Keyspace /\ Len(session) \in Nat
    BY DEF Done, BaseInv, TypeOK
  <2>2. start = Empty
    BY <2>1 DEF Keyspace, Empty
  <2>3. PICK h : Replayed(h)
    BY <2>1 DEF PlayInv
  <2>4. Reached(h) /\ PassedAll(taken) = h[Len(session)]
    BY <2>2, <2>3 DEF Replayed
  <2> QED
    BY <2>1, <2>4 DEF Reached
<1> QED
  BY <1>1, PlayInit, PlayStep, ToolBase, PTL DEF Spec

-----------------------------------------------------------------------------
(* Dump and import                                                         *)

Plain(k) == Is("string", taken[k]) /\ Path[k] = k

\* What JSON leaves of a key.
Sent(k) == Passed(taken[k])

LEMMA SentKeeps ==
  ASSUME taken \in Keyspace, NEW k \in Key
  PROVE  /\ Sent(k) \in Content \cup {Gone} /\ (Sent(k) = Gone <=> taken[k] = Gone)
         /\ taken[k] # Gone => Sent(k).type = taken[k].type /\ Sent(k).value = Replaced(taken[k].value)
<1>1. CASE taken[k] = Gone
  BY <1>1 DEF Sent, Passed
<1>2. CASE taken[k] # Gone
  <2>1. taken[k] \in Content
    BY <1>2 DEF Keyspace
  <2> QED
    BY <1>2, <2>1, PassedContent DEF Sent
<1> QED
  BY <1>1, <1>2

\* What an item says of a key that has not changed, and a SET made of one.
ItemAt(it) ==
  it.key \in fresh =>
    /\ Plain(it.key) => it.type = "string" /\ it.value = Sent(it.key).value
    /\ "exportData" \in used => Sent(it.key) # Gone /\ Sent(it.key) = Entry(it.type, it.value, it.ttl)
SetAt(cmd) ==
  cmd.op = "set" /\ (cmd.key \in fresh /\ Plain(cmd.key) => Sent(cmd.key).value = {cmd.text})

FileInv ==
  /\ dump # None \/ pc = "get" => \A i \in DOMAIN dump : ItemAt(dump[i])
  /\ pc = "get" => \A k \in fresh \cap ToSet(todo) : source[k] = taken[k]

ListInv ==
  /\ pc = "import" => \A i \in DOMAIN todo : SetAt(todo[i])
  /\ pc \in {"restore", "expire"} => \A i \in DOMAIN todo : ItemAt(todo[i])

\* What the second server has of a key that was written, which may be about to
\* expire.
Written1(k) == Is("string", target[k]) /\ target[k].value = Sent(k).value
Mixed(k)    == Is("hash", taken[k]) /\ start[k] # Gone
Whole(k)    == target[k] = Sent(k)
Timeless(k) == target[k] # Gone /\ target[k].type = Sent(k).type /\ target[k].value = Sent(k).value
Restoring   == {"exportData", "restore"} \subseteq used /\ smooth

LoadedAt(k) ==
  /\ Plain(k) => Written1(k)
  /\ Restoring /\ ~Is("list", taken[k]) =>
       Mixed(k) \/ Whole(k) \/ (pc = "expire" /\ Head(todo).key = k /\ Timeless(k))

TargetInv ==
  /\ \A k \in Key \ loaded : target[k] = start[k]
  /\ \A k \in fresh \cap loaded : LoadedAt(k)

\* Neither a replay nor a seed is about a dump.
Other == used \cap {"replay", "seed"} # {}

CarryInv == Other \/ (FileInv /\ ListInv /\ TargetInv)

LEMMA CarryInit == Init => CarryInv
<1> SUFFICES ASSUME Init PROVE FileInv /\ ListInv /\ TargetInv
  BY DEF CarryInv
<1> QED
  BY DEF Init, FileInv, ListInv, TargetInv

\* A client can only make a key stale, and not one that is still to be read.
LEMMA ClientCarries ==
  ASSUME BaseInv, CarryInv, UNCHANGED <<second, start, pc, todo, used, smooth, dump, taken>>,
         fresh' \subseteq fresh,
         pc = "get" => \A k \in fresh' \cap ToSet(todo) : source'[k] = source[k]
  PROVE  CarryInv'
<1> SUFFICES ASSUME ~Other PROVE FileInv' /\ ListInv' /\ TargetInv'
  BY DEF CarryInv, Other
<1>1. FileInv'
  BY DEF CarryInv, FileInv, ItemAt, Plain, Sent
<1>2. ListInv'
  BY DEF CarryInv, ListInv, ItemAt, SetAt, Plain, Sent
<1>3. TargetInv'
  BY DEF CarryInv, TargetInv, LoadedAt, Plain, Written1, Mixed, Whole, Timeless, Restoring, Sent, second
<1> QED
  BY <1>1, <1>2, <1>3

LEMMA ClientsCarry == BaseInv /\ CarryInv /\ Clients => CarryInv'
<1> SUFFICES ASSUME BaseInv, CarryInv, Clients PROVE CarryInv'
  OBVIOUS
<1>t. TypeOK
  BY DEF BaseInv
<1>1. ASSUME NEW cmd \in Command, Execute(cmd) PROVE CarryInv'
  <2>1. cmd \in Request /\ source \in Keyspace /\ cmd.key \in Key
    BY <1>t, ToolAssumption DEF TypeOK, Request
  <2>2. \A j \in Key \ {cmd.key} : source'[j] = source[j]
    BY <1>1, <2>1, ApplyLocal DEF Execute
  <2>3. fresh' \subseteq fresh /\ fresh \subseteq Key
        /\ (pc = "get" => cmd.key \notin fresh' \cap ToSet(todo))
    BY <1>t, <1>1 DEF Execute, TypeOK
  <2> QED
    BY <1>1, <2>2, <2>3, ClientCarries DEF Execute
<1>2. ASSUME NEW c \in Client, Run(c) PROVE CarryInv'
  BY <1>t, <1>1, <1>2 DEF Run, TypeOK
<1>3. ASSUME NEW c \in Client, RunFails(c) PROVE CarryInv'
  BY <1>3, ClientCarries DEF RunFails, file
<1>4. ASSUME NEW c \in Client, NEW cmd \in Command, Record(c, cmd) PROVE CarryInv'
  BY <1>4, ClientCarries DEF Record, file
<1> QED
  BY <1>1, <1>2, <1>3, <1>4 DEF Clients, RunUnrecorded

\* An export begins before anything was loaded.
LEMMA NothingLoaded ==
  ASSUME BaseInv, used \cap Loads = {}, UNCHANGED <<second, start>>
  PROVE  TargetInv'
BY DEF BaseInv, JobInv, TargetInv, second

LEMMA ExportCarries ==
  ASSUME BaseInv, CarryInv, NEW o, NEW keys, Export(o, keys)
  PROVE  CarryInv'
<1>1. Begin("export", o) /\ "export" \notin Loads /\ UNCHANGED <<first, second, start>>
  BY DEF Export, Loads
<1>2. used = {} /\ used' = {"export"} /\ pc = "idle" /\ used \cap Loads = {}
  BY <1>1, Begins
<1>3. CarryInv => FileInv
  BY <1>2 DEF CarryInv, Other
<1>4. CASE o = "lost"
  <2>1. FileInv'
    BY <1>2, <1>3, <1>4 DEF Export, FileInv, ItemAt, Plain, Sent, file
  <2>2. ListInv'
    BY <1>2, <1>4 DEF Export, ListInv
  <2> QED
    BY <1>1, <1>2, <2>1, <2>2, NothingLoaded DEF CarryInv
<1>5. CASE o # "lost"
  <2>1. dump' = <<>> /\ taken' = source /\ source' = source /\ pc' \in {"get", "idle"}
    BY <1>1, <1>5 DEF Export, Then, first
  <2>2. FileInv' /\ ListInv'
    BY <2>1 DEF FileInv, ListInv
  <2> QED
    BY <1>1, <1>2, <2>2, NothingLoaded DEF CarryInv
<1> QED
  BY <1>4, <1>5

\* The answer to a GET is what was there when the export began, unless the key
\* has changed since.
LEMMA ExportKeyCarries ==
  ASSUME BaseInv, CarryInv, NEW o, ExportKey(o)
  PROVE  CarryInv'
<1>t. TypeOK /\ JobInv
  BY DEF BaseInv
<1>1. pc = "get" /\ used = {"export"} /\ dump \in Seq(Item) /\ todo \in Seq(Key) /\ todo # <<>>
  BY <1>t DEF ExportKey, TypeOK, JobInv
<1>2. FileInv /\ used \cap Loads = {}
  BY <1>1 DEF CarryInv, Other, Loads
<1>3. PICK k \in Key : k = Head(todo) /\ k \in ToSet(todo) /\ ToSet(Tail(todo)) \subseteq ToSet(todo)
  BY <1>1, Heads
<1>4. /\ todo' = Tail(todo) /\ pc' \in {"idle", "get"} /\ UNCHANGED <<source, used, taken, second, start>>
      /\ fresh' = IF o = "ok" THEN fresh ELSE fresh \ {k}
  BY <1>3 DEF ExportKey, Advance, Then, first
<1>5. PICK it : it = [key |-> k, type |-> "string", ttl |-> NoTTL,
                      value |-> IF o = "ok" THEN Got(k) ELSE {}]
  OBVIOUS
<1>6. dump' = IF o = "lost" THEN dump ELSE Append(dump, it)
  BY <1>3, <1>5 DEF ExportKey
<1>7. k \in fresh' /\ Plain(k) => it.value = Sent(k).value
  <2>1. k \in fresh' /\ Plain(k) => it.value = Replaced(taken[k].value) /\ taken[k] # Gone
    BY <1>1, <1>2, <1>3, <1>4, <1>5 DEF FileInv, Plain, Got, Is
  <2> QED
    BY <1>t, <2>1, SentKeeps DEF TypeOK
<1>8. ItemAt(it)'
  BY <1>1, <1>4, <1>5, <1>7 DEF ItemAt, Plain, Sent
<1>9. \A i \in DOMAIN dump : ItemAt(dump[i])
  BY <1>1, <1>2 DEF FileInv
<1>10. fresh' \subseteq fresh /\ UNCHANGED <<used, taken>>
  BY <1>4
<1>11. ASSUME NEW i \in DOMAIN dump' PROVE ItemAt(dump[i])' 
  <2>1. CASE i \in DOMAIN dump /\ dump'[i] = dump[i]
    BY <1>9, <1>10, <2>1 DEF ItemAt, Plain, Sent
  <2>2. CASE dump'[i] = it
    BY <1>8, <2>2 DEF ItemAt, Plain, Sent
  <2> QED
    BY <1>1, <1>6, <2>1, <2>2, AppendProperties
<1>12. \A j \in fresh' \cap ToSet(todo') : source'[j] = taken'[j]
  BY <1>1, <1>2, <1>3, <1>4 DEF FileInv
<1>13. FileInv' /\ ListInv'
  BY <1>4, <1>11, <1>12 DEF FileInv, ListInv
<1> QED
  BY <1>2, <1>4, <1>13, <1>t, NothingLoaded DEF CarryInv, BaseInv

LEMMA ExportCrashCarries == BaseInv /\ ExportCrash => CarryInv'
<1> SUFFICES ASSUME BaseInv, ExportCrash PROVE CarryInv'
  OBVIOUS
<1>1. used \cap Loads = {} /\ pc' = "idle" /\ dump' = None /\ UNCHANGED <<second, start>>
  BY DEF ExportCrash, Then, BaseInv, JobInv, Loads
<1>2. FileInv' /\ ListInv'
  BY <1>1 DEF FileInv, ListInv
<1> QED
  BY <1>1, <1>2, NothingLoaded DEF CarryInv

LEMMA ExportDataCarries == BaseInv /\ ExportData => CarryInv'
<1> SUFFICES ASSUME BaseInv, ExportData PROVE CarryInv'
  OBVIOUS
<1>t. TypeOK
  BY DEF BaseInv
<1>1. Begin("exportData", "ok") /\ UNCHANGED <<first, second, start, pc, todo>>
  BY DEF ExportData
<1>2. used \cap Loads = {} /\ pc' = "idle"
  BY <1>1, Begins
<1> DEFINE there == {k \in Key : source[k] # Gone}
           keys == SetToSeq(there)
<1>3. keys \in Seq(there)
  BY KeysOf
<1>4. /\ dump' = [i \in DOMAIN keys |-> [key |-> keys[i], type |-> Passed(source[keys[i]]).type,
                                         value |-> Passed(source[keys[i]]).value,
                                         ttl |-> Passed(source[keys[i]]).ttl]]
      /\ taken' = source
  BY DEF ExportData
<1> HIDE DEF keys
<1>5. ASSUME NEW i \in DOMAIN dump' PROVE ItemAt(dump[i])'
  <2>1. source[keys[i]] # Gone /\ source[keys[i]] \in Content
    BY <1>t, <1>3, <1>4 DEF TypeOK, Keyspace
  <2>2. PICK c \in Content : /\ c = Passed(source[keys[i]]) /\ c.type = source[keys[i]].type
                             /\ c = Entry(c.type, c.value, c.ttl) /\ c # Gone
    BY <2>1, PassedContent, ContentFields
  <2>3. dump'[i] = [key |-> keys[i], type |-> c.type, value |-> c.value, ttl |-> c.ttl]
    BY <1>4, <2>2
  <2> QED
    BY <1>4, <2>1, <2>2, <2>3 DEF ItemAt, Plain, Sent, Is, Sent
<1>6. FileInv' /\ ListInv'
  BY <1>2, <1>5 DEF FileInv, ListInv
<1> QED
  BY <1>1, <1>2, <1>6, NothingLoaded DEF CarryInv

\* A job that begins to load finds what the file or the first server says.
LEMMA LoadBegins ==
  ASSUME BaseInv, CarryInv, NEW job \in {"import", "restore"}, NEW o, Begin(job, o),
         UNCHANGED <<first, second, start, file>>, pc' # "get", ListInv'
  PROVE  CarryInv'
<1>1. used \cap Loads = {} /\ used' = used \cup {job}
  BY Begins
<1>2. FileInv
  BY <1>1 DEF CarryInv, Other, Loads
<1>3. FileInv'
  BY <1>1, <1>2 DEF FileInv, ItemAt, Plain, Sent, file
<1> QED
  BY <1>1, <1>3, NothingLoaded DEF CarryInv

LEMMA ImportCarries == ASSUME BaseInv, CarryInv, NEW o, Import(o) PROVE CarryInv'
<1> DEFINE cmds == [i \in DOMAIN dump |-> [op |-> "set", key |-> dump[i].key, text |-> Sprint(dump[i])]]
<1>t. TypeOK /\ dump # None /\ dump \in Seq(Item)
  BY DEF BaseInv, TypeOK, Import
<1>1. /\ Begin("import", o) /\ UNCHANGED <<first, second, start, file>>
      /\ todo' = (IF o = "ok" THEN cmds ELSE <<>>) /\ pc' \in {"idle", "import"}
  BY DEF Import, Send, Then
<1>2. used \cap Loads = {}
  BY <1>1, Begins
<1>3. FileInv
  BY <1>2 DEF CarryInv, Other, Loads
<1>4. ASSUME NEW i \in DOMAIN dump, cmds[i].key \in fresh, Plain(cmds[i].key)
      PROVE  Sent(cmds[i].key).value = {cmds[i].text}
  <2>1. /\ dump[i] \in Item /\ cmds[i].key = dump[i].key /\ cmds[i].text = Sprint(dump[i])
        /\ dump[i].type = "string" /\ dump[i].value = Sent(dump[i].key).value
    BY <1>t, <1>3, <1>4 DEF FileInv, ItemAt
  <2>2. PICK c \in Content : c = Sent(dump[i].key) /\ c.type = "string"
    BY <1>t, <1>4, <2>1, SentKeeps DEF TypeOK, Plain, Is, Item
  <2>3. Single(dump[i].value)
    BY <2>1, <2>2, ContentFields
  <2>4. PICK t \in Text : dump[i].value = {t}
    BY <2>3 DEF Single
  <2>5. Sprint(dump[i]) = t
    BY <2>1, <2>4, SprintIsText
  <2> QED
    BY <2>1, <2>4, <2>5
<1>5. ASSUME NEW i \in DOMAIN todo' PROVE SetAt(todo[i])'
  <2>1. i \in DOMAIN dump /\ todo'[i] = cmds[i] /\ cmds[i].op = "set"
    BY <1>1
  <2> HIDE DEF cmds
  <2> QED
    BY <1>1, <1>4, <2>1 DEF SetAt, Plain, Sent, file
<1>6. ListInv'
  BY <1>1, <1>5 DEF ListInv
<1> QED
  BY <1>1, <1>6, LoadBegins

LEMMA RestoreCarries == BaseInv /\ CarryInv /\ Restore => CarryInv'
<1> SUFFICES ASSUME BaseInv, CarryInv, Restore PROVE CarryInv'
  OBVIOUS
<1>1. /\ Begin("restore", "ok") /\ UNCHANGED <<first, second, start, file>>
      /\ dump # None /\ todo' = dump /\ pc' \in {"idle", "restore"}
  BY DEF Restore, Then
<1>2. used \cap Loads = {} /\ used' = used \cup {"restore"}
  BY <1>1, Begins
<1>3. FileInv
  BY <1>2 DEF CarryInv, Other, Loads
<1>4. ListInv'
  BY <1>1, <1>2, <1>3 DEF FileInv, ListInv, ItemAt, Plain, Sent, file
<1> QED
  BY <1>1, <1>4, LoadBegins

\* The list at hand has moved on, or has ended.
LEMMA ListMoves ==
  ASSUME BaseInv, CarryInv, ~Other, pc \in {"import", "restore", "expire"},
         UNCHANGED <<used, file>>, pc' # "get",
         todo' \in {todo, Tail(todo), <<>>}, todo' # todo => todo # <<>>,
         pc' = "import" => pc = "import", pc' \in {"restore", "expire"} => pc # "import"
  PROVE  FileInv' /\ ListInv'
<1>1. FileInv /\ ListInv /\ UNCHANGED <<dump, taken, fresh, used>>
  BY DEF CarryInv, file
<1>2. FileInv'
  <2>1. \A i \in DOMAIN dump' : dump'[i] = dump[i]
    BY <1>1
  <2>2. dump' # None => \A i \in DOMAIN dump' : ItemAt(dump[i])'
    BY <1>1 DEF FileInv, ItemAt, Plain, Sent
  <2> QED
    BY <2>2 DEF FileInv
<1>3. \E S : todo \in Seq(S)
  BY DEF BaseInv, TypeOK
<1>4. \A i \in DOMAIN todo' : \E j \in DOMAIN todo : todo'[i] = todo[j]
  BY <1>3, Heads
<1>5. ASSUME pc' = "import" PROVE \A i \in DOMAIN todo' : SetAt(todo[i])'
  BY <1>1, <1>4, <1>5 DEF ListInv, SetAt, Plain, Sent
<1>6. ASSUME pc' \in {"restore", "expire"} PROVE \A i \in DOMAIN todo' : ItemAt(todo[i])'
  BY <1>1, <1>4, <1>6 DEF ListInv, ItemAt, Plain, Sent
<1> QED
  BY <1>2, <1>5, <1>6 DEF ListInv

\* One key is written and the others are left alone.
LEMMA KeyLoads ==
  ASSUME BaseInv, TargetInv, NEW k \in Key, UNCHANGED <<start, used, file>>, smooth' => smooth,
         pc = "expire" => Head(todo).key = k,
         loaded' = loaded \cup {k}, \A j \in Key \ {k} : target'[j] = target[j],
         k \in fresh => LoadedAt(k)'
  PROVE  TargetInv'
<1>1. UNCHANGED <<taken, fresh>> /\ fresh \subseteq Key
  BY DEF file, BaseInv, TypeOK
<1>2. \A j \in Key \ loaded' : target'[j] = start'[j]
  BY DEF TargetInv
<1>3. ASSUME NEW j \in fresh \cap loaded, j # k PROVE LoadedAt(j)'
  BY <1>1, <1>3 DEF TargetInv, LoadedAt, Plain, Written1, Mixed, Whole, Restoring, Sent
<1> QED
  BY <1>1, <1>2, <1>3 DEF TargetInv

\* Nothing is written.
LEMMA KeysStay ==
  ASSUME BaseInv, TargetInv, UNCHANGED <<second, start, used, file>>, smooth' => smooth, pc # "expire"
  PROVE  TargetInv'
BY DEF TargetInv, LoadedAt, Plain, Written1, Mixed, Whole, Restoring, Sent, second, file

\* A SET of an import stores the text of its key, and no expiry.
LEMMA ImportSetCarries == ASSUME BaseInv, CarryInv, NEW o, ImportSet(o) PROVE CarryInv'
<1> SUFFICES ASSUME ~Other PROVE FileInv' /\ ListInv' /\ TargetInv'
  BY DEF CarryInv, Other, ImportSet, Advance
<1>t. TypeOK /\ JobInv
  BY DEF BaseInv
<1>1. /\ pc = "import" /\ todo' = Tail(todo) /\ pc' \in {"idle", "import"} /\ (smooth' => smooth)
      /\ UNCHANGED <<start, used, file>>
  BY DEF ImportSet, Advance, Then
<1>2. todo \in Seq(Request) /\ todo # <<>>
  BY <1>t, <1>1 DEF TypeOK
<1>3. FileInv' /\ ListInv'
  BY <1>1, <1>2, ListMoves
<1>4. TargetInv /\ ListInv
  BY DEF CarryInv
<1>5. "restore" \notin used
  BY <1>t, <1>1 DEF JobInv, Other, Loads
<1>6. PICK cmd \in Request : cmd = Head(todo)
  BY <1>2, Heads
<1>7. SetAt(cmd) /\ cmd.key \in Key /\ cmd.text \in Text
  BY <1>1, <1>2, <1>4, <1>6, Heads DEF ListInv, Request
<1>8. CASE target' = Apply(target, cmd) /\ loaded' = loaded \cup {cmd.key}
  <2>1. target' = SetTo(target, cmd.key, cmd.text)
    BY <1>7, <1>8 DEF Apply, SetAt
  <2>2. target'[cmd.key] = Stored(cmd.text) /\ \A j \in Key \ {cmd.key} : target'[j] = target[j]
    BY <1>t, <1>7, <2>1, SetKeeps DEF TypeOK
  <2>3. Is("string", target'[cmd.key]) /\ target'[cmd.key].value = {cmd.text}
    <3>1. {cmd.text} \in SUBSET Text /\ {cmd.text} # {} /\ Single({cmd.text})
      BY <1>7 DEF Single
    <3> QED
      BY <2>2, <3>1, EntryIsContent DEF Stored, Type, Is
  <2>4. cmd.key \in fresh => LoadedAt(cmd.key)'
    BY <1>1, <1>5, <1>7, <2>3 DEF LoadedAt, SetAt, Plain, Written1, Restoring, Sent, file
  <2> QED
    BY <1>1, <1>3, <1>4, <1>7, <1>8, <2>2, <2>4, KeyLoads
<1>9. CASE UNCHANGED second
  BY <1>1, <1>3, <1>4, <1>9, KeysStay
<1> QED
  BY <1>6, <1>8, <1>9 DEF ImportSet

\* What an item leaves of its key: the whole of it, unless it is about to expire
\* or met other fields.
LEMMA ItemLoads ==
  ASSUME BaseInv, CarryInv, ~Other, pc = "restore", NEW it \in Item, it = Head(todo), ~Unfit(it),
         target' = Written(it), loaded' = loaded \cup {it.key},
         UNCHANGED <<start, used, file>>, smooth' => smooth,
         smooth' /\ it.ttl > 0 => pc' = "expire" /\ Head(todo').key = it.key
  PROVE  TargetInv'
<1>t. TypeOK /\ JobInv /\ TargetInv /\ ListInv
  BY DEF BaseInv, CarryInv
<1> DEFINE k == it.key
<1>1. k \in Key /\ it.value \in SUBSET Text /\ it.ttl \in {NoTTL, SomeTTL} /\ it.type \in Type
  BY DEF Item
<1>2. /\ target' \in Keyspace /\ target'[k] # Gone
      /\ it.type = "string" => target'[k] = Stored(Sprint(it))
      /\ it.type = "hash" => target'[k] = Hashed(target[k], it.value)
      /\ \A j \in Key \ {k} : target'[j] = target[j]
  BY <1>t, WrittenAt DEF TypeOK
<1>3. ItemAt(it)
  BY <1>t, Heads DEF ListInv, TypeOK
<1>4. UNCHANGED <<taken, fresh>> /\ taken \in Keyspace /\ target \in Keyspace
  BY <1>t DEF file, TypeOK
<1>s. /\ Sent(k) \in Content \cup {Gone} /\ (Sent(k) = Gone <=> taken[k] = Gone)
      /\ taken[k] # Gone => Sent(k).type = taken[k].type
      /\ Sent(k)' = Sent(k)
  BY <1>1, <1>4, SentKeeps DEF Sent
<1>5. ASSUME it.type = "string", Single(it.value)
      PROVE  target'[k] = Entry("string", it.value, NoTTL)
  <2>1. PICK t \in Text : it.value = {t}
    BY <1>5 DEF Single
  <2> QED
    BY <1>2, <1>5, <2>1, SprintIsText DEF Stored
<1>6. ASSUME k \in fresh, Plain(k) PROVE Written1(k)'
  <2>1. it.type = "string" /\ it.value = Sent(k).value /\ Sent(k) \in Content /\ Sent(k).type = "string"
    BY <1>1, <1>3, <1>4, <1>6, <1>s DEF ItemAt, Plain, Is
  <2>2. Single(it.value) /\ it.value # {}
    BY <2>1, ContentFields
  <2>3. target'[k] = Entry("string", it.value, NoTTL)
    BY <1>5, <2>1, <2>2
  <2> QED
    BY <1>1, <1>2, <1>4, <1>s, <2>1, <2>2, <2>3, EntryIsContent DEF Written1, Is, Type
<1>7. ASSUME k \in fresh, Restoring', ~Is("list", taken'[k])
      PROVE  (Mixed(k) \/ Whole(k) \/ (pc = "expire" /\ Head(todo).key = k /\ Timeless(k)))'
  <2>1. Sent(k) # Gone /\ Sent(k) = Entry(it.type, it.value, it.ttl) /\ Restoring
    BY <1>3, <1>4, <1>7 DEF ItemAt, Restoring
  <2>2. /\ Sent(k) \in Content /\ Sent(k).type = it.type /\ Sent(k).value = it.value
        /\ taken[k] # Gone /\ taken[k].type = it.type
    BY <1>1, <1>4, <1>s, <2>1 DEF Entry
  <2>3. it.value # {} /\ (it.type = "string" => Single(it.value)) /\ it.type \in {"string", "hash"}
    BY <1>1, <1>4, <1>7, <2>1, <2>2, ContentFields DEF Is, Type
  <2>4. ASSUME target'[k] = Entry(it.type, it.value, NoTTL)
        PROVE  (Whole(k) \/ (pc = "expire" /\ Head(todo).key = k /\ Timeless(k)))'
    <3>1. CASE it.ttl = NoTTL
      BY <1>4, <1>s, <2>1, <2>4, <3>1 DEF Whole
    <3>2. CASE it.ttl = SomeTTL
      <4>1. pc' = "expire" /\ Head(todo').key = k
        BY <1>7, <3>2 DEF Restoring, SomeTTL
      <4>2. target'[k].type = it.type /\ target'[k].value = it.value
        BY <2>4 DEF Entry
      <4> QED
        BY <1>2, <1>4, <1>s, <2>2, <4>1, <4>2 DEF Timeless
    <3> QED
      BY <1>1, <3>1, <3>2
  <2>5. CASE it.type = "string"
    BY <1>5, <2>3, <2>4, <2>5
  <2>6. CASE it.type = "hash"
    <3>1. Is("hash", taken'[k])
      BY <1>4, <2>1, <2>2, <2>6 DEF Is
    <3>2. CASE target[k] = Gone
      BY <1>2, <2>4, <2>6, <3>2 DEF Hashed
    <3>3. CASE target[k] # Gone
      <4>1. CASE k \notin loaded
        BY <1>1, <1>t, <3>1, <3>3, <4>1 DEF TargetInv, Mixed
      <4>2. CASE k \in loaded
        <5>1. Mixed(k) \/ Whole(k)
          BY <1>4, <1>7, <1>t, <2>1, <4>2 DEF TargetInv, LoadedAt
        <5>2. CASE Mixed(k)
          BY <1>4, <5>2 DEF Mixed
        <5>3. CASE Whole(k)
          <6>1. target[k] = Entry("hash", it.value, it.ttl) /\ target[k].value = it.value /\ target[k].ttl = it.ttl
            BY <2>1, <2>6, <5>3 DEF Whole, Entry
          <6>2. target'[k] = Entry("hash", it.value, it.ttl)
            BY <1>2, <2>6, <3>3, <6>1 DEF Hashed
          <6> QED
            BY <1>4, <1>s, <2>1, <2>6, <6>2 DEF Whole
        <5> QED
          BY <5>1, <5>2, <5>3
      <4> QED
        BY <4>1, <4>2
    <3> QED
      BY <3>2, <3>3
  <2> QED
    BY <2>3, <2>5, <2>6
<1>8. k \in fresh => LoadedAt(k)'
  BY <1>4, <1>6, <1>7 DEF LoadedAt, Plain
<1> QED
  BY <1>1, <1>2, <1>8, <1>t, KeyLoads

LEMMA RestoreItemCarries == BaseInv /\ CarryInv /\ RestoreItem => CarryInv'
<1> SUFFICES ASSUME BaseInv, CarryInv, RestoreItem, ~Other PROVE FileInv' /\ ListInv' /\ TargetInv'
  BY DEF CarryInv, Other, RestoreItem, Advance
<1>t. todo \in Seq(Item) /\ todo # <<>> /\ pc = "restore"
  BY DEF BaseInv, TypeOK, RestoreItem
<1>1. PICK it \in Item : it = Head(todo)
  BY <1>t, Heads
<1>2. /\ ~Unfit(it) /\ target' = Written(it) /\ loaded' = loaded \cup {it.key}
      /\ UNCHANGED <<first, file>>
  BY <1>1 DEF RestoreItem
<1>3. CASE it.ttl > 0
  <2>1. pc' = "expire" /\ UNCHANGED <<start, todo, used, smooth>>
    BY <1>1, <1>3 DEF RestoreItem
  <2> QED
    BY <1>1, <1>2, <1>t, <2>1, ItemLoads, ListMoves
<1>4. CASE ~(it.ttl > 0)
  <2>1. pc' \in {"idle", "restore"} /\ todo' = Tail(todo) /\ (smooth' => smooth) /\ UNCHANGED <<start, used>>
    BY <1>1, <1>4 DEF RestoreItem, Advance, Then
  <2> QED
    BY <1>1, <1>2, <1>4, <1>t, <2>1, ItemLoads, ListMoves
<1> QED
  BY <1>3, <1>4

LEMMA RestoreStopsCarries == ASSUME BaseInv, CarryInv, NEW o, RestoreStops(o) PROVE CarryInv'
<1> SUFFICES ASSUME ~Other PROVE FileInv' /\ ListInv' /\ TargetInv'
  BY DEF CarryInv, Other, RestoreStops
<1>t. todo \in Seq(Item) /\ todo # <<>> /\ pc = "restore"
  BY DEF BaseInv, TypeOK, RestoreStops
<1>1. PICK it \in Item : it = Head(todo)
  BY <1>t, Heads
<1>2. /\ pc' = "idle" /\ todo' = <<>> /\ smooth' = (o = "ok" /\ smooth) /\ UNCHANGED <<first, start, used, file>>
  BY DEF RestoreStops, Then
<1>3. FileInv' /\ ListInv'
  BY <1>2, <1>t, ListMoves
<1>4. CASE o = "lost" /\ ~Unfit(it) /\ target' = Written(it) /\ loaded' = loaded \cup {it.key}
  BY <1>1, <1>2, <1>3, <1>4, <1>t, ItemLoads
<1>5. CASE UNCHANGED second
  BY <1>2, <1>3, <1>5, <1>t, KeysStay DEF CarryInv
<1> QED
  BY <1>1, <1>4, <1>5 DEF RestoreStops

\* The EXPIRE that follows gives the key the rest of what it had.
LEMMA RestoreExpireCarries == ASSUME BaseInv, CarryInv, NEW o, RestoreExpire(o) PROVE CarryInv'
<1> SUFFICES ASSUME ~Other PROVE FileInv' /\ ListInv' /\ TargetInv'
  BY DEF CarryInv, Other, RestoreExpire, Advance
<1>t. TypeOK /\ JobInv /\ TargetInv /\ ListInv
  BY DEF BaseInv, CarryInv
<1>1. /\ pc = "expire" /\ todo' = Tail(todo) /\ pc' \in {"idle", "restore"} /\ smooth' = (o = "ok" /\ smooth)
      /\ UNCHANGED <<start, used, loaded, file>>
  BY DEF RestoreExpire, Advance, Then
<1>2. todo \in Seq(Item) /\ todo # <<>>
  BY <1>t, <1>1 DEF TypeOK
<1>3. FileInv' /\ ListInv'
  BY <1>1, <1>2, ListMoves
<1>4. PICK it \in Item : it = Head(todo)
  BY <1>2, Heads
<1> DEFINE k == it.key
<1>5. /\ ItemAt(it) /\ k \in Key /\ k \in loaded /\ it.ttl = SomeTTL /\ target[k] # Gone
  BY <1>t, <1>1, <1>2, <1>4, Heads DEF ListInv, JobInv, Item, NoTTL
<1>6. UNCHANGED <<taken, fresh, Sent(k)>> /\ taken \in Keyspace /\ target \in Keyspace
  BY <1>t, <1>1 DEF file, TypeOK, Sent
<1>7. /\ \A j \in Key \ {k} : target'[j] = target[j]
      /\ target'[k] = IF o = "ok" THEN Lasting(target[k]) ELSE target[k]
  BY <1>4, <1>5, <1>6, ExpireKeeps DEF RestoreExpire
<1>8. /\ target[k] \in Content /\ target[k] = Entry(target[k].type, target[k].value, target[k].ttl)
      /\ Lasting(target[k]) # Gone /\ Lasting(target[k]).type = target[k].type
      /\ Lasting(target[k]).value = target[k].value
  <2>1. target[k] \in Content
    BY <1>5, <1>6 DEF Keyspace
  <2>2. /\ target[k] \in [type : Type, value : SUBSET Text, ttl : {NoTTL, SomeTTL}]
        /\ target[k] = Entry(target[k].type, target[k].value, target[k].ttl)
        /\ target[k].value # {} /\ (target[k].type = "string" => Single(target[k].value))
    BY <2>1, ContentFields
  <2> QED
    BY <2>1, <2>2, EntryIsContent DEF Lasting
<1>9. ASSUME k \in fresh PROVE LoadedAt(k)'
  <2>1. LoadedAt(k)
    BY <1>5, <1>9, <1>t DEF TargetInv
  <2>2. ASSUME Plain(k) PROVE Written1(k)'
    BY <1>6, <1>7, <1>8, <2>1, <2>2 DEF LoadedAt, Written1, Is
  <2>3. ASSUME Restoring', ~Is("list", taken[k]) PROVE (Mixed(k) \/ Whole(k))'
    <3>1. o = "ok" /\ Restoring /\ target'[k] = Entry(target[k].type, target[k].value, SomeTTL)
      BY <1>1, <1>7, <2>3 DEF Restoring, Lasting
    <3>2. Sent(k) = Entry(it.type, it.value, SomeTTL)
      BY <1>5, <1>9, <3>1 DEF ItemAt, Restoring
    <3>3. CASE Mixed(k)
      BY <1>1, <1>6, <3>3 DEF Mixed
    <3>4. CASE target[k].type = Sent(k).type /\ target[k].value = Sent(k).value
      BY <1>6, <3>1, <3>2, <3>4 DEF Whole, Entry
    <3> QED
      BY <2>1, <2>3, <3>1, <3>3, <3>4 DEF LoadedAt, Whole, Timeless
  <2> QED
    BY <1>6, <2>2, <2>3 DEF LoadedAt, Plain
<1>10. loaded' = loaded \cup {k}
  BY <1>1, <1>5
<1> QED
  BY <1>1, <1>3, <1>4, <1>5, <1>7, <1>9, <1>10, <1>t, KeyLoads

LEMMA CarryStep == BaseInv /\ CarryInv /\ [Next]_vars => CarryInv'
<1> SUFFICES ASSUME BaseInv, CarryInv, [Next]_vars PROVE CarryInv'
  OBVIOUS
<1>1. ASSUME NEW o, Seed(o) PROVE CarryInv'
  BY <1>1, Begins DEF Seed, Send, CarryInv, Other
<1>2. ASSUME Replay PROVE CarryInv'
  BY <1>2, Begins DEF Replay, CarryInv, Other
<1>3. ASSUME NEW o, ReplayLine(o) PROVE CarryInv'
  BY <1>3 DEF ReplayLine, Advance, BaseInv, JobInv, CarryInv, Other
<1>4. ASSUME UNCHANGED vars PROVE CarryInv'
  BY <1>4, ClientCarries DEF vars, first, file
<1>5. CASE Jobs
  BY <1>1, <1>2, <1>3, <1>5, ExportCarries, ExportKeyCarries, ExportCrashCarries, ExportDataCarries,
     ImportCarries, RestoreCarries, ImportSetCarries, RestoreItemCarries, RestoreStopsCarries,
     RestoreExpireCarries DEF Jobs
<1> QED
  BY <1>4, <1>5, ClientsCarry DEF Next

\* A string that was not changed before its GET keeps its type through a dump, and
\* its value but for what JSON replaces; with ExportData and ImportData its expiry
\* too, and so does a hash that meets no other value; keys the import has not come
\* to are left alone: each item says what its key was, however many requests for
\* others fail (main.go:226-291 of cmd/upstash-local, response.go:66,
\* dashboard.go:105-173).
THEOREM DumpsRoundTrip == Spec => []RoundTrip
<1>1. BaseInv /\ CarryInv => RoundTrip
  <2> SUFFICES ASSUME BaseInv, CarryInv, Done({"import", "restore"}) PROVE RoundTrip
    BY DEF RoundTrip
  <2>1. pc = "idle" /\ ~Other /\ fresh \subseteq Key
    BY DEF Done, BaseInv, TypeOK, JobInv, Loads, Other
  <2>2. TargetInv
    BY <2>1 DEF CarryInv
  <2>3. \A k \in fresh \cap loaded : LoadedAt(k)
    BY <2>2 DEF TargetInv
  <2>4. \A k \in fresh \cap loaded : taken[k] # Gone => Sent(k).value = Replaced(taken[k].value)
    BY <2>1, SentKeeps DEF BaseInv, TypeOK
  <2> QED
    BY <2>1, <2>2, <2>3, <2>4 DEF RoundTrip, TargetInv, LoadedAt, Plain, Written1, Mixed, Whole, Restoring, Sent, Is
<1> QED
  BY <1>1, CarryInit, CarryStep, ToolBase, PTL DEF Spec

=============================================================================
