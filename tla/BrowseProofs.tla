---------------------------- MODULE BrowseProofs ----------------------------
(***************************************************************************)
(* Proofs that a listing misses no key that was there all the time, and    *)
(* that no entry of it shows a value its key never had, for every          *)
(* keyspace, page and limit, and however the keyspace changes meanwhile.   *)
(***************************************************************************)
EXTENDS Browse, SequenceTheorems, FiniteSetTheorems, TLAPS

Collected == pc \notin {"list", "failed"}

\* What scanKeys and LRANGE leave behind: unless it was cut at its limit, every
\* key that has existed since the first call.
ListingInv ==
  /\ pc = "list" => pos = 1 /\ items = {}
  /\ Collected /\ (limit > 0 => Len(keys) < limit) => present \subseteq ToSet(keys)

\* Every key behind pos is in the answer, unless it has been changed since.
ProgressInv ==
  /\ Collected /\ ~dead => \A i \in 1..(pos - 1) : keys[i] \in present => keys[i] \in items
  /\ pc = "done" => pos = Len(keys) + 1
  /\ pc = "record" => Records

\* No other value is stored under an id of the message queue.
RecordsInv == Records => \A k \in Key : db[k] # Gone => db[k].type = "string"

\* The entry between its round trips: what the key holds now is among what it
\* has held, and no value has been read yet.
EntryInv ==
  /\ item.whole \in BOOLEAN
  /\ pc \in {"ttl", "value"} => Current \in item.lived /\ item.value = <<>>
  /\ pc = "ttl" /\ item.whole => \A c \in item.lived : item.lived = {c} => item.type = TypeOf(c)
  /\ pc = "value" /\ item.whole =>
       \A c \in item.lived : item.lived = {c} => item.type = TypeOf(c) /\ item.ttl = TTLOf(c)

BInv == TypeOK /\ ListingInv /\ ProgressInv /\ RecordsInv /\ EntryInv /\ Faithful

-----------------------------------------------------------------------------
(* Sequences of keys                                                       *)

LEMMA ToSetConcat ==
  ASSUME NEW S, NEW a \in Seq(S), NEW b \in Seq(S)
  PROVE  ToSet(a \o b) = ToSet(a) \cup ToSet(b)
<1> DEFINE c == a \o b
<1>1. /\ DOMAIN a = 1..Len(a) /\ DOMAIN b = 1..Len(b) /\ DOMAIN c = 1..(Len(a) + Len(b))
      /\ Len(a) \in Nat /\ Len(b) \in Nat
  BY ConcatProperties
<1>2. \A i \in DOMAIN c : c[i] = IF i <= Len(a) THEN a[i] ELSE b[i - Len(a)]
  BY <1>1, ConcatProperties
<1> HIDE DEF c
<1>3. \A i \in DOMAIN a : i \in DOMAIN c /\ c[i] = a[i]
  BY <1>1, <1>2
<1>4. \A i \in DOMAIN b : i + Len(a) \in DOMAIN c /\ c[i + Len(a)] = b[i]
  BY <1>1, <1>2
<1>5. \A i \in DOMAIN c : (i \in DOMAIN a /\ c[i] = a[i])
                            \/ (i - Len(a) \in DOMAIN b /\ c[i] = b[i - Len(a)])
  BY <1>1, <1>2
<1>6. ToSet(c) = ToSet(a) \cup ToSet(b)
  BY <1>3, <1>4, <1>5 DEF ToSet
<1> QED
  BY <1>6 DEF c

LEMMA Limits == limit \in Nat
  BY BrowseAssumption DEF limit

\* What scanKeys keeps is a prefix, the whole of it below the limit.
LEMMA CutKeeps ==
  ASSUME NEW S, NEW all \in Seq(S)
  PROVE  /\ Cut(all) \in Seq(S)
         /\ limit > 0 => Len(Cut(all)) <= limit
         /\ limit > 0 /\ Len(all) >= limit => Len(Cut(all)) = limit
         /\ ~(limit > 0 /\ Len(all) >= limit) => Cut(all) = all
<1>1. Len(all) \in Nat /\ \A i \in 1..Len(all) : all[i] \in S
  OBVIOUS
<1>2. CASE limit > 0 /\ Len(all) >= limit
  <2>1. \A i \in 1..limit : all[i] \in S
    BY <1>1, <1>2, Limits
  <2>2. SubSeq(all, 1, limit) \in Seq(S) /\ Len(SubSeq(all, 1, limit)) = limit
    BY <1>2, <2>1, Limits, SubSeqProperties
  <2> QED
    BY <1>2, <2>2, Limits DEF Cut
<1>3. CASE ~(limit > 0 /\ Len(all) >= limit)
  BY <1>1, <1>3, Limits DEF Cut
<1> QED
  BY <1>2, <1>3

\* A reply lists keys of the keyspace.
LEMMA ReplyOfKeys ==
  ASSUME NEW S \in SUBSET Key, NEW ids \in SetToSeqs(S)
  PROVE  ids \in Seq(Key)
<1>1. Cardinality(S) \in Nat
  BY BrowseAssumption, FS_Subset, FS_CardinalityType
<1>2. ids \in [1..Cardinality(S) -> S]
  BY DEF SetToSeqs
<1> QED
  BY <1>1, <1>2

LEMMA BrowseInit == Init => BInv
<1> SUFFICES ASSUME Init PROVE BInv
  OBVIOUS
<1>1. TypeOK
  <2>1. limit > 0 => Len(keys) <= limit
    BY Limits DEF Init
  <2>2. batches \in 0..MaxBatches /\ changes \in 0..MaxChanges /\ keys \in Seq(Key) /\ pos \in 1..(Len(keys) + 1)
    BY BrowseAssumption DEF Init
  <2>3. DOMAIN item = DOMAIN Blank /\ item.lived \subseteq Content \cup {Gone}
    BY DEF Init, Blank
  <2> QED
    BY <2>1, <2>2, <2>3 DEF Init, TypeOK
<1>2. ListingInv /\ ProgressInv /\ RecordsInv
  BY DEF Init, ListingInv, ProgressInv, RecordsInv, Collected
<1>3. EntryInv /\ Faithful
  BY DEF Init, EntryInv, Faithful, Blank
<1> QED
  BY <1>1, <1>2, <1>3 DEF BInv

-----------------------------------------------------------------------------
(* One lemma per round trip                                                *)

\* A reply with keys, whichever command asked for them.
LEMMA Listed ==
  ASSUME BInv, pc = "list", keys' \in Seq(Key), limit > 0 => Len(keys') <= limit,
         batches' \in 0..MaxBatches,
         UNCHANGED <<db, view, item, items, dead, changes, present>>,
         \/ UNCHANGED <<pc, pos>>
         \/ /\ Turn(1)
            /\ (limit > 0 => Len(keys') < limit) => present \subseteq ToSet(keys')
  PROVE  BInv'
<1>1. limit' = limit /\ Len(keys') \in Nat /\ (Records' <=> Records)
  BY DEF limit, Records
<1>2. /\ pos = 1 /\ items = {} /\ pos' = 1 /\ items' = {}
      /\ pc' \in {"list", "type", "record", "done"}
      /\ pc' \in {"type", "record"} => Len(keys') >= 1
      /\ pc' = "done" => Len(keys') = 0
      /\ pc' = "record" => Records
      /\ pc' # "list" => ((limit > 0 => Len(keys') < limit) => present \subseteq ToSet(keys'))
  BY <1>1 DEF BInv, ListingInv, Turn
<1>3. TypeOK'
  <2>1. TypeOK
    BY DEF BInv
  <2> QED
    BY <1>1, <1>2, <2>1 DEF TypeOK, Blank
<1>4. ListingInv' /\ ProgressInv'
  BY <1>1, <1>2 DEF ListingInv, ProgressInv, Collected
<1>5. RecordsInv'
  BY <1>1 DEF BInv, RecordsInv
<1>6. EntryInv' /\ Faithful'
  <2>1. EntryInv /\ Faithful
    BY DEF BInv
  <2> QED
    BY <1>1, <1>2, <2>1 DEF EntryInv, Faithful
<1> QED
  BY <1>3, <1>4, <1>5, <1>6 DEF BInv

LEMMA ScanStep ==
  ASSUME BInv, NEW batch \in Seq(Key), NEW last \in BOOLEAN, Scan(batch, last)
  PROVE  BInv'
<1> DEFINE all == keys \o batch
<1>1. keys \in Seq(Key) /\ batches \in 0..MaxBatches
  BY DEF BInv, TypeOK
<1>2. all \in Seq(Key) /\ ToSet(all) = ToSet(keys) \cup ToSet(batch)
  BY <1>1, ToSetConcat, ConcatProperties
<1>3. /\ keys' \in Seq(Key) /\ (limit > 0 => Len(keys') <= limit)
      /\ limit > 0 /\ Len(all) >= limit => Len(keys') = limit
      /\ ~(limit > 0 /\ Len(all) >= limit) => keys' = all
  <2>1. keys' = Cut(all)
    BY DEF Scan
  <2> HIDE DEF all
  <2> QED
    BY <1>2, <2>1, CutKeeps
<1>4. batches' \in 0..MaxBatches
  BY <1>1, BrowseAssumption DEF Scan
<1>5. CASE last \/ (limit > 0 /\ Len(all) >= limit)
  <2>1. Turn(1)
    BY <1>5 DEF Scan, Enough
  <2>2. ASSUME limit > 0 => Len(keys') < limit PROVE present \subseteq ToSet(keys')
    <3>1. ~(limit > 0 /\ Len(all) >= limit)
      BY <1>3, <2>2, Limits
    <3>2. keys' = all
      BY <1>3, <3>1
    <3>3. present \subseteq ToSet(keys) \cup ToSet(batch)
      BY <1>5, <3>1 DEF Scan
    <3> QED
      BY <1>2, <3>2, <3>3
  <2> QED
    BY <1>3, <1>4, <2>1, <2>2, Listed DEF Scan
<1>6. CASE ~(last \/ (limit > 0 /\ Len(all) >= limit))
  <2>1. UNCHANGED <<pc, pos>>
    BY <1>6 DEF Scan, Enough
  <2> QED
    BY <1>3, <1>4, <2>1, Listed DEF Scan
<1> QED
  BY <1>5, <1>6

LEMMA ListIdsStep ==
  ASSUME BInv, NEW ids \in Seq(Key), ListIds(ids)
  PROVE  BInv'
<1>1. limit = 0 /\ present \subseteq ToSet(ids)
  BY DEF ListIds, limit, BInv, TypeOK
<1>2. batches' \in 0..MaxBatches
  BY DEF BInv, TypeOK, ListIds
<1> QED
  BY <1>1, <1>2, Listed DEF ListIds

LEMMA ListFailsStep == BInv /\ ListFails => BInv'
<1> SUFFICES ASSUME BInv, ListFails PROVE BInv'
  OBVIOUS
<1> USE DEF ListFails
<1>1. limit' = limit /\ (Records' <=> Records)
  BY DEF limit, Records
<1>2. TypeOK' /\ RecordsInv'
  BY <1>1 DEF BInv, TypeOK, RecordsInv, Blank
<1>3. ListingInv' /\ ProgressInv' /\ EntryInv' /\ Faithful'
  BY <1>1 DEF BInv, ListingInv, ProgressInv, Collected, EntryInv, Faithful
<1> QED
  BY <1>2, <1>3 DEF BInv

\* The key that is read is one of the keyspace.
LEMMA CurrentKey ==
  ASSUME TypeOK, pc \in {"type", "ttl", "value", "record"}
  PROVE  /\ pos \in 1..Len(keys) /\ Len(keys) \in Nat /\ keys[pos] \in Key
         /\ keys[pos] \in ToSet(keys) /\ Current \in Content \cup {Gone}
<1>1. pos \in 1..Len(keys) /\ Len(keys) \in Nat /\ keys[pos] \in Key
  BY DEF TypeOK
<1> QED
  BY <1>1 DEF TypeOK, Current, ToSet

LEMMA ReadTypeStep == BInv /\ ReadType => BInv'
<1> SUFFICES ASSUME BInv, ReadType PROVE BInv'
  OBVIOUS
<1>1. TypeOK
  BY DEF BInv
<1>2. /\ pc = "type" /\ pc' = "ttl"
      /\ UNCHANGED <<db, view, keys, pos, items, dead, batches, changes, present>>
      /\ limit' = limit /\ (Records' <=> Records) /\ Current' = Current
  BY DEF ReadType, limit, Records, Current
<1>3. /\ DOMAIN item' = DOMAIN Blank /\ item'.lived = {Current} /\ item'.whole = ~dead
      /\ item'.value = <<>> /\ (~dead => item'.type = TypeOf(Current))
  BY DEF ReadType, Blank
<1>4. TypeOK'
  <2>1. Current \in Content \cup {Gone} /\ pos <= Len(keys)
    BY <1>1, <1>2, CurrentKey
  <2>2. DOMAIN Blank' = DOMAIN Blank
    BY DEF Blank
  <2> QED
    BY <1>1, <1>2, <1>3, <2>1, <2>2 DEF TypeOK
<1>5. ListingInv' /\ ProgressInv' /\ RecordsInv'
  BY <1>2 DEF BInv, ListingInv, ProgressInv, RecordsInv, Collected
<1>6. EntryInv' /\ Faithful'
  BY <1>1, <1>2, <1>3 DEF EntryInv, Faithful, TypeOK
<1> QED
  BY <1>4, <1>5, <1>6 DEF BInv

LEMMA ReadTTLStep == BInv /\ ReadTTL => BInv'
<1> SUFFICES ASSUME BInv, ReadTTL PROVE BInv'
  OBVIOUS
<1>1. TypeOK /\ EntryInv
  BY DEF BInv
<1>2. /\ pc = "ttl" /\ pc' = "value"
      /\ UNCHANGED <<db, view, keys, pos, items, dead, batches, changes, present>>
      /\ limit' = limit /\ (Records' <=> Records) /\ Current' = Current
  BY DEF ReadTTL, limit, Records, Current
<1>3. /\ DOMAIN item' = DOMAIN item /\ item'.lived = item.lived /\ item'.value = item.value
      /\ item'.type = item.type
      /\ item'.whole = (item.whole /\ ~dead) /\ (~dead => item'.ttl = TTLOf(Current))
  BY <1>1 DEF ReadTTL, TypeOK, Blank
<1>4. TypeOK'
  <2>1. pos <= Len(keys)
    BY <1>1, <1>2, CurrentKey
  <2>2. DOMAIN Blank' = DOMAIN Blank
    BY DEF Blank
  <2> QED
    BY <1>1, <1>2, <1>3, <2>1, <2>2 DEF TypeOK
<1>5. ListingInv' /\ ProgressInv' /\ RecordsInv'
  BY <1>2 DEF BInv, ListingInv, ProgressInv, RecordsInv, Collected
<1>6. EntryInv' /\ Faithful'
  BY <1>1, <1>2, <1>3 DEF EntryInv, Faithful, TypeOK
<1> QED
  BY <1>4, <1>5, <1>6 DEF BInv

LEMMA ReadValueStep == BInv /\ ReadValue => BInv'
<1> SUFFICES ASSUME BInv, ReadValue PROVE BInv'
  OBVIOUS
<1>1. TypeOK /\ ListingInv /\ ProgressInv /\ EntryInv
  BY DEF BInv
<1>2. /\ pc = "value" /\ UNCHANGED <<db, view, keys, dead, batches, changes, present>>
      /\ limit' = limit /\ (Records' <=> Records)
      /\ items' = items \cup {keys[pos]} /\ pos' = pos + 1
      /\ pc' = IF pos + 1 > Len(keys) THEN "done" ELSE IF Records THEN "record" ELSE "type"
  BY DEF ReadValue, Turn, limit, Records
<1>3. /\ pos \in 1..Len(keys) /\ Len(keys) \in Nat /\ keys[pos] \in ToSet(keys)
      /\ Current \in Content \cup {Gone}
  BY <1>1, <1>2, CurrentKey
<1>4. /\ DOMAIN item' = DOMAIN item /\ item'.lived = item.lived /\ item'.type = item.type
      /\ item'.ttl = item.ttl /\ item'.whole = (item.whole /\ ~dead)
      /\ item'.value = IF dead THEN <<>> ELSE Read(item.type, Current)
  BY <1>1 DEF ReadValue, TypeOK, Blank
<1>5. TypeOK'
  <2>1. /\ pc' \in {"type", "record", "done"} /\ pos' \in 1..(Len(keys) + 1)
        /\ pc' \in {"type", "record"} => pos' <= Len(keys)
    BY <1>2, <1>3
  <2>2. DOMAIN Blank' = DOMAIN Blank
    BY DEF Blank
  <2> QED
    BY <1>1, <1>2, <1>3, <1>4, <2>1, <2>2 DEF TypeOK
<1>6. ListingInv' /\ RecordsInv'
  BY <1>2 DEF BInv, ListingInv, RecordsInv, Collected
<1>7. ProgressInv'
  <2>1. (pc' = "done" => pos' = Len(keys') + 1) /\ (pc' = "record" => Records')
    BY <1>2, <1>3
  <2>2. ASSUME ~dead', NEW i \in 1..(pos' - 1), keys'[i] \in present' PROVE keys'[i] \in items'
    <3>1. i = pos \/ i \in 1..(pos - 1)
      BY <1>2, <1>3
    <3> QED
      BY <1>1, <1>2, <2>2, <3>1 DEF ProgressInv, Collected
  <2> QED
    BY <2>1, <2>2 DEF ProgressInv
<1>8. EntryInv'
  BY <1>1, <1>2, <1>4 DEF EntryInv, TypeOK
<1>9. Faithful'
  <2>1. Current \in item.lived
    BY <1>1, <1>2 DEF EntryInv
  <2>2. ASSUME item'.whole, NEW c \in item.lived, item.lived = {c}
        PROVE  item'.type = TypeOf(c) /\ item'.value = Shown(c) /\ item'.ttl = TTLOf(c)
    <3>1. Current = c /\ ~dead /\ item.type = TypeOf(c) /\ item.ttl = TTLOf(c)
      BY <1>1, <1>2, <1>4, <2>1, <2>2 DEF EntryInv
    <3>2. item'.value = Read(TypeOf(c), c)
      BY <1>4, <3>1
    <3>3. Read(TypeOf(c), c) = Shown(c)
      BY DEF Read, Has, TypeOf, Shown
    <3> QED
      BY <1>4, <3>1, <3>2, <3>3
  <2>3. item'.value # <<>> => Has(item.type, Current) /\ item'.value = Shown(Current)
    BY <1>4 DEF Read
  <2> QED
    BY <1>2, <1>4, <2>1, <2>2, <2>3 DEF Faithful, Has, Shown, TypeOf, TTLOf
<1> QED
  BY <1>5, <1>6, <1>7, <1>8, <1>9 DEF BInv

LEMMA ReadRecordStep == BInv /\ ReadRecord => BInv'
<1> SUFFICES ASSUME BInv, ReadRecord PROVE BInv'
  OBVIOUS
<1>1. TypeOK /\ ListingInv /\ ProgressInv /\ EntryInv /\ RecordsInv /\ Faithful
  BY DEF BInv
<1>2. /\ pc = "record" /\ UNCHANGED <<db, view, keys, dead, batches, changes, present>>
      /\ limit' = limit /\ (Records' <=> Records) /\ pos' = pos + 1
      /\ pc' = IF pos + 1 > Len(keys) THEN "done" ELSE IF Records THEN "record" ELSE "type"
  BY DEF ReadRecord, Turn, limit, Records
<1>3. /\ pos \in 1..Len(keys) /\ Len(keys) \in Nat /\ keys[pos] \in Key
      /\ keys[pos] \in ToSet(keys) /\ Current \in Content \cup {Gone}
  BY <1>1, <1>2, CurrentKey
<1>4. /\ items \subseteq items' /\ items' \subseteq items \cup {keys[pos]}
      /\ ~dead /\ keys[pos] \in present => keys[pos] \in items'
      /\ DOMAIN item' = DOMAIN Blank /\ item'.lived \subseteq Content \cup {Gone}
      /\ EntryInv' /\ Faithful'
  <2>1. CASE dead \/ ~Has("string", Current)
    <3>1. UNCHANGED <<item, items>>
      BY <2>1 DEF ReadRecord
    <3>2. EntryInv' /\ Faithful'
      BY <1>1, <1>2, <3>1 DEF EntryInv, Faithful
    <3>3. keys[pos] \in present => db[keys[pos]] # Gone
      BY <1>1 DEF TypeOK
    <3>4. dead \/ keys[pos] \notin present
      <4>1. Records
        BY <1>1, <1>2 DEF ProgressInv
      <4> QED
        BY <1>1, <1>3, <2>1, <3>3, <4>1 DEF RecordsInv, Has, Current
    <3> QED
      BY <1>1, <3>1, <3>2, <3>4 DEF TypeOK
  <2>2. CASE ~(dead \/ ~Has("string", Current))
    <3>1. /\ DOMAIN item' = DOMAIN Blank /\ item'.lived = {Current} /\ item'.whole = TRUE
          /\ item'.type = "string" /\ item'.value = Current.value
          /\ items' = items \cup {keys[pos]}
      BY <2>2 DEF ReadRecord, Blank
    <3>2. Has("string", Current) /\ Shown(Current) = Current.value /\ TypeOf(Current) = "string"
      BY <2>2 DEF Has, Shown, TypeOf
    <3>3. EntryInv' /\ Faithful'
      BY <1>1, <1>2, <3>1, <3>2 DEF ProgressInv, EntryInv, Faithful
    <3> QED
      BY <1>3, <3>1, <3>3
  <2> QED
    BY <2>1, <2>2
<1>5. TypeOK'
  <2>1. /\ pc' \in {"type", "record", "done"} /\ pos' \in 1..(Len(keys) + 1)
        /\ pc' \in {"type", "record"} => pos' <= Len(keys)
    BY <1>2, <1>3
  <2>2. DOMAIN Blank' = DOMAIN Blank
    BY DEF Blank
  <2> QED
    BY <1>1, <1>2, <1>3, <1>4, <2>1, <2>2 DEF TypeOK
<1>6. ListingInv' /\ RecordsInv'
  BY <1>1, <1>2 DEF ListingInv, RecordsInv, Collected
<1>7. ProgressInv'
  <2>1. (pc' = "done" => pos' = Len(keys') + 1) /\ (pc' = "record" => Records')
    BY <1>2, <1>3
  <2>2. ASSUME ~dead', NEW i \in 1..(pos' - 1), keys'[i] \in present' PROVE keys'[i] \in items'
    <3>1. i = pos \/ i \in 1..(pos - 1)
      BY <1>2, <1>3
    <3> QED
      BY <1>1, <1>2, <1>4, <2>2, <3>1 DEF ProgressInv, Collected
  <2> QED
    BY <2>1, <2>2 DEF ProgressInv
<1> QED
  BY <1>4, <1>5, <1>6, <1>7 DEF BInv

\* Another client: a key that is read then has held two contents at least.
LEMMA ChangeStep ==
  ASSUME BInv, NEW k \in Key, NEW c \in Content \cup {Gone}, Change(k, c)
  PROVE  BInv'
<1>1. TypeOK /\ ListingInv /\ ProgressInv /\ EntryInv /\ RecordsInv /\ Faithful
  BY DEF BInv
<1>2. /\ UNCHANGED <<view, pc, keys, pos, items, dead, batches>> /\ c # db[k]
      /\ db' = [db EXCEPT ![k] = c]
      /\ present' = IF c = Gone THEN present \ {k} ELSE present
      /\ changes < MaxChanges /\ changes' = changes + 1
      /\ limit' = limit /\ (Records' <=> Records)
  BY DEF Change, limit, Records
<1>3. /\ db'[k] = c /\ (\A j \in Key \ {k} : db'[j] = db[j]) /\ db' \in [Key -> Content \cup {Gone}]
      /\ present' \subseteq present /\ present' \subseteq {j \in Key : db'[j] # Gone}
  BY <1>1, <1>2 DEF TypeOK
<1>4. /\ EntryInv' /\ Faithful'
      /\ item'.lived \subseteq Content \cup {Gone} /\ DOMAIN item' = DOMAIN item
  <2>1. CASE pc \in {"ttl", "value"} /\ k = keys[pos]
    <3>1. /\ DOMAIN item' = DOMAIN item /\ item'.lived = item.lived \cup {c}
          /\ item'.type = item.type /\ item'.ttl = item.ttl /\ item'.value = item.value
          /\ item'.whole = item.whole
      BY <1>1, <2>1 DEF Change, TypeOK, Blank
    <3>2. Current' = c /\ Current \in item.lived /\ Current # c
      BY <1>1, <1>2, <1>3, <2>1 DEF Current, EntryInv
    <3>3. \A x : item'.lived # {x}
      BY <3>1, <3>2
    <3>4. EntryInv' /\ Faithful'
      BY <1>1, <1>2, <2>1, <3>1, <3>2, <3>3 DEF EntryInv, Faithful
    <3>5. item'.lived \subseteq Content \cup {Gone} /\ DOMAIN item' = DOMAIN item
      BY <1>1, <3>1 DEF TypeOK
    <3> QED
      BY <3>4, <3>5
  <2>2. CASE ~(pc \in {"ttl", "value"} /\ k = keys[pos])
    <3>1. item' = item
      BY <2>2 DEF Change
    <3>2. pc \in {"ttl", "value"} => Current' = Current
      BY <1>1, <1>2, <1>3, <2>2, CurrentKey DEF Current
    <3>3. EntryInv'
      BY <1>1, <1>2, <3>1, <3>2 DEF EntryInv
    <3>4. Faithful'
      BY <1>1, <1>2, <3>1 DEF Faithful
    <3> QED
      BY <1>1, <3>1, <3>3, <3>4 DEF TypeOK
  <2> QED
    BY <2>1, <2>2
<1>5. TypeOK'
  <2>1. changes' \in 0..MaxChanges
    BY <1>1, <1>2, BrowseAssumption DEF TypeOK
  <2>2. DOMAIN Blank' = DOMAIN Blank
    BY DEF Blank
  <2> QED
    BY <1>1, <1>2, <1>3, <1>4, <2>1, <2>2 DEF TypeOK
<1>6. ListingInv' /\ ProgressInv'
  BY <1>1, <1>2, <1>3 DEF ListingInv, ProgressInv, Collected
<1>7. RecordsInv'
  BY <1>1, <1>2, <1>3 DEF RecordsInv, Change
<1> QED
  BY <1>4, <1>5, <1>6, <1>7 DEF BInv

LEMMA BreakStep == BInv /\ Break => BInv'
<1> SUFFICES ASSUME BInv, Break PROVE BInv'
  OBVIOUS
<1> USE DEF Break
<1>1. limit' = limit /\ (Records' <=> Records) /\ Current' = Current
  BY DEF limit, Records, Current
<1>2. TypeOK' /\ RecordsInv' /\ ListingInv'
  BY <1>1 DEF BInv, TypeOK, RecordsInv, Blank, ListingInv, Collected
<1>3. ProgressInv' /\ EntryInv' /\ Faithful'
  BY <1>1 DEF BInv, ProgressInv, EntryInv, Faithful
<1> QED
  BY <1>2, <1>3 DEF BInv

\* The inductive invariant of the listings (dashboard.go, qstash.go).
THEOREM BrowseInductive == Spec => []BInv
<1>1. BInv /\ [Next]_vars => BInv'
  <2> SUFFICES ASSUME BInv, [Next]_vars PROVE BInv'
    OBVIOUS
  <2>1. ASSUME NEW S \in SUBSET Key, NEW ids \in SetToSeqs(S),
               ListIds(ids) \/ \E last \in BOOLEAN : Scan(ids, last)
        PROVE  BInv'
    BY <2>1, ReplyOfKeys, ListIdsStep, ScanStep
  <2>2. ASSUME NEW k \in Key, NEW c \in Content \cup {Gone}, Change(k, c) PROVE BInv'
    BY <2>2, ChangeStep
  <2>3. ASSUME UNCHANGED vars PROVE BInv'
    <3>1. limit' = limit /\ (Records' <=> Records) /\ Current' = Current
      BY <2>3 DEF vars, limit, Records, Current
    <3>2. TypeOK' /\ RecordsInv' /\ ListingInv'
      BY <2>3, <3>1 DEF vars, BInv, TypeOK, RecordsInv, Blank, ListingInv, Collected
    <3>3. ProgressInv' /\ EntryInv' /\ Faithful'
      BY <2>3, <3>1 DEF vars, BInv, ProgressInv, Collected, EntryInv, Faithful
    <3> QED
      BY <3>2, <3>3 DEF BInv
  <2> QED
    BY <2>1, <2>2, <2>3, ListFailsStep, ReadTypeStep, ReadTTLStep, ReadValueStep,
       ReadRecordStep, BreakStep DEF Next
<1> QED
  BY <1>1, BrowseInit, PTL DEF Spec

\* The type invariant: a cut listing never exceeds its limit, and the position
\* is always within the keys (dashboard.go:56-81).
THEOREM BrowseTypeCorrect == Spec => []TypeOK
<1>1. BInv => TypeOK
  BY DEF BInv
<1> QED
  BY <1>1, BrowseInductive, PTL

\* A listing that was not cut has every key that existed all the time
\* (scanKeys dashboard.go:56-81, qstash.go:297-302, 316-320).
THEOREM ListingComplete == Spec => []Complete
<1>1. BInv => Complete
  <2> SUFFICES ASSUME BInv, pc = "done", ~dead, limit > 0 => Len(keys) < limit,
                      NEW k \in present
               PROVE  k \in items
    BY DEF Complete
  <2>1. pos = Len(keys) + 1 /\ k \in ToSet(keys) /\ keys \in Seq(Key)
    BY DEF BInv, TypeOK, ListingInv, ProgressInv, Collected
  <2>2. PICK i \in 1..Len(keys) : keys[i] = k
    BY <2>1 DEF ToSet
  <2> QED
    BY <2>1, <2>2 DEF BInv, ProgressInv, Collected
<1> QED
  BY <1>1, BrowseInductive, PTL

\* No entry mixes a value with a type that is not its own (dashboard.go:46-51,
\* qstash.go:188-198).
THEOREM EntriesFaithful == Spec => []Faithful
<1>1. BInv => Faithful
  BY DEF BInv
<1> QED
  BY <1>1, BrowseInductive, PTL
=============================================================================
