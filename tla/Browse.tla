------------------------------- MODULE Browse -------------------------------
(***************************************************************************)
(* The four readers that list a keyspace while others change it: the key   *)
(* browser (handleDashboardKeys) and ExportData of dashboard.go, and       *)
(* handleQStashList and handleQStashDLQ of qstash.go.  Each first collects *)
(* keys, by SCAN calls or one LRANGE, and then asks for every key again,   *)
(* in one or three round trips whose errors it ignores.  One action per    *)
(* round trip.  The connection may die between two; redigo then fails      *)
(* every later one at once.                                                *)
(***************************************************************************)
EXTENDS Integers, SequencesExt

CONSTANTS
  Key,         \* the keys that match the reader's pattern
  Content,     \* what a key may hold: [type, value, ttl], value a sequence
  Gone,        \* no such key
  View,        \* the readers considered
  browseLimit, \* 1000: the limit handleDashboardKeys gives scanKeys
  Page,        \* 50: elements readKeyValue reads of a list or sorted set
  MaxBatches,  \* bound: SCAN calls of a reader
  MaxChanges   \* bound: changes by other clients

ASSUME BrowseAssumption ==
  /\ IsFiniteSet(Key)
  /\ Gone \notin Content
  /\ \A c \in Content : {"type", "value", "ttl"} \subseteq DOMAIN c
  /\ View \subseteq {"keys", "export", "messages", "dlq"}
  /\ browseLimit \in Nat \ {0} /\ Page \in Nat \ {0}
  /\ MaxBatches \in Nat \ {0} /\ MaxChanges \in Nat

VARIABLES
  db,       \* the keyspace
  view,     \* the reader (never changes)
  pc,       \* the round trip it is at
  keys,     \* the keys it has collected
  pos,      \* the key it reads
  item,     \* the entry it builds, or the one it has added last
  items,    \* the keys of its answer so far: an entry does not change any more
  dead,     \* the connection is broken
  batches,  \* SCAN calls made
  changes,  \* changes made by others
  present   \* history: the keys that have existed since the reader began

vars == <<db, view, pc, keys, pos, item, items, dead, batches, changes, present>>

Records == view \in {"messages", "dlq"}
limit   == IF view = "keys" THEN browseLimit ELSE 0

\* "lived" and "whole" are history: what the key held while the entry was read,
\* and whether every reply arrived.
Blank == [type |-> "", ttl |-> 0, value |-> <<>>, lived |-> {}, whole |-> TRUE]

TypeOK ==
  /\ db \in [Key -> Content \cup {Gone}]
  /\ view \in View
  /\ pc \in {"list", "type", "ttl", "value", "record", "done", "failed"}
  /\ keys \in Seq(Key) /\ pos \in 1..(Len(keys) + 1)
  /\ limit > 0 => Len(keys) <= limit
  /\ pc \in {"type", "ttl", "value", "record"} => pos <= Len(keys)
  /\ DOMAIN item = DOMAIN Blank /\ item.lived \subseteq Content \cup {Gone}
  /\ items \subseteq ToSet(keys)
  /\ dead \in BOOLEAN
  /\ batches \in 0..MaxBatches /\ changes \in 0..MaxChanges
  /\ present \subseteq {k \in Key : db[k] # Gone}

-----------------------------------------------------------------------------
Has(type, c)   == c # Gone /\ c.type = type
TypeOf(c)      == IF c = Gone THEN "none" ELSE c.type
TTLOf(c)       == IF c = Gone THEN -2 ELSE c.ttl
FirstPage(seq) == SubSeq(seq, 1, IF Len(seq) < Page THEN Len(seq) ELSE Page)

\* What readKeyValue shows of a key: not the whole of a list or sorted set, and
\* nothing of a stream or another type it does not know.
Shown(c) ==
  CASE c = Gone -> <<>>
    [] c # Gone /\ c.type \in {"string", "hash", "set"} -> c.value
    [] c # Gone /\ c.type \in {"list", "zset"}          -> FirstPage(c.value)
    [] OTHER -> <<>>

\* Regressions: helpers as a change to the code could leave them.
CutNever(all)      == all
EnoughAtEmpty(batch, last) == last \/ batch = <<>>
ReadUntyped(type, c) == IF c = Gone THEN <<>> ELSE c.value

\* scanKeys: keys = keys[:limit]
Cut(all) == IF limit > 0 /\ Len(all) >= limit THEN SubSeq(all, 1, limit) ELSE all

\* scanKeys: it stops at cursor 0.
Enough(batch, last) == last

\* readKeyValue: a command for another type, or of a key that is gone, fails or
\* finds nothing, and is a zero value either way.
Read(type, c) == IF Has(type, c) THEN Shown(c) ELSE <<>>

Current == db[keys[pos]]

\* The next key, or the answer.
Turn(p) == /\ pos' = p
           /\ pc' = IF p > Len(keys') THEN "done" ELSE IF Records THEN "record" ELSE "type"

-----------------------------------------------------------------------------
\* One SCAN of scanKeys.  Redis may return any keys there are, some again, and
\* its cursor is 0 only when all that exist since the first SCAN were returned.
Scan(batch, last) ==
  /\ pc = "list" /\ view # "dlq" /\ ~dead
  /\ batches < MaxBatches /\ batches' = batches + 1
  /\ batches' = MaxBatches => last
  /\ \A k \in ToSet(batch) : db[k] # Gone
  /\ last => present \subseteq ToSet(keys) \cup ToSet(batch)
  /\ LET all == keys \o batch
     IN /\ keys' = Cut(all)
        /\ IF Enough(batch, last) \/ (limit > 0 /\ Len(all) >= limit)
           THEN Turn(1) ELSE UNCHANGED <<pc, pos>>
  /\ UNCHANGED <<db, view, item, items, dead, changes, present>>

\* handleQStashDLQ: LRANGE 0 -1.  An id is in the list once and stays when its
\* record expires.
ListIds(ids) ==
  /\ pc = "list" /\ view = "dlq" /\ ~dead
  /\ \A k \in present : k \in ToSet(ids)
  /\ keys' = ids
  /\ Turn(1)
  /\ UNCHANGED <<db, view, item, items, dead, batches, changes, present>>

\* SCAN or LRANGE returns an error: the whole listing is a 400.
ListFails ==
  /\ pc = "list" /\ dead
  /\ pc' = "failed"
  /\ UNCHANGED <<db, view, keys, pos, item, items, dead, batches, changes, present>>

ReadType ==
  /\ pc = "type"
  /\ item' = [Blank EXCEPT !.type = IF dead THEN "" ELSE TypeOf(Current),
                             !.lived = {Current}, !.whole = ~dead]
  /\ pc' = "ttl"
  /\ UNCHANGED <<db, view, keys, pos, items, dead, batches, changes, present>>

ReadTTL ==
  /\ pc = "ttl"
  /\ item' = [item EXCEPT !.ttl = IF dead THEN 0 ELSE TTLOf(Current), !.whole = @ /\ ~dead]
  /\ pc' = "value"
  /\ UNCHANGED <<db, view, keys, pos, items, dead, batches, changes, present>>

ReadValue ==
  /\ pc = "value"
  /\ item' = [item EXCEPT !.value = IF dead THEN <<>> ELSE Read(item.type, Current),
                          !.whole = @ /\ ~dead]
  /\ items' = items \cup {keys[pos]}
  /\ UNCHANGED <<db, view, keys, dead, batches, changes, present>>
  /\ Turn(pos + 1)

\* loadMessage: a message that is gone or unreadable is left out.
ReadRecord ==
  /\ pc = "record"
  /\ IF dead \/ ~Has("string", Current) THEN UNCHANGED <<item, items>>
     ELSE /\ item' = [Blank EXCEPT !.type = "string", !.value = Current.value,
                                   !.lived = {Current}]
          /\ items' = items \cup {keys[pos]}
  /\ UNCHANGED <<db, view, keys, dead, batches, changes, present>>
  /\ Turn(pos + 1)

\* Another client writes, deletes or lets expire a key.
Change(k, c) ==
  /\ changes < MaxChanges /\ changes' = changes + 1
  /\ c # db[k] /\ (Records /\ c # Gone => c.type = "string")
  /\ db' = [db EXCEPT ![k] = c]
  /\ present' = IF c = Gone THEN present \ {k} ELSE present
  /\ item' = IF pc \in {"ttl", "value"} /\ k = keys[pos]
             THEN [item EXCEPT !.lived = @ \cup {c}] ELSE item
  /\ UNCHANGED <<view, pc, keys, pos, items, dead, batches>>

Break ==
  /\ pc \notin {"done", "failed"} /\ ~dead
  /\ dead' = TRUE
  /\ UNCHANGED <<db, view, pc, keys, pos, item, items, batches, changes, present>>

Init ==
  /\ view \in View
  /\ db \in [Key -> Content \cup {Gone}]
  /\ \A k \in Key : Records /\ db[k] # Gone => db[k].type = "string"
  /\ present = {k \in Key : db[k] # Gone}
  /\ pc = "list" /\ keys = <<>> /\ pos = 1
  /\ item = Blank /\ items = {}
  /\ dead = FALSE /\ batches = 0 /\ changes = 0

Next ==
  \/ \E S \in SUBSET Key : \E ids \in SetToSeqs(S) :
       ListIds(ids) \/ \E last \in BOOLEAN : Scan(ids, last)
  \/ ListFails \/ ReadType \/ ReadTTL \/ ReadValue \/ ReadRecord
  \/ \E k \in Key, c \in Content \cup {Gone} : Change(k, c)
  \/ Break

Spec == Init /\ [][Next]_vars

-----------------------------------------------------------------------------
(* Properties                                                              *)

\* A listing that was not cut at its limit has every key that existed all the
\* time, and every message or dead letter whose record did, however the keyspace
\* changed around them (scanKeys dashboard.go:56-81, qstash.go:297-302, 316-320).
Complete ==
  pc = "done" /\ ~dead /\ (limit > 0 => Len(keys) < limit) =>
    present \subseteq items

\* An entry whose key did not change while it was read shows that key.  One whose
\* key did mixes moments, but never shows a value under another type than its
\* own, and a record is always a whole one (dashboard.go:46-51, qstash.go:188-198).
Faithful ==
  pc \notin {"ttl", "value"} =>
    /\ item.whole => \A c \in item.lived : item.lived = {c} =>
         item.type = TypeOf(c) /\ item.value = Shown(c) /\ (Records \/ item.ttl = TTLOf(c))
    /\ item.value # <<>> =>
         \E c \in item.lived : Has(item.type, c) /\ item.value = Shown(c)
=============================================================================
