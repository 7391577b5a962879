--------------------------- MODULE StreamsProofs ---------------------------
(***************************************************************************)
(* Proofs about the event streams: a client that Redis feeds gets every    *)
(* item once and in order, for any number of streams, items and any        *)
(* timeout.                                                                *)
(***************************************************************************)
EXTENDS Streams, SequenceTheorems, TLAPS

\* Only a subscription ever reaches Redis, and Redis feeds only a connection over
\* which it did.  Until then nothing has been read or copied.
FeedOK(s) ==
  /\ fed[s] => /\ asked[s] = "flushed" /\ link[s] = "up"
               /\ pc[s] \in {"open", "receive", "write"} /\ start[s] <= items
  /\ asked[s] = "flushed" => kind[s] = "subscribe"
  /\ pc[s] \in {"new", "ask"} => asked[s] = "no"
  /\ pc[s] \in {"new", "ask", "open"} => out[s] = <<>>
  /\ link[s] \in {"none", "up"} /\ ~fed[s] =>
       inbox[s] = <<>> /\ pc[s] # "write" /\ out[s] \in {<<>>, <<Opening>>}
  /\ pc[s] = "new" => link[s] = "none"
  /\ pc[s] \in {"closed", "refused"} => link[s] = "closed"
  /\ pc[s] = "write" /\ kind[s] = "subscribe" => item[s] # Reply

FeedInv == \A s \in Stream : FeedOK(s)

SInv == TypeOK /\ FeedInv /\ Conserved

-----------------------------------------------------------------------------
(* Sequences of items                                                      *)

LEMMA HeadBack ==
  ASSUME NEW b \in Seq(Int), b # <<>>
  PROVE  <<Head(b)>> \o Tail(b) = b
<1> DEFINE c == <<Head(b)>> \o Tail(b)
<1>1. /\ Head(b) \in Int /\ Tail(b) \in Seq(Int) /\ Len(Tail(b)) = Len(b) - 1
      /\ \A i \in 1..Len(Tail(b)) : Tail(b)[i] = b[i + 1]
      /\ Head(b) = b[1] /\ Len(b) \in Nat /\ Len(b) >= 1
  BY HeadTailProperties
<1>2. <<Head(b)>> \in Seq(Int) /\ Len(<<Head(b)>>) = 1 /\ <<Head(b)>>[1] = Head(b)
  BY <1>1
<1>3. /\ c \in Seq(Int) /\ Len(c) = Len(b)
      /\ \A i \in 1..Len(b) : c[i] = IF i <= 1 THEN <<Head(b)>>[i] ELSE Tail(b)[i - 1]
  BY <1>1, <1>2, ConcatProperties
<1>4. \A i \in 1..Len(b) : c[i] = b[i]
  BY <1>1, <1>2, <1>3
<1> QED
  BY <1>3, <1>4, SeqEqual

\* Nothing held: what was sent is what was copied and what is to be read.
LEMMA NoneHeld ==
  ASSUME NEW a \in Seq(Int), NEW b \in Seq(Int)
  PROVE  (a \o <<>>) \o b = a \o b
  BY ConcatEmptySeq

\* Taking the first reply from b, and copying it behind a, moves nothing.
LEMMA Taken ==
  ASSUME NEW a \in Seq(Int), NEW b \in Seq(Int), b # <<>>
  PROVE  (a \o <<Head(b)>>) \o Tail(b) = (a \o <<>>) \o b
<1>1. Head(b) \in Int /\ Tail(b) \in Seq(Int)
  BY HeadTailProperties
<1>2. <<Head(b)>> \in Seq(Int)
  BY <1>1
<1>3. (a \o <<Head(b)>>) \o Tail(b) = a \o (<<Head(b)>> \o Tail(b))
  BY <1>1, <1>2, ConcatAssociative
<1> QED
  BY <1>3, HeadBack, NoneHeld

LEMMA Copy ==
  ASSUME NEW a \in Seq(Int), NEW b \in Seq(Int), NEW e \in Int
  PROVE  (Append(a, e) \o <<>>) \o b = (a \o <<e>>) \o b
<1>1. Append(a, e) = a \o <<e>> /\ Append(a, e) \in Seq(Int)
  BY AppendIsConcat, AppendProperties
<1> QED
  BY <1>1, NoneHeld

LEMMA Behind ==
  ASSUME NEW a \in Seq(Int), NEW b \in Seq(Int), NEW e \in Int
  PROVE  a \o Append(b, e) = Append(a \o b, e)
<1>1. <<e>> \in Seq(Int) /\ a \o b \in Seq(Int)
  BY ConcatProperties
<1>2. Append(b, e) = b \o <<e>> /\ Append(a \o b, e) = (a \o b) \o <<e>>
  BY <1>1, AppendIsConcat
<1> QED
  BY <1>1, <1>2, ConcatAssociative

-----------------------------------------------------------------------------
(* What a sequence carries                                                 *)

LEMMA CarriesMore ==
  ASSUME NEW q \in Seq(Int), NEW n \in Nat, NEW first \in Nat, Carries(q, first, n)
  PROVE  Carries(Append(q, first + n + 1), first, n + 1)
<1> DEFINE c == Append(q, first + n + 1)
<1>1. /\ Len(q) \in Nat /\ Len(c) = Len(q) + 1 /\ c[Len(q) + 1] = first + n + 1
      /\ \A i \in 1..Len(q) : c[i] = q[i]
  BY AppendProperties
<1>2. /\ Len(q) - n >= 0
      /\ \A i \in 1..(Len(q) - n) : q[i] \notin 1..MaxItems
      /\ \A i \in 1..n : q[Len(q) - n + i] = first + i
  BY DEF Carries
<1> HIDE DEF c
<1>3. Len(c) - (n + 1) = Len(q) - n
  BY <1>1
<1>4. ASSUME NEW i \in 1..(Len(q) - n) PROVE c[i] \notin 1..MaxItems
  <2>1. i \in 1..Len(q)
    BY <1>1, <1>2
  <2> QED
    BY <1>1, <1>2, <2>1
<1>5. ASSUME NEW i \in 1..(n + 1) PROVE c[Len(q) - n + i] = first + i
  <2>1. CASE i = n + 1
    BY <1>1, <2>1
  <2>2. CASE i # n + 1
    <3>1. i \in 1..n /\ Len(q) - n + i \in 1..Len(q)
      BY <1>1, <1>2, <2>2
    <3> QED
      BY <1>1, <1>2, <3>1
  <2> QED
    BY <2>1, <2>2
<1>6. Carries(c, first, n + 1)
  BY <1>2, <1>3, <1>4, <1>5 DEF Carries
<1> QED
  BY <1>6 DEF c

LEMMA CarriesNone ==
  ASSUME NEW q \in Seq(Int), NEW first \in Nat, \A i \in 1..Len(q) : q[i] \notin 1..MaxItems
  PROVE  Carries(q, first, 0)
  BY DEF Carries

LEMMA CarriesAfter ==
  ASSUME NEW q \in Seq(Int), NEW n \in Nat, NEW first \in Nat, Carries(q, first, n),
         NEW e \in Int \ (1..MaxItems)
  PROVE  Carries(<<e>> \o q, first, n)
<1> DEFINE c == <<e>> \o q
<1>1. <<e>> \in Seq(Int) /\ Len(<<e>>) = 1 /\ <<e>>[1] = e
  OBVIOUS
<1>2. /\ Len(q) \in Nat /\ Len(c) = Len(q) + 1
      /\ \A i \in 1..(Len(q) + 1) : c[i] = IF i <= 1 THEN <<e>>[i] ELSE q[i - 1]
  BY <1>1, ConcatProperties
<1>3. /\ Len(q) - n >= 0
      /\ \A i \in 1..(Len(q) - n) : q[i] \notin 1..MaxItems
      /\ \A i \in 1..n : q[Len(q) - n + i] = first + i
  BY DEF Carries
<1> HIDE DEF c
<1>4. ASSUME NEW i \in 1..(Len(c) - n) PROVE c[i] \notin 1..MaxItems
  <2>1. CASE i = 1
    BY <1>1, <1>2, <2>1
  <2>2. CASE i # 1
    <3>1. i - 1 \in 1..(Len(q) - n) /\ i \in 1..(Len(q) + 1) /\ ~(i <= 1)
      BY <1>2, <1>3, <2>2
    <3> QED
      BY <1>2, <1>3, <3>1
  <2> QED
    BY <2>1, <2>2
<1>5. ASSUME NEW i \in 1..n PROVE c[Len(c) - n + i] = first + i
  <2>1. /\ Len(c) - n + i \in 1..(Len(q) + 1) /\ ~(Len(c) - n + i <= 1)
        /\ Len(c) - n + i - 1 = Len(q) - n + i
    BY <1>2, <1>3
  <2>2. c[Len(c) - n + i] = q[Len(q) - n + i]
    BY <1>2, <2>1
  <2> QED
    BY <1>3, <2>2
<1>6. Carries(c, first, n)
  BY <1>2, <1>3, <1>4, <1>5 DEF Carries
<1> QED
  BY <1>6 DEF c

\* A reply that is no item may be dropped.
LEMMA CarriesWithout ==
  ASSUME NEW a \in Seq(Int), NEW b \in Seq(Int), b # <<>>, Head(b) \notin 1..MaxItems,
         NEW n \in Nat, NEW first \in Nat, first + n <= MaxItems, Carries(a \o b, first, n)
  PROVE  Carries(a \o Tail(b), first, n)
<1> DEFINE q == a \o b
           c == a \o Tail(b)
<1>1. /\ Tail(b) \in Seq(Int) /\ Len(Tail(b)) = Len(b) - 1 /\ Head(b) = b[1]
      /\ \A i \in 1..Len(Tail(b)) : Tail(b)[i] = b[i + 1]
      /\ Len(a) \in Nat /\ Len(b) \in Nat /\ Len(b) >= 1
  BY HeadTailProperties
<1>2. /\ Len(q) = Len(a) + Len(b)
      /\ \A i \in 1..Len(q) : q[i] = IF i <= Len(a) THEN a[i] ELSE b[i - Len(a)]
  BY ConcatProperties
<1>3. /\ Len(c) = Len(a) + Len(b) - 1
      /\ \A i \in 1..Len(c) : c[i] = IF i <= Len(a) THEN a[i] ELSE Tail(b)[i - Len(a)]
  BY <1>1, ConcatProperties
<1>4. /\ Len(q) - n >= 0
      /\ \A i \in 1..(Len(q) - n) : q[i] \notin 1..MaxItems
      /\ \A i \in 1..n : q[Len(q) - n + i] = first + i
  BY DEF Carries
<1> HIDE DEF q, c
<1>5. \A i \in 1..Len(c) : c[i] = IF i <= Len(a) THEN q[i] ELSE q[i + 1]
  <2> SUFFICES ASSUME NEW i \in 1..Len(c) PROVE c[i] = IF i <= Len(a) THEN q[i] ELSE q[i + 1]
    OBVIOUS
  <2>1. CASE i <= Len(a)
    <3>1. i \in 1..Len(q)
      BY <1>1, <1>2, <1>3
    <3> QED
      BY <1>2, <1>3, <2>1, <3>1
  <2>2. CASE ~(i <= Len(a))
    <3>1. i - Len(a) \in 1..Len(Tail(b)) /\ i + 1 \in 1..Len(q) /\ ~(i + 1 <= Len(a))
          /\ i + 1 - Len(a) = i - Len(a) + 1
      BY <1>1, <1>2, <1>3, <2>2
    <3> QED
      BY <1>1, <1>2, <1>3, <2>2, <3>1
  <2> QED
    BY <2>1, <2>2
<1>6. Len(a) + 1 <= Len(q) - n
  <2>1. Len(a) + 1 \in 1..Len(q) /\ ~(Len(a) + 1 <= Len(a)) /\ Len(a) + 1 - Len(a) = 1
    BY <1>1, <1>2
  <2>2. q[Len(a) + 1] \notin 1..MaxItems
    BY <1>1, <1>2, <2>1
  <2> SUFFICES ASSUME Len(a) + 1 > Len(q) - n PROVE FALSE
    BY <1>1, <1>2
  <2> DEFINE i == Len(a) + 1 - (Len(q) - n)
  <2>3. i \in 1..n /\ Len(a) + 1 = Len(q) - n + i
    BY <1>1, <1>2, <1>4
  <2> HIDE DEF i
  <2>4. q[Len(a) + 1] = first + i
    BY <1>4, <2>3
  <2>5. first + i \in 1..MaxItems
    BY <2>3, StreamsAssumption
  <2> QED
    BY <2>2, <2>4, <2>5
<1>7. ASSUME NEW i \in 1..(Len(c) - n) PROVE c[i] \notin 1..MaxItems
  <2>1. i \in 1..Len(c) /\ i \in 1..(Len(q) - n) /\ i + 1 \in 1..(Len(q) - n)
    BY <1>1, <1>2, <1>3
  <2> QED
    BY <1>4, <1>5, <2>1
<1>8. ASSUME NEW i \in 1..n PROVE c[Len(c) - n + i] = first + i
  <2>1. /\ Len(c) - n + i \in 1..Len(c) /\ ~(Len(c) - n + i <= Len(a))
        /\ Len(c) - n + i + 1 = Len(q) - n + i
    BY <1>1, <1>2, <1>3, <1>6
  <2> QED
    BY <1>4, <1>5, <2>1
<1>9. Carries(c, first, n)
  BY <1>1, <1>2, <1>3, <1>6, <1>7, <1>8 DEF Carries
<1> QED
  BY <1>9 DEF c

-----------------------------------------------------------------------------
(* The type invariant                                                      *)

LEMMA InInt ==
  ASSUME TypeOK, NEW s \in Stream
  PROVE  /\ out[s] \in Seq(Int) /\ inbox[s] \in Seq(Int) /\ Held(s) \in Seq(Int)
         /\ Sent(s) \in Seq(Int) /\ item[s] \in Int
<1>1. Item \subseteq Int /\ Event(kind[s]) \subseteq Int
  BY DEF Item, Event, Reply, Opening
<1>2. out[s] \in Seq(Int) /\ inbox[s] \in Seq(Int) /\ item[s] \in Int
  BY <1>1, SeqMonotonic DEF TypeOK
<1>3. Held(s) \in Seq(Int)
  BY <1>2 DEF Held
<1> QED
  BY <1>2, <1>3, ConcatProperties DEF Sent

LEMMA CloseType ==
  ASSUME TypeOK, NEW s \in Stream, NEW end \in {"closed", "refused"}, Close(s, end)
  PROVE  /\ pc' \in [Stream -> {"new", "ask", "open", "receive", "write", "closed", "refused"}]
         /\ link' \in [Stream -> {"none", "up", "broken", "closed"}]
         /\ fed' \in [Stream -> BOOLEAN] /\ inbox' \in [Stream -> Seq(Item)]
<1>1. <<>> \in Seq(Item)
  OBVIOUS
<1>2. pc \in [Stream -> {"new", "ask", "open", "receive", "write", "closed", "refused"}]
      /\ link \in [Stream -> {"none", "up", "broken", "closed"}]
      /\ fed \in [Stream -> BOOLEAN] /\ inbox \in [Stream -> Seq(Item)]
  BY DEF TypeOK
<1> QED
  BY <1>1, <1>2 DEF Close

LEMMA PutType ==
  ASSUME TypeOK, NEW s \in Stream, NEW e \in Event(kind[s]), NEW noticed \in BOOLEAN,
         Put(s, e, noticed), UNCHANGED <<kind, asked, item, start, client, items>>
  PROVE  TypeOK'
<1>1. /\ pc' \in [Stream -> {"new", "ask", "open", "receive", "write", "closed", "refused"}]
      /\ link' \in [Stream -> {"none", "up", "broken", "closed"}]
      /\ fed' \in [Stream -> BOOLEAN] /\ inbox' \in [Stream -> Seq(Item)]
  <2>1. CASE noticed
    BY <2>1, CloseType DEF Put
  <2>2. CASE ~noticed
    BY <2>2 DEF Put, TypeOK
  <2> QED
    BY <2>1, <2>2
<1>2. waited' \in [Stream -> 0..Timeout]
  BY StreamsAssumption DEF Put, TypeOK
<1>3. DOMAIN out' = Stream /\ \A t \in Stream : out'[t] \in Seq(Event(kind'[t]))
  <2>1. Append(out[s], e) \in Seq(Event(kind[s]))
    BY DEF TypeOK
  <2>2. /\ DOMAIN out = Stream /\ kind' = kind
        /\ out' = out \/ out' = [out EXCEPT ![s] = Append(out[s], e)]
    BY DEF Put, TypeOK
  <2>3. \A t \in Stream : out[t] \in Seq(Event(kind[t]))
    BY DEF TypeOK
  <2> QED
    BY <2>1, <2>2, <2>3
<1> QED
  BY <1>1, <1>2, <1>3 DEF TypeOK, Event

LEMMA StreamsType == TypeOK /\ FeedInv /\ [Next]_vars => TypeOK'
<1> SUFFICES ASSUME TypeOK, FeedInv, [Next]_vars PROVE TypeOK'
  OBVIOUS
<1>1. ASSUME NEW s \in Stream, NEW ok \in BOOLEAN, Connect(s, ok) PROVE TypeOK'
  <2>1. CASE ok
    BY <1>1, <2>1 DEF Connect, TypeOK, Event
  <2>2. CASE ~ok
    BY <1>1, <2>2, CloseType DEF Connect, TypeOK, Event
  <2> QED
    BY <2>1, <2>2
<1>2. ASSUME NEW s \in Stream, Ask(s) PROVE TypeOK'
  <2>1. CASE Close(s, "refused") /\ UNCHANGED asked
    BY <1>2, <2>1, CloseType DEF Ask, TypeOK, Event
  <2>2. CASE pc' = [pc EXCEPT ![s] = "open"] /\ UNCHANGED <<link, fed, inbox>>
    BY <1>2, <2>2 DEF Ask, TypeOK, Event
  <2> QED
    BY <1>2, <2>1, <2>2 DEF Ask
<1>3. ASSUME NEW s \in Stream, NEW noticed \in BOOLEAN, Open(s, noticed) PROVE TypeOK'
  BY <1>3, PutType DEF Open, Event
<1>4. ASSUME NEW s \in Stream, Receive(s) PROVE TypeOK'
  <2>1. Head(inbox[s]) \in Item /\ Rest(inbox[s]) \in Seq(Item)
    BY <1>4, HeadTailProperties DEF Receive, Rest, TypeOK
  <2>2. /\ item' = [item EXCEPT ![s] = Head(inbox[s])]
        /\ inbox' = [inbox EXCEPT ![s] = Rest(inbox[s])]
        /\ pc' = pc \/ pc' = [pc EXCEPT ![s] = "write"]
        /\ waited' = [waited EXCEPT ![s] = 0]
        /\ UNCHANGED <<kind, asked, link, fed, start, client, out, items>>
    BY <1>4 DEF Receive, TypeOK
  <2>3. waited' \in [Stream -> 0..Timeout]
    BY <2>2, StreamsAssumption DEF TypeOK
  <2>4. item' \in [Stream -> Item] /\ inbox' \in [Stream -> Seq(Item)]
    BY <2>1, <2>2 DEF TypeOK
  <2> QED
    BY <2>2, <2>3, <2>4 DEF TypeOK, Event
<1>5. ASSUME NEW s \in Stream, ReceiveFails(s) PROVE TypeOK'
  BY <1>5, CloseType DEF ReceiveFails, TypeOK, Event
<1>6. ASSUME NEW s \in Stream, NEW noticed \in BOOLEAN, Write(s, noticed) PROVE TypeOK'
  <2>1. item[s] \in Event(kind[s])
    BY <1>6 DEF Write, TypeOK, FeedInv, FeedOK, Event, Item
  <2> QED
    BY <1>6, <2>1, PutType DEF Write
<1>7. ASSUME NEW s \in Stream, Feed(s) PROVE TypeOK'
  <2>1. Append(inbox[s], Reply) \in Seq(Item) /\ items \in 0..MaxItems
    BY DEF TypeOK, Item
  <2> QED
    BY <1>7, <2>1 DEF Feed, handler, TypeOK, Event
<1>8. ASSUME Publish PROVE TypeOK'
  <2>1. items + 1 \in Item /\ items' \in 0..MaxItems
    BY <1>8, StreamsAssumption DEF Publish, TypeOK, Item
  <2>2. inbox' \in [Stream -> Seq(Item)]
    BY <1>8, <2>1 DEF Publish, TypeOK
  <2> QED
    BY <1>8, <2>1, <2>2 DEF Publish, handler, TypeOK, Event
<1>9. ASSUME NEW s \in Stream, Break(s) \/ Leave(s) PROVE TypeOK'
  BY <1>9 DEF Break, Leave, handler, redis, TypeOK, Event
<1>10. ASSUME Tick PROVE TypeOK'
  <2>1. waited' \in [Stream -> 0..Timeout]
    BY <1>10, StreamsAssumption DEF Tick, Waiting, TypeOK
  <2> QED
    BY <1>10, <2>1 DEF Tick, handler, redis, TypeOK, Event
<1>11. ASSUME UNCHANGED vars PROVE TypeOK'
  BY <1>11 DEF vars, handler, redis, TypeOK, Event
<1> QED
  BY <1>1, <1>2, <1>3, <1>4, <1>5, <1>6, <1>7, <1>8, <1>9, <1>10, <1>11 DEF Next, Handler

-----------------------------------------------------------------------------
(* The safety invariant                                                    *)

LEMMA StreamsInit == Init => SInv
<1> SUFFICES ASSUME Init PROVE SInv
  OBVIOUS
<1>1. TypeOK
  <2>1. /\ waited \in [Stream -> 0..Timeout] /\ start \in [Stream -> 0..MaxItems]
        /\ items \in 0..MaxItems
    BY StreamsAssumption DEF Init
  <2>2. item \in [Stream -> Item] /\ inbox \in [Stream -> Seq(Item)]
    BY DEF Init, Item
  <2> QED
    BY <2>1, <2>2 DEF Init, TypeOK
<1>2. FeedInv
  BY DEF Init, FeedInv, FeedOK
<1>3. Conserved
  BY DEF Init, Conserved
<1> QED
  BY <1>1, <1>2, <1>3 DEF SInv

\* A step of one stream leaves the others alone.
LEMMA Elsewhere ==
  ASSUME SInv, NEW s \in Stream, items' = items,
         \A t \in Stream \ {s} :
           /\ kind'[t] = kind[t] /\ pc'[t] = pc[t] /\ link'[t] = link[t]
           /\ asked'[t] = asked[t] /\ fed'[t] = fed[t] /\ start'[t] = start[t]
           /\ inbox'[t] = inbox[t] /\ item'[t] = item[t] /\ client'[t] = client[t]
           /\ out'[t] = out[t],
         FeedOK(s)',
         fed'[s] /\ client'[s] => Carries(Sent(s)', start'[s], items - start'[s])
  PROVE  FeedInv' /\ Conserved'
<1>1. ASSUME NEW t \in Stream \ {s} PROVE FeedOK(t)' /\ Sent(t)' = Sent(t)
  <2>1. FeedOK(t)
    BY DEF SInv, FeedInv
  <2>2. FeedOK(t)'
    BY <1>1, <2>1 DEF FeedOK
  <2>3. Sent(t)' = Sent(t)
    BY <1>1 DEF Sent, Held
  <2> QED
    BY <2>2, <2>3
<1>2. FeedInv'
  BY <1>1 DEF FeedInv
<1>3. ASSUME NEW t \in Stream \ {s}, fed'[t], client'[t]
      PROVE  Carries(Sent(t)', start'[t], items' - start'[t])
  BY <1>1, <1>3 DEF SInv, Conserved
<1>4. \A t \in Stream : fed'[t] /\ client'[t] => Carries(Sent(t)', start'[t], items' - start'[t])
  BY <1>3
<1>5. Conserved'
  BY <1>4 DEF Conserved, Carries
<1> QED
  BY <1>2, <1>5

\* A closed stream keeps nothing but what its client got.
LEMMA Closes ==
  ASSUME SInv, NEW s \in Stream, NEW end \in {"closed", "refused"}, Close(s, end),
         items' = items, UNCHANGED <<kind, asked, start, item, client>>,
         \A t \in Stream \ {s} : out'[t] = out[t]
  PROVE  FeedInv' /\ Conserved'
<1>1. /\ pc'[s] = end /\ link'[s] = "closed" /\ fed'[s] = FALSE
      /\ \A t \in Stream \ {s} : /\ pc'[t] = pc[t] /\ link'[t] = link[t]
                                 /\ fed'[t] = fed[t] /\ inbox'[t] = inbox[t]
  BY DEF Close, SInv, TypeOK
<1>2. FeedOK(s)'
  BY <1>1 DEF SInv, FeedInv, FeedOK
<1> QED
  BY <1>1, <1>2, Elsewhere

LEMMA ConnectStep ==
  ASSUME SInv, NEW s \in Stream, NEW ok \in BOOLEAN, Connect(s, ok) PROVE FeedInv' /\ Conserved'
<1>1. CASE ok
  <2>1. /\ pc[s] = "new" /\ pc'[s] = "ask" /\ link'[s] = "up"
        /\ UNCHANGED <<kind, asked, item, start, client, out, items, fed, inbox>>
        /\ \A t \in Stream \ {s} : pc'[t] = pc[t] /\ link'[t] = link[t]
    BY <1>1 DEF Connect, SInv, TypeOK
  <2>2. FeedOK(s)' /\ ~fed'[s]
    BY <2>1 DEF SInv, FeedInv, FeedOK, TypeOK
  <2> QED
    BY <2>1, <2>2, Elsewhere
<1>2. CASE ~ok
  BY <1>2, Closes DEF Connect
<1> QED
  BY <1>1, <1>2

LEMMA Asks ==
  ASSUME SInv, NEW s \in Stream, Ask(s)
  PROVE  (Close(s, "refused") /\ UNCHANGED asked) \/ (pc' = [pc EXCEPT ![s] = "open"] /\ asked' # asked)
<1>1. asked[s] = "no" /\ asked \in [Stream -> {"no", "buffered", "flushed"}]
  BY DEF Ask, SInv, FeedInv, FeedOK, TypeOK
<1> QED
  BY <1>1 DEF Ask

LEMMA AskStep ==
  ASSUME SInv, NEW s \in Stream, Ask(s) PROVE FeedInv' /\ Conserved'
<1>1. CASE Close(s, "refused") /\ UNCHANGED asked
  BY <1>1, Closes DEF Ask
<1>2. CASE pc' = [pc EXCEPT ![s] = "open"] /\ asked' # asked
  <2>1. /\ pc[s] = "ask" /\ pc'[s] = "open"
        /\ asked'[s] = IF kind[s] = "subscribe" THEN "flushed" ELSE "buffered"
        /\ UNCHANGED <<kind, item, start, client, out, items, link, fed, inbox>>
        /\ \A t \in Stream \ {s} : pc'[t] = pc[t] /\ asked'[t] = asked[t]
    BY <1>2 DEF Ask, Close, SInv, TypeOK
  <2>2. FeedOK(s)' /\ ~fed'[s]
    BY <2>1 DEF SInv, FeedInv, FeedOK, TypeOK
  <2> QED
    BY <2>1, <2>2, Elsewhere
<1> QED
  BY <1>1, <1>2, Asks

LEMMA OpenStep ==
  ASSUME SInv, NEW s \in Stream, NEW noticed \in BOOLEAN, Open(s, noticed)
  PROVE  FeedInv' /\ Conserved'
<1>1. CASE noticed
  <2>1. out' = out
    BY <1>1 DEF Open, Put
  <2> QED
    BY <1>1, <2>1, Closes DEF Open, Put
<1>2. CASE ~noticed
  <2>1. /\ pc[s] = "open" /\ pc'[s] = "receive" /\ out[s] = <<>>
        /\ out'[s] = IF client[s] THEN <<Opening>> ELSE <<>>
        /\ UNCHANGED <<kind, asked, item, start, client, items, link, fed, inbox>>
        /\ \A t \in Stream \ {s} : pc'[t] = pc[t] /\ out'[t] = out[t]
    <3>1. pc[s] = "open" /\ out[s] = <<>>
      BY DEF Open, SInv, FeedInv, FeedOK
    <3>2. DOMAIN pc = Stream /\ DOMAIN out = Stream
      BY DEF SInv, TypeOK
    <3>3. /\ pc' = [pc EXCEPT ![s] = "receive"]
          /\ out' = IF client[s] THEN [out EXCEPT ![s] = Append(<<>>, Opening)] ELSE out
          /\ UNCHANGED <<kind, asked, item, start, client, items, link, fed, inbox>>
      BY <1>2, <3>1 DEF Open, Put
    <3> QED
      BY <3>1, <3>2, <3>3
  <2>2. FeedOK(s)'
    BY <2>1 DEF SInv, FeedInv, FeedOK, TypeOK
  <2>3. ASSUME fed'[s], client'[s] PROVE Carries(Sent(s)', start'[s], items - start'[s])
    <3>1. inbox[s] \in Seq(Int)
      BY InInt DEF SInv
    <3>2. Sent(s) = inbox[s] /\ Sent(s)' = <<Opening>> \o inbox[s]
      BY <2>1, <2>3, <3>1, ConcatEmptySeq DEF Sent, Held
    <3>3. Carries(inbox[s], start[s], items - start[s])
      BY <2>1, <2>3, <3>2 DEF SInv, Conserved
    <3>4. start[s] \in Nat /\ items - start[s] \in Nat /\ Opening \in Int \ (1..MaxItems)
      BY <2>1, <2>3, StreamsAssumption DEF SInv, TypeOK, FeedInv, FeedOK, Opening
    <3> QED
      BY <2>1, <3>1, <3>2, <3>3, <3>4, CarriesAfter
  <2> QED
    BY <2>1, <2>2, <2>3, Elsewhere
<1> QED
  BY <1>1, <1>2

LEMMA ReceiveStep ==
  ASSUME SInv, NEW s \in Stream, Receive(s) PROVE FeedInv' /\ Conserved'
<1> DEFINE i == Head(inbox[s])
<1>1. /\ pc[s] = "receive" /\ inbox[s] # <<>>
      /\ item'[s] = i /\ inbox'[s] = Tail(inbox[s])
      /\ pc'[s] = IF Copied(s, i) THEN "write" ELSE "receive"
      /\ UNCHANGED <<kind, asked, link, fed, start, client, out, items>>
      /\ \A t \in Stream \ {s} : /\ item'[t] = item[t] /\ inbox'[t] = inbox[t]
                                 /\ pc'[t] = pc[t]
  <2>1. DOMAIN pc = Stream /\ DOMAIN item = Stream /\ DOMAIN inbox = Stream
    BY DEF SInv, TypeOK
  <2>2. /\ pc[s] = "receive" /\ inbox[s] # <<>>
        /\ item' = [item EXCEPT ![s] = i] /\ inbox' = [inbox EXCEPT ![s] = Tail(inbox[s])]
        /\ pc' = IF Copied(s, i) THEN [pc EXCEPT ![s] = "write"] ELSE pc
        /\ UNCHANGED <<kind, asked, link, fed, start, client, out, items>>
    BY <2>1 DEF Receive, Rest
  <2> HIDE DEF i
  <2> QED
    BY <2>1, <2>2
<1>2. /\ out[s] \in Seq(Int) /\ inbox[s] \in Seq(Int) /\ i \in Item
      /\ Sent(s) = (out[s] \o <<>>) \o inbox[s]
  BY <1>1, InInt, HeadTailProperties DEF SInv, TypeOK, Sent, Held
<1>3. FeedOK(s)'
  <2>1. FeedOK(s) /\ (Copied(s, i) => kind[s] = "monitor" \/ i # Reply)
    BY DEF SInv, FeedInv, Copied
  <2> HIDE DEF i
  <2> QED
    BY <1>1, <2>1 DEF FeedOK
<1>4. ASSUME fed'[s], client'[s] PROVE Carries(Sent(s)', start'[s], items - start'[s])
  <2>1. Carries(Sent(s), start[s], items - start[s])
    BY <1>1, <1>4 DEF SInv, Conserved
  <2>2. CASE Copied(s, i)
    <3>1. Sent(s)' = (out[s] \o <<i>>) \o Tail(inbox[s])
      BY <1>1, <2>2 DEF Sent, Held
    <3>2. Sent(s)' = Sent(s)
      BY <1>1, <1>2, <3>1, Taken
    <3> QED
      BY <1>1, <2>1, <3>2
  <2>3. CASE ~Copied(s, i)
    <3>1. Sent(s)' = out[s] \o Tail(inbox[s]) /\ Sent(s) = out[s] \o inbox[s]
      <4>1. Sent(s)' = (out[s] \o <<>>) \o Tail(inbox[s])
        BY <1>1, <2>3 DEF Sent, Held
      <4>2. Tail(inbox[s]) \in Seq(Int)
        BY <1>1, <1>2, HeadTailProperties
      <4> QED
        BY <1>2, <4>1, <4>2, NoneHeld
    <3>2. i = Reply /\ i \notin 1..MaxItems
      BY <2>3, StreamsAssumption DEF Copied, Reply
    <3>3. start[s] \in Nat /\ items - start[s] \in Nat /\ start[s] + (items - start[s]) <= MaxItems
      BY <1>1, <1>4, StreamsAssumption DEF SInv, TypeOK, FeedInv, FeedOK
    <3>4. Carries(out[s] \o inbox[s], start[s], items - start[s])
      BY <2>1, <3>1
    <3>5. Carries(out[s] \o Tail(inbox[s]), start[s], items - start[s])
      BY <1>1, <1>2, <3>2, <3>3, <3>4, CarriesWithout
    <3> QED
      BY <1>1, <3>1, <3>5
  <2> QED
    BY <2>2, <2>3
<1> QED
  BY <1>1, <1>3, <1>4, Elsewhere

LEMMA WriteStep ==
  ASSUME SInv, NEW s \in Stream, NEW noticed \in BOOLEAN, Write(s, noticed)
  PROVE  FeedInv' /\ Conserved'
<1>1. CASE noticed
  <2>1. out' = out
    BY <1>1 DEF Write, Put
  <2> QED
    BY <1>1, <2>1, Closes DEF Write, Put
<1>2. CASE ~noticed
  <2>1. /\ pc[s] = "write" /\ pc'[s] = "receive"
        /\ client[s] => out'[s] = Append(out[s], item[s])
        /\ UNCHANGED <<kind, asked, item, start, client, items, link, fed, inbox>>
        /\ \A t \in Stream \ {s} : pc'[t] = pc[t] /\ out'[t] = out[t]
    <3>1. DOMAIN pc = Stream /\ DOMAIN out = Stream
      BY DEF SInv, TypeOK
    <3>2. /\ pc[s] = "write" /\ pc' = [pc EXCEPT ![s] = "receive"]
          /\ out' = IF client[s] THEN [out EXCEPT ![s] = Append(out[s], item[s])] ELSE out
          /\ UNCHANGED <<kind, asked, item, start, client, items, link, fed, inbox>>
      BY <1>2, <3>1 DEF Write, Put
    <3> QED
      BY <3>1, <3>2
  <2>2. FeedOK(s)'
    <3>1. FeedOK(s)
      BY DEF SInv, FeedInv
    <3> QED
      BY <2>1, <3>1 DEF FeedOK
  <2>3. ASSUME fed'[s], client'[s] PROVE Carries(Sent(s)', start'[s], items - start'[s])
    <3>1. out[s] \in Seq(Int) /\ inbox[s] \in Seq(Int) /\ item[s] \in Int
      BY InInt DEF SInv
    <3>2. Sent(s)' = (Append(out[s], item[s]) \o <<>>) \o inbox[s]
      BY <2>1, <2>3 DEF Sent, Held
    <3>3. Sent(s) = (out[s] \o <<item[s]>>) \o inbox[s]
      BY <2>1 DEF Sent, Held
    <3>4. Sent(s)' = Sent(s)
      BY <3>1, <3>2, <3>3, Copy
    <3> QED
      BY <2>1, <2>3, <3>4 DEF SInv, Conserved
  <2> QED
    BY <2>1, <2>2, <2>3, Elsewhere
<1> QED
  BY <1>1, <1>2

LEMMA FeedStep ==
  ASSUME SInv, NEW s \in Stream, Feed(s) PROVE FeedInv' /\ Conserved'
<1>1. /\ asked[s] = "flushed" /\ link[s] = "up" /\ ~fed[s]
      /\ fed'[s] = TRUE /\ start'[s] = items /\ inbox'[s] = Append(inbox[s], Reply)
      /\ UNCHANGED <<kind, pc, asked, item, link, client, out, items>>
      /\ \A t \in Stream \ {s} : fed'[t] = fed[t] /\ start'[t] = start[t] /\ inbox'[t] = inbox[t]
  <2>1. DOMAIN fed = Stream /\ DOMAIN start = Stream /\ DOMAIN inbox = Stream
    BY DEF SInv, TypeOK
  <2> QED
    BY <2>1 DEF Feed, handler
<1>2. FeedOK(s) /\ items \in Nat
  BY StreamsAssumption DEF SInv, FeedInv, TypeOK
<1>3. /\ inbox[s] = <<>> /\ pc[s] \in {"open", "receive"} /\ out[s] \in {<<>>, <<Opening>>}
  <2>1. pc[s] \notin {"new", "ask", "write"} /\ inbox[s] = <<>> /\ out[s] \in {<<>>, <<Opening>>}
    BY <1>1, <1>2 DEF FeedOK
  <2>2. pc[s] \notin {"closed", "refused"}
    BY <1>1, <1>2 DEF FeedOK
  <2> QED
    BY <2>1, <2>2 DEF SInv, TypeOK
<1>4. FeedOK(s)'
  BY <1>1, <1>2, <1>3 DEF FeedOK
<1>5. Carries(Sent(s)', start'[s], items - start'[s])
  <2> DEFINE q == out[s] \o <<Reply>>
  <2>1. Reply \in Int /\ Opening \in Int /\ Reply \notin 1..MaxItems /\ Opening \notin 1..MaxItems
    BY StreamsAssumption DEF Reply, Opening
  <2>2. <<Reply>> \in Seq(Int) /\ Len(<<Reply>>) = 1 /\ <<Reply>>[1] = Reply
    BY <2>1
  <2>3. out[s] \in Seq(Int)
    BY InInt DEF SInv
  <2>4. Sent(s)' = q
    <3>1. inbox'[s] = <<Reply>> /\ Held(s)' = <<>> /\ out'[s] = out[s]
      BY <1>1, <1>3, <2>2 DEF Held
    <3>2. Sent(s)' = (out[s] \o <<>>) \o <<Reply>>
      BY <3>1 DEF Sent
    <3> QED
      BY <2>2, <2>3, <3>2, NoneHeld
  <2>5. /\ q \in Seq(Int) /\ Len(q) = Len(out[s]) + 1
        /\ \A i \in 1..(Len(out[s]) + 1) :
             q[i] = IF i <= Len(out[s]) THEN out[s][i] ELSE <<Reply>>[i - Len(out[s])]
    BY <2>2, <2>3, ConcatProperties
  <2>6. \A i \in 1..Len(out[s]) : out[s][i] = Opening
    BY <1>3
  <2> HIDE DEF q
  <2>7. ASSUME NEW i \in 1..Len(q) PROVE q[i] \notin 1..MaxItems
    <3>1. Len(out[s]) \in Nat
      BY <2>3
    <3>2. CASE i <= Len(out[s])
      <4>1. i \in 1..Len(out[s]) /\ i \in 1..(Len(out[s]) + 1)
        BY <2>5, <3>1, <3>2
      <4>2. q[i] = Opening
        BY <2>5, <2>6, <3>2, <4>1
      <4> QED
        BY <2>1, <4>2
    <3>3. CASE ~(i <= Len(out[s]))
      <4>1. i = Len(out[s]) + 1 /\ i - Len(out[s]) = 1
        BY <2>5, <3>1, <3>3
      <4> QED
        BY <2>1, <2>2, <2>5, <3>3, <4>1
    <3> QED
      BY <3>2, <3>3
  <2>8. Carries(q, items, 0)
    BY <1>2, <2>5, <2>7, CarriesNone
  <2> QED
    BY <1>1, <1>2, <2>4, <2>8
<1> QED
  BY <1>1, <1>4, <1>5, Elsewhere

LEMMA PublishStep == SInv /\ Publish => FeedInv' /\ Conserved'
<1> SUFFICES ASSUME SInv, Publish PROVE FeedInv' /\ Conserved'
  OBVIOUS
<1>1. /\ items' = items + 1 /\ items \in Nat
      /\ UNCHANGED <<kind, pc, asked, item, link, fed, start, client, out>>
      /\ \A s \in Stream : inbox'[s] = IF fed[s] THEN Append(inbox[s], items + 1) ELSE inbox[s]
  BY StreamsAssumption DEF Publish, handler, SInv, TypeOK
<1>2. ASSUME NEW s \in Stream PROVE FeedOK(s)'
  <2>1. FeedOK(s) /\ start[s] \in Nat
    BY StreamsAssumption DEF SInv, FeedInv, TypeOK
  <2> QED
    BY <1>1, <2>1 DEF FeedOK
<1>3. ASSUME NEW s \in Stream, fed'[s], client'[s]
      PROVE  Carries(Sent(s)', start'[s], items' - start'[s])
  <2>1. /\ Carries(Sent(s), start[s], items - start[s])
        /\ start[s] \in Nat /\ items - start[s] \in Nat
    BY <1>1, <1>3, StreamsAssumption DEF SInv, Conserved, FeedInv, FeedOK, TypeOK
  <2>2. /\ out[s] \in Seq(Int) /\ inbox[s] \in Seq(Int) /\ Held(s) \in Seq(Int)
        /\ Sent(s) \in Seq(Int)
    BY InInt DEF SInv
  <2>3. Sent(s)' = (out[s] \o Held(s)) \o Append(inbox[s], items + 1)
    BY <1>1, <1>3 DEF Sent, Held
  <2>4. out[s] \o Held(s) \in Seq(Int)
    BY <2>2, ConcatProperties
  <2>5. Sent(s)' = Append(Sent(s), items + 1)
    <3>1. items + 1 \in Int
      BY <1>1
    <3>2. (out[s] \o Held(s)) \o Append(inbox[s], items + 1)
            = Append((out[s] \o Held(s)) \o inbox[s], items + 1)
      BY <2>2, <2>4, <3>1, Behind
    <3> QED
      BY <2>3, <3>2 DEF Sent
  <2>6. items + 1 = start[s] + (items - start[s]) + 1 /\ items' - start'[s] = items - start[s] + 1
    BY <1>1, <2>1
  <2> QED
    BY <1>1, <2>1, <2>2, <2>5, <2>6, CarriesMore
<1>4. FeedInv'
  BY <1>2 DEF FeedInv
<1>5. Conserved'
  BY <1>3 DEF Conserved, Carries
<1> QED
  BY <1>4, <1>5

LEMMA BreakStep == ASSUME SInv, NEW s \in Stream, Break(s) PROVE FeedInv' /\ Conserved'
<1>1. /\ link[s] = "up" /\ link'[s] = "broken" /\ fed'[s] = FALSE
      /\ UNCHANGED <<kind, pc, asked, item, start, inbox, client, out, items>>
      /\ \A t \in Stream \ {s} : link'[t] = link[t] /\ fed'[t] = fed[t]
  BY DEF Break, handler, SInv, TypeOK
<1>2. FeedOK(s)'
  <2>1. FeedOK(s)
    BY DEF SInv, FeedInv
  <2> QED
    BY <1>1, <2>1 DEF FeedOK
<1> QED
  BY <1>1, <1>2, Elsewhere

\* A step that only moves the clock or loses a client.
LEMMA NoneSent ==
  ASSUME SInv, UNCHANGED <<kind, pc, asked, item, link, fed, start, inbox, out, items>>,
         \A s \in Stream : client'[s] => client[s]
  PROVE  FeedInv' /\ Conserved'
<1>1. FeedInv'
  BY DEF SInv, FeedInv, FeedOK
<1>2. ASSUME NEW s \in Stream, fed'[s], client'[s]
      PROVE  Carries(Sent(s)', start'[s], items' - start'[s])
  <2>1. Sent(s)' = Sent(s)
    BY DEF Sent, Held
  <2> QED
    BY <1>2, <2>1 DEF SInv, Conserved
<1>3. Conserved'
  BY <1>2 DEF Conserved, Carries
<1> QED
  BY <1>1, <1>3

\* The inductive invariant of the event streams (sse.go).
THEOREM StreamsInductive == Spec => []SInv
<1>1. SInv /\ [Next]_vars => SInv'
  <2> SUFFICES ASSUME SInv, [Next]_vars PROVE SInv'
    OBVIOUS
  <2>1. TypeOK'
    BY StreamsType DEF SInv
  <2>2. ASSUME NEW s \in Stream, Handler(s) PROVE FeedInv' /\ Conserved'
    <3>1. ASSUME ReceiveFails(s) PROVE FeedInv' /\ Conserved'
      BY <3>1, Closes DEF ReceiveFails
    <3> QED
      BY <2>2, <3>1, ConnectStep, AskStep, OpenStep, ReceiveStep, WriteStep DEF Handler
  <2>3. ASSUME NEW s \in Stream, Leave(s) PROVE FeedInv' /\ Conserved'
    BY <2>3, NoneSent DEF Leave, handler, redis, SInv, TypeOK
  <2>4. ASSUME Tick \/ UNCHANGED vars PROVE FeedInv' /\ Conserved'
    BY <2>4, NoneSent DEF Tick, vars, handler, redis
  <2>5. FeedInv' /\ Conserved'
    BY <2>2, <2>3, <2>4, FeedStep, BreakStep, PublishStep DEF Next
  <2> QED
    BY <2>1, <2>5 DEF SInv
<1> QED
  BY <1>1, StreamsInit, PTL DEF Spec

\* The type invariant: a subscriber is never sent Redis's reply to SUBSCRIBE, and
\* no Receive waits longer than its timeout.
THEOREM StreamsTypeCorrect == Spec => []TypeOK
<1>1. SInv => TypeOK
  BY DEF SInv
<1> QED
  BY <1>1, StreamsInductive, PTL

\* Every item published while Redis feeds a stream is on its way to its client or
\* has arrived there, once and in order (sse.go:55-77, 115-130).
THEOREM ItemsConserved == Spec => []Conserved
<1>1. SInv => Conserved
  BY DEF SInv
<1> QED
  BY <1>1, StreamsInductive, PTL
============================================================================
