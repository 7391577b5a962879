------------------------------ MODULE Streams ------------------------------
(***************************************************************************)
(* The server-sent event streams of internal/sse.go: /subscribe/<channel>  *)
(* and /monitor each dial a Redis connection of their own, ask Redis to    *)
(* feed it, tell the client that the stream has begun, and then copy what  *)
(* arrives to the client until the client is gone or a Receive fails.      *)
(*                                                                         *)
(* redigo is external: Send only writes into a buffer, Flush empties it,   *)
(* and Receive reads, without flushing, for at most the read timeout the   *)
(* connection was dialled with (main.go, dialWithRetry).                   *)
(*                                                                         *)
(* One feed stands for the channel, or for the commands MONITOR reports:   *)
(* its items are numbered.                                                 *)
(***************************************************************************)
EXTENDS Integers, Sequences

CONSTANTS
  Stream,    \* requests for a stream
  Timeout,   \* DialReadTimeout, in ticks of the clock
  MaxItems   \* bound: items of the feed

ASSUME StreamsAssumption == Timeout \in Nat \ {0} /\ MaxItems \in Nat

VARIABLES
  kind,      \* which endpoint was asked for (never changes)
  pc,        \* where the handler or its stream writer is
  link,      \* the stream's own Redis connection
  asked,     \* SUBSCRIBE or MONITOR: not sent, in redigo's buffer, on its way
  fed,       \* Redis feeds the connection
  start,     \* history: items there were when it began to
  inbox,     \* what Redis has sent on it and Receive has not read
  waited,    \* ticks the current Receive has waited
  item,      \* what the last Receive returned
  client,    \* whether the HTTP client is still there
  out,       \* what the client got
  items      \* items of the feed so far

handler == <<pc, asked, item>>
redis   == <<link, fed, start, inbox>>
vars    == <<kind, handler, redis, waited, client, out, items>>

Reply    == 0    \* Redis's answer to SUBSCRIBE or MONITOR
Opening  == -1   \* the event the handler writes first
Item     == {Reply} \cup 1..MaxItems
Event(k) == {Opening} \cup IF k = "monitor" THEN Item ELSE 1..MaxItems

TypeOK ==
  /\ kind \in [Stream -> {"subscribe", "monitor"}]
  /\ pc \in [Stream -> {"new", "ask", "open", "receive", "write", "closed", "refused"}]
  /\ link \in [Stream -> {"none", "up", "broken", "closed"}]
  /\ asked \in [Stream -> {"no", "buffered", "flushed"}]
  /\ fed \in [Stream -> BOOLEAN]
  /\ start \in [Stream -> 0..MaxItems]
  /\ inbox \in [Stream -> Seq(Item)]
  /\ waited \in [Stream -> 0..Timeout]
  /\ item \in [Stream -> Item]
  /\ client \in [Stream -> BOOLEAN]
  /\ DOMAIN out = Stream /\ \A s \in Stream : out[s] \in Seq(Event(kind[s]))
  /\ items \in 0..MaxItems

-----------------------------------------------------------------------------
(* Regressions: helpers as a change to the code could leave them.          *)

TimedOutNever(s) == FALSE
CopiedAlways(s, i) == TRUE
RestDropped(q) == <<>>

-----------------------------------------------------------------------------
\* The deferred Close: Redis stops feeding the connection.
Close(s, end) ==
  /\ pc' = [pc EXCEPT ![s] = end]
  /\ link' = [link EXCEPT ![s] = "closed"]
  /\ fed' = [fed EXCEPT ![s] = FALSE]
  /\ inbox' = [inbox EXCEPT ![s] = <<>>]

\* streamConn and authRedisConn.
Connect(s, ok) ==
  /\ pc[s] = "new"
  /\ IF ok
     THEN /\ pc' = [pc EXCEPT ![s] = "ask"]
          /\ link' = [link EXCEPT ![s] = "up"]
          /\ UNCHANGED <<fed, inbox>>
     ELSE Close(s, "refused")
  /\ UNCHANGED <<kind, asked, item, start, waited, client, out, items>>

\* PubSubConn.Subscribe sends and flushes, which a broken connection may refuse;
\* the monitor's Send does not.
Ask(s) ==
  /\ pc[s] = "ask"
  /\ \/ /\ kind[s] = "subscribe" /\ link[s] = "broken"
        /\ Close(s, "refused") /\ UNCHANGED asked
     \/ /\ pc' = [pc EXCEPT ![s] = "open"]
        /\ asked' = [asked EXCEPT ![s] =
                       IF kind[s] = "subscribe" THEN "flushed" ELSE "buffered"]
        /\ UNCHANGED <<link, fed, inbox>>
  /\ UNCHANGED <<kind, item, start, waited, client, out, items>>

\* Writing to the client and flushing: it got e, or is gone, which a write may
\* or may not notice.
Put(s, e, noticed) ==
  /\ noticed => ~client[s]
  /\ out' = IF client[s] THEN [out EXCEPT ![s] = Append(@, e)] ELSE out
  /\ waited' = [waited EXCEPT ![s] = 0]
  /\ IF noticed THEN Close(s, "closed")
     ELSE pc' = [pc EXCEPT ![s] = "receive"] /\ UNCHANGED <<link, fed, inbox>>

\* The first event, before anything is read from Redis.
Open(s, noticed) ==
  /\ pc[s] = "open"
  /\ Put(s, Opening, noticed)
  /\ UNCHANGED <<kind, asked, item, start, client, items>>

\* What stays to be read after one reply.
Rest(q) == Tail(q)

\* The subscriber's switch has no case for a redis.Subscription.
Copied(s, i) == kind[s] = "monitor" \/ i # Reply

Receive(s) ==
  /\ pc[s] = "receive" /\ inbox[s] # <<>>
  /\ item' = [item EXCEPT ![s] = Head(inbox[s])]
  /\ inbox' = [inbox EXCEPT ![s] = Rest(@)]
  /\ pc' = IF Copied(s, Head(inbox[s])) THEN [pc EXCEPT ![s] = "write"] ELSE pc
  /\ waited' = [waited EXCEPT ![s] = 0]
  /\ UNCHANGED <<kind, asked, link, fed, start, client, out, items>>

TimedOut(s) == waited[s] = Timeout

\* Receive fails: the stream ends, whatever the error was.
ReceiveFails(s) ==
  /\ pc[s] = "receive"
  /\ (inbox[s] = <<>> /\ TimedOut(s)) \/ link[s] = "broken"
  /\ Close(s, "closed")
  /\ UNCHANGED <<kind, asked, item, start, waited, client, out, items>>

Write(s, noticed) ==
  /\ pc[s] = "write"
  /\ Put(s, item[s], noticed)
  /\ UNCHANGED <<kind, asked, item, start, client, items>>

-----------------------------------------------------------------------------
(* Redis, the client and the clock                                         *)

\* Redis handles a SUBSCRIBE or MONITOR that has reached it.
Feed(s) ==
  /\ asked[s] = "flushed" /\ link[s] = "up" /\ ~fed[s]
  /\ fed' = [fed EXCEPT ![s] = TRUE]
  /\ start' = [start EXCEPT ![s] = items]
  /\ inbox' = [inbox EXCEPT ![s] = Append(@, Reply)]
  /\ UNCHANGED <<kind, handler, link, waited, client, out, items>>

\* handlePublish, or any command while a monitor is fed.
Publish ==
  /\ items < MaxItems
  /\ items' = items + 1
  /\ inbox' = [s \in Stream |-> IF fed[s] THEN Append(inbox[s], items + 1)
                                          ELSE inbox[s]]
  /\ UNCHANGED <<kind, handler, link, fed, start, waited, client, out>>

\* Redis goes away, or closes the connection.
Break(s) ==
  /\ link[s] = "up"
  /\ link' = [link EXCEPT ![s] = "broken"]
  /\ fed' = [fed EXCEPT ![s] = FALSE]
  /\ UNCHANGED <<kind, handler, start, inbox, waited, client, out, items>>

Leave(s) ==
  /\ client[s]
  /\ client' = [client EXCEPT ![s] = FALSE]
  /\ UNCHANGED <<kind, handler, redis, waited, out, items>>

Waiting(s) == pc[s] = "receive" /\ inbox[s] = <<>> /\ waited[s] < Timeout

Tick ==
  /\ \E s \in Stream : Waiting(s)
  /\ waited' = [s \in Stream |-> IF Waiting(s) THEN waited[s] + 1 ELSE waited[s]]
  /\ UNCHANGED <<kind, handler, redis, client, out, items>>

-----------------------------------------------------------------------------
Init ==
  /\ kind \in [Stream -> {"subscribe", "monitor"}]
  /\ pc = [s \in Stream |-> "new"]
  /\ link = [s \in Stream |-> "none"]
  /\ asked = [s \in Stream |-> "no"]
  /\ fed = [s \in Stream |-> FALSE]
  /\ start = [s \in Stream |-> 0]
  /\ inbox = [s \in Stream |-> <<>>]
  /\ waited = [s \in Stream |-> 0]
  /\ item = [s \in Stream |-> Reply]
  /\ client = [s \in Stream |-> TRUE]
  /\ out = [s \in Stream |-> <<>>]
  /\ items = 0

Handler(s) ==
  \/ Ask(s) \/ Receive(s) \/ ReceiveFails(s)
  \/ \E b \in BOOLEAN : Connect(s, b) \/ Open(s, b) \/ Write(s, b)

Next ==
  \/ \E s \in Stream : Handler(s) \/ Feed(s) \/ Break(s) \/ Leave(s)
  \/ Publish \/ Tick

Spec == Init /\ [][Next]_vars

\* A handler runs on, and the clock.  Redis need not answer.
Fairness == WF_vars(Tick) /\ \A s \in Stream : WF_vars(Handler(s))

FairSpec == Spec /\ Fairness

-----------------------------------------------------------------------------
(* Properties                                                              *)

Held(s) == IF pc[s] = "write" THEN <<item[s]>> ELSE <<>>

\* What the client of s got, and behind it what is on its way.
Sent(s) == out[s] \o Held(s) \o inbox[s]

\* q ends with the n items after the first, in order, and has no other item.
Carries(q, first, n) ==
  LET before == Len(q) - n
  IN  /\ before >= 0
      /\ \A i \in 1..before : q[i] \notin 1..MaxItems
      /\ \A i \in 1..n : q[before + i] = first + i

\* As long as Redis feeds a stream and its client is there, every item since is
\* on its way or has arrived, once and in order (the loops of sse.go:55-77,
\* 115-130).
Conserved ==
  \A s \in Stream : fed[s] /\ client[s] => Carries(Sent(s), start[s], items - start[s])

\* The connection of a client that has left is given back, also on a feed that
\* is silent, where no write can notice (sse.go:50-51, 113).
Released ==
  \A s \in Stream : ~client[s] /\ link[s] = "up" ~> link[s] = "closed"
=============================================================================
