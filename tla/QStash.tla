------------------------------- MODULE QStash -------------------------------
(***************************************************************************)
(* The QStash emulator of internal/qstash.go: HTTP handlers store messages *)
(* in Redis and put their ids in a sorted set scored by due time; one      *)
(* goroutine per server process polls the set, claims a due id with ZREM,  *)
(* POSTs the message, and marks it delivered, reschedules or buries it.     *)
(*                                                                         *)
(* One action is one round trip: to Redis, or to the destination.  Each    *)
(* command's reply is ignored by the code in its own way, so every action  *)
(* takes the outcome o of its round trip:                                  *)
(*   "ok"      the command ran and its reply arrived;                      *)
(*   "error"   Redis answered an error (OOM, BUSY, NOPERM...): nothing was *)
(*             done and the connection is still good;                      *)
(*   "lost"    the command ran, its reply did not arrive (5 s timeout);    *)
(*   "broken"  the connection was dead before the command ran.             *)
(* After "lost" and "broken" redigo answers every further Do on that       *)
(* connection with an error, without sending it.                           *)
(***************************************************************************)
EXTENDS Integers, FiniteSets

CONSTANTS
  Server,       \* server processes that share one Redis
  MsgId,        \* message ids (16 random bytes: never reused)
  Nil,          \* no message, no record, no server
  RetryChoice,  \* values of Upstash-Retries the clients send
  DelayChoice,  \* values of Upstash-Delay, in seconds
  RetryLimit,   \* no value in RetryChoice is larger
  RetryWait,    \* RetryWait[r]: seconds from now to the score of the r-th retry
  Faults,       \* outcomes other than "ok" a live connection can have
  MaxExits,     \* bound: times a server process may end
  MaxAttempts   \* bound: POSTs of one message

NeverDue == -1  \* a negative score, which ZRANGEBYSCORE key 0 now never returns

ASSUME NilAssumption == Nil \notin MsgId \cup Server
ASSUME RetryAssumption ==
  /\ RetryLimit \in Nat
  /\ RetryChoice \subseteq 0..RetryLimit
  /\ DelayChoice \subseteq Nat \cup {NeverDue}
  /\ RetryWait \in [1..RetryLimit -> Nat \cup {NeverDue}]
ASSUME FaultsAssumption == Faults \subseteq {"error", "lost", "broken"}
ASSUME BoundsAssumption == MaxExits \in Nat /\ MaxAttempts \in Nat

VARIABLES
  store,     \* Redis qstash:msg:<id>: a record or Nil
  volatile,  \* the records that carry a TTL
  queued,    \* Redis qstash:queue, a sorted set: its members
  wait,      \* seconds until the score of a queued id is due, or NeverDue
  dlq,       \* Redis qstash:dlq, a list: how often an id occurs in it
  req,       \* what the publisher asks for (never changes)
  pub,       \* progress of handleQStashPublish for the message
  pubAt,     \* the server process that runs it
  phase,     \* life of a server process
  exits,     \* how often one of them has ended
  pc,        \* what its delivery goroutine does next
  batch,     \* ids of the current scan it has not come to yet
  cur,       \* the id it claimed
  msg,       \* its copy of the record
  conn,      \* whether the connection processDue holds is good
  attempts,  \* history: POSTs made
  acked      \* history: messages whose 2xx reached the worker

redis   == <<store, volatile, queued, wait, dlq>>
publish == <<req, pub, pubAt>>
process == <<phase, exits>>
worker  == <<pc, batch, cur, msg, conn>>
history == <<attempts, acked>>
vars    == <<redis, publish, process, worker, history>>

Record  == [state : {"queued", "retrying", "delivered", "failed"}, retries : Nat]
Request == [maxRetries : RetryChoice, delay : DelayChoice, valid : BOOLEAN]

ASSUME RecordAssumption == Nil \notin Record

TypeOK ==
  /\ store \in [MsgId -> Record \cup {Nil}]
  /\ volatile \subseteq MsgId
  /\ queued \subseteq MsgId
  /\ wait \in [MsgId -> Nat \cup {NeverDue}]
  /\ dlq \in [MsgId -> Nat]
  /\ req \in [MsgId -> Request]
  /\ pub \in [MsgId -> {"unsent", "open", "cut", "accepted", "misreported",
                        "refused", "aborted"}]
  /\ pubAt \in [MsgId -> Server \cup {Nil}]
  /\ phase \in [Server -> {"running", "stopping", "exited"}]
  /\ exits \in 0..MaxExits
  /\ pc \in [Server -> {"loop", "load", "post", "save", "requeue", "bury",
                        "expire", "returned"}]
  /\ batch \in [Server -> SUBSET MsgId]
  /\ cur \in [Server -> MsgId \cup {Nil}]
  /\ msg \in [Server -> Record \cup {Nil}]
  /\ conn \in [Server -> BOOLEAN]
  /\ attempts \in [MsgId -> Nat]
  /\ acked \subseteq MsgId

-----------------------------------------------------------------------------
(* Regressions: helpers as a change to the code could leave them.  No      *)
(* behaviour of Spec uses them.                                            *)

DueAll == queued
RemovedUnchecked(m, o) == o = "ok"
RetriedLate(r, max) ==
  [retries |-> r.retries + 1,
   state   |-> IF r.retries > max THEN "failed" ELSE "retrying"]
RetriedEarly(r, max) ==
  [retries |-> r.retries + 1,
   state   |-> IF r.retries + 1 >= max THEN "failed" ELSE "retrying"]
RetriedSilently(r, max) ==
  [retries |-> r.retries + 1,
   state   |-> IF r.retries + 1 > max THEN "failed" ELSE r.state]
RetriedUnknown(r, max) ==
  [retries |-> r.retries + 1,
   state   |-> IF r.retries + 1 > max THEN "dead" ELSE "retrying"]
AfterSaveUnburied(state) == IF state = "retrying" THEN "requeue" ELSE "expire"
AfterSaveDropped(state) == IF state = "failed" THEN "bury" ELSE "expire"

-----------------------------------------------------------------------------
(* Round trips                                                             *)

Outcome(up) == IF up THEN {"ok"} \cup Faults ELSE {"broken"}
Applied(o)  == o \in {"ok", "lost"}
Alive(o)    == o \in {"ok", "error"}

Set(m, r) == store' = [store EXCEPT ![m] = r] /\ volatile' = volatile \ {m}

Enqueue(m, w) == queued' = queued \cup {m} /\ wait' = [wait EXCEPT ![m] = w]

-----------------------------------------------------------------------------
(* handleQStashPublish                                                     *)

\* saveMessage: its error is ignored, whatever it is.
PublishSave(m, s, o) ==
  /\ pub[m] = "unsent"
  /\ phase[s] = "running"
  /\ pub' = [pub EXCEPT ![m] = IF Alive(o) THEN "open" ELSE "cut"]
  /\ pubAt' = [pubAt EXCEPT ![m] = s]
  /\ IF Applied(o) THEN Set(m, [state |-> "queued", retries |-> 0])
     ELSE UNCHANGED <<store, volatile>>
  /\ UNCHANGED <<queued, wait, dlq, req, process, worker, history>>

\* ZADD, then 200 or 400.  "misreported": queued, and the client is told 400.
PublishEnqueue(m, o) ==
  /\ pub[m] \in {"open", "cut"}
  /\ pub' = [pub EXCEPT ![m] = IF o = "ok" THEN "accepted"
                               ELSE IF Applied(o) THEN "misreported" ELSE "refused"]
  /\ IF Applied(o) THEN Enqueue(m, req[m].delay) ELSE UNCHANGED <<queued, wait>>
  /\ UNCHANGED <<store, volatile, dlq, req, pubAt, process, worker, history>>

-----------------------------------------------------------------------------
(* The delivery goroutine: loop, processDue, deliver, retry, fail          *)

Due == {m \in queued : wait[m] = 0}

\* ZRANGEBYSCORE.  A scan that fails or finds nothing changes nothing; the
\* order of the ids is left open.  select may pick the ticker after Stop.
Scan(s) ==
  /\ phase[s] # "exited" /\ pc[s] = "loop" /\ batch[s] = {}
  /\ Due # {}
  /\ batch' = [batch EXCEPT ![s] = Due]
  /\ conn' = [conn EXCEPT ![s] = TRUE]
  /\ UNCHANGED <<redis, publish, process, pc, cur, msg, history>>

\* redis.Int(ZREM) is not 0: the id was there, and the reply says so.
Removed(m, o) == o = "ok" /\ m \in queued

\* ZREM; the id is skipped unless this worker removed it.
Claim(s, m, o) ==
  /\ pc[s] = "loop" /\ m \in batch[s]
  /\ batch' = [batch EXCEPT ![s] = @ \ {m}]
  /\ conn' = [conn EXCEPT ![s] = Alive(o)]
  /\ IF Applied(o) /\ m \in queued
     THEN queued' = queued \ {m} /\ wait' = [wait EXCEPT ![m] = 0]
     ELSE UNCHANGED <<queued, wait>>
  /\ IF Removed(m, o)
     THEN pc' = [pc EXCEPT ![s] = "load"] /\ cur' = [cur EXCEPT ![s] = m]
     ELSE UNCHANGED <<pc, cur>>
  /\ UNCHANGED <<store, volatile, dlq, publish, process, msg, history>>

\* The goroutine is done with its message and goes on with the batch.
Finish(s) ==
  /\ pc' = [pc EXCEPT ![s] = "loop"]
  /\ cur' = [cur EXCEPT ![s] = Nil]
  /\ msg' = [msg EXCEPT ![s] = Nil]

\* loadMessage: without a record deliver returns, and the id stays claimed.
Load(s, o) ==
  /\ pc[s] = "load"
  /\ conn' = [conn EXCEPT ![s] = Alive(o)]
  /\ IF o = "ok" /\ store[cur[s]] # Nil
     THEN /\ msg' = [msg EXCEPT ![s] = store[cur[s]]]
          /\ pc' = [pc EXCEPT ![s] = "post"]
          /\ UNCHANGED cur
     ELSE Finish(s)
  /\ UNCHANGED <<redis, publish, process, batch, history>>

Marked(r, state) == [state |-> state, retries |-> r.retries]

\* http.NewRequest rejects the destination: fail at once, without a POST.
PostInvalid(s) ==
  /\ pc[s] = "post" /\ ~req[cur[s]].valid
  /\ msg' = [msg EXCEPT ![s] = Marked(@, "failed")]
  /\ pc' = [pc EXCEPT ![s] = "save"]
  /\ UNCHANGED <<redis, publish, process, batch, cur, conn, history>>

\* The POST is answered with a 2xx.
PostAcked(s) ==
  LET m == cur[s] IN
  /\ pc[s] = "post" /\ req[m].valid /\ attempts[m] < MaxAttempts
  /\ attempts' = [attempts EXCEPT ![m] = @ + 1]
  /\ acked' = acked \cup {m}
  /\ msg' = [msg EXCEPT ![s] = Marked(@, "delivered")]
  /\ pc' = [pc EXCEPT ![s] = "save"]
  /\ UNCHANGED <<redis, publish, process, batch, cur, conn>>

\* retry: one more failure on the record, and whether it was the last one.
Retried(r, max) ==
  [retries |-> r.retries + 1,
   state   |-> IF r.retries + 1 > max THEN "failed" ELSE "retrying"]

\* The POST fails: another status, no connection, or a 2xx that is lost or later
\* than the client's 10 s timeout, which the worker cannot tell apart.
PostFailed(s) ==
  LET m == cur[s] IN
  /\ pc[s] = "post" /\ req[m].valid /\ attempts[m] < MaxAttempts
  /\ attempts' = [attempts EXCEPT ![m] = @ + 1]
  /\ msg' = [msg EXCEPT ![s] = Retried(@, req[m].maxRetries)]
  /\ pc' = [pc EXCEPT ![s] = "save"]
  /\ UNCHANGED <<redis, publish, process, batch, cur, conn, acked>>

\* What follows saveMessage in deliver, retry and fail.
AfterSave(state) ==
  IF state = "delivered" THEN "expire" ELSE IF state = "failed" THEN "bury" ELSE "requeue"

\* saveMessage: its error is ignored.
Save(s, o) ==
  /\ pc[s] = "save"
  /\ conn' = [conn EXCEPT ![s] = Alive(o)]
  /\ IF Applied(o) THEN Set(cur[s], msg[s]) ELSE UNCHANGED <<store, volatile>>
  /\ pc' = [pc EXCEPT ![s] = AfterSave(msg[s].state)]
  /\ UNCHANGED <<queued, wait, dlq, publish, process, batch, cur, msg, history>>

\* retry: ZADD with the backoff; its error is ignored.
Requeue(s, o) ==
  /\ pc[s] = "requeue"
  /\ conn' = [conn EXCEPT ![s] = Alive(o)]
  /\ IF Applied(o) THEN Enqueue(cur[s], RetryWait[msg[s].retries])
     ELSE UNCHANGED <<queued, wait>>
  /\ Finish(s)
  /\ UNCHANGED <<store, volatile, dlq, publish, process, batch, history>>

\* fail: LPUSH; its error is ignored.
Bury(s, o) ==
  /\ pc[s] = "bury"
  /\ conn' = [conn EXCEPT ![s] = Alive(o)]
  /\ dlq' = IF Applied(o) THEN [dlq EXCEPT ![cur[s]] = @ + 1] ELSE dlq
  /\ pc' = [pc EXCEPT ![s] = "expire"]
  /\ UNCHANGED <<store, volatile, queued, wait, publish, process, batch, cur,
                 msg, history>>

\* deliver, fail: EXPIRE (0 on a missing key); its error is ignored.
Expire(s, o) ==
  /\ pc[s] = "expire"
  /\ conn' = [conn EXCEPT ![s] = Alive(o)]
  /\ volatile' = IF Applied(o) /\ store[cur[s]] # Nil
                 THEN volatile \cup {cur[s]} ELSE volatile
  /\ Finish(s)
  /\ UNCHANGED <<store, queued, wait, dlq, publish, process, batch, history>>

\* loop: select takes the closed stop channel.
LoopReturn(s) ==
  /\ phase[s] = "stopping" /\ pc[s] = "loop" /\ batch[s] = {}
  /\ pc' = [pc EXCEPT ![s] = "returned"]
  /\ UNCHANGED <<redis, publish, process, batch, cur, msg, conn, history>>

-----------------------------------------------------------------------------
(* Time, and the life of a server process                                  *)

\* A second passes.
Tick ==
  /\ \E m \in queued : wait[m] > 0
  /\ wait' = [m \in MsgId |-> IF m \in queued /\ wait[m] > 0 THEN wait[m] - 1
                                                             ELSE wait[m]]
  /\ UNCHANGED <<store, volatile, queued, dlq, publish, process, worker, history>>

\* Redis drops a record whose TTL (1 h) has passed.
Evict(m) ==
  /\ m \in volatile
  /\ store' = [store EXCEPT ![m] = Nil]
  /\ volatile' = volatile \ {m}
  /\ UNCHANGED <<queued, wait, dlq, publish, process, worker, history>>

\* SIGTERM: Serve returns, and main's deferred Stop closes the stop channel.
Stop(s) ==
  /\ phase[s] = "running" /\ exits < MaxExits
  /\ phase' = [phase EXCEPT ![s] = "stopping"]
  /\ UNCHANGED <<redis, publish, exits, worker, history>>

\* The process ends: by a crash, or because main returns after Stop, which
\* waits for nobody.  The goroutines end wherever they are.
Exit(s) ==
  /\ phase[s] # "exited" /\ exits < MaxExits
  /\ phase' = [phase EXCEPT ![s] = "exited"]
  /\ exits' = exits + 1
  /\ pub' = [m \in MsgId |-> IF pub[m] \in {"open", "cut"} /\ pubAt[m] = s
                             THEN "aborted" ELSE pub[m]]
  /\ pc' = [pc EXCEPT ![s] = "returned"]
  /\ batch' = [batch EXCEPT ![s] = {}]
  /\ cur' = [cur EXCEPT ![s] = Nil]
  /\ msg' = [msg EXCEPT ![s] = Nil]
  /\ conn' = [conn EXCEPT ![s] = FALSE]
  /\ UNCHANGED <<redis, req, pubAt, history>>

\* main: NewQStash and Start.
Start(s) ==
  /\ phase[s] = "exited"
  /\ phase' = [phase EXCEPT ![s] = "running"]
  /\ pc' = [pc EXCEPT ![s] = "loop"]
  /\ UNCHANGED <<redis, publish, exits, batch, cur, msg, conn, history>>

-----------------------------------------------------------------------------
Init ==
  /\ store = [m \in MsgId |-> Nil]
  /\ volatile = {}
  /\ queued = {}
  /\ wait = [m \in MsgId |-> 0]
  /\ dlq = [m \in MsgId |-> 0]
  /\ req \in [MsgId -> Request]
  /\ pub = [m \in MsgId |-> "unsent"]
  /\ pubAt = [m \in MsgId |-> Nil]
  /\ phase = [s \in Server |-> "running"]
  /\ exits = 0
  /\ pc = [s \in Server |-> "loop"]
  /\ batch = [s \in Server |-> {}]
  /\ cur = [s \in Server |-> Nil]
  /\ msg = [s \in Server |-> Nil]
  /\ conn = [s \in Server |-> FALSE]
  /\ attempts = [m \in MsgId |-> 0]
  /\ acked = {}

Publisher(m) ==
  \/ \E s \in Server, o \in Outcome(TRUE) : PublishSave(m, s, o)
  \/ \E o \in Outcome(pub[m] = "open") : PublishEnqueue(m, o)

Worker(s) ==
  \/ Scan(s)
  \/ LoopReturn(s)
  \/ PostInvalid(s)
  \/ PostAcked(s)
  \/ PostFailed(s)
  \/ \E o \in Outcome(conn[s]) :
       \/ \E m \in MsgId : Claim(s, m, o)
       \/ Load(s, o)
       \/ Save(s, o)
       \/ Requeue(s, o)
       \/ Bury(s, o)
       \/ Expire(s, o)

Process(s) == Stop(s) \/ Exit(s) \/ Start(s)

Next ==
  \/ \E m \in MsgId : Publisher(m) \/ Evict(m)
  \/ \E s \in Server : Worker(s) \/ Process(s)
  \/ Tick

Spec == Init /\ [][Next]_vars

\* Every round trip ends (5 s and 10 s timeouts), the ticker keeps ticking,
\* Redis expires keys, a stopping process ends and a process that ended is
\* started again.  Nothing makes a client publish, a process end or Redis fail.
Fairness ==
  /\ WF_vars(Tick)
  /\ \A m \in MsgId :
       /\ WF_vars(\E o \in Outcome(pub[m] = "open") : PublishEnqueue(m, o))
       /\ WF_vars(Evict(m))
  /\ \A s \in Server :
       /\ WF_vars(Worker(s))
       /\ WF_vars(phase[s] = "stopping" /\ Exit(s))
       /\ WF_vars(Start(s))

FairSpec == Spec /\ Fairness

-----------------------------------------------------------------------------
(* Properties                                                              *)

Held(m)    == \E s \in Server : cur[s] = m
Entered(m) == pub[m] \in {"accepted", "misreported"}
InDlq(m)   == dlq[m] > 0

\* ZREM's reply makes a claim exclusive: a message is never in the hands of two
\* workers, nor claimed and claimable, however the rounds of several processes,
\* faults and restarts interleave (processDue, qstash.go:106-110).
ClaimExclusive ==
  \A s \in Server : cur[s] # Nil =>
    cur[s] \notin queued /\ \A t \in Server \ {s} : cur[t] # cur[s]

\* Once the worker has seen a 2xx the message is never POSTed again, whatever
\* happens to the writes that should record it (deliver, qstash.go:137-144).
NoPostAfterAck == [][\A m \in acked : attempts'[m] = attempts[m]]_vars

\* A message enters the dead-letter queue at most once, and is then neither
\* delivered nor claimable (fail, qstash.go:179-186).
DlqOnce == \A m \in MsgId : InDlq(m) => dlq[m] = 1 /\ m \notin queued \cup acked

\* The inductive invariant behind the three properties above.  Its parts: what
\* a worker at each point of deliver, retry and fail has in hand; a message that
\* was never queued is in nobody's hands; and a message that was acknowledged or
\* buried has only final bookkeeping before it.
Busy == {"load", "post", "save", "requeue", "bury", "expire"}

WorkerAt(s) ==
  /\ phase[s] = "exited" => pc[s] = "returned"
  /\ cur[s] = Nil <=> pc[s] \notin Busy
  /\ pc[s] \in Busy \ {"load"} => msg[s] # Nil
  /\ pc[s] = "save" => msg[s].state # "queued"
  /\ pc[s] = "bury" => msg[s].state = "failed"
  /\ pc[s] = "requeue" => msg[s].state = "retrying"
  /\ pc[s] \in {"save", "requeue"} /\ msg[s].state = "retrying" =>
       msg[s].retries \in 1..RetryLimit

WorkerOK == \A s \in Server : WorkerAt(s)

EnteredFirst ==
  \A m \in MsgId : m \in queued \/ Held(m) => Entered(m)

FinalOK ==
  /\ \A m \in acked : ~InDlq(m) /\ m \notin queued
  /\ \A m \in acked, s \in Server : cur[s] = m =>
       pc[s] = "expire" \/ (pc[s] = "save" /\ msg[s].state = "delivered")
  /\ \A m \in MsgId, s \in Server : InDlq(m) /\ cur[s] = m => pc[s] = "expire"
  /\ \A m \in MsgId : InDlq(m) \/ m \in acked => Entered(m)

IInv == TypeOK /\ WorkerOK /\ EnteredFirst /\ ClaimExclusive /\ FinalOK /\ DlqOnce

\* The retry counter lives in the record, written before the id is queued again:
\* as long as Redis answers no error, a message is POSTed at most once more than
\* its Upstash-Retries, over restarts and lost replies (retry, qstash.go:155-171).
AttemptsBounded == \A m \in MsgId : attempts[m] <= req[m].maxRetries + 1

\* Under the same condition nothing is buried before its last retry, except a
\* destination no request can be built for (qstash.go:120-124, 158-161).
BuriedExhausted ==
  \A m \in MsgId : InDlq(m) =>
    ~req[m].valid \/ attempts[m] = req[m].maxRetries + 1

\* Where a message is that the code will still do something for, or has done all.
Placed(m) == m \in queued \/ Held(m) \/ m \in acked \/ InDlq(m)
Accepted == {m \in MsgId : pub[m] = "accepted"}

\* Without faults an accepted message waits, is being worked on, was acknowledged
\* or is in the dead-letter queue.  The end of a process costs one message at
\* most, the one its worker has claimed, and none of the others its scan returned
\* (processDue, qstash.go:105-112).
Accounted == Cardinality({m \in Accepted : ~Placed(m)}) <= exits

\* Without faults the record GET /v2/messages lists tells the truth whenever no
\* worker holds the message, but for one message per end of a process: its state
\* names the place the message is in, its counter the POSTs made, and it expires
\* if and only if it is final (deliver, retry, fail, qstash.go:114-186).
Listed(m) ==
  /\ store[m].state = "queued"    <=> m \in queued /\ attempts[m] = 0
  /\ store[m].state = "retrying"  <=> m \in queued /\ attempts[m] > 0
  /\ store[m].state = "delivered" <=> m \in acked
  /\ store[m].state = "failed"    <=> InDlq(m)
  /\ m \in volatile <=> m \notin queued
  /\ m \in queued => store[m].retries = attempts[m]

ListingAgrees ==
  Cardinality({m \in Accepted : ~Held(m) /\ store[m] # Nil /\ ~Listed(m)}) <= exits

\* No message is delivered before its Upstash-Delay has passed, whatever scans
\* are under way (handleQStashPublish, processDue, qstash.go:100-110, 263, 278).
DelayKept ==
  [][\A m \in queued : m \notin queued' /\ attempts[m] = 0 => wait[m] = 0]_vars

\* Every message the client was told 200 for is delivered or dead-lettered, or
\* lost with a process that ended: the ends and restarts of processes keep the
\* others from nothing (loop, processDue, qstash.go:80-112).
AcceptedSettles ==
  \A m \in MsgId : pub[m] = "accepted" ~>
    m \in acked \/ InDlq(m) \/ (~Placed(m) /\ exits > 0)

\* Where a message is, for its publisher.
Life == [m \in MsgId |-> CASE m \in acked  -> "delivered"
                           [] InDlq(m)      -> "dead"
                           [] m \in queued  -> "waiting"
                           [] Entered(m) /\ m \notin queued \cup acked /\ ~InDlq(m)
                                            -> "claimed"
                           [] OTHER         -> "new"]

\* What a publisher may rely on, for every fault but a Redis error reply: the
\* delivery contract, whatever processes, scans and restarts there are
\* (qstash.go:93-186).
Contract == INSTANCE DeliveryContract WITH wish <- req, tries <- attempts, life <- Life
ImplementsContract == Contract!Spec
=============================================================================
