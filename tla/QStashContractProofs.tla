------------------------ MODULE QStashContractProofs ------------------------
(***************************************************************************)
(* Proofs that QStash keeps its delivery contract as long as Redis answers *)
(* no error: replies may be lost, connections die and processes end and    *)
(* restart, and still the retry counter in the record agrees with the      *)
(* POSTs made whenever the message can be claimed.  And, as long as no     *)
(* round trip to Redis fails at all, that the end of a process loses one   *)
(* message at most, and that the listing is true of all the others.        *)
(***************************************************************************)
EXTENDS QStashProofs, FiniteSetTheorems

\* As long as nobody has queued a message it is new.
NewOK ==
  \A m \in MsgId : ~Entered(m) =>
    attempts[m] = 0 /\ (store[m] = Nil \/ store[m].retries = 0)

\* A record that may be read next has counted every POST, and allows another.
Fresh(m) ==
  /\ attempts[m] <= req[m].maxRetries
  /\ store[m] = Nil \/ store[m].retries = attempts[m]

Exhausted(m) == ~req[m].valid \/ attempts[m] = req[m].maxRetries + 1

\* What a worker that holds m knows of it.  One that could not save the record
\* has a dead connection, over which it cannot queue the message either.
CountAt(s, m) ==
  /\ pc[s] = "load" => Fresh(m)
  /\ pc[s] = "post" => attempts[m] <= req[m].maxRetries /\ msg[s].retries = attempts[m]
  /\ pc[s] \in {"save", "requeue"} /\ msg[s].state = "retrying" =>
       attempts[m] <= req[m].maxRetries /\ msg[s].retries = attempts[m]
  /\ pc[s] = "save" /\ msg[s].state = "failed" => Exhausted(m)
  /\ pc[s] = "requeue" /\ conn[s] => Fresh(m)
  /\ pc[s] = "bury" => Exhausted(m)

CountOK ==
  /\ AttemptsBounded
  /\ \A m \in queued : Fresh(m)
  /\ \A s \in Server, m \in MsgId : cur[s] = m => CountAt(s, m)
  /\ BuriedExhausted

CountInv == IInv /\ NewOK /\ CountOK

LEMMA RetriesNatural == \A q \in Request : q.maxRetries \in Nat
<1> SUFFICES ASSUME NEW q \in Request PROVE q.maxRetries \in Nat
  OBVIOUS
<1>1. q.maxRetries \in RetryChoice
  BY DEF Request
<1>2. RetryLimit \in Nat /\ RetryChoice \subseteq 0..RetryLimit
  BY RetryAssumption
<1>3. q.maxRetries \in 0..RetryLimit
  BY <1>1, <1>2
<1> QED
  BY <1>2, <1>3

LEMMA CountInit == Init => NewOK /\ CountOK
<1> SUFFICES ASSUME Init PROVE NewOK /\ CountOK
  OBVIOUS
<1>1. \A m \in MsgId : req[m].maxRetries \in Nat /\ attempts[m] = 0 /\ dlq[m] = 0 /\ store[m] = Nil
  <2> SUFFICES ASSUME NEW m \in MsgId
               PROVE  req[m].maxRetries \in Nat /\ attempts[m] = 0 /\ dlq[m] = 0 /\ store[m] = Nil
    OBVIOUS
  <2>1. req[m] \in Request /\ attempts[m] = 0 /\ dlq[m] = 0 /\ store[m] = Nil
    BY DEF Init
  <2> QED
    BY <2>1, RetriesNatural
<1>2. AttemptsBounded /\ BuriedExhausted
  BY <1>1 DEF AttemptsBounded, BuriedExhausted, InDlq
<1>3. queued = {} /\ \A s \in Server, m \in MsgId : cur[s] # m
  BY NilAssumption DEF Init
<1> QED
  BY <1>1, <1>2, <1>3 DEF NewOK, CountOK

LEMMA CountStep ==
  ASSUME "error" \notin Faults, CountInv, [Next]_vars
  PROVE  NewOK' /\ CountOK'
<1>t. TypeOK /\ WorkerOK /\ EnteredFirst /\ ClaimExclusive
  BY DEF CountInv, IInv
<1>c. NewOK /\ CountOK
  BY DEF CountInv
<1>r. \A m \in MsgId : /\ req[m].maxRetries \in Nat /\ attempts[m] \in Nat
                       /\ store[m] # Nil => store[m].retries \in Nat
  <2> SUFFICES ASSUME NEW m \in MsgId
               PROVE  /\ req[m].maxRetries \in Nat /\ attempts[m] \in Nat
                      /\ store[m] # Nil => store[m].retries \in Nat
    OBVIOUS
  <2>1. req[m] \in Request /\ attempts[m] \in Nat /\ store[m] \in Record \cup {Nil}
    BY <1>t DEF TypeOK
  <2>2. req[m].maxRetries \in Nat
    BY <2>1, RetriesNatural
  <2>3. ASSUME store[m] # Nil PROVE store[m].retries \in Nat
    <3>1. store[m] \in Record
      BY <2>1, <2>3
    <3> QED
      BY <3>1 DEF Record
  <2> QED
    BY <2>1, <2>2, <2>3
\* Steps that touch neither counters nor the place of a message.
<1>0. ASSUME UNCHANGED <<attempts, dlq, req>>, queued' \subseteq queued,
             \A m \in MsgId : store'[m] \in {store[m], Nil},
             \A m \in MsgId : Entered(m) => Entered(m)',
             \A s \in Server, m \in MsgId : cur'[s] = m => CountAt(s, m)'
      PROVE  NewOK' /\ CountOK'
  <2>1. NewOK'
    BY <1>c, <1>0 DEF NewOK
  <2>2. \A m \in queued' : Fresh(m)'
    BY <1>t, <1>c, <1>0 DEF CountOK, Fresh, TypeOK
  <2>3. AttemptsBounded' /\ BuriedExhausted'
    BY <1>c, <1>0 DEF CountOK, AttemptsBounded, BuriedExhausted, InDlq
  <2> QED
    BY <1>0, <2>1, <2>2, <2>3 DEF CountOK
\* A worker none of whose variables change, and whose message keeps its counters.
<1>w. ASSUME NEW s \in Server, NEW m \in MsgId, cur'[s] = m,
             cur'[s] = cur[s], pc'[s] = pc[s], msg'[s] = msg[s], conn'[s] = conn[s],
             attempts'[m] = attempts[m], req' = req, store'[m] \in {store[m], Nil}
      PROVE  CountAt(s, m)'
  <2>1. CountAt(s, m)
    BY <1>c, <1>w DEF CountOK
  <2> QED
    BY <1>w, <2>1 DEF CountAt, Fresh, Exhausted
<1>1. ASSUME NEW m \in MsgId, NEW s \in Server, NEW o, PublishSave(m, s, o)
      PROVE  NewOK' /\ CountOK'
  <2>1. /\ UNCHANGED <<attempts, dlq, req, queued, worker>> /\ ~Entered(m)
        /\ store'[m] \in {store[m], [state |-> "queued", retries |-> 0]}
        /\ \A n \in MsgId \ {m} : store'[n] = store[n]
        /\ \A n \in MsgId : Entered(n) => Entered(n)'
    BY <1>1, <1>t DEF PublishSave, Set, Entered, history, TypeOK
  <2>2. m \notin queued /\ \A t \in Server : cur[t] # m
    BY <1>t, <2>1 DEF EnteredFirst, Held
  <2>3. NewOK'
    BY <1>c, <2>1 DEF NewOK
  <2>4. \A n \in queued' : Fresh(n)'
    BY <1>t, <1>c, <2>1, <2>2 DEF CountOK, Fresh, TypeOK
  <2>5. AttemptsBounded' /\ BuriedExhausted'
    BY <1>c, <2>1 DEF CountOK, AttemptsBounded, BuriedExhausted, InDlq
  <2>6. \A t \in Server, n \in MsgId : cur'[t] = n => CountAt(t, n)'
    BY <1>w, <2>1, <2>2 DEF worker
  <2> QED
    BY <2>3, <2>4, <2>5, <2>6 DEF CountOK
<1>2. ASSUME NEW m \in MsgId, NEW o, PublishEnqueue(m, o) PROVE NewOK' /\ CountOK'
  <2>1. /\ UNCHANGED <<attempts, dlq, req, store, worker>> /\ ~Entered(m)
        /\ queued' \subseteq queued \cup {m}
        /\ \A n \in MsgId : Entered(n) => Entered(n)'
    BY <1>2, <1>t DEF PublishEnqueue, Enqueue, Entered, history, TypeOK
  <2>2. Fresh(m)
    BY <1>c, <1>r, <2>1 DEF NewOK, Fresh
  <2>3. NewOK'
    BY <1>c, <2>1 DEF NewOK
  <2>4. \A n \in queued' : Fresh(n)'
    BY <1>c, <2>1, <2>2 DEF CountOK, Fresh
  <2>5. AttemptsBounded' /\ BuriedExhausted'
    BY <1>c, <2>1 DEF CountOK, AttemptsBounded, BuriedExhausted, InDlq
  <2>6. \A t \in Server, n \in MsgId : cur'[t] = n => CountAt(t, n)'
    BY <1>w, <2>1 DEF worker
  <2> QED
    BY <2>3, <2>4, <2>5, <2>6 DEF CountOK
<1>3. ASSUME NEW s \in Server, Scan(s) \/ LoopReturn(s) \/ Start(s) \/ Stop(s)
      PROVE  NewOK' /\ CountOK'
  <2>1. /\ UNCHANGED <<attempts, dlq, req, store, queued, pub, cur, msg>>
        /\ \A t \in Server \ {s} : pc'[t] = pc[t] /\ conn'[t] = conn[t]
    BY <1>3, <1>t DEF Scan, LoopReturn, Start, Stop, redis, publish, worker, history, TypeOK
  <2>2. cur[s] = Nil \/ (pc' = pc /\ conn' = conn)
    BY <1>3, <1>t DEF Scan, LoopReturn, Start, Stop, worker, WorkerOK, WorkerAt, Busy
  <2>3. \A t \in Server, n \in MsgId : cur'[t] = n => CountAt(t, n)'
    BY <1>w, <2>1, <2>2, NilAssumption
  <2> QED
    BY <1>0, <2>1, <2>3 DEF Entered
<1>4. ASSUME NEW s \in Server, NEW m \in MsgId, NEW o, Claim(s, m, o)
      PROVE  NewOK' /\ CountOK'
  <2>1. /\ UNCHANGED <<attempts, dlq, req, store, pub, msg>> /\ queued' \subseteq queued
        /\ cur[s] = Nil
        /\ \A t \in Server \ {s} : pc'[t] = pc[t] /\ conn'[t] = conn[t] /\ cur'[t] = cur[t]
    BY <1>4, <1>t DEF Claim, publish, history, WorkerOK, WorkerAt, Busy, TypeOK
  <2>2. cur'[s] = Nil \/ (cur'[s] = m /\ m \in queued /\ pc'[s] = "load")
    BY <1>4, <1>t, <2>1 DEF Claim, Removed, TypeOK
  <2>3. \A n \in MsgId : cur'[s] = n => CountAt(s, n)'
    BY <1>c, <2>1, <2>2, NilAssumption DEF CountOK, CountAt, Fresh
  <2>4. \A t \in Server, n \in MsgId : cur'[t] = n => CountAt(t, n)'
    BY <1>w, <2>1, <2>3
  <2> QED
    BY <1>0, <2>1, <2>4 DEF Entered
<1>5. ASSUME NEW s \in Server, NEW o, Load(s, o) PROVE NewOK' /\ CountOK'
  <2>1. /\ UNCHANGED <<attempts, dlq, req, store, pub, queued>> /\ pc[s] = "load"
        /\ \A t \in Server \ {s} : /\ pc'[t] = pc[t] /\ conn'[t] = conn[t]
                                   /\ cur'[t] = cur[t] /\ msg'[t] = msg[t]
    BY <1>5, <1>t DEF Load, Finish, redis, publish, history, TypeOK
  <2>2. \/ cur'[s] = Nil
        \/ /\ cur'[s] = cur[s] /\ pc'[s] = "post" /\ msg'[s] = store[cur[s]]
           /\ store[cur[s]] # Nil
    BY <1>5, <1>t DEF Load, Finish, TypeOK
  <2>3. \A n \in MsgId : cur'[s] = n => CountAt(s, n)'
    BY <1>c, <2>1, <2>2, NilAssumption DEF CountOK, CountAt, Fresh
  <2>4. \A t \in Server, n \in MsgId : cur'[t] = n => CountAt(t, n)'
    BY <1>w, <2>1, <2>3
  <2> QED
    BY <1>0, <2>1, <2>4 DEF Entered
\* What a worker holds is its own.
<1>h. ASSUME NEW s \in Server, pc[s] \in Busy
      PROVE  /\ cur[s] \in MsgId /\ Entered(cur[s]) /\ cur[s] \notin queued
             /\ \A t \in Server \ {s} : cur[t] # cur[s]
             /\ CountAt(s, cur[s])
  <2>1. cur[s] \in MsgId
    BY <1>t, <1>h DEF WorkerOK, WorkerAt, TypeOK
  <2> QED
    BY <1>t, <1>c, <2>1, NilAssumption DEF EnteredFirst, ClaimExclusive, Held, CountOK
<1>6. ASSUME NEW s \in Server, PostInvalid(s) PROVE NewOK' /\ CountOK'
  <2>1. /\ UNCHANGED <<attempts, dlq, req, store, pub, queued, cur, conn>>
        /\ \A t \in Server \ {s} : pc'[t] = pc[t] /\ msg'[t] = msg[t]
    BY <1>6, <1>t DEF PostInvalid, redis, publish, history, TypeOK
  <2>2. pc'[s] = "save" /\ msg'[s].state = "failed" /\ ~req[cur[s]].valid
    BY <1>6, <1>t DEF PostInvalid, Marked, TypeOK
  <2>3. \A n \in MsgId : cur'[s] = n => CountAt(s, n)'
    BY <2>1, <2>2 DEF CountAt, Exhausted
  <2>4. \A t \in Server, n \in MsgId : cur'[t] = n => CountAt(t, n)'
    BY <1>w, <2>1, <2>3
  <2> QED
    BY <1>0, <2>1, <2>4 DEF Entered
\* A POST counts for the message at hand and for no other.
<1>p. ASSUME NEW s \in Server, pc[s] = "post", UNCHANGED <<dlq, req, store, pub, queued, cur, conn>>,
             attempts' = [attempts EXCEPT ![cur[s]] = @ + 1], ~InDlq(cur[s]),
             \A t \in Server \ {s} : pc'[t] = pc[t] /\ msg'[t] = msg[t],
             CountAt(s, cur[s])'
      PROVE  NewOK' /\ CountOK'
  <2> DEFINE m == cur[s]
  <2>1. /\ m \in MsgId /\ Entered(m) /\ m \notin queued
        /\ \A t \in Server \ {s} : cur[t] # m
        /\ attempts[m] <= req[m].maxRetries
    BY <1>h, <1>p DEF Busy, CountAt
  <2>2. attempts'[m] = attempts[m] + 1 /\ \A n \in MsgId \ {m} : attempts'[n] = attempts[n]
    BY <1>t, <1>p, <2>1 DEF TypeOK
  <2>3. NewOK'
    BY <1>c, <1>p, <2>1, <2>2 DEF NewOK, Entered
  <2>4. AttemptsBounded'
    BY <1>c, <1>p, <1>r, <2>1, <2>2 DEF CountOK, AttemptsBounded
  <2>5. \A n \in queued' : Fresh(n)'
    BY <1>t, <1>c, <1>p, <2>1, <2>2 DEF CountOK, Fresh, TypeOK
  <2>6. BuriedExhausted'
    BY <1>c, <1>p, <2>2 DEF CountOK, BuriedExhausted, InDlq
  <2>7. \A t \in Server, n \in MsgId : cur'[t] = n => CountAt(t, n)'
    BY <1>w, <1>p, <2>1, <2>2
  <2> QED
    BY <2>3, <2>4, <2>5, <2>6, <2>7 DEF CountOK
<1>d. ASSUME NEW s \in Server, pc[s] \in Busy \ {"expire"} PROVE ~InDlq(cur[s])
  BY <1>h, <1>d DEF CountInv, IInv, FinalOK
<1>7. ASSUME NEW s \in Server, PostAcked(s) PROVE NewOK' /\ CountOK'
  <2>1. /\ UNCHANGED <<dlq, req, store, pub, queued, cur, conn>> /\ pc[s] = "post"
        /\ attempts' = [attempts EXCEPT ![cur[s]] = @ + 1]
        /\ \A t \in Server \ {s} : pc'[t] = pc[t] /\ msg'[t] = msg[t]
    BY <1>7, <1>t DEF PostAcked, redis, publish, TypeOK
  <2>2. pc'[s] = "save" /\ msg'[s].state = "delivered"
    BY <1>7, <1>t DEF PostAcked, Marked, TypeOK
  <2> QED
    BY <1>p, <1>d, <2>1, <2>2 DEF CountAt, Busy
<1>8. ASSUME NEW s \in Server, PostFailed(s) PROVE NewOK' /\ CountOK'
  <2> DEFINE m == cur[s]
  <2>1. /\ UNCHANGED <<dlq, req, store, pub, queued, cur, conn>> /\ pc[s] = "post"
        /\ attempts' = [attempts EXCEPT ![m] = @ + 1]
        /\ \A t \in Server \ {s} : pc'[t] = pc[t] /\ msg'[t] = msg[t]
    BY <1>8, <1>t DEF PostFailed, redis, publish, TypeOK
  <2>2. pc'[s] = "save" /\ msg'[s] = Retried(msg[s], req[m].maxRetries)
    BY <1>8, <1>t DEF PostFailed, TypeOK
  <2>3. /\ m \in MsgId /\ msg[s].retries = attempts[m] /\ attempts[m] <= req[m].maxRetries
        /\ attempts[m] \in Nat /\ req[m].maxRetries \in Nat /\ attempts'[m] = attempts[m] + 1
    BY <1>h, <1>r, <1>t, <2>1 DEF Busy, CountAt, TypeOK
  <2>4. /\ msg'[s].retries = attempts'[m]
        /\ msg'[s].state = "failed" => attempts'[m] = req[m].maxRetries + 1
        /\ msg'[s].state = "retrying" => attempts'[m] <= req[m].maxRetries
    BY <2>2, <2>3 DEF Retried
  <2>5. CountAt(s, m)'
    BY <2>1, <2>2, <2>4 DEF CountAt, Exhausted
  <2> QED
    BY <1>p, <1>d, <2>1, <2>5 DEF Busy
<1>9. ASSUME NEW s \in Server, NEW o \in Outcome(conn[s]), Save(s, o) PROVE NewOK' /\ CountOK'
  <2> DEFINE m == cur[s]
  <2>1. /\ UNCHANGED <<attempts, dlq, req, pub, queued, cur, msg>> /\ pc[s] = "save"
        /\ \A t \in Server \ {s} : pc'[t] = pc[t] /\ conn'[t] = conn[t]
        /\ pc'[s] = AfterSave(msg[s].state) /\ conn'[s] = Alive(o)
    <3>1. /\ UNCHANGED <<attempts, dlq, req, pub, queued, cur, msg>> /\ pc[s] = "save"
          /\ pc' = [pc EXCEPT ![s] = AfterSave(msg[s].state)]
          /\ conn' = [conn EXCEPT ![s] = Alive(o)]
      BY <1>9 DEF Save, publish, history
    <3>2. DOMAIN pc = Server /\ DOMAIN conn = Server
      BY <1>t DEF TypeOK
    <3> QED
      BY <3>1, <3>2
  <2>2. /\ m \in MsgId /\ Entered(m) /\ m \notin queued /\ CountAt(s, m)
        /\ \A t \in Server \ {s} : cur[t] # m
    BY <1>h, <2>1 DEF Busy
  <2>3. /\ \A n \in MsgId \ {m} : store'[n] = store[n]
        /\ conn'[s] => store'[m] = msg[s]
    <3>1. conn'[s] => Applied(o)
      BY <2>1 DEF Outcome, Applied, Alive
    <3>2. /\ Applied(o) => store' = [store EXCEPT ![m] = msg[s]]
          /\ ~Applied(o) => store' = store
      BY <1>9 DEF Save, Set
    <3>3. DOMAIN store = MsgId
      BY <1>t DEF TypeOK
    <3> QED
      BY <2>2, <3>1, <3>2, <3>3
  <2>4. CountAt(s, m)'
    <3>1. msg[s].state \in {"delivered", "failed", "retrying"}
      BY <1>t, <2>1 DEF WorkerOK, WorkerAt, Busy, TypeOK, Record
    <3>2. msg'[s] = msg[s] /\ attempts'[m] = attempts[m] /\ req'[m] = req[m] /\ cur' = cur
      BY <2>1
    <3>3. CASE msg[s].state = "delivered"
      BY <2>1, <3>3 DEF CountAt, AfterSave
    <3>4. CASE msg[s].state = "failed"
      BY <2>1, <2>2, <3>2, <3>4 DEF CountAt, AfterSave, Exhausted
    <3>5. CASE msg[s].state = "retrying"
      <4>1. attempts[m] <= req[m].maxRetries /\ msg[s].retries = attempts[m]
        BY <2>1, <2>2, <3>5 DEF CountAt
      <4>2. pc'[s] = "requeue" /\ (conn'[s] => store'[m] = msg[s])
        BY <2>1, <2>3, <3>5 DEF AfterSave
      <4> QED
        <5>1. attempts'[m] <= req'[m].maxRetries /\ msg'[s].retries = attempts'[m]
          BY <3>2, <4>1
        <5>2. conn'[s] => store'[m].retries = attempts'[m]
          BY <4>2, <5>1, <3>2
        <5> QED
          BY <3>2, <4>2, <5>1, <5>2 DEF CountAt, Fresh
    <3> QED
      BY <3>1, <3>3, <3>4, <3>5
  <2>5. \A t \in Server, n \in MsgId : cur'[t] = n => CountAt(t, n)'
    BY <1>w, <2>1, <2>2, <2>3, <2>4
  <2>6. NewOK'
    BY <1>c, <2>1, <2>2, <2>3 DEF NewOK, Entered
  <2>7. \A n \in queued' : Fresh(n)'
    BY <1>t, <1>c, <2>1, <2>2, <2>3 DEF CountOK, Fresh, TypeOK
  <2>8. AttemptsBounded' /\ BuriedExhausted'
    BY <1>c, <2>1 DEF CountOK, AttemptsBounded, BuriedExhausted, InDlq
  <2> QED
    BY <2>5, <2>6, <2>7, <2>8 DEF CountOK
<1>10. ASSUME NEW s \in Server, NEW o \in Outcome(conn[s]), Requeue(s, o)
       PROVE  NewOK' /\ CountOK'
  <2> DEFINE m == cur[s]
  <2>1. /\ UNCHANGED <<attempts, dlq, req, pub, store>> /\ pc[s] = "requeue" /\ cur'[s] = Nil
        /\ \A t \in Server \ {s} : /\ pc'[t] = pc[t] /\ conn'[t] = conn[t]
                                   /\ cur'[t] = cur[t] /\ msg'[t] = msg[t]
    BY <1>10, <1>t DEF Requeue, Finish, publish, history, TypeOK
  <2>2. queued' = queued \/ (queued' = queued \cup {m} /\ conn[s])
    BY <1>10, <1>t DEF Requeue, Enqueue, Outcome, Applied, TypeOK
  <2>3. conn[s] => Fresh(m)
    BY <1>h, <2>1 DEF Busy, CountAt
  <2>4. \A n \in queued' : Fresh(n)'
    BY <1>c, <2>1, <2>2, <2>3 DEF CountOK, Fresh
  <2>5. \A t \in Server, n \in MsgId : cur'[t] = n => CountAt(t, n)'
    BY <1>w, <2>1, NilAssumption
  <2>6. NewOK'
    BY <1>c, <2>1 DEF NewOK, Entered
  <2>7. AttemptsBounded' /\ BuriedExhausted'
    BY <1>c, <2>1 DEF CountOK, AttemptsBounded, BuriedExhausted, InDlq
  <2> QED
    BY <2>4, <2>5, <2>6, <2>7 DEF CountOK
<1>11. ASSUME NEW s \in Server, NEW o, Bury(s, o) PROVE NewOK' /\ CountOK'
  <2> DEFINE m == cur[s]
  <2>1. /\ UNCHANGED <<attempts, req, pub, store, queued, cur, msg>> /\ pc[s] = "bury"
        /\ pc'[s] = "expire"
        /\ \A t \in Server \ {s} : pc'[t] = pc[t] /\ conn'[t] = conn[t]
        /\ \A n \in MsgId \ {m} : dlq'[n] = dlq[n]
    BY <1>11, <1>t DEF Bury, publish, history, TypeOK
  <2>2. Exhausted(m)
    BY <1>h, <2>1 DEF Busy, CountAt
  <2>3. \A n \in MsgId : cur'[s] = n => CountAt(s, n)'
    BY <2>1 DEF CountAt
  <2>4. \A t \in Server, n \in MsgId : cur'[t] = n => CountAt(t, n)'
    BY <1>w, <2>1, <2>3
  <2>5. NewOK' /\ AttemptsBounded' /\ \A n \in queued' : Fresh(n)'
    BY <1>c, <2>1 DEF NewOK, Entered, CountOK, AttemptsBounded, Fresh
  <2>6. BuriedExhausted'
    BY <1>c, <2>1, <2>2 DEF CountOK, BuriedExhausted, InDlq, Exhausted
  <2> QED
    BY <2>4, <2>5, <2>6 DEF CountOK
<1>12. ASSUME NEW s \in Server, NEW o, Expire(s, o) \/ Exit(s) PROVE NewOK' /\ CountOK'
  <2>1. /\ UNCHANGED <<attempts, dlq, req, store, queued>> /\ cur'[s] = Nil
        /\ \A t \in Server \ {s} : /\ pc'[t] = pc[t] /\ conn'[t] = conn[t]
                                   /\ cur'[t] = cur[t] /\ msg'[t] = msg[t]
        /\ \A n \in MsgId : Entered(n) => Entered(n)'
    BY <1>12, <1>t DEF Expire, Exit, Finish, redis, publish, history, Entered, TypeOK
  <2>2. \A t \in Server, n \in MsgId : cur'[t] = n => CountAt(t, n)'
    BY <1>w, <2>1, NilAssumption
  <2> QED
    BY <1>0, <2>1, <2>2
<1>13. ASSUME Tick \/ (\E m \in MsgId : Evict(m)) \/ UNCHANGED vars PROVE NewOK' /\ CountOK'
  <2>1. /\ UNCHANGED <<attempts, dlq, req, queued, pub, pc, cur, msg, conn>>
        /\ \A n \in MsgId : store'[n] \in {store[n], Nil}
    BY <1>13, <1>t DEF Tick, Evict, vars, redis, publish, worker, history, TypeOK
  <2>2. \A t \in Server, n \in MsgId : cur'[t] = n => CountAt(t, n)'
    BY <1>w, <2>1
  <2> QED
    BY <1>0, <2>1, <2>2 DEF Entered
<1> QED
  BY <1>1, <1>2, <1>3, <1>4, <1>5, <1>6, <1>7, <1>8, <1>9, <1>10, <1>11, <1>12, <1>13
  DEF Next, Publisher, Worker, Process

-----------------------------------------------------------------------------
\* The counters agree in every reachable state.
THEOREM CountsInductive == ASSUME "error" \notin Faults PROVE Spec => []CountInv
<1>1. Init => CountInv
  BY TypeInit, WorkerInit, ClaimInit, FinalInit, CountInit DEF CountInv, IInv
<1>2. CountInv /\ [Next]_vars => CountInv'
  BY TypeStep, WorkerStep, ClaimStep, FinalStep, CountStep DEF CountInv, IInv
<1> QED
  BY <1>1, <1>2, PTL DEF Spec

\* A message is POSTed at most once more than its Upstash-Retries, over lost
\* replies, dead connections and restarts (retry, qstash.go:155-171).
THEOREM AttemptsAreBounded == ASSUME "error" \notin Faults PROVE Spec => []AttemptsBounded
<1>1. CountInv => AttemptsBounded
  BY DEF CountInv, CountOK
<1> QED
  BY <1>1, CountsInductive, PTL

\* Nothing is dead-lettered before its last retry, except a destination no
\* request can be built for (qstash.go:120-124, 158-161).
THEOREM OnlyExhaustedAreBuried == ASSUME "error" \notin Faults PROVE Spec => []BuriedExhausted
<1>1. CountInv => BuriedExhausted
  BY DEF CountInv, CountOK
<1> QED
  BY <1>1, CountsInductive, PTL

-----------------------------------------------------------------------------
(* The refinement: a step is one of the contract's, or shows nothing of it. *)

LEMMA ContractInit == Init => Contract!Init
<1> SUFFICES ASSUME Init PROVE Contract!Init
  OBVIOUS
<1>1. \A m \in MsgId : Life[m] = "new"
  BY DEF Init, Life, Entered, InDlq
<1> QED
  BY <1>1 DEF Init, Life, Contract!Init

\* Where a message is that nobody has queued, that waits, and that is held.
LEMMA Places ==
  ASSUME IInv, NEW m \in MsgId
  PROVE  /\ ~Entered(m) => Life[m] = "new"
         /\ m \in queued => Life[m] = "waiting"
         /\ m \notin acked /\ ~InDlq(m) /\ Entered(m) /\ m \notin queued => Life[m] = "claimed"
<1>1. EnteredFirst /\ FinalOK /\ DlqOnce
  BY DEF IInv
<1>2. m \in queued => Entered(m) /\ m \notin acked /\ ~InDlq(m)
  BY <1>1 DEF EnteredFirst, FinalOK, DlqOnce
<1> QED
  BY <1>1, <1>2 DEF Life, FinalOK

LEMMA ContractStep ==
  ASSUME "error" \notin Faults, CountInv, [Next]_vars
  PROVE  [Contract!Next]_(Contract!contractVars)
<1>t. TypeOK /\ WorkerOK /\ EnteredFirst /\ ClaimExclusive /\ FinalOK /\ IInv
  BY DEF CountInv, IInv
<1>c. CountOK
  BY DEF CountInv
<1>l. Life = [n \in MsgId |-> Life[n]] /\ Life' = [n \in MsgId |-> Life'[n]]
  BY DEF Life
\* A message stays where it is while nothing that shows its place changes, and
\* one that moves leaves the others where they are.
<1>o. ASSUME NEW n \in MsgId, n \in acked' <=> n \in acked, dlq'[n] = dlq[n],
             n \in queued' <=> n \in queued, Entered(n)' <=> Entered(n)
      PROVE  Life'[n] = Life[n]
  BY <1>o DEF Life, InDlq
<1>m. ASSUME NEW m \in MsgId, NEW from, NEW to, Life[m] = from, Life'[m] = to,
             \A n \in MsgId \ {m} : Life'[n] = Life[n]
      PROVE  Contract!Becomes(m, from, to)
  BY <1>l, <1>m DEF Contract!Becomes
<1>s. ASSUME UNCHANGED <<req, attempts>>, \A n \in MsgId : Life'[n] = Life[n]
      PROVE  UNCHANGED Contract!contractVars
  BY <1>l, <1>s DEF Contract!contractVars
<1>u. ASSUME UNCHANGED <<req, attempts, acked, dlq, queued>>,
             \A n \in MsgId : Entered(n)' <=> Entered(n)
      PROVE  UNCHANGED Contract!contractVars
  BY <1>o, <1>s, <1>u
<1>h. ASSUME NEW s \in Server, pc[s] \in {"post", "requeue", "bury"}
      PROVE  /\ cur[s] \in MsgId /\ CountAt(s, cur[s]) /\ Life[cur[s]] = "claimed"
             /\ cur[s] \notin acked /\ ~InDlq(cur[s]) /\ cur[s] \notin queued
  <2>1. cur[s] \in MsgId
    BY <1>t, <1>h DEF WorkerOK, WorkerAt, Busy, TypeOK
  <2>2. Entered(cur[s]) /\ cur[s] \notin queued /\ ~InDlq(cur[s])
    BY <1>t, <1>h, <2>1, NilAssumption DEF EnteredFirst, ClaimExclusive, FinalOK, Held
  <2>3. CountAt(s, cur[s])
    BY <1>c, <2>1 DEF CountOK
  <2>4. cur[s] \notin acked
    BY <1>t, <1>h, <2>1 DEF FinalOK
  <2>5. Life[cur[s]] = "claimed"
    BY <1>t, <2>1, <2>2, <2>4, Places
  <2> QED
    BY <2>1, <2>2, <2>3, <2>4, <2>5
<1>1. ASSUME NEW m \in MsgId, NEW s \in Server, NEW o, PublishSave(m, s, o)
      PROVE  UNCHANGED Contract!contractVars
  <2>1. \A n \in MsgId : Entered(n)' <=> Entered(n)
    BY <1>1, <1>t DEF PublishSave, Entered, TypeOK
  <2> QED
    BY <1>u, <1>1, <2>1 DEF PublishSave, worker, history
<1>2. ASSUME NEW m \in MsgId, NEW o, PublishEnqueue(m, o) PROVE [Contract!Next]_(Contract!contractVars)
  <2>1. /\ UNCHANGED <<attempts, dlq, req, acked>> /\ ~Entered(m)
        /\ \A n \in MsgId \ {m} : Entered(n)' <=> Entered(n)
    BY <1>2, <1>t DEF PublishEnqueue, Entered, history, TypeOK
  <2>2. CASE Applied(o)
    <3>1. queued' = queued \cup {m} /\ Entered(m)'
      BY <1>2, <1>t, <2>2 DEF PublishEnqueue, Enqueue, Entered, Applied, TypeOK
    <3>2. Life[m] = "new"
      BY <1>t, <2>1, Places
    <3>3. Life'[m] = "waiting"
      BY <1>t, <2>1, <3>1 DEF FinalOK, Life, InDlq
    <3>4. \A n \in MsgId \ {m} : Life'[n] = Life[n]
      BY <1>o, <2>1, <3>1
    <3>5. Contract!Becomes(m, "new", "waiting")
      BY <1>m, <3>2, <3>3, <3>4
    <3> QED
      BY <2>1, <3>5 DEF Contract!Next, Contract!Publish
  <2>3. CASE ~Applied(o)
    <3>1. queued' = queued /\ (Entered(m)' <=> Entered(m))
      BY <1>2, <1>t, <2>1, <2>3 DEF PublishEnqueue, Entered, Applied, TypeOK
    <3> QED
      BY <1>u, <2>1, <3>1
  <2> QED
    BY <2>2, <2>3
<1>3. ASSUME NEW s \in Server, NEW m \in MsgId, NEW o, Claim(s, m, o)
      PROVE  [Contract!Next]_(Contract!contractVars)
  <2>1. /\ UNCHANGED <<attempts, dlq, req, acked, pub>>
        /\ queued' = queued \/ (m \in queued /\ queued' = queued \ {m})
    BY <1>3 DEF Claim, publish, history
  <2>2. CASE queued' = queued
    BY <1>u, <2>1, <2>2 DEF Entered
  <2>3. CASE m \in queued /\ queued' = queued \ {m}
    <3>1. m \notin acked /\ ~InDlq(m) /\ Entered(m)
      BY <1>t, <2>3 DEF FinalOK, EnteredFirst, IInv, DlqOnce
    <3>2. Life[m] = "waiting" /\ Life'[m] = "claimed"
      BY <2>1, <2>3, <3>1 DEF Life, InDlq, Entered
    <3>3. \A n \in MsgId \ {m} : Life'[n] = Life[n]
      BY <1>o, <2>1, <2>3 DEF Entered
    <3>4. Contract!Becomes(m, "waiting", "claimed")
      BY <1>m, <3>2, <3>3
    <3> QED
      BY <2>1, <3>4 DEF Contract!Next, Contract!Claim
  <2> QED
    BY <2>1, <2>2, <2>3
<1>4. ASSUME NEW s \in Server, PostAcked(s) PROVE [Contract!Next]_(Contract!contractVars)
  <2> DEFINE m == cur[s]
  <2>1. /\ UNCHANGED <<dlq, req, pub, queued>> /\ pc[s] = "post" /\ req[m].valid
        /\ attempts' = [attempts EXCEPT ![m] = @ + 1] /\ acked' = acked \cup {m}
    BY <1>4 DEF PostAcked, redis, publish
  <2>2. m \in MsgId /\ attempts[m] <= req[m].maxRetries /\ Life[m] = "claimed"
    BY <1>h, <2>1 DEF Busy, CountAt
  <2>3. Life'[m] = "delivered"
    BY <1>h, <2>1, <2>2 DEF Life, InDlq
  <2>4. \A n \in MsgId \ {m} : Life'[n] = Life[n]
    BY <1>o, <2>1 DEF Entered
  <2>5. Contract!Becomes(m, "claimed", "delivered")
    BY <1>m, <2>2, <2>3, <2>4
  <2> QED
    BY <2>1, <2>2, <2>5 DEF Contract!Next, Contract!Attempt
<1>5. ASSUME NEW s \in Server, PostFailed(s) PROVE [Contract!Next]_(Contract!contractVars)
  <2> DEFINE m == cur[s]
  <2>1. /\ UNCHANGED <<dlq, req, pub, queued, acked>> /\ pc[s] = "post" /\ req[m].valid
        /\ attempts' = [attempts EXCEPT ![m] = @ + 1]
    BY <1>5 DEF PostFailed, redis, publish
  <2>2. m \in MsgId /\ attempts[m] <= req[m].maxRetries /\ Life[m] = "claimed"
    BY <1>h, <2>1 DEF Busy, CountAt
  <2>3. \A n \in MsgId : Life'[n] = Life[n]
    BY <1>o, <2>1 DEF Entered
  <2>4. Contract!Becomes(m, "claimed", "claimed")
    BY <1>m, <2>2, <2>3
  <2> QED
    BY <2>1, <2>2, <2>4 DEF Contract!Next, Contract!Attempt
<1>6. ASSUME NEW s \in Server, NEW o \in Outcome(conn[s]), Requeue(s, o)
      PROVE  [Contract!Next]_(Contract!contractVars)
  <2> DEFINE m == cur[s]
  <2>1. /\ UNCHANGED <<dlq, req, pub, acked, attempts>> /\ pc[s] = "requeue"
        /\ queued' = queued \/ queued' = queued \cup {m}
    BY <1>6 DEF Requeue, Enqueue, publish, history
  <2>2. /\ m \in MsgId /\ CountAt(s, m) /\ Life[m] = "claimed"
        /\ msg[s].state = "retrying" /\ msg[s].retries \in 1..RetryLimit
    BY <1>h, <1>t, <2>1 DEF Busy, WorkerOK, WorkerAt
  <2>3. attempts[m] \in 1..req[m].maxRetries
    <3>1. attempts[m] <= req[m].maxRetries /\ attempts[m] \in 1..RetryLimit
      BY <2>1, <2>2 DEF CountAt
    <3>2. req[m].maxRetries \in Nat
      BY <1>t, <2>2, RetriesNatural DEF TypeOK
    <3> QED
      BY <3>1, <3>2, RetryAssumption
  <2>4. CASE queued' = queued
    BY <1>u, <2>1, <2>4 DEF Entered
  <2>5. CASE queued' = queued \cup {m}
    <3>1. Life'[m] = "waiting"
      <4>1. m \notin acked /\ ~InDlq(m)
        BY <1>t, <2>1, <2>2 DEF FinalOK
      <4> QED
        BY <2>1, <2>2, <2>5, <4>1 DEF Life, InDlq
    <3>2. \A n \in MsgId \ {m} : Life'[n] = Life[n]
      BY <1>o, <2>1, <2>5 DEF Entered
    <3>3. Contract!Becomes(m, "claimed", "waiting")
      BY <1>m, <2>2, <3>1, <3>2
    <3> QED
      BY <2>1, <2>2, <2>3, <3>3 DEF Contract!Next, Contract!Retry
  <2> QED
    BY <2>1, <2>4, <2>5
<1>7. ASSUME NEW s \in Server, NEW o, Bury(s, o) PROVE [Contract!Next]_(Contract!contractVars)
  <2> DEFINE m == cur[s]
  <2>1. /\ UNCHANGED <<req, pub, acked, attempts, queued>> /\ pc[s] = "bury"
        /\ dlq' = dlq \/ dlq' = [dlq EXCEPT ![m] = @ + 1]
    BY <1>7 DEF Bury, publish, history
  <2>2. m \in MsgId /\ Exhausted(m) /\ Life[m] = "claimed" /\ m \notin acked /\ dlq[m] \in Nat
    BY <1>h, <1>t, <2>1 DEF Busy, CountAt, FinalOK, TypeOK
  <2>3. CASE dlq' = dlq
    BY <1>u, <2>1, <2>3 DEF Entered
  <2>4. CASE dlq' = [dlq EXCEPT ![m] = @ + 1]
    <3>1. dlq'[m] = dlq[m] + 1 /\ \A n \in MsgId \ {m} : dlq'[n] = dlq[n]
      BY <1>t, <2>2, <2>4 DEF TypeOK
    <3>2. Life'[m] = "dead"
      BY <2>1, <2>2, <3>1 DEF Life, InDlq
    <3>3. \A n \in MsgId \ {m} : Life'[n] = Life[n]
      BY <1>o, <2>1, <3>1 DEF Entered
    <3>4. Contract!Becomes(m, "claimed", "dead")
      BY <1>m, <2>2, <3>2, <3>3
    <3> QED
      BY <2>1, <2>2, <3>4 DEF Contract!Next, Contract!Bury, Exhausted
  <2> QED
    BY <2>1, <2>3, <2>4
<1>8. ASSUME NEW s \in Server, Exit(s) PROVE UNCHANGED Contract!contractVars
  <2>1. \A n \in MsgId : Entered(n)' <=> Entered(n)
    BY <1>8 DEF Exit, Entered
  <2> QED
    BY <1>u, <1>8, <2>1 DEF Exit, redis, history
<1>9. ASSUME NEW s \in Server, NEW o,
             \/ Scan(s) \/ LoopReturn(s) \/ Start(s) \/ Stop(s) \/ PostInvalid(s)
             \/ Load(s, o) \/ Save(s, o) \/ Expire(s, o)
      PROVE  UNCHANGED Contract!contractVars
  <2>1. UNCHANGED <<req, attempts, acked, dlq, queued, pub>>
    BY <1>9 DEF Scan, LoopReturn, Start, Stop, PostInvalid, Load, Save, Expire,
                redis, publish, history
  <2> QED
    BY <1>u, <2>1 DEF Entered
<1>10. ASSUME Tick \/ (\E m \in MsgId : Evict(m)) \/ UNCHANGED vars
       PROVE  UNCHANGED Contract!contractVars
  <2>1. UNCHANGED <<req, attempts, acked, dlq, queued, pub>>
    BY <1>10 DEF Tick, Evict, vars, redis, publish, history
  <2> QED
    BY <1>u, <2>1 DEF Entered
<1> QED
  BY <1>1, <1>2, <1>3, <1>4, <1>5, <1>6, <1>7, <1>8, <1>9, <1>10
  DEF Next, Publisher, Worker, Process

\* Every behaviour of the emulator is one of its delivery contract: a published
\* message is claimed by one worker at a time, POSTed at most as often as it may
\* be, and ends delivered or dead, or stays with a claim that nobody finishes
\* (processDue, deliver, retry and fail, qstash.go:93-186).
THEOREM ContractKept == ASSUME "error" \notin Faults PROVE Spec => ImplementsContract
<1>1. Init => Contract!Init
  BY ContractInit
<1>2. CountInv /\ [Next]_vars => [Contract!Next]_(Contract!contractVars)
  BY ContractStep
<1> QED
  BY <1>1, <1>2, CountsInductive, PTL DEF Spec, ImplementsContract, Contract!Spec

-----------------------------------------------------------------------------
(* Without faults: what is lost, and what is listed                        *)

\* A record that counts the POSTs made of a message that is not final.
Counted(r, m) ==
  /\ r.retries = attempts[m]
  /\ r.state = IF attempts[m] = 0 THEN "queued" ELSE "retrying"

\* Every write of a worker arrives: what it has written is in the record, and
\* nothing that is not final expires.
HeldAt(s, m) ==
  /\ m \notin volatile /\ store[m] # Nil
  /\ pc[s] \in {"load", "post"} => Counted(store[m], m)
  /\ pc[s] \in {"save", "requeue"} /\ msg[s].state = "retrying" => Counted(msg[s], m)
  /\ pc[s] \in {"requeue", "bury", "expire"} => store[m] = msg[s]
  /\ pc[s] = "save" /\ msg[s].state = "delivered" => m \in acked
  /\ pc[s] = "expire" => \/ msg[s].state = "delivered" /\ m \in acked
                         \/ msg[s].state = "failed" /\ InDlq(m)

HandAt(s)   == cur[s] # Nil => HeldAt(s, cur[s])
ConnAt(s)   == pc[s] \in Busy \/ batch[s] # {} => conn[s]
PubAt(m)    == pub[m] # "cut" /\ (pub[m] = "open" => /\ m \notin volatile
                                                     /\ store[m] = [state |-> "queued", retries |-> 0])
QueuedAt(m) == m \in queued => store[m] # Nil /\ m \notin volatile /\ Counted(store[m], m)

Steady ==
  /\ \A s \in Server : HandAt(s) /\ ConnAt(s)
  /\ \A m \in MsgId : PubAt(m) /\ QueuedAt(m)

\* The messages that a process took with it, and those it left with a record
\* that is not theirs.
Lost   == {m \in Accepted : ~Placed(m)}
Misled == {m \in Accepted : ~Held(m) /\ store[m] # Nil /\ ~Listed(m)}

Few(S) == IsFiniteSet(S) /\ Cardinality(S) <= exits

SteadyInv == CountInv /\ Steady /\ Few(Lost) /\ Few(Misled)

\* A step leaves a message as it was, or a worker.
Same(n) ==
  /\ store'[n] = store[n] /\ attempts'[n] = attempts[n] /\ dlq'[n] = dlq[n]
  /\ n \in volatile' <=> n \in volatile
  /\ n \in queued' <=> n \in queued
  /\ n \in acked' <=> n \in acked
  /\ pub'[n] \in {pub[n], "aborted"}
Idle(t) ==
  /\ pc'[t] = pc[t] /\ cur'[t] = cur[t] /\ msg'[t] = msg[t]
  /\ conn'[t] = conn[t] /\ batch'[t] = batch[t]

\* A step is about message m, and leaves every other one and its worker alone.
About(m) ==
  /\ \A n \in MsgId \ {m} : Same(n)
  /\ \A t \in Server : Idle(t) \/ (cur[t] \in {m, Nil} /\ cur'[t] \in {m, Nil})

LEMMA SameStays ==
  ASSUME NEW n \in MsgId, Same(n)
  PROVE  /\ QueuedAt(n) => QueuedAt(n)'
         /\ PubAt(n) => PubAt(n)'
         /\ n \in Accepted' => n \in Accepted
         /\ Listed(n)' <=> Listed(n)
<1>1. QueuedAt(n) => QueuedAt(n)'
  BY DEF Same, QueuedAt, Counted
<1>2. PubAt(n) => PubAt(n)'
  BY DEF Same, PubAt
<1>3. n \in Accepted' => n \in Accepted
  BY DEF Same, Accepted
<1>4. Listed(n)' <=> Listed(n)
  BY DEF Same, Listed, InDlq
<1> QED
  BY <1>1, <1>2, <1>3, <1>4

\* What is left to show of a step about m.
LEMMA AboutStep ==
  ASSUME TypeOK, Steady, NEW m, About(m),
         \A t \in Server : (Idle(t) /\ cur[t] # m) \/ (ConnAt(t)' /\ HandAt(t)'),
         m \in MsgId => PubAt(m)' /\ QueuedAt(m)'
  PROVE  Steady' /\ Lost' \subseteq Lost \cup {m} /\ Misled' \subseteq Misled \cup {m}
<1>1. ASSUME NEW t \in Server PROVE ConnAt(t)' /\ HandAt(t)'
  <2>1. CASE Idle(t) /\ cur[t] # m
    <3>1. ConnAt(t) /\ HandAt(t)
      BY DEF Steady
    <3>2. ConnAt(t)'
      BY <2>1, <3>1 DEF ConnAt, Idle
    <3>3. HandAt(t)'
      <4>1. CASE cur[t] \in MsgId
        <5>1. Same(cur[t])
          BY <2>1, <4>1 DEF About
        <5> QED
          BY <2>1, <3>1, <5>1 DEF HandAt, HeldAt, Counted, InDlq, Same, Idle
      <4>2. CASE cur[t] = Nil
        BY <2>1, <4>2 DEF HandAt, Idle
      <4> QED
        BY <4>1, <4>2 DEF TypeOK
    <3> QED
      BY <3>2, <3>3
  <2> QED
    BY <2>1
<1>2. ASSUME NEW n \in MsgId PROVE PubAt(n)' /\ QueuedAt(n)'
  <2>1. CASE n # m
    BY <2>1, SameStays DEF Steady, About
  <2> QED
    BY <2>1
<1>3. ASSUME NEW n \in MsgId \ {m} PROVE Held(n)' <=> Held(n)
  <2>1. n # Nil
    BY NilAssumption
  <2> QED
    BY <2>1 DEF Held, About, Idle
<1>4. \A n \in MsgId \ {m} : n \in Lost' => n \in Lost
  <2> SUFFICES ASSUME NEW n \in MsgId \ {m}, n \in Lost' PROVE n \in Lost
    OBVIOUS
  <2>1. Same(n)
    BY DEF About
  <2>2. n \in Accepted
    BY <2>1, SameStays DEF Lost
  <2>3. ~Placed(n)
    BY <1>3, <2>1 DEF Lost, Placed, Same, InDlq
  <2> QED
    BY <2>2, <2>3 DEF Lost
<1>5. \A n \in MsgId \ {m} : n \in Misled' => n \in Misled
  <2> SUFFICES ASSUME NEW n \in MsgId \ {m}, n \in Misled' PROVE n \in Misled
    OBVIOUS
  <2>1. Same(n)
    BY DEF About
  <2>2. n \in Accepted /\ ~Listed(n)
    BY <2>1, SameStays DEF Misled
  <2> QED
    BY <1>3, <2>1, <2>2 DEF Misled, Same
<1>6. Lost' \subseteq MsgId /\ Misled' \subseteq MsgId
  BY DEF Lost, Misled, Accepted
<1> QED
  BY <1>1, <1>2, <1>4, <1>5, <1>6 DEF Steady

-----------------------------------------------------------------------------
(* The steps of publishers and workers, each of whose round trips is "ok"  *)

Kept == Steady' /\ Lost' \subseteq Lost /\ Misled' \subseteq Misled

\* A step about m that leaves it somewhere, held or truly listed.
LEMMA KeptStep ==
  ASSUME TypeOK, Steady, NEW m, About(m),
         \A t \in Server : (Idle(t) /\ cur[t] # m) \/ (ConnAt(t)' /\ HandAt(t)'),
         m \in MsgId => PubAt(m)' /\ QueuedAt(m)',
         m \in Lost' => m \in Lost,
         m \in Misled' => m \in Misled
  PROVE  Kept
  BY AboutStep, Zenon DEF Kept

\* A step that leaves every message as it was, and one idle worker.
LEMMA QuietStep ==
  ASSUME TypeOK, Steady, \A n \in MsgId : Same(n), NEW s \in Server,
         \A t \in Server \ {s} : Idle(t),
         Idle(s) \/ (cur[s] = Nil /\ cur'[s] = Nil /\ ConnAt(s)')
  PROVE  Kept
<1>1. About(Nil)
  BY DEF About, Idle
<1>2. \A t \in Server : ConnAt(t)' /\ (cur[t] = Nil => HandAt(t)')
  <2>1. ASSUME NEW t \in Server, Idle(t) PROVE ConnAt(t)' /\ (cur[t] = Nil => HandAt(t)')
    BY <2>1 DEF Steady, ConnAt, HandAt, Idle
  <2> QED
    BY <2>1 DEF HandAt
<1>3. \A t \in Server : (Idle(t) /\ cur[t] # Nil) \/ (ConnAt(t)' /\ HandAt(t)')
  <2> SUFFICES ASSUME NEW t \in Server
               PROVE  (Idle(t) /\ cur[t] # Nil) \/ (ConnAt(t)' /\ HandAt(t)')
    OBVIOUS
  <2>1. Idle(t) \/ cur[t] = Nil
    OBVIOUS
  <2> QED
    BY <1>2, <2>1
<1>4. Nil \notin MsgId
  BY NilAssumption
<1>5. Nil \notin Lost' /\ Nil \notin Misled'
  BY <1>4 DEF Lost, Misled, Accepted
<1> QED
  BY <1>1, <1>3, <1>4, <1>5, KeptStep

LEMMA PublishSaveKept ==
  ASSUME CountInv, Steady, NEW m \in MsgId, NEW s \in Server, PublishSave(m, s, "ok")
  PROVE  Kept
<1>t. TypeOK /\ EnteredFirst
  BY DEF CountInv, IInv
<1>1. /\ pub' = [pub EXCEPT ![m] = "open"]
      /\ store' = [store EXCEPT ![m] = [state |-> "queued", retries |-> 0]]
      /\ volatile' = volatile \ {m} /\ pub[m] = "unsent"
      /\ UNCHANGED <<queued, dlq, attempts, acked>>
  BY DEF PublishSave, Set, Applied, Alive, history
<1>2. \A t \in Server : Idle(t)
  BY DEF PublishSave, worker, Idle
<1>3. m \notin queued /\ \A t \in Server : cur[t] # m
  BY <1>t, <1>1 DEF EnteredFirst, Held, Entered
<1>4. About(m)
  BY <1>t, <1>1, <1>2 DEF About, Same, TypeOK
<1>5. PubAt(m)' /\ QueuedAt(m)' /\ m \notin Accepted'
  BY <1>t, <1>1, <1>3 DEF PubAt, QueuedAt, Accepted, TypeOK
<1> QED
  BY <1>t, <1>2, <1>3, <1>4, <1>5, KeptStep DEF Lost, Misled

LEMMA PublishEnqueueKept ==
  ASSUME CountInv, Steady, NEW m \in MsgId, pub[m] = "open", PublishEnqueue(m, "ok")
  PROVE  Kept
<1>t. TypeOK /\ EnteredFirst /\ FinalOK /\ NewOK
  BY DEF CountInv, IInv
<1>1. /\ pub' = [pub EXCEPT ![m] = "accepted"] /\ queued' = queued \cup {m}
      /\ UNCHANGED <<store, volatile, dlq, attempts, acked>>
  BY DEF PublishEnqueue, Enqueue, Applied, history
<1>2. \A t \in Server : Idle(t)
  BY DEF PublishEnqueue, worker, Idle
<1>3. /\ ~Entered(m) /\ attempts[m] = 0 /\ m \notin acked /\ ~InDlq(m)
      /\ \A t \in Server : cur[t] # m
  BY <1>t DEF EnteredFirst, Held, Entered, NewOK, FinalOK
<1>4. store[m] = [state |-> "queued", retries |-> 0] /\ m \notin volatile
  BY DEF Steady, PubAt
<1>5. store[m] # Nil
  <2>1. store[m] \in Record
    BY <1>4 DEF Record
  <2> QED
    BY <2>1, RecordAssumption
<1>6. About(m)
  BY <1>t, <1>1, <1>2 DEF About, Same, TypeOK
<1>7. PubAt(m)' /\ QueuedAt(m)'
  BY <1>t, <1>1, <1>3, <1>4, <1>5 DEF PubAt, QueuedAt, Counted, TypeOK
<1>8. Placed(m)' /\ Listed(m)'
  BY <1>1, <1>3, <1>4 DEF Placed, Listed, InDlq
<1> QED
  BY <1>t, <1>2, <1>3, <1>6, <1>7, <1>8, KeptStep DEF Lost, Misled

LEMMA ScanKept == ASSUME CountInv, Steady, NEW s \in Server, Scan(s) PROVE Kept
<1>t. TypeOK /\ WorkerOK
  BY DEF CountInv, IInv
<1>1. \A n \in MsgId : Same(n)
  BY DEF Scan, redis, publish, history, Same
<1>2. \A t \in Server \ {s} : Idle(t)
  BY <1>t DEF Scan, Idle, TypeOK
<1>3. cur[s] = Nil /\ cur'[s] = Nil /\ ConnAt(s)'
  BY <1>t DEF Scan, WorkerOK, WorkerAt, Busy, ConnAt, TypeOK
<1> QED
  BY <1>t, <1>1, <1>2, <1>3, QuietStep

LEMMA LoopReturnKept == ASSUME CountInv, Steady, NEW s \in Server, LoopReturn(s) PROVE Kept
<1>t. TypeOK /\ WorkerOK
  BY DEF CountInv, IInv
<1>1. \A n \in MsgId : Same(n)
  BY DEF LoopReturn, redis, publish, history, Same
<1>2. \A t \in Server \ {s} : Idle(t)
  BY <1>t DEF LoopReturn, Idle, TypeOK
<1>3. cur[s] = Nil /\ cur'[s] = Nil /\ ConnAt(s)'
  BY <1>t DEF LoopReturn, WorkerOK, WorkerAt, Busy, ConnAt, TypeOK
<1> QED
  BY <1>t, <1>1, <1>2, <1>3, QuietStep

LEMMA StartKept == ASSUME CountInv, Steady, NEW s \in Server, Start(s) PROVE Kept
<1>t. TypeOK /\ WorkerOK
  BY DEF CountInv, IInv
<1>1. \A n \in MsgId : Same(n)
  BY DEF Start, redis, publish, history, Same
<1>2. \A t \in Server \ {s} : Idle(t)
  BY <1>t DEF Start, Idle, TypeOK
<1>3. cur[s] = Nil /\ cur'[s] = Nil
  BY <1>t DEF Start, WorkerOK, WorkerAt, Busy
<1>4. ConnAt(s)'
  BY <1>t DEF Start, Steady, ConnAt, Busy, TypeOK
<1> QED
  BY <1>t, <1>1, <1>2, <1>3, <1>4, QuietStep

\* What a worker knows of the message it holds.
LEMMA InHand ==
  ASSUME CountInv, Steady, NEW s \in Server, pc[s] \in Busy
  PROVE  /\ cur[s] \in MsgId /\ HeldAt(s, cur[s]) /\ CountAt(s, cur[s])
         /\ conn[s] /\ cur[s] \notin queued /\ Entered(cur[s])
         /\ \A t \in Server \ {s} : cur[t] # cur[s]
         /\ cur[s] \in acked => ~InDlq(cur[s])
         /\ pc[s] \in Busy \ {"expire"} => ~InDlq(cur[s])
         /\ pc[s] \in Busy \ {"expire", "save"} => cur[s] \notin acked
<1>1. TypeOK /\ WorkerOK /\ ClaimExclusive /\ FinalOK /\ EnteredFirst /\ CountOK
  BY DEF CountInv, IInv
<1>2. cur[s] \in MsgId /\ cur[s] # Nil
  BY <1>1, NilAssumption DEF WorkerOK, WorkerAt, TypeOK
<1>3. HeldAt(s, cur[s]) /\ conn[s]
  BY <1>2 DEF Steady, HandAt, ConnAt
<1>4. /\ CountAt(s, cur[s]) /\ cur[s] \notin queued /\ Entered(cur[s])
      /\ \A t \in Server \ {s} : cur[t] # cur[s]
  BY <1>1, <1>2 DEF CountOK, ClaimExclusive, EnteredFirst, Held
<1>5. /\ cur[s] \in acked => ~InDlq(cur[s])
      /\ pc[s] \in Busy \ {"expire"} => ~InDlq(cur[s])
      /\ pc[s] \in Busy \ {"expire", "save"} => cur[s] \notin acked
  BY <1>1, <1>2 DEF FinalOK
<1> QED
  BY <1>2, <1>3, <1>4, <1>5

\* A worker that keeps the message it holds.
LEMMA StillHeld ==
  ASSUME CountInv, Steady, NEW s \in Server, pc[s] \in Busy,
         \A n \in MsgId \ {cur[s]} : Same(n),
         \A t \in Server \ {s} : Idle(t),
         UNCHANGED <<cur, pub, queued>>, batch' = batch, conn'[s],
         HeldAt(s, cur[s])'
  PROVE  Kept
<1> DEFINE m == cur[s]
<1>t. TypeOK
  BY DEF CountInv, IInv
<1>1. m \in MsgId /\ m \notin queued /\ Entered(m) /\ \A t \in Server \ {s} : cur[t] # m
  BY InHand
<1>2. About(m)
  BY DEF About
<1>3. ConnAt(s)' /\ HandAt(s)'
  BY DEF ConnAt, HandAt
<1>4. PubAt(m)' /\ QueuedAt(m)'
  BY <1>1 DEF PubAt, QueuedAt, Entered
<1>5. Held(m)'
  BY DEF Held
<1>6. m \notin Lost' /\ m \notin Misled'
  BY <1>5 DEF Lost, Misled, Placed
<1> QED
  BY <1>t, <1>1, <1>2, <1>3, <1>4, <1>6, KeptStep

LEMMA ClaimKept == ASSUME CountInv, Steady, NEW s \in Server, NEW m \in MsgId, Claim(s, m, "ok") PROVE Kept
<1>t. TypeOK /\ WorkerOK /\ ClaimExclusive /\ EnteredFirst
  BY DEF CountInv, IInv
<1>1. /\ UNCHANGED <<store, volatile, dlq, pub, attempts, acked, msg>>
      /\ pc[s] = "loop" /\ conn' = [conn EXCEPT ![s] = TRUE]
      /\ batch' = [batch EXCEPT ![s] = @ \ {m}]
  BY DEF Claim, Alive, publish, history
<1>2. cur[s] = Nil
  BY <1>t, <1>1 DEF WorkerOK, WorkerAt, Busy
<1>3. \A t \in Server \ {s} : Idle(t)
  BY <1>t, <1>1 DEF Claim, Idle, TypeOK
<1>4. ConnAt(s)'
  BY <1>t, <1>1 DEF ConnAt, TypeOK
<1>5. CASE m \notin queued
  <2>1. UNCHANGED <<queued, cur>>
    BY <1>5 DEF Claim, Removed
  <2>2. \A n \in MsgId : Same(n)
    BY <1>1, <2>1 DEF Same
  <2> QED
    BY <1>t, <1>2, <1>3, <1>4, <2>1, <2>2, QuietStep
<1>6. CASE m \in queued
  <2>1. /\ queued' = queued \ {m} /\ pc' = [pc EXCEPT ![s] = "load"]
        /\ cur' = [cur EXCEPT ![s] = m]
    BY <1>6 DEF Claim, Removed, Applied
  <2>2. pc'[s] = "load" /\ cur'[s] = m
    BY <1>t, <2>1 DEF TypeOK
  <2>3. About(m)
    BY <1>1, <1>2, <1>3, <2>1, <2>2 DEF About, Same
  <2>4. store[m] # Nil /\ m \notin volatile /\ Counted(store[m], m) /\ Entered(m)
    BY <1>t, <1>6 DEF Steady, QueuedAt, EnteredFirst
  <2>5. HandAt(s)'
    BY <1>1, <2>2, <2>4 DEF HandAt, HeldAt, Counted
  <2>6. PubAt(m)' /\ QueuedAt(m)'
    BY <1>1, <2>1, <2>4 DEF PubAt, QueuedAt, Entered
  <2>7. Held(m)'
    BY <2>2 DEF Held
  <2>8. m \notin Lost' /\ m \notin Misled'
    BY <2>7 DEF Lost, Misled, Placed
  <2>9. \A t \in Server \ {s} : cur[t] # m
    BY <1>t, <1>6, NilAssumption DEF ClaimExclusive
  <2> QED
    BY <1>t, <1>3, <1>4, <2>3, <2>5, <2>6, <2>8, <2>9, KeptStep
<1> QED
  BY <1>5, <1>6

LEMMA LoadKept == ASSUME CountInv, Steady, NEW s \in Server, Load(s, "ok") PROVE Kept
<1>t. TypeOK
  BY DEF CountInv, IInv
<1>1. pc[s] = "load" /\ pc[s] \in Busy
  BY DEF Load, Busy
<1>2. HeldAt(s, cur[s])
  BY <1>1, InHand
<1>3. /\ UNCHANGED <<store, volatile, queued, dlq, pub, attempts, acked, batch, cur>>
      /\ conn' = [conn EXCEPT ![s] = TRUE] /\ pc' = [pc EXCEPT ![s] = "post"]
      /\ msg' = [msg EXCEPT ![s] = store[cur[s]]]
  BY <1>2 DEF Load, HeldAt, Alive, redis, publish, history
<1>4. (\A n \in MsgId : Same(n)) /\ (\A t \in Server \ {s} : Idle(t)) /\ conn'[s] /\ pc'[s] = "post"
  BY <1>t, <1>3 DEF Same, Idle, TypeOK
<1>5. HeldAt(s, cur[s])'
  BY <1>1, <1>2, <1>3, <1>4 DEF HeldAt, Counted
<1> QED
  BY <1>1, <1>3, <1>4, <1>5, StillHeld

LEMMA PostInvalidKept == ASSUME CountInv, Steady, NEW s \in Server, PostInvalid(s) PROVE Kept
<1>t. TypeOK
  BY DEF CountInv, IInv
<1>1. pc[s] = "post" /\ pc[s] \in Busy
  BY DEF PostInvalid, Busy
<1>2. HeldAt(s, cur[s]) /\ conn[s]
  BY <1>1, InHand
<1>3. /\ UNCHANGED <<store, volatile, queued, dlq, pub, attempts, acked, batch, cur, conn>>
      /\ pc' = [pc EXCEPT ![s] = "save"]
      /\ msg' = [msg EXCEPT ![s] = Marked(@, "failed")]
  BY DEF PostInvalid, redis, publish, history
<1>4. /\ \A n \in MsgId : Same(n)
      /\ \A t \in Server \ {s} : Idle(t)
      /\ pc'[s] = "save" /\ msg'[s].state = "failed"
  BY <1>t, <1>3 DEF Same, Idle, Marked, TypeOK
<1>5. HeldAt(s, cur[s])'
  BY <1>2, <1>3, <1>4 DEF HeldAt
<1> QED
  BY <1>1, <1>2, <1>3, <1>4, <1>5, StillHeld

LEMMA PostAckedKept == ASSUME CountInv, Steady, NEW s \in Server, PostAcked(s) PROVE Kept
<1>t. TypeOK
  BY DEF CountInv, IInv
<1>1. pc[s] = "post" /\ pc[s] \in Busy
  BY DEF PostAcked, Busy
<1>2. HeldAt(s, cur[s]) /\ conn[s] /\ cur[s] \in MsgId
  BY <1>1, InHand
<1>3. /\ UNCHANGED <<store, volatile, queued, dlq, pub, batch, cur, conn>>
      /\ pc' = [pc EXCEPT ![s] = "save"] /\ acked' = acked \cup {cur[s]}
      /\ attempts' = [attempts EXCEPT ![cur[s]] = @ + 1]
      /\ msg' = [msg EXCEPT ![s] = Marked(@, "delivered")]
  BY DEF PostAcked, redis, publish
<1>4. /\ \A n \in MsgId \ {cur[s]} : Same(n)
      /\ \A t \in Server \ {s} : Idle(t)
      /\ pc'[s] = "save" /\ msg'[s].state = "delivered"
  BY <1>t, <1>3 DEF Same, Idle, Marked, TypeOK
<1>5. HeldAt(s, cur[s])'
  BY <1>2, <1>3, <1>4 DEF HeldAt
<1> QED
  BY <1>1, <1>2, <1>3, <1>4, <1>5, StillHeld

LEMMA PostFailedKept == ASSUME CountInv, Steady, NEW s \in Server, PostFailed(s) PROVE Kept
<1> DEFINE m == cur[s]
<1>t. TypeOK
  BY DEF CountInv, IInv
<1>1. pc[s] = "post" /\ pc[s] \in Busy
  BY DEF PostFailed, Busy
<1>2. HeldAt(s, m) /\ conn[s] /\ m \in MsgId /\ msg[s].retries = attempts[m]
  BY <1>1, InHand DEF CountAt
<1>3. /\ UNCHANGED <<store, volatile, queued, dlq, pub, acked, batch, cur, conn>>
      /\ pc' = [pc EXCEPT ![s] = "save"]
      /\ attempts' = [attempts EXCEPT ![m] = @ + 1]
      /\ msg' = [msg EXCEPT ![s] = Retried(@, req[m].maxRetries)]
  BY DEF PostFailed, redis, publish
<1>4. /\ \A n \in MsgId \ {m} : Same(n)
      /\ \A t \in Server \ {s} : Idle(t)
      /\ pc'[s] = "save" /\ msg'[s] = Retried(msg[s], req[m].maxRetries)
  BY <1>t, <1>3 DEF Same, Idle, TypeOK
<1>5. attempts'[m] = attempts[m] + 1 /\ attempts[m] \in Nat
  BY <1>t, <1>2, <1>3 DEF TypeOK
<1>6. /\ msg'[s].state \in {"failed", "retrying"}
      /\ msg'[s].retries = attempts'[m] /\ attempts'[m] # 0
  BY <1>2, <1>4, <1>5 DEF Retried
<1>7. msg'[s].state = "retrying" => Counted(msg[s], m)'
  BY <1>3, <1>6 DEF Counted
<1>8. HeldAt(s, m)'
  BY <1>2, <1>3, <1>4, <1>6, <1>7 DEF HeldAt
<1> QED
  BY <1>1, <1>2, <1>3, <1>4, <1>8, StillHeld

LEMMA SaveKept == ASSUME CountInv, Steady, NEW s \in Server, Save(s, "ok") PROVE Kept
<1> DEFINE m == cur[s]
<1>t. TypeOK /\ WorkerOK
  BY DEF CountInv, IInv
<1>1. pc[s] = "save" /\ pc[s] \in Busy
  BY DEF Save, Busy
<1>2. HeldAt(s, m) /\ m \in MsgId
  BY <1>1, InHand
<1>3. /\ UNCHANGED <<queued, dlq, pub, attempts, acked, batch, cur, msg>>
      /\ conn' = [conn EXCEPT ![s] = TRUE]
      /\ store' = [store EXCEPT ![m] = msg[s]] /\ volatile' = volatile \ {m}
      /\ pc' = [pc EXCEPT ![s] = AfterSave(msg[s].state)]
  BY DEF Save, Set, Applied, Alive, publish, history
<1>4. /\ \A n \in MsgId \ {m} : Same(n)
      /\ \A t \in Server \ {s} : Idle(t)
      /\ conn'[s] /\ pc'[s] = AfterSave(msg[s].state) /\ store'[m] = msg[s] /\ m \notin volatile'
  BY <1>t, <1>2, <1>3 DEF Same, Idle, TypeOK
<1>5. msg[s] # Nil /\ msg[s] \in Record /\ msg[s].state \in {"delivered", "failed", "retrying"}
  BY <1>t, <1>1 DEF WorkerOK, WorkerAt, Busy, TypeOK, Record
<1>6. HeldAt(s, m)'
  BY <1>1, <1>2, <1>3, <1>4, <1>5 DEF HeldAt, AfterSave, Counted
<1> QED
  BY <1>1, <1>3, <1>4, <1>6, StillHeld

LEMMA BuryKept == ASSUME CountInv, Steady, NEW s \in Server, Bury(s, "ok") PROVE Kept
<1> DEFINE m == cur[s]
<1>t. TypeOK /\ WorkerOK
  BY DEF CountInv, IInv
<1>1. pc[s] = "bury" /\ pc[s] \in Busy /\ msg[s].state = "failed"
  BY <1>t DEF Bury, Busy, WorkerOK, WorkerAt
<1>2. HeldAt(s, m) /\ m \in MsgId
  BY <1>1, InHand
<1>3. /\ UNCHANGED <<store, volatile, queued, pub, attempts, acked, batch, cur, msg>>
      /\ conn' = [conn EXCEPT ![s] = TRUE]
      /\ dlq' = [dlq EXCEPT ![m] = @ + 1]
      /\ pc' = [pc EXCEPT ![s] = "expire"]
  BY DEF Bury, Applied, Alive, publish, history
<1>4. /\ \A n \in MsgId \ {m} : Same(n)
      /\ \A t \in Server \ {s} : Idle(t)
      /\ conn'[s] /\ pc'[s] = "expire" /\ dlq'[m] > 0
  BY <1>t, <1>2, <1>3 DEF Same, Idle, TypeOK
<1>5. HeldAt(s, m)'
  BY <1>1, <1>2, <1>3, <1>4 DEF HeldAt, InDlq
<1> QED
  BY <1>1, <1>3, <1>4, <1>5, StillHeld

\* A worker that finishes with its message and leaves it somewhere, truly listed.
LEMMA Finished ==
  ASSUME CountInv, Steady, NEW s \in Server, pc[s] \in Busy, Finish(s),
         NEW m \in MsgId, m = cur[s],
         \A n \in MsgId \ {m} : Same(n),
         UNCHANGED <<pub, batch>>, conn' = [conn EXCEPT ![s] = TRUE],
         QueuedAt(m)', Placed(m)', Listed(m)'
  PROVE  Kept
<1>t. TypeOK
  BY DEF CountInv, IInv
<1>1. m \in MsgId /\ Entered(m) /\ \A t \in Server \ {s} : cur[t] # m
  BY InHand
<1>2. cur'[s] = Nil /\ pc'[s] = "loop" /\ conn'[s]
  BY <1>t DEF Finish, TypeOK
<1>3. \A t \in Server \ {s} : Idle(t)
  BY <1>t DEF Finish, Idle, TypeOK
<1>4. About(m)
  BY <1>2, <1>3 DEF About
<1>5. ConnAt(s)' /\ HandAt(s)'
  BY <1>2 DEF ConnAt, HandAt
<1>6. PubAt(m)'
  BY <1>1 DEF PubAt, Entered
<1>7. m \notin Lost' /\ m \notin Misled'
  BY DEF Lost, Misled
<1> QED
  BY <1>t, <1>1, <1>3, <1>4, <1>5, <1>6, <1>7, KeptStep

LEMMA RequeueKept == ASSUME CountInv, Steady, NEW s \in Server, Requeue(s, "ok") PROVE Kept
<1>t. TypeOK /\ WorkerOK
  BY DEF CountInv, IInv
<1>1. pc[s] = "requeue" /\ pc[s] \in Busy /\ msg[s].state = "retrying"
  BY <1>t DEF Requeue, Busy, WorkerOK, WorkerAt
<1>2. PICK m \in MsgId : m = cur[s] /\ HeldAt(s, m) /\ m \notin acked /\ ~InDlq(m)
  BY <1>1, InHand
<1>3. /\ UNCHANGED <<store, volatile, dlq, pub, attempts, acked, batch>>
      /\ conn' = [conn EXCEPT ![s] = TRUE]
      /\ queued' = queued \cup {m} /\ Finish(s)
  BY <1>2 DEF Requeue, Enqueue, Applied, Alive, publish, history
<1>4. \A n \in MsgId \ {m} : Same(n)
  BY <1>3 DEF Same
<1>5. /\ store[m] = msg[s] /\ store[m] # Nil /\ m \notin volatile /\ Counted(store[m], m)
      /\ attempts[m] # 0 /\ attempts[m] \in Nat /\ store[m].state = "retrying"
  BY <1>t, <1>1, <1>2 DEF HeldAt, Counted, TypeOK
<1>6. QueuedAt(m)' /\ Placed(m)'
  BY <1>3, <1>5 DEF QueuedAt, Placed, Counted
<1>7. Listed(m)'
  BY <1>2, <1>3, <1>5 DEF Listed, Counted, InDlq
<1> QED
  BY <1>1, <1>2, <1>3, <1>4, <1>6, <1>7, Finished

LEMMA ExpireKept == ASSUME CountInv, Steady, NEW s \in Server, Expire(s, "ok") PROVE Kept
<1>t. TypeOK /\ FinalOK
  BY DEF CountInv, IInv
<1>1. pc[s] = "expire" /\ pc[s] \in Busy
  BY DEF Expire, Busy
<1>2. PICK m \in MsgId : m = cur[s] /\ HeldAt(s, m) /\ m \notin queued /\ (m \in acked => ~InDlq(m))
  BY <1>1, InHand
<1>3. /\ UNCHANGED <<store, queued, dlq, pub, attempts, acked, batch>>
      /\ conn' = [conn EXCEPT ![s] = TRUE]
      /\ volatile' = volatile \cup {m} /\ Finish(s)
  BY <1>2 DEF Expire, HeldAt, Applied, Alive, publish, history
<1>4. \A n \in MsgId \ {m} : Same(n)
  BY <1>3 DEF Same
<1>5. /\ store[m] = msg[s]
      /\ \/ msg[s].state = "delivered" /\ m \in acked /\ ~InDlq(m)
         \/ msg[s].state = "failed" /\ InDlq(m) /\ m \notin acked
  BY <1>1, <1>2 DEF HeldAt
<1>6. QueuedAt(m)' /\ Placed(m)'
  BY <1>2, <1>3, <1>5 DEF QueuedAt, Placed, InDlq
<1>7. Listed(m)'
  BY <1>2, <1>3, <1>5 DEF Listed, InDlq
<1> QED
  BY <1>1, <1>2, <1>3, <1>4, <1>6, <1>7, Finished

LEMMA EvictKept == ASSUME CountInv, Steady, NEW m \in MsgId, Evict(m) PROVE Kept
<1>t. TypeOK
  BY DEF CountInv, IInv
<1>1. /\ store' = [store EXCEPT ![m] = Nil] /\ volatile' = volatile \ {m} /\ m \in volatile
      /\ UNCHANGED <<queued, dlq, pub, attempts, acked, cur>>
  BY DEF Evict, publish, worker, history
<1>2. \A t \in Server : Idle(t)
  BY DEF Evict, worker, Idle
<1>3. \A t \in Server : cur[t] # m
  BY <1>1, NilAssumption DEF Steady, HandAt, HeldAt
<1>4. About(m)
  BY <1>t, <1>1, <1>2 DEF About, Same, TypeOK
<1>5. PubAt(m)' /\ QueuedAt(m)'
  BY <1>1 DEF Steady, PubAt, QueuedAt
<1>6. m \in Lost' => m \in Lost
  BY <1>1 DEF Lost, Accepted, Placed, Held, InDlq
<1>7. m \notin Misled'
  BY <1>t, <1>1 DEF Misled, TypeOK
<1> QED
  BY <1>t, <1>2, <1>3, <1>4, <1>5, <1>6, <1>7, KeptStep

\* No process ends, and no round trip fails: what is kept.
LEMMA NextKept ==
  ASSUME Faults = {}, CountInv, Steady, [Next]_vars, \A s \in Server : ~Exit(s)
  PROVE  Kept /\ exits' = exits
<1>t. TypeOK
  BY DEF CountInv, IInv
<1>0. ASSUME UNCHANGED <<store, volatile, queued, dlq, pub, attempts, acked, worker>>
      PROVE  Kept
  <2>1. (\A n \in MsgId : Same(n)) /\ (\A t \in Server : Idle(t))
    BY <1>0 DEF Same, Idle, worker
  <2>2. About(Nil) /\ Nil \notin MsgId
    BY <2>1, NilAssumption DEF About
  <2>3. \A t \in Server : ConnAt(t)' /\ (cur[t] = Nil => HandAt(t)')
    BY <2>1 DEF Steady, ConnAt, HandAt, Idle
  <2>4. Nil \notin Lost' /\ Nil \notin Misled'
    BY <2>2 DEF Lost, Misled, Accepted
  <2> QED
    BY <1>t, <2>1, <2>2, <2>3, <2>4, KeptStep
<1>1. ASSUME NEW m \in MsgId, NEW s \in Server, NEW o \in Outcome(TRUE), PublishSave(m, s, o)
      PROVE  Kept /\ exits' = exits
  <2>1. o = "ok" /\ exits' = exits
    BY <1>1 DEF Outcome, PublishSave, process
  <2> QED
    BY <1>1, <2>1, PublishSaveKept
<1>2. ASSUME NEW m \in MsgId, NEW o \in Outcome(pub[m] = "open"), PublishEnqueue(m, o)
      PROVE  Kept /\ exits' = exits
  <2>1. pub[m] = "open" /\ exits' = exits
    BY <1>2 DEF PublishEnqueue, Steady, PubAt, process
  <2>2. o = "ok"
    BY <1>2, <2>1 DEF Outcome
  <2> QED
    BY <1>2, <2>1, <2>2, PublishEnqueueKept
<1>3. ASSUME NEW s \in Server, Scan(s) \/ LoopReturn(s) \/ Start(s)
      PROVE  Kept /\ exits' = exits
  <2>1. exits' = exits
    BY <1>3 DEF Scan, LoopReturn, Start, process
  <2> QED
    BY <1>3, <2>1, ScanKept, LoopReturnKept, StartKept
<1>4. ASSUME NEW s \in Server, PostInvalid(s) \/ PostAcked(s) \/ PostFailed(s)
      PROVE  Kept /\ exits' = exits
  <2>1. exits' = exits
    BY <1>4 DEF PostInvalid, PostAcked, PostFailed, process
  <2> QED
    BY <1>4, <2>1, PostInvalidKept, PostAckedKept, PostFailedKept
<1>5. ASSUME NEW s \in Server, NEW o \in Outcome(conn[s]), NEW m \in MsgId, Claim(s, m, o)
      PROVE  Kept /\ exits' = exits
  <2>1. batch[s] # {} /\ exits' = exits
    BY <1>5 DEF Claim, process
  <2>2. o = "ok"
    BY <1>5, <2>1 DEF Steady, ConnAt, Outcome
  <2> QED
    BY <1>5, <2>1, <2>2, ClaimKept
<1>6. ASSUME NEW s \in Server, NEW o \in Outcome(conn[s]),
             Load(s, o) \/ Save(s, o) \/ Requeue(s, o) \/ Bury(s, o) \/ Expire(s, o)
      PROVE  Kept /\ exits' = exits
  <2>1. pc[s] \in Busy /\ exits' = exits
    BY <1>6 DEF Load, Save, Requeue, Bury, Expire, Busy, process
  <2>2. o = "ok"
    BY <1>6, <2>1 DEF Steady, ConnAt, Outcome
  <2> QED
    BY <1>6, <2>1, <2>2, LoadKept, SaveKept, RequeueKept, BuryKept, ExpireKept
<1>7. ASSUME NEW m \in MsgId, Evict(m) PROVE Kept /\ exits' = exits
  BY <1>7, EvictKept DEF Evict, process
<1>8. ASSUME NEW s \in Server, Stop(s) PROVE Kept /\ exits' = exits
  BY <1>0, <1>8 DEF Stop, redis, publish, history
<1>9. CASE Tick \/ UNCHANGED vars
  BY <1>0, <1>9 DEF Tick, vars, redis, publish, process, history
<1> QED
  BY <1>1, <1>2, <1>3, <1>4, <1>5, <1>6, <1>7, <1>8, <1>9
  DEF Next, Publisher, Worker, Process

\* A process that ends takes at most the message its worker holds.
LEMMA ExitTakes ==
  ASSUME CountInv, Steady, NEW s \in Server, Exit(s)
  PROVE  \E m : Steady' /\ Lost' \subseteq Lost \cup {m} /\ Misled' \subseteq Misled \cup {m}
<1>t. TypeOK
  BY DEF CountInv, IInv
<1>1. PICK m : m = cur[s]
  OBVIOUS
<1>2. /\ UNCHANGED <<store, volatile, queued, dlq, attempts, acked>>
      /\ \A n \in MsgId : pub'[n] \in {pub[n], "aborted"}
      /\ cur'[s] = Nil /\ pc'[s] = "returned" /\ batch'[s] = {}
      /\ \A t \in Server \ {s} : Idle(t)
  BY <1>t DEF Exit, redis, history, Idle, TypeOK
<1>3. About(m) /\ (m \in MsgId => Same(m))
  BY <1>1, <1>2 DEF About, Same
<1>4. \A t \in Server \ {s} : cur[t] # m \/ m = Nil
  BY <1>t, <1>1 DEF CountInv, IInv, ClaimExclusive
<1>5. \A t \in Server : (Idle(t) /\ cur[t] # m) \/ (ConnAt(t)' /\ HandAt(t)')
  <2>1. ConnAt(s)' /\ HandAt(s)'
    BY <1>2 DEF ConnAt, HandAt, Busy
  <2>2. ASSUME NEW t \in Server \ {s}, cur[t] = Nil PROVE ConnAt(t)' /\ HandAt(t)'
    BY <1>2, <2>2 DEF Steady, ConnAt, HandAt, Idle
  <2> QED
    BY <1>2, <1>4, <2>1, <2>2
<1>6. m \in MsgId => PubAt(m)' /\ QueuedAt(m)'
  BY <1>3, SameStays DEF Steady
<1> QED
  BY <1>t, <1>3, <1>5, <1>6, AboutStep

\* Few stays few: a set that does not grow, or grows by one as a process ends.
LEMMA FewStays ==
  ASSUME NEW S, NEW T, NEW x, NEW n \in Nat, NEW k \in Nat,
         IsFiniteSet(S), Cardinality(S) <= n,
         \/ T \subseteq S /\ k = n
         \/ T \subseteq S \cup {x} /\ k = n + 1
  PROVE  IsFiniteSet(T) /\ Cardinality(T) <= k
<1>1. Cardinality(S) \in Nat
  BY FS_CardinalityType
<1>2. CASE T \subseteq S /\ k = n
  <2>1. IsFiniteSet(T) /\ Cardinality(T) <= Cardinality(S) /\ Cardinality(T) \in Nat
    BY <1>2, FS_Subset, FS_CardinalityType
  <2> QED
    BY <1>1, <1>2, <2>1
<1>3. CASE T \subseteq S \cup {x} /\ k = n + 1
  <2>1. IsFiniteSet(S \cup {x}) /\ Cardinality(S \cup {x}) <= Cardinality(S) + 1
    <3>1. /\ IsFiniteSet(S \cup {x})
          /\ Cardinality(S \cup {x}) = IF x \in S THEN Cardinality(S) ELSE Cardinality(S) + 1
      BY FS_AddElement
    <3> QED
      BY <1>1, <3>1
  <2>2. /\ IsFiniteSet(T) /\ Cardinality(T) <= Cardinality(S \cup {x})
        /\ Cardinality(T) \in Nat /\ Cardinality(S \cup {x}) \in Nat
    BY <1>3, <2>1, FS_Subset, FS_CardinalityType
  <2> QED
    BY <1>1, <1>3, <2>1, <2>2
<1> QED
  BY <1>2, <1>3

LEMMA FewStep ==
  ASSUME Faults = {}, SteadyInv, [Next]_vars
  PROVE  Steady' /\ Few(Lost)' /\ Few(Misled)'
<1>1. exits \in Nat /\ exits' \in Nat
  <2>1. TypeOK /\ TypeOK'
    BY TypeStep DEF SteadyInv, CountInv, IInv
  <2> QED
    BY <2>1, BoundsAssumption DEF TypeOK
<1>2. CountInv /\ Steady
  BY DEF SteadyInv
<1>3. PICK x : /\ Steady'
               /\ \/ Lost' \subseteq Lost /\ Misled' \subseteq Misled /\ exits' = exits
                  \/ /\ Lost' \subseteq Lost \cup {x} /\ Misled' \subseteq Misled \cup {x}
                     /\ exits' = exits + 1
  <2>1. CASE \A s \in Server : ~Exit(s)
    BY <1>2, <2>1, NextKept DEF Kept
  <2>2. ASSUME NEW s \in Server, Exit(s)
        PROVE  \E m : /\ Steady' /\ exits' = exits + 1
                      /\ Lost' \subseteq Lost \cup {m} /\ Misled' \subseteq Misled \cup {m}
    <3>1. exits' = exits + 1
      BY <2>2 DEF Exit
    <3> QED
      BY <1>2, <2>2, <3>1, ExitTakes
  <2> QED
    BY <2>1, <2>2
<1>4. /\ IsFiniteSet(Lost) /\ Cardinality(Lost) <= exits
      /\ IsFiniteSet(Misled) /\ Cardinality(Misled) <= exits
  BY DEF SteadyInv, Few
<1> HIDE DEF Lost, Misled, SteadyInv
<1>5. IsFiniteSet(Lost') /\ Cardinality(Lost') <= exits'
  BY <1>1, <1>3, <1>4, FewStays
<1>6. IsFiniteSet(Misled') /\ Cardinality(Misled') <= exits'
  BY <1>1, <1>3, <1>4, FewStays
<1> QED
  BY <1>3, <1>5, <1>6 DEF Few

-----------------------------------------------------------------------------
\* The inductive invariant of the delivery goroutine while Redis answers
\* (qstash.go:80-186).
THEOREM SteadyInductive == ASSUME Faults = {} PROVE Spec => []SteadyInv
<1>0. "error" \notin Faults
  OBVIOUS
<1>1. Init => SteadyInv
  <2> SUFFICES ASSUME Init PROVE SteadyInv
    OBVIOUS
  <2>1. CountInv
    BY TypeInit, WorkerInit, ClaimInit, FinalInit, CountInit DEF CountInv, IInv
  <2>2. Steady
    BY DEF Init, Steady, HandAt, ConnAt, PubAt, QueuedAt, Busy
  <2>3. Lost = {} /\ Misled = {} /\ exits = 0
    BY DEF Init, Lost, Misled, Accepted
  <2>4. IsFiniteSet({}) /\ Cardinality({}) <= 0
    BY FS_EmptySet
  <2> QED
    BY <2>1, <2>2, <2>3, <2>4 DEF SteadyInv, Few
<1>2. SteadyInv /\ [Next]_vars => SteadyInv'
  <2> SUFFICES ASSUME SteadyInv, [Next]_vars PROVE SteadyInv'
    OBVIOUS
  <2>1. CountInv'
    BY <1>0, TypeStep, WorkerStep, ClaimStep, FinalStep, CountStep DEF SteadyInv, CountInv, IInv
  <2> QED
    BY <2>1, FewStep DEF SteadyInv
<1> QED
  BY <1>1, <1>2, PTL DEF Spec

\* An accepted message waits, is being worked on, was acknowledged or is
\* dead-lettered: only the end of a process loses any, and only the one its
\* worker had claimed (processDue, qstash.go:105-112).
THEOREM OnlyExitsLose == ASSUME Faults = {} PROVE Spec => []Accounted
<1>1. SteadyInv => Accounted
  BY DEF SteadyInv, Few, Lost, Accounted
<1> QED
  BY <1>1, SteadyInductive, PTL

\* The record that GET /v2/messages lists names the place a message is in and
\* counts its POSTs whenever no worker holds it, but for one message per end of a
\* process (deliver, retry, fail, qstash.go:114-186).
THEOREM ListingTellsTruth == ASSUME Faults = {} PROVE Spec => []ListingAgrees
<1>1. SteadyInv => ListingAgrees
  BY DEF SteadyInv, Few, Misled, ListingAgrees
<1> QED
  BY <1>1, SteadyInductive, PTL

============================================================================
