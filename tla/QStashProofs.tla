---------------------------- MODULE QStashProofs ----------------------------
(***************************************************************************)
(* Proofs about QStash, for any number of server processes and messages,   *)
(* any faults, crashes and restarts.                                       *)
(***************************************************************************)
EXTENDS QStash, TLAPS

\* The initial state has the types.
LEMMA TypeInit == Init => TypeOK
  BY BoundsAssumption DEF Init, TypeOK, NeverDue

LEMMA TypeStep == TypeOK /\ WorkerOK /\ [Next]_vars => TypeOK'
<1> SUFFICES ASSUME TypeOK, WorkerOK, [Next]_vars PROVE TypeOK'
  OBVIOUS
<1> USE DEF TypeOK
<1>1. ASSUME NEW m \in MsgId, NEW s \in Server, NEW o, PublishSave(m, s, o) PROVE TypeOK'
  BY <1>1 DEF PublishSave, Set, Alive, Applied, Record, redis, publish, process, worker, history
<1>2. ASSUME NEW m \in MsgId, NEW o, PublishEnqueue(m, o) PROVE TypeOK'
  <2>1. req[m].delay \in Nat \cup {NeverDue}
    <3>1. req[m] \in Request
      OBVIOUS
    <3>2. DelayChoice \subseteq Nat \cup {NeverDue}
      BY RetryAssumption
    <3> QED
      BY <3>1, <3>2 DEF Request
  <2>2. queued' \subseteq MsgId /\ wait' \in [MsgId -> Nat \cup {NeverDue}]
    BY <1>2, <2>1 DEF PublishEnqueue, Enqueue
  <2>3. pub' \in [MsgId -> {"unsent", "open", "cut", "accepted", "misreported", "refused",
                           "aborted"}]
    BY <1>2 DEF PublishEnqueue
  <2> QED
    BY <1>2, <2>2, <2>3 DEF PublishEnqueue, process, worker, history
<1>3. ASSUME NEW s \in Server, Scan(s) PROVE TypeOK'
  BY <1>3 DEF Scan, Due, redis, publish, process, worker, history
<1>4. ASSUME NEW s \in Server, NEW m \in MsgId, NEW o, Claim(s, m, o) PROVE TypeOK'
  BY <1>4 DEF Claim, Alive, Applied, Removed, redis, publish, process, worker, history
<1>5. ASSUME NEW s \in Server, NEW o, Load(s, o) PROVE TypeOK'
  BY <1>5 DEF Load, Finish, Alive, WorkerOK, WorkerAt, Busy, redis, publish, process, worker, history
<1>6. ASSUME NEW s \in Server, PostInvalid(s) PROVE TypeOK'
  BY <1>6 DEF PostInvalid, Marked, WorkerOK, WorkerAt, Busy, Record, redis, publish, process, worker, history
<1>7. ASSUME NEW s \in Server, PostAcked(s) PROVE TypeOK'
  BY <1>7 DEF PostAcked, Marked, WorkerOK, WorkerAt, Busy, Record, redis, publish, process, worker, history
<1>8. ASSUME NEW s \in Server, PostFailed(s) PROVE TypeOK'
  BY <1>8 DEF PostFailed, Retried, WorkerOK, WorkerAt, Busy, Record, redis, publish, process, worker, history
<1>9. ASSUME NEW s \in Server, NEW o, Save(s, o) PROVE TypeOK'
  <2>1. cur[s] \in MsgId /\ msg[s] \in Record
    BY <1>9 DEF Save, WorkerOK, WorkerAt, Busy
  <2>2. store' \in [MsgId -> Record \cup {Nil}] /\ volatile' \subseteq MsgId
    BY <1>9, <2>1 DEF Save, Set
  <2>3. pc' \in [Server -> {"loop", "load", "post", "save", "requeue", "bury",
                           "expire", "returned"}]
    BY <1>9 DEF Save, AfterSave
  <2> QED
    BY <1>9, <2>2, <2>3 DEF Save, Alive, publish, process, history
<1>10. ASSUME NEW s \in Server, NEW o, Requeue(s, o) PROVE TypeOK'
  <2>0. pc[s] = "requeue"
    BY <1>10 DEF Requeue
  <2>1. cur[s] \in MsgId /\ msg[s].retries \in 1..RetryLimit
    BY <2>0, RetryAssumption DEF WorkerOK, WorkerAt, Busy
  <2>2. RetryWait[msg[s].retries] \in Nat \cup {NeverDue}
    BY <2>1, RetryAssumption
  <2>3. queued' \subseteq MsgId /\ wait' \in [MsgId -> Nat \cup {NeverDue}]
    BY <1>10, <2>1, <2>2 DEF Requeue, Enqueue
  <2> QED
    BY <1>10, <2>3 DEF Requeue, Finish, Alive, publish, process, history
<1>11. ASSUME NEW s \in Server, NEW o, Bury(s, o) PROVE TypeOK'
  BY <1>11 DEF Bury, Alive, Applied, WorkerOK, WorkerAt, Busy, redis, publish, process, worker, history
<1>12. ASSUME NEW s \in Server, NEW o, Expire(s, o) PROVE TypeOK'
  BY <1>12 DEF Expire, Finish, Alive, Applied, WorkerOK, WorkerAt, Busy, redis, publish, process, worker, history
<1>13. ASSUME NEW s \in Server, LoopReturn(s) PROVE TypeOK'
  BY <1>13 DEF LoopReturn, redis, publish, process, worker, history
<1>14. ASSUME Tick PROVE TypeOK'
  BY <1>14 DEF Tick, NeverDue, redis, publish, process, worker, history
<1>15. ASSUME NEW m \in MsgId, Evict(m) PROVE TypeOK'
  BY <1>15 DEF Evict, redis, publish, process, worker, history
<1>16. ASSUME NEW s \in Server, Stop(s) PROVE TypeOK'
  BY <1>16 DEF Stop, redis, publish, process, worker, history
<1>17. ASSUME NEW s \in Server, Exit(s) PROVE TypeOK'
  BY <1>17, BoundsAssumption DEF Exit, redis, publish, process, worker, history
<1>18. ASSUME NEW s \in Server, Start(s) PROVE TypeOK'
  BY <1>18 DEF Start, redis, publish, process, worker, history
<1>19. CASE UNCHANGED vars
  BY <1>19 DEF vars, redis, publish, process, worker, history
<1> QED
  BY <1>1, <1>2, <1>3, <1>4, <1>5, <1>6, <1>7, <1>8, <1>9, <1>10, <1>11, <1>12, <1>13, <1>14, <1>15, <1>16, <1>17, <1>18, <1>19 DEF Next, Publisher, Worker, Process

\* What a worker has in hand at each point of deliver, retry and fail.
LEMMA WorkerInit == Init => WorkerOK
  BY DEF Init, WorkerOK, WorkerAt, Busy

LEMMA WorkerStep == TypeOK /\ WorkerOK /\ [Next]_vars => WorkerOK'
<1> SUFFICES ASSUME TypeOK, WorkerOK, [Next]_vars, NEW t \in Server
             PROVE  WorkerAt(t)'
  BY DEF WorkerOK
<1>0. ASSUME pc'[t] = pc[t], cur'[t] = cur[t], msg'[t] = msg[t],
             phase'[t] = "exited" => phase[t] = "exited"
      PROVE  WorkerAt(t)'
  BY <1>0 DEF WorkerOK, WorkerAt
<1>1. ASSUME UNCHANGED <<phase, pc, cur, msg>> PROVE WorkerAt(t)'
  BY <1>0, <1>1
<1>2. ASSUME NEW s \in Server, Scan(s) PROVE WorkerAt(t)'
  BY <1>1, <1>2 DEF Scan, process
<1>3. ASSUME NEW s \in Server, NEW m \in MsgId, NEW o, Claim(s, m, o) PROVE WorkerAt(t)'
  <2>1. CASE t # s
    BY <1>0, <1>3, <2>1 DEF Claim, process, TypeOK
  <2>2. CASE t = s
    BY <1>3, <2>2, NilAssumption DEF Claim, WorkerOK, WorkerAt, Busy, process, TypeOK
  <2> QED
    BY <2>1, <2>2
<1>4. ASSUME NEW s \in Server, NEW o, Load(s, o) PROVE WorkerAt(t)'
  <2>1. CASE t # s
    BY <1>0, <1>4, <2>1 DEF Load, Finish, process, TypeOK
  <2>2. CASE t = s
    BY <1>4, <2>2 DEF Load, Finish, WorkerOK, WorkerAt, Busy, process, TypeOK
  <2> QED
    BY <2>1, <2>2
<1>5. ASSUME NEW s \in Server, PostInvalid(s) PROVE WorkerAt(t)'
  <2>1. CASE t # s
    BY <1>0, <1>5, <2>1 DEF PostInvalid, process, TypeOK
  <2>2. CASE t = s
    <3>1. /\ cur[s] \in MsgId /\ pc[s] = "post" /\ msg[s] \in Record
          /\ phase[s] # "exited"
      BY <1>5 DEF PostInvalid, WorkerOK, WorkerAt, Busy, TypeOK
    <3>2. /\ msg'[s] = Marked(msg[s], "failed") /\ pc'[s] = "save"
          /\ cur'[s] = cur[s] /\ phase'[s] = phase[s]
      BY <1>5 DEF PostInvalid, process, TypeOK
    <3>3. msg'[s].state = "failed" /\ msg'[s] \in Record
      BY <3>1, <3>2 DEF Marked, Record
    <3> QED
      BY <2>2, <3>1, <3>2, <3>3, RecordAssumption, NilAssumption DEF WorkerAt, Busy
  <2> QED
    BY <2>1, <2>2
<1>6. ASSUME NEW s \in Server, PostAcked(s) PROVE WorkerAt(t)'
  <2>1. CASE t # s
    BY <1>0, <1>6, <2>1 DEF PostAcked, process, TypeOK
  <2>2. CASE t = s
    <3>1. /\ cur[s] \in MsgId /\ pc[s] = "post" /\ msg[s] \in Record
          /\ phase[s] # "exited"
      BY <1>6 DEF PostAcked, WorkerOK, WorkerAt, Busy, TypeOK
    <3>2. /\ msg'[s] = Marked(msg[s], "delivered") /\ pc'[s] = "save"
          /\ cur'[s] = cur[s] /\ phase'[s] = phase[s]
      BY <1>6 DEF PostAcked, process, TypeOK
    <3>3. msg'[s].state = "delivered" /\ msg'[s] \in Record
      BY <3>1, <3>2 DEF Marked, Record
    <3> QED
      BY <2>2, <3>1, <3>2, <3>3, RecordAssumption, NilAssumption DEF WorkerAt, Busy
  <2> QED
    BY <2>1, <2>2
<1>7. ASSUME NEW s \in Server, PostFailed(s) PROVE WorkerAt(t)'
  <2>1. CASE t # s
    BY <1>0, <1>7, <2>1 DEF PostFailed, process, TypeOK
  <2>2. CASE t = s
    <3>1. /\ cur[s] \in MsgId /\ pc[s] = "post" /\ msg[s] \in Record
      BY <1>7 DEF PostFailed, WorkerOK, WorkerAt, Busy, TypeOK
    <3>2. req[cur[s]].maxRetries \in 0..RetryLimit /\ msg[s].retries \in Nat
      BY <3>1, RetryAssumption DEF TypeOK, Request, Record
    <3> DEFINE r == Retried(msg[s], req[cur[s]].maxRetries)
    <3>3. msg'[s] = r /\ pc'[s] = "save" /\ cur'[s] = cur[s]
      BY <1>7 DEF PostFailed, TypeOK
    <3>4. /\ r.state \in {"failed", "retrying"} /\ r \in Record
          /\ r.state = "retrying" => r.retries \in 1..RetryLimit
      BY <3>2, RetryAssumption DEF Retried, Record
    <3>5. phase'[s] = phase[s] /\ phase[s] # "exited"
      BY <1>7, <3>1 DEF PostFailed, process, WorkerOK, WorkerAt
    <3> QED
      BY <2>2, <3>1, <3>3, <3>4, <3>5, RecordAssumption, NilAssumption DEF WorkerAt, Busy
  <2> QED
    BY <2>1, <2>2
<1>8. ASSUME NEW s \in Server, NEW o, Save(s, o) PROVE WorkerAt(t)'
  <2>1. CASE t # s
    BY <1>0, <1>8, <2>1 DEF Save, process, TypeOK
  <2>2. CASE t = s
    <3>1. /\ cur[s] \in MsgId /\ pc[s] = "save" /\ msg[s] \in Record
          /\ phase[s] # "exited" /\ msg[s].state # "queued"
          /\ msg[s].state = "retrying" => msg[s].retries \in 1..RetryLimit
      BY <1>8 DEF Save, WorkerOK, WorkerAt, Busy, TypeOK
    <3>2. /\ msg'[s] = msg[s] /\ cur'[s] = cur[s] /\ phase'[s] = phase[s]
          /\ pc'[s] = AfterSave(msg[s].state)
      BY <1>8 DEF Save, process, TypeOK
    <3>3. msg[s].state \in {"delivered", "failed", "retrying"}
      BY <3>1 DEF Record
    <3> QED
      BY <2>2, <3>1, <3>2, <3>3, RecordAssumption, NilAssumption
      DEF AfterSave, WorkerAt, Busy
  <2> QED
    BY <2>1, <2>2
<1>9. ASSUME NEW s \in Server, NEW o, Requeue(s, o) PROVE WorkerAt(t)'
  <2>1. CASE t # s
    BY <1>0, <1>9, <2>1 DEF Requeue, Finish, process, TypeOK
  <2>2. CASE t = s
    <3>1. phase[s] # "exited"
      BY <1>9 DEF Requeue, WorkerOK, WorkerAt
    <3>2. pc'[s] = "loop" /\ cur'[s] = Nil /\ msg'[s] = Nil /\ phase'[s] = phase[s]
      BY <1>9 DEF Requeue, Finish, process, TypeOK
    <3> QED
      BY <2>2, <3>1, <3>2 DEF WorkerAt, Busy
  <2> QED
    BY <2>1, <2>2
<1>10. ASSUME NEW s \in Server, NEW o, Bury(s, o) PROVE WorkerAt(t)'
  <2>1. CASE t # s
    BY <1>0, <1>10, <2>1 DEF Bury, process, TypeOK
  <2>2. CASE t = s
    BY <1>10, <2>2 DEF Bury, WorkerOK, WorkerAt, Busy, process, TypeOK
  <2> QED
    BY <2>1, <2>2
<1>11. ASSUME NEW s \in Server, NEW o, Expire(s, o) PROVE WorkerAt(t)'
  <2>1. CASE t # s
    BY <1>0, <1>11, <2>1 DEF Expire, Finish, process, TypeOK
  <2>2. CASE t = s
    <3>1. phase[s] # "exited"
      BY <1>11 DEF Expire, WorkerOK, WorkerAt
    <3>2. pc'[s] = "loop" /\ cur'[s] = Nil /\ msg'[s] = Nil /\ phase'[s] = phase[s]
      BY <1>11 DEF Expire, Finish, process, TypeOK
    <3> QED
      BY <2>2, <3>1, <3>2 DEF WorkerAt, Busy
  <2> QED
    BY <2>1, <2>2
<1>12. ASSUME NEW s \in Server, LoopReturn(s) PROVE WorkerAt(t)'
  <2>1. CASE t # s
    BY <1>0, <1>12, <2>1 DEF LoopReturn, process, TypeOK
  <2>2. CASE t = s
    BY <1>12, <2>2 DEF LoopReturn, WorkerOK, WorkerAt, Busy, process, TypeOK
  <2> QED
    BY <2>1, <2>2
<1>13. ASSUME NEW s \in Server, Exit(s) PROVE WorkerAt(t)'
  <2>1. CASE t # s
    BY <1>0, <1>13, <2>1 DEF Exit, process, TypeOK
  <2>2. CASE t = s
    BY <1>13, <2>2 DEF Exit, WorkerAt, Busy, process, TypeOK
  <2> QED
    BY <2>1, <2>2
<1>14. ASSUME NEW s \in Server, Start(s) PROVE WorkerAt(t)'
  <2>1. CASE t # s
    BY <1>0, <1>14, <2>1 DEF Start, process, TypeOK
  <2>2. CASE t = s
    BY <1>14, <2>2 DEF Start, WorkerOK, WorkerAt, Busy, process, TypeOK
  <2> QED
    BY <2>1, <2>2
<1>15. ASSUME NEW s \in Server, Stop(s) PROVE WorkerAt(t)'
  BY <1>0, <1>15 DEF Stop, worker, TypeOK
<1> QED
  BY <1>1, <1>2, <1>3, <1>4, <1>5, <1>6, <1>7, <1>8, <1>9, <1>10, <1>11, <1>12, <1>13, <1>14, <1>15
  DEF Next, Publisher, Worker, Process, vars, worker, redis, publish, history,
      process, PublishSave, PublishEnqueue, Tick, Evict

\* Claims are exclusive, and only a message that was queued is ever claimed.
LEMMA ClaimInit == Init => EnteredFirst /\ ClaimExclusive
  BY NilAssumption DEF Init, EnteredFirst, ClaimExclusive, Held

LEMMA ClaimStep ==
  TypeOK /\ WorkerOK /\ EnteredFirst /\ ClaimExclusive /\ [Next]_vars
    => EnteredFirst' /\ ClaimExclusive'
<1> SUFFICES ASSUME TypeOK, WorkerOK, EnteredFirst, ClaimExclusive, [Next]_vars
             PROVE  EnteredFirst' /\ ClaimExclusive'
  OBVIOUS
<1> USE DEF EnteredFirst, ClaimExclusive, Held, Entered
<1>0. ASSUME UNCHANGED <<queued, cur, pub>> PROVE EnteredFirst' /\ ClaimExclusive'
  BY <1>0
<1>1. ASSUME NEW m \in MsgId, NEW s \in Server, NEW o, PublishSave(m, s, o)
      PROVE  EnteredFirst' /\ ClaimExclusive'
  <2>1. UNCHANGED <<queued, cur>> /\ \A n \in MsgId : Entered(n) => Entered(n)'
    BY <1>1 DEF PublishSave, worker, TypeOK
  <2> QED
    BY <2>1
<1>2. ASSUME NEW m \in MsgId, NEW o, PublishEnqueue(m, o)
      PROVE  EnteredFirst' /\ ClaimExclusive'
  <2>1. cur' = cur /\ queued' \subseteq queued \cup {m} /\ ~Entered(m)
    BY <1>2 DEF PublishEnqueue, Enqueue, worker
  <2>2. \A n \in MsgId \ {m} : pub'[n] = pub[n]
    BY <1>2 DEF PublishEnqueue, TypeOK
  <2>3. m \notin queued /\ \A s \in Server : cur[s] # m
    BY <2>1
  <2>4. m \in queued' => Entered(m)'
    BY <1>2, <2>3 DEF PublishEnqueue, Enqueue, Applied, TypeOK
  <2> QED
    BY <2>1, <2>2, <2>3, <2>4 DEF TypeOK
<1>3. ASSUME NEW s \in Server, NEW m \in MsgId, NEW o, Claim(s, m, o)
      PROVE  EnteredFirst' /\ ClaimExclusive'
  <2>1. pub' = pub /\ queued' \subseteq queued
    BY <1>3 DEF Claim, publish
  <2>2. CASE Removed(m, o)
    <3>1. m \in queued /\ queued' = queued \ {m} /\ cur' = [cur EXCEPT ![s] = m]
      BY <1>3, <2>2 DEF Claim, Removed, Applied
    <3> QED
      BY <2>1, <3>1 DEF TypeOK
  <2>3. CASE ~Removed(m, o)
    BY <1>3, <2>1, <2>3 DEF Claim
  <2> QED
    BY <2>2, <2>3
<1>4. ASSUME NEW s \in Server, pub' = pub, queued' = queued,
             cur' = cur \/ cur' = [cur EXCEPT ![s] = Nil]
      PROVE  EnteredFirst' /\ ClaimExclusive'
  BY <1>4, NilAssumption DEF TypeOK
<1>5. ASSUME NEW s \in Server, NEW o, Load(s, o) PROVE EnteredFirst' /\ ClaimExclusive'
  BY <1>4, <1>5 DEF Load, Finish, redis, publish
<1>6. ASSUME NEW s \in Server, NEW o, Expire(s, o) PROVE EnteredFirst' /\ ClaimExclusive'
  BY <1>4, <1>6 DEF Expire, Finish, publish
<1>7. ASSUME NEW s \in Server, NEW o, Requeue(s, o) PROVE EnteredFirst' /\ ClaimExclusive'
  <2>1. cur[s] \in MsgId
    BY <1>7 DEF Requeue, WorkerOK, WorkerAt, Busy, TypeOK
  <2>2. /\ pub' = pub /\ cur' = [cur EXCEPT ![s] = Nil]
        /\ queued' \subseteq queued \cup {cur[s]}
    BY <1>7 DEF Requeue, Finish, Enqueue, publish
  <2>3. Entered(cur[s]) /\ \A t \in Server \ {s} : cur[t] # cur[s]
    BY <2>1, NilAssumption
  <2> QED
    BY <2>1, <2>2, <2>3, NilAssumption DEF TypeOK
<1>8. ASSUME NEW s \in Server, Exit(s) PROVE EnteredFirst' /\ ClaimExclusive'
  <2>1. queued' = queued /\ cur' = [cur EXCEPT ![s] = Nil]
    BY <1>8 DEF Exit, redis
  <2>2. \A n \in MsgId : Entered(n) => Entered(n)'
    BY <1>8 DEF Exit
  <2> QED
    BY <2>1, <2>2, NilAssumption DEF TypeOK
<1>9. ASSUME NEW s \in Server, Scan(s) \/ LoopReturn(s) PROVE UNCHANGED <<queued, cur, pub>>
  BY <1>9 DEF Scan, LoopReturn, redis, publish
<1>10. ASSUME NEW s \in Server, PostInvalid(s) \/ PostAcked(s) \/ PostFailed(s)
       PROVE  UNCHANGED <<queued, cur, pub>>
  BY <1>10 DEF PostInvalid, PostAcked, PostFailed, redis, publish
<1>11. ASSUME NEW s \in Server, NEW o, Save(s, o) \/ Bury(s, o)
       PROVE  UNCHANGED <<queued, cur, pub>>
  BY <1>11 DEF Save, Bury, publish
<1>12. ASSUME NEW s \in Server, Stop(s) \/ Start(s) PROVE UNCHANGED <<queued, cur, pub>>
  BY <1>12 DEF Stop, Start, redis, publish, worker
<1>13. ASSUME NEW m \in MsgId, Evict(m) PROVE UNCHANGED <<queued, cur, pub>>
  BY <1>13 DEF Evict, publish, worker
<1>14. ASSUME Tick PROVE UNCHANGED <<queued, cur, pub>>
  BY <1>14 DEF Tick, publish, worker
<1>15. ASSUME UNCHANGED vars PROVE UNCHANGED <<queued, cur, pub>>
  BY <1>15 DEF vars, redis, publish, worker
<1>16. ASSUME NEW s \in Server, Worker(s) PROVE EnteredFirst' /\ ClaimExclusive'
  BY <1>16, <1>0, <1>3, <1>5, <1>6, <1>7, <1>9, <1>10, <1>11 DEF Worker
<1>17. ASSUME NEW s \in Server, Process(s) PROVE EnteredFirst' /\ ClaimExclusive'
  BY <1>17, <1>0, <1>8, <1>12 DEF Process
<1>18. ASSUME NEW m \in MsgId, Publisher(m) PROVE EnteredFirst' /\ ClaimExclusive'
  BY <1>18, <1>1, <1>2 DEF Publisher
<1> HIDE DEF EnteredFirst, ClaimExclusive
<1> QED
  BY <1>0, <1>13, <1>14, <1>15, <1>16, <1>17, <1>18 DEF Next

\* An acknowledged or buried message has only its last bookkeeping before it.
LEMMA FinalInit == Init => FinalOK /\ DlqOnce
  BY DEF Init, FinalOK, DlqOnce, InDlq

LEMMA FinalStep == IInv /\ [Next]_vars => FinalOK' /\ DlqOnce'
<1> SUFFICES ASSUME IInv, [Next]_vars PROVE FinalOK' /\ DlqOnce'
  OBVIOUS
<1> USE DEF FinalOK, DlqOnce, InDlq
<1>t. TypeOK
  BY DEF IInv
<1>c. ClaimExclusive /\ EnteredFirst /\ WorkerOK
  BY DEF IInv
<1>f. FinalOK /\ DlqOnce
  BY DEF IInv
\* Whoever holds an acknowledged or buried message is about to finish with it.
<1>0. ASSUME NEW s \in Server, acked' = acked, dlq' = dlq, queued' \subseteq queued,
             \A n \in MsgId : Entered(n) => Entered(n)',
             \A t \in Server \ {s} : cur'[t] = cur[t] /\ pc'[t] = pc[t] /\ msg'[t] = msg[t],
             \/ cur'[s] \notin MsgId
             \/ cur'[s] = cur[s] /\ pc[s] \notin {"save", "expire"}
             \/ cur'[s] \in queued
             \/ cur'[s] = cur[s] /\ pc'[s] = "expire"
             \/ cur'[s] = cur[s] /\ pc'[s] = pc[s] /\ msg'[s] = msg[s]
      PROVE  FinalOK' /\ DlqOnce'
  <2>1. DlqOnce' /\ \A n \in MsgId : (InDlq(n) \/ n \in acked => Entered(n))'
    BY <1>f, <1>0
  <2>2. \A n \in acked', t \in Server : cur'[t] = n =>
          pc'[t] = "expire" \/ (pc'[t] = "save" /\ msg'[t].state = "delivered")
    BY <1>t, <1>f, <1>0 DEF TypeOK
  <2>3. \A n \in MsgId, t \in Server : (InDlq(n) /\ cur[t] = n)' => pc'[t] = "expire"
    BY <1>f, <1>0
  <2>4. \A n \in acked' : ~InDlq(n)' /\ n \notin queued'
    BY <1>f, <1>0
  <2> QED
    BY <2>1, <2>2, <2>3, <2>4
<1>1. ASSUME UNCHANGED <<acked, dlq, queued, pc, cur, msg>>,
             \A n \in MsgId : Entered(n) => Entered(n)'
      PROVE  FinalOK' /\ DlqOnce'
  BY <1>f, <1>1
<1>2. ASSUME NEW m \in MsgId, NEW s \in Server, NEW o, PublishSave(m, s, o)
      PROVE  FinalOK' /\ DlqOnce'
  <2>1. \A n \in MsgId : Entered(n) => Entered(n)'
    BY <1>t, <1>2 DEF PublishSave, Entered, TypeOK
  <2> QED
    BY <1>1, <1>2, <2>1 DEF PublishSave, worker, history
<1>3. ASSUME NEW m \in MsgId, NEW o, PublishEnqueue(m, o) PROVE FinalOK' /\ DlqOnce'
  <2>1. UNCHANGED <<dlq, acked, pc, cur, msg>> /\ queued' \subseteq queued \cup {m}
    BY <1>3 DEF PublishEnqueue, Enqueue, worker, history
  <2>2. m \notin acked /\ ~InDlq(m)
    BY <1>3, <1>f DEF PublishEnqueue, Entered
  <2>3. \A n \in MsgId : Entered(n) => Entered(n)'
    BY <1>t, <1>3 DEF PublishEnqueue, Entered, TypeOK
  <2> QED
    BY <1>f, <2>1, <2>2, <2>3
<1>4. ASSUME NEW s \in Server, NEW m \in MsgId, NEW o, Claim(s, m, o)
      PROVE  FinalOK' /\ DlqOnce'
  <2>1. /\ acked' = acked /\ dlq' = dlq /\ queued' \subseteq queued /\ msg' = msg
        /\ \A n \in MsgId : Entered(n) => Entered(n)'
    BY <1>4 DEF Claim, history, publish, Entered
  <2>2. \A t \in Server \ {s} : cur'[t] = cur[t] /\ pc'[t] = pc[t]
    BY <1>t, <1>4 DEF Claim, TypeOK
  <2>3. cur'[s] \in queued \/ (cur'[s] = cur[s] /\ pc'[s] = pc[s] /\ msg'[s] = msg[s])
    BY <1>t, <1>4 DEF Claim, Removed, TypeOK
  <2> QED
    BY <1>0, <2>1, <2>2, <2>3
<1>5. ASSUME NEW s \in Server, NEW o, Load(s, o) PROVE FinalOK' /\ DlqOnce'
  <2>1. /\ acked' = acked /\ dlq' = dlq /\ queued' = queued
        /\ \A n \in MsgId : Entered(n) => Entered(n)'
    BY <1>5 DEF Load, redis, history, publish, Entered
  <2>2. \A t \in Server \ {s} : cur'[t] = cur[t] /\ pc'[t] = pc[t] /\ msg'[t] = msg[t]
    BY <1>t, <1>5 DEF Load, Finish, TypeOK
  <2>3. cur'[s] = Nil \/ (cur'[s] = cur[s] /\ pc[s] = "load")
    BY <1>t, <1>5 DEF Load, Finish, TypeOK
  <2> QED
    BY <1>0, <2>1, <2>2, <2>3, NilAssumption
<1>6. ASSUME NEW s \in Server, PostInvalid(s) PROVE FinalOK' /\ DlqOnce'
  <2>1. /\ UNCHANGED <<acked, dlq, queued, cur>>
        /\ \A n \in MsgId : Entered(n) => Entered(n)'
    BY <1>6 DEF PostInvalid, redis, history, publish, Entered
  <2>2. /\ pc[s] = "post"
        /\ \A t \in Server \ {s} : pc'[t] = pc[t] /\ msg'[t] = msg[t]
    BY <1>t, <1>6 DEF PostInvalid, TypeOK
  <2> QED
    BY <1>0, <2>1, <2>2
<1>7. ASSUME NEW s \in Server, PostAcked(s) PROVE FinalOK' /\ DlqOnce'
  <2> DEFINE m == cur[s]
  <2>1. m \in MsgId /\ pc[s] = "post" /\ msg[s] \in Record
    BY <1>t, <1>c, <1>7 DEF PostAcked, WorkerOK, WorkerAt, Busy, TypeOK
  <2>2. m \notin queued /\ ~InDlq(m) /\ Entered(m)
        /\ \A t \in Server \ {s} : cur[t] # m
    BY <1>c, <1>f, <2>1, NilAssumption DEF ClaimExclusive, EnteredFirst, Held
  <2>3. UNCHANGED <<dlq, queued, cur, pub>> /\ acked' = acked \cup {m}
    BY <1>7 DEF PostAcked, redis, publish
  <2>4. /\ pc'[s] = "save" /\ msg'[s].state = "delivered"
        /\ \A t \in Server \ {s} : pc'[t] = pc[t] /\ msg'[t] = msg[t]
    BY <1>t, <1>7 DEF PostAcked, Marked, TypeOK
  <2>5. \A n \in acked', t \in Server : cur'[t] = n =>
          pc'[t] = "expire" \/ (pc'[t] = "save" /\ msg'[t].state = "delivered")
    BY <1>f, <2>2, <2>3, <2>4
  <2>6. \A n \in MsgId, t \in Server : (InDlq(n) /\ cur[t] = n)' => pc'[t] = "expire"
    BY <1>f, <2>2, <2>3, <2>4
  <2> QED
    BY <1>f, <2>2, <2>3, <2>5, <2>6 DEF Entered
<1>8. ASSUME NEW s \in Server, PostFailed(s)
      PROVE  FinalOK' /\ DlqOnce'
  <2>1. /\ UNCHANGED <<acked, dlq, queued, cur>>
        /\ \A n \in MsgId : Entered(n) => Entered(n)'
    BY <1>8 DEF PostFailed, redis, publish, Entered
  <2>2. /\ pc[s] = "post"
        /\ \A t \in Server \ {s} : pc'[t] = pc[t] /\ msg'[t] = msg[t]
    BY <1>t, <1>8 DEF PostFailed, TypeOK
  <2> QED
    BY <1>0, <2>1, <2>2
<1>9. ASSUME NEW s \in Server, NEW o, Save(s, o) PROVE FinalOK' /\ DlqOnce'
  <2> DEFINE m == cur[s]
  <2>1. /\ UNCHANGED <<acked, dlq, queued, cur, msg>> /\ pc[s] = "save"
        /\ \A n \in MsgId : Entered(n) => Entered(n)'
    BY <1>9 DEF Save, publish, history, Entered
  <2>2. /\ \A t \in Server \ {s} : pc'[t] = pc[t]
        /\ msg[s].state = "delivered" => pc'[s] = "expire"
    BY <1>t, <1>9 DEF Save, AfterSave, TypeOK
  <2>3. \A n \in MsgId : InDlq(n) => cur[s] # n
    BY <1>f, <2>1
  <2> QED
    BY <1>f, <2>1, <2>2, <2>3
<1>10. ASSUME NEW s \in Server, NEW o, Requeue(s, o) PROVE FinalOK' /\ DlqOnce'
  <2> DEFINE m == cur[s]
  <2>1. m \in MsgId /\ pc[s] = "requeue" /\ m \notin acked /\ ~InDlq(m)
    BY <1>t, <1>c, <1>f, <1>10 DEF Requeue, WorkerOK, WorkerAt, Busy, TypeOK
  <2>2. /\ UNCHANGED <<acked, dlq, pub>> /\ queued' \subseteq queued \cup {m}
        /\ cur'[s] = Nil
        /\ \A t \in Server \ {s} : cur'[t] = cur[t] /\ pc'[t] = pc[t] /\ msg'[t] = msg[t]
    BY <1>t, <1>10 DEF Requeue, Finish, Enqueue, publish, history, TypeOK
  <2> QED
    BY <1>t, <1>f, <2>1, <2>2, NilAssumption DEF Entered, TypeOK
<1>11. ASSUME NEW s \in Server, NEW o, Bury(s, o) PROVE FinalOK' /\ DlqOnce'
  <2> DEFINE m == cur[s]
  <2>1. m \in MsgId /\ pc[s] = "bury"
    BY <1>t, <1>c, <1>11 DEF Bury, WorkerOK, WorkerAt, Busy, TypeOK
  <2>2. /\ m \notin acked /\ dlq[m] = 0 /\ m \notin queued /\ Entered(m)
        /\ \A t \in Server \ {s} : cur[t] # m
    BY <1>t, <1>c, <1>f, <2>1, NilAssumption
    DEF ClaimExclusive, EnteredFirst, Held, TypeOK
  <2>3. /\ UNCHANGED <<acked, queued, pub, cur, msg>>
        /\ pc'[s] = "expire" /\ \A t \in Server \ {s} : pc'[t] = pc[t]
    BY <1>t, <1>11 DEF Bury, publish, history, TypeOK
  <2>4. dlq'[m] \in {0, 1} /\ \A n \in MsgId \ {m} : dlq'[n] = dlq[n]
    BY <1>t, <1>11, <2>2 DEF Bury, TypeOK
  <2>5. DlqOnce'
    BY <1>f, <2>2, <2>3, <2>4
  <2>6. \A n \in acked' : ~InDlq(n)' /\ n \notin queued'
    BY <1>t, <1>f, <2>2, <2>3, <2>4 DEF TypeOK
  <2>7. \A n \in acked', t \in Server : cur'[t] = n =>
          pc'[t] = "expire" \/ (pc'[t] = "save" /\ msg'[t].state = "delivered")
    BY <1>f, <2>3
  <2>8. \A n \in MsgId, t \in Server : (InDlq(n) /\ cur[t] = n)' => pc'[t] = "expire"
    BY <1>f, <2>2, <2>3, <2>4
  <2>9. \A n \in MsgId : (InDlq(n) \/ n \in acked => Entered(n))'
    BY <1>f, <2>2, <2>3, <2>4 DEF Entered
  <2> QED
    BY <2>5, <2>6, <2>7, <2>8, <2>9
<1>12. ASSUME NEW s \in Server, NEW o, Expire(s, o) PROVE FinalOK' /\ DlqOnce'
  <2>1. /\ UNCHANGED <<acked, dlq, queued>> /\ cur'[s] = Nil
        /\ \A n \in MsgId : Entered(n) => Entered(n)'
    BY <1>t, <1>12 DEF Expire, Finish, publish, history, Entered, TypeOK
  <2>2. \A t \in Server \ {s} : cur'[t] = cur[t] /\ pc'[t] = pc[t] /\ msg'[t] = msg[t]
    BY <1>t, <1>12 DEF Expire, Finish, TypeOK
  <2> QED
    BY <1>0, <2>1, <2>2, NilAssumption
<1>13. ASSUME NEW s \in Server, Exit(s) PROVE FinalOK' /\ DlqOnce'
  <2>1. /\ UNCHANGED <<acked, dlq, queued>> /\ cur'[s] = Nil
        /\ \A n \in MsgId : Entered(n) => Entered(n)'
    BY <1>t, <1>13 DEF Exit, redis, history, Entered, TypeOK
  <2>2. \A t \in Server \ {s} : cur'[t] = cur[t] /\ pc'[t] = pc[t] /\ msg'[t] = msg[t]
    BY <1>t, <1>13 DEF Exit, TypeOK
  <2> QED
    BY <1>0, <2>1, <2>2, NilAssumption
<1>14. ASSUME NEW s \in Server, LoopReturn(s) \/ Start(s) PROVE FinalOK' /\ DlqOnce'
  <2>1. /\ UNCHANGED <<acked, dlq, queued, cur, msg>>
        /\ \A n \in MsgId : Entered(n) => Entered(n)'
    BY <1>14 DEF LoopReturn, Start, redis, publish, history, Entered
  <2>2. /\ cur[s] = Nil
        /\ \A t \in Server \ {s} : pc'[t] = pc[t]
    BY <1>t, <1>c, <1>14 DEF LoopReturn, Start, WorkerOK, WorkerAt, Busy, TypeOK
  <2> QED
    BY <1>0, <2>1, <2>2, NilAssumption
<1>15. ASSUME NEW s \in Server, Scan(s) \/ Stop(s) PROVE FinalOK' /\ DlqOnce'
  BY <1>1, <1>15 DEF Scan, Stop, redis, publish, worker, history, Entered
<1>16. ASSUME NEW m \in MsgId, Tick \/ Evict(m) PROVE FinalOK' /\ DlqOnce'
  BY <1>1, <1>16 DEF Tick, Evict, publish, worker, history, Entered
<1>17. CASE Tick \/ UNCHANGED vars
  BY <1>1, <1>17 DEF Tick, vars, redis, publish, worker, history, Entered
<1> QED
  BY <1>2, <1>3, <1>4, <1>5, <1>6, <1>7, <1>8, <1>9, <1>10, <1>11, <1>12, <1>13,
     <1>14, <1>15, <1>16, <1>17
  DEF Next, Publisher, Worker, Process

-----------------------------------------------------------------------------
\* The inductive invariant of the delivery protocol holds in every reachable
\* state, for any servers, messages, faults, crashes and restarts.
THEOREM Inductive == Spec => []IInv
<1>1. Init => IInv
  BY TypeInit, WorkerInit, ClaimInit, FinalInit DEF IInv
<1>2. IInv /\ [Next]_vars => IInv'
  BY TypeStep, WorkerStep, ClaimStep, FinalStep DEF IInv
<1> QED
  BY <1>1, <1>2, PTL DEF Spec

\* Every variable keeps its type: the retry counter never leaves the range the
\* backoff is defined on (retry, qstash.go:155-171).
THEOREM TypeCorrect == Spec => []TypeOK
<1>1. IInv => TypeOK
  BY DEF IInv
<1> QED
  BY <1>1, Inductive, PTL

\* No message is ever held by two workers, or claimed and claimable at once
\* (processDue, qstash.go:106-110).
THEOREM ClaimsAreExclusive == Spec => []ClaimExclusive
<1>1. IInv => ClaimExclusive
  BY DEF IInv
<1> QED
  BY <1>1, Inductive, PTL

\* A message is dead-lettered at most once, and then never delivered or claimed
\* again (fail, qstash.go:179-186).
THEOREM DeadLetteredOnce == Spec => []DlqOnce
<1>1. IInv => DlqOnce
  BY DEF IInv
<1> QED
  BY <1>1, Inductive, PTL

\* After a 2xx has reached the worker the message is never POSTed again, although
\* every write that records it may fail (deliver, qstash.go:137-144).
THEOREM AckedIsFinal == Spec => NoPostAfterAck
<1>1. IInv /\ [Next]_vars => [\A m \in acked : attempts'[m] = attempts[m]]_vars
  <2> SUFFICES ASSUME IInv, [Next]_vars, NEW m \in acked
               PROVE  attempts'[m] = attempts[m]
    OBVIOUS
  <2>0. TypeOK /\ FinalOK /\ m \in MsgId
    BY DEF IInv, TypeOK
  <2>1. ASSUME NEW s \in Server, PostAcked(s) PROVE attempts'[m] = attempts[m]
    <3>1. cur[s] # m
      BY <2>0, <2>1 DEF PostAcked, FinalOK
    <3> QED
      BY <2>0, <2>1, <3>1 DEF PostAcked, TypeOK
  <2>2. ASSUME NEW s \in Server, PostFailed(s)
        PROVE  attempts'[m] = attempts[m]
    <3>1. cur[s] # m
      BY <2>0, <2>2 DEF PostFailed, FinalOK
    <3> QED
      BY <2>0, <2>2, <3>1 DEF PostFailed, TypeOK
  <2>3. ASSUME NEW n \in MsgId, Publisher(n) \/ Evict(n) \/ Tick
        PROVE  attempts' = attempts
    BY <2>3 DEF Publisher, PublishSave, PublishEnqueue, Evict, Tick, history
  <2>4. ASSUME NEW s \in Server, Process(s) \/ Scan(s) \/ LoopReturn(s) \/ PostInvalid(s)
        PROVE  attempts' = attempts
    BY <2>4 DEF Process, Stop, Exit, Start, Scan, LoopReturn, PostInvalid, history
  <2>5. ASSUME NEW s \in Server, NEW o, NEW n \in MsgId,
               \/ Claim(s, n, o) \/ Load(s, o) \/ Save(s, o)
               \/ Requeue(s, o) \/ Bury(s, o) \/ Expire(s, o)
        PROVE  attempts' = attempts
    BY <2>5 DEF Claim, Load, Save, Requeue, Bury, Expire, history
  <2>6. CASE UNCHANGED vars
    BY <2>6 DEF vars, history
  <2> QED
    BY <2>0, <2>1, <2>2, <2>3, <2>4, <2>5, <2>6 DEF Next, Worker
<1> QED
  BY <1>1, Inductive, PTL DEF Spec, NoPostAfterAck

-----------------------------------------------------------------------------
(* Delays                                                                  *)

\* An id that a scan returned was due then, and is claimable again in the future
\* only after a POST.
BatchDue ==
  \A s \in Server : \A m \in batch[s] :
    Entered(m) /\ (m \in queued /\ attempts[m] = 0 => wait[m] = 0)

\* A worker that reschedules a message has POSTed it.
RetriedPosted ==
  \A s \in Server :
    pc[s] \in {"save", "requeue"} /\ msg[s].state = "retrying" => attempts[cur[s]] > 0

\* No step takes a POST back, or a message out of its publisher's sight.
LEMMA OnlyMore ==
  ASSUME TypeOK, WorkerOK, [Next]_vars
  PROVE  \A m \in MsgId : attempts'[m] >= attempts[m] /\ (Entered(m) => Entered(m)')
<1> SUFFICES ASSUME NEW m \in MsgId PROVE attempts'[m] >= attempts[m] /\ (Entered(m) => Entered(m)')
  OBVIOUS
<1>t. attempts[m] \in Nat
  BY DEF TypeOK
<1>1. ASSUME NEW n \in MsgId, Publisher(n) PROVE attempts'[m] >= attempts[m] /\ (Entered(m) => Entered(m)')
  <2>1. ASSUME NEW s \in Server, NEW o, PublishSave(n, s, o)
        PROVE  attempts' = attempts /\ (Entered(m) => pub'[m] = pub[m])
    <3>1. attempts' = attempts /\ ~Entered(n) /\ DOMAIN pub = MsgId
      BY <2>1 DEF PublishSave, history, Entered, TypeOK
    <3>2. \A k \in MsgId \ {n} : pub'[k] = pub[k]
      BY <2>1, <3>1 DEF PublishSave
    <3> QED
      BY <3>1, <3>2
  <2>2. ASSUME NEW o, PublishEnqueue(n, o)
        PROVE  attempts' = attempts /\ (Entered(m) => pub'[m] = pub[m])
    <3>1. attempts' = attempts /\ ~Entered(n) /\ DOMAIN pub = MsgId
      BY <2>2 DEF PublishEnqueue, history, Entered, TypeOK
    <3>2. \A k \in MsgId \ {n} : pub'[k] = pub[k]
      BY <2>2, <3>1 DEF PublishEnqueue
    <3> QED
      BY <3>1, <3>2
  <2>3. attempts' = attempts /\ (Entered(m) => pub'[m] = pub[m])
    BY <1>1, <2>1, <2>2 DEF Publisher
  <2> QED
    BY <1>t, <2>3 DEF Entered
<1>2. ASSUME NEW s \in Server, PostAcked(s) \/ PostFailed(s)
      PROVE  attempts'[m] >= attempts[m] /\ (Entered(m) => Entered(m)')
  <2>1. attempts' = [attempts EXCEPT ![cur[s]] = @ + 1] /\ pub' = pub
    BY <1>2 DEF PostAcked, PostFailed, publish
  <2>2. attempts'[m] \in {attempts[m], attempts[m] + 1}
    BY <2>1 DEF TypeOK
  <2> QED
    BY <1>t, <2>1, <2>2 DEF Entered
<1>3. ASSUME NEW s \in Server, Exit(s) PROVE attempts'[m] >= attempts[m] /\ (Entered(m) => Entered(m)')
  <2>1. attempts' = attempts /\ pub'[m] = IF pub[m] \in {"open", "cut"} /\ pubAt[m] = s
                                         THEN "aborted" ELSE pub[m]
    BY <1>3 DEF Exit, history
  <2> QED
    BY <1>t, <2>1 DEF Entered
<1>4. CASE UNCHANGED <<pub, attempts>>
  BY <1>4, <1>t DEF Entered
<1>5. ASSUME NEW n \in MsgId, Evict(n) \/ Tick \/ UNCHANGED vars PROVE UNCHANGED <<pub, attempts>>
  BY <1>5 DEF Evict, Tick, vars, publish, history
<1>6. ASSUME NEW s \in Server, Stop(s) \/ Start(s) \/ Scan(s) \/ LoopReturn(s) \/ PostInvalid(s)
      PROVE  UNCHANGED <<pub, attempts>>
  BY <1>6 DEF Stop, Start, Scan, LoopReturn, PostInvalid, publish, history
<1>7. ASSUME NEW s \in Server, NEW o, NEW n \in MsgId,
             \/ Claim(s, n, o) \/ Load(s, o) \/ Save(s, o)
             \/ Requeue(s, o) \/ Bury(s, o) \/ Expire(s, o)
      PROVE  UNCHANGED <<pub, attempts>>
  BY <1>7 DEF Claim, Load, Save, Requeue, Bury, Expire, publish, history
<1>8. CASE Tick \/ UNCHANGED vars
  BY <1>4, <1>8 DEF Tick, vars, publish, history
<1> QED
  BY <1>1, <1>2, <1>3, <1>4, <1>5, <1>6, <1>7, <1>8 DEF Next, Worker, Process

LEMMA RetriedPostedStep ==
  ASSUME IInv, RetriedPosted, [Next]_vars
  PROVE  RetriedPosted'
<1> SUFFICES ASSUME NEW t \in Server, pc'[t] \in {"save", "requeue"}, msg'[t].state = "retrying"
             PROVE  attempts'[cur'[t]] > 0
  BY DEF RetriedPosted
<1>t. TypeOK /\ WorkerOK
  BY DEF IInv
<1>0. CASE pc'[t] = pc[t] /\ cur'[t] = cur[t] /\ msg'[t] = msg[t]
  <2>1. cur[t] \in MsgId /\ attempts[cur[t]] > 0 /\ attempts[cur[t]] \in Nat
    BY <1>t, <1>0 DEF RetriedPosted, WorkerOK, WorkerAt, Busy, TypeOK
  <2>2. attempts'[cur[t]] >= attempts[cur[t]] /\ attempts'[cur[t]] \in Nat
    BY <1>t, <2>1, OnlyMore, TypeStep DEF TypeOK
  <2> QED
    BY <1>0, <2>1, <2>2
<1>1. ASSUME NEW s \in Server, PostFailed(s) PROVE attempts'[cur'[t]] > 0
  <2>1. CASE t = s
    <3>1. cur[s] \in MsgId
      BY <1>t, <1>1 DEF PostFailed, WorkerOK, WorkerAt, Busy, TypeOK
    <3>2. attempts'[cur[s]] = attempts[cur[s]] + 1 /\ attempts[cur[s]] \in Nat /\ cur' = cur
      BY <1>t, <1>1, <3>1 DEF PostFailed, TypeOK
    <3> QED
      BY <2>1, <3>2
  <2>2. CASE t # s
    BY <1>0, <1>1, <1>t, <2>2 DEF PostFailed, TypeOK
  <2> QED
    BY <2>1, <2>2
<1>2. ASSUME NEW s \in Server, PostAcked(s) \/ PostInvalid(s) PROVE attempts'[cur'[t]] > 0
  <2>1. CASE t = s
    BY <1>2, <1>t, <2>1 DEF PostAcked, PostInvalid, Marked, TypeOK
  <2>2. CASE t # s
    BY <1>0, <1>2, <1>t, <2>2 DEF PostAcked, PostInvalid, TypeOK
  <2> QED
    BY <2>1, <2>2
<1>3. ASSUME NEW s \in Server, NEW o, Save(s, o) PROVE attempts'[cur'[t]] > 0
  <2>1. CASE t = s
    <3>1. pc[s] = "save" /\ cur' = cur /\ msg' = msg /\ attempts' = attempts
      BY <1>3 DEF Save, history
    <3> QED
      BY <2>1, <3>1 DEF RetriedPosted
  <2>2. CASE t # s
    BY <1>0, <1>3, <1>t, <2>2 DEF Save, TypeOK
  <2> QED
    BY <2>1, <2>2
<1>4. ASSUME NEW s \in Server, NEW o, NEW m \in MsgId,
             Claim(s, m, o)
      PROVE  attempts'[cur'[t]] > 0
  <2>1. \A u \in Server \ {s} : pc'[u] = pc[u] /\ cur'[u] = cur[u] /\ msg'[u] = msg[u]
    BY <1>4, <1>t DEF Claim, TypeOK
  <2>2. pc'[s] \in {"load", "loop"}
    BY <1>4, <1>t DEF Claim, TypeOK
  <2>3. CASE t = s
    BY <2>2, <2>3
  <2>4. CASE t # s
    BY <1>0, <2>1, <2>4
  <2> QED
    BY <2>3, <2>4
<1>5. ASSUME NEW s \in Server, LoopReturn(s) \/ Exit(s) \/ Start(s) PROVE attempts'[cur'[t]] > 0
  <2>1. \A u \in Server \ {s} : pc'[u] = pc[u] /\ cur'[u] = cur[u] /\ msg'[u] = msg[u]
    BY <1>5, <1>t DEF LoopReturn, Exit, Start, TypeOK
  <2>2. pc'[s] \in {"returned", "loop"}
    BY <1>5, <1>t DEF LoopReturn, Exit, Start, TypeOK
  <2>3. CASE t = s
    BY <2>2, <2>3
  <2>4. CASE t # s
    BY <1>0, <2>1, <2>4
  <2> QED
    BY <2>3, <2>4
<1>6. CASE UNCHANGED <<pc, cur, msg>>
  BY <1>0, <1>6
<1>7. ASSUME NEW m \in MsgId, Publisher(m) \/ Evict(m) PROVE UNCHANGED <<pc, cur, msg>>
  BY <1>7 DEF Publisher, PublishSave, PublishEnqueue, Evict, worker
<1>8. CASE Tick \/ UNCHANGED vars
  BY <1>6, <1>8 DEF Tick, vars, worker
<1>9. ASSUME NEW s \in Server, Scan(s) \/ Stop(s) PROVE UNCHANGED <<pc, cur, msg>>
  BY <1>9 DEF Scan, Stop, worker
<1>10. ASSUME NEW s \in Server, NEW o, Load(s, o) \/ Requeue(s, o) \/ Bury(s, o) \/ Expire(s, o)
       PROVE  attempts'[cur'[t]] > 0
  <2>1. \A u \in Server \ {s} : pc'[u] = pc[u] /\ cur'[u] = cur[u] /\ msg'[u] = msg[u]
    BY <1>10, <1>t DEF Load, Requeue, Bury, Expire, Finish, TypeOK
  <2>2. pc'[s] \in {"post", "loop", "expire"}
    BY <1>10, <1>t DEF Load, Requeue, Bury, Expire, Finish, TypeOK
  <2> QED
    BY <1>0, <2>1, <2>2
<1> QED
  BY <1>1, <1>2, <1>3, <1>4, <1>5, <1>6, <1>7, <1>8, <1>9, <1>10 DEF Next, Worker, Process

LEMMA BatchDueStep ==
  ASSUME IInv, RetriedPosted, BatchDue, [Next]_vars
  PROVE  BatchDue'
<1> SUFFICES ASSUME NEW t \in Server, NEW n \in batch'[t]
             PROVE  Entered(n)' /\ (n \in queued' /\ attempts'[n] = 0 => wait'[n] = 0)
  BY DEF BatchDue
<1>t. TypeOK /\ WorkerOK /\ EnteredFirst /\ TypeOK'
  BY TypeStep DEF IInv
<1>n. n \in MsgId /\ attempts[n] \in Nat /\ attempts'[n] \in Nat
  BY <1>t DEF TypeOK
<1>e. attempts'[n] >= attempts[n] /\ (Entered(n) => Entered(n)')
  BY <1>t, <1>n, OnlyMore
\* It was in the batch already, and is no less due than it was.
<1>0. ASSUME n \in batch[t], n \in queued' => n \in queued /\ (wait[n] = 0 => wait'[n] = 0)
      PROVE  Entered(n)' /\ (n \in queued' /\ attempts'[n] = 0 => wait'[n] = 0)
  BY <1>0, <1>n, <1>e DEF BatchDue
<1> DEFINE Goal == Entered(n)' /\ (n \in queued' /\ attempts'[n] = 0 => wait'[n] = 0)
<1>1. ASSUME NEW s \in Server, Scan(s) PROVE Goal
  <2>1. UNCHANGED <<queued, wait, pub>> /\ batch' = [batch EXCEPT ![s] = Due]
    BY <1>1 DEF Scan, redis, publish
  <2>2. CASE t = s
    <3>1. n \in queued /\ wait[n] = 0
      BY <1>t, <2>1, <2>2 DEF Due, TypeOK
    <3>2. Entered(n)
      BY <1>t, <1>n, <3>1 DEF EnteredFirst
    <3> QED
      BY <1>e, <2>1, <3>1, <3>2
  <2>3. CASE t # s
    <3>1. n \in batch[t]
      BY <1>t, <2>1, <2>3 DEF TypeOK
    <3> QED
      BY <1>0, <2>1, <3>1
  <2> QED
    BY <2>2, <2>3
<1>2. ASSUME NEW s \in Server, NEW m \in MsgId, NEW o, Claim(s, m, o) PROVE Goal
  <2>1. n \in batch[t]
    BY <1>2, <1>t DEF Claim, TypeOK
  <2>2. n \in queued' => n \in queued /\ (wait[n] = 0 => wait'[n] = 0)
    BY <1>2, <1>t, <1>n DEF Claim, TypeOK
  <2> QED
    BY <1>0, <2>1, <2>2
<1>3. ASSUME NEW s \in Server, NEW o, Requeue(s, o) PROVE Goal
  <2>1. /\ pc[s] = "requeue" /\ batch' = batch /\ attempts' = attempts /\ msg[s].state = "retrying"
        /\ cur[s] \in MsgId
    BY <1>3, <1>t DEF Requeue, history, WorkerOK, WorkerAt, Busy, TypeOK
  <2>2. Held(cur[s]) /\ Entered(cur[s])
    BY <1>t, <2>1 DEF EnteredFirst, Held
  <2>3. n # cur[s] => (n \in queued' => n \in queued /\ wait'[n] = wait[n])
    BY <1>3, <1>t, <1>n, <2>1 DEF Requeue, Enqueue, TypeOK
  <2> QED
    <3>1. CASE n = cur[s]
      <4>1. attempts[n] > 0
        BY <2>1, <3>1 DEF RetriedPosted
      <4> QED
        BY <1>e, <1>n, <2>1, <2>2, <3>1, <4>1
    <3>2. CASE n # cur[s]
      BY <1>0, <2>1, <2>3, <3>2
    <3> QED
      BY <3>1, <3>2
<1>4. ASSUME NEW m \in MsgId, NEW o, PublishEnqueue(m, o) PROVE Goal
  <2>1. n \in batch[t] /\ ~Entered(m) /\ \A k \in MsgId \ {m} :
          (k \in queued' <=> k \in queued) /\ wait'[k] = wait[k]
    BY <1>4, <1>t DEF PublishEnqueue, Enqueue, Entered, worker, TypeOK
  <2>2. n # m
    BY <2>1 DEF BatchDue
  <2> QED
    BY <1>0, <1>n, <2>1, <2>2
<1>5. CASE Tick
  <2>1. n \in batch[t] /\ queued' = queued
    BY <1>5 DEF Tick, worker
  <2>2. wait[n] = 0 => wait'[n] = 0
    BY <1>5, <1>n DEF Tick
  <2> QED
    BY <1>0, <2>1, <2>2
<1>6. CASE UNCHANGED <<queued, wait>> /\ batch'[t] \subseteq batch[t]
  BY <1>0, <1>6
<1>7. ASSUME NEW m \in MsgId, NEW s \in Server, NEW o, PublishSave(m, s, o)
      PROVE  UNCHANGED <<queued, wait, batch>>
  BY <1>7 DEF PublishSave, worker
<1>8. ASSUME NEW s \in Server, LoopReturn(s) \/ PostInvalid(s) \/ PostAcked(s) \/ PostFailed(s)
      PROVE  UNCHANGED <<queued, wait, batch>>
  BY <1>8 DEF LoopReturn, PostInvalid, PostAcked, PostFailed, redis
<1>9. ASSUME NEW s \in Server, NEW o, Load(s, o) \/ Save(s, o) \/ Bury(s, o) \/ Expire(s, o)
      PROVE  UNCHANGED <<queued, wait, batch>>
  BY <1>9 DEF Load, Save, Bury, Expire, redis
<1>10. ASSUME NEW s \in Server, Stop(s) \/ Start(s) \/ Exit(s)
       PROVE  UNCHANGED <<queued, wait>> /\ batch'[t] \subseteq batch[t]
  BY <1>10, <1>t DEF Stop, Start, Exit, redis, worker, TypeOK
<1>11. CASE UNCHANGED vars
  BY <1>6, <1>11 DEF vars, redis, worker
<1>12. ASSUME NEW m \in MsgId, Evict(m) PROVE UNCHANGED <<queued, wait, batch>>
  BY <1>12 DEF Evict, worker
<1> QED
  BY <1>1, <1>2, <1>3, <1>4, <1>5, <1>6, <1>7, <1>8, <1>9, <1>10, <1>11, <1>12
  DEF Next, Publisher, Worker, Process

\* No message is delivered before its Upstash-Delay has passed: a worker may take
\* an id from a scan that is long out of date, but an id that was never POSTed is
\* in no scan unless its delay had passed then (handleQStashPublish, processDue,
\* qstash.go:100-110, 263, 278).
THEOREM DelaysAreKept == Spec => DelayKept
<1>1. Init => RetriedPosted /\ BatchDue
  BY DEF Init, RetriedPosted, BatchDue
<1>2. IInv /\ RetriedPosted /\ BatchDue /\ [Next]_vars => RetriedPosted' /\ BatchDue'
  BY RetriedPostedStep, BatchDueStep
<1>3. IInv /\ BatchDue /\ [Next]_vars
        => [\A m \in queued : m \notin queued' /\ attempts[m] = 0 => wait[m] = 0]_vars
  <2> SUFFICES ASSUME IInv, BatchDue, [Next]_vars,
                      NEW m \in queued, m \notin queued', attempts[m] = 0
               PROVE  wait[m] = 0
    OBVIOUS
  <2>1. ASSUME NEW s \in Server, NEW n \in MsgId, NEW o, Claim(s, n, o) PROVE wait[m] = 0
    <3>1. n = m /\ m \in batch[s]
      BY <2>1 DEF Claim
    <3> QED
      BY <3>1 DEF BatchDue
  <2>2. ASSUME NEW s \in Server, NEW o, Requeue(s, o) PROVE m \in queued'
    BY <2>2 DEF Requeue, Enqueue
  <2>3. ASSUME NEW n \in MsgId, NEW o, PublishEnqueue(n, o) PROVE m \in queued'
    BY <2>3 DEF PublishEnqueue, Enqueue
  <2>4. ASSUME NEW s \in Server, NEW n \in MsgId, NEW o, PublishSave(n, s, o)
        PROVE  queued' = queued
    BY <2>4 DEF PublishSave
  <2>5. ASSUME NEW s \in Server,
               \/ Scan(s) \/ LoopReturn(s) \/ PostInvalid(s) \/ PostAcked(s) \/ PostFailed(s)
               \/ Stop(s) \/ Start(s) \/ Exit(s)
        PROVE  queued' = queued
    BY <2>5 DEF Scan, LoopReturn, PostInvalid, PostAcked, PostFailed, Stop, Start, Exit, redis
  <2>6. ASSUME NEW s \in Server, NEW o, Load(s, o) \/ Save(s, o) \/ Bury(s, o) \/ Expire(s, o)
        PROVE  queued' = queued
    BY <2>6 DEF Load, Save, Bury, Expire, redis
  <2>7. ASSUME NEW n \in MsgId, Evict(n) PROVE queued' = queued
    BY <2>7 DEF Evict
  <2>8. CASE Tick \/ UNCHANGED vars
    BY <2>8 DEF Tick, vars, redis
  <2> QED
    BY <2>1, <2>2, <2>3, <2>4, <2>5, <2>6, <2>7, <2>8 DEF Next, Publisher, Worker, Process
<1> QED
  BY <1>1, <1>2, <1>3, Inductive, PTL DEF Spec, DelayKept

=============================================================================
