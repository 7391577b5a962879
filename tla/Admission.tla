------------------------------ MODULE Admission ------------------------------
(***************************************************************************)
(* RateLimiter and Metrics on the path of a request: requestHandler        *)
(* (rest.go) calls Allow once, and executeCommand and executeMultiExec     *)
(* (commands.go) call Record for each command they go on to run: none for  *)
(* a request that is rejected later, several for a pipeline.               *)
(***************************************************************************)
EXTENDS RateLimiter, Sequences

CONSTANTS
  Command,    \* command names
  None,       \* no command
  Script,     \* the commands a request may come to run
  MaxDay,     \* bound: the last calendar day
  MaxRecords  \* bound: calls of Record

ASSUME CommandsAssumption ==
  /\ IsFiniteSet(Command) /\ None \notin Command
  /\ Script \subseteq Seq(Command)
  /\ MaxDay \in Nat /\ MaxRecords \in Nat

VARIABLES
  clock, totalRequests, byCommand, today, todayCount, command, day, recordedFor,
  step,  \* where each goroutine is in Record
  todo   \* commands it still has to run

M == INSTANCE Metrics WITH pc <- step

counters  == <<clock, totalRequests, byCommand, today, todayCount, step, command, day, recordedFor>>
admission == <<vars, counters, todo>>

Free(r) == todo[r] = <<>> /\ step[r] = "idle"

\* requestHandler begins with Allow.
Arrive(r) == Free(r) /\ CountQuota(r) /\ UNCHANGED <<counters, todo>>

\* An admitted request goes on to its commands.
Admit(r) ==
  /\ CheckWindow(r)
  /\ IF admitted' = admitted THEN UNCHANGED todo
     ELSE \E s \in Script : todo' = [todo EXCEPT ![r] = s]
  /\ UNCHANGED counters

Count(r) ==
  /\ \/ /\ todo[r] # <<>> /\ M!Begin(r, Head(todo[r]))
        /\ todo' = [todo EXCEPT ![r] = Tail(@)]
     \/ (M!ReadDay(r) \/ M!Count(r)) /\ UNCHANGED todo
  /\ UNCHANGED vars

Pass ==
  \/ Tick /\ UNCHANGED <<counters, todo>>
  \/ M!Midnight /\ UNCHANGED <<vars, todo>>

AdmissionInit == Init /\ M!Init /\ todo = [r \in Request |-> <<>>]

AdmissionNext == Pass \/ \E r \in Request : Arrive(r) \/ Admit(r) \/ Count(r)

AdmissionSpec == AdmissionInit /\ [][AdmissionNext]_admission

-----------------------------------------------------------------------------
(* Properties                                                              *)

\* The type of the whole; no counter ever goes down to below zero
\* (ratelimit.go, metrics.go).
CountersOK == TypeOK /\ M!TypeOK /\ todo \in [Request -> Seq(Command)]

\* Those of Metrics, stated there.
TotalsAgree == M!TotalsAgree
NoOvercount == M!NoOvercount
TodayExact  == M!TodayExact
=============================================================================
