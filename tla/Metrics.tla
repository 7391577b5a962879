------------------------------- MODULE Metrics -------------------------------
(***************************************************************************)
(* The request metrics of internal/metrics.go.  Record adds to an atomic   *)
(* counter, reads the calendar day, and only then takes the lock under     *)
(* which it counts the command and rolls the daily window over.  Snapshot  *)
(* only reads, everything under the same lock: what it shows is the state. *)
(***************************************************************************)
EXTENDS Integers, FiniteSets, FiniteSetsExt, Functions

CONSTANTS
  Request,    \* goroutines that call Record
  Command,    \* command names
  None,       \* no command
  MaxDay,     \* bound: the last calendar day
  MaxRecords  \* bound: calls of Record

VARIABLES
  clock,          \* the calendar day
  totalRequests,  \* atomic counter
  byCommand,
  today,          \* the day todayCount counts
  todayCount,
  pc,             \* where each goroutine is in Record
  command,        \* the command it records
  day,            \* the day it read
  recordedFor     \* history: by day, the Records that read it and took the lock

vars == <<clock, totalRequests, byCommand, today, todayCount, pc, command, day,
          recordedFor>>

TypeOK ==
  /\ clock \in 0..MaxDay /\ today \in 0..MaxDay
  /\ totalRequests \in 0..MaxRecords
  /\ todayCount \in Nat
  /\ byCommand \in [Command -> Nat]
  /\ pc \in [Request -> {"idle", "day", "lock"}]
  /\ command \in [Request -> Command \cup {None}]
  /\ day \in [Request -> 0..MaxDay]
  /\ recordedFor \in [0..MaxDay -> Nat]

-----------------------------------------------------------------------------
(* Regressions: helpers as a change to the code could leave them.          *)

Uncleared(d)   == todayCount + 1
CountedDown(d) == IF d # today THEN 1 ELSE todayCount - 1
CountedOnce(c) == [byCommand EXCEPT ![c] = 1]

-----------------------------------------------------------------------------
\* totalRequests.Add(1)
Begin(r, c) ==
  /\ pc[r] = "idle" /\ totalRequests < MaxRecords
  /\ totalRequests' = totalRequests + 1
  /\ command' = [command EXCEPT ![r] = c]
  /\ pc' = [pc EXCEPT ![r] = "day"]
  /\ UNCHANGED <<clock, byCommand, today, todayCount, day, recordedFor>>

\* day := time.Now().Format("2006-01-02")
ReadDay(r) ==
  /\ pc[r] = "day"
  /\ day' = [day EXCEPT ![r] = clock]
  /\ pc' = [pc EXCEPT ![r] = "lock"]
  /\ UNCHANGED <<clock, totalRequests, byCommand, today, todayCount, command,
                 recordedFor>>

\* todayCount for a record of day d: reset if d is another day than today.
CountOn(d) == IF d # today THEN 1 ELSE todayCount + 1

\* m.byCommand[name]++
Counted(c) == [byCommand EXCEPT ![c] = @ + 1]

\* Everything between mu.Lock and mu.Unlock.
Count(r) ==
  /\ pc[r] = "lock"
  /\ byCommand' = Counted(command[r])
  /\ today' = day[r]
  /\ todayCount' = CountOn(day[r])
  /\ recordedFor' = [recordedFor EXCEPT ![day[r]] = @ + 1]
  /\ pc' = [pc EXCEPT ![r] = "idle"]
  /\ command' = [command EXCEPT ![r] = None]
  /\ UNCHANGED <<clock, totalRequests, day>>

Midnight ==
  /\ clock < MaxDay
  /\ clock' = clock + 1
  /\ UNCHANGED <<totalRequests, byCommand, today, todayCount, pc, command, day,
                 recordedFor>>

Init ==
  /\ clock = 0 /\ today = 0
  /\ totalRequests = 0 /\ todayCount = 0
  /\ byCommand = [c \in Command |-> 0]
  /\ pc = [r \in Request |-> "idle"]
  /\ command = [r \in Request |-> None]
  /\ day = [r \in Request |-> 0]
  /\ recordedFor = [d \in 0..MaxDay |-> 0]

Next ==
  \/ Midnight
  \/ \E r \in Request : ReadDay(r) \/ Count(r) \/ \E c \in Command : Begin(r, c)

Spec == Init /\ [][Next]_vars

-----------------------------------------------------------------------------
(* Properties                                                              *)

\* Snapshot never shows more commands than requests, and shows fewer only by
\* the calls of Record that have not taken the lock (metrics.go:31-38, 52-57).
TotalsAgree ==
  totalRequests = SumFunction(byCommand) + Cardinality({r \in Request : pc[r] # "idle"})

\* The daily count never includes a request of another day (metrics.go:39-44).
NoOvercount == todayCount <= recordedFor[today]

\* The daily count is the number of requests of the day it is for, and that day
\* never goes back: metrics.go:40 "New calendar day - reset the rolling daily
\* window".  True while requests come one by one.
TodayExact == todayCount = recordedFor[today]
=============================================================================
