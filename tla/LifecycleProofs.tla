-------------------------- MODULE LifecycleProofs --------------------------
(***************************************************************************)
(* Proofs about the life of the server process: what the 64-bit backoff of *)
(* dialWithRetry makes startup wait, that it is the one a 64-bit register  *)
(* computes, and what the recorder's file holds when a signal closes it    *)
(* under the handlers.                                                     *)
(***************************************************************************)
EXTENDS MCLifecycle, TLAPS

-----------------------------------------------------------------------------
(* The backoff (main.go:395-399), for every attempt                        *)

\* From 22 bits on nothing of 1953125 is cut, and its sign bit is 0.
LEMMA WrapKeeps == \A b \in 22..30 : Wrap(OddPart, b) = OddPart
<1>1. Wrap(OddPart, 22) = OddPart
  BY SMT DEF Wrap, OddPart
<1>2. Wrap(OddPart, 23) = OddPart
  BY SMT DEF Wrap, OddPart
<1>3. Wrap(OddPart, 24) = OddPart
  BY SMT DEF Wrap, OddPart
<1>4. Wrap(OddPart, 25) = OddPart
  BY SMT DEF Wrap, OddPart
<1>5. Wrap(OddPart, 26) = OddPart
  BY SMT DEF Wrap, OddPart
<1>6. Wrap(OddPart, 27) = OddPart
  BY SMT DEF Wrap, OddPart
<1>7. Wrap(OddPart, 28) = OddPart
  BY SMT DEF Wrap, OddPart
<1>8. Wrap(OddPart, 29) = OddPart
  BY SMT DEF Wrap, OddPart
<1>9. Wrap(OddPart, 30) = OddPart
  BY SMT DEF Wrap, OddPart
<1>10. \A b \in 22..30 : b \in {22, 23, 24, 25, 26, 27, 28, 29, 30}
  OBVIOUS
<1> QED
  BY <1>1, <1>2, <1>3, <1>4, <1>5, <1>6, <1>7, <1>8, <1>9, <1>10, SMT

LEMMA FactorPositive == \A i \in 0..33 : Factor(i) \in Nat /\ Factor(i) > 0
<1> SUFFICES ASSUME NEW i \in 0..33 PROVE Factor(i) \in Nat /\ Factor(i) > 0
  OBVIOUS
<1>1. CASE i < 25
  BY <1>1, SMT DEF Factor, OddPart
<1>2. CASE i >= 25
  <2>1. 55 - i \in 22..30 /\ ~(i >= 55) /\ ~(i < 25)
    BY <1>2
  <2>2. Factor(i) = OddPart
    BY <2>1, WrapKeeps, SMT DEF Factor
  <2> QED
    BY <2>2, SMT DEF OddPart
<1> QED
  BY <1>1, <1>2

\* The cap takes over at the fifth attempt; nothing is waited longer.
LEMMA DialSleepAt ==
  ASSUME NEW i \in Nat
  PROVE  /\ DialSleep(i) \in 0..30
         /\ i = 0 => DialSleep(i) = 1
         /\ i = 1 => DialSleep(i) = 2
         /\ i = 2 => DialSleep(i) = 4
         /\ i = 3 => DialSleep(i) = 8
         /\ i = 4 => DialSleep(i) = 16
         /\ i \in 5..33 => DialSleep(i) = 30
<1>1. /\ CappedSeconds(0, 30) = 1 /\ CappedSeconds(1, 30) = 2 /\ CappedSeconds(2, 30) = 4
      /\ CappedSeconds(3, 30) = 8 /\ CappedSeconds(4, 30) = 16 /\ CappedSeconds(5, 30) = 30
  BY SMT DEF CappedSeconds
<1>2. i >= 6 => CappedSeconds(i, 30) = 30
  BY DEF CappedSeconds
<1>3. i < 6 => i \in {0, 1, 2, 3, 4, 5}
  OBVIOUS
<1>4. i <= 33 => DialSleep(i) = CappedSeconds(i, 30)
  BY FactorPositive DEF DialSleep
<1>5. DialSleep(i) \in {0, CappedSeconds(i, 30)}
  BY DEF DialSleep
<1> QED
  BY <1>1, <1>2, <1>3, <1>4, <1>5

-----------------------------------------------------------------------------
\* Startup has waited what the attempts before it cost.
DialInv == TypeOK /\ DialPatience

\* The recorder's file is open from NewRecorder until main closes it, and every
\* handler runs after the one and is past Record before Redis runs its command.
RecorderInv ==
  /\ main \in {"dial", "ping", "open"} =>
       recorder = "none" /\ executed = {} /\ \A r \in Request : req[r] = "none"
  /\ main \in {"listen", "serve", "closeRecorder"} => recorder = "open"
  /\ \A r \in Request : req[r] = "record" => recorder # "none"
  /\ recorder # "closed" =>
       /\ executed \subseteq recorded
       /\ \A r \in Request : req[r] \in {"borrow", "run"} => r \in recorded

LEMMA DialAgainStep == DialInv /\ DialAgain => DialInv'
<1> SUFFICES ASSUME DialInv, DialAgain PROVE DialInv'
  OBVIOUS
<1>1. /\ main = "dial" /\ main' = "dial" /\ attempt \in 0..maxRetries /\ attempt < maxRetries
      /\ attempt' = attempt + 1 /\ slept' = slept + DialSleep(attempt)
      /\ maxRetries \in Nat /\ attempt \in Nat /\ slept \in Nat
      /\ UNCHANGED <<watcher, pending, listener, recorder, pool, req, recorded, executed,
                     redisUp, flips>>
  BY LifecycleAssumption
  DEF DialInv, TypeOK, DialAgain, Exhausted, serving, handled, redis
<1>2. /\ DialSleep(attempt) \in 0..30
      /\ attempt = 0 => DialSleep(attempt) = 1
      /\ attempt = 1 => DialSleep(attempt) = 2
      /\ attempt = 2 => DialSleep(attempt) = 4
      /\ attempt = 3 => DialSleep(attempt) = 8
      /\ attempt = 4 => DialSleep(attempt) = 16
      /\ attempt \in 5..33 => DialSleep(attempt) = 30
  BY <1>1, DialSleepAt
<1>3. DialPatience
  BY DEF DialInv
<1>4. TypeOK'
  <2>1. attempt' \in 0..maxRetries /\ slept' \in Nat
    BY <1>1, <1>2
  <2> QED
    BY <1>1, <2>1 DEF DialInv, TypeOK
<1> HIDE DEF DialSleep
<1>5. slept' <= 31 + 30 * attempt'
  <2>1. slept <= 31 + 30 * attempt
    BY <1>1, <1>3, Zenon DEF DialPatience
  <2> QED
    BY <1>1, <1>2, <2>1
<1>6. attempt' <= 5 => slept' = 2^attempt' - 1
  <2>1. attempt <= 4 => slept = 2^attempt - 1 /\ attempt \in {0, 1, 2, 3, 4}
    BY <1>1, <1>3 DEF DialPatience
  <2>2. attempt = 0 => slept' = 2^1 - 1 /\ attempt' = 1
    BY <1>1, <1>2, <2>1, 2^0 = 1, 2^1 = 2
  <2>3. attempt = 1 => slept' = 2^2 - 1 /\ attempt' = 2
    BY <1>1, <1>2, <2>1, 2^1 = 2, 2^2 = 4
  <2>4. attempt = 2 => slept' = 2^3 - 1 /\ attempt' = 3
    BY <1>1, <1>2, <2>1, 2^2 = 4, 2^3 = 8
  <2>5. attempt = 3 => slept' = 2^4 - 1 /\ attempt' = 4
    BY <1>1, <1>2, <2>1, 2^3 = 8, 2^4 = 16
  <2>6. attempt = 4 => slept' = 2^5 - 1 /\ attempt' = 5
    BY <1>1, <1>2, <2>1, 2^4 = 16, 2^5 = 32
  <2>7. attempt' <= 5 => attempt \in {0, 1, 2, 3, 4}
    BY <1>1
  <2> QED
    BY <2>2, <2>3, <2>4, <2>5, <2>6, <2>7
<1>7. attempt' \in 6..34 => slept' = 31 + 30 * (attempt' - 5)
  <2>1. attempt = 5 => slept = 31
    BY <1>1, <1>3, 2^5 = 32 DEF DialPatience
  <2>2. attempt \in 6..33 => slept = 31 + 30 * (attempt - 5)
    BY <1>1, <1>3 DEF DialPatience
  <2>3. attempt' \in 6..34 => attempt = 5 \/ attempt \in 6..33
    BY <1>1
  <2> QED
    BY <1>1, <1>2, <2>1, <2>2, <2>3
<1> QED
  BY <1>4, <1>5, <1>6, <1>7 DEF DialInv, DialPatience

\* The end of the process leaves the type of everything alone.
LEMMA EndAtType ==
  ASSUME TypeOK, NEW m \in Ended, EndAt(m)
  PROVE  /\ main' \in Ended
         /\ req' \in [Request -> {"none", "answered", "refused", "cut"} \cup Handling]
  BY DEF TypeOK, EndAt

LEMMA FatalStep == TypeOK /\ Fatal => TypeOK' /\ main' # "dial"
  BY EndAtType DEF Fatal, TypeOK, Ended, startup, serving, redis

\* Every step but a failed dial keeps the type invariant, and none leads back.
LEMMA OtherStep ==
  TypeOK /\ [Next]_vars => DialAgain \/ (TypeOK' /\ (main' = "dial" => UNCHANGED <<main, startup>>))
<1> SUFFICES ASSUME TypeOK, [Next]_vars
             PROVE  DialAgain \/ (TypeOK' /\ (main' = "dial" => UNCHANGED <<main, startup>>))
  OBVIOUS
<1> DEFINE Kept == TypeOK' /\ (main' = "dial" => UNCHANGED <<main, startup>>)
<1> USE DEF startup, serving, handled, redis
<1>1. ASSUME Dial \/ ServeReturns \/ CloseRecorder \/ ClosePool PROVE Kept
  BY <1>1 DEF Dial, ServeReturns, CloseRecorder, ClosePool, TypeOK
<1>2. ASSUME DialGivesUp PROVE Kept
  BY <1>2, FatalStep DEF DialGivesUp
<1>3. ASSUME NEW ok \in BOOLEAN, Ping(ok) PROVE Kept
  <2>1. CASE ok
    BY <1>3, <2>1, LifecycleAssumption DEF Ping, TypeOK
  <2>2. CASE ~ok
    BY <1>3, <2>2, FatalStep DEF Ping
  <2> QED
    BY <2>1, <2>2
<1>4. ASSUME NEW ok \in BOOLEAN, Open(ok) PROVE Kept
  <2>1. CASE ok
    BY <1>4, <2>1 DEF Open, TypeOK
  <2>2. CASE ~ok
    BY <1>4, <2>2, FatalStep DEF Open
  <2> QED
    BY <2>1, <2>2
<1>5. ASSUME NEW ok \in BOOLEAN, Listen(ok) PROVE Kept
  <2>1. CASE ok
    BY <1>5, <2>1 DEF Listen, TypeOK
  <2>2. CASE ~ok
    BY <1>5, <2>2, FatalStep DEF Listen
  <2> QED
    BY <2>1, <2>2
<1>6. ASSUME Return PROVE Kept
  BY <1>6, EndAtType DEF Return, TypeOK, Ended
<1>7. ASSUME Watcher PROVE Kept
  <2>1. CASE Notify
    BY <2>1 DEF Notify, TypeOK
  <2>2. CASE Shutdown
    BY <2>2 DEF Shutdown, Stopped, TypeOK
  <2>3. CASE Drained
    BY <2>3 DEF Drained, TypeOK
  <2> QED
    BY <1>7, <2>1, <2>2, <2>3 DEF Watcher
<1>8. ASSUME Signal PROVE Kept
  <2>1. CASE watcher \in {"none", "born"}
    BY <1>8, <2>1, EndAtType DEF Signal, TypeOK, Ended
  <2>2. CASE watcher \notin {"none", "born"}
    BY <1>8, <2>2 DEF Signal, TypeOK
  <2> QED
    BY <2>1, <2>2
<1>9. ASSUME RedisFlips PROVE Kept
  BY <1>9, LifecycleAssumption DEF RedisFlips, TypeOK
<1>10. ASSUME NEW r \in Request, Arrive(r) PROVE Kept
  BY <1>10 DEF Arrive, TypeOK, Handling
<1>11. ASSUME NEW r \in Request, Handler(r) PROVE Kept
  BY <1>11 DEF Handler, Record, Borrow, Run, TypeOK, Handling
<1>12. ASSUME UNCHANGED vars PROVE Kept
  BY <1>12 DEF vars, TypeOK
<1> HIDE DEF Kept
<1>13. DialAgain \/ Kept
  BY <1>1, <1>2, <1>3, <1>4, <1>5, <1>6, <1>7, <1>8, <1>9, <1>10, <1>11, <1>12
  DEF Next, Main
<1> QED
  BY <1>13 DEF Kept

\* The type invariant, and startup waits what its backoff promises: the sleeps of
\* dialWithRetry double up to the cap and then stay there until the 64-bit delay
\* wraps (main.go:380-403).
THEOREM DialInductive == Spec => []DialInv
<1>1. Init => DialInv
  <2> SUFFICES ASSUME Init PROVE DialInv
    OBVIOUS
  <2>1. DialPatience
    BY 2^0 = 1 DEF Init, DialPatience
  <2>2. attempt \in 0..maxRetries /\ flips \in 0..MaxFlips /\ slept \in Nat
    BY LifecycleAssumption DEF Init
  <2>3. TypeOK
    BY <2>2 DEF Init, TypeOK
  <2> QED
    BY <2>1, <2>3 DEF DialInv
<1>2. DialInv /\ [Next]_vars => DialInv'
  <2> SUFFICES ASSUME DialInv, [Next]_vars PROVE DialInv'
    OBVIOUS
  <2>1. CASE DialAgain
    BY <2>1, DialAgainStep
  <2>2. CASE ~DialAgain
    <3>1. TypeOK' /\ (main' = "dial" => UNCHANGED <<main, startup>>)
      BY <2>2, OtherStep DEF DialInv
    <3> QED
      BY <3>1 DEF DialInv, DialPatience, startup
  <2> QED
    BY <2>1, <2>2
<1> QED
  BY <1>1, <1>2, PTL DEF Spec

\* The type invariant of the process.
THEOREM LifecycleTypeCorrect == Spec => []TypeOK
<1>1. DialInv => TypeOK
  BY DEF DialInv
<1> QED
  BY <1>1, DialInductive, PTL

\* However many attempts fail, startup has slept at least what the backoff says,
\* and at most 30 s for each (dialWithRetry, main.go:395-399).
THEOREM DialIsPatient == Spec => []DialPatience
<1>1. DialInv => DialPatience
  BY DEF DialInv
<1> QED
  BY <1>1, DialInductive, PTL

-----------------------------------------------------------------------------
LEMMA RecorderInit == Init => RecorderInv
  BY DEF Init, RecorderInv

LEMMA EndKeepsRecord ==
  ASSUME TypeOK, RecorderInv, NEW m \in Ended, EndAt(m), UNCHANGED <<recorder, recorded, executed>>
  PROVE  RecorderInv'
<1>1. main' \in Ended /\ \A r \in Request : req'[r] \notin Handling
  BY DEF EndAt, Handling
<1> QED
  BY <1>1 DEF RecorderInv, Ended, Handling

LEMMA RecorderStep == TypeOK /\ RecorderInv /\ [Next]_vars => RecorderInv'
<1> SUFFICES ASSUME TypeOK, RecorderInv, [Next]_vars PROVE RecorderInv'
  OBVIOUS
<1>1. ASSUME UNCHANGED <<recorder, req, recorded, executed>>,
             \/ main' = main
             \/ main \in {"dial", "ping", "open"} /\ main' \in {"dial", "ping", "open"}
             \/ main \in {"listen", "serve"} /\ main' \in {"serve", "closeRecorder"}
      PROVE  RecorderInv'
  BY <1>1 DEF RecorderInv
<1>2. ASSUME Fatal PROVE RecorderInv'
  BY <1>2, EndKeepsRecord DEF Fatal, serving, Ended
<1>3. ASSUME Dial \/ DialAgain \/ ServeReturns \/ ClosePool PROVE RecorderInv'
  BY <1>1, <1>3 DEF Dial, DialAgain, ServeReturns, ClosePool, serving, handled
<1>4. ASSUME NEW ok \in BOOLEAN, Ping(ok) PROVE RecorderInv'
  BY <1>1, <1>2, <1>4 DEF Ping, serving, handled
<1>5. ASSUME NEW ok \in BOOLEAN, Open(ok) PROVE RecorderInv'
  <2>1. CASE ok
    <3>1. /\ main = "open" /\ main' = "listen" /\ recorder' = "open"
          /\ UNCHANGED <<req, recorded, executed>>
      BY <1>5, <2>1 DEF Open, handled
    <3> QED
      BY <3>1 DEF RecorderInv
  <2>2. CASE ~ok
    BY <1>2, <1>5, <2>2 DEF Open
  <2> QED
    BY <2>1, <2>2
<1>6. ASSUME NEW ok \in BOOLEAN, Listen(ok) PROVE RecorderInv'
  BY <1>1, <1>2, <1>6 DEF Listen, handled
<1>7. ASSUME CloseRecorder PROVE RecorderInv'
  <2>1. main' = "closePool" /\ recorder' = "closed" /\ UNCHANGED <<req, recorded, executed>>
    BY <1>7 DEF CloseRecorder, handled
  <2> QED
    BY <2>1 DEF RecorderInv
<1>8. ASSUME Return PROVE RecorderInv'
  BY <1>8, EndKeepsRecord DEF Return, serving, Ended
<1>9. ASSUME Watcher \/ RedisFlips PROVE RecorderInv'
  BY <1>1, <1>9 DEF Watcher, Notify, Shutdown, Drained, RedisFlips, handled, serving
<1>10. ASSUME Signal PROVE RecorderInv'
  <2>1. CASE watcher \in {"none", "born"}
    BY <1>10, <2>1, EndKeepsRecord DEF Signal, Ended
  <2>2. CASE watcher \notin {"none", "born"}
    BY <1>1, <1>10, <2>2 DEF Signal
  <2> QED
    BY <2>1, <2>2
<1>11. ASSUME NEW r \in Request, Arrive(r) PROVE RecorderInv'
  <2>1. /\ main = "serve" /\ main' = main /\ req' = [req EXCEPT ![r] = "record"]
        /\ UNCHANGED <<recorder, recorded, executed>>
    BY <1>11 DEF Arrive, serving
  <2> QED
    BY <2>1 DEF RecorderInv, TypeOK
<1>12. ASSUME NEW r \in Request, Record(r) PROVE RecorderInv'
  <2>1. /\ req[r] = "record" /\ main' = main /\ req' = [req EXCEPT ![r] = "borrow"]
        /\ UNCHANGED <<recorder, executed>> /\ recorded \subseteq recorded'
        /\ recorder = "open" => r \in recorded'
    BY <1>12 DEF Record, Opened, serving
  <2>2. recorder \in {"open", "closed"}
    BY <2>1 DEF RecorderInv, TypeOK
  <2> QED
    BY <2>1, <2>2 DEF RecorderInv, TypeOK
<1>13. ASSUME NEW r \in Request, NEW ok \in BOOLEAN, Borrow(r, ok) PROVE RecorderInv'
  <2>1. /\ req[r] = "borrow" /\ main' = main /\ UNCHANGED <<recorder, recorded, executed>>
        /\ \E a \in {"run", "refused"} : req' = [req EXCEPT ![r] = a]
    BY <1>13 DEF Borrow, serving
  <2> QED
    BY <2>1 DEF RecorderInv, TypeOK
<1>14. ASSUME NEW r \in Request, Run(r) PROVE RecorderInv'
  <2>1. /\ req[r] = "run" /\ main' = main /\ UNCHANGED <<recorder, recorded>>
        /\ executed' \subseteq executed \cup {r}
        /\ \E a \in {"answered", "refused"} : req' = [req EXCEPT ![r] = a]
    BY <1>14 DEF Run, serving
  <2> QED
    BY <2>1 DEF RecorderInv, TypeOK
<1>15. ASSUME UNCHANGED vars PROVE RecorderInv'
  BY <1>1, <1>15 DEF vars, serving, handled
<1> QED
  BY <1>2, <1>3, <1>4, <1>5, <1>6, <1>7, <1>8, <1>9, <1>10, <1>11, <1>12, <1>13, <1>14, <1>15
  DEF Next, Main, Handler, DialGivesUp

\* What Redis ran is in the recorder's file as long as main has not closed it:
\* Record comes before the command, and the file is open whenever a request can
\* arrive (main.go:241, commands.go:30-52).
THEOREM ExecutedWasRecorded == Spec => []RecordedUntilClosed
<1>1. RecorderInv => RecordedUntilClosed
  BY DEF RecorderInv, RecordedUntilClosed
<1> QED
  BY <1>1, RecorderInit, RecorderStep, LifecycleTypeCorrect, PTL DEF Spec

-----------------------------------------------------------------------------
(* The register of MCLifecycle.  It always holds 10^9 * 2^attempt without  *)
(* its overflow, a number that TLC cannot compute; below 34 shifts nothing *)
(* is cut, and from 34 to 54 only the upper 21 bits are not 0.             *)

\* 10^9 * 2^r without its overflow.  No power above is beyond the provers.
Power(r)   == 2^r
Unit       == 8796093022208  \* 2^43
Product(r) ==
  IF r < 34 THEN 1000000000 * Power(r) ELSE IF r < 55 THEN OddPart * Power(r - 34) * Unit ELSE 0

\* The limbs of a natural number, those beyond the fourth dropped.
Limbs(n) ==
  LET q1 == n \div Base
      q2 == q1 \div Base
      q3 == q2 \div Base
  IN  [i \in 0..3 |->
         CASE i = 0 -> n % Base [] i = 1 -> q1 % Base [] i = 2 -> q2 % Base [] OTHER -> q3 % Base]

RegisterInv == attempt \in Nat /\ limb = Limbs(Product(attempt))

\* There is no induction over r: the powers are computed one by one.
LEMMA PowerTable ==
  /\ Power(0) = 1 /\ Power(1) = 2 /\ Power(2) = 4 /\ Power(3) = 8
  /\ Power(4) = 16 /\ Power(5) = 32 /\ Power(6) = 64 /\ Power(7) = 128
  /\ Power(8) = 256 /\ Power(9) = 512 /\ Power(10) = 1024 /\ Power(11) = 2048
  /\ Power(12) = 4096 /\ Power(13) = 8192 /\ Power(14) = 16384 /\ Power(15) = 32768
  /\ Power(16) = 65536 /\ Power(17) = 131072 /\ Power(18) = 262144 /\ Power(19) = 524288
  /\ Power(20) = 1048576 /\ Power(21) = 2097152 /\ Power(22) = 4194304 /\ Power(23) = 8388608
  /\ Power(24) = 16777216 /\ Power(25) = 33554432 /\ Power(26) = 67108864 /\ Power(27) = 134217728
  /\ Power(28) = 268435456 /\ Power(29) = 536870912 /\ Power(30) = 1073741824 /\ Power(31) = 2147483648
  /\ Power(32) = 4294967296 /\ Power(33) = 8589934592
  BY SMT DEF Power

LEMMA PowerDoubles ==
  ASSUME NEW r \in 0..32
  PROVE  Power(r) \in Nat /\ Power(r) >= 1 /\ Power(r + 1) = 2 * Power(r)
<1>1. CASE r \in 0..10
  BY <1>1, PowerTable, SMT
<1>2. CASE r \in 11..21
  BY <1>2, PowerTable, SMT
<1>3. CASE r \in 22..32
  BY <1>3, PowerTable, SMT
<1> QED
  BY <1>1, <1>2, <1>3

\* What is cut from 1953125 shifted by e + 34 is what 21 - e bits do not hold.
Meets(g, k) == g \in Nat /\ k \in Nat /\ g > 0 /\ k > 1 /\ g * k = 2097152

LEMMA PowersMeet == \A e \in 0..20 : Meets(Power(e), Power(21 - e))
<1>1. \A e \in 0..5 : Meets(Power(e), Power(21 - e))
  BY PowerTable, SMT DEF Meets
<1>2. \A e \in 6..10 : Meets(Power(e), Power(21 - e))
  BY PowerTable, SMT DEF Meets
<1>3. \A e \in 11..15 : Meets(Power(e), Power(21 - e))
  BY PowerTable, SMT DEF Meets
<1>4. \A e \in 16..20 : Meets(Power(e), Power(21 - e))
  BY PowerTable, SMT DEF Meets
<1> QED
  BY <1>1, <1>2, <1>3, <1>4

\* The carry of a limb is its top bit, whatever comes in from below.
LEMMA CarryOver ==
  \A q \in Nat, c \in {0, 1} :
    /\ (2 * q + c) \div 65536 = 2 * (q \div 65536) + (q % 65536) \div 32768
    /\ (2 * q + c) % 65536 = (2 * (q % 65536) + c) % 65536
    /\ (q % 65536) \div 32768 \in {0, 1} /\ q \div 65536 \in Nat
  BY SMT

\* The register's shift is a doubling.
LEMMA ShiftDoubles ==
  ASSUME NEW n \in Nat, limb = Limbs(n)
  PROVE  Shifted = Limbs(2 * n)
<1>1. PICK q1, q2, q3 : q1 = n \div 65536 /\ q2 = q1 \div 65536 /\ q3 = q2 \div 65536
  OBVIOUS
<1>2. q1 \in Nat /\ q2 \in Nat /\ q3 \in Nat
  BY <1>1, CarryOver
<1>3. PICK c1, c2, c3 : /\ c1 = (n % 65536) \div 32768 /\ c2 = (q1 % 65536) \div 32768
                        /\ c3 = (q2 % 65536) \div 32768
  OBVIOUS
<1>4. /\ limb[0] = n % 65536 /\ limb[1] = q1 % 65536 /\ limb[2] = q2 % 65536 /\ limb[3] = q3 % 65536
  BY <1>1 DEF Limbs, Base
<1>5. /\ (2 * n) \div 65536 = 2 * q1 + c1 /\ (2 * n) % 65536 = (2 * (n % 65536)) % 65536
      /\ (2 * q1 + c1) \div 65536 = 2 * q2 + c2 /\ (2 * q1 + c1) % 65536 = (2 * (q1 % 65536) + c1) % 65536
      /\ (2 * q2 + c2) \div 65536 = 2 * q3 + c3 /\ (2 * q2 + c2) % 65536 = (2 * (q2 % 65536) + c2) % 65536
      /\ (2 * q3 + c3) % 65536 = (2 * (q3 % 65536) + c3) % 65536
  <2>1. 2 * n + 0 = 2 * n /\ 2 * (n % 65536) + 0 = 2 * (n % 65536)
    OBVIOUS
  <2>2. c1 \in {0, 1} /\ c2 \in {0, 1} /\ c3 \in {0, 1}
    BY <1>2, <1>3, CarryOver
  <2> QED
    BY <1>1, <1>2, <1>3, <2>1, <2>2, CarryOver
<1>6. Shifted = [i \in 0..3 |-> CASE i = 0 -> (2 * (n % 65536)) % 65536
                                  [] i = 1 -> (2 * (q1 % 65536) + c1) % 65536
                                  [] i = 2 -> (2 * (q2 % 65536) + c2) % 65536
                                  [] OTHER -> (2 * (q3 % 65536) + c3) % 65536]
  <2>1. 65536 \div 2 = 32768
    BY SMT
  <2>2. Carry(0) = 0 /\ Carry(1) = c1 /\ Carry(2) = c2 /\ Carry(3) = c3
    BY <1>3, <1>4, <2>1 DEF Carry, Base
  <2>3. 2 * (n % 65536) + 0 = 2 * (n % 65536)
    OBVIOUS
  <2> QED
    BY <1>4, <2>2, <2>3 DEF Shifted, Base
<1>7. Limbs(2 * n) = [i \in 0..3 |-> CASE i = 0 -> (2 * n) % 65536 [] i = 1 -> (2 * q1 + c1) % 65536
                                      [] i = 2 -> (2 * q2 + c2) % 65536 [] OTHER -> (2 * q3 + c3) % 65536]
  BY <1>5 DEF Limbs, Base
<1> QED
  BY <1>5, <1>6, <1>7

\* The next product is twice this one, but for what 64 bits do not hold.
LEMMA ProductDoubles ==
  ASSUME NEW r \in Nat
  PROVE  Product(r) \in Nat /\ Limbs(2 * Product(r)) = Limbs(Product(r + 1))
<1>1. CASE r \in 0..32
  <2>1. Product(r) = 1000000000 * Power(r) /\ Product(r + 1) = 1000000000 * Power(r + 1)
    BY <1>1 DEF Product
  <2>2. 2 * Product(r) = Product(r + 1) /\ Product(r) \in Nat
    BY <1>1, <2>1, PowerDoubles
  <2> QED
    BY <2>2
<1>2. CASE r = 33
  <2>1. PICK p : p = Power(33) /\ Unit = 1024 * p /\ p \in Nat
    BY PowerTable DEF Unit
  <2>2. Product(33) = 1000000000 * p /\ Product(34) = 1953125 * 1 * (1024 * p)
    <3>1. Product(34) = OddPart * Power(0) * Unit
      BY DEF Product
    <3> QED
      BY <2>1, <3>1, PowerTable DEF Product, OddPart
  <2>3. r + 1 = 34
    BY <1>2
  <2>4. 2 * Product(33) = Product(34) /\ Product(33) \in Nat
    BY <2>1, <2>2
  <2> QED
    BY <1>2, <2>3, <2>4
<1>3. CASE r \in 34..53
  <2>1. /\ Product(r) = 1953125 * Power(r - 34) * 8796093022208
        /\ Product(r + 1) = 1953125 * Power((r - 34) + 1) * 8796093022208
    <3>1. (r + 1) - 34 = (r - 34) + 1 /\ ~(r < 34) /\ ~(r + 1 < 34) /\ r < 55 /\ r + 1 < 55
      BY <1>3
    <3> QED
      BY <3>1 DEF Product, OddPart, Unit
  <2>2. Power(r - 34) \in Nat /\ Power((r - 34) + 1) = 2 * Power(r - 34)
    BY <1>3, PowerDoubles
  <2>3. 2 * Product(r) = Product(r + 1) /\ Product(r) \in Nat
    BY <2>1, <2>2
  <2> QED
    BY <2>3
<1>4. CASE r = 54
  <2>1. PICK u, y : u = Unit /\ u = 8796093022208 /\ y = 65536 * (65536 * 1953125)
    BY DEF Unit
  <2>2. Product(54) = 1953125 * 1048576 * u /\ Product(55) = 0
    <3>1. Product(54) = OddPart * Power(20) * Unit /\ Product(55) = 0
      BY 54 - 34 = 20 DEF Product
    <3>2. OddPart = 1953125 /\ Power(20) = 1048576 /\ Unit = u
      BY <2>1, PowerTable DEF OddPart
    <3> QED
      BY <3>1, <3>2
  <2>3. /\ Product(54) \in Nat /\ 2 * Product(54) = 65536 * (65536 * y)
        /\ Limbs(2 * Product(54)) = Limbs(0)
    <3>1. 2 * Product(54) = 65536 * (65536 * y) /\ Product(54) \in Nat
      BY <2>1, <2>2
    <3> QED
      BY <2>1, <3>1 DEF Limbs, Base
  <2>4. r + 1 = 55
    BY <1>4
  <2> QED
    BY <1>4, <2>1, <2>2, <2>3, <2>4
<1>5. CASE r >= 55
  <2>1. Product(r) = 0 /\ Product(r + 1) = 0
    BY <1>5 DEF Product
  <2>2. 2 * 0 = 0
    OBVIOUS
  <2> QED
    BY <2>1, <2>2
<1> QED
  BY <1>1, <1>2, <1>3, <1>4, <1>5

IsLimb(x)  == x \in Nat /\ x < 65536
IsLimbs(a) == IsLimb(a[0]) /\ IsLimb(a[1]) /\ IsLimb(a[2]) /\ IsLimb(a[3])

Number(x0, x1, x2, x3) == x0 + 65536 * x1 + 4294967296 * x2 + 281474976710656 * x3

\* Limbs are compared as the numbers they stand for.
LEMMA BelowCompares ==
  ASSUME NEW a, NEW b, IsLimbs(a), IsLimbs(b)
  PROVE  Below(a, b) <=> Number(a[0], a[1], a[2], a[3]) < Number(b[0], b[1], b[2], b[3])
<1>1. Below(a, b) <=> \/ a[3] < b[3]
                      \/ a[3] = b[3] /\ a[2] < b[2]
                      \/ a[3] = b[3] /\ a[2] = b[2] /\ a[1] < b[1]
                      \/ a[3] = b[3] /\ a[2] = b[2] /\ a[1] = b[1] /\ a[0] < b[0]
  BY DEF Below
<1>2. /\ a[0] \in Nat /\ a[1] \in Nat /\ a[2] \in Nat /\ a[3] \in Nat
      /\ b[0] \in Nat /\ b[1] \in Nat /\ b[2] \in Nat /\ b[3] \in Nat
      /\ a[0] < 65536 /\ a[1] < 65536 /\ a[2] < 65536
      /\ b[0] < 65536 /\ b[1] < 65536 /\ b[2] < 65536
  BY DEF IsLimbs, IsLimb
<1>3. PICK x0 \in Nat, x1 \in Nat, x2 \in Nat, x3 \in Nat :
        x0 = a[0] /\ x1 = a[1] /\ x2 = a[2] /\ x3 = a[3]
  BY <1>2
<1>4. PICK y0 \in Nat, y1 \in Nat, y2 \in Nat, y3 \in Nat :
        y0 = b[0] /\ y1 = b[1] /\ y2 = b[2] /\ y3 = b[3]
  BY <1>2
<1>5. /\ Number(x0, x1, x2, x3) = Number(a[0], a[1], a[2], a[3])
      /\ Number(y0, y1, y2, y3) = Number(b[0], b[1], b[2], b[3])
  BY <1>3, <1>4
<1>6. x0 < 65536 /\ x1 < 65536 /\ x2 < 65536 /\ y0 < 65536 /\ y1 < 65536 /\ y2 < 65536
  BY <1>2, <1>3, <1>4
<1>7. Number(x0, x1, x2, x3) < Number(y0, y1, y2, y3) <=>
        \/ x3 < y3
        \/ x3 = y3 /\ x2 < y2
        \/ x3 = y3 /\ x2 = y2 /\ x1 < y1
        \/ x3 = y3 /\ x2 = y2 /\ x1 = y1 /\ x0 < y0
  BY <1>6, SMT DEF Number
<1> QED
  BY <1>1, <1>3, <1>4, <1>5, <1>7

\* Below 2^63 nothing is cut, and the sign bit is 0.
LEMMA LimbsAdd ==
  ASSUME NEW n \in Nat, n < 9223372036854775808, NEW l, l = Limbs(n)
  PROVE  /\ IsLimbs(l) /\ l[3] < 32768
         /\ Number(l[0], l[1], l[2], l[3]) = n
<1>1. PICK q1, q2, q3 : q1 = n \div 65536 /\ q2 = q1 \div 65536 /\ q3 = q2 \div 65536
  OBVIOUS
<1>2. l[0] = n % 65536 /\ l[1] = q1 % 65536 /\ l[2] = q2 % 65536 /\ l[3] = q3 % 65536
  BY <1>1 DEF Limbs, Base
<1>3. q1 \in Nat /\ q2 \in Nat /\ q3 \in Nat /\ q3 < 32768
  BY <1>1
<1>4. IsLimbs(l) /\ l[3] = q3
  BY <1>2, <1>3 DEF IsLimbs, IsLimb
<1>5. l[0] + 65536 * q1 = n /\ l[1] + 65536 * q2 = q1 /\ l[2] + 65536 * q3 = q2
  BY <1>1, <1>2, <1>3
<1>6. l[0] + 65536 * l[1] + 4294967296 * l[2] + 281474976710656 * l[3] = n
  <2>1. l[0] \in Nat /\ l[1] \in Nat /\ l[2] \in Nat /\ l[3] \in Nat
    BY <1>4 DEF IsLimbs, IsLimb
  <2> QED
    BY <1>3, <1>4, <1>5, <2>1
<1> QED
  BY <1>3, <1>4, <1>6 DEF Number

\* The limbs of the caps are those of 30 s and 60 s in nanoseconds.
LEMMA CapLimbs ==
  ASSUME NEW cap \in {30, 60}
  PROVE  LET c == CapNs(cap) IN
         /\ IsLimbs(c) /\ c[2] <= 13 /\ c[3] = 0
         /\ Number(c[0], c[1], c[2], c[3]) = 1000000000 * cap
  BY DEF CapNs, IsLimbs, IsLimb, Number

\* Up to 33 shifts the product fits, and the cap takes over at the sixth or seventh.
LEMMA SmallAgrees ==
  ASSUME NEW r \in 0..33, limb = Limbs(Product(r))
  PROVE  SignAgrees(r) /\ CapAgrees(r)
<1>1. PICK p, n : p = Power(r) /\ n = Product(r)
  OBVIOUS
<1>2. p \in Nat /\ p >= 1 /\ p <= 8589934592 /\ n = 1000000000 * p
  <2>1. CASE r \in 0..16
    BY <1>1, <2>1, PowerTable, SMT DEF Product
  <2>2. CASE r \in 17..33
    BY <1>1, <2>2, PowerTable, SMT DEF Product
  <2> QED
    BY <2>1, <2>2
<1>3. /\ IsLimbs(limb) /\ limb[3] < 32768
      /\ Number(limb[0], limb[1], limb[2], limb[3]) = 1000000000 * p
  BY <1>1, <1>2, LimbsAdd
<1>4. ~Negative
  <2>1. limb[3] \in Nat /\ 65536 \div 2 = 32768
    BY <1>3 DEF IsLimbs, IsLimb
  <2> QED
    BY <1>3, <2>1 DEF Negative, Base
<1>5. ~Zero
  BY <1>2, <1>3 DEF Zero, Number
<1>6. ASSUME NEW cap \in {30, 60}
      PROVE  CappedSeconds(r, cap) = IF Below(CapNs(cap), limb) THEN cap ELSE 2^r
  <2>1. Below(CapNs(cap), limb) <=> 1000000000 * cap < 1000000000 * p
    BY <1>3, CapLimbs, BelowCompares
  <2>2. (1000000000 * cap < 1000000000 * p <=> cap < p) /\ cap # p
    <3>1. r \in 0..16 => cap # p
      BY <1>1, PowerTable, SMT
    <3>2. r \in 17..33 => cap # p
      BY <1>1, PowerTable, SMT
    <3> QED
      BY <1>2, <3>1, <3>2
  <2>3. r >= 6 => p >= 64
    <3>1. r \in 6..16 => p >= 64
      BY <1>1, PowerTable, SMT
    <3>2. r \in 17..33 => p >= 64
      BY <1>1, PowerTable, SMT
    <3> QED
      BY <3>1, <3>2
  <2>4. 2^r = p
    BY <1>1 DEF Power
  <2>5. CappedSeconds(r, cap) = IF r < 6 /\ p <= cap THEN p ELSE cap
    BY <2>4 DEF CappedSeconds
  <2> QED
    BY <1>2, <2>1, <2>2, <2>3, <2>4, <2>5
<1> QED
  BY <1>4, <1>5, <1>6, FactorPositive DEF SignAgrees, CapAgrees

\* The upper limbs of a product that has outgrown the lower two.
LEMMA UpperLimbs ==
  ASSUME NEW u \in Nat, limb = Limbs(u * Unit)
  PROVE  /\ limb[0] = 0 /\ limb[1] = 0 /\ limb[2] \in Nat /\ limb[2] < 65536 /\ limb[3] \in Nat
         /\ limb[2] % 2048 = 0 /\ limb[3] * 32 + limb[2] \div 2048 = u % 2097152
<1>1. u * Unit = 65536 * (65536 * (2048 * u))
  BY DEF Unit
<1>2. /\ (u * Unit) \div 65536 = 65536 * (2048 * u) /\ (u * Unit) % 65536 = 0
      /\ (65536 * (2048 * u)) \div 65536 = 2048 * u /\ (65536 * (2048 * u)) % 65536 = 0
  BY <1>1
<1>3. /\ limb[0] = 0 /\ limb[1] = 0 /\ limb[2] = (2048 * u) % 65536
      /\ limb[3] = ((2048 * u) \div 65536) % 65536
  BY <1>2 DEF Limbs, Base
<1>4. (2048 * u) % 65536 = 2048 * (u % 32) /\ (2048 * u) \div 65536 = u \div 32
  OBVIOUS
<1>5. u \div 32 \in Nat /\ u % 32 \in 0..31 /\ (2048 * (u % 32)) \div 2048 = u % 32
      /\ (2048 * (u % 32)) % 2048 = 0 /\ (u \div 32) % 65536 \in Nat
  OBVIOUS
<1>6. 32 * ((u \div 32) % 65536) + (u % 32) = u % 2097152
  OBVIOUS
<1> QED
  BY <1>3, <1>4, <1>5, <1>6

LEMMA DivMod ==
  ASSUME NEW n \in Nat, NEW k \in Nat, k > 0
  PROVE  n % k \in Nat /\ n % k < k /\ \E q \in Nat : n = k * q + (n % k)
<1>1. n = k * (n \div k) + (n % k) /\ n % k \in Nat /\ n % k < k /\ n \div k \in Int
  BY SMT
<1>2. n \div k \in Nat
  BY <1>1, SMT
<1>3. \E q \in Nat : n = k * q + (n % k)
  <2>1. PICK q, m : q = n \div k /\ m = n % k
    OBVIOUS
  <2>2. q \in Nat /\ n = k * q + m
    BY <1>1, <1>2, <2>1
  <2> QED
    BY <2>1, <2>2
<1> QED
  BY <1>1, <1>3

\* A product of g * k = 2^21 with what k leaves of 1953125.
LEMMA FactorOfRemainder ==
  ASSUME NEW g, NEW k, Meets(g, k), NEW h \in Nat, k = 2 * h,
         NEW m, m = OddPart % k
  PROVE  /\ (OddPart * g) % 2097152 = g * m /\ m \in Nat /\ m < k
         /\ (m >= h <=> g * m >= 1048576) /\ (m = 0 <=> g * m = 0)
         /\ (m - k) * g = g * m - 2097152 /\ h >= 1
<1>1. g \in Nat /\ k \in Nat /\ g > 0 /\ k > 1 /\ g * k = 2097152 /\ OddPart \in Nat /\ h >= 1
  BY DEF Meets, OddPart
<1>2. PICK q \in Nat : OddPart = k * q + m
  <2>1. \E q \in Nat : OddPart = k * q + (OddPart % k)
    <3>1. OddPart \in Nat /\ k \in Nat /\ k > 0
      BY <1>1
    <3> QED
      BY <3>1, DivMod
  <2> QED
    BY <2>1
<1>3. m \in Nat /\ m < k
  BY <1>1, DivMod
<1>4. g * h = 1048576
  BY <1>1
<1>5. g * m \in Nat /\ g * m < g * k /\ (m >= h <=> g * m >= g * h) /\ (m = 0 <=> g * m = 0)
  BY <1>1, <1>3
<1>6. OddPart * g = 2097152 * q + g * m
  <2>1. (k * q + m) * g = (g * k) * q + g * m
    BY <1>1, <1>3
  <2> QED
    BY <1>1, <1>2, <2>1
<1>7. (OddPart * g) % 2097152 = g * m
  BY <1>1, <1>5, <1>6
<1>8. (m - k) * g = g * m - 2097152
  BY <1>1, <1>3
<1> QED
  BY <1>1, <1>3, <1>4, <1>5, <1>7, <1>8

\* From 34 shifts on the sign and the size are those of the remainder.
LEMMA LargeAgrees ==
  ASSUME NEW r \in 34..54, limb = Limbs(Product(r))
  PROVE  SignAgrees(r) /\ CapAgrees(r) /\ SizeAgrees(r)
<1>1. PICK g, k, h, m :
        g = Power(r - 34) /\ k = Power(55 - r) /\ h = Power(54 - r) /\ m = OddPart % k
  OBVIOUS
<1>2. Meets(g, k) /\ h \in Nat /\ k = 2 * h
  <2>1. r - 34 \in 0..20 /\ 21 - (r - 34) = 55 - r
    OBVIOUS
  <2>2. 54 - r \in 0..32 /\ (54 - r) + 1 = 55 - r
    OBVIOUS
  <2>3. Meets(g, k)
    BY <1>1, <2>1, PowersMeet
  <2>4. h \in Nat /\ k = 2 * h
    BY <1>1, <2>2, PowerDoubles
  <2> QED
    BY <2>3, <2>4
<1>3. /\ (OddPart * g) % 2097152 = g * m /\ m \in Nat /\ m < k
      /\ (m >= h <=> g * m >= 1048576) /\ (m = 0 <=> g * m = 0)
      /\ (m - k) * g = g * m - 2097152 /\ h >= 1
  BY <1>1, <1>2, FactorOfRemainder
<1>4. g \in Nat /\ k \in Nat
  BY <1>2 DEF Meets
<1>5. Factor(r) = IF m >= h THEN m - k ELSE m
  <2>1. ~(r >= 55) /\ ~(r < 25) /\ (55 - r) - 1 = 54 - r
    OBVIOUS
  <2>2. 2^(55 - r) = k /\ 2^(54 - r) = h
    BY <1>1 DEF Power
  <2>3. Factor(r) = Wrap(OddPart, 55 - r)
    BY <2>1 DEF Factor
  <2>4. Wrap(OddPart, 55 - r) = IF m >= h THEN m - k ELSE m
    BY <1>1, <2>1, <2>2 DEF Wrap
  <2> QED
    BY <2>3, <2>4
<1>6. PICK n : n = limb[3] * 32 + limb[2] \div 2048
  OBVIOUS
<1>7. /\ n = g * m /\ limb[0] = 0 /\ limb[1] = 0 /\ limb[2] \in Nat /\ limb[2] < 65536
      /\ limb[3] \in Nat /\ limb[2] % 2048 = 0
  <2>1. Product(r) = (OddPart * g) * Unit
    BY <1>1 DEF Product
  <2>2. OddPart * g \in Nat
    BY <1>4 DEF OddPart
  <2> QED
    BY <1>3, <1>6, <2>1, <2>2, UpperLimbs
<1>8. Negative <=> n >= 1048576
  BY <1>6, <1>7, 65536 \div 2 = 32768 DEF Negative, Base
<1>9. Zero <=> n = 0
  <2>1. Zero <=> limb[2] = 0 /\ limb[3] = 0
    BY <1>7 DEF Zero
  <2> QED
    BY <1>6, <1>7, <2>1
<1>10. Factor(r) < 0 <=> Negative
  BY <1>3, <1>4, <1>5, <1>7, <1>8
<1>11. Factor(r) = 0 <=> Zero
  BY <1>2, <1>3, <1>4, <1>5, <1>7, <1>9
<1>12. ASSUME Factor(r) > 0, NEW cap \in {30, 60}
       PROVE  CappedSeconds(r, cap) = IF Below(CapNs(cap), limb) THEN cap ELSE 2^r
  <2>1. n > 0
    BY <1>3, <1>4, <1>5, <1>7, <1>12
  <2>2. limb[3] > 0 \/ limb[2] >= 2048
    BY <1>6, <1>7, <2>1
  <2>3. CapNs(cap)[3] = 0 /\ CapNs(cap)[2] <= 13 /\ CapNs(cap)[2] \in Int
    BY CapLimbs DEF IsLimbs, IsLimb
  <2>4. Below(CapNs(cap), limb)
    <3>1. CASE limb[3] > 0
      BY <2>3, <3>1 DEF Below
    <3>2. CASE limb[3] = 0
      <4>1. CapNs(cap)[2] < limb[2] /\ \A j \in 2+1..3 : CapNs(cap)[j] = limb[j]
        BY <1>7, <2>2, <2>3, <3>2
      <4> QED
        BY <4>1 DEF Below
    <3> QED
      BY <1>7, <3>1, <3>2
  <2> QED
    BY <2>4 DEF CappedSeconds
<1>13. Factor(r) * 2^(r-34) = IF n >= 2^20 THEN n - 2^21 ELSE n
  <2>1. 2^(r - 34) = g
    BY <1>1 DEF Power
  <2>2. 2^20 = 1048576 /\ 2^21 = 2097152
    BY SMT
  <2>3. Factor(r) * g = IF n >= 1048576 THEN n - 2097152 ELSE n
    <3>1. CASE m >= h
      BY <1>3, <1>5, <1>7, <3>1
    <3>2. CASE ~(m >= h)
      BY <1>3, <1>4, <1>5, <1>7, <3>2
    <3> QED
      BY <3>1, <3>2
  <2> QED
    BY <2>1, <2>2, <2>3
<1> QED
  BY <1>6, <1>10, <1>11, <1>12, <1>13 DEF SignAgrees, CapAgrees, SizeAgrees

\* From 55 shifts on nothing is left.
LEMMA ZeroAgrees ==
  ASSUME NEW r \in Nat, r >= 55, limb = Limbs(Product(r))
  PROVE  SignAgrees(r) /\ CapAgrees(r)
<1>1. limb = Limbs(0)
  BY DEF Product
<1>2. limb[0] = 0 /\ limb[1] = 0 /\ limb[2] = 0 /\ limb[3] = 0
  BY <1>1 DEF Limbs, Base
<1> QED
  BY <1>2, 65536 \div 2 = 32768 DEF Factor, Zero, Negative, Base, SignAgrees, CapAgrees

LEMMA RegisterAgrees == RegisterInv => BackoffAgrees
<1> SUFFICES ASSUME RegisterInv PROVE BackoffAgrees
  OBVIOUS
<1>1. attempt \in Nat /\ limb = Limbs(Product(attempt))
  BY DEF RegisterInv
<1>2. CASE attempt \in 0..33
  BY <1>1, <1>2, SmallAgrees DEF BackoffAgrees
<1>3. CASE attempt \in 34..54
  BY <1>1, <1>3, LargeAgrees DEF BackoffAgrees
<1>4. CASE attempt >= 55
  BY <1>1, <1>4, ZeroAgrees DEF BackoffAgrees
<1> QED
  BY <1>1, <1>2, <1>3, <1>4

LEMMA ProductZero == Limbs(Product(0)) = Billion
<1>1. Product(0) = 1000000000
  BY PowerTable DEF Product
<1>2. Limbs(1000000000) = Billion
  BY DEF Limbs, Billion, Base
<1> QED
  BY <1>1, <1>2

LEMMA RegisterInit == MCInit => RegisterInv
<1> SUFFICES ASSUME MCInit PROVE RegisterInv
  OBVIOUS
<1>1. attempt = 0 /\ limb = Billion
  BY DEF MCInit, Init
<1> QED
  BY <1>1, ProductZero DEF RegisterInv

\* dialWithRetry counts up, and main resets what it no longer needs.
LEMMA AttemptStep == Next => attempt' \in {attempt, attempt + 1, 0}
  BY DEF Next, Main, Dial, DialAgain, DialGivesUp, Ping, Open, Listen, ServeReturns, CloseRecorder,
         ClosePool, Return, Watcher, Notify, Shutdown, Drained, Signal, RedisFlips, Arrive, Handler,
         Record, Borrow, Run, Fatal, EndAt, startup

LEMMA RegisterStep == RegisterInv /\ [MCNext]_<<vars, limb>> => RegisterInv'
<1> SUFFICES ASSUME RegisterInv, [MCNext]_<<vars, limb>> PROVE RegisterInv'
  OBVIOUS
<1>1. attempt \in Nat /\ limb = Limbs(Product(attempt))
  BY DEF RegisterInv
<1>2. CASE UNCHANGED <<vars, limb>>
  BY <1>1, <1>2 DEF vars, startup, RegisterInv
<1>3. CASE MCNext
  <2>1. attempt' \in {attempt, attempt + 1, 0}
    BY <1>3, AttemptStep DEF MCNext
  <2>2. CASE attempt' = attempt
    BY <1>1, <1>3, <2>2 DEF MCNext, RegisterInv
  <2>3. CASE attempt' # attempt /\ attempt' = 0
    <3>1. Limbs(Product(0)) = Billion
      BY ProductZero
    <3> QED
      BY <1>3, <2>3, <3>1 DEF MCNext, RegisterInv
  <2>4. CASE attempt' = attempt + 1
    <3>1. limb' = Shifted
      BY <1>1, <1>3, <2>4 DEF MCNext
    <3>2. Shifted = Limbs(Product(attempt + 1))
      BY <1>1, ShiftDoubles, ProductDoubles
    <3> QED
      BY <1>1, <2>4, <3>1, <3>2 DEF RegisterInv
  <2> QED
    BY <2>1, <2>2, <2>3, <2>4
<1> QED
  BY <1>2, <1>3

\* However often the dial fails, the register holds 10^9 * 2^attempt modulo 2^64:
\* time.Duration(retryDelayMs*(1<<uint(i)))*time.Millisecond (main.go:395).
THEOREM RegisterInductive == MCSpec => []RegisterInv
  BY RegisterInit, RegisterStep, PTL DEF MCSpec

\* Backoff is the processor's arithmetic at every attempt: its sign, where the cap
\* applies, and how far below 0 it gets (qstash.go:163-167, main.go:395-398).
THEOREM BackoffIsTheRegister == MCSpec => []BackoffAgrees
  BY RegisterInductive, RegisterAgrees, PTL
============================================================================
