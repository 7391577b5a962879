----------------------------- MODULE RateLimiter -----------------------------
(***************************************************************************)
(* The quota and requests-per-second simulation of internal/ratelimit.go:  *)
(* Allow is called by one goroutine per request.  It has two critical      *)
(* sections, the counter of atomicInt64.Add and the window under mu, and   *)
(* other requests may run between them.  A limit of 0 switches its check   *)
(* off.  Time is counted in ticks, Second of them to a second.             *)
(***************************************************************************)
EXTENDS Integers, FiniteSetsExt

CONSTANTS
  Request,     \* goroutines that call Allow
  quotaLimit,  \* --simulate-quota
  rpsLimit,    \* --simulate-rps
  Second,      \* clock ticks in a second
  MaxTime,     \* bound: the last tick
  MaxRequests  \* bound: calls of Allow

ASSUME LimitsAssumption ==
  /\ IsFiniteSet(Request)
  /\ quotaLimit \in Nat /\ rpsLimit \in Nat
  /\ Second \in Nat \ {0} /\ MaxTime \in Nat /\ MaxRequests \in Nat

VARIABLES
  now,           \* the monotonic clock
  requestCount,  \* calls counted against the quota
  windowStart,   \* when the current window began
  windowCount,   \* calls in it, the rejected ones included
  pc,            \* where each goroutine is in Allow
  calls,         \* history: calls of Allow
  passed,        \* history: calls that passed the quota
  admitted,      \* history: calls allowed, by the tick they were allowed at
  overQuota      \* history: calls rejected by the quota

vars == <<now, requestCount, windowStart, windowCount, pc, calls, passed,
          admitted, overQuota>>

TypeOK ==
  /\ now \in 0..MaxTime
  /\ requestCount \in Nat
  /\ windowStart \in 0..now
  /\ windowCount \in Nat
  /\ pc \in [Request -> {"idle", "window"}]
  /\ calls \in 0..MaxRequests
  /\ passed \in Nat
  /\ admitted \in [0..MaxTime -> Nat]
  /\ overQuota \in Nat

-----------------------------------------------------------------------------
(* Regressions: helpers as a change to the code could leave them.          *)

IsOverQuotaLate(count) == count > quotaLimit + 1
ExpiredAtTick(t)       == t > windowStart
NextCountKept(fresh)   == windowCount + 1
NextCountDown(fresh)   == IF fresh THEN 1 ELSE windowCount - 1

-----------------------------------------------------------------------------
IsOverQuota(count) == count > quotaLimit

\* Allow, first check: requestCount.Add(1) and the comparison with its result.
CountQuota(r) ==
  /\ pc[r] = "idle" /\ calls < MaxRequests
  /\ calls' = calls + 1
  /\ requestCount' = IF quotaLimit > 0 THEN requestCount + 1 ELSE requestCount
  /\ IF quotaLimit > 0 /\ IsOverQuota(requestCount')
     THEN overQuota' = overQuota + 1 /\ UNCHANGED <<pc, passed>>
     ELSE /\ pc' = [pc EXCEPT ![r] = "window"]
          /\ passed' = passed + 1
          /\ UNCHANGED overQuota
  /\ UNCHANGED <<now, windowStart, windowCount, admitted>>

\* now.Sub(windowStart) >= time.Second
Expired(t) == t - windowStart >= Second

\* windowCount after the reset, if there is one, and the increment.
NextCount(fresh) == IF fresh THEN 1 ELSE windowCount + 1

\* Allow, second check: everything between mu.Lock and mu.Unlock.
CheckWindow(r) ==
  /\ pc[r] = "window"
  /\ pc' = [pc EXCEPT ![r] = "idle"]
  /\ IF rpsLimit > 0
     THEN /\ windowStart' = IF Expired(now) THEN now ELSE windowStart
          /\ windowCount' = NextCount(Expired(now))
     ELSE UNCHANGED <<windowStart, windowCount>>
  /\ admitted' = IF rpsLimit > 0 /\ windowCount' > rpsLimit THEN admitted
                 ELSE [admitted EXCEPT ![now] = @ + 1]
  /\ UNCHANGED <<now, requestCount, calls, passed, overQuota>>

Tick ==
  /\ now < MaxTime
  /\ now' = now + 1
  /\ UNCHANGED <<requestCount, windowStart, windowCount, pc, calls, passed,
                 admitted, overQuota>>

Init ==
  /\ now = 0 /\ windowStart = 0
  /\ requestCount = 0 /\ windowCount = 0
  /\ pc = [r \in Request |-> "idle"]
  /\ calls = 0 /\ passed = 0 /\ overQuota = 0
  /\ admitted = [t \in 0..MaxTime |-> 0]

Next == Tick \/ \E r \in Request : CountQuota(r) \/ CheckWindow(r)

Spec == Init /\ [][Next]_vars

-----------------------------------------------------------------------------
(* Properties                                                              *)

\* How many calls were allowed from tick t to tick u.
Admitted(t, u) ==
  MapThenSumSet(LAMBDA x : admitted[x], (t..u) \cap (0..MaxTime))

\* However the calls interleave, exactly quotaLimit of them pass the quota
\* before the first is rejected (Allow, ratelimit.go:50-55).
QuotaExact ==
  quotaLimit > 0 =>
    /\ passed <= quotaLimit
    /\ overQuota > 0 => passed = quotaLimit

\* At most rpsLimit calls are allowed in one window, and so at most twice as
\* many in a second that straddles two of them (ratelimit.go:57-70).
BurstBounded ==
  rpsLimit > 0 =>
    /\ Admitted(windowStart, now) <= rpsLimit
    /\ \A t \in 0..now : Admitted(t, t + Second - 1) <= 2 * rpsLimit

\* A call is rejected for its rate only if rpsLimit calls were allowed within
\* the last second (ratelimit.go:60-69).
RejectedWhenFull ==
  [][\A r \in Request :
       pc[r] = "window" /\ pc'[r] = "idle" /\ admitted' = admitted =>
         Admitted(now - Second + 1, now) >= rpsLimit]_vars
=============================================================================
