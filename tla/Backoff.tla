------------------------------ MODULE Backoff ------------------------------
(***************************************************************************)
(* The exponential backoff both retry loops of the server compute:         *)
(*                                                                         *)
(*   qstash.go  backoff := time.Duration(1<<uint(msg.Retries))*time.Second *)
(*   main.go    time.Duration(retryDelayMs*(1<<uint(i)))*time.Millisecond  *)
(*                                                                         *)
(* Both are 2^r * 10^9 nanoseconds in a signed 64-bit integer (main.go     *)
(* with its default delay of 1000 ms), so they wrap.  10^9 = 2^9 * 1953125 *)
(* with 1953125 odd, hence modulo 2^64 the product is 2^(r+9) * Factor(r), *)
(* where Factor(r) is 1953125 wrapped to the 55-r bits that are left.  No  *)
(* number below exceeds 2^30, so that TLC can evaluate it.                 *)
(***************************************************************************)
EXTENDS Integers

CONSTANT NowUnits   \* time.Now() since 1970, in units of 2^43 ns (2.44 h)

ASSUME NowUnitsAssumption == NowUnits \in Nat

OddPart  == 1953125      \* 10^9 / 2^9
NeverDue == -1           \* a score below 0: ZRANGEBYSCORE key 0 now skips it

\* Two's complement: n as a signed integer of b bits.
Wrap(n, b) == LET low == n % 2^b IN IF low >= 2^(b-1) THEN low - 2^b ELSE low

(* Regressions: the product as a wider integer would have it, and no cap.  *)
FactorUnwrapped(r) == IF r >= 55 THEN 0 ELSE OddPart
CappedSecondsNever(r, cap) == IF r < 30 THEN 2^r ELSE cap

\* OddPart in the 64-9-r bits that the shift by r leaves of an int64.
Factor(r) ==
  IF r >= 55 THEN 0 ELSE IF r < 25 THEN OddPart ELSE Wrap(OddPart, 55 - r)

\* A positive product below the cap is 2^r seconds, and 2^r <= cap < 2^6.
CappedSeconds(r, cap) == IF r < 6 /\ 2^r <= cap THEN 2^r ELSE cap

\* The seconds from now to the score retry() gives the r-th retry.  A product
\* that wrapped to 0 or below escapes the cap: the score is in the past, and
\* below 0 when the product reaches back beyond 1970.
RetrySeconds(r) ==
  IF Factor(r) > 0 THEN CappedSeconds(r, 60)
  ELSE IF r >= 55 \/ NowUnits + Factor(r) * 2^(r-34) >= 0 THEN 0 ELSE NeverDue

\* The seconds dialWithRetry sleeps after its i-th attempt failed (i from 0):
\* time.Sleep returns at once for a duration that is not positive.
DialSleep(i) == IF Factor(i) > 0 THEN CappedSeconds(i, 30) ELSE 0

=============================================================================
