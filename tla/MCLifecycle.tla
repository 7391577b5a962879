---------------------------- MODULE MCLifecycle ----------------------------
(***************************************************************************)
(* Lifecycle for TLC, with the arithmetic the processor does beside it: a  *)
(* 64-bit register of four 16-bit limbs holds 10^9 and is shifted left at  *)
(* each failed dial, so that TLC compares Backoff with it at every shift   *)
(* from 0 to maxRetries.                                                   *)
(***************************************************************************)
EXTENDS Lifecycle

VARIABLE limb   \* limb[3] is the most significant

Base == 65536

\* 10^9, and the cap of c seconds in nanoseconds
Billion == [i \in 0..3 |-> CASE i = 0 -> 51712 [] i = 1 -> 15258 [] OTHER -> 0]
CapNs(c) ==
  [i \in 0..3 |-> CASE i = 0 -> IF c = 60 THEN 22528 ELSE 44032
                    [] i = 1 -> IF c = 60 THEN 63559 ELSE 64547
                    [] i = 2 -> IF c = 60 THEN 13 ELSE 6
                    [] OTHER -> 0]

Carry(i) == IF i = 0 THEN 0 ELSE limb[i - 1] \div (Base \div 2)
Shifted  == [i \in 0..3 |-> (2 * limb[i] + Carry(i)) % Base]

MCInit == Init /\ limb = Billion
MCNext ==
  /\ Next
  /\ limb' = IF attempt' = attempt THEN limb
             ELSE IF attempt' = 0 THEN Billion ELSE Shifted
MCSpec == MCInit /\ [][MCNext]_<<vars, limb>> /\ Fairness

Negative == limb[3] >= Base \div 2
Zero     == \A i \in 0..3 : limb[i] = 0

\* a < b as unsigned numbers
Below(a, b) ==
  \E i \in 0..3 : a[i] < b[i] /\ \A j \in i+1..3 : a[j] = b[j]

SignAgrees(r) == (Factor(r) < 0 <=> Negative) /\ (Factor(r) = 0 <=> Zero)

CapAgrees(r) ==
  Factor(r) > 0 => \A cap \in {30, 60} :
    CappedSeconds(r, cap) = IF Below(CapNs(cap), limb) THEN cap ELSE 2^r

SizeAgrees(r) ==
  Factor(r) * 2^(r-34) = LET n == limb[3] * 32 + limb[2] \div 2048
                         IN IF n >= 2^20 THEN n - 2^21 ELSE n

\* Both backoffs have the sign of the shifted register, a positive product is cut
\* to the cap exactly when the register exceeds it, and above 2^43 ns Factor is
\* the product in units of 2^(r-34) * 2^43 ns, which decides whether now plus the
\* backoff is before 1970 (qstash.go:163-167, main.go:395-398).
BackoffAgrees ==
  SignAgrees(attempt) /\ CapAgrees(attempt) /\ (attempt \in 34..54 => SizeAgrees(attempt))
=============================================================================
