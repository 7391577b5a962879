------------------------------ MODULE MCQStash ------------------------------
(***************************************************************************)
(* Instances of QStash for TLC.  The backoff is the one the code computes, *)
(* with a clock that reads 2026.                                           *)
(***************************************************************************)
EXTENDS QStash

Retry == INSTANCE Backoff WITH NowUnits <- 202369

\* At once, in a second, and with a score below 0.
MCDelays == {0, 1, NeverDue}

MCRetryWait == [r \in 1..RetryLimit |-> Retry!RetrySeconds(r)]
=============================================================================
