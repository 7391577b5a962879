----------------------------- MODULE Transaction -----------------------------
(***************************************************************************)
(* How Redis works off the commands that executeMultiExec (commands.go)    *)
(* sends in one go: MULTI, the request's script, EXEC.  The script goes    *)
(* out verbatim, so it may end the block itself and open another.          *)
(* Operators only, each for a sequence s of command classes.               *)
(***************************************************************************)
EXTENDS Integers, Sequences, FiniteSets

Enders    == {"exec", "discard", "reset"}
Control   == Enders \cup {"multi"}
Unqueued  == {"unknown", "resttoken"}

\* What takes effect when Redis runs it, and what it replies to without an error:
\* a script may write and then fail.
Effective == {"read", "write", "script", "auth", "multi", "reset"}
Succeeds  == Effective \ {"script"}

Sent(script) == <<"multi">> \o script \o <<"exec">>

\* Command i comes in an open block.
Inside(s, i) ==
  \E m \in 1..(i - 1) : s[m] = "multi" /\ \A k \in (m + 1)..(i - 1) : s[k] \notin Enders

\* What is in the queue when command e comes.
Queue(s, e) ==
  {i \in 1..(e - 1) : Inside(s, i) /\ s[i] # "multi" /\ \A k \in i..(e - 1) : s[k] \notin Enders}

\* A command that can't be queued makes EXEC refuse the whole block.
Committed(s) ==
  UNION {Queue(s, e) : e \in {e \in DOMAIN s : s[e] = "exec" /\ \A i \in Queue(s, e) : s[i] \notin Unqueued}}

\* The commands that take effect: at once outside a block, as is RESET, which
\* drops it; inside only when EXEC commits them.
TakesEffect(s) ==
  {i \in DOMAIN s : s[i] \in Effective /\ (Inside(s, i) => s[i] = "reset" \/ i \in Committed(s))}

\* Redis replies an error to one of them: Do("EXEC") returns the first one.
Complains(s) ==
  \E i \in DOMAIN s :
    \/ s[i] \in Unqueued
    \/ s[i] = "multi" /\ Inside(s, i)
    \/ s[i] \in {"exec", "discard", "fail", "script"} /\ ~Inside(s, i)

\* Without one, the results are those of the last block.
LastBlock(s) ==
  LET n == Cardinality(Queue(s, Len(s))) IN [k \in 1..n |-> s[Len(s) - 1 - n + k]]
=============================================================================
