----------------------------- MODULE MCAdmission -----------------------------
(* Requests that run no command, one, or two in a pipeline.                *)
EXTENDS Admission, TLC

CONSTANTS GET, SET

MCScript == {<<>>, <<GET>>, <<GET, SET>>}
Symmetry == Permutations(Request)
=============================================================================
