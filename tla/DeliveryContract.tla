-------------------------- MODULE DeliveryContract --------------------------
(***************************************************************************)
(* What the QStash emulator promises for one message, without the queue,   *)
(* the workers and the store: a published message waits, is claimed by one *)
(* worker, POSTed once per claim at most as often as it may be, and ends   *)
(* delivered or dead.  A claim may also stay open for ever: the code never *)
(* takes back what a worker that ended had claimed.                        *)
(***************************************************************************)
EXTENDS Integers

CONSTANT MsgId

VARIABLES
  wish,   \* what the publisher asks for: maxRetries, and a valid destination
  life,   \* where a message is
  tries   \* POSTs made

contractVars == <<wish, life, tries>>

Becomes(m, from, to) == life[m] = from /\ life' = [life EXCEPT ![m] = to]

Publish(m) == Becomes(m, "new", "waiting") /\ UNCHANGED tries
Claim(m)   == Becomes(m, "waiting", "claimed") /\ UNCHANGED tries

\* A POST, and whether it is acknowledged.
Attempt(m) ==
  /\ wish[m].valid /\ tries[m] <= wish[m].maxRetries
  /\ tries' = [tries EXCEPT ![m] = @ + 1]
  /\ Becomes(m, "claimed", "delivered") \/ Becomes(m, "claimed", "claimed")

Retry(m) ==
  /\ Becomes(m, "claimed", "waiting")
  /\ tries[m] \in 1..wish[m].maxRetries
  /\ UNCHANGED tries

Bury(m) ==
  /\ Becomes(m, "claimed", "dead")
  /\ ~wish[m].valid \/ tries[m] = wish[m].maxRetries + 1
  /\ UNCHANGED tries

Init == life = [m \in MsgId |-> "new"] /\ tries = [m \in MsgId |-> 0]

Next ==
  /\ \E m \in MsgId : Publish(m) \/ Claim(m) \/ Attempt(m) \/ Retry(m) \/ Bury(m)
  /\ UNCHANGED wish

Spec == Init /\ [][Next]_contractVars
=============================================================================
