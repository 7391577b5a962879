------------------------------- MODULE MCTool -------------------------------
(* Two keys of which GET can read one, and the commands of a short session, *)
(* with one text that is not UTF-8.                                         *)
EXTENDS Tool, TLC

CONSTANTS k1, k2

MCMarshalled == [t \in Text |-> IF t = "binary" THEN "replaced" ELSE t]
MCPath == [k \in Key |-> IF k = k1 THEN k1 ELSE "bad"]
MCTargets == {[k \in Key |-> Gone],
              [k \in Key |-> IF k = k1 THEN Gone ELSE Entry("list", {"x"}, NoTTL)]}
Symmetry == Permutations(Client)
MCCommand == {
  [op |-> "set", key |-> k1, text |-> "binary"], [op |-> "set", key |-> k2, text |-> "b"],
  [op |-> "hset", key |-> k1, text |-> "f"], [op |-> "hset", key |-> k2, text |-> "binary"],
  [op |-> "expire", key |-> k1, text |-> ""], [op |-> "del", key |-> k1, text |-> ""]}
MCSeeds == <<[op |-> "set", key |-> k1, text |-> "s"]>>
=============================================================================
