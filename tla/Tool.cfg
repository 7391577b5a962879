SPECIFICATION Spec
CONSTANTS
  k1 = k1
  k2 = k2
  Key = {k1, k2}
  Client = {c1, c2}
  Command <- MCCommand
  Targets <- MCTargets
  Text = {"b", "f", "s", "x", "", "<nil>", "[...]", "binary", "replaced"}
  Marshalled <- MCMarshalled
  Gone = Gone
  None = None
  Path <- MCPath
  Seeds <- MCSeeds
  Faults = {"refused", "lost"}
  MaxCommands = 3
INVARIANTS TypeOK RoundTrip ReplayAgrees
SYMMETRY Symmetry
CHECK_DEADLOCK FALSE
