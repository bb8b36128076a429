SPECIFICATION Spec
CONSTANTS
  N = 1
  System = 1
  Clients = {c1, c2, c3}
  c1 = c1
  c2 = c2
  c3 = c3
  MayExit = TRUE
  Prompt = FALSE
SYMMETRY Symmetric
INVARIANTS NoLeftoverHint NoMissedStatus
