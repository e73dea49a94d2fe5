CONSTANTS
  Calls = {c1, c2, c3}
  Kinds = {"open", "create", "delete"}
  DropsAlone = FALSE
  MaxFaults = 0
SPECIFICATION Spec
INVARIANT
  NoGhost
