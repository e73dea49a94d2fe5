CONSTANTS
  Points = {"a", "b"}
  Values = {"one", "two"}
  Scripts <- ManyScripts
  MaxFaults = 2
SPECIFICATION Spec
INVARIANTS
  TypeOK
  OneAnswerEach
  PreparedBehindBarrier
  RejectedLast
  SameAsSequential
PROPERTIES
  KeepsContract
