SPECIFICATION Spec
CONSTANTS
  MaxDepth = 2
  MaxChanges = 1
  Texts <- MCTexts
  VectorNames <- MCNames
  Upserts <- MCUpserts
  Schemas <- MCSchemas
  Queries <- MCQueries
INVARIANTS
  TypeOK
  EmbedsTheQuery
  SkipIsSafe
  KindsFit
  EachPointItsOwn
  UserVectorsKept
  TargetsFit
CHECK_DEADLOCK FALSE
