CONSTANTS
  Hosts = {h1, h2, h3}
  dense = "dense"
  sparse = "sparse"
  Models = {"dense", "sparse"}
  Configs <- SmallConfigs
  Ids = {1, 2}
SPECIFICATION FairSpec
INVARIANTS
  TypeOK
  OneLiveCopy
PROPERTIES
  ConstructionsReturn
