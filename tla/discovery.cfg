SPECIFICATION Spec
CONSTANTS
  Nodes <- N
  Root = "root"
  NoNode = "NoNode"
  Uris <- U
  CoreUri = "core"
  NoUri = ""
  Worlds <- AllWorlds
  PageSize = 1
  DefaultParents = 3
  MaxParents = 3
  MaxChildren = 12
  MaxFaults = 1
  TypeIds <- T
  StructureBase = "i=22"
  Words <- W
  NoType = "NoType"
  GenericParents = {"i=58", "i=61"}
  GenericVariable = "i=63"
  Builtin = {"i=10"}
  MaxDepth = 2
INVARIANT TypeOK
INVARIANT NothingMissed
INVARIANT LossIsCounted
INVARIANT HonestLimitsSuffice
INVARIANT WiresDistinct
INVARIANT ReadsReachNode
INVARIANT RelatedIsTheTree
INVARIANT ComponentsComplete
INVARIANT ObjectsResolve
PROPERTY DiscoveryEnds
PROPERTY ExplorationSpec
CHECK_DEADLOCK FALSE
