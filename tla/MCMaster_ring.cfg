SPECIFICATION Spec
CONSTANTS
  Addr <- MCAddr
  NodeId <- MCNodeId
  Names <- MCNames
  Hash <- MCHash
  NoAddr = NoAddr
  Twice = {}
  Once = {1, 3, 5}
  Keys = {2, 3, 6}
INVARIANT NamesAtOwners
PROPERTY SplitsExactly
