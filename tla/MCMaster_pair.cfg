SPECIFICATION Spec
CONSTANTS
  Addr <- MCAddr
  NodeId <- MCNodeId
  Names <- MCNames
  Hash <- MCHash
  NoAddr = NoAddr
  Twice = {2}
  Once = {4}
  Keys = {1, 3}
INVARIANTS TypeOK UpIsListed
