CONSTANTS
  a = a
  b = b
  Order <- MCOrder
  Lengths = {3, 8}
  ChunkSize = 4
  MaxSize = 11
  Zero = Zero
SPECIFICATION Spec
INVARIANT FirstChunkExact
