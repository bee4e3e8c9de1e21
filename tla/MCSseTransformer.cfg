SPECIFICATION Spec
CONSTANTS
  MaxEventBytes = 4
  MaxChunk = 3
  MaxStream = 6
INVARIANTS ChunkingInvisible CleanEndIsComplete BufferBounded
CHECK_DEADLOCK FALSE
