CONSTANTS
  Plain <- MCPlain
  Chunks <- MCChunks
  PageCap = 14
  ProbeSizes = {5, 9}
  ProbeCap = 6
  MeasureMax = 7
  ChunkLen = 2
  Window = 3
  MaxSamples = 1
SPECIFICATION Spec
INVARIANTS SpliceWhole ToldRight
PROPERTY BothEnd
