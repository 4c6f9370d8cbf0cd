SPECIFICATION Spec
CONSTANTS
  a = a
  b = b
  x = x
  s1 = s1
  s2 = s2
  Sentences = {a, b, x}
  Tokens <- MCTokens
  TARGET_CHUNK_TOKENS = 2
  MAX_CHUNK_TOKENS = 3
  RRF_K = 60
  FINAL_TOP_N = 3
  HEADER_TOKENS = 1
  MIN_ROOM = 1
  MAX_CONTEXT_TOKENS = 5
  FileOrder <- OneFile
  Documents <- MCDocuments
  Syncs = {s1, s2}
  BATCH = 2
  Queries <- MCQueries
  DENSE_TOP_N = 2
  SPARSE_TOP_N = 2
  TopKs = {1, 2}
  NoRanking = NoRanking
  MaxRetries = 1
  MaxEdits = 1
  MaxFaults = 1
CHECK_DEADLOCK FALSE
SYMMETRY Symmetry
INVARIANTS
  TypeOK
  FilesAreWellChunked
  LossesAreBounded
  AnswerIsBestThatFits
