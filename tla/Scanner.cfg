SPECIFICATION Spec
CONSTANTS
    None = None
    s1 = s1  s2 = s2  s3 = s3  u = u  g = g  h1 = h1  h2 = h2
    Scanners <- ThreeScanners
    Unknown <- NoScanner
    Groups <- OneGroup
    Registries <- SomeRegistries
    Requests <- SomeRequests
    Depth = 2
    StoreSize = 1
    BuildIndex <- TrieIndex
    SearchIndex <- TrieBuffer
    Buffers <- SomeBuffers
    Handlers <- BothHandlers
    Rules <- SomeRules
    Score <- SomeScores
    Initial <- SomeInitial
INVARIANTS DependenciesRanBefore EachRunsOnce OneFactory HitsExact BestTypeWins
