CONSTANTS
    Libraries <- MCLibraries
    Configs <- MCConfigs
    BatchSize = 3
    Embeddings <- MCEmbeddings
    Superseded = {2}
    Rankings <- MCRankings
    Matches <- MCMatches
    Relevance <- MCRelevance
    Scores = {3000, 6000}
    Outages <- MCOutages
    TopK = 3
    CandidateK = 5
    DenseWeight = 55
    SparseWeight = 45
    RRFK = 60
    MergeThreshold = 50
    RelevanceThreshold = 4500
    MaxContextChars = 12
SPECIFICATION Spec
INVARIANTS
    IndexSound
    BestFirst
    MergeEarned
    NotCrowdedOut
CHECK_DEADLOCK FALSE
