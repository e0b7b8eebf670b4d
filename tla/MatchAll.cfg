SPECIFICATION FairSpec
CONSTANTS
    NumResumes = 2
    NumJds = 2
    MaxJobs = 2
    Concurrency = 2
    TopK = 2
    Scores = {1, 2}
INVARIANTS
    TypeOK
    RankingFaithful
PROPERTIES
    ImplementsProgress
    ParsedIsReported
CHECK_DEADLOCK FALSE
