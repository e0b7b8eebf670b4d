SPECIFICATION Spec
CONSTANTS
    Names = {"", "unnamed.txt", "resume_0", "resume_1"}
    Positional <- MCPositional
    JdUploads <- MCJdUploads
    LongLines = 5
    ShortLines = 2
    MaxJdFiles = 2
    MaxChunks = 3
    MaxListed = 3
    MaxResumeFiles = 2
    MaxResumes = 2
    MaxJobs = 4
    MaxPairs = 7
    DefaultConcurrency = 2
    Requested <- MCRequested
INVARIANTS
    TypeOK
    SplitPartitions
    MatchGateSound
CHECK_DEADLOCK FALSE
