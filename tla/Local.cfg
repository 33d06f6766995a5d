\* The workspace lock, the DuckDB session and the desktop assistant.
SPECIFICATION LocalSpec
CONSTANTS
    Starts = {s1, s2, s3, s4}
    Nobody = Nobody
    Sites <- Advised
    PipeSize = 1
    MaxStatements = 3
    MaxLines = 2
    Requests = {r1, r2}
INVARIANTS
    MutualExclusion NobodyElseIsNamed SessionHears AssistantHolds
PROPERTIES
    LockFileStays LocalEnds
