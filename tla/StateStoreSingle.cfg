\* One writer at a time, as under the scheduler's lock: crashes, failed runs,
\* failed writes and rows arriving at any moment.
SPECIFICATION FairSpec
CONSTANTS
    Runs = {r1}
    Artifacts = {}
    Forgets = {}
    Marked = {m}
    Positioned = {k}
    NeedsSession = FALSE
    MaxRow = 2
INVARIANTS TypeOK NoRowLost NeverTorn SuccessIsRemembered
PROPERTIES MarksOnlyGrow CatchesUp
