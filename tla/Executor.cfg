\* Two runs of a plan, driven without counts or one script with them, the
\* second over what the first left on disk, with kills anywhere.
SPECIFICATION FairSpec
CONSTANTS
    N = 4
    Plans <- SmallPlans
    MaxRuns = 2
INVARIANTS
    TypeOK SettledRowsLanded SkipsAreExplained LeavesNothing FreshRows
PROPERTIES
     RunsEnd
CHECK_DEADLOCK FALSE
