\* A driven run with counts: the verdict on a sink is a count of its input.
SPECIFICATION Spec
CONSTANTS
    N = 4
    Plans <- CountedPlans
    MaxRuns = 1
INVARIANTS SettledRowsLanded
CHECK_DEADLOCK FALSE
