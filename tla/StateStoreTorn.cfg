\* Two runs of one pipeline at the same moment, which nothing forbids.
SPECIFICATION Spec
CONSTANTS
    Runs = {r1, r2}
    Artifacts = {}
    Forgets = {}
    Marked = {m}
    Positioned = {}
    NeedsSession = FALSE
    MaxRow = 1
SYMMETRY Symmetry
INVARIANT NeverTorn
