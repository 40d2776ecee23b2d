SPECIFICATION ProcessSpec
CONSTANTS
    Procs = {s1, s2}
    Missing = Missing
    Regular = Regular
    MaxSignals = 1
INVARIANT NeverDisplaced
