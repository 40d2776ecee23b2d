SPECIFICATION ProcessSpec
CONSTANTS
    Procs = {s1, s2}
    Missing = Missing
    Regular = Regular
    MaxSignals = 4
INVARIANT NobodyStranded
PROPERTY TwoSignalsEnd
