SPECIFICATION Spec
CONSTANTS
    a = a
    Procs = {p1, p2}
    Keys = {a}
    Foreign <- MCForeign
    Missing = Missing
    Torn = Torn
INVARIANTS TypeOK RenamesWhole EvidenceKept
PROPERTIES StoreSpec ShutdownLosesNothing SeedUntouched SignalStops
