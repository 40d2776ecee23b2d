SPECIFICATION Spec
CONSTANTS
    a = a
    Procs = {p1}
    Keys = {a}
    Foreign <- MCForeign
    Missing = Missing
    Torn = Torn
PROPERTIES EmptyAfterRejection
