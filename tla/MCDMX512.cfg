SPECIFICATION Spec
CONSTANTS
    m = m
    n = n
    Node = {m, n}
    Selection <- Selections
    Levels <- OneLevel
    MaxValue = 7
    DefaultLevel = 6
    MaxUpdates = 2
INVARIANTS TypeOK StopsOnFailure ChangesGoOut DisabledDark
PROPERTY FadesArrive
