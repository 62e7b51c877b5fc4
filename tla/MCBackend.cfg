SPECIFICATION SafeSpec
CONSTANTS
    Players = {p1, p2}
    alto = 2
    ancho = 3
    MaxComandos = 5
INVARIANTS
    TypeOK
    UpdateSeesWholeWords
    CellsLocked
    NoLockLeftBehind
    NoCircularWait
    WordHasNoGaps
SYMMETRY Symmetry
CHECK_DEADLOCK FALSE
