SPECIFICATION SafeSpec
CONSTANTS
    Players = {p1, p2}
    alto = 1
    ancho = 2
    MaxComandos = 2
INVARIANT OneOwnerPerCell
CHECK_DEADLOCK FALSE
