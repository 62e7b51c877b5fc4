SPECIFICATION Spec
CONSTANTS
    Players = {p1, p2}
    alto = 1
    ancho = 1
    MaxComandos = 3
PROPERTY NobodyWaitsForever
CHECK_DEADLOCK FALSE
