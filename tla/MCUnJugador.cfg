SPECIFICATION SafeSpec
CONSTANTS
    Players = {p1}
    alto = 2
    ancho = 3
    MaxComandos = 7
INVARIANTS TablerosDeAcuerdo SinDivisionPorCero
PROPERTY ImplementaMono
CHECK_DEADLOCK FALSE
