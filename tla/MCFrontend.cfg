CONSTANTS
    b1 = b1
    b2 = b2
    i1 = i1
    i2 = i2
    Navegadores <- MCNavegadores
    Ids <- MCIds
    MaxPedidos = 2
SPECIFICATION Spec
INVARIANT TypeOK
PROPERTIES SesionPropia 
CHECK_DEADLOCK FALSE
