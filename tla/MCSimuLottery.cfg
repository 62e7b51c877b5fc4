CONSTANTS
    n = 3
    Archivos <- MCArchivos
    Pedidos <- MCPedidos
    SwitchCosts <- MCSwitchCosts
    IDLE_TASK = IDLE_TASK
    INDEFINIDO = INDEFINIDO
    ABORTO = ABORTO
SPECIFICATION SafeSpec
INVARIANT TodasPuedenGanar
