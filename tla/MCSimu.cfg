CONSTANTS
    n = 3
    Archivos <- MCArchivos
    Pedidos <- MCPedidos
    SwitchCosts <- MCSwitchCosts
    IDLE_TASK = IDLE_TASK
    INDEFINIDO = INDEFINIDO
    ABORTO = ABORTO
SPECIFICATION Spec
INVARIANTS TypeOK TurnoUnico EnUnSoloLugar DentroDelVector SorteoConGanador
PROPERTIES OcioJustificado VidaDeProcesos Termina
