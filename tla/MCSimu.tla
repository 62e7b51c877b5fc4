------------------------------- MODULE MCSimu -------------------------------
(* Three tasks that cover every type of task, arrivals out of order as in  *)
(* tp1/code/lote.tsk, and each scheduler with short quanta, 0 included.    *)
EXTENDS Simu

MCArchivos == {
    <<Linea(1, "TaskAlterno", <<2, 0, 1, 1>>), Arranque(4), Linea(1, "TaskCPU", <<2>>),
      Arranque(1), Linea(1, "TaskIO", <<1, 3>>)>>,
    <<Linea(2, "TaskBatch", <<4, 1>>), Linea(1, "TaskCPU", <<3>>)>>,
    <<Linea(1, "TaskCon", <<2, 1, 3>>), Linea(1, "TaskAlternoRand", <<3, 1, 3>>),
      Arranque(2), Linea(0, "TaskIO", <<3, 1>>)>>,
    <<Arranque(3), Linea(2, "TaskIO", <<1, 1>>), Arranque(0), Linea(1, "TaskIO", <<1, 2>>)>>,
    <<Linea(3, "TaskIO", <<1>>)>>}

Pedido(clase, argn) == [sched_class |-> clase, argn |-> argn]

MCPedidos == {
    Pedido("SchedFCFS", <<>>),
    Pedido("SchedRR", <<0>>), Pedido("SchedRR", <<1>>), Pedido("SchedRR", <<2>>),
    Pedido("SchedMFQ", <<1, 2>>), Pedido("SchedMFQ", <<2, 0>>), Pedido("SchedMFQ", <<1, 1, 1>>),
    Pedido("SchedLottery", <<1, 7>>), Pedido("SchedLottery", <<3, 7>>),
    Pedido("SchedLottery", <<0, 7>>), Pedido("SchedLottery", <<2>>)}

MCSwitchCosts == {0, 2}

=============================================================================
