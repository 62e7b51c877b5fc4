-------------------------------- MODULE Simu --------------------------------
(***************************************************************************)
(* The scheduling simulator, tp1/code/simu.cpp: the loop of simulate, the  *)
(* threads of the tasks and the two mutexes through which they hand the    *)
(* turn to one another.  The scheduler is an object of the class chosen on *)
(* the command line (main.cpp), called as SchedBase says.                  *)
(***************************************************************************)
EXTENDS Tareas

CONSTANTS
    n,            \* the tasks of each lote
    Archivos,     \* the files of tasks
    Pedidos,      \* the schedulers asked for: class and arguments
    SwitchCosts,  \* the costs of a context switch
    IDLE_TASK,    \* current_pid() when nobody runs
    INDEFINIDO,   \* what a scheduler answers after undefined behaviour
    ABORTO        \* what it answers when it calls abort()

ASSUME NAssumption == n \in Nat
ASSUME PidAssumption ==
    /\ {IDLE_TASK, INDEFINIDO, ABORTO} \cap 0..(n - 1) = {}
    /\ IDLE_TASK \notin {INDEFINIDO, ABORTO} /\ INDEFINIDO # ABORTO

VARIABLES
    settings,        \* sched_class, argn and switch_cost
    sch,             \* the scheduler
    tsks,            \* pid -> running, blk, blkms and the uses it has left
    mutex, m_sched,  \* which mutexes are locked
    hilo,            \* pid -> where the thread of the task is
    pc,              \* where the thread of the simulator is
    cur_pid, cur_time, context_remain, finished,
    load, unblock    \* the heaps: <<time, pid>>

tiempos == <<cur_time, context_remain>>
hilos   == <<mutex, m_sched, hilo>>
vars == <<settings, sch, tsks, hilos, pc, cur_pid, tiempos, finished, load, unblock>>

Pids == 0..(n - 1)

Clases == {"SchedFCFS", "SchedRR", "SchedMFQ", "SchedLottery"}

(* MFQ without a queue would read and write out of an empty vector. *)
ASSUME PedidosAssumption ==
    \A p \in Pedidos : /\ p.sched_class \in Clases /\ p.argn \in Seq(Int)
                       /\ p.sched_class = "SchedMFQ" => p.argn # <<>>
ASSUME SwitchCostsAssumption == SwitchCosts \subseteq Nat

(* How the program ends before its time: simulate rejects an answer, the   *)
(* behaviour of MFQ is undefined, Lottery aborts.                          *)
Cortes == {"error", "indefinido", "abortado"}

TypeOK ==
    /\ settings.sched_class \in Clases /\ settings.switch_cost \in Nat
    /\ \A p \in Pids : /\ tsks[p].running \in {0, 1}
                       /\ tsks[p].blk \in {"ST_EXIT", "ST_IO", "ST_CPU"}
                       /\ tsks[p].blkms \in Nat \cup {-1, -2}
    /\ mutex \in [Pids -> BOOLEAN] /\ m_sched \in BOOLEAN
    /\ hilo \in [Pids -> {"espera", "corre", "suelta", "sale", "fin"}]
    /\ pc \in {"vuelta", "espera", "motivo", "fin"} \cup Cortes
    /\ cur_pid \in Pids \cup {IDLE_TASK}
    /\ cur_time \in Nat /\ context_remain \in Nat
    /\ finished = Cardinality({p \in Pids : tsks[p].blk = "ST_EXIT" /\ tsks[p].running = 0})
    /\ load \subseteq Nat \X Pids /\ unblock \subseteq Nat \X Pids

-----------------------------------------------------------------------------
(* The scheduler: sched_create, and the calls to the object it created.    *)

FCFS    == INSTANCE SchedFCFS
RR      == INSTANCE SchedRR
MFQ     == INSTANCE SchedMFQ
Lottery == INSTANCE SchedLottery

(* -1: any number of arguments. *)
Parametros == [SchedLottery |-> 2, SchedRR |-> 1, SchedFCFS |-> 0, SchedMFQ |-> -1]

(* The objects that may be created; other requests end the program.        *)
sched_create(p) ==
    IF Parametros[p.sched_class] \notin {-1, Len(p.argn)} THEN {}
    ELSE {CASE p.sched_class = "SchedFCFS"    -> FCFS!SchedFCFS(p.argn)
            [] p.sched_class = "SchedRR"      -> RR!SchedRR(p.argn)
            [] p.sched_class = "SchedMFQ"     -> MFQ!SchedMFQ(p.argn)
            [] p.sched_class = "SchedLottery" -> Lottery!SchedLottery(p.argn)}

sch_load(pid) == CASE settings.sched_class = "SchedFCFS"    -> FCFS!load(pid)
                   [] settings.sched_class = "SchedRR"      -> RR!load(pid)
                   [] settings.sched_class = "SchedMFQ"     -> MFQ!load(pid)
                   [] settings.sched_class = "SchedLottery" -> Lottery!load(pid)

sch_unblock(pid) == CASE settings.sched_class = "SchedFCFS"    -> FCFS!unblock(pid)
                      [] settings.sched_class = "SchedRR"      -> RR!unblock(pid)
                      [] settings.sched_class = "SchedMFQ"     -> MFQ!unblock(pid)
                      [] settings.sched_class = "SchedLottery" -> Lottery!unblock(pid)

sch_tick(m, sig) == CASE settings.sched_class = "SchedFCFS"    -> FCFS!tick(m, sig)
                      [] settings.sched_class = "SchedRR"      -> RR!tick(m, sig)
                      [] settings.sched_class = "SchedMFQ"     -> MFQ!tick(m, sig)
                      [] settings.sched_class = "SchedLottery" -> Lottery!tick(m, sig)

(* The pids in its queues, those that wait for the CPU, by their places. *)
listas == CASE settings.sched_class = "SchedFCFS"    -> FCFS!listas
            [] settings.sched_class = "SchedRR"      -> RR!listas
            [] settings.sched_class = "SchedMFQ"     -> MFQ!listas
            [] settings.sched_class = "SchedLottery" -> Lottery!listas

-----------------------------------------------------------------------------
(* main: the lotes of the files that can be read, and simulate up to its   *)
(* loop, when each thread waits for its own mutex.                         *)

Lotes == {tasks_load(f).ts : f \in {f \in Archivos : ~ tasks_load(f).exit}}

(* Nothing takes, or arrives at, a negative time. *)
ASSUME LotesAssumption ==
    \A lote \in Lotes : \A p \in Pids :
        /\ lote[p + 1].start \in Nat
        /\ \A u \in Usos(lote[p + 1]) : u \in Seq([blk : {"ST_CPU", "ST_IO"}, ms : Nat])

Init ==
    /\ \E p \in Pedidos, c \in SwitchCosts :
         /\ settings = [sched_class |-> p.sched_class, switch_cost |-> c]
         /\ sch \in sched_create(p)
    /\ \E lote \in Lotes :
         /\ tsks \in {[p \in Pids |-> [running |-> 0, blk |-> "ST_CPU", blkms |-> 0,
                                       usos |-> u[p]]] :
                         u \in {u \in [Pids -> UNION {Usos(lote[p + 1]) : p \in Pids}] :
                                   \A p \in Pids : u[p] \in Usos(lote[p + 1])}}
         /\ load = {<<lote[p + 1].start, p>> : p \in Pids}
    /\ mutex = [p \in Pids |-> TRUE]
    /\ m_sched = TRUE
    /\ hilo = [p \in Pids |-> "espera"]
    /\ pc = "vuelta"
    /\ cur_pid = IDLE_TASK
    /\ cur_time = 0 /\ context_remain = 0 /\ finished = 0
    /\ unblock = {}

-----------------------------------------------------------------------------
(* The threads of the tasks.                                               *)

(* pthread_mutex_lock on its own mutex, at the start and inside uso_X. *)
TomarTurno(p) ==
    /\ hilo[p] = "espera" /\ ~ mutex[p]
    /\ mutex' = [mutex EXCEPT ![p] = TRUE]
    /\ hilo' = [hilo EXCEPT ![p] = "corre"]
    /\ UNCHANGED <<settings, sch, tsks, m_sched, pc, cur_pid, tiempos, finished,
                   load, unblock>>

(* uso_X: the use is written in the data of the current task, whoever it   *)
(* is; the task that ends writes in its own.                               *)
Correr(p) ==
    /\ hilo[p] = "corre"
    /\ \/ /\ tsks[p].usos # <<>>
          /\ LET u == Head(tsks[p].usos) IN
             tsks' = [[tsks EXCEPT ![cur_pid].blk = u.blk, ![cur_pid].blkms = u.ms]
                         EXCEPT ![p].usos = Tail(@)]
          /\ hilo' = [hilo EXCEPT ![p] = "suelta"]
       \/ /\ tsks[p].usos = <<>>
          /\ tsks' = [tsks EXCEPT ![p].blk = "ST_EXIT"]
          /\ hilo' = [hilo EXCEPT ![p] = "sale"]
    /\ UNCHANGED <<settings, sch, mutex, m_sched, pc, cur_pid, tiempos, finished,
                   load, unblock>>

(* The simulator is let go on; inside uso_X the task waits again. *)
DarTurno(p) ==
    /\ hilo[p] \in {"suelta", "sale"}
    /\ m_sched' = FALSE
    /\ hilo' = [hilo EXCEPT ![p] = IF @ = "suelta" THEN "espera" ELSE "fin"]
    /\ UNCHANGED <<settings, sch, tsks, mutex, pc, cur_pid, tiempos, finished,
                   load, unblock>>

-----------------------------------------------------------------------------
(* The loop of simulate.                                                   *)

(* The top of a heap: the earliest, and of these the lowest pid. *)
Primero(h) == CHOOSE e \in h : \A f \in h : e[1] < f[1] \/ (e[1] = f[1] /\ e[2] <= f[2])

Vencida(h) == h # {} /\ Primero(h)[1] <= cur_time

EnLaVuelta == pc = "vuelta" /\ (finished < n \/ context_remain > 0)

Cargar ==
    /\ EnLaVuelta /\ Vencida(load)
    /\ LET pid == Primero(load)[2] IN
       /\ tsks' = [tsks EXCEPT ![pid].running = 1]
       /\ sch_load(pid)
    /\ load' = load \ {Primero(load)}
    /\ UNCHANGED <<settings, hilos, pc, cur_pid, tiempos, finished, unblock>>

(* A task that is still the current one is only marked: it leaves ST_IO at *)
(* its next tick.                                                          *)
Desbloquear ==
    /\ EnLaVuelta /\ ~ Vencida(load) /\ Vencida(unblock)
    /\ LET pid == Primero(unblock)[2] IN
       /\ tsks' = IF cur_pid = pid THEN [tsks EXCEPT ![pid].blkms = -2]
                  ELSE [tsks EXCEPT ![pid].blk = "ST_CPU", ![pid].blkms = 0]
       /\ sch_unblock(pid)
    /\ unblock' = unblock \ {Primero(unblock)}
    /\ UNCHANGED <<settings, hilos, pc, cur_pid, tiempos, finished, load>>

AlDia == EnLaVuelta /\ ~ Vencida(load) /\ ~ Vencida(unblock)

(* A tick of a context switch: nobody is asked. *)
Contexto ==
    /\ AlDia /\ context_remain > 0
    /\ context_remain' = context_remain - 1
    /\ cur_time' = cur_time + 1
    /\ UNCHANGED <<settings, sch, tsks, hilos, pc, cur_pid, finished, load, unblock>>

(* The answer of the scheduler is checked and becomes the current task.    *)
(* What is written as "still blocked" only compares with ST_EXIT.          *)
Rechazada(sig) ==
    sig # IDLE_TASK /\ (sig \notin Pids \/ tsks'[sig].running = 0 \/ tsks'[sig].blk = "ST_EXIT")

Despachar(sig) ==
    IF sig \in {INDEFINIDO, ABORTO} \/ Rechazada(sig)
    THEN /\ pc' = CASE sig = INDEFINIDO -> "indefinido"
                   [] sig = ABORTO     -> "abortado"
                   [] OTHER            -> "error"
         /\ UNCHANGED <<cur_pid, tiempos>>
    ELSE /\ pc' = "vuelta"
         /\ cur_pid' = sig
         /\ context_remain' = IF cur_pid # sig THEN settings.switch_cost ELSE 0
         /\ cur_time' = cur_time + 1

(* The scheduler is asked. *)
Preguntar(m) ==
    \E sig \in Pids \cup {IDLE_TASK, INDEFINIDO, ABORTO} : sch_tick(m, sig) /\ Despachar(sig)

TickOcioso ==
    /\ AlDia /\ context_remain = 0 /\ cur_pid = IDLE_TASK
    /\ UNCHANGED tsks
    /\ Preguntar("TICK")
    /\ UNCHANGED <<settings, hilos, finished, load, unblock>>

(* The current task has nothing left to use: its thread says what is next. *)
Agotada == tsks[cur_pid].blk = "ST_CPU" /\ tsks[cur_pid].blkms = 0

Reanudar ==
    /\ AlDia /\ context_remain = 0 /\ cur_pid # IDLE_TASK /\ Agotada
    /\ mutex' = [mutex EXCEPT ![cur_pid] = FALSE]
    /\ pc' = "espera"
    /\ UNCHANGED <<settings, sch, tsks, m_sched, hilo, cur_pid, tiempos, finished,
                   load, unblock>>

(* Mutant: it does not wait for the task. *)
RetomarSinEsperar ==
    /\ pc = "espera"
    /\ m_sched' = TRUE
    /\ pc' = "motivo"
    /\ UNCHANGED <<settings, sch, tsks, mutex, hilo, cur_pid, tiempos, finished,
                   load, unblock>>

Retomar ==
    /\ pc = "espera" /\ ~ m_sched
    /\ m_sched' = TRUE
    /\ pc' = "motivo"
    /\ UNCHANGED <<settings, sch, tsks, mutex, hilo, cur_pid, tiempos, finished,
                   load, unblock>>

EnMotivo(blk) ==
    /\ pc = "motivo" \/ (AlDia /\ context_remain = 0 /\ cur_pid # IDLE_TASK /\ ~ Agotada)
    /\ tsks[cur_pid].blk = blk

(* Mutant: the task that ended still counts as running. *)
TerminarSinBaja ==
    /\ EnMotivo("ST_EXIT")
    /\ finished' = finished + 1
    /\ UNCHANGED tsks
    /\ Preguntar("EXIT")
    /\ UNCHANGED <<settings, hilos, load, unblock>>

Terminar ==
    /\ EnMotivo("ST_EXIT")
    /\ finished' = finished + 1
    /\ tsks' = [tsks EXCEPT ![cur_pid].running = 0]
    /\ Preguntar("EXIT")
    /\ UNCHANGED <<settings, hilos, load, unblock>>

(* Mutant: the scheduler is told of a tick like any other. *)
BloquearComoTick ==
    /\ EnMotivo("ST_IO")
    /\ LET ms == tsks[cur_pid].blkms IN
       /\ unblock' = IF ms >= 0 THEN unblock \cup {<<cur_time + ms, cur_pid>>} ELSE unblock
       /\ tsks' = IF ms = -2 THEN [tsks EXCEPT ![cur_pid].blk = "ST_CPU", ![cur_pid].blkms = 0]
                  ELSE [tsks EXCEPT ![cur_pid].blkms = -1]
    /\ Preguntar("TICK")
    /\ UNCHANGED <<settings, hilos, finished, load>>

Bloquear ==
    /\ EnMotivo("ST_IO")
    /\ LET ms == tsks[cur_pid].blkms IN
       /\ unblock' = IF ms >= 0 THEN unblock \cup {<<cur_time + ms, cur_pid>>} ELSE unblock
       /\ tsks' = IF ms = -2 THEN [tsks EXCEPT ![cur_pid].blk = "ST_CPU", ![cur_pid].blkms = 0]
                  ELSE [tsks EXCEPT ![cur_pid].blkms = -1]
    /\ Preguntar("BLOCK")
    /\ UNCHANGED <<settings, hilos, finished, load>>

Gastar ==
    /\ EnMotivo("ST_CPU")
    /\ tsks' = [tsks EXCEPT ![cur_pid].blkms = IF @ > 0 THEN @ - 1 ELSE @]
    /\ Preguntar("TICK")
    /\ UNCHANGED <<settings, hilos, finished, load, unblock>>

Fin ==
    /\ pc = "vuelta" /\ finished = n /\ context_remain = 0
    /\ pc' = "fin"
    /\ UNCHANGED <<settings, sch, tsks, hilos, cur_pid, tiempos, finished, load, unblock>>

Vuelta == \/ Cargar \/ Desbloquear \/ Contexto \/ TickOcioso
          \/ Reanudar \/ Retomar \/ Terminar \/ Bloquear \/ Gastar \/ Fin

Tarea(p) == TomarTurno(p) \/ Correr(p) \/ DarTurno(p)

Acabada == pc \in {"fin"} \cup Cortes /\ UNCHANGED vars

Next == Vuelta \/ (\E p \in Pids : Tarea(p)) \/ Acabada

(* Each thread goes on when it can. *)
SafeSpec == Init /\ [][Next]_vars

Spec == SafeSpec /\ WF_vars(Vuelta) /\ \A p \in Pids : WF_vars(Tarea(p))

-----------------------------------------------------------------------------
(* What simulator and schedulers promise.                                  *)

(* The two mutexes make one thread run at a time: a task runs only while   *)
(* the simulator waits for it, and it is the current one, so that the data *)
(* it writes through cur_pid (uso_X) are its own.                          *)
TurnoUnico ==
    /\ \A p \in Pids : hilo[p] \in {"corre", "suelta", "sale"} => pc = "espera" /\ cur_pid = p
    /\ pc = "motivo" => hilo[cur_pid] \in {"espera", "fin"}

(* A task that arrived and has not ended is in exactly one place, once: it *)
(* is the current one, it is in a queue of the scheduler or it is in the   *)
(* heap of those that wait for an I/O (or it is both current and there,    *)
(* with FCFS).  A task that has not arrived or ended is nowhere.           *)
EnIO(p) == \E e \in unblock : e[2] = p

EnUnSoloLugar ==
    pc \notin Cortes =>
    \A p \in Pids :
        Cardinality({i \in DOMAIN listas : listas[i] = p})
          + (IF cur_pid = p THEN 1 ELSE 0)
          + (IF EnIO(p) /\ cur_pid # p THEN 1 ELSE 0) = tsks[p].running

(* With the schedulers in clases, the CPU is given to nobody only if no    *)
(* task is ready: "solo se ejecutará el proceso idle cuando ningún otro    *)
(* proceso pueda ejecutarse" (ej7 of the report, of RR).                   *)
SinOcio(clases) ==
    settings.sched_class \in clases /\ context_remain = 0
      /\ cur_time' # cur_time /\ cur_pid' = IDLE_TASK
      => \A i \in DOMAIN listas' : listas'[i] = IDLE_TASK

OcioJustificado   == [][SinOcio(Clases \ {"SchedRR"})]_vars
OcioJustificadoRR == [][SinOcio({"SchedRR"})]_vars

(* MFQ indexes by pid a vector that grows with each arrival: it reads and  *)
(* writes inside of it unless a task with a lower pid is yet to arrive.    *)
DentroDelVector == pc = "indefinido" => \E e \in load : e[2] < cur_pid

(* "La tarea que tenga el ticket que representa al número random elegido   *)
(* será la siguiente", of the numbers "entre 1 y la cantidad total de      *)
(* tickets" (ej5 of the report): when a draw is about to be held, each     *)
(* task that takes part has a number that may come out.                    *)
TodasPuedenGanar ==
    settings.sched_class = "SchedLottery" /\ AlDia /\ context_remain = 0 /\ cur_pid = IDLE_TASK =>
        \A i \in DOMAIN sch.tickets :
            \E g \in Lottery!Numeros(sch) : Lottery!Gana(sch, i, g)

(* "Hasta aca nunca deberia llegar", says Lottery of its abort(): the draw *)
(* finds a winner whatever the rewards won and lost meanwhile, unless the  *)
(* quantum is not positive, when a reward may have no ticket at all.       *)
SorteoConGanador == pc = "abortado" => sch.quantum <= 0

(* The life of each process, for the abstract specification. *)
EstadoDe(p) ==
    CASE cur_pid = p                            -> "ejecutando"
      [] cur_pid # p /\ tsks[p].blk = "ST_EXIT" -> "terminada"
      [] cur_pid # p /\ tsks[p].blk # "ST_EXIT" /\ tsks[p].running = 0 -> "nueva"
      [] OTHER -> IF EnIO(p) THEN "bloqueada" ELSE "lista"

Vida == INSTANCE Procesos WITH Tareas <- Pids, estado <- [p \in Pids |-> EstadoDe(p)]

(* Simulator and schedulers keep the life of the processes. *)
VidaDeProcesos == Vida!Spec

(* Every simulation ends with every task finished, unless MFQ left its     *)
(* vector (DentroDelVector) or Lottery drew no winner (SorteoConGanador).  *)
Termina == <>(pc \in {"indefinido", "abortado"} \/ (pc = "fin" /\ finished = n))

=============================================================================
