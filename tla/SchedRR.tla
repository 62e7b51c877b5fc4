------------------------------ MODULE SchedRR ------------------------------
(* tp1/code/sched_rr.cpp: round robin.  sch is the object.                 *)
EXTENDS Integers, Sequences

CONSTANT IDLE_TASK
VARIABLES sch, cur_pid

SchedRR(argn) == [quantum |-> argn[1], contador |-> argn[1], q |-> <<>>]

load(pid) == sch' = [sch EXCEPT !.q = Append(@, pid)]

unblock(pid) == sch' = [sch EXCEPT !.q = Append(@, pid)]

(* Mutant: the front is not taken out of the line. *)
SiguienteSinSacar(cola, sig) ==
    cola # <<>> /\ sig = Head(cola) /\ sch' = [sch EXCEPT !.q = cola, !.contador = sch.quantum]

(* The front of the line is next, with a whole quantum. *)
Siguiente(cola, sig) ==
    /\ cola # <<>>
    /\ sig = Head(cola)
    /\ sch' = [sch EXCEPT !.q = Tail(cola), !.contador = sch.quantum]

(* When the quantum is over the current task joins the line, IDLE_TASK too. *)
tick(m, sig) ==
    \/ m \in {"EXIT", "BLOCK"} /\ Siguiente(sch.q, sig)
    \/ m \in {"EXIT", "BLOCK"} /\ sch.q = <<>> /\ sig = IDLE_TASK /\ UNCHANGED sch
    \/ m = "TICK" /\ sch.contador = 1 /\ Siguiente(Append(sch.q, cur_pid), sig)
    \/ /\ m = "TICK" /\ sch.contador # 1
       /\ cur_pid = IDLE_TASK
       /\ Siguiente(sch.q, sig)
    \/ /\ m = "TICK" /\ sch.contador # 1
       /\ cur_pid # IDLE_TASK \/ sch.q = <<>>
       /\ sig = cur_pid
       /\ sch' = [sch EXCEPT !.contador = @ - 1]

listas == sch.q

=============================================================================
