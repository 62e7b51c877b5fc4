------------------------------ MODULE SchedMFQ ------------------------------
(* tp1/code/sched_mfq.cpp: a queue for each quantum of argn, the first one *)
(* not empty goes first.  A task that uses up its quantum goes down a      *)
(* queue and one that blocks goes up.  sch is the object; its queues are   *)
(* numbered from 0, as there.                                              *)
EXTENDS Integers, SequencesExt, FiniteSetsExt

CONSTANTS IDLE_TASK, INDEFINIDO
VARIABLES sch, cur_pid

SchedMFQ(argn) ==
    [def_quantum |-> argn, vq |-> [i \in 0..(Len(argn) - 1) |-> <<>>],
     unblock_to |-> <<>>, quantum |-> 0, cur_pri |-> -1]

(* n in the code. *)
colas == Len(sch.def_quantum)

(* Mutant: only the task that arrives at an empty queue gets its place. *)
loadSinCrecer(pid) ==
    sch' = [sch EXCEPT !.vq[0] = Append(@, pid),
                       !.unblock_to = IF sch.vq[0] = <<>> THEN Append(@, -1) ELSE @]

(* unblock_to grows with each arrival: it has the queues of the pids in    *)
(* 0..(arrivals - 1), whoever arrived.                                     *)
load(pid) == sch' = [sch EXCEPT !.vq[0] = Append(@, pid), !.unblock_to = Append(@, -1)]

EnRango(pid) == pid + 1 \in DOMAIN sch.unblock_to

unblock(pid) == sch' = [sch EXCEPT !.vq[sch.unblock_to[pid + 1]] = Append(@, pid)]

(* Mutant: an idle CPU is given a quantum too. *)
nextOciosoConQuantum(s, sig) ==
    LET llenas == {i \in DOMAIN s.vq : s.vq[i] # <<>>} IN
    IF llenas = {}
    THEN sig = IDLE_TASK /\ sch' = [s EXCEPT !.quantum = 2, !.cur_pri = colas]
    ELSE LET pri == Min(llenas) IN
         /\ sig = Head(s.vq[pri])
         /\ sch' = [s EXCEPT !.vq[pri] = Tail(@), !.cur_pri = pri,
                             !.quantum = s.def_quantum[pri + 1] - 1]

(* The first task of the first queue that has one, out of object s; cur_pri *)
(* is colas when there is none.                                            *)
next(s, sig) ==
    LET llenas == {i \in DOMAIN s.vq : s.vq[i] # <<>>} IN
    \/ /\ llenas = {}
       /\ sig = IDLE_TASK
       /\ sch' = [s EXCEPT !.quantum = 0, !.cur_pri = colas]
    \/ /\ llenas # {}
       /\ LET pri == Min(llenas) IN
          /\ sig = Head(s.vq[pri])
          /\ sch' = [s EXCEPT !.vq[pri] = Tail(@), !.cur_pri = pri,
                              !.quantum = s.def_quantum[pri + 1] - 1]

Sube == IF sch.cur_pri > 0 THEN sch.cur_pri - 1 ELSE sch.cur_pri
Baja == IF sch.cur_pri < colas - 1 THEN sch.cur_pri + 1 ELSE sch.cur_pri

(* A quantum that is negative counts as one that is left. *)
tick(m, sig) ==
    \/ m = "EXIT" /\ next(sch, sig)
    \/ /\ m = "BLOCK" /\ EnRango(cur_pid)
       /\ next([sch EXCEPT !.cur_pri = Sube, !.unblock_to[cur_pid + 1] = Sube], sig)
    \/ m = "BLOCK" /\ ~ EnRango(cur_pid) /\ sig = INDEFINIDO /\ UNCHANGED sch
    \/ /\ m = "TICK" /\ sch.quantum # 0
       /\ sig = cur_pid
       /\ sch' = [sch EXCEPT !.quantum = @ - 1]
    \/ m = "TICK" /\ sch.quantum = 0 /\ cur_pid = IDLE_TASK /\ next(sch, sig)
    \/ /\ m = "TICK" /\ sch.quantum = 0 /\ cur_pid # IDLE_TASK
       /\ next([sch EXCEPT !.cur_pri = Baja, !.vq[Baja] = Append(@, cur_pid)], sig)

(* The pid in each place of each queue. *)
listas == [l \in UNION {{i} \X DOMAIN sch.vq[i] : i \in DOMAIN sch.vq} |-> sch.vq[l[1]][l[2]]]

=============================================================================
