----------------------------- MODULE SchedFCFS -----------------------------
(* tp1/code/sched_fcfs.cpp: the task that is running goes on until it      *)
(* ends, blocked or not.  sch is the object.                               *)
EXTENDS Integers, Sequences

CONSTANT IDLE_TASK
VARIABLES sch, cur_pid

SchedFCFS(argn) == [q |-> <<>>]

load(pid) == sch' = [sch EXCEPT !.q = Append(@, pid)]

(* Mutant: the task joins the line. *)
unblockReencola(pid) == sch' = [sch EXCEPT !.q = Append(@, pid)]

(* The task is still the current one. *)
unblock(pid) == UNCHANGED sch

(* The front of the line is next. *)
Siguiente(sig) == /\ sch.q # <<>>
                  /\ sig = Head(sch.q)
                  /\ sch' = [sch EXCEPT !.q = Tail(@)]

tick(m, sig) ==
    \/ (m = "EXIT" \/ cur_pid = IDLE_TASK) /\ Siguiente(sig)
    \/ m = "EXIT" /\ sch.q = <<>> /\ sig = IDLE_TASK /\ UNCHANGED sch
    \/ /\ m # "EXIT" /\ (cur_pid # IDLE_TASK \/ sch.q = <<>>)
       /\ sig = cur_pid
       /\ UNCHANGED sch

listas == sch.q

=============================================================================
