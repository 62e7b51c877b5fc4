---------------------------- MODULE SchedLottery ----------------------------
(* tp1/code/sched_lottery.cpp: the next task is drawn by lot.  A task has  *)
(* one ticket, or more if it blocked before its quantum was over.  sch is  *)
(* the object.                                                             *)
EXTENDS Integers, SequencesExt

CONSTANTS IDLE_TASK, ABORTO
VARIABLES sch, cur_pid

Ticket(pid, k) == [pid |-> pid, k |-> k]

SchedLottery(argn) ==
    [quantum |-> argn[1], contador |-> argn[1], tot_tickets |-> 0,
     tickets |-> <<>>, blocked_tasks |-> <<>>, ticket_actual |-> Ticket(0, 0)]

load(pid) == sch' = [sch EXCEPT !.tickets = Append(@, Ticket(pid, 1)), !.tot_tickets = @ + 1]

(* The first one of the blocked tasks that is pid, if there is one. *)
unblock(pid) ==
    LET i == SelectInSeq(sch.blocked_tasks, LAMBDA t : t.pid = pid) IN
    sch' = IF i = 0 THEN sch
           ELSE [sch EXCEPT !.tickets = Append(@, sch.blocked_tasks[i]),
                            !.blocked_tasks = RemoveAt(@, i),
                            !.tot_tickets = @ + sch.blocked_tasks[i].k]

(* The quantum over the part of it that was used, rounded up. *)
recompensa(usados) == IF usados > 0 THEN (sch.quantum + usados - 1) \div usados ELSE 1

(* The numbers that may come out of the draw, and whether g draws the i-th *)
(* task.                                                                   *)
Numeros(s) == IF s.tot_tickets > 1 THEN 0..(s.tot_tickets - 2) ELSE {0}

(* The partial sums of the tickets. *)
Suma(s, i) ==
    LET suma[j \in 0..Len(s.tickets)] == IF j = 0 THEN 0 ELSE suma[j - 1] + s.tickets[j].k
    IN  suma[i]

Gana(s, i, g) == Suma(s, i) >= g /\ \A j \in 1..(i - 1) : Suma(s, j) < g

(* The rest of tick, with object s: the winner keeps one ticket, and what  *)
(* the previous winner had is subtracted from the total.  A number that no *)
(* partial sum reaches ends the program: abort().                          *)
Sorteo(s, sig) ==
    \/ s.tickets = <<>> /\ sig = IDLE_TASK /\ sch' = s
    \/ \E g \in Numeros(s) : \E i \in DOMAIN s.tickets :
         /\ Gana(s, i, g)
         /\ sig = s.tickets[i].pid
         /\ sch' = [s EXCEPT !.tickets = RemoveAt(@, i), !.contador = s.quantum,
                             !.tot_tickets = @ - s.ticket_actual.k,
                             !.ticket_actual = Ticket(sig, 1)]
    \/ /\ s.tickets # <<>>
       /\ \E g \in Numeros(s) : \A i \in DOMAIN s.tickets : Suma(s, i) < g
       /\ sig = ABORTO /\ sch' = s

(* Mutant: the reward is not subtracted from the total when the next task  *)
(* is drawn.                                                               *)
BloqueadaSinDescuento ==
    LET premiado == [sch.ticket_actual EXCEPT !.k = recompensa(sch.quantum - (sch.contador - 1))]
    IN  [sch EXCEPT !.contador = @ - 1, !.blocked_tasks = Append(@, premiado)]

(* A blocked task takes its reward with it. *)
Bloqueada ==
    LET premiado == [sch.ticket_actual EXCEPT !.k = recompensa(sch.quantum - (sch.contador - 1))]
    IN  [sch EXCEPT !.contador = @ - 1, !.ticket_actual = premiado,
                    !.blocked_tasks = Append(@, premiado)]

Desalojada ==
    [sch EXCEPT !.tickets = Append(@, Ticket(cur_pid, 1)), !.tot_tickets = @ + 1]

tick(m, sig) ==
    \/ m = "EXIT" /\ Sorteo(sch, sig)
    \/ m = "BLOCK" /\ Sorteo(Bloqueada, sig)
    \/ m = "TICK" /\ sch.contador = 1 /\ cur_pid # IDLE_TASK /\ Sorteo(Desalojada, sig)
    \/ m = "TICK" /\ cur_pid = IDLE_TASK /\ sch.tickets # <<>> /\ Sorteo(sch, sig)
    \/ /\ m = "TICK"
       /\ IF cur_pid = IDLE_TASK THEN sch.tickets = <<>> ELSE sch.contador # 1
       /\ sig = cur_pid
       /\ sch' = [sch EXCEPT !.contador = @ - 1]

listas == [i \in DOMAIN sch.tickets |-> sch.tickets[i].pid]

=============================================================================
