------------------------------- MODULE Tareas -------------------------------
(***************************************************************************)
(* The tasks of the scheduling simulator (tp1/code/tasks.cpp) and the file *)
(* that lists them (basetask.cpp).                                         *)
(*                                                                         *)
(* A task does nothing but use the CPU and block for some time, so it is   *)
(* the sequence of its uses.  The tasks that call rand() are the set of    *)
(* the sequences that they may turn out to be.                             *)
(***************************************************************************)
EXTENDS Integers, SequencesExt, FiniteSetsExt

CPU(ms) == [blk |-> "ST_CPU", ms |-> ms]
IO(ms)  == [blk |-> "ST_IO", ms |-> ms]

Alterna(t) == [i \in DOMAIN t |-> IF i % 2 = 1 THEN CPU(t[i]) ELSE IO(t[i])]

(* n times drawn as rand() % (bmax - bmin) + bmin: bmax never comes out,   *)
(* and with bmin = bmax there is nothing to draw from.                     *)
Tiempos(n, bmin, bmax) == [1..n -> bmin..(bmax - 1)]

TaskCPU(p)     == {<<CPU(p[1])>>}
TaskIO(p)      == {<<CPU(p[1]), IO(p[2])>>}
TaskAlterno(p) == {Alterna(p)}
TaskCon(p)     == {[i \in 1..p[1] |-> IO(t[i])] : t \in Tiempos(p[1], p[2], p[3])}
TaskAlternoRand(p) == {Alterna(t) : t \in Tiempos(p[1], p[2], p[3])}

(* One unit less than asked for: the end of the task takes the last one.   *)
TaskBatch(p) ==
    LET tot == p[1] - 1
    IN  {[i \in 1..tot |-> IF i \in bloqueos THEN IO(1) ELSE CPU(1)] :
            bloqueos \in kSubset(p[2], 1..tot)}

(* register_task: the parameters that each type takes, -1 for any number. *)
tasks_init ==
    [TaskCPU |-> 1, TaskIO |-> 2, TaskAlterno |-> -1, TaskCon |-> 3,
     TaskBatch |-> 2, TaskAlternoRand |-> 3]

(* uso_X returns at once when there is no time to use. *)
SinNulos(usos) == SelectSeq(usos, LAMBDA u : u.ms # 0)

(* What task t of a lote may turn out to do. *)
Usos(t) == {SinNulos(u) : u \in
    CASE t.tsk = "TaskCPU"         -> TaskCPU(t.prms)
      [] t.tsk = "TaskIO"          -> TaskIO(t.prms)
      [] t.tsk = "TaskAlterno"     -> TaskAlterno(t.prms)
      [] t.tsk = "TaskCon"         -> TaskCon(t.prms)
      [] t.tsk = "TaskBatch"       -> TaskBatch(t.prms)
      [] t.tsk = "TaskAlternoRand" -> TaskAlternoRand(t.prms)}

-----------------------------------------------------------------------------
(* A file is a sequence of lines: "@ start", the time at which the tasks   *)
(* that follow arrive, in any order; or a task, "*times" or once.          *)

Arranque(start) == [start |-> start]
Linea(times, nom, params) == [times |-> times, nom |-> nom, params |-> params]

Valida(l) == /\ l.nom \in DOMAIN tasks_init
             /\ tasks_init[l.nom] \in {-1, Len(l.params)}

Leer(leido, l) ==
    IF "start" \in DOMAIN l THEN [leido EXCEPT !.starttm = l.start]
    ELSE IF ~ Valida(l) THEN [leido EXCEPT !.exit = TRUE]
    ELSE [leido EXCEPT !.ts = @ \o
            [j \in 1..(IF l.times <= 0 THEN 1 ELSE l.times) |->
                [tsk |-> l.nom, prms |-> l.params, start |-> leido.starttm]]]

(* The lote, and whether a wrong line made the program exit. *)
tasks_load(f) == FoldLeft(Leer, [ts |-> <<>>, starttm |-> 0, exit |-> FALSE], f)

=============================================================================
