------------------------------ MODULE Procesos ------------------------------
(***************************************************************************)
(* What simulator and scheduler promise together, whatever the scheduler:  *)
(* the life of a process.  One task at most is running; a task that is     *)
(* ready or blocked is never forgotten, and only a ready one is put to     *)
(* run.                                                                    *)
(***************************************************************************)
CONSTANT Tareas

VARIABLE estado

Estados == {"nueva", "lista", "ejecutando", "bloqueada", "terminada"}

Ejecutando == {t \in Tareas : estado[t] = "ejecutando"}

(* What becomes of the task that leaves the CPU. *)
Salida == {"lista", "bloqueada", "terminada"}

Init == estado = [t \in Tareas |-> "nueva"]

Llegar(t) == /\ estado[t] = "nueva"
             /\ estado' = [estado EXCEPT ![t] = "lista"]

Desbloquear(t) == /\ estado[t] = "bloqueada"
                  /\ estado' = [estado EXCEPT ![t] = "lista"]

(* t gets the CPU, and the task that had it leaves it. *)
Elegir(t) == /\ estado[t] = "lista"
             /\ \E s \in Salida :
                   estado' = [u \in Tareas |-> IF u = t THEN "ejecutando"
                                               ELSE IF u \in Ejecutando THEN s
                                               ELSE estado[u]]

(* The CPU is left idle. *)
Dejar == /\ Ejecutando # {}
         /\ \E s \in Salida :
               estado' = [u \in Tareas |-> IF u \in Ejecutando THEN s ELSE estado[u]]

Next == \/ \E t \in Tareas : Llegar(t) \/ Desbloquear(t) \/ Elegir(t)
        \/ Dejar

Spec == Init /\ [][Next]_estado

=============================================================================
