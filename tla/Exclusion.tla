----------------------------- MODULE Exclusion -----------------------------
(***************************************************************************)
(* What tp3 promises its clients, without servers or messages: one client  *)
(* at a time is in its critical section, and only after asking for it.     *)
(***************************************************************************)
EXTENDS Naturals

CONSTANT Procesos

VARIABLE estado     \* of each client

Estados == {"fuera", "esperando", "critica", "fin"}

TypeOK == estado \in [Procesos -> Estados]

Init == estado = [p \in Procesos |-> "fuera"]

Pasa(p, de, a) == estado[p] = de /\ estado' = [estado EXCEPT ![p] = a]

Pedir(p)    == Pasa(p, "fuera", "esperando")
Entrar(p)   == /\ \A r \in Procesos : estado[r] # "critica"
               /\ Pasa(p, "esperando", "critica")
Salir(p)    == Pasa(p, "critica", "fuera")
Terminar(p) == Pasa(p, "fuera", "fin")

Next == \E p \in Procesos : Pedir(p) \/ Entrar(p) \/ Salir(p) \/ Terminar(p)

Spec == Init /\ [][Next]_estado
=============================================================================
