--------------------------- MODULE CasilleroLocks ---------------------------
(***************************************************************************)
(* The read-write locks of the boards' cells, as values that the steps of  *)
(* the game server transform.  A lock behaves as FairRWLock says, which    *)
(* RWLock implements.                                                      *)
(***************************************************************************)
EXTENDS Sequences, FiniteSets

CONSTANT Players

(* A lock: who reads, who writes, and who waits, oldest first. *)
Libre == [readers |-> {}, writers |-> {}, line |-> <<>>]

IsLock(l) ==
    /\ l.readers \subseteq Players
    /\ l.writers \subseteq Players
    /\ l.line \in Seq([who : Players, mode : {"R", "W"}])

(* Mutant: a writer only looks at writers. *)
CompatibleSinLectores(l, mode) == l.writers = {}

Compatible(l, mode) == l.writers = {} /\ (mode = "W" => l.readers = {})

Espera(l, p) == \E i \in DOMAIN l.line : l.line[i].who = p

Holds(l, p) == p \in l.readers \cup l.writers

(* p, who does not wait, can have the lock at once. *)
Entra(l, p, mode) == ~ Espera(l, p) /\ l.line = <<>> /\ Compatible(l, mode)

(* p has reached the head of the line and can have the lock. *)
Turno(l, p) == l.line # <<>> /\ Head(l.line).who = p /\ Compatible(l, Head(l.line).mode)

(* p must wait: the lock once it has joined the line. *)
Encolado(l, p, mode) == [l EXCEPT !.line = Append(@, [who |-> p, mode |-> mode])]

(* The locks that p's request can leave when it is granted, p not yet      *)
(* counted: none while p must wait.                                        *)
Concedido(l, p, mode) ==
    (IF Entra(l, p, mode) THEN {l} ELSE {}) \cup
    (IF Turno(l, p) THEN {[l EXCEPT !.line = Tail(@)]} ELSE {})

Tomado(l, p, mode) ==
    IF mode = "R" THEN [l EXCEPT !.readers = @ \cup {p}]
                  ELSE [l EXCEPT !.writers = @ \cup {p}]

Soltado(l, p) == [l EXCEPT !.readers = @ \ {p}, !.writers = @ \ {p}]
=============================================================================
