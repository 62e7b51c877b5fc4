------------------------------ MODULE Cliente ------------------------------
(***************************************************************************)
(* The client of tp3.c: it receives its parameters from rank 0 and then    *)
(* asks its server for exclusive access, uses it and releases it a number  *)
(* of times, and says goodbye.  The client of server s has rank s + 1.     *)
(***************************************************************************)
EXTENDS MPI

CONSTANT Repartos   \* the iterations that the command line may give each client

ASSUME RepartosAssumption == Repartos \subseteq [Clients -> Nat]

VARIABLES
    cpc,     \* where each client is
    iters    \* the iterations each client has left, or will be given

clienteVars == <<cpc, iters>>

CPCs == {"inicio", "previo", "esperando", "critica", "terminando", "fin"}

ClienteTypeOK ==
    /\ cpc \in [Clients -> CPCs]
    /\ iters \in [Clients -> Nat]

ClienteInit ==
    /\ cpc = [c \in Clients |-> "inicio"]
    /\ iters \in Repartos

(* recibir_parametros *)
RecibirParametros(c) ==
    /\ cpc[c] = "inicio"
    /\ \E m \in Deliverable(0, c) : m.tag = "TAG_INICIAL"
    /\ mpi' = Recv(0, c)
    /\ cpc' = [cpc EXCEPT ![c] = "previo"]
    /\ UNCHANGED iters

(* Next iteration: ask for the mutex. *)
Pedir(c) ==
    /\ cpc[c] = "previo" /\ ~ Blocked(c)
    /\ iters[c] > 0
    /\ iters' = [iters EXCEPT ![c] = @ - 1]
    /\ mpi' = Send(mpi, c, {c - 1}, Message("TAG_PEDIDO", 0))
    /\ cpc' = [cpc EXCEPT ![c] = "esperando"]

(* Mutant: enter without waiting for the answer. *)
EntrarSinPermiso(c) ==
    /\ cpc[c] = "esperando" /\ ~ Blocked(c)
    /\ mpi' = IF Deliverable(c - 1, c) = {} THEN mpi ELSE Recv(c - 1, c)
    /\ cpc' = [cpc EXCEPT ![c] = "critica"]
    /\ UNCHANGED iters

Entrar(c) ==
    /\ cpc[c] = "esperando" /\ ~ Blocked(c)
    /\ \E m \in Deliverable(c - 1, c) : m.tag = "TAG_OTORGADO"
    /\ mpi' = Recv(c - 1, c)
    /\ cpc' = [cpc EXCEPT ![c] = "critica"]
    /\ UNCHANGED iters

Liberar(c) ==
    /\ cpc[c] = "critica"
    /\ mpi' = Send(mpi, c, {c - 1}, Message("TAG_LIBERO", 0))
    /\ cpc' = [cpc EXCEPT ![c] = "previo"]
    /\ UNCHANGED iters

(* No iterations left: say so with a synchronous send... *)
Terminar(c) ==
    /\ cpc[c] = "previo" /\ ~ Blocked(c)
    /\ iters[c] = 0
    /\ mpi' = Ssend(mpi, c, {c - 1}, Message("TAG_TERMINE", 0))
    /\ cpc' = [cpc EXCEPT ![c] = "terminando"]
    /\ UNCHANGED iters

(* ... and leave when the server has taken it. *)
Finalizar(c) ==
    /\ cpc[c] = "terminando" /\ ~ Blocked(c)
    /\ cpc' = [cpc EXCEPT ![c] = "fin"]
    /\ UNCHANGED <<iters, mpi>>

ClienteNext(c) ==
    \/ RecibirParametros(c) \/ Pedir(c) \/ Entrar(c) \/ Liberar(c)
    \/ Terminar(c) \/ Finalizar(c)
=============================================================================
