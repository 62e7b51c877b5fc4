------------------------------ MODULE Servidor ------------------------------
(***************************************************************************)
(* The server of srv.c: Ricart and Agrawala's mutual exclusion among the   *)
(* servers, on behalf of one client each, and the count of clients alive   *)
(* that stops them.  One action per tag of the switch; a case that falls   *)
(* through to the next is one action with both bodies.                     *)
(***************************************************************************)
EXTENDS MPI, FiniteSets

VARIABLES
    spc,                \* "reparto" (rank 0 only), "sirviendo", "fin"
    hay_pedido_local,
    our_seq_nr,
    max_seq_nr,
    outstanding_reply,
    reply_deferred,     \* the servers whose reply is postponed
    clients_alive

servidorVars == <<spc, hay_pedido_local, our_seq_nr, max_seq_nr,
                  outstanding_reply, reply_deferred, clients_alive>>

ServidorTypeOK ==
    /\ spc \in [Servers -> {"reparto", "sirviendo", "fin"}]
    /\ hay_pedido_local \in [Servers -> BOOLEAN]
    /\ our_seq_nr \in [Servers -> Nat]
    /\ max_seq_nr \in [Servers -> Nat]
    /\ outstanding_reply \in [Servers -> 0..(N - 1)]
    /\ reply_deferred \in [Servers -> SUBSET Servers]
    /\ clients_alive \in [Servers -> 0..N]

(* outstanding_reply starts uninitialized; no handler reads it before it   *)
(* is assigned (see HandlersAsserts), so its first value is irrelevant.    *)
ServidorInit ==
    /\ spc = [s \in Servers |-> IF s = 0 THEN "reparto" ELSE "sirviendo"]
    /\ hay_pedido_local = [s \in Servers |-> FALSE]
    /\ our_seq_nr = [s \in Servers |-> 0]
    /\ max_seq_nr = [s \in Servers |-> 0]
    /\ outstanding_reply = [s \in Servers |-> 0]
    /\ reply_deferred = [s \in Servers |-> {}]
    /\ clients_alive = [s \in Servers |-> N]

mi_cliente(s) == s + 1
Otros(s) == Servers \ {s}

(* Rank 0 hands out the parameters with synchronous sends before it serves. *)
Repartir ==
    /\ spc[0] = "reparto" /\ ~ Blocked(0)
    /\ mpi' = Ssend(mpi, 0, Clients, Message("TAG_INICIAL", 0))
    /\ spc' = [spc EXCEPT ![0] = "sirviendo"]
    /\ UNCHANGED <<hay_pedido_local, our_seq_nr, max_seq_nr, outstanding_reply,
                   reply_deferred, clients_alive>>

(* s, in MPI_Recv, takes message m from origen. *)
Llega(s, origen, m) ==
    /\ spc[s] = "sirviendo" /\ ~ Blocked(s)
    /\ m \in Deliverable(origen, s)

(* State c after s gives its client permission, if no reply is missing. *)
Otorgar(c, s, faltan) ==
    IF faltan = 0 THEN Send(c, s, {mi_cliente(s)}, Message("TAG_OTORGADO", 0)) ELSE c

(* Mutant: the sequence number does not exceed those seen. *)
PedidoNumeroViejo(s, origen, m) ==
    /\ Llega(s, origen, m) /\ m.tag = "TAG_PEDIDO"
    /\ hay_pedido_local' = [hay_pedido_local EXCEPT ![s] = TRUE]
    /\ our_seq_nr' = [our_seq_nr EXCEPT ![s] = @ + 1]
    /\ outstanding_reply' = [outstanding_reply EXCEPT ![s] = N - 1]
    /\ mpi' = Otorgar(Send(Recv(origen, s), s, Otros(s), Message("SRV_REQ", our_seq_nr'[s])),
                      s, N - 1)
    /\ UNCHANGED <<spc, max_seq_nr, reply_deferred, clients_alive>>

(* TAG_PEDIDO, falling through to SRV_REPLY: N - 1 replies are missing. *)
Pedido(s, origen, m) ==
    /\ Llega(s, origen, m) /\ m.tag = "TAG_PEDIDO"
    /\ hay_pedido_local' = [hay_pedido_local EXCEPT ![s] = TRUE]
    /\ our_seq_nr' = [our_seq_nr EXCEPT ![s] = max_seq_nr[s] + 1]
    /\ outstanding_reply' = [outstanding_reply EXCEPT ![s] = N - 1]
    /\ mpi' = Otorgar(Send(Recv(origen, s), s, Otros(s), Message("SRV_REQ", our_seq_nr'[s])),
                      s, N - 1)
    /\ UNCHANGED <<spc, max_seq_nr, reply_deferred, clients_alive>>

(* Mutant: permission is given when one reply is still missing. *)
ReplyUnoMenos(s, origen, m) ==
    /\ Llega(s, origen, m) /\ m.tag = "SRV_REPLY"
    /\ outstanding_reply' = [outstanding_reply EXCEPT ![s] = @ - 1]
    /\ mpi' = Otorgar(Recv(origen, s), s, outstanding_reply'[s] - 1)
    /\ UNCHANGED <<spc, hay_pedido_local, our_seq_nr, max_seq_nr, reply_deferred,
                   clients_alive>>

Reply(s, origen, m) ==
    /\ Llega(s, origen, m) /\ m.tag = "SRV_REPLY"
    /\ outstanding_reply' = [outstanding_reply EXCEPT ![s] = @ - 1]
    /\ mpi' = Otorgar(Recv(origen, s), s, outstanding_reply'[s])
    /\ UNCHANGED <<spc, hay_pedido_local, our_seq_nr, max_seq_nr, reply_deferred,
                   clients_alive>>

(* Mutant: the postponed replies are sent but stay marked. *)
LiberoSinLimpiar(s, origen, m) ==
    /\ Llega(s, origen, m) /\ m.tag = "TAG_LIBERO"
    /\ hay_pedido_local' = [hay_pedido_local EXCEPT ![s] = FALSE]
    /\ mpi' = Send(Recv(origen, s), s, reply_deferred[s], Message("SRV_REPLY", 0))
    /\ UNCHANGED <<spc, our_seq_nr, max_seq_nr, outstanding_reply, reply_deferred,
                   clients_alive>>

(* Mutant: the postponed replies are forgotten. *)
LiberoSinResponder(s, origen, m) ==
    /\ Llega(s, origen, m) /\ m.tag = "TAG_LIBERO"
    /\ hay_pedido_local' = [hay_pedido_local EXCEPT ![s] = FALSE]
    /\ reply_deferred' = [reply_deferred EXCEPT ![s] = {}]
    /\ mpi' = Recv(origen, s)
    /\ UNCHANGED <<spc, our_seq_nr, max_seq_nr, outstanding_reply, clients_alive>>

Libero(s, origen, m) ==
    /\ Llega(s, origen, m) /\ m.tag = "TAG_LIBERO"
    /\ hay_pedido_local' = [hay_pedido_local EXCEPT ![s] = FALSE]
    /\ reply_deferred' = [reply_deferred EXCEPT ![s] = {}]
    /\ mpi' = Send(Recv(origen, s), s, reply_deferred[s], Message("SRV_REPLY", 0))
    /\ UNCHANGED <<spc, our_seq_nr, max_seq_nr, outstanding_reply, clients_alive>>

(* Mutant: ties between equal numbers are not broken by rank. *)
PrioridadSinDesempate(s, origen, k) ==
    hay_pedido_local[s] /\ k >= our_seq_nr[s]

(* Whether s's own request goes before the request of origen with number k. *)
Prioridad(s, origen, k) ==
    /\ hay_pedido_local[s]
    /\ k > our_seq_nr[s] \/ (k = our_seq_nr[s] /\ origen > s)

Req(s, origen, m) ==
    /\ Llega(s, origen, m) /\ m.tag = "SRV_REQ"
    /\ max_seq_nr' = [max_seq_nr EXCEPT ![s] = IF m.number > @ THEN m.number ELSE @]
    /\ \/ /\ Prioridad(s, origen, m.number)
          /\ reply_deferred' = [reply_deferred EXCEPT ![s] = @ \cup {origen}]
          /\ mpi' = Recv(origen, s)
       \/ /\ ~ Prioridad(s, origen, m.number)
          /\ mpi' = Send(Recv(origen, s), s, {origen}, Message("SRV_REPLY", 0))
          /\ UNCHANGED reply_deferred
    /\ UNCHANGED <<spc, hay_pedido_local, our_seq_nr, outstanding_reply, clients_alive>>

(* Mutant: the last client is not waited for. *)
UnoMenosTemprano(s) ==
    /\ clients_alive' = [clients_alive EXCEPT ![s] = @ - 1]
    /\ spc' = [spc EXCEPT ![s] = IF clients_alive'[s] <= 1 THEN "fin" ELSE @]
    /\ UNCHANGED <<hay_pedido_local, our_seq_nr, max_seq_nr, outstanding_reply,
                   reply_deferred>>

(* One client less; the server leaves its loop when none is alive. *)
UnoMenos(s) ==
    /\ clients_alive' = [clients_alive EXCEPT ![s] = @ - 1]
    /\ spc' = [spc EXCEPT ![s] = IF clients_alive'[s] = 0 THEN "fin" ELSE @]
    /\ UNCHANGED <<hay_pedido_local, our_seq_nr, max_seq_nr, outstanding_reply,
                   reply_deferred>>

(* TAG_TERMINE, falling through to SRV_FINISHED. *)
Termine(s, origen, m) ==
    /\ Llega(s, origen, m) /\ m.tag = "TAG_TERMINE"
    /\ mpi' = Send(Recv(origen, s), s, Otros(s), Message("SRV_FINISHED", 0))
    /\ UnoMenos(s)

Finished(s, origen, m) ==
    /\ Llega(s, origen, m) /\ m.tag = "SRV_FINISHED"
    /\ mpi' = Recv(origen, s)
    /\ UnoMenos(s)

ServidorNext(s) ==
    \/ s = 0 /\ Repartir
    \/ \E origen \in Ranks : \E m \in Deliverable(origen, s) :
          \/ Pedido(s, origen, m) \/ Reply(s, origen, m) \/ Libero(s, origen, m)
          \/ Req(s, origen, m) \/ Termine(s, origen, m) \/ Finished(s, origen, m)
=============================================================================
