-------------------------------- MODULE Tp3 --------------------------------
(***************************************************************************)
(* The program of tp3: N servers and N clients over MPI.                   *)
(***************************************************************************)
EXTENDS Cliente, Servidor

vars == <<mpi, clienteVars, servidorVars>>

TypeOK == MPIState(mpi) /\ ClienteTypeOK /\ ServidorTypeOK

Init == MPIInit /\ ClienteInit /\ ServidorInit

(* Every process has left: MPI_Finalize. *)
Terminado ==
    /\ \A s \in Servers : spc[s] = "fin" /\ ~ Blocked(s)
    /\ \A c \in Clients : cpc[c] = "fin"
    /\ UNCHANGED vars

ClienteStep(c)  == ClienteNext(c) /\ UNCHANGED servidorVars
ServidorStep(s) == ServidorNext(s) /\ UNCHANGED clienteVars

Next ==
    \/ \E c \in Clients : ClienteStep(c)
    \/ \E s \in Servers : ServidorStep(s)
    \/ Terminado

SafeSpec == Init /\ [][Next]_vars

(* Every process that can run does: the critical section and the previous  *)
(* computation end, and MPI delivers.                                      *)
Fairness ==
    /\ \A c \in Clients : WF_vars(ClienteStep(c))
    /\ \A s \in Servers : WF_vars(ServidorStep(s))

Spec == SafeSpec /\ Fairness

-----------------------------------------------------------------------------
(* What the servers promise.                                               *)

(* The messages from p to r that were sent and not received. *)
EnVuelo(p, r) == Channel(mpi, p, r)

Hay(p, r, tag) == \E i \in DOMAIN EnVuelo(p, r) : EnVuelo(p, r)[i].tag = tag

(* The server holds the permission for its client: from the last reply to  *)
(* the moment it processes TAG_LIBERO.                                     *)
Tiene(s) == hay_pedido_local[s] /\ outstanding_reply[s] = 0

(* One server at a time holds the permission, and a client is inside its   *)
(* critical section only while its server holds it.                        *)
MutualExclusion ==
    /\ \A s, t \in Servers : Tiene(s) /\ Tiene(t) => s = t
    /\ \A s \in Servers : cpc[mi_cliente(s)] = "critica" => Tiene(s)

(* s waits for the answer of t: its request is on the way, t postpones the *)
(* reply, or the reply is on the way.                                      *)
Espera(s, t) ==
    \/ Hay(s, t, "SRV_REQ")
    \/ s \in reply_deferred[t]
    \/ Hay(t, s, "SRV_REPLY")

AlMasUno(p, r, tag) ==
    \A i, j \in DOMAIN EnVuelo(p, r) :
        EnVuelo(p, r)[i].tag = tag /\ EnVuelo(p, r)[j].tag = tag => i = j

(* No reply is lost or given twice: the replies a server still counts are  *)
(* exactly the servers that owe it one, each owes one only, and a server   *)
(* without a request is owed none.                                         *)
RepliesAccounted ==
    \A s \in Servers :
        /\ outstanding_reply[s] = Cardinality({t \in Otros(s) : Espera(s, t)})
        /\ \A t \in Otros(s) :
              /\ AlMasUno(s, t, "SRV_REQ") /\ AlMasUno(t, s, "SRV_REPLY")
              /\ Hay(s, t, "SRV_REQ") => ~ Hay(t, s, "SRV_REPLY")
              /\ s \in reply_deferred[t] =>
                    ~ Hay(s, t, "SRV_REQ") /\ ~ Hay(t, s, "SRV_REPLY")
        /\ ~ hay_pedido_local[s] => outstanding_reply[s] = 0

(* Permission is given in the order of the requests' numbers, ties by      *)
(* rank: whoever holds it goes before every other request.                 *)
GrantedInOrder ==
    \A s, t \in Servers :
        Tiene(s) /\ hay_pedido_local[t] /\ s # t =>
            \/ our_seq_nr[s] < our_seq_nr[t]
            \/ our_seq_nr[s] = our_seq_nr[t] /\ s < t

(* The assertions of the handlers, which the build compiles out, and the   *)
(* one they omit: whatever may arrive next has a case in the switch, comes *)
(* from whom the code takes it to come and finds the state the code takes  *)
(* for granted; SRV_REPLY finds outstanding_reply assigned and positive.   *)
HandlersAsserts ==
    \A s \in Servers : \A p \in Ranks : \A m \in Deliverable(p, s) :
        CASE m.tag = "TAG_PEDIDO"  -> p = mi_cliente(s) /\ ~ hay_pedido_local[s]
          [] m.tag = "TAG_LIBERO"  -> p = mi_cliente(s) /\ hay_pedido_local[s]
          [] m.tag = "TAG_TERMINE" -> p = mi_cliente(s) /\ ~ hay_pedido_local[s]
          [] m.tag = "SRV_REQ"     -> p \in Otros(s)
          [] m.tag = "SRV_REPLY"   -> p \in Otros(s) /\ outstanding_reply[s] > 0
          [] m.tag = "SRV_FINISHED" -> p \in Otros(s) /\ clients_alive[s] > 0
          [] OTHER -> FALSE

(* A server leaves only when nobody needs it: no message to it is on the   *)
(* way, it owes no reply, and every client has said goodbye.               *)
NobodyLeftWaiting ==
    \A s \in Servers : spc[s] = "fin" =>
        /\ \A p \in Ranks : EnVuelo(p, s) = <<>>
        /\ reply_deferred[s] = {}
        /\ \A c \in Clients : cpc[c] \in {"terminando", "fin"}

(* The copies MPI has to keep for MPI_Send not to wait: two messages       *)
(* between any two ranks.                                                  *)
TwoMessagesSuffice ==
    \A p, r \in Ranks : Len(mpi.net[p][r]) <= 2

(* The stopping criterion of the report: when no client is left all the    *)
(* servers stop, and so every process ends.  In particular every client    *)
(* gets the mutex each time it asks for it.                                *)
EveryProcessEnds ==
    <>(/\ \A s \in Servers : spc[s] = "fin" /\ ~ Blocked(s)
       /\ \A c \in Clients : cpc[c] = "fin")

-----------------------------------------------------------------------------
(* The clients see an Exclusion. *)

EstadoDe(donde) ==
    CASE donde \in {"inicio", "previo"} -> "fuera"
      [] donde \in {"terminando", "fin"} -> "fin"
      [] OTHER -> donde

Abstract == INSTANCE Exclusion WITH
    Procesos <- Clients,
    estado <- [c \in Clients |-> EstadoDe(cpc[c])]

(* Seen from the clients, every step of the program is one of the abstract *)
(* exclusion.                                                              *)
ImplementsExclusion == Abstract!Spec
=============================================================================
