-------------------------------- MODULE MPI --------------------------------
(***************************************************************************)
(* The part of MPI that tp3 uses: point-to-point messages between ranks,   *)
(* which do not overtake one another between the same two ranks.           *)
(*                                                                         *)
(* MPI_Send may return as soon as the message is copied, or only once the  *)
(* receiver takes it; the standard leaves that to the implementation.      *)
(* Buffered chooses one of the two for a whole run: with TRUE, MPI_Send    *)
(* puts the message on its channel and returns; with FALSE, the process    *)
(* stays in MPI_Send until the receiver takes the message.  MPI_Ssend      *)
(* always waits.                                                           *)
(***************************************************************************)
EXTENDS Integers, Sequences

CONSTANTS
    N,         \* pairs of a server and a client: n/2 in the code
    Buffered   \* whether MPI_Send copies the message

ASSUME NAssumption == N \in Nat \ {0}
ASSUME BufferedAssumption == Buffered \in BOOLEAN

VARIABLE
    mpi        \* net: messages in flight per pair of ranks, oldest first;
               \* pending: what each rank's sends in progress have still to hand over

Ranks    == 0..(2 * N - 1)
Servers  == {r \in Ranks : r % 2 = 0}
Clients  == {r \in Ranks : r % 2 = 1}

Tags == {"TAG_INICIAL", "TAG_PEDIDO", "TAG_OTORGADO", "TAG_LIBERO", "TAG_TERMINE",
         "SRV_REQ", "SRV_REPLY", "SRV_FINISHED"}

(* A message without a number carries 0. *)
Message(tag, number) == [tag |-> tag, number |-> number]
Messages == [tag : Tags, number : Nat]

(* pending[p] is a function from the ranks that p's sends in progress have *)
(* not been taken by yet to the message for each.                          *)
Nothing == [r \in {} |-> Message("", 0)]

(* c is a state of the communications. *)
MPIState(c) ==
    /\ c \in [net     : [Ranks -> [Ranks -> Seq(Messages)]],
              pending : [Ranks -> {c.pending[p] : p \in Ranks}]]
    /\ \A p \in Ranks : \A r \in DOMAIN c.pending[p] :
          r \in Ranks /\ c.pending[p][r] \in Messages

MPIInit == mpi = [net     |-> [p \in Ranks |-> [r \in Ranks |-> <<>>]],
                  pending |-> [p \in Ranks |-> Nothing]]

(* A process inside MPI_Send or MPI_Ssend does nothing else. *)
Blocked(p) == DOMAIN mpi.pending[p] # {}

(* The messages from p to r that were sent and not received, in state c. *)
Channel(c, p, r) ==
    IF r \in DOMAIN c.pending[p] THEN Append(c.net[p][r], c.pending[p][r])
                                 ELSE c.net[p][r]

(* The messages q could receive from p now: at most one.  Sends in         *)
(* progress go in ascending order of the receivers.                        *)
Deliverable(p, q) ==
    IF mpi.net[p][q] # <<>> THEN {Head(mpi.net[p][q])}
    ELSE {mpi.pending[p][r] : r \in {r \in DOMAIN mpi.pending[p] :
                                        r = q /\ \A o \in DOMAIN mpi.pending[p] : q <= o}}

(* The communication state after q receives what p has for it (MPI_Recv). *)
Recv(p, q) ==
    IF mpi.net[p][q] # <<>>
    THEN [mpi EXCEPT !.net[p][q] = Tail(@)]
    ELSE [mpi EXCEPT !.pending[p] = [r \in (DOMAIN @) \ {q} |-> @[r]]]

(* State c after p, which is not blocked, starts to send m to some ranks,  *)
(* in ascending order, with MPI_Ssend.                                     *)
Ssend(c, p, ranks, m) == [c EXCEPT !.pending[p] = [r \in ranks |-> m]]

(* The same with MPI_Send.                                                 *)
Send(c, p, ranks, m) ==
    IF ~ Buffered THEN Ssend(c, p, ranks, m)
    ELSE [c EXCEPT !.net[p] =
             [r \in Ranks |-> IF r \in ranks THEN Append(@[r], m) ELSE @[r]]]
=============================================================================
