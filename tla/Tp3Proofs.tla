----------------------------- MODULE Tp3Proofs -----------------------------
(***************************************************************************)
(* Proofs about Tp3, for every number of servers, every number of          *)
(* iterations of each client, and both readings of MPI_Send: the servers   *)
(* exclude one another, in the order of their requests, and the clients    *)
(* see an Exclusion.                                                       *)
(***************************************************************************)
EXTENDS Tp3, FiniteSetTheorems, SequenceTheorems, TLAPS

(* What is said of a channel S: it holds one message, or two, with these   *)
(* tags; it holds some message, or one at most, with a tag; its requests   *)
(* have number k.                                                          *)
EsUno(S, a) == Len(S) = 1 /\ S[1].tag = a
EsDos(S, a, b) == Len(S) = 2 /\ S[1].tag = a /\ S[2].tag = b
Esta(S, tag) == \E i \in DOMAIN S : S[i].tag = tag
Unico(S, tag) == \A i, j \in DOMAIN S : S[i].tag = tag /\ S[j].tag = tag => i = j
Numeros(S, k) == \A i \in DOMAIN S : S[i].tag = "SRV_REQ" => S[i].number = k

-----------------------------------------------------------------------------
(* Sequences of messages.                                                  *)

LEMMA AlAgregar ==
    ASSUME NEW S \in Seq(Messages), NEW m \in Messages
    PROVE  /\ Append(S, m) \in Seq(Messages) /\ Append(S, m) # <<>>
           /\ \A tag : Esta(Append(S, m), tag) <=> (Esta(S, tag) \/ m.tag = tag)
           /\ \A tag : Unico(S, tag) /\ (m.tag # tag \/ ~ Esta(S, tag))
                         => Unico(Append(S, m), tag)
           /\ \A k : Numeros(S, k) /\ (m.tag # "SRV_REQ" \/ m.number = k)
                         => Numeros(Append(S, m), k)
<1>1. /\ Len(S) \in Nat /\ DOMAIN S = 1..Len(S)
      /\ DOMAIN Append(S, m) = 1..(Len(S) + 1)
      /\ Append(S, m)[Len(S) + 1] = m
      /\ \A i \in 1..Len(S) : Append(S, m)[i] = S[i]
  OBVIOUS
<1>2. Append(S, m) \in Seq(Messages) /\ Append(S, m) # <<>>
  <2>1. Append(S, m) \in Seq(Messages) /\ Len(Append(S, m)) = Len(S) + 1
    OBVIOUS
  <2> QED BY <1>1, <2>1, EmptySeq
<1>3. \A i \in 1..(Len(S) + 1) : i \in 1..Len(S) \/ i = Len(S) + 1
  BY <1>1
<1> QED BY <1>1, <1>2, <1>3 DEF Esta, Unico, Numeros

LEMMA AlSacar ==
    ASSUME NEW S \in Seq(Messages), S # <<>>
    PROVE  /\ Tail(S) \in Seq(Messages) /\ Head(S) \in Messages
           /\ Esta(S, Head(S).tag)
           /\ \A tag : Unico(S, tag) => Unico(Tail(S), tag)
           /\ \A tag : Unico(S, tag) /\ Head(S).tag = tag => ~ Esta(Tail(S), tag)
           /\ \A tag : Head(S).tag # tag => (Esta(Tail(S), tag) <=> Esta(S, tag))
           /\ \A tag : Esta(Tail(S), tag) => Esta(S, tag)
           /\ \A k : Numeros(S, k) => Numeros(Tail(S), k)
           /\ \A k : Numeros(S, k) /\ Head(S).tag = "SRV_REQ" => Head(S).number = k
<1>1. /\ Len(S) \in Nat \ {0} /\ DOMAIN S = 1..Len(S)
      /\ DOMAIN Tail(S) = 1..(Len(S) - 1)
      /\ Head(S) = S[1]
      /\ \A i \in 1..(Len(S) - 1) : Tail(S)[i] = S[i + 1]
  OBVIOUS
<1>2. Tail(S) \in Seq(Messages) /\ Head(S) \in Messages
  OBVIOUS
<1>3. 1 \in 1..Len(S)
  BY <1>1
<1>4. \A i \in 1..(Len(S) - 1) : i + 1 \in 1..Len(S) /\ i + 1 # 1
  BY <1>1
<1>5. \A i \in 1..Len(S) : i = 1 \/ (i - 1 \in 1..(Len(S) - 1) /\ (i - 1) + 1 = i)
  BY <1>1
<1>6. \A i, j \in 1..(Len(S) - 1) : i + 1 = j + 1 => i = j
  BY <1>1
<1>7. \A tag : Esta(Tail(S), tag) => Esta(S, tag)
  BY <1>1, <1>4 DEF Esta
<1>8. \A tag : Esta(S, tag) => Esta(Tail(S), tag) \/ Head(S).tag = tag
  <2> TAKE tag
  <2> HAVE Esta(S, tag)
  <2>1. PICK i \in 1..Len(S) : S[i].tag = tag
    BY <1>1 DEF Esta
  <2>2. CASE i = 1
    BY <2>1, <2>2, <1>1
  <2>3. CASE i # 1
    <3>1. i - 1 \in 1..(Len(S) - 1) /\ Tail(S)[i - 1] = S[i]
      BY <2>3, <1>1, <1>5
    <3> QED BY <3>1, <2>1, <1>1 DEF Esta
  <2> QED BY <2>2, <2>3
<1>9. \A tag : Unico(S, tag) => Unico(Tail(S), tag)
  BY <1>1, <1>4, <1>6 DEF Unico
<1>10. \A tag : Unico(S, tag) /\ Head(S).tag = tag => ~ Esta(Tail(S), tag)
  BY <1>1, <1>3, <1>4 DEF Unico, Esta
<1>11. \A k : /\ Numeros(S, k) => Numeros(Tail(S), k)
              /\ Numeros(S, k) /\ Head(S).tag = "SRV_REQ" => Head(S).number = k
  BY <1>1, <1>3, <1>4 DEF Numeros
<1>12. Esta(S, Head(S).tag)
  BY <1>1, <1>3 DEF Esta
<1> QED BY <1>2, <1>7, <1>8, <1>9, <1>10, <1>11, <1>12

(* The channels between a client and its server. *)
LEMMA Cortas ==
    ASSUME NEW S \in Seq(Messages)
    PROVE  /\ \A m \in Messages : /\ S = <<>> => EsUno(Append(S, m), m.tag)
                                 /\ \A a : EsUno(S, a) => EsDos(Append(S, m), a, m.tag)
           /\ \A a : EsUno(S, a) => S # <<>> /\ Head(S).tag = a /\ Tail(S) = <<>>
           /\ \A a, b : EsDos(S, a, b) => S # <<>> /\ Head(S).tag = a /\ EsUno(Tail(S), b)
<1>1. \A m \in Messages :
          /\ Len(Append(S, m)) = Len(S) + 1 /\ Append(S, m)[Len(S) + 1] = m
          /\ \A i \in 1..Len(S) : Append(S, m)[i] = S[i]
  OBVIOUS
<1>2. Len(S) \in Nat /\ (S = <<>> <=> Len(S) = 0)
  BY EmptySeq
<1>3. S # <<>> => /\ Head(S) = S[1] /\ Len(Tail(S)) = Len(S) - 1 /\ Tail(S) \in Seq(Messages)
                  /\ \A i \in 1..(Len(S) - 1) : Tail(S)[i] = S[i + 1]
  OBVIOUS
<1>4. \A T \in Seq(Messages) : Len(T) = 0 => T = <<>>
  BY EmptySeq
<1> QED BY <1>1, <1>2, <1>3, <1>4 DEF EsUno, EsDos

-----------------------------------------------------------------------------
(* Ranks.                                                                  *)

LEMMA Rangos ==
    /\ Servers \subseteq Ranks /\ Clients \subseteq Ranks /\ Servers \cap Clients = {}
    /\ \A s \in Servers : mi_cliente(s) \in Clients /\ mi_cliente(s) - 1 = s
    /\ \A c \in Clients : c - 1 \in Servers /\ mi_cliente(c - 1) = c
    /\ \A r \in Ranks : r \in Servers \/ r \in Clients
    /\ \A s, t \in Servers : mi_cliente(s) = mi_cliente(t) => s = t
    /\ 0 \in Servers /\ Ranks \subseteq Nat
<1> N \in Nat \ {0}
  BY NAssumption
<1>1. \A r \in Ranks : r \in Nat /\ r < 2 * N
  BY DEF Ranks
<1>2. \A r \in Nat : r % 2 \in {0, 1}
  OBVIOUS
<1>3. \A s \in Servers : s + 1 \in Clients /\ (s + 1) - 1 = s
  BY DEF Ranks, Servers, Clients
<1>4. \A c \in Clients : c - 1 \in Servers /\ (c - 1) + 1 = c
  BY DEF Ranks, Servers, Clients
<1>5. 0 \in Servers
  BY DEF Ranks, Servers
<1> QED BY <1>1, <1>2, <1>3, <1>4, <1>5 DEF Servers, Clients, mi_cliente

(* There are N servers: the N - 1 replies are those of the others. *)
LEMMA CuantosServidores ==
    ASSUME NEW s \in Servers
    PROVE  IsFiniteSet(Otros(s)) /\ Cardinality(Otros(s)) = N - 1
<1> N \in Nat \ {0}
  BY NAssumption
<1> DEFINE f == [i \in 0..(N - 1) |-> 2 * i]
<1>1. f \in Bijection(0..(N - 1), Servers)
  <2>1. \A i \in 0..(N - 1) : 2 * i \in Servers
    BY DEF Servers, Ranks
  <2>2. \A r \in Servers : \E i \in 0..(N - 1) : 2 * i = r
    <3> TAKE r \in Servers
    <3>1. r \in 0..(2 * N - 1) /\ r % 2 = 0
      BY DEF Servers, Ranks
    <3>2. r \div 2 \in 0..(N - 1) /\ 2 * (r \div 2) = r
      BY <3>1
    <3> QED BY <3>2
  <2>3. f \in [0..(N - 1) -> Servers]
    BY <2>1
  <2>4. \A r \in Servers : \E i \in 0..(N - 1) : f[i] = r
    BY <2>2
  <2>5. \A i, j \in 0..(N - 1) : f[i] = f[j] => i = j
    OBVIOUS
  <2> HIDE DEF f
  <2> QED BY <2>3, <2>4, <2>5 DEF Bijection, Injection, Surjection, IsInjective
<1>2. IsFiniteSet(Servers) /\ Cardinality(Servers) = N
  <2>1. IsFiniteSet(0..(N - 1)) /\ Cardinality(0..(N - 1)) = N
    BY FS_Interval
  <2>2. ExistsBijection(0..(N - 1), Servers)
    BY <1>1 DEF ExistsBijection
  <2> QED BY <2>1, <2>2, FS_Bijection
<1> QED BY <1>2, FS_RemoveElement DEF Otros

-----------------------------------------------------------------------------
(* MPI.                                                                    *)

LEMMA CanalTipo ==
    ASSUME NEW c, MPIState(c), NEW p \in Ranks, NEW r \in Ranks
    PROVE  Channel(c, p, r) \in Seq(Messages) /\ c.net[p][r] \in Seq(Messages)
<1>1. c.net[p][r] \in Seq(Messages)
  BY DEF MPIState
<1>2. r \in DOMAIN c.pending[p] => c.pending[p][r] \in Messages
  BY DEF MPIState
<1> QED BY <1>1, <1>2, AlAgregar DEF Channel

LEMMA AgregarUno ==
    ASSUME NEW m \in Messages
    PROVE  Append(<<>>, m) # <<>> /\ Head(Append(<<>>, m)) = m /\ Tail(Append(<<>>, m)) = <<>>
<1>1. <<>> \in Seq(Messages) /\ Len(<<>>) = 0
  BY EmptySeq
<1>2. /\ Append(<<>>, m) \in Seq(Messages) /\ Len(Append(<<>>, m)) = 1
      /\ Append(<<>>, m)[1] = m
  BY <1>1
<1>3. Append(<<>>, m) # <<>>
  BY <1>1, <1>2
<1>4. Tail(Append(<<>>, m)) \in Seq(Messages) /\ Len(Tail(Append(<<>>, m))) = 0
  BY <1>2, <1>3
<1> QED BY <1>2, <1>3, <1>4, EmptySeq

LEMMA AgregarYSacar ==
    ASSUME NEW S \in Seq(Messages), S # <<>>, NEW m \in Messages
    PROVE  /\ Append(S, m) # <<>> /\ Head(Append(S, m)) = Head(S)
           /\ Tail(Append(S, m)) = Append(Tail(S), m)
<1> DEFINE A == Append(S, m)
           B == Append(Tail(S), m)
<1>1. /\ Len(S) \in Nat \ {0} /\ A \in Seq(Messages) /\ Len(A) = Len(S) + 1
      /\ A[Len(S) + 1] = m /\ \A i \in 1..Len(S) : A[i] = S[i]
  OBVIOUS
<1>2. /\ Tail(S) \in Seq(Messages) /\ Len(Tail(S)) = Len(S) - 1
      /\ \A i \in 1..(Len(S) - 1) : Tail(S)[i] = S[i + 1]
      /\ B \in Seq(Messages) /\ Len(B) = Len(S) /\ B[Len(S)] = m
      /\ \A i \in 1..(Len(S) - 1) : B[i] = Tail(S)[i]
  <2>1. /\ Tail(S) \in Seq(Messages) /\ Len(Tail(S)) = Len(S) - 1
        /\ \A i \in 1..(Len(S) - 1) : Tail(S)[i] = S[i + 1]
    OBVIOUS
  <2> QED BY <1>1, <2>1
<1> HIDE DEF A, B
<1>3. A # <<>>
  BY <1>1, EmptySeq
<1>4. /\ Head(A) = A[1] /\ Head(S) = S[1]
      /\ Tail(A) \in Seq(Messages) /\ Len(Tail(A)) = Len(S)
      /\ \A i \in 1..Len(S) : Tail(A)[i] = A[i + 1]
  BY <1>1, <1>3
<1>5. \A i \in 1..Len(S) : Tail(A)[i] = B[i]
  BY <1>1, <1>2, <1>4
<1>6. Tail(A) = B
  BY <1>1, <1>2, <1>4, <1>5, SeqEqual
<1>7. Head(A) = Head(S)
  BY <1>1, <1>4
<1> QED BY <1>3, <1>6, <1>7 DEF A, B

(* MPI_Recv takes the head of one channel. *)
LEMMA Recibe ==
    ASSUME MPIState(mpi), NEW o \in Ranks, NEW s \in Ranks, NEW m \in Deliverable(o, s)
    PROVE  /\ MPIState(Recv(o, s))
           /\ EnVuelo(o, s) # <<>> /\ m = Head(EnVuelo(o, s)) /\ m \in Messages
           /\ \A p, r \in Ranks :
                Channel(Recv(o, s), p, r) = IF p = o /\ r = s THEN Tail(EnVuelo(o, s))
                                                              ELSE EnVuelo(p, r)
           /\ \A p \in Ranks \ {o} : Recv(o, s).pending[p] = mpi.pending[p]
           /\ ~ Blocked(o) => DOMAIN Recv(o, s).pending[o] = {}
<1>1. mpi.net[o][s] \in Seq(Messages)
  BY CanalTipo
<1> DEFINE d == Recv(o, s)
<1>2. CASE mpi.net[o][s] # <<>>
  <2>1. d = [mpi EXCEPT !.net[o][s] = Tail(@)] /\ m = Head(mpi.net[o][s])
    BY <1>2 DEF Recv, Deliverable
  <2>2. /\ d.pending = mpi.pending
        /\ d \in [net : [Ranks -> [Ranks -> Seq(Messages)]],
                  pending : [Ranks -> {mpi.pending[p] : p \in Ranks}]]
        /\ \A p, r \in Ranks :
             d.net[p][r] = IF p = o /\ r = s THEN Tail(mpi.net[o][s]) ELSE mpi.net[p][r]
    <3> HIDE DEF d
    <3>1. Tail(mpi.net[o][s]) \in Seq(Messages)
      BY <1>1, <1>2
    <3>2. mpi = [net |-> mpi.net, pending |-> mpi.pending]
          /\ mpi.net \in [Ranks -> [Ranks -> Seq(Messages)]]
          /\ mpi.pending \in [Ranks -> {mpi.pending[p] : p \in Ranks}]
      BY DEF MPIState
    <3>3. d = [net |-> [mpi.net EXCEPT ![o][s] = Tail(mpi.net[o][s])], pending |-> mpi.pending]
      BY <2>1, <3>2
    <3>4. d.pending = mpi.pending /\ d.net = [mpi.net EXCEPT ![o][s] = Tail(mpi.net[o][s])]
      BY <3>3
    <3>5. d.net \in [Ranks -> [Ranks -> Seq(Messages)]]
          /\ \A p, r \in Ranks :
               d.net[p][r] = IF p = o /\ r = s THEN Tail(mpi.net[o][s]) ELSE mpi.net[p][r]
      <4> DEFINE fila == [mpi.net[o] EXCEPT ![s] = Tail(mpi.net[o][s])]
      <4>1. /\ fila \in [Ranks -> Seq(Messages)]
            /\ \A r \in Ranks : fila[r] = IF r = s THEN Tail(mpi.net[o][s]) ELSE mpi.net[o][r]
        BY <3>1, <3>2
      <4>2. d.net = [mpi.net EXCEPT ![o] = fila]
        BY <3>4
      <4> HIDE DEF fila
      <4> QED BY <3>2, <4>1, <4>2
    <3> QED BY <3>2, <3>3, <3>4, <3>5
  <2>3. MPIState(d)
    BY <2>2 DEF MPIState
  <2>4. s \in DOMAIN mpi.pending[o] => mpi.pending[o][s] \in Messages
    BY DEF MPIState
  <2>5. \A x \in Messages : /\ Append(mpi.net[o][s], x) # <<>>
                            /\ Head(Append(mpi.net[o][s], x)) = Head(mpi.net[o][s])
                            /\ Tail(Append(mpi.net[o][s], x)) = Append(Tail(mpi.net[o][s]), x)
    BY <1>1, <1>2, AgregarYSacar
  <2>6. /\ EnVuelo(o, s) # <<>> /\ Head(EnVuelo(o, s)) = m
        /\ Channel(d, o, s) = Tail(EnVuelo(o, s))
    BY <1>2, <2>1, <2>2, <2>4, <2>5 DEF EnVuelo, Channel
  <2>7. \A p, r \in Ranks : ~ (p = o /\ r = s) => Channel(d, p, r) = EnVuelo(p, r)
    BY <2>2 DEF EnVuelo, Channel
  <2>8. m \in Messages
    BY <1>1, <1>2, <2>1
  <2> QED BY <2>2, <2>3, <2>6, <2>7, <2>8 DEF Blocked
<1>3. CASE mpi.net[o][s] = <<>>
  <2>1. s \in DOMAIN mpi.pending[o] /\ m = mpi.pending[o][s] /\ m \in Messages
    BY <1>3 DEF Deliverable, MPIState
  <2>2. /\ d.net = mpi.net
        /\ DOMAIN d.pending[o] = (DOMAIN mpi.pending[o]) \ {s}
        /\ \A r \in DOMAIN d.pending[o] : d.pending[o][r] = mpi.pending[o][r]
        /\ \A p \in Ranks \ {o} : d.pending[p] = mpi.pending[p]
        /\ d \in [net : [Ranks -> [Ranks -> Seq(Messages)]],
                  pending : [Ranks -> {d.pending[p] : p \in Ranks}]]
    <3> DEFINE f == [r \in (DOMAIN mpi.pending[o]) \ {s} |-> mpi.pending[o][r]]
    <3>1. d = [mpi EXCEPT !.pending[o] = f]
      BY <1>3 DEF Recv
    <3>2. /\ DOMAIN f = (DOMAIN mpi.pending[o]) \ {s}
          /\ \A r \in DOMAIN f : f[r] = mpi.pending[o][r]
      OBVIOUS
    <3> HIDE DEF f, d
    <3>3. mpi = [net |-> mpi.net, pending |-> mpi.pending] /\ DOMAIN mpi.pending = Ranks
          /\ mpi.net \in [Ranks -> [Ranks -> Seq(Messages)]]
      BY DEF MPIState
    <3>4. d = [net |-> mpi.net, pending |-> [mpi.pending EXCEPT ![o] = f]]
      BY <3>1, <3>3
    <3>5. d.net = mpi.net /\ d.pending[o] = f /\ \A p \in Ranks \ {o} : d.pending[p] = mpi.pending[p]
      BY <3>3, <3>4
    <3>6. d.pending \in [Ranks -> {d.pending[p] : p \in Ranks}]
      BY <3>3, <3>4
    <3>7. d \in [net : [Ranks -> [Ranks -> Seq(Messages)]],
                  pending : [Ranks -> {d.pending[p] : p \in Ranks}]]
      BY <3>3, <3>4, <3>6
    <3> QED BY <3>2, <3>5, <3>7
  <2> HIDE DEF d
  <2>3. MPIState(d)
    <3>1. \A p \in Ranks : \A r \in DOMAIN d.pending[p] : r \in Ranks /\ d.pending[p][r] \in Messages
      BY <2>2 DEF MPIState
    <3> QED BY <2>2, <3>1 DEF MPIState
  <2>4. EnVuelo(o, s) = Append(<<>>, m) /\ Channel(d, o, s) = <<>>
    BY <1>3, <2>1, <2>2 DEF EnVuelo, Channel
  <2>5. Append(<<>>, m) # <<>> /\ Head(Append(<<>>, m)) = m /\ Tail(Append(<<>>, m)) = <<>>
    BY <2>1, AgregarUno
  <2>6. \A p, r \in Ranks : ~ (p = o /\ r = s) => Channel(d, p, r) = EnVuelo(p, r)
    BY <2>2 DEF EnVuelo, Channel
  <2> QED BY <2>1, <2>2, <2>3, <2>4, <2>5, <2>6 DEF Blocked, d
<1> QED BY <1>2, <1>3

(* d is c with m at the end of the channels from p to some ranks. *)
Enviado(c, d, p, ranks, m) ==
    /\ MPIState(d)
    /\ \A q, r \in Ranks :
         Channel(d, q, r) = IF q = p /\ r \in ranks THEN Append(Channel(c, q, r), m)
                                                   ELSE Channel(c, q, r)
    /\ \A q \in Ranks \ {p} : d.pending[q] = c.pending[q]
    /\ ranks = {} => DOMAIN d.pending[p] = {}

(* So do MPI_Ssend and MPI_Send. *)
LEMMA Envia ==
    ASSUME NEW c, MPIState(c), NEW p \in Ranks, DOMAIN c.pending[p] = {},
           NEW ranks, ranks \subseteq Ranks, NEW m, m \in Messages,
           NEW d, d = Send(c, p, ranks, m) \/ d = Ssend(c, p, ranks, m)
    PROVE  Enviado(c, d, p, ranks, m)
<1>1. CASE d = Ssend(c, p, ranks, m)
  <2> DEFINE f == [r \in ranks |-> m]
  <2>1. DOMAIN f = ranks /\ \A r \in ranks : f[r] = m
    OBVIOUS
  <2>2. d = [c EXCEPT !.pending[p] = f]
    BY <1>1 DEF Ssend
  <2> HIDE DEF f
  <2>3. c = [net |-> c.net, pending |-> c.pending] /\ DOMAIN c.pending = Ranks
        /\ c.net \in [Ranks -> [Ranks -> Seq(Messages)]]
    BY DEF MPIState
  <2>4. d = [net |-> c.net, pending |-> [c.pending EXCEPT ![p] = f]]
    BY <2>2, <2>3
  <2>5. d.net = c.net /\ d.pending[p] = f /\ \A q \in Ranks \ {p} : d.pending[q] = c.pending[q]
    BY <2>3, <2>4
  <2>6. d.pending \in [Ranks -> {d.pending[q] : q \in Ranks}]
    BY <2>3, <2>4
  <2>7. d \in [net : [Ranks -> [Ranks -> Seq(Messages)]],
               pending : [Ranks -> {d.pending[q] : q \in Ranks}]]
    BY <2>3, <2>4, <2>6
  <2>8. \A q \in Ranks : \A r \in DOMAIN d.pending[q] : r \in Ranks /\ d.pending[q][r] \in Messages
    BY <2>1, <2>5 DEF MPIState
  <2>9. MPIState(d)
    BY <2>7, <2>8 DEF MPIState
  <2>10. \A q, r \in Ranks :
           Channel(d, q, r) = IF q = p /\ r \in ranks THEN Append(Channel(c, q, r), m)
                                                     ELSE Channel(c, q, r)
    BY <2>1, <2>5 DEF Channel
  <2> QED BY <2>1, <2>5, <2>9, <2>10 DEF Enviado
<1>2. CASE Buffered /\ d = Send(c, p, ranks, m)
  <2> DEFINE f == [r \in Ranks |-> IF r \in ranks THEN Append(c.net[p][r], m) ELSE c.net[p][r]]
  <2>1. \A r \in Ranks : f[r] = IF r \in ranks THEN Append(c.net[p][r], m) ELSE c.net[p][r]
    OBVIOUS
  <2>2. f \in [Ranks -> Seq(Messages)]
    BY CanalTipo, AlAgregar
  <2>3. c = [net |-> c.net, pending |-> c.pending]
        /\ c.net \in [Ranks -> [Ranks -> Seq(Messages)]]
        /\ c.pending \in [Ranks -> {c.pending[q] : q \in Ranks}]
    BY DEF MPIState
  <2>4. d = [c EXCEPT !.net[p] = f]
    BY <1>2 DEF Send
  <2> HIDE DEF f
  <2>5. d = [net |-> [c.net EXCEPT ![p] = f], pending |-> c.pending]
    BY <2>3, <2>4
  <2>6. d.pending = c.pending /\ d.net[p] = f /\ \A q \in Ranks \ {p} : d.net[q] = c.net[q]
    BY <2>3, <2>5
  <2>7. d \in [net : [Ranks -> [Ranks -> Seq(Messages)]],
               pending : [Ranks -> {d.pending[q] : q \in Ranks}]]
    BY <2>2, <2>3, <2>5
  <2>8. MPIState(d)
    BY <2>6, <2>7 DEF MPIState
  <2>9. \A q, r \in Ranks :
           Channel(d, q, r) = IF q = p /\ r \in ranks THEN Append(Channel(c, q, r), m)
                                                     ELSE Channel(c, q, r)
    BY <2>1, <2>6 DEF Channel
  <2> QED BY <2>6, <2>8, <2>9 DEF Enviado
<1> QED BY <1>1, <1>2 DEF Send

-----------------------------------------------------------------------------
(* The invariant.                                                          *)

Tipos ==
    /\ MPIState(mpi)
    /\ cpc \in [Clients -> CPCs]
    /\ spc \in [Servers -> {"reparto", "sirviendo", "fin"}]
    /\ hay_pedido_local \in [Servers -> BOOLEAN]
    /\ our_seq_nr \in [Servers -> Nat]
    /\ max_seq_nr \in [Servers -> Nat]
    /\ outstanding_reply \in [Servers -> Nat]
    /\ reply_deferred \in [Servers -> SUBSET Servers]
    /\ \A s \in Servers : s \notin reply_deferred[s]

(* What the messages between a client and its server, both ways, may be,   *)
(* with the state of each: the server has no request, it holds the         *)
(* permission, or it waits for replies.                                    *)
ConversacionDe(s, ida, vuelta, donde) ==
    \/ /\ ~ hay_pedido_local[s]
       /\ \/ /\ donde = "inicio" /\ ida = <<>>
             /\ vuelta = <<>> \/ (s = 0 /\ EsUno(vuelta, "TAG_INICIAL"))
          \/ donde = "previo" /\ ida = <<>> /\ vuelta = <<>>
          \/ donde = "esperando" /\ EsUno(ida, "TAG_PEDIDO") /\ vuelta = <<>>
          \/ /\ donde \in {"terminando", "fin"} /\ vuelta = <<>>
             /\ ida = <<>> \/ EsUno(ida, "TAG_TERMINE")
    \/ /\ Tiene(s)
       /\ \/ donde = "previo" /\ EsUno(ida, "TAG_LIBERO") /\ vuelta = <<>>
          \/ donde = "esperando" /\ EsDos(ida, "TAG_LIBERO", "TAG_PEDIDO") /\ vuelta = <<>>
          \/ donde = "esperando" /\ ida = <<>> /\ EsUno(vuelta, "TAG_OTORGADO")
          \/ donde = "critica" /\ ida = <<>> /\ vuelta = <<>>
          \/ /\ donde \in {"terminando", "fin"} /\ vuelta = <<>>
             /\ EsDos(ida, "TAG_LIBERO", "TAG_TERMINE")
    \/ /\ hay_pedido_local[s] /\ outstanding_reply[s] > 0
       /\ donde = "esperando" /\ ida = <<>> /\ vuelta = <<>>

Conversacion ==
    \A s \in Servers :
        ConversacionDe(s, EnVuelo(mi_cliente(s), s), EnVuelo(s, mi_cliente(s)),
                       cpc[mi_cliente(s)])

Arranque ==
    /\ spc[0] = "reparto" => cpc[1] = "inicio" /\ EnVuelo(0, 1) = <<>>
    /\ \A c \in Clients : cpc[c] = "critica" => ~ Blocked(c)

(* A server hears from its client and from the other servers. *)
Rutas ==
    \A s \in Servers :
        /\ EnVuelo(s, s) = <<>>
        /\ \A c \in Clients : c # mi_cliente(s) => EnVuelo(c, s) = <<>>
        /\ \A t \in Servers : \A tag :
              Esta(EnVuelo(t, s), tag) => tag \in {"SRV_REQ", "SRV_REPLY", "SRV_FINISHED"}

(* t owes s one reply at most, in one of three forms, and only if s has a  *)
(* request. *)
Deuda(s, t) ==
    /\ Unico(EnVuelo(s, t), "SRV_REQ") /\ Unico(EnVuelo(t, s), "SRV_REPLY")
    /\ ~ (Hay(s, t, "SRV_REQ") /\ Hay(t, s, "SRV_REPLY"))
    /\ ~ (Hay(s, t, "SRV_REQ") /\ s \in reply_deferred[t])
    /\ ~ (s \in reply_deferred[t] /\ Hay(t, s, "SRV_REPLY"))
    /\ Numeros(EnVuelo(s, t), our_seq_nr[s])

(* t received the request of s. *)
Recibido(s, t) == hay_pedido_local[s] /\ ~ Hay(s, t, "SRV_REQ")

(* It has seen its number, and if it answered it, and has a request of its *)
(* own, then that of s goes before.                                        *)
Orden(s, t) ==
    /\ Recibido(s, t) => max_seq_nr[t] >= our_seq_nr[s]
    /\ Recibido(s, t) /\ s \notin reply_deferred[t] /\ hay_pedido_local[t] =>
          \/ our_seq_nr[s] < our_seq_nr[t]
          \/ our_seq_nr[s] = our_seq_nr[t] /\ s < t

Pares == \A s \in Servers : \A t \in Otros(s) : Deuda(s, t) /\ Orden(s, t)

Cuenta ==
    \A s \in Servers :
        /\ outstanding_reply[s] = Cardinality({t \in Otros(s) : Espera(s, t)})
        /\ ~ hay_pedido_local[s] => outstanding_reply[s] = 0

IInv == Tipos /\ Conversacion /\ Arranque /\ Rutas /\ Pares /\ Cuenta

-----------------------------------------------------------------------------
(* What the handlers do to the channels.                                   *)

(* s took a message from o, sent a to the servers in D and, if da, gave    *)
(* its client permission.                                                  *)
Efecto(s, o, D, a, da) ==
    /\ MPIState(mpi)'
    /\ \A p \in Ranks \ {s} : ~ Blocked(p) => ~ Blocked(p)'
    /\ \A p, r \in Ranks :
         EnVuelo(p, r)' =
            IF p = o /\ r = s THEN Tail(EnVuelo(o, s))
            ELSE IF p = s /\ r \in D THEN Append(EnVuelo(p, r), a)
            ELSE IF p = s /\ r = mi_cliente(s) /\ da
                 THEN Append(EnVuelo(p, r), Message("TAG_OTORGADO", 0))
            ELSE EnVuelo(p, r)

LEMMA Mensajes ==
    /\ \A t \in Tags, k \in Nat : Message(t, k) \in Messages /\ Message(t, k).tag = t
                                  /\ Message(t, k).number = k
    /\ {"TAG_INICIAL", "TAG_PEDIDO", "TAG_OTORGADO", "TAG_LIBERO", "TAG_TERMINE",
        "SRV_REQ", "SRV_REPLY", "SRV_FINISHED"} = Tags
BY DEF Message, Messages, Tags

(* Who sends what. *)
LEMMA PorLlegar ==
    ASSUME IInv, NEW s \in Servers, NEW o \in Ranks, NEW m \in Deliverable(o, s)
    PROVE  /\ m \in Messages /\ EnVuelo(o, s) # <<>> /\ m = Head(EnVuelo(o, s))
           /\ o # s /\ Esta(EnVuelo(o, s), m.tag) /\ EnVuelo(o, s) \in Seq(Messages)
           /\ m.tag \in {"TAG_PEDIDO", "TAG_LIBERO", "TAG_TERMINE"} => o = mi_cliente(s)
           /\ m.tag \in {"SRV_REQ", "SRV_REPLY", "SRV_FINISHED"} => o \in Otros(s)
<1>1. m \in Messages /\ EnVuelo(o, s) # <<>> /\ m = Head(EnVuelo(o, s))
  BY Recibe, Rangos DEF IInv, Tipos
<1>2. EnVuelo(o, s) \in Seq(Messages)
  BY CanalTipo, Rangos DEF IInv, Tipos, EnVuelo
<1>3. Esta(EnVuelo(o, s), m.tag)
  BY <1>1, <1>2, AlSacar
<1>4. o # s
  BY <1>1 DEF IInv, Rutas
<1>5. CASE o \in Servers
  <2>1. m.tag \in {"SRV_REQ", "SRV_REPLY", "SRV_FINISHED"}
    BY <1>3, <1>5 DEF IInv, Rutas
  <2> QED BY <1>1, <1>2, <1>3, <1>4, <1>5, <2>1 DEF Otros
<1>6. CASE o \in Clients
  <2>1. o = mi_cliente(s)
    BY <1>1, <1>6 DEF IInv, Rutas
  <2>2. m.tag \in {"TAG_PEDIDO", "TAG_LIBERO", "TAG_TERMINE"}
    <3>1. ConversacionDe(s, EnVuelo(o, s), EnVuelo(s, o), cpc[o])
      BY <2>1 DEF IInv, Conversacion
    <3> QED BY <1>1, <1>2, <3>1, Cortas DEF ConversacionDe
  <2> QED BY <1>1, <1>2, <1>3, <1>4, <2>1, <2>2
<1> QED BY <1>5, <1>6, Rangos

LEMMA Origen ==
    ASSUME IInv, NEW s \in Servers, NEW o \in Ranks, NEW m, Llega(s, o, m)
    PROVE  /\ m \in Messages /\ EnVuelo(o, s) # <<>> /\ m = Head(EnVuelo(o, s))
           /\ o # s /\ Esta(EnVuelo(o, s), m.tag) /\ EnVuelo(o, s) \in Seq(Messages)
           /\ m.tag \in {"TAG_PEDIDO", "TAG_LIBERO", "TAG_TERMINE"} => o = mi_cliente(s)
           /\ m.tag \in {"SRV_REQ", "SRV_REPLY", "SRV_FINISHED"} => o \in Otros(s)
BY PorLlegar DEF Llega

(* A message is taken and another is sent to some servers. *)
LEMMA Responde ==
    ASSUME MPIState(mpi), NEW s \in Servers, NEW o \in Ranks, o # s,
           NEW m \in Deliverable(o, s), ~ Blocked(s),
           NEW D \in SUBSET Otros(s), NEW a \in Messages,
           mpi' = Send(Recv(o, s), s, D, a)
    PROVE  Efecto(s, o, D, a, FALSE)
<1> DEFINE c == Recv(o, s)
<1> s \in Ranks /\ D \in SUBSET Ranks
  BY Rangos DEF Otros
<1>1. /\ MPIState(c) /\ DOMAIN c.pending[s] = {}
      /\ \A p, r \in Ranks :
           Channel(c, p, r) = IF p = o /\ r = s THEN Tail(EnVuelo(o, s)) ELSE EnVuelo(p, r)
      /\ \A p \in Ranks \ {o} : c.pending[p] = mpi.pending[p]
      /\ ~ Blocked(o) => DOMAIN c.pending[o] = {}
  BY Recibe DEF Blocked
<1>0. mpi' = Send(c, s, D, a) \/ mpi' = Ssend(c, s, D, a)
  OBVIOUS
<1> HIDE DEF c
<1>2. /\ MPIState(mpi')
      /\ \A p, r \in Ranks :
           Channel(mpi', p, r) = IF p = s /\ r \in D THEN Append(Channel(c, p, r), a)
                                                     ELSE Channel(c, p, r)
      /\ \A p \in Ranks \ {s} : mpi'.pending[p] = c.pending[p]
  <2>1. Enviado(c, mpi', s, D, a)
    BY <1>0, <1>1, Envia
  <2> QED BY <2>1 DEF Enviado
<1>3. \A p, r \in Ranks :
         EnVuelo(p, r)' = IF p = o /\ r = s THEN Tail(EnVuelo(o, s))
                          ELSE IF p = s /\ r \in D THEN Append(EnVuelo(p, r), a)
                          ELSE EnVuelo(p, r)
  BY <1>1, <1>2 DEF EnVuelo
<1>4. \A p \in Ranks \ {s} : ~ Blocked(p) => ~ Blocked(p)'
  BY <1>1, <1>2 DEF Blocked
<1>5. MPIState(mpi)'
  BY <1>2 DEF MPIState
<1> QED BY <1>3, <1>4, <1>5 DEF Efecto

(* Only its client hears from it. *)
LEMMA RespondeAlCliente ==
    ASSUME MPIState(mpi), NEW s \in Servers, NEW o \in Ranks, o # s,
           NEW m \in Deliverable(o, s), ~ Blocked(s), NEW faltan,
           mpi' = Otorgar(Recv(o, s), s, faltan), NEW a
    PROVE  Efecto(s, o, {}, a, faltan = 0)
<1> DEFINE c == Recv(o, s)
           oto == Message("TAG_OTORGADO", 0)
<1> s \in Ranks /\ mi_cliente(s) \in Ranks /\ oto \in Messages
  BY Rangos, Mensajes DEF Tags
<1>1. /\ MPIState(c) /\ DOMAIN c.pending[s] = {}
      /\ \A p, r \in Ranks :
           Channel(c, p, r) = IF p = o /\ r = s THEN Tail(EnVuelo(o, s)) ELSE EnVuelo(p, r)
      /\ \A p \in Ranks \ {o} : c.pending[p] = mpi.pending[p]
      /\ ~ Blocked(o) => DOMAIN c.pending[o] = {}
  BY Recibe DEF Blocked
<1>2. CASE faltan = 0
  <2>1. mpi' = Send(c, s, {mi_cliente(s)}, oto)
    BY <1>2 DEF Otorgar
  <2> HIDE DEF c, oto
  <2>2. /\ MPIState(mpi')
        /\ \A p, r \in Ranks :
             Channel(mpi', p, r) = IF p = s /\ r \in {mi_cliente(s)}
                                   THEN Append(Channel(c, p, r), oto) ELSE Channel(c, p, r)
        /\ \A p \in Ranks \ {s} : mpi'.pending[p] = c.pending[p]
    <3>1. Enviado(c, mpi', s, {mi_cliente(s)}, oto)
      BY <2>1, <1>1, Envia
    <3> QED BY <3>1 DEF Enviado
  <2>3. \A p, r \in Ranks :
           EnVuelo(p, r)' = IF p = o /\ r = s THEN Tail(EnVuelo(o, s))
                            ELSE IF p = s /\ r = mi_cliente(s) THEN Append(EnVuelo(p, r), oto)
                            ELSE EnVuelo(p, r)
    BY <1>1, <2>2 DEF EnVuelo
  <2>4. \A p \in Ranks \ {s} : ~ Blocked(p) => ~ Blocked(p)'
    BY <1>1, <2>2 DEF Blocked
  <2>5. MPIState(mpi)'
    BY <2>2 DEF MPIState
  <2> QED BY <1>2, <2>3, <2>4, <2>5 DEF Efecto, oto
<1>3. CASE faltan # 0
  <2>1. mpi' = c
    BY <1>3 DEF Otorgar
  <2> HIDE DEF c
  <2>2. MPIState(mpi)' /\ \A p \in Ranks \ {s} : ~ Blocked(p) => ~ Blocked(p)'
    BY <1>1, <2>1 DEF MPIState, Blocked
  <2>3. \A p, r \in Ranks :
           EnVuelo(p, r)' = IF p = o /\ r = s THEN Tail(EnVuelo(o, s)) ELSE EnVuelo(p, r)
    BY <1>1, <2>1 DEF EnVuelo
  <2> QED BY <1>3, <2>2, <2>3 DEF Efecto
<1> QED BY <1>2, <1>3

(* TAG_PEDIDO, the broadcast and the permission of a server that is alone. *)
LEMMA RespondeATodos ==
    ASSUME MPIState(mpi), NEW s \in Servers, NEW o \in Ranks, o # s,
           NEW m \in Deliverable(o, s), ~ Blocked(s), NEW a \in Messages,
           mpi' = Otorgar(Send(Recv(o, s), s, Otros(s), a), s, N - 1)
    PROVE  Efecto(s, o, Otros(s), a, N = 1)
<1> N \in Nat \ {0}
  BY NAssumption
<1>1. CASE N # 1
  <2>1. mpi' = Send(Recv(o, s), s, Otros(s), a)
    BY <1>1 DEF Otorgar
  <2>2. Efecto(s, o, Otros(s), a, FALSE)
    BY <2>1, Responde
  <2> QED BY <1>1, <2>2 DEF Efecto
<1>2. CASE N = 1
  <2> DEFINE c == Recv(o, s)
             d == Send(c, s, {}, a)
             oto == Message("TAG_OTORGADO", 0)
  <2> s \in Ranks /\ mi_cliente(s) \in Ranks /\ oto \in Messages
    BY Rangos, Mensajes DEF Tags
  <2>1. Otros(s) = {}
    BY <1>2, CuantosServidores, FS_EmptySet
  <2>2. /\ MPIState(c) /\ DOMAIN c.pending[s] = {}
        /\ \A p, r \in Ranks :
             Channel(c, p, r) = IF p = o /\ r = s THEN Tail(EnVuelo(o, s)) ELSE EnVuelo(p, r)
        /\ \A p \in Ranks \ {o} : c.pending[p] = mpi.pending[p]
        /\ ~ Blocked(o) => DOMAIN c.pending[o] = {}
    BY Recibe DEF Blocked
  <2>3. mpi' = Otorgar(d, s, 0)
    BY <1>2, <2>1
  <2>4. mpi' = Send(d, s, {mi_cliente(s)}, oto)
    BY <2>3 DEF Otorgar
  <2> HIDE DEF c
  <2>5. d = Send(c, s, {}, a)
    OBVIOUS
  <2> HIDE DEF d, oto
  <2>6. /\ MPIState(d) /\ DOMAIN d.pending[s] = {}
        /\ \A p, r \in Ranks : Channel(d, p, r) = Channel(c, p, r)
        /\ \A p \in Ranks \ {s} : d.pending[p] = c.pending[p]
    <3>1. Enviado(c, d, s, {}, a)
      BY <2>2, <2>5, Envia
    <3> QED BY <2>2, <3>1 DEF Enviado
  <2>7. /\ MPIState(mpi')
        /\ \A p, r \in Ranks :
             Channel(mpi', p, r) = IF p = s /\ r \in {mi_cliente(s)}
                                   THEN Append(Channel(d, p, r), oto) ELSE Channel(d, p, r)
        /\ \A p \in Ranks \ {s} : mpi'.pending[p] = d.pending[p]
    <3>1. Enviado(d, mpi', s, {mi_cliente(s)}, oto)
      BY <2>4, <2>6, Envia
    <3> QED BY <3>1 DEF Enviado
  <2>8. \A p, r \in Ranks :
           EnVuelo(p, r)' = IF p = o /\ r = s THEN Tail(EnVuelo(o, s))
                            ELSE IF p = s /\ r = mi_cliente(s) THEN Append(EnVuelo(p, r), oto)
                            ELSE EnVuelo(p, r)
    <3>1. \A p, r \in Ranks :
             Channel(mpi', p, r) = IF p = s /\ r = mi_cliente(s)
                                   THEN Append(Channel(c, p, r), oto) ELSE Channel(c, p, r)
      BY <2>6, <2>7
    <3> TAKE p, r \in Ranks
    <3>2. Channel(c, p, r) = IF p = o /\ r = s THEN Tail(EnVuelo(o, s)) ELSE EnVuelo(p, r)
      BY <2>2
    <3>3. EnVuelo(p, r)' = IF p = s /\ r = mi_cliente(s)
                           THEN Append(Channel(c, p, r), oto) ELSE Channel(c, p, r)
      BY <3>1 DEF EnVuelo
    <3> QED BY <3>2, <3>3
  <2>9. \A p \in Ranks \ {s} : ~ Blocked(p) => ~ Blocked(p)'
    BY <2>2, <2>6, <2>7 DEF Blocked
  <2>10. MPIState(mpi)'
    BY <2>7 DEF MPIState
  <2> QED BY <1>2, <2>1, <2>8, <2>9, <2>10 DEF Efecto, oto
<1> QED BY <1>1, <1>2

(* Each handler in these terms. *)
LEMMA EfectoDe ==
    ASSUME IInv, NEW s \in Servers, NEW o \in Ranks, NEW m
    PROVE  /\ Pedido(s, o, m) =>
                Efecto(s, o, Otros(s), Message("SRV_REQ", max_seq_nr[s] + 1), N = 1)
           /\ Reply(s, o, m) =>
                Efecto(s, o, {}, Message("SRV_REPLY", 0), outstanding_reply[s] = 1)
           /\ Libero(s, o, m) =>
                Efecto(s, o, reply_deferred[s], Message("SRV_REPLY", 0), FALSE)
           /\ Req(s, o, m) =>
                Efecto(s, o, IF Prioridad(s, o, m.number) THEN {} ELSE {o},
                       Message("SRV_REPLY", 0), FALSE)
           /\ Termine(s, o, m) =>
                Efecto(s, o, Otros(s), Message("SRV_FINISHED", 0), FALSE)
           /\ Finished(s, o, m) => Efecto(s, o, {}, Message("SRV_REPLY", 0), FALSE)
<1>0. Tipos /\ MPIState(mpi)
  BY DEF IInv, Tipos
<1> DEFINE rep == Message("SRV_REPLY", 0)
<1>1. /\ rep \in Messages /\ Message("SRV_FINISHED", 0) \in Messages
      /\ \A k \in Nat : Message("SRV_REQ", k) \in Messages
  BY Mensajes DEF Tags
<1>2. Llega(s, o, m) => o # s /\ ~ Blocked(s) /\ m \in Deliverable(o, s)
  BY Origen DEF Llega
<1>3. Pedido(s, o, m) => Efecto(s, o, Otros(s), Message("SRV_REQ", max_seq_nr[s] + 1), N = 1)
  <2> HAVE Pedido(s, o, m)
  <2>1. our_seq_nr'[s] = max_seq_nr[s] + 1 /\ max_seq_nr[s] + 1 \in Nat
    BY <1>0 DEF Pedido, Tipos
  <2>2. mpi' = Otorgar(Send(Recv(o, s), s, Otros(s), Message("SRV_REQ", max_seq_nr[s] + 1)),
                       s, N - 1)
    BY <2>1 DEF Pedido
  <2>3. Llega(s, o, m)
    BY DEF Pedido
  <2> QED BY <1>0, <1>1, <1>2, <2>1, <2>2, <2>3, RespondeATodos
<1>4. Reply(s, o, m) => Efecto(s, o, {}, rep, outstanding_reply[s] = 1)
  <2> HAVE Reply(s, o, m)
  <2>1. outstanding_reply'[s] = outstanding_reply[s] - 1 /\ outstanding_reply[s] \in Nat
    BY <1>0 DEF Reply, Tipos
  <2>2. mpi' = Otorgar(Recv(o, s), s, outstanding_reply[s] - 1)
    BY <2>1 DEF Reply
  <2>3. Llega(s, o, m)
    BY DEF Reply
  <2>4. Efecto(s, o, {}, rep, outstanding_reply[s] - 1 = 0)
    BY <1>0, <1>2, <2>2, <2>3, RespondeAlCliente
  <2>5. (outstanding_reply[s] - 1 = 0) = (outstanding_reply[s] = 1)
    BY <2>1
  <2> QED BY <2>4, <2>5
<1>5. Libero(s, o, m) => Efecto(s, o, reply_deferred[s], rep, FALSE)
  <2> HAVE Libero(s, o, m)
  <2>1. reply_deferred[s] \in SUBSET Otros(s)
    BY <1>0 DEF Tipos, Otros
  <2> QED BY <1>0, <1>1, <1>2, <2>1, Responde DEF Libero
<1>6. Termine(s, o, m) => Efecto(s, o, Otros(s), Message("SRV_FINISHED", 0), FALSE)
  BY <1>0, <1>1, <1>2, Responde DEF Termine
<1>7. ASSUME Llega(s, o, m), mpi' = Recv(o, s)
      PROVE  Efecto(s, o, {}, rep, FALSE)
  <2>1. mpi' = Otorgar(Recv(o, s), s, 1)
    BY <1>7 DEF Otorgar
  <2>2. Efecto(s, o, {}, rep, 1 = 0)
    BY <1>0, <1>2, <1>7, <2>1, RespondeAlCliente
  <2>3. (1 = 0) = FALSE
    OBVIOUS
  <2> QED BY <2>2, <2>3
<1>8. Finished(s, o, m) => Efecto(s, o, {}, rep, FALSE)
  BY <1>7 DEF Finished
<1>9. Req(s, o, m) => Efecto(s, o, IF Prioridad(s, o, m.number) THEN {} ELSE {o}, rep, FALSE)
  <2> HAVE Req(s, o, m)
  <2>1. Llega(s, o, m) /\ m.tag = "SRV_REQ"
    BY DEF Req
  <2>2. {o} \in SUBSET Otros(s)
    BY <2>1, Origen
  <2>3. CASE Prioridad(s, o, m.number)
    BY <1>7, <2>1, <2>3 DEF Req
  <2>4. CASE ~ Prioridad(s, o, m.number)
    <3>1. mpi' = Send(Recv(o, s), s, {o}, rep)
      BY <2>4 DEF Req
    <3>2. Efecto(s, o, {o}, rep, FALSE)
      BY <1>0, <1>1, <1>2, <2>1, <2>2, <3>1, Responde
    <3> QED BY <2>4, <3>2
  <2> QED BY <2>3, <2>4
<1> QED BY <1>3, <1>4, <1>5, <1>6, <1>8, <1>9

-----------------------------------------------------------------------------
(* What no handler disturbs.                                               *)

SrvTags == {"SRV_REQ", "SRV_REPLY", "SRV_FINISHED"}

(* s handles m, which came from o, with the effect above. *)
Atiende(s, o, m, D, a, da) ==
    /\ s \in Servers /\ o \in Ranks /\ Llega(s, o, m)
    /\ D \subseteq Otros(s) /\ a \in Messages /\ a.tag \in SrvTags /\ da \in BOOLEAN
    /\ Efecto(s, o, D, a, da)
    /\ cpc' = cpc /\ (spc'[0] = "reparto" => spc[0] = "reparto")

(* The channels between servers. *)
LEMMA EntreServidores ==
    ASSUME IInv, NEW s, NEW o, NEW m, NEW D, NEW a, NEW da, Atiende(s, o, m, D, a, da),
           NEW p \in Servers, NEW q \in Servers
    PROVE  EnVuelo(p, q)' = IF p = o /\ q = s THEN Tail(EnVuelo(p, q))
                            ELSE IF p = s /\ q \in D THEN Append(EnVuelo(p, q), a)
                            ELSE EnVuelo(p, q)
<1>1. p \in Ranks /\ q \in Ranks /\ q # mi_cliente(s)
  BY Rangos DEF Atiende
<1> QED BY <1>1 DEF Atiende, Efecto

(* What a handler changes in one of them: a message may be taken or added. *)
Cambio(p, q, s, o, m, D, a) ==
    /\ p = o /\ q = s =>
         \A tag : /\ m.tag # tag => (Hay(p, q, tag)' <=> Hay(p, q, tag))
                  /\ Unico(EnVuelo(p, q), tag) /\ m.tag = tag => ~ Hay(p, q, tag)'
                  /\ Hay(p, q, tag)' => Hay(p, q, tag)
    /\ ~ (p = o /\ q = s) =>
         \A tag : Hay(p, q, tag)' <=> (Hay(p, q, tag) \/ (p = s /\ q \in D /\ tag = a.tag))
    /\ \A tag : /\ Unico(EnVuelo(p, q), tag)
                /\ ~ (p = s /\ q \in D /\ tag = a.tag /\ Hay(p, q, tag))
                => Unico(EnVuelo(p, q)', tag)
    /\ \A k : /\ Numeros(EnVuelo(p, q), k)
              /\ ~ (p = s /\ q \in D /\ a.tag = "SRV_REQ" /\ a.number # k)
              => Numeros(EnVuelo(p, q)', k)

LEMMA Cambios ==
    ASSUME IInv, NEW s, NEW o, NEW m, NEW D, NEW a, NEW da, Atiende(s, o, m, D, a, da),
           NEW p \in Servers, NEW q \in Servers
    PROVE  Cambio(p, q, s, o, m, D, a)
<1> DEFINE V == EnVuelo(p, q)
           W == EnVuelo(p, q)'
<1>1. \A tag : (Hay(p, q, tag) <=> Esta(V, tag)) /\ (Hay(p, q, tag)' <=> Esta(W, tag))
  BY DEF Hay, Esta
<1>2. V \in Seq(Messages)
  BY CanalTipo, Rangos DEF IInv, Tipos, EnVuelo
<1>3. s \in Servers /\ o \in Ranks /\ Llega(s, o, m) /\ a \in Messages /\ o # s
  BY Origen DEF Atiende
<1>4. W = IF p = o /\ q = s THEN Tail(V) ELSE IF p = s /\ q \in D THEN Append(V, a) ELSE V
  BY EntreServidores
<1> HIDE DEF V, W
<1>5. CASE p = o /\ q = s
  <2>1. V # <<>> /\ m = Head(V)
    BY <1>3, <1>5, Origen DEF V
  <2>2. W = Tail(V) /\ p # s
    BY <1>3, <1>4, <1>5
  <2> QED BY <1>1, <1>2, <1>5, <2>1, <2>2, AlSacar DEF V, W, Cambio
<1>6. CASE ~ (p = o /\ q = s) /\ p = s /\ q \in D
  <2>1. W = Append(V, a)
    BY <1>4, <1>6
  <2> QED BY <1>1, <1>2, <1>3, <1>6, <2>1, AlAgregar DEF V, W, Cambio
<1>7. CASE ~ (p = o /\ q = s) /\ ~ (p = s /\ q \in D)
  <2>1. W = V
    BY <1>4, <1>7
  <2> QED BY <1>1, <1>7, <2>1 DEF V, W, Cambio
<1> QED BY <1>5, <1>6, <1>7

LEMMA RutasSiguen ==
    ASSUME IInv, NEW s, NEW o, NEW m, NEW D, NEW a, NEW da, Atiende(s, o, m, D, a, da)
    PROVE  Rutas' /\ Arranque' /\ MPIState(mpi)'
<1>1. s \in Servers /\ o \in Ranks /\ o # s /\ EnVuelo(o, s) # <<>> /\ D \subseteq Otros(s)
      /\ Llega(s, o, m)
  BY Origen DEF Atiende
<1>2. MPIState(mpi)'
  BY DEF Atiende, Efecto
<1>3. Rutas'
  <2> SUFFICES ASSUME NEW t \in Servers
               PROVE  /\ EnVuelo(t, t)' = <<>>
                      /\ \A c \in Clients : c # mi_cliente(t) => EnVuelo(c, t)' = <<>>
                      /\ \A u \in Servers : \A tag : Esta(EnVuelo(u, t)', tag) => tag \in SrvTags
    BY DEF Rutas, SrvTags
  <2>1. EnVuelo(t, t)' = <<>>
    BY <1>1, EntreServidores DEF IInv, Rutas, Otros
  <2>2. ASSUME NEW c \in Clients, c # mi_cliente(t)
        PROVE  EnVuelo(c, t)' = <<>>
    <3>1. EnVuelo(c, t) = <<>> /\ c # s /\ c \in Ranks /\ t \in Ranks
      BY <1>1, <2>2, Rangos DEF IInv, Rutas
    <3>2. ~ (c = o /\ t = s)
      BY <1>1, <3>1
    <3> QED BY <3>1, <3>2 DEF Atiende, Efecto
  <2>3. ASSUME NEW u \in Servers, NEW tag, Esta(EnVuelo(u, t)', tag)
        PROVE  tag \in SrvTags
    <3>1. Hay(u, t, tag)'
      BY <2>3 DEF Hay, Esta
    <3>2. Hay(u, t, tag) \/ tag = a.tag
      <4>1. Cambio(u, t, s, o, m, D, a)
        BY <2>3, Cambios
      <4> QED BY <3>1, <4>1 DEF Cambio
    <3> QED BY <3>2 DEF IInv, Rutas, Hay, Esta, SrvTags, Atiende
  <2> QED BY <2>1, <2>2, <2>3
<1>4. Arranque'
  <2>1. ASSUME NEW c \in Clients, cpc'[c] = "critica"
        PROVE  ~ Blocked(c)'
    <3>1. c \in Ranks \ {s} /\ ~ Blocked(c)
      BY <1>1, <2>1, Rangos DEF IInv, Arranque, Atiende
    <3> QED BY <3>1 DEF Atiende, Efecto
  <2>2. ASSUME spc'[0] = "reparto"
        PROVE  cpc'[1] = "inicio" /\ EnVuelo(0, 1)' = <<>>
    <3>1. spc[0] = "reparto" /\ s # 0
      BY <1>1, <2>2 DEF Atiende, Llega
    <3>2. 0 \in Servers /\ mi_cliente(0) = 1 /\ mi_cliente(0) \in Clients
      BY Rangos DEF mi_cliente
    <3>3. 0 \in Ranks /\ 1 \in Ranks /\ 1 # s
      BY <1>1, <3>2, Rangos
    <3>4. EnVuelo(0, 1)' = EnVuelo(0, 1)
      BY <3>1, <3>3 DEF Atiende, Efecto
    <3> QED BY <3>1, <3>4 DEF IInv, Arranque, Atiende
  <2> QED BY <2>1, <2>2 DEF Arranque
<1> QED BY <1>2, <1>3, <1>4

(* The conversations of the other servers go on as they were, and so does  *)
(* that of s when it hears from another server and does not answer its     *)
(* client.                                                                 *)
LEMMA OtrasConversaciones ==
    ASSUME IInv, NEW s, NEW o, NEW m, NEW D, NEW a, NEW da, Atiende(s, o, m, D, a, da),
           NEW t \in Servers, t # s \/ (o \in Servers /\ ~ da),
           hay_pedido_local'[t] = hay_pedido_local[t],
           outstanding_reply'[t] = outstanding_reply[t]
    PROVE  ConversacionDe(t, EnVuelo(mi_cliente(t), t), EnVuelo(t, mi_cliente(t)),
                          cpc[mi_cliente(t)])'
<1> DEFINE c == mi_cliente(t)
<1>1. /\ s \in Servers /\ o \in Ranks /\ EnVuelo(o, s) # <<>> /\ D \subseteq Servers
      /\ cpc' = cpc /\ Llega(s, o, m)
  BY Origen DEF Atiende, Otros
<1>2. c \in Clients /\ c \in Ranks /\ t \in Ranks /\ c \notin Servers /\ c # s /\ c \notin D
      /\ s \in Ranks /\ (t # s => c # mi_cliente(s))
  <2>1. c \in Clients /\ (t # s => c # mi_cliente(s))
    BY <1>1, Rangos
  <2> HIDE DEF c
  <2> QED BY <1>1, <2>1, Rangos
<1>3. ~ (c = o /\ t = s) /\ ~ (t = o /\ c = s)
  BY <1>2
<1> HIDE DEF c
<1>4. EnVuelo(c, t)' = EnVuelo(c, t)
  BY <1>2, <1>3 DEF Atiende, Efecto
<1>5. EnVuelo(t, c)' = EnVuelo(t, c)
  BY <1>2, <1>3 DEF Atiende, Efecto
<1>6. ConversacionDe(t, EnVuelo(c, t), EnVuelo(t, c), cpc[c])
  BY DEF IInv, Conversacion, c
<1>7. ConversacionDe(t, EnVuelo(c, t), EnVuelo(t, c), cpc[c])'
  BY <1>1, <1>4, <1>5, <1>6 DEF ConversacionDe, Tiene
<1> QED BY <1>7 DEF c

(* The server's own: it takes a message of its client, or gives permission. *)
LEMMA SuConversacion ==
    ASSUME IInv, NEW s, NEW o, NEW m, NEW D, NEW a, NEW da, Atiende(s, o, m, D, a, da)
    PROVE  LET c == mi_cliente(s) IN
           /\ cpc'[c] = cpc[c]
           /\ EnVuelo(c, s) \in Seq(Messages) /\ EnVuelo(s, c) \in Seq(Messages)
           /\ EnVuelo(c, s)' = IF o = c THEN Tail(EnVuelo(c, s)) ELSE EnVuelo(c, s)
           /\ EnVuelo(s, c)' = IF da THEN Append(EnVuelo(s, c), Message("TAG_OTORGADO", 0))
                                     ELSE EnVuelo(s, c)
           /\ o = c => EnVuelo(c, s) # <<>> /\ m = Head(EnVuelo(c, s))
<1> DEFINE c == mi_cliente(s)
<1>1. s \in Servers /\ o \in Ranks /\ o # s /\ D \subseteq Servers /\ cpc' = cpc /\ Llega(s, o, m)
  BY Origen DEF Atiende, Otros
<1>2. c \in Ranks /\ s \in Ranks /\ c \notin Servers /\ c # s /\ c \notin D
  <2>1. c \in Clients
    BY <1>1, Rangos
  <2> HIDE DEF c
  <2> QED BY <1>1, <2>1, Rangos
<1>3. EnVuelo(c, s) \in Seq(Messages) /\ EnVuelo(s, c) \in Seq(Messages)
  BY <1>2, CanalTipo DEF IInv, Tipos, EnVuelo
<1>4. o = c => EnVuelo(c, s) # <<>> /\ m = Head(EnVuelo(c, s))
  BY <1>1, Origen
<1> HIDE DEF c
<1>5. EnVuelo(c, s)' = IF o = c THEN Tail(EnVuelo(c, s)) ELSE EnVuelo(c, s)
  BY <1>2 DEF Atiende, Efecto
<1>6. EnVuelo(s, c)' = IF da THEN Append(EnVuelo(s, c), Message("TAG_OTORGADO", 0))
                             ELSE EnVuelo(s, c)
  BY <1>1, <1>2 DEF Atiende, Efecto, c
<1> QED BY <1>1, <1>3, <1>4, <1>5, <1>6 DEF c

-----------------------------------------------------------------------------
(* Each handler preserves the invariant.                                   *)

ConversacionDeS(s) ==
    ConversacionDe(s, EnVuelo(mi_cliente(s), s), EnVuelo(s, mi_cliente(s)), cpc[mi_cliente(s)])

LEMMA DelInvariante ==
    ASSUME IInv
    PROVE  /\ \A s \in Servers : /\ ConversacionDeS(s)
                                 /\ hay_pedido_local[s] \in BOOLEAN
                                 /\ our_seq_nr[s] \in Nat /\ max_seq_nr[s] \in Nat
                                 /\ outstanding_reply[s] \in Nat
                                 /\ s \notin reply_deferred[s]
           /\ \A p \in Servers : \A q \in Otros(p) :
                Deuda(p, q) /\ Orden(p, q) /\ q \in Servers /\ p \in Otros(q) /\ p # q
           /\ \A s \in Servers : /\ {t \in Otros(s) : Espera(s, t)} \subseteq Otros(s)
                                 /\ outstanding_reply[s] = Cardinality({t \in Otros(s) : Espera(s, t)})
                                 /\ IsFiniteSet({t \in Otros(s) : Espera(s, t)})
                                 /\ (outstanding_reply[s] = 0 <=> \A t \in Otros(s) : ~ Espera(s, t))
                                 /\ ~ hay_pedido_local[s] => outstanding_reply[s] = 0
<1>1. \A s \in Servers : /\ ConversacionDeS(s)
                         /\ hay_pedido_local[s] \in BOOLEAN
                         /\ our_seq_nr[s] \in Nat /\ max_seq_nr[s] \in Nat
                         /\ outstanding_reply[s] \in Nat
                         /\ s \notin reply_deferred[s]
  BY DEF IInv, Tipos, Conversacion, ConversacionDeS
<1>2. \A p \in Servers : \A q \in Otros(p) :
         Deuda(p, q) /\ Orden(p, q) /\ q \in Servers /\ p \in Otros(q) /\ p # q
  BY DEF IInv, Pares, Otros
<1>3. ASSUME NEW s \in Servers
      PROVE  /\ {t \in Otros(s) : Espera(s, t)} \subseteq Otros(s)
             /\ outstanding_reply[s] = Cardinality({t \in Otros(s) : Espera(s, t)})
             /\ IsFiniteSet({t \in Otros(s) : Espera(s, t)})
             /\ (outstanding_reply[s] = 0 <=> \A t \in Otros(s) : ~ Espera(s, t))
             /\ ~ hay_pedido_local[s] => outstanding_reply[s] = 0
  <2> DEFINE E == {t \in Otros(s) : Espera(s, t)}
  <2>1. IsFiniteSet(E)
    BY CuantosServidores, FS_Subset
  <2>2. outstanding_reply[s] = Cardinality(E) /\ (~ hay_pedido_local[s] => outstanding_reply[s] = 0)
    BY DEF IInv, Cuenta
  <2>3. Cardinality(E) = 0 <=> E = {}
    BY <2>1, FS_EmptySet
  <2>4. E = {} <=> \A t \in Otros(s) : ~ Espera(s, t)
    OBVIOUS
  <2> QED BY <2>1, <2>2, <2>3, <2>4
<1> QED BY <1>1, <1>2, <1>3

(* The parts of IInv that a handler's own proof has to give. *)
LEMMA Reunir ==
    ASSUME IInv, NEW s, NEW o, NEW m, NEW D, NEW a, NEW da, Atiende(s, o, m, D, a, da),
           Tipos', Pares', Cuenta', ConversacionDeS(s)',
           \A t \in Servers \ {s} : /\ hay_pedido_local'[t] = hay_pedido_local[t]
                                    /\ outstanding_reply'[t] = outstanding_reply[t]
    PROVE  IInv'
<1>1. Conversacion'
  <2>1. ASSUME NEW t \in Servers, t # s
        PROVE  ConversacionDeS(t)'
    <3>1. ConversacionDe(t, EnVuelo(mi_cliente(t), t), EnVuelo(t, mi_cliente(t)),
                         cpc[mi_cliente(t)])'
      BY <2>1, OtrasConversaciones
    <3> QED BY <3>1 DEF ConversacionDeS
  <2>2. \A t \in Servers : ConversacionDeS(t)'
    BY <2>1
  <2> QED BY <2>2 DEF Conversacion, ConversacionDeS
<1> QED BY <1>1, RutasSiguen DEF IInv

(* Who owes a reply does not change: neither do the counts. *)
LEMMA CuentaSigue ==
    ASSUME IInv, NEW s \in Servers,
           \A p \in Servers : \A q \in Otros(p) : Espera(p, q)' <=> Espera(p, q),
           outstanding_reply' = outstanding_reply,
           \A p \in Servers : ~ hay_pedido_local'[p] =>
                                 ~ hay_pedido_local[p] \/ outstanding_reply[p] = 0
    PROVE  Cuenta'
<1> SUFFICES ASSUME NEW p \in Servers
             PROVE  /\ outstanding_reply'[p] = Cardinality({t \in Otros(p) : Espera(p, t)})'
                    /\ ~ hay_pedido_local'[p] => outstanding_reply'[p] = 0
  BY DEF Cuenta
<1>1. {t \in Otros(p) : Espera(p, t)'} = {t \in Otros(p) : Espera(p, t)}
  OBVIOUS
<1>2. Cardinality({t \in Otros(p) : Espera(p, t)})' = Cardinality({t \in Otros(p) : Espera(p, t)})
  BY <1>1 DEF Otros
<1> QED BY <1>2, DelInvariante

LEMMA PrimerMensaje ==
    ASSUME NEW t \in Tags, NEW S, S = <<>>
    PROVE  EsUno(Append(S, Message(t, 0)), t)
<1> DEFINE a == Message(t, 0)
<1>1. a \in Messages /\ a.tag = t /\ S \in Seq(Messages)
  BY Mensajes
<1> HIDE DEF a
<1>2. EsUno(Append(S, a), a.tag)
  BY <1>1, Cortas
<1> QED BY <1>1, <1>2 DEF a

LEMMA TrasPedido ==
    ASSUME IInv, NEW s \in Servers, NEW o \in Ranks, NEW m, Pedido(s, o, m),
           UNCHANGED clienteVars
    PROVE  IInv'
<1> DEFINE k == max_seq_nr[s] + 1
           a == Message("SRV_REQ", k)
<1> N \in Nat \ {0}
  BY NAssumption
<1>1. /\ Llega(s, o, m) /\ m.tag = "TAG_PEDIDO" /\ o = mi_cliente(s) /\ o \notin Servers
      /\ k \in Nat /\ a \in Messages /\ a.tag = "SRV_REQ" /\ a.number = k
      /\ cpc' = cpc /\ spc' = spc /\ max_seq_nr' = max_seq_nr /\ reply_deferred' = reply_deferred
  <2>1. Llega(s, o, m) /\ m.tag = "TAG_PEDIDO" /\ cpc' = cpc /\ spc' = spc
        /\ max_seq_nr' = max_seq_nr /\ reply_deferred' = reply_deferred
    BY DEF Pedido, clienteVars
  <2>2. o = mi_cliente(s) /\ mi_cliente(s) \notin Servers
    BY <2>1, Origen, Rangos
  <2>3. k \in Nat
    BY DelInvariante
  <2>4. a \in Messages /\ a.tag = "SRV_REQ" /\ a.number = k
    BY <2>3, Mensajes DEF Tags
  <2> QED BY <2>1, <2>2, <2>3, <2>4
<1>2. Atiende(s, o, m, Otros(s), a, N = 1)
  <2>1. Efecto(s, o, Otros(s), a, N = 1)
    BY EfectoDe
  <2> QED BY <1>1, <2>1 DEF Atiende, SrvTags
<1>3. /\ hay_pedido_local' = [hay_pedido_local EXCEPT ![s] = TRUE]
      /\ our_seq_nr' = [our_seq_nr EXCEPT ![s] = k]
      /\ outstanding_reply' = [outstanding_reply EXCEPT ![s] = N - 1]
  BY DEF Pedido
<1>4. /\ hay_pedido_local'[s] = TRUE /\ our_seq_nr'[s] = k /\ outstanding_reply'[s] = N - 1
      /\ \A t \in Servers \ {s} : /\ hay_pedido_local'[t] = hay_pedido_local[t]
                                  /\ our_seq_nr'[t] = our_seq_nr[t]
                                  /\ outstanding_reply'[t] = outstanding_reply[t]
  BY <1>3 DEF IInv, Tipos
<1>5. Tipos'
  <2>1. MPIState(mpi)'
    BY <1>2, RutasSiguen
  <2> QED BY <1>1, <1>3, <2>1 DEF IInv, Tipos
<1> HIDE DEF a, k
<1>20. \A p, q \in Servers : Cambio(p, q, s, o, m, Otros(s), a)
  BY <1>2, Cambios
<1>6. ~ hay_pedido_local[s] /\ ConversacionDeS(s)'
  <2> DEFINE c == mi_cliente(s)
  <2>1. /\ cpc'[c] = cpc[c]
        /\ EnVuelo(c, s) \in Seq(Messages) /\ EnVuelo(s, c) \in Seq(Messages)
        /\ EnVuelo(c, s)' = Tail(EnVuelo(c, s))
        /\ EnVuelo(s, c)' = IF N = 1 THEN Append(EnVuelo(s, c), Message("TAG_OTORGADO", 0))
                                     ELSE EnVuelo(s, c)
        /\ m = Head(EnVuelo(c, s)) /\ EnVuelo(c, s) # <<>>
    BY <1>1, <1>2, SuConversacion
  <2>2. ConversacionDe(s, EnVuelo(c, s), EnVuelo(s, c), cpc[c])
    BY DelInvariante DEF ConversacionDeS
  <2> HIDE DEF c
  <2>3. /\ ~ hay_pedido_local[s] /\ cpc[c] = "esperando"
        /\ EsUno(EnVuelo(c, s), "TAG_PEDIDO") /\ EnVuelo(s, c) = <<>>
    BY <1>1, <2>1, <2>2, Cortas DEF ConversacionDe
  <2>4. EnVuelo(c, s)' = <<>>
    BY <2>1, <2>3, Cortas
  <2>5. CASE N = 1
    <3>2. EsUno(EnVuelo(s, c)', "TAG_OTORGADO")
      BY <2>1, <2>3, <2>5, PrimerMensaje DEF Tags
    <3>3. outstanding_reply'[s] = 0 /\ hay_pedido_local'[s]
      BY <1>4, <2>5
    <3> QED BY <2>1, <2>3, <2>4, <3>2, <3>3 DEF ConversacionDeS, ConversacionDe, Tiene, c
  <2>6. CASE N # 1
    <3>1. outstanding_reply'[s] > 0 /\ hay_pedido_local'[s]
      BY <1>4, <2>6
    <3> QED BY <2>1, <2>3, <2>4, <2>6, <3>1 DEF ConversacionDeS, ConversacionDe, c
  <2> QED BY <2>3, <2>5, <2>6
<1>7. /\ \A t \in Otros(s) : ~ Espera(s, t)
      /\ \A t \in Otros(s) : ~ Hay(s, t, "SRV_REQ") /\ s \notin reply_deferred[t]
                             /\ ~ Hay(t, s, "SRV_REPLY")
  BY <1>6, DelInvariante DEF Espera
<1>8. \A p \in Servers : \A q \in Otros(p) :
         /\ Hay(p, q, "SRV_REQ")' <=> (p = s \/ Hay(p, q, "SRV_REQ"))
         /\ Hay(p, q, "SRV_REPLY")' <=> Hay(p, q, "SRV_REPLY")
  BY <1>1, <1>2, <1>20 DEF Cambio, Otros
<1>9. Pares'
  <2> SUFFICES ASSUME NEW p \in Servers, NEW q \in Otros(p)
               PROVE  Deuda(p, q)' /\ Orden(p, q)'
    BY DEF Pares, Otros
  <2>1. Deuda(p, q) /\ Orden(p, q) /\ q \in Servers /\ p \in Otros(q) /\ p # q
    BY DelInvariante
  <2>2. Unico(EnVuelo(p, q)', "SRV_REQ") /\ Unico(EnVuelo(q, p)', "SRV_REPLY")
    BY <1>1, <1>2, <1>7, <2>1, <1>20 DEF Cambio, Deuda
  <2>3. Numeros(EnVuelo(p, q)', our_seq_nr'[p])
    <3>1. CASE p = s
      <4>1. Numeros(EnVuelo(p, q), k)
        BY <1>7, <3>1 DEF Numeros, Hay
      <4> QED BY <1>1, <1>2, <1>4, <2>1, <3>1, <4>1, <1>20 DEF Cambio
    <3>2. CASE p # s
      BY <1>2, <1>4, <2>1, <3>2, <1>20 DEF Cambio, Deuda
    <3> QED BY <3>1, <3>2
  <2>4. Deuda(p, q)'
    <3>1. Unico(EnVuelo(p, q), "SRV_REQ")' /\ Unico(EnVuelo(q, p), "SRV_REPLY")'
          /\ Numeros(EnVuelo(p, q), our_seq_nr[p])'
      BY <2>2, <2>3 DEF Unico, Numeros
    <3> QED BY <1>1, <1>7, <1>8, <2>1, <3>1 DEF Deuda
  <2>5. Orden(p, q)'
    <3>1. CASE p = s
      BY <1>8, <3>1 DEF Orden, Recibido
    <3>2. CASE q = s
      <4>1. Recibido(p, q)' <=> Recibido(p, q)
        BY <1>4, <1>8, <2>1, <3>2 DEF Recibido
      <4>2. our_seq_nr[p] \in Nat /\ max_seq_nr[s] \in Nat
        BY DelInvariante
      <4>3. Recibido(p, q) => our_seq_nr[p] < k
        BY <2>1, <3>2, <4>2 DEF Orden, k
      <4> QED BY <1>1, <1>4, <2>1, <3>2, <4>1, <4>3 DEF Orden
    <3>3. CASE p # s /\ q # s
      BY <1>1, <1>4, <1>8, <2>1, <3>3 DEF Orden, Recibido
    <3> QED BY <3>1, <3>2, <3>3
  <2> QED BY <2>4, <2>5
<1>10. Cuenta'
  <2> SUFFICES ASSUME NEW p \in Servers
               PROVE  /\ outstanding_reply'[p] = Cardinality({t \in Otros(p) : Espera(p, t)})'
                      /\ ~ hay_pedido_local'[p] => outstanding_reply'[p] = 0
    BY DEF Cuenta
  <2>1. CASE p = s
    <3>1. \A t \in Otros(s) : Espera(s, t)'
      BY <1>8 DEF Espera
    <3>2. {t \in Otros(s) : Espera(s, t)'} = Otros(s)
      BY <3>1
    <3>3. Cardinality({t \in Otros(s) : Espera(s, t)})' = N - 1
      BY <3>2, CuantosServidores DEF Otros
    <3> QED BY <1>4, <2>1, <3>3
  <2>2. CASE p # s
    <3>1. \A t \in Otros(p) : Espera(p, t)' <=> Espera(p, t)
      <4> TAKE t \in Otros(p)
      <4>1. t \in Servers /\ p \in Otros(t)
        BY DelInvariante
      <4> QED BY <1>1, <1>8, <2>2, <4>1 DEF Espera
    <3>2. {t \in Otros(p) : Espera(p, t)'} = {t \in Otros(p) : Espera(p, t)}
      BY <3>1
    <3>3. Cardinality({t \in Otros(p) : Espera(p, t)})' = Cardinality({t \in Otros(p) : Espera(p, t)})
      BY <3>2 DEF Otros
    <3> QED BY <1>4, <2>2, <3>3, DelInvariante
  <2> QED BY <2>1, <2>2
<1> QED BY <1>2, <1>4, <1>5, <1>6, <1>9, <1>10, Reunir

(* SRV_REPLY: o no longer owes s its reply. *)
LEMMA TrasReply ==
    ASSUME IInv, NEW s \in Servers, NEW o \in Ranks, NEW m, Reply(s, o, m),
           UNCHANGED clienteVars
    PROVE  IInv'
<1> DEFINE a == Message("SRV_REPLY", 0)
           E == {t \in Otros(s) : Espera(s, t)}
<1>1. /\ Llega(s, o, m) /\ m.tag = "SRV_REPLY" /\ o \in Otros(s) /\ o \in Servers /\ o # s
      /\ a \in Messages /\ a.tag = "SRV_REPLY" /\ Hay(o, s, "SRV_REPLY")
      /\ cpc' = cpc /\ spc' = spc /\ hay_pedido_local' = hay_pedido_local
      /\ our_seq_nr' = our_seq_nr /\ max_seq_nr' = max_seq_nr /\ reply_deferred' = reply_deferred
  <2>1. Llega(s, o, m) /\ m.tag = "SRV_REPLY"
    BY DEF Reply
  <2>2. o \in Otros(s) /\ Hay(o, s, "SRV_REPLY")
    BY <2>1, Origen DEF Hay, Esta
  <2>3. a \in Messages /\ a.tag = "SRV_REPLY"
    BY Mensajes DEF Tags
  <2> QED BY <2>1, <2>2, <2>3 DEF Reply, clienteVars, Otros
<1>2. Atiende(s, o, m, {}, a, outstanding_reply[s] = 1)
  <2>1. Efecto(s, o, {}, a, outstanding_reply[s] = 1)
    BY EfectoDe
  <2> QED BY <1>1, <2>1 DEF Atiende, SrvTags
<1> HIDE DEF a
<1>20. \A p, q \in Servers : Cambio(p, q, s, o, m, {}, a)
  BY <1>2, Cambios
<1>3. /\ o \in E /\ outstanding_reply[s] \in Nat /\ outstanding_reply[s] > 0
      /\ hay_pedido_local[s]
  <2>1. Espera(s, o)
    BY <1>1 DEF Espera
  <2>2. outstanding_reply[s] # 0 /\ outstanding_reply[s] \in Nat
    BY <1>1, <2>1, DelInvariante
  <2>3. hay_pedido_local[s]
    BY <2>2, DelInvariante
  <2> QED BY <1>1, <2>1, <2>2, <2>3
<1>4. /\ outstanding_reply' = [outstanding_reply EXCEPT ![s] = outstanding_reply[s] - 1]
      /\ outstanding_reply'[s] = outstanding_reply[s] - 1
      /\ outstanding_reply[s] - 1 \in Nat
      /\ \A t \in Servers \ {s} : /\ hay_pedido_local'[t] = hay_pedido_local[t]
                                  /\ outstanding_reply'[t] = outstanding_reply[t]
  <2>1. outstanding_reply' = [outstanding_reply EXCEPT ![s] = outstanding_reply[s] - 1]
    BY DEF Reply
  <2>2. outstanding_reply[s] - 1 \in Nat
    BY <1>3, DelInvariante
  <2> QED BY <1>1, <2>1, <2>2 DEF IInv, Tipos
<1>5. Tipos'
  <2>1. MPIState(mpi)'
    BY <1>2, RutasSiguen
  <2> QED BY <1>1, <1>4, <2>1 DEF IInv, Tipos
<1>6. ConversacionDeS(s)'
  <2> DEFINE c == mi_cliente(s)
  <2>1. /\ cpc'[c] = cpc[c] /\ o # c
        /\ EnVuelo(c, s)' = EnVuelo(c, s)
        /\ EnVuelo(s, c)' = IF outstanding_reply[s] = 1
                            THEN Append(EnVuelo(s, c), Message("TAG_OTORGADO", 0))
                            ELSE EnVuelo(s, c)
    <3>1. c \notin Servers
      BY Rangos
    <3>2. o # c
      BY <1>1, <3>1
    <3> QED BY <1>2, <3>2, SuConversacion
  <2>2. ConversacionDe(s, EnVuelo(c, s), EnVuelo(s, c), cpc[c])
    BY DelInvariante DEF ConversacionDeS
  <2> HIDE DEF c
  <2>3. cpc[c] = "esperando" /\ EnVuelo(c, s) = <<>> /\ EnVuelo(s, c) = <<>>
    BY <1>3, <2>2 DEF ConversacionDe, Tiene
  <2>4. CASE outstanding_reply[s] = 1
    <3>1. EsUno(EnVuelo(s, c)', "TAG_OTORGADO")
      BY <2>1, <2>3, <2>4, PrimerMensaje DEF Tags
    <3>2. outstanding_reply'[s] = 0 /\ hay_pedido_local'[s]
      BY <1>1, <1>3, <1>4, <2>4
    <3> QED BY <2>1, <2>3, <3>1, <3>2 DEF ConversacionDeS, ConversacionDe, Tiene, c
  <2>5. CASE outstanding_reply[s] # 1
    <3>1. outstanding_reply'[s] > 0 /\ hay_pedido_local'[s]
      BY <1>1, <1>3, <1>4, <2>5
    <3> QED BY <2>1, <2>3, <2>5, <3>1 DEF ConversacionDeS, ConversacionDe, c
  <2> QED BY <2>4, <2>5
<1>7. \A p, q \in Servers :
         /\ Hay(p, q, "SRV_REQ")' <=> Hay(p, q, "SRV_REQ")
         /\ Hay(p, q, "SRV_REPLY")' => Hay(p, q, "SRV_REPLY")
         /\ ~ (p = o /\ q = s) => (Hay(p, q, "SRV_REPLY")' <=> Hay(p, q, "SRV_REPLY"))
  BY <1>1, <1>2, <1>20 DEF Cambio
<1>8. Pares'
  <2> SUFFICES ASSUME NEW p \in Servers, NEW q \in Otros(p)
               PROVE  Deuda(p, q)' /\ Orden(p, q)'
    BY DEF Pares, Otros
  <2>1. Deuda(p, q) /\ Orden(p, q) /\ q \in Servers /\ p \in Otros(q) /\ p # q
    BY DelInvariante
  <2>2. /\ Unico(EnVuelo(p, q)', "SRV_REQ") /\ Unico(EnVuelo(q, p)', "SRV_REPLY")
        /\ Numeros(EnVuelo(p, q)', our_seq_nr[p])
    BY <1>1, <1>2, <2>1, <1>20 DEF Cambio, Deuda
  <2>3. Unico(EnVuelo(p, q), "SRV_REQ")' /\ Unico(EnVuelo(q, p), "SRV_REPLY")'
        /\ Numeros(EnVuelo(p, q), our_seq_nr[p])'
    BY <1>1, <2>2 DEF Unico, Numeros
  <2>4. Deuda(p, q)'
    BY <1>1, <1>7, <2>1, <2>3 DEF Deuda
  <2>5. Orden(p, q)'
    BY <1>1, <1>7, <2>1 DEF Orden, Recibido
  <2> QED BY <2>4, <2>5
<1>9. Cuenta'
  <2> SUFFICES ASSUME NEW p \in Servers
               PROVE  /\ outstanding_reply'[p] = Cardinality({t \in Otros(p) : Espera(p, t)})'
                      /\ ~ hay_pedido_local'[p] => outstanding_reply'[p] = 0
    BY DEF Cuenta
  <2>1. CASE p = s
    <3>1. ~ Espera(s, o)'
      <4>1. Deuda(s, o)
        BY <1>1, DelInvariante
      <4>2. ~ Hay(o, s, "SRV_REPLY")'
        BY <1>1, <1>2, <4>1, <1>20 DEF Cambio, Deuda
      <4> QED BY <1>1, <1>7, <4>1, <4>2 DEF Deuda, Espera
    <3>2. \A t \in Otros(s) \ {o} : Espera(s, t)' <=> Espera(s, t)
      BY <1>1, <1>7 DEF Espera, Otros
    <3>3. {t \in Otros(s) : Espera(s, t)'} = E \ {o}
      BY <3>1, <3>2
    <3>4. Cardinality(E \ {o}) = Cardinality(E) - 1 /\ outstanding_reply[s] = Cardinality(E)
      BY <1>3, DelInvariante, FS_RemoveElement
    <3>5. Cardinality({t \in Otros(s) : Espera(s, t)})' = outstanding_reply[s] - 1
      BY <3>3, <3>4 DEF Otros
    <3> QED BY <1>1, <1>3, <1>4, <2>1, <3>5
  <2>2. CASE p # s
    <3>1. \A t \in Otros(p) : Espera(p, t)' <=> Espera(p, t)
      BY <1>1, <1>7, <2>2 DEF Espera, Otros
    <3>2. {t \in Otros(p) : Espera(p, t)'} = {t \in Otros(p) : Espera(p, t)}
      BY <3>1
    <3>3. Cardinality({t \in Otros(p) : Espera(p, t)})' = Cardinality({t \in Otros(p) : Espera(p, t)})
      BY <3>2 DEF Otros
    <3> QED BY <1>4, <2>2, <3>3, DelInvariante
  <2> QED BY <2>1, <2>2
<1> QED BY <1>2, <1>4, <1>5, <1>6, <1>8, <1>9, Reunir

(* TAG_LIBERO: the replies that were postponed are now on the way. *)
LEMMA TrasLibero ==
    ASSUME IInv, NEW s \in Servers, NEW o \in Ranks, NEW m, Libero(s, o, m),
           UNCHANGED clienteVars
    PROVE  IInv'
<1> DEFINE a == Message("SRV_REPLY", 0)
           D == reply_deferred[s]
<1>1. /\ Llega(s, o, m) /\ m.tag = "TAG_LIBERO" /\ o = mi_cliente(s) /\ o \notin Servers
      /\ a \in Messages /\ a.tag = "SRV_REPLY" /\ D \subseteq Otros(s)
      /\ cpc' = cpc /\ spc' = spc /\ our_seq_nr' = our_seq_nr /\ max_seq_nr' = max_seq_nr
      /\ outstanding_reply' = outstanding_reply
  <2>1. Llega(s, o, m) /\ m.tag = "TAG_LIBERO"
    BY DEF Libero
  <2>2. o = mi_cliente(s) /\ mi_cliente(s) \notin Servers
    BY <2>1, Origen, Rangos
  <2>3. a \in Messages /\ a.tag = "SRV_REPLY"
    BY Mensajes DEF Tags
  <2>4. D \subseteq Otros(s)
    BY DEF IInv, Tipos, Otros
  <2> QED BY <2>1, <2>2, <2>3, <2>4 DEF Libero, clienteVars
<1>2. Atiende(s, o, m, D, a, FALSE)
  <2>1. Efecto(s, o, D, a, FALSE)
    BY EfectoDe
  <2> QED BY <1>1, <2>1 DEF Atiende, SrvTags
<1>3. /\ hay_pedido_local' = [hay_pedido_local EXCEPT ![s] = FALSE]
      /\ reply_deferred' = [reply_deferred EXCEPT ![s] = {}]
  BY DEF Libero
<1>4. /\ ~ hay_pedido_local'[s] /\ reply_deferred'[s] = {}
      /\ \A t \in Servers \ {s} : /\ hay_pedido_local'[t] = hay_pedido_local[t]
                                  /\ reply_deferred'[t] = reply_deferred[t]
  BY <1>3 DEF IInv, Tipos
<1>5. Tipos'
  <2>1. MPIState(mpi)'
    BY <1>2, RutasSiguen
  <2> QED BY <1>1, <1>3, <2>1 DEF IInv, Tipos
<1> HIDE DEF a, D
<1>20. \A p, q \in Servers : Cambio(p, q, s, o, m, D, a)
  BY <1>2, Cambios
<1>6. Tiene(s) /\ ConversacionDeS(s)'
  <2> DEFINE c == mi_cliente(s)
  <2>1. /\ cpc'[c] = cpc[c] /\ EnVuelo(c, s) \in Seq(Messages)
        /\ EnVuelo(c, s)' = Tail(EnVuelo(c, s)) /\ EnVuelo(s, c)' = EnVuelo(s, c)
        /\ m = Head(EnVuelo(c, s)) /\ EnVuelo(c, s) # <<>>
    BY <1>1, <1>2, SuConversacion
  <2>2. ConversacionDe(s, EnVuelo(c, s), EnVuelo(s, c), cpc[c])
    BY DelInvariante DEF ConversacionDeS
  <2> HIDE DEF c
  <2>3. /\ Tiene(s) /\ EnVuelo(s, c) = <<>>
        /\ \/ cpc[c] = "previo" /\ EsUno(EnVuelo(c, s), "TAG_LIBERO")
           \/ cpc[c] = "esperando" /\ EsDos(EnVuelo(c, s), "TAG_LIBERO", "TAG_PEDIDO")
           \/ /\ cpc[c] \in {"terminando", "fin"}
              /\ EsDos(EnVuelo(c, s), "TAG_LIBERO", "TAG_TERMINE")
    BY <1>1, <2>1, <2>2, Cortas DEF ConversacionDe
  <2>4. \/ cpc[c] = "previo" /\ EnVuelo(c, s)' = <<>>
        \/ cpc[c] = "esperando" /\ EsUno(EnVuelo(c, s)', "TAG_PEDIDO")
        \/ cpc[c] \in {"terminando", "fin"} /\ EsUno(EnVuelo(c, s)', "TAG_TERMINE")
    BY <2>1, <2>3, Cortas
  <2> QED BY <1>4, <2>1, <2>3, <2>4 DEF ConversacionDeS, ConversacionDe, c
<1>7. \A p, q \in Servers :
         /\ Hay(p, q, "SRV_REQ")' <=> Hay(p, q, "SRV_REQ")
         /\ Hay(p, q, "SRV_REPLY")' <=> (Hay(p, q, "SRV_REPLY") \/ (p = s /\ q \in D))
  <2> TAKE p, q \in Servers
  <2>1. ~ (p = o /\ q = s)
    BY <1>1
  <2>2. \A tag : Hay(p, q, tag)' <=> (Hay(p, q, tag) \/ (p = s /\ q \in D /\ tag = a.tag))
    BY <1>2, <2>1, <1>20 DEF Cambio
  <2> QED BY <1>1, <2>2
<1>8. Pares'
  <2> SUFFICES ASSUME NEW p \in Servers, NEW q \in Otros(p)
               PROVE  Deuda(p, q)' /\ Orden(p, q)'
    BY DEF Pares, Otros
  <2>1. Deuda(p, q) /\ Orden(p, q) /\ q \in Servers /\ p \in Otros(q) /\ p # q
    BY DelInvariante
  <2>2. /\ Unico(EnVuelo(p, q)', "SRV_REQ") /\ Unico(EnVuelo(q, p)', "SRV_REPLY")
        /\ Numeros(EnVuelo(p, q)', our_seq_nr[p])
    <3>1. ~ (q = s /\ p \in D /\ Hay(q, p, "SRV_REPLY"))
      BY <2>1 DEF Deuda, D
    <3>2. Unico(EnVuelo(q, p)', "SRV_REPLY")
      <4>1. /\ Unico(EnVuelo(q, p), "SRV_REPLY")
            /\ ~ (q = s /\ p \in D /\ "SRV_REPLY" = a.tag /\ Hay(q, p, "SRV_REPLY"))
            => Unico(EnVuelo(q, p)', "SRV_REPLY")
        BY <1>2, <2>1, <1>20 DEF Cambio
      <4>2. Unico(EnVuelo(q, p), "SRV_REPLY")
        BY <2>1 DEF Deuda
      <4> QED BY <3>1, <4>1, <4>2
    <3>3. Unico(EnVuelo(p, q)', "SRV_REQ") /\ Numeros(EnVuelo(p, q)', our_seq_nr[p])
      BY <1>1, <1>2, <2>1, <1>20 DEF Cambio, Deuda
    <3> QED BY <3>2, <3>3
  <2>3. Unico(EnVuelo(p, q), "SRV_REQ")' /\ Unico(EnVuelo(q, p), "SRV_REPLY")'
        /\ Numeros(EnVuelo(p, q), our_seq_nr[p])'
    BY <1>1, <2>2 DEF Unico, Numeros
  <2>4. Deuda(p, q)'
    <3>1. CASE q = s
      BY <1>4, <1>7, <2>1, <2>3, <3>1 DEF Deuda, D
    <3>2. CASE q # s
      BY <1>4, <1>7, <2>1, <2>3, <3>2 DEF Deuda
    <3> QED BY <3>1, <3>2
  <2>5. Orden(p, q)'
    <3>1. CASE p = s
      BY <1>4, <3>1 DEF Orden, Recibido
    <3>2. CASE p # s
      BY <1>1, <1>4, <1>7, <2>1, <3>2 DEF Orden, Recibido
    <3> QED BY <3>1, <3>2
  <2> QED BY <2>4, <2>5
<1>9. \A p \in Servers : \A q \in Otros(p) : Espera(p, q)' <=> Espera(p, q)
  <2> TAKE p \in Servers
  <2> TAKE q \in Otros(p)
  <2>1. q \in Servers /\ p \in Servers
    BY DelInvariante
  <2> QED BY <1>4, <1>7, <2>1 DEF Espera, D
<1>10. Cuenta'
  <2>1. \A p \in Servers : ~ hay_pedido_local'[p] =>
                              ~ hay_pedido_local[p] \/ outstanding_reply[p] = 0
    BY <1>4, <1>6 DEF Tiene
  <2> QED BY <1>1, <1>9, <2>1, CuentaSigue
<1> QED BY <1>1, <1>2, <1>4, <1>5, <1>6, <1>8, <1>10, Reunir

(* SRV_REQ: the reply that the request asks for is postponed or sent. *)
LEMMA TrasReq ==
    ASSUME IInv, NEW s \in Servers, NEW o \in Ranks, NEW m, Req(s, o, m),
           UNCHANGED clienteVars
    PROVE  IInv'
<1> DEFINE a == Message("SRV_REPLY", 0)
           cede == ~ Prioridad(s, o, m.number)
           D == IF Prioridad(s, o, m.number) THEN {} ELSE {o}
<1>1. /\ Llega(s, o, m) /\ m.tag = "SRV_REQ" /\ o \in Otros(s) /\ o \in Servers /\ o # s
      /\ a \in Messages /\ a.tag = "SRV_REPLY" /\ D \subseteq Otros(s)
      /\ (\A q : q \in D <=> q = o /\ cede) /\ Hay(o, s, "SRV_REQ")
      /\ cpc' = cpc /\ spc' = spc /\ our_seq_nr' = our_seq_nr
      /\ hay_pedido_local' = hay_pedido_local /\ outstanding_reply' = outstanding_reply
  <2>1. Llega(s, o, m) /\ m.tag = "SRV_REQ"
    BY DEF Req
  <2>2. o \in Otros(s) /\ Hay(o, s, "SRV_REQ")
    BY <2>1, Origen DEF Hay, Esta
  <2>3. a \in Messages /\ a.tag = "SRV_REPLY"
    BY Mensajes DEF Tags
  <2> QED BY <2>1, <2>2, <2>3 DEF Req, clienteVars, Otros
<1>2. Atiende(s, o, m, D, a, FALSE)
  <2>1. Efecto(s, o, D, a, FALSE)
    BY EfectoDe
  <2> QED BY <1>1, <2>1 DEF Atiende, SrvTags
<1>3. m.number = our_seq_nr[o] /\ our_seq_nr[o] \in Nat /\ m.number \in Nat
  <2>1. EnVuelo(o, s) \in Seq(Messages) /\ EnVuelo(o, s) # <<>> /\ m = Head(EnVuelo(o, s))
    BY <1>1, Origen
  <2>2. Numeros(EnVuelo(o, s), our_seq_nr[o]) /\ our_seq_nr[o] \in Nat
    BY <1>1, DelInvariante DEF Deuda, Otros
  <2> QED BY <1>1, <2>1, <2>2, AlSacar
<1>4. /\ max_seq_nr' = [max_seq_nr EXCEPT ![s] = IF m.number > @ THEN m.number ELSE @]
      /\ cede => reply_deferred' = reply_deferred
      /\ ~ cede => reply_deferred' = [reply_deferred EXCEPT ![s] = @ \cup {o}]
  BY DEF Req
<1> HIDE DEF a, D, cede
<1>20. \A p, q \in Servers : Cambio(p, q, s, o, m, D, a)
  BY <1>2, Cambios
<1>5. /\ max_seq_nr'[s] \in Nat /\ max_seq_nr'[s] >= m.number
      /\ max_seq_nr'[s] >= max_seq_nr[s]
      /\ \A t \in Servers \ {s} : max_seq_nr'[t] = max_seq_nr[t]
      /\ reply_deferred'[s] = IF cede THEN reply_deferred[s] ELSE reply_deferred[s] \cup {o}
      /\ \A t \in Servers \ {s} : reply_deferred'[t] = reply_deferred[t]
  <2>1. /\ max_seq_nr'[s] = (IF m.number > max_seq_nr[s] THEN m.number ELSE max_seq_nr[s])
        /\ \A t \in Servers \ {s} : max_seq_nr'[t] = max_seq_nr[t]
    BY <1>4 DEF IInv, Tipos
  <2>2. max_seq_nr[s] \in Nat
    BY DelInvariante
  <2>3. /\ reply_deferred'[s] = IF cede THEN reply_deferred[s] ELSE reply_deferred[s] \cup {o}
        /\ \A t \in Servers \ {s} : reply_deferred'[t] = reply_deferred[t]
    BY <1>4 DEF IInv, Tipos
  <2> QED BY <1>3, <2>1, <2>2, <2>3
<1>6. Tipos'
  <2>1. MPIState(mpi)'
    BY <1>2, RutasSiguen
  <2>2. max_seq_nr' \in [Servers -> Nat]
    BY <1>4, <1>5 DEF IInv, Tipos
  <2>3. reply_deferred' \in [Servers -> SUBSET Servers]
        /\ \A t \in Servers : t \notin reply_deferred'[t]
    BY <1>1, <1>4, <1>5 DEF IInv, Tipos
  <2> QED BY <1>1, <2>1, <2>2, <2>3 DEF IInv, Tipos
<1>7. ConversacionDeS(s)'
  BY <1>1, <1>2, OtrasConversaciones DEF ConversacionDeS
<1>8. \A p, q \in Servers :
         /\ ~ (p = o /\ q = s) => (Hay(p, q, "SRV_REQ")' <=> Hay(p, q, "SRV_REQ"))
         /\ Hay(p, q, "SRV_REPLY")' <=> (Hay(p, q, "SRV_REPLY") \/ (p = s /\ q = o /\ cede))
  <2> TAKE p, q \in Servers
  <2>1. CASE p = o /\ q = s
    BY <1>1, <1>2, <2>1, <1>20 DEF Cambio
  <2>2. CASE ~ (p = o /\ q = s)
    <3>1. \A tag : Hay(p, q, tag)' <=> (Hay(p, q, tag) \/ (p = s /\ q \in D /\ tag = a.tag))
      BY <1>2, <2>2, <1>20 DEF Cambio
    <3> QED BY <1>1, <2>2, <3>1
  <2> QED BY <2>1, <2>2
<1>9. /\ ~ Hay(o, s, "SRV_REQ")' /\ ~ Hay(s, o, "SRV_REPLY") /\ o \notin reply_deferred[s]
  <2>1. Deuda(o, s)
    BY <1>1, DelInvariante DEF Otros
  <2>2. Unico(EnVuelo(o, s), "SRV_REQ") /\ m.tag = "SRV_REQ" => ~ Hay(o, s, "SRV_REQ")'
    BY <1>1, <1>2, <1>20 DEF Cambio
  <2> QED BY <1>1, <2>1, <2>2 DEF Deuda
<1>10. Pares'
  <2> SUFFICES ASSUME NEW p \in Servers, NEW q \in Otros(p)
               PROVE  Deuda(p, q)' /\ Orden(p, q)'
    BY DEF Pares, Otros
  <2>1. Deuda(p, q) /\ Orden(p, q) /\ q \in Servers /\ p \in Otros(q) /\ p # q
    BY DelInvariante
  <2>2. Unico(EnVuelo(p, q)', "SRV_REQ") /\ Numeros(EnVuelo(p, q)', our_seq_nr[p])
    <3>1. /\ Unico(EnVuelo(p, q), "SRV_REQ")
             /\ ~ (p = s /\ q \in D /\ "SRV_REQ" = a.tag /\ Hay(p, q, "SRV_REQ"))
             => Unico(EnVuelo(p, q)', "SRV_REQ")
          /\ \A k : /\ Numeros(EnVuelo(p, q), k)
                    /\ ~ (p = s /\ q \in D /\ a.tag = "SRV_REQ" /\ a.number # k)
                    => Numeros(EnVuelo(p, q)', k)
      BY <1>2, <2>1, <1>20 DEF Cambio
    <3>2. Unico(EnVuelo(p, q), "SRV_REQ") /\ Numeros(EnVuelo(p, q), our_seq_nr[p])
      BY <2>1 DEF Deuda
    <3> QED BY <1>1, <3>1, <3>2
  <2>3. Unico(EnVuelo(q, p)', "SRV_REPLY")
    <3>1. ~ (q = s /\ p \in D /\ Hay(q, p, "SRV_REPLY"))
      BY <1>1, <1>9
    <3> QED BY <1>2, <2>1, <3>1, <1>20 DEF Cambio, Deuda
  <2>4. Unico(EnVuelo(p, q), "SRV_REQ")' /\ Unico(EnVuelo(q, p), "SRV_REPLY")'
        /\ Numeros(EnVuelo(p, q), our_seq_nr[p])'
    BY <1>1, <2>2, <2>3 DEF Unico, Numeros
  <2>5. CASE p = o /\ q = s
    <3>1. Deuda(p, q)'
      BY <1>5, <1>8, <1>9, <2>1, <2>4, <2>5 DEF Deuda
    <3>2. cede /\ hay_pedido_local[s] =>
            our_seq_nr[o] < our_seq_nr[s] \/ (our_seq_nr[o] = our_seq_nr[s] /\ o < s)
      <4>1. our_seq_nr[s] \in Nat /\ o \in Nat /\ s \in Nat
        BY <1>1, DelInvariante, Rangos
      <4> QED BY <1>1, <1>3, <4>1 DEF cede, Prioridad
    <3>3. ~ cede => o \in reply_deferred'[s]
      BY <1>5
    <3> QED BY <1>1, <1>3, <1>5, <2>5, <3>1, <3>2, <3>3 DEF Orden
  <2>6. CASE ~ (p = o /\ q = s)
    <3>1. p \in reply_deferred'[q] <=> p \in reply_deferred[q]
      BY <1>5, <2>1, <2>6
    <3>2. Deuda(p, q)'
      <4>1. ~ (q = s /\ p = o)
        BY <2>6
      <4> QED BY <1>8, <2>1, <2>4, <2>6, <3>1, <4>1 DEF Deuda
    <3>3. Recibido(p, q)' <=> Recibido(p, q)
      BY <1>1, <1>8, <2>1, <2>6 DEF Recibido
    <3>4. Recibido(p, q)' => max_seq_nr'[q] >= our_seq_nr'[p]
      <4>1. max_seq_nr[q] \in Nat /\ our_seq_nr[p] \in Nat /\ max_seq_nr[s] \in Nat
        BY <2>1, DelInvariante
      <4>2. CASE q = s
        BY <1>1, <1>5, <2>1, <3>3, <4>1, <4>2 DEF Orden
      <4>3. CASE q # s
        BY <1>1, <1>5, <2>1, <3>3, <4>3 DEF Orden
      <4> QED BY <4>2, <4>3
    <3> QED BY <1>1, <2>1, <3>1, <3>2, <3>3, <3>4 DEF Orden
  <2> QED BY <2>5, <2>6
<1>11. \A p \in Servers : \A q \in Otros(p) : Espera(p, q)' <=> Espera(p, q)
  <2> TAKE p \in Servers
  <2> TAKE q \in Otros(p)
  <2>1. q \in Servers /\ p # q
    BY DelInvariante
  <2>2. CASE p = o /\ q = s
    BY <1>1, <1>5, <1>8, <2>2 DEF Espera
  <2>3. CASE ~ (p = o /\ q = s)
    <3>1. p \in reply_deferred'[q] <=> p \in reply_deferred[q]
      BY <1>5, <2>1, <2>3
    <3> QED BY <1>8, <2>1, <2>3, <3>1 DEF Espera
  <2> QED BY <2>2, <2>3
<1>12. Cuenta'
  BY <1>1, <1>11, CuentaSigue
<1> QED BY <1>1, <1>2, <1>6, <1>7, <1>10, <1>12, Reunir

(* Nothing about requests and replies changes. *)
LEMMA ParesSiguen ==
    ASSUME IInv,
           \A p, q \in Servers :
              /\ Hay(p, q, "SRV_REQ")' <=> Hay(p, q, "SRV_REQ")
              /\ Hay(p, q, "SRV_REPLY")' <=> Hay(p, q, "SRV_REPLY")
              /\ Unico(EnVuelo(p, q), "SRV_REQ") => Unico(EnVuelo(p, q)', "SRV_REQ")
              /\ Unico(EnVuelo(p, q), "SRV_REPLY") => Unico(EnVuelo(p, q)', "SRV_REPLY")
              /\ \A k : Numeros(EnVuelo(p, q), k) => Numeros(EnVuelo(p, q)', k),
           UNCHANGED <<hay_pedido_local, our_seq_nr, max_seq_nr, outstanding_reply,
                       reply_deferred>>
    PROVE  Pares' /\ Cuenta'
<1>1. Pares'
  <2> SUFFICES ASSUME NEW p \in Servers, NEW q \in Otros(p)
               PROVE  Deuda(p, q)' /\ Orden(p, q)'
    BY DEF Pares, Otros
  <2>1. Deuda(p, q) /\ Orden(p, q) /\ q \in Servers
    BY DelInvariante
  <2>2. Unico(EnVuelo(p, q), "SRV_REQ")' /\ Unico(EnVuelo(q, p), "SRV_REPLY")'
        /\ Numeros(EnVuelo(p, q), our_seq_nr[p])'
    BY <2>1 DEF Deuda, Unico, Numeros
  <2> QED BY <2>1, <2>2 DEF Deuda, Orden, Recibido
<1>2. Cuenta'
  <2>1. \A p \in Servers : \A q \in Otros(p) : Espera(p, q)' <=> Espera(p, q)
    BY DEF Espera, Otros
  <2> QED BY <2>1, Rangos, CuentaSigue
<1> QED BY <1>1, <1>2

(* TAG_TERMINE and SRV_FINISHED. *)
LEMMA TrasTermine ==
    ASSUME IInv, NEW s \in Servers, NEW o \in Ranks, NEW m,
           Termine(s, o, m) \/ Finished(s, o, m), UNCHANGED clienteVars
    PROVE  IInv'
<1> DEFINE D == IF m.tag = "TAG_TERMINE" THEN Otros(s) ELSE {}
           a == IF m.tag = "TAG_TERMINE" THEN Message("SRV_FINISHED", 0)
                                         ELSE Message("SRV_REPLY", 0)
<1>1. /\ Llega(s, o, m) /\ m.tag \in {"TAG_TERMINE", "SRV_FINISHED"}
      /\ m.tag = "TAG_TERMINE" => o = mi_cliente(s) /\ a.tag = "SRV_FINISHED"
      /\ m.tag = "SRV_FINISHED" => o \in Servers /\ D = {}
      /\ a \in Messages /\ a.tag \in SrvTags /\ D \subseteq Otros(s)
      /\ UNCHANGED <<cpc, hay_pedido_local, our_seq_nr, max_seq_nr, outstanding_reply,
                     reply_deferred>>
  <2>1. Llega(s, o, m) /\ m.tag \in {"TAG_TERMINE", "SRV_FINISHED"}
        /\ UNCHANGED <<cpc, hay_pedido_local, our_seq_nr, max_seq_nr, outstanding_reply,
                       reply_deferred>>
    BY DEF Termine, Finished, UnoMenos, clienteVars
  <2>2. /\ m.tag = "TAG_TERMINE" => o = mi_cliente(s)
        /\ m.tag = "SRV_FINISHED" => o \in Servers
    BY <2>1, Origen DEF Otros
  <2>3. /\ Message("SRV_FINISHED", 0) \in Messages /\ Message("SRV_REPLY", 0) \in Messages
        /\ Message("SRV_FINISHED", 0).tag = "SRV_FINISHED"
        /\ Message("SRV_REPLY", 0).tag = "SRV_REPLY"
    BY Mensajes DEF Tags
  <2> QED BY <2>1, <2>2, <2>3 DEF SrvTags
<1>2. spc' \in [Servers -> {"reparto", "sirviendo", "fin"}]
      /\ (spc'[0] = "reparto" => spc[0] = "reparto")
  <2>1. spc' = [spc EXCEPT ![s] = IF clients_alive'[s] = 0 THEN "fin" ELSE @]
    BY DEF Termine, Finished, UnoMenos
  <2>2. spc \in [Servers -> {"reparto", "sirviendo", "fin"}] /\ 0 \in Servers
    BY Rangos DEF IInv, Tipos
  <2> QED BY <2>1, <2>2
<1>3. Atiende(s, o, m, D, a, FALSE)
  <2>1. Efecto(s, o, D, a, FALSE)
    <3>1. CASE Termine(s, o, m)
      <4>1. m.tag = "TAG_TERMINE" /\ Efecto(s, o, Otros(s), Message("SRV_FINISHED", 0), FALSE)
        BY <3>1, EfectoDe DEF Termine
      <4> QED BY <4>1
    <3>2. CASE Finished(s, o, m)
      <4>1. m.tag = "SRV_FINISHED" /\ Efecto(s, o, {}, Message("SRV_REPLY", 0), FALSE)
        BY <3>2, EfectoDe DEF Finished
      <4> QED BY <4>1
    <3> QED BY <3>1, <3>2
  <2> QED BY <1>1, <1>2, <2>1 DEF Atiende
<1> HIDE DEF a, D
<1>20. \A p, q \in Servers : Cambio(p, q, s, o, m, D, a)
  BY <1>3, Cambios
<1>4. Tipos'
  <2>1. MPIState(mpi)'
    BY <1>3, RutasSiguen
  <2> QED BY <1>1, <1>2, <2>1 DEF IInv, Tipos
<1>5. ConversacionDeS(s)'
  <2>1. CASE m.tag = "SRV_FINISHED"
    BY <1>1, <1>3, <2>1, OtrasConversaciones DEF ConversacionDeS
  <2>2. CASE m.tag = "TAG_TERMINE"
    <3> DEFINE c == mi_cliente(s)
    <3>1. /\ cpc'[c] = cpc[c] /\ EnVuelo(c, s) \in Seq(Messages)
          /\ EnVuelo(c, s)' = Tail(EnVuelo(c, s)) /\ EnVuelo(s, c)' = EnVuelo(s, c)
          /\ m = Head(EnVuelo(c, s)) /\ EnVuelo(c, s) # <<>>
      BY <1>1, <1>3, <2>2, SuConversacion
    <3>2. ConversacionDe(s, EnVuelo(c, s), EnVuelo(s, c), cpc[c])
      BY DelInvariante DEF ConversacionDeS
    <3> HIDE DEF c
    <3>3. /\ ~ hay_pedido_local[s] /\ cpc[c] \in {"terminando", "fin"}
          /\ EsUno(EnVuelo(c, s), "TAG_TERMINE") /\ EnVuelo(s, c) = <<>>
      BY <2>2, <3>1, <3>2, Cortas DEF ConversacionDe
    <3>4. EnVuelo(c, s)' = <<>>
      BY <3>1, <3>3, Cortas
    <3> QED BY <1>1, <3>1, <3>3, <3>4 DEF ConversacionDeS, ConversacionDe, c
  <2> QED BY <1>1, <2>1, <2>2
<1>6. \A p, q \in Servers :
         /\ Hay(p, q, "SRV_REQ")' <=> Hay(p, q, "SRV_REQ")
         /\ Hay(p, q, "SRV_REPLY")' <=> Hay(p, q, "SRV_REPLY")
         /\ Unico(EnVuelo(p, q), "SRV_REQ") => Unico(EnVuelo(p, q)', "SRV_REQ")
         /\ Unico(EnVuelo(p, q), "SRV_REPLY") => Unico(EnVuelo(p, q)', "SRV_REPLY")
         /\ \A k : Numeros(EnVuelo(p, q), k) => Numeros(EnVuelo(p, q)', k)
  <2> TAKE p, q \in Servers
  <2>1. ~ (p = s /\ q \in D) \/ a.tag = "SRV_FINISHED"
    BY <1>1
  <2>2. m.tag # "SRV_REQ" /\ m.tag # "SRV_REPLY"
    BY <1>1
  <2>3. Hay(p, q, "SRV_REQ")' <=> Hay(p, q, "SRV_REQ")
    BY <1>3, <2>1, <2>2, <1>20 DEF Cambio
  <2>4. Hay(p, q, "SRV_REPLY")' <=> Hay(p, q, "SRV_REPLY")
    BY <1>3, <2>1, <2>2, <1>20 DEF Cambio
  <2>5. \A tag : Unico(EnVuelo(p, q), tag) /\ tag \in {"SRV_REQ", "SRV_REPLY"}
                     => Unico(EnVuelo(p, q)', tag)
    BY <1>3, <2>1, <1>20 DEF Cambio
  <2>6. \A k : Numeros(EnVuelo(p, q), k) => Numeros(EnVuelo(p, q)', k)
    BY <1>3, <2>1, <1>20 DEF Cambio
  <2> QED BY <2>3, <2>4, <2>5, <2>6
<1>7. Pares' /\ Cuenta'
  BY <1>1, <1>6, ParesSiguen
<1> QED BY <1>1, <1>3, <1>4, <1>5, <1>7, Reunir

-----------------------------------------------------------------------------
(* The clients and the start.                                              *)

(* What a step of c, the client of s, has to show. *)
LEMMA TrasCliente ==
    ASSUME IInv, NEW s \in Servers, NEW c, c = mi_cliente(s), UNCHANGED servidorVars,
           MPIState(mpi)', cpc' \in [Clients -> CPCs], ConversacionDeS(s)',
           \A d \in Clients \ {c} : cpc'[d] = cpc[d],
           \A p, r \in Ranks : EnVuelo(p, r)' = EnVuelo(p, r) \/ r = c \/ (p = c /\ r = s),
           \A d \in Clients : cpc'[d] = "critica" => ~ Blocked(d)',
           c = 1 => spc[0] # "reparto"
    PROVE  IInv'
<1> c \in Clients /\ c \notin Servers
  BY Rangos
<1>1. Tipos'
  BY DEF IInv, Tipos, servidorVars
<1>2. \A p \in Ranks : \A t \in Servers :
         EnVuelo(p, t)' = EnVuelo(p, t) \/ (p = c /\ t = s)
  BY Rangos
<1>3. Rutas'
  <2> SUFFICES ASSUME NEW t \in Servers
               PROVE  /\ EnVuelo(t, t)' = <<>>
                      /\ \A d \in Clients : d # mi_cliente(t) => EnVuelo(d, t)' = <<>>
                      /\ \A u \in Servers : \A tag : Esta(EnVuelo(u, t)', tag) => tag \in SrvTags
    BY DEF Rutas, SrvTags
  <2>1. \A u \in Servers : EnVuelo(u, t)' = EnVuelo(u, t)
    BY <1>2, Rangos
  <2>2. \A d \in Clients : d # mi_cliente(t) => EnVuelo(d, t)' = EnVuelo(d, t)
    BY <1>2, Rangos
  <2> QED BY <2>1, <2>2 DEF IInv, Rutas, SrvTags
<1>4. Conversacion'
  <2>1. ASSUME NEW t \in Servers, t # s
        PROVE  ConversacionDeS(t)'
    <3> DEFINE d == mi_cliente(t)
    <3>1. d \in Clients /\ d # c /\ d \in Ranks /\ t \in Ranks
      BY <2>1, Rangos
    <3>2. ConversacionDe(t, EnVuelo(d, t), EnVuelo(t, d), cpc[d])
      BY DelInvariante DEF ConversacionDeS
    <3> HIDE DEF d
    <3>3. EnVuelo(d, t)' = EnVuelo(d, t) /\ EnVuelo(t, d)' = EnVuelo(t, d) /\ cpc'[d] = cpc[d]
      BY <1>2, <2>1, <3>1
    <3> QED BY <3>2, <3>3 DEF ConversacionDeS, ConversacionDe, Tiene, servidorVars, d
  <2>2. \A t \in Servers : ConversacionDeS(t)'
    BY <2>1
  <2> QED BY <2>2 DEF Conversacion, ConversacionDeS
<1>5. Arranque'
  <2>1. ASSUME spc'[0] = "reparto"
        PROVE  cpc'[1] = "inicio" /\ EnVuelo(0, 1)' = <<>>
    <3>1. spc[0] = "reparto" /\ c # 1
      BY <2>1 DEF servidorVars
    <3>2. 0 \in Servers /\ mi_cliente(0) = 1 /\ mi_cliente(0) \in Clients
      BY Rangos DEF mi_cliente
    <3>3. 0 \in Ranks /\ 1 \in Ranks /\ 1 \in Clients /\ c # 0
      BY <3>2, Rangos
    <3>4. EnVuelo(0, 1)' = EnVuelo(0, 1) /\ cpc'[1] = cpc[1]
      BY <3>1, <3>3
    <3> QED BY <3>1, <3>4 DEF IInv, Arranque
  <2> QED BY <2>1 DEF Arranque
<1>6. Pares' /\ Cuenta'
  <2>1. \A p, q \in Servers : EnVuelo(p, q)' = EnVuelo(p, q)
    BY <1>2, Rangos
  <2>2. \A p, q \in Servers : \A tag : Hay(p, q, tag)' <=> Hay(p, q, tag)
    BY <2>1 DEF Hay
  <2> QED BY <2>1, <2>2, ParesSiguen DEF servidorVars
<1> QED BY <1>1, <1>3, <1>4, <1>5, <1>6 DEF IInv

LEMMA ClienteEnvia ==
    ASSUME IInv, NEW c \in Clients, NEW t \in Tags, ~ Blocked(c),
           mpi' = Send(mpi, c, {c - 1}, Message(t, 0))
             \/ mpi' = Ssend(mpi, c, {c - 1}, Message(t, 0))
    PROVE  /\ MPIState(mpi)'
           /\ \A p, r \in Ranks :
                EnVuelo(p, r)' = IF p = c /\ r = c - 1
                                 THEN Append(EnVuelo(p, r), Message(t, 0)) ELSE EnVuelo(p, r)
           /\ \A d \in Clients \ {c} : ~ Blocked(d) => ~ Blocked(d)'
<1> DEFINE a == Message(t, 0)
           D == {c - 1}
<1>1. c \in Ranks /\ D \subseteq Ranks /\ MPIState(mpi) /\ DOMAIN mpi.pending[c] = {}
      /\ a \in Messages
  BY Rangos, Mensajes DEF IInv, Tipos, Blocked
<1> HIDE DEF a, D
<1>2. mpi' = Send(mpi, c, D, a) \/ mpi' = Ssend(mpi, c, D, a)
  BY DEF a, D
<1>3. Enviado(mpi, mpi', c, D, a)
  BY <1>1, <1>2, Envia
<1>4. MPIState(mpi)' /\ \A d \in Ranks \ {c} : mpi'.pending[d] = mpi.pending[d]
  BY <1>3 DEF Enviado, MPIState
<1>5. \A p, r \in Ranks :
         EnVuelo(p, r)' = IF p = c /\ r = c - 1 THEN Append(EnVuelo(p, r), a) ELSE EnVuelo(p, r)
  BY <1>3 DEF Enviado, EnVuelo, D
<1> QED BY <1>4, <1>5, Rangos DEF Blocked, a

LEMMA ClienteRecibe ==
    ASSUME IInv, NEW c \in Clients, NEW o \in Servers, NEW m \in Deliverable(o, c),
           mpi' = Recv(o, c)
    PROVE  /\ MPIState(mpi)' /\ EnVuelo(o, c) # <<>>
           /\ \A p, r \in Ranks : EnVuelo(p, r)' = IF p = o /\ r = c THEN Tail(EnVuelo(p, r))
                                                                   ELSE EnVuelo(p, r)
           /\ \A d \in Clients : ~ Blocked(d) => ~ Blocked(d)'
<1> DEFINE e == Recv(o, c)
<1>1. o \in Ranks /\ c \in Ranks /\ MPIState(mpi)
  BY Rangos DEF IInv, Tipos
<1>2. /\ MPIState(e) /\ EnVuelo(o, c) # <<>>
      /\ \A p, r \in Ranks :
           Channel(e, p, r) = IF p = o /\ r = c THEN Tail(EnVuelo(o, c)) ELSE EnVuelo(p, r)
      /\ \A p \in Ranks \ {o} : e.pending[p] = mpi.pending[p]
  BY <1>1, Recibe
<1> HIDE DEF e
<1>3. mpi' = e
  BY DEF e
<1>4. MPIState(mpi)'
  BY <1>2, <1>3 DEF MPIState
<1>5. \A p, r \in Ranks : EnVuelo(p, r)' = IF p = o /\ r = c THEN Tail(EnVuelo(p, r))
                                                             ELSE EnVuelo(p, r)
  BY <1>2, <1>3 DEF EnVuelo
<1>6. \A d \in Clients : d \in Ranks \ {o}
  BY Rangos
<1>7. \A d \in Clients : ~ Blocked(d) => ~ Blocked(d)'
  BY <1>2, <1>3, <1>6 DEF Blocked
<1> QED BY <1>2, <1>4, <1>5, <1>7

(* Each action of a client preserves the invariant. *)
LEMMA TrasClienteNext ==
    ASSUME IInv, NEW c \in Clients, ClienteNext(c), UNCHANGED servidorVars
    PROVE  IInv'
<1> DEFINE s == c - 1
<1>1. s \in Servers /\ c = mi_cliente(s) /\ s \in Ranks /\ c \in Ranks /\ s # c /\ 0 \in Servers
  BY Rangos
<1>2. ConversacionDe(s, EnVuelo(c, s), EnVuelo(s, c), cpc[c])
      /\ EnVuelo(c, s) \in Seq(Messages) /\ EnVuelo(s, c) \in Seq(Messages)
  <2>1. ConversacionDe(s, EnVuelo(c, s), EnVuelo(s, c), cpc[c])
    BY <1>1, DelInvariante DEF ConversacionDeS
  <2>2. EnVuelo(c, s) \in Seq(Messages) /\ EnVuelo(s, c) \in Seq(Messages)
    BY <1>1, CanalTipo DEF IInv, Tipos, EnVuelo
  <2> QED BY <2>1, <2>2
<1>3. /\ cpc \in [Clients -> CPCs]
      /\ \A d \in Clients : cpc[d] = "critica" => ~ Blocked(d)
      /\ spc[0] = "reparto" => cpc[1] = "inicio" /\ EnVuelo(0, 1) = <<>>
  BY DEF IInv, Tipos, Arranque
<1> HIDE DEF s
<1>4. ASSUME NEW x, x \in CPCs, cpc' = [cpc EXCEPT ![c] = x]
      PROVE  cpc' \in [Clients -> CPCs] /\ cpc'[c] = x /\ \A d \in Clients \ {c} : cpc'[d] = cpc[d]
  BY <1>3, <1>4
<1>5. CASE RecibirParametros(c)
  <2>1. cpc[c] = "inicio" /\ mpi' = Recv(0, c) /\ Deliverable(0, c) # {}
        /\ cpc' = [cpc EXCEPT ![c] = "previo"]
    BY <1>5 DEF RecibirParametros
  <2>2. /\ MPIState(mpi)' /\ EnVuelo(0, c) # <<>>
        /\ \A p, r \in Ranks : EnVuelo(p, r)' = IF p = 0 /\ r = c THEN Tail(EnVuelo(p, r))
                                                                ELSE EnVuelo(p, r)
        /\ \A d \in Clients : ~ Blocked(d) => ~ Blocked(d)'
    BY <1>1, <2>1, ClienteRecibe
  <2>3. cpc' \in [Clients -> CPCs] /\ cpc'[c] = "previo" /\ \A d \in Clients \ {c} : cpc'[d] = cpc[d]
    BY <1>4, <2>1 DEF CPCs
  <2>4. /\ ~ hay_pedido_local[s] /\ EnVuelo(c, s) = <<>>
        /\ EnVuelo(s, c) = <<>> \/ (s = 0 /\ EsUno(EnVuelo(s, c), "TAG_INICIAL"))
    BY <1>2, <2>1 DEF ConversacionDe
  <2>5. EnVuelo(c, s)' = <<>> /\ EnVuelo(s, c)' = <<>>
    <3>1. EnVuelo(c, s)' = EnVuelo(c, s)
      BY <1>1, <2>2
    <3>2. CASE s = 0
      <4>1. EnVuelo(s, c)' = Tail(EnVuelo(s, c)) /\ EsUno(EnVuelo(s, c), "TAG_INICIAL")
        BY <1>1, <2>2, <2>4, <3>2
      <4> QED BY <1>2, <2>4, <3>1, <4>1, Cortas
    <3>3. CASE s # 0
      <4>1. EnVuelo(s, c)' = EnVuelo(s, c)
        BY <1>1, <2>2, <3>3
      <4> QED BY <2>4, <3>1, <3>3, <4>1
    <3> QED BY <3>2, <3>3
  <2>6. ConversacionDeS(s)'
    BY <1>1, <2>3, <2>4, <2>5 DEF ConversacionDeS, ConversacionDe, servidorVars
  <2>7. c = 1 => spc[0] # "reparto"
    BY <1>3, <2>2
  <2> QED BY <1>1, <1>3, <2>2, <2>3, <2>6, <2>7, TrasCliente
<1>6. ASSUME NEW t \in Tags, ~ Blocked(c), NEW x \in CPCs \ {"critica"},
             cpc[c] # "inicio", cpc' = [cpc EXCEPT ![c] = x],
             mpi' = Send(mpi, c, {s}, Message(t, 0)) \/ mpi' = Ssend(mpi, c, {s}, Message(t, 0)),
             /\ EnVuelo(c, s)' = Append(EnVuelo(c, s), Message(t, 0))
             /\ EnVuelo(s, c)' = EnVuelo(s, c)
             => ConversacionDe(s, EnVuelo(c, s), EnVuelo(s, c), x)'
      PROVE  IInv'
  <2>1. /\ MPIState(mpi)'
        /\ \A p, r \in Ranks :
             EnVuelo(p, r)' = IF p = c /\ r = s
                              THEN Append(EnVuelo(p, r), Message(t, 0)) ELSE EnVuelo(p, r)
        /\ \A d \in Clients \ {c} : ~ Blocked(d) => ~ Blocked(d)'
    BY <1>6, ClienteEnvia DEF s
  <2>2. cpc' \in [Clients -> CPCs] /\ cpc'[c] = x /\ \A d \in Clients \ {c} : cpc'[d] = cpc[d]
    BY <1>4, <1>6
  <2>3. ConversacionDe(s, EnVuelo(c, s), EnVuelo(s, c), x)'
    BY <1>1, <1>6, <2>1
  <2>4. ConversacionDeS(s)'
    BY <1>1, <2>2, <2>3 DEF ConversacionDeS, ConversacionDe
  <2>5. \A d \in Clients : cpc'[d] = "critica" => ~ Blocked(d)'
    BY <1>3, <2>1, <2>2
  <2>6. c = 1 => spc[0] # "reparto"
    BY <1>3, <1>6
  <2>7. \A p, r \in Ranks : EnVuelo(p, r)' = EnVuelo(p, r) \/ r = c \/ (p = c /\ r = s)
    BY <2>1
  <2> QED BY <1>1, <2>1, <2>2, <2>4, <2>5, <2>6, <2>7, TrasCliente
<1>7. CASE Pedir(c)
  <2> DEFINE a == Message("TAG_PEDIDO", 0)
  <2>1. /\ cpc[c] = "previo" /\ ~ Blocked(c) /\ cpc' = [cpc EXCEPT ![c] = "esperando"]
        /\ mpi' = Send(mpi, c, {s}, a)
    BY <1>7 DEF Pedir, s
  <2>2. a \in Messages /\ a.tag = "TAG_PEDIDO" /\ "TAG_PEDIDO" \in Tags
    BY Mensajes DEF Tags
  <2> HIDE DEF a
  <2>3. ASSUME EnVuelo(c, s)' = Append(EnVuelo(c, s), a), EnVuelo(s, c)' = EnVuelo(s, c)
        PROVE  ConversacionDe(s, EnVuelo(c, s), EnVuelo(s, c), "esperando")'
    <3>1. \/ ~ hay_pedido_local[s] /\ EnVuelo(c, s) = <<>> /\ EnVuelo(s, c) = <<>>
          \/ Tiene(s) /\ EsUno(EnVuelo(c, s), "TAG_LIBERO") /\ EnVuelo(s, c) = <<>>
      BY <1>2, <2>1 DEF ConversacionDe
    <3>2. /\ EnVuelo(c, s) = <<>> => EsUno(EnVuelo(c, s)', "TAG_PEDIDO")
          /\ EsUno(EnVuelo(c, s), "TAG_LIBERO") =>
                EsDos(EnVuelo(c, s)', "TAG_LIBERO", "TAG_PEDIDO")
      BY <1>2, <2>2, <2>3, Cortas
    <3> QED BY <2>3, <3>1, <3>2 DEF ConversacionDe, Tiene, servidorVars
  <2>4. "esperando" \in CPCs \ {"critica"}
    BY DEF CPCs
  <2> QED BY <1>6, <2>1, <2>2, <2>3, <2>4 DEF a
<1>8. CASE Liberar(c)
  <2> DEFINE a == Message("TAG_LIBERO", 0)
  <2>1. /\ cpc[c] = "critica" /\ ~ Blocked(c) /\ cpc' = [cpc EXCEPT ![c] = "previo"]
        /\ mpi' = Send(mpi, c, {s}, a)
    BY <1>3, <1>8 DEF Liberar, s
  <2>2. a \in Messages /\ a.tag = "TAG_LIBERO" /\ "TAG_LIBERO" \in Tags
    BY Mensajes DEF Tags
  <2> HIDE DEF a
  <2>3. ASSUME EnVuelo(c, s)' = Append(EnVuelo(c, s), a), EnVuelo(s, c)' = EnVuelo(s, c)
        PROVE  ConversacionDe(s, EnVuelo(c, s), EnVuelo(s, c), "previo")'
    <3>1. Tiene(s) /\ EnVuelo(c, s) = <<>> /\ EnVuelo(s, c) = <<>>
      BY <1>2, <2>1 DEF ConversacionDe
    <3>2. EsUno(Append(EnVuelo(c, s), a), "TAG_LIBERO")
      BY <2>2, <3>1, PrimerMensaje DEF a
    <3> QED BY <2>3, <3>1, <3>2 DEF ConversacionDe, Tiene, servidorVars
  <2>4. "previo" \in CPCs \ {"critica"}
    BY DEF CPCs
  <2> QED BY <1>6, <2>1, <2>2, <2>3, <2>4 DEF a
<1>9. CASE Terminar(c)
  <2> DEFINE a == Message("TAG_TERMINE", 0)
  <2>1. /\ cpc[c] = "previo" /\ ~ Blocked(c) /\ cpc' = [cpc EXCEPT ![c] = "terminando"]
        /\ mpi' = Ssend(mpi, c, {s}, a)
    BY <1>9 DEF Terminar, s
  <2>2. a \in Messages /\ a.tag = "TAG_TERMINE" /\ "TAG_TERMINE" \in Tags
    BY Mensajes DEF Tags
  <2> HIDE DEF a
  <2>3. ASSUME EnVuelo(c, s)' = Append(EnVuelo(c, s), a), EnVuelo(s, c)' = EnVuelo(s, c)
        PROVE  ConversacionDe(s, EnVuelo(c, s), EnVuelo(s, c), "terminando")'
    <3>1. \/ ~ hay_pedido_local[s] /\ EnVuelo(c, s) = <<>> /\ EnVuelo(s, c) = <<>>
          \/ Tiene(s) /\ EsUno(EnVuelo(c, s), "TAG_LIBERO") /\ EnVuelo(s, c) = <<>>
      BY <1>2, <2>1 DEF ConversacionDe
    <3>2. /\ EnVuelo(c, s) = <<>> => EsUno(EnVuelo(c, s)', "TAG_TERMINE")
          /\ EsUno(EnVuelo(c, s), "TAG_LIBERO") =>
                EsDos(EnVuelo(c, s)', "TAG_LIBERO", "TAG_TERMINE")
      BY <1>2, <2>2, <2>3, Cortas
    <3> QED BY <2>3, <3>1, <3>2 DEF ConversacionDe, Tiene, servidorVars
  <2>4. "terminando" \in CPCs \ {"critica"}
    BY DEF CPCs
  <2> QED BY <1>6, <2>1, <2>2, <2>3, <2>4 DEF a
<1>10. CASE Finalizar(c)
  <2>1. cpc[c] = "terminando" /\ mpi' = mpi /\ cpc' = [cpc EXCEPT ![c] = "fin"]
    BY <1>10 DEF Finalizar
  <2>2. cpc' \in [Clients -> CPCs] /\ cpc'[c] = "fin" /\ \A d \in Clients \ {c} : cpc'[d] = cpc[d]
    BY <1>4, <2>1 DEF CPCs
  <2>3. /\ \A p, r \in Ranks : EnVuelo(p, r)' = EnVuelo(p, r)
        /\ \A d \in Clients : ~ Blocked(d) => ~ Blocked(d)'
        /\ MPIState(mpi)'
    BY <2>1 DEF EnVuelo, Blocked, IInv, Tipos
  <2>4. ConversacionDe(s, EnVuelo(c, s), EnVuelo(s, c), "fin")'
    <3>1. EnVuelo(c, s)' = EnVuelo(c, s) /\ EnVuelo(s, c)' = EnVuelo(s, c)
      BY <1>1, <2>3
    <3> QED BY <1>2, <2>1, <3>1 DEF ConversacionDe, Tiene, servidorVars
  <2>5. ConversacionDeS(s)'
    BY <1>1, <2>2, <2>4 DEF ConversacionDeS, ConversacionDe
  <2>6. (c = 1 => spc[0] # "reparto") /\ \A d \in Clients : cpc'[d] = "critica" => ~ Blocked(d)'
    BY <1>3, <2>1, <2>2, <2>3
  <2> QED BY <1>1, <2>2, <2>3, <2>5, <2>6, TrasCliente
<1>11. CASE Entrar(c)
  <2>1. /\ cpc[c] = "esperando" /\ ~ Blocked(c) /\ cpc' = [cpc EXCEPT ![c] = "critica"]
        /\ mpi' = Recv(s, c) /\ Deliverable(s, c) # {}
    BY <1>11 DEF Entrar, s
  <2>2. /\ MPIState(mpi)' /\ EnVuelo(s, c) # <<>>
        /\ \A p, r \in Ranks : EnVuelo(p, r)' = IF p = s /\ r = c THEN Tail(EnVuelo(p, r))
                                                                ELSE EnVuelo(p, r)
        /\ \A d \in Clients : ~ Blocked(d) => ~ Blocked(d)'
    BY <1>1, <2>1, ClienteRecibe
  <2>3. cpc' \in [Clients -> CPCs] /\ cpc'[c] = "critica" /\ \A d \in Clients \ {c} : cpc'[d] = cpc[d]
    BY <1>4, <2>1 DEF CPCs
  <2>4. Tiene(s) /\ EnVuelo(c, s) = <<>> /\ EsUno(EnVuelo(s, c), "TAG_OTORGADO")
    BY <1>2, <2>1, <2>2 DEF ConversacionDe
  <2>5. EnVuelo(c, s)' = <<>> /\ EnVuelo(s, c)' = <<>>
    <3>1. EnVuelo(c, s)' = EnVuelo(c, s) /\ EnVuelo(s, c)' = Tail(EnVuelo(s, c))
      BY <1>1, <2>2
    <3> QED BY <1>2, <2>4, <3>1, Cortas
  <2>6. ConversacionDeS(s)'
    BY <1>1, <2>3, <2>4, <2>5 DEF ConversacionDeS, ConversacionDe, Tiene, servidorVars
  <2>7. (c = 1 => spc[0] # "reparto") /\ \A d \in Clients : cpc'[d] = "critica" => ~ Blocked(d)'
    BY <1>3, <2>1, <2>2, <2>3
  <2> QED BY <1>1, <2>2, <2>3, <2>6, <2>7, TrasCliente
<1> QED BY <1>5, <1>7, <1>8, <1>9, <1>10, <1>11 DEF ClienteNext

(* Rank 0 sends the parameters to the clients. *)
LEMMA TrasRepartir ==
    ASSUME IInv, Repartir, UNCHANGED clienteVars
    PROVE  IInv'
<1> DEFINE a == Message("TAG_INICIAL", 0)
<1>1. /\ spc[0] = "reparto" /\ ~ Blocked(0) /\ spc' = [spc EXCEPT ![0] = "sirviendo"]
      /\ mpi' = Ssend(mpi, 0, Clients, a)
      /\ UNCHANGED <<cpc, hay_pedido_local, our_seq_nr, max_seq_nr, outstanding_reply,
                     reply_deferred>>
  BY DEF Repartir, clienteVars
<1>2. /\ 0 \in Servers /\ 0 \in Ranks /\ 1 \in Clients /\ 1 \in Ranks /\ mi_cliente(0) = 1
      /\ Clients \subseteq Ranks /\ Servers \subseteq Ranks /\ Servers \cap Clients = {}
  <2>1. 0 \in Servers /\ mi_cliente(0) \in Clients /\ mi_cliente(0) = 1
    BY Rangos DEF mi_cliente
  <2> QED BY <2>1, Rangos
<1>3. a \in Messages /\ a.tag = "TAG_INICIAL"
  BY Mensajes DEF Tags
<1> HIDE DEF a
<1>4. /\ MPIState(mpi)'
      /\ \A p, r \in Ranks : EnVuelo(p, r)' = IF p = 0 /\ r \in Clients
                                               THEN Append(EnVuelo(p, r), a) ELSE EnVuelo(p, r)
      /\ \A p \in Ranks \ {0} : mpi'.pending[p] = mpi.pending[p]
  <2>1. MPIState(mpi) /\ DOMAIN mpi.pending[0] = {}
    BY <1>1 DEF IInv, Tipos, Blocked
  <2>2. Enviado(mpi, mpi', 0, Clients, a)
    BY <1>1, <1>2, <1>3, <2>1, Envia
  <2>3. MPIState(mpi)'
    BY <2>2 DEF Enviado, MPIState
  <2> QED BY <2>2, <2>3 DEF Enviado, EnVuelo
<1>5. cpc[1] = "inicio" /\ EnVuelo(0, 1) = <<>>
  BY <1>1 DEF IInv, Arranque
<1>6. spc' \in [Servers -> {"reparto", "sirviendo", "fin"}] /\ spc'[0] = "sirviendo"
  BY <1>1, <1>2 DEF IInv, Tipos
<1>7. Tipos'
  BY <1>1, <1>4, <1>6 DEF IInv, Tipos
<1>8. Arranque'
  <2>1. \A c \in Clients : cpc'[c] = "critica" => ~ Blocked(c)'
    <3>1. \A c \in Clients : c \in Ranks \ {0}
      BY <1>2
    <3> QED BY <1>1, <1>4, <3>1 DEF Blocked, IInv, Arranque
  <2> QED BY <1>6, <2>1 DEF Arranque
<1>9. \A p \in Ranks : \A t \in Servers : EnVuelo(p, t)' = EnVuelo(p, t)
  BY <1>2, <1>4
<1>10. Rutas'
  BY <1>2, <1>9 DEF IInv, Rutas
<1>11. Conversacion'
  <2>1. ASSUME NEW t \in Servers
        PROVE  ConversacionDeS(t)'
    <3> DEFINE c == mi_cliente(t)
    <3>1. /\ c \in Clients /\ c \in Ranks /\ t \in Ranks /\ (c = 1 <=> t = 0)
          /\ EnVuelo(t, c) \in Seq(Messages)
      BY <1>2, Rangos, CanalTipo DEF IInv, Tipos, EnVuelo
    <3>2. ConversacionDe(t, EnVuelo(c, t), EnVuelo(t, c), cpc[c])
      BY DelInvariante DEF ConversacionDeS
    <3> HIDE DEF c
    <3>3. EnVuelo(c, t)' = EnVuelo(c, t)
      BY <1>9, <3>1
    <3>4. CASE t # 0
      <4>1. EnVuelo(t, c)' = EnVuelo(t, c)
        BY <1>4, <3>1, <3>4
      <4> QED BY <1>1, <3>2, <3>3, <3>4, <4>1 DEF ConversacionDeS, ConversacionDe, Tiene, c
    <3>5. CASE t = 0
      <4>1. EnVuelo(t, c)' = Append(EnVuelo(t, c), a) /\ cpc[c] = "inicio" /\ EnVuelo(t, c) = <<>>
        BY <1>2, <1>4, <1>5, <3>1, <3>5
      <4>2. EsUno(Append(EnVuelo(t, c), a), "TAG_INICIAL")
        BY <4>1, PrimerMensaje DEF a, Tags
      <4>3. ~ hay_pedido_local[t] /\ EnVuelo(c, t) = <<>>
        BY <3>2, <4>1 DEF ConversacionDe
      <4> QED BY <1>1, <3>3, <3>5, <4>1, <4>2, <4>3 DEF ConversacionDeS, ConversacionDe, c
    <3> QED BY <3>4, <3>5
  <2> QED BY <2>1 DEF Conversacion, ConversacionDeS
<1>12. Pares' /\ Cuenta'
  <2>1. \A p, q \in Servers : EnVuelo(p, q)' = EnVuelo(p, q)
    BY <1>2, <1>9
  <2>2. \A p, q \in Servers : \A tag : Hay(p, q, tag)' <=> Hay(p, q, tag)
    BY <2>1 DEF Hay
  <2> QED BY <1>1, <2>1, <2>2, ParesSiguen
<1> QED BY <1>7, <1>8, <1>10, <1>11, <1>12 DEF IInv

LEMMA AlPrincipio == Init => IInv
<1> SUFFICES ASSUME Init
             PROVE  IInv
  OBVIOUS
<1> USE DEF Init, MPIInit, ClienteInit, ServidorInit
<1>1. MPIState(mpi) /\ \A p \in Ranks : ~ Blocked(p)
  <2> DEFINE vacio == [p \in Ranks |-> Nothing]
             redes == [p \in Ranks |-> [r \in Ranks |-> <<>>]]
  <2>1. DOMAIN Nothing = {}
    BY DEF Nothing
  <2>2. redes \in [Ranks -> [Ranks -> Seq(Messages)]]
    BY EmptySeq
  <2>3. mpi = [net |-> redes, pending |-> vacio]
    OBVIOUS
  <2>4. vacio \in [Ranks -> {vacio[p] : p \in Ranks}] /\ \A p \in Ranks : vacio[p] = Nothing
    OBVIOUS
  <2> HIDE DEF vacio, redes
  <2>5. mpi.net = redes /\ mpi.pending = vacio
    BY <2>3
  <2> HIDE DEF Init, MPIInit
  <2>6. mpi \in [net : [Ranks -> [Ranks -> Seq(Messages)]],
                 pending : [Ranks -> {mpi.pending[p] : p \in Ranks}]]
    BY <2>2, <2>3, <2>4, <2>5
  <2> QED BY <2>1, <2>4, <2>5, <2>6 DEF MPIState, Blocked
<1>2. \A p, r \in Ranks : EnVuelo(p, r) = <<>>
  <2>1. \A p, r \in Ranks : mpi.net[p][r] = <<>>
    OBVIOUS
  <2> HIDE DEF Init, MPIInit
  <2> QED BY <1>1, <2>1 DEF Blocked, EnVuelo, Channel
<1>3. Tipos
  BY <1>1, Rangos DEF Tipos, CPCs
<1>4. 1 \in Clients /\ 0 \in Ranks
  <2>1. mi_cliente(0) \in Clients /\ mi_cliente(0) = 1 /\ 0 \in Ranks
    BY Rangos DEF mi_cliente
  <2> QED BY <2>1
<1>5. Arranque
  BY <1>1, <1>2, <1>4, Rangos DEF Arranque
<1>6. \A s \in Servers : ~ hay_pedido_local[s] /\ reply_deferred[s] = {} /\ outstanding_reply[s] = 0
  OBVIOUS
<1>7. \A c \in Clients : cpc[c] = "inicio"
  OBVIOUS
<1> HIDE DEF Init, MPIInit, ClienteInit, ServidorInit
<1>8. Conversacion
  BY <1>2, <1>6, <1>7, Rangos DEF Conversacion, ConversacionDe
<1>9. \A p, q \in Servers : \A tag : ~ Hay(p, q, tag) /\ ~ Esta(EnVuelo(p, q), tag)
  BY <1>2, Rangos DEF Hay, Esta
<1>10. Rutas
  BY <1>2, <1>9, Rangos DEF Rutas
<1>11. Pares
  <2> SUFFICES ASSUME NEW s \in Servers, NEW t \in Otros(s)
               PROVE  Deuda(s, t) /\ Orden(s, t)
    BY DEF Pares
  <2>1. t \in Servers
    BY DEF Otros
  <2>2. Unico(EnVuelo(s, t), "SRV_REQ") /\ Unico(EnVuelo(t, s), "SRV_REPLY")
        /\ Numeros(EnVuelo(s, t), our_seq_nr[s])
    BY <1>9, <2>1 DEF Esta, Unico, Numeros
  <2> QED BY <1>6, <1>9, <2>1, <2>2 DEF Deuda, Orden, Recibido
<1>12. Cuenta
  <2> SUFFICES ASSUME NEW s \in Servers
               PROVE  outstanding_reply[s] = Cardinality({t \in Otros(s) : Espera(s, t)})
    BY <1>6 DEF Cuenta
  <2>1. \A t \in Otros(s) : ~ Espera(s, t)
    BY <1>6, <1>9 DEF Espera, Otros
  <2>2. {t \in Otros(s) : Espera(s, t)} = {}
    BY <2>1
  <2> QED BY <1>6, <2>2, FS_EmptySet
<1> QED BY <1>3, <1>5, <1>8, <1>10, <1>11, <1>12 DEF IInv

LEMMA EnCadaPaso ==
    ASSUME IInv, [Next]_vars
    PROVE  IInv'
<1>1. CASE UNCHANGED vars
  <2>1. /\ UNCHANGED <<mpi, cpc, spc, hay_pedido_local, our_seq_nr, max_seq_nr,
                       outstanding_reply, reply_deferred>>
        /\ \A p, r : EnVuelo(p, r)' = EnVuelo(p, r) /\ \A tag : Hay(p, r, tag)' <=> Hay(p, r, tag)
        /\ \A p : Blocked(p)' <=> Blocked(p)
    BY <1>1 DEF vars, clienteVars, servidorVars, EnVuelo, Hay, Channel, Blocked
  <2>2. Tipos'
    BY <2>1 DEF IInv, Tipos, MPIState
  <2>3. Conversacion'
    BY <2>1 DEF IInv, Conversacion, ConversacionDe, Tiene
  <2>4. Arranque' /\ Rutas'
    BY <2>1 DEF IInv, Arranque, Rutas
  <2>5. Pares' /\ Cuenta'
    BY <2>1, ParesSiguen
  <2> QED BY <2>2, <2>3, <2>4, <2>5 DEF IInv
<1>2. CASE Terminado
  BY <1>1, <1>2 DEF Terminado
<1>3. ASSUME NEW c \in Clients, ClienteStep(c)
      PROVE  IInv'
  BY <1>3, TrasClienteNext DEF ClienteStep
<1>4. ASSUME NEW s \in Servers, ServidorStep(s)
      PROVE  IInv'
  <2>1. CASE s = 0 /\ Repartir
    BY <1>4, <2>1, TrasRepartir DEF ServidorStep
  <2>2. ASSUME NEW o \in Ranks, NEW m \in Deliverable(o, s),
               \/ Pedido(s, o, m) \/ Reply(s, o, m) \/ Libero(s, o, m)
               \/ Req(s, o, m) \/ Termine(s, o, m) \/ Finished(s, o, m)
        PROVE  IInv'
    <3>1. UNCHANGED clienteVars
      BY <1>4 DEF ServidorStep
    <3> QED BY <2>2, <3>1, TrasPedido, TrasReply, TrasLibero, TrasReq, TrasTermine
  <2> QED BY <1>4, <2>1, <2>2 DEF ServidorStep, ServidorNext
<1> QED BY <1>1, <1>2, <1>3, <1>4 DEF Next

(* The invariant holds in every state the program reaches: messages        *)
(* between a client and its server are in one of a few shapes, each server *)
(* owes another one reply at most, and the replies a server counts are     *)
(* those it is owed.                                                       *)
THEOREM Inductivo == Spec => []IInv
<1>1. Init => IInv
  BY AlPrincipio
<1>2. IInv /\ [Next]_vars => IInv'
  BY EnCadaPaso
<1> QED BY <1>1, <1>2, PTL DEF Spec, SafeSpec

(* No reply is lost or given twice (TAG_PEDIDO, SRV_REPLY, SRV_REQ and     *)
(* TAG_LIBERO of srv.c).                                                   *)
THEOREM Replies == Spec => []RepliesAccounted
<1>1. IInv => RepliesAccounted
  <2> SUFFICES ASSUME IInv, NEW s \in Servers
               PROVE  /\ outstanding_reply[s] = Cardinality({t \in Otros(s) : Espera(s, t)})
                      /\ \A t \in Otros(s) :
                            /\ AlMasUno(s, t, "SRV_REQ") /\ AlMasUno(t, s, "SRV_REPLY")
                            /\ Hay(s, t, "SRV_REQ") => ~ Hay(t, s, "SRV_REPLY")
                            /\ s \in reply_deferred[t] =>
                                  ~ Hay(s, t, "SRV_REQ") /\ ~ Hay(t, s, "SRV_REPLY")
                      /\ ~ hay_pedido_local[s] => outstanding_reply[s] = 0
    BY DEF RepliesAccounted
  <2>1. \A t \in Otros(s) : Deuda(s, t)
    BY DelInvariante
  <2>2. \A t \in Otros(s) :
           /\ AlMasUno(s, t, "SRV_REQ") /\ AlMasUno(t, s, "SRV_REPLY")
           /\ Hay(s, t, "SRV_REQ") => ~ Hay(t, s, "SRV_REPLY")
           /\ s \in reply_deferred[t] => ~ Hay(s, t, "SRV_REQ") /\ ~ Hay(t, s, "SRV_REPLY")
    BY <2>1 DEF Deuda, Unico, AlMasUno
  <2> QED BY <2>2, DelInvariante
<1> QED BY <1>1, Inductivo, PTL

(* Whoever holds the permission was answered by all the others, so its     *)
(* request goes before theirs.                                             *)
LEMMA QuienTieneVaAntes == IInv => GrantedInOrder
<1> SUFFICES ASSUME IInv, NEW s \in Servers, NEW t \in Servers,
                    Tiene(s), hay_pedido_local[t], s # t
             PROVE  \/ our_seq_nr[s] < our_seq_nr[t]
                    \/ our_seq_nr[s] = our_seq_nr[t] /\ s < t
  BY DEF GrantedInOrder
<1>1. t \in Otros(s)
  BY DEF Otros
<1>2. ~ Espera(s, t)
  BY <1>1, DelInvariante DEF Tiene
<1>3. Orden(s, t)
  BY <1>1, DelInvariante
<1> QED BY <1>2, <1>3 DEF Orden, Recibido, Espera, Tiene

(* Permission is given in the order of the requests, ties by rank: what    *)
(* TAG_PEDIDO and SRV_REQ of srv.c compute the sequence numbers for.       *)
THEOREM EnOrden == Spec => []GrantedInOrder
BY Inductivo, QuienTieneVaAntes, PTL

LEMMA UnoSolo == IInv => MutualExclusion
<1> SUFFICES ASSUME IInv
             PROVE  MutualExclusion
  OBVIOUS
<1>1. ASSUME NEW s \in Servers, NEW t \in Servers, Tiene(s), Tiene(t), s # t
      PROVE  FALSE
  <2>1. /\ our_seq_nr[s] < our_seq_nr[t] \/ (our_seq_nr[s] = our_seq_nr[t] /\ s < t)
        /\ our_seq_nr[t] < our_seq_nr[s] \/ (our_seq_nr[t] = our_seq_nr[s] /\ t < s)
    BY <1>1, QuienTieneVaAntes DEF GrantedInOrder, Tiene
  <2>2. our_seq_nr[s] \in Nat /\ our_seq_nr[t] \in Nat /\ s \in Nat /\ t \in Nat
    BY DelInvariante, Rangos
  <2> QED BY <2>1, <2>2
<1>2. ASSUME NEW s \in Servers, cpc[mi_cliente(s)] = "critica"
      PROVE  Tiene(s)
  BY <1>2, DelInvariante DEF ConversacionDeS, ConversacionDe
<1> QED BY <1>1, <1>2 DEF MutualExclusion

(* Two clients are never in their critical sections at once, with any      *)
(* number of them and whichever way MPI_Send works.                        *)
THEOREM ExclusionMutua == Spec => []MutualExclusion
BY Inductivo, UnoSolo, PTL

(* A step of the program is, for its clients, a step of Exclusion.         *)
LEMMA PasoAbstracto ==
    ASSUME IInv, [Next]_vars
    PROVE  [Abstract!Next]_[c \in Clients |-> EstadoDe(cpc[c])]
<1> DEFINE estado == [c \in Clients |-> EstadoDe(cpc[c])]
<1>1. ASSUME cpc' = cpc
      PROVE  estado' = estado
  BY <1>1
<1>2. ASSUME NEW c \in Clients, NEW x \in CPCs, cpc' = [cpc EXCEPT ![c] = x]
      PROVE  estado' = [estado EXCEPT ![c] = EstadoDe(x)]
  <2>1. cpc \in [Clients -> CPCs]
    BY DEF IInv, Tipos
  <2>2. \A d \in Clients : cpc'[d] = IF d = c THEN x ELSE cpc[d]
    BY <1>2, <2>1
  <2> QED BY <2>2
<1>3. \A c \in Clients : estado[c] = EstadoDe(cpc[c])
  OBVIOUS
<1>4. \A x \in CPCs : EstadoDe(x) = "critica" <=> x = "critica"
  BY DEF EstadoDe, CPCs
<1>5. /\ EstadoDe("inicio") = "fuera" /\ EstadoDe("previo") = "fuera"
      /\ EstadoDe("esperando") = "esperando" /\ EstadoDe("critica") = "critica"
      /\ EstadoDe("terminando") = "fin" /\ EstadoDe("fin") = "fin"
      /\ CPCs = {"inicio", "previo", "esperando", "critica", "terminando", "fin"}
  BY DEF EstadoDe, CPCs
<1> HIDE DEF estado
<1>6. ASSUME NEW c \in Clients, ClienteNext(c), UNCHANGED servidorVars
      PROVE  Abstract!Next \/ estado' = estado
  <2>1. CASE RecibirParametros(c)
    <3>1. cpc[c] = "inicio" /\ estado' = [estado EXCEPT ![c] = "fuera"] /\ estado[c] = "fuera"
      BY <1>2, <1>3, <1>5, <2>1 DEF RecibirParametros
    <3> QED BY <3>1 DEF estado
  <2>2. CASE Pedir(c)
    <3>1. estado' = [estado EXCEPT ![c] = "esperando"] /\ estado[c] = "fuera"
      BY <1>2, <1>3, <1>5, <2>2 DEF Pedir
    <3> QED BY <3>1 DEF estado, Abstract!Next, Abstract!Pedir, Abstract!Pasa
  <2>3. CASE Entrar(c)
    <3>1. estado' = [estado EXCEPT ![c] = "critica"] /\ estado[c] = "esperando"
      BY <1>2, <1>3, <1>5, <2>3 DEF Entrar
    <3>2. \A d \in Clients : cpc[d] # "critica"
      <4> DEFINE s == c - 1
      <4>1. s \in Servers /\ c = mi_cliente(s) /\ cpc[c] = "esperando"
        BY <2>3, Rangos DEF Entrar
      <4>2. Tiene(s)
        <5>1. EnVuelo(s, c) # <<>>
          <6>1. \E m : m \in Deliverable(s, c)
            BY <2>3 DEF Entrar
          <6>2. s \in Ranks /\ c \in Ranks /\ MPIState(mpi)
            BY <4>1, Rangos DEF IInv, Tipos
          <6> HIDE DEF s
          <6> QED BY <6>1, <6>2, Recibe
        <5>2. ConversacionDe(s, EnVuelo(c, s), EnVuelo(s, c), cpc[c])
          BY <4>1, DelInvariante DEF ConversacionDeS
        <5> HIDE DEF s
        <5> QED BY <4>1, <5>1, <5>2 DEF ConversacionDe
      <4>3. ASSUME NEW d \in Clients, cpc[d] = "critica"
            PROVE  FALSE
        <5>1. d - 1 \in Servers /\ mi_cliente(d - 1) = d
          BY Rangos
        <5>2. Tiene(d - 1) /\ d - 1 = s
          BY <4>1, <4>2, <4>3, <5>1, UnoSolo DEF MutualExclusion
        <5> QED BY <4>1, <4>3, <5>1, <5>2
      <4> QED BY <4>3
    <3>3. \A d \in Clients : estado[d] # "critica"
      BY <1>3, <1>4, <3>2 DEF IInv, Tipos
    <3> QED BY <3>1, <3>3 DEF estado, Abstract!Next, Abstract!Entrar, Abstract!Pasa
  <2>4. CASE Liberar(c)
    <3>1. estado' = [estado EXCEPT ![c] = "fuera"] /\ estado[c] = "critica"
      BY <1>2, <1>3, <1>5, <2>4 DEF Liberar
    <3> QED BY <3>1 DEF estado, Abstract!Next, Abstract!Salir, Abstract!Pasa
  <2>5. CASE Terminar(c)
    <3>1. estado' = [estado EXCEPT ![c] = "fin"] /\ estado[c] = "fuera"
      BY <1>2, <1>3, <1>5, <2>5 DEF Terminar
    <3> QED BY <3>1 DEF estado, Abstract!Next, Abstract!Terminar, Abstract!Pasa
  <2>6. CASE Finalizar(c)
    <3>1. estado' = [estado EXCEPT ![c] = "fin"] /\ estado[c] = "fin"
      BY <1>2, <1>3, <1>5, <2>6 DEF Finalizar
    <3> QED BY <3>1 DEF estado
  <2> QED BY <1>6, <2>1, <2>2, <2>3, <2>4, <2>5, <2>6 DEF ClienteNext
<1>7. ASSUME UNCHANGED clienteVars
      PROVE  estado' = estado
  BY <1>1, <1>7 DEF clienteVars
<1> QED BY <1>6, <1>7 DEF Next, vars, clienteVars, ClienteStep, ServidorStep, Terminado, estado

(* The program implements Exclusion: seen from its clients, whatever       *)
(* servers and messages do, each enters its critical section when no other *)
(* is inside, and after asking for it.                                     *)
THEOREM Implementa == Spec => ImplementsExclusion
<1>1. Init => Abstract!Init
  BY DEF Init, ClienteInit, Abstract!Init, EstadoDe
<1>2. IInv /\ [Next]_vars => [Abstract!Next]_[c \in Clients |-> EstadoDe(cpc[c])]
  BY PasoAbstracto
<1> QED BY <1>1, <1>2, Inductivo, PTL DEF Spec, SafeSpec, ImplementsExclusion, Abstract!Spec
=============================================================================
