---------------------------- MODULE BackendProofs ----------------------------
(***************************************************************************)
(* The safety of the multi-threaded game server, for any number of         *)
(* players, boards of any size and any number of commands.                 *)
(***************************************************************************)
EXTENDS Backend, FiniteSetTheorems, SequenceTheorems, WellFoundedInduction, TLAPS

-----------------------------------------------------------------------------
(* Sorting.                                                                *)

(* What a sequence of cells is, said with the functions of its indices. *)
LEMMA EsSecuencia ==
    ASSUME NEW S, NEW s \in Seq(S)
    PROVE  /\ Len(s) \in Nat /\ DOMAIN s = 1..Len(s) /\ s \in [1..Len(s) -> S]
           /\ s # <<>> <=> Len(s) > 0
BY LenProperties, EmptySeq

LEMMA SecuenciaDe ==
    ASSUME NEW S, NEW n \in Nat, NEW f \in [1..n -> S]
    PROVE  f \in Seq(S) /\ Len(f) = n
<1>1. f \in Seq(S)
  BY SeqDef
<1> QED BY <1>1, LenProperties

LEMMA CoordenadasDe ==
    ASSUME NEW c \in Casilleros
    PROVE  /\ c = <<c[1], c[2]>>
           /\ c[1] \in 0..(alto - 1) /\ c[2] \in 0..(ancho - 1)
           /\ c[1] \in Int /\ c[2] \in Int
BY DimensionsAssumption DEF Casilleros

(* compare_casilleros is a total order. *)
LEMMA OrdenDeCasilleros ==
    ASSUME NEW c \in Casilleros, NEW d \in Casilleros
    PROVE  /\ compare_casilleros(c, c)
           /\ compare_casilleros(c, d) \/ compare_casilleros(d, c)
           /\ compare_casilleros(c, d) /\ compare_casilleros(d, c) => c = d
           /\ \A e \in Casilleros :
                 compare_casilleros(c, d) /\ compare_casilleros(d, e) => compare_casilleros(c, e)
<1>1. /\ c = <<c[1], c[2]>> /\ d = <<d[1], d[2]>>
      /\ c[1] \in Int /\ c[2] \in Int /\ d[1] \in Int /\ d[2] \in Int
  BY CoordenadasDe
<1>2. compare_casilleros(c, d) /\ compare_casilleros(d, c) => c = d
  <2>1. compare_casilleros(c, d) /\ compare_casilleros(d, c) => c[1] = d[1] /\ c[2] = d[2]
    BY <1>1 DEF compare_casilleros
  <2> QED BY <1>1, <2>1
<1>3. ASSUME NEW e \in Casilleros, compare_casilleros(c, d), compare_casilleros(d, e)
      PROVE  compare_casilleros(c, e)
  BY <1>1, <1>3, CoordenadasDe DEF compare_casilleros
<1> QED BY <1>1, <1>2, <1>3 DEF compare_casilleros

(* So is the order of the places. *)
LEMMA OrdenDeLugares ==
    ASSUME NEW s \in Seq(Casilleros), NEW i \in DOMAIN s, NEW j \in DOMAIN s
    PROVE  /\ NoDespues(s, i, i)
           /\ NoDespues(s, i, j) \/ NoDespues(s, j, i)
           /\ NoDespues(s, i, j) /\ NoDespues(s, j, i) => i = j
           /\ NoDespues(s, i, j) => compare_casilleros(s[i], s[j])
           /\ \A k \in DOMAIN s : NoDespues(s, i, j) /\ NoDespues(s, j, k) => NoDespues(s, i, k)
<1>1. /\ i \in Int /\ j \in Int /\ DOMAIN s \subseteq Int
      /\ \A k \in DOMAIN s : s[k] \in Casilleros
  BY EsSecuencia
<1>2. ASSUME NEW k \in DOMAIN s, NoDespues(s, i, j), NoDespues(s, j, k)
      PROVE  NoDespues(s, i, k)
  <2>1. k \in Int
    BY <1>1
  <2>2. compare_casilleros(s[i], s[j]) /\ compare_casilleros(s[j], s[k])
    BY <1>1, <1>2, OrdenDeCasilleros DEF NoDespues
  <2>3. CASE s[i] = s[k]
    <3>1. s[i] = s[j]
      BY <1>1, <2>2, <2>3, OrdenDeCasilleros
    <3> QED BY <1>1, <1>2, <2>1, <2>3, <3>1 DEF NoDespues
  <2>4. CASE s[i] # s[k]
    BY <1>1, <2>2, <2>4, OrdenDeCasilleros DEF NoDespues
  <2> QED BY <2>3, <2>4
<1> QED BY <1>1, <1>2, OrdenDeCasilleros DEF NoDespues

(* The places are those of a permutation, in order. *)
LEMMA LugaresEnOrden ==
    ASSUME NEW s \in Seq(Casilleros)
    PROVE  /\ \A i \in DOMAIN s : Puesto(s, i) \in DOMAIN s
           /\ \A i, j \in DOMAIN s : i # j /\ NoDespues(s, i, j) => Puesto(s, i) < Puesto(s, j)
           /\ \A k \in DOMAIN s : \E i \in DOMAIN s : Puesto(s, i) = k
<1> DEFINE D == DOMAIN s
           A(i) == {j \in D : NoDespues(s, j, i)}
<1>1. /\ Len(s) \in Nat /\ D = 1..Len(s) /\ IsFiniteSet(D) /\ Cardinality(D) = Len(s)
  BY EsSecuencia, FS_Interval
<1>2. ASSUME NEW i \in D
      PROVE  /\ IsFiniteSet(A(i)) /\ Puesto(s, i) = Cardinality(A(i)) /\ Puesto(s, i) \in D
  <2>1. A(i) \in SUBSET D /\ i \in A(i)
    BY OrdenDeLugares
  <2>2. IsFiniteSet(A(i)) /\ Cardinality(A(i)) <= Len(s)
    BY <1>1, <2>1, FS_Subset
  <2>3. Cardinality(A(i)) \in Nat /\ Cardinality(A(i)) # 0
    BY <2>1, <2>2, FS_CardinalityType, FS_EmptySet
  <2>4. Puesto(s, i) = Cardinality(A(i))
    BY DEF Puesto
  <2> QED BY <1>1, <2>2, <2>3, <2>4
<1>3. ASSUME NEW i \in D, NEW j \in D, i # j, NoDespues(s, i, j)
      PROVE  Puesto(s, i) < Puesto(s, j)
  <2>1. A(i) \in SUBSET A(j)
    <3>1. \A k \in D : NoDespues(s, k, i) => NoDespues(s, k, j)
      BY <1>3, OrdenDeLugares
    <3> QED BY <3>1
  <2>2. j \in A(j) /\ j \notin A(i)
    BY <1>3, OrdenDeLugares
  <2>3. Cardinality(A(i)) <= Cardinality(A(j)) /\ Cardinality(A(i)) # Cardinality(A(j))
    <3>1. IsFiniteSet(A(j)) /\ A(i) # A(j)
      BY <1>2, <2>2
    <3> QED BY <2>1, <3>1, FS_Subset
  <2>4. Puesto(s, i) \in Int /\ Puesto(s, j) \in Int
    <3>1. Puesto(s, i) \in D /\ Puesto(s, j) \in D
      BY <1>2
    <3> QED BY <1>1, <3>1
  <2>5. Puesto(s, i) = Cardinality(A(i)) /\ Puesto(s, j) = Cardinality(A(j))
    BY <1>2
  <2> QED BY <2>3, <2>4, <2>5
<1>4. ASSUME NEW k \in D
      PROVE  \E i \in D : Puesto(s, i) = k
  <2> DEFINE f == [i \in D |-> Puesto(s, i)]
  <2>1. f \in [D -> D]
    BY <1>2
  <2>2. IsInjective(f)
    <3>1. \A i, j \in D : Puesto(s, i) = Puesto(s, j) => i = j
      <4> SUFFICES ASSUME NEW i \in D, NEW j \in D, i # j
                   PROVE  Puesto(s, i) # Puesto(s, j)
        OBVIOUS
      <4>1. Puesto(s, i) \in D /\ Puesto(s, j) \in D
        BY <1>2
      <4>2. Puesto(s, i) < Puesto(s, j) \/ Puesto(s, j) < Puesto(s, i)
        BY <1>3, OrdenDeLugares
      <4>3. Puesto(s, i) \in Int /\ Puesto(s, j) \in Int
        BY <1>1, <4>1
      <4> QED BY <4>2, <4>3
    <3> QED BY <3>1 DEF IsInjective
  <2>3. f \in Injection(D, D)
    BY <2>1, <2>2 DEF Injection
  <2>4. f \in Surjection(D, D)
    BY <1>1, <2>3, FS_Injection
  <2> QED BY <2>4 DEF Surjection
<1> QED BY <1>2, <1>3, <1>4

(* list::sort: the same cells, in order. *)
LEMMA OrdenadaOrdena ==
    ASSUME NEW s \in Seq(Casilleros)
    PROVE  /\ Ordenada(s) \in Seq(Casilleros) /\ Len(Ordenada(s)) = Len(s)
           /\ \A k \in DOMAIN s : \E i \in DOMAIN s : Ordenada(s)[k] = s[i]
           /\ \A i \in DOMAIN s : \E k \in DOMAIN s : Ordenada(s)[k] = s[i]
           /\ \A k, l \in DOMAIN s : k < l => compare_casilleros(Ordenada(s)[k], Ordenada(s)[l])
<1> DEFINE D == DOMAIN s
           o == Ordenada(s)
           ind(k) == CHOOSE i \in D : Puesto(s, i) = k
<1>1. /\ Len(s) \in Nat /\ D = 1..Len(s) /\ \A i \in D : s[i] \in Casilleros
  BY EsSecuencia
<1>2. \A k \in D : ind(k) \in D /\ Puesto(s, ind(k)) = k
  BY LugaresEnOrden
<1>3. o = [k \in D |-> s[ind(k)]]
  BY DEF Ordenada
<1> HIDE DEF ind, o
<1>4. o \in [1..Len(s) -> Casilleros]
  BY <1>1, <1>2, <1>3
<1>5. o \in Seq(Casilleros) /\ Len(o) = Len(s)
  BY <1>1, <1>4, SecuenciaDe
<1>6. ASSUME NEW i \in D
      PROVE  \E k \in D : o[k] = s[i]
  <2>1. Puesto(s, i) \in D
    BY LugaresEnOrden
  <2>2. ind(Puesto(s, i)) = i
    <3> DEFINE j == ind(Puesto(s, i))
    <3>1. j \in D /\ Puesto(s, j) = Puesto(s, i)
      BY <1>2, <2>1
    <3>2. Puesto(s, i) \in Int
      BY <1>1, <2>1
    <3> HIDE DEF j
    <3>3. j = i
      <4>1. j # i => Puesto(s, i) < Puesto(s, j) \/ Puesto(s, j) < Puesto(s, i)
        BY <3>1, LugaresEnOrden, OrdenDeLugares
      <4> QED BY <3>1, <3>2, <4>1
    <3> QED BY <3>3 DEF j
  <2> QED BY <1>3, <2>1, <2>2
<1>7. ASSUME NEW k \in D, NEW l \in D, k < l
      PROVE  compare_casilleros(o[k], o[l])
  <2>1. k \in Int /\ l \in Int
    BY <1>1
  <2>2. ind(k) # ind(l) /\ ~ NoDespues(s, ind(l), ind(k))
    BY <1>2, <1>7, <2>1, LugaresEnOrden
  <2>3. compare_casilleros(s[ind(k)], s[ind(l)])
    BY <1>2, <2>2, OrdenDeLugares
  <2> QED BY <1>3, <2>3
<1>8. \A k \in D : \E i \in D : o[k] = s[i]
  BY <1>2, <1>3
<1> QED BY <1>5, <1>6, <1>7, <1>8 DEF o

(* The loop over the board goes over every cell, each one once, in order. *)
LEMMA TodoEsTodo ==
    /\ TodoElTablero \in Seq(Casilleros) /\ TodoElTablero # <<>>
    /\ \A c \in Casilleros : \E i \in DOMAIN TodoElTablero : TodoElTablero[i] = c
    /\ \A i, j \in DOMAIN TodoElTablero :
          i < j => compare_casilleros(TodoElTablero[i], TodoElTablero[j])
<1> DEFINE n == Cardinality(Casilleros)
           t == SetToSeq(Casilleros)
<1>1. IsFiniteSet(Casilleros) /\ Casilleros # {}
  <2>1. IsFiniteSet(0..(alto - 1)) /\ IsFiniteSet(0..(ancho - 1))
    BY DimensionsAssumption, FS_Interval
  <2>2. <<0, 0>> \in Casilleros
    BY DimensionsAssumption DEF Casilleros
  <2> QED BY <2>1, <2>2, FS_Product DEF Casilleros
<1>2. n \in Nat /\ n # 0 /\ IsFiniteSet(1..n) /\ Cardinality(1..n) = n
  <2>1. n \in Nat /\ n # 0
    BY <1>1, FS_CardinalityType, FS_EmptySet
  <2> QED BY <2>1, FS_Interval
<1>3. \E f \in [1..n -> Casilleros] : IsInjective(f)
  BY <1>1, FS_CardinalityType DEF ExistsBijection, Bijection, Injection
<1>4. t \in [1..n -> Casilleros] /\ IsInjective(t)
  BY <1>3 DEF SetToSeq
<1> HIDE DEF t
<1>5. t \in Seq(Casilleros) /\ Len(t) = n
  BY <1>2, <1>4, SecuenciaDe
<1>6. t \in Surjection(1..n, Casilleros)
  BY <1>1, <1>2, <1>4, FS_Injection DEF Injection
<1>7. /\ DOMAIN t = 1..n
      /\ \A c \in Casilleros : \E i \in DOMAIN t : t[i] = c
  BY <1>4, <1>6 DEF Surjection
<1>8. TodoElTablero = Ordenada(t)
  BY DEF TodoElTablero, t
<1>9. /\ TodoElTablero \in Seq(Casilleros) /\ Len(TodoElTablero) = n
      /\ DOMAIN TodoElTablero = DOMAIN t
  BY <1>2, <1>5, <1>7, <1>8, OrdenadaOrdena, EsSecuencia
<1>10. TodoElTablero # <<>> /\ DOMAIN t = DOMAIN TodoElTablero
  BY <1>2, <1>9, EsSecuencia
<1>11. ASSUME NEW c \in Casilleros
       PROVE  \E k \in DOMAIN t : TodoElTablero[k] = c
  <2>1. PICK i \in DOMAIN t : t[i] = c
    BY <1>7
  <2> QED BY <1>5, <1>8, <2>1, OrdenadaOrdena
<1>12. \A k, l \in DOMAIN t : k < l => compare_casilleros(TodoElTablero[k], TodoElTablero[l])
  BY <1>5, <1>8, OrdenadaOrdena
<1> QED BY <1>9, <1>10, <1>11, <1>12

-----------------------------------------------------------------------------
(* The inductive invariant.                                                *)

Modos   == {"R", "W"}
Pedidos == [who : Players, mode : Modos]

Cerrojos == [readers : SUBSET Players, writers : SUBSET Players, line : Seq(Pedidos)]

LosCerrojos == locks_casillas \in [Tableros -> [Casilleros -> Cerrojos]]

Tipos ==
    /\ tablero \in [Tableros -> [Casilleros -> Players \cup {VACIO}]]
    /\ LosCerrojos
    /\ palabra_actual \in [Players -> Seq(Casilleros)]
    /\ pc \in [Players -> PCs]
    /\ ficha \in [Players -> Casilleros]
    /\ todo \in [Players -> Seq(Casilleros)]
    /\ luego \in [Players -> {"error", "fin"}]
    /\ caido \in BOOLEAN
    /\ quedan \in 0..MaxComandos

(* p has the lock of the cell c of the board b. *)
Tiene(p, b, mode, c) ==
    IF mode = "R" THEN p \in locks_casillas[b][c].readers
                  ELSE p \in locks_casillas[b][c].writers

(* Many readers or one writer. *)
Exclusion ==
    \A b \in Tableros, c \in Casilleros, p, q \in Players :
        Tiene(p, b, "W", c) => ~ Tiene(q, b, "R", c) /\ (Tiene(q, b, "W", c) => p = q)

(* Who is in a line waits there, once, for what it said. *)
Filas ==
    \A b \in Tableros, c \in Casilleros :
        \A i \in DOMAIN locks_casillas[b][c].line :
            /\ \A p \in Players : locks_casillas[b][c].line[i].who = p =>
                  [tablero |-> b, c |-> c, mode |-> locks_casillas[b][c].line[i].mode] \in Pide(p)
            /\ \A j \in DOMAIN locks_casillas[b][c].line :
                  locks_casillas[b][c].line[i].who = locks_casillas[b][c].line[j].who => i = j

(* The sequence t is what is left of s in a loop over it. *)
EsCola(t, s) ==
    /\ t # <<>> /\ Len(t) <= Len(s)
    /\ \A i \in DOMAIN t : t[i] = s[Len(s) - Len(t) + i]

(* The cells of s that a loop with t left has been over. *)
Hechos(t, s) == {s[i] : i \in 1..(Len(s) - Len(t))}

(* A loop over a list s takes the locks of its cells (w = toma), another   *)
(* one uses the cells (usa) and a third one releases the locks (suelta).   *)
(* With t left, the locks taken are those behind, all of them, and none    *)
(* but those ahead; out of these loops there is none, unless the thread    *)
(* left with them.                                                         *)
Bucle(w, t, tomados, toma, usa, suelta, s, seVa) ==
    /\ w \in {toma, usa, suelta} => EsCola(t, s)
    /\ w = toma => tomados = Hechos(t, s)
    /\ w = usa => tomados = ToSet(s)
    /\ w = suelta => tomados \subseteq ToSet(t)
    /\ w \notin {toma, usa, suelta} => tomados = {} \/ seVa

(* The thread that could not send the board goes away with its locks. *)
SeVa(w, l) == w = "fin" \/ (w \in {"q_lock", "q_borra", "q_unlock"} /\ l = "fin")

EnOrden(s) == \A i, j \in DOMAIN s : i < j => compare_casilleros(s[i], s[j])

(* A thread at w, with t left and the word s: what it writes and reads.    *)
SabeDe(w, t, l, s, escribeL, escribeP, leeP, leeL) ==
    /\ Bucle(w, t, escribeL, "q_lock", "q_borra", "q_unlock", s, FALSE)
    /\ Bucle(w, t, escribeP, "p_lock", "p_escribe", "p_unlock", s, FALSE)
    /\ Bucle(w, t, leeP, "u_lock", "u_envia", "u_unlock", TodoElTablero, SeVa(w, l))
    /\ leeL = {}
    /\ w = "u_envia" => t = TodoElTablero
    /\ w = "mira_palabras" => t # <<>>
    /\ w \in {"q_lock", "p_lock"} => EnOrden(s)

(* The cells whose lock p has. *)
Cerrados(p, b, mode) == {c \in Casilleros : Tiene(p, b, mode, c)}

Sabe(p) == SabeDe(pc[p], todo[p], luego[p], palabra_actual[p],
                  Cerrados(p, "letras", "W"), Cerrados(p, "palabras", "W"),
                  Cerrados(p, "palabras", "R"), Cerrados(p, "letras", "R"))

(* What the locks protect depends on who holds them (Exclusion), who waits *)
(* (Filas: the one woken gets what it asked for) and how far each thread   *)
(* is in its loops (Sabe).                                                 *)
IInv == Tipos /\ Exclusion /\ Filas /\ \A p \in Players : Sabe(p)

-----------------------------------------------------------------------------
(* Steps of the locks.                                                     *)

(* The head of a line goes away. *)
LEMMA ColaDe ==
    ASSUME NEW S, NEW s \in Seq(S), s # <<>>
    PROVE  /\ Head(s) = s[1] /\ 1 \in DOMAIN s /\ Tail(s) \in Seq(S)
           /\ Len(Tail(s)) = Len(s) - 1 /\ DOMAIN Tail(s) = 1..(Len(s) - 1)
           /\ \A i \in 1..(Len(s) - 1) : i + 1 \in DOMAIN s /\ Tail(s)[i] = s[i + 1]
<1>1. Len(s) \in Nat /\ Len(s) > 0 /\ DOMAIN s = 1..Len(s)
  BY EsSecuencia
<1>2. Tail(s) \in Seq(S) /\ Len(Tail(s)) = Len(s) - 1
  BY HeadTailProperties
<1>3. \A i \in 1..(Len(s) - 1) : i + 1 \in DOMAIN s /\ Tail(s)[i] = s[i + 1]
  BY <1>1, HeadTailProperties
<1> QED BY <1>1, <1>2, <1>3, EsSecuencia

(* One more at the end of a sequence. *)
LEMMA AgregaDe ==
    ASSUME NEW S, NEW s \in Seq(S), NEW e \in S
    PROVE  /\ Append(s, e) \in Seq(S) /\ DOMAIN Append(s, e) = 1..(Len(s) + 1)
           /\ Len(s) \in Nat /\ DOMAIN s = 1..Len(s) /\ Len(Append(s, e)) = Len(s) + 1
           /\ \A i \in 1..Len(s) : Append(s, e)[i] = s[i]
           /\ Append(s, e)[Len(s) + 1] = e
BY AppendProperties, EsSecuencia

(* What p waits for. *)
LEMMA LoPedido ==
    ASSUME Tipos, NEW p \in Players, NEW k \in Pide(p),
           pc[p] \in {"q_lock", "mira_palabras", "p_lock", "u_lock"} => todo[p] # <<>>
    PROVE  /\ k.tablero \in Tableros /\ k.c \in Casilleros /\ k.mode \in Modos
           /\ k = [tablero |-> k.tablero, c |-> k.c, mode |-> k.mode]
           /\ \A x \in Pide(p) : x = k
           /\ pc[p] \in {"mira_letras", "escribe_letra"} => k.tablero = "letras" /\ k.c = ficha[p]
           /\ pc[p] \in {"q_lock", "mira_palabras", "p_lock", "u_lock"} => k.c = Head(todo[p])
           /\ pc[p] = "q_lock" => k.tablero = "letras" /\ k.mode = "W"
           /\ pc[p] \in {"p_lock", "u_lock", "mira_palabras"} => k.tablero = "palabras"
           /\ pc[p] = "p_lock" => k.mode = "W"
           /\ pc[p] = "u_lock" => k.mode = "R"
           /\ pc[p] \in {"mira_letras", "escribe_letra", "q_lock", "mira_palabras",
                         "p_lock", "u_lock"}
<1>1. ficha[p] \in Casilleros /\ (todo[p] # <<>> => Head(todo[p]) \in Casilleros)
  <2>1. todo[p] \in Seq(Casilleros) /\ ficha[p] \in Casilleros
    BY DEF Tipos
  <2> QED BY <2>1, HeadTailProperties
<1> QED BY <1>1 DEF Pide, Tableros, Modos

LEMMA TodoNoVacio ==
    ASSUME NEW p \in Players, Sabe(p)
    PROVE  pc[p] \in {"q_lock", "q_borra", "q_unlock", "p_lock", "p_escribe", "p_unlock",
                      "u_lock", "u_envia", "u_unlock", "mira_palabras"} => todo[p] # <<>>
BY DEF Sabe, SabeDe, Bucle, EsCola

(* The line of m is that of l without p, where each one is once. *)
LineaSin(m, l, p) ==
    /\ \A i \in DOMAIN m.line : m.line[i].who # p
    /\ \A i \in DOMAIN m.line : \E j \in DOMAIN l.line : m.line[i] = l.line[j]
    /\ \A i, j \in DOMAIN m.line : m.line[i].who = m.line[j].who => i = j

(* The lock that is granted: as it was, without the one who waited. *)
LEMMA Concesion ==
    ASSUME NEW l \in Cerrojos, NEW p \in Players, NEW mode \in Modos,
           NEW m \in Concedido(l, p, mode),
           \A i \in DOMAIN l.line : l.line[i].who = p => l.line[i].mode = mode,
           \A i, j \in DOMAIN l.line : l.line[i].who = l.line[j].who => i = j
    PROVE  /\ m \in Cerrojos /\ m.readers = l.readers /\ m.writers = l.writers
           /\ Compatible(l, mode)
           /\ LineaSin(m, l, p)
<1>1. l.line \in Seq(Pedidos) /\ l.readers \in SUBSET Players /\ l.writers \in SUBSET Players
  BY DEF Cerrojos
<1>2. CASE Entra(l, p, mode) /\ m = l
  BY <1>2 DEF Entra, Espera, LineaSin
<1>3. CASE Turno(l, p) /\ m = [l EXCEPT !.line = Tail(@)]
  <2>1. /\ l.line # <<>> /\ Head(l.line) = l.line[1] /\ l.line[1].who = p /\ 1 \in DOMAIN l.line
        /\ Compatible(l, Head(l.line).mode) /\ Tail(l.line) \in Seq(Pedidos)
    BY <1>1, <1>3, ColaDe DEF Turno
  <2>2. m = [readers |-> l.readers, writers |-> l.writers, line |-> Tail(l.line)]
    BY <1>3 DEF Cerrojos
  <2>3. m \in Cerrojos /\ m.readers = l.readers /\ m.writers = l.writers /\ m.line = Tail(l.line)
    BY <1>1, <2>1, <2>2 DEF Cerrojos
  <2>4. Compatible(l, mode)
    BY <2>1
  <2>5. /\ Len(l.line) \in Nat /\ DOMAIN m.line = 1..(Len(l.line) - 1)
        /\ \A i \in DOMAIN m.line : i + 1 \in DOMAIN l.line /\ m.line[i] = l.line[i + 1]
    BY <1>1, <2>1, <2>3, ColaDe, EsSecuencia
  <2>6. \A i \in DOMAIN m.line : m.line[i].who # p
    <3> SUFFICES ASSUME NEW i \in DOMAIN m.line, l.line[i + 1].who = p PROVE FALSE
      BY <2>5
    <3>1. i + 1 = 1 /\ i \in Nat /\ i >= 1
      BY <2>1, <2>5
    <3> QED BY <3>1
  <2>7. \A i, j \in DOMAIN m.line : m.line[i].who = m.line[j].who => i = j
    <3> SUFFICES ASSUME NEW i \in DOMAIN m.line, NEW j \in DOMAIN m.line,
                        m.line[i].who = m.line[j].who
                 PROVE  i = j
      OBVIOUS
    <3>1. i + 1 = j + 1 /\ i \in Nat /\ j \in Nat
      BY <2>5
    <3> QED BY <3>1
  <2> QED BY <2>3, <2>4, <2>5, <2>6, <2>7 DEF LineaSin
<1> QED BY <1>2, <1>3 DEF Concedido

(* The others keep their locks. *)
Ajenos(p) ==
    \A q \in Players \ {p}, b \in Tableros, mode \in Modos, c \in Casilleros :
        Tiene(q, b, mode, c)' <=> Tiene(q, b, mode, c)

(* p keeps its locks. *)
Propios(p) ==
    \A b \in Tableros, mode \in Modos, c \in Casilleros :
        Tiene(p, b, mode, c)' <=> Tiene(p, b, mode, c)

(* p is in no line, and the others are where they were. *)
FilasSin(p) ==
    \A b \in Tableros, c \in Casilleros :
        LineaSin(locks_casillas'[b][c], locks_casillas[b][c], p)

(* p waits for no lock but that of c, if it waits. *)
EsperaSolo(p, b, c) ==
    \A d \in Tableros, e \in Casilleros : <<d, e>> # <<b, c>> =>
        \A i \in DOMAIN locks_casillas[d][e].line : locks_casillas[d][e].line[i].who # p

LEMMA CerrojoDe ==
    ASSUME LosCerrojos, NEW b \in Tableros, NEW c \in Casilleros
    PROVE  /\ locks_casillas[b][c] \in Cerrojos
           /\ locks_casillas[b][c].line \in Seq(Pedidos)
           /\ locks_casillas[b][c].readers \in SUBSET Players
           /\ locks_casillas[b][c].writers \in SUBSET Players
           /\ \A i \in DOMAIN locks_casillas[b][c].line :
                 /\ locks_casillas[b][c].line[i] \in Pedidos
                 /\ locks_casillas[b][c].line[i].who \in Players
                 /\ locks_casillas[b][c].line[i].mode \in Modos
<1>1. locks_casillas[b][c] \in Cerrojos
  BY DEF LosCerrojos
<1>2. /\ locks_casillas[b][c].line \in Seq(Pedidos)
      /\ locks_casillas[b][c].readers \in SUBSET Players
      /\ locks_casillas[b][c].writers \in SUBSET Players
  BY <1>1 DEF Cerrojos
<1>3. \A i \in DOMAIN locks_casillas[b][c].line : locks_casillas[b][c].line[i] \in Pedidos
  BY <1>2, EsSecuencia
<1> QED BY <1>1, <1>2, <1>3 DEF Pedidos

(* p's request is granted: m is the lock it finds. *)
LEMMA Pedida ==
    ASSUME IInv, NEW p \in Players, NEW k \in Pide(p),
           NEW m \in Concedido(locks_casillas[k.tablero][k.c], p, k.mode)
    PROVE  LET l == locks_casillas[k.tablero][k.c] IN
           /\ k.tablero \in Tableros /\ k.c \in Casilleros /\ k.mode \in Modos
           /\ m \in Cerrojos /\ m.readers = l.readers /\ m.writers = l.writers
           /\ Compatible(l, k.mode)
           /\ LineaSin(m, l, p)
           /\ EsperaSolo(p, k.tablero, k.c)
<1>1. /\ k.tablero \in Tableros /\ k.c \in Casilleros /\ k.mode \in Modos
      /\ \A x \in Pide(p) : x = k
  BY LoPedido, TodoNoVacio DEF IInv
<1>2. /\ locks_casillas[k.tablero][k.c] \in Cerrojos
  BY <1>1, CerrojoDe DEF IInv, Tipos
<1>3. ASSUME NEW b \in Tableros, NEW c \in Casilleros, NEW i \in DOMAIN locks_casillas[b][c].line,
             locks_casillas[b][c].line[i].who = p
      PROVE  b = k.tablero /\ c = k.c /\ locks_casillas[b][c].line[i].mode = k.mode
  <2>1. [tablero |-> b, c |-> c, mode |-> locks_casillas[b][c].line[i].mode] \in Pide(p)
    BY <1>3 DEF IInv, Filas
  <2>2. [tablero |-> b, c |-> c, mode |-> locks_casillas[b][c].line[i].mode] = k
    BY <1>1, <2>1
  <2> QED BY <2>2
<1>4. \A i, j \in DOMAIN locks_casillas[k.tablero][k.c].line :
          locks_casillas[k.tablero][k.c].line[i].who = locks_casillas[k.tablero][k.c].line[j].who
          => i = j
  BY <1>1 DEF IInv, Filas
<1>5. \A i \in DOMAIN locks_casillas[k.tablero][k.c].line :
          locks_casillas[k.tablero][k.c].line[i].who = p =>
          locks_casillas[k.tablero][k.c].line[i].mode = k.mode
  BY <1>1, <1>3
<1>6. EsperaSolo(p, k.tablero, k.c)
  BY <1>3 DEF EsperaSolo
<1> QED BY <1>1, <1>2, <1>4, <1>5, <1>6, Concesion

LEMMA LineaIgual ==
    ASSUME IInv, NEW p \in Players, NEW b \in Tableros, NEW c \in Casilleros,
           NEW m, m.line = locks_casillas[b][c].line,
           \A i \in DOMAIN locks_casillas[b][c].line : locks_casillas[b][c].line[i].who # p
    PROVE  LineaSin(m, locks_casillas[b][c], p)
<1> DEFINE s == locks_casillas[b][c].line
<1>1. \A i \in DOMAIN s : s[i].who # p
  OBVIOUS
<1>2. \A i, j \in DOMAIN s : s[i].who = s[j].who => i = j
  BY DEF IInv, Filas
<1> HIDE DEF s
<1>3. m.line = s /\ locks_casillas[b][c].line = s
  BY DEF s
<1> QED BY <1>1, <1>2, <1>3 DEF LineaSin

(* The lock of c becomes m. *)
Cambia(b, c, m) == locks_casillas' = [locks_casillas EXCEPT ![b][c] = m]

(* One lock changes from l to m, which p leaves in no line. *)
LEMMA UnCerrojo ==
    ASSUME IInv, NEW p \in Players, NEW b \in Tableros, NEW c \in Casilleros, NEW m \in Cerrojos,
           Cambia(b, c, m),
           LineaSin(m, locks_casillas[b][c], p), EsperaSolo(p, b, c)
    PROVE  /\ LosCerrojos' /\ FilasSin(p)
           /\ locks_casillas'[b][c] = m
           /\ \A d \in Tableros, e \in Casilleros : <<d, e>> # <<b, c>> =>
                 locks_casillas'[d][e] = locks_casillas[d][e]
<1>1. locks_casillas \in [Tableros -> [Casilleros -> Cerrojos]]
  BY DEF IInv, Tipos, LosCerrojos
<1>2. LosCerrojos'
  BY <1>1 DEF LosCerrojos, Cambia
<1>3. /\ locks_casillas'[b][c] = m
      /\ \A d \in Tableros, e \in Casilleros : <<d, e>> # <<b, c>> =>
            locks_casillas'[d][e] = locks_casillas[d][e]
  BY <1>1 DEF Cambia
<1>4. FilasSin(p)
  <2> SUFFICES ASSUME NEW d \in Tableros, NEW e \in Casilleros
               PROVE  LineaSin(locks_casillas'[d][e], locks_casillas[d][e], p)
    BY DEF FilasSin
  <2>1. CASE d = b /\ e = c
    BY <1>3, <2>1
  <2>2. CASE <<d, e>> # <<b, c>>
    <3>1. locks_casillas'[d][e] = locks_casillas[d][e]
      BY <1>3, <2>2
    <3>2. \A i \in DOMAIN locks_casillas[d][e].line : locks_casillas[d][e].line[i].who # p
      BY <2>2 DEF EsperaSolo
    <3> QED BY <3>1, <3>2, LineaIgual
  <2> QED BY <2>1, <2>2
<1> QED BY <1>2, <1>3, <1>4

(* A lock held during the step: nobody's locks change. *)
LEMMA PasaUnaSeccion ==
    ASSUME IInv, NEW p \in Players, Seccion(p)
    PROVE  LosCerrojos' /\ Exclusion' /\ Ajenos(p) /\ Propios(p) /\ FilasSin(p)
<1>1. PICK k \in Pide(p) : \E l \in Concedido(locks_casillas[k.tablero][k.c], p, k.mode) :
          Cambia(k.tablero, k.c, l)
  BY DEF Seccion, Cambia
<1>2. PICK m \in Concedido(locks_casillas[k.tablero][k.c], p, k.mode) :
          Cambia(k.tablero, k.c, m)
  BY <1>1
<1>3. k.tablero \in Tableros /\ k.c \in Casilleros /\ m \in Cerrojos
  BY <1>2, Pedida
<1>4. /\ LosCerrojos' /\ FilasSin(p)
      /\ locks_casillas'[k.tablero][k.c] = m
      /\ \A d \in Tableros, e \in Casilleros : <<d, e>> # <<k.tablero, k.c>> =>
            locks_casillas'[d][e] = locks_casillas[d][e]
  <2>1. LineaSin(m, locks_casillas[k.tablero][k.c], p) /\ EsperaSolo(p, k.tablero, k.c)
    BY <1>2, Pedida
  <2> QED BY <1>2, <1>3, <2>1, UnCerrojo
<1>5. /\ m.readers = locks_casillas[k.tablero][k.c].readers
      /\ m.writers = locks_casillas[k.tablero][k.c].writers
  BY <1>2, Pedida
<1>6. \A b \in Tableros, c \in Casilleros :
          /\ locks_casillas'[b][c].readers = locks_casillas[b][c].readers
          /\ locks_casillas'[b][c].writers = locks_casillas[b][c].writers
  BY <1>4, <1>5
<1>7. \A q \in Players, b \in Tableros, mode \in Modos, c \in Casilleros :
          Tiene(q, b, mode, c)' <=> Tiene(q, b, mode, c)
  BY <1>6 DEF Tiene
<1>8. Exclusion'
  BY <1>7 DEF IInv, Exclusion, Modos
<1> QED BY <1>4, <1>7, <1>8 DEF Ajenos, Propios

(* p gets the lock it asked for. *)
Gana(p, b, mode, c) ==
    \A d \in Tableros, m \in Modos, e \in Casilleros :
        Tiene(p, d, m, e)' <=> Tiene(p, d, m, e) \/ (d = b /\ m = mode /\ e = c)

LEMMA TomaUnLock ==
    ASSUME IInv, NEW p \in Players, NEW k \in Pide(p), Lock(p)
    PROVE  /\ LosCerrojos' /\ Exclusion' /\ Ajenos(p) /\ FilasSin(p)
           /\ Gana(p, k.tablero, k.mode, k.c)
           /\ k.mode = "W" => ~ Tiene(p, k.tablero, "W", k.c)
<1>1. /\ k.tablero \in Tableros /\ k.c \in Casilleros /\ k.mode \in Modos
      /\ \A x \in Pide(p) : x = k
  BY LoPedido, TodoNoVacio DEF IInv
<1>2. PICK m \in Concedido(locks_casillas[k.tablero][k.c], p, k.mode) :
          Cambia(k.tablero, k.c, Tomado(m, p, k.mode))
  BY <1>1 DEF Lock, Cambia
<1> DEFINE l == locks_casillas[k.tablero][k.c]
           t == Tomado(m, p, k.mode)
<1>3. /\ m \in Cerrojos /\ m.readers = l.readers /\ m.writers = l.writers
      /\ Compatible(l, k.mode)
  BY <1>2, Pedida
<1>4. /\ t \in Cerrojos /\ t.line = m.line
      /\ t.readers = (IF k.mode = "R" THEN l.readers \cup {p} ELSE l.readers)
      /\ t.writers = (IF k.mode = "R" THEN l.writers ELSE l.writers \cup {p})
  BY <1>3 DEF Tomado, Cerrojos
<1>5. /\ LosCerrojos' /\ FilasSin(p)
      /\ locks_casillas'[k.tablero][k.c] = t
      /\ \A d \in Tableros, e \in Casilleros : <<d, e>> # <<k.tablero, k.c>> =>
            locks_casillas'[d][e] = locks_casillas[d][e]
  <2> HIDE DEF t
  <2>1. Cambia(k.tablero, k.c, t)
    BY <1>2 DEF t
  <2>2. LineaSin(m, l, p) /\ EsperaSolo(p, k.tablero, k.c)
    BY <1>2, Pedida
  <2>3. LineaSin(t, l, p)
    BY <1>4, <2>2 DEF LineaSin
  <2> QED BY <1>1, <1>4, <2>1, <2>2, <2>3, UnCerrojo
<1>6. \A q \in Players, d \in Tableros, w \in Modos, e \in Casilleros :
          Tiene(q, d, w, e)' <=>
              Tiene(q, d, w, e) \/ (q = p /\ d = k.tablero /\ w = k.mode /\ e = k.c)
  <2> SUFFICES ASSUME NEW q \in Players, NEW d \in Tableros, NEW w \in Modos, NEW e \in Casilleros
               PROVE  Tiene(q, d, w, e)' <=>
                        Tiene(q, d, w, e) \/ (q = p /\ d = k.tablero /\ w = k.mode /\ e = k.c)
    OBVIOUS
  <2>1. CASE d = k.tablero /\ e = k.c
    BY <1>1, <1>4, <1>5, <2>1 DEF Tiene, Modos
  <2>2. CASE <<d, e>> # <<k.tablero, k.c>>
    BY <1>5, <2>2 DEF Tiene
  <2> QED BY <2>1, <2>2
<1>7. /\ \A q \in Players : ~ Tiene(q, k.tablero, "W", k.c)
      /\ k.mode = "W" => \A q \in Players : ~ Tiene(q, k.tablero, "R", k.c)
  BY <1>3 DEF Compatible, Tiene
<1>8. Exclusion'
  <2> SUFFICES ASSUME NEW d \in Tableros, NEW e \in Casilleros, NEW q \in Players, NEW r \in Players,
                      Tiene(q, d, "W", e)'
               PROVE  ~ Tiene(r, d, "R", e)' /\ (Tiene(r, d, "W", e)' => q = r)
    BY DEF Exclusion
  <2>1. CASE d = k.tablero /\ e = k.c
    BY <1>1, <1>6, <1>7, <2>1 DEF Modos
  <2>2. CASE <<d, e>> # <<k.tablero, k.c>>
    BY <1>6, <2>2 DEF Modos, IInv, Exclusion
  <2> QED BY <2>1, <2>2
<1> QED BY <1>5, <1>6, <1>7, <1>8 DEF Ajenos, Gana

(* p, who waits for nothing, releases the lock of c. *)
Pierde(p, b, c) ==
    \A d \in Tableros, m \in Modos, e \in Casilleros :
        Tiene(p, d, m, e)' <=> Tiene(p, d, m, e) /\ ~ (d = b /\ e = c)

LEMMA NoEspera ==
    ASSUME IInv, NEW p \in Players, Pide(p) = {}
    PROVE  \A b \in Tableros, c \in Casilleros :
               \A i \in DOMAIN locks_casillas[b][c].line : locks_casillas[b][c].line[i].who # p
BY DEF IInv, Filas

LEMMA SueltaUnLock ==
    ASSUME IInv, NEW p \in Players, NEW b \in Tableros, Pide(p) = {}, todo[p] # <<>>, Unlock(p, b)
    PROVE  /\ LosCerrojos' /\ Exclusion' /\ Ajenos(p) /\ FilasSin(p)
           /\ Pierde(p, b, Head(todo[p]))
<1> DEFINE c == Head(todo[p])
           l == locks_casillas[b][c]
           t == Soltado(l, p)
<1>1. c \in Casilleros
  <2>1. todo[p] \in Seq(Casilleros)
    BY DEF IInv, Tipos
  <2> QED BY <2>1, HeadTailProperties
<1> HIDE DEF c
<1>2. LosCerrojos /\ l \in Cerrojos
  BY <1>1, CerrojoDe DEF IInv, Tipos
<1>3. t \in Cerrojos /\ t.line = l.line /\ t.readers = l.readers \ {p} /\ t.writers = l.writers \ {p}
  BY <1>2 DEF Soltado, Cerrojos
<1>4. Cambia(b, c, t)
  BY <1>1, <1>2 DEF Unlock, c, LosCerrojos, Cambia
<1> HIDE DEF t
<1>5. /\ LosCerrojos' /\ FilasSin(p)
      /\ locks_casillas'[b][c] = t
      /\ \A d \in Tableros, e \in Casilleros : <<d, e>> # <<b, c>> =>
            locks_casillas'[d][e] = locks_casillas[d][e]
  <2>1. LineaSin(t, l, p)
    BY <1>1, <1>3, NoEspera, LineaIgual
  <2>2. EsperaSolo(p, b, c)
    BY NoEspera DEF EsperaSolo
  <2> QED BY <1>1, <1>3, <1>4, <2>1, <2>2, UnCerrojo
<1>6. \A q \in Players, d \in Tableros, w \in Modos, e \in Casilleros :
          Tiene(q, d, w, e)' <=> Tiene(q, d, w, e) /\ ~ (q = p /\ d = b /\ e = c)
  <2> SUFFICES ASSUME NEW q \in Players, NEW d \in Tableros, NEW w \in Modos, NEW e \in Casilleros
               PROVE  Tiene(q, d, w, e)' <=> Tiene(q, d, w, e) /\ ~ (q = p /\ d = b /\ e = c)
    OBVIOUS
  <2>1. CASE d = b /\ e = c
    BY <1>1, <1>3, <1>5, <2>1 DEF Tiene, Modos
  <2>2. CASE <<d, e>> # <<b, c>>
    BY <1>5, <2>2 DEF Tiene
  <2> QED BY <2>1, <2>2
<1>7. Exclusion'
  BY <1>6 DEF Modos, IInv, Exclusion
<1> QED BY <1>5, <1>6, <1>7 DEF Ajenos, Pierde, c

(* The locks stay as they are. *)
LEMMA LocksQuietos ==
    ASSUME IInv, NEW p \in Players, Pide(p) = {}, UNCHANGED locks_casillas
    PROVE  LosCerrojos' /\ Exclusion' /\ Ajenos(p) /\ Propios(p) /\ FilasSin(p)
<1>1. \A q \in Players, b \in Tableros, mode \in Modos, c \in Casilleros :
          Tiene(q, b, mode, c)' <=> Tiene(q, b, mode, c)
  BY DEF Tiene
<1>2. LosCerrojos'
  BY DEF IInv, Tipos, LosCerrojos
<1>3. Exclusion'
  BY <1>1 DEF IInv, Exclusion, Modos
<1>4. FilasSin(p)
  BY NoEspera, LineaIgual DEF FilasSin
<1> QED BY <1>1, <1>2, <1>3, <1>4 DEF Ajenos, Propios

-----------------------------------------------------------------------------
(* One thread steps.                                                       *)

(* The other threads are where they were. *)
Marco(p) ==
    \A q \in Players \ {p} :
        /\ pc'[q] = pc[q] /\ todo'[q] = todo[q] /\ luego'[q] = luego[q]
        /\ palabra_actual'[q] = palabra_actual[q] /\ ficha'[q] = ficha[q]

LEMMA AjenoSabe ==
    ASSUME NEW p \in Players, Marco(p), Ajenos(p), NEW q \in Players \ {p}
    PROVE  /\ Sabe(q) => Sabe(q)'
           /\ Pide(q)' = Pide(q)
<1>1. \A b \in Tableros, mode \in Modos : Cerrados(q, b, mode)' = Cerrados(q, b, mode)
  BY DEF Ajenos, Cerrados
<1>2. /\ Cerrados(q, "letras", "W")' = Cerrados(q, "letras", "W")
      /\ Cerrados(q, "palabras", "W")' = Cerrados(q, "palabras", "W")
      /\ Cerrados(q, "palabras", "R")' = Cerrados(q, "palabras", "R")
      /\ Cerrados(q, "letras", "R")' = Cerrados(q, "letras", "R")
  BY <1>1 DEF Tableros, Modos
<1>3. Sabe(q) => Sabe(q)'
  BY <1>2 DEF Marco, Sabe
<1>4. Pide(q)' = Pide(q)
  BY DEF Marco, Pide
<1> QED BY <1>3, <1>4

(* The invariant holds again if it does for the thread that stepped. *)
LEMMA Paso ==
    ASSUME IInv, NEW p \in Players, Tipos', Exclusion', Marco(p), Ajenos(p), FilasSin(p), Sabe(p)'
    PROVE  IInv'
<1>1. \A q \in Players : Sabe(q)'
  BY AjenoSabe DEF IInv
<1>2. Filas'
  <2> SUFFICES ASSUME NEW b \in Tableros, NEW c \in Casilleros,
                      NEW i \in DOMAIN locks_casillas'[b][c].line
               PROVE  /\ \A q \in Players : locks_casillas'[b][c].line[i].who = q =>
                            [tablero |-> b, c |-> c, mode |-> locks_casillas'[b][c].line[i].mode]
                               \in Pide(q)'
                      /\ \A j \in DOMAIN locks_casillas'[b][c].line :
                            locks_casillas'[b][c].line[i].who = locks_casillas'[b][c].line[j].who
                            => i = j
    BY DEF Filas
  <2>1. PICK j \in DOMAIN locks_casillas[b][c].line :
            locks_casillas'[b][c].line[i] = locks_casillas[b][c].line[j]
    BY DEF FilasSin, LineaSin
  <2>2. ASSUME NEW q \in Players, locks_casillas'[b][c].line[i].who = q
        PROVE  [tablero |-> b, c |-> c, mode |-> locks_casillas'[b][c].line[i].mode] \in Pide(q)'
    <3>1. q # p
      BY <2>2 DEF FilasSin, LineaSin
    <3>2. [tablero |-> b, c |-> c, mode |-> locks_casillas[b][c].line[j].mode] \in Pide(q)
      BY <2>1, <2>2 DEF IInv, Filas
    <3>3. Pide(q)' = Pide(q)
      BY <3>1, AjenoSabe
    <3> QED BY <2>1, <3>2, <3>3
  <2>3. \A k \in DOMAIN locks_casillas'[b][c].line :
            locks_casillas'[b][c].line[i].who = locks_casillas'[b][c].line[k].who => i = k
    BY DEF FilasSin, LineaSin
  <2> QED BY <2>2, <2>3
<1> QED BY <1>1, <1>2 DEF IInv

-----------------------------------------------------------------------------
(* The loops over cells.                                                   *)

LEMMA ColaAvanza ==
    ASSUME NEW t \in Seq(Casilleros), NEW s \in Seq(Casilleros), EsCola(t, s)
    PROVE  /\ Head(t) \in Casilleros /\ Head(t) \in ToSet(s) /\ ToSet(s) \subseteq Casilleros
           /\ Head(t) = s[Len(s) - Len(t) + 1] /\ Len(s) - Len(t) + 1 \in DOMAIN s
           /\ Len(t) > 1 => /\ EsCola(Tail(t), s)
                            /\ Hechos(Tail(t), s) = Hechos(t, s) \cup {Head(t)}
                            /\ ToSet(t) = ToSet(Tail(t)) \cup {Head(t)}
           /\ ~ (Len(t) > 1) => /\ Hechos(t, s) \cup {Head(t)} = ToSet(s)
                                /\ ToSet(t) = {Head(t)}
<1> DEFINE n == Len(s)
           m == Len(t)
<1>1. /\ n \in Nat /\ DOMAIN s = 1..n /\ \A i \in 1..n : s[i] \in Casilleros
      /\ m \in Nat /\ m > 0 /\ DOMAIN t = 1..m /\ m <= n /\ t # <<>>
      /\ \A i \in 1..m : t[i] = s[n - m + i]
  BY EsSecuencia DEF EsCola
<1>2. /\ Head(t) = t[1] /\ Tail(t) \in Seq(Casilleros)
      /\ Len(Tail(t)) = m - 1 /\ DOMAIN Tail(t) = 1..(m - 1)
      /\ \A i \in 1..(m - 1) : Tail(t)[i] = t[i + 1]
  BY <1>1, ColaDe
<1>3. Head(t) = s[n - m + 1] /\ n - m + 1 \in 1..n
  BY <1>1, <1>2
<1>4. /\ Head(t) \in Casilleros /\ Head(t) \in ToSet(s) /\ ToSet(s) \subseteq Casilleros
  BY <1>1, <1>3 DEF ToSet
<1>5. CASE m > 1
  <2>1. EsCola(Tail(t), s)
    <3>1. Tail(t) # <<>> /\ Len(Tail(t)) <= n
      <4>1. m - 1 > 0 /\ m - 1 <= n
        BY <1>1, <1>5
      <4> HIDE DEF m, n
      <4>2. Tail(t) \in Seq(Casilleros) /\ Len(Tail(t)) > 0 /\ Len(Tail(t)) <= n
        BY <1>2, <4>1
      <4> QED BY <4>2, EsSecuencia
    <3>2. \A i \in 1..(m - 1) : Tail(t)[i] = s[n - (m - 1) + i]
      <4> TAKE i \in 1..(m - 1)
      <4>1. i + 1 \in 1..m /\ n - m + (i + 1) = n - (m - 1) + i
        BY <1>1
      <4>2. Tail(t)[i] = t[i + 1] /\ t[i + 1] = s[n - m + (i + 1)]
        BY <1>1, <1>2, <4>1
      <4> QED BY <4>1, <4>2
    <3> QED BY <1>2, <3>1, <3>2 DEF EsCola
  <2>2. Hechos(Tail(t), s) = Hechos(t, s) \cup {Head(t)}
    <3>1. 1..(n - (m - 1)) = (1..(n - m)) \cup {n - m + 1}
      BY <1>1
    <3> QED BY <1>2, <1>3, <3>1 DEF Hechos
  <2>3. ToSet(t) = ToSet(Tail(t)) \cup {Head(t)}
    <3>1. \A i \in 1..m : i = 1 \/ (i - 1 \in 1..(m - 1) /\ (i - 1) + 1 = i)
      BY <1>1
    <3>2. \A i \in 1..(m - 1) : i + 1 \in 1..m
      BY <1>1
    <3>3. ASSUME NEW i \in 1..m
          PROVE  t[i] \in ToSet(Tail(t)) \cup {Head(t)}
      <4>1. CASE i = 1
        BY <1>2, <4>1
      <4>2. CASE i - 1 \in 1..(m - 1) /\ (i - 1) + 1 = i
        <5>1. Tail(t)[i - 1] = t[i]
          BY <1>2, <4>2
        <5> QED BY <1>2, <4>2, <5>1 DEF ToSet
      <4> QED BY <3>1, <4>1, <4>2
    <3>4. ASSUME NEW i \in 1..(m - 1)
          PROVE  Tail(t)[i] \in ToSet(t)
      BY <1>1, <1>2, <3>2 DEF ToSet
    <3>5. Head(t) \in ToSet(t)
      BY <1>1, <1>2 DEF ToSet
    <3>6. ToSet(t) = {t[i] : i \in 1..m} /\ ToSet(Tail(t)) = {Tail(t)[i] : i \in 1..(m - 1)}
      BY <1>1, <1>2 DEF ToSet
    <3> HIDE DEF m
    <3> QED BY <3>3, <3>4, <3>5, <3>6
  <2> QED BY <1>3, <1>4, <1>5, <2>1, <2>2, <2>3, <1>1
<1>6. CASE m = 1
  <2>1. ToSet(t) = {Head(t)}
    BY <1>1, <1>2, <1>6 DEF ToSet
  <2>2. Hechos(t, s) \cup {Head(t)} = ToSet(s)
    <3>1. 1..n = (1..(n - m)) \cup {n - m + 1}
      BY <1>1, <1>6
    <3>2. Hechos(t, s) = {s[i] : i \in 1..(n - m)} /\ ToSet(s) = {s[i] : i \in 1..n}
      BY <1>1 DEF Hechos, ToSet
    <3>3. Head(t) = s[n - m + 1]
      BY <1>3
    <3> HIDE DEF m, n
    <3> QED BY <3>1, <3>2, <3>3
  <2> QED BY <1>1, <1>3, <1>4, <1>6, <2>1, <2>2
<1> QED BY <1>1, <1>5, <1>6

LEMMA ColaEntera ==
    ASSUME NEW s \in Seq(Casilleros), s # <<>>
    PROVE  EsCola(s, s) /\ Hechos(s, s) = {}
<1>1. Len(s) \in Nat /\ Len(s) > 0 /\ DOMAIN s = 1..Len(s)
  BY EsSecuencia
<1>2. EsCola(s, s)
  BY <1>1 DEF EsCola
<1>3. Hechos(s, s) = {}
  BY <1>1 DEF Hechos
<1> QED BY <1>2, <1>3

LEMMA PalabraDeLaCola ==
    ASSUME NEW t \in Seq(Casilleros), NEW s \in Seq(Casilleros), EsCola(t, s)
    PROVE  s # <<>>
<1>1. Len(t) \in Nat /\ Len(s) \in Nat /\ Len(t) > 0 /\ Len(t) <= Len(s)
  BY EsSecuencia DEF EsCola
<1>2. Len(s) > 0
  BY <1>1
<1> QED BY <1>2, EsSecuencia

(* Sigue, for the thread that is at w with t left. *)
Seguido(w, t, w2, t2, where, s) ==
    IF Len(t) > 1 THEN w2 = w /\ t2 = Tail(t) ELSE w2 = where /\ t2 = s

(* What is left after a step of a loop, and of the last one. *)
LEMMA BucleSigue ==
    ASSUME NEW s \in Seq(Casilleros), NEW t \in Seq(Casilleros), EsCola(t, s)
    PROVE  /\ EsCola(s, s)
           /\ Len(t) > 1 => /\ EsCola(Tail(t), s)
                            /\ Hechos(t, s) \cup {Head(t)} = Hechos(Tail(t), s)
                            /\ ToSet(t) = ToSet(Tail(t)) \cup {Head(t)}
           /\ ~ (Len(t) > 1) => /\ Hechos(t, s) \cup {Head(t)} = ToSet(s)
                                /\ ToSet(t) = {Head(t)}
<1>1. EsCola(s, s)
  BY PalabraDeLaCola, ColaEntera
<1>2. Len(t) > 1 => /\ EsCola(Tail(t), s)
                    /\ Hechos(t, s) \cup {Head(t)} = Hechos(Tail(t), s)
                    /\ ToSet(t) = ToSet(Tail(t)) \cup {Head(t)}
  BY ColaAvanza
<1>3. ~ (Len(t) > 1) => Hechos(t, s) \cup {Head(t)} = ToSet(s) /\ ToSet(t) = {Head(t)}
  BY ColaAvanza
<1> QED BY <1>1, <1>2, <1>3

-----------------------------------------------------------------------------
(* What a step does to its thread.                                         *)

(* The types of what only the threads change. *)
TiposControl ==
    /\ palabra_actual \in [Players -> Seq(Casilleros)]
    /\ pc \in [Players -> PCs]
    /\ ficha \in [Players -> Casilleros]
    /\ todo \in [Players -> Seq(Casilleros)]
    /\ luego \in [Players -> {"error", "fin"}]

LEMMA Va ==
    ASSUME Tipos, NEW p \in Players, NEW w \in PCs, Goto(p, w)
    PROVE  /\ pc' \in [Players -> PCs] /\ pc'[p] = w
           /\ \A q \in Players \ {p} : pc'[q] = pc[q]
BY DEF Tipos, Goto

LEMMA SigueDe ==
    ASSUME Tipos, NEW p \in Players, NEW w \in PCs, NEW s \in Seq(Casilleros), Sigue(p, w, s),
           todo[p] # <<>>
    PROVE  /\ pc' \in [Players -> PCs] /\ todo' \in [Players -> Seq(Casilleros)]
           /\ \A q \in Players \ {p} : pc'[q] = pc[q] /\ todo'[q] = todo[q]
           /\ Seguido(pc[p], todo[p], pc'[p], todo'[p], w, s)
<1>1. /\ todo \in [Players -> Seq(Casilleros)] /\ pc \in [Players -> PCs]
      /\ Tail(todo[p]) \in Seq(Casilleros)
  BY ColaDe DEF Tipos
<1> QED BY <1>1, Va DEF Sigue, Seguido

(* Out of the loops a thread needs to know nothing. *)
LEMMA SabeFuera ==
    ASSUME NEW w \in {"fuera", "recibir", "ok", "error", "fin", "mira_letras", "mira_palabras",
                      "escribe_letra"},
           NEW t, NEW l, NEW s, NEW R, R = {} \/ w = "fin", w = "mira_palabras" => t # <<>>
    PROVE  SabeDe(w, t, l, s, {}, {}, R, {})
BY DEF SabeDe, Bucle, SeVa

(* quitar_letras leaves the thread at its first lock, or done. *)
LEMMA Quita ==
    ASSUME Tipos, NEW p \in Players, NEW despues \in {"error", "fin"}, Quitar(p, despues),
           NEW R, R = {} \/ despues = "fin"
    PROVE  /\ TiposControl' /\ Marco(p)
           /\ SabeDe(pc'[p], todo'[p], luego'[p], palabra_actual'[p], {}, {}, R, {})
<1> DEFINE s == palabra_actual[p]
           o == Ordenada(s)
<1>1. s \in Seq(Casilleros)
  BY DEF Tipos
<1>2. /\ o \in Seq(Casilleros) /\ (o = <<>> <=> s = <<>>) /\ EnOrden(o)
  <2>1. o \in Seq(Casilleros) /\ Len(o) = Len(s)
    BY <1>1, OrdenadaOrdena
  <2>2. DOMAIN o = DOMAIN s
    BY <1>1, <2>1, EsSecuencia
  <2> QED BY <1>1, <2>1, <2>2, OrdenadaOrdena, EsSecuencia DEF EnOrden
<1>3. /\ palabra_actual' = [palabra_actual EXCEPT ![p] = o]
      /\ todo' = [todo EXCEPT ![p] = o]
      /\ luego' = [luego EXCEPT ![p] = IF s = <<>> THEN "fin" ELSE despues]
      /\ ficha' = [ficha EXCEPT ![p] = <<0, 0>>]
      /\ pc' = [pc EXCEPT ![p] = IF s = <<>> THEN despues ELSE "q_lock"]
  BY DEF Quitar, Goto, Tipos
<1>4. <<0, 0>> \in Casilleros
  BY DimensionsAssumption DEF Casilleros
<1>5. TiposControl' /\ Marco(p)
  BY <1>2, <1>3, <1>4 DEF Tipos, TiposControl, Marco, PCs
<1>6. /\ pc'[p] = (IF s = <<>> THEN despues ELSE "q_lock")
      /\ todo'[p] = o /\ palabra_actual'[p] = o
      /\ luego'[p] = (IF s = <<>> THEN "fin" ELSE despues)
  BY <1>3 DEF Tipos
<1>7. CASE s = <<>>
  <2>1. pc'[p] = despues
    BY <1>6, <1>7
  <2>2. \A t, l, x : SabeDe(despues, t, l, x, {}, {}, R, {})
    BY SabeFuera
  <2> QED BY <1>5, <2>1, <2>2
<1>8. CASE s # <<>>
  <2>1. EsCola(o, o) /\ Hechos(o, o) = {}
    BY <1>2, <1>8, ColaEntera
  <2>2. pc'[p] = "q_lock" /\ luego'[p] = despues
    BY <1>6, <1>8
  <2>3. SabeDe("q_lock", o, despues, o, {}, {}, R, {})
    <3> HIDE DEF o
    <3>1. Bucle("q_lock", o, {}, "q_lock", "q_borra", "q_unlock", o, FALSE)
      BY <2>1 DEF Bucle
    <3>2. Bucle("q_lock", o, {}, "p_lock", "p_escribe", "p_unlock", o, FALSE)
      BY DEF Bucle
    <3>3. Bucle("q_lock", o, R, "u_lock", "u_envia", "u_unlock", TodoElTablero,
                SeVa("q_lock", despues))
      BY DEF Bucle, SeVa
    <3> QED BY <1>2, <3>1, <3>2, <3>3 DEF SabeDe
  <2> QED BY <1>5, <1>6, <2>2, <2>3
<1> QED BY <1>5, <1>7, <1>8

(* The locks of p, as sets of cells. *)
LEMMA MisLocks ==
    ASSUME NEW p \in Players, NEW d \in Tableros, NEW m \in Modos
    PROVE  /\ Propios(p) => Cerrados(p, d, m)' = Cerrados(p, d, m)
           /\ \A b \in Tableros, mode \in Modos, c \in Casilleros : Gana(p, b, mode, c) =>
                 Cerrados(p, d, m)' = IF d = b /\ m = mode THEN Cerrados(p, d, m) \cup {c}
                                      ELSE Cerrados(p, d, m)
           /\ \A b \in Tableros, c \in Casilleros : Pierde(p, b, c) =>
                 Cerrados(p, d, m)' = IF d = b THEN Cerrados(p, d, m) \ {c}
                                      ELSE Cerrados(p, d, m)
BY DEF Cerrados, Propios, Gana, Pierde

(* Out of the loops a thread holds no lock. *)
LEMMA SinLocks ==
    ASSUME NEW p \in Players, Sabe(p)
    PROVE  /\ pc[p] \notin {"q_lock", "q_borra", "q_unlock"} => Cerrados(p, "letras", "W") = {}
           /\ pc[p] \notin {"p_lock", "p_escribe", "p_unlock"} => Cerrados(p, "palabras", "W") = {}
           /\ pc[p] \notin {"u_lock", "u_envia", "u_unlock"} /\ ~ SeVa(pc[p], luego[p])
                 => Cerrados(p, "palabras", "R") = {}
           /\ Cerrados(p, "letras", "R") = {}
BY DEF Sabe, SabeDe, Bucle

-----------------------------------------------------------------------------
(* Each step keeps the invariant.                                          *)

(* What the steps of a thread keep, besides what they do to its thread. *)
LEMMA PasoDe ==
    ASSUME IInv, NEW p \in Players,
           LosCerrojos' /\ Exclusion' /\ Ajenos(p) /\ FilasSin(p),
           TiposControl' /\ Marco(p), Sabe(p)',
           tablero' \in [Tableros -> [Casilleros -> Players \cup {VACIO}]],
           caido' \in BOOLEAN, quedan' \in 0..MaxComandos
    PROVE  IInv'
<1>1. Tipos'
  BY DEF Tipos, TiposControl
<1> QED BY <1>1, Paso

(* Where nobody waits. *)
LEMMA NoPide ==
    ASSUME NEW p \in Players,
           pc[p] \notin {"mira_letras", "escribe_letra", "q_lock", "mira_palabras", "p_lock", "u_lock"}
    PROVE  Pide(p) = {}
BY DEF Pide

(* The thread is at a place where it holds nothing, or it leaves with what *)
(* it reads: the steps that change no lock but in a section.               *)
LEMMA PasoSinLocks ==
    ASSUME IInv, NEW p \in Players,
           LosCerrojos' /\ Exclusion' /\ Ajenos(p) /\ Propios(p) /\ FilasSin(p),
           TiposControl' /\ Marco(p),
           pc[p] \notin {"q_lock", "q_borra", "q_unlock", "p_lock", "p_escribe", "p_unlock"},
           SabeDe(pc'[p], todo'[p], luego'[p], palabra_actual'[p],
                  {}, {}, Cerrados(p, "palabras", "R"), {}),
           tablero' \in [Tableros -> [Casilleros -> Players \cup {VACIO}]],
           caido' \in BOOLEAN, quedan' \in 0..MaxComandos
    PROVE  IInv'
<1>1. /\ Cerrados(p, "letras", "W")' = Cerrados(p, "letras", "W")
      /\ Cerrados(p, "palabras", "W")' = Cerrados(p, "palabras", "W")
      /\ Cerrados(p, "palabras", "R")' = Cerrados(p, "palabras", "R")
      /\ Cerrados(p, "letras", "R")' = Cerrados(p, "letras", "R")
  BY MisLocks DEF Tableros, Modos
<1>2. Cerrados(p, "letras", "W") = {} /\ Cerrados(p, "palabras", "W") = {}
      /\ Cerrados(p, "letras", "R") = {}
  BY SinLocks DEF IInv
<1>3. Sabe(p)'
  BY <1>1, <1>2 DEF Sabe
<1> QED BY <1>3, PasoDe

LEMMA EncoladoEs ==
    ASSUME NEW l \in Cerrojos, NEW p \in Players, NEW mode \in Modos
    PROVE  LET m == Encolado(l, p, mode)
               e == [who |-> p, mode |-> mode]
           IN  /\ m \in Cerrojos /\ m.readers = l.readers /\ m.writers = l.writers
               /\ m.line = Append(l.line, e) /\ Append(l.line, e) \in Seq(Pedidos)
<1> DEFINE e == [who |-> p, mode |-> mode]
<1>1. e \in Pedidos /\ l.line \in Seq(Pedidos)
  BY DEF Pedidos, Cerrojos
<1>2. Append(l.line, e) \in Seq(Pedidos)
  <2> HIDE DEF e
  <2> QED BY <1>1, AgregaDe
<1>3. Encolado(l, p, mode) = [l EXCEPT !.line = Append(l.line, e)]
  BY DEF Encolado, Cerrojos
<1> HIDE DEF e
<1>4. Encolado(l, p, mode) \in Cerrojos
  BY <1>2, <1>3 DEF Cerrojos
<1>5. /\ Encolado(l, p, mode).readers = l.readers /\ Encolado(l, p, mode).writers = l.writers
      /\ Encolado(l, p, mode).line = Append(l.line, e)
  BY <1>3 DEF Cerrojos
<1> QED BY <1>2, <1>4, <1>5 DEF e

LEMMA PasoEsperar ==
    ASSUME IInv, NEW p \in Players, Esperar(p), UNCHANGED quedan
    PROVE  IInv'
<1>1. PICK k \in Pide(p) :
          /\ ~ Espera(locks_casillas[k.tablero][k.c], p)
          /\ Cambia(k.tablero, k.c, Encolado(locks_casillas[k.tablero][k.c], p, k.mode))
  BY DEF Esperar, Cambia
<1> DEFINE b == k.tablero
           c == k.c
           l == locks_casillas[b][c]
           m == Encolado(l, p, k.mode)
           e == [who |-> p, mode |-> k.mode]
<1>2. /\ b \in Tableros /\ c \in Casilleros /\ k.mode \in Modos
      /\ k = [tablero |-> b, c |-> c, mode |-> k.mode]
      /\ \A x \in Pide(p) : x = k
  BY LoPedido, TodoNoVacio DEF IInv
<1>3. l \in Cerrojos /\ l.line \in Seq(Pedidos) /\ e \in Pedidos
  BY <1>2, CerrojoDe DEF IInv, Tipos, Pedidos
<1>4. /\ m \in Cerrojos /\ m.readers = l.readers /\ m.writers = l.writers
      /\ m.line = Append(l.line, e) /\ Append(l.line, e) \in Seq(Pedidos)
  <2> HIDE DEF l
  <2> QED BY <1>2, <1>3, EncoladoEs
<1>5. /\ Len(l.line) \in Nat /\ DOMAIN l.line = 1..Len(l.line)
      /\ DOMAIN m.line = 1..(Len(l.line) + 1)
      /\ \A i \in 1..Len(l.line) : m.line[i] = l.line[i]
      /\ m.line[Len(l.line) + 1] = e
  <2>1. m.line = Append(l.line, e)
    BY <1>4
  <2> HIDE DEF m, l, e
  <2> QED BY <1>3, <2>1, AgregaDe
<1>6. locks_casillas \in [Tableros -> [Casilleros -> Cerrojos]]
  BY DEF IInv, Tipos, LosCerrojos
<1> HIDE DEF m, l
<1>7. /\ LosCerrojos' /\ locks_casillas'[b][c] = m
      /\ \A d \in Tableros, f \in Casilleros : <<d, f>> # <<b, c>> =>
            locks_casillas'[d][f] = locks_casillas[d][f]
  BY <1>1, <1>2, <1>4, <1>6 DEF Cambia, LosCerrojos, m, l
<1>8. \A d \in Tableros, f \in Casilleros :
          /\ locks_casillas'[d][f].readers = locks_casillas[d][f].readers
          /\ locks_casillas'[d][f].writers = locks_casillas[d][f].writers
  BY <1>4, <1>7 DEF l
<1>9. \A q \in Players, d \in Tableros, w \in Modos, f \in Casilleros :
          Tiene(q, d, w, f)' <=> Tiene(q, d, w, f)
  BY <1>8 DEF Tiene
<1>10. Exclusion'
  BY <1>9 DEF IInv, Exclusion, Modos
<1>11. UNCHANGED <<tablero, palabra_actual, pc, ficha, todo, luego, caido, quedan>>
  BY DEF Esperar
<1>12. \A q \in Players : Pide(q)' = Pide(q)
  BY <1>11 DEF Pide
<1>13. \A q \in Players : Sabe(q)'
  <2> SUFFICES ASSUME NEW q \in Players PROVE Sabe(q)'
    OBVIOUS
  <2>1. /\ Cerrados(q, "letras", "W")' = Cerrados(q, "letras", "W")
        /\ Cerrados(q, "palabras", "W")' = Cerrados(q, "palabras", "W")
        /\ Cerrados(q, "palabras", "R")' = Cerrados(q, "palabras", "R")
        /\ Cerrados(q, "letras", "R")' = Cerrados(q, "letras", "R")
    BY <1>9 DEF Cerrados, Tableros, Modos
  <2> QED BY <1>11, <2>1 DEF Sabe, IInv
<1>14. Filas'
  <2> SUFFICES ASSUME NEW d \in Tableros, NEW f \in Casilleros,
                      NEW i \in DOMAIN locks_casillas'[d][f].line
               PROVE  /\ \A q \in Players : locks_casillas'[d][f].line[i].who = q =>
                            [tablero |-> d, c |-> f, mode |-> locks_casillas'[d][f].line[i].mode]
                               \in Pide(q)'
                      /\ \A j \in DOMAIN locks_casillas'[d][f].line :
                            locks_casillas'[d][f].line[i].who = locks_casillas'[d][f].line[j].who
                            => i = j
    BY DEF Filas
  <2>1. CASE <<d, f>> # <<b, c>>
    <3>1. locks_casillas'[d][f] = locks_casillas[d][f]
      BY <1>7, <2>1
    <3> QED BY <1>12, <3>1 DEF IInv, Filas
  <2>2. CASE d = b /\ f = c
    <3>1. locks_casillas'[d][f].line = m.line
      BY <1>7, <2>2
    <3>2. \A j \in DOMAIN l.line :
             /\ l.line[j].who # p
             /\ \A q \in Players : l.line[j].who = q =>
                   [tablero |-> b, c |-> c, mode |-> l.line[j].mode] \in Pide(q)
             /\ \A j_1 \in DOMAIN l.line : l.line[j].who = l.line[j_1].who => j = j_1
      BY <1>1, <1>2 DEF IInv, Filas, Espera, l
    <3>3. i \in DOMAIN l.line \/ i = Len(l.line) + 1
      BY <1>5, <3>1
    <3>4. \A q \in Players : m.line[i].who = q =>
              [tablero |-> b, c |-> c, mode |-> m.line[i].mode] \in Pide(q)'
      <4>1. CASE i \in DOMAIN l.line
        BY <1>5, <1>12, <3>2, <4>1
      <4>2. CASE i = Len(l.line) + 1
        BY <1>2, <1>5, <1>12, <4>2
      <4> QED BY <3>3, <4>1, <4>2
    <3>5. ASSUME NEW j \in DOMAIN m.line, m.line[i].who = m.line[j].who
          PROVE  i = j
      <4>1. j \in DOMAIN l.line \/ j = Len(l.line) + 1
        BY <1>5
      <4>2. e.who = p
        OBVIOUS
      <4> HIDE DEF e
      <4> QED BY <1>5, <3>2, <3>3, <3>5, <4>1, <4>2
    <3> QED BY <2>2, <3>1, <3>4, <3>5
  <2> QED BY <2>1, <2>2
<1>15. Tipos'
  BY <1>7, <1>11 DEF IInv, Tipos
<1> QED BY <1>10, <1>13, <1>14, <1>15 DEF IInv

-----------------------------------------------------------------------------
(* The geometry of a letter.                                               *)

(* A set of naturals has a least element. *)
LEMMA Minimo ==
    ASSUME NEW T, T \subseteq Nat, T # {}
    PROVE  \E x \in T : \A y \in T : x <= y
<1>1. PICK x \in T : \A y \in T : <<y, x>> \notin OpToRel(<, Nat)
  BY NatLessThanWellFounded, WFMin, Zenon
<1>2. \A y \in T : ~ (y < x)
  <2>1. ASSUME NEW y \in T, y < x
        PROVE  <<y, x>> \in OpToRel(<, Nat)
    BY <2>1 DEF OpToRel
  <2> QED BY <1>1, <2>1
<1> QED BY <1>2

LEMMA DistanciaEs ==
    ASSUME NEW c \in Casilleros, NEW d \in Casilleros
    PROVE  /\ Distancia(c, d) \in Nat /\ alto + ancho - Distancia(c, d) \in Nat
           /\ c[1] = d[1] => Distancia(c, d) = Abs(c[2] - d[2])
           /\ c[2] = d[2] => Distancia(c, d) = Abs(c[1] - d[1])
           /\ Distancia(c, d) = Distancia(d, c)
           /\ Distancia(c, d) = 0 => c = d
<1>1. /\ c = <<c[1], c[2]>> /\ d = <<d[1], d[2]>>
      /\ c[1] \in 0..(alto - 1) /\ c[2] \in 0..(ancho - 1)
      /\ d[1] \in 0..(alto - 1) /\ d[2] \in 0..(ancho - 1)
      /\ alto \in Nat /\ ancho \in Nat
  BY CoordenadasDe, DimensionsAssumption
<1>2. \A x, y \in Int : /\ Abs(x - y) \in Nat /\ Abs(x - y) = Abs(y - x)
                        /\ Abs(x - y) = 0 <=> x = y
                        /\ Abs(x - y) = x - y \/ Abs(x - y) = y - x
  BY DEF Abs
<1> DEFINE v == Abs(c[1] - d[1])
           h == Abs(c[2] - d[2])
<1>3. /\ v \in Nat /\ h \in Nat /\ v = Abs(d[1] - c[1]) /\ h = Abs(d[2] - c[2])
      /\ v = 0 <=> c[1] = d[1]
      /\ h = 0 <=> c[2] = d[2]
      /\ v < alto /\ h < ancho
  BY <1>1, <1>2
<1>4. Distancia(c, d) = (IF v > h THEN v ELSE h) /\ Distancia(d, c) = (IF v > h THEN v ELSE h)
  BY <1>3 DEF Distancia
<1> HIDE DEF v, h
<1>5. Distancia(c, d) \in Nat /\ alto + ancho - Distancia(c, d) \in Nat
  BY <1>1, <1>3, <1>4
<1>6. /\ c[1] = d[1] => Distancia(c, d) = h
      /\ c[2] = d[2] => Distancia(c, d) = v
  BY <1>3, <1>4
<1>7. Distancia(c, d) = 0 => c[1] = d[1] /\ c[2] = d[2]
  BY <1>3, <1>4
<1> QED BY <1>1, <1>4, <1>5, <1>6, <1>7 DEF v, h

(* The farthest letter is one of the letters, and none is farther. *)
LEMMA LaMasDistante ==
    ASSUME NEW s \in Seq(Casilleros), s # <<>>, NEW c \in Casilleros
    PROVE  \E k \in DOMAIN s :
              /\ casillero_mas_distante_de(c, s) = s[k]
              /\ \A j \in DOMAIN s : Distancia(s[j], c) <= Distancia(s[k], c)
<1> DEFINE I == DOMAIN s
           d(i) == Distancia(s[i], c)
           falta(i) == alto + ancho - d(i)
<1>1. I \subseteq Nat /\ I # {}
  BY EsSecuencia
<1>2. \A i \in I : s[i] \in Casilleros /\ d(i) \in Nat /\ falta(i) \in Nat
  <2>1. \A i \in I : s[i] \in Casilleros
    BY EsSecuencia
  <2> QED BY <2>1, DistanciaEs
<1>3. alto \in Nat /\ ancho \in Nat
  BY DimensionsAssumption
<1> HIDE DEF d, I
<1>4. PICK m \in {falta(i) : i \in I} : \A y \in {falta(i) : i \in I} : m <= y
  <2>1. {falta(i) : i \in I} \subseteq Nat /\ {falta(i) : i \in I} # {}
    BY <1>1, <1>2
  <2> QED BY <2>1, Minimo
<1>5. PICK i \in {j \in I : falta(j) = m} : \A j \in {j \in I : falta(j) = m} : i <= j
  <2>1. {j \in I : falta(j) = m} \subseteq Nat /\ {j \in I : falta(j) = m} # {}
    BY <1>1, <1>4
  <2> QED BY <2>1, Minimo
<1>6. \A j \in I : d(j) <= d(i) /\ (d(j) = d(i) => i <= j)
  <2> TAKE j \in I
  <2>1. i \in I /\ d(i) \in Nat /\ d(j) \in Nat /\ falta(i) = m
    BY <1>2, <1>5
  <2>2. falta(i) <= falta(j)
    BY <1>4, <2>1
  <2>3. d(j) <= d(i) /\ (d(j) = d(i) => falta(j) = m)
    BY <1>3, <2>1, <2>2
  <2> QED BY <1>5, <2>3
<1> DEFINE P(k) == /\ \A j \in I : d(j) <= d(k)
                   /\ \A j \in 1..(k - 1) : d(j) < d(k)
<1>7. \E k \in I : P(k)
  <2>1. i \in I /\ i \in Nat /\ \A j \in 1..(i - 1) : j \in I
    <3>1. i \in I
      BY <1>5
    <3>2. I = 1..Len(s) /\ Len(s) \in Nat
      BY EsSecuencia DEF I
    <3> QED BY <3>1, <3>2
  <2>2. \A j \in 1..(i - 1) : d(j) < d(i)
    <3> TAKE j \in 1..(i - 1)
    <3>1. j \in I /\ d(j) <= d(i) /\ d(j) # d(i) /\ d(j) \in Nat /\ d(i) \in Nat
      BY <1>2, <1>6, <2>1
    <3> QED BY <3>1
  <2> QED BY <1>6, <2>1, <2>2
<1>8. PICK k \in I : casillero_mas_distante_de(c, s) = s[k] /\ P(k)
  <2>1. casillero_mas_distante_de(c, s) = s[CHOOSE k \in I : P(k)]
    BY DEF casillero_mas_distante_de, d, I
  <2> QED BY <1>7, <2>1
<1> QED BY <1>8 DEF d, I

(* The path from d to c is on the board and has the cells between them,    *)
(* and none but these and d.                                               *)
LEMMA CaminoDe ==
    ASSUME NEW d \in Casilleros, NEW c \in Casilleros, d # c, d[1] = c[1] \/ d[2] = c[2]
    PROVE  /\ Camino(d, c) \in Seq(Casilleros) /\ Camino(d, c) # <<>>
           /\ \A eje \in {1, 2}, x \in Casilleros :
                 /\ d[eje] = c[eje] /\ x[eje] = c[eje]
                 /\ \/ d[3 - eje] < x[3 - eje] /\ x[3 - eje] < c[3 - eje]
                    \/ c[3 - eje] < x[3 - eje] /\ x[3 - eje] < d[3 - eje]
                 => x \in ToSet(Camino(d, c))
           /\ \A x \in ToSet(Camino(d, c)) :
                 /\ x # c
                 /\ \A i \in {1, 2} : \/ d[i] <= x[i] /\ x[i] <= c[i]
                                      \/ c[i] <= x[i] /\ x[i] <= d[i]
<1> DEFINE n == Distancia(c, d)
           p(i) == (c[i] - d[i]) \div n
<1>1. /\ c = <<c[1], c[2]>> /\ d = <<d[1], d[2]>>
      /\ c[1] \in 0..(alto - 1) /\ c[2] \in 0..(ancho - 1)
      /\ d[1] \in 0..(alto - 1) /\ d[2] \in 0..(ancho - 1)
      /\ alto \in Nat /\ ancho \in Nat
      /\ n \in Nat /\ n # 0
      /\ c[1] = d[1] => n = Abs(c[2] - d[2])
      /\ c[2] = d[2] => n = Abs(c[1] - d[1])
  BY CoordenadasDe, DimensionsAssumption, DistanciaEs
<1>2. \A x \in Nat \ {0} : x \div x = 1 /\ (-x) \div x = -1 /\ 0 \div x = 0
  OBVIOUS
<1> HIDE DEF n
<1>3. \A i \in {1, 2} : d[3 - i] = c[3 - i] =>
          /\ p(3 - i) = 0
          /\ \/ c[i] - d[i] = n /\ p(i) = 1
             \/ d[i] - c[i] = n /\ p(i) = -1
  <2>1. \A x, y \in Int : Abs(x - y) = n => (x - y = n \/ (x - y = -n /\ y - x = n))
    BY <1>1 DEF Abs
  <2>2. \A x, y \in Int : Abs(x - y) = n =>
            \/ x - y = n /\ (x - y) \div n = 1
            \/ y - x = n /\ (x - y) \div n = -1
    BY <1>1, <1>2, <2>1
  <2>3. c[1] \in Int /\ c[2] \in Int /\ d[1] \in Int /\ d[2] \in Int
    BY <1>1
  <2>4. d[2] = c[2] => p(2) = 0 /\ (\/ c[1] - d[1] = n /\ p(1) = 1
                                    \/ d[1] - c[1] = n /\ p(1) = -1)
    <3>1. d[2] = c[2] => c[2] - d[2] = 0
      BY <2>3
    <3> QED BY <1>1, <1>2, <2>2, <2>3, <3>1
  <2>5. d[1] = c[1] => p(1) = 0 /\ (\/ c[2] - d[2] = n /\ p(2) = 1
                                    \/ d[2] - c[2] = n /\ p(2) = -1)
    <3>1. d[1] = c[1] => c[1] - d[1] = 0
      BY <2>3
    <3> QED BY <1>1, <1>2, <2>2, <2>3, <3>1
  <2> HIDE DEF p
  <2> QED BY <2>4, <2>5
<1>4. Camino(d, c) = [k \in 1..n |-> <<d[1] + (k - 1) * p(1), d[2] + (k - 1) * p(2)>>]
  BY DEF Camino, n
<1> HIDE DEF p
<1>5. \A k \in 1..n : Camino(d, c)[k] = <<d[1] + (k - 1) * p(1), d[2] + (k - 1) * p(2)>>
  BY <1>4
<1>6. \A k \in 1..n : Camino(d, c)[k] \in Casilleros
  <2> TAKE k \in 1..n
  <2>1. CASE d[2] = c[2]
    <3>1. p(2) = 0 /\ ((c[1] - d[1] = n /\ p(1) = 1) \/ (d[1] - c[1] = n /\ p(1) = -1))
      BY <1>3, <2>1
    <3>2. d[1] + (k - 1) * p(1) \in 0..(alto - 1) /\ d[2] + (k - 1) * p(2) \in 0..(ancho - 1)
      BY <1>1, <3>1
    <3> QED BY <1>5, <3>2 DEF Casilleros
  <2>2. CASE d[1] = c[1]
    <3>1. p(1) = 0 /\ ((c[2] - d[2] = n /\ p(2) = 1) \/ (d[2] - c[2] = n /\ p(2) = -1))
      BY <1>3, <2>2
    <3>2. d[1] + (k - 1) * p(1) \in 0..(alto - 1) /\ d[2] + (k - 1) * p(2) \in 0..(ancho - 1)
      BY <1>1, <3>1
    <3> QED BY <1>5, <3>2 DEF Casilleros
  <2> QED BY <2>1, <2>2
<1>7. Camino(d, c) \in Seq(Casilleros) /\ Camino(d, c) # <<>> /\ DOMAIN Camino(d, c) = 1..n
  <2>1. Camino(d, c) \in [1..n -> Casilleros]
    BY <1>4, <1>6
  <2>2. Camino(d, c) \in Seq(Casilleros) /\ Len(Camino(d, c)) = n
    BY <1>1, <2>1, SecuenciaDe
  <2> QED BY <1>1, <2>1, <2>2, EsSecuencia
<1>8. ASSUME NEW eje \in {1, 2}, NEW x \in Casilleros, d[eje] = c[eje], x[eje] = c[eje],
             \/ d[3 - eje] < x[3 - eje] /\ x[3 - eje] < c[3 - eje]
             \/ c[3 - eje] < x[3 - eje] /\ x[3 - eje] < d[3 - eje]
      PROVE  x \in ToSet(Camino(d, c))
  <2>1. x = <<x[1], x[2]>> /\ x[1] \in Int /\ x[2] \in Int
    BY CoordenadasDe
  <2>2. c[1] \in Int /\ c[2] \in Int /\ d[1] \in Int /\ d[2] \in Int
    BY <1>1
  <2>3. CASE eje = 2
    <3>1. p(2) = 0 /\ ((c[1] - d[1] = n /\ p(1) = 1) \/ (d[1] - c[1] = n /\ p(1) = -1))
      BY <1>3, <1>8, <2>3
    <3>2. PICK k \in 1..n : x[1] = d[1] + (k - 1) * p(1)
      <4>1. CASE c[1] - d[1] = n /\ p(1) = 1
        <5>1. x[1] - d[1] + 1 \in 1..n /\ x[1] = d[1] + ((x[1] - d[1] + 1) - 1) * p(1)
          BY <1>1, <1>8, <2>1, <2>2, <2>3, <4>1
        <5> QED BY <5>1
      <4>2. CASE d[1] - c[1] = n /\ p(1) = -1
        <5>1. d[1] - x[1] + 1 \in 1..n /\ x[1] = d[1] + ((d[1] - x[1] + 1) - 1) * p(1)
          BY <1>1, <1>8, <2>1, <2>2, <2>3, <4>2
        <5> QED BY <5>1
      <4> QED BY <3>1, <4>1, <4>2
    <3>3. x[2] = d[2] + (k - 1) * p(2)
      BY <1>1, <1>8, <2>2, <2>3, <3>1
    <3> QED BY <1>5, <1>7, <2>1, <3>2, <3>3 DEF ToSet
  <2>4. CASE eje = 1
    <3>1. p(1) = 0 /\ ((c[2] - d[2] = n /\ p(2) = 1) \/ (d[2] - c[2] = n /\ p(2) = -1))
      BY <1>3, <1>8, <2>4
    <3>2. PICK k \in 1..n : x[2] = d[2] + (k - 1) * p(2)
      <4>1. CASE c[2] - d[2] = n /\ p(2) = 1
        <5>1. x[2] - d[2] + 1 \in 1..n /\ x[2] = d[2] + ((x[2] - d[2] + 1) - 1) * p(2)
          BY <1>1, <1>8, <2>1, <2>2, <2>4, <4>1
        <5> QED BY <5>1
      <4>2. CASE d[2] - c[2] = n /\ p(2) = -1
        <5>1. d[2] - x[2] + 1 \in 1..n /\ x[2] = d[2] + ((d[2] - x[2] + 1) - 1) * p(2)
          BY <1>1, <1>8, <2>1, <2>2, <2>4, <4>2
        <5> QED BY <5>1
      <4> QED BY <3>1, <4>1, <4>2
    <3>3. x[1] = d[1] + (k - 1) * p(1)
      BY <1>1, <1>8, <2>2, <2>4, <3>1
    <3> QED BY <1>5, <1>7, <2>1, <3>2, <3>3 DEF ToSet
  <2> QED BY <2>3, <2>4
<1>9. ASSUME NEW x \in ToSet(Camino(d, c))
      PROVE  /\ x # c
             /\ \A i \in {1, 2} : \/ d[i] <= x[i] /\ x[i] <= c[i]
                                  \/ c[i] <= x[i] /\ x[i] <= d[i]
  <2>1. PICK k \in 1..n : x = <<d[1] + (k - 1) * p(1), d[2] + (k - 1) * p(2)>>
    BY <1>5, <1>7 DEF ToSet
  <2>2. c[1] \in Int /\ c[2] \in Int /\ d[1] \in Int /\ d[2] \in Int
    BY <1>1
  <2>3. CASE d[2] = c[2]
    <3>1. p(2) = 0 /\ ((c[1] - d[1] = n /\ p(1) = 1) \/ (d[1] - c[1] = n /\ p(1) = -1))
      BY <1>3, <2>3
    <3>2. x[2] = d[2] /\ x[2] = c[2]
      BY <2>1, <2>2, <2>3, <3>1
    <3>3. /\ x[1] \in Int
          /\ \/ d[1] <= x[1] /\ x[1] < c[1]
             \/ c[1] < x[1] /\ x[1] <= d[1]
      <4>1. CASE c[1] - d[1] = n /\ p(1) = 1
        <5>1. x[1] = d[1] + (k - 1)
          BY <2>1, <2>2, <4>1
        <5> QED BY <1>1, <2>2, <4>1, <5>1
      <4>2. CASE d[1] - c[1] = n /\ p(1) = -1
        <5>1. x[1] = d[1] - (k - 1)
          BY <2>1, <2>2, <4>2
        <5> QED BY <1>1, <2>2, <4>2, <5>1
      <4> QED BY <3>1, <4>1, <4>2
    <3>4. x # c
      BY <2>2, <3>3
    <3>5. /\ (d[1] <= x[1] /\ x[1] <= c[1]) \/ (c[1] <= x[1] /\ x[1] <= d[1])
          /\ (d[2] <= x[2] /\ x[2] <= c[2]) \/ (c[2] <= x[2] /\ x[2] <= d[2])
      BY <2>2, <3>2, <3>3
    <3> QED BY <3>4, <3>5
  <2>4. CASE d[1] = c[1]
    <3>1. p(1) = 0 /\ ((c[2] - d[2] = n /\ p(2) = 1) \/ (d[2] - c[2] = n /\ p(2) = -1))
      BY <1>3, <2>4
    <3>2. x[1] = d[1] /\ x[1] = c[1]
      BY <2>1, <2>2, <2>4, <3>1
    <3>3. /\ x[2] \in Int
          /\ \/ d[2] <= x[2] /\ x[2] < c[2]
             \/ c[2] < x[2] /\ x[2] <= d[2]
      <4>1. CASE c[2] - d[2] = n /\ p(2) = 1
        <5>1. x[2] = d[2] + (k - 1)
          BY <2>1, <2>2, <4>1
        <5> QED BY <1>1, <2>2, <4>1, <5>1
      <4>2. CASE d[2] - c[2] = n /\ p(2) = -1
        <5>1. x[2] = d[2] - (k - 1)
          BY <2>1, <2>2, <4>2
        <5> QED BY <1>1, <2>2, <4>2, <5>1
      <4> QED BY <3>1, <4>1, <4>2
    <3>4. x # c
      BY <2>2, <3>3
    <3>5. /\ (d[1] <= x[1] /\ x[1] <= c[1]) \/ (c[1] <= x[1] /\ x[1] <= d[1])
          /\ (d[2] <= x[2] /\ x[2] <= c[2]) \/ (c[2] <= x[2] /\ x[2] <= d[2])
      BY <2>2, <3>2, <3>3
    <3> QED BY <3>4, <3>5
  <2> QED BY <2>3, <2>4
<1> QED BY <1>7, <1>8, <1>9
-----------------------------------------------------------------------------
(* The steps of a thread that waits for no lock.                           *)

(* What the steps that move no lock have in common. *)
LEMMA PasoQuieto ==
    ASSUME IInv, NEW p \in Players, UNCHANGED <<tablero, locks_casillas>>,
           pc[p] \in {"fuera", "recibir", "ok", "error", "u_envia"},
           TiposControl' /\ Marco(p), caido' \in BOOLEAN, quedan' \in 0..MaxComandos,
           SabeDe(pc'[p], todo'[p], luego'[p], palabra_actual'[p],
                  {}, {}, Cerrados(p, "palabras", "R"), {})
    PROVE  IInv'
<1>1. LosCerrojos' /\ Exclusion' /\ Ajenos(p) /\ Propios(p) /\ FilasSin(p)
  BY NoPide, LocksQuietos
<1>2. tablero' \in [Tableros -> [Casilleros -> Players \cup {VACIO}]]
  BY DEF IInv, Tipos
<1> QED BY <1>1, <1>2, PasoSinLocks

(* Where a thread reads no lock. *)
LEMMA SinLeer ==
    ASSUME IInv, NEW p \in Players,
           pc[p] \in {"fuera", "recibir", "ok", "error", "mira_letras", "mira_palabras",
                      "escribe_letra"}
    PROVE  Cerrados(p, "palabras", "R") = {}
<1>1. Sabe(p) /\ ~ SeVa(pc[p], luego[p])
  BY DEF IInv, SeVa
<1> QED BY <1>1, SinLocks

(* A thread that goes where it needs to know nothing. *)
LEMMA PasoAfuera ==
    ASSUME IInv, NEW p \in Players, UNCHANGED <<tablero, locks_casillas>>,
           pc[p] \in {"fuera", "recibir", "ok", "error"},
           NEW w \in {"fuera", "recibir", "ok", "error", "fin", "mira_letras", "escribe_letra"},
           Goto(p, w), TiposControl' /\ Marco(p), caido' \in BOOLEAN, quedan' \in 0..MaxComandos
    PROVE  IInv'
<1>1. pc'[p] = w
  BY Va DEF IInv, PCs
<1>2. Cerrados(p, "palabras", "R") = {}
  BY SinLeer
<1>3. SabeDe(w, todo'[p], luego'[p], palabra_actual'[p], {}, {}, {}, {})
  BY SabeFuera
<1> QED BY <1>1, <1>2, <1>3, PasoQuieto

LEMMA PasoQuitar ==
    ASSUME IInv, NEW p \in Players, UNCHANGED <<tablero, locks_casillas, caido>>,
           pc[p] \in {"fuera", "recibir", "ok", "error", "u_envia"},
           quedan' \in 0..MaxComandos,
           NEW despues \in {"error", "fin"}, Quitar(p, despues),
           pc[p] = "u_envia" => despues = "fin"
    PROVE  IInv'
<1>1. Cerrados(p, "palabras", "R") = {} \/ despues = "fin"
  BY SinLeer
<1>2. /\ TiposControl' /\ Marco(p)
      /\ SabeDe(pc'[p], todo'[p], luego'[p], palabra_actual'[p],
                {}, {}, Cerrados(p, "palabras", "R"), {})
  BY <1>1, Quita DEF IInv
<1> QED BY <1>2, PasoQuieto DEF IInv, Tipos

(* What is left of the bound, once a command is received. *)
LEMMA UnComando ==
    ASSUME IInv, NEW p \in Players, Comando(p)
    PROVE  pc[p] = "recibir" /\ quedan' \in 0..MaxComandos
BY MaxComandosAssumption DEF IInv, Tipos, Comando

LEMMA PasoMorir ==
    ASSUME IInv, NEW p \in Players, Morir(p), UNCHANGED quedan
    PROVE  IInv'
<1>1. TiposControl' /\ Marco(p)
  BY DEF IInv, Tipos, TiposControl, Marco, Morir
<1>2. SabeDe(pc'[p], todo'[p], luego'[p], palabra_actual'[p],
             {}, {}, Cerrados(p, "palabras", "R"), {})
  <2>1. Sabe(p) /\ UNCHANGED <<pc, todo, luego, palabra_actual>>
    BY DEF IInv, Morir
  <2>2. /\ Cerrados(p, "letras", "W") = {} /\ Cerrados(p, "palabras", "W") = {}
        /\ Cerrados(p, "letras", "R") = {}
    BY <2>1, SinLocks DEF Morir
  <2> QED BY <2>1, <2>2 DEF Sabe
<1> QED BY <1>1, <1>2, PasoQuieto DEF Morir, IInv, Tipos

LEMMA PasoConectar ==
    ASSUME IInv, NEW p \in Players, Conectar(p), UNCHANGED quedan
    PROVE  IInv'
<1>1. TiposControl' /\ Marco(p)
  BY Va DEF IInv, Tipos, TiposControl, Marco, Conectar, PCs
<1> QED BY <1>1, PasoAfuera DEF Conectar, IInv, Tipos

LEMMA PasoResponder ==
    ASSUME IInv, NEW p \in Players, Responder(p), UNCHANGED quedan
    PROVE  IInv'
<1>1. CASE Quitar(p, "fin")
  BY <1>1, PasoQuitar DEF Responder, IInv, Tipos
<1>2. CASE Goto(p, "recibir") /\ UNCHANGED <<palabra_actual, ficha, todo, luego>>
  <2>1. TiposControl' /\ Marco(p)
    BY <1>2, Va DEF IInv, Tipos, TiposControl, Marco, PCs
  <2> QED BY <1>2, <2>1, PasoAfuera DEF Responder, IInv, Tipos
<1> QED BY <1>1, <1>2 DEF Responder

LEMMA PasoCortar ==
    ASSUME IInv, NEW p \in Players, Cortar(p), UNCHANGED quedan
    PROVE  IInv'
BY PasoQuitar DEF Cortar, IInv, Tipos

LEMMA PasoLetraFuera ==
    ASSUME IInv, NEW p \in Players, LetraFuera(p)
    PROVE  IInv'
BY PasoQuitar, UnComando DEF LetraFuera

LEMMA PasoRecibirLetra ==
    ASSUME IInv, NEW p \in Players, NEW c \in Casilleros, RecibirLetra(p, c)
    PROVE  IInv'
<1>1. pc[p] = "recibir" /\ quedan' \in 0..MaxComandos
  BY UnComando DEF RecibirLetra
<1>2. TiposControl' /\ Marco(p)
  BY Va DEF IInv, Tipos, TiposControl, Marco, PCs, RecibirLetra
<1> QED BY <1>1, <1>2, PasoAfuera DEF RecibirLetra, IInv, Tipos

LEMMA PasoRecibirPalabra ==
    ASSUME IInv, NEW p \in Players, RecibirPalabra(p)
    PROVE  IInv'
<1> DEFINE s == palabra_actual[p]
           o == Ordenada(s)
<1>1. pc[p] = "recibir" /\ quedan' \in 0..MaxComandos
  BY UnComando DEF RecibirPalabra
<1>2. s \in Seq(Casilleros)
  BY DEF IInv, Tipos
<1>3. /\ o \in Seq(Casilleros) /\ (o = <<>> <=> s = <<>>) /\ EnOrden(o)
  <2>1. o \in Seq(Casilleros) /\ Len(o) = Len(s)
    BY <1>2, OrdenadaOrdena
  <2>2. DOMAIN o = DOMAIN s
    BY <1>2, <2>1, EsSecuencia
  <2> QED BY <1>2, <2>1, <2>2, OrdenadaOrdena, EsSecuencia DEF EnOrden
<1>4. /\ palabra_actual' = [palabra_actual EXCEPT ![p] = o]
      /\ todo' = [todo EXCEPT ![p] = o]
      /\ pc' = [pc EXCEPT ![p] = IF s = <<>> THEN "ok" ELSE "p_lock"]
  BY DEF RecibirPalabra, Goto, IInv, Tipos
<1>5. TiposControl' /\ Marco(p)
  BY <1>3, <1>4 DEF IInv, Tipos, TiposControl, Marco, PCs, RecibirPalabra
<1>6. pc'[p] = (IF s = <<>> THEN "ok" ELSE "p_lock") /\ todo'[p] = o /\ palabra_actual'[p] = o
  BY <1>4 DEF IInv, Tipos
<1>7. SabeDe(pc'[p], o, luego'[p], o, {}, {}, {}, {})
  <2>1. CASE s = <<>>
    <3>1. pc'[p] = "ok"
      BY <1>6, <2>1
    <3> QED BY <3>1, SabeFuera
  <2>2. CASE s # <<>>
    <3>1. pc'[p] = "p_lock"
      BY <1>6, <2>2
    <3>2. EsCola(o, o) /\ Hechos(o, o) = {}
      BY <1>3, <2>2, ColaEntera
    <3>3. SabeDe("p_lock", o, luego'[p], o, {}, {}, {}, {})
      <4> HIDE DEF o
      <4> QED BY <1>3, <3>2 DEF SabeDe, Bucle
    <3> QED BY <3>1, <3>3
  <2> QED BY <2>1, <2>2
<1>8. Cerrados(p, "palabras", "R") = {}
  BY <1>1, SinLeer
<1> HIDE DEF o
<1> QED BY <1>1, <1>5, <1>6, <1>7, <1>8, PasoQuieto DEF RecibirPalabra, IInv, Tipos

LEMMA PasoRecibirUpdate ==
    ASSUME IInv, NEW p \in Players, RecibirUpdate(p)
    PROVE  IInv'
<1> DEFINE s == TodoElTablero
<1>1. pc[p] = "recibir" /\ quedan' \in 0..MaxComandos
  BY UnComando DEF RecibirUpdate
<1>2. s \in Seq(Casilleros) /\ s # <<>>
  BY TodoEsTodo
<1>3. EsCola(s, s) /\ Hechos(s, s) = {}
  BY <1>2, ColaEntera
<1>4. TiposControl' /\ Marco(p) /\ pc'[p] = "u_lock" /\ todo'[p] = s
  BY <1>2, Va DEF IInv, Tipos, TiposControl, Marco, PCs, RecibirUpdate
<1>5. Cerrados(p, "palabras", "R") = {}
  BY <1>1, SinLeer
<1>6. SabeDe("u_lock", s, luego'[p], palabra_actual'[p], {}, {}, {}, {})
  BY <1>3 DEF SabeDe, Bucle
<1> QED BY <1>1, <1>4, <1>5, <1>6, PasoQuieto DEF RecibirUpdate, IInv, Tipos

LEMMA PasoUpdateEnvia ==
    ASSUME IInv, NEW p \in Players, UpdateEnvia(p), UNCHANGED quedan
    PROVE  IInv'
<1> DEFINE s == TodoElTablero
<1>1. CASE Quitar(p, "fin")
  BY <1>1, PasoQuitar DEF UpdateEnvia, IInv, Tipos
<1>2. CASE Goto(p, "u_unlock") /\ UNCHANGED <<palabra_actual, ficha, todo, luego>>
  <2>1. TiposControl' /\ Marco(p) /\ pc'[p] = "u_unlock" /\ todo'[p] = todo[p]
    BY <1>2, Va DEF IInv, Tipos, TiposControl, Marco, PCs
  <2>2. pc[p] = "u_envia" /\ Sabe(p)
    BY DEF UpdateEnvia, IInv
  <2>3. todo[p] = s /\ Cerrados(p, "palabras", "R") = ToSet(s)
    BY <2>2 DEF Sabe, SabeDe, Bucle
  <2>4. EsCola(s, s)
    BY TodoEsTodo, ColaEntera
  <2>5. SabeDe("u_unlock", s, luego'[p], palabra_actual'[p],
               {}, {}, Cerrados(p, "palabras", "R"), {})
    BY <2>3, <2>4 DEF SabeDe, Bucle
  <2> QED BY <2>1, <2>2, <2>3, <2>5, PasoQuieto DEF UpdateEnvia, IInv, Tipos
<1> QED BY <1>1, <1>2 DEF UpdateEnvia
-----------------------------------------------------------------------------
(* The sections of one lock.                                               *)

LEMMA PasoSeccion ==
    ASSUME IInv, NEW p \in Players, Seccion(p),
           pc[p] \in {"mira_letras", "mira_palabras", "escribe_letra"},
           TiposControl' /\ Marco(p),
           SabeDe(pc'[p], todo'[p], luego'[p], palabra_actual'[p], {}, {}, {}, {}),
           tablero' \in [Tableros -> [Casilleros -> Players \cup {VACIO}]],
           caido' \in BOOLEAN, quedan' \in 0..MaxComandos
    PROVE  IInv'
<1>1. LosCerrojos' /\ Exclusion' /\ Ajenos(p) /\ Propios(p) /\ FilasSin(p)
  BY PasaUnaSeccion
<1>2. Cerrados(p, "palabras", "R") = {}
  BY SinLeer
<1> QED BY <1>1, <1>2, PasoSinLocks

(* The path that MirarLetras goes along is on the board. *)
LEMMA CaminoAlineado ==
    ASSUME NEW s \in Seq(Casilleros), s # <<>>, NEW c \in Casilleros, Alineada(c, s),
           casillero_mas_distante_de(c, s) # c
    PROVE  LET d == casillero_mas_distante_de(c, s) IN
           /\ Camino(d, c) \in Seq(Casilleros) /\ Camino(d, c) # <<>>
           /\ d[1] = c[1] \/ d[2] = c[2]
           /\ d \in Casilleros
<1> DEFINE d == casillero_mas_distante_de(c, s)
<1>1. PICK k \in DOMAIN s : d = s[k]
  BY LaMasDistante
<1>2. d \in Casilleros
  BY <1>1, EsSecuencia
<1>3. d[1] = c[1] \/ d[2] = c[2]
  BY <1>1 DEF Alineada
<1> HIDE DEF d
<1>4. Camino(d, c) \in Seq(Casilleros) /\ Camino(d, c) # <<>>
  BY <1>2, <1>3, CaminoDe DEF d
<1> QED BY <1>2, <1>3, <1>4 DEF d

LEMMA PasoMirarLetras ==
    ASSUME IInv, NEW p \in Players, MirarLetras(p), UNCHANGED quedan
    PROVE  IInv'
<1> DEFINE c == ficha[p]
           s == palabra_actual[p]
           lejos == casillero_mas_distante_de(c, s)
<1>1. /\ pc[p] = "mira_letras" /\ Seccion(p) /\ UNCHANGED tablero
      /\ c \in Casilleros /\ s \in Seq(Casilleros)
      /\ tablero' \in [Tableros -> [Casilleros -> Players \cup {VACIO}]]
      /\ quedan' \in 0..MaxComandos
  BY DEF MirarLetras, IInv, Tipos
<1>2. CASE Quitar(p, "error") /\ UNCHANGED caido
  <2>1. /\ TiposControl' /\ Marco(p)
        /\ SabeDe(pc'[p], todo'[p], luego'[p], palabra_actual'[p], {}, {}, {}, {})
    BY <1>2, Quita DEF IInv
  <2> QED BY <1>1, <1>2, <2>1, PasoSeccion DEF IInv, Tipos
<1>3. CASE Goto(p, "escribe_letra") /\ UNCHANGED <<palabra_actual, ficha, todo, luego, caido>>
  <2>1. TiposControl' /\ Marco(p) /\ pc'[p] = "escribe_letra"
    BY <1>3, Va DEF IInv, Tipos, TiposControl, Marco, PCs
  <2>2. SabeDe("escribe_letra", todo'[p], luego'[p], palabra_actual'[p], {}, {}, {}, {})
    BY SabeFuera
  <2> QED BY <1>1, <1>3, <2>1, <2>2, PasoSeccion DEF IInv, Tipos
<1>4. CASE /\ s # <<>> /\ Alineada(c, s) /\ lejos # c
           /\ todo' = [todo EXCEPT ![p] = Camino(lejos, c)]
           /\ Goto(p, "mira_palabras")
           /\ UNCHANGED <<palabra_actual, ficha, luego, caido>>
  <2>1. Camino(lejos, c) \in Seq(Casilleros) /\ Camino(lejos, c) # <<>>
    BY <1>1, <1>4, CaminoAlineado
  <2> DEFINE t == Camino(lejos, c)
  <2>2. todo' = [todo EXCEPT ![p] = t] /\ t \in Seq(Casilleros) /\ t # <<>>
    BY <1>4, <2>1
  <2> HIDE DEF t
  <2>3. TiposControl' /\ Marco(p) /\ pc'[p] = "mira_palabras" /\ todo'[p] = t
    BY <1>4, <2>2, Va DEF IInv, Tipos, TiposControl, Marco, PCs
  <2>4. SabeDe("mira_palabras", t, luego'[p], palabra_actual'[p], {}, {}, {}, {})
    BY <2>2, SabeFuera
  <2> QED BY <1>1, <1>4, <2>3, <2>4, PasoSeccion DEF IInv, Tipos
<1>5. CASE caido' = TRUE /\ UNCHANGED <<palabra_actual, pc, ficha, todo, luego>>
  <2>1. TiposControl' /\ Marco(p) /\ pc'[p] = "mira_letras"
    BY <1>1, <1>5 DEF IInv, Tipos, TiposControl, Marco
  <2>2. SabeDe("mira_letras", todo'[p], luego'[p], palabra_actual'[p], {}, {}, {}, {})
    BY SabeFuera
  <2> QED BY <1>1, <1>5, <2>1, <2>2, PasoSeccion
<1> QED BY <1>2, <1>3, <1>4, <1>5 DEF MirarLetras

LEMMA PasoMirarPalabras ==
    ASSUME IInv, NEW p \in Players, MirarPalabras(p), UNCHANGED quedan
    PROVE  IInv'
<1>1. /\ pc[p] = "mira_palabras" /\ Seccion(p)
      /\ tablero' \in [Tableros -> [Casilleros -> Players \cup {VACIO}]]
      /\ quedan' \in 0..MaxComandos /\ caido' \in BOOLEAN
  BY DEF MirarPalabras, IInv, Tipos
<1>2. todo[p] # <<>> /\ todo[p] \in Seq(Casilleros)
  BY <1>1, TodoNoVacio DEF IInv, Tipos
<1>3. CASE Quitar(p, "error")
  <2>1. /\ TiposControl' /\ Marco(p)
        /\ SabeDe(pc'[p], todo'[p], luego'[p], palabra_actual'[p], {}, {}, {}, {})
    BY <1>3, Quita DEF IInv
  <2> QED BY <1>1, <2>1, PasoSeccion
<1>4. CASE Sigue(p, "escribe_letra", <<>>) /\ UNCHANGED <<palabra_actual, ficha, luego>>
  <2>1. <<>> \in Seq(Casilleros) /\ "escribe_letra" \in PCs
    BY EmptySeq DEF PCs
  <2>2. /\ pc' \in [Players -> PCs] /\ todo' \in [Players -> Seq(Casilleros)]
        /\ \A q \in Players \ {p} : pc'[q] = pc[q] /\ todo'[q] = todo[q]
        /\ Seguido(pc[p], todo[p], pc'[p], todo'[p], "escribe_letra", <<>>)
    BY <1>2, <1>4, <2>1, SigueDe DEF IInv
  <2>3. TiposControl' /\ Marco(p)
    BY <1>4, <2>2 DEF IInv, Tipos, TiposControl, Marco
  <2>4. Len(todo[p]) > 1 => Tail(todo[p]) # <<>>
    <3>1. /\ Tail(todo[p]) \in Seq(Casilleros) /\ Len(Tail(todo[p])) = Len(todo[p]) - 1
          /\ Len(todo[p]) \in Nat
      BY <1>2, ColaDe, EsSecuencia
    <3>2. Tail(todo[p]) # <<>> <=> Len(Tail(todo[p])) > 0
      BY <3>1, EsSecuencia
    <3> QED BY <3>1, <3>2
  <2>5. pc'[p] \in {"mira_palabras", "escribe_letra"} /\ (pc'[p] = "mira_palabras" => todo'[p] # <<>>)
    BY <1>1, <2>2, <2>4 DEF Seguido
  <2>6. SabeDe(pc'[p], todo'[p], luego'[p], palabra_actual'[p], {}, {}, {}, {})
    BY <2>5, SabeFuera
  <2> QED BY <1>1, <2>3, <2>6, PasoSeccion
<1> QED BY <1>3, <1>4 DEF MirarPalabras

LEMMA PasoEscribirLetra ==
    ASSUME IInv, NEW p \in Players, EscribirLetra(p), UNCHANGED quedan
    PROVE  IInv'
<1> DEFINE s == Append(palabra_actual[p], ficha[p])
<1>1. /\ pc[p] = "escribe_letra" /\ Seccion(p)
      /\ quedan' \in 0..MaxComandos /\ caido' \in BOOLEAN
      /\ ficha[p] \in Casilleros /\ palabra_actual[p] \in Seq(Casilleros)
  BY DEF EscribirLetra, IInv, Tipos
<1>2. s \in Seq(Casilleros)
  BY <1>1, AgregaDe
<1>3. palabra_actual' = [palabra_actual EXCEPT ![p] = s]
  BY DEF EscribirLetra, IInv, Tipos
<1> HIDE DEF s
<1>4. <<0, 0>> \in Casilleros
  BY DimensionsAssumption DEF Casilleros
<1>5. TiposControl' /\ Marco(p) /\ pc'[p] = "ok"
  BY <1>2, <1>3, <1>4 DEF EscribirLetra, Goto, IInv, Tipos, TiposControl, Marco, PCs
<1>6. tablero' \in [Tableros -> [Casilleros -> Players \cup {VACIO}]]
  BY DEF EscribirLetra, IInv, Tipos
<1>7. SabeDe("ok", todo'[p], luego'[p], palabra_actual'[p], {}, {}, {}, {})
  BY SabeFuera
<1> QED BY <1>1, <1>5, <1>6, <1>7, PasoSeccion

-----------------------------------------------------------------------------
(* The loops over locks.                                                   *)

(* A step of a loop that leaves the word as it is. *)
LEMMA PasoSigue ==
    ASSUME IInv, NEW p \in Players, NEW w \in PCs, NEW s \in Seq(Casilleros), Sigue(p, w, s),
           todo[p] # <<>>, UNCHANGED <<palabra_actual, ficha, luego>>
    PROVE  /\ TiposControl' /\ Marco(p)
           /\ Seguido(pc[p], todo[p], pc'[p], todo'[p], w, s)
<1>1. /\ pc' \in [Players -> PCs] /\ todo' \in [Players -> Seq(Casilleros)]
      /\ \A q \in Players \ {p} : pc'[q] = pc[q] /\ todo'[q] = todo[q]
      /\ Seguido(pc[p], todo[p], pc'[p], todo'[p], w, s)
  BY SigueDe DEF IInv
<1> QED BY <1>1 DEF IInv, Tipos, TiposControl, Marco

(* The lock that p asks for in a loop. *)
LEMMA PideEnBucle ==
    ASSUME NEW p \in Players
    PROVE  /\ pc[p] = "q_lock" =>
                 [tablero |-> "letras", c |-> Head(todo[p]), mode |-> "W"] \in Pide(p)
           /\ pc[p] = "p_lock" =>
                 [tablero |-> "palabras", c |-> Head(todo[p]), mode |-> "W"] \in Pide(p)
           /\ pc[p] = "u_lock" =>
                 [tablero |-> "palabras", c |-> Head(todo[p]), mode |-> "R"] \in Pide(p)
BY DEF Pide

LEMMA PasoQuitarLock ==
    ASSUME IInv, NEW p \in Players, QuitarLock(p), UNCHANGED quedan
    PROVE  IInv'
<1> DEFINE t == todo[p]
           s == palabra_actual[p]
           k == [tablero |-> "letras", c |-> Head(t), mode |-> "W"]
<1>1. /\ pc[p] = "q_lock" /\ Lock(p) /\ Sabe(p) /\ t \in Seq(Casilleros) /\ s \in Seq(Casilleros)
      /\ quedan' \in 0..MaxComandos /\ caido' \in BOOLEAN
      /\ tablero' \in [Tableros -> [Casilleros -> Players \cup {VACIO}]]
      /\ palabra_actual'[p] = s /\ luego'[p] = luego[p]
  BY DEF QuitarLock, IInv, Tipos
<1>2. EsCola(t, s) /\ EnOrden(s) /\ t # <<>>
  BY <1>1, TodoNoVacio DEF Sabe, SabeDe, Bucle
<1>3. Head(t) \in Casilleros
  BY <1>1, <1>2, ColaAvanza
<1>4. k \in Pide(p)
  BY <1>1, PideEnBucle
<1>5. LosCerrojos' /\ Exclusion' /\ Ajenos(p) /\ FilasSin(p) /\ Gana(p, "letras", "W", Head(t))
  BY <1>1, <1>4, TomaUnLock
<1>6. /\ Cerrados(p, "letras", "W")' = Cerrados(p, "letras", "W") \cup {Head(t)}
      /\ Cerrados(p, "palabras", "W")' = Cerrados(p, "palabras", "W")
      /\ Cerrados(p, "palabras", "R")' = Cerrados(p, "palabras", "R")
      /\ Cerrados(p, "letras", "R")' = Cerrados(p, "letras", "R")
  BY <1>3, <1>5, MisLocks DEF Tableros, Modos
<1>7. "q_borra" \in PCs
  BY DEF PCs
<1>8. TiposControl' /\ Marco(p) /\ Seguido("q_lock", t, pc'[p], todo'[p], "q_borra", s)
  BY <1>1, <1>2, <1>7, PasoSigue DEF QuitarLock
<1>9. LET T == Cerrados(p, "letras", "W") \cup {Head(t)} IN
      \/ pc'[p] = "q_lock" /\ EsCola(todo'[p], s) /\ T = Hechos(todo'[p], s)
      \/ pc'[p] = "q_borra" /\ todo'[p] = s /\ EsCola(s, s) /\ T = ToSet(s)
  <2>1. Cerrados(p, "letras", "W") = Hechos(t, s)
    BY <1>1 DEF Sabe, SabeDe, Bucle
  <2>2. /\ s \in Seq(Casilleros) /\ t \in Seq(Casilleros) /\ EsCola(t, s)
        /\ Seguido("q_lock", t, pc'[p], todo'[p], "q_borra", s)
    BY <1>1, <1>2, <1>8
  <2> HIDE DEF s, t
  <2>3. /\ EsCola(s, s)
        /\ Len(t) > 1 => /\ EsCola(Tail(t), s)
                         /\ Hechos(t, s) \cup {Head(t)} = Hechos(Tail(t), s)
        /\ ~ (Len(t) > 1) => Hechos(t, s) \cup {Head(t)} = ToSet(s)
    BY <2>2, BucleSigue
  <2> QED BY <2>1, <2>2, <2>3 DEF Seguido
<1>10. SabeDe(pc'[p], todo'[p], luego[p], s, Cerrados(p, "letras", "W") \cup {Head(t)},
              Cerrados(p, "palabras", "W"), Cerrados(p, "palabras", "R"), Cerrados(p, "letras", "R"))
  BY <1>1, <1>2, <1>9 DEF Sabe, SabeDe, Bucle, SeVa
<1>11. Sabe(p)'
  BY <1>1, <1>6, <1>10 DEF Sabe
<1> QED BY <1>1, <1>5, <1>8, <1>11, PasoDe

LEMMA PasoPalabraLock ==
    ASSUME IInv, NEW p \in Players, PalabraLock(p), UNCHANGED quedan
    PROVE  IInv'
<1> DEFINE t == todo[p]
           s == palabra_actual[p]
           k == [tablero |-> "palabras", c |-> Head(t), mode |-> "W"]
<1>1. /\ pc[p] = "p_lock" /\ Lock(p) /\ Sabe(p) /\ t \in Seq(Casilleros) /\ s \in Seq(Casilleros)
      /\ quedan' \in 0..MaxComandos /\ caido' \in BOOLEAN
      /\ tablero' \in [Tableros -> [Casilleros -> Players \cup {VACIO}]]
      /\ palabra_actual'[p] = s /\ luego'[p] = luego[p]
  BY DEF PalabraLock, IInv, Tipos
<1>2. EsCola(t, s) /\ EnOrden(s) /\ t # <<>>
  BY <1>1, TodoNoVacio DEF Sabe, SabeDe, Bucle
<1>3. Head(t) \in Casilleros
  BY <1>1, <1>2, ColaAvanza
<1>4. k \in Pide(p)
  BY <1>1, PideEnBucle
<1>5. LosCerrojos' /\ Exclusion' /\ Ajenos(p) /\ FilasSin(p) /\ Gana(p, "palabras", "W", Head(t))
  BY <1>1, <1>4, TomaUnLock
<1>6. /\ Cerrados(p, "letras", "W")' = Cerrados(p, "letras", "W")
      /\ Cerrados(p, "palabras", "W")' = Cerrados(p, "palabras", "W") \cup {Head(t)}
      /\ Cerrados(p, "palabras", "R")' = Cerrados(p, "palabras", "R")
      /\ Cerrados(p, "letras", "R")' = Cerrados(p, "letras", "R")
  BY <1>3, <1>5, MisLocks DEF Tableros, Modos
<1>7. "p_escribe" \in PCs
  BY DEF PCs
<1>8. TiposControl' /\ Marco(p) /\ Seguido("p_lock", t, pc'[p], todo'[p], "p_escribe", s)
  BY <1>1, <1>2, <1>7, PasoSigue DEF PalabraLock
<1>9. LET T == Cerrados(p, "palabras", "W") \cup {Head(t)} IN
      \/ pc'[p] = "p_lock" /\ EsCola(todo'[p], s) /\ T = Hechos(todo'[p], s)
      \/ pc'[p] = "p_escribe" /\ todo'[p] = s /\ EsCola(s, s) /\ T = ToSet(s)
  <2>1. Cerrados(p, "palabras", "W") = Hechos(t, s)
    BY <1>1 DEF Sabe, SabeDe, Bucle
  <2>2. /\ s \in Seq(Casilleros) /\ t \in Seq(Casilleros) /\ EsCola(t, s)
        /\ Seguido("p_lock", t, pc'[p], todo'[p], "p_escribe", s)
    BY <1>1, <1>2, <1>8
  <2> HIDE DEF s, t
  <2>3. /\ EsCola(s, s)
        /\ Len(t) > 1 => /\ EsCola(Tail(t), s)
                         /\ Hechos(t, s) \cup {Head(t)} = Hechos(Tail(t), s)
        /\ ~ (Len(t) > 1) => Hechos(t, s) \cup {Head(t)} = ToSet(s)
    BY <2>2, BucleSigue
  <2> QED BY <2>1, <2>2, <2>3 DEF Seguido
<1>10. SabeDe(pc'[p], todo'[p], luego[p], s, Cerrados(p, "letras", "W"),
              Cerrados(p, "palabras", "W") \cup {Head(t)}, Cerrados(p, "palabras", "R"),
              Cerrados(p, "letras", "R"))
  BY <1>1, <1>2, <1>9 DEF Sabe, SabeDe, Bucle, SeVa
<1>11. Sabe(p)'
  BY <1>1, <1>6, <1>10 DEF Sabe
<1> QED BY <1>1, <1>5, <1>8, <1>11, PasoDe

LEMMA PasoUpdateLock ==
    ASSUME IInv, NEW p \in Players, UpdateLock(p), UNCHANGED quedan
    PROVE  IInv'
<1> DEFINE t == todo[p]
           s == TodoElTablero
           k == [tablero |-> "palabras", c |-> Head(t), mode |-> "R"]
<1>1. /\ pc[p] = "u_lock" /\ Lock(p) /\ Sabe(p) /\ t \in Seq(Casilleros) /\ s \in Seq(Casilleros)
      /\ quedan' \in 0..MaxComandos /\ caido' \in BOOLEAN
      /\ tablero' \in [Tableros -> [Casilleros -> Players \cup {VACIO}]]
      /\ palabra_actual'[p] = palabra_actual[p] /\ luego'[p] = luego[p]
  BY TodoEsTodo DEF UpdateLock, IInv, Tipos
<1>2. EsCola(t, s) /\ t # <<>>
  BY <1>1, TodoNoVacio DEF Sabe, SabeDe, Bucle
<1>3. Head(t) \in Casilleros
  BY <1>1, <1>2, ColaAvanza
<1>4. k \in Pide(p)
  BY <1>1, PideEnBucle
<1>5. LosCerrojos' /\ Exclusion' /\ Ajenos(p) /\ FilasSin(p) /\ Gana(p, "palabras", "R", Head(t))
  BY <1>1, <1>4, TomaUnLock
<1>6. /\ Cerrados(p, "letras", "W")' = Cerrados(p, "letras", "W")
      /\ Cerrados(p, "palabras", "W")' = Cerrados(p, "palabras", "W")
      /\ Cerrados(p, "palabras", "R")' = Cerrados(p, "palabras", "R") \cup {Head(t)}
      /\ Cerrados(p, "letras", "R")' = Cerrados(p, "letras", "R")
  BY <1>3, <1>5, MisLocks DEF Tableros, Modos
<1>7. "u_envia" \in PCs
  BY DEF PCs
<1>8. TiposControl' /\ Marco(p) /\ Seguido("u_lock", t, pc'[p], todo'[p], "u_envia", s)
  BY <1>1, <1>2, <1>7, PasoSigue DEF UpdateLock
<1>9. LET T == Cerrados(p, "palabras", "R") \cup {Head(t)} IN
      \/ pc'[p] = "u_lock" /\ EsCola(todo'[p], s) /\ T = Hechos(todo'[p], s)
      \/ pc'[p] = "u_envia" /\ todo'[p] = s /\ EsCola(s, s) /\ T = ToSet(s)
  <2>1. Cerrados(p, "palabras", "R") = Hechos(t, s)
    BY <1>1 DEF Sabe, SabeDe, Bucle
  <2> HIDE DEF s, t
  <2>2. /\ EsCola(s, s)
        /\ Len(t) > 1 => /\ EsCola(Tail(t), s)
                         /\ Hechos(t, s) \cup {Head(t)} = Hechos(Tail(t), s)
        /\ ~ (Len(t) > 1) => Hechos(t, s) \cup {Head(t)} = ToSet(s)
    BY <1>1, <1>2, BucleSigue
  <2> QED BY <1>8, <2>1, <2>2 DEF Seguido
<1>10. SabeDe(pc'[p], todo'[p], luego[p], palabra_actual[p], Cerrados(p, "letras", "W"),
              Cerrados(p, "palabras", "W"), Cerrados(p, "palabras", "R") \cup {Head(t)},
              Cerrados(p, "letras", "R"))
  BY <1>1, <1>9 DEF Sabe, SabeDe, Bucle
<1>11. Sabe(p)'
  BY <1>1, <1>6, <1>10 DEF Sabe
<1> QED BY <1>1, <1>5, <1>8, <1>11, PasoDe
LEMMA PasoQuitarBorra ==
    ASSUME IInv, NEW p \in Players, QuitarBorra(p), UNCHANGED quedan
    PROVE  IInv'
<1> DEFINE t == todo[p]
           s == palabra_actual[p]
<1>1. /\ pc[p] = "q_borra" /\ Sabe(p) /\ t \in Seq(Casilleros) /\ s \in Seq(Casilleros)
      /\ quedan' \in 0..MaxComandos /\ caido' \in BOOLEAN
      /\ palabra_actual'[p] = s /\ luego'[p] = luego[p]
  BY DEF QuitarBorra, IInv, Tipos
<1>2. EsCola(t, s) /\ t # <<>>
  BY <1>1, TodoNoVacio DEF Sabe, SabeDe, Bucle
<1>3. Head(t) \in Casilleros
  BY <1>1, <1>2, ColaAvanza
<1>4. tablero' \in [Tableros -> [Casilleros -> Players \cup {VACIO}]]
  BY <1>3 DEF QuitarBorra, IInv, Tipos
<1>5. LosCerrojos' /\ Exclusion' /\ Ajenos(p) /\ Propios(p) /\ FilasSin(p)
  BY <1>1, NoPide, LocksQuietos DEF QuitarBorra
<1>6. /\ Cerrados(p, "letras", "W")' = Cerrados(p, "letras", "W")
      /\ Cerrados(p, "palabras", "W")' = Cerrados(p, "palabras", "W")
      /\ Cerrados(p, "palabras", "R")' = Cerrados(p, "palabras", "R")
      /\ Cerrados(p, "letras", "R")' = Cerrados(p, "letras", "R")
  BY <1>5, MisLocks DEF Tableros, Modos
<1>7. "q_unlock" \in PCs
  BY DEF PCs
<1>8. TiposControl' /\ Marco(p) /\ Seguido("q_borra", t, pc'[p], todo'[p], "q_unlock", s)
  BY <1>1, <1>2, <1>7, PasoSigue DEF QuitarBorra
<1>9. \/ pc'[p] = "q_borra" /\ EsCola(todo'[p], s)
      \/ pc'[p] = "q_unlock" /\ todo'[p] = s /\ EsCola(s, s)
  <2>1. EsCola(s, s) /\ (Len(t) > 1 => EsCola(Tail(t), s))
    BY <1>1, <1>2, BucleSigue
  <2> QED BY <1>8, <2>1 DEF Seguido
<1>10. SabeDe(pc'[p], todo'[p], luego[p], s, Cerrados(p, "letras", "W"),
              Cerrados(p, "palabras", "W"), Cerrados(p, "palabras", "R"), Cerrados(p, "letras", "R"))
  BY <1>1, <1>9 DEF Sabe, SabeDe, Bucle, SeVa
<1>11. Sabe(p)'
  BY <1>1, <1>6, <1>10 DEF Sabe
<1> QED BY <1>1, <1>4, <1>5, <1>8, <1>11, PasoDe

LEMMA PasoPalabraEscribe ==
    ASSUME IInv, NEW p \in Players, PalabraEscribe(p), UNCHANGED quedan
    PROVE  IInv'
<1> DEFINE t == todo[p]
           s == palabra_actual[p]
<1>1. /\ pc[p] = "p_escribe" /\ Sabe(p) /\ t \in Seq(Casilleros) /\ s \in Seq(Casilleros)
      /\ quedan' \in 0..MaxComandos /\ caido' \in BOOLEAN
      /\ palabra_actual'[p] = s /\ luego'[p] = luego[p]
  BY DEF PalabraEscribe, IInv, Tipos
<1>2. EsCola(t, s) /\ t # <<>>
  BY <1>1, TodoNoVacio DEF Sabe, SabeDe, Bucle
<1>3. Head(t) \in Casilleros
  BY <1>1, <1>2, ColaAvanza
<1>4. tablero' \in [Tableros -> [Casilleros -> Players \cup {VACIO}]]
  BY <1>3 DEF PalabraEscribe, IInv, Tipos
<1>5. LosCerrojos' /\ Exclusion' /\ Ajenos(p) /\ Propios(p) /\ FilasSin(p)
  BY <1>1, NoPide, LocksQuietos DEF PalabraEscribe
<1>6. /\ Cerrados(p, "letras", "W")' = Cerrados(p, "letras", "W")
      /\ Cerrados(p, "palabras", "W")' = Cerrados(p, "palabras", "W")
      /\ Cerrados(p, "palabras", "R")' = Cerrados(p, "palabras", "R")
      /\ Cerrados(p, "letras", "R")' = Cerrados(p, "letras", "R")
  BY <1>5, MisLocks DEF Tableros, Modos
<1>7. "p_unlock" \in PCs
  BY DEF PCs
<1>8. TiposControl' /\ Marco(p) /\ Seguido("p_escribe", t, pc'[p], todo'[p], "p_unlock", s)
  BY <1>1, <1>2, <1>7, PasoSigue DEF PalabraEscribe
<1>9. \/ pc'[p] = "p_escribe" /\ EsCola(todo'[p], s)
      \/ pc'[p] = "p_unlock" /\ todo'[p] = s /\ EsCola(s, s)
  <2>1. EsCola(s, s) /\ (Len(t) > 1 => EsCola(Tail(t), s))
    BY <1>1, <1>2, BucleSigue
  <2> QED BY <1>8, <2>1 DEF Seguido
<1>10. SabeDe(pc'[p], todo'[p], luego[p], s, Cerrados(p, "letras", "W"),
              Cerrados(p, "palabras", "W"), Cerrados(p, "palabras", "R"), Cerrados(p, "letras", "R"))
  BY <1>1, <1>9 DEF Sabe, SabeDe, Bucle, SeVa
<1>11. Sabe(p)'
  BY <1>1, <1>6, <1>10 DEF Sabe
<1> QED BY <1>1, <1>4, <1>5, <1>8, <1>11, PasoDe

LEMMA PasoQuitarUnlock ==
    ASSUME IInv, NEW p \in Players, QuitarUnlock(p), UNCHANGED quedan
    PROVE  IInv'
<1> DEFINE t == todo[p]
           s == palabra_actual[p]
           T == Cerrados(p, "letras", "W") \ {Head(t)}
<1>1. /\ pc[p] = "q_unlock" /\ Sabe(p) /\ t \in Seq(Casilleros) /\ s \in Seq(Casilleros)
      /\ quedan' \in 0..MaxComandos /\ caido' \in BOOLEAN
      /\ tablero' \in [Tableros -> [Casilleros -> Players \cup {VACIO}]]
      /\ luego[p] \in {"error", "fin"} /\ Unlock(p, "letras")
  BY DEF QuitarUnlock, IInv, Tipos
<1>2. EsCola(t, s) /\ t # <<>> /\ Cerrados(p, "letras", "W") \subseteq ToSet(t)
  BY <1>1, TodoNoVacio DEF Sabe, SabeDe, Bucle
<1>3. Head(t) \in Casilleros
  BY <1>1, <1>2, ColaAvanza
<1>4. LosCerrojos' /\ Exclusion' /\ Ajenos(p) /\ FilasSin(p) /\ Pierde(p, "letras", Head(t))
  BY <1>1, <1>2, NoPide, SueltaUnLock DEF Tableros
<1>5. /\ Cerrados(p, "letras", "W")' = T
      /\ Cerrados(p, "palabras", "W")' = Cerrados(p, "palabras", "W")
      /\ Cerrados(p, "palabras", "R")' = Cerrados(p, "palabras", "R")
      /\ Cerrados(p, "letras", "R")' = Cerrados(p, "letras", "R") \ {Head(t)}
  BY <1>3, <1>4, MisLocks DEF Tableros, Modos
<1>6. <<>> \in Seq(Casilleros) /\ luego[p] \in PCs
  BY <1>1, EmptySeq DEF PCs
<1>7. /\ pc' \in [Players -> PCs] /\ todo' \in [Players -> Seq(Casilleros)]
      /\ \A q \in Players \ {p} : pc'[q] = pc[q] /\ todo'[q] = todo[q]
      /\ Seguido("q_unlock", t, pc'[p], todo'[p], luego[p], <<>>)
  BY <1>1, <1>2, <1>6, SigueDe DEF QuitarUnlock, IInv
<1>8. TiposControl' /\ Marco(p)
  BY <1>1, <1>6, <1>7 DEF QuitarUnlock, IInv, Tipos, TiposControl, Marco
<1>9. /\ palabra_actual'[p] = (IF Len(t) > 1 THEN s ELSE <<>>)
      /\ luego'[p] = (IF Len(t) > 1 THEN luego[p] ELSE "fin")
  BY DEF QuitarUnlock, IInv, Tipos
<1>10. SabeDe(pc'[p], todo'[p], luego'[p], palabra_actual'[p], T,
              Cerrados(p, "palabras", "W"), Cerrados(p, "palabras", "R"),
              Cerrados(p, "letras", "R") \ {Head(t)})
  <2>1. /\ Cerrados(p, "palabras", "W") = {} /\ Cerrados(p, "letras", "R") = {}
        /\ Cerrados(p, "palabras", "R") = {} \/ luego[p] = "fin"
    BY <1>1 DEF Sabe, SabeDe, Bucle, SeVa
  <2>2. CASE Len(t) > 1
    <3>1. EsCola(Tail(t), s) /\ ToSet(t) = ToSet(Tail(t)) \cup {Head(t)}
      BY <1>1, <1>2, <2>2, BucleSigue
    <3>2. /\ pc'[p] = "q_unlock" /\ todo'[p] = Tail(t)
          /\ palabra_actual'[p] = s /\ luego'[p] = luego[p]
      BY <1>7, <1>9, <2>2 DEF Seguido
    <3>3. T \subseteq ToSet(Tail(t))
      BY <1>2, <3>1
    <3> HIDE DEF T
    <3> QED BY <2>1, <3>1, <3>2, <3>3 DEF SabeDe, Bucle, SeVa
  <2>3. CASE ~ (Len(t) > 1)
    <3>1. ToSet(t) = {Head(t)}
      BY <1>1, <1>2, <2>3, BucleSigue
    <3>2. pc'[p] = luego[p] /\ T = {}
      BY <1>2, <1>7, <2>3, <3>1 DEF Seguido
    <3>3. SabeDe(luego[p], todo'[p], luego'[p], palabra_actual'[p],
                 {}, {}, Cerrados(p, "palabras", "R"), {})
      BY <1>1, <2>1, SabeFuera
    <3> QED BY <2>1, <3>2, <3>3
  <2> QED BY <2>2, <2>3
<1>11. Sabe(p)'
  BY <1>5, <1>10 DEF Sabe
<1> QED BY <1>1, <1>4, <1>8, <1>11, PasoDe

LEMMA PasoPalabraUnlock ==
    ASSUME IInv, NEW p \in Players, PalabraUnlock(p), UNCHANGED quedan
    PROVE  IInv'
<1> DEFINE t == todo[p]
           s == palabra_actual[p]
           T == Cerrados(p, "palabras", "W") \ {Head(t)}
<1>1. /\ pc[p] = "p_unlock" /\ Sabe(p) /\ t \in Seq(Casilleros) /\ s \in Seq(Casilleros)
      /\ quedan' \in 0..MaxComandos /\ caido' \in BOOLEAN
      /\ tablero' \in [Tableros -> [Casilleros -> Players \cup {VACIO}]]
      /\ Unlock(p, "palabras")
  BY DEF PalabraUnlock, IInv, Tipos
<1>2. EsCola(t, s) /\ t # <<>> /\ Cerrados(p, "palabras", "W") \subseteq ToSet(t)
  BY <1>1, TodoNoVacio DEF Sabe, SabeDe, Bucle
<1>3. Head(t) \in Casilleros
  BY <1>1, <1>2, ColaAvanza
<1>4. LosCerrojos' /\ Exclusion' /\ Ajenos(p) /\ FilasSin(p) /\ Pierde(p, "palabras", Head(t))
  BY <1>1, <1>2, NoPide, SueltaUnLock DEF Tableros
<1>5. /\ Cerrados(p, "letras", "W")' = Cerrados(p, "letras", "W")
      /\ Cerrados(p, "palabras", "W")' = T
      /\ Cerrados(p, "palabras", "R")' = Cerrados(p, "palabras", "R") \ {Head(t)}
      /\ Cerrados(p, "letras", "R")' = Cerrados(p, "letras", "R")
  BY <1>3, <1>4, MisLocks DEF Tableros, Modos
<1>6. <<>> \in Seq(Casilleros) /\ "ok" \in PCs
  BY <1>1, EmptySeq DEF PCs
<1>7. /\ pc' \in [Players -> PCs] /\ todo' \in [Players -> Seq(Casilleros)]
      /\ \A q \in Players \ {p} : pc'[q] = pc[q] /\ todo'[q] = todo[q]
      /\ Seguido("p_unlock", t, pc'[p], todo'[p], "ok", <<>>)
  BY <1>1, <1>2, <1>6, SigueDe DEF PalabraUnlock, IInv
<1>8. TiposControl' /\ Marco(p)
  BY <1>1, <1>6, <1>7 DEF PalabraUnlock, IInv, Tipos, TiposControl, Marco
<1>9. palabra_actual'[p] = (IF Len(t) > 1 THEN s ELSE <<>>)
  BY DEF PalabraUnlock, IInv, Tipos
<1>10. SabeDe(pc'[p], todo'[p], luego'[p], palabra_actual'[p], Cerrados(p, "letras", "W"), T,
              Cerrados(p, "palabras", "R") \ {Head(t)}, Cerrados(p, "letras", "R"))
  <2>1. /\ Cerrados(p, "letras", "W") = {} /\ Cerrados(p, "letras", "R") = {}
        /\ Cerrados(p, "palabras", "R") = {}
    BY <1>1 DEF Sabe, SabeDe, Bucle, SeVa
  <2>2. CASE Len(t) > 1
    <3>1. EsCola(Tail(t), s) /\ ToSet(t) = ToSet(Tail(t)) \cup {Head(t)}
      BY <1>1, <1>2, <2>2, BucleSigue
    <3>2. /\ pc'[p] = "p_unlock" /\ todo'[p] = Tail(t) /\ palabra_actual'[p] = s
      BY <1>7, <1>9, <2>2 DEF Seguido
    <3>3. T \subseteq ToSet(Tail(t))
      BY <1>2, <3>1
    <3> HIDE DEF T
    <3> QED BY <2>1, <3>1, <3>2, <3>3 DEF SabeDe, Bucle, SeVa
  <2>3. CASE ~ (Len(t) > 1)
    <3>1. ToSet(t) = {Head(t)}
      BY <1>1, <1>2, <2>3, BucleSigue
    <3>2. pc'[p] = "ok" /\ T = {}
      BY <1>2, <1>7, <2>3, <3>1 DEF Seguido
    <3>3. SabeDe("ok", todo'[p], luego'[p], palabra_actual'[p], {}, {}, {}, {})
      BY SabeFuera
    <3> QED BY <2>1, <3>2, <3>3
  <2> QED BY <2>2, <2>3
<1>11. Sabe(p)'
  BY <1>5, <1>10 DEF Sabe
<1> QED BY <1>1, <1>4, <1>8, <1>11, PasoDe

LEMMA PasoUpdateUnlock ==
    ASSUME IInv, NEW p \in Players, UpdateUnlock(p), UNCHANGED quedan
    PROVE  IInv'
<1> DEFINE t == todo[p]
           s == TodoElTablero
           T == Cerrados(p, "palabras", "R") \ {Head(t)}
<1>1. /\ pc[p] = "u_unlock" /\ Sabe(p) /\ t \in Seq(Casilleros) /\ s \in Seq(Casilleros)
      /\ quedan' \in 0..MaxComandos /\ caido' \in BOOLEAN
      /\ tablero' \in [Tableros -> [Casilleros -> Players \cup {VACIO}]]
      /\ Unlock(p, "palabras")
  BY TodoEsTodo DEF UpdateUnlock, IInv, Tipos
<1>2. EsCola(t, s) /\ t # <<>> /\ Cerrados(p, "palabras", "R") \subseteq ToSet(t)
  BY <1>1, TodoNoVacio DEF Sabe, SabeDe, Bucle
<1>3. Head(t) \in Casilleros
  BY <1>1, <1>2, ColaAvanza
<1>4. LosCerrojos' /\ Exclusion' /\ Ajenos(p) /\ FilasSin(p) /\ Pierde(p, "palabras", Head(t))
  BY <1>1, <1>2, NoPide, SueltaUnLock DEF Tableros
<1>5. /\ Cerrados(p, "letras", "W")' = Cerrados(p, "letras", "W")
      /\ Cerrados(p, "palabras", "W")' = Cerrados(p, "palabras", "W") \ {Head(t)}
      /\ Cerrados(p, "palabras", "R")' = T
      /\ Cerrados(p, "letras", "R")' = Cerrados(p, "letras", "R")
  BY <1>3, <1>4, MisLocks DEF Tableros, Modos
<1>6. <<>> \in Seq(Casilleros) /\ "recibir" \in PCs
  BY <1>1, EmptySeq DEF PCs
<1>7. TiposControl' /\ Marco(p) /\ Seguido("u_unlock", t, pc'[p], todo'[p], "recibir", <<>>)
  BY <1>1, <1>2, <1>6, PasoSigue DEF UpdateUnlock
<1>8. SabeDe(pc'[p], todo'[p], luego'[p], palabra_actual'[p], Cerrados(p, "letras", "W"),
             Cerrados(p, "palabras", "W") \ {Head(t)}, T, Cerrados(p, "letras", "R"))
  <2>1. /\ Cerrados(p, "letras", "W") = {} /\ Cerrados(p, "letras", "R") = {}
        /\ Cerrados(p, "palabras", "W") = {}
    BY <1>1 DEF Sabe, SabeDe, Bucle, SeVa
  <2>2. CASE Len(t) > 1
    <3>1. EsCola(Tail(t), s) /\ ToSet(t) = ToSet(Tail(t)) \cup {Head(t)}
      BY <1>1, <1>2, <2>2, BucleSigue
    <3>2. pc'[p] = "u_unlock" /\ todo'[p] = Tail(t)
      BY <1>7, <2>2 DEF Seguido
    <3>3. T \subseteq ToSet(Tail(t))
      BY <1>2, <3>1
    <3> HIDE DEF T
    <3> QED BY <2>1, <3>1, <3>2, <3>3 DEF SabeDe, Bucle, SeVa
  <2>3. CASE ~ (Len(t) > 1)
    <3>1. ToSet(t) = {Head(t)}
      BY <1>1, <1>2, <2>3, BucleSigue
    <3>2. pc'[p] = "recibir" /\ T = {}
      BY <1>2, <1>7, <2>3, <3>1 DEF Seguido
    <3>3. SabeDe("recibir", todo'[p], luego'[p], palabra_actual'[p], {}, {}, {}, {})
      BY SabeFuera
    <3> QED BY <2>1, <3>2, <3>3
  <2> QED BY <2>2, <2>3
<1>9. Sabe(p)'
  BY <1>5, <1>8 DEF Sabe
<1> QED BY <1>1, <1>4, <1>7, <1>9, PasoDe

-----------------------------------------------------------------------------
(* The invariant holds always.                                             *)

LEMMA Empieza == Init => IInv
<1> SUFFICES ASSUME Init PROVE IInv
  OBVIOUS
<1>1. \A S : <<>> \in Seq(S)
  BY EmptySeq
<1>2. <<0, 0>> \in Casilleros
  BY DimensionsAssumption DEF Casilleros
<1>3. Libre \in Cerrojos
  BY <1>1 DEF Libre, Cerrojos
<1>4. LosCerrojos
  BY <1>3 DEF Init, LosCerrojos
<1>5. Tipos
  <2>1. <<>> \in Seq(Casilleros) /\ MaxComandos \in 0..MaxComandos
    BY <1>1, MaxComandosAssumption
  <2>2. tablero \in [Tableros -> [Casilleros -> Players \cup {VACIO}]]
    BY DEF Init
  <2>3. /\ palabra_actual \in [Players -> Seq(Casilleros)] /\ todo \in [Players -> Seq(Casilleros)]
        /\ ficha \in [Players -> Casilleros]
    BY <1>2, <2>1 DEF Init
  <2>4. /\ pc \in [Players -> PCs] /\ luego \in [Players -> {"error", "fin"}]
        /\ caido \in BOOLEAN /\ quedan \in 0..MaxComandos
    BY <2>1 DEF Init, PCs
  <2> QED BY <1>4, <2>2, <2>3, <2>4 DEF Tipos
<1>6. \A b \in Tableros, c \in Casilleros : locks_casillas[b][c] = Libre
  BY DEF Init
<1>7. /\ \A b \in Tableros, c \in Casilleros, p \in Players, mode \in Modos : ~ Tiene(p, b, mode, c)
      /\ \A b \in Tableros, c \in Casilleros : locks_casillas[b][c].line = <<>>
  BY <1>6 DEF Libre, Tiene, Modos
<1>8. Exclusion
  BY <1>7 DEF Exclusion, Modos
<1>9. Filas
  <2>1. DOMAIN <<>> = {}
    OBVIOUS
  <2> QED BY <1>7, <2>1 DEF Filas
<1>10. ASSUME NEW p \in Players PROVE Sabe(p)
  <2>1. \A b \in Tableros, mode \in Modos : Cerrados(p, b, mode) = {}
    BY <1>7 DEF Cerrados
  <2>2. pc[p] = "fuera"
    BY DEF Init
  <2>3. SabeDe("fuera", todo[p], luego[p], palabra_actual[p], {}, {}, {}, {})
    BY SabeFuera
  <2> QED BY <2>1, <2>2, <2>3 DEF Sabe, Tableros, Modos
<1> QED BY <1>5, <1>8, <1>9, <1>10 DEF IInv

LEMMA PasoAtender ==
    ASSUME IInv, NEW p \in Players, Atender(p), UNCHANGED quedan
    PROVE  IInv'
BY PasoEsperar, PasoQuitarLock, PasoQuitarBorra, PasoQuitarUnlock, PasoResponder,
   PasoMirarLetras, PasoMirarPalabras, PasoEscribirLetra, PasoPalabraLock, PasoPalabraEscribe,
   PasoPalabraUnlock, PasoUpdateLock, PasoUpdateEnvia, PasoUpdateUnlock DEF Atender

LEMMA PasoMandar ==
    ASSUME IInv, NEW p \in Players, Mandar(p)
    PROVE  IInv'
BY PasoLetraFuera, PasoRecibirLetra, PasoRecibirPalabra, PasoRecibirUpdate DEF Mandar

LEMMA PasoSiguiente == IInv /\ [Next]_vars => IInv'
<1> SUFFICES ASSUME IInv, [Next]_vars PROVE IInv'
  OBVIOUS
<1>1. CASE Next
  BY <1>1, PasoAtender, PasoConectar, PasoCortar, PasoMorir, PasoMandar DEF Next, Step
<1>2. CASE UNCHANGED vars
  <2>1. Tipos' /\ Exclusion'
    BY <1>2 DEF IInv, Tipos, LosCerrojos, Exclusion, Tiene, vars
  <2>2. \A p \in Players : Pide(p)' = Pide(p)
    BY <1>2 DEF Pide, vars
  <2>3. Filas'
    BY <1>2, <2>2 DEF IInv, Filas, vars
  <2>4. \A p \in Players : Sabe(p)'
    BY <1>2 DEF IInv, Sabe, Cerrados, Tiene, vars
  <2> QED BY <2>1, <2>3, <2>4 DEF IInv
<1> QED BY <1>1, <1>2

(* What the locks protect, who waits for them and how far each thread is   *)
(* in its loops agree in every state the server reaches.                   *)
THEOREM Inductivo == SafeSpec => []IInv
BY Empieza, PasoSiguiente, PTL DEF SafeSpec
-----------------------------------------------------------------------------
(* What follows from it.                                                   *)

LEMMA LosTipos == IInv => TypeOK
<1> SUFFICES ASSUME IInv PROVE TypeOK
  OBVIOUS
<1>1. ASSUME NEW b \in Tableros, NEW c \in Casilleros PROVE IsLock(locks_casillas[b][c])
  <2>1. locks_casillas[b][c] \in Cerrojos
    BY CerrojoDe DEF IInv, Tipos
  <2> QED BY <2>1 DEF Cerrojos, Pedidos, Modos, IsLock
<1> QED BY <1>1 DEF IInv, Tipos, TypeOK

(* The boards, the locks and what each thread keeps have their types: no   *)
(* letter, lock or loop of the server leaves the board.                    *)
THEOREM TiposDelServidor == SafeSpec => []TypeOK
BY Inductivo, LosTipos, PTL

(* A set with one element at most. *)
LEMMA UnoSolo ==
    ASSUME NEW S, NEW x \in S, \A y \in S : y = x
    PROVE  S = {x} /\ Cardinality(S) = 1
<1>1. S = {x}
  OBVIOUS
<1> QED BY <1>1, FS_Singleton

(* The locks of a cell, with what p knows of them. *)
LEMMA LosEscritores ==
    ASSUME IInv, NEW b \in Tableros, NEW c \in Casilleros, NEW p \in Players, Tiene(p, b, "W", c)
    PROVE  /\ locks_casillas[b][c].writers = {p} /\ Cardinality(locks_casillas[b][c].writers) = 1
           /\ locks_casillas[b][c].readers = {}
<1> DEFINE l == locks_casillas[b][c]
<1>1. l.readers \subseteq Players /\ l.writers \subseteq Players /\ p \in l.writers
  BY CerrojoDe DEF IInv, Tipos, Tiene
<1>2. \A q \in Players : q \notin l.readers /\ (q \in l.writers => q = p)
  BY DEF IInv, Exclusion, Tiene
<1>3. l.readers = {} /\ \A q \in l.writers : q = p
  BY <1>1, <1>2
<1> HIDE DEF l
<1>4. l.writers = {p} /\ Cardinality(l.writers) = 1
  BY <1>1, <1>3, UnoSolo
<1> QED BY <1>3, <1>4 DEF l

(* Every cell of the list of a loop that writes is locked for writing by   *)
(* its thread, and all the board by the one that sends it.                 *)
LEMMA LosUsados ==
    ASSUME IInv, NEW p \in Players
    PROVE  /\ pc[p] = "q_borra" => \A c \in ToSet(palabra_actual[p]) : Tiene(p, "letras", "W", c)
           /\ pc[p] = "p_escribe" => \A c \in ToSet(palabra_actual[p]) : Tiene(p, "palabras", "W", c)
           /\ pc[p] = "u_envia" => \A c \in Casilleros : Tiene(p, "palabras", "R", c)
<1>1. Sabe(p)
  BY DEF IInv
<1>2. /\ pc[p] = "q_borra" => Cerrados(p, "letras", "W") = ToSet(palabra_actual[p])
      /\ pc[p] = "p_escribe" => Cerrados(p, "palabras", "W") = ToSet(palabra_actual[p])
      /\ pc[p] = "u_envia" => Cerrados(p, "palabras", "R") = ToSet(TodoElTablero)
  BY <1>1 DEF Sabe, SabeDe, Bucle
<1>3. Casilleros \subseteq ToSet(TodoElTablero)
  BY TodoEsTodo DEF ToSet
<1> QED BY <1>2, <1>3 DEF Cerrados

(* A loop over the word goes over its cells. *)
LEMMA LoQueSigue ==
    ASSUME IInv, NEW p \in Players, pc[p] \in {"q_borra", "p_escribe"}
    PROVE  Head(todo[p]) \in Casilleros /\ Head(todo[p]) \in ToSet(palabra_actual[p])
<1>1. /\ todo[p] \in Seq(Casilleros) /\ palabra_actual[p] \in Seq(Casilleros)
      /\ EsCola(todo[p], palabra_actual[p])
  BY DEF IInv, Tipos, Sabe, SabeDe, Bucle
<1> QED BY <1>1, ColaAvanza

LEMMA LosCandados == IInv => CellsLocked
<1> SUFFICES ASSUME IInv PROVE CellsLocked
  OBVIOUS
<1>1. ASSUME NEW b \in Tableros, NEW c \in Casilleros, locks_casillas[b][c].writers # {}
      PROVE  locks_casillas[b][c].readers = {} /\ Cardinality(locks_casillas[b][c].writers) = 1
  <2>1. PICK p \in Players : Tiene(p, b, "W", c)
    BY <1>1, CerrojoDe DEF IInv, Tipos, Tiene
  <2> QED BY <2>1, LosEscritores
<1>2. ASSUME NEW p \in Players, pc[p] = "q_borra"
      PROVE  locks_casillas["letras"][Head(todo[p])].writers = {p}
  BY <1>2, LoQueSigue, LosUsados, LosEscritores DEF Tableros
<1>3. ASSUME NEW p \in Players, pc[p] = "p_escribe"
      PROVE  locks_casillas["palabras"][Head(todo[p])].writers = {p}
  BY <1>3, LoQueSigue, LosUsados, LosEscritores DEF Tableros
<1>4. ASSUME NEW p \in Players, pc[p] = "u_envia"
      PROVE  \A c \in Casilleros : p \in locks_casillas["palabras"][c].readers
  BY <1>4, LosUsados DEF Tiene
<1> QED BY <1>1, <1>2, <1>3, <1>4 DEF CellsLocked

(* quitar_letras and PALABRA write a cell only with its write lock, held   *)
(* by that thread alone, and UPDATE sends the board with every cell of it  *)
(* locked for reading.                                                     *)
THEOREM Candados == SafeSpec => []CellsLocked
BY Inductivo, LosCandados, PTL

LEMMA PalabrasEnteras == IInv => UpdateSeesWholeWords
<1> SUFFICES ASSUME IInv, NEW u \in Players, NEW w \in Players, pc[u] = "u_envia", pc[w] = "p_escribe"
             PROVE  FALSE
  BY DEF UpdateSeesWholeWords
<1>1. PICK c \in Casilleros : Tiene(w, "palabras", "W", c)
  BY LoQueSigue, LosUsados
<1>2. Tiene(u, "palabras", "R", c)
  BY LosUsados
<1> QED BY <1>1, <1>2 DEF IInv, Exclusion, Tableros

(* While a player is sent the board no word is partly written: the sender  *)
(* reads with all the locks of the board, and who writes a word has those  *)
(* of its cells.                                                           *)
THEOREM PalabrasSinPartir == SafeSpec => []UpdateSeesWholeWords
BY Inductivo, PalabrasEnteras, PTL

LEMMA NadaOlvidado == IInv => NoLockLeftBehind
<1> SUFFICES ASSUME IInv, NEW p \in Players, NEW b \in Tableros, NEW c \in Casilleros
             PROVE  LET l == locks_casillas[b][c] IN
                    /\ pc[p] \in {"recibir", "ok", "error"} => ~ Holds(l, p) /\ ~ Espera(l, p)
                    /\ pc[p] = "fin" => p \notin l.writers /\ (p \in l.readers => b = "palabras")
  BY DEF NoLockLeftBehind
<1> DEFINE l == locks_casillas[b][c]
<1>1. Sabe(p)
  BY DEF IInv
<1>2. ASSUME pc[p] \in {"recibir", "ok", "error", "fin"}
      PROVE  /\ \A d \in Tableros : Cerrados(p, d, "W") = {}
             /\ Cerrados(p, "letras", "R") = {}
             /\ pc[p] # "fin" => Cerrados(p, "palabras", "R") = {}
  <2>1. ~ SeVa(pc[p], luego[p]) \/ pc[p] = "fin"
    BY <1>2 DEF SeVa
  <2> QED BY <1>1, <1>2, <2>1, SinLocks DEF Tableros
<1>3. ASSUME pc[p] \in {"recibir", "ok", "error"} PROVE ~ Holds(l, p) /\ ~ Espera(l, p)
  <2>1. ~ Tiene(p, b, "W", c) /\ ~ Tiene(p, b, "R", c)
    BY <1>2, <1>3 DEF Cerrados, Tableros
  <2>2. \A i \in DOMAIN l.line : l.line[i].who # p
    BY <1>3, NoPide, NoEspera
  <2> QED BY <2>1, <2>2 DEF Tiene, Holds, Espera
<1>4. ASSUME pc[p] = "fin" PROVE p \notin l.writers /\ (p \in l.readers => b = "palabras")
  BY <1>2, <1>4 DEF Cerrados, Tiene, Tableros
<1> QED BY <1>3, <1>4

(* A thread that answers or receives a command has released every lock it  *)
(* took and waits for none; one that ended keeps at most the read locks of *)
(* a board it could not send.                                              *)
THEOREM NadaTomado == SafeSpec => []NoLockLeftBehind
BY Inductivo, NadaOlvidado, PTL
-----------------------------------------------------------------------------
(* Nobody waits in a circle.                                               *)

(* The order in which the threads take their locks: those of the words     *)
(* before those of the letters, and the cells of a board in order.         *)
Antes(b, c, d, e) == \/ b = "palabras" /\ d = "letras"
                     \/ b = d /\ compare_casilleros(c, e)

(* The cells behind go before the next one. *)
LEMMA HechosAntes ==
    ASSUME NEW t \in Seq(Casilleros), NEW s \in Seq(Casilleros), EsCola(t, s), EnOrden(s),
           NEW c \in Hechos(t, s)
    PROVE  compare_casilleros(c, Head(t))
<1>1. PICK i \in 1..(Len(s) - Len(t)) : c = s[i]
  BY DEF Hechos
<1>2. Len(s) \in Nat /\ Len(t) \in Nat /\ DOMAIN s = 1..Len(s)
  BY EsSecuencia
<1>3. Head(t) = s[Len(s) - Len(t) + 1] /\ Len(s) - Len(t) + 1 \in DOMAIN s
  BY ColaAvanza
<1>4. i \in DOMAIN s /\ i < Len(s) - Len(t) + 1
  BY <1>1, <1>2, <1>3
<1> QED BY <1>1, <1>3, <1>4 DEF EnOrden

(* A thread that asks for a lock holds only locks that go before it. *)
LEMMA PideDespues ==
    ASSUME IInv, NEW q \in Players, NEW k \in Pide(q),
           NEW b \in Tableros, NEW mode \in Modos, NEW c \in Casilleros, Tiene(q, b, mode, c)
    PROVE  Antes(b, c, k.tablero, k.c)
<1> DEFINE t == todo[q]
           s == palabra_actual[q]
<1>1. /\ Tipos /\ Sabe(q) /\ t \in Seq(Casilleros) /\ s \in Seq(Casilleros)
      /\ c \in Cerrados(q, b, mode)
  BY DEF IInv, Tipos, Cerrados
<1>2. pc[q] \in {"q_lock", "mira_palabras", "p_lock", "u_lock"} => t # <<>>
  BY <1>1, TodoNoVacio
<1>3. /\ pc[q] \in {"q_lock", "mira_palabras", "p_lock", "u_lock"} => k.c = Head(t)
      /\ pc[q] = "q_lock" => k.tablero = "letras"
      /\ pc[q] \in {"p_lock", "u_lock"} => k.tablero = "palabras"
      /\ pc[q] \in {"mira_letras", "escribe_letra", "q_lock", "mira_palabras", "p_lock", "u_lock"}
  BY <1>1, <1>2, LoPedido
<1>4. Cerrados(q, "letras", "R") = {}
  BY <1>1, SinLocks
<1>5. CASE pc[q] \in {"mira_letras", "escribe_letra", "mira_palabras"}
  <2>1. ~ SeVa(pc[q], luego[q])
    BY <1>5 DEF SeVa
  <2>2. \A d \in Tableros, m \in Modos : Cerrados(q, d, m) = {}
    BY <1>1, <1>5, <2>1, SinLocks DEF Tableros, Modos
  <2> QED BY <1>1, <2>2
<1>6. CASE pc[q] = "q_lock"
  <2>1. /\ EsCola(t, s) /\ EnOrden(s) /\ Cerrados(q, "letras", "W") = Hechos(t, s)
        /\ k.tablero = "letras" /\ k.c = Head(t)
    BY <1>1, <1>3, <1>6 DEF Sabe, SabeDe, Bucle
  <2>2. CASE b = "letras"
    <3>1. c \in Hechos(t, s)
      BY <1>1, <1>4, <2>1, <2>2 DEF Modos
    <3>2. compare_casilleros(c, Head(t))
      BY <1>1, <2>1, <3>1, HechosAntes
    <3> QED BY <2>1, <2>2, <3>2 DEF Antes
  <2>3. CASE b = "palabras"
    BY <2>1, <2>3 DEF Antes
  <2> QED BY <2>2, <2>3 DEF Tableros
<1>7. CASE pc[q] = "p_lock"
  <2>1. /\ EsCola(t, s) /\ EnOrden(s) /\ Cerrados(q, "palabras", "W") = Hechos(t, s)
        /\ Cerrados(q, "palabras", "R") = {} /\ Cerrados(q, "letras", "W") = {}
        /\ k.tablero = "palabras" /\ k.c = Head(t)
    BY <1>1, <1>3, <1>7 DEF Sabe, SabeDe, Bucle, SeVa
  <2>2. b = "palabras" /\ c \in Hechos(t, s)
    BY <1>1, <1>4, <2>1 DEF Modos, Tableros
  <2>3. compare_casilleros(c, Head(t))
    BY <1>1, <2>1, <2>2, HechosAntes
  <2> QED BY <2>1, <2>2, <2>3 DEF Antes
<1>8. CASE pc[q] = "u_lock"
  <2>1. /\ EsCola(t, TodoElTablero) /\ Cerrados(q, "palabras", "R") = Hechos(t, TodoElTablero)
        /\ Cerrados(q, "palabras", "W") = {} /\ Cerrados(q, "letras", "W") = {}
        /\ k.tablero = "palabras" /\ k.c = Head(t)
    BY <1>1, <1>3, <1>8 DEF Sabe, SabeDe, Bucle, SeVa
  <2>2. b = "palabras" /\ c \in Hechos(t, TodoElTablero)
    BY <1>1, <1>4, <2>1 DEF Modos, Tableros
  <2>3. TodoElTablero \in Seq(Casilleros) /\ EnOrden(TodoElTablero)
    BY TodoEsTodo DEF EnOrden
  <2>4. compare_casilleros(c, Head(t))
    BY <1>1, <2>1, <2>2, <2>3, HechosAntes
  <2> QED BY <2>1, <2>2, <2>4 DEF Antes
<1> QED BY <1>3, <1>5, <1>6, <1>7, <1>8

LEMMA Menores ==
    ASSUME NEW S, S # {}, NEW f \in [S -> Nat]
    PROVE  \E x \in S : \A y \in S : f[x] <= f[y]
<1>1. {f[x] : x \in S} \subseteq Nat /\ {f[x] : x \in S} # {}
  OBVIOUS
<1>2. PICK m \in {f[x] : x \in S} : \A n \in {f[x] : x \in S} : m <= n
  BY <1>1, Minimo
<1> QED BY <1>2

(* The request of p, and its place in the line. *)
Lo(p) == CHOOSE k \in Pide(p) : TRUE

Lugar(p) == CHOOSE i \in DOMAIN locks_casillas[Lo(p).tablero][Lo(p).c].line :
                locks_casillas[Lo(p).tablero][Lo(p).c].line[i].who = p

LEMMA LoQuePide ==
    ASSUME IInv, NEW p \in Players, Pide(p) # {}
    PROVE  /\ Lo(p) \in Pide(p) /\ \A k \in Pide(p) : k = Lo(p)
           /\ Lo(p).tablero \in Tableros /\ Lo(p).c \in Casilleros
<1>1. Lo(p) \in Pide(p)
  BY DEF Lo
<1>2. pc[p] \in {"q_lock", "mira_palabras", "p_lock", "u_lock"} => todo[p] # <<>>
  BY TodoNoVacio DEF IInv
<1> QED BY <1>1, <1>2, LoPedido DEF IInv

(* Who waits has one place in the line. *)
LEMMA SuLugar ==
    ASSUME IInv, NEW p \in Players, Esperando(p)
    PROVE  /\ Pide(p) # {}
           /\ LET l == locks_casillas[Lo(p).tablero][Lo(p).c] IN
              /\ Espera(l, p) /\ Lugar(p) \in Nat
              /\ \A i \in DOMAIN l.line : l.line[i].who = p => i = Lugar(p)
<1> DEFINE l == locks_casillas[Lo(p).tablero][Lo(p).c]
<1>1. Pide(p) # {}
  BY DEF Esperando
<1>2. /\ \A k \in Pide(p) : k = Lo(p)
      /\ Lo(p).tablero \in Tableros /\ Lo(p).c \in Casilleros
  BY <1>1, LoQuePide
<1>3. Espera(l, p)
  BY <1>2 DEF Esperando
<1>4. PICK i \in DOMAIN l.line : l.line[i].who = p
  BY <1>3 DEF Espera
<1>5. Lugar(p) \in DOMAIN l.line /\ l.line[Lugar(p)].who = p
  BY <1>4 DEF Lugar
<1>6. \A j, k \in DOMAIN l.line : l.line[j].who = l.line[k].who => j = k
  BY <1>2 DEF IInv, Filas
<1>7. l.line \in Seq(Pedidos)
  BY <1>2, CerrojoDe DEF IInv, Tipos
<1>8. Lugar(p) \in Nat
  <2> HIDE DEF l
  <2>1. DOMAIN l.line = 1..Len(l.line) /\ Len(l.line) \in Nat
    BY <1>7, EsSecuencia
  <2> QED BY <1>5, <2>1
<1> QED BY <1>1, <1>3, <1>5, <1>6, <1>8

(* Of those who wait, the last one: it waits for the last lock, and is the *)
(* first of them in its line.                                              *)
LEMMA ElUltimo ==
    ASSUME IInv, NEW S \in SUBSET Players, S # {}, \A p \in S : Esperando(p)
    PROVE  \E p \in S : \A q \in S :
              /\ Antes(Lo(q).tablero, Lo(q).c, Lo(p).tablero, Lo(p).c)
              /\ Lo(q).tablero = Lo(p).tablero /\ Lo(q).c = Lo(p).c => Lugar(p) <= Lugar(q)
<1>1. ASSUME NEW p \in S
      PROVE  /\ Lo(p).tablero \in Tableros /\ Lo(p).c \in Casilleros /\ Lugar(p) \in Nat
  <2>1. p \in Players /\ Esperando(p)
    OBVIOUS
  <2> QED BY <2>1, SuLugar, LoQuePide
<1>2. \A p \in S : /\ alto - Lo(p).c[1] \in Nat /\ ancho - Lo(p).c[2] \in Nat
                   /\ Lo(p).c[1] \in Int /\ Lo(p).c[2] \in Int
                   /\ Lo(p).c = <<Lo(p).c[1], Lo(p).c[2]>>
  BY <1>1, CoordenadasDe, DimensionsAssumption
<1>3. PICK x1 \in S : \A q \in S : Lo(q).tablero = "letras" => Lo(x1).tablero = "letras"
  OBVIOUS
<1> DEFINE S1 == {p \in S : Lo(p).tablero = Lo(x1).tablero}
           f1 == [p \in S1 |-> alto - Lo(p).c[1]]
<1>4. PICK x2 \in S1 : \A q \in S1 : f1[x2] <= f1[q]
  <2>1. S1 # {} /\ f1 \in [S1 -> Nat]
    BY <1>2
  <2> HIDE DEF S1, f1
  <2> QED BY <2>1, Menores
<1> DEFINE S2 == {p \in S1 : Lo(p).c[1] = Lo(x2).c[1]}
           f2 == [p \in S2 |-> ancho - Lo(p).c[2]]
<1>5. PICK x3 \in S2 : \A q \in S2 : f2[x3] <= f2[q]
  <2>1. S2 # {} /\ f2 \in [S2 -> Nat]
    BY <1>2
  <2> HIDE DEF S2, f2
  <2> QED BY <2>1, Menores
<1> DEFINE S3 == {p \in S2 : Lo(p).c[2] = Lo(x3).c[2]}
           f3 == [p \in S3 |-> Lugar(p)]
<1>6. PICK x4 \in S3 : \A q \in S3 : f3[x4] <= f3[q]
  <2>1. S3 # {} /\ f3 \in [S3 -> Nat]
    BY <1>1
  <2> HIDE DEF S3, f3
  <2> QED BY <2>1, Menores
<1>7. /\ x4 \in S /\ Lo(x4).tablero = Lo(x1).tablero
      /\ Lo(x4).c[1] = Lo(x2).c[1] /\ Lo(x4).c[2] = Lo(x3).c[2]
      /\ x2 \in S /\ x3 \in S
  BY <1>6
<1>8. ASSUME NEW q \in S
      PROVE  /\ Antes(Lo(q).tablero, Lo(q).c, Lo(x4).tablero, Lo(x4).c)
             /\ Lo(q).tablero = Lo(x4).tablero /\ Lo(q).c = Lo(x4).c => Lugar(x4) <= Lugar(q)
  <2>1. CASE Lo(q).tablero # Lo(x1).tablero
    <3>1. Lo(q).tablero = "palabras" /\ Lo(x1).tablero = "letras"
      BY <1>1, <1>3, <2>1 DEF Tableros
    <3> QED BY <1>7, <3>1 DEF Antes
  <2>2. CASE Lo(q).tablero = Lo(x1).tablero
    <3>1. f1[x2] <= f1[q] /\ f1[x2] = alto - Lo(x2).c[1] /\ f1[q] = alto - Lo(q).c[1] /\ q \in S1
      BY <1>4, <2>2
    <3>2. Lo(q).c[1] <= Lo(x2).c[1]
      BY <1>2, <1>7, <3>1, DimensionsAssumption
    <3>3. CASE Lo(q).c[1] # Lo(x2).c[1]
      <4>1. Lo(q).c[1] < Lo(x2).c[1]
        BY <1>2, <1>7, <3>2, <3>3
      <4> QED BY <1>7, <2>2, <3>3, <4>1 DEF Antes, compare_casilleros
    <3>4. CASE Lo(q).c[1] = Lo(x2).c[1]
      <4>1. /\ q \in S2 /\ f2[x3] <= f2[q]
            /\ f2[x3] = ancho - Lo(x3).c[2] /\ f2[q] = ancho - Lo(q).c[2]
        BY <1>5, <3>1, <3>4
      <4>2. Lo(q).c[2] <= Lo(x3).c[2]
        BY <1>2, <1>7, <4>1, DimensionsAssumption
      <4>3. Antes(Lo(q).tablero, Lo(q).c, Lo(x4).tablero, Lo(x4).c)
        BY <1>7, <2>2, <3>4, <4>2 DEF Antes, compare_casilleros
      <4>4. Lo(q).c = Lo(x4).c => Lugar(x4) <= Lugar(q)
        BY <1>6, <1>7, <4>1
      <4> QED BY <4>3, <4>4
    <3> QED BY <3>3, <3>4
  <2> QED BY <2>1, <2>2
<1> QED BY <1>7, <1>8

LEMMA SinCirculos == IInv => NoCircularWait
<1> SUFFICES ASSUME IInv, NEW S \in SUBSET Players, Cardinality(S) > 1,
                    \A p \in S : ~ WaitsForItself(p) /\ \E q \in S \ {p} : WaitsFor(p, q)
             PROVE  FALSE
  BY DEF NoCircularWait
<1>1. S # {}
  BY FS_EmptySet
<1>2. \A p \in S : Esperando(p)
  BY DEF WaitsFor, Esperando
<1>3. PICK p \in S : \A q \in S :
              /\ Antes(Lo(q).tablero, Lo(q).c, Lo(p).tablero, Lo(p).c)
              /\ Lo(q).tablero = Lo(p).tablero /\ Lo(q).c = Lo(p).c => Lugar(p) <= Lugar(q)
  BY <1>1, <1>2, ElUltimo
<1>4. PICK q \in S \ {p} : WaitsFor(p, q)
  OBVIOUS
<1>5. p \in Players /\ q \in Players /\ Esperando(p) /\ Esperando(q)
  BY <1>2
<1> DEFINE b == Lo(p).tablero
           c == Lo(p).c
           l == locks_casillas[b][c]
<1>6. /\ \A k \in Pide(p) : k = Lo(p)
      /\ b \in Tableros /\ c \in Casilleros
      /\ Lo(q) \in Pide(q) /\ \A k \in Pide(q) : k = Lo(q)
      /\ Lo(q).tablero \in Tableros /\ Lo(q).c \in Casilleros
  BY <1>5, SuLugar, LoQuePide
<1>7. \/ Holds(l, q)
      \/ \E i, j \in DOMAIN l.line : i < j /\ l.line[i].who = q /\ l.line[j].who = p
  BY <1>4, <1>6 DEF WaitsFor
<1>8. CASE Holds(l, q)
  <2>1. PICK mode \in Modos : Tiene(q, b, mode, c)
    BY <1>8 DEF Holds, Tiene, Modos
  <2>2. Antes(b, c, Lo(q).tablero, Lo(q).c)
    BY <1>5, <1>6, <2>1, PideDespues
  <2>3. Antes(Lo(q).tablero, Lo(q).c, b, c)
    BY <1>3
  <2>4. Lo(q).tablero = b /\ Lo(q).c = c
    BY <1>6, <2>2, <2>3, OrdenDeCasilleros DEF Antes
  <2>5. Espera(locks_casillas[Lo(q).tablero][Lo(q).c], q)
    BY <1>5, SuLugar
  <2>6. WaitsForItself(q)
    BY <1>6, <1>8, <2>4, <2>5 DEF WaitsForItself
  <2> QED BY <2>6
<1>9. ASSUME NEW i \in DOMAIN l.line, NEW j \in DOMAIN l.line, i < j,
             l.line[i].who = q, l.line[j].who = p
      PROVE  FALSE
  <2>1. [tablero |-> b, c |-> c, mode |-> l.line[i].mode] \in Pide(q)
    BY <1>5, <1>6, <1>9 DEF IInv, Filas
  <2>2. Lo(q).tablero = b /\ Lo(q).c = c
    BY <1>6, <2>1
  <2>3. i = Lugar(q) /\ j = Lugar(p)
    BY <1>5, <1>9, <2>2, SuLugar
  <2>4. Lugar(p) <= Lugar(q) /\ Lugar(p) \in Nat /\ Lugar(q) \in Nat
    BY <1>3, <1>5, <2>2, SuLugar
  <2> QED BY <1>9, <2>3, <2>4
<1> QED BY <1>7, <1>8, <1>9

(* The order in which the threads take their locks leaves no circular wait *)
(* among players, however many they are: of those who wait, the one who    *)
(* waits for the last lock, ahead of the others in its line, waits for     *)
(* none of them, unless its own word has a cell twice.                     *)
THEOREM SinEsperaCircular == SafeSpec => []NoCircularWait
BY Inductivo, SinCirculos, PTL
-----------------------------------------------------------------------------
(* A word is in one line and has no gaps.                                  *)

(* The cells with a confirmed letter. *)
Confirmadas == {c \in Casilleros : tablero["palabras"][c] # VACIO}

(* x is in the line of a and b (eje is what its cells share), between them. *)
Entre(a, x, b, eje) == x[eje] = a[eje] /\ a[3 - eje] < x[3 - eje] /\ x[3 - eje] < b[3 - eje]

(* The letters A are in one line, where the cells between two of them are  *)
(* of A or of P.                                                           *)
SinHuecos(A, P, eje) ==
    \A a, b \in A : /\ a[eje] = b[eje]
                    /\ \A x \in Casilleros : Entre(a, x, b, eje) => x \in A \cup P

EnLinea(A, P) == \E eje \in {1, 2} : SinHuecos(A, P, eje)

(* The cell f can join A, but for the cells of T, yet to be looked at. *)
Falta(A, P, f, T) ==
    \E eje \in {1, 2} :
        /\ SinHuecos(A, P, eje)
        /\ \A a \in A : /\ a[eje] = f[eje]
                        /\ \A x \in Casilleros :
                              Entre(a, x, f, eje) \/ Entre(f, x, a, eje) => x \in A \cup P \cup T

(* A word has no gaps, and the letter that is being looked at will leave   *)
(* none.                                                                   *)
LineaDe(w, A, P, f, T) ==
    /\ EnLinea(A, P)
    /\ w = "mira_palabras" => Falta(A, P, f, T)
    /\ w = "escribe_letra" => Falta(A, P, f, {})

Linea(p) == LineaDe(pc[p], ToSet(palabra_actual[p]), Confirmadas, ficha[p], ToSet(todo[p]))

LEMMA Ejes ==
    ASSUME NEW c \in Casilleros, NEW eje \in {1, 2}
    PROVE  /\ c[eje] \in Int /\ c[3 - eje] \in Int /\ 3 - eje \in {1, 2} /\ 3 - eje # eje
           /\ \A d \in Casilleros : d[eje] = c[eje] /\ d[3 - eje] = c[3 - eje] => d = c
<1>1. c = <<c[1], c[2]>> /\ c[1] \in Int /\ c[2] \in Int
  BY CoordenadasDe
<1>2. \A d \in Casilleros : d = <<d[1], d[2]>>
  BY CoordenadasDe
<1>3. CASE eje = 1
  BY <1>1, <1>2, <1>3
<1>4. CASE eje = 2
  BY <1>1, <1>2, <1>4
<1> QED BY <1>3, <1>4

(* Distances along a line. *)
LEMMA DistanciaEnLinea ==
    ASSUME NEW a \in Casilleros, NEW c \in Casilleros, NEW eje \in {1, 2}, a[eje] = c[eje]
    PROVE  Distancia(a, c) = Abs(a[3 - eje] - c[3 - eje])
<1>1. CASE eje = 1
  BY <1>1, DistanciaEs
<1>2. CASE eje = 2
  BY <1>2, DistanciaEs
<1> QED BY <1>1, <1>2

(* More letters confirmed and fewer cells to look at leave no gaps. *)
LEMMA LineaCrece ==
    ASSUME NEW w, NEW A, NEW P, NEW Q, P \subseteq Q, NEW f, NEW T, LineaDe(w, A, P, f, T)
    PROVE  LineaDe(w, A, Q, f, T)
<1>1. EnLinea(A, Q)
  BY DEF LineaDe, EnLinea, SinHuecos
<1>2. ASSUME NEW U, Falta(A, P, f, U) PROVE Falta(A, Q, f, U)
  BY <1>2 DEF Falta, SinHuecos
<1> QED BY <1>1, <1>2 DEF LineaDe

(* The cells that were looked at are filled. *)
LEMMA FaltaMenos ==
    ASSUME NEW A, NEW P, NEW f, NEW T, NEW U, Falta(A, P, f, T), T \subseteq A \cup P \cup U
    PROVE  Falta(A, P, f, U)
BY DEF Falta

(* The letter looked at leaves no gap. *)
LEMMA FaltaNada ==
    ASSUME NEW A \in SUBSET Casilleros, NEW P, NEW f \in Casilleros, Falta(A, P, f, {})
    PROVE  EnLinea(A \cup {f}, P)
<1>1. PICK eje \in {1, 2} :
        /\ SinHuecos(A, P, eje)
        /\ \A a \in A : /\ a[eje] = f[eje]
                        /\ \A x \in Casilleros :
                              Entre(a, x, f, eje) \/ Entre(f, x, a, eje) => x \in A \cup P
  BY DEF Falta
<1>2. ASSUME NEW a \in A \cup {f}, NEW b \in A \cup {f}
      PROVE  /\ a[eje] = b[eje]
             /\ \A x \in Casilleros : Entre(a, x, b, eje) => x \in A \cup {f} \cup P
  <2>1. \A x \in Casilleros : ~ Entre(f, x, f, eje)
    BY Ejes DEF Entre
  <2>2. CASE a \in A /\ b \in A
    BY <1>1, <2>2 DEF SinHuecos
  <2>3. CASE a \in A /\ b = f
    BY <1>1, <2>3
  <2>4. CASE a = f /\ b \in A
    BY <1>1, <2>4
  <2>5. CASE a = f /\ b = f
    BY <2>1, <2>5
  <2> QED BY <2>2, <2>3, <2>4, <2>5
<1> QED BY <1>2 DEF EnLinea, SinHuecos

(* The cells from the farthest letter to the new one are all those to look *)
(* at: those on the other side are between letters.                        *)
LEMMA FaltaElCamino ==
    ASSUME NEW s \in Seq(Casilleros), s # <<>>, NEW c \in Casilleros, NEW P,
           EnLinea(ToSet(s), P), Alineada(c, s), casillero_mas_distante_de(c, s) # c
    PROVE  Falta(ToSet(s), P, c, ToSet(Camino(casillero_mas_distante_de(c, s), c)))
<1> DEFINE L == casillero_mas_distante_de(c, s)
           eje == IF L[1] = c[1] THEN 1 ELSE 2
           A == ToSet(s)
           T == ToSet(Camino(L, c))
<1>1. PICK k \in DOMAIN s : L = s[k] /\ \A j \in DOMAIN s : Distancia(s[j], c) <= Distancia(s[k], c)
  BY LaMasDistante
<1>2. A \subseteq Casilleros /\ L \in A /\ L \in Casilleros
  BY <1>1, EsSecuencia DEF ToSet
<1>3. \A a \in A : a[eje] = c[eje] /\ Distancia(a, c) <= Distancia(L, c)
  BY <1>1 DEF Alineada, ToSet
<1>4. eje \in {1, 2} /\ L # c
  OBVIOUS
<1>5. \A x \in Casilleros :
        /\ L[eje] = c[eje] /\ x[eje] = c[eje]
        /\ \/ L[3 - eje] < x[3 - eje] /\ x[3 - eje] < c[3 - eje]
           \/ c[3 - eje] < x[3 - eje] /\ x[3 - eje] < L[3 - eje]
        => x \in T
  <2>1. L[1] = c[1] \/ L[2] = c[2]
    BY CaminoAlineado
  <2> HIDE DEF L, eje
  <2> QED BY <1>2, <1>4, <2>1, CaminoDe
<1> HIDE DEF L, eje, A, T
<1>6. SinHuecos(A, P, eje)
  <2>1. PICK e \in {1, 2} : SinHuecos(A, P, e)
    BY DEF EnLinea, A
  <2>2. CASE e = eje
    BY <2>1, <2>2
  <2>3. CASE e # eje
    <3>1. e = 3 - eje
      BY <1>4, <2>3
    <3>2. ASSUME NEW a \in A, NEW b \in A
          PROVE  a[eje] = b[eje] /\ \A x \in Casilleros : ~ Entre(a, x, b, eje)
      <4>1. a[eje] = b[eje] /\ a[3 - eje] = b[3 - eje]
        BY <1>3, <2>1, <3>1 DEF SinHuecos
      <4>2. ASSUME NEW x \in Casilleros PROVE ~ Entre(a, x, b, eje)
        <5>1. a[3 - eje] \in Int /\ x[3 - eje] \in Int
          BY <1>2, <1>4, Ejes
        <5> QED BY <4>1, <5>1 DEF Entre
      <4> QED BY <4>1, <4>2
    <3> QED BY <3>2 DEF SinHuecos
  <2> QED BY <2>2, <2>3
<1>7. ASSUME NEW a \in A, NEW x \in Casilleros, Entre(a, x, c, eje) \/ Entre(c, x, a, eje)
      PROVE  x \in A \cup P \cup T
  <2> DEFINE o == 3 - eje
  <2>1. a[eje] = c[eje] /\ L[eje] = c[eje] /\ x[eje] = c[eje]
    BY <1>2, <1>3, <1>7 DEF Entre
  <2>2. a[o] \in Int /\ c[o] \in Int /\ x[o] \in Int /\ L[o] \in Int
    BY <1>2, <1>4, Ejes
  <2>3. Abs(a[o] - c[o]) <= Abs(L[o] - c[o])
    <3>1. Distancia(a, c) = Abs(a[o] - c[o]) /\ Distancia(L, c) = Abs(L[o] - c[o])
      BY <1>2, <1>4, <2>1, DistanciaEnLinea
    <3> QED BY <1>3, <3>1
  <2>4. \A b \in A : /\ Entre(a, x, b, eje) => x \in A \cup P
                     /\ Entre(b, x, a, eje) => x \in A \cup P
    BY <1>6 DEF SinHuecos
  <2>5. \/ a[o] < x[o] /\ x[o] < c[o]
        \/ c[o] < x[o] /\ x[o] < a[o]
    BY <1>7 DEF Entre
  <2> HIDE DEF o
  <2>6. \/ L[o] < x[o] /\ x[o] < c[o]
        \/ c[o] < x[o] /\ x[o] < L[o]
        \/ a[o] < x[o] /\ x[o] < L[o]
        \/ L[o] < x[o] /\ x[o] < a[o]
    BY <2>2, <2>3, <2>5 DEF Abs
  <2>7. CASE (L[o] < x[o] /\ x[o] < c[o]) \/ (c[o] < x[o] /\ x[o] < L[o])
    BY <1>5, <2>1, <2>7 DEF o
  <2>8. CASE (a[o] < x[o] /\ x[o] < L[o]) \/ (L[o] < x[o] /\ x[o] < a[o])
    <3>1. Entre(a, x, L, eje) \/ Entre(L, x, a, eje)
      BY <2>1, <2>8 DEF Entre, o
    <3> QED BY <1>2, <2>4, <3>1
  <2> QED BY <2>6, <2>7, <2>8
<1> QED BY <1>3, <1>4, <1>6, <1>7 DEF Falta, A, T, L
LEMMA MismasCeldas ==
    ASSUME NEW s \in Seq(Casilleros)
    PROVE  ToSet(Ordenada(s)) = ToSet(s)
<1>1. Ordenada(s) \in Seq(Casilleros) /\ Len(Ordenada(s)) = Len(s)
  BY OrdenadaOrdena
<1>2. DOMAIN Ordenada(s) = DOMAIN s
  BY <1>1, EsSecuencia
<1>3. /\ \A k \in DOMAIN s : \E i \in DOMAIN s : Ordenada(s)[k] = s[i]
      /\ \A i \in DOMAIN s : \E k \in DOMAIN s : Ordenada(s)[k] = s[i]
  BY OrdenadaOrdena
<1> QED BY <1>2, <1>3 DEF ToSet

(* Every step leaves the other threads where they are. *)
LEMMA MarcoDe ==
    ASSUME IInv, NEW p \in Players, Step(p)
    PROVE  Marco(p)
<1> USE DEF Marco, IInv, Tipos, Goto, Sigue, Quitar
<1>1. CASE Atender(p)
  <2>1. CASE Esperar(p)
    BY <2>1 DEF Esperar
  <2>2. CASE QuitarLock(p) \/ PalabraLock(p) \/ UpdateLock(p)
    BY <2>2 DEF QuitarLock, PalabraLock, UpdateLock
  <2>3. CASE QuitarBorra(p) \/ PalabraEscribe(p)
    BY <2>3 DEF QuitarBorra, PalabraEscribe
  <2>4. CASE QuitarUnlock(p) \/ PalabraUnlock(p) \/ UpdateUnlock(p)
    BY <2>4 DEF QuitarUnlock, PalabraUnlock, UpdateUnlock
  <2>5. CASE Responder(p) \/ UpdateEnvia(p)
    BY <2>5 DEF Responder, UpdateEnvia
  <2>6. CASE MirarLetras(p)
    BY <2>6 DEF MirarLetras
  <2>7. CASE MirarPalabras(p) \/ EscribirLetra(p)
    BY <2>7 DEF MirarPalabras, EscribirLetra
  <2> QED BY <1>1, <2>1, <2>2, <2>3, <2>4, <2>5, <2>6, <2>7 DEF Atender
<1>2. CASE Conectar(p) \/ Cortar(p) \/ Morir(p)
  BY <1>2 DEF Conectar, Cortar, Morir
<1>3. CASE Mandar(p)
  BY <1>3 DEF Mandar, LetraFuera, RecibirLetra, RecibirPalabra, RecibirUpdate
<1> QED BY <1>1, <1>2, <1>3 DEF Step

(* A confirmed letter stays. *)
LEMMA ConfirmadasCrece ==
    ASSUME IInv, NEW p \in Players, Step(p)
    PROVE  Confirmadas \subseteq Confirmadas'
<1>1. CASE UNCHANGED tablero
  BY <1>1 DEF Confirmadas
<1>2. CASE PalabraEscribe(p)
  <2>1. p # VACIO
    BY PlayersAssumption
  <2>2. tablero' = [tablero EXCEPT !["palabras"][Head(todo[p])] = p]
    BY <1>2 DEF PalabraEscribe
  <2> QED BY <2>1, <2>2 DEF Confirmadas, IInv, Tipos, Tableros
<1>3. CASE QuitarBorra(p)
  <2>1. tablero' = [tablero EXCEPT !["letras"][Head(todo[p])] = VACIO]
    BY <1>3 DEF QuitarBorra
  <2> QED BY <2>1 DEF Confirmadas, IInv, Tipos, Tableros
<1>4. CASE EscribirLetra(p)
  <2>1. tablero' = [tablero EXCEPT !["letras"][ficha[p]] = p]
    BY <1>4 DEF EscribirLetra
  <2> QED BY <2>1 DEF Confirmadas, IInv, Tipos, Tableros
<1>5. UNCHANGED tablero \/ PalabraEscribe(p) \/ QuitarBorra(p) \/ EscribirLetra(p)
  <2>1. CASE Atender(p)
    BY <2>1 DEF Atender, Esperar, QuitarLock, QuitarUnlock, Responder, MirarLetras, MirarPalabras,
                PalabraLock, PalabraUnlock, UpdateLock, UpdateEnvia, UpdateUnlock
  <2>2. CASE Conectar(p) \/ Cortar(p) \/ Morir(p)
    BY <2>2 DEF Conectar, Cortar, Morir
  <2>3. CASE Mandar(p)
    BY <2>3 DEF Mandar, LetraFuera, RecibirLetra, RecibirPalabra, RecibirUpdate
  <2> QED BY <2>1, <2>2, <2>3 DEF Step
<1> QED BY <1>1, <1>2, <1>3, <1>4, <1>5

(* The steps that look at no letter keep the word, sorted, or drop it. *)
Callado(p) ==
    /\ pc'[p] \notin {"mira_palabras", "escribe_letra"}
    /\ palabra_actual'[p] \in {palabra_actual[p], Ordenada(palabra_actual[p]), <<>>}

LEMMA CalladoQuitar ==
    ASSUME IInv, NEW p \in Players, NEW despues \in {"error", "fin"}, Quitar(p, despues)
    PROVE  Callado(p)
BY DEF IInv, Tipos, Quitar, Goto, Callado

LEMMA CalladoSigue ==
    ASSUME IInv, NEW p \in Players, pc[p] \notin {"mira_palabras", "escribe_letra"},
           NEW w \in PCs \ {"mira_palabras", "escribe_letra"}, NEW s, Sigue(p, w, s),
           palabra_actual'[p] \in {palabra_actual[p], <<>>}
    PROVE  Callado(p)
BY DEF IInv, Tipos, Sigue, Goto, Callado

LEMMA Callados ==
    ASSUME IInv, NEW p \in Players, Step(p)
    PROVE  \/ Callado(p)
           \/ UNCHANGED <<palabra_actual, pc, ficha, todo>>
           \/ MirarLetras(p) \/ MirarPalabras(p) \/ EscribirLetra(p)
<1>1. CASE Atender(p)
  <2>1. CASE Esperar(p)
    BY <2>1 DEF Esperar
  <2>2. CASE QuitarLock(p) \/ PalabraLock(p) \/ UpdateLock(p)
    BY <2>2, CalladoSigue DEF QuitarLock, PalabraLock, UpdateLock, PCs
  <2>3. CASE QuitarBorra(p) \/ PalabraEscribe(p)
    BY <2>3, CalladoSigue DEF QuitarBorra, PalabraEscribe, PCs
  <2>4. CASE QuitarUnlock(p)
    <3>1. luego[p] \in {"error", "fin"} /\ palabra_actual'[p] \in {palabra_actual[p], <<>>}
      BY <2>4 DEF QuitarUnlock, IInv, Tipos
    <3> QED BY <2>4, <3>1, CalladoSigue DEF QuitarUnlock, PCs
  <2>5. CASE PalabraUnlock(p)
    <3>1. palabra_actual'[p] \in {palabra_actual[p], <<>>}
      BY <2>5 DEF PalabraUnlock, IInv, Tipos
    <3> QED BY <2>5, <3>1, CalladoSigue DEF PalabraUnlock, PCs
  <2>6. CASE UpdateUnlock(p)
    BY <2>6, CalladoSigue DEF UpdateUnlock, PCs
  <2>7. CASE Responder(p) \/ UpdateEnvia(p)
    BY <2>7, CalladoQuitar DEF Responder, UpdateEnvia, Goto, Callado, IInv, Tipos
  <2> QED BY <1>1, <2>1, <2>2, <2>3, <2>4, <2>5, <2>6, <2>7 DEF Atender
<1>2. CASE Conectar(p) \/ Morir(p)
  BY <1>2 DEF Conectar, Morir, Goto, Callado, IInv, Tipos
<1>3. CASE Cortar(p) \/ LetraFuera(p)
  BY <1>3, CalladoQuitar DEF Cortar, LetraFuera
<1>4. CASE \E c \in Casilleros : RecibirLetra(p, c)
  BY <1>4 DEF RecibirLetra, Goto, Callado, IInv, Tipos
<1>5. CASE RecibirPalabra(p) \/ RecibirUpdate(p)
  BY <1>5 DEF RecibirPalabra, RecibirUpdate, Goto, Callado, IInv, Tipos
<1> QED BY <1>1, <1>2, <1>3, <1>4, <1>5 DEF Step, Mandar

LEMMA LineaCallada ==
    ASSUME IInv, NEW p \in Players, Linea(p), Callado(p), Confirmadas \subseteq Confirmadas'
    PROVE  Linea(p)'
<1> DEFINE A == ToSet(palabra_actual[p])
           B == ToSet(palabra_actual'[p])
           P == Confirmadas'
<1>1. palabra_actual[p] \in Seq(Casilleros)
  BY DEF IInv, Tipos
<1>2. B = A \/ B = {}
  <2>1. ToSet(<<>>) = {}
    BY DEF ToSet
  <2> QED BY <1>1, <2>1, MismasCeldas DEF Callado
<1>3. EnLinea(A, P)
  BY LineaCrece DEF Linea, LineaDe
<1>4. EnLinea({}, P)
  BY DEF EnLinea, SinHuecos
<1>5. LineaDe(pc'[p], B, P, ficha'[p], ToSet(todo'[p]))
  <2> HIDE DEF A, B, P
  <2> QED BY <1>2, <1>3, <1>4 DEF LineaDe, Callado
<1> QED BY <1>5 DEF Linea

(* quitar_letras ends with the word as it was, sorted, or without it. *)
LEMMA LineaMirarLetras ==
    ASSUME IInv, NEW p \in Players, Linea(p), MirarLetras(p), Confirmadas \subseteq Confirmadas'
    PROVE  Linea(p)'
<1> DEFINE c == ficha[p]
           s == palabra_actual[p]
           lejos == casillero_mas_distante_de(c, s)
           P == Confirmadas'
<1>1. c \in Casilleros /\ s \in Seq(Casilleros) /\ pc[p] = "mira_letras"
  BY DEF IInv, Tipos, MirarLetras
<1>2. EnLinea(ToSet(s), P)
  BY LineaCrece DEF Linea, LineaDe
<1>3. CASE Quitar(p, "error")
  BY <1>3, CalladoQuitar, LineaCallada
<1>4. CASE /\ s = <<>> /\ Goto(p, "escribe_letra")
           /\ UNCHANGED <<palabra_actual, ficha, todo, luego, caido>>
  <2>1. pc'[p] = "escribe_letra" /\ palabra_actual'[p] = s
    BY <1>4 DEF IInv, Tipos, Goto
  <2>2. ToSet(s) = {}
    BY <1>4 DEF ToSet
  <2>3. \A f, T : LineaDe("escribe_letra", {}, P, f, T)
    BY DEF LineaDe, EnLinea, Falta, SinHuecos
  <2> QED BY <2>1, <2>2, <2>3 DEF Linea
<1>5. CASE /\ s # <<>> /\ Alineada(c, s) /\ lejos # c
           /\ todo' = [todo EXCEPT ![p] = Camino(lejos, c)]
           /\ Goto(p, "mira_palabras")
           /\ UNCHANGED <<palabra_actual, ficha, luego, caido>>
  <2>1. /\ pc'[p] = "mira_palabras" /\ palabra_actual'[p] = s /\ ficha'[p] = c
        /\ todo'[p] = Camino(lejos, c)
    BY <1>5 DEF IInv, Tipos, Goto
  <2>2. Falta(ToSet(s), P, c, ToSet(Camino(lejos, c)))
    BY <1>1, <1>2, <1>5, FaltaElCamino
  <2>3. LineaDe("mira_palabras", ToSet(s), P, c, ToSet(Camino(lejos, c)))
    BY <1>2, <2>2 DEF LineaDe
  <2> QED BY <2>1, <2>3 DEF Linea
<1>6. CASE UNCHANGED <<palabra_actual, pc, ficha, todo, luego>>
  <2>1. pc'[p] = "mira_letras" /\ palabra_actual'[p] = s
    BY <1>1, <1>6
  <2>2. \A f, T : LineaDe("mira_letras", ToSet(s), P, f, T)
    BY <1>2 DEF LineaDe
  <2> QED BY <2>1, <2>2 DEF Linea
<1> QED BY <1>3, <1>4, <1>5, <1>6 DEF MirarLetras

LEMMA LineaMirarPalabras ==
    ASSUME IInv, NEW p \in Players, Linea(p), MirarPalabras(p), Confirmadas \subseteq Confirmadas'
    PROVE  Linea(p)'
<1> DEFINE t == todo[p]
           c == Head(t)
           A == ToSet(palabra_actual[p])
           P == Confirmadas
           Q == Confirmadas'
<1>1. /\ pc[p] = "mira_palabras" /\ t \in Seq(Casilleros)
      /\ palabra_actual[p] \in Seq(Casilleros) /\ EnLinea(A, P) /\ Falta(A, P, ficha[p], ToSet(t))
  BY DEF IInv, Tipos, MirarPalabras, Linea, LineaDe
<1>2. t # <<>>
  BY <1>1, TodoNoVacio DEF IInv
<1>3. CASE Quitar(p, "error")
  BY <1>3, CalladoQuitar, LineaCallada
<1>4. CASE /\ Lleno(p, c) /\ Sigue(p, "escribe_letra", <<>>)
           /\ UNCHANGED <<palabra_actual, ficha, luego>>
  <2>1. c \in A \cup P
    <3>1. c \in Casilleros
      BY <1>1, <1>2, EsSecuencia, ColaDe
    <3> QED BY <1>4, <3>1 DEF Lleno, puso_letra_en, ToSet, Confirmadas
  <2>2. EsCola(t, t)
    BY <1>1, <1>2, ColaEntera
  <2>3. /\ Len(t) > 1 => ToSet(t) = ToSet(Tail(t)) \cup {c}
        /\ ~ (Len(t) > 1) => ToSet(t) = {c}
    BY <1>1, <2>2, BucleSigue
  <2>4. palabra_actual'[p] = palabra_actual[p] /\ ficha'[p] = ficha[p]
    BY <1>4
  <2>5. CASE Len(t) > 1
    <3>1. pc'[p] = "mira_palabras" /\ todo'[p] = Tail(t)
      BY <1>1, <1>4, <2>5 DEF Sigue, IInv, Tipos
    <3>2. ToSet(t) \subseteq A \cup P \cup ToSet(Tail(t))
      BY <2>1, <2>3, <2>5
    <3>3. Falta(A, P, ficha[p], ToSet(Tail(t)))
      <4> HIDE DEF t, A, P
      <4> QED BY <1>1, <3>2, FaltaMenos
    <3>4. LineaDe("mira_palabras", A, P, ficha[p], ToSet(Tail(t)))
      BY <1>1, <3>3 DEF LineaDe
    <3>5. LineaDe("mira_palabras", A, Q, ficha[p], ToSet(Tail(t)))
      BY <3>4, LineaCrece
    <3> QED BY <2>4, <3>1, <3>5 DEF Linea
  <2>6. CASE ~ (Len(t) > 1)
    <3>1. pc'[p] = "escribe_letra"
      BY <1>4, <2>6 DEF Sigue, Goto, IInv, Tipos
    <3>2. ToSet(t) \subseteq A \cup P \cup {}
      BY <2>1, <2>3, <2>6
    <3>3. Falta(A, P, ficha[p], {})
      <4> HIDE DEF t, A, P
      <4> QED BY <1>1, <3>2, FaltaMenos
    <3>4. LineaDe("escribe_letra", A, P, ficha[p], ToSet(todo'[p]))
      BY <1>1, <3>3 DEF LineaDe
    <3>5. LineaDe("escribe_letra", A, Q, ficha[p], ToSet(todo'[p]))
      BY <3>4, LineaCrece
    <3> QED BY <2>4, <3>1, <3>5 DEF Linea
  <2> QED BY <2>5, <2>6
<1> QED BY <1>3, <1>4 DEF MirarPalabras

LEMMA LineaEscribirLetra ==
    ASSUME IInv, NEW p \in Players, Linea(p), EscribirLetra(p), Confirmadas \subseteq Confirmadas'
    PROVE  Linea(p)'
<1> DEFINE s == palabra_actual[p]
           f == ficha[p]
           A == ToSet(s)
           P == Confirmadas
<1>1. s \in Seq(Casilleros) /\ f \in Casilleros /\ Falta(A, P, f, {})
  BY DEF IInv, Tipos, EscribirLetra, Linea, LineaDe
<1>2. pc'[p] = "ok" /\ palabra_actual'[p] = Append(s, f)
  BY DEF IInv, Tipos, EscribirLetra, Goto
<1>3. ToSet(Append(s, f)) = A \cup {f} /\ A \subseteq Casilleros
  <2>1. /\ DOMAIN s = 1..Len(s) /\ Len(s) \in Nat /\ DOMAIN Append(s, f) = 1..(Len(s) + 1)
        /\ \A i \in 1..Len(s) : Append(s, f)[i] = s[i] /\ s[i] \in Casilleros
        /\ Append(s, f)[Len(s) + 1] = f
    BY <1>1, AgregaDe, EsSecuencia
  <2> QED BY <2>1 DEF ToSet
<1>4. EnLinea(A \cup {f}, P)
  <2> HIDE DEF A, P, f, s
  <2> QED BY <1>1, <1>3, FaltaNada
<1>5. \A g, T : LineaDe("ok", A \cup {f}, P, g, T)
  BY <1>4 DEF LineaDe
<1>6. LineaDe("ok", A \cup {f}, Confirmadas', ficha'[p], ToSet(todo'[p]))
  <2> HIDE DEF A, f
  <2> QED BY <1>5, LineaCrece
<1> QED BY <1>2, <1>3, <1>6 DEF Linea

Lineas == \A p \in Players : Linea(p)

LEMMA LineaEmpieza == Init => Lineas
<1> SUFFICES ASSUME Init, NEW p \in Players PROVE Linea(p)
  BY DEF Lineas
<1>1. pc[p] = "fuera" /\ ToSet(palabra_actual[p]) = {}
  BY DEF Init, ToSet
<1>2. \A P, f, T : LineaDe("fuera", {}, P, f, T)
  BY DEF LineaDe, EnLinea, SinHuecos
<1> QED BY <1>1, <1>2 DEF Linea

LEMMA LineaPaso == IInv /\ Lineas /\ [Next]_vars => Lineas'
<1> SUFFICES ASSUME IInv, Lineas, [Next]_vars PROVE Lineas'
  OBVIOUS
<1>1. ASSUME NEW p \in Players, Step(p) PROVE Lineas'
  <2>1. Marco(p) /\ Confirmadas \subseteq Confirmadas'
    BY <1>1, MarcoDe, ConfirmadasCrece
  <2>2. ASSUME NEW q \in Players, UNCHANGED <<pc[q], palabra_actual[q], ficha[q], todo[q]>>
        PROVE  Linea(q)'
    <3>1. Linea(q)
      BY DEF Lineas
    <3>2. LineaDe(pc[q], ToSet(palabra_actual[q]), Confirmadas', ficha[q], ToSet(todo[q]))
      BY <2>1, <3>1, LineaCrece DEF Linea
    <3> QED BY <2>2, <3>2 DEF Linea
  <2>3. Linea(p)'
    BY <1>1, <2>1, <2>2, Callados, LineaCallada, LineaMirarLetras, LineaMirarPalabras,
       LineaEscribirLetra DEF Lineas
  <2>4. ASSUME NEW q \in Players \ {p} PROVE Linea(q)'
    BY <2>1, <2>2 DEF Marco
  <2> QED BY <2>3, <2>4 DEF Lineas
<1>2. CASE UNCHANGED vars
  BY <1>2 DEF vars, Lineas, Linea, Confirmadas
<1> QED BY <1>1, <1>2 DEF Next

LEMMA LineaSinHuecos == IInv /\ Lineas => WordHasNoGaps
<1> SUFFICES ASSUME IInv, Lineas, NEW p \in Players
             PROVE  \E eje \in {1, 2} : \A i, j \in DOMAIN palabra_actual[p] :
                       /\ palabra_actual[p][i][eje] = palabra_actual[p][j][eje]
                       /\ \A c \in Casilleros :
                             Entre(palabra_actual[p][i], c, palabra_actual[p][j], eje) => Lleno(p, c)
  BY DEF WordHasNoGaps, Entre
<1> DEFINE s == palabra_actual[p]
<1>1. PICK eje \in {1, 2} : SinHuecos(ToSet(s), Confirmadas, eje)
  BY DEF Lineas, Linea, LineaDe, EnLinea
<1>2. \A c \in ToSet(s) \cup Confirmadas : Lleno(p, c)
  BY DEF Lleno, puso_letra_en, ToSet, Confirmadas
<1>3. \A i \in DOMAIN s : s[i] \in ToSet(s)
  BY DEF ToSet
<1> HIDE DEF s
<1> QED BY <1>1, <1>2, <1>3 DEF SinHuecos, s

(* The letters of a word are in one line, and the cells between two of     *)
(* them are filled by the word or by confirmed ones: the letters put and   *)
(* confirmed by others since each one was looked at open no gap.           *)
THEOREM PalabraSinHuecos == SafeSpec => []WordHasNoGaps
<1>1. SafeSpec => []Lineas
  BY Inductivo, LineaEmpieza, LineaPaso, PTL DEF SafeSpec
<1> QED BY <1>1, Inductivo, LineaSinHuecos, PTL

=============================================================================
