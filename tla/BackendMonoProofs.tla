-------------------------- MODULE BackendMonoProofs --------------------------
(***************************************************************************)
(* The boards of the game server for one player, for boards of any size    *)
(* and any number of commands.                                             *)
(***************************************************************************)
EXTENDS BackendMono, SequenceTheorems, WellFoundedInduction, TLAPS

(* A set of naturals has a least element. *)
LEMMA Minimo ==
    ASSUME NEW T, T \subseteq Nat, T # {}
    PROVE  \E x \in T : \A y \in T : x <= y
<1>1. PICK x \in T : \A y \in T : <<y, x>> \notin OpToRel(<, Nat)
  BY NatLessThanWellFounded, WFMin, Zenon
<1>2. \A y \in T : ~ (y < x)
  <2>1. ASSUME NEW y \in T, y < x
        PROVE  <<y, x>> \in OpToRel(<, Nat)
    BY <2>1 DEF OpToRel
  <2> QED BY <1>1, <2>1
<1> QED BY <1>2

Tipos ==
    /\ tablero_letras \subseteq Casilleros /\ tablero_palabras \subseteq Casilleros
    /\ palabra_actual \in Seq(Casilleros)

(* The three are needed together: letters are accepted only in free cells, *)
(* and a cell is free if no word has it.                                   *)
IInv == Tipos /\ TablerosDeAcuerdo /\ SinRepetidos

LEMMA LetrasDe ==
    ASSUME Tipos
    PROVE  /\ Letras \subseteq Casilleros
           /\ \A x : x \in Letras <=> \E i \in DOMAIN palabra_actual : palabra_actual[i] = x
BY DEF Tipos, Letras, ToSet

LEMMA Agregar ==
    ASSUME Tipos, NEW c \in Casilleros, palabra_actual' = Append(palabra_actual, c)
    PROVE  /\ palabra_actual' \in Seq(Casilleros)
           /\ Letras' = Letras \cup {c}
           /\ SinRepetidos /\ c \notin Letras => SinRepetidos'
<1> DEFINE s == palabra_actual
<1>1. /\ s \in Seq(Casilleros) /\ s' \in Seq(Casilleros)
      /\ Len(s) \in Nat /\ DOMAIN s = 1..Len(s) /\ DOMAIN s' = 1..(Len(s) + 1)
      /\ s'[Len(s) + 1] = c /\ \A i \in DOMAIN s : s'[i] = s[i]
  BY DEF Tipos
<1>2. Letras' = Letras \cup {c}
  BY <1>1 DEF Letras, ToSet
<1>3. ASSUME SinRepetidos, c \notin Letras
      PROVE  SinRepetidos'
  BY <1>1, <1>3 DEF SinRepetidos, Letras, ToSet
<1> QED BY <1>1, <1>2, <1>3

LEMMA Quitada ==
    ASSUME IInv, quitar_letras
    PROVE  IInv'
<1>1. /\ palabra_actual' = <<>> /\ tablero_palabras' = tablero_palabras
      /\ tablero_letras' = tablero_letras \ Letras
  BY DEF quitar_letras
<1>2. palabra_actual' \in Seq(Casilleros) /\ Letras' = {} /\ SinRepetidos'
  BY <1>1 DEF Letras, ToSet, SinRepetidos
<1> QED BY <1>1, <1>2 DEF IInv, Tipos, TablerosDeAcuerdo

THEOREM Inductivo == Spec => []IInv
<1>1. Init => IInv
  BY DEF Init, IInv, Tipos, TablerosDeAcuerdo, SinRepetidos, Letras, ToSet
<1>2. IInv /\ [Next]_vars => IInv'
  <2> SUFFICES ASSUME IInv, [Next]_vars PROVE IInv'
    OBVIOUS
  <2>1. ASSUME UNCHANGED <<tablero_letras, tablero_palabras, palabra_actual>>
        PROVE  IInv'
    BY <2>1 DEF IInv, Tipos, TablerosDeAcuerdo, SinRepetidos, Letras
  <2>2. ASSUME NEW c, LetraValida(c)
        PROVE  IInv'
    <3>1. c \in Casilleros \ tablero_letras /\ tablero_palabras' = tablero_palabras
          /\ tablero_letras' = tablero_letras \cup {c}
          /\ palabra_actual' = Append(palabra_actual, c)
      BY <2>2 DEF LetraValida, es_ficha_valida_en_palabra
    <3>2. c \notin Letras /\ c \notin tablero_palabras
      BY <3>1 DEF IInv, TablerosDeAcuerdo
    <3> QED BY <3>1, <3>2, Agregar DEF IInv, Tipos, TablerosDeAcuerdo
  <2>3. ASSUME Palabra
        PROVE  IInv'
    <3>1. palabra_actual' \in Seq(Casilleros) /\ Letras' = {} /\ SinRepetidos'
      BY <2>3 DEF Palabra, Letras, ToSet, SinRepetidos
    <3> QED BY <2>3, <3>1, LetrasDe DEF Palabra, IInv, Tipos, TablerosDeAcuerdo
  <2>4. ASSUME Cortar \/ \E c : LetraInvalida(c)
        PROVE  IInv'
    BY <2>4, Quitada DEF Cortar, LetraInvalida
  <2>5. ASSUME Conectar \/ Update \/ Responder \/ Morir \/ (\E c : LetraCae(c)) \/ UNCHANGED vars
        PROVE  IInv'
    BY <2>5, <2>1 DEF Conectar, Update, Responder, Morir, LetraCae, vars
  <2> QED BY <2>2, <2>3, <2>4, <2>5 DEF Next
<1> QED BY <1>1, <1>2, PTL DEF Spec

(* The boards agree: what is on the board of letters is confirmed or part  *)
(* of the word being written, and nothing is both, so that a letter        *)
(* withdrawn by quitar_letras was never confirmed.                         *)
THEOREM Acuerdo == Spec => []TablerosDeAcuerdo
BY Inductivo, PTL DEF IInv

(* No cell is twice in the word: quitar_letras and PALABRA meet it once.   *)
THEOREM Repetidos == Spec => []SinRepetidos
BY Inductivo, PTL DEF IInv

(* The farthest letter is one of the letters put. *)
LEMMA LaMasDistanteEsLetra ==
    ASSUME alto \in Nat, ancho \in Nat, Tipos, NEW c \in Casilleros, palabra_actual # <<>>
    PROVE  casillero_mas_distante_de(c) \in Letras
<1> DEFINE I == DOMAIN palabra_actual
           d(i) == Distancia(palabra_actual[i], c)
           falta(i) == alto + ancho - d(i)
<1>1. I \subseteq Nat /\ I # {}
  <2>1. /\ palabra_actual \in Seq(Casilleros) /\ Len(palabra_actual) \in Nat
        /\ DOMAIN palabra_actual = 1..Len(palabra_actual)
    BY DEF Tipos
  <2>2. Len(palabra_actual) # 0
    BY <2>1, EmptySeq
  <2> QED BY <2>1, <2>2
<1>2. \A i \in I : d(i) \in Int /\ falta(i) \in Nat
  <2>1. \A x \in Casilleros : Distancia(x, c) \in Int /\ alto + ancho - Distancia(x, c) \in Nat
    <3> TAKE x \in Casilleros
    <3>1. /\ x[1] \in 0..(alto - 1) /\ x[2] \in 0..(ancho - 1)
          /\ c[1] \in 0..(alto - 1) /\ c[2] \in 0..(ancho - 1)
      BY DEF Casilleros
    <3>2. \A p, q, r, s \in Int : Distancia(<<p, q>>, <<r, s>>) \in {p - r, r - p, q - s, s - q}
      BY DEF Distancia
    <3>3. x = <<x[1], x[2]>> /\ c = <<c[1], c[2]>>
      BY DEF Casilleros
    <3>4. Distancia(x, c) \in {x[1] - c[1], c[1] - x[1], x[2] - c[2], c[2] - x[2]}
      <4>1. x[1] \in Int /\ x[2] \in Int /\ c[1] \in Int /\ c[2] \in Int
        BY <3>1
      <4>2. Distancia(<<x[1], x[2]>>, <<c[1], c[2]>>)
              \in {x[1] - c[1], c[1] - x[1], x[2] - c[2], c[2] - x[2]}
        BY <3>2, <4>1
      <4> QED BY <3>3, <4>2
    <3>5. \A p, r \in 0..(alto - 1), q, s \in 0..(ancho - 1) :
              \A v \in {p - r, r - p, q - s, s - q} : v \in Int /\ alto + ancho - v \in Nat
      OBVIOUS
    <3> QED BY <3>1, <3>4, <3>5
  <2> QED BY <2>1 DEF Tipos
<1> HIDE DEF d
<1>3. PICK m \in {falta(i) : i \in I} : \A y \in {falta(i) : i \in I} : m <= y
  <2>1. {falta(i) : i \in I} \subseteq Nat /\ {falta(i) : i \in I} # {}
    BY <1>1, <1>2
  <2> QED BY <2>1, Minimo
<1>4. PICK i \in {j \in I : falta(j) = m} : \A j \in {j \in I : falta(j) = m} : i <= j
  <2>1. {j \in I : falta(j) = m} \subseteq Nat /\ {j \in I : falta(j) = m} # {}
    BY <1>1, <1>3
  <2> QED BY <2>1, Minimo
<1>5. \A j \in I : d(j) < d(i) \/ (d(j) = d(i) /\ i <= j)
  <2> TAKE j \in I
  <2>1. i \in I /\ d(i) \in Int /\ d(j) \in Int /\ falta(i) = m
    BY <1>2, <1>4
  <2>2. falta(i) <= falta(j)
    BY <1>3, <2>1
  <2>3. d(j) <= d(i) /\ (d(j) = d(i) => falta(j) = m)
    BY <2>1, <2>2
  <2>4. d(j) = d(i) => i <= j
    BY <1>4, <2>3
  <2> QED BY <2>1, <2>3, <2>4
<1>6. \E k \in I : \A j \in I : d(j) < d(k) \/ (d(j) = d(k) /\ k <= j)
  BY <1>4, <1>5
<1>7. \E k \in I : casillero_mas_distante_de(c) = palabra_actual[k]
  BY <1>6 DEF casillero_mas_distante_de, d
<1> QED BY <1>7, LetrasDe

(* distancia / abs(distancia) never divides by zero: the farthest letter   *)
(* is in a cell that the occupied check refuses.                           *)
THEOREM SinDivision ==
    ASSUME alto \in Nat, ancho \in Nat
    PROVE  Spec => []SinDivisionPorCero
<1>1. IInv => SinDivisionPorCero
  BY LaMasDistanteEsLetra DEF IInv, TablerosDeAcuerdo, SinDivisionPorCero, DividePorCero
<1> QED BY <1>1, Inductivo, PTL

=============================================================================
