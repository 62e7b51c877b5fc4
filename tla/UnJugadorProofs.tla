-------------------------- MODULE UnJugadorProofs --------------------------
(***************************************************************************)
(* With one player, the multi-threaded game server implements the server   *)
(* for one player, for boards of any size and any number of commands.      *)
(***************************************************************************)
EXTENDS MCUnJugador, BackendProofs

LEMMA ElJugador == jugador \in Players /\ \A p \in Players : p = jugador
BY UnJugadorAssumption DEF jugador

-----------------------------------------------------------------------------
(* Both servers line up a letter alike.                                    *)

LEMMA MismaDistancia ==
    ASSUME NEW c, NEW d
    PROVE  Mono!Distancia(c, d) = Distancia(c, d)
BY DEF Mono!Distancia, Distancia, Abs

(* Of the letters at the greatest distance both take the first one.        *)
LEMMA LaMisma ==
    ASSUME palabraMono \in Seq(Casilleros), palabraMono # <<>>, NEW c \in Casilleros
    PROVE  Mono!casillero_mas_distante_de(c) = casillero_mas_distante_de(c, palabraMono)
<1> DEFINE s == palabraMono
           I == DOMAIN s
           d(i) == Distancia(s[i], c)
           P(i) == \A j \in I : d(j) < d(i) \/ (d(j) = d(i) /\ i <= j)
           Q(i) == (\A j \in I : d(j) <= d(i)) /\ (\A j \in 1..(i - 1) : d(j) < d(i))
<1>1. /\ I \subseteq Nat
      /\ \A i \in I : s[i] \in Casilleros /\ d(i) \in Nat
      /\ \A i \in I : \A j \in 1..(i - 1) : j \in I
  <2>1. I = 1..Len(s) /\ Len(s) \in Nat /\ \A i \in I : s[i] \in Casilleros
    BY EsSecuencia
  <2> QED BY <2>1, DistanciaEs
<1>2. PICK k \in I : \A j \in I : d(j) <= d(k)
  BY LaMasDistante
<1>3. PICK i \in {j \in I : d(j) = d(k)} : \A j \in {j \in I : d(j) = d(k)} : i <= j
  <2>1. {j \in I : d(j) = d(k)} \subseteq Nat /\ {j \in I : d(j) = d(k)} # {}
    BY <1>1
  <2> QED BY <2>1, Minimo
<1>4. Mono!casillero_mas_distante_de(c) = s[CHOOSE h \in I : P(h)]
  BY MismaDistancia DEF Mono!casillero_mas_distante_de
<1>5. casillero_mas_distante_de(c, s) = s[CHOOSE h \in I : Q(h)]
  BY DEF casillero_mas_distante_de
<1> HIDE DEF d, I
<1>6. P(i) /\ \A h \in I : P(h) => h = i
  <2>1. i \in I /\ \A j \in I : d(j) <= d(i) /\ (d(j) = d(i) => i <= j)
    BY <1>2, <1>3
  <2>2. P(i)
    BY <1>1, <2>1
  <2>3. ASSUME NEW h \in I, P(h) PROVE h = i
    <3>1. /\ d(h) <= d(i) /\ (d(h) = d(i) => i <= h)
          /\ d(i) < d(h) \/ (d(i) = d(h) /\ h <= i)
          /\ d(h) \in Nat /\ d(i) \in Nat /\ h \in Nat /\ i \in Nat
      BY <1>1, <2>1, <2>3
    <3> QED BY <3>1
  <2> QED BY <2>2, <2>3
<1>7. Q(i) /\ \A h \in I : Q(h) => h = i
  <2>1. i \in I /\ \A j \in I : d(j) <= d(i) /\ (d(j) = d(i) => i <= j)
    BY <1>2, <1>3
  <2>2. ASSUME NEW j \in 1..(i - 1) PROVE d(j) < d(i)
    <3>1. j \in I /\ j \in Nat /\ i \in Nat
      BY <1>1, <2>1
    <3>2. d(j) <= d(i) /\ d(j) # d(i) /\ d(j) \in Nat /\ d(i) \in Nat
      BY <1>1, <2>1, <3>1
    <3> QED BY <3>2
  <2>3. ASSUME NEW h \in I, Q(h) PROVE h = i
    <3>1. d(h) = d(i) /\ i <= h /\ h \in Nat /\ i \in Nat /\ d(i) \in Nat
      <4>1. d(h) <= d(i) /\ d(i) <= d(h) /\ d(h) \in Nat /\ d(i) \in Nat
        BY <1>1, <2>1, <2>3
      <4>2. d(h) = d(i)
        BY <4>1
      <4> QED BY <1>1, <2>1, <4>1, <4>2
    <3>2. ~ (i < h)
      <4>1. i < h => i \in 1..(h - 1)
        <5>1. i # 0
          BY <2>1, EsSecuencia DEF I
        <5> QED BY <3>1, <5>1
      <4>2. i \in 1..(h - 1) => d(i) < d(h)
        BY <2>3
      <4> QED BY <3>1, <4>1, <4>2
    <3> QED BY <3>1, <3>2
  <2> QED BY <2>1, <2>2, <2>3
<1> HIDE DEF P, Q
<1>8. (CHOOSE h \in I : P(h)) = i /\ (CHOOSE h \in I : Q(h)) = i
  <2>1. i \in I
    BY <1>3
  <2>2. (CHOOSE h \in I : P(h)) \in I /\ P(CHOOSE h \in I : P(h))
    BY <1>6, <2>1
  <2>3. (CHOOSE h \in I : Q(h)) \in I /\ Q(CHOOSE h \in I : Q(h))
    BY <1>7, <2>1
  <2> QED BY <1>6, <1>7, <2>2, <2>3
<1> QED BY <1>4, <1>5, <1>8

(* The cells that are looked at, when f joins the word s. *)
PorMirar(s, f) == Mono!Tramo(casillero_mas_distante_de(f, s), f) \ {f}

(* The path has the cells between the letters, and no other. *)
LEMMA TramoDelCamino ==
    ASSUME NEW d \in Casilleros, NEW c \in Casilleros, d # c, d[1] = c[1] \/ d[2] = c[2]
    PROVE  /\ ToSet(Camino(d, c)) \subseteq Mono!Tramo(d, c) \ {c}
           /\ Mono!Tramo(d, c) \ {c} \subseteq ToSet(Camino(d, c)) \cup {d}
<1>1. Mono!Casilleros = Casilleros
  BY DEF Mono!Casilleros, Casilleros
<1>2. ToSet(Camino(d, c)) \subseteq Casilleros
  BY CaminoDe, EsSecuencia DEF ToSet
<1>3. ToSet(Camino(d, c)) \subseteq Mono!Tramo(d, c) \ {c}
  <2> SUFFICES ASSUME NEW x \in ToSet(Camino(d, c)) PROVE x \in Mono!Tramo(d, c) /\ x # c
    OBVIOUS
  <2>1. /\ x # c
        /\ \A i \in {1, 2} : \/ d[i] <= x[i] /\ x[i] <= c[i]
                             \/ c[i] <= x[i] /\ x[i] <= d[i]
    BY CaminoDe
  <2> QED BY <1>1, <1>2, <2>1 DEF Mono!Tramo, Mono!Entre
<1>4. ASSUME NEW x \in Mono!Tramo(d, c), x # c, x # d
      PROVE  x \in ToSet(Camino(d, c))
  <2>1. /\ x \in Casilleros
        /\ (d[1] <= x[1] /\ x[1] <= c[1]) \/ (c[1] <= x[1] /\ x[1] <= d[1])
        /\ (d[2] <= x[2] /\ x[2] <= c[2]) \/ (c[2] <= x[2] /\ x[2] <= d[2])
    BY <1>1 DEF Mono!Tramo, Mono!Entre
  <2>2. /\ x = <<x[1], x[2]>> /\ c = <<c[1], c[2]>> /\ d = <<d[1], d[2]>>
        /\ x[1] \in Int /\ x[2] \in Int /\ c[1] \in Int /\ c[2] \in Int
        /\ d[1] \in Int /\ d[2] \in Int
    BY <2>1, CoordenadasDe
  <2>3. CASE d[1] = c[1]
    <3>1. x[1] = c[1]
      BY <2>1, <2>2, <2>3
    <3>2. x[2] # c[2] /\ x[2] # d[2]
      BY <1>4, <2>2, <2>3, <3>1
    <3>3. \/ d[2] < x[2] /\ x[2] < c[2]
          \/ c[2] < x[2] /\ x[2] < d[2]
      BY <2>1, <2>2, <3>2
    <3>4. 3 - 1 = 2
      OBVIOUS
    <3> QED BY <2>1, <2>3, <3>1, <3>3, <3>4, CaminoDe
  <2>4. CASE d[2] = c[2]
    <3>1. x[2] = c[2]
      BY <2>1, <2>2, <2>4
    <3>2. x[1] # c[1] /\ x[1] # d[1]
      BY <1>4, <2>2, <2>4, <3>1
    <3>3. \/ d[1] < x[1] /\ x[1] < c[1]
          \/ c[1] < x[1] /\ x[1] < d[1]
      BY <2>1, <2>2, <3>2
    <3>4. 3 - 2 = 1
      OBVIOUS
    <3> QED BY <2>1, <2>4, <3>1, <3>3, <3>4, CaminoDe
  <2> QED BY <2>3, <2>4
<1> QED BY <1>3, <1>4

(* Both accept the same letters of those on the board. *)
LEMMA MismasFichas ==
    ASSUME palabraMono \in Seq(Casilleros), palabraMono # <<>>, NEW c \in Casilleros
    PROVE  /\ Mono!EnLinea(c) <=> /\ Alineada(c, palabraMono)
                                  /\ PorMirar(palabraMono, c) \subseteq Mono!Llenos
           /\ Mono!DividePorCero(c) <=> /\ c \notin letrasMono
                                        /\ casillero_mas_distante_de(c, palabraMono) = c
<1>1. Mono!casillero_mas_distante_de(c) = casillero_mas_distante_de(c, palabraMono)
  BY LaMisma
<1>2. Mono!Letras = ToSet(palabraMono) /\ Mono!Casilleros = Casilleros
  BY DEF Mono!Letras, Mono!ToSet, ToSet, Mono!Casilleros, Casilleros
<1>3. \A e \in {1, 2} : (\A d \in ToSet(palabraMono) : d[e] = c[e])
                        <=> \A i \in DOMAIN palabraMono : palabraMono[i][e] = c[e]
  BY DEF ToSet
<1>4. Mono!EnLinea(c) <=> /\ Alineada(c, palabraMono)
                          /\ PorMirar(palabraMono, c) \subseteq Mono!Llenos
  BY <1>1, <1>2, <1>3 DEF Mono!EnLinea, Alineada, PorMirar
<1>5. Mono!DividePorCero(c) <=> /\ c \notin letrasMono
                                /\ casillero_mas_distante_de(c, palabraMono) = c
  BY <1>1, <1>2 DEF Mono!DividePorCero
<1> QED BY <1>4, <1>5

(* A letter on top of the farthest one is in line with all of them. *)
LEMMA EncimaEsAlineada ==
    ASSUME NEW s \in Seq(Casilleros), s # <<>>, NEW c \in Casilleros,
           casillero_mas_distante_de(c, s) = c
    PROVE  Alineada(c, s)
<1>1. \A j \in DOMAIN s : s[j] \in Casilleros /\ Distancia(s[j], c) <= Distancia(c, c)
  BY LaMasDistante, EsSecuencia
<1>2. Distancia(c, c) = 0
  <2>1. Distancia(c, c) = Abs(c[2] - c[2]) /\ c[2] \in Int
    BY DistanciaEs, CoordenadasDe
  <2> QED BY <2>1 DEF Abs
<1>3. \A j \in DOMAIN s : s[j] = c
  <2> TAKE j \in DOMAIN s
  <2>1. Distancia(s[j], c) \in Nat /\ Distancia(s[j], c) <= 0
    BY <1>1, <1>2, DistanciaEs
  <2>2. Distancia(s[j], c) = 0
    BY <2>1
  <2> QED BY <1>1, <2>2, DistanciaEs
<1> QED BY <1>3 DEF Alineada

-----------------------------------------------------------------------------
(* What the player's thread knows.                                         *)

(* f can join the word s, if the cells filled are those. *)
Cabe(s, f, llenos) ==
    s # <<>> => /\ Alineada(f, s) /\ casillero_mas_distante_de(f, s) # f
                /\ PorMirar(s, f) \subseteq llenos

(* A thread at w, with the word s, the cells T left in its loop and the    *)
(* letter f, when the boards have letters in L and C: what it cleared is   *)
(* clear, what it wrote is written, and f fits in but for T.               *)
HechoDe(w, s, T, f, L, C) ==
    /\ w = "q_borra" => ToSet(s) \cap L \subseteq T
    /\ w = "q_unlock" => ToSet(s) \cap L = {}
    /\ w = "p_escribe" => ToSet(s) \subseteq C \cup T
    /\ w = "p_unlock" => ToSet(s) \subseteq C
    /\ w = "mira_palabras" => /\ f \notin L /\ s # <<>> /\ T \subseteq PorMirar(s, f)
                              /\ Cabe(s, f, ToSet(s) \cup C \cup T)
    /\ w = "escribe_letra" => f \notin L /\ Cabe(s, f, ToSet(s) \cup C)

Hecho == HechoDe(pc[jugador], palabra_actual[jugador], ToSet(todo[jugador]), ficha[jugador],
                 Letras("letras"), Letras("palabras"))

LEMMA HechoFuera ==
    ASSUME NEW w, w \notin {"q_borra", "q_unlock", "p_escribe", "p_unlock", "mira_palabras",
                            "escribe_letra"},
           NEW s, NEW T, NEW f, NEW L, NEW C
    PROVE  HechoDe(w, s, T, f, L, C)
BY DEF HechoDe

(* What the server for one player sees of a thread at w, which returns to  *)
(* l, with the word s and those letters on the boards.                     *)
VistaDe(w, l, s, L, C, letras, palabras, palabra, donde) ==
    /\ letras = L \ (IF w \in Quitando THEN ToSet(s) ELSE {})
    /\ palabras = C \cup (IF w \in Confirmando THEN ToSet(s) ELSE {})
    /\ palabra = (IF w \in Quitando \cup Confirmando THEN <<>> ELSE s)
    /\ w \in Quitando => donde = l
    /\ w \in Confirmando => donde = "ok"
    /\ w = "u_envia" => donde = "status"
    /\ w \in {"fuera", "ok", "error", "fin"} => donde = w
    /\ w \in {"recibir", "mira_letras", "mira_palabras", "escribe_letra", "u_lock", "u_unlock"}
         => donde = "recibir"

LEMMA Vista ==
    ~ caido => VistaDe(pc[jugador], luego[jugador], palabra_actual[jugador],
                       Letras("letras"), Letras("palabras"),
                       letrasMono, palabrasMono, palabraMono, pcMono)
BY DEF VistaDe, letrasMono, palabrasMono, palabraMono, pcMono, En, SusLetras, Quitando, Confirmando

LEMMA VistaLuego ==
    ~ caido' => VistaDe(pc'[jugador], luego'[jugador], palabra_actual'[jugador],
                        Letras("letras")', Letras("palabras")',
                        letrasMono', palabrasMono', palabraMono', pcMono')
BY DEF VistaDe, letrasMono, palabrasMono, palabraMono, pcMono, En, SusLetras, Quitando, Confirmando

LEMMA DelJugador ==
    ASSUME Tipos
    PROVE  /\ pc[jugador] \in PCs /\ luego[jugador] \in {"error", "fin"}
           /\ palabra_actual[jugador] \in Seq(Casilleros) /\ todo[jugador] \in Seq(Casilleros)
           /\ ficha[jugador] \in Casilleros
           /\ Letras("letras") \subseteq Casilleros /\ Letras("palabras") \subseteq Casilleros
BY ElJugador DEF Tipos, Letras

(* The same, seen by the server for one player. *)
Mudo == UNCHANGED Mono!vars

LEMMA MudoDe ==
    ASSUME letrasMono' = letrasMono, palabrasMono' = palabrasMono, palabraMono' = palabraMono,
           pcMono' = pcMono
    PROVE  Mudo
BY DEF Mudo, Mono!vars

-----------------------------------------------------------------------------
(* The steps that the server for one player does not see.                  *)

(* A thread that goes on in the same loop, or to a place that looks the    *)
(* same, with the same word and the same letters on the boards.            *)
LEMMA PasoMudo ==
    ASSUME ~ caido, caido' = caido,
           palabra_actual'[jugador] = palabra_actual[jugador],
           Letras("letras")' = Letras("letras"), Letras("palabras")' = Letras("palabras"),
           \/ pc[jugador] \in Quitando /\ pc'[jugador] \in Quitando /\ luego'[jugador] = luego[jugador]
           \/ pc[jugador] \in Confirmando /\ pc'[jugador] \in Confirmando
           \/ /\ pc[jugador] \in {"recibir", "mira_letras", "mira_palabras", "escribe_letra",
                                  "u_lock", "u_unlock"}
              /\ pc'[jugador] \in {"recibir", "mira_letras", "mira_palabras", "escribe_letra",
                                   "u_lock", "u_unlock"}
    PROVE  Mudo
<1>1. /\ VistaDe(pc[jugador], luego[jugador], palabra_actual[jugador],
                 Letras("letras"), Letras("palabras"),
                 letrasMono, palabrasMono, palabraMono, pcMono)
      /\ VistaDe(pc'[jugador], luego'[jugador], palabra_actual'[jugador],
                 Letras("letras")', Letras("palabras")',
                 letrasMono', palabrasMono', palabraMono', pcMono')
  BY Vista, VistaLuego
<1> QED BY <1>1, MudoDe DEF VistaDe, Quitando, Confirmando

LEMMA LetrasIguales ==
    ASSUME tablero' = tablero
    PROVE  Letras("letras")' = Letras("letras") /\ Letras("palabras")' = Letras("palabras")
BY DEF Letras

LEMMA MudoTodoIgual ==
    ASSUME UNCHANGED <<tablero, palabra_actual, pc, ficha, todo, luego, caido>>, Hecho
    PROVE  Hecho' /\ Mudo
<1>1. Letras("letras")' = Letras("letras") /\ Letras("palabras")' = Letras("palabras")
  BY LetrasIguales
<1>2. Hecho'
  BY <1>1 DEF Hecho
<1>3. Mudo
  BY DEF Mudo, Mono!vars, letrasMono, palabrasMono, palabraMono, pcMono, En, SusLetras, Letras
<1> QED BY <1>2, <1>3

LEMMA SigueDelJugador ==
    ASSUME Tipos, NEW w \in PCs, NEW s \in Seq(Casilleros), Sigue(jugador, w, s)
    PROVE  /\ Len(todo[jugador]) > 1 =>
                 pc'[jugador] = pc[jugador] /\ todo'[jugador] = Tail(todo[jugador])
           /\ ~ (Len(todo[jugador]) > 1) => pc'[jugador] = w /\ todo'[jugador] = s
BY ElJugador DEF Sigue, Goto, Tipos

LEMMA LoopDelJugador ==
    ASSUME IInv, pc[jugador] \in Quitando \cup Confirmando
    PROVE  /\ EsCola(todo[jugador], palabra_actual[jugador])
           /\ Head(todo[jugador]) \in ToSet(palabra_actual[jugador])
           /\ Head(todo[jugador]) \in Casilleros
           /\ Len(todo[jugador]) > 1 =>
                ToSet(todo[jugador]) = ToSet(Tail(todo[jugador])) \cup {Head(todo[jugador])}
           /\ ~ (Len(todo[jugador]) > 1) => ToSet(todo[jugador]) = {Head(todo[jugador])}
<1> DEFINE t == todo[jugador]
           s == palabra_actual[jugador]
<1>1. t \in Seq(Casilleros) /\ s \in Seq(Casilleros)
  BY DelJugador DEF IInv
<1>2. EsCola(t, s)
  BY ElJugador DEF IInv, Sabe, SabeDe, Bucle, Quitando, Confirmando
<1> QED BY <1>1, <1>2, ColaAvanza, EsSecuencia

LEMMA MudoLocks ==
    ASSUME IInv, ~ caido, Hecho,
           \/ QuitarLock(jugador) \/ PalabraLock(jugador)
    PROVE  Hecho' /\ Mudo
<1> DEFINE s == palabra_actual[jugador]
<1>1. s \in Seq(Casilleros) /\ UNCHANGED <<tablero, palabra_actual, luego, caido>>
  BY DelJugador DEF IInv, QuitarLock, PalabraLock
<1>2. Letras("letras")' = Letras("letras") /\ Letras("palabras")' = Letras("palabras")
  BY <1>1, LetrasIguales
<1>3. CASE QuitarLock(jugador)
  <2>1. pc[jugador] = "q_lock" /\ Sigue(jugador, "q_borra", s)
    BY <1>3 DEF QuitarLock
  <2>2. \/ pc'[jugador] = "q_lock"
        \/ pc'[jugador] = "q_borra" /\ todo'[jugador] = s
    BY <1>1, <2>1, SigueDelJugador DEF IInv, PCs
  <2>3. Hecho'
    BY <1>1, <2>2 DEF Hecho, HechoDe
  <2> QED BY <1>1, <1>2, <2>1, <2>2, <2>3, PasoMudo DEF Quitando
<1>4. CASE PalabraLock(jugador)
  <2>1. pc[jugador] = "p_lock" /\ Sigue(jugador, "p_escribe", s)
    BY <1>4 DEF PalabraLock
  <2>2. \/ pc'[jugador] = "p_lock"
        \/ pc'[jugador] = "p_escribe" /\ todo'[jugador] = s
    BY <1>1, <2>1, SigueDelJugador DEF IInv, PCs
  <2>3. Hecho'
    BY <1>1, <2>2 DEF Hecho, HechoDe
  <2> QED BY <1>1, <1>2, <2>1, <2>2, <2>3, PasoMudo DEF Confirmando
<1> QED BY <1>3, <1>4

(* A letter is cleared. *)
LEMMA MudoBorra ==
    ASSUME IInv, ~ caido, Hecho, QuitarBorra(jugador)
    PROVE  Hecho' /\ Mudo
<1> DEFINE s == palabra_actual[jugador]
           t == todo[jugador]
           x == Head(t)
           L == Letras("letras")
<1>1. /\ pc[jugador] = "q_borra" /\ Sigue(jugador, "q_unlock", s)
      /\ tablero' = [tablero EXCEPT !["letras"][x] = VACIO]
      /\ UNCHANGED <<palabra_actual, ficha, luego, caido>>
  BY DEF QuitarBorra
<1>2. s \in Seq(Casilleros)
  BY DelJugador DEF IInv
<1>3. /\ x \in ToSet(s) /\ x \in Casilleros
      /\ Len(t) > 1 => ToSet(t) = ToSet(Tail(t)) \cup {x}
      /\ ~ (Len(t) > 1) => ToSet(t) = {x}
  BY <1>1, LoopDelJugador DEF Quitando
<1>4. L' = L \ {x} /\ Letras("palabras")' = Letras("palabras")
  BY <1>1, <1>3 DEF Letras, IInv, Tipos, Tableros
<1>5. \/ Len(t) > 1 /\ pc'[jugador] = "q_borra" /\ todo'[jugador] = Tail(t)
      \/ ~ (Len(t) > 1) /\ pc'[jugador] = "q_unlock"
  BY <1>1, <1>2, SigueDelJugador DEF IInv, PCs
<1>6. ToSet(s) \cap L \subseteq ToSet(t)
  BY <1>1 DEF Hecho, HechoDe
<1> HIDE DEF L, t, x, s
<1>7. /\ pc'[jugador] = "q_borra" => ToSet(s) \cap L' \subseteq ToSet(todo'[jugador])
      /\ pc'[jugador] = "q_unlock" => ToSet(s) \cap L' = {}
  BY <1>3, <1>4, <1>5, <1>6
<1>8. Hecho'
  BY <1>1, <1>5, <1>7 DEF Hecho, HechoDe, L, s
<1>9. Mudo
  <2>1. /\ VistaDe(pc[jugador], luego[jugador], s, L, Letras("palabras"),
                   letrasMono, palabrasMono, palabraMono, pcMono)
        /\ VistaDe(pc'[jugador], luego[jugador], s, L', Letras("palabras"),
                   letrasMono', palabrasMono', palabraMono', pcMono')
    BY <1>1, <1>4, Vista, VistaLuego DEF L, s
  <2>2. L \ ToSet(s) = L' \ ToSet(s)
    BY <1>3, <1>4
  <2> QED BY <1>1, <1>5, <2>1, <2>2, MudoDe DEF VistaDe, Quitando, Confirmando
<1> QED BY <1>8, <1>9

(* A letter is written on the board of words. *)
LEMMA MudoEscribe ==
    ASSUME IInv, ~ caido, Hecho, PalabraEscribe(jugador)
    PROVE  Hecho' /\ Mudo
<1> DEFINE s == palabra_actual[jugador]
           t == todo[jugador]
           x == Head(t)
           C == Letras("palabras")
<1>1. /\ pc[jugador] = "p_escribe" /\ Sigue(jugador, "p_unlock", s)
      /\ tablero' = [tablero EXCEPT !["palabras"][x] = jugador]
      /\ UNCHANGED <<palabra_actual, ficha, luego, caido>>
  BY DEF PalabraEscribe
<1>2. s \in Seq(Casilleros)
  BY DelJugador DEF IInv
<1>3. /\ x \in ToSet(s) /\ x \in Casilleros
      /\ Len(t) > 1 => ToSet(t) = ToSet(Tail(t)) \cup {x}
      /\ ~ (Len(t) > 1) => ToSet(t) = {x}
  BY <1>1, LoopDelJugador DEF Confirmando
<1>4. C' = C \cup {x} /\ Letras("letras")' = Letras("letras")
  <2>1. jugador # VACIO
    BY ElJugador, PlayersAssumption
  <2> QED BY <1>1, <1>3, <2>1 DEF Letras, IInv, Tipos, Tableros
<1>5. \/ Len(t) > 1 /\ pc'[jugador] = "p_escribe" /\ todo'[jugador] = Tail(t)
      \/ ~ (Len(t) > 1) /\ pc'[jugador] = "p_unlock"
  BY <1>1, <1>2, SigueDelJugador DEF IInv, PCs
<1>6. ToSet(s) \subseteq C \cup ToSet(t)
  BY <1>1 DEF Hecho, HechoDe
<1> HIDE DEF C, t, x, s
<1>7. /\ pc'[jugador] = "p_escribe" => ToSet(s) \subseteq C' \cup ToSet(todo'[jugador])
      /\ pc'[jugador] = "p_unlock" => ToSet(s) \subseteq C'
  BY <1>3, <1>4, <1>5, <1>6
<1>8. Hecho'
  BY <1>1, <1>5, <1>7 DEF Hecho, HechoDe, C, s
<1>9. Mudo
  <2>1. /\ VistaDe(pc[jugador], luego[jugador], s, Letras("letras"), C,
                   letrasMono, palabrasMono, palabraMono, pcMono)
        /\ VistaDe(pc'[jugador], luego[jugador], s, Letras("letras"), C',
                   letrasMono', palabrasMono', palabraMono', pcMono')
    BY <1>1, <1>4, Vista, VistaLuego DEF C, s
  <2>2. C \cup ToSet(s) = C' \cup ToSet(s)
    BY <1>3, <1>4
  <2> QED BY <1>1, <1>5, <2>1, <2>2, MudoDe DEF VistaDe, Quitando, Confirmando
<1> QED BY <1>8, <1>9

(* A lock is released: the last one, with nothing left on the board. *)
LEMMA MudoUnlock ==
    ASSUME IInv, ~ caido, Hecho, QuitarUnlock(jugador) \/ PalabraUnlock(jugador)
    PROVE  Hecho' /\ Mudo
<1> DEFINE s == palabra_actual[jugador]
           t == todo[jugador]
           L == Letras("letras")
           C == Letras("palabras")
<1>1. s \in Seq(Casilleros) /\ tablero' = tablero /\ caido' = caido /\ luego[jugador] \in {"error", "fin"}
      /\ <<>> \in Seq(Casilleros)
  BY DelJugador DEF IInv, QuitarUnlock, PalabraUnlock
<1>2. L' = L /\ C' = C
  BY <1>1, LetrasIguales
<1>3. /\ VistaDe(pc[jugador], luego[jugador], s, L, C,
                 letrasMono, palabrasMono, palabraMono, pcMono)
      /\ VistaDe(pc'[jugador], luego'[jugador], palabra_actual'[jugador], L, C,
                 letrasMono', palabrasMono', palabraMono', pcMono')
  BY <1>1, <1>2, Vista, VistaLuego
<1>4. CASE QuitarUnlock(jugador)
  <2>1. /\ pc[jugador] = "q_unlock" /\ Sigue(jugador, luego[jugador], <<>>)
        /\ palabra_actual'[jugador] = IF Len(t) > 1 THEN s ELSE <<>>
        /\ luego'[jugador] = IF Len(t) > 1 THEN luego[jugador] ELSE "fin"
    BY <1>4, ElJugador DEF QuitarUnlock, IInv, Tipos
  <2>2. \/ Len(t) > 1 /\ pc'[jugador] = "q_unlock"
        \/ ~ (Len(t) > 1) /\ pc'[jugador] = luego[jugador]
    BY <1>1, <2>1, SigueDelJugador DEF IInv, PCs
  <2>3. ToSet(s) \cap L = {}
    BY <2>1 DEF Hecho, HechoDe
  <2>4. Hecho'
    BY <1>1, <1>2, <2>1, <2>2, <2>3 DEF Hecho, HechoDe
  <2>5. L \ ToSet(s) = L
    BY <2>3
  <2> HIDE DEF L, C, s, t
  <2>6. CASE Len(t) > 1
    BY <1>3, <2>1, <2>2, <2>4, <2>6, MudoDe DEF VistaDe, Quitando, Confirmando
  <2>7. CASE ~ (Len(t) > 1)
    BY <1>1, <1>3, <2>1, <2>2, <2>4, <2>5, <2>7, MudoDe DEF VistaDe, Quitando, Confirmando
  <2> QED BY <2>6, <2>7
<1>5. CASE PalabraUnlock(jugador)
  <2>1. /\ pc[jugador] = "p_unlock" /\ Sigue(jugador, "ok", <<>>)
        /\ palabra_actual'[jugador] = IF Len(t) > 1 THEN s ELSE <<>>
        /\ luego'[jugador] = luego[jugador]
    BY <1>5, ElJugador DEF PalabraUnlock, IInv, Tipos
  <2>2. \/ Len(t) > 1 /\ pc'[jugador] = "p_unlock"
        \/ ~ (Len(t) > 1) /\ pc'[jugador] = "ok"
    BY <1>1, <2>1, SigueDelJugador DEF IInv, PCs
  <2>3. ToSet(s) \subseteq C
    BY <2>1 DEF Hecho, HechoDe
  <2>4. Hecho'
    BY <1>1, <1>2, <2>1, <2>2, <2>3 DEF Hecho, HechoDe
  <2>5. C \cup ToSet(s) = C
    BY <2>3
  <2> HIDE DEF L, C, s, t
  <2>6. CASE Len(t) > 1
    BY <1>3, <2>1, <2>2, <2>4, <2>6, MudoDe DEF VistaDe, Quitando, Confirmando
  <2>7. CASE ~ (Len(t) > 1)
    BY <1>1, <1>3, <2>1, <2>2, <2>4, <2>5, <2>7, MudoDe DEF VistaDe, Quitando, Confirmando
  <2> QED BY <2>6, <2>7
<1> QED BY <1>4, <1>5

LEMMA HechoLuego ==
    ASSUME pc'[jugador] \notin {"q_borra", "q_unlock", "p_escribe", "p_unlock", "mira_palabras",
                                "escribe_letra"}
    PROVE  Hecho'
BY HechoFuera DEF Hecho

LEMMA MudoEspera ==
    ASSUME Hecho, Esperar(jugador)
    PROVE  Hecho' /\ Mudo
BY MudoTodoIgual DEF Esperar

(* A letter in the board is only looked at later, and the board is locked  *)
(* cell by cell before it is sent.                                         *)
LEMMA MudoRecibe ==
    ASSUME IInv, ~ caido, RecibirUpdate(jugador) \/ \E c \in Casilleros : RecibirLetra(jugador, c)
    PROVE  Hecho' /\ Mudo
<1>1. /\ pc[jugador] = "recibir" /\ pc'[jugador] \in {"u_lock", "mira_letras"}
      /\ tablero' = tablero /\ caido' = caido /\ palabra_actual'[jugador] = palabra_actual[jugador]
  BY ElJugador DEF RecibirUpdate, RecibirLetra, Comando, Goto, IInv, Tipos
<1>2. Hecho'
  BY <1>1, HechoLuego
<1>3. Letras("letras")' = Letras("letras") /\ Letras("palabras")' = Letras("palabras")
  BY <1>1, LetrasIguales
<1> QED BY <1>1, <1>2, <1>3, PasoMudo

(* Only the last lock of an UPDATE is seen. *)
LEMMA VistoUpdate ==
    ASSUME IInv, ~ caido, UpdateLock(jugador) \/ UpdateUnlock(jugador)
    PROVE  Hecho' /\ (Mudo \/ Mono!Update)
<1>1. UNCHANGED <<tablero, palabra_actual, luego, caido>> /\ <<>> \in Seq(Casilleros)
  BY DEF UpdateLock, UpdateUnlock
<1>2. Letras("letras")' = Letras("letras") /\ Letras("palabras")' = Letras("palabras")
  BY <1>1, LetrasIguales
<1>3. CASE UpdateUnlock(jugador)
  <2>1. pc[jugador] = "u_unlock" /\ pc'[jugador] \in {"u_unlock", "recibir"}
    BY <1>1, <1>3, SigueDelJugador DEF UpdateUnlock, IInv, PCs
  <2> QED BY <1>1, <1>2, <2>1, HechoLuego, PasoMudo
<1>4. CASE UpdateLock(jugador)
  <2>1. pc[jugador] = "u_lock" /\ pc'[jugador] \in {"u_lock", "u_envia"}
    BY <1>1, <1>4, TodoEsTodo, SigueDelJugador DEF UpdateLock, IInv, PCs
  <2>2. Hecho'
    BY <2>1, HechoLuego
  <2>3. CASE pc'[jugador] = "u_lock"
    BY <1>1, <1>2, <2>1, <2>2, <2>3, PasoMudo
  <2>4. CASE pc'[jugador] = "u_envia"
    <3>1. /\ VistaDe(pc[jugador], luego[jugador], palabra_actual[jugador],
                     Letras("letras"), Letras("palabras"),
                     letrasMono, palabrasMono, palabraMono, pcMono)
          /\ VistaDe(pc'[jugador], luego'[jugador], palabra_actual'[jugador],
                     Letras("letras"), Letras("palabras"),
                     letrasMono', palabrasMono', palabraMono', pcMono')
      BY <1>1, <1>2, Vista, VistaLuego
    <3>2. /\ pcMono = "recibir" /\ pcMono' = "status"
          /\ letrasMono' = letrasMono /\ palabrasMono' = palabrasMono /\ palabraMono' = palabraMono
      BY <1>1, <2>1, <2>4, <3>1 DEF VistaDe, Quitando, Confirmando
    <3> QED BY <2>2, <3>2 DEF Mono!Update
  <2> QED BY <2>1, <2>3, <2>4
<1> QED BY <1>3, <1>4

-----------------------------------------------------------------------------
(* The steps that it sees: the connection and its end.                     *)

LEMMA MismoConjunto ==
    ASSUME NEW s \in Seq(Casilleros)
    PROVE  /\ ToSet(Ordenada(s)) = ToSet(s) /\ Ordenada(s) \in Seq(Casilleros)
           /\ s = <<>> => Ordenada(s) = <<>>
<1> DEFINE r == Ordenada(s)
<1>1. /\ r \in Seq(Casilleros) /\ Len(r) = Len(s)
      /\ \A k \in DOMAIN s : \E i \in DOMAIN s : r[k] = s[i]
      /\ \A i \in DOMAIN s : \E k \in DOMAIN s : r[k] = s[i]
  BY OrdenadaOrdena
<1>2. DOMAIN r = DOMAIN s /\ (s = <<>> <=> r = <<>>)
  BY <1>1, EsSecuencia
<1> HIDE DEF r
<1>3. ToSet(r) = ToSet(s)
  BY <1>1, <1>2 DEF ToSet
<1> QED BY <1>1, <1>2, <1>3 DEF r

(* Where the server for one player sees the same, what it sees. *)
LEMMA VistaFuera ==
    ASSUME NEW w, w \notin Quitando \cup Confirmando, NEW l, NEW s, NEW L, NEW C,
           NEW letras, NEW palabras, NEW palabra, NEW donde,
           VistaDe(w, l, s, L, C, letras, palabras, palabra, donde)
    PROVE  letras = L /\ palabras = C /\ palabra = s
BY DEF VistaDe

(* quitar_letras starts. *)
LEMMA EmpiezaQuitar ==
    ASSUME IInv, ~ caido, UNCHANGED <<tablero, caido>>, pc[jugador] \notin Quitando \cup Confirmando,
           NEW despues \in {"error", "fin"}, Quitar(jugador, despues)
    PROVE  Hecho' /\ Mono!quitar_letras /\ pcMono' = despues
<1> DEFINE s == palabra_actual[jugador]
           L == Letras("letras")
           C == Letras("palabras")
<1>1. /\ palabra_actual'[jugador] = Ordenada(s)
      /\ luego'[jugador] = IF s = <<>> THEN "fin" ELSE despues
      /\ pc'[jugador] = IF s = <<>> THEN despues ELSE "q_lock"
  BY ElJugador DEF Quitar, Goto, IInv, Tipos
<1>2. s \in Seq(Casilleros) /\ ToSet(Ordenada(s)) = ToSet(s) /\ (s = <<>> => Ordenada(s) = <<>>)
  BY DelJugador, MismoConjunto DEF IInv
<1>3. Hecho'
  BY <1>1, HechoLuego
<1>4. /\ VistaDe(pc[jugador], luego[jugador], s, L, C,
                 letrasMono, palabrasMono, palabraMono, pcMono)
      /\ VistaDe(pc'[jugador], luego'[jugador], palabra_actual'[jugador], L, C,
                 letrasMono', palabrasMono', palabraMono', pcMono')
  BY LetrasIguales, Vista, VistaLuego
<1>5. letrasMono = L /\ palabrasMono = C /\ palabraMono = s
  BY <1>4, VistaFuera
<1>6. ToSet(<<>>) = {}
  BY DEF ToSet
<1> HIDE DEF s, L, C
<1>7. letrasMono' = L \ ToSet(s) /\ palabrasMono' = C /\ palabraMono' = <<>> /\ pcMono' = despues
  <2>1. CASE s = <<>>
    <3>1. L \ ToSet(s) = L
      BY <2>1, <1>6
    <3> QED BY <1>1, <1>2, <1>4, <2>1, <3>1 DEF VistaDe, Quitando, Confirmando
  <2>2. CASE s # <<>>
    BY <1>1, <1>2, <1>4, <2>2 DEF VistaDe, Quitando, Confirmando
  <2> QED BY <2>1, <2>2
<1>8. Mono!Letras = ToSet(s)
  BY <1>5 DEF Mono!Letras, Mono!ToSet, ToSet
<1> QED BY <1>3, <1>5, <1>7, <1>8 DEF Mono!quitar_letras

(* A thread that goes on elsewhere with the same word and boards. *)
LEMMA OtroLugar ==
    ASSUME ~ caido, UNCHANGED <<tablero, palabra_actual, caido>>,
           pc[jugador] \in {"fuera", "recibir", "ok", "error", "fin", "u_envia"},
           pc'[jugador] \in {"fuera", "recibir", "ok", "error", "fin", "u_unlock"}
    PROVE  /\ Hecho'
           /\ UNCHANGED <<letrasMono, palabrasMono, palabraMono>>
           /\ pcMono = IF pc[jugador] = "u_envia" THEN "status" ELSE pc[jugador]
           /\ pcMono' = IF pc'[jugador] = "u_unlock" THEN "recibir" ELSE pc'[jugador]
<1>1. /\ VistaDe(pc[jugador], luego[jugador], palabra_actual[jugador],
                 Letras("letras"), Letras("palabras"),
                 letrasMono, palabrasMono, palabraMono, pcMono)
      /\ VistaDe(pc'[jugador], luego'[jugador], palabra_actual[jugador],
                 Letras("letras"), Letras("palabras"),
                 letrasMono', palabrasMono', palabraMono', pcMono')
  BY LetrasIguales, Vista, VistaLuego
<1>2. Hecho'
  BY HechoLuego
<1> QED BY <1>1, <1>2 DEF VistaDe, Quitando, Confirmando

LEMMA VistoConectar ==
    ASSUME IInv, ~ caido, Conectar(jugador)
    PROVE  Hecho' /\ Mono!Conectar
<1>1. /\ pc[jugador] = "fuera" /\ pc'[jugador] \in {"recibir", "fin"}
      /\ UNCHANGED <<tablero, palabra_actual, caido>>
  BY ElJugador DEF Conectar, Goto, IInv, Tipos
<1>2. /\ Hecho' /\ UNCHANGED <<letrasMono, palabrasMono, palabraMono>>
      /\ pcMono = "fuera" /\ pcMono' \in {"recibir", "fin"}
  BY <1>1, OtroLugar
<1> QED BY <1>2 DEF Mono!Conectar

LEMMA VistoCortar ==
    ASSUME IInv, ~ caido, Cortar(jugador)
    PROVE  Hecho' /\ Mono!Cortar
<1>1. pc[jugador] = "recibir" /\ Quitar(jugador, "fin") /\ UNCHANGED <<tablero, caido>>
  BY DEF Cortar
<1>2. Hecho' /\ Mono!quitar_letras /\ pcMono' = "fin"
  BY <1>1, EmpiezaQuitar DEF Quitando, Confirmando
<1>3. pcMono = "recibir"
  BY <1>1, Vista DEF VistaDe
<1> QED BY <1>2, <1>3 DEF Mono!Cortar

LEMMA VistoResponder ==
    ASSUME IInv, ~ caido, Responder(jugador) \/ UpdateEnvia(jugador)
    PROVE  Hecho' /\ (Mono!Responder \/ Mono!Cortar)
<1>1. /\ pc[jugador] \in {"ok", "error", "u_envia"} /\ UNCHANGED <<tablero, caido>>
      /\ \/ pc'[jugador] \in {"recibir", "u_unlock"} /\ UNCHANGED palabra_actual
         \/ Quitar(jugador, "fin")
  BY ElJugador DEF Responder, UpdateEnvia, Goto, IInv, Tipos
<1>2. pcMono \in {"ok", "error", "status"}
  BY <1>1, Vista DEF VistaDe
<1>3. CASE Quitar(jugador, "fin")
  <2>1. Hecho' /\ Mono!quitar_letras /\ pcMono' = "fin"
    BY <1>1, <1>3, EmpiezaQuitar DEF Quitando, Confirmando
  <2> QED BY <1>2, <2>1 DEF Mono!Cortar
<1>4. CASE pc'[jugador] \in {"recibir", "u_unlock"} /\ UNCHANGED palabra_actual
  <2>1. Hecho' /\ UNCHANGED <<letrasMono, palabrasMono, palabraMono>> /\ pcMono' = "recibir"
    BY <1>1, <1>4, OtroLugar
  <2> QED BY <1>2, <2>1 DEF Mono!Responder
<1> QED BY <1>1, <1>3, <1>4

(* The process dies: what was on the boards is of no account. *)
LEMMA VistoMorir ==
    ASSUME IInv, ~ caido, Morir(jugador)
    PROVE  Hecho' /\ Mono!Morir
<1>1. /\ pc[jugador] \in {"fuera", "ok", "error", "u_envia"} /\ caido'
      /\ UNCHANGED <<tablero, pc, palabra_actual, luego>>
  BY DEF Morir
<1>2. Hecho'
  BY <1>1, HechoLuego
<1>3. pcMono \in {"fuera", "ok", "error", "status"}
  BY <1>1, Vista DEF VistaDe
<1>4. UNCHANGED <<letrasMono, palabrasMono, palabraMono>> /\ pcMono' = "caido"
  BY <1>1 DEF letrasMono, palabrasMono, palabraMono, pcMono, En, SusLetras, Letras
<1> QED BY <1>2, <1>3, <1>4 DEF Mono!Morir

-----------------------------------------------------------------------------
(* PALABRA                                                                 *)

LEMMA VistoPalabra ==
    ASSUME IInv, ~ caido, RecibirPalabra(jugador)
    PROVE  Hecho' /\ Mono!Palabra
<1> DEFINE s == palabra_actual[jugador]
           L == Letras("letras")
           C == Letras("palabras")
<1>1. /\ palabra_actual'[jugador] = Ordenada(s) /\ pc[jugador] = "recibir"
      /\ pc'[jugador] = IF s = <<>> THEN "ok" ELSE "p_lock"
      /\ UNCHANGED <<tablero, luego, caido>>
  BY ElJugador DEF RecibirPalabra, Comando, Goto, IInv, Tipos
<1>2. s \in Seq(Casilleros) /\ ToSet(Ordenada(s)) = ToSet(s) /\ (s = <<>> => Ordenada(s) = <<>>)
  BY DelJugador, MismoConjunto DEF IInv
<1>3. Hecho'
  BY <1>1, HechoLuego
<1>4. /\ VistaDe(pc[jugador], luego[jugador], s, L, C,
                 letrasMono, palabrasMono, palabraMono, pcMono)
      /\ VistaDe(pc'[jugador], luego'[jugador], palabra_actual'[jugador], L, C,
                 letrasMono', palabrasMono', palabraMono', pcMono')
  BY <1>1, LetrasIguales, Vista, VistaLuego
<1>5. letrasMono = L /\ palabrasMono = C /\ palabraMono = s /\ pcMono = "recibir"
  BY <1>1, <1>4, VistaFuera DEF VistaDe, Quitando, Confirmando
<1>6. ToSet(<<>>) = {}
  BY DEF ToSet
<1> HIDE DEF s, L, C
<1>7. letrasMono' = L /\ palabrasMono' = C \cup ToSet(s) /\ palabraMono' = <<>> /\ pcMono' = "ok"
  <2>1. CASE s = <<>>
    <3>1. C \cup ToSet(s) = C
      BY <2>1, <1>6
    <3> QED BY <1>1, <1>2, <1>4, <2>1, <3>1 DEF VistaDe, Quitando, Confirmando
  <2>2. CASE s # <<>>
    BY <1>1, <1>2, <1>4, <2>2 DEF VistaDe, Quitando, Confirmando
  <2> QED BY <2>1, <2>2
<1>8. Mono!Letras = ToSet(s)
  BY <1>5 DEF Mono!Letras, Mono!ToSet, ToSet
<1> QED BY <1>3, <1>5, <1>7, <1>8 DEF Mono!Palabra

-----------------------------------------------------------------------------
(* LETRA                                                                   *)

(* Which letters the server for one player accepts, refuses and dies of.   *)
LEMMA FichaMono ==
    ASSUME palabraMono \in Seq(Casilleros), NEW c \in Casilleros
    PROVE  /\ Mono!es_ficha_valida_en_palabra(c) /\ ~ Mono!DividePorCero(c)
                <=> c \notin letrasMono /\ Cabe(palabraMono, c, Mono!Llenos)
           /\ Mono!DividePorCero(c)
                <=> /\ c \notin letrasMono /\ palabraMono # <<>>
                    /\ casillero_mas_distante_de(c, palabraMono) = c
<1>1. c \in Mono!Casilleros
  BY DEF Mono!Casilleros, Casilleros
<1>2. CASE palabraMono = <<>>
  BY <1>1, <1>2 DEF Mono!es_ficha_valida_en_palabra, Mono!DividePorCero, Cabe
<1>3. CASE palabraMono # <<>>
  <2>1. /\ Mono!EnLinea(c) <=> /\ Alineada(c, palabraMono)
                               /\ PorMirar(palabraMono, c) \subseteq Mono!Llenos
        /\ Mono!DividePorCero(c) <=> /\ c \notin letrasMono
                                     /\ casillero_mas_distante_de(c, palabraMono) = c
    BY <1>3, MismasFichas
  <2>2. Mono!es_ficha_valida_en_palabra(c) <=> c \notin letrasMono /\ Mono!EnLinea(c)
    BY <1>1, <1>3 DEF Mono!es_ficha_valida_en_palabra
  <2> QED BY <1>3, <2>1, <2>2 DEF Cabe
<1> QED BY <1>2, <1>3

(* What the server for one player sees of a thread that attends a LETRA. *)
LEMMA VistaDeLetra ==
    ASSUME IInv, ~ caido, pc[jugador] \in {"mira_letras", "mira_palabras", "escribe_letra"}
    PROVE  /\ letrasMono = Letras("letras") /\ palabrasMono = Letras("palabras")
           /\ palabraMono = palabra_actual[jugador] /\ pcMono = "recibir"
           /\ Mono!Llenos = ToSet(palabra_actual[jugador]) \cup Letras("palabras")
           /\ palabraMono \in Seq(Casilleros)
<1>1. /\ letrasMono = Letras("letras") /\ palabrasMono = Letras("palabras")
      /\ palabraMono = palabra_actual[jugador] /\ pcMono = "recibir"
  BY Vista DEF VistaDe, Quitando, Confirmando
<1>2. palabra_actual[jugador] \in Seq(Casilleros)
  BY DelJugador DEF IInv
<1> QED BY <1>1, <1>2 DEF Mono!Llenos, Mono!Letras, Mono!ToSet, ToSet

LEMMA VistoLetraFuera ==
    ASSUME IInv, ~ caido, LetraFuera(jugador)
    PROVE  Hecho' /\ Mono!LetraInvalida(Mono!Afuera)
<1>1. pc[jugador] = "recibir" /\ Quitar(jugador, "error") /\ UNCHANGED <<tablero, caido>>
  BY DEF LetraFuera, Comando
<1>2. Hecho' /\ Mono!quitar_letras /\ pcMono' = "error"
  BY <1>1, EmpiezaQuitar DEF Quitando, Confirmando
<1>3. pcMono = "recibir"
  BY <1>1, Vista DEF VistaDe
<1>4. Mono!Afuera \notin Mono!Casilleros
  BY DimensionsAssumption DEF Mono!Afuera, Mono!Casilleros
<1> QED BY <1>2, <1>3, <1>4
        DEF Mono!LetraInvalida, Mono!es_ficha_valida_en_palabra, Mono!DividePorCero

(* A letter on the board that is refused. *)
LEMMA Rechazada ==
    ASSUME IInv, ~ caido, UNCHANGED <<tablero, caido>>,
           pc[jugador] \in {"mira_letras", "mira_palabras", "escribe_letra"},
           Quitar(jugador, "error"),
           \/ ficha[jugador] \in Letras("letras")
           \/ /\ casillero_mas_distante_de(ficha[jugador], palabra_actual[jugador]) # ficha[jugador]
              /\ ~ Cabe(palabra_actual[jugador], ficha[jugador],
                        ToSet(palabra_actual[jugador]) \cup Letras("palabras"))
    PROVE  Hecho' /\ \E c \in Mono!Casilleros : Mono!LetraInvalida(c)
<1> DEFINE f == ficha[jugador]
<1>1. Hecho' /\ Mono!quitar_letras /\ pcMono' = "error"
  BY EmpiezaQuitar DEF Quitando, Confirmando
<1>2. f \in Casilleros /\ f \in Mono!Casilleros
  BY DelJugador DEF IInv, Mono!Casilleros, Casilleros
<1>3. pcMono = "recibir" /\ ~ Mono!es_ficha_valida_en_palabra(f) /\ ~ Mono!DividePorCero(f)
  BY <1>2, VistaDeLetra, FichaMono
<1>4. Mono!LetraInvalida(f)
  BY <1>1, <1>3 DEF Mono!LetraInvalida
<1> QED BY <1>1, <1>2, <1>4

LEMMA VistoMirarLetras ==
    ASSUME IInv, ~ caido, MirarLetras(jugador)
    PROVE  /\ Hecho'
           /\ Mudo \/ \E c \in Mono!Casilleros : Mono!LetraInvalida(c) \/ Mono!LetraCae(c)
<1> DEFINE f == ficha[jugador]
           s == palabra_actual[jugador]
           L == Letras("letras")
           C == Letras("palabras")
           lejos == casillero_mas_distante_de(f, s)
<1>1. f \in Casilleros /\ f \in Mono!Casilleros /\ s \in Seq(Casilleros)
  BY DelJugador DEF IInv, Mono!Casilleros, Casilleros
<1>2. /\ pc[jugador] = "mira_letras" /\ UNCHANGED tablero
      /\ tablero["letras"][f] # VACIO <=> f \in L
  BY <1>1 DEF MirarLetras, Letras
<1>3. L' = L /\ C' = C
  BY <1>2, LetrasIguales
<1>4. CASE f \in L /\ Quitar(jugador, "error") /\ UNCHANGED caido
  BY <1>2, <1>4, Rechazada
<1>5. CASE /\ f \notin L /\ s = <<>> /\ Goto(jugador, "escribe_letra")
           /\ UNCHANGED <<palabra_actual, ficha, todo, luego, caido>>
  <2>1. pc'[jugador] = "escribe_letra"
    BY <1>5, ElJugador DEF Goto, IInv, Tipos
  <2>2. Mudo
    BY <1>2, <1>3, <1>5, <2>1, PasoMudo
  <2>3. Hecho'
    BY <1>3, <1>5, <2>1 DEF Hecho, HechoDe, Cabe
  <2> QED BY <2>2, <2>3
<1>6. CASE f \notin L /\ s # <<>> /\ ~ Alineada(f, s) /\ Quitar(jugador, "error") /\ UNCHANGED caido
  <2>1. lejos # f
    BY <1>1, <1>6, EncimaEsAlineada
  <2>2. ~ Cabe(s, f, ToSet(s) \cup C)
    BY <1>6 DEF Cabe
  <2> QED BY <1>2, <1>6, <2>1, <2>2, Rechazada
<1>7. CASE /\ f \notin L /\ s # <<>> /\ Alineada(f, s) /\ lejos # f
           /\ todo' = [todo EXCEPT ![jugador] = Camino(lejos, f)]
           /\ Goto(jugador, "mira_palabras")
           /\ UNCHANGED <<palabra_actual, ficha, luego, caido>>
  <2>1. pc'[jugador] = "mira_palabras" /\ todo'[jugador] = Camino(lejos, f)
    BY <1>7, ElJugador DEF Goto, IInv, Tipos
  <2>2. Mudo
    BY <1>2, <1>3, <1>7, <2>1, PasoMudo
  <2>3. lejos \in Casilleros /\ (lejos[1] = f[1] \/ lejos[2] = f[2]) /\ lejos \in ToSet(s)
    <3>1. lejos \in Casilleros /\ (lejos[1] = f[1] \/ lejos[2] = f[2])
      BY <1>1, <1>7, CaminoAlineado
    <3>2. lejos \in ToSet(s)
      BY <1>1, <1>7, LaMasDistante DEF ToSet
    <3> QED BY <3>1, <3>2
  <2>4. /\ ToSet(Camino(lejos, f)) \subseteq PorMirar(s, f)
        /\ PorMirar(s, f) \subseteq ToSet(Camino(lejos, f)) \cup {lejos}
    BY <1>1, <1>7, <2>3, TramoDelCamino DEF PorMirar
  <2> HIDE DEF lejos
  <2>5. Cabe(s, f, ToSet(s) \cup C \cup ToSet(Camino(lejos, f)))
    BY <1>7, <2>3, <2>4 DEF Cabe, lejos
  <2>6. Hecho'
    BY <1>3, <1>7, <2>1, <2>4, <2>5 DEF Hecho, HechoDe
  <2> QED BY <2>2, <2>6
<1>8. CASE /\ f \notin L /\ s # <<>> /\ lejos = f /\ caido'
           /\ UNCHANGED <<palabra_actual, pc, ficha, todo, luego>>
  <2>1. Hecho'
    BY <1>2, <1>8, HechoLuego
  <2>2. UNCHANGED <<letrasMono, palabrasMono, palabraMono>> /\ pcMono' = "caido"
    BY <1>2, <1>8 DEF letrasMono, palabrasMono, palabraMono, pcMono, En, SusLetras, Letras
  <2>3. pcMono = "recibir" /\ Mono!DividePorCero(f)
    BY <1>1, <1>2, <1>8, VistaDeLetra, FichaMono
  <2>4. Mono!LetraCae(f)
    BY <2>2, <2>3 DEF Mono!LetraCae
  <2> QED BY <1>1, <2>1, <2>4
<1> QED BY <1>2, <1>4, <1>5, <1>6, <1>7, <1>8 DEF MirarLetras

LEMMA VistoMirarPalabras ==
    ASSUME IInv, ~ caido, Hecho, MirarPalabras(jugador)
    PROVE  Hecho' /\ (Mudo \/ \E c \in Mono!Casilleros : Mono!LetraInvalida(c))
<1> DEFINE f == ficha[jugador]
           s == palabra_actual[jugador]
           t == todo[jugador]
           x == Head(t)
           L == Letras("letras")
           C == Letras("palabras")
<1>1. /\ s \in Seq(Casilleros) /\ t \in Seq(Casilleros) /\ <<>> \in Seq(Casilleros)
      /\ pc[jugador] = "mira_palabras" /\ UNCHANGED <<tablero, caido>>
  BY DelJugador DEF IInv, MirarPalabras
<1>2. /\ x \in Casilleros /\ x \in ToSet(t)
      /\ Len(t) > 1 => ToSet(t) = ToSet(Tail(t)) \cup {x}
      /\ ~ (Len(t) > 1) => ToSet(t) = {x}
  <2>1. t # <<>>
    BY <1>1, ElJugador, TodoNoVacio DEF IInv
  <2>2. EsCola(t, t)
    BY <1>1, <2>1, ColaEntera
  <2> QED BY <1>1, <2>2, ColaAvanza
<1>3. /\ f \notin L /\ s # <<>> /\ ToSet(t) \subseteq PorMirar(s, f)
      /\ Cabe(s, f, ToSet(s) \cup C \cup ToSet(t))
  BY <1>1 DEF Hecho, HechoDe
<1>4. Lleno(jugador, x) <=> x \in ToSet(s) \cup C
  BY <1>2 DEF Lleno, puso_letra_en, ToSet, Letras
<1>5. L' = L /\ C' = C
  BY <1>1, LetrasIguales
<1>6. CASE /\ Lleno(jugador, x) /\ Sigue(jugador, "escribe_letra", <<>>)
           /\ UNCHANGED <<palabra_actual, ficha, luego>>
  <2>1. \/ Len(t) > 1 /\ pc'[jugador] = "mira_palabras" /\ todo'[jugador] = Tail(t)
        \/ ~ (Len(t) > 1) /\ pc'[jugador] = "escribe_letra"
    BY <1>1, <1>6, SigueDelJugador DEF IInv, PCs
  <2>2. Mudo
    BY <1>1, <1>5, <1>6, <2>1, PasoMudo
  <2> HIDE DEF f, s, t, x, L, C
  <2>3. CASE Len(t) > 1 /\ pc'[jugador] = "mira_palabras" /\ todo'[jugador] = Tail(t)
    <3>1. ToSet(s) \cup C \cup ToSet(t) = ToSet(s) \cup C \cup ToSet(Tail(t))
      BY <1>2, <1>4, <1>6, <2>3
    <3>2. Cabe(s, f, ToSet(s) \cup C \cup ToSet(Tail(t))) /\ ToSet(Tail(t)) \subseteq PorMirar(s, f)
      BY <1>2, <1>3, <2>3, <3>1
    <3>3. HechoDe("mira_palabras", s, ToSet(Tail(t)), f, L, C)
      BY <1>3, <3>2 DEF HechoDe
    <3>4. Hecho'
      BY <1>5, <1>6, <2>3, <3>3 DEF Hecho, s, f, L, C
    <3> QED BY <2>2, <3>4
  <2>4. CASE ~ (Len(t) > 1) /\ pc'[jugador] = "escribe_letra"
    <3>1. ToSet(s) \cup C \cup ToSet(t) = ToSet(s) \cup C
      BY <1>2, <1>4, <1>6, <2>4
    <3>2. \A T : HechoDe("escribe_letra", s, T, f, L, C)
      BY <1>3, <3>1 DEF HechoDe
    <3>3. Hecho'
      BY <1>5, <1>6, <2>4, <3>2 DEF Hecho, s, f, L, C
    <3> QED BY <2>2, <3>3
  <2> QED BY <2>1, <2>3, <2>4
<1>7. CASE ~ Lleno(jugador, x) /\ Quitar(jugador, "error")
  <2>1. casillero_mas_distante_de(f, s) # f
    BY <1>3 DEF Cabe
  <2>2. ~ Cabe(s, f, ToSet(s) \cup C)
    BY <1>2, <1>3, <1>4, <1>7 DEF Cabe
  <2> QED BY <1>1, <1>7, <2>1, <2>2, Rechazada
<1> QED BY <1>6, <1>7 DEF MirarPalabras

LEMMA VistoEscribirLetra ==
    ASSUME IInv, ~ caido, Hecho, EscribirLetra(jugador)
    PROVE  Hecho' /\ \E c \in Mono!Casilleros : Mono!LetraValida(c)
<1> DEFINE f == ficha[jugador]
           s == palabra_actual[jugador]
           L == Letras("letras")
           C == Letras("palabras")
<1>1. f \in Casilleros /\ f \in Mono!Casilleros
  BY DelJugador DEF IInv, Mono!Casilleros, Casilleros
<1>2. /\ pc[jugador] = "escribe_letra" /\ pc'[jugador] = "ok" /\ caido' = caido
      /\ palabra_actual'[jugador] = Append(s, f)
      /\ tablero' = [tablero EXCEPT !["letras"][f] = jugador]
  BY ElJugador DEF EscribirLetra, Goto, IInv, Tipos
<1>3. L' = L \cup {f} /\ C' = C
  <2>1. jugador # VACIO
    BY ElJugador, PlayersAssumption
  <2> QED BY <1>1, <1>2, <2>1 DEF Letras, IInv, Tipos, Tableros
<1>4. Hecho'
  BY <1>2, HechoLuego
<1>5. /\ letrasMono = L /\ palabrasMono = C /\ palabraMono = s /\ pcMono = "recibir"
      /\ Mono!Llenos = ToSet(s) \cup C /\ palabraMono \in Seq(Casilleros)
  BY <1>2, VistaDeLetra
<1>6. f \notin L /\ Cabe(s, f, ToSet(s) \cup C)
  BY <1>2 DEF Hecho, HechoDe
<1>7. Mono!es_ficha_valida_en_palabra(f) /\ ~ Mono!DividePorCero(f)
  BY <1>1, <1>5, <1>6, FichaMono
<1>8. VistaDe(pc'[jugador], luego'[jugador], palabra_actual'[jugador], L', C',
              letrasMono', palabrasMono', palabraMono', pcMono')
  BY <1>2, VistaLuego
<1>9. letrasMono' = L' /\ palabrasMono' = C' /\ palabraMono' = Append(s, f) /\ pcMono' = "ok"
  BY <1>2, <1>8 DEF VistaDe, Quitando, Confirmando
<1>10. Mono!LetraValida(f)
  BY <1>3, <1>5, <1>7, <1>9 DEF Mono!LetraValida
<1> QED BY <1>1, <1>4, <1>10

-----------------------------------------------------------------------------
(* The game of one player.                                                 *)

LEMMA EmpiezaIgual == Init => Hecho /\ Mono!Init
<1> SUFFICES ASSUME Init PROVE Hecho /\ Mono!Init
  OBVIOUS
<1>1. /\ pc[jugador] = "fuera" /\ ~ caido /\ palabra_actual[jugador] = <<>>
      /\ Letras("letras") = {} /\ Letras("palabras") = {}
  BY ElJugador DEF Init, Letras, Tableros
<1>2. Hecho
  BY <1>1, HechoFuera DEF Hecho
<1>3. letrasMono = {} /\ palabrasMono = {} /\ palabraMono = <<>> /\ pcMono = "fuera"
  BY <1>1, Vista DEF VistaDe, Quitando, Confirmando
<1> QED BY <1>2, <1>3 DEF Mono!Init

LEMMA PasoIgual ==
    ASSUME IInv, Hecho, [Next]_vars
    PROVE  Hecho' /\ [Mono!Next]_(Mono!vars)
<1>1. CASE UNCHANGED vars
  BY <1>1, MudoTodoIgual DEF vars, Mudo
<1>2. CASE Next
  <2>1. ~ caido /\ Step(jugador)
    BY <1>2, ElJugador DEF Next
  <2>2. CASE Atender(jugador)
    <3>1. CASE QuitarLock(jugador) \/ PalabraLock(jugador)
      BY <2>1, <3>1, MudoLocks DEF Mudo
    <3>2. CASE QuitarBorra(jugador)
      BY <2>1, <3>2, MudoBorra DEF Mudo
    <3>3. CASE PalabraEscribe(jugador)
      BY <2>1, <3>3, MudoEscribe DEF Mudo
    <3>4. CASE QuitarUnlock(jugador) \/ PalabraUnlock(jugador)
      BY <2>1, <3>4, MudoUnlock DEF Mudo
    <3>5. CASE Esperar(jugador)
      BY <3>5, MudoEspera DEF Mudo
    <3>6. CASE UpdateLock(jugador) \/ UpdateUnlock(jugador)
      BY <2>1, <3>6, VistoUpdate DEF Mudo, Mono!Next
    <3>7. CASE Responder(jugador) \/ UpdateEnvia(jugador)
      BY <2>1, <3>7, VistoResponder DEF Mono!Next
    <3>8. CASE MirarLetras(jugador)
      BY <2>1, <3>8, VistoMirarLetras DEF Mudo, Mono!Next
    <3>9. CASE MirarPalabras(jugador)
      BY <2>1, <3>9, VistoMirarPalabras DEF Mudo, Mono!Next
    <3>10. CASE EscribirLetra(jugador)
      BY <2>1, <3>10, VistoEscribirLetra DEF Mono!Next
    <3> QED BY <2>2, <3>1, <3>2, <3>3, <3>4, <3>5, <3>6, <3>7, <3>8, <3>9, <3>10 DEF Atender
  <2>3. CASE Conectar(jugador)
    BY <2>1, <2>3, VistoConectar DEF Mono!Next
  <2>4. CASE Cortar(jugador)
    BY <2>1, <2>4, VistoCortar DEF Mono!Next
  <2>5. CASE Morir(jugador)
    BY <2>1, <2>5, VistoMorir DEF Mono!Next
  <2>6. CASE Mandar(jugador)
    <3>1. CASE LetraFuera(jugador)
      BY <2>1, <3>1, VistoLetraFuera DEF Mono!Next
    <3>2. CASE RecibirUpdate(jugador) \/ \E c \in Casilleros : RecibirLetra(jugador, c)
      BY <2>1, <3>2, MudoRecibe DEF Mudo
    <3>3. CASE RecibirPalabra(jugador)
      BY <2>1, <3>3, VistoPalabra DEF Mono!Next
    <3> QED BY <2>6, <3>1, <3>2, <3>3 DEF Mandar
  <2> QED BY <2>1, <2>2, <2>3, <2>4, <2>5, <2>6 DEF Step
<1> QED BY <1>1, <1>2

(* The server with a thread per player and locks, when one plays, does     *)
(* what the server for one player does: the same letters are accepted and  *)
(* refused, a word is confirmed or withdrawn whole, and it dies of the     *)
(* same.                                                                   *)
THEOREM UnoJuegaIgual == SafeSpec => ImplementaMono
<1>1. SafeSpec => []IInv
  BY Inductivo
<1>2. Init => Hecho /\ Mono!Init
  BY EmpiezaIgual
<1>3. IInv /\ Hecho /\ [Next]_vars => Hecho' /\ [Mono!Next]_(Mono!vars)
  BY PasoIgual
<1>4. SafeSpec => Mono!Spec
  BY <1>1, <1>2, <1>3, PTL DEF SafeSpec, Mono!Spec
<1> QED BY <1>4 DEF ImplementaMono

-----------------------------------------------------------------------------
(* So what is proved of the server for one player holds of this one.       *)

Probado == INSTANCE BackendMonoProofs WITH
    tablero_letras   <- letrasMono,
    tablero_palabras <- palabrasMono,
    palabra_actual   <- palabraMono,
    pc               <- pcMono

LEMMA LaMismaFicha ==
    ASSUME NEW c
    PROVE  /\ Mono!es_ficha_valida_en_palabra(c) <=> Probado!es_ficha_valida_en_palabra(c)
           /\ Mono!DividePorCero(c) <=> Probado!DividePorCero(c)
<1>1. \A x, y : Mono!Distancia(x, y) = Probado!Distancia(x, y)
  BY DEF Mono!Distancia, Probado!Distancia
<1>2. Mono!casillero_mas_distante_de(c) = Probado!casillero_mas_distante_de(c)
  BY <1>1 DEF Mono!casillero_mas_distante_de, Probado!casillero_mas_distante_de
<1>3. Mono!Casilleros = Probado!Casilleros
  BY DEF Mono!Casilleros, Probado!Casilleros
<1>4. \A x, y : Mono!Tramo(x, y) = Probado!Tramo(x, y)
  BY <1>3 DEF Mono!Tramo, Probado!Tramo, Mono!Entre, Probado!Entre
<1>5. Mono!Letras = Probado!Letras /\ Mono!Llenos = Probado!Llenos
  BY DEF Mono!Letras, Probado!Letras, Mono!Llenos, Probado!Llenos, Mono!ToSet, Probado!ToSet
<1>6. Mono!EnLinea(c) <=> Probado!EnLinea(c)
  BY <1>2, <1>4, <1>5 DEF Mono!EnLinea, Probado!EnLinea
<1> QED BY <1>2, <1>3, <1>6
        DEF Mono!es_ficha_valida_en_palabra, Probado!es_ficha_valida_en_palabra,
            Mono!DividePorCero, Probado!DividePorCero

LEMMA LoProbado == Mono!Spec => Probado!Spec
<1>1. Mono!Init => Probado!Init
  BY DEF Mono!Init, Probado!Init
<1>2. [Mono!Next]_(Mono!vars) => [Probado!Next]_(Probado!vars)
  <2> SUFFICES ASSUME [Mono!Next]_(Mono!vars) PROVE [Probado!Next]_(Probado!vars)
    OBVIOUS
  <2>1. Mono!vars = Probado!vars /\ Mono!Casilleros = Probado!Casilleros
        /\ Mono!Afuera = Probado!Afuera
    BY DEF Mono!vars, Probado!vars, Mono!Casilleros, Probado!Casilleros,
           Mono!Afuera, Probado!Afuera
  <2>2. Mono!quitar_letras <=> Probado!quitar_letras
    BY DEF Mono!quitar_letras, Probado!quitar_letras, Mono!Letras, Probado!Letras,
           Mono!ToSet, Probado!ToSet
  <2>3. ASSUME NEW c \in Mono!Casilleros \cup {Mono!Afuera},
               Mono!LetraValida(c) \/ Mono!LetraInvalida(c) \/ Mono!LetraCae(c)
        PROVE  Probado!Next
    <3>1. Probado!LetraValida(c) \/ Probado!LetraInvalida(c) \/ Probado!LetraCae(c)
      BY <2>2, <2>3, LaMismaFicha
         DEF Mono!LetraValida, Mono!LetraInvalida, Mono!LetraCae,
             Probado!LetraValida, Probado!LetraInvalida, Probado!LetraCae
    <3> QED BY <2>1, <3>1 DEF Probado!Next
  <2>4. ASSUME \/ Mono!Conectar \/ Mono!Update \/ Mono!Responder
               \/ Mono!Cortar \/ Mono!Morir
        PROVE  Probado!Next
    BY <2>2, <2>4
       DEF Probado!Next, Mono!Conectar, Mono!Update, Mono!Responder,
           Mono!Cortar, Mono!Morir, Probado!Conectar, Probado!Update,
           Probado!Responder, Probado!Cortar, Probado!Morir
  <2>5. ASSUME Mono!Palabra
        PROVE  Probado!Next
    BY <2>5 DEF Probado!Next, Mono!Palabra, Probado!Palabra, Mono!Letras, Probado!Letras,
                Mono!ToSet, Probado!ToSet
  <2>6. ASSUME UNCHANGED Mono!vars
        PROVE  UNCHANGED Probado!vars
    BY <2>6 DEF Mono!vars, Probado!vars
  <2> QED BY <2>3, <2>4, <2>5, <2>6 DEF Mono!Next
<1> QED BY <1>1, <1>2, PTL DEF Mono!Spec, Probado!Spec

(* With one player, the boards agree at every command: a letter withdrawn  *)
(* was never confirmed.                                                    *)
THEOREM AcuerdoDeUnJugador == SafeSpec => []TablerosDeAcuerdo
<1>1. Probado!Spec => []Probado!TablerosDeAcuerdo
  BY Probado!Acuerdo
<1>2. Probado!TablerosDeAcuerdo <=> TablerosDeAcuerdo
  BY DEF TablerosDeAcuerdo, Mono!TablerosDeAcuerdo, Probado!TablerosDeAcuerdo,
         Mono!Letras, Probado!Letras, Mono!ToSet, Probado!ToSet
<1> QED BY <1>1, <1>2, UnoJuegaIgual, LoProbado, PTL DEF ImplementaMono

(* And lining up a letter never divides by zero. *)
THEOREM DivisionDeUnJugador == SafeSpec => []SinDivisionPorCero
<1>1. Probado!Spec => []Probado!SinDivisionPorCero
  BY Probado!SinDivision, DimensionsAssumption
<1>2. Probado!SinDivisionPorCero <=> SinDivisionPorCero
  <2>1. Mono!Casilleros = Probado!Casilleros
    BY DEF Mono!Casilleros, Probado!Casilleros
  <2> QED BY <2>1, LaMismaFicha
          DEF SinDivisionPorCero, Mono!SinDivisionPorCero, Probado!SinDivisionPorCero
<1> QED BY <1>1, <1>2, UnoJuegaIgual, LoProbado, PTL DEF ImplementaMono

=============================================================================
