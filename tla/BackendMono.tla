---------------------------- MODULE BackendMono ----------------------------
(***************************************************************************)
(* The game server for one player, tp2/src/backend-mono/Backend_mono.cpp:  *)
(* no threads and no locks, each command is one step.  As handed out, main *)
(* never calls atendedor_de_jugador; what is modelled is a player attended *)
(* by it.  Which letter is in a cell does not matter, so that a board is   *)
(* the set of its cells that have one.                                     *)
(***************************************************************************)
EXTENDS Integers, SequencesExt

CONSTANTS alto, ancho

VARIABLES tablero_letras, tablero_palabras, palabra_actual, pc

vars == <<tablero_letras, tablero_palabras, palabra_actual, pc>>

Casilleros == (0..(alto - 1)) \X (0..(ancho - 1))

(* Any cell out of the board. *)
Afuera == <<alto, ancho>>

Letras == ToSet(palabra_actual)

Init ==
    /\ tablero_letras = {} /\ tablero_palabras = {}
    /\ palabra_actual = <<>>
    /\ pc = "fuera"

-----------------------------------------------------------------------------
(* es_ficha_valida_en_palabra                                              *)

Distancia(c, d) == LET abs(x) == IF x < 0 THEN -x ELSE x
                       v == abs(c[1] - d[1])
                       h == abs(c[2] - d[2])
                   IN  IF v > h THEN v ELSE h

(* The first one of the letters farthest from c. *)
casillero_mas_distante_de(c) ==
    palabra_actual[CHOOSE i \in DOMAIN palabra_actual :
        \A j \in DOMAIN palabra_actual :
            LET di == Distancia(palabra_actual[i], c)
                dj == Distancia(palabra_actual[j], c)
            IN  dj < di \/ (dj = di /\ i <= j)]

(* Rows are axis 1: the cells between c and d, both included. *)
Entre(x, a, b) == (a <= x /\ x <= b) \/ (b <= x /\ x <= a)

Tramo(c, d) == {x \in Casilleros : Entre(x[1], c[1], d[1]) /\ Entre(x[2], c[2], d[2])}

Llenos == Letras \cup tablero_palabras

(* A word goes along a row if c is in that of the farthest letter, else    *)
(* along a column, and has no empty cell between.                          *)
EnLinea(c) ==
    LET m   == casillero_mas_distante_de(c)
        eje == IF m[1] = c[1] THEN 1 ELSE 2
    IN  (\A d \in Letras : d[eje] = c[eje]) /\ Tramo(m, c) \ {c} \subseteq Llenos

es_ficha_valida_en_palabra(c) ==
    /\ c \in Casilleros
    /\ c \notin tablero_letras
    /\ palabra_actual # <<>> => EnLinea(c)

(* distancia / abs(distancia), with the letter on top of all the others. *)
DividePorCero(c) ==
    /\ c \in Casilleros \ tablero_letras
    /\ palabra_actual # <<>> /\ casillero_mas_distante_de(c) = c

-----------------------------------------------------------------------------
(* atendedor_de_jugador                                                    *)

quitar_letras ==
    /\ tablero_letras' = tablero_letras \ Letras
    /\ palabra_actual' = <<>>
    /\ UNCHANGED tablero_palabras

(* Greeting and dimensions, or the end of the process. *)
Conectar == /\ pc = "fuera"
            /\ pc' \in {"recibir", "fin"}
            /\ UNCHANGED <<tablero_letras, tablero_palabras, palabra_actual>>

LetraValida(c) ==
    /\ pc = "recibir" /\ es_ficha_valida_en_palabra(c) /\ ~ DividePorCero(c)
    /\ tablero_letras' = tablero_letras \cup {c}
    /\ palabra_actual' = Append(palabra_actual, c)
    /\ pc' = "ok"
    /\ UNCHANGED tablero_palabras

LetraInvalida(c) ==
    /\ pc = "recibir" /\ ~ es_ficha_valida_en_palabra(c) /\ ~ DividePorCero(c)
    /\ quitar_letras
    /\ pc' = "error"

LetraCae(c) ==
    /\ pc = "recibir" /\ DividePorCero(c)
    /\ pc' = "caido"
    /\ UNCHANGED <<tablero_letras, tablero_palabras, palabra_actual>>

Palabra ==
    /\ pc = "recibir"
    /\ tablero_palabras' = tablero_palabras \cup Letras
    /\ palabra_actual' = <<>>
    /\ pc' = "ok"
    /\ UNCHANGED tablero_letras

Update ==
    /\ pc = "recibir"
    /\ pc' = "status"
    /\ UNCHANGED <<tablero_letras, tablero_palabras, palabra_actual>>

Responder ==
    /\ pc \in {"ok", "error", "status"}
    /\ pc' = "recibir"
    /\ UNCHANGED <<tablero_letras, tablero_palabras, palabra_actual>>

(* terminar_servidor_de_jugador: a receive or a send failed. *)
Cortar ==
    /\ pc \in {"recibir", "ok", "error", "status"}
    /\ quitar_letras
    /\ pc' = "fin"

(* SIGPIPE, which is not ignored. *)
Morir ==
    /\ pc \in {"fuera", "ok", "error", "status"}
    /\ pc' = "caido"
    /\ UNCHANGED <<tablero_letras, tablero_palabras, palabra_actual>>

Next ==
    \/ Conectar \/ Palabra \/ Update \/ Responder \/ Cortar \/ Morir
    \/ \E c \in Casilleros \cup {Afuera} : LetraValida(c) \/ LetraInvalida(c) \/ LetraCae(c)

Spec == Init /\ [][Next]_vars

-----------------------------------------------------------------------------

(* The two boards agree: the letters on the board of letters are those of  *)
(* the confirmed words and those of the word being written, and no cell is *)
(* in both.  So a word withdrawn takes no confirmed letter with it.        *)
TablerosDeAcuerdo ==
    /\ tablero_letras = tablero_palabras \cup Letras
    /\ tablero_palabras \cap Letras = {}

(* No cell is twice in the word being written, so that quitar_letras and   *)
(* PALABRA meet each cell once.                                            *)
SinRepetidos ==
    \A i, j \in DOMAIN palabra_actual : palabra_actual[i] = palabra_actual[j] => i = j

(* Lining up a letter never divides by zero: the letters of the word being *)
(* written are refused before.                                             *)
SinDivisionPorCero == \A c \in Casilleros : ~ DividePorCero(c)

=============================================================================
