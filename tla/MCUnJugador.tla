---------------------------- MODULE MCUnJugador ----------------------------
(* The multi-threaded server with one player does what the server for one  *)
(* player does.  A loop over cells under locks is taken for done when it   *)
(* starts; a letter is put when it is written, and UPDATE is attended when *)
(* all the locks are taken.                                                *)
EXTENDS Backend

ASSUME UnJugadorAssumption == \E p \in Players : Players = {p}

jugador == CHOOSE p \in Players : TRUE

En(fase) == pc[jugador] \in fase

Quitando    == {"q_lock", "q_borra", "q_unlock"}
Confirmando == {"p_lock", "p_escribe", "p_unlock"}

Letras(b) == {c \in Casilleros : tablero[b][c] # VACIO}

SusLetras == ToSet(palabra_actual[jugador])

pcMono ==
    CASE caido                                      -> "caido"
      [] ~ caido /\ En(Quitando)                    -> luego[jugador]
      [] ~ caido /\ En(Confirmando)                 -> "ok"
      [] ~ caido /\ En({"u_envia"})                 -> "status"
      [] ~ caido /\ En({"fuera", "ok", "error", "fin"}) -> pc[jugador]
      [] OTHER                                      -> "recibir"

letrasMono   == Letras("letras") \ (IF En(Quitando) THEN SusLetras ELSE {})
palabrasMono == Letras("palabras") \cup (IF En(Confirmando) THEN SusLetras ELSE {})
palabraMono  == IF En(Quitando \cup Confirmando) THEN <<>> ELSE palabra_actual[jugador]

Mono == INSTANCE BackendMono WITH
    tablero_letras   <- letrasMono,
    tablero_palabras <- palabrasMono,
    palabra_actual   <- palabraMono,
    pc               <- pcMono

(* The game is that of the server for one player: the same letters are     *)
(* accepted and refused, and what is seen between two commands is the same. *)
ImplementaMono == Mono!Spec

(* The two boards agree at every command, and a letter withdrawn was never *)
(* confirmed (Mono!TablerosDeAcuerdo).                                     *)
TablerosDeAcuerdo == Mono!TablerosDeAcuerdo

(* Lining up a letter of one's own never divides by zero, with one player. *)
SinDivisionPorCero == Mono!SinDivisionPorCero

=============================================================================
