------------------------------ MODULE Backend ------------------------------
(***************************************************************************)
(* The multi-threaded game server of tp2/src/backend-mt/Backend_mono.cpp.  *)
(* One thread attends each player; the threads share two boards, each with *)
(* a read-write lock per cell.                                             *)
(*                                                                         *)
(* A section that takes one lock, uses its cell and releases it is one     *)
(* action.  Where a thread takes several locks (quitar_letras, PALABRA,    *)
(* UPDATE), each lock taken, each cell written and each lock released is   *)
(* an action of its own.  A thread that finds a lock taken joins its line  *)
(* (Esperar) and goes on when its turn comes.                              *)
(***************************************************************************)
EXTENDS Integers, SequencesExt, CasilleroLocks

CONSTANTS
    alto, ancho,  \* the dimensions of the boards
    MaxComandos   \* bound: commands that the players send in all

ASSUME DimensionsAssumption == alto \in Nat \ {0} /\ ancho \in Nat \ {0}
ASSUME MaxComandosAssumption == MaxComandos \in Nat

VARIABLES
    tablero,         \* "letras" and "palabras": cell -> letter or VACIO
    locks_casillas,  \* "letras" and "palabras": cell -> lock
    palabra_actual,  \* each player's letters, not yet confirmed
    pc,              \* where each player's thread is
    ficha,           \* the cell of the LETRA being attended, <<0, 0>> outside
    todo,            \* the cells left in the loop a thread is in
    luego,           \* where quitar_letras returns to, "fin" outside
    caido,           \* the process died: division by zero, or SIGPIPE
    quedan           \* bound: the commands that may still be sent

vars == <<tablero, locks_casillas, palabra_actual, pc, ficha, todo, luego, caido,
          quedan>>

Tableros   == {"letras", "palabras"}
Casilleros == (0..(alto - 1)) \X (0..(ancho - 1))

(* Letters are told apart by who put them. *)
VACIO == "vacio"

ASSUME PlayersAssumption == VACIO \notin Players

PCs == {"fuera", "recibir", "ok", "error", "fin",
        "mira_letras", "mira_palabras", "escribe_letra",
        "q_lock", "q_borra", "q_unlock",
        "p_lock", "p_escribe", "p_unlock",
        "u_lock", "u_envia", "u_unlock"}

TypeOK ==
    /\ tablero \in [Tableros -> [Casilleros -> Players \cup {VACIO}]]
    /\ \A b \in Tableros : \A c \in Casilleros : IsLock(locks_casillas[b][c])
    /\ palabra_actual \in [Players -> Seq(Casilleros)]
    /\ pc \in [Players -> PCs]
    /\ ficha \in [Players -> Casilleros]
    /\ todo \in [Players -> Seq(Casilleros)]
    /\ luego \in [Players -> {"error", "fin"}]
    /\ caido \in BOOLEAN
    /\ quedan \in 0..MaxComandos

Init ==
    /\ tablero = [b \in Tableros |-> [c \in Casilleros |-> VACIO]]
    /\ locks_casillas = [b \in Tableros |-> [c \in Casilleros |-> Libre]]
    /\ palabra_actual = [p \in Players |-> <<>>]
    /\ pc = [p \in Players |-> "fuera"]
    /\ ficha = [p \in Players |-> <<0, 0>>]
    /\ todo = [p \in Players |-> <<>>]
    /\ luego = [p \in Players |-> "fin"]
    /\ caido = FALSE
    /\ quedan = MaxComandos

Goto(p, where) == pc' = [pc EXCEPT ![p] = where]

-----------------------------------------------------------------------------
(* Cells.                                                                  *)

(* compare_casilleros: by row, then by column. *)
compare_casilleros(c, d) == c[1] < d[1] \/ (c[1] = d[1] /\ c[2] <= d[2])

(* Does the j-th cell of s go before the i-th, or is it the same one?      *)
NoDespues(s, j, i) == IF s[j] = s[i] THEN j <= i ELSE compare_casilleros(s[j], s[i])

(* The place of the i-th cell of s once sorted. *)
Puesto(s, i) == Cardinality({j \in DOMAIN s : NoDespues(s, j, i)})

(* Mutant: the locks are taken in the order the letters were put. *)
SinOrdenar(s) == s

Ordenada(s) == [k \in DOMAIN s |-> s[CHOOSE i \in DOMAIN s : Puesto(s, i) = k]]

(* The order of the loops over the whole board. *)
TodoElTablero == Ordenada(SetToSeq(Casilleros))

Abs(x) == IF x < 0 THEN -x ELSE x

Distancia(c, d) == LET v == Abs(c[1] - d[1])
                       h == Abs(c[2] - d[2])
                   IN  IF v > h THEN v ELSE h

(* The first of the letters at the greatest distance. *)
casillero_mas_distante_de(c, letras) ==
    letras[CHOOSE i \in DOMAIN letras :
              /\ \A j \in DOMAIN letras : Distancia(letras[j], c) <= Distancia(letras[i], c)
              /\ \A j \in 1..(i - 1) : Distancia(letras[j], c) < Distancia(letras[i], c)]

puso_letra_en(c, letras) == \E i \in DOMAIN letras : letras[i] = c

(* The cells from d to c, c excluded, when they share a row or a column. *)
Camino(d, c) ==
    LET n == Distancia(c, d)
        paso(i) == (c[i] - d[i]) \div n
    IN  [k \in 1..n |-> <<d[1] + (k - 1) * paso(1), d[2] + (k - 1) * paso(2)>>]

(* Mutant: only the farthest letter is looked at. *)
AlineadaConLaMasDistante(c, letras) ==
    LET lejos == casillero_mas_distante_de(c, letras)
    IN  lejos[1] = c[1] \/ lejos[2] = c[2]

(* All the letters are in c's row if the farthest one is, else in c's      *)
(* column.                                                                 *)
Alineada(c, letras) ==
    LET lejos == casillero_mas_distante_de(c, letras)
        eje   == IF lejos[1] = c[1] THEN 1 ELSE 2
    IN  \A i \in DOMAIN letras : letras[i][eje] = c[eje]

-----------------------------------------------------------------------------
(* Locks.                                                                  *)

(* The lock that p's next step takes: board, cell and mode. *)
Pide(p) ==
    LET lock(b, c, mode) == [tablero |-> b, c |-> c, mode |-> mode] IN
    CASE pc[p] = "mira_letras"   -> {lock("letras", ficha[p], "R")}
      [] pc[p] = "escribe_letra" -> {lock("letras", ficha[p], "W")}
      [] pc[p] = "q_lock"        -> {lock("letras", Head(todo[p]), "W")}
      [] pc[p] = "mira_palabras" -> {lock("palabras", Head(todo[p]), "R")}
      [] pc[p] = "p_lock"        -> {lock("palabras", Head(todo[p]), "W")}
      [] pc[p] = "u_lock"        -> {lock("palabras", Head(todo[p]), "R")}
      [] OTHER -> {}

(* p joins the line of a lock it cannot have now. *)
Esperar(p) == \E k \in Pide(p) :
    LET l == locks_casillas[k.tablero][k.c] IN
    /\ ~ Espera(l, p) /\ ~ Entra(l, p, k.mode)
    /\ locks_casillas' =
          [locks_casillas EXCEPT ![k.tablero][k.c] = Encolado(l, p, k.mode)]
    /\ UNCHANGED <<tablero, palabra_actual, pc, ficha, todo, luego, caido>>

(* p has the lock it asked for during this action only. *)
Seccion(p) == \E k \in Pide(p) :
    \E l \in Concedido(locks_casillas[k.tablero][k.c], p, k.mode) :
        locks_casillas' = [locks_casillas EXCEPT ![k.tablero][k.c] = l]

(* p takes the lock it asked for and keeps it. *)
Lock(p) == \E k \in Pide(p) :
    \E l \in Concedido(locks_casillas[k.tablero][k.c], p, k.mode) :
        locks_casillas' = [locks_casillas EXCEPT ![k.tablero][k.c] = Tomado(l, p, k.mode)]

Unlock(p, b) ==
    locks_casillas' = [locks_casillas EXCEPT ![b][Head(todo[p])] = Soltado(@, p)]

(* A loop over cells goes on to the next one, or is followed by the loop   *)
(* over s that starts at where.                                            *)
Sigue(p, where, s) ==
    IF Len(todo[p]) > 1
    THEN todo' = [todo EXCEPT ![p] = Tail(@)] /\ UNCHANGED pc
    ELSE todo' = [todo EXCEPT ![p] = s] /\ Goto(p, where)

-----------------------------------------------------------------------------
(* Connecting, receiving and answering.                                    *)

(* A send to a player who closed the connection before may kill the whole  *)
(* process: enviar leaves SIGPIPE to its default action.                   *)
Morir(p) ==
    /\ pc[p] \in {"fuera", "ok", "error", "u_envia"}
    /\ caido' = TRUE
    /\ UNCHANGED <<tablero, locks_casillas, palabra_actual, pc, ficha, todo, luego>>

(* accept, recibir_nombre and enviar_dimensiones, which may fail. *)
Conectar(p) ==
    /\ pc[p] = "fuera"
    /\ Goto(p, "recibir") \/ Goto(p, "fin")
    /\ UNCHANGED <<tablero, locks_casillas, palabra_actual, ficha, todo, luego, caido>>

(* quitar_letras starts: it sorts the letters to take their locks in order *)
(* and has nothing to do without letters.                                  *)
Quitar(p, despues) ==
    /\ palabra_actual' = [palabra_actual EXCEPT ![p] = Ordenada(@)]
    /\ todo' = [todo EXCEPT ![p] = palabra_actual'[p]]
    /\ luego' = [luego EXCEPT ![p] = IF palabra_actual[p] = <<>> THEN "fin" ELSE despues]
    /\ ficha' = [ficha EXCEPT ![p] = <<0, 0>>]
    /\ Goto(p, IF palabra_actual[p] = <<>> THEN despues ELSE "q_lock")

QuitarLock(p) ==
    /\ pc[p] = "q_lock"
    /\ Lock(p)
    /\ Sigue(p, "q_borra", palabra_actual[p])
    /\ UNCHANGED <<tablero, palabra_actual, ficha, luego, caido>>

(* Mutant: the letters are cleared on the board of words. *)
QuitarBorraPalabras(p) ==
    /\ pc[p] = "q_borra"
    /\ tablero' = [tablero EXCEPT !["palabras"][Head(todo[p])] = VACIO]
    /\ Sigue(p, "q_unlock", palabra_actual[p])
    /\ UNCHANGED <<locks_casillas, palabra_actual, ficha, luego, caido>>

QuitarBorra(p) ==
    /\ pc[p] = "q_borra"
    /\ tablero' = [tablero EXCEPT !["letras"][Head(todo[p])] = VACIO]
    /\ Sigue(p, "q_unlock", palabra_actual[p])
    /\ UNCHANGED <<locks_casillas, palabra_actual, ficha, luego, caido>>

QuitarUnlock(p) ==
    /\ pc[p] = "q_unlock"
    /\ Unlock(p, "letras")
    /\ Sigue(p, luego[p], <<>>)
    /\ palabra_actual' =
          [palabra_actual EXCEPT ![p] = IF Len(todo[p]) > 1 THEN @ ELSE <<>>]
    /\ luego' = [luego EXCEPT ![p] = IF Len(todo[p]) > 1 THEN @ ELSE "fin"]
    /\ UNCHANGED <<tablero, ficha, caido>>

(* An answer is sent; if the player is gone the thread cleans up and ends  *)
(* (terminar_servidor_de_jugador).                                         *)
Responder(p) ==
    /\ pc[p] \in {"ok", "error"}
    /\ \/ Goto(p, "recibir") /\ UNCHANGED <<palabra_actual, ficha, todo, luego>>
       \/ Quitar(p, "fin")
    /\ UNCHANGED <<tablero, locks_casillas, caido>>

(* recv fails or the player closes the connection. *)
Cortar(p) ==
    /\ pc[p] = "recibir"
    /\ Quitar(p, "fin")
    /\ UNCHANGED <<tablero, locks_casillas, caido>>

(* recibir_comando; messages it does not understand change nothing. *)
Comando(p) ==
    /\ pc[p] = "recibir"
    /\ quedan > 0
    /\ quedan' = quedan - 1

-----------------------------------------------------------------------------
(* LETRA                                                                   *)

RecibirLetra(p, c) ==
    /\ Comando(p)
    /\ ficha' = [ficha EXCEPT ![p] = c]
    /\ Goto(p, "mira_letras")
    /\ UNCHANGED <<tablero, locks_casillas, palabra_actual, todo, luego, caido>>

(* Mutant: the bounds of the board are not looked at. *)
LetraFueraAceptada(p) ==
    /\ Comando(p)
    /\ ficha' = [ficha EXCEPT ![p] = <<alto, 0>>]
    /\ Goto(p, "mira_letras")
    /\ UNCHANGED <<tablero, locks_casillas, palabra_actual, todo, luego, caido>>

(* A cell out of the board is refused at once. *)
LetraFuera(p) ==
    /\ Comando(p)
    /\ Quitar(p, "error")
    /\ UNCHANGED <<tablero, locks_casillas, caido>>

(* Under the read lock: is the cell taken?  Then, without it, is the cell  *)
(* in line with the letters put before?                                    *)
MirarLetras(p) ==
    LET c == ficha[p]
        letras == palabra_actual[p]
        lejos == casillero_mas_distante_de(c, letras)
    IN
    /\ pc[p] = "mira_letras"
    /\ Seccion(p)
    /\ \/ /\ tablero["letras"][c] # VACIO
          /\ Quitar(p, "error")
          /\ UNCHANGED caido
       \/ /\ tablero["letras"][c] = VACIO /\ letras = <<>>
          /\ Goto(p, "escribe_letra")
          /\ UNCHANGED <<palabra_actual, ficha, todo, luego, caido>>
       \/ /\ tablero["letras"][c] = VACIO /\ letras # <<>>
          /\ ~ Alineada(c, letras)
          /\ Quitar(p, "error")
          /\ UNCHANGED caido
       \/ /\ tablero["letras"][c] = VACIO /\ letras # <<>>
          /\ Alineada(c, letras) /\ lejos # c
          /\ todo' = [todo EXCEPT ![p] = Camino(lejos, c)]
          /\ Goto(p, "mira_palabras")
          /\ UNCHANGED <<palabra_actual, ficha, luego, caido>>
       \/ /\ tablero["letras"][c] = VACIO /\ letras # <<>>
          /\ lejos = c
          /\ caido' = TRUE
          /\ UNCHANGED <<palabra_actual, pc, ficha, todo, luego>>
    /\ UNCHANGED tablero

(* The cell itself must be filled, by this word or by a confirmed one. *)
Lleno(p, c) == puso_letra_en(c, palabra_actual[p]) \/ tablero["palabras"][c] # VACIO

(* Mutant: the early return keeps the read lock. *)
MirarPalabrasSinSoltar(p) ==
    /\ pc[p] = "mira_palabras"
    /\ \/ /\ Lleno(p, Head(todo[p]))
          /\ Seccion(p)
          /\ Sigue(p, "escribe_letra", <<>>)
          /\ UNCHANGED <<palabra_actual, ficha, luego>>
       \/ /\ ~ Lleno(p, Head(todo[p]))
          /\ Lock(p)
          /\ Quitar(p, "error")
    /\ UNCHANGED <<tablero, caido>>

MirarPalabras(p) ==
    /\ pc[p] = "mira_palabras"
    /\ Seccion(p)
    /\ \/ /\ Lleno(p, Head(todo[p]))
          /\ Sigue(p, "escribe_letra", <<>>)
          /\ UNCHANGED <<palabra_actual, ficha, luego>>
       \/ /\ ~ Lleno(p, Head(todo[p]))
          /\ Quitar(p, "error")
    /\ UNCHANGED <<tablero, caido>>

(* Mutant: the letter joins the word and not the board. *)
EscribirLetraSinMarcar(p) ==
    /\ pc[p] = "escribe_letra"
    /\ Seccion(p)
    /\ palabra_actual' = [palabra_actual EXCEPT ![p] = Append(@, ficha[p])]
    /\ ficha' = [ficha EXCEPT ![p] = <<0, 0>>]
    /\ Goto(p, "ok")
    /\ UNCHANGED <<tablero, todo, luego, caido>>

EscribirLetra(p) ==
    /\ pc[p] = "escribe_letra"
    /\ Seccion(p)
    /\ palabra_actual' = [palabra_actual EXCEPT ![p] = Append(@, ficha[p])]
    /\ tablero' = [tablero EXCEPT !["letras"][ficha[p]] = p]
    /\ ficha' = [ficha EXCEPT ![p] = <<0, 0>>]
    /\ Goto(p, "ok")
    /\ UNCHANGED <<todo, luego, caido>>

-----------------------------------------------------------------------------
(* PALABRA                                                                 *)

RecibirPalabra(p) ==
    /\ Comando(p)
    /\ palabra_actual' = [palabra_actual EXCEPT ![p] = Ordenada(@)]
    /\ todo' = [todo EXCEPT ![p] = palabra_actual'[p]]
    /\ Goto(p, IF palabra_actual[p] = <<>> THEN "ok" ELSE "p_lock")
    /\ UNCHANGED <<tablero, locks_casillas, ficha, luego, caido>>

PalabraLock(p) ==
    /\ pc[p] = "p_lock"
    /\ Lock(p)
    /\ Sigue(p, "p_escribe", palabra_actual[p])
    /\ UNCHANGED <<tablero, palabra_actual, ficha, luego, caido>>

PalabraEscribe(p) ==
    /\ pc[p] = "p_escribe"
    /\ tablero' = [tablero EXCEPT !["palabras"][Head(todo[p])] = p]
    /\ Sigue(p, "p_unlock", palabra_actual[p])
    /\ UNCHANGED <<locks_casillas, palabra_actual, ficha, luego, caido>>

PalabraUnlock(p) ==
    /\ pc[p] = "p_unlock"
    /\ Unlock(p, "palabras")
    /\ Sigue(p, "ok", <<>>)
    /\ palabra_actual' =
          [palabra_actual EXCEPT ![p] = IF Len(todo[p]) > 1 THEN @ ELSE <<>>]
    /\ UNCHANGED <<tablero, ficha, luego, caido>>

-----------------------------------------------------------------------------
(* UPDATE                                                                  *)

RecibirUpdate(p) ==
    /\ Comando(p)
    /\ todo' = [todo EXCEPT ![p] = TodoElTablero]
    /\ Goto(p, "u_lock")
    /\ UNCHANGED <<tablero, locks_casillas, palabra_actual, ficha, luego, caido>>

(* Mutant: each lock is released before the next one is taken. *)
UpdateLockSuelta(p) ==
    /\ pc[p] = "u_lock"
    /\ Seccion(p)
    /\ Sigue(p, "u_envia", TodoElTablero)
    /\ UNCHANGED <<tablero, palabra_actual, ficha, luego, caido>>

UpdateLock(p) ==
    /\ pc[p] = "u_lock"
    /\ Lock(p)
    /\ Sigue(p, "u_envia", TodoElTablero)
    /\ UNCHANGED <<tablero, palabra_actual, ficha, luego, caido>>

(* enviar_tablero reads and sends the board; when that fails the thread    *)
(* ends without releasing the read locks.                                  *)
UpdateEnvia(p) ==
    /\ pc[p] = "u_envia"
    /\ \/ Goto(p, "u_unlock") /\ UNCHANGED <<palabra_actual, ficha, todo, luego>>
       \/ Quitar(p, "fin")
    /\ UNCHANGED <<tablero, locks_casillas, caido>>

UpdateUnlock(p) ==
    /\ pc[p] = "u_unlock"
    /\ Unlock(p, "palabras")
    /\ Sigue(p, "recibir", <<>>)
    /\ UNCHANGED <<tablero, palabra_actual, ficha, luego, caido>>

-----------------------------------------------------------------------------

Atender(p) ==
    \/ Esperar(p)
    \/ QuitarLock(p) \/ QuitarBorra(p) \/ QuitarUnlock(p)
    \/ Responder(p)
    \/ MirarLetras(p) \/ MirarPalabras(p) \/ EscribirLetra(p)
    \/ PalabraLock(p) \/ PalabraEscribe(p) \/ PalabraUnlock(p)
    \/ UpdateLock(p) \/ UpdateEnvia(p) \/ UpdateUnlock(p)

Mandar(p) ==
    \/ LetraFuera(p) \/ \E c \in Casilleros : RecibirLetra(p, c)
    \/ RecibirPalabra(p) \/ RecibirUpdate(p)

Step(p) == \/ Atender(p) /\ UNCHANGED quedan
           \/ Conectar(p) /\ UNCHANGED quedan
           \/ Cortar(p) /\ UNCHANGED quedan
           \/ Morir(p) /\ UNCHANGED quedan
           \/ Mandar(p)

Next == ~ caido /\ \E p \in Players : Step(p)

(* The server attends what it received; nobody is obliged to play. *)
Fairness == \A p \in Players : WF_vars(~ caido /\ Atender(p) /\ UNCHANGED quedan)

SafeSpec == Init /\ [][Next]_vars

Spec == SafeSpec /\ Fairness

-----------------------------------------------------------------------------
(* What the server promises.                                               *)

(* "No se puede mandar un estado inconsistente del tablero": while a       *)
(* player is sent the board no word is partly written, so a word is seen   *)
(* whole or not at all.                                                    *)
UpdateSeesWholeWords ==
    \A u, w \in Players :
        pc[u] = "u_envia" /\ pc[w] = "p_escribe" =>
            Len(todo[w]) = Len(palabra_actual[w])

(* Every cell that a thread is about to write in a loop is locked for      *)
(* writing by that thread alone, and the whole board is locked for reading *)
(* while it is sent.                                                       *)
CellsLocked ==
    /\ \A b \in Tableros : \A c \in Casilleros :
          LET l == locks_casillas[b][c] IN
          l.writers # {} => l.readers = {} /\ Cardinality(l.writers) = 1
    /\ \A p \in Players :
          /\ pc[p] = "q_borra"   => locks_casillas["letras"][Head(todo[p])].writers = {p}
          /\ pc[p] = "p_escribe" => locks_casillas["palabras"][Head(todo[p])].writers = {p}
          /\ pc[p] = "u_envia"   =>
                \A c \in Casilleros : p \in locks_casillas["palabras"][c].readers

(* p waits for q: for a lock q holds or precedes p in the line of. *)
WaitsFor(p, q) == \E k \in Pide(p) :
    LET l == locks_casillas[k.tablero][k.c] IN
    /\ Espera(l, p)
    /\ \/ Holds(l, q)
       \/ \E i, j \in DOMAIN l.line : i < j /\ l.line[i].who = q /\ l.line[j].who = p

(* A word with a repeated letter makes its thread wait for itself.         *)
WaitsForItself(p) ==
    \E k \in Pide(p) : /\ Espera(locks_casillas[k.tablero][k.c], p)
                      /\ Holds(locks_casillas[k.tablero][k.c], p)

(* The order in which the locks are taken (sort by row and column, sweep   *)
(* of the board) leaves no circular wait among players: in any set of two  *)
(* or more there is one who waits for no other of them, or for itself.     *)
NoCircularWait ==
    \A S \in SUBSET Players :
        Cardinality(S) > 1 =>
            \E p \in S : WaitsForItself(p) \/ \A q \in S \ {p} : ~ WaitsFor(p, q)

(* Put letters are in one line, and the cells between two of them are      *)
(* filled by the same word or by confirmed ones: what es_ficha_valida_en   *)
(* _palabra checks against the letters put so far stays true as the boards *)
(* change.                                                                 *)
WordHasNoGaps ==
    \A p \in Players : \E eje \in {1, 2} :
        \A i, j \in DOMAIN palabra_actual[p] :
            LET a == palabra_actual[p][i]
                b == palabra_actual[p][j]
            IN  /\ a[eje] = b[eje]
                /\ \A c \in Casilleros :
                      c[eje] = a[eje] /\ a[3 - eje] < c[3 - eje] /\ c[3 - eje] < b[3 - eje] =>
                          Lleno(p, c)

(* A thread that answers, or receives the next command, has released      *)
(* every lock it took; one that ended keeps at most the read locks of an   *)
(* UPDATE that could not be sent.                                          *)
NoLockLeftBehind ==
    \A p \in Players : \A b \in Tableros : \A c \in Casilleros :
        LET l == locks_casillas[b][c] IN
        /\ pc[p] \in {"recibir", "ok", "error"} => ~ Holds(l, p) /\ ~ Espera(l, p)
        /\ pc[p] = "fin" => p \notin l.writers /\ (p \in l.readers => b = "palabras")

(* "Si el casillero está ocupado, tampoco es válida": two players never    *)
(* have an unconfirmed letter in the same cell.                            *)
OneOwnerPerCell ==
    \A p, q \in Players : p # q =>
        \A c \in Casilleros :
            ~ (puso_letra_en(c, palabra_actual[p]) /\ puso_letra_en(c, palabra_actual[q]))

Esperando(p) == \E k \in Pide(p) : Espera(locks_casillas[k.tablero][k.c], p)

(* "No puede haber deadlock": while the server lives, a thread that waits  *)
(* for a lock gets it.                                                     *)
NobodyWaitsForever ==
    \A p \in Players : Esperando(p) ~> (~ Esperando(p) \/ caido)
=============================================================================
