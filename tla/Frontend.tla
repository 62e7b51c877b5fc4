------------------------------ MODULE Frontend ------------------------------
(***************************************************************************)
(* The HTTP front-end of the game, tp2/src/frontend/frontend.py, between   *)
(* the browsers (static/cliente.html) and the game server.  HTTPServer has *)
(* one thread, which attends the requests in the order of their arrival;   *)
(* a browser may have several pending.  The game server is known by what   *)
(* its connections do: it answers, closes or dies.                         *)
(***************************************************************************)
EXTENDS Integers, SequencesExt, FiniteSetsExt

CONSTANTS
    Navegadores,
    Ids,             \* what random() may give
    MaxPedidos       \* bound: requests pending at a time

VARIABLES
    visible,   \* browser -> the parts of its page that are shown
    id,        \* browser -> its variable id
    pedidos,   \* the requests that wait or are being attended, oldest first
    clientes,  \* id -> its connection, "no" if it is not in the table
    mutex,     \* locked?
    leyendo,   \* is the front-end inside recv?
    backend    \* is the game server up?

pagina == <<visible, id>>
vars == <<pagina, pedidos, clientes, mutex, leyendo, backend>>

Comandos == {"SOY", "LETRA", "PALABRA", "UPDATE"}

(* espera: does the page still wait for the answer? *)
Pedido(nav, que, i) == [nav |-> nav, que |-> que, id |-> i, espera |-> TRUE]

Conocidos == {i \in Ids : clientes[i] # "no"}

EnLinea(b) == {k \in DOMAIN pedidos : pedidos[k].nav = b}

De(b) == {k \in EnLinea(b) : pedidos[k].espera}

TypeOK ==
    /\ visible \in [Navegadores -> SUBSET {"coneccion", "registro", "juego", "error", "fin"}]
    /\ id \in [Navegadores -> Ids \cup {"undefined", "OK"}]
    /\ \A k \in DOMAIN pedidos : /\ pedidos[k].que \in Comandos \cup {"new", "delete"}
                               /\ pedidos[k].espera \in BOOLEAN
    /\ clientes \in [Ids -> {"no", "saludo", "juega", "cerrada", "reset"}]
    /\ mutex \in BOOLEAN /\ backend \in BOOLEAN
    /\ leyendo \in BOOLEAN
    /\ leyendo => /\ pedidos # <<>> /\ pedidos[1].que \in Comandos
                  /\ pedidos[1].id \in Conocidos

Init ==
    /\ visible = [b \in Navegadores |-> {"coneccion"}]
    /\ id = [b \in Navegadores |-> "undefined"]
    /\ pedidos = <<>>
    /\ clientes = [i \in Ids |-> "no"]
    /\ mutex = FALSE /\ leyendo = FALSE
    /\ backend \in BOOLEAN

-----------------------------------------------------------------------------
(* cliente.html: what each part of the page asks for, and what becomes of  *)
(* the page with the answer.                                               *)

Botones == [coneccion |-> {"new"}, registro |-> {"SOY"},
            juego |-> {"LETRA", "PALABRA", "UPDATE", "delete"}, error |-> {}, fin |-> {}]

Pedir(b) ==
    /\ Len(pedidos) < MaxPedidos
    /\ \E p \in visible[b] : \E que \in Botones[p] :
         pedidos' = Append(pedidos, Pedido(b, que, id[b]))
    /\ UNCHANGED <<pagina, clientes, mutex, leyendo, backend>>

Cambiar(b, oculta, muestra) ==
    visible' = [visible EXCEPT ![b] = (@ \ {oculta}) \cup {muestra}]

(* r: the answer is what was "esperada", it is not, or .error was called,  *)
(* which is what happens too when the answer takes more than 5 s.          *)
conectar(b, r, d) ==
    \/ r = "esperada" /\ Cambiar(b, "coneccion", "registro") /\ id' = [id EXCEPT ![b] = d]
    \/ r # "esperada" /\ Cambiar(b, "coneccion", "error") /\ UNCHANGED id

registrar(b, r) ==
    /\ Cambiar(b, "registro", IF r = "esperada" THEN "juego" ELSE "error")
    /\ UNCHANGED id

drop(b, r) ==
    /\ IF r = "esperada" THEN UNCHANGED visible ELSE Cambiar(b, "juego", "error")
    /\ UNCHANGED id

(* Their .error hides a part that is not theirs. *)
palabra_completa(b, r) ==
    /\ CASE r = "esperada"   -> UNCHANGED visible
         [] r = "inesperada" -> Cambiar(b, "juego", "error")
         [] r = "error"      -> Cambiar(b, "coneccion", "error")
    /\ UNCHANGED id

update(b, r) == palabra_completa(b, r)

(* What is answered becomes the id. *)
finalizar(b, r, d) ==
    \/ r = "esperada" /\ Cambiar(b, "juego", "fin") /\ id' = [id EXCEPT ![b] = d]
    \/ r # "esperada" /\ Cambiar(b, "juego", "error") /\ UNCHANGED id

Recibir(b, que, r, d) ==
    CASE que = "new"     -> conectar(b, r, d)
      [] que = "SOY"     -> registrar(b, r)
      [] que = "LETRA"   -> drop(b, r)
      [] que = "PALABRA" -> palabra_completa(b, r)
      [] que = "UPDATE"  -> update(b, r)
      [] que = "delete"  -> finalizar(b, r, d)

(* The page waits no more; the front-end does not know, and the request    *)
(* stays where it was.                                                     *)
VenceElPlazo(b) ==
    /\ \E k \in De(b) : /\ pedidos' = [pedidos EXCEPT ![k].espera = FALSE]
                        /\ Recibir(b, pedidos[k].que, "error", "")
    /\ UNCHANGED <<clientes, mutex, leyendo, backend>>

-----------------------------------------------------------------------------
(* frontend.py: the request attended is the first one.  An exception that  *)
(* nobody catches ends the request, and the mutex stays as it was.         *)

Turno(ques) == pedidos # <<>> /\ pedidos[1].que \in ques /\ ~ leyendo

(* It has its answer, which nobody may be waiting for. *)
Atendido(r, d) ==
    /\ pedidos' = Tail(pedidos)
    /\ IF pedidos[1].espera THEN Recibir(pedidos[1].nav, pedidos[1].que, r, d)
       ELSE UNCHANGED pagina

ErrorSocket ==
    /\ Turno({"new"}) /\ ~ backend
    /\ Atendido("inesperada", "")
    /\ UNCHANGED <<clientes, mutex, leyendo, backend>>

(* Mutant: the id may be that of another browser. *)
SetupRepetido ==
    /\ Turno({"new"}) /\ backend /\ ~ mutex
    /\ \E i \in Ids :
         /\ clientes' = [clientes EXCEPT ![i] = "saludo"]
         /\ Atendido("esperada", i)
    /\ UNCHANGED <<mutex, leyendo, backend>>

do_comandos_setup ==
    /\ Turno({"new"}) /\ backend /\ ~ mutex
    /\ \E i \in Ids \ Conocidos :
         /\ clientes' = [clientes EXCEPT ![i] = "saludo"]
         /\ Atendido("esperada", i)
    /\ UNCHANGED <<mutex, leyendo, backend>>

do_comandos_teardown ==
    /\ Turno({"delete"}) /\ ~ mutex
    /\ pedidos[1].id \in Conocidos /\ clientes[pedidos[1].id] # "reset"
    /\ clientes' = [clientes EXCEPT ![pedidos[1].id] = "no"]
    /\ Atendido("esperada", "OK")
    /\ UNCHANGED <<mutex, leyendo, backend>>

(* The id is not in the table, or shutdown fails: the connection is no     *)
(* longer there.                                                           *)
TeardownRoto ==
    /\ Turno({"delete"}) /\ ~ mutex
    /\ pedidos[1].id \notin Conocidos \/ clientes[pedidos[1].id] = "reset"
    /\ mutex' = TRUE
    /\ Atendido("error", "")
    /\ UNCHANGED <<clientes, leyendo, backend>>

(* sendall; on a connection that the other end closed it still works. *)
do_comandos_execute ==
    /\ Turno(Comandos) /\ ~ mutex
    /\ pedidos[1].id \in Conocidos /\ clientes[pedidos[1].id] # "reset"
    /\ leyendo' = TRUE
    /\ UNCHANGED <<pagina, pedidos, clientes, mutex, backend>>

(* Error 500, and then an error while the "lost connection" is forgotten. *)
ExecuteRoto ==
    /\ Turno(Comandos) /\ ~ mutex
    /\ pedidos[1].id \notin Conocidos
    /\ mutex' = TRUE
    /\ Atendido("error", "")
    /\ UNCHANGED <<clientes, leyendo, backend>>

(* What comes out of the connection of the request. *)
Conexion == clientes[pedidos[1].id]

Pasa(c) == clientes' = [clientes EXCEPT ![pedidos[1].id] = c]

(* recv returns the answer of the game server.  A name said twice has none. *)
Respuesta ==
    /\ leyendo /\ backend
    /\ \/ Conexion = "saludo" /\ pedidos[1].que = "SOY" /\ Pasa("juega")
       \/ Conexion = "juega" /\ pedidos[1].que # "SOY" /\ UNCHANGED clientes
    /\ leyendo' = FALSE
    /\ Atendido("esperada", "")
    /\ UNCHANGED <<mutex, backend>>

(* Mutant: it forgets the connection and reads again. *)
RespuestaVaciaReintenta ==
    /\ leyendo /\ Conexion = "cerrada"
    /\ Pasa("no")
    /\ UNCHANGED <<pagina, pedidos, mutex, leyendo, backend>>

(* recv returns nothing: the game server closed the connection, or closes  *)
(* it because the name was not said first or it is blank.                  *)
RespuestaVacia ==
    /\ leyendo
    /\ \/ Conexion = "cerrada" /\ Pasa("reset")
       \/ Conexion = "saludo" /\ backend /\ Pasa("cerrada")
    /\ leyendo' = FALSE
    /\ Atendido("inesperada", "")
    /\ UNCHANGED <<mutex, backend>>


(* sendall or recv fails, with the mutex free, and the id is forgotten. *)
LostConnection ==
    /\ leyendo \/ (Turno(Comandos) /\ ~ mutex /\ pedidos[1].id \in Conocidos)
    /\ Conexion = "reset"
    /\ Pasa("no")
    /\ leyendo' = FALSE
    /\ Atendido("inesperada", "")
    /\ UNCHANGED <<mutex, backend>>

-----------------------------------------------------------------------------
(* The game server.                                                        *)

(* It ends.  Its connections are closed, or reset if it had not accepted   *)
(* them or had not read what was sent to it.                               *)
Caer ==
    /\ backend
    /\ backend' = FALSE
    /\ \E rotas \in SUBSET {i \in Conocidos : clientes[i] = "saludo"
                                               \/ (leyendo /\ i = pedidos[1].id)} :
         clientes' = [i \in Ids |->
             IF clientes[i] \notin {"saludo", "juega"} THEN clientes[i]
             ELSE IF i \in rotas THEN "reset" ELSE "cerrada"]
    /\ UNCHANGED <<pagina, pedidos, mutex, leyendo>>

Levantar == /\ ~ backend
            /\ backend' = TRUE
            /\ UNCHANGED <<pagina, pedidos, clientes, mutex, leyendo>>

(* The thread of the front-end, with the answer to what it sent. *)
Atender ==
    \/ ErrorSocket \/ do_comandos_setup \/ do_comandos_teardown \/ TeardownRoto
    \/ do_comandos_execute \/ ExecuteRoto
    \/ Respuesta \/ RespuestaVacia \/ LostConnection

Next ==
    \/ Atender \/ Caer \/ Levantar
    \/ \E b \in Navegadores : Pedir(b) \/ VenceElPlazo(b)

(* The thread goes on when it can, and the game server answers. *)
Spec == Init /\ [][Next]_vars /\ WF_vars(Atender)

-----------------------------------------------------------------------------

(* Nobody asks for something before the answer to the previous request or  *)
(* the end of its 5 s...                                                   *)
UnaPorVez == \A b \in Navegadores : Cardinality(De(b)) <= 1

(* ...nor after the page said "el cliente finalizó".                       *)
Pacientes ==
    UnaPorVez /\ \A b \in Navegadores : "error" \in visible[b] => De(b) = {}

(* The browser is in the game and waits for nothing. *)
EnSesion(b) == visible[b] \in {{"registro"}, {"juego"}} /\ De(b) = {}

(* With patient users, a browser that is in the game has a session in the  *)
(* table of the front-end and no other browser is in the same one, so that *)
(* it neither plays nor ends the game of another.                          *)
SesionPropia ==
    []Pacientes => [](\A b \in Navegadores : EnSesion(b) =>
        /\ id[b] \in Conocidos
        /\ \A c \in Navegadores \ {b} : EnSesion(c) => id[c] # id[b])


(* cliente.html:513 says "Se produjo un error no recuperable y el cliente  *)
(* finalizó": a page that shows it shows nothing else, for users that ask  *)
(* for one thing at a time.  But the .error of palabra_completa and update *)
(* leaves the game and its buttons there.                                  *)
ErrorFinaliza ==
    []UnaPorVez => [](\A b \in Navegadores : "error" \in visible[b] => visible[b] = {"error"})

=============================================================================
