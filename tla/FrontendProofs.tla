--------------------------- MODULE FrontendProofs ---------------------------
(***************************************************************************)
(* The front-end of the game, for any browsers, any identifiers and any    *)
(* number of pending requests.                                             *)
(***************************************************************************)
EXTENDS Frontend, FiniteSetTheorems, SequenceTheorems, TLAPS

Partes == {"coneccion", "registro", "juego", "error", "fin"}

Ques == Comandos \cup {"new", "delete"}

LosPedidos == [nav : Navegadores, que : Ques, id : Ids \cup {"undefined", "OK"},
                espera : BOOLEAN]

(* The types, with those of the requests. *)
Tipos ==
    /\ visible \in [Navegadores -> SUBSET Partes]
    /\ id \in [Navegadores -> Ids \cup {"undefined", "OK"}]
    /\ pedidos \in Seq(LosPedidos)
    /\ clientes \in [Ids -> {"no", "saludo", "juega", "cerrada", "reset"}]
    /\ mutex \in BOOLEAN /\ backend \in BOOLEAN /\ leyendo \in BOOLEAN

(* The front-end reads for the first request, from a connection that it    *)
(* knows.                                                                  *)
Lectura ==
    leyendo => /\ pedidos # <<>> /\ pedidos[1].que \in Comandos
               /\ pedidos[1].id \in Conocidos

(* The requests and the first one. *)
LEMMA LosDe ==
    ASSUME Tipos
    PROVE  /\ Len(pedidos) \in Nat /\ DOMAIN pedidos = 1..Len(pedidos)
           /\ \A k \in DOMAIN pedidos : /\ pedidos[k] \in LosPedidos
                                        /\ pedidos[k].nav \in Navegadores
                                        /\ pedidos[k].que \in Ques
                                        /\ pedidos[k].id \in Ids \cup {"undefined", "OK"}
                                        /\ pedidos[k].espera \in BOOLEAN
           /\ pedidos # <<>> => 1 \in DOMAIN pedidos
<1>1. /\ Len(pedidos) \in Nat /\ DOMAIN pedidos = 1..Len(pedidos)
      /\ \A k \in DOMAIN pedidos : pedidos[k] \in LosPedidos
      /\ pedidos # <<>> => 1 \in DOMAIN pedidos
  <2>1. /\ pedidos \in Seq(LosPedidos)
        /\ Len(pedidos) \in Nat /\ DOMAIN pedidos = 1..Len(pedidos)
    BY DEF Tipos
  <2>2. \A k \in DOMAIN pedidos : pedidos[k] \in LosPedidos
    BY <2>1
  <2>3. pedidos # <<>> => Len(pedidos) # 0
    BY <2>1, EmptySeq
  <2> QED BY <2>1, <2>2, <2>3
<1> QED BY <1>1 DEF LosPedidos

(* The rest of the requests, once the first one has its answer. *)
LEMMA ElResto ==
    ASSUME Tipos, pedidos # <<>>, pedidos' = Tail(pedidos)
    PROVE  /\ pedidos' \in Seq(LosPedidos)
           /\ DOMAIN pedidos' = 1..(Len(pedidos) - 1)
           /\ \A k \in DOMAIN pedidos' : k + 1 \in DOMAIN pedidos /\ pedidos'[k] = pedidos[k + 1]
<1>1. pedidos \in Seq(LosPedidos)
  BY DEF Tipos
<1>2. pedidos' \in Seq(LosPedidos) /\ Len(pedidos') = Len(pedidos) - 1
  BY <1>1, HeadTailProperties
<1>3. \A k \in 1..(Len(pedidos) - 1) : pedidos'[k] = pedidos[k + 1]
  BY <1>1, HeadTailProperties
<1> QED BY <1>1, <1>2, <1>3, LosDe, LenProperties

(* A new request goes last. *)
LEMMA UnoMas ==
    ASSUME Tipos, NEW b \in Navegadores, NEW que \in Ques,
           pedidos' = Append(pedidos, Pedido(b, que, id[b]))
    PROVE  /\ pedidos' \in Seq(LosPedidos) /\ pedidos' # <<>>
           /\ DOMAIN pedidos' = 1..(Len(pedidos) + 1)
           /\ \A k \in DOMAIN pedidos : pedidos'[k] = pedidos[k]
           /\ pedidos'[Len(pedidos) + 1] = Pedido(b, que, id[b])
<1> DEFINE e == Pedido(b, que, id[b])
<1>1. pedidos \in Seq(LosPedidos) /\ e \in LosPedidos
  BY DEF Tipos, LosPedidos, Pedido
<1> HIDE DEF e
<1>2. /\ pedidos' = Append(pedidos, e)
      /\ Append(pedidos, e) \in Seq(LosPedidos) /\ Len(Append(pedidos, e)) = Len(pedidos) + 1
      /\ \A k \in 1..Len(pedidos) : Append(pedidos, e)[k] = pedidos[k]
      /\ Append(pedidos, e)[Len(pedidos) + 1] = e
  BY <1>1, AppendProperties DEF e
<1>3. Len(pedidos) \in Nat /\ DOMAIN pedidos = 1..Len(pedidos)
  BY LosDe
<1>4. DOMAIN Append(pedidos, e) = 1..(Len(pedidos) + 1)
  BY <1>2, <1>3, LenProperties
<1>5. Append(pedidos, e) # <<>>
  BY <1>2, <1>3, EmptySeq
<1> QED BY <1>2, <1>3, <1>4, <1>5 DEF e

(* The page waits no more for a request, which stays where it was. *)
LEMMA SinEsperar ==
    ASSUME Tipos, NEW k \in DOMAIN pedidos,
           pedidos' = [pedidos EXCEPT ![k].espera = FALSE]
    PROVE  /\ pedidos' \in Seq(LosPedidos) /\ DOMAIN pedidos' = DOMAIN pedidos
           /\ pedidos' # <<>>
           /\ \A l \in DOMAIN pedidos : /\ pedidos'[l].nav = pedidos[l].nav
                                        /\ pedidos'[l].que = pedidos[l].que
                                        /\ pedidos'[l].id = pedidos[l].id
                                        /\ l # k => pedidos'[l] = pedidos[l]
           /\ ~ pedidos'[k].espera
<1> DEFINE e == [pedidos[k] EXCEPT !.espera = FALSE]
<1>1. /\ pedidos[k] \in LosPedidos /\ pedidos \in Seq(LosPedidos)
      /\ Len(pedidos) \in Nat /\ DOMAIN pedidos = 1..Len(pedidos)
  BY LosDe DEF Tipos
<1>2. /\ e \in LosPedidos /\ e.nav = pedidos[k].nav /\ e.que = pedidos[k].que
      /\ e.id = pedidos[k].id /\ e.espera = FALSE
  BY <1>1 DEF LosPedidos
<1>3. pedidos' = [pedidos EXCEPT ![k] = e]
  OBVIOUS
<1> HIDE DEF e
<1>4. /\ pedidos' \in Seq(LosPedidos) /\ Len(pedidos') = Len(pedidos)
      /\ \A l \in 1..Len(pedidos) : pedidos'[l] = IF l = k THEN e ELSE pedidos[l]
  <2>1. k \in 1..Len(pedidos)
    BY <1>1
  <2>2. /\ [pedidos EXCEPT ![k] = e] \in Seq(LosPedidos)
        /\ Len([pedidos EXCEPT ![k] = e]) = Len(pedidos)
        /\ \A l \in 1..Len(pedidos) : [pedidos EXCEPT ![k] = e][l] = IF l = k THEN e ELSE pedidos[l]
    BY <1>1, <1>2, <2>1, ExceptSeq
  <2> QED BY <1>3, <2>2
<1>5. /\ DOMAIN pedidos' = DOMAIN pedidos /\ pedidos'[k] = e
      /\ \A l \in DOMAIN pedidos : l # k => pedidos'[l] = pedidos[l]
  <2>1. DOMAIN pedidos' = 1..Len(pedidos)
    BY <1>1, <1>4, LenProperties
  <2> QED BY <1>1, <1>4, <2>1
<1>6. pedidos' # <<>>
  BY <1>1, <1>4, EmptySeq
<1> QED BY <1>2, <1>4, <1>5, <1>6

(* What an answer does to the page it is for. *)
Pagina(b, que, r, d) ==
    /\ visible' \in [Navegadores -> SUBSET Partes]
    /\ \A c \in Navegadores \ {b} : visible'[c] = visible[c] /\ id'[c] = id[c]
    /\ CASE que = "new" ->
              visible'[b] = (visible[b] \ {"coneccion"}) \cup {IF r = "esperada" THEN "registro" ELSE "error"}
         [] que = "SOY" ->
              visible'[b] = (visible[b] \ {"registro"}) \cup {IF r = "esperada" THEN "juego" ELSE "error"}
         [] que = "delete" ->
              visible'[b] = (visible[b] \ {"juego"}) \cup {IF r = "esperada" THEN "fin" ELSE "error"}
         [] OTHER ->
              visible'[b] = IF r = "esperada" THEN visible[b]
                            ELSE IF que # "LETRA" /\ r = "error"
                            THEN (visible[b] \ {"coneccion"}) \cup {"error"}
                            ELSE (visible[b] \ {"juego"}) \cup {"error"}
    /\ id' = IF que \in {"new", "delete"} /\ r = "esperada"
             THEN [id EXCEPT ![b] = d] ELSE id

LEMMA Recibido ==
    ASSUME Tipos, NEW b \in Navegadores, NEW que \in Ques,
           NEW r \in {"esperada", "inesperada", "error"}, NEW d, Recibir(b, que, r, d)
    PROVE  Pagina(b, que, r, d)
<1>1. /\ visible \in [Navegadores -> SUBSET Partes]
      /\ id \in [Navegadores -> Ids \cup {"undefined", "OK"}]
  BY DEF Tipos
<1> USE DEF Cambiar, Partes, Ques, Comandos
<1>2. CASE que = "new"
  <2>1. conectar(b, r, d)
    BY <1>2 DEF Recibir
  <2> QED BY <1>1, <1>2, <2>1 DEF conectar, Pagina
<1>3. CASE que = "SOY"
  <2>1. registrar(b, r)
    BY <1>3 DEF Recibir
  <2> QED BY <1>1, <1>3, <2>1 DEF registrar, Pagina
<1>4. CASE que = "delete"
  <2>1. finalizar(b, r, d)
    BY <1>4 DEF Recibir
  <2> QED BY <1>1, <1>4, <2>1 DEF finalizar, Pagina
<1>5. CASE que = "LETRA"
  <2>1. drop(b, r)
    BY <1>5 DEF Recibir
  <2> QED BY <1>1, <1>5, <2>1 DEF drop, Pagina
<1>6. CASE que \in {"PALABRA", "UPDATE"}
  <2>1. palabra_completa(b, r)
    BY <1>6 DEF Recibir, update
  <2> QED BY <1>1, <1>6, <2>1 DEF palabra_completa, Pagina
<1> QED BY <1>2, <1>3, <1>4, <1>5, <1>6

LEMMA Contestado ==
    ASSUME Tipos, pedidos # <<>>, NEW r \in {"esperada", "inesperada", "error"}, NEW d, Atendido(r, d)
    PROVE  /\ pedidos' = Tail(pedidos)
           /\ pedidos[1].espera => Pagina(pedidos[1].nav, pedidos[1].que, r, d)
           /\ ~ pedidos[1].espera => visible' = visible /\ id' = id
<1>1. pedidos[1].nav \in Navegadores /\ pedidos[1].que \in Ques
  BY LosDe
<1>2. ASSUME pedidos[1].espera PROVE Pagina(pedidos[1].nav, pedidos[1].que, r, d)
  <2>1. Recibir(pedidos[1].nav, pedidos[1].que, r, d)
    BY <1>2 DEF Atendido
  <2> QED BY <1>1, <2>1, Recibido
<1>3. ASSUME ~ pedidos[1].espera PROVE visible' = visible /\ id' = id
  BY <1>3 DEF Atendido, pagina
<1>4. pedidos' = Tail(pedidos)
  BY DEF Atendido
<1> QED BY <1>2, <1>3, <1>4
-----------------------------------------------------------------------------
(* The types, whatever the users do.                                       *)

LEMMA TiposAlContestar ==
    ASSUME Tipos, Lectura, pedidos # <<>>,
           NEW r \in {"esperada", "inesperada", "error"}, NEW d, Atendido(r, d),
           pedidos[1].que \in {"new", "delete"} /\ r = "esperada" => d \in Ids \cup {"undefined", "OK"},
           mutex' \in BOOLEAN, backend' \in BOOLEAN, leyendo' = FALSE,
           clientes' \in [Ids -> {"no", "saludo", "juega", "cerrada", "reset"}]
    PROVE  Tipos' /\ Lectura'
<1>1. PICK b \in Navegadores : pedidos[1].nav = b
  BY LosDe
<1>2. /\ pedidos' = Tail(pedidos)
      /\ \/ Pagina(b, pedidos[1].que, r, d)
         \/ visible' = visible /\ id' = id
  BY <1>1, Contestado
<1>3. pedidos' \in Seq(LosPedidos)
  BY <1>2, ElResto
<1>4. id' \in [Navegadores -> Ids \cup {"undefined", "OK"}]
  BY <1>2 DEF Pagina, Tipos
<1>5. visible' \in [Navegadores -> SUBSET Partes]
  BY <1>2 DEF Pagina, Tipos
<1> QED BY <1>3, <1>4, <1>5 DEF Tipos, Lectura

(* A page waits no more. *)
LEMMA TiposAlVencer ==
    ASSUME Tipos, Lectura, NEW b \in Navegadores, VenceElPlazo(b)
    PROVE  Tipos' /\ Lectura'
<1>1. PICK k \in De(b) : /\ pedidos' = [pedidos EXCEPT ![k].espera = FALSE]
                         /\ Recibir(b, pedidos[k].que, "error", "")
  BY DEF VenceElPlazo
<1>2. k \in DOMAIN pedidos
  BY DEF De, EnLinea
<1>3. /\ pedidos' \in Seq(LosPedidos) /\ pedidos' # <<>> /\ DOMAIN pedidos' = DOMAIN pedidos
      /\ \A l \in DOMAIN pedidos : pedidos'[l].que = pedidos[l].que /\ pedidos'[l].id = pedidos[l].id
  BY <1>1, <1>2, SinEsperar
<1>4. UNCHANGED <<clientes, mutex, leyendo, backend>> /\ Conocidos' = Conocidos
  BY DEF VenceElPlazo, Conocidos
<1>5. pedidos[k].que \in Ques
  BY <1>2, LosDe
<1>6. Pagina(b, pedidos[k].que, "error", "")
  BY <1>1, <1>5, Recibido
<1>7. visible' \in [Navegadores -> SUBSET Partes] /\ id' = id
  BY <1>6 DEF Pagina
<1>8. leyendo => 1 \in DOMAIN pedidos
  BY LosDe DEF Lectura
<1> QED BY <1>3, <1>4, <1>7, <1>8 DEF Tipos, Lectura

LEMMA PasoTipos == Tipos /\ Lectura /\ [Next]_vars => Tipos' /\ Lectura'
<1> SUFFICES ASSUME Tipos, Lectura, [Next]_vars PROVE Tipos' /\ Lectura'
  OBVIOUS
<1> DEFINE Estados == {"no", "saludo", "juega", "cerrada", "reset"}
<1>1. CASE ErrorSocket
  <2>1. /\ pedidos # <<>> /\ Atendido("inesperada", "") /\ leyendo' = FALSE
        /\ mutex' \in BOOLEAN /\ backend' \in BOOLEAN /\ clientes' \in [Ids -> Estados]
    BY <1>1 DEF ErrorSocket, Turno, Tipos
  <2> QED BY <2>1, TiposAlContestar
<1>2. CASE do_comandos_setup
  <2>1. PICK i \in Ids : /\ clientes' = [clientes EXCEPT ![i] = "saludo"] /\ Atendido("esperada", i)
    BY <1>2 DEF do_comandos_setup
  <2>2. /\ pedidos # <<>> /\ leyendo' = FALSE
        /\ mutex' \in BOOLEAN /\ backend' \in BOOLEAN /\ clientes' \in [Ids -> Estados]
    BY <1>2, <2>1 DEF do_comandos_setup, Turno, Tipos
  <2> QED BY <2>1, <2>2, TiposAlContestar
<1>3. CASE do_comandos_teardown
  <2>1. /\ pedidos # <<>> /\ Atendido("esperada", "OK") /\ leyendo' = FALSE
        /\ mutex' \in BOOLEAN /\ backend' \in BOOLEAN /\ clientes' \in [Ids -> Estados]
    BY <1>3 DEF do_comandos_teardown, Turno, Tipos
  <2> QED BY <2>1, TiposAlContestar
<1>4. CASE TeardownRoto \/ ExecuteRoto
  <2>1. /\ pedidos # <<>> /\ Atendido("error", "") /\ leyendo' = FALSE
        /\ mutex' \in BOOLEAN /\ backend' \in BOOLEAN /\ clientes' \in [Ids -> Estados]
    BY <1>4 DEF TeardownRoto, ExecuteRoto, Turno, Tipos
  <2> QED BY <2>1, TiposAlContestar
<1>5. CASE do_comandos_execute
  <2>1. /\ visible' = visible /\ id' = id /\ UNCHANGED <<pedidos, clientes, mutex, backend>>
        /\ leyendo' = TRUE /\ pedidos # <<>> /\ pedidos[1].que \in Comandos
        /\ pedidos[1].id \in Conocidos /\ Conocidos' = Conocidos
    BY <1>5 DEF do_comandos_execute, pagina, Turno, Conocidos
  <2> QED BY <2>1 DEF Tipos, Lectura
<1>6. CASE Respuesta \/ RespuestaVacia \/ LostConnection
  <2>1. /\ pedidos # <<>> /\ pedidos[1].que \in Comandos
        /\ leyendo' = FALSE /\ UNCHANGED <<mutex, backend>>
    BY <1>6 DEF Lectura, Respuesta, RespuestaVacia, LostConnection, Turno
  <2>2. pedidos[1].que \notin {"new", "delete"} /\ mutex' \in BOOLEAN /\ backend' \in BOOLEAN
    BY <2>1 DEF Comandos, Tipos
  <2>3. PICK r \in {"esperada", "inesperada"} : Atendido(r, "")
    BY <1>6 DEF Respuesta, RespuestaVacia, LostConnection
  <2>4. clientes' \in [Ids -> Estados]
    BY <1>6 DEF Respuesta, RespuestaVacia, LostConnection, Pasa, Tipos
  <2>5. r \in {"esperada", "inesperada", "error"}
    OBVIOUS
  <2> QED BY <2>1, <2>2, <2>3, <2>4, <2>5, TiposAlContestar
<1>7. CASE Caer \/ Levantar
  <2>1. /\ visible' = visible /\ id' = id /\ UNCHANGED <<pedidos, mutex, leyendo>>
        /\ backend' \in BOOLEAN
    BY <1>7 DEF Caer, Levantar, pagina
  <2>2. clientes' \in [Ids -> Estados] /\ Conocidos' = Conocidos
    BY <1>7 DEF Caer, Levantar, Tipos, Conocidos
  <2> QED BY <2>1, <2>2 DEF Tipos, Lectura
<1>8. ASSUME NEW b \in Navegadores, Pedir(b) PROVE Tipos' /\ Lectura'
  <2>1. PICK p \in visible[b] : \E q \in Botones[p] : pedidos' = Append(pedidos, Pedido(b, q, id[b]))
    BY <1>8 DEF Pedir
  <2>2. PICK que \in Botones[p] : pedidos' = Append(pedidos, Pedido(b, que, id[b]))
    BY <2>1
  <2>3. p \in Partes
    BY <2>1 DEF Tipos
  <2>4. que \in Ques
    BY <2>2, <2>3 DEF Partes, Botones, Ques, Comandos
  <2>5. /\ pedidos' \in Seq(LosPedidos) /\ pedidos' # <<>>
        /\ \A k \in DOMAIN pedidos : pedidos'[k] = pedidos[k]
    BY <2>2, <2>4, UnoMas
  <2>6. /\ visible' = visible /\ id' = id /\ UNCHANGED <<clientes, mutex, leyendo, backend>>
        /\ Conocidos' = Conocidos
    BY <1>8 DEF Pedir, pagina, Conocidos
  <2>7. leyendo => 1 \in DOMAIN pedidos
    BY LosDe DEF Lectura
  <2> QED BY <2>5, <2>6, <2>7 DEF Tipos, Lectura
<1>9. ASSUME NEW b \in Navegadores, VenceElPlazo(b) PROVE Tipos' /\ Lectura'
  BY <1>9, TiposAlVencer
<1>10. CASE UNCHANGED vars
  BY <1>10 DEF vars, pagina, Tipos, Lectura, Conocidos
<1> QED BY <1>1, <1>2, <1>3, <1>4, <1>5, <1>6, <1>7, <1>8, <1>9, <1>10 DEF Next, Atender

-----------------------------------------------------------------------------
(* Sessions, with patient users.                                           *)

(* The pages in the game. *)
Activa(b) == visible[b] \in {{"registro"}, {"juego"}}

(* The browsers whose id matters: those in the game, and those with a      *)
(* request for their session in the line, which may wait for it no more.   *)
Sesion(b) == Activa(b) \/ \E k \in EnLinea(b) : pedidos[k].que # "new"

Paginas ==
    \A b \in Navegadores :
        visible[b] \in {{"coneccion"}, {"registro"}, {"juego"}, {"error"}, {"fin"},
                       {"juego", "error"}}

(* What the page that asks for que shows. *)
Origen(que) ==
    IF que = "new" THEN {"coneccion"} ELSE IF que = "SOY" THEN {"registro"} ELSE {"juego"}

(* Each browser has one request at most, with its id.  If the page waits   *)
(* for it, the page is what it was; if it waits no more, it shows an error.*)
DePagina ==
    \A k \in DOMAIN pedidos :
        LET b == pedidos[k].nav IN
        /\ \A l \in EnLinea(b) : l = k
        /\ pedidos[k].que # "new" => pedidos[k].id = id[b]
        /\ pedidos[k].espera => visible[b] = Origen(pedidos[k].que)
        /\ ~ pedidos[k].espera => "error" \in visible[b]

Sesiones ==
    \A b \in Navegadores : Sesion(b) =>
        id[b] \in Conocidos /\ \A c \in Navegadores \ {b} : Sesion(c) => id[c] # id[b]

(* A session lasts while its page does (Sesiones): for that, the requests  *)
(* in the line are of the page and of its id (DePagina), those that nobody *)
(* waits for included, since they are attended all the same.               *)
IInv == Tipos /\ Lectura /\ Paginas /\ DePagina /\ Sesiones

(* The parts of the page, one by one. *)
LEMMA Aspectos ==
    /\ \A x \in {"coneccion", "registro", "juego", "fin"} : "error" \notin {x}
    /\ \A x \in Partes : x \in {"coneccion", "error", "fin"} => {x} \notin {{"registro"}, {"juego"}}
    /\ {"juego", "error"} \notin {{"registro"}, {"juego"}}
<1>1. \A x, y : {x} = {y} => x = y
  <2> SUFFICES ASSUME NEW x, NEW y, {x} = {y} PROVE x = y
    OBVIOUS
  <2>1. x \in {y}
    OBVIOUS
  <2> QED BY <2>1
<1>2. \A y : {"juego", "error"} = {y} => "juego" = "error"
  <2> SUFFICES ASSUME NEW y, {"juego", "error"} = {y} PROVE "juego" = "error"
    OBVIOUS
  <2>1. "juego" \in {y} /\ "error" \in {y}
    OBVIOUS
  <2> QED BY <2>1
<1>3. \A x \in Partes : x \in {"coneccion", "error", "fin"} => {x} \notin {{"registro"}, {"juego"}}
  BY <1>1 DEF Partes
<1>4. {"juego", "error"} \notin {{"registro"}, {"juego"}}
  BY <1>2
<1>5. \A x \in {"coneccion", "registro", "juego", "fin"} : "error" \notin {x}
  OBVIOUS
<1> QED BY <1>3, <1>4, <1>5

LEMMA UnoComoMucho ==
    ASSUME NEW S, IsFiniteSet(S), Cardinality(S) <= 1, NEW x \in S, NEW y \in S
    PROVE  x = y
<1>1. IsFiniteSet(S \ {x}) /\ Cardinality(S \ {x}) = Cardinality(S) - 1
  BY FS_RemoveElement
<1>2. Cardinality(S \ {x}) \in Nat /\ Cardinality(S) \in Nat
  BY <1>1, FS_CardinalityType
<1>3. Cardinality(S \ {x}) = 0
  BY <1>1, <1>2
<1>4. S \ {x} = {}
  BY <1>1, <1>3, FS_EmptySet
<1> QED BY <1>4

(* A connection changes in the table. *)
LEMMA UnaConexion ==
    ASSUME Tipos, NEW i \in Ids, NEW c \in {"no", "saludo", "juega", "cerrada", "reset"},
           clientes' = [clientes EXCEPT ![i] = c]
    PROVE  /\ clientes' \in [Ids -> {"no", "saludo", "juega", "cerrada", "reset"}]
           /\ Conocidos' = IF c = "no" THEN Conocidos \ {i} ELSE Conocidos \cup {i}
BY DEF Tipos, Conocidos

(* The first request has its answer: what each page and each request knows *)
(* afterwards.                                                             *)
LEMMA Respondido ==
    ASSUME IInv, pedidos # <<>>,
           NEW b \in Navegadores, pedidos[1].nav = b,
           NEW r \in {"esperada", "inesperada", "error"}, NEW d, Atendido(r, d),
           pedidos[1].que \in {"new", "delete"} /\ r = "esperada" => d \in Ids \cup {"undefined", "OK"},
           mutex' \in BOOLEAN,
           clientes' \in [Ids -> {"no", "saludo", "juega", "cerrada", "reset"}],
           backend' \in BOOLEAN, leyendo' = FALSE
    PROVE  /\ Tipos' /\ Lectura' /\ Paginas' /\ DePagina'
           /\ \A c \in Navegadores \ {b} : Sesion(c)' => Sesion(c) /\ id'[c] = id[c]
           /\ Sesion(b)' => \/ pedidos[1].que = "new" /\ r = "esperada" /\ id'[b] = d
                            \/ Sesion(b) /\ id'[b] = id[b] /\ r = "esperada"
                                 /\ pedidos[1].que \notin {"new", "delete"}
           /\ pedidos[1].que # "new" => Sesion(b) /\ pedidos[1].id = id[b]
<1> DEFINE que == pedidos[1].que
<1>1. /\ pedidos' = Tail(pedidos)
      /\ pedidos[1].espera => Pagina(b, que, r, d)
      /\ ~ pedidos[1].espera => visible' = visible /\ id' = id
      /\ que \in Ques /\ 1 \in DOMAIN pedidos /\ pedidos[1].espera \in BOOLEAN
  BY Contestado, LosDe DEF IInv
<1>2. Tipos' /\ Lectura'
  BY TiposAlContestar DEF IInv
<1>3. /\ \A l \in EnLinea(b) : l = 1
      /\ que # "new" => pedidos[1].id = id[b]
      /\ pedidos[1].espera => visible[b] = Origen(que)
      /\ ~ pedidos[1].espera => "error" \in visible[b]
  BY <1>1 DEF IInv, DePagina
<1>4. \A c \in Navegadores \ {b} : visible'[c] = visible[c] /\ id'[c] = id[c]
  BY <1>1 DEF Pagina
<1>5. \A k \in DOMAIN pedidos' :
         /\ k + 1 \in DOMAIN pedidos /\ pedidos'[k] = pedidos[k + 1]
         /\ pedidos'[k].nav \in Navegadores \ {b}
  <2> SUFFICES ASSUME NEW k \in DOMAIN pedidos'
               PROVE  /\ k + 1 \in DOMAIN pedidos /\ pedidos'[k] = pedidos[k + 1]
                      /\ pedidos'[k].nav \in Navegadores \ {b}
    OBVIOUS
  <2>1. k + 1 \in DOMAIN pedidos /\ pedidos'[k] = pedidos[k + 1] /\ k \in 1..(Len(pedidos) - 1)
    BY <1>1, ElResto DEF IInv
  <2>2. k + 1 # 1
    <3>1. Len(pedidos) \in Nat
      BY LosDe DEF IInv
    <3> QED BY <2>1, <3>1
  <2>3. pedidos[k + 1].nav \in Navegadores /\ (pedidos[k + 1].nav = b => k + 1 \in EnLinea(b))
    BY <2>1, LosDe DEF IInv, EnLinea
  <2> QED BY <1>3, <2>1, <2>2, <2>3
<1>6. /\ EnLinea(b)' = {}
      /\ \A c \in Navegadores : \A k \in EnLinea(c)' :
            k + 1 \in EnLinea(c) /\ pedidos'[k] = pedidos[k + 1]
  BY <1>5 DEF EnLinea
<1>7. DePagina'
  <2> SUFFICES ASSUME NEW k \in DOMAIN pedidos', NEW c \in Navegadores \ {b}, pedidos'[k].nav = c
               PROVE  /\ \A l \in EnLinea(c)' : l = k
                      /\ pedidos'[k].que # "new" => pedidos'[k].id = id'[c]
                      /\ pedidos'[k].espera => visible'[c] = Origen(pedidos'[k].que)
                      /\ ~ pedidos'[k].espera => "error" \in visible'[c]
    BY <1>5 DEF DePagina
  <2>1. k + 1 \in DOMAIN pedidos /\ pedidos'[k] = pedidos[k + 1] /\ pedidos[k + 1].nav = c
    BY <1>5
  <2>2. /\ \A l \in EnLinea(c) : l = k + 1
        /\ pedidos[k + 1].que # "new" => pedidos[k + 1].id = id[c]
        /\ pedidos[k + 1].espera => visible[c] = Origen(pedidos[k + 1].que)
        /\ ~ pedidos[k + 1].espera => "error" \in visible[c]
    BY <2>1 DEF IInv, DePagina
  <2>3. \A l \in EnLinea(c)' : l = k
    <3>1. DOMAIN pedidos' = 1..(Len(pedidos) - 1) /\ Len(pedidos) \in Nat
      BY <1>1, ElResto, LosDe DEF IInv
    <3>2. \A l \in EnLinea(c)' : l \in DOMAIN pedidos' /\ l + 1 = k + 1
      BY <1>6, <2>2 DEF EnLinea
    <3> QED BY <3>1, <3>2
  <2>4. visible'[c] = visible[c] /\ id'[c] = id[c]
    BY <1>4
  <2> QED BY <2>1, <2>2, <2>3, <2>4
<1>8. \A c \in Navegadores \ {b} : Sesion(c)' => Sesion(c) /\ id'[c] = id[c]
  BY <1>4, <1>6 DEF Sesion, Activa
<1>9. que # "new" => Sesion(b) /\ pedidos[1].id = id[b]
  BY <1>1, <1>3 DEF Sesion, EnLinea
<1>10. Sesion(b)' => visible'[b] \in {{"registro"}, {"juego"}}
  BY <1>6 DEF Sesion, Activa
<1>11. Paginas' <=> visible'[b] \in {{"coneccion"}, {"registro"}, {"juego"}, {"error"}, {"fin"},
                                     {"juego", "error"}}
  <2>1. \A c \in Navegadores \ {b} :
           visible'[c] \in {{"coneccion"}, {"registro"}, {"juego"}, {"error"}, {"fin"},
                           {"juego", "error"}}
    BY <1>4 DEF IInv, Paginas
  <2> QED BY <2>1 DEF Paginas
<1> HIDE DEF que
<1>12. ASSUME Paginas',
              Sesion(b)' => \/ que = "new" /\ r = "esperada" /\ id'[b] = d
                            \/ que \notin {"new", "delete"} /\ id'[b] = id[b] /\ r = "esperada"
       PROVE  /\ Tipos' /\ Lectura' /\ Paginas' /\ DePagina'
              /\ \A c \in Navegadores \ {b} : Sesion(c)' => Sesion(c) /\ id'[c] = id[c]
              /\ Sesion(b)' => \/ que = "new" /\ r = "esperada" /\ id'[b] = d
                               \/ Sesion(b) /\ id'[b] = id[b] /\ r = "esperada"
                                    /\ que \notin {"new", "delete"}
              /\ que # "new" => Sesion(b) /\ pedidos[1].id = id[b]
  BY <1>2, <1>7, <1>8, <1>9, <1>12
<1>13. CASE ~ pedidos[1].espera
  <2>1. visible' = visible /\ "error" \in visible[b]
    BY <1>1, <1>3, <1>13
  <2>2. Paginas'
    BY <2>1 DEF IInv, Paginas
  <2>3. ~ Sesion(b)'
    BY <1>10, <2>1, Aspectos
  <2> QED BY <1>12, <2>2, <2>3 DEF que
<1>14. CASE pedidos[1].espera /\ que = "new"
  <2>1. visible'[b] = (IF r = "esperada" THEN {"registro"} ELSE {"error"})
    BY <1>1, <1>3, <1>14 DEF Pagina, Origen
  <2>2. r = "esperada" => id'[b] = d
    BY <1>1, <1>14 DEF Pagina, IInv, Tipos
  <2>3. Paginas'
    BY <1>11, <2>1
  <2>4. Sesion(b)' => r = "esperada"
    BY <1>10, <2>1, Aspectos DEF Partes
  <2> QED BY <1>12, <1>14, <2>2, <2>3, <2>4 DEF que
<1>15. CASE pedidos[1].espera /\ que = "SOY"
  <2>1. visible'[b] = (IF r = "esperada" THEN {"juego"} ELSE {"error"}) /\ id' = id
    BY <1>1, <1>3, <1>15 DEF Pagina, Origen
  <2>2. Paginas'
    BY <1>11, <2>1
  <2>3. Sesion(b)' => r = "esperada"
    BY <1>10, <2>1, Aspectos DEF Partes
  <2> QED BY <1>12, <1>15, <2>1, <2>2, <2>3 DEF que
<1>16. CASE pedidos[1].espera /\ que = "delete"
  <2>1. visible'[b] = (IF r = "esperada" THEN {"fin"} ELSE {"error"})
    BY <1>1, <1>3, <1>16 DEF Pagina, Origen
  <2>2. Paginas'
    BY <1>11, <2>1
  <2>3. ~ Sesion(b)'
    BY <1>10, <2>1, Aspectos DEF Partes
  <2> QED BY <1>12, <2>2, <2>3 DEF que
<1>17. CASE pedidos[1].espera /\ que \notin {"new", "SOY", "delete"}
  <2>1. /\ id' = id
        /\ \/ r = "esperada" /\ visible'[b] = {"juego"}
           \/ r # "esperada" /\ visible'[b] = {"error"}
           \/ r # "esperada" /\ visible'[b] = {"juego", "error"}
    BY <1>1, <1>3, <1>17 DEF Pagina, Origen
  <2>2. Paginas'
    BY <1>11, <2>1
  <2>3. Sesion(b)' => r = "esperada"
    BY <1>10, <2>1, Aspectos DEF Partes
  <2> QED BY <1>12, <1>17, <2>1, <2>2, <2>3 DEF que
<1> QED BY <1>1, <1>13, <1>14, <1>15, <1>16, <1>17

(* The sessions of the others last, and that of the browser attended, if   *)
(* it goes on, stays in the table and is its own.                          *)
LEMMA SesionesSiguen ==
    ASSUME IInv, NEW b \in Navegadores,
           \A c \in Navegadores \ {b} : Sesion(c)' => Sesion(c) /\ id'[c] = id[c],
           \/ Conocidos \subseteq Conocidos'
           \/ Sesion(b) /\ Conocidos \ {id[b]} \subseteq Conocidos',
           Sesion(b)' => \/ Sesion(b) /\ id'[b] = id[b] /\ id[b] \in Conocidos'
                        \/ id'[b] \in Conocidos' \ Conocidos
    PROVE  Sesiones'
<1>1. ASSUME NEW c \in Navegadores \ {b}, Sesion(c)'
      PROVE  /\ Sesion(c) /\ id'[c] = id[c] /\ id[c] \in Conocidos /\ id[c] \in Conocidos'
             /\ Sesion(b) => id[c] # id[b]
  <2>1. Sesion(c) /\ id'[c] = id[c]
    BY <1>1
  <2>2. id[c] \in Conocidos /\ (Sesion(b) => id[c] # id[b])
    BY <2>1 DEF IInv, Sesiones
  <2> QED BY <2>1, <2>2
<1>2. ASSUME NEW c \in Navegadores, NEW e \in Navegadores \ {c}, Sesion(c)', Sesion(e)'
      PROVE  id'[e] # id'[c]
  <2>1. CASE c # b /\ e # b
    <3>1. Sesion(c) /\ id'[c] = id[c] /\ Sesion(e) /\ id'[e] = id[e]
      BY <1>1, <1>2, <2>1
    <3> QED BY <3>1 DEF IInv, Sesiones
  <2>2. CASE c = b
    BY <1>1, <1>2, <2>2
  <2>3. CASE e = b
    BY <1>1, <1>2, <2>3
  <2> QED BY <2>1, <2>2, <2>3
<1>3. ASSUME NEW c \in Navegadores, Sesion(c)' PROVE id'[c] \in Conocidos'
  BY <1>1, <1>3
<1> QED BY <1>2, <1>3 DEF Sesiones

(* Nothing of the table, of the line or of the pages changes. *)
LEMMA Quietas ==
    ASSUME IInv, UNCHANGED pagina, UNCHANGED pedidos, Conocidos' = Conocidos
    PROVE  Paginas' /\ DePagina' /\ Sesiones'
<1>1. visible' = visible /\ id' = id
  BY DEF pagina
<1>2. Paginas' /\ DePagina'
  BY <1>1 DEF IInv, Paginas, DePagina, EnLinea
<1>3. \A b \in Navegadores : Sesion(b)' = Sesion(b)
  BY <1>1 DEF Sesion, Activa, EnLinea
<1>4. Sesiones'
  BY <1>1, <1>3 DEF IInv, Sesiones
<1> QED BY <1>2, <1>4

-----------------------------------------------------------------------------
(* Each action.                                                            *)

LEMMA PasoErrorSocket ==
    ASSUME IInv, ErrorSocket PROVE IInv'
<1>1. /\ pedidos # <<>> /\ pedidos[1].que = "new" /\ ~ leyendo /\ Atendido("inesperada", "")
      /\ UNCHANGED <<clientes, mutex, leyendo, backend>>
  BY DEF ErrorSocket, Turno
<1>2. PICK b \in Navegadores : pedidos[1].nav = b
  BY <1>1, LosDe DEF IInv
<1>3. /\ Tipos' /\ Lectura' /\ Paginas' /\ DePagina'
      /\ \A c \in Navegadores \ {b} : Sesion(c)' => Sesion(c) /\ id'[c] = id[c]
      /\ ~ Sesion(b)'
  BY <1>1, <1>2, Respondido DEF IInv, Tipos
<1>4. Conocidos' = Conocidos
  BY <1>1 DEF Conocidos
<1>5. Sesiones'
  BY <1>3, <1>4, SesionesSiguen
<1> QED BY <1>3, <1>5 DEF IInv

LEMMA PasoSetup ==
    ASSUME IInv, do_comandos_setup PROVE IInv'
<1>1. /\ pedidos # <<>> /\ pedidos[1].que = "new" /\ ~ leyendo
      /\ UNCHANGED <<mutex, leyendo, backend>>
  BY DEF do_comandos_setup, Turno
<1>2. PICK i \in Ids \ Conocidos : /\ clientes' = [clientes EXCEPT ![i] = "saludo"]
                                   /\ Atendido("esperada", i)
  BY DEF do_comandos_setup
<1>3. PICK b \in Navegadores : pedidos[1].nav = b
  BY <1>1, LosDe DEF IInv
<1>4. /\ clientes' \in [Ids -> {"no", "saludo", "juega", "cerrada", "reset"}]
      /\ Conocidos' = Conocidos \cup {i}
  BY <1>2, UnaConexion DEF IInv
<1>5. mutex' \in BOOLEAN /\ backend' \in BOOLEAN /\ leyendo' = FALSE
  BY <1>1 DEF IInv, Tipos
<1>6. /\ Tipos' /\ Lectura' /\ Paginas' /\ DePagina'
      /\ \A c \in Navegadores \ {b} : Sesion(c)' => Sesion(c) /\ id'[c] = id[c]
      /\ Sesion(b)' => id'[b] = i
  <2>1. i \in Ids \cup {"undefined", "OK"}
    BY <1>1
  <2>2. Atendido("esperada", i)
    BY <1>2
  <2> QED BY <1>1, <1>3, <1>4, <1>5, <2>1, <2>2, Respondido
<1>7. Sesiones'
  BY <1>4, <1>6, SesionesSiguen
<1> QED BY <1>6, <1>7 DEF IInv

LEMMA PasoTeardown ==
    ASSUME IInv, do_comandos_teardown PROVE IInv'
<1>1. /\ pedidos # <<>> /\ pedidos[1].que = "delete" /\ ~ leyendo
      /\ pedidos[1].id \in Conocidos /\ Atendido("esperada", "OK")
      /\ clientes' = [clientes EXCEPT ![pedidos[1].id] = "no"]
      /\ UNCHANGED <<mutex, leyendo, backend>>
  BY DEF do_comandos_teardown, Turno
<1>2. PICK b \in Navegadores : pedidos[1].nav = b
  BY <1>1, LosDe DEF IInv
<1>3. PICK i \in Ids : i = pedidos[1].id
  BY <1>1 DEF Conocidos
<1>4. /\ clientes' \in [Ids -> {"no", "saludo", "juega", "cerrada", "reset"}]
      /\ Conocidos' = Conocidos \ {i}
  BY <1>1, <1>3, UnaConexion DEF IInv
<1>5. mutex' \in BOOLEAN /\ backend' \in BOOLEAN /\ leyendo' = FALSE
  BY <1>1 DEF IInv, Tipos
<1>6. /\ Tipos' /\ Lectura' /\ Paginas' /\ DePagina'
      /\ \A c \in Navegadores \ {b} : Sesion(c)' => Sesion(c) /\ id'[c] = id[c]
      /\ ~ Sesion(b)' /\ Sesion(b) /\ i = id[b]
  BY <1>1, <1>2, <1>3, <1>4, <1>5, Respondido
<1>7. Sesiones'
  BY <1>4, <1>6, SesionesSiguen
<1> QED BY <1>6, <1>7 DEF IInv

(* An exception: the page, if it still waits, goes to the error. *)
LEMMA PasoRoto ==
    ASSUME IInv, pedidos # <<>>, ~ leyendo, mutex' = TRUE,
           Atendido("error", ""), UNCHANGED <<clientes, leyendo, backend>>
    PROVE  IInv'
<1>1. PICK b \in Navegadores : pedidos[1].nav = b
  BY LosDe DEF IInv
<1>2. /\ clientes' \in [Ids -> {"no", "saludo", "juega", "cerrada", "reset"}]
      /\ mutex' \in BOOLEAN /\ backend' \in BOOLEAN /\ leyendo' = FALSE
      /\ Conocidos' = Conocidos
  BY DEF IInv, Tipos, Conocidos
<1>3. /\ Tipos' /\ Lectura' /\ Paginas' /\ DePagina'
      /\ \A c \in Navegadores \ {b} : Sesion(c)' => Sesion(c) /\ id'[c] = id[c]
      /\ ~ Sesion(b)'
  BY <1>1, <1>2, Respondido
<1>4. Sesiones'
  BY <1>2, <1>3, SesionesSiguen
<1> QED BY <1>3, <1>4 DEF IInv

LEMMA PasoExecute ==
    ASSUME IInv, do_comandos_execute PROVE IInv'
<1>1. /\ pedidos # <<>> /\ pedidos[1].que \in Comandos /\ pedidos[1].id \in Conocidos
      /\ leyendo' = TRUE /\ UNCHANGED <<pagina, pedidos, clientes, mutex, backend>>
  BY DEF do_comandos_execute, Turno
<1>2. visible' = visible /\ id' = id
  BY <1>1 DEF pagina
<1>3. Conocidos' = Conocidos
  BY <1>1 DEF Conocidos
<1>4. Tipos' /\ Lectura'
  BY <1>1, <1>2, <1>3 DEF IInv, Tipos, Lectura
<1>5. Paginas' /\ DePagina' /\ Sesiones'
  BY <1>1, <1>3, Quietas
<1> QED BY <1>4, <1>5 DEF IInv

(* A command has its answer, and its connection becomes what it becomes. *)
LEMMA PasoComando ==
    ASSUME IInv, pedidos # <<>>, pedidos[1].que \in Comandos,
           NEW r \in {"esperada", "inesperada"}, Atendido(r, ""),
           clientes' \in [Ids -> {"no", "saludo", "juega", "cerrada", "reset"}],
           \/ Conocidos' = Conocidos
           \/ r = "inesperada" /\ Conocidos' = Conocidos \ {pedidos[1].id},
           leyendo' = FALSE, UNCHANGED <<mutex, backend>>
    PROVE  IInv'
<1>1. PICK b \in Navegadores : pedidos[1].nav = b
  BY LosDe DEF IInv
<1>2. mutex' \in BOOLEAN /\ backend' \in BOOLEAN
  BY DEF IInv, Tipos
<1>3. pedidos[1].que \notin {"new", "delete"}
  BY DEF Comandos
<1>4. r \in {"esperada", "inesperada", "error"}
  OBVIOUS
<1>5. /\ Tipos' /\ Lectura' /\ Paginas' /\ DePagina'
      /\ \A c \in Navegadores \ {b} : Sesion(c)' => Sesion(c) /\ id'[c] = id[c]
      /\ Sesion(b)' => id'[b] = id[b] /\ r = "esperada"
      /\ Sesion(b) /\ pedidos[1].id = id[b]
  BY <1>1, <1>2, <1>3, <1>4, Respondido
<1>6. id[b] \in Conocidos
  BY <1>5 DEF IInv, Sesiones
<1>7. Sesiones'
  <2>1. CASE Conocidos' = Conocidos
    BY <1>5, <1>6, <2>1, SesionesSiguen
  <2>2. CASE r = "inesperada" /\ Conocidos' = Conocidos \ {pedidos[1].id}
    BY <1>5, <2>2, SesionesSiguen
  <2> QED BY <2>1, <2>2
<1> QED BY <1>5, <1>7 DEF IInv

LEMMA PasoRespuestas ==
    ASSUME IInv, Respuesta \/ RespuestaVacia \/ LostConnection
    PROVE  IInv'
<1>1. /\ pedidos # <<>> /\ pedidos[1].que \in Comandos
      /\ pedidos[1].id \in Conocidos
      /\ leyendo' = FALSE /\ UNCHANGED <<mutex, backend>>
  BY DEF IInv, Lectura, Respuesta, RespuestaVacia, LostConnection, Turno
<1>2. PICK i \in Ids : i = pedidos[1].id /\ i \in Conocidos
  BY <1>1 DEF Conocidos
<1>3. CASE Respuesta \/ RespuestaVacia
  <2>1. PICK r \in {"esperada", "inesperada"} : Atendido(r, "")
    BY <1>3 DEF Respuesta, RespuestaVacia
  <2>2. \/ clientes' = clientes
        \/ \E c \in {"juega", "cerrada", "reset"} : clientes' = [clientes EXCEPT ![i] = c]
    BY <1>2, <1>3 DEF Respuesta, RespuestaVacia, Pasa
  <2>3. /\ clientes' \in [Ids -> {"no", "saludo", "juega", "cerrada", "reset"}]
        /\ Conocidos' = Conocidos
    <3>1. CASE clientes' = clientes
      BY <3>1 DEF IInv, Tipos, Conocidos
    <3>2. ASSUME NEW c \in {"juega", "cerrada", "reset"}, clientes' = [clientes EXCEPT ![i] = c]
          PROVE  /\ clientes' \in [Ids -> {"no", "saludo", "juega", "cerrada", "reset"}]
                 /\ Conocidos' = Conocidos
      <4>1. c \in {"no", "saludo", "juega", "cerrada", "reset"} /\ c # "no"
        OBVIOUS
      <4>2. /\ clientes' \in [Ids -> {"no", "saludo", "juega", "cerrada", "reset"}]
            /\ Conocidos' = Conocidos \cup {i}
        BY <3>2, <4>1, UnaConexion DEF IInv
      <4> QED BY <1>2, <4>2
    <3> QED BY <2>2, <3>1, <3>2
  <2> QED BY <1>1, <2>1, <2>3, PasoComando
<1>4. CASE LostConnection
  <2>1. clientes' = [clientes EXCEPT ![i] = "no"] /\ Atendido("inesperada", "")
    BY <1>2, <1>4 DEF LostConnection, Pasa
  <2>2. /\ clientes' \in [Ids -> {"no", "saludo", "juega", "cerrada", "reset"}]
        /\ Conocidos' = Conocidos \ {pedidos[1].id}
    BY <1>2, <2>1, UnaConexion DEF IInv
  <2> QED BY <1>1, <2>1, <2>2, PasoComando
<1> QED BY <1>3, <1>4

LEMMA PasoServidor ==
    ASSUME IInv, Caer \/ Levantar PROVE IInv'
<1>1. /\ UNCHANGED <<pagina, pedidos, mutex, leyendo>> /\ backend' \in BOOLEAN
      /\ visible' = visible /\ id' = id
  BY DEF Caer, Levantar, pagina
<1>2. /\ clientes' \in [Ids -> {"no", "saludo", "juega", "cerrada", "reset"}]
      /\ Conocidos' = Conocidos
  BY DEF Caer, Levantar, IInv, Tipos, Conocidos
<1>3. Tipos' /\ Lectura'
  BY <1>1, <1>2 DEF IInv, Tipos, Lectura
<1>4. Paginas' /\ DePagina' /\ Sesiones'
  BY <1>1, <1>2, Quietas
<1> QED BY <1>3, <1>4 DEF IInv

(* A patient user asks for something: there was nothing in the line and    *)
(* the page shows no error.                                                *)
LEMMA PasoPedir ==
    ASSUME IInv, NEW b \in Navegadores, Pedir(b), Pacientes' PROVE IInv'
<1>1. /\ UNCHANGED <<pagina, clientes, mutex, leyendo, backend>>
      /\ visible' = visible /\ id' = id
  BY DEF Pedir, pagina
<1>2. PICK p \in visible[b] : \E q \in Botones[p] : pedidos' = Append(pedidos, Pedido(b, q, id[b]))
  BY DEF Pedir
<1>3. PICK que \in Botones[p] : pedidos' = Append(pedidos, Pedido(b, que, id[b]))
  BY <1>2
<1>4. p \in Partes
  BY <1>2 DEF IInv, Tipos
<1>5. /\ que \in Ques
      /\ que = "new" => p = "coneccion"
      /\ que = "SOY" => p = "registro"
      /\ que \notin {"new", "SOY"} => p = "juego"
  BY <1>3, <1>4 DEF Partes, Botones, Ques, Comandos
<1>6. /\ pedidos' \in Seq(LosPedidos) /\ pedidos' # <<>>
      /\ DOMAIN pedidos' = 1..(Len(pedidos) + 1)
      /\ \A k \in DOMAIN pedidos : pedidos'[k] = pedidos[k]
      /\ pedidos'[Len(pedidos) + 1] = Pedido(b, que, id[b])
  BY <1>3, <1>5, UnoMas DEF IInv
<1>7. Len(pedidos) \in Nat /\ DOMAIN pedidos = 1..Len(pedidos) /\ (pedidos # <<>> => 1 \in DOMAIN pedidos)
  BY LosDe DEF IInv
<1> DEFINE n == Len(pedidos) + 1
<1>8. /\ n \in DOMAIN pedidos' /\ n \notin DOMAIN pedidos
      /\ \A k \in DOMAIN pedidos' : k \in DOMAIN pedidos \/ k = n
      /\ \A k \in DOMAIN pedidos : k \in DOMAIN pedidos'
      /\ pedidos'[n].nav = b /\ pedidos'[n].que = que /\ pedidos'[n].id = id[b]
      /\ pedidos'[n].espera
  BY <1>6, <1>7 DEF Pedido
<1> HIDE DEF n
<1>9. Conocidos' = Conocidos
  BY <1>1 DEF Conocidos
<1>10. Tipos' /\ Lectura'
  <2>1. Lectura'
    BY <1>1, <1>6, <1>7, <1>9 DEF IInv, Lectura
  <2> QED BY <1>1, <1>6, <2>1 DEF IInv, Tipos
<1>11. Paginas'
  BY <1>1 DEF IInv, Paginas
<1>12. n \in De(b)' /\ "error" \notin visible[b]
  <2>1. n \in De(b)'
    BY <1>8 DEF De, EnLinea
  <2>2. "error" \in visible'[b] => De(b)' = {}
    BY DEF Pacientes
  <2> QED BY <1>1, <2>1, <2>2
<1>13. EnLinea(b) = {}
  <2> SUFFICES ASSUME NEW k \in EnLinea(b) PROVE FALSE
    OBVIOUS
  <2>1. k \in DOMAIN pedidos /\ pedidos[k].nav = b
    BY DEF EnLinea
  <2>2. pedidos[k].espera
    BY <1>12, <2>1, LosDe DEF IInv, DePagina
  <2>3. k \in De(b)' /\ k # n
    BY <1>6, <1>8, <2>1, <2>2 DEF De, EnLinea
  <2>4. IsFiniteSet(De(b)')
    <3>1. IsFiniteSet(DOMAIN pedidos')
      BY <1>6, <1>7, FS_Interval
    <3>2. De(b)' \subseteq DOMAIN pedidos'
      BY DEF De, EnLinea
    <3> QED BY <3>1, <3>2, FS_Subset
  <2>5. Cardinality(De(b)') <= 1
    BY DEF Pacientes, UnaPorVez
  <2> HIDE DEF De
  <2> QED BY <1>12, <2>3, <2>4, <2>5, UnoComoMucho
<1>14. visible[b] = Origen(que)
  <2>1. visible[b] \in {{"coneccion"}, {"registro"}, {"juego"}, {"error"}, {"fin"}, {"juego", "error"}}
    BY DEF IInv, Paginas
  <2>2. visible[b] \in {{"coneccion"}, {"registro"}, {"juego"}, {"fin"}}
    BY <1>12, <2>1
  <2> QED BY <1>2, <1>3, <1>4, <1>5, <2>2 DEF Botones, Origen
<1>15. \A c \in Navegadores \ {b} : EnLinea(c)' = EnLinea(c)
  BY <1>6, <1>8 DEF EnLinea
<1>16. EnLinea(b)' = {n}
  BY <1>6, <1>8, <1>13 DEF EnLinea
<1>17. DePagina'
  <2> SUFFICES ASSUME NEW k \in DOMAIN pedidos', NEW c \in Navegadores, pedidos'[k].nav = c
               PROVE  /\ \A l \in EnLinea(c)' : l = k
                      /\ pedidos'[k].que # "new" => pedidos'[k].id = id[c]
                      /\ pedidos'[k].espera => visible[c] = Origen(pedidos'[k].que)
                      /\ ~ pedidos'[k].espera => "error" \in visible[c]
    <3>1. \A k \in DOMAIN pedidos' : pedidos'[k].nav \in Navegadores
      BY <1>6, <1>8, LosDe DEF IInv
    <3> QED BY <1>1, <3>1 DEF DePagina
  <2>1. CASE k \in DOMAIN pedidos
    <3>1. pedidos'[k] = pedidos[k]
      BY <1>6, <2>1
    <3>2. pedidos[k].nav = c /\ c # b
      BY <1>13, <2>1, <3>1 DEF EnLinea
    <3>3. EnLinea(c)' = EnLinea(c)
      BY <1>15, <3>2
    <3>4. /\ \A l \in EnLinea(c) : l = k
          /\ pedidos[k].que # "new" => pedidos[k].id = id[c]
          /\ pedidos[k].espera => visible[c] = Origen(pedidos[k].que)
          /\ ~ pedidos[k].espera => "error" \in visible[c]
      BY <2>1, <3>2 DEF IInv, DePagina
    <3> QED BY <3>1, <3>3, <3>4
  <2>2. CASE k = n
    <3>1. c = b
      BY <1>8, <2>2
    <3> QED BY <1>8, <1>14, <1>16, <2>2, <3>1
  <2> QED BY <1>8, <2>1, <2>2
<1>18. Sesiones'
  <2>1. \A c \in Navegadores \ {b} : Sesion(c)' => Sesion(c) /\ id'[c] = id[c]
    BY <1>1, <1>6, <1>15 DEF Sesion, Activa, EnLinea
  <2>2. Sesion(b)' => Sesion(b)
    <3>1. que # "new" => Activa(b)
      BY <1>14 DEF Activa, Origen
    <3>2. Sesion(b)' => Activa(b) \/ que # "new"
      BY <1>1, <1>8, <1>16 DEF Sesion, Activa
    <3> QED BY <3>1, <3>2 DEF Sesion
  <2>3. Sesion(b) => id[b] \in Conocidos
    BY DEF IInv, Sesiones
  <2> QED BY <1>1, <1>9, <2>1, <2>2, <2>3, SesionesSiguen
<1> QED BY <1>10, <1>11, <1>17, <1>18 DEF IInv

(* The page waits no more: it shows an error, and its request stays.       *)
LEMMA PasoVence ==
    ASSUME IInv, NEW b \in Navegadores, VenceElPlazo(b) PROVE IInv'
<1>1. PICK k \in De(b) : /\ pedidos' = [pedidos EXCEPT ![k].espera = FALSE]
                         /\ Recibir(b, pedidos[k].que, "error", "")
  BY DEF VenceElPlazo
<1>2. /\ k \in DOMAIN pedidos /\ pedidos[k].nav = b /\ pedidos[k].espera
      /\ pedidos[k].que \in Ques
  BY LosDe DEF De, EnLinea, IInv
<1>3. /\ DOMAIN pedidos' = DOMAIN pedidos
      /\ \A l \in DOMAIN pedidos : /\ pedidos'[l].nav = pedidos[l].nav
                                   /\ pedidos'[l].que = pedidos[l].que
                                   /\ pedidos'[l].id = pedidos[l].id
                                   /\ l # k => pedidos'[l] = pedidos[l]
      /\ ~ pedidos'[k].espera
  BY <1>1, <1>2, SinEsperar DEF IInv
<1>4. Pagina(b, pedidos[k].que, "error", "")
  BY <1>1, <1>2, Recibido DEF IInv
<1>5. /\ id' = id
      /\ \A c \in Navegadores \ {b} : visible'[c] = visible[c]
  BY <1>4 DEF Pagina
<1>6. /\ \A l \in EnLinea(b) : l = k
      /\ visible[b] = Origen(pedidos[k].que)
  BY <1>2 DEF IInv, DePagina
<1>7. visible'[b] \in {{"error"}, {"juego", "error"}}
  <2>1. "error" # "esperada"
    OBVIOUS
  <2> QED BY <1>2, <1>4, <1>6, <2>1 DEF Pagina, Origen, Ques, Comandos
<1>8. Tipos' /\ Lectura'
  BY TiposAlVencer DEF IInv
<1>9. Paginas'
  BY <1>5, <1>7 DEF IInv, Paginas
<1>10. \A c \in Navegadores : EnLinea(c)' = EnLinea(c)
  BY <1>3 DEF EnLinea
<1>11. DePagina'
  <2> SUFFICES ASSUME NEW l \in DOMAIN pedidos, NEW c \in Navegadores, pedidos'[l].nav = c
               PROVE  /\ \A m \in EnLinea(c)' : m = l
                      /\ pedidos'[l].que # "new" => pedidos'[l].id = id[c]
                      /\ pedidos'[l].espera => visible'[c] = Origen(pedidos'[l].que)
                      /\ ~ pedidos'[l].espera => "error" \in visible'[c]
    BY <1>3, <1>5, LosDe DEF IInv, DePagina
  <2>1. /\ pedidos[l].nav = c
        /\ \A m \in EnLinea(c) : m = l
        /\ pedidos[l].que # "new" => pedidos[l].id = id[c]
        /\ pedidos[l].espera => visible[c] = Origen(pedidos[l].que)
        /\ ~ pedidos[l].espera => "error" \in visible[c]
    BY <1>3 DEF IInv, DePagina
  <2>2. CASE l = k
    BY <1>2, <1>3, <1>7, <1>10, <2>1, <2>2
  <2>3. CASE l # k
    <3>1. c # b
      BY <1>6, <2>1, <2>3 DEF EnLinea
    <3> QED BY <1>3, <1>5, <1>10, <2>1, <2>3, <3>1
  <2> QED BY <2>2, <2>3
<1>12. Conocidos' = Conocidos
  BY DEF VenceElPlazo, Conocidos
<1>13. Sesiones'
  <2>1. \A c \in Navegadores \ {b} : Sesion(c)' => Sesion(c) /\ id'[c] = id[c]
    BY <1>3, <1>5, <1>10 DEF Sesion, Activa, EnLinea
  <2>2. Sesion(b)' => Sesion(b)
    <3>1. ~ Activa(b)'
      BY <1>7, Aspectos DEF Activa, Partes
    <3> QED BY <1>3, <1>10, <3>1 DEF Sesion, EnLinea
  <2>3. Sesion(b) => id[b] \in Conocidos
    BY DEF IInv, Sesiones
  <2> QED BY <1>5, <1>12, <2>1, <2>2, <2>3, SesionesSiguen
<1> QED BY <1>8, <1>9, <1>11, <1>13 DEF IInv

LEMMA Inicio == Init => IInv
<1> SUFFICES ASSUME Init PROVE IInv
  OBVIOUS
<1>1. DOMAIN pedidos = {} /\ pedidos \in Seq(LosPedidos)
  BY EmptySeq DEF Init
<1>2. Tipos /\ Lectura
  BY <1>1 DEF Init, Tipos, Lectura, Partes
<1>3. \A b \in Navegadores : visible[b] = {"coneccion"} /\ EnLinea(b) = {}
  BY <1>1 DEF Init, EnLinea
<1>4. \A b \in Navegadores : ~ Sesion(b)
  BY <1>3, Aspectos DEF Sesion, Activa, Partes
<1>5. Paginas /\ DePagina /\ Sesiones
  BY <1>1, <1>3, <1>4 DEF Paginas, DePagina, Sesiones
<1> QED BY <1>2, <1>5 DEF IInv

LEMMA Paso == IInv /\ Pacientes' /\ [Next]_vars => IInv'
<1> SUFFICES ASSUME IInv, Pacientes', [Next]_vars PROVE IInv'
  OBVIOUS
<1>1. CASE TeardownRoto \/ ExecuteRoto
  BY <1>1, PasoRoto DEF TeardownRoto, ExecuteRoto, Turno
<1>2. ASSUME NEW b \in Navegadores, Pedir(b) PROVE IInv'
  BY <1>2, PasoPedir
<1>3. ASSUME NEW b \in Navegadores, VenceElPlazo(b) PROVE IInv'
  BY <1>3, PasoVence
<1>4. CASE UNCHANGED vars
  <2>1. /\ visible' = visible /\ id' = id /\ pedidos' = pedidos /\ clientes' = clientes
        /\ mutex' = mutex /\ leyendo' = leyendo /\ backend' = backend /\ UNCHANGED pagina
    BY <1>4 DEF vars, pagina
  <2>2. Conocidos' = Conocidos
    BY <2>1 DEF Conocidos
  <2>3. Tipos' /\ Lectura'
    BY <2>1, <2>2 DEF IInv, Tipos, Lectura
  <2> QED BY <2>1, <2>2, <2>3, Quietas DEF IInv
<1> QED BY <1>1, <1>2, <1>3, <1>4, PasoErrorSocket, PasoSetup, PasoTeardown, PasoExecute,
          PasoRespuestas, PasoServidor DEF Next, Atender

-----------------------------------------------------------------------------
(* The results.                                                            *)

(* With patient users, a browser in the game has a session of its own in   *)
(* the table (SesionPropia): do_comandos_setup never gives an identifier   *)
(* of the table, and the identifier goes only when its page leaves the     *)
(* game, be the answers in time or late.                                   *)
THEOREM SesionDeCadaUno == Spec => SesionPropia
<1> DEFINE Suya == \A b \in Navegadores : EnSesion(b) =>
                      /\ id[b] \in Conocidos
                      /\ \A c \in Navegadores \ {b} : EnSesion(c) => id[c] # id[b]
<1>1. IInv => Suya
  BY DEF IInv, Sesiones, Sesion, Activa, EnSesion
<1> HIDE DEF Suya
<1>2. Init /\ [][Next]_vars /\ []Pacientes => []Suya
  BY <1>1, Inicio, Paso, PTL
<1>3. Spec => ([]Pacientes => []Suya)
  BY <1>2, PTL DEF Spec
<1> QED BY <1>3 DEF SesionPropia, Suya

(* The types, for impatient users too (TypeOK): in particular, the         *)
(* front-end is inside recv for its first request only, a command, and     *)
(* from a connection that it still has in its table.                       *)
THEOREM TiposDelFrontend == Spec => []TypeOK
<1>1. Init => Tipos /\ Lectura
  BY Inicio DEF IInv
<1>2. Tipos /\ Lectura => TypeOK
  <2> SUFFICES ASSUME Tipos, Lectura PROVE TypeOK
    OBVIOUS
  <2>1. \A k \in DOMAIN pedidos : pedidos[k].que \in Ques /\ pedidos[k].espera \in BOOLEAN
    BY LosDe
  <2> QED BY <2>1 DEF Tipos, Lectura, TypeOK, Partes, Ques
<1> QED BY <1>1, <1>2, PasoTipos, PTL DEF Spec

=============================================================================
