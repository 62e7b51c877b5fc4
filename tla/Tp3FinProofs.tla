---------------------------- MODULE Tp3FinProofs ----------------------------
(***************************************************************************)
(* Proofs about how Tp3 ends: the servers count the clients that are       *)
(* alive, none leaves while another needs it, every message that arrives   *)
(* has a handler that expects it, and MPI keeps few copies.                *)
(***************************************************************************)
EXTENDS Tp3Proofs

(* The server t took the farewell of its client. *)
Despedido(t) ==
    /\ cpc[mi_cliente(t)] \in {"terminando", "fin"}
    /\ EnVuelo(mi_cliente(t), t) = <<>>

(* s counts the client of t as alive: it has not said goodbye, or s has    *)
(* not been told.                                                          *)
LoCuenta(s, t) == ~ Despedido(t) \/ Hay(t, s, "SRV_FINISHED")

Contados(s) == {t \in Servers : LoCuenta(s, t)}

(* A server tells the others once, after the farewell.                     *)
Avisos ==
    \A t, s \in Servers :
        /\ Unico(EnVuelo(t, s), "SRV_FINISHED")
        /\ Hay(t, s, "SRV_FINISHED") => Despedido(t)

Vivos ==
    /\ clients_alive \in [Servers -> Nat]
    /\ iters \in [Clients -> Nat]
    /\ Avisos
    /\ \A s \in Servers : /\ clients_alive[s] = Cardinality(Contados(s))
                          /\ spc[s] = "fin" <=> clients_alive[s] = 0
-----------------------------------------------------------------------------
(* What the handlers do, once more: each takes a message and sends one.    *)
LEMMA AtiendeUno ==
    ASSUME IInv, NEW s \in Servers, NEW o \in Ranks, NEW m, UNCHANGED clienteVars
    PROVE  /\ Pedido(s, o, m) \/ Reply(s, o, m) \/ Libero(s, o, m) \/ Req(s, o, m) =>
                \E D, a, da : /\ Atiende(s, o, m, D, a, da) /\ a.tag # "SRV_FINISHED"
                              /\ m.tag \in {"TAG_PEDIDO", "TAG_LIBERO", "SRV_REQ", "SRV_REPLY"}
           /\ Termine(s, o, m) =>
                /\ Atiende(s, o, m, Otros(s), Message("SRV_FINISHED", 0), FALSE)
                /\ m.tag = "TAG_TERMINE" /\ o = mi_cliente(s)
           /\ Finished(s, o, m) =>
                /\ Atiende(s, o, m, {}, Message("SRV_REPLY", 0), FALSE)
                /\ m.tag = "SRV_FINISHED" /\ o \in Otros(s)
<1> DEFINE rep == Message("SRV_REPLY", 0)
           fin == Message("SRV_FINISHED", 0)
           req == Message("SRV_REQ", max_seq_nr[s] + 1)
<1>1. /\ rep \in Messages /\ rep.tag = "SRV_REPLY" /\ fin \in Messages /\ fin.tag = "SRV_FINISHED"
      /\ req \in Messages /\ req.tag = "SRV_REQ"
  BY Mensajes, DelInvariante DEF Tags
<1>2. cpc' = cpc
  BY DEF clienteVars
<1>3. CASE Pedido(s, o, m)
  <2>1. Efecto(s, o, Otros(s), req, N = 1) /\ Llega(s, o, m) /\ m.tag = "TAG_PEDIDO" /\ spc' = spc
    BY <1>3, EfectoDe DEF Pedido
  <2> HIDE DEF req
  <2>2. Atiende(s, o, m, Otros(s), req, N = 1)
    BY <1>1, <1>2, <2>1 DEF Atiende, SrvTags
  <2> QED BY <1>1, <1>3, <2>1, <2>2 DEF Termine, Finished
<1>4. CASE Reply(s, o, m)
  <2>1. Efecto(s, o, {}, rep, outstanding_reply[s] = 1) /\ Llega(s, o, m) /\ m.tag = "SRV_REPLY"
        /\ spc' = spc
    BY <1>4, EfectoDe DEF Reply
  <2> HIDE DEF rep
  <2>2. Atiende(s, o, m, {}, rep, outstanding_reply[s] = 1)
    BY <1>1, <1>2, <2>1 DEF Atiende, SrvTags
  <2> QED BY <1>1, <1>4, <2>1, <2>2 DEF Termine, Finished
<1>5. CASE Libero(s, o, m)
  <2>1. Efecto(s, o, reply_deferred[s], rep, FALSE) /\ Llega(s, o, m) /\ m.tag = "TAG_LIBERO"
        /\ spc' = spc
    BY <1>5, EfectoDe DEF Libero
  <2>2. reply_deferred[s] \subseteq Otros(s)
    BY DEF IInv, Tipos, Otros
  <2> HIDE DEF rep
  <2>3. Atiende(s, o, m, reply_deferred[s], rep, FALSE)
    BY <1>1, <1>2, <2>1, <2>2 DEF Atiende, SrvTags
  <2> QED BY <1>1, <1>5, <2>1, <2>3 DEF Termine, Finished
<1>6. CASE Req(s, o, m)
  <2> DEFINE D == IF Prioridad(s, o, m.number) THEN {} ELSE {o}
  <2>1. Efecto(s, o, D, rep, FALSE) /\ Llega(s, o, m) /\ m.tag = "SRV_REQ" /\ spc' = spc
    BY <1>6, EfectoDe DEF Req
  <2>2. D \subseteq Otros(s)
    BY <2>1, Origen
  <2> HIDE DEF rep, D
  <2>3. Atiende(s, o, m, D, rep, FALSE)
    BY <1>1, <1>2, <2>1, <2>2 DEF Atiende, SrvTags
  <2> QED BY <1>1, <1>6, <2>1, <2>3 DEF Termine, Finished
<1>7. ASSUME Llega(s, o, m), UnoMenos(s)
      PROVE  spc'[0] = "reparto" => spc[0] = "reparto"
  <2>1. spc' = [spc EXCEPT ![s] = IF clients_alive'[s] = 0 THEN "fin" ELSE @]
    BY <1>7 DEF UnoMenos
  <2>2. spc \in [Servers -> {"reparto", "sirviendo", "fin"}] /\ 0 \in Servers
    BY Rangos DEF IInv, Tipos
  <2> QED BY <2>1, <2>2
<1>8. Termine(s, o, m) => /\ Atiende(s, o, m, Otros(s), fin, FALSE)
                          /\ m.tag = "TAG_TERMINE" /\ o = mi_cliente(s)
  <2> HAVE Termine(s, o, m)
  <2>1. Efecto(s, o, Otros(s), fin, FALSE) /\ Llega(s, o, m) /\ m.tag = "TAG_TERMINE" /\ UnoMenos(s)
    BY EfectoDe DEF Termine
  <2>2. spc'[0] = "reparto" => spc[0] = "reparto"
    BY <1>7, <2>1
  <2>3. o = mi_cliente(s)
    BY <2>1, Origen
  <2> HIDE DEF fin
  <2>4. Atiende(s, o, m, Otros(s), fin, FALSE)
    BY <1>1, <1>2, <2>1, <2>2 DEF Atiende, SrvTags
  <2> QED BY <2>1, <2>3, <2>4
<1>9. Finished(s, o, m) => /\ Atiende(s, o, m, {}, rep, FALSE)
                           /\ m.tag = "SRV_FINISHED" /\ o \in Otros(s)
  <2> HAVE Finished(s, o, m)
  <2>1. Efecto(s, o, {}, rep, FALSE) /\ Llega(s, o, m) /\ m.tag = "SRV_FINISHED" /\ UnoMenos(s)
    BY EfectoDe DEF Finished
  <2>2. (spc'[0] = "reparto" => spc[0] = "reparto") /\ o \in Otros(s)
    BY <1>7, <2>1, Origen
  <2> HIDE DEF rep
  <2>3. Atiende(s, o, m, {}, rep, FALSE)
    BY <1>1, <1>2, <2>1, <2>2 DEF Atiende, SrvTags
  <2> QED BY <2>1, <2>2, <2>3
<1> QED BY <1>3, <1>4, <1>5, <1>6, <1>8, <1>9

(* The farewell changes only when the client's own server takes it.        *)
LEMMA DespedidosSiguen ==
    ASSUME IInv, NEW s, NEW o, NEW m, NEW D, NEW a, NEW da, Atiende(s, o, m, D, a, da),
           NEW t \in Servers, t # s \/ m.tag # "TAG_TERMINE"
    PROVE  Despedido(t)' <=> Despedido(t)
<1> DEFINE c == mi_cliente(t)
<1>1. /\ s \in Servers /\ o \in Ranks /\ Llega(s, o, m) /\ cpc' = cpc
      /\ c \in Ranks /\ t \in Ranks /\ c # s /\ EnVuelo(c, t) \in Seq(Messages)
  <2>1. s \in Servers /\ o \in Ranks /\ Llega(s, o, m) /\ cpc' = cpc
    BY DEF Atiende
  <2>2. c \in Clients /\ c \notin Servers /\ c \in Ranks /\ t \in Ranks
    BY Rangos
  <2> HIDE DEF c
  <2> QED BY <2>1, <2>2, CanalTipo DEF IInv, Tipos, EnVuelo
<1>2. ConversacionDe(t, EnVuelo(c, t), EnVuelo(t, c), cpc[c])
  BY DelInvariante DEF ConversacionDeS
<1> HIDE DEF c
<1>3. EnVuelo(c, t)' = IF c = o /\ t = s THEN Tail(EnVuelo(c, t)) ELSE EnVuelo(c, t)
  BY <1>1 DEF Atiende, Efecto
<1>4. CASE ~ (c = o /\ t = s)
  BY <1>1, <1>3, <1>4 DEF Despedido, c
<1>5. CASE c = o /\ t = s /\ cpc[c] \in {"terminando", "fin"}
  <2>1. m = Head(EnVuelo(c, t)) /\ EnVuelo(c, t) # <<>> /\ m.tag # "TAG_TERMINE"
    BY <1>1, <1>5, Origen
  <2>2. EsDos(EnVuelo(c, t), "TAG_LIBERO", "TAG_TERMINE")
    BY <1>1, <1>2, <1>5, <2>1, Cortas DEF ConversacionDe
  <2>3. EnVuelo(c, t)' # <<>>
    <3>1. EsUno(Tail(EnVuelo(c, t)), "TAG_TERMINE") /\ Tail(EnVuelo(c, t)) \in Seq(Messages)
      BY <1>1, <2>1, <2>2, Cortas, AlSacar
    <3>2. Tail(EnVuelo(c, t)) # <<>>
      BY <3>1, Cortas
    <3> QED BY <1>3, <1>5, <3>2
  <2> QED BY <2>1, <2>3 DEF Despedido, c
<1>6. CASE cpc[c] \notin {"terminando", "fin"}
  BY <1>1, <1>6 DEF Despedido, c
<1> QED BY <1>4, <1>5, <1>6

(* Nothing about the end changes.                                          *)
LEMMA VivosSiguen ==
    ASSUME Vivos, clients_alive' = clients_alive, iters' \in [Clients -> Nat],
           \A s \in Servers : /\ Despedido(s)' <=> Despedido(s)
                              /\ spc'[s] = "fin" <=> spc[s] = "fin",
           \A t, s \in Servers :
              /\ Hay(t, s, "SRV_FINISHED")' <=> Hay(t, s, "SRV_FINISHED")
              /\ Unico(EnVuelo(t, s), "SRV_FINISHED") => Unico(EnVuelo(t, s)', "SRV_FINISHED")
    PROVE  Vivos'
<1>1. Avisos'
  BY DEF Vivos, Avisos, Unico
<1>2. ASSUME NEW s \in Servers
      PROVE  Contados(s)' = Contados(s)
  BY DEF Contados, LoCuenta
<1>3. \A s \in Servers : clients_alive'[s] = Cardinality(Contados(s))'
  BY <1>2 DEF Vivos
<1> QED BY <1>1, <1>3 DEF Vivos

(* Of the servers, s is left out of the count, now. *)
LEMMA UnoMenosContado ==
    ASSUME IInv, Vivos, NEW s \in Servers, NEW t \in Servers, LoCuenta(s, t),
           spc \in [Servers -> {"reparto", "sirviendo", "fin"}], spc[s] = "sirviendo",
           UnoMenos(s), iters' = iters, Avisos',
           \A p, q \in Servers : LoCuenta(p, q)' <=> (LoCuenta(p, q) /\ ~ (p = s /\ q = t))
    PROVE  Vivos'
<1>1. \A p \in Servers : /\ IsFiniteSet(Contados(p))
                         /\ clients_alive[p] \in Nat /\ clients_alive[p] = Cardinality(Contados(p))
  <2> TAKE p \in Servers
  <2>1. IsFiniteSet(Servers)
    <3>1. Servers = Otros(p) \cup {p}
      BY DEF Otros
    <3> QED BY <3>1, CuantosServidores, FS_AddElement
  <2>2. Contados(p) \subseteq Servers
    BY DEF Contados
  <2> QED BY <2>1, <2>2, FS_Subset DEF Vivos
<1>2. /\ clients_alive' = [clients_alive EXCEPT ![s] = @ - 1]
      /\ spc' = [spc EXCEPT ![s] = IF clients_alive'[s] = 0 THEN "fin" ELSE @]
  BY DEF UnoMenos
<1>3. Contados(s)' = Contados(s) \ {t} /\ t \in Contados(s)
  BY DEF Contados
<1>4. \A p \in Servers \ {s} : Contados(p)' = Contados(p)
  BY DEF Contados
<1>5. Cardinality(Contados(s) \ {t}) = Cardinality(Contados(s)) - 1
      /\ Cardinality(Contados(s) \ {t}) \in Nat
  <2>1. IsFiniteSet(Contados(s) \ {t})
    BY <1>1, FS_Subset
  <2> QED BY <1>1, <1>3, <2>1, FS_RemoveElement, FS_CardinalityType
<1>6. clients_alive'[s] = Cardinality(Contados(s))' /\ clients_alive'[s] \in Nat
  <2>1. clients_alive'[s] = clients_alive[s] - 1
    BY <1>2 DEF Vivos
  <2>2. Cardinality(Contados(s))' = Cardinality(Contados(s) \ {t})
    BY <1>3
  <2> QED BY <1>1, <1>5, <2>1, <2>2
<1>7. \A p \in Servers \ {s} : /\ clients_alive'[p] = clients_alive[p] /\ spc'[p] = spc[p]
                               /\ Cardinality(Contados(p))' = Cardinality(Contados(p))
  BY <1>2, <1>4 DEF Vivos
<1>8. spc'[s] = IF clients_alive'[s] = 0 THEN "fin" ELSE "sirviendo"
  BY <1>2
<1>9. clients_alive' \in [Servers -> Nat]
  BY <1>2, <1>6 DEF Vivos
<1>10. \A p \in Servers : /\ clients_alive'[p] = Cardinality(Contados(p))'
                          /\ spc'[p] = "fin" <=> clients_alive'[p] = 0
  BY <1>6, <1>7, <1>8 DEF Vivos
<1> QED BY <1>9, <1>10 DEF Vivos

LEMMA VivosTrasTermine ==
    ASSUME IInv, Vivos, NEW s \in Servers, NEW o \in Ranks, NEW m, Termine(s, o, m),
           UNCHANGED clienteVars
    PROVE  Vivos'
<1> DEFINE a == Message("SRV_FINISHED", 0)
           c == mi_cliente(s)
<1>1. /\ Atiende(s, o, m, Otros(s), a, FALSE) /\ m.tag = "TAG_TERMINE" /\ o = c
      /\ a.tag = "SRV_FINISHED" /\ UnoMenos(s) /\ iters' = iters /\ spc[s] = "sirviendo"
  BY AtiendeUno, Mensajes DEF Termine, clienteVars, Llega, Tags
<1>2. /\ cpc'[c] = cpc[c] /\ EnVuelo(c, s) \in Seq(Messages)
      /\ EnVuelo(c, s)' = Tail(EnVuelo(c, s))
      /\ EnVuelo(c, s) # <<>> /\ m = Head(EnVuelo(c, s))
  <2> HIDE DEF a
  <2> QED BY <1>1, SuConversacion
<1>3. o \notin Servers /\ s \in Servers
  BY <1>1, Rangos
<1>4. ConversacionDe(s, EnVuelo(c, s), EnVuelo(s, c), cpc[c])
  BY DelInvariante DEF ConversacionDeS
<1> HIDE DEF a, c
<1>5. cpc[c] \in {"terminando", "fin"} /\ EsUno(EnVuelo(c, s), "TAG_TERMINE")
  BY <1>1, <1>2, <1>4, Cortas DEF ConversacionDe
<1>6. ~ Despedido(s) /\ Despedido(s)'
  <2>1. EnVuelo(c, s)' = <<>>
    BY <1>2, <1>5, Cortas
  <2> QED BY <1>2, <1>5, <2>1 DEF Despedido, c
<1>7. \A q \in Servers \ {s} : Despedido(q)' <=> Despedido(q)
  BY <1>1, DespedidosSiguen
<1>8. \A q, p \in Servers :
         /\ Hay(q, p, "SRV_FINISHED")' <=> Hay(q, p, "SRV_FINISHED") \/ (q = s /\ p # s)
         /\ Unico(EnVuelo(q, p), "SRV_FINISHED") /\ ~ (q = s /\ Hay(q, p, "SRV_FINISHED"))
              => Unico(EnVuelo(q, p)', "SRV_FINISHED")
  <2> TAKE q, p \in Servers
  <2>1. Cambio(q, p, s, o, m, Otros(s), a)
    BY <1>1, Cambios
  <2>2. q # o /\ (p \in Otros(s) <=> p # s)
    BY <1>3 DEF Otros
  <2> QED BY <1>1, <2>1, <2>2 DEF Cambio
<1>9. \A p \in Servers : ~ Hay(s, p, "SRV_FINISHED")
  BY <1>6 DEF Vivos, Avisos
<1>10. Avisos'
  <2> SUFFICES ASSUME NEW q \in Servers, NEW p \in Servers
               PROVE  /\ Unico(EnVuelo(q, p)', "SRV_FINISHED")
                      /\ Hay(q, p, "SRV_FINISHED")' => Despedido(q)'
    BY DEF Avisos, Unico
  <2>1. Unico(EnVuelo(q, p), "SRV_FINISHED") /\ (Hay(q, p, "SRV_FINISHED") => Despedido(q))
    BY DEF Vivos, Avisos
  <2>2. Unico(EnVuelo(q, p)', "SRV_FINISHED")
    BY <1>8, <1>9, <2>1
  <2>3. Hay(q, p, "SRV_FINISHED")' => Despedido(q)'
    BY <1>6, <1>7, <1>8, <2>1
  <2> QED BY <2>2, <2>3
<1>11. \A p, q \in Servers : LoCuenta(p, q)' <=> (LoCuenta(p, q) /\ ~ (p = s /\ q = s))
  BY <1>6, <1>7, <1>8, <1>9 DEF LoCuenta
<1>12. LoCuenta(s, s) /\ spc \in [Servers -> {"reparto", "sirviendo", "fin"}]
  BY <1>6 DEF LoCuenta, IInv, Tipos
<1> QED BY <1>1, <1>10, <1>11, <1>12, UnoMenosContado

LEMMA VivosTrasFinished ==
    ASSUME IInv, Vivos, NEW s \in Servers, NEW o \in Ranks, NEW m, Finished(s, o, m),
           UNCHANGED clienteVars
    PROVE  Vivos'
<1> DEFINE a == Message("SRV_REPLY", 0)
<1>1. /\ Atiende(s, o, m, {}, a, FALSE) /\ m.tag = "SRV_FINISHED" /\ o \in Otros(s)
      /\ UnoMenos(s) /\ iters' = iters /\ spc[s] = "sirviendo" /\ Llega(s, o, m)
  BY AtiendeUno DEF Finished, clienteVars, Llega
<1> HIDE DEF a
<1>2. o \in Servers /\ o # s /\ Hay(o, s, "SRV_FINISHED")
  BY <1>1, Origen DEF Otros, Hay, Esta
<1>3. Unico(EnVuelo(o, s), "SRV_FINISHED") /\ Despedido(o)
  BY <1>2 DEF Vivos, Avisos
<1>4. \A q \in Servers : Despedido(q)' <=> Despedido(q)
  BY <1>1, DespedidosSiguen
<1>5. \A q, p \in Servers :
         /\ Hay(q, p, "SRV_FINISHED")' <=> Hay(q, p, "SRV_FINISHED") /\ ~ (q = o /\ p = s)
         /\ Unico(EnVuelo(q, p), "SRV_FINISHED") => Unico(EnVuelo(q, p)', "SRV_FINISHED")
  <2> TAKE q, p \in Servers
  <2>1. Cambio(q, p, s, o, m, {}, a)
    BY <1>1, Cambios
  <2> QED BY <1>1, <1>3, <2>1 DEF Cambio
<1>6. Avisos'
  <2> SUFFICES ASSUME NEW q \in Servers, NEW p \in Servers
               PROVE  /\ Unico(EnVuelo(q, p)', "SRV_FINISHED")
                      /\ Hay(q, p, "SRV_FINISHED")' => Despedido(q)'
    BY DEF Avisos, Unico
  <2>1. Unico(EnVuelo(q, p), "SRV_FINISHED") /\ (Hay(q, p, "SRV_FINISHED") => Despedido(q))
    BY DEF Vivos, Avisos
  <2> QED BY <1>4, <1>5, <2>1
<1>7. \A p, q \in Servers : LoCuenta(p, q)' <=> (LoCuenta(p, q) /\ ~ (p = s /\ q = o))
  BY <1>3, <1>4, <1>5 DEF LoCuenta
<1>8. LoCuenta(s, o) /\ spc \in [Servers -> {"reparto", "sirviendo", "fin"}]
  BY <1>2 DEF LoCuenta, IInv, Tipos
<1> QED BY <1>1, <1>2, <1>6, <1>7, <1>8, UnoMenosContado

LEMMA VivosTrasOtros ==
    ASSUME IInv, Vivos, NEW s \in Servers, NEW o \in Ranks, NEW m, UNCHANGED clienteVars,
           Pedido(s, o, m) \/ Reply(s, o, m) \/ Libero(s, o, m) \/ Req(s, o, m)
    PROVE  Vivos'
<1>1. PICK D, a, da : /\ Atiende(s, o, m, D, a, da) /\ a.tag # "SRV_FINISHED"
                      /\ m.tag \in {"TAG_PEDIDO", "TAG_LIBERO", "SRV_REQ", "SRV_REPLY"}
  BY AtiendeUno
<1>2. clients_alive' = clients_alive /\ spc' = spc /\ iters' = iters
  BY DEF Pedido, Reply, Libero, Req, clienteVars
<1>3. \A t \in Servers : Despedido(t)' <=> Despedido(t)
  BY <1>1, DespedidosSiguen
<1>4. \A t, p \in Servers :
         /\ Hay(t, p, "SRV_FINISHED")' <=> Hay(t, p, "SRV_FINISHED")
         /\ Unico(EnVuelo(t, p), "SRV_FINISHED") => Unico(EnVuelo(t, p)', "SRV_FINISHED")
  <2> TAKE t, p \in Servers
  <2>1. Cambio(t, p, s, o, m, D, a)
    BY <1>1, Cambios
  <2> QED BY <1>1, <2>1 DEF Cambio
<1>5. iters' \in [Clients -> Nat]
  BY <1>2 DEF Vivos
<1> QED BY <1>2, <1>3, <1>4, <1>5, VivosSiguen

(* The clients say goodbye once, and with a message. *)
LEMMA VivosTrasCliente ==
    ASSUME IInv, Vivos, NEW c \in Clients, ClienteNext(c), UNCHANGED servidorVars
    PROVE  Vivos'
<1> DEFINE s == c - 1
<1>1. s \in Servers /\ c = mi_cliente(s) /\ s \in Ranks /\ c \in Ranks /\ c \notin Servers
      /\ 0 \in Servers /\ Servers \subseteq Ranks
  BY Rangos
<1>2. cpc \in [Clients -> CPCs] /\ iters \in [Clients -> Nat]
  BY DEF IInv, Tipos, Vivos
<1>3. EnVuelo(c, s) \in Seq(Messages)
  BY <1>1, CanalTipo DEF IInv, Tipos, EnVuelo
<1>4. ConversacionDe(s, EnVuelo(c, s), EnVuelo(s, c), cpc[c])
  BY <1>1, DelInvariante DEF ConversacionDeS
<1> HIDE DEF s
(* Whatever the step does to the channels, it is on theirs. *)
<1>5. ASSUME \A p, r \in Ranks : EnVuelo(p, r)' = EnVuelo(p, r) \/ r = c \/ (p = c /\ r = s),
             \A d \in Clients \ {c} : cpc'[d] = cpc[d],
             Despedido(s)' <=> Despedido(s), iters' \in [Clients -> Nat]
      PROVE  Vivos'
  <2>1. \A t, p \in Servers : EnVuelo(t, p)' = EnVuelo(t, p)
    BY <1>1, <1>5
  <2>2. ASSUME NEW t \in Servers \ {s}
        PROVE  Despedido(t)' <=> Despedido(t)
    <3> DEFINE d == mi_cliente(t)
    <3>1. d \in Clients /\ d # c /\ d \in Ranks /\ t \in Ranks /\ t # c
      BY <1>1, <2>2, Rangos
    <3> HIDE DEF d
    <3>2. cpc'[d] = cpc[d] /\ EnVuelo(d, t)' = EnVuelo(d, t)
      BY <1>5, <3>1
    <3> QED BY <3>2 DEF Despedido, d
  <2>3. \A t, p \in Servers : Hay(t, p, "SRV_FINISHED")' <=> Hay(t, p, "SRV_FINISHED")
    BY <2>1 DEF Hay
  <2> QED BY <1>5, <2>1, <2>2, <2>3, VivosSiguen DEF servidorVars
<1>6. ASSUME NEW x \in CPCs, cpc' = [cpc EXCEPT ![c] = x]
      PROVE  cpc'[c] = x /\ \A d \in Clients \ {c} : cpc'[d] = cpc[d]
  BY <1>2, <1>6
<1>7. ASSUME NEW o \in Servers, mi_cliente(s) = c, mpi' = Recv(o, c), Deliverable(o, c) # {}
      PROVE  \A p, r \in Ranks : EnVuelo(p, r)' = EnVuelo(p, r) \/ r = c
  BY <1>1, <1>7, ClienteRecibe
<1>8. ASSUME NEW t \in Tags, ~ Blocked(c),
             mpi' = Send(mpi, c, {s}, Message(t, 0)) \/ mpi' = Ssend(mpi, c, {s}, Message(t, 0))
      PROVE  /\ \A p, r \in Ranks : EnVuelo(p, r)' = EnVuelo(p, r) \/ (p = c /\ r = s)
             /\ EnVuelo(c, s)' = Append(EnVuelo(c, s), Message(t, 0)) /\ EnVuelo(c, s)' # <<>>
  <2>1. \A p, r \in Ranks :
           EnVuelo(p, r)' = IF p = c /\ r = s
                            THEN Append(EnVuelo(p, r), Message(t, 0)) ELSE EnVuelo(p, r)
    BY <1>8, ClienteEnvia DEF s
  <2>2. Message(t, 0) \in Messages
    BY Mensajes
  <2> QED BY <1>1, <1>3, <2>1, <2>2, AlAgregar
<1>9. \A x \in CPCs : x \in {"terminando", "fin"} \/ x \notin {"terminando", "fin"}
  OBVIOUS
<1>10. ASSUME cpc[c] \notin {"terminando", "fin"}, cpc'[c] \notin {"terminando", "fin"}
       PROVE  Despedido(s)' <=> Despedido(s)
  BY <1>1, <1>10 DEF Despedido
<1>11. CASE RecibirParametros(c)
  <2>1. /\ cpc[c] = "inicio" /\ mpi' = Recv(0, c) /\ Deliverable(0, c) # {}
        /\ cpc' = [cpc EXCEPT ![c] = "previo"] /\ iters' = iters
    BY <1>11 DEF RecibirParametros
  <2> QED BY <1>1, <1>2, <1>5, <1>6, <1>7, <1>10, <2>1 DEF CPCs
<1>12. CASE Entrar(c)
  <2>1. /\ cpc[c] = "esperando" /\ mpi' = Recv(s, c) /\ Deliverable(s, c) # {}
        /\ cpc' = [cpc EXCEPT ![c] = "critica"] /\ iters' = iters
    BY <1>12 DEF Entrar, s
  <2> QED BY <1>1, <1>2, <1>5, <1>6, <1>7, <1>10, <2>1 DEF CPCs
<1>13. CASE Pedir(c)
  <2>1. /\ cpc[c] = "previo" /\ mpi' = Send(mpi, c, {s}, Message("TAG_PEDIDO", 0))
        /\ cpc' = [cpc EXCEPT ![c] = "esperando"] /\ ~ Blocked(c) /\ "TAG_PEDIDO" \in Tags
    BY <1>13 DEF Pedir, s, Tags
  <2>2. iters' \in [Clients -> Nat]
    <3>1. iters[c] > 0 /\ iters' = [iters EXCEPT ![c] = iters[c] - 1] /\ iters[c] \in Nat
      BY <1>2, <1>13 DEF Pedir
    <3>2. iters[c] - 1 \in Nat
      BY <3>1
    <3> QED BY <1>2, <3>1, <3>2
  <2> QED BY <1>1, <1>5, <1>6, <1>8, <1>10, <2>1, <2>2 DEF CPCs
<1>14. CASE Liberar(c)
  <2>1. /\ cpc[c] = "critica" /\ mpi' = Send(mpi, c, {s}, Message("TAG_LIBERO", 0))
        /\ cpc' = [cpc EXCEPT ![c] = "previo"] /\ ~ Blocked(c) /\ "TAG_LIBERO" \in Tags
        /\ iters' = iters
    BY <1>14 DEF Liberar, s, Tags, IInv, Arranque
  <2> QED BY <1>1, <1>2, <1>5, <1>6, <1>8, <1>10, <2>1 DEF CPCs
<1>15. CASE Terminar(c)
  <2>1. /\ cpc[c] = "previo" /\ mpi' = Ssend(mpi, c, {s}, Message("TAG_TERMINE", 0))
        /\ cpc' = [cpc EXCEPT ![c] = "terminando"] /\ ~ Blocked(c) /\ "TAG_TERMINE" \in Tags
        /\ iters' = iters
    BY <1>15 DEF Terminar, s, Tags
  <2>2. EnVuelo(c, s)' # <<>>
    BY <1>8, <2>1
  <2>3. ~ Despedido(s) /\ ~ Despedido(s)'
    BY <1>1, <2>1, <2>2 DEF Despedido
  <2> QED BY <1>1, <1>2, <1>5, <1>6, <1>8, <2>1, <2>3 DEF CPCs
<1>16. CASE Finalizar(c)
  <2>1. /\ cpc[c] = "terminando" /\ mpi' = mpi /\ cpc' = [cpc EXCEPT ![c] = "fin"] /\ iters' = iters
    BY <1>16 DEF Finalizar
  <2>2. \A p, r \in Ranks : EnVuelo(p, r)' = EnVuelo(p, r)
    BY <2>1 DEF EnVuelo
  <2>3. cpc'[c] = "fin" /\ \A d \in Clients \ {c} : cpc'[d] = cpc[d]
    BY <1>6, <2>1 DEF CPCs
  <2>4. Despedido(s)' <=> Despedido(s)
    BY <1>1, <2>1, <2>2, <2>3 DEF Despedido
  <2> QED BY <1>2, <1>5, <2>1, <2>2, <2>3, <2>4
<1> QED BY <1>11, <1>12, <1>13, <1>14, <1>15, <1>16 DEF ClienteNext

LEMMA VivosAlPrincipio == Init => Vivos
<1> SUFFICES ASSUME Init
             PROVE  Vivos
  OBVIOUS
<1>1. /\ clients_alive = [s \in Servers |-> N] /\ cpc = [c \in Clients |-> "inicio"]
      /\ spc = [s \in Servers |-> IF s = 0 THEN "reparto" ELSE "sirviendo"]
      /\ iters \in Repartos
  BY DEF Init, ClienteInit, ServidorInit
<1>2. IInv
  BY AlPrincipio
<1>3. \A t \in Servers : ~ Despedido(t)
  BY <1>1, Rangos DEF Despedido
<1>4. \A t, s \in Servers : ~ Esta(EnVuelo(t, s), "SRV_FINISHED")
  <2>1. \A p, r \in Ranks : mpi.net[p][r] = <<>> /\ r \notin DOMAIN mpi.pending[p]
    BY DEF Init, MPIInit, Nothing
  <2>2. \A p, r \in Ranks : EnVuelo(p, r) = <<>>
    BY <2>1 DEF EnVuelo, Channel
  <2> QED BY <2>2, Rangos DEF Esta
<1>5. Avisos
  BY <1>4 DEF Avisos, Esta, Unico, Hay
<1>6. \A s \in Servers : Contados(s) = Servers /\ Cardinality(Servers) = N
  <2> TAKE s \in Servers
  <2>1. Servers = Otros(s) \cup {s} /\ s \notin Otros(s)
    BY DEF Otros
  <2>2. Cardinality(Servers) = N
    BY <2>1, CuantosServidores, FS_AddElement, NAssumption
  <2> QED BY <1>3, <2>2 DEF Contados, LoCuenta
<1>7. N \in Nat \ {0} /\ iters \in [Clients -> Nat]
  BY <1>1, NAssumption, RepartosAssumption
<1> QED BY <1>1, <1>5, <1>6, <1>7 DEF Vivos

LEMMA VivosEnCadaPaso ==
    ASSUME IInv, Vivos, [Next]_vars
    PROVE  Vivos'
<1>1. ASSUME mpi' = mpi, cpc' = cpc, clients_alive' = clients_alive, iters' = iters,
             \A s \in Servers : spc'[s] = "fin" <=> spc[s] = "fin"
      PROVE  Vivos'
  <2>1. \A p, r : EnVuelo(p, r)' = EnVuelo(p, r)
    BY <1>1 DEF EnVuelo
  <2>2. /\ \A s \in Servers : Despedido(s)' <=> Despedido(s)
        /\ \A t, s \in Servers : Hay(t, s, "SRV_FINISHED")' <=> Hay(t, s, "SRV_FINISHED")
    BY <1>1, <2>1 DEF Despedido, Hay
  <2>3. iters' \in [Clients -> Nat]
    BY <1>1 DEF Vivos
  <2> QED BY <1>1, <2>1, <2>2, <2>3, VivosSiguen
<1>2. CASE UNCHANGED vars
  BY <1>1, <1>2 DEF vars, clienteVars, servidorVars
<1>3. CASE Terminado
  BY <1>2, <1>3 DEF Terminado
<1>4. ASSUME NEW c \in Clients, ClienteStep(c)
      PROVE  Vivos'
  BY <1>4, VivosTrasCliente DEF ClienteStep
<1>5. ASSUME NEW s \in Servers, ServidorStep(s)
      PROVE  Vivos'
  <2>1. CASE s = 0 /\ Repartir
    <3>1. /\ ~ Blocked(0) /\ mpi' = Ssend(mpi, 0, Clients, Message("TAG_INICIAL", 0))
          /\ spc' = [spc EXCEPT ![0] = "sirviendo"] /\ spc[0] = "reparto"
          /\ clients_alive' = clients_alive /\ cpc' = cpc /\ iters' = iters
      BY <1>5, <2>1 DEF Repartir, ServidorStep, clienteVars
    <3>2. \A p \in Ranks, r \in Servers : EnVuelo(p, r)' = EnVuelo(p, r)
      <4> DEFINE a == Message("TAG_INICIAL", 0)
      <4>1. /\ 0 \in Ranks /\ Clients \subseteq Ranks /\ a \in Messages /\ MPIState(mpi)
            /\ DOMAIN mpi.pending[0] = {}
        BY <3>1, Rangos, Mensajes DEF Tags, IInv, Tipos, Blocked
      <4> HIDE DEF a
      <4>2. mpi' = Ssend(mpi, 0, Clients, a)
        BY <3>1 DEF a
      <4>3. Enviado(mpi, mpi', 0, Clients, a)
        BY <4>1, <4>2, Envia
      <4>4. \A p, r \in Ranks : r \notin Clients => EnVuelo(p, r)' = EnVuelo(p, r)
        BY <4>3 DEF Enviado, EnVuelo
      <4> QED BY <4>4, Rangos
    <3>3. /\ \A t \in Servers : Despedido(t)' <=> Despedido(t)
          /\ \A t, p \in Servers : Hay(t, p, "SRV_FINISHED")' <=> Hay(t, p, "SRV_FINISHED")
          /\ \A t, p \in Servers : EnVuelo(t, p)' = EnVuelo(t, p)
      BY <3>1, <3>2, Rangos DEF Despedido, Hay
    <3>4. \A t \in Servers : spc'[t] = "fin" <=> spc[t] = "fin"
      BY <3>1 DEF IInv, Tipos
    <3>5. iters' \in [Clients -> Nat]
      BY <3>1 DEF Vivos
    <3> QED BY <3>1, <3>3, <3>4, <3>5, VivosSiguen
  <2>2. ASSUME NEW o \in Ranks, NEW m \in Deliverable(o, s),
               \/ Pedido(s, o, m) \/ Reply(s, o, m) \/ Libero(s, o, m)
               \/ Req(s, o, m) \/ Termine(s, o, m) \/ Finished(s, o, m)
        PROVE  Vivos'
    <3>1. UNCHANGED clienteVars
      BY <1>5 DEF ServidorStep
    <3> QED BY <2>2, <3>1, VivosTrasTermine, VivosTrasFinished, VivosTrasOtros
  <2> QED BY <1>5, <2>1, <2>2 DEF ServidorStep, ServidorNext
<1> QED BY <1>2, <1>3, <1>4, <1>5 DEF Next

(* Each server counts as alive the clients whose farewell it does not know *)
(* of, and leaves when there are none (TAG_TERMINE and SRV_FINISHED).      *)
THEOREM Cuentan == Spec => [](IInv /\ Vivos)
<1>1. Init => IInv /\ Vivos
  BY AlPrincipio, VivosAlPrincipio
<1>2. IInv /\ Vivos /\ [Next]_vars => (IInv /\ Vivos)'
  BY EnCadaPaso, VivosEnCadaPaso
<1> QED BY <1>1, <1>2, PTL DEF Spec, SafeSpec

-----------------------------------------------------------------------------
(* What follows.                                                           *)

LEMMA Despedidos ==
    ASSUME IInv, NEW t \in Servers, Despedido(t)
    PROVE  ~ hay_pedido_local[t] /\ \A u \in Otros(t) : ~ Espera(t, u)
<1>1. ~ hay_pedido_local[t]
  <2>1. ConversacionDe(t, EnVuelo(mi_cliente(t), t), EnVuelo(t, mi_cliente(t)),
                       cpc[mi_cliente(t)])
    BY DelInvariante DEF ConversacionDeS
  <2>2. Len(EnVuelo(mi_cliente(t), t)) = 0
    BY EmptySeq DEF Despedido
  <2> QED BY <2>1, <2>2 DEF ConversacionDe, Despedido, EsDos
<1> QED BY <1>1, DelInvariante

(* Every variable has its type: a server misses N - 1 replies at most, and *)
(* counts N clients at most.                                               *)
THEOREM Tipo == Spec => []TypeOK
<1>1. ASSUME IInv, Vivos
      PROVE  TypeOK
  <2>1. MPIState(mpi) /\ ClienteTypeOK
    BY <1>1 DEF IInv, Tipos, Vivos, ClienteTypeOK
  <2>2. N \in Nat \ {0}
    BY NAssumption
  <2>3. ASSUME NEW s \in Servers
        PROVE  outstanding_reply[s] \in 0..(N - 1) /\ clients_alive[s] \in 0..N
    <3>1. IsFiniteSet(Otros(s)) /\ Cardinality(Otros(s)) = N - 1
      BY CuantosServidores
    <3>2. IsFiniteSet(Servers) /\ Cardinality(Servers) = N
      <4>1. Servers = Otros(s) \cup {s} /\ s \notin Otros(s)
        BY DEF Otros
      <4> QED BY <2>2, <3>1, <4>1, FS_AddElement
    <3>3. /\ outstanding_reply[s] \in Nat
          /\ outstanding_reply[s] = Cardinality({t \in Otros(s) : Espera(s, t)})
      BY <1>1, DelInvariante
    <3>4. Cardinality({t \in Otros(s) : Espera(s, t)}) <= N - 1
      BY <3>1, FS_Subset
    <3>5. /\ clients_alive[s] \in Nat /\ clients_alive[s] = Cardinality(Contados(s))
          /\ Contados(s) \subseteq Servers
      BY <1>1 DEF Vivos, Contados
    <3>6. Cardinality(Contados(s)) <= N
      BY <3>2, <3>5, FS_Subset
    <3> QED BY <2>2, <3>3, <3>4, <3>5, <3>6
  <2>4. ServidorTypeOK
    BY <1>1, <2>3 DEF ServidorTypeOK, IInv, Tipos, Vivos
  <2> QED BY <2>1, <2>4 DEF TypeOK
<1> QED BY <1>1, Cuentan, PTL

(* The assertions of the handlers: what arrives comes from whom the switch *)
(* takes it to come and finds the state the case takes for granted.        *)
THEOREM Asserts == Spec => []HandlersAsserts
<1>1. ASSUME IInv, Vivos
      PROVE  HandlersAsserts
  <2> SUFFICES ASSUME NEW s \in Servers, NEW p \in Ranks, NEW m \in Deliverable(p, s)
               PROVE  CASE m.tag = "TAG_PEDIDO"  -> p = mi_cliente(s) /\ ~ hay_pedido_local[s]
                        [] m.tag = "TAG_LIBERO"  -> p = mi_cliente(s) /\ hay_pedido_local[s]
                        [] m.tag = "TAG_TERMINE" -> p = mi_cliente(s) /\ ~ hay_pedido_local[s]
                        [] m.tag = "SRV_REQ"     -> p \in Otros(s)
                        [] m.tag = "SRV_REPLY"   -> p \in Otros(s) /\ outstanding_reply[s] > 0
                        [] m.tag = "SRV_FINISHED" -> p \in Otros(s) /\ clients_alive[s] > 0
                        [] OTHER -> FALSE
    BY DEF HandlersAsserts
  <2>1. /\ m = Head(EnVuelo(p, s)) /\ EnVuelo(p, s) # <<>> /\ EnVuelo(p, s) \in Seq(Messages)
        /\ Esta(EnVuelo(p, s), m.tag)
        /\ m.tag \in {"TAG_PEDIDO", "TAG_LIBERO", "TAG_TERMINE"} => p = mi_cliente(s)
        /\ m.tag \in {"SRV_REQ", "SRV_REPLY", "SRV_FINISHED"} => p \in Otros(s)
    BY <1>1, PorLlegar
  <2>2. CASE p \in Servers
    <3>1. m.tag \in {"SRV_REQ", "SRV_REPLY", "SRV_FINISHED"} /\ p \in Otros(s)
      BY <1>1, <2>1, <2>2 DEF IInv, Rutas
    <3>2. m.tag = "SRV_REPLY" => outstanding_reply[s] > 0
      <4> HAVE m.tag = "SRV_REPLY"
      <4>1. Espera(s, p)
        BY <2>1 DEF Espera, Hay, Esta
      <4>2. outstanding_reply[s] # 0 /\ outstanding_reply[s] \in Nat
        BY <1>1, <3>1, <4>1, DelInvariante
      <4> QED BY <4>2
    <3>3. m.tag = "SRV_FINISHED" => clients_alive[s] > 0
      <4> HAVE m.tag = "SRV_FINISHED"
      <4>1. p \in Contados(s)
        BY <2>1, <2>2 DEF Contados, LoCuenta, Hay, Esta
      <4>2. clients_alive[s] \in Nat /\ clients_alive[s] = Cardinality(Contados(s))
        BY <1>1 DEF Vivos
      <4>3. IsFiniteSet(Contados(s))
        <5>1. Servers = Otros(s) \cup {s}
          BY DEF Otros
        <5>2. IsFiniteSet(Servers)
          BY <5>1, CuantosServidores, FS_AddElement
        <5> QED BY <5>2, FS_Subset DEF Contados
      <4>4. Cardinality(Contados(s)) # 0
        BY <4>1, <4>3, FS_EmptySet
      <4> QED BY <4>2, <4>4
    <3> QED BY <3>1, <3>2, <3>3
  <2>3. CASE p \in Clients
    <3>1. p = mi_cliente(s)
      BY <1>1, <2>1, <2>3 DEF IInv, Rutas
    <3>2. ConversacionDe(s, EnVuelo(p, s), EnVuelo(s, p), cpc[p])
      BY <1>1, <3>1, DelInvariante DEF ConversacionDeS
    <3>3. \/ m.tag = "TAG_PEDIDO" /\ ~ hay_pedido_local[s]
          \/ m.tag = "TAG_LIBERO" /\ hay_pedido_local[s]
          \/ m.tag = "TAG_TERMINE" /\ ~ hay_pedido_local[s]
      BY <2>1, <3>2, Cortas DEF ConversacionDe, Tiene
    <3> QED BY <3>1, <3>3
  <2> QED BY <2>2, <2>3, Rangos
<1> QED BY <1>1, Cuentan, PTL

(* A server that leaves its loop misses no message, owes no reply, and     *)
(* leaves no client in need of it.                                         *)
THEOREM NadieQueda == Spec => []NobodyLeftWaiting
<1>1. ASSUME IInv, Vivos
      PROVE  NobodyLeftWaiting
  <2> SUFFICES ASSUME NEW s \in Servers, spc[s] = "fin"
               PROVE  /\ \A p \in Ranks : EnVuelo(p, s) = <<>>
                      /\ reply_deferred[s] = {}
                      /\ \A c \in Clients : cpc[c] \in {"terminando", "fin"}
    BY DEF NobodyLeftWaiting
  <2>1. \A t \in Servers : Despedido(t) /\ ~ Hay(t, s, "SRV_FINISHED")
    <3>1. Cardinality(Contados(s)) = 0
      BY <1>1 DEF Vivos
    <3>2. IsFiniteSet(Contados(s))
      <4>1. Servers = Otros(s) \cup {s}
        BY DEF Otros
      <4>2. IsFiniteSet(Servers)
        BY <4>1, CuantosServidores, FS_AddElement
      <4> QED BY <4>2, FS_Subset DEF Contados
    <3>3. Contados(s) = {}
      BY <3>1, <3>2, FS_EmptySet
    <3> QED BY <3>3 DEF Contados, LoCuenta
  <2>2. \A t \in Servers : \A u \in Otros(t) : ~ Espera(t, u)
    BY <1>1, <2>1, Despedidos
  <2>3. reply_deferred[s] = {}
    <3>1. reply_deferred[s] \subseteq Servers \ {s}
      BY <1>1 DEF IInv, Tipos
    <3>2. \A t \in Servers \ {s} : s \in Otros(t)
      BY DEF Otros
    <3> QED BY <2>2, <3>1, <3>2 DEF Espera
  <2>4. ASSUME NEW p \in Ranks
        PROVE  EnVuelo(p, s) = <<>>
    <3>1. CASE p \in Clients
      <4>1. p # mi_cliente(s) => EnVuelo(p, s) = <<>>
        BY <1>1, <3>1 DEF IInv, Rutas
      <4>2. EnVuelo(mi_cliente(s), s) = <<>>
        BY <2>1 DEF Despedido
      <4> QED BY <4>1, <4>2
    <3>2. CASE p \in Otros(s)
      <4>1. p \in Servers /\ s \in Otros(p)
        BY <3>2 DEF Otros
      <4>2. ~ Hay(p, s, "SRV_REQ") /\ ~ Hay(p, s, "SRV_REPLY") /\ ~ Hay(p, s, "SRV_FINISHED")
        BY <2>1, <2>2, <3>2, <4>1 DEF Espera
      <4>3. \A tag : ~ Esta(EnVuelo(p, s), tag)
        BY <1>1, <4>1, <4>2 DEF IInv, Rutas, Hay, Esta
      <4>4. EnVuelo(p, s) \in Seq(Messages)
        BY <1>1, <4>1, Rangos, CanalTipo DEF IInv, Tipos, EnVuelo
      <4> QED BY <4>3, <4>4, AlSacar
    <3>3. CASE p = s
      BY <1>1, <3>3 DEF IInv, Rutas
    <3> QED BY <3>1, <3>2, <3>3, Rangos DEF Otros
  <2>5. \A c \in Clients : cpc[c] \in {"terminando", "fin"}
    BY <2>1, Rangos DEF Despedido
  <2> QED BY <2>3, <2>4, <2>5
<1> QED BY <1>1, Cuentan, PTL

-----------------------------------------------------------------------------
(* How many messages MPI has to keep.                                      *)

(* A client hears from rank 0 once, and otherwise from its server. *)
Lejos ==
    \A c \in Clients : \A p \in Ranks \ {c - 1} :
        Len(EnVuelo(p, c)) <= 1 /\ (spc[0] = "reparto" => EnVuelo(p, c) = <<>>)

LEMMA LejosEnCadaPaso ==
    ASSUME IInv, Lejos, [Next]_vars
    PROVE  Lejos'
<1>0. \A c \in Clients : \A p \in Ranks \ {c - 1} :
         /\ c \in Ranks /\ c \notin Servers /\ EnVuelo(p, c) \in Seq(Messages)
         /\ Len(EnVuelo(p, c)) <= 1 /\ (spc[0] = "reparto" => EnVuelo(p, c) = <<>>)
  BY Rangos, CanalTipo DEF IInv, Tipos, EnVuelo, Lejos
<1>1. ASSUME spc'[0] = "reparto" => spc[0] = "reparto",
             \A c \in Clients : \A p \in Ranks \ {c - 1} :
                \/ EnVuelo(p, c)' = EnVuelo(p, c)
                \/ EnVuelo(p, c) # <<>> /\ EnVuelo(p, c)' = Tail(EnVuelo(p, c))
      PROVE  Lejos'
  <2>1. ASSUME NEW c \in Clients, NEW p \in Ranks \ {c - 1}
        PROVE  Len(EnVuelo(p, c))' <= 1 /\ (spc'[0] = "reparto" => EnVuelo(p, c)' = <<>>)
    <3>1. EnVuelo(p, c) # <<>> => Len(Tail(EnVuelo(p, c))) <= 1
      BY <1>0
    <3> QED BY <1>0, <1>1, <3>1
  <2> QED BY <2>1 DEF Lejos
<1>2. CASE UNCHANGED vars
  <2>1. spc' = spc /\ \A p, r : EnVuelo(p, r)' = EnVuelo(p, r)
    BY <1>2 DEF vars, servidorVars, EnVuelo
  <2> QED BY <1>1, <2>1
<1>3. CASE Terminado
  BY <1>2, <1>3 DEF Terminado
<1>4. ASSUME NEW d \in Clients, ClienteStep(d)
      PROVE  Lejos'
  <2>0. spc' = spc /\ d - 1 \in Servers /\ 0 \in Servers /\ d \in Ranks /\ d - 1 \notin Clients
    BY <1>4, Rangos DEF ClienteStep, servidorVars
  <2>1. ASSUME NEW t \in Tags, ~ Blocked(d),
               mpi' = Send(mpi, d, {d - 1}, Message(t, 0)) \/ mpi' = Ssend(mpi, d, {d - 1}, Message(t, 0))
        PROVE  Lejos'
    <3>1. \A p, r \in Ranks : r \in Clients => EnVuelo(p, r)' = EnVuelo(p, r)
      <4>1. \A p, r \in Ranks : ~ (p = d /\ r = d - 1) => EnVuelo(p, r)' = EnVuelo(p, r)
        BY <1>4, <2>1, ClienteEnvia
      <4> QED BY <2>0, <4>1
    <3> QED BY <1>0, <1>1, <2>0, <3>1
  <2>2. ASSUME NEW o \in Servers, mpi' = Recv(o, d), Deliverable(o, d) # {}
        PROVE  Lejos'
    <3>1. /\ EnVuelo(o, d) # <<>>
          /\ \A p, r \in Ranks : EnVuelo(p, r)' = IF p = o /\ r = d THEN Tail(EnVuelo(p, r))
                                                                  ELSE EnVuelo(p, r)
      BY <1>4, <2>2, ClienteRecibe
    <3> QED BY <1>0, <1>1, <2>0, <3>1
  <2>3. CASE RecibirParametros(d) \/ Entrar(d)
    BY <2>0, <2>2, <2>3 DEF RecibirParametros, Entrar
  <2>4. CASE Pedir(d) \/ Terminar(d) \/ Liberar(d)
    <3>1. ~ Blocked(d)
      BY <1>4, <2>4 DEF Pedir, Terminar, Liberar, IInv, Arranque
    <3> QED BY <2>1, <2>4, <3>1 DEF Pedir, Terminar, Liberar, Tags
  <2>5. CASE Finalizar(d)
    BY <1>1, <2>0, <2>5 DEF Finalizar, EnVuelo
  <2> QED BY <1>4, <2>3, <2>4, <2>5 DEF ClienteStep, ClienteNext
<1>5. ASSUME NEW s \in Servers, ServidorStep(s)
      PROVE  Lejos'
  <2>1. CASE s = 0 /\ Repartir
    <3> DEFINE a == Message("TAG_INICIAL", 0)
    <3>1. /\ spc[0] = "reparto" /\ ~ Blocked(0) /\ mpi' = Ssend(mpi, 0, Clients, a)
          /\ spc' = [spc EXCEPT ![0] = "sirviendo"]
      BY <2>1 DEF Repartir
    <3>2. /\ 0 \in Ranks /\ Clients \subseteq Ranks /\ a \in Messages /\ MPIState(mpi)
          /\ DOMAIN mpi.pending[0] = {} /\ spc'[0] # "reparto"
      BY <3>1, Rangos, Mensajes DEF Tags, IInv, Tipos, Blocked
    <3> HIDE DEF a
    <3>3. \A p, r \in Ranks : EnVuelo(p, r)' = IF p = 0 /\ r \in Clients
                                               THEN Append(EnVuelo(p, r), a) ELSE EnVuelo(p, r)
      <4>1. Enviado(mpi, mpi', 0, Clients, a)
        BY <3>1, <3>2, Envia
      <4> QED BY <4>1 DEF Enviado, EnVuelo
    <3>4. ASSUME NEW c \in Clients, NEW p \in Ranks \ {c - 1}
          PROVE  Len(EnVuelo(p, c))' <= 1
      <4>1. EnVuelo(p, c) = <<>> /\ EnVuelo(p, c) \in Seq(Messages)
        BY <1>0, <3>1
      <4>2. Len(Append(EnVuelo(p, c), a)) = Len(EnVuelo(p, c)) + 1 /\ Len(EnVuelo(p, c)) = 0
        BY <3>2, <4>1
      <4> QED BY <1>0, <3>3, <4>1, <4>2
    <3> QED BY <3>2, <3>4 DEF Lejos
  <2>2. ASSUME NEW o \in Ranks, NEW m \in Deliverable(o, s), UNCHANGED clienteVars,
               \/ Pedido(s, o, m) \/ Reply(s, o, m) \/ Libero(s, o, m)
               \/ Req(s, o, m) \/ Termine(s, o, m) \/ Finished(s, o, m)
        PROVE  Lejos'
    <3>1. PICK D, a, da : Atiende(s, o, m, D, a, da)
      BY <2>2, AtiendeUno
    <3>2. ASSUME NEW c \in Clients, NEW p \in Ranks \ {c - 1}
          PROVE  EnVuelo(p, c)' = EnVuelo(p, c)
      <4>1. c # s /\ c \notin D /\ ~ (p = s /\ c = mi_cliente(s)) /\ c \in Ranks /\ p \in Ranks
        BY <1>5, <3>1, <3>2, Rangos DEF Atiende, Otros
      <4> QED BY <3>1, <4>1 DEF Atiende, Efecto
    <3> QED BY <1>1, <3>1, <3>2 DEF Atiende
  <2> QED BY <1>5, <2>1, <2>2 DEF ServidorStep, ServidorNext
<1> QED BY <1>2, <1>3, <1>4, <1>5 DEF Next

LEMMA LejosAlPrincipio == Init => Lejos
<1> SUFFICES ASSUME Init
             PROVE  Lejos
  OBVIOUS
<1>1. \A p, r \in Ranks : mpi.net[p][r] = <<>> /\ r \notin DOMAIN mpi.pending[p]
  BY DEF Init, MPIInit, Nothing
<1>2. \A p, r \in Ranks : EnVuelo(p, r) = <<>> /\ Len(EnVuelo(p, r)) = 0
  BY <1>1 DEF EnVuelo, Channel
<1> QED BY <1>2, Rangos DEF Lejos

(* Between two servers: a request, a reply and a notice of the end, and    *)
(* not the three at once.                                                  *)
LEMMA EntreServidoresDos ==
    ASSUME IInv, Vivos, NEW p \in Servers, NEW q \in Servers
    PROVE  Len(EnVuelo(p, q)) <= 2
<1> DEFINE S == EnVuelo(p, q)
<1>1. S \in Seq(Messages) /\ Len(S) \in Nat /\ DOMAIN S = 1..Len(S)
  BY Rangos, CanalTipo DEF IInv, Tipos, EnVuelo
<1>2. CASE p = q
  BY <1>2 DEF IInv, Rutas
<1>3. CASE p # q
  <2>1. q \in Otros(p) /\ p \in Otros(q)
    BY <1>3 DEF Otros
  <2>2. /\ Unico(S, "SRV_REQ") /\ Unico(S, "SRV_REPLY") /\ Unico(S, "SRV_FINISHED")
        /\ \A tag : Esta(S, tag) => tag \in {"SRV_REQ", "SRV_REPLY", "SRV_FINISHED"}
    BY <2>1, DelInvariante DEF Deuda, Vivos, Avisos, IInv, Rutas
  <2>3. ~ (Esta(S, "SRV_REQ") /\ Esta(S, "SRV_FINISHED"))
    <3> SUFFICES ASSUME Hay(p, q, "SRV_REQ"), Hay(p, q, "SRV_FINISHED")
                 PROVE  FALSE
      BY DEF Hay, Esta
    <3>1. Despedido(p)
      BY DEF Vivos, Avisos
    <3> QED BY <2>1, <3>1, Despedidos DEF Espera
  <2> HIDE DEF S
  <2>4. ASSUME Len(S) > 2
        PROVE  FALSE
    <3>1. 1 \in DOMAIN S /\ 2 \in DOMAIN S /\ 3 \in DOMAIN S
      BY <1>1, <2>4
    <3>2. \A i \in DOMAIN S : S[i].tag \in {"SRV_REQ", "SRV_REPLY", "SRV_FINISHED"}
      BY <2>2 DEF Esta
    <3>3. S[1].tag # S[2].tag /\ S[1].tag # S[3].tag /\ S[2].tag # S[3].tag
      BY <2>2, <3>1, <3>2 DEF Unico
    <3> QED BY <2>3, <3>1, <3>2, <3>3 DEF Esta
  <2> QED BY <1>1, <2>4 DEF S
<1> QED BY <1>2, <1>3

(* MPI never has to keep more than two messages between two ranks for      *)
(* MPI_Send to return at once.                                             *)
THEOREM DosAlcanzan == Spec => []TwoMessagesSuffice
<1>1. ASSUME IInv, Vivos, Lejos
      PROVE  TwoMessagesSuffice
  <2> SUFFICES ASSUME NEW p \in Ranks, NEW r \in Ranks
               PROVE  Len(mpi.net[p][r]) <= 2
    BY DEF TwoMessagesSuffice
  <2>1. /\ mpi.net[p][r] \in Seq(Messages) /\ EnVuelo(p, r) \in Seq(Messages)
        /\ r \in DOMAIN mpi.pending[p] => mpi.pending[p][r] \in Messages
    BY <1>1, CanalTipo DEF IInv, Tipos, EnVuelo, MPIState
  <2>2. Len(mpi.net[p][r]) <= Len(EnVuelo(p, r)) /\ Len(EnVuelo(p, r)) \in Nat
        /\ Len(mpi.net[p][r]) \in Nat
    <3>1. \A m \in Messages : Len(Append(mpi.net[p][r], m)) = Len(mpi.net[p][r]) + 1
      BY <2>1
    <3> QED BY <2>1, <3>1 DEF EnVuelo, Channel
  <2>3. Len(EnVuelo(p, r)) <= 2
    <3>1. CASE p \in Servers /\ r \in Servers
      BY <1>1, <3>1, EntreServidoresDos
    <3>2. ASSUME NEW s \in Servers
          PROVE  Len(EnVuelo(s, mi_cliente(s))) <= 2 /\ Len(EnVuelo(mi_cliente(s), s)) <= 2
      <4> DEFINE ida == EnVuelo(mi_cliente(s), s)
                 vuelta == EnVuelo(s, mi_cliente(s))
      <4>1. ConversacionDe(s, ida, vuelta, cpc[mi_cliente(s)])
        BY <1>1, <3>2, DelInvariante DEF ConversacionDeS
      <4>0. ida \in Seq(Messages) /\ vuelta \in Seq(Messages)
        BY <1>1, <3>2, Rangos, CanalTipo DEF IInv, Tipos, EnVuelo
      <4> HIDE DEF ida, vuelta
      <4>2. (ida = <<>> <=> Len(ida) = 0) /\ (vuelta = <<>> <=> Len(vuelta) = 0)
            /\ Len(ida) \in Nat /\ Len(vuelta) \in Nat
        BY <4>0, EmptySeq
      <4>3. /\ Len(ida) = 0 \/ Len(ida) = 1 \/ Len(ida) = 2
            /\ Len(vuelta) = 0 \/ Len(vuelta) = 1
        BY <4>1, <4>2 DEF ConversacionDe, EsUno, EsDos
      <4>4. \A n \in Nat : n = 0 \/ n = 1 \/ n = 2 => n <= 2
        OBVIOUS
      <4>5. Len(ida) <= 2 /\ Len(vuelta) <= 2
        BY <4>2, <4>3, <4>4, Zenon
      <4> QED BY <4>5 DEF ida, vuelta
    <3>3. CASE r \in Clients
      <4>1. CASE p = r - 1
        BY <3>2, <3>3, <4>1, Rangos
      <4>2. CASE p # r - 1
        BY <1>1, <2>2, <3>3, <4>2 DEF Lejos
      <4> QED BY <4>1, <4>2
    <3>4. CASE p \in Clients /\ r \in Servers
      <4>1. CASE p = mi_cliente(r)
        BY <3>2, <3>4, <4>1
      <4>2. CASE p # mi_cliente(r)
        BY <1>1, <3>4, <4>2 DEF IInv, Rutas
      <4> QED BY <4>1, <4>2
    <3> QED BY <3>1, <3>3, <3>4, Rangos
  <2> QED BY <2>2, <2>3
<1>2. Init => Lejos
  BY LejosAlPrincipio
<1>3. IInv /\ Lejos /\ [Next]_vars => Lejos'
  BY LejosEnCadaPaso
<1> QED BY <1>1, <1>2, <1>3, Cuentan, PTL DEF Spec, SafeSpec
=============================================================================
