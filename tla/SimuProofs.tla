----------------------------- MODULE SimuProofs -----------------------------
(***************************************************************************)
(* The simulator and its schedulers, for any number of tasks, any files,   *)
(* any schedulers asked for and any cost of the context switch.  First the *)
(* hand-off of the turn between the simulator and the threads of the       *)
(* tasks, which holds whatever the schedulers do; then the queues of each  *)
(* scheduler, as lines of pids; and then the invariant that relates them   *)
(* to the data of the tasks and to the heaps of the simulator.             *)
(***************************************************************************)
EXTENDS Simu, FiniteSetTheorems, SequenceTheorems, WellFoundedInduction, TLAPS

(* While the simulator runs every mutex is locked and no thread is out of  *)
(* its lock; while it waits the turn is in one of three places: with the   *)
(* mutex of the current task, with its thread, or with m_sched.            *)
Quietos(S) == \A p \in S : mutex[p] /\ hilo[p] \in {"espera", "fin"}

Turno ==
    /\ mutex \in [Pids -> BOOLEAN]
    /\ hilo \in [Pids -> {"espera", "corre", "suelta", "sale", "fin"}]
    /\ m_sched \in BOOLEAN
    /\ cur_pid \in Pids \cup {IDLE_TASK}
    /\ pc \in {"espera", "motivo"} => cur_pid \in Pids
    /\ pc # "espera" => m_sched /\ Quietos(Pids)
    /\ pc = "espera" =>
        /\ Quietos(Pids \ {cur_pid})
        /\ \/ ~ mutex[cur_pid] /\ m_sched /\ hilo[cur_pid] \in {"espera", "fin"}
           \/ mutex[cur_pid] /\ m_sched /\ hilo[cur_pid] \in {"corre", "suelta", "sale"}
           \/ mutex[cur_pid] /\ ~ m_sched /\ hilo[cur_pid] \in {"espera", "fin"}

LEMMA TurnoInicial == Init => Turno
BY PidAssumption DEF Init, Turno, Quietos, Pids

(* Whatever the scheduler answers, the loop goes on without a thread.      *)
LEMMA TurnoTrasPreguntar ==
    ASSUME Turno, pc # "espera", NEW m, Preguntar(m), UNCHANGED hilos
    PROVE  Turno'
<1>1. PICK sig \in Pids \cup {IDLE_TASK, INDEFINIDO, ABORTO} : Despachar(sig)
  BY DEF Preguntar
<1>2. cur_pid' \in Pids \cup {IDLE_TASK} /\ pc' \in {"vuelta"} \cup Cortes
  <2>1. cur_pid' \in Pids \cup {IDLE_TASK}
    BY <1>1, SMTT(30) DEF Despachar, Rechazada, Turno
  <2>2. pc' \in {"vuelta", "error", "indefinido", "abortado"}
    BY <1>1 DEF Despachar
  <2> QED BY <2>1, <2>2 DEF Cortes
<1> QED BY <1>2 DEF Turno, Quietos, hilos, Cortes

LEMMA TurnoDeVuelta == Turno /\ Vuelta => Turno'
<1> SUFFICES ASSUME Turno, Vuelta PROVE Turno'
  OBVIOUS
<1>1. CASE Cargar \/ Desbloquear \/ Contexto \/ Fin
  BY <1>1 DEF Cargar, Desbloquear, Contexto, Fin, AlDia, EnLaVuelta, Turno, Quietos, hilos,
     tiempos
<1>2. CASE TickOcioso
  BY <1>2, TurnoTrasPreguntar DEF TickOcioso, AlDia, EnLaVuelta
<1>3. CASE Reanudar
  <2>1. cur_pid \in Pids
    BY <1>3 DEF Reanudar, Turno
  <2>2. pc = "vuelta" /\ pc' = "espera" /\ UNCHANGED <<cur_pid, m_sched, hilo>>
    BY <1>3 DEF Reanudar, AlDia, EnLaVuelta
  <2>3. mutex' = [mutex EXCEPT ![cur_pid] = FALSE]
    BY <1>3 DEF Reanudar
  <2> QED BY <2>1, <2>2, <2>3 DEF Turno, Quietos
<1>4. CASE Retomar
  BY <1>4 DEF Retomar, Turno, Quietos
<1>5. CASE Terminar
  BY <1>5, TurnoTrasPreguntar DEF Terminar, EnMotivo, AlDia, EnLaVuelta
<1>6. CASE Bloquear
  BY <1>6, TurnoTrasPreguntar DEF Bloquear, EnMotivo, AlDia, EnLaVuelta
<1>7. CASE Gastar
  BY <1>7, TurnoTrasPreguntar DEF Gastar, EnMotivo, AlDia, EnLaVuelta
<1> QED BY <1>1, <1>2, <1>3, <1>4, <1>5, <1>6, <1>7 DEF Vuelta

LEMMA TurnoDeTarea == ASSUME Turno, NEW p \in Pids, Tarea(p) PROVE Turno'
<1>1. CASE TomarTurno(p)
  BY <1>1, SMTT(30) DEF TomarTurno, Turno, Quietos
<1>2. CASE Correr(p)
  BY <1>2 DEF Correr, Turno, Quietos
<1>3. CASE DarTurno(p)
  BY <1>3 DEF DarTurno, Turno, Quietos
<1> QED BY <1>1, <1>2, <1>3 DEF Tarea

(* The turn is in one place. *)
THEOREM TurnoInvariante == SafeSpec => []Turno
<1>1. Turno /\ [Next]_vars => Turno'
  <2> SUFFICES ASSUME Turno, [Next]_vars PROVE Turno'
    OBVIOUS
  <2>1. CASE UNCHANGED vars
    BY <2>1 DEF vars, hilos, Turno, Quietos
  <2>2. CASE Acabada
    BY <2>2 DEF Acabada, vars, hilos, Turno, Quietos
  <2> QED BY <2>1, <2>2, TurnoDeVuelta, TurnoDeTarea DEF Next
<1> QED BY <1>1, TurnoInicial, PTL DEF SafeSpec

(* One thread runs at a time: a task only while the simulator waits for it *)
(* and it is the current one (uso_X writes through cur_pid), and the       *)
(* simulator takes the turn back from a thread that waits or has ended.    *)
THEOREM UnSoloTurno == SafeSpec => []TurnoUnico
<1>1. Turno => TurnoUnico
  BY DEF Turno, Quietos, TurnoUnico
<1> QED BY <1>1, TurnoInvariante, PTL

-----------------------------------------------------------------------------
(* Lines of pids.                                                          *)

(* The tasks of S, once each, and no other are in the places of L.         *)
Fila(L, S) ==
    /\ {p \in Pids : \E i \in DOMAIN L : L[i] = p} = S
    /\ \A i, j \in DOMAIN L : L[i] = L[j] /\ L[i] \in Pids => i = j

(* One more, in a new place. *)
LEMMA FilaCon ==
    ASSUME NEW L, NEW S, Fila(L, S), NEW M, NEW p, p \notin S, NEW i, i \notin DOMAIN L,
           DOMAIN M = DOMAIN L \cup {i}, \A k \in DOMAIN L : M[k] = L[k], M[i] = p
    PROVE  Fila(M, S \cup ({p} \cap Pids))
<1>1. \A k \in DOMAIN L : L[k] \in Pids => L[k] \in S
  BY DEF Fila
<1>2. \A k, l \in DOMAIN M : M[k] = M[l] /\ M[k] \in Pids => k = l
  BY <1>1 DEF Fila
<1>3. {q \in Pids : \E k \in DOMAIN M : M[k] = q} = S \cup ({p} \cap Pids)
  BY <1>1 DEF Fila
<1> QED BY <1>2, <1>3 DEF Fila

(* One less: h goes from the places that are left to those they were in.   *)
LEMMA FilaSin ==
    ASSUME NEW L, NEW S, Fila(L, S), NEW M, NEW i \in DOMAIN L, NEW h,
           \A k \in DOMAIN M : h[k] \in DOMAIN L \ {i} /\ M[k] = L[h[k]],
           \A k \in DOMAIN M : \A l \in DOMAIN M : h[k] = h[l] => k = l,
           \A k \in DOMAIN L \ {i} : \E l \in DOMAIN M : h[l] = k
    PROVE  Fila(M, S \ {L[i]})
<1>1. \A k, l \in DOMAIN M : M[k] = M[l] /\ M[k] \in Pids => k = l
  <2> SUFFICES ASSUME NEW k \in DOMAIN M, NEW l \in DOMAIN M, M[k] = M[l], M[k] \in Pids
               PROVE  k = l
    OBVIOUS
  <2>1. h[k] = h[l]
    BY DEF Fila
  <2> QED BY <2>1
<1>2. ASSUME NEW q \in Pids, NEW k \in DOMAIN M, M[k] = q PROVE q \in S \ {L[i]}
  BY <1>2 DEF Fila
<1>3. ASSUME NEW q \in S \ {L[i]} PROVE q \in Pids /\ \E k \in DOMAIN M : M[k] = q
  <2>1. q \in Pids /\ \E k \in DOMAIN L : L[k] = q
    BY DEF Fila
  <2>2. PICK k \in DOMAIN L : L[k] = q
    BY <2>1
  <2>3. PICK l \in DOMAIN M : h[l] = k
    BY <2>2
  <2> QED BY <2>1, <2>2, <2>3
<1>4. {q \in Pids : \E k \in DOMAIN M : M[k] = q} = S \ {L[i]}
  BY <1>2, <1>3
<1> QED BY <1>1, <1>4 DEF Fila

LEMMA FilaVacia ==
    ASSUME NEW L, DOMAIN L = {} PROVE Fila(L, {})
BY DEF Fila

(* The places of a sequence. *)
LEMMA Indices ==
    ASSUME NEW T, NEW s \in Seq(T)
    PROVE  /\ Len(s) \in Nat /\ DOMAIN s = 1..Len(s)
           /\ \A i \in DOMAIN s : s[i] \in T
           /\ s = <<>> <=> Len(s) = 0
           /\ s # <<>> => 1 \in DOMAIN s /\ Head(s) = s[1] /\ Head(s) \in T
<1>1. Len(s) \in Nat /\ DOMAIN s = 1..Len(s)
  BY LenProperties
<1>2. \A i \in DOMAIN s : s[i] \in T
  BY <1>1, ElementOfSeq
<1>3. s = <<>> <=> Len(s) = 0
  BY EmptySeq
<1>4. s # <<>> => Head(s) = s[1]
  OBVIOUS
<1> QED BY <1>1, <1>2, <1>3, <1>4

LEMMA AlFinal ==
    ASSUME NEW T, NEW s \in Seq(T), NEW e \in T
    PROVE  LET r == Append(s, e) IN
           /\ r \in Seq(T) /\ r # <<>>
           /\ DOMAIN r = DOMAIN s \cup {Len(s) + 1} /\ Len(s) + 1 \notin DOMAIN s
           /\ \A k \in DOMAIN s : r[k] = s[k]
           /\ r[Len(s) + 1] = e
<1> DEFINE r == Append(s, e)
<1>1. /\ r \in Seq(T) /\ r # <<>> /\ Len(r) = Len(s) + 1
      /\ \A k \in 1..Len(s) : r[k] = s[k]
      /\ r[Len(s) + 1] = e
  BY AppendProperties
<1> HIDE DEF r
<1>2. DOMAIN r = 1..Len(r) /\ DOMAIN s = 1..Len(s) /\ Len(s) \in Nat
  BY <1>1, Indices
<1> QED BY <1>1, <1>2 DEF r

LEMMA FilaAlFinal ==
    ASSUME NEW T, NEW s \in Seq(T), NEW e \in T, NEW S, Fila(s, S), e \notin S
    PROVE  Fila(Append(s, e), S \cup ({e} \cap Pids))
<1> DEFINE r == Append(s, e)
<1>1. /\ DOMAIN r = DOMAIN s \cup {Len(s) + 1} /\ Len(s) + 1 \notin DOMAIN s
      /\ \A k \in DOMAIN s : r[k] = s[k]
      /\ r[Len(s) + 1] = e
  BY AlFinal
<1> HIDE DEF r
<1>2. Fila(r, S \cup ({e} \cap Pids))
  BY <1>1, FilaCon
<1> QED BY <1>2 DEF r

LEMMA ElResto ==
    ASSUME NEW T, NEW s \in Seq(T), s # <<>>
    PROVE  LET r == Tail(s) IN
           /\ r \in Seq(T) /\ Len(s) \in Nat /\ DOMAIN s = 1..Len(s) /\ Len(s) # 0
           /\ DOMAIN r = 1..(Len(s) - 1)
           /\ \A k \in DOMAIN r : r[k] = s[k + 1]
<1> DEFINE r == Tail(s)
<1>1. r \in Seq(T) /\ Len(r) = Len(s) - 1 /\ \A k \in 1..Len(r) : r[k] = s[k + 1]
  BY HeadTailProperties
<1> HIDE DEF r
<1>2. DOMAIN r = 1..Len(r)
  BY <1>1, Indices
<1>3. Len(s) \in Nat /\ DOMAIN s = 1..Len(s) /\ Len(s) # 0
  BY Indices
<1> QED BY <1>1, <1>2, <1>3 DEF r

LEMMA FilaResto ==
    ASSUME NEW T, NEW s \in Seq(T), s # <<>>, NEW S, Fila(s, S)
    PROVE  Fila(Tail(s), S \ {Head(s)})
<1> DEFINE r == Tail(s)
           h == [k \in DOMAIN r |-> k + 1]
<1>1. /\ Len(s) \in Nat /\ DOMAIN s = 1..Len(s) /\ Len(s) # 0
      /\ DOMAIN r = 1..(Len(s) - 1)
      /\ \A k \in DOMAIN r : r[k] = s[k + 1]
  BY ElResto
<1>2. 1 \in DOMAIN s /\ Head(s) = s[1]
  BY Indices
<1> HIDE DEF r
<1>3. \A k \in DOMAIN r : h[k] \in DOMAIN s \ {1} /\ r[k] = s[h[k]]
  BY <1>1
<1>4. \A k \in DOMAIN r : \A l \in DOMAIN r : h[k] = h[l] => k = l
  BY <1>1
<1>5. \A k \in DOMAIN s \ {1} : \E l \in DOMAIN r : h[l] = k
  <2> TAKE k \in DOMAIN s \ {1}
  <2>1. k - 1 \in DOMAIN r /\ h[k - 1] = k
    BY <1>1
  <2> QED BY <2>1
<1> HIDE DEF h
<1>6. Fila(r, S \ {s[1]})
  BY <1>2, <1>3, <1>4, <1>5, FilaSin
<1> QED BY <1>2, <1>6 DEF r

(* The queues of MFQ. *)
Colas(v) == [l \in UNION {{i} \X DOMAIN v[i] : i \in DOMAIN v} |-> v[l[1]][l[2]]]

LEMMA LugaresDe ==
    ASSUME NEW v
    PROVE  /\ \A i, k : <<i, k>> \in DOMAIN Colas(v) <=> i \in DOMAIN v /\ k \in DOMAIN v[i]
           /\ \A l \in DOMAIN Colas(v) : /\ l = <<l[1], l[2]>>
                                         /\ l[1] \in DOMAIN v /\ l[2] \in DOMAIN v[l[1]]
                                         /\ Colas(v)[l] = v[l[1]][l[2]]
<1>1. DOMAIN Colas(v) = UNION {{i} \X DOMAIN v[i] : i \in DOMAIN v}
  BY DEF Colas
<1>2. \A l \in DOMAIN Colas(v) : Colas(v)[l] = v[l[1]][l[2]]
  BY DEF Colas
<1>3. \A i, k : <<i, k>> \in UNION {{i2} \X DOMAIN v[i2] : i2 \in DOMAIN v}
                  <=> i \in DOMAIN v /\ k \in DOMAIN v[i]
  OBVIOUS
<1>4. \A l \in UNION {{i2} \X DOMAIN v[i2] : i2 \in DOMAIN v} :
          l = <<l[1], l[2]>> /\ l[1] \in DOMAIN v /\ l[2] \in DOMAIN v[l[1]]
  OBVIOUS
<1> QED BY <1>1, <1>2, <1>3, <1>4

LEMMA FilaDeCola ==
    ASSUME NEW N, NEW v \in [0..(N - 1) -> Seq(Pids)], NEW j \in 0..(N - 1), NEW p \in Pids,
           NEW S, Fila(Colas(v), S), p \notin S
    PROVE  LET w == [v EXCEPT ![j] = Append(@, p)] IN
           w \in [0..(N - 1) -> Seq(Pids)] /\ Fila(Colas(w), S \cup {p})
<1> DEFINE r == Append(v[j], p)
           w == [v EXCEPT ![j] = r]
           i == <<j, Len(v[j]) + 1>>
<1>1. v[j] \in Seq(Pids)
  OBVIOUS
<1>2. /\ r \in Seq(Pids)
      /\ DOMAIN r = DOMAIN v[j] \cup {Len(v[j]) + 1} /\ Len(v[j]) + 1 \notin DOMAIN v[j]
      /\ \A k \in DOMAIN v[j] : r[k] = v[j][k]
      /\ r[Len(v[j]) + 1] = p
  BY <1>1, AlFinal
<1> HIDE DEF r
<1>3. /\ w \in [0..(N - 1) -> Seq(Pids)] /\ DOMAIN w = DOMAIN v /\ DOMAIN v = 0..(N - 1)
      /\ w[j] = r /\ \A k \in DOMAIN v \ {j} : w[k] = v[k]
  BY <1>2
<1> HIDE DEF w
<1>4. i \notin DOMAIN Colas(v) /\ i \in DOMAIN Colas(w) /\ Colas(w)[i] = p
  <2>1. <<j, Len(v[j]) + 1>> \notin DOMAIN Colas(v)
    BY <1>2, LugaresDe
  <2>2. <<j, Len(v[j]) + 1>> \in DOMAIN Colas(w)
    BY <1>2, <1>3, LugaresDe
  <2>3. Colas(w)[i] = w[i[1]][i[2]]
    BY <2>2, LugaresDe
  <2> QED BY <1>2, <1>3, <2>1, <2>2, <2>3
<1>5. ASSUME NEW l \in DOMAIN Colas(v) PROVE l \in DOMAIN Colas(w) /\ Colas(w)[l] = Colas(v)[l]
  <2>1. /\ l = <<l[1], l[2]>> /\ l[1] \in DOMAIN v /\ l[2] \in DOMAIN v[l[1]]
        /\ Colas(v)[l] = v[l[1]][l[2]]
    BY LugaresDe
  <2>2. l[2] \in DOMAIN w[l[1]] /\ w[l[1]][l[2]] = v[l[1]][l[2]]
    <3>1. CASE l[1] = j
      BY <1>2, <1>3, <2>1, <3>1
    <3>2. CASE l[1] # j
      <4>1. w[l[1]] = v[l[1]]
        BY <1>3, <2>1, <3>2
      <4> QED BY <2>1, <4>1
    <3> QED BY <3>1, <3>2
  <2>3. <<l[1], l[2]>> \in DOMAIN Colas(w)
    BY <1>3, <2>1, <2>2, LugaresDe
  <2>4. Colas(w)[l] = w[l[1]][l[2]]
    BY <2>1, <2>3, LugaresDe
  <2> QED BY <2>1, <2>2, <2>3, <2>4
<1>6. ASSUME NEW l \in DOMAIN Colas(w), l # i PROVE l \in DOMAIN Colas(v)
  <2>1. l = <<l[1], l[2]>> /\ l[1] \in DOMAIN w /\ l[2] \in DOMAIN w[l[1]]
    BY LugaresDe
  <2>2. l[2] \in DOMAIN v[l[1]]
    BY <1>2, <1>3, <1>6, <2>1
  <2>3. <<l[1], l[2]>> \in DOMAIN Colas(v)
    BY <1>3, <2>1, <2>2, LugaresDe
  <2> QED BY <2>1, <2>3
<1>7. DOMAIN Colas(w) = DOMAIN Colas(v) \cup {i}
  BY <1>4, <1>5, <1>6
<1> HIDE DEF i
<1>8. Fila(Colas(w), S \cup ({p} \cap Pids))
  BY <1>4, <1>5, <1>7, FilaCon
<1>9. S \cup ({p} \cap Pids) = S \cup {p}
  OBVIOUS
<1> QED BY <1>3, <1>8, <1>9 DEF w, r

LEMMA FilaSinCola ==
    ASSUME NEW N, NEW v \in [0..(N - 1) -> Seq(Pids)], NEW j \in 0..(N - 1), v[j] # <<>>,
           NEW S, Fila(Colas(v), S)
    PROVE  LET w == [v EXCEPT ![j] = Tail(@)] IN
           w \in [0..(N - 1) -> Seq(Pids)] /\ Fila(Colas(w), S \ {Head(v[j])})
<1> DEFINE r == Tail(v[j])
           w == [v EXCEPT ![j] = r]
           i == <<j, 1>>
           h == [l \in DOMAIN Colas(w) |-> IF l[1] = j THEN <<j, l[2] + 1>> ELSE l]
<1>1. v[j] \in Seq(Pids)
  OBVIOUS
<1>2. /\ r \in Seq(Pids) /\ Len(v[j]) \in Nat /\ DOMAIN v[j] = 1..Len(v[j]) /\ Len(v[j]) # 0
      /\ DOMAIN r = 1..(Len(v[j]) - 1)
      /\ \A k \in DOMAIN r : r[k] = v[j][k + 1]
  BY <1>1, ElResto
<1>3. Head(v[j]) = v[j][1]
  BY <1>1, Indices
<1> HIDE DEF r
<1>4. /\ w \in [0..(N - 1) -> Seq(Pids)] /\ DOMAIN w = DOMAIN v /\ DOMAIN v = 0..(N - 1)
      /\ w[j] = r /\ \A k \in DOMAIN v \ {j} : w[k] = v[k]
  BY <1>2
<1> HIDE DEF w
<1>5. i \in DOMAIN Colas(v) /\ Colas(v)[i] = Head(v[j])
  <2>1. <<j, 1>> \in DOMAIN Colas(v)
    <3>1. j \in DOMAIN v /\ 1 \in DOMAIN v[j]
      BY <1>2, <1>4
    <3> QED BY <3>1, LugaresDe
  <2>2. Colas(v)[i] = v[i[1]][i[2]]
    BY <2>1, LugaresDe
  <2> QED BY <1>3, <2>1, <2>2
<1>6. ASSUME NEW l \in DOMAIN Colas(w)
      PROVE  h[l] \in DOMAIN Colas(v) \ {i} /\ Colas(w)[l] = Colas(v)[h[l]]
  <2>1. /\ l = <<l[1], l[2]>> /\ l[1] \in DOMAIN w /\ l[2] \in DOMAIN w[l[1]]
        /\ Colas(w)[l] = w[l[1]][l[2]]
    BY LugaresDe
  <2>2. CASE l[1] = j
    <3>1. h[l] = <<j, l[2] + 1>>
      BY <2>2
    <3>2. l[2] + 1 \in DOMAIN v[j] /\ l[2] + 1 # 1 /\ w[l[1]][l[2]] = v[j][l[2] + 1]
      BY <1>2, <1>4, <2>1, <2>2
    <3>3. <<j, l[2] + 1>> \in DOMAIN Colas(v)
      <4>1. j \in DOMAIN v /\ l[2] + 1 \in DOMAIN v[j]
        BY <1>4, <3>2
      <4> HIDE DEF i, h
      <4> QED BY <4>1, LugaresDe
    <3>4. Colas(v)[<<j, l[2] + 1>>] = v[<<j, l[2] + 1>>[1]][<<j, l[2] + 1>>[2]]
      BY <3>3, LugaresDe
    <3> QED BY <2>1, <3>1, <3>2, <3>3, <3>4
  <2>3. CASE l[1] # j
    <3>1. h[l] = l /\ l # i
      BY <2>3
    <3>2. l[2] \in DOMAIN v[l[1]] /\ w[l[1]][l[2]] = v[l[1]][l[2]]
      BY <1>4, <2>1, <2>3
    <3>3. <<l[1], l[2]>> \in DOMAIN Colas(v)
      BY <1>4, <2>1, <3>2, LugaresDe
    <3>4. l \in DOMAIN Colas(v)
      BY <2>1, <3>3
    <3>5. Colas(v)[l] = v[l[1]][l[2]]
      BY <3>4, LugaresDe, Zenon
    <3> QED BY <2>1, <3>1, <3>2, <3>4, <3>5
  <2> QED BY <2>2, <2>3
<1>7. ASSUME NEW l \in DOMAIN Colas(w), NEW m \in DOMAIN Colas(w), h[l] = h[m] PROVE l = m
  <2>1. /\ l = <<l[1], l[2]>> /\ l[1] \in DOMAIN w /\ l[2] \in DOMAIN w[l[1]]
        /\ m = <<m[1], m[2]>> /\ m[1] \in DOMAIN w /\ m[2] \in DOMAIN w[m[1]]
    BY LugaresDe
  <2>2. l[1] = m[1]
    BY <1>7, <2>1
  <2>3. l[2] = m[2]
    <3>1. CASE l[1] = j
      <4>1. l[2] + 1 = m[2] + 1
        BY <1>7, <2>2, <3>1
      <4>2. l[2] \in Nat /\ m[2] \in Nat
        BY <1>2, <1>4, <2>1, <2>2, <3>1
      <4> QED BY <4>1, <4>2
    <3>2. CASE l[1] # j
      BY <1>7, <2>2, <3>2
    <3> QED BY <3>1, <3>2
  <2> QED BY <2>1, <2>2, <2>3
<1>8. ASSUME NEW l \in DOMAIN Colas(v) \ {i} PROVE \E m \in DOMAIN Colas(w) : h[m] = l
  <2>1. l = <<l[1], l[2]>> /\ l[1] \in DOMAIN v /\ l[2] \in DOMAIN v[l[1]]
    BY LugaresDe
  <2>2. CASE l[1] = j
    <3>1. l[2] # 1
      BY <2>1, <2>2
    <3>2. l[2] - 1 \in DOMAIN w[j] /\ l[2] - 1 + 1 = l[2]
      BY <1>2, <1>4, <2>1, <2>2, <3>1
    <3>3. <<j, l[2] - 1>> \in DOMAIN Colas(w)
      <4>1. <<j, l[2] - 1>> \in DOMAIN Colas(w) <=> j \in DOMAIN w /\ l[2] - 1 \in DOMAIN w[j]
        BY LugaresDe
      <4>2. j \in DOMAIN w
        BY <1>4
      <4> QED BY <3>2, <4>1, <4>2
    <3>4. h[<<j, l[2] - 1>>] = <<j, l[2] - 1 + 1>>
      BY <3>3
    <3> QED BY <2>1, <2>2, <3>2, <3>3, <3>4
  <2>3. CASE l[1] # j
    <3>1. l[2] \in DOMAIN w[l[1]]
      BY <1>4, <2>1, <2>3
    <3>2. <<l[1], l[2]>> \in DOMAIN Colas(w)
      BY <1>4, <2>1, <3>1, LugaresDe
    <3>3. l \in DOMAIN Colas(w) /\ h[l] = l
      BY <2>1, <2>3, <3>2
    <3> QED BY <3>3
  <2> QED BY <2>2, <2>3
<1> HIDE DEF i, h
<1>9. Fila(Colas(w), S \ {Colas(v)[i]})
  BY <1>5, <1>6, <1>7, <1>8, FilaSin
<1> QED BY <1>4, <1>5, <1>9 DEF w, r

LEMMA Minimo ==
    ASSUME NEW T, T \subseteq Nat, T # {}
    PROVE  \E x \in T : \A y \in T : x <= y
<1>1. PICK x \in T : \A y \in T : <<y, x>> \notin OpToRel(<, Nat)
  BY NatLessThanWellFounded, WFMin, Zenon
<1>2. \A y \in T : ~ (y < x)
  <2>1. ASSUME NEW y \in T, y < x
        PROVE  <<y, x>> \in OpToRel(<, Nat)
    BY <2>1 DEF OpToRel
  <2> QED BY <1>1, <2>1
<1> QED BY <1>2

(* The tickets of Lottery. *)
Tickets == [pid : Pids, k : Int]

PidsDe(s) == [i \in DOMAIN s |-> s[i].pid]

LEMMA FilaDeTickets ==
    ASSUME NEW s \in Seq(Tickets), NEW t \in Tickets, NEW S, Fila(PidsDe(s), S), t.pid \notin S
    PROVE  Append(s, t) \in Seq(Tickets) /\ Fila(PidsDe(Append(s, t)), S \cup {t.pid})
<1> DEFINE r == Append(s, t)
<1>1. /\ r \in Seq(Tickets)
      /\ DOMAIN r = DOMAIN s \cup {Len(s) + 1} /\ Len(s) + 1 \notin DOMAIN s
      /\ \A k \in DOMAIN s : r[k] = s[k]
      /\ r[Len(s) + 1] = t
  BY AlFinal
<1> HIDE DEF r
<1>2. /\ DOMAIN PidsDe(r) = DOMAIN PidsDe(s) \cup {Len(s) + 1}
      /\ Len(s) + 1 \notin DOMAIN PidsDe(s)
      /\ \A k \in DOMAIN PidsDe(s) : PidsDe(r)[k] = PidsDe(s)[k]
      /\ PidsDe(r)[Len(s) + 1] = t.pid
  BY <1>1 DEF PidsDe
<1>3. Fila(PidsDe(r), S \cup ({t.pid} \cap Pids))
  BY <1>2, FilaCon
<1>4. S \cup ({t.pid} \cap Pids) = S \cup {t.pid}
  <2>1. t.pid \in Pids
    BY DEF Tickets
  <2> QED BY <2>1
<1> QED BY <1>1, <1>3, <1>4 DEF r

(* RemoveAt takes one out. *)
LEMMA Quitado ==
    ASSUME NEW T, NEW s \in Seq(T), NEW i \in DOMAIN s
    PROVE  LET r == Lottery!RemoveAt(s, i) IN
           /\ r \in Seq(T) /\ Len(s) \in Nat /\ DOMAIN s = 1..Len(s)
           /\ DOMAIN r = 1..(Len(s) - 1)
           /\ \A k \in DOMAIN r : r[k] = IF k < i THEN s[k] ELSE s[k + 1]
<1>1. Len(s) \in Nat /\ DOMAIN s = 1..Len(s) /\ i \in 1..Len(s) /\ \A k \in 1..Len(s) : s[k] \in T
  BY Indices
<1> DEFINE a == SubSeq(s, 1, i - 1)
           b == SubSeq(s, i + 1, Len(s))
           r == a \o b
<1>2. a \in Seq(T) /\ Len(a) = i - 1 /\ \A k \in 1..(i - 1) : a[k] = s[k]
  <2>1. \A k \in 1..(i - 1) : s[k] \in T
    BY <1>1
  <2>2. 1 \in Int /\ i - 1 \in Int
    BY <1>1
  <2>3. /\ a \in Seq(T) /\ Len(a) = IF 1 <= i - 1 THEN i - 1 - 1 + 1 ELSE 0
        /\ \A k \in 1..(i - 1 - 1 + 1) : a[k] = s[1 + k - 1]
    BY <2>1, <2>2, SubSeqProperties
  <2> HIDE DEF a
  <2> QED BY <1>1, <2>3
<1>3. /\ b \in Seq(T) /\ Len(b) = Len(s) - i
      /\ \A k \in 1..(Len(s) - i) : b[k] = s[k + i]
  <2>1. \A k \in (i + 1)..Len(s) : s[k] \in T
    BY <1>1
  <2>2. i + 1 \in Int /\ Len(s) \in Int
    BY <1>1
  <2>3. /\ b \in Seq(T) /\ Len(b) = IF i + 1 <= Len(s) THEN Len(s) - (i + 1) + 1 ELSE 0
        /\ \A k \in 1..(Len(s) - (i + 1) + 1) : b[k] = s[(i + 1) + k - 1]
    BY <2>1, <2>2, SubSeqProperties
  <2> HIDE DEF b
  <2>4. \A k \in 1..(Len(s) - i) : b[k] = s[(i + 1) + k - 1] /\ (i + 1) + k - 1 = k + i
    BY <1>1, <2>3
  <2> QED BY <1>1, <2>3, <2>4, SMTT(30)
<1> HIDE DEF a, b
<1>4. /\ r \in Seq(T) /\ Len(r) = Len(a) + Len(b)
      /\ \A k \in 1..(Len(a) + Len(b)) : r[k] = IF k <= Len(a) THEN a[k] ELSE b[k - Len(a)]
  BY <1>2, <1>3, ConcatProperties
<1> HIDE DEF r
<1>5. Len(r) = Len(s) - 1 /\ DOMAIN r = 1..(Len(s) - 1)
  BY <1>1, <1>2, <1>3, <1>4, Indices
<1>6. ASSUME NEW k \in DOMAIN r PROVE r[k] = IF k < i THEN s[k] ELSE s[k + 1]
  <2>1. CASE k < i
    BY <1>1, <1>2, <1>3, <1>4, <1>5, <2>1, SMTT(30)
  <2>2. CASE ~ (k < i)
    <3>1. /\ k - (i - 1) \in 1..(Len(s) - i) /\ k - (i - 1) + i = k + 1
          /\ k \in 1..(Len(a) + Len(b)) /\ ~ (k <= Len(a))
      <4>1. k \in Int /\ i \in Int /\ Len(s) \in Int /\ 1 <= k /\ k <= Len(s) - 1 /\ i <= k
        BY <1>1, <1>5, <2>2
      <4> QED BY <1>1, <1>2, <1>3, <4>1, SMTT(30)
    <3>2. r[k] = b[k - (i - 1)] /\ b[k - (i - 1)] = s[k - (i - 1) + i]
      BY <1>2, <1>3, <1>4, <3>1
    <3> QED BY <2>2, <3>1, <3>2
  <2> QED BY <2>1, <2>2
<1>7. r = Lottery!RemoveAt(s, i)
  BY DEF r, a, b, Lottery!RemoveAt
<1> QED BY <1>1, <1>4, <1>5, <1>6, <1>7, Zenon

LEMMA FilaSinTicket ==
    ASSUME NEW s \in Seq(Tickets), NEW i \in DOMAIN s, NEW S, Fila(PidsDe(s), S)
    PROVE  LET r == Lottery!RemoveAt(s, i) IN
           /\ r \in Seq(Tickets)
           /\ s[i] \in Tickets /\ s[i].pid \in S
           /\ Fila(PidsDe(r), S \ {s[i].pid})
<1> DEFINE r == Lottery!RemoveAt(s, i)
           h == [k \in DOMAIN r |-> IF k < i THEN k ELSE k + 1]
<1>1. /\ r \in Seq(Tickets) /\ Len(s) \in Nat /\ DOMAIN s = 1..Len(s) /\ DOMAIN r = 1..(Len(s) - 1)
      /\ \A k \in DOMAIN r : r[k] = IF k < i THEN s[k] ELSE s[k + 1]
  BY Quitado
<1> HIDE DEF r
<1>2. DOMAIN PidsDe(s) = DOMAIN s /\ DOMAIN PidsDe(r) = DOMAIN r
  BY DEF PidsDe
<1>3. ASSUME NEW k \in DOMAIN r
      PROVE  h[k] \in DOMAIN s \ {i} /\ PidsDe(r)[k] = PidsDe(s)[h[k]]
  <2>1. h[k] = (IF k < i THEN k ELSE k + 1) /\ h[k] \in DOMAIN s \ {i}
    BY <1>1
  <2>2. r[k] = s[h[k]]
    BY <1>1, <2>1
  <2> QED BY <2>1, <2>2 DEF PidsDe
<1>4. \A k \in DOMAIN r : \A l \in DOMAIN r : h[k] = h[l] => k = l
  BY <1>1
<1>5. \A k \in DOMAIN s \ {i} : \E l \in DOMAIN r : h[l] = k
  <2> TAKE k \in DOMAIN s \ {i}
  <2>1. CASE k < i
    BY <1>1, <2>1
  <2>2. CASE ~ (k < i)
    <3>1. k - 1 \in DOMAIN r /\ h[k - 1] = k
      BY <1>1, <2>2
    <3> QED BY <3>1
  <2> QED BY <2>1, <2>2
<1> HIDE DEF h
<1>6. Fila(PidsDe(r), S \ {PidsDe(s)[i]})
  <2> DEFINE L == PidsDe(s)
             M == PidsDe(r)
  <2>1. i \in DOMAIN L /\ Fila(L, S)
    BY <1>2
  <2>2. \A k \in DOMAIN M : h[k] \in DOMAIN L \ {i} /\ M[k] = L[h[k]]
    BY <1>2, <1>3
  <2>3. \A k \in DOMAIN M : \A l \in DOMAIN M : h[k] = h[l] => k = l
    BY <1>2, <1>4
  <2>4. \A k \in DOMAIN L \ {i} : \E l \in DOMAIN M : h[l] = k
    BY <1>2, <1>5
  <2> HIDE DEF L, M
  <2>5. Fila(M, S \ {L[i]})
    BY <2>1, <2>2, <2>3, <2>4, FilaSin
  <2> QED BY <2>5 DEF L, M
<1>7. PidsDe(s)[i] = s[i].pid /\ s[i] \in Tickets
  BY Indices DEF PidsDe
<1>8. s[i].pid \in S
  BY <1>2, <1>7 DEF Fila, Tickets
<1> QED BY <1>1, <1>6, <1>7, <1>8 DEF r

-----------------------------------------------------------------------------
(* The schedulers: with the ready tasks S in its queues, the blocked ones  *)
(* B, the current one cur and the number k of those that arrived, what the *)
(* object s knows.                                                         *)

ObjetosFCFS == [q : Seq(Pids)]

ObjetosRR == [quantum : Int, contador : Int, q : Seq(Pids \cup {IDLE_TASK})]

ObjetosMFQ(N) ==
    [def_quantum : {d \in Seq(Int) : Len(d) = N}, vq : [0..(N - 1) -> Seq(Pids)],
     unblock_to : Seq(-1..(N - 1)), quantum : Int, cur_pri : -1..N]

ObjetosLottery ==
    [quantum : Int, contador : Int, tot_tickets : Int, tickets : Seq(Tickets),
     blocked_tasks : Seq(Tickets), ticket_actual : [pid : Int, k : Int]]

(* Only the current task may be blocked. *)
FCFSTiene(s, cur, S, B) == s \in ObjetosFCFS /\ Fila(s.q, S) /\ B \subseteq {cur}

RRTiene(s, S) == s \in ObjetosRR /\ Fila(s.q, S)

(* With N queues: those that blocked have a place in the vector, and there *)
(* the queue to go back to.                                                *)
MFQTiene(N, s, cur, S, B, k) ==
    /\ s \in ObjetosMFQ(N) /\ Fila(Colas(s.vq), S)
    /\ Len(s.unblock_to) = k
    /\ cur = IDLE_TASK => s.quantum = 0
    /\ cur # IDLE_TASK => s.cur_pri \in 0..(N - 1)
    /\ \A p \in B : p + 1 \in 1..k /\ s.unblock_to[p + 1] \in 0..(N - 1)

LotteryTiene(s, cur, S, B) ==
    /\ s \in ObjetosLottery /\ Fila(PidsDe(s.tickets), S) /\ Fila(PidsDe(s.blocked_tasks), B)
    /\ cur # IDLE_TASK => s.ticket_actual.pid = cur

Objeto(c, s, cur, S, B, k) ==
    /\ c = "SchedFCFS" => FCFSTiene(s, cur, S, B)
    /\ c = "SchedRR" => RRTiene(s, S)
    /\ c = "SchedMFQ" => \E N \in Nat \ {0} : MFQTiene(N, s, cur, S, B, k)
    /\ c = "SchedLottery" => LotteryTiene(s, cur, S, B)

Lugares(c, s) ==
    CASE c = "SchedFCFS"    -> s.q
      [] c = "SchedRR"      -> s.q
      [] c = "SchedMFQ"     -> Colas(s.vq)
      [] c = "SchedLottery" -> PidsDe(s.tickets)

(* Those that the answer to m is taken from. *)
Candidatas(m, cur, S) == IF m = "TICK" THEN S \cup ({cur} \cap Pids) ELSE S

(* The answer sig is one of A, or that nobody runs.  RR may say so with    *)
(* tasks ready.                                                            *)
Dada(c, sig, A, B, k) == sig \in A /\ Objeto(c, sch', sig, A \ {sig}, B, k)

Nadie(c, sig, A, B, k) ==
    /\ sig = IDLE_TASK /\ Objeto(c, sch', IDLE_TASK, A, B, k)
    /\ c # "SchedRR" => DOMAIN Lugares(c, sch') = {}

LEMMA IdleAparte ==
    /\ IDLE_TASK \notin Pids /\ INDEFINIDO \notin Pids /\ ABORTO \notin Pids
    /\ IDLE_TASK # INDEFINIDO /\ IDLE_TASK # ABORTO /\ INDEFINIDO # ABORTO
BY PidAssumption DEF Pids

(* FCFS. *)
LEMMA FCFSLoad ==
    ASSUME NEW S, NEW B, FCFSTiene(sch, cur_pid, S, B), NEW p \in Pids, p \notin S, FCFS!load(p)
    PROVE  FCFSTiene(sch', cur_pid, S \cup {p}, B)
<1>1. sch \in [q : Seq(Pids)] /\ Fila(sch.q, S) /\ B \subseteq {cur_pid}
  BY DEF FCFSTiene, ObjetosFCFS
<1>2. sch' = [sch EXCEPT !.q = Append(sch.q, p)]
  BY DEF FCFS!load
<1>3. Append(sch.q, p) \in Seq(Pids)
  BY <1>1, AlFinal
<1>4. Fila(Append(sch.q, p), S \cup ({p} \cap Pids)) /\ S \cup ({p} \cap Pids) = S \cup {p}
  BY <1>1, FilaAlFinal
<1>5. sch' \in [q : Seq(Pids)] /\ sch'.q = Append(sch.q, p)
  BY <1>1, <1>2, <1>3
<1> QED BY <1>1, <1>4, <1>5 DEF FCFSTiene, ObjetosFCFS

LEMMA FCFSSiguiente ==
    ASSUME NEW S, NEW sig, sch \in ObjetosFCFS, Fila(sch.q, S), FCFS!Siguiente(sig)
    PROVE  sig \in S /\ sch' \in ObjetosFCFS /\ Fila(sch'.q, S \ {sig})
<1>1. /\ sch \in [q : Seq(Pids)] /\ sch.q # <<>> /\ sig = Head(sch.q)
      /\ sch' = [sch EXCEPT !.q = Tail(sch.q)]
  BY DEF FCFS!Siguiente, ObjetosFCFS
<1>2. Tail(sch.q) \in Seq(Pids)
  BY <1>1, ElResto
<1>3. Fila(Tail(sch.q), S \ {sig})
  BY <1>1, FilaResto
<1>4. sch' \in [q : Seq(Pids)] /\ sch'.q = Tail(sch.q)
  BY <1>1, <1>2
<1>5. 1 \in DOMAIN sch.q /\ sch.q[1] = sig /\ sig \in Pids
  BY <1>1, Indices
<1>6. sig \in S
  BY <1>5 DEF Fila
<1> QED BY <1>3, <1>4, <1>6 DEF ObjetosFCFS

LEMMA FCFSTick ==
    ASSUME NEW S, NEW B, FCFSTiene(sch, cur_pid, S, B),
           cur_pid \in Pids \cup {IDLE_TASK}, cur_pid \notin S,
           NEW m \in {"TICK", "EXIT", "BLOCK"}, m # "TICK" => cur_pid \in Pids,
           NEW sig, FCFS!tick(m, sig),
           NEW D, D \subseteq {cur_pid} \cap Pids, m = "EXIT" => D = {}, NEW k
    PROVE  IF m = "BLOCK" THEN sig = cur_pid /\ Objeto("SchedFCFS", sch', cur_pid, S, D, k)
           ELSE \/ Dada("SchedFCFS", sig, Candidatas(m, cur_pid, S), D, k)
                \/ Nadie("SchedFCFS", sig, Candidatas(m, cur_pid, S), D, k)
<1> DEFINE A == Candidatas(m, cur_pid, S)
<1>1. sch \in ObjetosFCFS /\ sch.q \in Seq(Pids) /\ Fila(sch.q, S)
  BY DEF FCFSTiene, ObjetosFCFS
<1>2. /\ D = {} \/ cur_pid \in Pids
      /\ m = "BLOCK" => m # "EXIT" /\ cur_pid # IDLE_TASK
  BY IdleAparte
<1>3. CASE (m = "EXIT" \/ cur_pid = IDLE_TASK) /\ FCFS!Siguiente(sig)
  <2>1. sig \in S /\ sch' \in ObjetosFCFS /\ Fila(sch'.q, S \ {sig})
    BY <1>1, <1>3, FCFSSiguiente
  <2>2. m # "BLOCK" /\ D = {}
    BY <1>2, <1>3, IdleAparte
  <2>3. A = S
    BY <1>3, <2>2, IdleAparte DEF Candidatas
  <2>4. Dada("SchedFCFS", sig, A, D, k)
    BY <2>1, <2>2, <2>3 DEF Dada, Objeto, FCFSTiene
  <2> QED BY <2>2, <2>4
<1>4. CASE m = "EXIT" /\ sch.q = <<>> /\ sig = IDLE_TASK /\ UNCHANGED sch
  <2>1. DOMAIN sch.q = {}
    BY <1>1, <1>4, Indices
  <2>2. D = {} /\ A = S
    BY <1>4 DEF Candidatas
  <2> QED BY <1>1, <1>4, <2>1, <2>2 DEF Nadie, Objeto, FCFSTiene, Lugares
<1>5. CASE /\ m # "EXIT" /\ (cur_pid # IDLE_TASK \/ sch.q = <<>>)
           /\ sig = cur_pid /\ UNCHANGED sch
  <2>1. CASE cur_pid = IDLE_TASK
    <3>1. DOMAIN sch.q = {}
      BY <1>1, <1>5, <2>1, Indices
    <3>2. D = {} /\ A = S
      BY <1>2, <2>1, IdleAparte DEF Candidatas
    <3> QED BY <1>1, <1>5, <2>1, <3>1, <3>2 DEF Nadie, Objeto, FCFSTiene, Lugares
  <2>2. CASE cur_pid \in Pids /\ m = "TICK"
    <3>1. A \ {sig} = S /\ sig \in A
      BY <1>5, <2>2 DEF Candidatas
    <3> QED BY <1>1, <1>5, <3>1 DEF Dada, Objeto, FCFSTiene
  <2>3. CASE cur_pid \in Pids /\ m = "BLOCK"
    BY <1>1, <1>5, <2>3 DEF Objeto, FCFSTiene
  <2> QED BY <1>5, <2>1, <2>2, <2>3
<1> QED BY <1>3, <1>4, <1>5 DEF FCFS!tick

(* RR. *)
LEMMA RREncola ==
    ASSUME NEW S, RRTiene(sch, S), NEW p \in Pids, p \notin S, RR!load(p) \/ RR!unblock(p)
    PROVE  RRTiene(sch', S \cup {p})
<1> DEFINE T == Pids \cup {IDLE_TASK}
<1>1. sch \in [quantum : Int, contador : Int, q : Seq(T)] /\ sch.q \in Seq(T) /\ Fila(sch.q, S)
  BY DEF RRTiene, ObjetosRR
<1>2. sch' = [sch EXCEPT !.q = Append(sch.q, p)]
  BY DEF RR!load, RR!unblock
<1>3. p \in T
  OBVIOUS
<1> HIDE DEF T
<1>4. Append(sch.q, p) \in Seq(T)
  BY <1>1, <1>3, AlFinal
<1>5. Fila(Append(sch.q, p), S \cup ({p} \cap Pids)) /\ S \cup ({p} \cap Pids) = S \cup {p}
  BY <1>1, <1>3, FilaAlFinal
<1>6. sch' \in [quantum : Int, contador : Int, q : Seq(T)] /\ sch'.q = Append(sch.q, p)
  BY <1>1, <1>2, <1>4
<1> QED BY <1>5, <1>6 DEF RRTiene, ObjetosRR, T

LEMMA RRSiguiente ==
    ASSUME sch \in ObjetosRR, NEW cola \in Seq(Pids \cup {IDLE_TASK}), NEW A, Fila(cola, A),
           NEW sig, RR!Siguiente(cola, sig), NEW B, NEW k
    PROVE  Dada("SchedRR", sig, A, B, k) \/ Nadie("SchedRR", sig, A, B, k)
<1> DEFINE T == Pids \cup {IDLE_TASK}
<1>1. sch \in [quantum : Int, contador : Int, q : Seq(T)] /\ cola \in Seq(T)
  BY DEF ObjetosRR
<1>2. /\ cola # <<>> /\ sig = Head(cola)
      /\ sch' = [sch EXCEPT !.q = Tail(cola), !.contador = sch.quantum]
  BY DEF RR!Siguiente
<1> HIDE DEF T
<1>3. Tail(cola) \in Seq(T)
  BY <1>1, <1>2, ElResto
<1>4. Fila(Tail(cola), A \ {sig})
  BY <1>1, <1>2, FilaResto
<1>5. 1 \in DOMAIN cola /\ cola[1] = sig /\ sig \in T
  BY <1>1, <1>2, Indices
<1>6. sch' \in [quantum : Int, contador : Int, q : Seq(T)] /\ sch'.q = Tail(cola)
  BY <1>1, <1>2, <1>3
<1>7. RRTiene(sch', A \ {sig})
  BY <1>4, <1>6 DEF RRTiene, ObjetosRR, T
<1>8. CASE sig \in Pids
  <2>1. sig \in A
    BY <1>5, <1>8 DEF Fila
  <2> QED BY <1>7, <2>1 DEF Dada, Objeto
<1>9. CASE sig = IDLE_TASK
  <2>1. A \ {sig} = A
    BY <1>9, IdleAparte DEF Fila
  <2> QED BY <1>7, <1>9, <2>1 DEF Nadie, Objeto
<1> QED BY <1>5, <1>8, <1>9 DEF T

LEMMA RRTick ==
    ASSUME NEW S, RRTiene(sch, S), cur_pid \in Pids \cup {IDLE_TASK}, cur_pid \notin S,
           NEW m \in {"TICK", "EXIT", "BLOCK"}, NEW sig, RR!tick(m, sig), NEW B, NEW k
    PROVE  \/ Dada("SchedRR", sig, Candidatas(m, cur_pid, S), B, k)
           \/ Nadie("SchedRR", sig, Candidatas(m, cur_pid, S), B, k)
<1> DEFINE A == Candidatas(m, cur_pid, S)
           T == Pids \cup {IDLE_TASK}
<1>1. /\ sch \in ObjetosRR /\ sch \in [quantum : Int, contador : Int, q : Seq(T)]
      /\ sch.q \in Seq(T) /\ Fila(sch.q, S)
  BY DEF RRTiene, ObjetosRR
<1>2. CASE m \in {"EXIT", "BLOCK"} /\ RR!Siguiente(sch.q, sig)
  <2>1. A = S
    BY <1>2 DEF Candidatas
  <2> QED BY <1>1, <1>2, <2>1, RRSiguiente
<1>3. CASE m \in {"EXIT", "BLOCK"} /\ sch.q = <<>> /\ sig = IDLE_TASK /\ UNCHANGED sch
  <2>1. A = S
    BY <1>3 DEF Candidatas
  <2> QED BY <1>1, <1>3, <2>1 DEF Nadie, Objeto, RRTiene
<1>4. CASE m = "TICK" /\ sch.contador = 1 /\ RR!Siguiente(Append(sch.q, cur_pid), sig)
  <2>1. A = S \cup ({cur_pid} \cap Pids) /\ cur_pid \in T
    BY <1>4 DEF Candidatas
  <2> HIDE DEF T
  <2>2. Append(sch.q, cur_pid) \in Seq(T)
    BY <1>1, <2>1, AlFinal
  <2>3. Fila(Append(sch.q, cur_pid), A)
    BY <1>1, <2>1, FilaAlFinal
  <2> QED BY <1>1, <1>4, <2>2, <2>3, RRSiguiente DEF T
<1>5. CASE m = "TICK" /\ sch.contador # 1 /\ cur_pid = IDLE_TASK /\ RR!Siguiente(sch.q, sig)
  <2>1. A = S
    BY <1>5, IdleAparte DEF Candidatas
  <2> QED BY <1>1, <1>5, <2>1, RRSiguiente
<1>6. CASE /\ m = "TICK" /\ sig = cur_pid /\ sch' = [sch EXCEPT !.contador = @ - 1]
  <2>1. A = S \cup ({cur_pid} \cap Pids)
    BY <1>6 DEF Candidatas
  <2>2. sch' \in [quantum : Int, contador : Int, q : Seq(T)] /\ sch'.q = sch.q
    BY <1>1, <1>6
  <2>3. RRTiene(sch', S)
    BY <1>1, <2>2 DEF RRTiene, ObjetosRR
  <2>4. CASE cur_pid = IDLE_TASK
    <3>1. A = S
      BY <2>1, <2>4, IdleAparte
    <3> QED BY <1>6, <2>3, <2>4, <3>1 DEF Nadie, Objeto
  <2>5. CASE cur_pid \in Pids
    <3>1. sig \in A /\ A \ {sig} = S
      BY <1>6, <2>1, <2>5
    <3> QED BY <2>3, <3>1 DEF Dada, Objeto
  <2> QED BY <2>4, <2>5
<1> QED BY <1>2, <1>3, <1>4, <1>5, <1>6 DEF RR!tick

(* MFQ. *)
LEMMA MinimoDe ==
    ASSUME NEW T, T \subseteq Nat, T # {}
    PROVE  MFQ!Min(T) \in T /\ Lottery!Min(T) \in T
<1>1. \E x \in T : \A y \in T : x <= y
  BY Minimo
<1>2. (CHOOSE x \in T : \A y \in T : x <= y) \in T
  BY <1>1
<1> QED BY <1>2 DEF MFQ!Min, Lottery!Min

(* What an object is made of. *)
Es(N, s, d, v, u, q, r) ==
    /\ s \in ObjetosMFQ(N)
    /\ s.def_quantum = d /\ s.vq = v /\ s.unblock_to = u /\ s.quantum = q /\ s.cur_pri = r

LEMMA PartesDeMFQ ==
    ASSUME NEW N \in Nat \ {0}, NEW s \in ObjetosMFQ(N)
    PROVE  /\ s.def_quantum \in Seq(Int) /\ Len(s.def_quantum) = N
           /\ s.vq \in [0..(N - 1) -> Seq(Pids)]
           /\ s.unblock_to \in Seq(-1..(N - 1)) /\ s.quantum \in Int /\ s.cur_pri \in -1..N
<1> DEFINE Q == {d \in Seq(Int) : Len(d) = N}
           V == [0..(N - 1) -> Seq(Pids)]
           U == Seq(-1..(N - 1))
           P == -1..N
<1>1. s \in [def_quantum : Q, vq : V, unblock_to : U, quantum : Int, cur_pri : P]
  BY DEF ObjetosMFQ
<1> HIDE DEF Q, V, U, P
<1>2. /\ s.def_quantum \in Q /\ s.vq \in V /\ s.unblock_to \in U /\ s.quantum \in Int
      /\ s.cur_pri \in P
  BY <1>1
<1> QED BY <1>2 DEF Q, V, U, P

LEMMA CambiosDeMFQ ==
    ASSUME NEW N \in Nat \ {0}, NEW s \in ObjetosMFQ(N),
           NEW v \in [0..(N - 1) -> Seq(Pids)], NEW u \in Seq(-1..(N - 1)),
           NEW q \in Int, NEW r \in -1..N
    PROVE  /\ Es(N, [s EXCEPT !.vq = v, !.unblock_to = u],
                 s.def_quantum, v, u, s.quantum, s.cur_pri)
           /\ Es(N, [s EXCEPT !.vq = v], s.def_quantum, v, s.unblock_to, s.quantum, s.cur_pri)
           /\ Es(N, [s EXCEPT !.quantum = q, !.cur_pri = r],
                 s.def_quantum, s.vq, s.unblock_to, q, r)
           /\ Es(N, [s EXCEPT !.vq = v, !.cur_pri = r, !.quantum = q],
                 s.def_quantum, v, s.unblock_to, q, r)
           /\ Es(N, [s EXCEPT !.cur_pri = r, !.unblock_to = u],
                 s.def_quantum, s.vq, u, s.quantum, r)
           /\ Es(N, [s EXCEPT !.quantum = q], s.def_quantum, s.vq, s.unblock_to, q, s.cur_pri)
           /\ Es(N, [s EXCEPT !.cur_pri = r, !.vq = v],
                 s.def_quantum, v, s.unblock_to, s.quantum, r)
<1> DEFINE Q == {d \in Seq(Int) : Len(d) = N}
           V == [0..(N - 1) -> Seq(Pids)]
           U == Seq(-1..(N - 1))
           P == -1..N
           R == [def_quantum : Q, vq : V, unblock_to : U, quantum : Int, cur_pri : P]
<1>1. s \in R /\ ObjetosMFQ(N) = R
  BY DEF ObjetosMFQ
<1>2. v \in V /\ u \in U /\ r \in P
  OBVIOUS
<1> HIDE DEF Q, V, U, P
<1>3. /\ Es(N, [s EXCEPT !.vq = v, !.unblock_to = u],
            s.def_quantum, v, u, s.quantum, s.cur_pri)
      /\ Es(N, [s EXCEPT !.vq = v], s.def_quantum, v, s.unblock_to, s.quantum, s.cur_pri)
  BY <1>1, <1>2 DEF Es
<1>4. /\ Es(N, [s EXCEPT !.quantum = q, !.cur_pri = r],
            s.def_quantum, s.vq, s.unblock_to, q, r)
      /\ Es(N, [s EXCEPT !.vq = v, !.cur_pri = r, !.quantum = q],
            s.def_quantum, v, s.unblock_to, q, r)
  BY <1>1, <1>2 DEF Es
<1>5. /\ Es(N, [s EXCEPT !.cur_pri = r, !.unblock_to = u],
            s.def_quantum, s.vq, u, s.quantum, r)
      /\ Es(N, [s EXCEPT !.quantum = q], s.def_quantum, s.vq, s.unblock_to, q, s.cur_pri)
  BY <1>1, <1>2 DEF Es
<1>6. Es(N, [s EXCEPT !.cur_pri = r, !.vq = v],
         s.def_quantum, v, s.unblock_to, s.quantum, r)
  BY <1>1, <1>2 DEF Es
<1> QED BY <1>3, <1>4, <1>5, <1>6

LEMMA MFQLoad ==
    ASSUME NEW N \in Nat \ {0}, NEW S, NEW B, NEW k \in Nat, MFQTiene(N, sch, cur_pid, S, B, k),
           NEW p \in Pids, p \notin S, MFQ!load(p)
    PROVE  MFQTiene(N, sch', cur_pid, S \cup {p}, B, k + 1)
<1> DEFINE u == Append(sch.unblock_to, -1)
           v == [sch.vq EXCEPT ![0] = Append(@, p)]
<1>1. /\ sch \in ObjetosMFQ(N) /\ Fila(Colas(sch.vq), S) /\ Len(sch.unblock_to) = k
      /\ \A q \in B : q + 1 \in 1..k /\ sch.unblock_to[q + 1] \in 0..(N - 1)
  BY DEF MFQTiene
<1>2. 0 \in 0..(N - 1) /\ -1 \in -1..(N - 1)
  OBVIOUS
<1>3. v \in [0..(N - 1) -> Seq(Pids)] /\ Fila(Colas(v), S \cup {p})
  BY <1>1, <1>2, PartesDeMFQ, FilaDeCola
<1>4. /\ u \in Seq(-1..(N - 1)) /\ Len(u) = k + 1
      /\ \A i \in 1..k : u[i] = sch.unblock_to[i]
  BY <1>1, <1>2, PartesDeMFQ, AppendProperties
<1>5. sch' = [sch EXCEPT !.vq = v, !.unblock_to = u]
  BY DEF MFQ!load
<1> HIDE DEF u, v
<1>6. Es(N, [sch EXCEPT !.vq = v, !.unblock_to = u],
         sch.def_quantum, v, u, sch.quantum, sch.cur_pri)
  <2>1. 0 \in Int /\ -1 \in -1..N
    OBVIOUS
  <2> QED BY <1>1, <1>3, <1>4, <2>1, CambiosDeMFQ, Zenon
<1>7. Es(N, sch', sch.def_quantum, v, u, sch.quantum, sch.cur_pri)
  BY <1>5, <1>6
<1>8. \A q \in B : q + 1 \in 1..(k + 1) /\ u[q + 1] \in 0..(N - 1)
  BY <1>1, <1>4, SMTT(30)
<1> QED BY <1>3, <1>4, <1>7, <1>8 DEF MFQTiene, Es

LEMMA MFQUnblock ==
    ASSUME NEW N \in Nat \ {0}, NEW S, NEW B, NEW k \in Nat, MFQTiene(N, sch, cur_pid, S, B, k),
           NEW p \in Pids, p \notin S, p \in B, MFQ!unblock(p)
    PROVE  MFQTiene(N, sch', cur_pid, S \cup {p}, B \ {p}, k)
<1> DEFINE j == sch.unblock_to[p + 1]
           v == [sch.vq EXCEPT ![j] = Append(@, p)]
<1>1. /\ sch \in ObjetosMFQ(N) /\ Fila(Colas(sch.vq), S) /\ Len(sch.unblock_to) = k
      /\ \A q \in B : q + 1 \in 1..k /\ sch.unblock_to[q + 1] \in 0..(N - 1)
  BY DEF MFQTiene
<1>2. j \in 0..(N - 1)
  BY <1>1
<1>3. sch' = [sch EXCEPT !.vq = v]
  BY DEF MFQ!unblock
<1> HIDE DEF j
<1>4. v \in [0..(N - 1) -> Seq(Pids)] /\ Fila(Colas(v), S \cup {p})
  BY <1>1, <1>2, PartesDeMFQ, FilaDeCola, Zenon
<1> HIDE DEF v
<1>5. Es(N, [sch EXCEPT !.vq = v], sch.def_quantum, v, sch.unblock_to, sch.quantum, sch.cur_pri)
  BY <1>1, <1>4, PartesDeMFQ, CambiosDeMFQ, Zenon
<1>6. Es(N, sch', sch.def_quantum, v, sch.unblock_to, sch.quantum, sch.cur_pri)
  BY <1>3, <1>5
<1> QED BY <1>1, <1>4, <1>6 DEF MFQTiene, Es

(* The next one, out of any object. *)
LEMMA MFQNext ==
    ASSUME NEW N \in Nat \ {0}, NEW s \in ObjetosMFQ(N), NEW A, Fila(Colas(s.vq), A),
           NEW B, NEW k, Len(s.unblock_to) = k,
           \A p \in B : p + 1 \in 1..k /\ s.unblock_to[p + 1] \in 0..(N - 1),
           Len(sch.def_quantum) = N, NEW sig, MFQ!next(s, sig)
    PROVE  Dada("SchedMFQ", sig, A, B, k) \/ Nadie("SchedMFQ", sig, A, B, k)
<1> DEFINE llenas == {i \in DOMAIN s.vq : s.vq[i] # <<>>}
           pri == MFQ!Min(llenas)
           v == [s.vq EXCEPT ![pri] = Tail(@)]
           d == s.def_quantum[pri + 1] - 1
<1>1. /\ s.def_quantum \in Seq(Int) /\ Len(s.def_quantum) = N
      /\ s.vq \in [0..(N - 1) -> Seq(Pids)]
      /\ s.unblock_to \in Seq(-1..(N - 1)) /\ s.quantum \in Int /\ s.cur_pri \in -1..N
  BY PartesDeMFQ
<1>2. CASE llenas = {}
  <2>1. sig = IDLE_TASK /\ sch' = [s EXCEPT !.quantum = 0, !.cur_pri = N]
    BY <1>2 DEF MFQ!next, MFQ!colas
  <2>2. \A i \in 0..(N - 1) : s.vq[i] = <<>>
    BY <1>1, <1>2
  <2>3. DOMAIN Colas(s.vq) = {}
    <3> SUFFICES ASSUME NEW l \in DOMAIN Colas(s.vq) PROVE FALSE
      OBVIOUS
    <3>1. l[1] \in DOMAIN s.vq /\ l[2] \in DOMAIN s.vq[l[1]]
      BY LugaresDe
    <3> QED BY <1>1, <2>2, <3>1
  <2>4. Es(N, [s EXCEPT !.quantum = 0, !.cur_pri = N],
           s.def_quantum, s.vq, s.unblock_to, 0, N)
    <3>1. 0 \in Int /\ N \in -1..N
      OBVIOUS
    <3> QED BY <1>1, <3>1, CambiosDeMFQ, Zenon
  <2>5. Es(N, sch', s.def_quantum, s.vq, s.unblock_to, 0, N)
    BY <2>1, <2>4
  <2>6. MFQTiene(N, sch', IDLE_TASK, A, B, k)
    BY <2>5 DEF MFQTiene, Es
  <2>7. DOMAIN Lugares("SchedMFQ", sch') = {}
    BY <2>3, <2>5 DEF Lugares, Es
  <2> QED BY <2>1, <2>6, <2>7 DEF Nadie, Objeto
<1>3. CASE llenas # {}
  <2>1. /\ sig = Head(s.vq[pri])
        /\ sch' = [s EXCEPT !.vq = v, !.cur_pri = pri, !.quantum = d]
    BY <1>3 DEF MFQ!next
  <2>2. pri \in 0..(N - 1) /\ s.vq[pri] # <<>>
    <3>1. llenas \subseteq Nat
      BY <1>1
    <3>2. pri \in llenas
      BY <1>3, <3>1, MinimoDe
    <3> QED BY <1>1, <3>2
  <2> HIDE DEF pri
  <2>3. v \in [0..(N - 1) -> Seq(Pids)] /\ Fila(Colas(v), A \ {sig})
    BY <1>1, <2>1, <2>2, FilaSinCola
  <2>4. sig \in A /\ sig \in Pids
    <3>1. s.vq[pri] \in Seq(Pids)
      BY <1>1, <2>2
    <3>2. 1 \in DOMAIN s.vq[pri] /\ s.vq[pri][1] = sig /\ sig \in Pids
      BY <2>1, <2>2, <3>1, Indices
    <3>3. pri \in DOMAIN s.vq
      BY <1>1, <2>2
    <3>4. <<pri, 1>> \in DOMAIN Colas(s.vq)
      BY <3>2, <3>3, LugaresDe
    <3>5. Colas(s.vq)[<<pri, 1>>] = s.vq[<<pri, 1>>[1]][<<pri, 1>>[2]]
      BY <3>4, LugaresDe
    <3> QED BY <3>2, <3>4, <3>5 DEF Fila
  <2>5. d \in Int
    <3>1. pri + 1 \in 1..Len(s.def_quantum)
      BY <1>1, <2>2
    <3>2. s.def_quantum[pri + 1] \in Int
      BY <1>1, <3>1, ElementOfSeq
    <3> QED BY <3>2
  <2> HIDE DEF v, d
  <2>6. pri \in -1..N
    BY <2>2
  <2>7. Es(N, [s EXCEPT !.vq = v, !.cur_pri = pri, !.quantum = d],
           s.def_quantum, v, s.unblock_to, d, pri)
    BY <1>1, <2>3, <2>5, <2>6, CambiosDeMFQ, Zenon
  <2>8. Es(N, sch', s.def_quantum, v, s.unblock_to, d, pri)
    BY <2>1, <2>7
  <2>9. MFQTiene(N, sch', sig, A \ {sig}, B, k)
    BY <2>2, <2>3, <2>4, <2>8, IdleAparte DEF MFQTiene, Es
  <2> QED BY <2>4, <2>9 DEF Dada, Objeto
<1> QED BY <1>2, <1>3

LEMMA MFQTick ==
    ASSUME NEW N \in Nat \ {0}, NEW S, NEW B, NEW k \in Nat, MFQTiene(N, sch, cur_pid, S, B, k),
           cur_pid \in Pids \cup {IDLE_TASK}, cur_pid \notin S,
           NEW m \in {"TICK", "EXIT", "BLOCK"}, m # "TICK" => cur_pid \in Pids,
           NEW sig, MFQ!tick(m, sig),
           NEW D, D = IF m = "BLOCK" THEN B \cup {cur_pid} ELSE B
    PROVE  \/ Dada("SchedMFQ", sig, Candidatas(m, cur_pid, S), D, k)
           \/ Nadie("SchedMFQ", sig, Candidatas(m, cur_pid, S), D, k)
           \/ sig = INDEFINIDO /\ m = "BLOCK" /\ cur_pid + 1 \notin 1..k
<1> DEFINE A == Candidatas(m, cur_pid, S)
<1>1. /\ sch \in ObjetosMFQ(N) /\ Fila(Colas(sch.vq), S) /\ Len(sch.unblock_to) = k
      /\ cur_pid = IDLE_TASK => sch.quantum = 0
      /\ cur_pid # IDLE_TASK => sch.cur_pri \in 0..(N - 1)
      /\ \A p \in B : p + 1 \in 1..k /\ sch.unblock_to[p + 1] \in 0..(N - 1)
  BY DEF MFQTiene
<1>2. /\ sch.def_quantum \in Seq(Int) /\ Len(sch.def_quantum) = N
      /\ sch.vq \in [0..(N - 1) -> Seq(Pids)]
      /\ sch.unblock_to \in Seq(-1..(N - 1)) /\ sch.quantum \in Int /\ sch.cur_pri \in -1..N
  BY <1>1, PartesDeMFQ
<1>3. CASE m = "EXIT" /\ MFQ!next(sch, sig)
  <2>1. A = S /\ D = B
    BY <1>3 DEF Candidatas
  <2> QED BY <1>1, <1>2, <1>3, <2>1, MFQNext
<1>4. CASE /\ m = "BLOCK" /\ MFQ!EnRango(cur_pid)
           /\ MFQ!next([sch EXCEPT !.cur_pri = MFQ!Sube, !.unblock_to[cur_pid + 1] = MFQ!Sube], sig)
  <2> DEFINE u == [sch.unblock_to EXCEPT ![cur_pid + 1] = MFQ!Sube]
             t == [sch EXCEPT !.cur_pri = MFQ!Sube, !.unblock_to = u]
  <2>1. MFQ!Sube \in 0..(N - 1) /\ MFQ!Sube \in -1..N /\ MFQ!Sube \in -1..(N - 1)
    BY <1>1, <1>4, IdleAparte DEF MFQ!Sube
  <2>2. DOMAIN sch.unblock_to = 1..k /\ cur_pid + 1 \in 1..k
    BY <1>1, <1>2, <1>4, Indices DEF MFQ!EnRango
  <2>3. /\ u \in Seq(-1..(N - 1)) /\ Len(u) = k
        /\ \A i \in 1..k : u[i] = IF i = cur_pid + 1 THEN MFQ!Sube ELSE sch.unblock_to[i]
    <3>1. sch.unblock_to \in Seq(-1..(N - 1)) /\ cur_pid + 1 \in 1..Len(sch.unblock_to)
      BY <1>1, <1>2, <2>2
    <3>2. /\ u \in Seq(-1..(N - 1)) /\ Len(u) = Len(sch.unblock_to)
          /\ \A i \in 1..Len(sch.unblock_to) :
                u[i] = IF i = cur_pid + 1 THEN MFQ!Sube ELSE sch.unblock_to[i]
      BY <2>1, <3>1, ExceptSeq
    <3> QED BY <1>1, <3>2
  <2>4. MFQ!next(t, sig)
    BY <1>4
  <2> HIDE DEF u
  <2>5. Es(N, t, sch.def_quantum, sch.vq, u, sch.quantum, MFQ!Sube)
    BY <1>1, <1>2, <2>1, <2>3, CambiosDeMFQ, Zenon
  <2>6. A = S /\ D = B \cup {cur_pid}
    BY <1>4 DEF Candidatas
  <2>7. \A p \in D : p + 1 \in 1..k /\ u[p + 1] \in 0..(N - 1)
    BY <1>1, <2>1, <2>2, <2>3, <2>6
  <2> HIDE DEF t
  <2>8. t \in ObjetosMFQ(N) /\ t.vq = sch.vq /\ t.unblock_to = u
    BY <2>5 DEF Es
  <2> QED BY <1>1, <1>2, <2>3, <2>4, <2>6, <2>7, <2>8, MFQNext
<1>5. CASE m = "BLOCK" /\ ~ MFQ!EnRango(cur_pid) /\ sig = INDEFINIDO
  BY <1>1, <1>2, <1>5, Indices DEF MFQ!EnRango
<1>6. CASE m = "TICK" /\ sch.quantum # 0 /\ sig = cur_pid /\ sch' = [sch EXCEPT !.quantum = @ - 1]
  <2>1. cur_pid \in Pids /\ cur_pid # IDLE_TASK
    BY <1>1, <1>6, IdleAparte
  <2>2. sig \in A /\ A \ {sig} = S /\ D = B
    BY <1>6, <2>1 DEF Candidatas
  <2>3. sch.quantum - 1 \in Int
    BY <1>2
  <2>4. Es(N, [sch EXCEPT !.quantum = sch.quantum - 1],
           sch.def_quantum, sch.vq, sch.unblock_to, sch.quantum - 1, sch.cur_pri)
    BY <1>1, <1>2, <2>3, CambiosDeMFQ, Zenon
  <2>5. MFQTiene(N, sch', sig, S, B, k)
    BY <1>1, <1>6, <2>1, <2>4 DEF MFQTiene, Es
  <2> QED BY <2>2, <2>5 DEF Dada, Objeto
<1>7. CASE m = "TICK" /\ cur_pid = IDLE_TASK /\ MFQ!next(sch, sig)
  <2>1. A = S /\ D = B
    BY <1>7, IdleAparte DEF Candidatas
  <2> QED BY <1>1, <1>2, <1>7, <2>1, MFQNext
<1>8. CASE /\ m = "TICK" /\ cur_pid # IDLE_TASK
           /\ MFQ!next([sch EXCEPT !.cur_pri = MFQ!Baja, !.vq[MFQ!Baja] = Append(@, cur_pid)], sig)
  <2> DEFINE v == [sch.vq EXCEPT ![MFQ!Baja] = Append(@, cur_pid)]
             t == [sch EXCEPT !.cur_pri = MFQ!Baja, !.vq = v]
  <2>1. MFQ!Baja \in 0..(N - 1) /\ MFQ!Baja \in -1..N
    BY <1>1, <1>2, <1>8, SMTT(30) DEF MFQ!Baja, MFQ!colas
  <2>2. cur_pid \in Pids
    BY <1>8
  <2>3. v \in [0..(N - 1) -> Seq(Pids)] /\ Fila(Colas(v), S \cup {cur_pid})
    BY <1>1, <1>2, <2>1, <2>2, FilaDeCola
  <2>4. MFQ!next(t, sig)
    BY <1>8
  <2> HIDE DEF v
  <2>5. Es(N, t, sch.def_quantum, v, sch.unblock_to, sch.quantum, MFQ!Baja)
    BY <1>1, <1>2, <2>1, <2>3, CambiosDeMFQ, Zenon
  <2>6. A = S \cup {cur_pid} /\ D = B
    BY <1>8, <2>2 DEF Candidatas
  <2> HIDE DEF t
  <2>7. t \in ObjetosMFQ(N) /\ t.vq = v /\ t.unblock_to = sch.unblock_to
    BY <2>5 DEF Es
  <2> QED BY <1>1, <1>2, <2>3, <2>4, <2>6, <2>7, MFQNext
<1> QED BY <1>3, <1>4, <1>5, <1>6, <1>7, <1>8 DEF MFQ!tick

(* Lottery. *)
ConTicket(s, t, tot) == [s EXCEPT !.tickets = Append(s.tickets, t), !.tot_tickets = tot]

LEMMA LotteryEncola ==
    ASSUME NEW s \in ObjetosLottery, NEW S, Fila(PidsDe(s.tickets), S),
           NEW t \in Tickets, t.pid \notin S, NEW tot \in Int
    PROVE  LET r == ConTicket(s, t, tot) IN
           /\ r \in ObjetosLottery /\ Fila(PidsDe(r.tickets), S \cup {t.pid})
           /\ r.blocked_tasks = s.blocked_tasks /\ r.ticket_actual = s.ticket_actual
<1> DEFINE ts == Append(s.tickets, t)
           r == ConTicket(s, t, tot)
           Q == Seq(Tickets)
           U == [pid : Int, k : Int]
<1>1. s \in [quantum : Int, contador : Int, tot_tickets : Int, tickets : Q, blocked_tasks : Q,
             ticket_actual : U]
  BY DEF ObjetosLottery
<1> HIDE DEF U
<1>2. s.tickets \in Seq(Tickets)
  BY <1>1
<1>3. ts \in Q /\ Fila(PidsDe(ts), S \cup {t.pid})
  BY <1>2, FilaDeTickets
<1>4. r = [s EXCEPT !.tickets = ts, !.tot_tickets = tot]
  BY DEF ConTicket
<1> HIDE DEF Q, ts, r
<1>5. /\ r \in [quantum : Int, contador : Int, tot_tickets : Int, tickets : Q, blocked_tasks : Q,
                ticket_actual : U]
      /\ r.tickets = ts /\ r.blocked_tasks = s.blocked_tasks /\ r.ticket_actual = s.ticket_actual
  BY <1>1, <1>3, <1>4
<1> QED BY <1>3, <1>5 DEF ObjetosLottery, Q, U, ts, r

LEMMA LotteryLoad ==
    ASSUME NEW S, NEW B, LotteryTiene(sch, cur_pid, S, B), NEW p \in Pids, p \notin S,
           Lottery!load(p)
    PROVE  LotteryTiene(sch', cur_pid, S \cup {p}, B)
<1> DEFINE t == [pid |-> p, k |-> 1]
           tot == sch.tot_tickets + 1
<1>1. /\ sch \in ObjetosLottery /\ Fila(PidsDe(sch.tickets), S)
      /\ Fila(PidsDe(sch.blocked_tasks), B)
      /\ cur_pid # IDLE_TASK => sch.ticket_actual.pid = cur_pid
  BY DEF LotteryTiene
<1>2. sch' = [sch EXCEPT !.tickets = Append(@, t), !.tot_tickets = tot]
  BY DEF Lottery!load, Lottery!Ticket
<1>3. t \in Tickets /\ t.pid = p /\ tot \in Int
  BY <1>1 DEF Tickets, ObjetosLottery
<1> HIDE DEF t, tot
<1>4. /\ sch' \in ObjetosLottery /\ Fila(PidsDe(sch'.tickets), S \cup {p})
      /\ sch'.blocked_tasks = sch.blocked_tasks /\ sch'.ticket_actual = sch.ticket_actual
  <2>1. t.pid \notin S /\ sch' = ConTicket(sch, t, tot)
    BY <1>2, <1>3 DEF ConTicket
  <2> QED BY <1>1, <1>3, <2>1, LotteryEncola
<1> QED BY <1>1, <1>4 DEF LotteryTiene

(* A task that is blocked has its ticket apart. *)
LEMMA TicketApartado ==
    ASSUME NEW s \in Seq(Tickets), NEW B, Fila(PidsDe(s), B), NEW p \in B
    PROVE  LET i == Lottery!SelectInSeq(s, LAMBDA t : t.pid = p) IN
           i \in DOMAIN s /\ i # 0 /\ s[i] \in Tickets /\ s[i].pid = p
<1> DEFINE I == {j \in 1..Len(s) : s[j].pid = p}
<1>1. Len(s) \in Nat /\ DOMAIN s = 1..Len(s) /\ \A j \in DOMAIN s : s[j] \in Tickets
  BY Indices
<1>2. \E j \in DOMAIN s : s[j].pid = p
  BY DEF Fila, PidsDe
<1>3. I # {} /\ I \subseteq Nat
  BY <1>1, <1>2
<1>4. Lottery!SelectInSeq(s, LAMBDA t : t.pid = p) = Lottery!Min(I)
  BY <1>3 DEF Lottery!SelectInSeq
<1>5. Lottery!Min(I) \in I
  BY <1>3, MinimoDe
<1> QED BY <1>1, <1>4, <1>5

LEMMA LotteryUnblock ==
    ASSUME NEW S, NEW B, LotteryTiene(sch, cur_pid, S, B), NEW p \in Pids, p \notin S, p \in B,
           Lottery!unblock(p)
    PROVE  LotteryTiene(sch', cur_pid, S \cup {p}, B \ {p})
<1> DEFINE i == Lottery!SelectInSeq(sch.blocked_tasks, LAMBDA t : t.pid = p)
           t == sch.blocked_tasks[i]
           tot == sch.tot_tickets + sch.blocked_tasks[i].k
           ts == Append(sch.tickets, t)
           bs == Lottery!RemoveAt(sch.blocked_tasks, i)
           Q == Seq(Tickets)
           U == [pid : Int, k : Int]
<1>1. /\ sch \in ObjetosLottery /\ Fila(PidsDe(sch.tickets), S)
      /\ Fila(PidsDe(sch.blocked_tasks), B)
      /\ cur_pid # IDLE_TASK => sch.ticket_actual.pid = cur_pid
  BY DEF LotteryTiene
<1>2. sch \in [quantum : Int, contador : Int, tot_tickets : Int, tickets : Q, blocked_tasks : Q,
               ticket_actual : U]
  BY <1>1 DEF ObjetosLottery
<1>3. sch.tickets \in Seq(Tickets) /\ sch.blocked_tasks \in Seq(Tickets) /\ sch.tot_tickets \in Int
  BY <1>2
<1>4. i \in DOMAIN sch.blocked_tasks /\ i # 0 /\ t \in Tickets /\ t.pid = p
  BY <1>1, <1>3, TicketApartado
<1>5. sch' = [sch EXCEPT !.tickets = ts, !.blocked_tasks = bs, !.tot_tickets = tot]
  BY <1>4 DEF Lottery!unblock
<1> HIDE DEF i
<1>6. bs \in Q /\ Fila(PidsDe(bs), B \ {p})
  BY <1>1, <1>3, <1>4, FilaSinTicket
<1>7. tot \in Int
  BY <1>3, <1>4 DEF Tickets
<1> HIDE DEF t, tot, bs
<1>8. ts \in Q /\ Fila(PidsDe(ts), S \cup {p})
  BY <1>1, <1>3, <1>4, FilaDeTickets
<1> HIDE DEF ts, Q, U
<1>9. /\ sch' \in [quantum : Int, contador : Int, tot_tickets : Int, tickets : Q, blocked_tasks : Q,
                   ticket_actual : U]
      /\ sch'.tickets = ts /\ sch'.blocked_tasks = bs /\ sch'.ticket_actual = sch.ticket_actual
  BY <1>2, <1>5, <1>6, <1>7, <1>8
<1> QED BY <1>1, <1>6, <1>8, <1>9 DEF LotteryTiene, ObjetosLottery, Q, U

(* The draw, with any object: somebody, nobody or abort(). *)
LEMMA LotterySorteo ==
    ASSUME NEW s \in ObjetosLottery, NEW A, Fila(PidsDe(s.tickets), A),
           NEW B, Fila(PidsDe(s.blocked_tasks), B), NEW sig, Lottery!Sorteo(s, sig), NEW k
    PROVE  Dada("SchedLottery", sig, A, B, k) \/ Nadie("SchedLottery", sig, A, B, k)
           \/ sig = ABORTO
<1> DEFINE Q == Seq(Tickets)
           U == [pid : Int, k : Int]
<1>1. s \in [quantum : Int, contador : Int, tot_tickets : Int, tickets : Q, blocked_tasks : Q,
             ticket_actual : U]
  BY DEF ObjetosLottery
<1>2. s.tickets \in Seq(Tickets)
  BY <1>1
<1>3. CASE s.tickets = <<>> /\ sig = IDLE_TASK /\ sch' = s
  <2>1. DOMAIN PidsDe(s.tickets) = {}
    BY <1>2, <1>3, Indices DEF PidsDe
  <2>2. LotteryTiene(sch', IDLE_TASK, A, B)
    BY <1>3 DEF LotteryTiene
  <2> QED BY <1>3, <2>1, <2>2 DEF Nadie, Objeto, Lugares
<1>4. CASE \E g \in Lottery!Numeros(s) : \E i \in DOMAIN s.tickets :
             /\ Lottery!Gana(s, i, g)
             /\ sig = s.tickets[i].pid
             /\ sch' = [s EXCEPT !.tickets = Lottery!RemoveAt(@, i), !.contador = s.quantum,
                                 !.tot_tickets = @ - s.ticket_actual.k,
                                 !.ticket_actual = Lottery!Ticket(sig, 1)]
  <2> DEFINE R(i) == Lottery!RemoveAt(s.tickets, i)
             w == [pid |-> sig, k |-> 1]
             tot == s.tot_tickets - s.ticket_actual.k
  <2>1. PICK i \in DOMAIN s.tickets :
             /\ sig = s.tickets[i].pid
             /\ sch' = [s EXCEPT !.tickets = R(i), !.contador = s.quantum,
                                 !.tot_tickets = tot, !.ticket_actual = w]
    BY <1>4 DEF Lottery!Ticket
  <2> DEFINE ts == R(i)
  <2>2. ts \in Q /\ sig \in A /\ sig \in Pids /\ Fila(PidsDe(ts), A \ {sig})
    BY <1>2, <2>1, FilaSinTicket DEF Tickets
  <2>3. w \in U /\ w.pid = sig /\ tot \in Int
    BY <1>1, <2>2 DEF Pids
  <2> HIDE DEF Q, U, ts, w, tot
  <2>4. sch' = [s EXCEPT !.tickets = ts, !.contador = s.quantum,
                         !.tot_tickets = tot, !.ticket_actual = w]
    BY <2>1 DEF ts
  <2>5. /\ sch' \in [quantum : Int, contador : Int, tot_tickets : Int, tickets : Q,
                     blocked_tasks : Q, ticket_actual : U]
        /\ sch'.tickets = ts /\ sch'.blocked_tasks = s.blocked_tasks /\ sch'.ticket_actual = w
    BY <1>1, <2>2, <2>3, <2>4
  <2>6. LotteryTiene(sch', sig, A \ {sig}, B)
    BY <2>2, <2>3, <2>5 DEF LotteryTiene, ObjetosLottery, Q, U
  <2> QED BY <2>2, <2>6 DEF Dada, Objeto
<1>5. CASE sig = ABORTO
  BY <1>5
<1> QED BY <1>3, <1>4, <1>5 DEF Lottery!Sorteo

LEMMA LotteryTick ==
    ASSUME NEW S, NEW B, LotteryTiene(sch, cur_pid, S, B),
           cur_pid \in Pids \cup {IDLE_TASK}, cur_pid \notin S,
           NEW m \in {"TICK", "EXIT", "BLOCK"}, m # "TICK" => cur_pid \in Pids \ B,
           NEW sig, Lottery!tick(m, sig),
           NEW D, D = IF m = "BLOCK" THEN B \cup {cur_pid} ELSE B, NEW k
    PROVE  \/ Dada("SchedLottery", sig, Candidatas(m, cur_pid, S), D, k)
           \/ Nadie("SchedLottery", sig, Candidatas(m, cur_pid, S), D, k)
           \/ sig = ABORTO
<1> DEFINE A == Candidatas(m, cur_pid, S)
           Q == Seq(Tickets)
           U == [pid : Int, k : Int]
<1>1. /\ sch \in ObjetosLottery /\ Fila(PidsDe(sch.tickets), S)
      /\ Fila(PidsDe(sch.blocked_tasks), B)
      /\ cur_pid # IDLE_TASK => sch.ticket_actual.pid = cur_pid
  BY DEF LotteryTiene
<1>2. sch \in [quantum : Int, contador : Int, tot_tickets : Int, tickets : Q, blocked_tasks : Q,
               ticket_actual : U]
  BY <1>1 DEF ObjetosLottery
<1>3. /\ sch.tickets \in Seq(Tickets) /\ sch.blocked_tasks \in Seq(Tickets)
      /\ sch.ticket_actual \in [pid : Int, k : Int]
      /\ sch.quantum \in Int /\ sch.contador \in Int /\ sch.tot_tickets \in Int
  BY <1>2
<1>4. CASE m = "EXIT" /\ Lottery!Sorteo(sch, sig)
  <2>1. A = S /\ D = B
    BY <1>4 DEF Candidatas
  <2> QED BY <1>1, <1>4, <2>1, LotterySorteo
<1>5. CASE m = "BLOCK" /\ Lottery!Sorteo(Lottery!Bloqueada, sig)
  <2> DEFINE kk == Lottery!recompensa(sch.quantum - (sch.contador - 1))
             t == [sch.ticket_actual EXCEPT !.k = kk]
             bs == Append(sch.blocked_tasks, t)
             c == sch.contador - 1
             s == [sch EXCEPT !.contador = c, !.ticket_actual = t, !.blocked_tasks = bs]
  <2>1. Lottery!Sorteo(s, sig)
    BY <1>5 DEF Lottery!Bloqueada
  <2>2. kk \in Int
    <3> DEFINE us == sch.quantum - (sch.contador - 1)
    <3>1. us \in Int
      BY <1>3
    <3> HIDE DEF us
    <3>2. us > 0 => (sch.quantum + us - 1) \div us \in Int
      <4>1. sch.quantum + us - 1 \in Int
        BY <1>3, <3>1
      <4> QED BY <3>1, <4>1
    <3>3. Lottery!recompensa(us) \in Int
      BY <3>1, <3>2 DEF Lottery!recompensa
    <3> QED BY <3>3 DEF us
  <2>3. cur_pid \in Pids /\ cur_pid # IDLE_TASK /\ cur_pid \notin B
    BY <1>5, IdleAparte
  <2> HIDE DEF kk
  <2>4. t \in Tickets /\ t \in U /\ t.pid = cur_pid
    BY <1>1, <1>3, <2>2, <2>3 DEF Tickets, Pids
  <2> HIDE DEF t
  <2>5. bs \in Q /\ Fila(PidsDe(bs), B \cup {cur_pid})
    BY <1>1, <1>3, <2>3, <2>4, FilaDeTickets
  <2>6. c \in Int
    BY <1>3
  <2> HIDE DEF Q, U, bs, c
  <2>7. /\ s \in [quantum : Int, contador : Int, tot_tickets : Int, tickets : Q,
                  blocked_tasks : Q, ticket_actual : U]
        /\ s.tickets = sch.tickets /\ s.blocked_tasks = bs
    BY <1>2, <2>4, <2>5, <2>6
  <2> HIDE DEF s
  <2>8. s \in ObjetosLottery
    BY <2>7 DEF ObjetosLottery, Q, U
  <2>9. A = S /\ D = B \cup {cur_pid}
    BY <1>5 DEF Candidatas
  <2> QED BY <1>1, <2>1, <2>5, <2>7, <2>8, <2>9, LotterySorteo
<1>6. CASE m = "TICK" /\ cur_pid # IDLE_TASK /\ Lottery!Sorteo(Lottery!Desalojada, sig)
  <2> DEFINE t == [pid |-> cur_pid, k |-> 1]
             tot == sch.tot_tickets + 1
             s == ConTicket(sch, t, tot)
  <2>1. Lottery!Sorteo(s, sig)
    BY <1>6 DEF Lottery!Desalojada, Lottery!Ticket, ConTicket
  <2>2. t \in Tickets /\ t.pid = cur_pid /\ tot \in Int
    BY <1>3, <1>6 DEF Tickets
  <2> HIDE DEF t, tot
  <2>3. /\ s \in ObjetosLottery /\ Fila(PidsDe(s.tickets), S \cup {cur_pid})
        /\ s.blocked_tasks = sch.blocked_tasks
    <3>1. /\ s \in ObjetosLottery /\ Fila(PidsDe(s.tickets), S \cup {t.pid})
          /\ s.blocked_tasks = sch.blocked_tasks
      <4>1. t.pid \notin S
        BY <2>2
      <4> QED BY <1>1, <2>2, <4>1, LotteryEncola
    <3> QED BY <2>2, <3>1
  <2> HIDE DEF s
  <2>4. A = S \cup {cur_pid} /\ D = B
    BY <1>6 DEF Candidatas
  <2> QED BY <1>1, <2>1, <2>3, <2>4, LotterySorteo
<1>7. CASE m = "TICK" /\ cur_pid = IDLE_TASK /\ Lottery!Sorteo(sch, sig)
  <2>1. A = S /\ D = B
    BY <1>7, IdleAparte DEF Candidatas
  <2> QED BY <1>1, <1>7, <2>1, LotterySorteo
<1>8. CASE /\ m = "TICK"
           /\ cur_pid = IDLE_TASK => sch.tickets = <<>>
           /\ sig = cur_pid /\ sch' = [sch EXCEPT !.contador = @ - 1]
  <2> DEFINE c == sch.contador - 1
  <2>1. c \in Int /\ sch' = [sch EXCEPT !.contador = c]
    BY <1>3, <1>8
  <2>2. DOMAIN PidsDe(sch.tickets) = DOMAIN sch.tickets
    BY DEF PidsDe
  <2> HIDE DEF Q, U, c
  <2>3. /\ sch' \in [quantum : Int, contador : Int, tot_tickets : Int, tickets : Q,
                     blocked_tasks : Q, ticket_actual : U]
        /\ sch'.tickets = sch.tickets /\ sch'.blocked_tasks = sch.blocked_tasks
        /\ sch'.ticket_actual = sch.ticket_actual
    BY <1>2, <2>1
  <2>4. LotteryTiene(sch', cur_pid, S, B)
    BY <1>1, <2>3 DEF LotteryTiene, ObjetosLottery, Q, U
  <2>5. CASE cur_pid = IDLE_TASK
    <3>1. A = S /\ D = B
      BY <1>8, <2>5, IdleAparte DEF Candidatas
    <3>2. DOMAIN sch.tickets = {}
      <4>1. sch.tickets = <<>>
        BY <1>8, <2>5
      <4> QED BY <4>1
    <3>3. DOMAIN Lugares("SchedLottery", sch') = {}
      BY <2>2, <2>3, <3>2 DEF Lugares
    <3>4. Objeto("SchedLottery", sch', IDLE_TASK, A, D, k)
      BY <2>4, <2>5, <3>1 DEF Objeto
    <3> QED BY <1>8, <2>5, <3>3, <3>4 DEF Nadie
  <2>6. CASE cur_pid \in Pids
    <3>1. sig \in A /\ A \ {sig} = S /\ D = B
      BY <1>8, <2>6 DEF Candidatas
    <3> QED BY <1>8, <2>4, <3>1 DEF Dada, Objeto
  <2> QED BY <2>5, <2>6
<1> QED BY <1>4, <1>5, <1>6, <1>7, <1>8 DEF Lottery!tick

(* Whatever the class. *)
LEMMA LasListas ==
    /\ settings.sched_class \in Clases => listas = Lugares(settings.sched_class, sch)
    /\ (settings.sched_class \in Clases => listas = Lugares(settings.sched_class, sch))'
<1>1. settings.sched_class \in Clases => listas = Lugares(settings.sched_class, sch)
  BY DEF listas, Lugares, FCFS!listas, RR!listas, MFQ!listas, Lottery!listas, Colas, PidsDe, Clases
<1>2. (settings.sched_class \in Clases => listas = Lugares(settings.sched_class, sch))'
  BY DEF listas, Lugares, FCFS!listas, RR!listas, MFQ!listas, Lottery!listas, Colas, PidsDe, Clases
<1> QED BY <1>1, <1>2

LEMMA LasEncoladas ==
    ASSUME NEW c \in Clases, NEW s, NEW cur, NEW S, NEW B, NEW k, Objeto(c, s, cur, S, B, k)
    PROVE  Fila(Lugares(c, s), S)
BY DEF Objeto, Clases, Lugares, FCFSTiene, RRTiene, MFQTiene, LotteryTiene

LEMMA AlCrear ==
    ASSUME NEW p \in Pedidos, sch \in sched_create(p)
    PROVE  p.sched_class \in Clases /\ Objeto(p.sched_class, sch, IDLE_TASK, {}, {}, 0)
<1> DEFINE a == p.argn
           c == p.sched_class
<1>1. /\ c \in Clases /\ a \in Seq(Int)
      /\ c = "SchedMFQ" => a # <<>>
  BY PedidosAssumption
<1>2. /\ Parametros[c] \in {-1, Len(a)}
      /\ sch = CASE c = "SchedFCFS"    -> FCFS!SchedFCFS(a)
                 [] c = "SchedRR"      -> RR!SchedRR(a)
                 [] c = "SchedMFQ"     -> MFQ!SchedMFQ(a)
                 [] c = "SchedLottery" -> Lottery!SchedLottery(a)
  BY DEF sched_create
<1>3. Parametros["SchedRR"] = 1 /\ Parametros["SchedLottery"] = 2
  BY DEF Parametros
<1> HIDE DEF a, c
<1>4. Fila(<<>>, {}) /\ Fila(PidsDe(<<>>), {})
  <2>1. DOMAIN <<>> = {} /\ DOMAIN PidsDe(<<>>) = {}
    BY DEF PidsDe
  <2> QED BY <2>1, FilaVacia
<1>5. CASE c = "SchedFCFS"
  <2>1. sch = [q |-> <<>>]
    BY <1>2, <1>5 DEF FCFS!SchedFCFS
  <2>2. <<>> \in Seq(Pids)
    OBVIOUS
  <2>3. FCFSTiene(sch, IDLE_TASK, {}, {})
    BY <1>4, <2>1, <2>2 DEF FCFSTiene, ObjetosFCFS
  <2>4. Objeto(c, sch, IDLE_TASK, {}, {}, 0)
    BY <1>5, <2>3 DEF Objeto
  <2> QED BY <1>1, <2>4 DEF c
<1>6. CASE c = "SchedRR"
  <2>1. sch = [quantum |-> a[1], contador |-> a[1], q |-> <<>>]
    BY <1>2, <1>6 DEF RR!SchedRR
  <2>2. a[1] \in Int
    <3>1. Len(a) = 1
      <4>1. Parametros[c] = 1 /\ Parametros[c] \in {-1, Len(a)}
        BY <1>2, <1>3, <1>6
      <4> QED BY <4>1
    <3> QED BY <1>1, <3>1, ElementOfSeq
  <2>3. <<>> \in Seq(Pids \cup {IDLE_TASK})
    OBVIOUS
  <2>4. RRTiene(sch, {})
    BY <1>4, <2>1, <2>2, <2>3 DEF RRTiene, ObjetosRR
  <2>5. Objeto(c, sch, IDLE_TASK, {}, {}, 0)
    BY <1>6, <2>4 DEF Objeto
  <2> QED BY <1>1, <2>5 DEF c
<1>7. CASE c = "SchedLottery"
  <2>1. sch = [quantum |-> a[1], contador |-> a[1], tot_tickets |-> 0, tickets |-> <<>>,
               blocked_tasks |-> <<>>, ticket_actual |-> [pid |-> 0, k |-> 0]]
    BY <1>2, <1>7 DEF Lottery!SchedLottery, Lottery!Ticket
  <2>2. a[1] \in Int
    <3>1. Len(a) = 2
      <4>1. Parametros[c] = 2 /\ Parametros[c] \in {-1, Len(a)}
        BY <1>2, <1>3, <1>7
      <4> QED BY <4>1
    <3> QED BY <1>1, <3>1, ElementOfSeq
  <2>3. <<>> \in Seq(Tickets) /\ [pid |-> 0, k |-> 0] \in [pid : Int, k : Int]
    OBVIOUS
  <2>4. sch \in ObjetosLottery
    BY <2>1, <2>2, <2>3 DEF ObjetosLottery
  <2>5. LotteryTiene(sch, IDLE_TASK, {}, {})
    BY <1>4, <2>1, <2>4 DEF LotteryTiene
  <2>6. Objeto(c, sch, IDLE_TASK, {}, {}, 0)
    BY <1>7, <2>5 DEF Objeto
  <2> QED BY <1>1, <2>6 DEF c
<1>8. CASE c = "SchedMFQ"
  <2>1. PICK N \in Nat \ {0} : a \in {d \in Seq(Int) : Len(d) = N}
    BY <1>1, <1>8, Indices
  <2> DEFINE v == [i \in 0..(N - 1) |-> <<>>]
  <2>2. sch = [def_quantum |-> a, vq |-> v, unblock_to |-> <<>>, quantum |-> 0, cur_pri |-> -1]
    BY <1>2, <1>8, <2>1 DEF MFQ!SchedMFQ
  <2>3. v \in [0..(N - 1) -> Seq(Pids)]
    OBVIOUS
  <2>4. Fila(Colas(v), {})
    <3>1. DOMAIN Colas(v) = {}
      <4> SUFFICES ASSUME NEW l \in DOMAIN Colas(v) PROVE FALSE
        OBVIOUS
      <4>1. l[1] \in DOMAIN v /\ l[2] \in DOMAIN v[l[1]]
        BY LugaresDe
      <4>2. v[l[1]] = <<>>
        BY <4>1
      <4> QED BY <4>1, <4>2
    <3> QED BY <3>1, FilaVacia
  <2> HIDE DEF v
  <2>5. -1 \in -1..N /\ <<>> \in Seq(-1..(N - 1))
    OBVIOUS
  <2>6. sch \in ObjetosMFQ(N)
    <3> DEFINE Q == {d \in Seq(Int) : Len(d) = N}
               V == [0..(N - 1) -> Seq(Pids)]
               U == Seq(-1..(N - 1))
               P == -1..N
    <3>1. a \in Q /\ v \in V /\ <<>> \in U /\ -1 \in P
      BY <2>1, <2>3, <2>5
    <3> HIDE DEF Q, V, U, P
    <3>2. sch \in [def_quantum : Q, vq : V, unblock_to : U, quantum : Int, cur_pri : P]
      BY <2>2, <3>1
    <3> QED BY <3>2 DEF ObjetosMFQ, Q, V, U, P
  <2>7. sch.vq = v /\ Len(sch.unblock_to) = 0 /\ sch.quantum = 0
    BY <2>2
  <2>8. MFQTiene(N, sch, IDLE_TASK, {}, {}, 0)
    BY <2>4, <2>6, <2>7 DEF MFQTiene
  <2>9. Objeto(c, sch, IDLE_TASK, {}, {}, 0)
    BY <1>8, <2>8 DEF Objeto
  <2> QED BY <1>1, <2>9 DEF c
<1> QED BY <1>1, <1>5, <1>6, <1>7, <1>8 DEF Clases

LEMMA AlLlegar ==
    ASSUME settings.sched_class \in Clases, NEW S, NEW B, NEW k \in Nat,
           Objeto(settings.sched_class, sch, cur_pid, S, B, k),
           NEW p \in Pids, p \notin S, sch_load(p)
    PROVE  Objeto(settings.sched_class, sch', cur_pid, S \cup {p}, B, k + 1)
<1> DEFINE c == settings.sched_class
<1>1. CASE c = "SchedFCFS"
  BY <1>1, FCFSLoad DEF Objeto, sch_load
<1>2. CASE c = "SchedRR"
  BY <1>2, RREncola DEF Objeto, sch_load
<1>3. CASE c = "SchedMFQ"
  <2>1. MFQ!load(p)
    BY <1>3 DEF sch_load
  <2>2. PICK N \in Nat \ {0} : MFQTiene(N, sch, cur_pid, S, B, k)
    BY <1>3 DEF Objeto
  <2>3. MFQTiene(N, sch', cur_pid, S \cup {p}, B, k + 1)
    BY <2>1, <2>2, MFQLoad
  <2> QED BY <1>3, <2>3 DEF Objeto
<1>4. CASE c = "SchedLottery"
  BY <1>4, LotteryLoad DEF Objeto, sch_load
<1> QED BY <1>1, <1>2, <1>3, <1>4 DEF Clases

LEMMA AlDesbloquear ==
    ASSUME settings.sched_class \in Clases, NEW S, NEW B, NEW k \in Nat,
           Objeto(settings.sched_class, sch, cur_pid, S, B, k),
           NEW p \in Pids, p \notin S, p \in B, sch_unblock(p)
    PROVE  Objeto(settings.sched_class, sch', cur_pid,
                  IF settings.sched_class = "SchedFCFS" THEN S ELSE S \cup {p}, B \ {p}, k)
<1> DEFINE c == settings.sched_class
<1>1. CASE c = "SchedFCFS"
  BY <1>1 DEF Objeto, sch_unblock, FCFSTiene, FCFS!unblock
<1>2. CASE c = "SchedRR"
  BY <1>2, RREncola DEF Objeto, sch_unblock
<1>3. CASE c = "SchedMFQ"
  <2>1. MFQ!unblock(p)
    BY <1>3 DEF sch_unblock
  <2>2. PICK N \in Nat \ {0} : MFQTiene(N, sch, cur_pid, S, B, k)
    BY <1>3 DEF Objeto
  <2>3. MFQTiene(N, sch', cur_pid, S \cup {p}, B \ {p}, k)
    BY <2>1, <2>2, MFQUnblock
  <2> QED BY <1>3, <2>3 DEF Objeto
<1>4. CASE c = "SchedLottery"
  BY <1>4, LotteryUnblock DEF Objeto, sch_unblock
<1> QED BY <1>1, <1>2, <1>3, <1>4 DEF Clases

(* The one that blocks joins the blocked ones; with FCFS it may be already *)
(* there, or not be there any more, and it goes on.                        *)
LEMMA AlContestar ==
    ASSUME settings.sched_class \in Clases, NEW S, NEW B, NEW k \in Nat,
           Objeto(settings.sched_class, sch, cur_pid, S, B, k),
           cur_pid \in Pids \cup {IDLE_TASK}, cur_pid \notin S,
           NEW m \in {"TICK", "EXIT", "BLOCK"}, m # "TICK" => cur_pid \in Pids,
           settings.sched_class # "SchedFCFS" /\ m # "TICK" => cur_pid \notin B,
           NEW sig, sch_tick(m, sig), NEW D,
           IF settings.sched_class = "SchedFCFS"
           THEN D \subseteq {cur_pid} \cap Pids /\ (m = "EXIT" => D = {})
           ELSE D = IF m = "BLOCK" THEN B \cup {cur_pid} ELSE B
    PROVE  IF settings.sched_class = "SchedFCFS" /\ m = "BLOCK"
           THEN sig = cur_pid /\ Objeto(settings.sched_class, sch', cur_pid, S, D, k)
           ELSE \/ Dada(settings.sched_class, sig, Candidatas(m, cur_pid, S), D, k)
                \/ Nadie(settings.sched_class, sig, Candidatas(m, cur_pid, S), D, k)
                \/ sig = INDEFINIDO /\ m = "BLOCK" /\ cur_pid + 1 \notin 1..k
                \/ settings.sched_class = "SchedLottery" /\ sig = ABORTO
<1> DEFINE c == settings.sched_class
<1>1. CASE c = "SchedFCFS"
  <2>1. FCFS!tick(m, sig) /\ FCFSTiene(sch, cur_pid, S, B)
        /\ D \subseteq {cur_pid} \cap Pids /\ (m = "EXIT" => D = {})
    BY <1>1 DEF sch_tick, Objeto
  <2>2. IF m = "BLOCK" THEN sig = cur_pid /\ Objeto("SchedFCFS", sch', cur_pid, S, D, k)
        ELSE \/ Dada("SchedFCFS", sig, Candidatas(m, cur_pid, S), D, k)
             \/ Nadie("SchedFCFS", sig, Candidatas(m, cur_pid, S), D, k)
    BY <2>1, FCFSTick
  <2> QED BY <1>1, <2>2
<1>2. CASE c = "SchedRR"
  <2>1. RR!tick(m, sig) /\ RRTiene(sch, S)
    BY <1>2 DEF sch_tick, Objeto
  <2>2. \/ Dada("SchedRR", sig, Candidatas(m, cur_pid, S), D, k)
        \/ Nadie("SchedRR", sig, Candidatas(m, cur_pid, S), D, k)
    BY <2>1, RRTick
  <2> QED BY <1>2, <2>2
<1>3. CASE c = "SchedMFQ"
  <2>1. MFQ!tick(m, sig) /\ D = IF m = "BLOCK" THEN B \cup {cur_pid} ELSE B
    BY <1>3 DEF sch_tick
  <2>2. PICK N \in Nat \ {0} : MFQTiene(N, sch, cur_pid, S, B, k)
    BY <1>3 DEF Objeto
  <2>3. \/ Dada("SchedMFQ", sig, Candidatas(m, cur_pid, S), D, k)
        \/ Nadie("SchedMFQ", sig, Candidatas(m, cur_pid, S), D, k)
        \/ sig = INDEFINIDO /\ m = "BLOCK" /\ cur_pid + 1 \notin 1..k
    BY <2>1, <2>2, MFQTick
  <2> QED BY <1>3, <2>3
<1>4. CASE c = "SchedLottery"
  <2>1. Lottery!tick(m, sig) /\ LotteryTiene(sch, cur_pid, S, B)
        /\ (m # "TICK" => cur_pid \in Pids \ B) /\ D = IF m = "BLOCK" THEN B \cup {cur_pid} ELSE B
    BY <1>4 DEF sch_tick, Objeto
  <2>2. \/ Dada("SchedLottery", sig, Candidatas(m, cur_pid, S), D, k)
        \/ Nadie("SchedLottery", sig, Candidatas(m, cur_pid, S), D, k)
        \/ sig = ABORTO
    BY <2>1, LotteryTick
  <2> QED BY <1>4, <2>2
<1> QED BY <1>1, <1>2, <1>3, <1>4 DEF Clases

-----------------------------------------------------------------------------
(* The simulator: what the data of the tasks, the heaps and the scheduler  *)
(* have to do with one another.                                            *)

TareasSimu ==
    [running : {0, 1}, blk : {"ST_EXIT", "ST_IO", "ST_CPU"}, blkms : Nat \cup {-1, -2},
     usos : Seq([blk : {"ST_CPU", "ST_IO"}, ms : Nat])]

Terminadas(t) == {p \in Pids : t[p].blk = "ST_EXIT" /\ t[p].running = 0}

Monticulo(h) == h \subseteq Nat \X Pids /\ \A e, f \in h : e[2] = f[2] => e = f

TiposSimu ==
    /\ settings.sched_class \in Clases /\ settings.switch_cost \in Nat
    /\ tsks \in [Pids -> TareasSimu]
    /\ pc \in {"vuelta", "espera", "motivo", "fin", "error", "indefinido", "abortado"}
    /\ cur_time \in Nat /\ context_remain \in Nat
    /\ finished = Cardinality(Terminadas(tsks))
    /\ Monticulo(load) /\ Monticulo(unblock)

(* The tasks in a heap, and those that are ready when the ones in B are    *)
(* blocked.                                                                *)
En(h) == {p \in Pids : \E e \in h : e[2] = p}

Listos(t, cur, B) == {p \in Pids : t[p].running = 1 /\ p # cur /\ p \notin B}

(* Of task p, with data d: the tasks in B are blocked, those in L have     *)
(* arrived, cur is running and the simulator is at w.                      *)
EstaDe(p, d, B, L, cur, w, c) ==
    /\ p \in B => /\ d.running = 1 /\ d.blk = "ST_IO" /\ d.blkms = -1
                  /\ p = cur => c = "SchedFCFS" /\ w \notin {"espera", "motivo"}
    /\ p \notin L => d.running = 0 /\ d.blk = "ST_CPU" /\ p # cur
    /\ p \in L /\ d.running = 0 => d.blk = "ST_EXIT"
    /\ d.running = 1 /\ p # cur /\ p \notin B => d.blk = "ST_CPU"
    /\ d.blk = "ST_CPU" => d.blkms \in Nat
    /\ p = cur => d.running = 1
    /\ p = cur /\ w \in {"espera", "motivo"} /\ d.blk = "ST_IO" => d.blkms \in Nat
    /\ p = cur /\ w \notin {"espera", "motivo"} =>
         /\ d.blk # "ST_EXIT"
         /\ d.blk = "ST_IO" => c = "SchedFCFS" /\ (p \in B \/ d.blkms = -2)

Bien(c, s, t, B, L, cur, w) ==
    /\ \A p \in Pids : EstaDe(p, t[p], B, L, cur, w, c)
    /\ Objeto(c, s, cur, Listos(t, cur, B), B, Cardinality(L))

Invariante ==
    /\ Turno /\ TiposSimu /\ pc # "error" /\ DentroDelVector
    /\ pc \notin {"indefinido", "abortado"} =>
         Bien(settings.sched_class, sch, tsks, En(unblock), Pids \ En(load), cur_pid, pc)

LEMMA PidsFinito == Pids \subseteq Int /\ IsFiniteSet(Pids)
BY NAssumption, FS_Interval DEF Pids

LEMMA SubconjuntoFinito ==
    ASSUME NEW S \in SUBSET Pids PROVE IsFiniteSet(S) /\ Cardinality(S) \in Nat
BY PidsFinito, FS_Subset, FS_CardinalityType

LEMMA UnoMas ==
    ASSUME NEW S \in SUBSET Pids, NEW p \in Pids, p \notin S
    PROVE  Cardinality(S \cup {p}) = Cardinality(S) + 1
BY SubconjuntoFinito, FS_AddElement

(* The top of a heap is one of its members. *)
LEMMA ElPrimero ==
    ASSUME NEW h, h \subseteq Nat \X Pids, h # {} PROVE Primero(h) \in h
<1> DEFINE T == {e[1] : e \in h}
<1>1. T \subseteq Nat /\ T # {}
  OBVIOUS
<1>2. PICK x \in T : \A y \in T : x <= y
  BY <1>1, Minimo
<1> DEFINE U == {e[2] : e \in {e \in h : e[1] = x}}
<1>3. U \subseteq Nat /\ U # {}
  BY NAssumption DEF Pids
<1>4. PICK z \in U : \A y \in U : z <= y
  BY <1>3, Minimo
<1>5. PICK e \in h : e[1] = x /\ e[2] = z
  OBVIOUS
<1>6. \A f \in h : e[1] < f[1] \/ (e[1] = f[1] /\ e[2] <= f[2])
  <2> SUFFICES ASSUME NEW f \in h, ~ (e[1] < f[1]) PROVE e[1] = f[1] /\ e[2] <= f[2]
    OBVIOUS
  <2>1. x <= f[1] /\ x \in Nat /\ f[1] \in Nat
    BY <1>1, <1>2
  <2>2. f[1] = x
    BY <1>5, <2>1
  <2>3. f[2] \in U
    BY <2>2
  <2> QED BY <1>4, <1>5, <2>2, <2>3
<1>7. \E g \in h : \A f \in h : g[1] < f[1] \/ (g[1] = f[1] /\ g[2] <= f[2])
  BY <1>6
<1> QED BY <1>7 DEF Primero

(* What is done before the scheduler is asked about m: only the current    *)
(* task changes, and t and D are then the data and the blocked ones.       *)
Preparado(m, t, D) ==
    /\ t \in [Pids -> TareasSimu] /\ \A p \in Pids \ {cur_pid} : t[p] = tsks[p]
    /\ D \subseteq Pids /\ D \ {cur_pid} = En(unblock) \ {cur_pid}
    /\ m \in {"TICK", "EXIT", "BLOCK"} /\ (m # "TICK" => cur_pid \in Pids)
    /\ cur_pid \in Pids =>
         /\ t[cur_pid].running = IF m = "EXIT" THEN 0 ELSE 1
         /\ m = "TICK" => /\ t[cur_pid].blk = "ST_CPU" /\ t[cur_pid].blkms \in Nat
                          /\ cur_pid \notin D /\ cur_pid \notin En(unblock)
         /\ m = "EXIT" => /\ t[cur_pid].blk = "ST_EXIT"
                          /\ cur_pid \notin D /\ cur_pid \notin En(unblock)
         /\ m = "BLOCK" /\ cur_pid \in D =>
              /\ t[cur_pid].blk = "ST_IO" /\ t[cur_pid].blkms = -1
              /\ settings.sched_class # "SchedFCFS" => cur_pid \notin En(unblock)
         /\ m = "BLOCK" /\ cur_pid \notin D =>
              /\ settings.sched_class = "SchedFCFS"
              /\ t[cur_pid].blk = "ST_CPU" /\ t[cur_pid].blkms = 0

(* MFQ is asked out of its vector only by a task with a lower pid yet to   *)
(* arrive: those that arrived are at least as many as their pids.          *)
LEMMA FueraDelVector ==
    ASSUME NEW h, NEW p \in Pids, p \notin En(h), h \subseteq Nat \X Pids,
           p + 1 \notin 1..Cardinality(Pids \ En(h))
    PROVE  \E e \in h : e[2] < p
<1> SUFFICES ASSUME \A e \in h : ~ (e[2] < p) PROVE FALSE
  OBVIOUS
<1> DEFINE L == Pids \ En(h)
<1>1. p \in Nat /\ 0..p \subseteq Pids
  BY NAssumption DEF Pids
<1>2. 0..p \subseteq L
  <2> SUFFICES ASSUME NEW q \in 0..p, q \in En(h) PROVE FALSE
    BY <1>1
  <2>1. PICK e \in h : e[2] = q
    BY DEF En
  <2>2. q = p
    BY <1>1, <2>1
  <2> QED BY <2>2
<1>3. L \in SUBSET Pids
  OBVIOUS
<1> HIDE DEF L
<1>4. IsFiniteSet(L) /\ Cardinality(L) \in Nat
  BY <1>3, SubconjuntoFinito
<1>5. Cardinality(0..p) = p + 1
  <2>1. 0 \in Int /\ p \in Int /\ 0 <= p
    BY <1>1
  <2>2. Cardinality(0..p) = p - 0 + 1
    BY <2>1, FS_Interval
  <2> QED BY <2>1, <2>2
<1>6. Cardinality(0..p) <= Cardinality(L)
  BY <1>2, <1>4, FS_Subset
<1> QED BY <1>1, <1>4, <1>5, <1>6 DEF L

(* The ready tasks, and what is known of each one, when the current task   *)
(* becomes q.                                                              *)
LEMMA ListosTras ==
    ASSUME NEW m, NEW t, NEW D, Preparado(m, t, D), TiposSimu,
           Bien(settings.sched_class, sch, tsks, En(unblock), Pids \ En(load), cur_pid, pc),
           cur_pid \in Pids \cup {IDLE_TASK},
           ~ (settings.sched_class = "SchedFCFS" /\ m = "BLOCK"),
           NEW q, q \in Candidatas(m, cur_pid, Listos(tsks, cur_pid, En(unblock))) \/ q = IDLE_TASK
    PROVE  Listos(t, q, D) = Candidatas(m, cur_pid, Listos(tsks, cur_pid, En(unblock))) \ {q}
<1> DEFINE A == Candidatas(m, cur_pid, Listos(tsks, cur_pid, En(unblock)))
<1>1. ASSUME NEW p \in Pids, p # cur_pid PROVE p \in Listos(t, q, D) <=> p \in A \ {q}
  <2>1. t[p] = tsks[p] /\ (p \in D <=> p \in En(unblock))
    BY <1>1 DEF Preparado
  <2>2. p \in A <=> p \in Listos(tsks, cur_pid, En(unblock))
    BY <1>1 DEF Candidatas
  <2> QED BY <1>1, <2>1, <2>2 DEF Listos
<1>2. ASSUME cur_pid \in Pids PROVE cur_pid \in Listos(t, q, D) <=> cur_pid \in A \ {q}
  <2>1. cur_pid \in A <=> m = "TICK"
    BY <1>2 DEF Candidatas, Listos
  <2>2. /\ t[cur_pid].running = IF m = "EXIT" THEN 0 ELSE 1
        /\ m = "TICK" => cur_pid \notin D
        /\ m = "BLOCK" => cur_pid \in D
        /\ m \in {"TICK", "EXIT", "BLOCK"}
    BY <1>2 DEF Preparado
  <2> QED BY <1>2, <2>1, <2>2 DEF Listos
<1>3. A \subseteq Pids /\ Listos(t, q, D) \subseteq Pids
  BY DEF Candidatas, Listos
<1> QED BY <1>1, <1>2, <1>3

LEMMA EstaTras ==
    ASSUME NEW m, NEW t, NEW D, Preparado(m, t, D), TiposSimu,
           Bien(settings.sched_class, sch, tsks, En(unblock), Pids \ En(load), cur_pid, pc),
           cur_pid \in Pids \cup {IDLE_TASK},
           NEW q, IF settings.sched_class = "SchedFCFS" /\ m = "BLOCK" THEN q = cur_pid
                  ELSE q \in Candidatas(m, cur_pid, Listos(tsks, cur_pid, En(unblock))) \cup {IDLE_TASK},
           NEW p \in Pids
    PROVE  EstaDe(p, t[p], D, Pids \ En(load), q, "vuelta", settings.sched_class)
<1> DEFINE A == Candidatas(m, cur_pid, Listos(tsks, cur_pid, En(unblock)))
           L == Pids \ En(load)
           c == settings.sched_class
<1>1. EstaDe(p, tsks[p], En(unblock), L, cur_pid, pc, c)
  BY DEF Bien
<1>2. tsks[p] \in TareasSimu /\ t[p] \in TareasSimu
  BY DEF TiposSimu, Preparado
<1>3. p # IDLE_TASK
  BY IdleAparte
<1>4. CASE p # cur_pid
  <2>1. t[p] = tsks[p] /\ (p \in D <=> p \in En(unblock))
    BY <1>4 DEF Preparado
  <2>2. p = q => p \in Listos(tsks, cur_pid, En(unblock))
    BY <1>3, <1>4 DEF Candidatas
  <2>3. p = q => tsks[p].running = 1 /\ p \notin En(unblock)
    BY <2>2 DEF Listos
  <2> QED BY <1>1, <1>4, <2>1, <2>3, SMTT(30) DEF EstaDe
<1>5. CASE p = cur_pid
  <2>1. /\ t[p].running = IF m = "EXIT" THEN 0 ELSE 1
        /\ m = "TICK" => t[p].blk = "ST_CPU" /\ t[p].blkms \in Nat /\ p \notin D
        /\ m = "EXIT" => t[p].blk = "ST_EXIT" /\ p \notin D
        /\ m = "BLOCK" /\ p \in D => t[p].blk = "ST_IO" /\ t[p].blkms = -1
        /\ m = "BLOCK" /\ p \notin D =>
             c = "SchedFCFS" /\ t[p].blk = "ST_CPU" /\ t[p].blkms = 0
        /\ m \in {"TICK", "EXIT", "BLOCK"}
    BY <1>5 DEF Preparado
  <2>2. p = q => m # "EXIT" /\ (m = "BLOCK" => c = "SchedFCFS")
    <3>1. ASSUME p = q, ~ (c = "SchedFCFS" /\ m = "BLOCK") PROVE m = "TICK"
      <4>1. p \in A
        BY <3>1, <1>3
      <4> QED BY <4>1, <1>5 DEF Candidatas, Listos
    <3> QED BY <3>1
  <2>3. c = "SchedFCFS" /\ m = "BLOCK" => p = q
    BY <1>5
  <2>4. p \in L
    BY <1>1, <1>5 DEF EstaDe
  <2>5. CASE m = "TICK"
    BY <2>1, <2>2, <2>4, <2>5 DEF EstaDe
  <2>6. CASE m = "EXIT"
    BY <2>1, <2>2, <2>4, <2>6 DEF EstaDe
  <2>7. CASE m = "BLOCK"
    BY <2>1, <2>2, <2>3, <2>4, <2>7 DEF EstaDe
  <2> QED BY <2>1, <2>5, <2>6, <2>7
<1> QED BY <1>4, <1>5

(* The answer is one of the ready tasks, the current one or nobody, and    *)
(* all is well after it; or MFQ was asked out of its vector, or Lottery    *)
(* drew no winner.                                                         *)
LEMMA Contesta ==
    ASSUME Invariante, pc \in {"vuelta", "motivo"}, NEW m, Preguntar(m),
           Preparado(m, tsks', En(unblock'))
    PROVE  \/ /\ pc' = "indefinido" /\ UNCHANGED <<cur_pid, tiempos>>
              /\ m = "BLOCK" /\ \E e \in load : e[2] < cur_pid
           \/ pc' = "abortado" /\ UNCHANGED <<cur_pid, tiempos>>
           \/ /\ pc' = "vuelta" /\ cur_time' = cur_time + 1 /\ context_remain' \in Nat
              /\ Bien(settings.sched_class, sch', tsks', En(unblock'), Pids \ En(load),
                      cur_pid', "vuelta")
              /\ cur_pid' = cur_pid \/ cur_pid' = IDLE_TASK
                   \/ cur_pid' \in Listos(tsks, cur_pid, En(unblock))
              /\ cur_pid' = IDLE_TASK /\ settings.sched_class # "SchedRR" =>
                   DOMAIN Lugares(settings.sched_class, sch') = {}
<1> DEFINE c == settings.sched_class
           B == En(unblock)
           L == Pids \ En(load)
           S == Listos(tsks, cur_pid, B)
           A == Candidatas(m, cur_pid, S)
           k == Cardinality(L)
           D == En(unblock')
<1>1. PICK sig \in Pids \cup {IDLE_TASK, INDEFINIDO, ABORTO} : sch_tick(m, sig) /\ Despachar(sig)
  BY DEF Preguntar
<1>2. /\ TiposSimu /\ c \in Clases /\ cur_pid \in Pids \cup {IDLE_TASK}
      /\ Bien(c, sch, tsks, B, L, cur_pid, pc)
  BY DEF Invariante, Turno, TiposSimu
<1>3. Objeto(c, sch, cur_pid, S, B, k) /\ cur_pid \notin S
  BY <1>2 DEF Bien, Listos
<1>4. k \in Nat
  BY SubconjuntoFinito
<1>5. m \in {"TICK", "EXIT", "BLOCK"} /\ (m # "TICK" => cur_pid \in Pids)
  BY DEF Preparado
<1>6. c # "SchedFCFS" /\ m # "TICK" => cur_pid \notin B
  BY <1>5 DEF Preparado
<1>7. D \ {cur_pid} = B \ {cur_pid} /\ D \subseteq Pids /\ B \subseteq Pids
  BY DEF Preparado, En
<1>8. IF c = "SchedFCFS" THEN D \subseteq {cur_pid} \cap Pids /\ (m = "EXIT" => D = {})
      ELSE D = IF m = "BLOCK" THEN B \cup {cur_pid} ELSE B
  <2>1. CASE c = "SchedFCFS"
    <3>1. B \subseteq {cur_pid}
      BY <1>3, <2>1 DEF Objeto, FCFSTiene
    <3>2. D \subseteq {cur_pid} \cap Pids
      BY <1>7, <3>1
    <3>3. m = "EXIT" => cur_pid \notin D
      BY <1>5 DEF Preparado
    <3> QED BY <2>1, <3>2, <3>3
  <2>2. CASE c # "SchedFCFS"
    <3>1. CASE cur_pid \in Pids
      <4>1. IF m = "BLOCK" THEN cur_pid \in D ELSE cur_pid \notin D /\ cur_pid \notin B
        BY <1>5, <2>2, <3>1 DEF Preparado
      <4> QED BY <1>7, <2>2, <4>1
    <3>2. CASE cur_pid = IDLE_TASK
      <4>1. m # "BLOCK" /\ cur_pid \notin D /\ cur_pid \notin B
        BY <1>5, <1>7, <3>2, IdleAparte
      <4> QED BY <1>7, <2>2, <4>1
    <3> QED BY <1>2, <3>1, <3>2
  <2> QED BY <2>1, <2>2
<1> HIDE DEF c, B, L, S, A, k, D
<1>9. IF c = "SchedFCFS" /\ m = "BLOCK"
      THEN sig = cur_pid /\ Objeto(c, sch', cur_pid, S, D, k)
      ELSE \/ Dada(c, sig, A, D, k) \/ Nadie(c, sig, A, D, k)
           \/ sig = INDEFINIDO /\ m = "BLOCK" /\ cur_pid + 1 \notin 1..k
           \/ sig = ABORTO
  BY <1>1, <1>2, <1>3, <1>4, <1>5, <1>6, <1>8, AlContestar DEF c, A
<1>10. IF c = "SchedFCFS" /\ m = "BLOCK" THEN sig = cur_pid /\ sig \in Pids
       ELSE sig \in A \cup {IDLE_TASK, INDEFINIDO, ABORTO}
  BY <1>5, <1>9 DEF Dada, Nadie
<1>11. A \subseteq Pids
  BY DEF A, S, Candidatas, Listos
<1>12. ASSUME sig = INDEFINIDO
       PROVE  /\ pc' = "indefinido" /\ UNCHANGED <<cur_pid, tiempos>>
              /\ m = "BLOCK" /\ \E e \in load : e[2] < cur_pid
  <2>1. pc' = "indefinido" /\ UNCHANGED <<cur_pid, tiempos>>
    <3>1. sig \in {INDEFINIDO, ABORTO} /\ sig = INDEFINIDO /\ ABORTO # INDEFINIDO
      BY <1>12, IdleAparte
    <3> QED BY <1>1, <3>1 DEF Despachar
  <2>2. m = "BLOCK" /\ cur_pid + 1 \notin 1..k
    BY <1>9, <1>10, <1>11, <1>12, IdleAparte DEF Dada, Nadie
  <2>3. cur_pid \in Pids /\ load \subseteq Nat \X Pids
    BY <1>2, <1>5, <2>2 DEF TiposSimu, Monticulo
  <2>4. cur_pid \notin En(load)
    BY <1>2, <2>3 DEF Bien, EstaDe, L
  <2>5. \E e \in load : e[2] < cur_pid
    BY <2>2, <2>3, <2>4, FueraDelVector DEF k, L
  <2> QED BY <2>1, <2>2, <2>5
<1>13. ASSUME sig \notin {INDEFINIDO, ABORTO}
       PROVE  /\ Objeto(c, sch', sig, Listos(tsks', sig, D), D, k)
              /\ \A p \in Pids : EstaDe(p, tsks'[p], D, L, sig, "vuelta", c)
  <2>1. IF c = "SchedFCFS" /\ m = "BLOCK" THEN sig = cur_pid ELSE sig \in A \cup {IDLE_TASK}
    BY <1>10, <1>13
  <2>2. \A p \in Pids : EstaDe(p, tsks'[p], D, L, sig, "vuelta", c)
    BY <1>2, <2>1, EstaTras DEF c, A, S, B, L, D
  <2>3. CASE c = "SchedFCFS" /\ m = "BLOCK"
    <3>1. sig = cur_pid /\ Objeto(c, sch', sig, S, D, k)
      BY <1>9, <2>3
    <3>2. Listos(tsks', sig, D) = S
      <4>1. ASSUME NEW p \in Pids, p # cur_pid
            PROVE  tsks'[p] = tsks[p] /\ (p \in D <=> p \in B)
        BY <4>1, <1>7 DEF Preparado
      <4> QED BY <3>1, <4>1 DEF Listos, S
    <3> QED BY <2>2, <3>1, <3>2
  <2>4. CASE ~ (c = "SchedFCFS" /\ m = "BLOCK")
    <3>1. Listos(tsks', sig, D) = A \ {sig}
      BY <1>2, <2>1, <2>4, ListosTras DEF c, A, S, B, L, D
    <3>2. CASE Dada(c, sig, A, D, k)
      BY <2>2, <3>1, <3>2 DEF Dada
    <3>3. CASE Nadie(c, sig, A, D, k)
      <4>1. A \ {sig} = A
        BY <1>11, <3>3, IdleAparte DEF Nadie
      <4> QED BY <2>2, <3>1, <3>3, <4>1 DEF Nadie
    <3> QED BY <1>9, <1>13, <2>4, <3>2, <3>3
  <2> QED BY <2>3, <2>4
<1>14. ASSUME sig \notin {INDEFINIDO, ABORTO} PROVE ~ Rechazada(sig)
  <2> SUFFICES ASSUME sig \in Pids PROVE tsks'[sig].running = 1 /\ tsks'[sig].blk # "ST_EXIT"
    BY <1>10, <1>11, <1>14 DEF Rechazada
  <2>1. EstaDe(sig, tsks'[sig], D, L, sig, "vuelta", c)
    BY <1>13, <1>14
  <2> QED BY <2>1 DEF EstaDe
<1>15. ASSUME sig \notin {INDEFINIDO, ABORTO}
       PROVE  /\ pc' = "vuelta" /\ cur_time' = cur_time + 1 /\ context_remain' \in Nat
              /\ cur_pid' = sig
  <2>1. settings.switch_cost \in Nat
    BY <1>2 DEF TiposSimu
  <2> QED BY <1>1, <1>14, <1>15, <2>1 DEF Despachar
<1>16. ASSUME sig \notin {INDEFINIDO, ABORTO}
       PROVE  Bien(c, sch', tsks', D, L, cur_pid', "vuelta")
  BY <1>13, <1>15, <1>16 DEF Bien, k
<1>17. ASSUME sig \notin {INDEFINIDO, ABORTO}
       PROVE  sig = cur_pid \/ sig = IDLE_TASK \/ sig \in S
  BY <1>10, <1>17 DEF A, Candidatas
<1>18. ASSUME sig = IDLE_TASK, c # "SchedRR"
       PROVE  DOMAIN Lugares(c, sch') = {}
  <2>1. ~ (c = "SchedFCFS" /\ m = "BLOCK") /\ sig \notin A /\ sig \notin {INDEFINIDO, ABORTO}
    BY <1>10, <1>11, <1>18, IdleAparte
  <2>2. Nadie(c, sig, A, D, k)
    BY <1>9, <2>1 DEF Dada
  <2> QED BY <1>18, <2>2 DEF Nadie
<1>19. ASSUME sig = ABORTO
       PROVE  pc' = "abortado" /\ UNCHANGED <<cur_pid, tiempos>>
  <2>1. ABORTO # INDEFINIDO
    BY IdleAparte
  <2> QED BY <1>1, <1>19, <2>1 DEF Despachar
<1> QED BY <1>12, <1>19, <1>15, <1>16, <1>17, <1>18 DEF c, S, B, L, D

(* What every action of the loop starts from. *)
LEMMA DeLaVuelta ==
    ASSUME Invariante, pc \notin {"indefinido", "abortado"}
    PROVE  /\ TiposSimu /\ settings.sched_class \in Clases /\ cur_pid \in Pids \cup {IDLE_TASK}
           /\ Bien(settings.sched_class, sch, tsks, En(unblock), Pids \ En(load), cur_pid, pc)
           /\ \A p \in Pids : /\ EstaDe(p, tsks[p], En(unblock), Pids \ En(load), cur_pid, pc,
                                        settings.sched_class)
                              /\ tsks[p] \in TareasSimu
           /\ Objeto(settings.sched_class, sch, cur_pid, Listos(tsks, cur_pid, En(unblock)),
                     En(unblock), Cardinality(Pids \ En(load)))
           /\ Cardinality(Pids \ En(load)) \in Nat
BY SubconjuntoFinito DEF Invariante, Turno, TiposSimu, Bien

(* A change in the data of one task. *)
LEMMA CambioDeTarea ==
    ASSUME NEW t, NEW u, t \in [Pids -> TareasSimu], NEW p \in Pids, u[p] \in TareasSimu,
           u \in [Pids -> TareasSimu], \A q \in Pids \ {p} : u[q] = t[q]
    PROVE  /\ p \in Terminadas(t) <=> t[p].blk = "ST_EXIT" /\ t[p].running = 0
           /\ p \in Terminadas(u) <=> u[p].blk = "ST_EXIT" /\ u[p].running = 0
           /\ (p \in Terminadas(t) <=> p \in Terminadas(u)) => Terminadas(u) = Terminadas(t)
           /\ p \in Terminadas(u) /\ p \notin Terminadas(t) =>
                Cardinality(Terminadas(u)) = Cardinality(Terminadas(t)) + 1
<1>1. \A q \in Pids \ {p} : q \in Terminadas(t) <=> q \in Terminadas(u)
  BY DEF Terminadas
<1>2. Terminadas(t) \in SUBSET Pids /\ Terminadas(u) \in SUBSET Pids
  BY DEF Terminadas
<1>3. ASSUME p \in Terminadas(u), p \notin Terminadas(t)
      PROVE  Cardinality(Terminadas(u)) = Cardinality(Terminadas(t)) + 1
  <2>1. Terminadas(u) = Terminadas(t) \cup {p}
    BY <1>1, <1>2, <1>3
  <2>2. Cardinality(Terminadas(t) \cup {p}) = Cardinality(Terminadas(t)) + 1
    BY <1>2, <1>3, UnoMas
  <2> QED BY <2>1, <2>2
<1>4. /\ p \in Terminadas(t) <=> t[p].blk = "ST_EXIT" /\ t[p].running = 0
      /\ p \in Terminadas(u) <=> u[p].blk = "ST_EXIT" /\ u[p].running = 0
  BY DEF Terminadas
<1> QED BY <1>1, <1>2, <1>3, <1>4

(* The top leaves a heap: the task that it was of is in it no more. *)
LEMMA SaleElPrimero ==
    ASSUME NEW h, Monticulo(h), h # {}
    PROVE  LET e == Primero(h) IN
           /\ e \in h /\ e[2] \in En(h) /\ e[2] \in Pids
           /\ Monticulo(h \ {e}) /\ En(h \ {e}) = En(h) \ {e[2]}
<1> DEFINE e == Primero(h)
<1>1. e \in h
  BY ElPrimero DEF Monticulo
<1> HIDE DEF e
<1>2. e[2] \in En(h) /\ e[2] \in Pids
  BY <1>1 DEF Monticulo, En
<1>3. Monticulo(h \ {e}) /\ En(h \ {e}) = En(h) \ {e[2]}
  BY <1>1 DEF Monticulo, En
<1> QED BY <1>1, <1>2, <1>3 DEF e

LEMMA AlCargar == ASSUME Invariante, Cargar PROVE Invariante'
<1> DEFINE p == Primero(load)[2]
           c == settings.sched_class
           B == En(unblock)
           L == Pids \ En(load)
<1>1. /\ pc = "vuelta" /\ load # {} /\ sch_load(p) /\ tsks' = [tsks EXCEPT ![p].running = 1]
      /\ load' = load \ {Primero(load)}
      /\ UNCHANGED <<settings, pc, cur_pid, tiempos, finished, unblock, hilos>>
  BY DEF Cargar, EnLaVuelta, Vencida
<1>2. /\ TiposSimu /\ c \in Clases
      /\ \A q \in Pids : EstaDe(q, tsks[q], B, L, cur_pid, pc, c) /\ tsks[q] \in TareasSimu
      /\ Objeto(c, sch, cur_pid, Listos(tsks, cur_pid, B), B, Cardinality(L))
      /\ Cardinality(L) \in Nat
  BY <1>1, DeLaVuelta
<1>3. /\ p \in En(load) /\ p \in Pids /\ Monticulo(load')
      /\ En(load') = En(load) \ {p}
  BY <1>1, <1>2, SaleElPrimero DEF TiposSimu
<1> HIDE DEF p
<1>4. Turno'
  <2>1. Vuelta
    BY DEF Vuelta
  <2> QED BY <2>1, TurnoDeVuelta DEF Invariante
<1>5. /\ tsks[p].running = 0 /\ tsks[p].blk = "ST_CPU" /\ p # cur_pid /\ p \notin B
      /\ tsks[p].blkms \in Nat
  BY <1>2, <1>3 DEF EstaDe
<1>6. /\ tsks' \in [Pids -> TareasSimu] /\ tsks'[p] = [tsks[p] EXCEPT !.running = 1]
      /\ \A q \in Pids \ {p} : tsks'[q] = tsks[q]
  <2>1. [tsks[p] EXCEPT !.running = 1] \in TareasSimu
    BY <1>2, <1>3 DEF TareasSimu
  <2>2. tsks \in [Pids -> TareasSimu]
    BY <1>2 DEF TiposSimu
  <2> QED BY <1>1, <1>3, <2>1, <2>2
<1>7. /\ tsks'[p] \in TareasSimu /\ tsks'[p].running = 1 /\ tsks'[p].blk = "ST_CPU"
      /\ tsks'[p].blkms \in Nat
  <2>1. tsks[p] \in TareasSimu
    BY <1>2, <1>3
  <2> QED BY <1>3, <1>5, <1>6, <2>1 DEF TareasSimu
<1>8. Terminadas(tsks') = Terminadas(tsks)
  <2>1. tsks \in [Pids -> TareasSimu]
    BY <1>2 DEF TiposSimu
  <2>2. p \notin Terminadas(tsks) /\ p \notin Terminadas(tsks')
    BY <1>5, <1>7 DEF Terminadas
  <2> QED BY <1>3, <1>6, <1>7, <2>1, <2>2, CambioDeTarea
<1>9. TiposSimu'
  <2>1. finished' = Cardinality(Terminadas(tsks'))
    BY <1>1, <1>2, <1>8 DEF TiposSimu
  <2> QED BY <1>1, <1>2, <1>3, <1>6, <2>1 DEF TiposSimu, tiempos
<1>10. Listos(tsks', cur_pid, B) = Listos(tsks, cur_pid, B) \cup {p}
       /\ p \notin Listos(tsks, cur_pid, B)
  <2>1. p \notin Listos(tsks, cur_pid, B)
    BY <1>5 DEF Listos
  <2>2. p \in Listos(tsks', cur_pid, B)
    BY <1>3, <1>5, <1>7 DEF Listos
  <2>3. \A q \in Pids \ {p} : q \in Listos(tsks', cur_pid, B) <=> q \in Listos(tsks, cur_pid, B)
    BY <1>6 DEF Listos
  <2>4. Listos(tsks', cur_pid, B) \subseteq Pids /\ Listos(tsks, cur_pid, B) \subseteq Pids
    BY DEF Listos
  <2> QED BY <1>3, <2>1, <2>2, <2>3, <2>4
<1>11. Pids \ En(load') = L \cup {p} /\ p \notin L
  BY <1>3
<1>12. Cardinality(Pids \ En(load')) = Cardinality(L) + 1
  BY <1>3, <1>11, UnoMas
<1>13. Objeto(c, sch', cur_pid, Listos(tsks', cur_pid, B), B, Cardinality(Pids \ En(load')))
  <2> HIDE DEF B, L
  <2>1. Objeto(c, sch', cur_pid, Listos(tsks, cur_pid, B) \cup {p}, B, Cardinality(L) + 1)
    BY <1>1, <1>2, <1>3, <1>10, AlLlegar DEF p
  <2> QED BY <1>10, <1>12, <2>1
<1>14. ASSUME NEW q \in Pids
       PROVE  EstaDe(q, tsks'[q], B, Pids \ En(load'), cur_pid, pc, c)
  <2>1. EstaDe(q, tsks[q], B, L, cur_pid, pc, c)
    BY <1>2
  <2>2. CASE q = p
    BY <1>3, <1>5, <1>7, <1>11, <2>2 DEF EstaDe
  <2>3. CASE q # p
    BY <1>6, <1>11, <2>1, <2>3 DEF EstaDe
  <2> QED BY <2>2, <2>3
<1>15. Bien(settings'.sched_class, sch', tsks', En(unblock'), Pids \ En(load'), cur_pid', pc')
  BY <1>1, <1>13, <1>14 DEF Bien
<1> QED BY <1>1, <1>4, <1>9, <1>15 DEF Invariante, DentroDelVector

LEMMA AlDespertar == ASSUME Invariante, Desbloquear PROVE Invariante'
<1> DEFINE p == Primero(unblock)[2]
           c == settings.sched_class
           B == En(unblock)
           L == Pids \ En(load)
<1>1. /\ pc = "vuelta" /\ unblock # {} /\ sch_unblock(p)
      /\ tsks' = IF cur_pid = p THEN [tsks EXCEPT ![p].blkms = -2]
                 ELSE [tsks EXCEPT ![p].blk = "ST_CPU", ![p].blkms = 0]
      /\ unblock' = unblock \ {Primero(unblock)}
      /\ UNCHANGED <<settings, pc, cur_pid, tiempos, finished, load, hilos>>
  BY DEF Desbloquear, EnLaVuelta, Vencida
<1>2. /\ TiposSimu /\ c \in Clases
      /\ \A q \in Pids : EstaDe(q, tsks[q], B, L, cur_pid, pc, c) /\ tsks[q] \in TareasSimu
      /\ Objeto(c, sch, cur_pid, Listos(tsks, cur_pid, B), B, Cardinality(L))
      /\ Cardinality(L) \in Nat
  BY <1>1, DeLaVuelta
<1>3. p \in B /\ p \in Pids /\ Monticulo(unblock') /\ En(unblock') = B \ {p}
  BY <1>1, <1>2, SaleElPrimero DEF TiposSimu
<1> HIDE DEF p
<1>4. Turno'
  <2>1. Vuelta
    BY DEF Vuelta
  <2> QED BY <2>1, TurnoDeVuelta DEF Invariante
<1>5. /\ tsks[p].running = 1 /\ tsks[p].blk = "ST_IO" /\ tsks[p].blkms = -1
      /\ p = cur_pid => c = "SchedFCFS"
  BY <1>2, <1>3 DEF EstaDe
<1>6. /\ tsks' \in [Pids -> TareasSimu]
      /\ tsks'[p] = IF cur_pid = p THEN [tsks[p] EXCEPT !.blkms = -2]
                    ELSE [tsks[p] EXCEPT !.blk = "ST_CPU", !.blkms = 0]
      /\ \A q \in Pids \ {p} : tsks'[q] = tsks[q]
  <2>1. /\ [tsks[p] EXCEPT !.blkms = -2] \in TareasSimu
        /\ [tsks[p] EXCEPT !.blk = "ST_CPU", !.blkms = 0] \in TareasSimu
    BY <1>2, <1>3 DEF TareasSimu
  <2>2. tsks \in [Pids -> TareasSimu]
    BY <1>2 DEF TiposSimu
  <2>3. CASE cur_pid = p
    BY <1>1, <1>3, <2>1, <2>2, <2>3
  <2>4. CASE cur_pid # p
    BY <1>1, <1>3, <2>1, <2>2, <2>4
  <2> QED BY <2>3, <2>4
<1>7. /\ tsks'[p] \in TareasSimu /\ tsks'[p].running = 1
      /\ IF cur_pid = p THEN tsks'[p].blk = "ST_IO" /\ tsks'[p].blkms = -2
         ELSE tsks'[p].blk = "ST_CPU" /\ tsks'[p].blkms = 0
  <2>1. tsks[p] \in TareasSimu
    BY <1>2, <1>3
  <2> QED BY <1>3, <1>5, <1>6, <2>1 DEF TareasSimu
<1>8. Terminadas(tsks') = Terminadas(tsks)
  <2>1. tsks \in [Pids -> TareasSimu]
    BY <1>2 DEF TiposSimu
  <2>2. p \notin Terminadas(tsks) /\ p \notin Terminadas(tsks')
    BY <1>5, <1>7 DEF Terminadas
  <2> QED BY <1>3, <1>6, <1>7, <2>1, <2>2, CambioDeTarea
<1>9. TiposSimu'
  <2>1. finished' = Cardinality(Terminadas(tsks'))
    BY <1>1, <1>2, <1>8 DEF TiposSimu
  <2> QED BY <1>1, <1>2, <1>3, <1>6, <2>1 DEF TiposSimu, tiempos
<1>10. Listos(tsks', cur_pid, B \ {p}) =
         IF c = "SchedFCFS" THEN Listos(tsks, cur_pid, B) ELSE Listos(tsks, cur_pid, B) \cup {p}
  <2>1. c = "SchedFCFS" => p = cur_pid
    BY <1>2, <1>3 DEF Objeto, FCFSTiene
  <2> QED BY <1>3, <1>5, <1>6, <1>7, <2>1 DEF Listos
<1>11. p \notin Listos(tsks, cur_pid, B)
  BY <1>3 DEF Listos
<1>12. Objeto(c, sch', cur_pid, Listos(tsks', cur_pid, B \ {p}), B \ {p}, Cardinality(L))
  <2> HIDE DEF B, L
  <2>1. Objeto(c, sch', cur_pid,
               IF c = "SchedFCFS" THEN Listos(tsks, cur_pid, B)
               ELSE Listos(tsks, cur_pid, B) \cup {p}, B \ {p}, Cardinality(L))
    BY <1>1, <1>2, <1>3, <1>11, AlDesbloquear DEF p
  <2> QED BY <1>10, <2>1
<1>13. ASSUME NEW q \in Pids
       PROVE  EstaDe(q, tsks'[q], B \ {p}, L, cur_pid, pc, c)
  <2>1. EstaDe(q, tsks[q], B, L, cur_pid, pc, c)
    BY <1>2
  <2>2. CASE q = p
    BY <1>1, <1>3, <1>5, <1>7, <2>1, <2>2 DEF EstaDe
  <2>3. CASE q # p
    BY <1>6, <2>1, <2>3 DEF EstaDe
  <2> QED BY <2>2, <2>3
<1>14. Bien(settings'.sched_class, sch', tsks', En(unblock'), Pids \ En(load'), cur_pid', pc')
  BY <1>1, <1>3, <1>12, <1>13 DEF Bien
<1> QED BY <1>1, <1>4, <1>9, <1>14 DEF Invariante, DentroDelVector

(* After the scheduler is asked. *)
LEMMA Sigue ==
    ASSUME Invariante, pc \in {"vuelta", "motivo"}, Vuelta, NEW m, Preguntar(m),
           Preparado(m, tsks', En(unblock')), UNCHANGED <<settings, load>>,
           Monticulo(unblock'), finished' = Cardinality(Terminadas(tsks'))
    PROVE  Invariante'
<1>1. Turno' /\ TiposSimu
  BY TurnoDeVuelta DEF Invariante
<1>2. tsks' \in [Pids -> TareasSimu]
  BY DEF Preparado
<1>3. CASE /\ pc' = "indefinido" /\ UNCHANGED <<cur_pid, tiempos>>
           /\ \E e \in load : e[2] < cur_pid
  <2>1. TiposSimu'
    BY <1>1, <1>2, <1>3 DEF TiposSimu, tiempos
  <2> QED BY <1>1, <1>3, <2>1 DEF Invariante, DentroDelVector
<1>4. CASE /\ pc' = "vuelta" /\ cur_time' = cur_time + 1 /\ context_remain' \in Nat
           /\ Bien(settings.sched_class, sch', tsks', En(unblock'), Pids \ En(load), cur_pid',
                   "vuelta")
  <2>1. TiposSimu'
    BY <1>1, <1>2, <1>4 DEF TiposSimu
  <2> QED BY <1>1, <1>4, <2>1 DEF Invariante, DentroDelVector
<1>5. CASE pc' = "abortado" /\ UNCHANGED <<cur_pid, tiempos>>
  <2>1. TiposSimu'
    BY <1>1, <1>2, <1>5 DEF TiposSimu, tiempos
  <2> QED BY <1>1, <1>5, <2>1 DEF Invariante, DentroDelVector
<1> QED BY <1>3, <1>4, <1>5, Contesta

(* Where the simulator asks. *)
LEMMA DondePregunta ==
    ASSUME Invariante, NEW b, EnMotivo(b)
    PROVE  /\ pc \in {"vuelta", "motivo"} /\ cur_pid \in Pids /\ tsks[cur_pid].blk = b
           /\ tsks[cur_pid] \in TareasSimu /\ tsks \in [Pids -> TareasSimu]
           /\ TiposSimu
           /\ EstaDe(cur_pid, tsks[cur_pid], En(unblock), Pids \ En(load), cur_pid, pc,
                     settings.sched_class)
<1>1. pc \in {"vuelta", "motivo"} /\ tsks[cur_pid].blk = b
  BY DEF EnMotivo, AlDia, EnLaVuelta
<1>2. cur_pid \in Pids
  BY <1>1 DEF EnMotivo, Invariante, Turno
<1>3. /\ TiposSimu
      /\ EstaDe(cur_pid, tsks[cur_pid], En(unblock), Pids \ En(load), cur_pid, pc,
                settings.sched_class)
  BY <1>1, <1>2, DeLaVuelta
<1> QED BY <1>1, <1>2, <1>3 DEF TiposSimu

LEMMA AntesDelOcioso ==
    ASSUME Invariante, TickOcioso
    PROVE  /\ pc = "vuelta" /\ Preguntar("TICK") /\ Preparado("TICK", tsks', En(unblock'))
           /\ Terminadas(tsks') = Terminadas(tsks) /\ Monticulo(unblock')
           /\ UNCHANGED <<settings, load, finished>>
<1>1. /\ pc = "vuelta" /\ cur_pid = IDLE_TASK /\ Preguntar("TICK")
      /\ UNCHANGED <<tsks, settings, finished, load, unblock>>
  BY DEF TickOcioso, AlDia, EnLaVuelta
<1>2. tsks \in [Pids -> TareasSimu] /\ Monticulo(unblock)
  BY DEF Invariante, TiposSimu
<1>3. Preparado("TICK", tsks, En(unblock))
  BY <1>1, <1>2, IdleAparte DEF Preparado, En
<1> QED BY <1>1, <1>2, <1>3

(* The current task only. *)
LEMMA SoloLaActual ==
    ASSUME tsks \in [Pids -> TareasSimu], cur_pid \in Pids, NEW d \in TareasSimu,
           tsks' = [tsks EXCEPT ![cur_pid] = d]
    PROVE  /\ tsks' \in [Pids -> TareasSimu] /\ tsks'[cur_pid] = d
           /\ \A p \in Pids \ {cur_pid} : tsks'[p] = tsks[p]
OBVIOUS

LEMMA AntesDeTerminar ==
    ASSUME Invariante, Terminar
    PROVE  /\ pc \in {"vuelta", "motivo"} /\ Preguntar("EXIT")
           /\ Preparado("EXIT", tsks', En(unblock'))
           /\ finished' = Cardinality(Terminadas(tsks')) /\ Monticulo(unblock')
           /\ UNCHANGED <<settings, load>>
<1> DEFINE d == [tsks[cur_pid] EXCEPT !.running = 0]
<1>1. /\ EnMotivo("ST_EXIT") /\ finished' = finished + 1 /\ Preguntar("EXIT")
      /\ tsks' = [tsks EXCEPT ![cur_pid].running = 0]
      /\ UNCHANGED <<settings, load, unblock>>
  BY DEF Terminar
<1>2. /\ pc \in {"vuelta", "motivo"} /\ cur_pid \in Pids /\ tsks[cur_pid].blk = "ST_EXIT"
      /\ tsks[cur_pid] \in TareasSimu /\ tsks \in [Pids -> TareasSimu] /\ TiposSimu
      /\ EstaDe(cur_pid, tsks[cur_pid], En(unblock), Pids \ En(load), cur_pid, pc,
                settings.sched_class)
  BY <1>1, DondePregunta
<1>3. cur_pid \notin En(unblock) /\ tsks[cur_pid].running = 1
  BY <1>2 DEF EstaDe
<1>4. d \in TareasSimu /\ d.running = 0 /\ d.blk = "ST_EXIT"
  BY <1>2 DEF TareasSimu
<1>5. tsks' = [tsks EXCEPT ![cur_pid] = d]
  BY <1>1, <1>2
<1> HIDE DEF d
<1>6. /\ tsks' \in [Pids -> TareasSimu] /\ tsks'[cur_pid] = d
      /\ \A p \in Pids \ {cur_pid} : tsks'[p] = tsks[p]
  BY <1>2, <1>4, <1>5, SoloLaActual
<1>7. Cardinality(Terminadas(tsks')) = Cardinality(Terminadas(tsks)) + 1
  <2>1. cur_pid \notin Terminadas(tsks) /\ cur_pid \in Terminadas(tsks')
    BY <1>2, <1>3, <1>4, <1>6 DEF Terminadas
  <2> QED BY <1>2, <1>4, <1>6, <2>1, CambioDeTarea
<1>8. finished = Cardinality(Terminadas(tsks)) /\ Monticulo(unblock)
  BY <1>2 DEF TiposSimu
<1>9. Preparado("EXIT", tsks', En(unblock))
  BY <1>2, <1>3, <1>4, <1>6 DEF Preparado, En
<1> QED BY <1>1, <1>2, <1>7, <1>8, <1>9

LEMMA AntesDeGastar ==
    ASSUME Invariante, Gastar
    PROVE  /\ pc \in {"vuelta", "motivo"} /\ Preguntar("TICK")
           /\ Preparado("TICK", tsks', En(unblock'))
           /\ Terminadas(tsks') = Terminadas(tsks) /\ Monticulo(unblock')
           /\ UNCHANGED <<settings, load, finished>>
<1> DEFINE d == [tsks[cur_pid] EXCEPT !.blkms = IF @ > 0 THEN @ - 1 ELSE @]
<1>1. /\ EnMotivo("ST_CPU") /\ Preguntar("TICK")
      /\ tsks' = [tsks EXCEPT ![cur_pid].blkms = IF @ > 0 THEN @ - 1 ELSE @]
      /\ UNCHANGED <<settings, load, unblock, finished>>
  BY DEF Gastar
<1>2. /\ pc \in {"vuelta", "motivo"} /\ cur_pid \in Pids /\ tsks[cur_pid].blk = "ST_CPU"
      /\ tsks[cur_pid] \in TareasSimu /\ tsks \in [Pids -> TareasSimu] /\ TiposSimu
      /\ EstaDe(cur_pid, tsks[cur_pid], En(unblock), Pids \ En(load), cur_pid, pc,
                settings.sched_class)
  BY <1>1, DondePregunta
<1>3. cur_pid \notin En(unblock) /\ tsks[cur_pid].running = 1 /\ tsks[cur_pid].blkms \in Nat
  BY <1>2 DEF EstaDe
<1>4. d \in TareasSimu /\ d.running = 1 /\ d.blk = "ST_CPU" /\ d.blkms \in Nat
  <2> DEFINE ms == tsks[cur_pid].blkms
             r == IF ms > 0 THEN ms - 1 ELSE ms
  <2>1. r \in Nat /\ r \in Nat \cup {-1, -2}
    BY <1>3
  <2>2. d = [tsks[cur_pid] EXCEPT !.blkms = r]
    OBVIOUS
  <2> HIDE DEF r, d
  <2> QED BY <1>2, <1>3, <2>1, <2>2 DEF TareasSimu
<1>5. tsks' = [tsks EXCEPT ![cur_pid] = d]
  BY <1>1, <1>2
<1> HIDE DEF d
<1>6. /\ tsks' \in [Pids -> TareasSimu] /\ tsks'[cur_pid] = d
      /\ \A p \in Pids \ {cur_pid} : tsks'[p] = tsks[p]
  BY <1>2, <1>4, <1>5, SoloLaActual
<1>7. Terminadas(tsks') = Terminadas(tsks)
  <2>1. cur_pid \notin Terminadas(tsks) /\ cur_pid \notin Terminadas(tsks')
    BY <1>2, <1>4, <1>6 DEF Terminadas
  <2> QED BY <1>2, <1>4, <1>6, <2>1, CambioDeTarea
<1>8. Monticulo(unblock)
  BY <1>2 DEF TiposSimu
<1>9. Preparado("TICK", tsks', En(unblock))
  BY <1>2, <1>3, <1>4, <1>6 DEF Preparado, En
<1> QED BY <1>1, <1>2, <1>7, <1>8, <1>9

LEMMA AntesDeBloquear ==
    ASSUME Invariante, Bloquear
    PROVE  /\ pc \in {"vuelta", "motivo"} /\ Preguntar("BLOCK")
           /\ Preparado("BLOCK", tsks', En(unblock'))
           /\ Terminadas(tsks') = Terminadas(tsks) /\ Monticulo(unblock')
           /\ UNCHANGED <<settings, load, finished>>
<1> DEFINE ms == tsks[cur_pid].blkms
           e == <<cur_time + ms, cur_pid>>
           B == En(unblock)
           d == IF ms = -2 THEN [tsks[cur_pid] EXCEPT !.blk = "ST_CPU", !.blkms = 0]
                ELSE [tsks[cur_pid] EXCEPT !.blkms = -1]
<1>1. /\ EnMotivo("ST_IO") /\ Preguntar("BLOCK")
      /\ unblock' = IF ms >= 0 THEN unblock \cup {e} ELSE unblock
      /\ tsks' = IF ms = -2 THEN [tsks EXCEPT ![cur_pid].blk = "ST_CPU", ![cur_pid].blkms = 0]
                 ELSE [tsks EXCEPT ![cur_pid].blkms = -1]
      /\ UNCHANGED <<settings, load, finished>>
  BY DEF Bloquear
<1>2. /\ pc \in {"vuelta", "motivo"} /\ cur_pid \in Pids /\ tsks[cur_pid].blk = "ST_IO"
      /\ tsks[cur_pid] \in TareasSimu /\ tsks \in [Pids -> TareasSimu] /\ TiposSimu
      /\ EstaDe(cur_pid, tsks[cur_pid], B, Pids \ En(load), cur_pid, pc,
                settings.sched_class)
  BY <1>1, DondePregunta
<1>3. /\ tsks[cur_pid].running = 1
      /\ cur_pid \in B => ms = -1 /\ settings.sched_class = "SchedFCFS"
      /\ cur_pid \notin B => ms \in Nat \/ (ms = -2 /\ settings.sched_class = "SchedFCFS")
  BY <1>2 DEF EstaDe
<1>4. ms \in Nat \cup {-1, -2}
  BY <1>2 DEF TareasSimu
<1>5. /\ d \in TareasSimu /\ d.running = 1
      /\ IF ms = -2 THEN d.blk = "ST_CPU" /\ d.blkms = 0 ELSE d.blk = "ST_IO" /\ d.blkms = -1
  BY <1>2, <1>3 DEF TareasSimu
<1>6. tsks' = [tsks EXCEPT ![cur_pid] = d]
  <2>1. CASE ms = -2
    BY <1>1, <1>2, <2>1
  <2>2. CASE ms # -2
    BY <1>1, <1>2, <2>2
  <2> QED BY <2>1, <2>2
<1> HIDE DEF d
<1>7. /\ tsks' \in [Pids -> TareasSimu] /\ tsks'[cur_pid] = d
      /\ \A p \in Pids \ {cur_pid} : tsks'[p] = tsks[p]
  BY <1>2, <1>5, <1>6, SoloLaActual
<1>8. Terminadas(tsks') = Terminadas(tsks)
  <2>1. cur_pid \notin Terminadas(tsks) /\ cur_pid \notin Terminadas(tsks')
    BY <1>2, <1>5, <1>7 DEF Terminadas
  <2> QED BY <1>2, <1>5, <1>7, <2>1, CambioDeTarea
<1>9. Monticulo(unblock) /\ cur_time \in Nat
  BY <1>2 DEF TiposSimu
<1>10. /\ Monticulo(unblock') /\ En(unblock') \ {cur_pid} = B \ {cur_pid}
       /\ En(unblock') \subseteq Pids /\ (cur_pid \in En(unblock') <=> ms # -2)
  <2>1. CASE cur_pid \in B
    BY <1>1, <1>3, <1>9, <2>1 DEF En
  <2>2. CASE cur_pid \notin B /\ ms = -2
    BY <1>1, <1>9, <2>2 DEF En
  <2>3. CASE cur_pid \notin B /\ ms \in Nat
    <3>1. unblock' = unblock \cup {e} /\ cur_time + ms \in Nat
      BY <1>1, <1>9, <2>3
    <3>2. e \in Nat \X Pids /\ e[2] = cur_pid
      BY <1>2, <3>1
    <3> HIDE DEF e
    <3>3. \A f \in unblock : f[2] # cur_pid
      BY <1>2, <2>3 DEF En
    <3>4. Monticulo(unblock')
      BY <1>9, <3>1, <3>2, <3>3 DEF Monticulo
    <3>5. En(unblock') = B \cup {cur_pid}
      BY <1>2, <3>1, <3>2 DEF En
    <3> QED BY <2>3, <3>4, <3>5 DEF En
  <2> QED BY <1>3, <2>1, <2>2, <2>3
<1>11. Preparado("BLOCK", tsks', En(unblock'))
  <2>1. settings.sched_class # "SchedFCFS" => cur_pid \notin B
    BY <1>3
  <2>2. cur_pid \notin En(unblock') => ms = -2 /\ settings.sched_class = "SchedFCFS"
    BY <1>3, <1>10
  <2>3. cur_pid \in En(unblock') => ms # -2
    BY <1>10
  <2> HIDE DEF B, ms
  <2> QED BY <1>2, <1>5, <1>7, <1>10, <2>1, <2>2, <2>3 DEF Preparado, B
<1> QED BY <1>1, <1>2, <1>8, <1>10, <1>11

LEMMA AlEmpezar == Init => Invariante
<1> SUFFICES ASSUME Init PROVE Invariante
  OBVIOUS
<1>1. PICK pd \in Pedidos, c \in SwitchCosts :
        /\ settings = [sched_class |-> pd.sched_class, switch_cost |-> c]
        /\ sch \in sched_create(pd)
  BY DEF Init
<1>2. PICK lote \in Lotes :
        /\ tsks \in {[p \in Pids |-> [running |-> 0, blk |-> "ST_CPU", blkms |-> 0,
                                      usos |-> u[p]]] :
                        u \in {u \in [Pids -> UNION {Usos(lote[p + 1]) : p \in Pids}] :
                                  \A p \in Pids : u[p] \in Usos(lote[p + 1])}}
        /\ load = {<<lote[p + 1].start, p>> : p \in Pids}
  BY DEF Init
<1>3. PICK u : /\ \A p \in Pids : u[p] \in Usos(lote[p + 1])
               /\ tsks = [p \in Pids |-> [running |-> 0, blk |-> "ST_CPU", blkms |-> 0,
                                          usos |-> u[p]]]
  BY <1>2
<1>4. \A p \in Pids : /\ lote[p + 1].start \in Nat
                      /\ u[p] \in Seq([blk : {"ST_CPU", "ST_IO"}, ms : Nat])
  BY <1>3, LotesAssumption
<1>5. Turno /\ pc = "vuelta" /\ cur_pid = IDLE_TASK /\ unblock = {}
      /\ cur_time = 0 /\ context_remain = 0 /\ finished = 0
  BY TurnoInicial DEF Init
<1>6. /\ \A p \in Pids : tsks[p].running = 0 /\ tsks[p].blk = "ST_CPU" /\ tsks[p].blkms = 0
      /\ tsks \in [Pids -> TareasSimu]
  BY <1>3, <1>4 DEF TareasSimu
<1>7. Monticulo(load) /\ En(load) = Pids /\ Monticulo(unblock) /\ En(unblock) = {}
  <2>1. load \subseteq Nat \X Pids
    BY <1>2, <1>4
  <2>2. \A e, f \in load : e[2] = f[2] => e = f
    BY <1>2
  <2>3. \A p \in Pids : <<lote[p + 1].start, p>> \in load
    BY <1>2
  <2>4. Pids \subseteq En(load)
    BY <2>3 DEF En
  <2> QED BY <1>5, <2>1, <2>2, <2>4 DEF Monticulo, En
<1>8. /\ settings.sched_class \in Clases /\ settings.switch_cost \in Nat
      /\ Objeto(settings.sched_class, sch, IDLE_TASK, {}, {}, 0)
  <2>1. settings.sched_class = pd.sched_class /\ settings.switch_cost = c
    BY <1>1
  <2> QED BY <1>1, <2>1, AlCrear, SwitchCostsAssumption
<1>9. Terminadas(tsks) = {} /\ Listos(tsks, IDLE_TASK, {}) = {} /\ Cardinality({}) = 0
  BY <1>6, FS_EmptySet DEF Terminadas, Listos
<1>10. TiposSimu
  BY <1>5, <1>6, <1>7, <1>8, <1>9 DEF TiposSimu
<1>11. Pids \ En(load) = {}
  BY <1>7
<1>12. ASSUME NEW p \in Pids
       PROVE  EstaDe(p, tsks[p], {}, {}, IDLE_TASK, "vuelta", settings.sched_class)
  BY <1>6, IdleAparte DEF EstaDe
<1>13. Bien(settings.sched_class, sch, tsks, {}, {}, IDLE_TASK, "vuelta")
  BY <1>8, <1>9, <1>12 DEF Bien
<1> QED BY <1>5, <1>7, <1>10, <1>11, <1>13 DEF Invariante, DentroDelVector

(* Only where the simulator is changes. *)
LEMMA OtroLugar ==
    ASSUME Invariante, pc \notin {"indefinido", "abortado"}, Turno', pc' \in {"vuelta", "espera", "motivo", "fin"},
           cur_time' \in Nat, context_remain' \in Nat,
           UNCHANGED <<settings, sch, tsks, cur_pid, finished, load, unblock>>,
           \/ pc \in {"espera", "motivo"} <=> pc' \in {"espera", "motivo"}
           \/ pc' = "espera" /\ cur_pid \in Pids /\ tsks[cur_pid].blk = "ST_CPU"
    PROVE  Invariante'
<1> DEFINE c == settings.sched_class
           B == En(unblock)
           L == Pids \ En(load)
<1>1. /\ TiposSimu
      /\ \A p \in Pids : EstaDe(p, tsks[p], B, L, cur_pid, pc, c)
      /\ Objeto(c, sch, cur_pid, Listos(tsks, cur_pid, B), B, Cardinality(L))
  BY DeLaVuelta
<1>2. ASSUME NEW p \in Pids PROVE EstaDe(p, tsks[p], B, L, cur_pid, pc', c)
  <2>1. EstaDe(p, tsks[p], B, L, cur_pid, pc, c)
    BY <1>1
  <2> HIDE DEF c, B, L
  <2> QED BY <2>1 DEF EstaDe
<1>3. Bien(c, sch, tsks, B, L, cur_pid, pc')
  BY <1>1, <1>2 DEF Bien
<1>4. TiposSimu'
  BY <1>1 DEF TiposSimu
<1> QED BY <1>3, <1>4 DEF Invariante, DentroDelVector

LEMMA DeVuelta == ASSUME Invariante, Vuelta PROVE Invariante'
<1>1. Turno' /\ TiposSimu
  BY TurnoDeVuelta DEF Invariante
<1>2. CASE Cargar
  BY <1>2, AlCargar
<1>3. CASE Desbloquear
  BY <1>3, AlDespertar
<1>4. CASE Contexto
  <2>1. /\ pc = "vuelta" /\ cur_time' = cur_time + 1 /\ context_remain' = context_remain - 1
        /\ context_remain > 0
        /\ UNCHANGED <<settings, sch, tsks, pc, cur_pid, finished, load, unblock>>
    BY <1>4 DEF Contexto, AlDia, EnLaVuelta
  <2>2. cur_time' \in Nat /\ context_remain' \in Nat
    BY <1>1, <2>1 DEF TiposSimu
  <2> QED BY <1>1, <2>1, <2>2, OtroLugar
<1>5. CASE TickOcioso
  <2>1. /\ pc = "vuelta" /\ Preguntar("TICK") /\ Preparado("TICK", tsks', En(unblock'))
        /\ finished' = Cardinality(Terminadas(tsks')) /\ Monticulo(unblock')
        /\ UNCHANGED <<settings, load>>
    BY <1>1, <1>5, AntesDelOcioso DEF TiposSimu
  <2> QED BY <2>1, Sigue
<1>6. CASE Reanudar
  <2>1. /\ pc = "vuelta" /\ pc' = "espera" /\ cur_pid # IDLE_TASK
        /\ tsks[cur_pid].blk = "ST_CPU"
        /\ UNCHANGED <<settings, sch, tsks, tiempos, cur_pid, finished, load, unblock>>
    BY <1>6 DEF Reanudar, AlDia, EnLaVuelta, Agotada
  <2>2. cur_pid \in Pids
    BY <2>1 DEF Invariante, Turno
  <2>3. cur_time' \in Nat /\ context_remain' \in Nat
    BY <1>1, <2>1 DEF TiposSimu, tiempos
  <2> QED BY <1>1, <2>1, <2>2, <2>3, OtroLugar
<1>7. CASE Retomar
  <2>1. /\ pc = "espera" /\ pc' = "motivo"
        /\ UNCHANGED <<settings, sch, tsks, tiempos, cur_pid, finished, load, unblock>>
    BY <1>7 DEF Retomar
  <2>2. cur_time' \in Nat /\ context_remain' \in Nat
    BY <1>1, <2>1 DEF TiposSimu, tiempos
  <2> QED BY <1>1, <2>1, <2>2, OtroLugar
<1>8. CASE Terminar
  BY <1>8, AntesDeTerminar, Sigue
<1>9. CASE Bloquear
  <2>1. /\ pc \in {"vuelta", "motivo"} /\ Preguntar("BLOCK")
        /\ Preparado("BLOCK", tsks', En(unblock'))
        /\ finished' = Cardinality(Terminadas(tsks')) /\ Monticulo(unblock')
        /\ UNCHANGED <<settings, load>>
    BY <1>1, <1>9, AntesDeBloquear DEF TiposSimu
  <2> QED BY <2>1, Sigue
<1>10. CASE Gastar
  <2>1. /\ pc \in {"vuelta", "motivo"} /\ Preguntar("TICK")
        /\ Preparado("TICK", tsks', En(unblock'))
        /\ finished' = Cardinality(Terminadas(tsks')) /\ Monticulo(unblock')
        /\ UNCHANGED <<settings, load>>
    BY <1>1, <1>10, AntesDeGastar DEF TiposSimu
  <2> QED BY <2>1, Sigue
<1>11. CASE Fin
  <2>1. /\ pc = "vuelta" /\ pc' = "fin"
        /\ UNCHANGED <<settings, sch, tsks, tiempos, cur_pid, finished, load, unblock>>
    BY <1>11 DEF Fin
  <2>2. cur_time' \in Nat /\ context_remain' \in Nat
    BY <1>1, <2>1 DEF TiposSimu, tiempos
  <2> QED BY <1>1, <2>1, <2>2, OtroLugar
<1> QED BY <1>2, <1>3, <1>4, <1>5, <1>6, <1>7, <1>8, <1>9, <1>10, <1>11 DEF Vuelta

(* The task that runs writes its next use, in its own data. *)
LEMMA LoQueEscribe ==
    ASSUME Invariante, NEW p \in Pids, Correr(p)
    PROVE  \E d \in TareasSimu :
             /\ pc = "espera" /\ cur_pid = p /\ tsks' = [tsks EXCEPT ![p] = d]
             /\ d.running = tsks[p].running
             /\ d.blk = "ST_EXIT" \/ d.blkms \in Nat
<1>1. hilo[p] = "corre" /\ tsks \in [Pids -> TareasSimu]
  BY DEF Correr, Invariante, TiposSimu
<1>2. pc = "espera" /\ cur_pid = p
  BY <1>1 DEF Invariante, Turno, Quietos
<1>3. tsks[p] \in TareasSimu
  BY <1>1
<1>4. CASE /\ tsks[p].usos # <<>>
           /\ tsks' = [[tsks EXCEPT ![cur_pid].blk = Head(tsks[p].usos).blk,
                                    ![cur_pid].blkms = Head(tsks[p].usos).ms]
                          EXCEPT ![p].usos = Tail(@)]
  <2> DEFINE T == [blk : {"ST_CPU", "ST_IO"}, ms : Nat]
             w == tsks[p].usos
             d == [tsks[p] EXCEPT !.blk = Head(w).blk, !.blkms = Head(w).ms, !.usos = Tail(w)]
  <2>1. w \in Seq(T) /\ w # <<>>
    BY <1>3, <1>4 DEF TareasSimu
  <2>2. Head(w) \in T /\ Tail(w) \in Seq(T)
    <3> HIDE DEF T, w
    <3> QED BY <2>1, Indices, ElResto
  <2>3. d \in TareasSimu /\ d.running = tsks[p].running /\ d.blkms \in Nat
    <3> HIDE DEF w
    <3>1. Head(w).blk \in {"ST_CPU", "ST_IO"} /\ Head(w).ms \in Nat
      BY <2>2
    <3> QED BY <1>3, <2>2, <3>1 DEF TareasSimu
  <2>4. tsks' = [tsks EXCEPT ![p] = d]
    BY <1>1, <1>2, <1>3, <1>4
  <2> HIDE DEF d
  <2> QED BY <1>2, <2>3, <2>4
<1>5. CASE tsks' = [tsks EXCEPT ![p].blk = "ST_EXIT"]
  <2> DEFINE d == [tsks[p] EXCEPT !.blk = "ST_EXIT"]
  <2>1. d \in TareasSimu /\ d.running = tsks[p].running /\ d.blk = "ST_EXIT"
    BY <1>3 DEF TareasSimu
  <2>2. tsks' = [tsks EXCEPT ![p] = d]
    BY <1>1, <1>5
  <2> HIDE DEF d
  <2> QED BY <1>2, <2>1, <2>2
<1> QED BY <1>4, <1>5, Zenon DEF Correr

LEMMA AlCorrer == ASSUME Invariante, NEW p \in Pids, Correr(p) PROVE Invariante'
<1> DEFINE c == settings.sched_class
           B == En(unblock)
           L == Pids \ En(load)
<1>1. PICK d \in TareasSimu :
        /\ pc = "espera" /\ cur_pid = p /\ tsks' = [tsks EXCEPT ![p] = d]
        /\ d.running = tsks[p].running
        /\ d.blk = "ST_EXIT" \/ d.blkms \in Nat
  BY LoQueEscribe, SMTT(30)
<1>2. UNCHANGED <<settings, sch, pc, cur_pid, tiempos, finished, load, unblock>>
  BY DEF Correr
<1>3. Turno'
  <2>1. Tarea(p)
    BY DEF Tarea
  <2> QED BY <2>1, TurnoDeTarea DEF Invariante
<1>4. /\ TiposSimu
      /\ \A q \in Pids : EstaDe(q, tsks[q], B, L, cur_pid, pc, c)
      /\ Objeto(c, sch, cur_pid, Listos(tsks, cur_pid, B), B, Cardinality(L))
  BY <1>1, DeLaVuelta
<1>5. tsks \in [Pids -> TareasSimu]
  BY <1>4 DEF TiposSimu
<1>6. /\ tsks' \in [Pids -> TareasSimu] /\ tsks'[p] = d
      /\ \A q \in Pids \ {p} : tsks'[q] = tsks[q]
  BY <1>1, <1>5, SoloLaActual
<1>7. tsks[p].running = 1 /\ p \notin B /\ p \in L
  BY <1>1, <1>4 DEF EstaDe
<1>8. Terminadas(tsks') = Terminadas(tsks)
  <2>1. p \notin Terminadas(tsks) /\ p \notin Terminadas(tsks')
    BY <1>1, <1>6, <1>7 DEF Terminadas
  <2> QED BY <1>5, <1>6, <2>1, CambioDeTarea
<1>9. TiposSimu'
  BY <1>2, <1>4, <1>6, <1>8 DEF TiposSimu, tiempos
<1>10. Listos(tsks', cur_pid, B) = Listos(tsks, cur_pid, B)
  BY <1>1, <1>6 DEF Listos
<1>11. ASSUME NEW q \in Pids PROVE EstaDe(q, tsks'[q], B, L, cur_pid, pc, c)
  <2>1. EstaDe(q, tsks[q], B, L, cur_pid, pc, c)
    BY <1>4
  <2>2. CASE q = p
    <3> HIDE DEF B, L, c
    <3> QED BY <1>1, <1>6, <1>7, <2>2 DEF EstaDe
  <2>3. CASE q # p
    BY <1>6, <2>1, <2>3
  <2> QED BY <2>2, <2>3
<1>12. Bien(c, sch, tsks', B, L, cur_pid, pc)
  BY <1>4, <1>10, <1>11 DEF Bien
<1> QED BY <1>1, <1>2, <1>3, <1>9, <1>12 DEF Invariante, DentroDelVector

LEMMA DeTarea == ASSUME Invariante, NEW p \in Pids, Tarea(p) PROVE Invariante'
<1>1. CASE Correr(p)
  BY <1>1, AlCorrer
<1>2. CASE TomarTurno(p) \/ DarTurno(p)
  <2>1. Turno'
    BY TurnoDeTarea DEF Invariante
  <2>2. UNCHANGED <<settings, sch, tsks, pc, cur_pid, tiempos, finished, load, unblock>>
    BY <1>2 DEF TomarTurno, DarTurno
  <2> QED BY <2>1, <2>2 DEF Invariante, TiposSimu, DentroDelVector, tiempos
<1> QED BY <1>1, <1>2 DEF Tarea

LEMMA SinCambios == ASSUME Invariante, UNCHANGED vars PROVE Invariante'
BY DEF Invariante, Turno, Quietos, TiposSimu, DentroDelVector, vars, hilos, tiempos

THEOREM InvarianteDelSimulador == SafeSpec => []Invariante
<1>1. Invariante /\ [Next]_vars => Invariante'
  BY DeVuelta, DeTarea, SinCambios DEF Next, Acabada
<1> QED BY <1>1, AlEmpezar, PTL DEF SafeSpec

-----------------------------------------------------------------------------
(* What the invariant gives.                                               *)

(* The types, and that finished counts the tasks that ended.               *)
THEOREM TiposDelSimulador == SafeSpec => []TypeOK
<1>1. Invariante => TypeOK
  <2> SUFFICES ASSUME Invariante PROVE TypeOK
    OBVIOUS
  <2>1. Turno /\ TiposSimu
    BY DEF Invariante
  <2>2. \A p \in Pids : tsks[p] \in TareasSimu
    BY <2>1 DEF TiposSimu
  <2>3. \A p \in Pids : /\ tsks[p].running \in {0, 1}
                        /\ tsks[p].blk \in {"ST_EXIT", "ST_IO", "ST_CPU"}
                        /\ tsks[p].blkms \in Nat \cup {-1, -2}
    BY <2>2 DEF TareasSimu
  <2> QED BY <2>1, <2>3 DEF TypeOK, Cortes, Turno, TiposSimu, Monticulo, Terminadas
<1> QED BY <1>1, InvarianteDelSimulador, PTL

(* The simulator never stops on an answer that it rejects.                 *)
THEOREM SinRechazos == SafeSpec => [](pc # "error")
<1>1. Invariante => pc # "error"
  BY DEF Invariante
<1> QED BY <1>1, InvarianteDelSimulador, PTL

(* MFQ reads and writes inside its vector unless a task with a lower pid   *)
(* is yet to arrive.                                                       *)
THEOREM VectorDeMFQ == SafeSpec => []DentroDelVector
<1>1. Invariante => DentroDelVector
  BY DEF Invariante
<1> QED BY <1>1, InvarianteDelSimulador, PTL

(* A task that arrived and has not ended is in one place, once; the others *)
(* are nowhere.                                                            *)
THEOREM CadaUnaEnSuLugar == SafeSpec => []EnUnSoloLugar
<1>1. ASSUME Invariante PROVE EnUnSoloLugar
  <2> SUFFICES ASSUME pc \notin Cortes, NEW p \in Pids
               PROVE  Cardinality({i \in DOMAIN listas : listas[i] = p})
                        + (IF cur_pid = p THEN 1 ELSE 0)
                        + (IF EnIO(p) /\ cur_pid # p THEN 1 ELSE 0) = tsks[p].running
    BY DEF EnUnSoloLugar
  <2> DEFINE B == En(unblock)
             S == Listos(tsks, cur_pid, B)
             places == {i \in DOMAIN listas : listas[i] = p}
  <2>1. /\ settings.sched_class \in Clases
        /\ EstaDe(p, tsks[p], B, Pids \ En(load), cur_pid, pc, settings.sched_class)
        /\ tsks[p] \in TareasSimu
        /\ Objeto(settings.sched_class, sch, cur_pid, S, B, Cardinality(Pids \ En(load)))
    BY <1>1, DeLaVuelta DEF Cortes
  <2>2. Fila(listas, S)
    <3> HIDE DEF S, B
    <3>1. Fila(Lugares(settings.sched_class, sch), S)
      BY <2>1, LasEncoladas
    <3> QED BY <2>1, <3>1, LasListas
  <2>3. Cardinality(places) = IF p \in S THEN 1 ELSE 0
    <3> HIDE DEF S
    <3>1. CASE p \in S
      <4>1. PICK i \in DOMAIN listas : listas[i] = p
        BY <2>2, <3>1 DEF Fila
      <4>2. places = {i}
        BY <2>2, <4>1 DEF Fila
      <4> QED BY <3>1, <4>2, FS_Singleton
    <3>2. CASE p \notin S
      <4>1. places = {}
        BY <2>2, <3>2 DEF Fila
      <4> QED BY <3>2, <4>1, FS_EmptySet
    <3> QED BY <3>1, <3>2
  <2>4. EnIO(p) <=> p \in B
    BY DEF EnIO, En
  <2>5. tsks[p].running \in {0, 1} /\ (p \in B \/ p = cur_pid => tsks[p].running = 1)
    BY <2>1 DEF EstaDe, TareasSimu
  <2>6. p \in S <=> tsks[p].running = 1 /\ p # cur_pid /\ p \notin B
    BY DEF Listos
  <2> HIDE DEF S, B, places
  <2> QED BY <2>3, <2>4, <2>5, <2>6 DEF places
<1> QED BY <1>1, InvarianteDelSimulador, PTL

(* The four actions that ask. *)
LEMMA AlPreguntar ==
    ASSUME Invariante, TickOcioso \/ Terminar \/ Bloquear \/ Gastar
    PROVE  \E m : /\ pc \in {"vuelta", "motivo"} /\ Preguntar(m)
                  /\ Preparado(m, tsks', En(unblock')) /\ UNCHANGED <<settings, load>>
<1>1. CASE TickOcioso
  BY <1>1, AntesDelOcioso
<1>2. CASE Terminar
  BY <1>2, AntesDeTerminar
<1>3. CASE Bloquear
  BY <1>3, AntesDeBloquear
<1>4. CASE Gastar
  BY <1>4, AntesDeGastar
<1> QED BY <1>1, <1>2, <1>3, <1>4

(* FCFS, MFQ and Lottery leave the CPU to nobody only when no task is      *)
(* ready.                                                                  *)
THEOREM OcioSinListos == SafeSpec => OcioJustificado
<1> DEFINE Ocio == SinOcio(Clases \ {"SchedRR"})
<1>1. ASSUME Invariante, Next PROVE Ocio
  <2> SUFFICES ASSUME settings.sched_class \in Clases \ {"SchedRR"}, context_remain = 0,
                      cur_time' # cur_time, cur_pid' = IDLE_TASK
               PROVE  \A i \in DOMAIN listas' : listas'[i] = IDLE_TASK
    BY DEF SinOcio
  <2>1. TickOcioso \/ Terminar \/ Bloquear \/ Gastar
    <3>1. /\ ~ Contexto /\ ~ Cargar /\ ~ Desbloquear /\ ~ Reanudar /\ ~ Retomar /\ ~ Fin
      BY DEF Contexto, Cargar, Desbloquear, Reanudar, Retomar, Fin, tiempos
    <3>2. ~ \E p \in Pids : Tarea(p)
      BY DEF Tarea, TomarTurno, Correr, DarTurno, tiempos
    <3>3. ~ Acabada
      BY DEF Acabada, vars, tiempos
    <3> QED BY <1>1, <3>1, <3>2, <3>3 DEF Next, Vuelta
  <2>2. PICK m : /\ pc \in {"vuelta", "motivo"} /\ Preguntar(m)
                 /\ Preparado(m, tsks', En(unblock')) /\ UNCHANGED <<settings, load>>
    BY <1>1, <2>1, AlPreguntar
  <2>3. cur_time' # cur_time => ~ UNCHANGED tiempos
    BY DEF tiempos
  <2>4. DOMAIN Lugares(settings.sched_class, sch') = {}
    BY <1>1, <2>2, <2>3, Contesta
  <2>5. listas' = Lugares(settings.sched_class, sch')
    BY <2>2, LasListas
  <2> QED BY <2>4, <2>5
<1>2. UNCHANGED vars => Ocio
  BY DEF vars, tiempos, SinOcio
<1>3. Invariante /\ [Next]_vars => [Ocio]_vars
  BY <1>1, <1>2
<1> QED BY <1>3, InvarianteDelSimulador, PTL DEF SafeSpec, OcioJustificado

(* The life of the processes. *)
Etapa(p, d, B, cur) ==
    IF cur = p THEN "ejecutando"
    ELSE IF d.blk = "ST_EXIT" THEN "terminada"
    ELSE IF d.running = 0 THEN "nueva"
    ELSE IF p \in B THEN "bloqueada" ELSE "lista"

Etapas(t, B, cur) == [p \in Pids |-> Etapa(p, t[p], B, cur)]

LEMMA LasEtapas ==
    /\ [p \in Pids |-> EstadoDe(p)] = Etapas(tsks, En(unblock), cur_pid)
    /\ [p \in Pids |-> EstadoDe(p)]' = Etapas(tsks', En(unblock'), cur_pid')
<1>1. ASSUME NEW p \in Pids PROVE EstadoDe(p) = Etapa(p, tsks[p], En(unblock), cur_pid)
  <2>1. EnIO(p) <=> p \in En(unblock)
    BY DEF EnIO, En
  <2> QED BY <2>1 DEF EstadoDe, Etapa
<1>2. ASSUME NEW p \in Pids PROVE EstadoDe(p)' = Etapa(p, tsks'[p], En(unblock'), cur_pid')
  <2>1. EnIO(p)' <=> p \in En(unblock')
    BY DEF EnIO, En
  <2> QED BY <2>1 DEF EstadoDe, Etapa
<1> QED BY <1>1, <1>2 DEF Etapas

(* One process in a new state, or the one that has the CPU leaves it.      *)
LEMMA UnaEtapa ==
    ASSUME NEW p \in Pids,
           \A q \in Pids \ {p} : Etapa(q, tsks'[q], En(unblock'), cur_pid')
                                   = Etapa(q, tsks[q], En(unblock), cur_pid),
           Etapa(p, tsks'[p], En(unblock'), cur_pid') = "lista",
           Etapa(p, tsks[p], En(unblock), cur_pid) \in {"nueva", "bloqueada"}
    PROVE  Vida!Next
<1> DEFINE e == [q \in Pids |-> EstadoDe(q)]
<1>1. /\ e = Etapas(tsks, En(unblock), cur_pid)
      /\ e' = Etapas(tsks', En(unblock'), cur_pid')
  BY LasEtapas
<1>2. e[p] \in {"nueva", "bloqueada"} /\ e' = [e EXCEPT ![p] = "lista"]
  BY <1>1 DEF Etapas
<1>3. Vida!Llegar(p) \/ Vida!Desbloquear(p)
  BY <1>2 DEF Vida!Llegar, Vida!Desbloquear
<1> QED BY <1>3 DEF Vida!Next

LEMMA MismasEtapas ==
    ASSUME \A q \in Pids : Etapa(q, tsks'[q], En(unblock'), cur_pid')
                             = Etapa(q, tsks[q], En(unblock), cur_pid)
    PROVE  UNCHANGED [q \in Pids |-> EstadoDe(q)]
BY LasEtapas DEF Etapas

LEMMA OtraEjecutando ==
    ASSUME cur_pid' # cur_pid, cur_pid' \in Pids \cup {IDLE_TASK},
           cur_pid \in Pids \cup {IDLE_TASK},
           \A q \in Pids \ {cur_pid, cur_pid'} :
               Etapa(q, tsks'[q], En(unblock'), cur_pid') = Etapa(q, tsks[q], En(unblock), cur_pid),
           cur_pid' \in Pids => Etapa(cur_pid', tsks[cur_pid'], En(unblock), cur_pid) = "lista",
           cur_pid \in Pids => Etapa(cur_pid, tsks'[cur_pid], En(unblock'), cur_pid')
                                 \in {"lista", "bloqueada", "terminada"}
    PROVE  Vida!Next
<1> DEFINE e == [q \in Pids |-> EstadoDe(q)]
           s == IF cur_pid \in Pids THEN Etapa(cur_pid, tsks'[cur_pid], En(unblock'), cur_pid')
                ELSE "lista"
<1>1. /\ e = Etapas(tsks, En(unblock), cur_pid)
      /\ e' = Etapas(tsks', En(unblock'), cur_pid')
  BY LasEtapas
<1>2. s \in Vida!Salida
  BY DEF Vida!Salida
<1>3. \A q \in Pids : e[q] = "ejecutando" <=> q = cur_pid
  BY <1>1 DEF Etapas, Etapa
<1>4. Vida!Ejecutando = {cur_pid} \cap Pids
  BY <1>3 DEF Vida!Ejecutando
<1>5. ASSUME NEW q \in Pids
      PROVE  Etapa(q, tsks'[q], En(unblock'), cur_pid') =
               IF q = cur_pid' THEN "ejecutando" ELSE IF q \in Vida!Ejecutando THEN s ELSE e[q]
  <2>1. CASE q = cur_pid'
    BY <2>1 DEF Etapa
  <2>2. CASE q = cur_pid
    BY <1>4, <2>2
  <2>3. CASE q \notin {cur_pid, cur_pid'}
    <3>1. e[q] = Etapa(q, tsks[q], En(unblock), cur_pid)
      BY <1>1 DEF Etapas
    <3> QED BY <1>4, <2>3, <3>1
  <2> QED BY <2>1, <2>2, <2>3
<1>6. e' = [q \in Pids |-> IF q = cur_pid' THEN "ejecutando"
                           ELSE IF q \in Vida!Ejecutando THEN s ELSE e[q]]
  <2>1. e' = [q \in Pids |-> Etapa(q, tsks'[q], En(unblock'), cur_pid')]
    BY <1>1 DEF Etapas
  <2> HIDE DEF e, s
  <2> QED BY <1>5, <2>1
<1>7. CASE cur_pid' \in Pids
  <2>1. e[cur_pid'] = "lista"
    BY <1>1, <1>7 DEF Etapas
  <2> HIDE DEF s
  <2>2. Vida!Elegir(cur_pid')
    BY <1>2, <1>6, <2>1 DEF Vida!Elegir
  <2> QED BY <1>7, <2>2 DEF Vida!Next
<1>8. CASE cur_pid' = IDLE_TASK
  <2>1. cur_pid \in Pids /\ cur_pid' \notin Pids
    BY <1>8, IdleAparte
  <2>2. Vida!Ejecutando # {}
    BY <1>4, <2>1
  <2>3. e' = [q \in Pids |-> IF q \in Vida!Ejecutando THEN s ELSE e[q]]
    <3> HIDE DEF e, s
    <3> QED BY <1>6, <2>1
  <2> HIDE DEF s
  <2>4. Vida!Dejar
    BY <1>2, <2>2, <2>3 DEF Vida!Dejar
  <2> QED BY <2>4 DEF Vida!Next
<1> QED BY <1>7, <1>8

(* The answer of the scheduler, in the life of the processes. *)
LEMMA VidaAlContestar ==
    ASSUME Invariante, pc \in {"vuelta", "motivo"}, NEW m, Preguntar(m),
           Preparado(m, tsks', En(unblock')), UNCHANGED <<settings, load>>, Invariante'
    PROVE  Vida!Next \/ UNCHANGED [q \in Pids |-> EstadoDe(q)]
<1>1. \A q \in Pids \ {cur_pid} : tsks'[q] = tsks[q] /\ (q \in En(unblock') <=> q \in En(unblock))
  BY DEF Preparado
<1>2. cur_pid' = cur_pid \/ cur_pid' = IDLE_TASK \/ cur_pid' \in Listos(tsks, cur_pid, En(unblock))
  BY Contesta
<1>3. cur_pid \in Pids \cup {IDLE_TASK} /\ cur_pid' \in Pids \cup {IDLE_TASK}
  BY DEF Invariante, Turno
<1>4. CASE cur_pid' = cur_pid
  <2>1. \A q \in Pids : Etapa(q, tsks'[q], En(unblock'), cur_pid')
                          = Etapa(q, tsks[q], En(unblock), cur_pid)
    BY <1>1, <1>4 DEF Etapa
  <2> QED BY <2>1, MismasEtapas
<1>5. CASE cur_pid' # cur_pid
  <2>1. pc' = "vuelta"
    BY <1>5, Contesta
  <2>2. \A q \in Pids : /\ EstaDe(q, tsks'[q], En(unblock'), Pids \ En(load'), cur_pid', pc',
                                  settings'.sched_class)
                        /\ EstaDe(q, tsks[q], En(unblock), Pids \ En(load), cur_pid, pc,
                                  settings.sched_class)
    BY <2>1 DEF Invariante, Bien
  <2>3. \A q \in Pids \ {cur_pid, cur_pid'} :
          Etapa(q, tsks'[q], En(unblock'), cur_pid') = Etapa(q, tsks[q], En(unblock), cur_pid)
    BY <1>1 DEF Etapa
  <2>4. ASSUME cur_pid' \in Pids
        PROVE  Etapa(cur_pid', tsks[cur_pid'], En(unblock), cur_pid) = "lista"
    <3>1. tsks[cur_pid'].running = 1 /\ cur_pid' \notin En(unblock)
      BY <1>2, <1>5, <2>4, IdleAparte DEF Listos
    <3>2. tsks[cur_pid'].blk = "ST_CPU"
      BY <1>5, <2>2, <2>4, <3>1 DEF EstaDe
    <3> QED BY <1>5, <3>1, <3>2 DEF Etapa
  <2>5. ASSUME cur_pid \in Pids
        PROVE  Etapa(cur_pid, tsks'[cur_pid], En(unblock'), cur_pid')
                 \in {"lista", "bloqueada", "terminada"}
    <3>1. cur_pid \in Pids \ En(load)
      BY <2>2, <2>5 DEF EstaDe
    <3>2. tsks'[cur_pid].running = 0 => tsks'[cur_pid].blk = "ST_EXIT"
      BY <2>2, <2>5, <3>1 DEF EstaDe
    <3> QED BY <1>5, <3>2 DEF Etapa
  <2> QED BY <1>3, <1>5, <2>3, <2>4, <2>5, OtraEjecutando
<1> QED BY <1>4, <1>5

LEMMA VidaEnCadaPaso ==
    ASSUME Invariante, Next, Invariante'
    PROVE  Vida!Next \/ UNCHANGED [q \in Pids |-> EstadoDe(q)]
<1>1. CASE Cargar
  <2> DEFINE p == Primero(load)[2]
  <2>1. /\ pc = "vuelta" /\ load # {} /\ tsks' = [tsks EXCEPT ![p].running = 1]
        /\ UNCHANGED <<cur_pid, unblock>>
    BY <1>1 DEF Cargar, EnLaVuelta, Vencida
  <2>2. /\ TiposSimu /\ tsks \in [Pids -> TareasSimu]
        /\ \A q \in Pids : EstaDe(q, tsks[q], En(unblock), Pids \ En(load), cur_pid, pc,
                                  settings.sched_class)
    BY <2>1, DeLaVuelta DEF TiposSimu
  <2>3. p \in En(load) /\ p \in Pids
    BY <2>1, <2>2, SaleElPrimero DEF TiposSimu
  <2> HIDE DEF p
  <2>4. /\ tsks[p].running = 0 /\ tsks[p].blk = "ST_CPU" /\ p # cur_pid /\ p \notin En(unblock)
    BY <2>2, <2>3 DEF EstaDe
  <2>5. \A q \in Pids \ {p} : tsks'[q] = tsks[q]
    BY <2>1, <2>2
  <2>6. tsks'[p].running = 1 /\ tsks'[p].blk = "ST_CPU"
    <3>1. tsks[p] \in TareasSimu /\ tsks'[p] = [tsks[p] EXCEPT !.running = 1]
      BY <2>1, <2>2, <2>3
    <3> QED BY <2>4, <3>1 DEF TareasSimu
  <2>7. \A q \in Pids \ {p} : Etapa(q, tsks'[q], En(unblock'), cur_pid')
                                = Etapa(q, tsks[q], En(unblock), cur_pid)
    BY <2>1, <2>5
  <2>8. /\ Etapa(p, tsks'[p], En(unblock'), cur_pid') = "lista"
        /\ Etapa(p, tsks[p], En(unblock), cur_pid) = "nueva"
    BY <2>1, <2>4, <2>6 DEF Etapa
  <2> QED BY <2>3, <2>7, <2>8, UnaEtapa
<1>2. CASE Desbloquear
  <2> DEFINE p == Primero(unblock)[2]
  <2>1. /\ pc = "vuelta" /\ unblock # {}
        /\ tsks' = IF cur_pid = p THEN [tsks EXCEPT ![p].blkms = -2]
                   ELSE [tsks EXCEPT ![p].blk = "ST_CPU", ![p].blkms = 0]
        /\ unblock' = unblock \ {Primero(unblock)} /\ UNCHANGED cur_pid
    BY <1>2 DEF Desbloquear, EnLaVuelta, Vencida
  <2>2. /\ TiposSimu /\ tsks \in [Pids -> TareasSimu]
        /\ \A q \in Pids : EstaDe(q, tsks[q], En(unblock), Pids \ En(load), cur_pid, pc,
                                  settings.sched_class)
    BY <2>1, DeLaVuelta DEF TiposSimu
  <2>3. p \in En(unblock) /\ p \in Pids /\ En(unblock') = En(unblock) \ {p}
    BY <2>1, <2>2, SaleElPrimero DEF TiposSimu
  <2> HIDE DEF p
  <2>4. tsks[p].running = 1 /\ tsks[p].blk = "ST_IO"
    BY <2>2, <2>3 DEF EstaDe
  <2>5. \A q \in Pids \ {p} : tsks'[q] = tsks[q] /\ (q \in En(unblock') <=> q \in En(unblock))
    BY <2>1, <2>2, <2>3
  <2>6. \A q \in Pids \ {p} : Etapa(q, tsks'[q], En(unblock'), cur_pid')
                                = Etapa(q, tsks[q], En(unblock), cur_pid)
    BY <2>1, <2>5 DEF Etapa
  <2>7. CASE cur_pid = p
    <3>1. Etapa(p, tsks'[p], En(unblock'), cur_pid') = Etapa(p, tsks[p], En(unblock), cur_pid)
      BY <2>1, <2>7 DEF Etapa
    <3> QED BY <2>6, <3>1, MismasEtapas
  <2>8. CASE cur_pid # p
    <3>1. tsks'[p].running = 1 /\ tsks'[p].blk = "ST_CPU"
      <4>1. /\ tsks[p] \in TareasSimu
            /\ tsks'[p] = [tsks[p] EXCEPT !.blk = "ST_CPU", !.blkms = 0]
        BY <2>1, <2>2, <2>3, <2>8
      <4> QED BY <2>4, <4>1 DEF TareasSimu
    <3>2. p \notin En(unblock') /\ cur_pid' # p
      BY <2>1, <2>3, <2>8
    <3>3. Etapa(p, tsks'[p], En(unblock'), cur_pid') = "lista"
      BY <3>1, <3>2 DEF Etapa
    <3>4. Etapa(p, tsks[p], En(unblock), cur_pid) = "bloqueada"
      BY <2>3, <2>4, <2>8 DEF Etapa
    <3> QED BY <2>3, <2>6, <3>3, <3>4, UnaEtapa
  <2> QED BY <2>7, <2>8
<1>3. CASE TickOcioso \/ Terminar \/ Bloquear \/ Gastar
  BY <1>3, AlPreguntar, VidaAlContestar
<1>4. CASE \E p \in Pids : Correr(p)
  <2>1. PICK p \in Pids : Correr(p)
    BY <1>4
  <2>2. PICK d : cur_pid = p /\ tsks' = [tsks EXCEPT ![p] = d]
    BY <2>1, LoQueEscribe, SMTT(30)
  <2>3. UNCHANGED <<cur_pid, unblock>>
    BY <2>1 DEF Correr
  <2>4. \A q \in Pids \ {p} : tsks'[q] = tsks[q]
    BY <2>2 DEF Invariante, TiposSimu
  <2>5. \A q \in Pids : Etapa(q, tsks'[q], En(unblock'), cur_pid')
                          = Etapa(q, tsks[q], En(unblock), cur_pid)
    BY <2>2, <2>3, <2>4 DEF Etapa
  <2> QED BY <2>5, MismasEtapas
<1>5. CASE UNCHANGED <<tsks, unblock, cur_pid>>
  BY <1>5, MismasEtapas
<1>6. \/ Cargar \/ Desbloquear \/ TickOcioso \/ Terminar \/ Bloquear \/ Gastar
      \/ (\E p \in Pids : Correr(p)) \/ UNCHANGED <<tsks, unblock, cur_pid>>
  BY DEF Next, Vuelta, Tarea, Contexto, Reanudar, Retomar, Fin, TomarTurno, DarTurno, Acabada, vars
<1> QED BY <1>1, <1>2, <1>3, <1>4, <1>5, <1>6

(* Every behaviour of simulator and scheduler is one of the life of the    *)
(* processes.                                                              *)
THEOREM CumpleLaVida == SafeSpec => VidaDeProcesos
<1>1. Init => Vida!Init
  <2> SUFFICES ASSUME Init PROVE Vida!Init
    OBVIOUS
  <2>1. cur_pid = IDLE_TASK
    BY DEF Init
  <2>2. \A p \in Pids : tsks[p].running = 0 /\ tsks[p].blk = "ST_CPU"
    BY DEF Init
  <2>3. \A p \in Pids : Etapa(p, tsks[p], En(unblock), cur_pid) = "nueva"
    BY <2>1, <2>2, IdleAparte DEF Etapa
  <2> QED BY <2>3, LasEtapas DEF Vida!Init, Etapas
<1>2. Invariante /\ Invariante' /\ [Next]_vars => [Vida!Next]_[p \in Pids |-> EstadoDe(p)]
  <2>1. ASSUME UNCHANGED vars PROVE UNCHANGED [p \in Pids |-> EstadoDe(p)]
    <3>1. UNCHANGED <<tsks, unblock, cur_pid>>
      BY <2>1 DEF vars
    <3> QED BY <3>1, MismasEtapas
  <2> QED BY <2>1, VidaEnCadaPaso
<1> QED BY <1>1, <1>2, InvarianteDelSimulador, PTL DEF SafeSpec, VidaDeProcesos, Vida!Spec

=============================================================================
