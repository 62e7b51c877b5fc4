---------------------------- MODULE RWLockProofs ----------------------------
(***************************************************************************)
(* The safety of the read-write lock, for every finite set of threads, and *)
(* that every step of it is one of the fair lock or changes nothing of it. *)
(***************************************************************************)
EXTENDS RWLock, FiniteSetTheorems, SequenceTheorems, TLAPS

(* MutualExclusion is not inductive by itself: a woken writer enters       *)
(* without looking, so one must know that it was woken only when nobody    *)
(* was inside (WokenIsFront), that nobody entered since (Bookkeeping: the  *)
(* queue is in use), and that the pop removes its own request              *)
(* (QueueMatchesThreads).                                                  *)
IInv ==
    /\ TypeOK
    /\ MutualExclusion
    /\ Bookkeeping
    /\ QueueMatchesThreads
    /\ WokenIsFront

-----------------------------------------------------------------------------
(* Facts about the state.                                                  *)

(* Wait(type): where a thread waits after enqueueing a request of a type. *)
Wait(type) == IF type = "READER" THEN "r_wait" ELSE "w_wait"

(* The set of readers is finite, and empty when the count is 0. *)
LEMMA ReadersFinite ==
    /\ IsFiniteSet(Reading)
    /\ Cardinality(Reading) \in Nat
    /\ Cardinality(Reading) = 0 <=> Reading = {}
<1>1. IsFiniteSet(Reading)
  BY ThreadsAssumption, FS_Subset DEF Reading
<1>2. QED
  BY <1>1, FS_CardinalityType, FS_EmptySet

(* A thread that starts to read is added to the readers. *)
LEMMA ReaderEnters ==
    ASSUME TypeOK, NEW t \in Threads, pc[t] # "reading", Goto(t, "reading")
    PROVE  /\ Reading' = Reading \cup {t}
           /\ Cardinality(Reading') = Cardinality(Reading) + 1
<1>1. Reading' = Reading \cup {t} /\ t \notin Reading
  BY DEF TypeOK, Goto, Reading
<1>2. QED
  BY <1>1, ReadersFinite, FS_AddElement

(* A thread that stops reading is removed from the readers. *)
LEMMA ReaderLeaves ==
    ASSUME TypeOK, NEW t \in Threads, pc[t] = "reading", Goto(t, "idle")
    PROVE  /\ Reading' = Reading \ {t}
           /\ IsFiniteSet(Reading')
           /\ Cardinality(Reading') = Cardinality(Reading) - 1
<1>1. Reading' = Reading \ {t} /\ t \in Reading
  BY DEF TypeOK, Goto, Reading
<1>2. QED
  BY <1>1, ReadersFinite, FS_RemoveElement

(* A queued request belongs to a thread that waits in rlock or wlock. *)
LEMMA QueuedThreads ==
    ASSUME TypeOK, QueueMatchesThreads, NEW i \in 1..Len(q)
    PROVE  /\ q[i] \in [sem : Threads, type : RWLock_queue_t]
           /\ q[i].sem \in Threads
           /\ pc[q[i].sem] \in {"r_wait", "r_woken", "w_wait", "w_woken"}
<1>1. q[i] \in [sem : Threads, type : RWLock_queue_t]
  BY ElementOfSeq DEF TypeOK
<1>2. QED
  BY <1>1 DEF QueueMatchesThreads

(* Enqueueing a request of an idle thread keeps queue and threads matched. *)
LEMMA EncolarMatches ==
    ASSUME TypeOK, QueueMatchesThreads,
           NEW t \in Threads, NEW type \in RWLock_queue_t,
           pc[t] = "idle", Encolar(t, type), Goto(t, Wait(type))
    PROVE  QueueMatchesThreads'
<1> DEFINE r == [sem |-> t, type |-> type]
<1>1. r \in [sem : Threads, type : RWLock_queue_t]
  OBVIOUS
<1>2. /\ Len(q') = Len(q) + 1
      /\ \A i \in 1..Len(q) : q'[i] = q[i]
      /\ q'[Len(q) + 1] = r
      /\ Len(q) \in Nat
  BY <1>1 DEF TypeOK, Encolar
<1>3. \A i \in 1..Len(q) : q[i].sem # t /\ q[i].sem \in Threads
  BY QueuedThreads
<1>4. \A i \in 1..Len(q) : pc'[q[i].sem] = pc[q[i].sem]
  BY <1>3 DEF TypeOK, Goto
<1>5. \A i \in 1..Len(q') : i \in 1..Len(q) \/ i = Len(q) + 1
  BY <1>2
<1>6. ASSUME NEW i \in 1..Len(q'), NEW j \in 1..Len(q'), q'[i].sem = q'[j].sem
      PROVE  i = j
  BY <1>2, <1>3, <1>5, <1>6 DEF QueueMatchesThreads
<1>7. ASSUME NEW i \in 1..Len(q')
      PROVE  pc'[q'[i].sem] \in IF q'[i].type = "READER" THEN {"r_wait", "r_woken"}
                                                        ELSE {"w_wait", "w_woken"}
  <2>1. CASE i \in 1..Len(q)
    BY <1>2, <1>4, <2>1 DEF QueueMatchesThreads
  <2>2. CASE i = Len(q) + 1
    BY <1>2, <2>2 DEF TypeOK, Goto, Wait
  <2>3. QED
    BY <1>5, <2>1, <2>2
<1>8. ASSUME NEW u \in Threads,
             pc'[u] \in {"r_wait", "r_woken", "w_wait", "w_woken"}
      PROVE  \E i \in 1..Len(q') : q'[i].sem = u
  <2>1. CASE u = t
    BY <1>2, <2>1
  <2>2. CASE u # t
    <3>1. PICK i \in 1..Len(q) : q[i].sem = u
      BY <1>8, <2>2 DEF TypeOK, Goto, QueueMatchesThreads
    <3>2. QED
      BY <1>2, <3>1
  <2>3. QED
    BY <2>1, <2>2
<1>9. QED
  BY <1>6, <1>7, <1>8 DEF QueueMatchesThreads

(* Dequeueing the head when its thread gets the lock keeps them matched. *)
LEMMA DesencolarMatches ==
    ASSUME TypeOK, QueueMatchesThreads,
           NEW t \in Threads, NEW where \in {"reading", "writing"},
           q # <<>>, Head(q).sem = t, q' = desencolar_tope, Goto(t, where)
    PROVE  QueueMatchesThreads'
<1>1. /\ Len(q') = Len(q) - 1
      /\ \A i \in 1..Len(q') : q'[i] = q[i + 1] /\ i + 1 \in 1..Len(q)
      /\ Len(q) \in Nat \ {0}
      /\ q[1].sem = t
  BY DEF TypeOK, desencolar_tope
<1>2. \A i \in 1..Len(q') : q'[i].sem # t /\ q'[i].sem \in Threads
  <2>1. 1 \in 1..Len(q)
    BY <1>1
  <2>2. QED
    BY <1>1, <2>1, QueuedThreads DEF QueueMatchesThreads
<1>3. \A i \in 1..Len(q') : pc'[q'[i].sem] = pc[q[i + 1].sem]
  BY <1>1, <1>2 DEF TypeOK, Goto
<1>4. ASSUME NEW i \in 1..Len(q'), NEW j \in 1..Len(q'), q'[i].sem = q'[j].sem
      PROVE  i = j
  BY <1>1, <1>4 DEF QueueMatchesThreads
<1>5. ASSUME NEW i \in 1..Len(q')
      PROVE  pc'[q'[i].sem] \in IF q'[i].type = "READER" THEN {"r_wait", "r_woken"}
                                                        ELSE {"w_wait", "w_woken"}
  BY <1>1, <1>3 DEF QueueMatchesThreads
<1>6. ASSUME NEW u \in Threads,
             pc'[u] \in {"r_wait", "r_woken", "w_wait", "w_woken"}
      PROVE  \E i \in 1..Len(q') : q'[i].sem = u
  <2>1. u # t /\ pc'[u] = pc[u]
    BY <1>6 DEF TypeOK, Goto
  <2>2. PICK i \in 1..Len(q) : q[i].sem = u
    BY <1>6, <2>1 DEF QueueMatchesThreads
  <2>3. i # 1 /\ i - 1 \in 1..Len(q') /\ q'[i - 1] = q[i]
    BY <1>1, <2>1, <2>2
  <2>4. QED
    BY <2>2, <2>3
<1>7. QED
  BY <1>4, <1>5, <1>6 DEF QueueMatchesThreads

(* A step that leaves the queue alone and moves a thread within its wait,  *)
(* or one that does not wait, keeps them matched.                          *)
LEMMA SameQueueMatches ==
    ASSUME TypeOK, QueueMatchesThreads,
           NEW t \in Threads, NEW where \in PCs, q' = q, Goto(t, where),
           \/ pc[t] = "r_wait" /\ where = "r_woken"
           \/ pc[t] = "w_wait" /\ where = "w_woken"
           \/ {pc[t], where} \subseteq {"idle", "reading", "writing"}
    PROVE  QueueMatchesThreads'
<1>1. \A u \in Threads \ {t} : pc'[u] = pc[u]
  BY DEF TypeOK, Goto
<1>2. pc'[t] = where
  BY DEF TypeOK, Goto
<1>3. ASSUME NEW i \in 1..Len(q')
      PROVE  pc'[q'[i].sem] \in IF q'[i].type = "READER" THEN {"r_wait", "r_woken"}
                                                        ELSE {"w_wait", "w_woken"}
  <2>1. i \in 1..Len(q) /\ q'[i] = q[i] /\ q[i].sem \in Threads
    BY QueuedThreads
  <2>2. CASE q[i].sem = t
    BY <1>2, <2>1, <2>2 DEF QueueMatchesThreads
  <2>3. CASE q[i].sem # t
    BY <1>1, <2>1, <2>3 DEF QueueMatchesThreads
  <2>4. QED
    BY <2>2, <2>3
<1>4. ASSUME NEW u \in Threads,
             pc'[u] \in {"r_wait", "r_woken", "w_wait", "w_woken"}
      PROVE  \E i \in 1..Len(q') : q'[i].sem = u
  <2>1. pc[u] \in {"r_wait", "r_woken", "w_wait", "w_woken"}
    BY <1>1, <1>2, <1>4
  <2>2. QED
    BY <2>1 DEF QueueMatchesThreads
<1>5. QED
  BY <1>3, <1>4 DEF QueueMatchesThreads

(* The head of a queue is a request. *)
LEMMA HeadOfQueue ==
    ASSUME NEW s \in Seq([sem : Threads, type : RWLock_queue_t]), s # <<>>
    PROVE  /\ Head(s).sem \in Threads
           /\ Head(s).type \in RWLock_queue_t
<1>1. Head(s) \in [sem : Threads, type : RWLock_queue_t]
  BY HeadTailProperties
<1>2. QED
  BY <1>1

(* Posting one semaphore of a thread changes no other. *)
LEMMA Post ==
    ASSUME NEW s \in [Threads -> Nat], NEW t \in Threads
    PROVE  /\ post(s, t) \in [Threads -> Nat]
           /\ \A u \in Threads : u # t => post(s, t)[u] = s[u]
           /\ post(s, t)[t] = s[t] + 1
BY DEF post

(* Waking the head of the queue posts its semaphore and no other. *)
LEMMA DespertarProx ==
    ASSUME TypeOK
    PROVE  /\ despertar_prox(sem, q) \in [Threads -> Nat]
           /\ \A u \in Threads :
            \/ despertar_prox(sem, q)[u] = sem[u]
            \/ q # <<>> /\ Head(q).sem = u
<1>1. CASE q = <<>>
  <2>1. despertar_prox(sem, q) = sem
    BY <1>1 DEF despertar_prox
  <2>2. QED
    BY <2>1 DEF TypeOK
<1>2. CASE q # <<>>
  <2>1. Head(q).sem \in Threads
    BY <1>2, HeadOfQueue DEF TypeOK
  <2>2. despertar_prox(sem, q) = post(sem, Head(q).sem)
    BY <1>2 DEF despertar_prox
  <2>3. sem \in [Threads -> Nat]
    BY DEF TypeOK
  <2>4. QED
    BY <1>2, <2>1, <2>2, <2>3, Post
<1>3. QED
  BY <1>1, <1>2

-----------------------------------------------------------------------------
(* Each action preserves the invariant.                                    *)

LEMMA RLockPreserves ==
    ASSUME IInv, NEW t \in Threads, RLock(t)
    PROVE  IInv'
<1> USE DEF IInv
<1>1. CASE q_in_use /\ Encolar(t, "READER") /\ Goto(t, "r_wait")
           /\ UNCHANGED <<q_in_use, readers>>
  <2>1. TypeOK'
    BY <1>1 DEF TypeOK, Encolar, Goto, PCs, RWLock_queue_t
  <2>2. Reading' = Reading /\ Writing' = Writing
    BY <1>1 DEF TypeOK, RLock, Goto, Reading, Writing
  <2>3. q' # <<>> /\ (q # <<>> => Head(q') = Head(q))
    BY <1>1 DEF TypeOK, Encolar, RWLock_queue_t
  <2>4. MutualExclusion' /\ Bookkeeping'
    BY <1>1, <2>2, <2>3 DEF MutualExclusion, Bookkeeping
  <2>5. QueueMatchesThreads'
    BY <1>1, EncolarMatches DEF RLock, Wait, RWLock_queue_t
  <2>6. WokenIsFront'
    BY <1>1, <2>2, <2>3 DEF WokenIsFront, TypeOK, Encolar, Goto
  <2>7. QED
    BY <2>1, <2>4, <2>5, <2>6
<1>2. CASE ~ q_in_use /\ readers' = readers + 1 /\ Goto(t, "reading")
           /\ UNCHANGED <<q, q_in_use, sem, live>>
  <2>1. TypeOK'
    BY <1>2 DEF TypeOK, Goto, PCs
  <2>2. q = <<>> /\ Writing = {}
    BY <1>2 DEF Bookkeeping
  <2>3. Writing' = Writing
    BY <1>2, <2>2 DEF TypeOK, Goto, Writing
  <2>4. MutualExclusion'
    BY <2>2, <2>3 DEF MutualExclusion
  <2>5. Bookkeeping'
    BY <1>2, <2>3, ReaderEnters DEF Bookkeeping, RLock
  <2>6. QueueMatchesThreads'
    BY <1>2, SameQueueMatches DEF RLock, PCs
  <2>7. WokenIsFront'
    BY <1>2, <2>2, <2>3 DEF WokenIsFront, TypeOK, Goto
  <2>8. QED
    BY <2>1, <2>4, <2>5, <2>6, <2>7
<1>3. QED
  BY <1>1, <1>2 DEF RLock

LEMMA WLockPreserves ==
    ASSUME IInv, NEW t \in Threads, WLock(t)
    PROVE  IInv'
<1> USE DEF IInv
<1>1. CASE (q_in_use \/ readers > 0) /\ Encolar(t, "WRITER") /\ Goto(t, "w_wait")
           /\ q_in_use' = TRUE /\ UNCHANGED readers
  <2>1. TypeOK'
    BY <1>1 DEF TypeOK, Encolar, Goto, PCs, RWLock_queue_t
  <2>2. Reading' = Reading /\ Writing' = Writing
    BY <1>1 DEF TypeOK, WLock, Goto, Reading, Writing
  <2>3. q' # <<>> /\ (q # <<>> => Head(q') = Head(q))
    BY <1>1 DEF TypeOK, Encolar, RWLock_queue_t
  <2>4. MutualExclusion' /\ Bookkeeping'
    BY <1>1, <2>2, <2>3 DEF MutualExclusion, Bookkeeping
  <2>5. QueueMatchesThreads'
    BY <1>1, EncolarMatches DEF WLock, Wait, RWLock_queue_t
  <2>6. WokenIsFront'
    BY <1>1, <2>2, <2>3 DEF WokenIsFront, TypeOK, Encolar, Goto
  <2>7. QED
    BY <2>1, <2>4, <2>5, <2>6
<1>2. CASE ~ q_in_use /\ readers = 0 /\ Goto(t, "writing")
           /\ q_in_use' = TRUE /\ UNCHANGED <<q, readers, sem, live>>
  <2>1. TypeOK'
    BY <1>2 DEF TypeOK, Goto, PCs
  <2>2. q = <<>> /\ Writing = {} /\ Reading = {}
    BY <1>2, ReadersFinite DEF Bookkeeping
  <2>3. Writing' = {t} /\ Reading' = {}
    BY <1>2, <2>2 DEF TypeOK, Goto, Writing, Reading
  <2>4. MutualExclusion'
    BY <2>3 DEF MutualExclusion
  <2>5. Bookkeeping'
    BY <1>2, <2>2, <2>3 DEF Bookkeeping
  <2>6. QueueMatchesThreads'
    BY <1>2, SameQueueMatches DEF WLock, PCs
  <2>7. WokenIsFront'
    BY <1>2, <2>2 DEF WokenIsFront, TypeOK, Goto
  <2>8. QED
    BY <2>1, <2>4, <2>5, <2>6, <2>7
<1>3. QED
  BY <1>1, <1>2 DEF WLock

LEMMA SemWaitPreserves ==
    ASSUME IInv, NEW t \in Threads, SemWait(t)
    PROVE  IInv'
<1> USE DEF IInv
<1>1. TypeOK'
  BY DEF TypeOK, SemWait, Goto, PCs
<1>2. Reading' = Reading /\ Writing' = Writing
  BY DEF TypeOK, SemWait, Goto, Reading, Writing
<1>3. MutualExclusion' /\ Bookkeeping'
  BY <1>2 DEF MutualExclusion, Bookkeeping, SemWait
<1>4. QueueMatchesThreads'
  BY SameQueueMatches DEF SemWait, PCs
<1>5. WokenIsFront'
  BY <1>2 DEF WokenIsFront, TypeOK, SemWait, Goto
<1>6. QED
  BY <1>1, <1>3, <1>4, <1>5

LEMMA RLockWokenPreserves ==
    ASSUME IInv, NEW t \in Threads, RLockWoken(t)
    PROVE  IInv'
<1> USE DEF IInv
<1>1. /\ q # <<>> /\ Head(q).sem = t
      /\ Writing = {}
  BY DEF WokenIsFront, RLockWoken
<1>2. q' \in Seq([sem : Threads, type : RWLock_queue_t])
  BY <1>1 DEF TypeOK, RLockWoken, desencolar_tope
<1>3. q' # <<>> => /\ Head(q').sem \in Threads
                   /\ Head(q').type \in RWLock_queue_t
  BY <1>2, HeadOfQueue
<1>4. /\ sem' \in [Threads -> Nat]
      /\ \A u \in Threads :
            \/ sem'[u] = IF u = t THEN 0 ELSE sem[u]
            \/ q' # <<>> /\ Head(q').sem = u /\ Head(q').type = "READER"
  <2>1. destroy_q_sem(t) \in [Threads -> Nat]
    BY DEF TypeOK, destroy_q_sem
  <2>2. \A u \in Threads : destroy_q_sem(t)[u] = IF u = t THEN 0 ELSE sem[u]
    BY DEF TypeOK, destroy_q_sem
  <2>3. CASE q' # <<>> /\ Head(q').type = "READER"
    <3>1. sem' = post(destroy_q_sem(t), Head(q').sem)
      BY <2>3 DEF RLockWoken, despertar_si_reader
    <3>2. QED
      BY <1>3, <2>1, <2>2, <2>3, <3>1, Post
  <2>4. CASE ~ (q' # <<>> /\ Head(q').type = "READER")
    <3>1. sem' = destroy_q_sem(t)
      BY <2>4 DEF RLockWoken, despertar_si_reader
    <3>2. QED
      BY <2>1, <2>2, <3>1
  <2>5. QED
    BY <2>3, <2>4
<1>5. TypeOK'
  <2>1. q_in_use' \in BOOLEAN
    BY DEF RLockWoken
  <2>2. readers' \in Nat /\ live' \subseteq Threads
    BY DEF TypeOK, RLockWoken
  <2>3. pc' \in [Threads -> PCs]
    BY DEF TypeOK, RLockWoken, Goto, PCs
  <2>4. QED
    BY <1>2, <1>4, <2>1, <2>2, <2>3 DEF TypeOK
<1>6. Writing' = {}
  BY <1>1 DEF TypeOK, RLockWoken, Goto, Writing
<1>7. MutualExclusion'
  BY <1>6 DEF MutualExclusion
<1>8. Bookkeeping'
  <2>1. q_in_use
    BY <1>1 DEF Bookkeeping
  <2>2. readers' = Cardinality(Reading')
    BY ReaderEnters DEF Bookkeeping, RLockWoken
  <2>3. QED
    BY <1>6, <2>1, <2>2 DEF Bookkeeping, RLockWoken
<1>9. QueueMatchesThreads'
  BY <1>1, DesencolarMatches DEF RLockWoken
<1>10. WokenIsFront'
  <2> SUFFICES ASSUME NEW u \in Threads,
                      sem'[u] > 0 \/ pc'[u] \in {"r_woken", "w_woken"}
               PROVE  q' # <<>> /\ Head(q').sem = u /\ Head(q').type = "READER"
    BY <1>6 DEF WokenIsFront, RWLock_queue_t
  <2>1. CASE u = t
    BY <1>4, <2>1 DEF TypeOK, RLockWoken, Goto
  <2>2. CASE u # t
    <3>1. ~ (sem[u] > 0) /\ pc'[u] = pc[u] /\ pc[u] \notin {"r_woken", "w_woken"}
      BY <1>1, <2>2 DEF WokenIsFront, TypeOK, RLockWoken, Goto
    <3>2. QED
      BY <1>4, <2>2, <3>1 DEF TypeOK
  <2>3. QED
    BY <2>1, <2>2
<1>11. QED
  BY <1>5, <1>7, <1>8, <1>9, <1>10

LEMMA WLockWokenPreserves ==
    ASSUME IInv, NEW t \in Threads, WLockWoken(t)
    PROVE  IInv'
<1> USE DEF IInv
<1>1. /\ q # <<>> /\ Head(q).sem = t
      /\ Writing = {} /\ Reading = {}
  <2>1. q # <<>> /\ Head(q).sem = t /\ Writing = {}
        /\ (Head(q).type = "WRITER" => Reading = {})
    BY DEF WokenIsFront, WLockWoken
  <2>2. 1 \in 1..Len(q) /\ Head(q) = q[1]
    BY <2>1 DEF TypeOK
  <2>3. Head(q).type \in RWLock_queue_t /\ Head(q).type # "READER"
    BY <2>1, <2>2, QueuedThreads DEF QueueMatchesThreads, WLockWoken
  <2>4. QED
    BY <2>1, <2>3 DEF RWLock_queue_t
<1>2. TypeOK'
  BY <1>1 DEF TypeOK, WLockWoken, desencolar_tope, destroy_q_sem, Goto, PCs
<1>3. Writing' = {t} /\ Reading' = {}
  BY <1>1 DEF TypeOK, WLockWoken, Goto, Reading, Writing
<1>4. MutualExclusion'
  BY <1>3 DEF MutualExclusion
<1>5. Bookkeeping'
  BY <1>1, <1>3 DEF Bookkeeping, WLockWoken
<1>6. QueueMatchesThreads'
  BY <1>1, DesencolarMatches DEF WLockWoken
<1>7. WokenIsFront'
  BY <1>1 DEF WokenIsFront, TypeOK, WLockWoken, destroy_q_sem, Goto
<1>8. QED
  BY <1>2, <1>4, <1>5, <1>6, <1>7

LEMMA RUnlockPreserves ==
    ASSUME IInv, NEW t \in Threads, RUnlock(t)
    PROVE  IInv'
<1> USE DEF IInv
<1>1. /\ Reading' = Reading \ {t} /\ readers' = Cardinality(Reading')
      /\ readers' \in Nat /\ (readers' = 0 => Reading' = {})
  BY ReadersFinite, ReaderLeaves, FS_CardinalityType, FS_EmptySet DEF RUnlock, Bookkeeping
<1>2. Writing = {}
  BY DEF MutualExclusion, Writing, Reading, RUnlock
<1>3. Writing' = {}
  BY <1>2 DEF TypeOK, RUnlock, Goto, Writing
<1>4. /\ sem' \in [Threads -> Nat]
      /\ \A u \in Threads :
            \/ sem'[u] = sem[u]
            \/ q # <<>> /\ Head(q).sem = u /\ readers' = 0
  BY DespertarProx DEF TypeOK, RUnlock
<1>5. TypeOK'
  BY <1>1, <1>4 DEF TypeOK, RUnlock, Goto, PCs
<1>6. MutualExclusion'
  BY <1>3 DEF MutualExclusion
<1>7. Bookkeeping'
  BY <1>1, <1>2, <1>3 DEF Bookkeeping, RUnlock
<1>8. QueueMatchesThreads'
  BY SameQueueMatches DEF RUnlock, PCs
<1>9. WokenIsFront'
  <2> SUFFICES ASSUME NEW u \in Threads,
                      sem'[u] > 0 \/ pc'[u] \in {"r_woken", "w_woken"}
               PROVE  /\ q # <<>> /\ Head(q).sem = u
                      /\ Head(q).type = "WRITER" => Reading' = {}
    BY <1>3 DEF WokenIsFront, RUnlock
  <2>1. CASE sem[u] > 0 \/ pc[u] \in {"r_woken", "w_woken"}
    BY <1>1, <2>1 DEF WokenIsFront
  <2>2. CASE sem'[u] # sem[u]
    BY <1>1, <1>4, <2>2
  <2>3. QED
    BY <2>1, <2>2 DEF TypeOK, RUnlock, Goto
<1>10. QED
  BY <1>5, <1>6, <1>7, <1>8, <1>9

LEMMA WUnlockPreserves ==
    ASSUME IInv, NEW t \in Threads, WUnlock(t)
    PROVE  IInv'
<1> USE DEF IInv
<1>1. Writing = {t} /\ Reading = {}
  BY DEF MutualExclusion, Writing, WUnlock
<1>2. Writing' = {} /\ Reading' = {}
  BY <1>1 DEF TypeOK, WUnlock, Goto, Writing, Reading
<1>3. TypeOK'
  BY DespertarProx DEF TypeOK, WUnlock, Goto, PCs
<1>4. MutualExclusion'
  BY <1>2 DEF MutualExclusion
<1>5. Bookkeeping'
  BY <1>1, <1>2 DEF Bookkeeping, WUnlock
<1>6. QueueMatchesThreads'
  BY SameQueueMatches DEF WUnlock, PCs
<1>7. WokenIsFront'
  BY <1>1, <1>2, DespertarProx DEF WokenIsFront, TypeOK, WUnlock, Goto
<1>8. QED
  BY <1>3, <1>4, <1>5, <1>6, <1>7

-----------------------------------------------------------------------------

(* The invariant holds of the new lock and every step preserves it. *)
THEOREM Inductive == SafeSpec => []IInv
<1>1. Init => IInv
  <2> SUFFICES ASSUME Init PROVE IInv
    OBVIOUS
  <2>1. Reading = {} /\ Writing = {}
    BY DEF Init, Reading, Writing
  <2>2. TypeOK
    BY EmptySeq DEF Init, TypeOK, PCs
  <2>3. Bookkeeping
    BY <2>1, FS_EmptySet DEF Init, Bookkeeping
  <2>4. MutualExclusion /\ QueueMatchesThreads /\ WokenIsFront
    BY <2>1 DEF Init, MutualExclusion, QueueMatchesThreads, WokenIsFront
  <2>5. QED
    BY <2>2, <2>3, <2>4 DEF IInv
<1>2. IInv /\ [Next]_vars => IInv'
  <2> SUFFICES ASSUME IInv, [Next]_vars PROVE IInv'
    OBVIOUS
  <2>1. CASE UNCHANGED vars
    BY <2>1 DEF vars, IInv, TypeOK, MutualExclusion, Bookkeeping,
        QueueMatchesThreads, WokenIsFront, Reading, Writing
  <2>2. CASE Next
    BY <2>2, RLockPreserves, WLockPreserves, SemWaitPreserves, RLockWokenPreserves,
       WLockWokenPreserves, RUnlockPreserves, WUnlockPreserves DEF Next
  <2>3. QED
    BY <2>1, <2>2
<1>3. QED
  BY <1>1, <1>2, PTL DEF SafeSpec

(* Type correctness: in particular readers, an unsigned in the code, never *)
(* goes below 0.                                                           *)
THEOREM TypeCorrect == Spec => []TypeOK
BY Inductive, PTL DEF Spec, IInv

(* A writer holds the lock alone, for any number of threads. *)
THEOREM Exclusion == Spec => []MutualExclusion
BY Inductive, PTL DEF Spec, IInv

(* readers and q_in_use tell the truth. *)
THEOREM Books == Spec => []Bookkeeping
BY Inductive, PTL DEF Spec, IInv

(* Who was woken is the head of the queue: "yo soy el tope por invariante". *)
THEOREM WokenFront == Spec => []WokenIsFront
BY Inductive, PTL DEF Spec, IInv

(* Queue and waiting threads match. *)
THEOREM Matched == Spec => []QueueMatchesThreads
BY Inductive, PTL DEF Spec, IInv

(* The assertions of the destructor cannot fail once nobody uses the lock. *)
THEOREM Destructor == Spec => []DestructorAsserts
<1>1. IInv => DestructorAsserts
  <2> SUFFICES ASSUME IInv, \A t \in Threads : pc[t] = "idle"
               PROVE  q = <<>> /\ readers = 0 /\ ~ q_in_use
    BY DEF DestructorAsserts
  <2>1. Reading = {} /\ Writing = {}
    BY DEF Reading, Writing
  <2>2. q = <<>>
    <3> SUFFICES ASSUME q # <<>> PROVE FALSE
      OBVIOUS
    <3>1. 1 \in 1..Len(q)
      BY EmptySeq DEF IInv, TypeOK
    <3>2. QED
      BY <3>1, QueuedThreads DEF IInv
  <2>3. QED
    BY <2>1, <2>2, ReadersFinite DEF IInv, Bookkeeping
<1>2. QED
  BY <1>1, Inductive, PTL DEF Spec

(* First come, first served: nobody is overtaken, however many threads ask. *)
THEOREM FirstComeFirstServed == Spec => NoOvertaking
<1> DEFINE Overtakes == \E t \in Threads : /\ t \notin Reading \cup Writing
                                         /\ t \in (Reading \cup Writing)'
                                         /\ q # <<>> /\ Head(q).sem # t
<1>1. IInv /\ [Next]_vars => ~ Overtakes
  <2> SUFFICES ASSUME IInv, [Next]_vars, NEW t \in Threads,
                      t \notin Reading \cup Writing,
                      t \in (Reading \cup Writing)',
                      q # <<>>, Head(q).sem # t
               PROVE  FALSE
    OBVIOUS
  <2>1. /\ pc[t] \notin {"reading", "writing"}
        /\ pc'[t] \in {"reading", "writing"}
    BY DEF Reading, Writing
  <2>2. PICK s \in Threads :
          \/ RLock(s) \/ WLock(s)
          \/ SemWait(s) \/ RLockWoken(s) \/ WLockWoken(s)
          \/ RUnlock(s) \/ WUnlock(s)
    BY <2>1 DEF Next, vars
  <2>3. q_in_use
    BY DEF IInv, Bookkeeping
  <2>4. pc[t] \notin {"r_woken", "w_woken"}
    BY DEF IInv, WokenIsFront
  <2>5. s = t
    BY <2>1, <2>2 DEF IInv, TypeOK, RLock, WLock, SemWait, RLockWoken, WLockWoken,
        RUnlock, WUnlock, Goto
  <2>6. pc'[t] \notin {"reading", "writing"}
    BY <2>2, <2>3, <2>4, <2>5 DEF IInv, TypeOK, RLock, WLock, SemWait, RLockWoken,
        WLockWoken, RUnlock, WUnlock, Goto
  <2>7. QED
    BY <2>1, <2>6
<1>2. ~ Overtakes =>
        [\A t \in Threads :
            t \notin Reading \cup Writing /\ t \in (Reading \cup Writing)' =>
                q = <<>> \/ Head(q).sem = t]_vars
  OBVIOUS
<1>3. QED
  BY <1>1, <1>2, Inductive, PTL DEF Spec, SafeSpec, NoOvertaking

-----------------------------------------------------------------------------
(* Two more facts, each inductive once IInv holds.                         *)

(* The head of the queue is kept out by a holder or has been woken. *)
LEMMA FrontIsWokenStep ==
    ASSUME IInv, FrontIsWoken, [Next]_vars
    PROVE  FrontIsWoken'
<1> USE DEF IInv
<1>1. CASE UNCHANGED vars
  BY <1>1 DEF vars, FrontIsWoken, Reading, Writing
<1>2. ASSUME NEW t \in Threads, pc[t] = "idle", q_in_use \/ readers > 0,
             NEW type \in RWLock_queue_t, Encolar(t, type), Goto(t, Wait(type)),
             q_in_use \/ type = "WRITER"
      PROVE  FrontIsWoken'
  <2>1. Writing' = Writing /\ Reading' = Reading
    BY <1>2 DEF Goto, Wait, TypeOK, Reading, Writing
  <2>2. CASE q = <<>>
    <3>1. Len(q') = 1 /\ Head(q') = [sem |-> t, type |-> type]
      BY <1>2, <2>2 DEF Encolar
    <3>2. Writing # {} \/ (Reading # {} /\ type = "WRITER")
      BY <1>2, <2>2, ReadersFinite DEF Bookkeeping
    <3>3. QED
      BY <2>1, <3>1, <3>2 DEF FrontIsWoken
  <2>3. CASE q # <<>>
    <3>1. Head(q') = Head(q)
      BY <1>2, <2>3 DEF Encolar, TypeOK
    <3>2. Head(q).sem \in Threads \ {t}
      <4>1. 1 \in 1..Len(q) /\ q[1] = Head(q)
        BY <2>3, EmptySeq DEF TypeOK
      <4>2. QED
        BY <1>2, <4>1, QueuedThreads
    <3>3. /\ pc'[Head(q).sem] = pc[Head(q).sem]
          /\ sem'[Head(q).sem] = sem[Head(q).sem]
      BY <1>2, <3>2 DEF Encolar, Goto, TypeOK
    <3>4. QED
      BY <2>1, <2>3, <3>1, <3>3 DEF FrontIsWoken
  <2>4. QED
    BY <2>2, <2>3
<1>3. ASSUME NEW t \in Threads, RLock(t) PROVE FrontIsWoken'
  <2>1. CASE q_in_use
    BY <1>2, <1>3, <2>1 DEF RLock, Wait, RWLock_queue_t
  <2>2. CASE ~ q_in_use
    BY <1>3, <2>2 DEF RLock, Bookkeeping, FrontIsWoken
  <2>3. QED
    BY <2>1, <2>2
<1>4. ASSUME NEW t \in Threads, WLock(t) PROVE FrontIsWoken'
  <2>1. CASE q_in_use \/ readers > 0
    BY <1>2, <1>4, <2>1 DEF WLock, Wait, RWLock_queue_t, TypeOK
  <2>2. CASE ~ q_in_use /\ readers = 0
    BY <1>4, <2>2 DEF WLock, Bookkeeping, FrontIsWoken
  <2>3. QED
    BY <1>4, <2>1, <2>2 DEF WLock
<1>5. ASSUME NEW t \in Threads, SemWait(t) PROVE FrontIsWoken'
  <2>1. Head(q).sem = t /\ q' = q
    BY <1>5 DEF SemWait, WokenIsFront
  <2>2. pc'[t] \in {"r_woken", "w_woken"}
    BY <1>5 DEF SemWait, Goto, TypeOK
  <2>3. QED
    BY <2>1, <2>2 DEF FrontIsWoken
<1>6. ASSUME NEW t \in Threads, RLockWoken(t), q' # <<>> PROVE FrontIsWoken'
  <2>1. t \in Reading'
    BY <1>6 DEF RLockWoken, Goto, TypeOK, Reading
  <2>2. q' \in Seq([sem : Threads, type : RWLock_queue_t])
    BY <1>6 DEF RLockWoken, desencolar_tope, TypeOK
  <2>3. Head(q').sem \in Threads /\ Head(q').type \in RWLock_queue_t
    BY <1>6, <2>2, HeadOfQueue
  <2>4. CASE Head(q').type = "WRITER"
    BY <2>1, <2>4 DEF FrontIsWoken
  <2>5. CASE Head(q').type = "READER"
    <3>1. destroy_q_sem(t) \in [Threads -> Nat]
      BY DEF TypeOK, destroy_q_sem
    <3>2. sem' = post(destroy_q_sem(t), Head(q').sem)
      BY <1>6, <2>5 DEF RLockWoken, despertar_si_reader
    <3>3. sem'[Head(q').sem] = destroy_q_sem(t)[Head(q').sem] + 1
      BY <2>3, <3>1, <3>2, Post
    <3>4. sem'[Head(q').sem] > 0
      BY <2>3, <3>1, <3>3
    <3>5. QED
      BY <3>4 DEF FrontIsWoken
  <2>6. QED
    BY <2>3, <2>4, <2>5 DEF RWLock_queue_t
<1>7. ASSUME NEW t \in Threads, WLockWoken(t) PROVE FrontIsWoken'
  <2>1. t \in Writing'
    BY <1>7 DEF WLockWoken, Goto, TypeOK, Writing
  <2>2. QED
    BY <2>1 DEF FrontIsWoken
<1>8. ASSUME NEW t \in Threads, RUnlock(t) \/ WUnlock(t), q # <<>>,
             sem' = despertar_prox(sem, q)
      PROVE  FrontIsWoken'
  <2>1. q' = q /\ Head(q).sem \in Threads
    BY <1>8, HeadOfQueue DEF RUnlock, WUnlock, TypeOK
  <2>2. sem'[Head(q).sem] = sem[Head(q).sem] + 1
    BY <1>8, <2>1, Post DEF despertar_prox, TypeOK
  <2>3. sem'[Head(q).sem] > 0
    BY <2>1, <2>2 DEF TypeOK
  <2>4. QED
    BY <2>1, <2>3 DEF FrontIsWoken
<1>9. ASSUME NEW t \in Threads, RUnlock(t), q # <<>>, readers' # 0
      PROVE  FrontIsWoken'
  <2>1. /\ Reading' = Reading \ {t}
        /\ IsFiniteSet(Reading')
        /\ Cardinality(Reading') = Cardinality(Reading) - 1
    BY <1>9, ReaderLeaves DEF RUnlock
  <2>2. Reading' # {}
    BY <1>9, <2>1, FS_EmptySet DEF Bookkeeping, RUnlock
  <2>3. q' = q /\ sem' = sem /\ Head(q).sem \in Threads /\ Writing = {}
    BY <1>9, HeadOfQueue DEF RUnlock, TypeOK, MutualExclusion, Reading
  <2>4. pc'[Head(q).sem] = pc[Head(q).sem] \/ Head(q).sem = t
    BY <1>9, <2>3 DEF RUnlock, Goto, TypeOK
  <2>5. pc[t] = "reading"
    BY <1>9 DEF RUnlock
  <2>6. QED
    BY <1>9, <2>2, <2>3, <2>4, <2>5 DEF FrontIsWoken
<1>10. ASSUME NEW t \in Threads, RUnlock(t) PROVE FrontIsWoken'
  <2>1. q' = q /\ (readers' = 0 => sem' = despertar_prox(sem, q))
    BY <1>10 DEF RUnlock
  <2>2. QED
    BY <1>8, <1>9, <1>10, <2>1 DEF FrontIsWoken
<1>11. ASSUME NEW t \in Threads, WUnlock(t) PROVE FrontIsWoken'
  <2>1. q' = q /\ sem' = despertar_prox(sem, q)
    BY <1>11 DEF WUnlock
  <2>2. QED
    BY <1>8, <1>11, <2>1 DEF FrontIsWoken
<1>12. ASSUME NEW t \in Threads, RLockWoken(t) PROVE FrontIsWoken'
  BY <1>6, <1>12 DEF FrontIsWoken
<1>13. QED
  BY <1>1, <1>3, <1>4, <1>5, <1>7, <1>10, <1>11, <1>12 DEF Next

(* No lost wakeup, for any number of threads. *)
THEOREM FrontWoken == Spec => []FrontIsWoken
<1>1. Init => FrontIsWoken
  BY DEF Init, FrontIsWoken
<1>2. IInv /\ FrontIsWoken /\ [Next]_vars => FrontIsWoken'
  BY FrontIsWokenStep
<1>3. QED
  BY <1>1, <1>2, Inductive, PTL DEF Spec, SafeSpec

(* The allocated semaphores stay those of the queued requests. *)
LEMMA SemaphoresStep ==
    ASSUME IInv, SemaphoresOfTheQueue, [Next]_vars
    PROVE  SemaphoresOfTheQueue'
<1> USE DEF IInv
<1>1. CASE UNCHANGED <<q, live>>
  BY <1>1 DEF SemaphoresOfTheQueue
<1>2. ASSUME NEW t \in Threads, NEW type \in RWLock_queue_t, Encolar(t, type)
      PROVE  SemaphoresOfTheQueue'
  <2>1. /\ Len(q') = Len(q) + 1 /\ Len(q) \in Nat
        /\ \A i \in 1..Len(q) : q'[i] = q[i]
        /\ q'[Len(q) + 1].sem = t
    BY <1>2 DEF Encolar, TypeOK
  <2>2. 1..Len(q') = 1..Len(q) \cup {Len(q) + 1}
    BY <2>1
  <2>3. live' = live \cup {t}
    BY <1>2 DEF Encolar
  <2>4. QED
    BY <2>1, <2>2, <2>3 DEF SemaphoresOfTheQueue
<1>3. ASSUME NEW t \in Threads, q # <<>>, Head(q).sem = t,
             q' = Tail(q), live' = live \ {t}
      PROVE  SemaphoresOfTheQueue'
  <2>1. /\ Len(q) \in Nat \ {0}
        /\ Len(q') = Len(q) - 1
        /\ \A i \in 1..Len(q') : q'[i] = q[i + 1]
        /\ q[1].sem = t
    BY <1>3, HeadTailProperties, EmptySeq DEF TypeOK
  <2>2. ASSUME NEW u \in live' PROVE \E i \in 1..Len(q') : q'[i].sem = u
    <3>1. PICK j \in 1..Len(q) : q[j].sem = u
      BY <1>3, <2>2 DEF SemaphoresOfTheQueue
    <3>2. j # 1
      BY <1>3, <2>1, <2>2, <3>1
    <3>3. j - 1 \in 1..Len(q') /\ (j - 1) + 1 = j
      BY <2>1, <3>1, <3>2
    <3>4. QED
      BY <2>1, <3>1, <3>3
  <2>3. ASSUME NEW i \in 1..Len(q') PROVE q'[i].sem \in live'
    <3>1. i + 1 \in 1..Len(q) /\ 1 \in 1..Len(q) /\ i + 1 # 1
      BY <2>1
    <3>2. q[i + 1].sem # q[1].sem
      BY <3>1 DEF QueueMatchesThreads
    <3>3. q[i + 1].sem \in live
      BY <3>1 DEF SemaphoresOfTheQueue
    <3>4. QED
      BY <1>3, <2>1, <3>2, <3>3
  <2>4. QED
    BY <2>2, <2>3 DEF SemaphoresOfTheQueue
<1>4. ASSUME NEW t \in Threads, RLockWoken(t) \/ WLockWoken(t)
      PROVE  SemaphoresOfTheQueue'
  <2>1. q # <<>> /\ Head(q).sem = t
    BY <1>4 DEF RLockWoken, WLockWoken, WokenIsFront
  <2>2. q' = Tail(q) /\ live' = live \ {t}
    BY <1>4, <2>1 DEF RLockWoken, WLockWoken, desencolar_tope
  <2>3. QED
    BY <1>3, <2>1, <2>2
<1>5. ASSUME NEW t \in Threads, RLock(t) \/ WLock(t)
      PROVE  SemaphoresOfTheQueue'
  <2>1. \/ Encolar(t, "READER") \/ Encolar(t, "WRITER")
        \/ UNCHANGED <<q, live>>
    BY <1>5 DEF RLock, WLock
  <2>2. QED
    BY <1>1, <1>2, <2>1 DEF RWLock_queue_t
<1>6. QED
  BY <1>1, <1>4, <1>5 DEF Next, vars, SemWait, RUnlock, WUnlock

(* No semaphore leaks, and none is posted after it was destroyed. *)
THEOREM Semaphores == Spec => []SemaphoresOfTheQueue
<1>1. Init => SemaphoresOfTheQueue
  BY DEF Init, SemaphoresOfTheQueue
<1>2. IInv /\ SemaphoresOfTheQueue /\ [Next]_vars => SemaphoresOfTheQueue'
  BY SemaphoresStep
<1>3. QED
  BY <1>1, <1>2, Inductive, PTL DEF Spec, SafeSpec

-----------------------------------------------------------------------------
(* The fair lock.                                                          *)

(* The abstract state of the threads and the abstract line. *)
Estado == [t \in Threads |-> AbstractState(pc[t])]
Fila   == [i \in 1..Len(q) |-> q[i].sem]

LEMMA Estados ==
    ASSUME TypeOK
    PROVE  /\ \A w \in PCs : /\ AbstractState(w) = "idle" <=> w = "idle"
                             /\ AbstractState(w) = "reading" <=> w = "reading"
                             /\ AbstractState(w) = "writing" <=> w = "writing"
                             /\ AbstractState(w) = "rwait" <=> w \in {"r_wait", "r_woken"}
                             /\ AbstractState(w) = "wwait" <=> w \in {"w_wait", "w_woken"}
           /\ Abstract!Reading = Reading /\ Abstract!Writing = Writing
<1>1. \A w \in PCs : /\ AbstractState(w) = "idle" <=> w = "idle"
                     /\ AbstractState(w) = "reading" <=> w = "reading"
                     /\ AbstractState(w) = "writing" <=> w = "writing"
                     /\ AbstractState(w) = "rwait" <=> w \in {"r_wait", "r_woken"}
                     /\ AbstractState(w) = "wwait" <=> w \in {"w_wait", "w_woken"}
  BY DEF PCs, AbstractState
<1>2. \A t \in Threads : pc[t] \in PCs
  BY DEF TypeOK
<1> QED BY <1>1, <1>2 DEF Abstract!Reading, Abstract!Writing, Reading, Writing

(* A thread that goes somewhere goes there in the abstract state too. *)
LEMMA Va ==
    ASSUME TypeOK, NEW t \in Threads, NEW where \in PCs, Goto(t, where)
    PROVE  Estado' = [Estado EXCEPT ![t] = AbstractState(where)]
<1>1. \A u \in Threads : pc'[u] = IF u = t THEN where ELSE pc[u]
  BY DEF TypeOK, Goto
<1>2. \A u \in Threads : Estado'[u] = IF u = t THEN AbstractState(where) ELSE Estado[u]
  BY <1>1 DEF Estado
<1> QED BY <1>2 DEF Estado

(* A sequence is the function that gives its elements. *)
LEMMA Elementos ==
    ASSUME NEW S, NEW s \in Seq(S), NEW f, DOMAIN f = 1..Len(s),
           f = [i \in DOMAIN f |-> f[i]],
           \A i \in 1..Len(s) : f[i] = s[i]
    PROVE  f = s
<1>1. s = [i \in 1..Len(s) |-> s[i]]
  OBVIOUS
<1> QED BY <1>1

(* The line of a queue: what is empty, first, last and left. *)
LEMMA FilaDe ==
    ASSUME TypeOK
    PROVE  /\ Fila = <<>> <=> q = <<>>
           /\ q # <<>> => Head(Fila) = Head(q).sem
           /\ q # <<>> /\ q' = Tail(q) => Fila' = Tail(Fila)
           /\ \A t \in Threads : \A type \in RWLock_queue_t :
                q' = Append(q, [sem |-> t, type |-> type]) => Fila' = Append(Fila, t)
<1> DEFINE R == [sem : Threads, type : RWLock_queue_t]
<1>1. q \in Seq(R) /\ Len(q) \in Nat /\ (q = <<>> <=> Len(q) = 0)
  BY EmptySeq DEF TypeOK
<1>2. \A i \in 1..Len(q) : q[i] \in R /\ q[i].sem \in Threads
  <2>1. \A x \in R : x.sem \in Threads
    OBVIOUS
  <2>2. \A i \in 1..Len(q) : q[i] \in R
    <3> HIDE DEF R
    <3> QED BY <1>1
  <2> QED BY <2>1, <2>2
<1>3. Fila \in Seq(Threads) /\ Len(Fila) = Len(q)
  BY <1>1, <1>2 DEF Fila
<1>4. Fila = <<>> <=> q = <<>>
  BY <1>1, <1>3, EmptySeq
<1>5. ASSUME q # <<>>
      PROVE  Head(Fila) = Head(q).sem
  BY <1>1, <1>3, <1>5 DEF Fila
<1>6. ASSUME q # <<>>, q' = Tail(q)
      PROVE  Fila' = Tail(Fila)
  <2>1. /\ Len(q') = Len(q) - 1 /\ Len(q) >= 1
        /\ \A i \in 1..(Len(q) - 1) : q'[i] = q[i + 1]
    BY <1>1, <1>6
  <2>2. /\ Len(Tail(Fila)) = Len(q) - 1 /\ Tail(Fila) \in Seq(Threads)
        /\ \A i \in 1..(Len(q) - 1) : Tail(Fila)[i] = Fila[i + 1]
    BY <1>1, <1>3, <1>4, <1>6
  <2>3. \A i \in 1..(Len(q) - 1) : i + 1 \in 1..Len(q)
    BY <1>1
  <2>4. Fila' = [i \in 1..(Len(q) - 1) |-> Fila[i + 1]]
    BY <2>1, <2>3 DEF Fila
  <2> DEFINE f == [i \in 1..(Len(q) - 1) |-> Fila[i + 1]]
  <2>5. f = Tail(Fila)
    <3>1. DOMAIN f = 1..Len(Tail(Fila)) /\ \A i \in 1..Len(Tail(Fila)) : f[i] = Tail(Fila)[i]
      BY <2>2
    <3>2. f = [i \in DOMAIN f |-> f[i]]
      OBVIOUS
    <3> HIDE DEF f
    <3> QED BY <2>2, <3>1, <3>2, Elementos
  <2> QED BY <2>4, <2>5
<1>7. ASSUME NEW t \in Threads, NEW type \in RWLock_queue_t,
             q' = Append(q, [sem |-> t, type |-> type])
      PROVE  Fila' = Append(Fila, t)
  <2>1. /\ Len(q') = Len(q) + 1 /\ q'[Len(q) + 1] = [sem |-> t, type |-> type]
        /\ \A i \in 1..Len(q) : q'[i] = q[i]
    BY <1>1, <1>7
  <2>2. Fila' = [i \in 1..(Len(q) + 1) |-> IF i \in 1..Len(q) THEN Fila[i] ELSE t]
    <3>1. \A i \in 1..(Len(q) + 1) : i \in 1..Len(q) \/ i = Len(q) + 1
      BY <1>1
    <3> QED BY <2>1, <3>1, <1>1 DEF Fila
  <2> DEFINE f == [i \in 1..(Len(q) + 1) |-> IF i \in 1..Len(q) THEN Fila[i] ELSE t]
             s == Append(Fila, t)
  <2>3. f = s
    <3>1. /\ s \in Seq(Threads) /\ Len(s) = Len(q) + 1 /\ s[Len(q) + 1] = t
          /\ \A i \in 1..Len(q) : s[i] = Fila[i]
      BY <1>1, <1>3
    <3>2. \A i \in 1..(Len(q) + 1) : f[i] = s[i]
      <4>1. \A i \in 1..(Len(q) + 1) : i \in 1..Len(q) \/ i = Len(q) + 1
        BY <1>1
      <4> QED BY <3>1, <4>1
    <3>3. DOMAIN f = 1..(Len(q) + 1) /\ f = [i \in DOMAIN f |-> f[i]]
      OBVIOUS
    <3> HIDE DEF f, s
    <3> QED BY <3>1, <3>2, <3>3, Elementos
  <2> QED BY <2>2, <2>3
<1> QED BY <1>4, <1>5, <1>6, <1>7

-----------------------------------------------------------------------------
(* One lemma for each kind of step.                                        *)

(* rlock: q_in_use tells whether somebody waits or writes. *)
LEMMA RLockEsRLock ==
    ASSUME IInv, NEW t \in Threads, RLock(t)
    PROVE  Abstract!RLock(t)
<1> USE DEF IInv
<1>1. Estado[t] = "idle"
  BY DEF RLock, AbstractState, Estado
<1>2. CASE ~ q_in_use
  <2>1. Fila = <<>> /\ Abstract!Writing = {}
    BY <1>2, FilaDe, Estados DEF Bookkeeping
  <2>2. Estado' = [Estado EXCEPT ![t] = "reading"]
    BY <1>2, Va DEF RLock, PCs, AbstractState
  <2>3. Fila' = Fila
    BY <1>2 DEF RLock, Fila
  <2> QED BY <1>1, <2>1, <2>2, <2>3 DEF Abstract!RLock, Estado, Fila
<1>3. CASE q_in_use
  <2>1. Fila # <<>> \/ Abstract!Writing # {}
    BY <1>3, FilaDe, Estados DEF Bookkeeping
  <2>2. Estado' = [Estado EXCEPT ![t] = "rwait"]
    BY <1>3, Va DEF RLock, PCs, AbstractState
  <2>3. Fila' = Append(Fila, t)
    BY <1>3, FilaDe DEF RLock, Encolar, RWLock_queue_t
  <2> QED BY <1>1, <2>1, <2>2, <2>3 DEF Abstract!RLock, Estado, Fila
<1> QED BY <1>2, <1>3

(* wlock: and readers tells whether somebody reads. *)
LEMMA WLockEsWLock ==
    ASSUME IInv, NEW t \in Threads, WLock(t)
    PROVE  Abstract!WLock(t)
<1> USE DEF IInv
<1>1. Estado[t] = "idle"
  BY DEF WLock, AbstractState, Estado
<1>2. q_in_use \/ readers > 0 <=> Fila # <<>> \/ Abstract!Writing # {} \/ Abstract!Reading # {}
  <2>1. readers > 0 <=> Reading # {}
    BY ReadersFinite DEF Bookkeeping, TypeOK
  <2> QED BY <2>1, FilaDe, Estados DEF Bookkeeping
<1>3. CASE ~ q_in_use /\ readers = 0
  <2>1. Fila = <<>> /\ Abstract!Writing = {} /\ Abstract!Reading = {}
    BY <1>2, <1>3
  <2>2. Estado' = [Estado EXCEPT ![t] = "writing"]
    BY <1>3, Va DEF WLock, PCs, AbstractState
  <2>3. Fila' = Fila
    BY <1>3 DEF WLock, Fila
  <2> QED BY <1>1, <2>1, <2>2, <2>3 DEF Abstract!WLock, Estado, Fila
<1>4. CASE q_in_use \/ readers > 0
  <2>1. Fila # <<>> \/ Abstract!Writing # {} \/ Abstract!Reading # {}
    BY <1>2, <1>4
  <2>2. Estado' = [Estado EXCEPT ![t] = "wwait"]
    <3>1. Goto(t, "w_wait")
      BY <1>4 DEF WLock, TypeOK
    <3> QED BY <3>1, Va DEF PCs, AbstractState
  <2>3. Fila' = Append(Fila, t)
    <3>1. q' = Append(q, [sem |-> t, type |-> "WRITER"])
      BY <1>4 DEF WLock, Encolar, TypeOK
    <3> QED BY <3>1, FilaDe DEF RWLock_queue_t
  <2> QED BY <1>1, <2>1, <2>2, <2>3 DEF Abstract!WLock, Estado, Fila
<1> QED BY <1>3, <1>4 DEF WLock, TypeOK

(* A thread that wakes takes itself out of the head of the line, with      *)
(* holders that let it in.                                                 *)
LEMMA DespertarEsGrant ==
    ASSUME IInv, NEW t \in Threads, RLockWoken(t) \/ WLockWoken(t)
    PROVE  Abstract!Grant(t)
<1> USE DEF IInv
<1>1. q # <<>> /\ Head(q).sem = t /\ Writing = {} /\ (Head(q).type = "WRITER" => Reading = {})
  BY DEF RLockWoken, WLockWoken, WokenIsFront
<1>2. Fila # <<>> /\ Head(Fila) = t /\ Fila' = Tail(Fila) /\ Abstract!Writing = {}
  BY <1>1, FilaDe, Estados DEF RLockWoken, WLockWoken, desencolar_tope
<1>3. CASE RLockWoken(t)
  <2>1. Estado[t] = "rwait" /\ Estado' = [Estado EXCEPT ![t] = "reading"]
    BY <1>3, Va DEF RLockWoken, PCs, AbstractState, Estado
  <2> QED BY <1>2, <2>1 DEF Abstract!Grant, Estado, Fila
<1>4. CASE WLockWoken(t)
  <2>1. Estado[t] = "wwait" /\ Estado' = [Estado EXCEPT ![t] = "writing"]
    BY <1>4, Va DEF WLockWoken, PCs, AbstractState, Estado
  <2>2. Head(q).type = "WRITER"
    <3>1. 1 \in 1..Len(q) /\ Head(q) = q[1]
      BY <1>1, EmptySeq DEF TypeOK
    <3>2. Head(q).type \in {"READER", "WRITER"}
      BY <1>1, HeadOfQueue DEF TypeOK, RWLock_queue_t
    <3>3. pc[t] = "w_woken" /\ (Head(q).type = "READER" => pc[t] \in {"r_wait", "r_woken"})
      BY <1>1, <1>4, <3>1 DEF QueueMatchesThreads, WLockWoken
    <3> QED BY <3>2, <3>3
  <2>3. Abstract!Reading = {}
    BY <1>1, <2>2, Estados
  <2> QED BY <1>2, <2>1, <2>3 DEF Abstract!Grant, Estado, Fila
<1> QED BY <1>3, <1>4

(* The semaphores are not seen. *)
LEMMA SemWaitNoSeVe ==
    ASSUME IInv, NEW t \in Threads, SemWait(t)
    PROVE  Estado' = Estado /\ Fila' = Fila
<1>1. Fila' = Fila
  BY DEF SemWait, Fila
<1>2. CASE pc[t] = "r_wait" /\ Goto(t, "r_woken")
  <2>1. Estado' = [Estado EXCEPT ![t] = "rwait"] /\ Estado[t] = "rwait"
    BY <1>2, Va DEF IInv, PCs, AbstractState, Estado
  <2> QED BY <1>1, <2>1 DEF Estado
<1>3. CASE pc[t] = "w_wait" /\ Goto(t, "w_woken")
  <2>1. Estado' = [Estado EXCEPT ![t] = "wwait"] /\ Estado[t] = "wwait"
    BY <1>3, Va DEF IInv, PCs, AbstractState, Estado
  <2> QED BY <1>1, <2>1 DEF Estado
<1> QED BY <1>2, <1>3 DEF SemWait

LEMMA UnlockEsUnlock ==
    ASSUME IInv, NEW t \in Threads, RUnlock(t) \/ WUnlock(t)
    PROVE  Abstract!Unlock(t)
<1>1. Estado[t] \in {"reading", "writing"} /\ Estado' = [Estado EXCEPT ![t] = "idle"]
  BY Va DEF IInv, RUnlock, WUnlock, PCs, AbstractState, Estado
<1>2. Fila' = Fila
  BY DEF RUnlock, WUnlock, Fila
<1> QED BY <1>1, <1>2 DEF Abstract!Unlock, Estado, Fila

-----------------------------------------------------------------------------

(* The safety part of ImplementsFairRWLock: readers share, a writer is     *)
(* alone, a request is granted at once only if nobody waits, and else when *)
(* it is the head of the line and the holders let it in.                   *)
THEOREM Simulates == SafeSpec => Abstract!Init /\ [][Abstract!Next]_<<Estado, Fila>>
<1>1. Init => Abstract!Init
  BY DEF Init, Abstract!Init, AbstractState
<1>2. IInv /\ [Next]_vars => [Abstract!Next]_<<Estado, Fila>>
  <2> SUFFICES ASSUME IInv, [Next]_vars PROVE [Abstract!Next]_<<Estado, Fila>>
    OBVIOUS
  <2>1. CASE UNCHANGED vars
    BY <2>1 DEF vars, Estado, Fila
  <2>2. CASE Next
    BY <2>2, RLockEsRLock, WLockEsWLock, DespertarEsGrant, SemWaitNoSeVe, UnlockEsUnlock
    DEF Next, Abstract!Next
  <2> QED BY <2>1, <2>2
<1> QED BY <1>1, <1>2, Inductive, PTL DEF SafeSpec

=============================================================================
