------------------------------- MODULE RWLock -------------------------------
(***************************************************************************)
(* The starvation-free read-write lock of tp2/src/backend-mt/RWLock.cpp.   *)
(*                                                                         *)
(* The mutex q_lock protects q, q_in_use and readers, and every critical   *)
(* section runs to its unlock without blocking, so a critical section is   *)
(* one action.  rlock and wlock are cut where the code lets go of q_lock:  *)
(* enqueue (RLock, WLock), sem_wait (SemWait), and the section that        *)
(* follows it (RLockWoken, WLockWoken).                                    *)
(*                                                                         *)
(* A queued request allocates a semaphore of its own and a thread has at   *)
(* most one request pending, so a semaphore is named by its thread.        *)
(***************************************************************************)
EXTENDS Integers, Sequences, FiniteSets

CONSTANT Threads

ASSUME ThreadsAssumption == IsFiniteSet(Threads)

VARIABLES
    q,         \* FIFO of requests, records [sem, type]
    q_in_use,  \* newcomers must queue
    readers,   \* how many hold the lock to read
    sem,       \* value of each thread's semaphore, 0 when it has none
    live,      \* the semaphores that are allocated
    pc         \* where each thread is

vars == <<q, q_in_use, readers, sem, live, pc>>

RWLock_queue_t == {"READER", "WRITER"}

PCs == {"idle",
        "r_wait", "r_woken", "reading",
        "w_wait", "w_woken", "writing"}

Reading == {t \in Threads : pc[t] = "reading"}
Writing == {t \in Threads : pc[t] = "writing"}

TypeOK ==
    /\ q \in Seq([sem : Threads, type : RWLock_queue_t])
    /\ q_in_use \in BOOLEAN
    /\ readers \in Nat
    /\ sem \in [Threads -> Nat]
    /\ live \subseteq Threads
    /\ pc \in [Threads -> PCs]

Init ==
    /\ q = <<>>
    /\ q_in_use = FALSE
    /\ readers = 0
    /\ sem = [t \in Threads |-> 0]
    /\ live = {}
    /\ pc = [t \in Threads |-> "idle"]

Goto(t, where) == pc' = [pc EXCEPT ![t] = where]

-----------------------------------------------------------------------------
(* Helpers of the queue.  The despertar operators give the semaphores s    *)
(* after waking the head of queue.                                         *)

post(s, t) == [s EXCEPT ![t] = @ + 1]

(* Mutant: the head is never woken. *)
DespertarNadie(s, queue) == s

despertar_prox(s, queue) == IF queue = <<>> THEN s ELSE post(s, Head(queue).sem)

despertar_si_reader(s, queue) ==
    IF queue # <<>> /\ Head(queue).type = "READER" THEN post(s, Head(queue).sem) ELSE s

(* Mutant: the newest request is taken out. *)
desencolar_ultimo == IF q = <<>> THEN q ELSE SubSeq(q, 1, Len(q) - 1)

desencolar_tope == IF q = <<>> THEN q ELSE Tail(q)

(* init_q_sem and encolar_reader / encolar_writer. *)
Encolar(t, type) ==
    /\ q' = Append(q, [sem |-> t, type |-> type])
    /\ sem' = [sem EXCEPT ![t] = 0]
    /\ live' = live \cup {t}

(* The value of a destroyed semaphore is 0 by convention. *)
destroy_q_sem(t) == [sem EXCEPT ![t] = 0]

-----------------------------------------------------------------------------
(* rlock *)

(* Mutant: a reader joins whenever no writer holds the lock. *)
RLockPrefersReaders(t) ==
    /\ pc[t] = "idle"
    /\ \/ /\ q_in_use /\ readers = 0
          /\ Encolar(t, "READER")
          /\ Goto(t, "r_wait")
          /\ UNCHANGED <<q_in_use, readers>>
       \/ /\ ~ q_in_use \/ readers > 0
          /\ readers' = readers + 1
          /\ Goto(t, "reading")
          /\ UNCHANGED <<q, q_in_use, sem, live>>

RLock(t) ==
    /\ pc[t] = "idle"
    /\ \/ /\ q_in_use
          /\ Encolar(t, "READER")
          /\ Goto(t, "r_wait")
          /\ UNCHANGED <<q_in_use, readers>>
       \/ /\ ~ q_in_use
          /\ readers' = readers + 1
          /\ Goto(t, "reading")
          /\ UNCHANGED <<q, q_in_use, sem, live>>

(* sem_wait returns, in rlock or in wlock. *)
SemWait(t) ==
    /\ sem[t] > 0
    /\ \/ pc[t] = "r_wait" /\ Goto(t, "r_woken")
       \/ pc[t] = "w_wait" /\ Goto(t, "w_woken")
    /\ sem' = [sem EXCEPT ![t] = @ - 1]
    /\ UNCHANGED <<q, q_in_use, readers, live>>

(* Mutant: the queue stays in use when its last reader leaves it. *)
RLockWokenKeepsQueue(t) ==
    /\ pc[t] = "r_woken"
    /\ q' = desencolar_tope
    /\ live' = live \ {t}
    /\ sem' = despertar_si_reader(destroy_q_sem(t), q')
    /\ readers' = readers + 1
    /\ Goto(t, "reading")
    /\ UNCHANGED q_in_use

(* Mutant: a reader that queued is not counted. *)
RLockWokenNotCounted(t) ==
    /\ pc[t] = "r_woken"
    /\ q' = desencolar_tope
    /\ live' = live \ {t}
    /\ q_in_use' = (q' # <<>> /\ q_in_use)
    /\ sem' = despertar_si_reader(destroy_q_sem(t), q')
    /\ Goto(t, "reading")
    /\ UNCHANGED readers

(* The turn of a queued reader: it leaves the queue and wakes the next     *)
(* request if that is a reader too.                                        *)
RLockWoken(t) ==
    /\ pc[t] = "r_woken"
    /\ q' = desencolar_tope
    /\ live' = live \ {t}
    /\ q_in_use' = (q' # <<>> /\ q_in_use)
    /\ sem' = despertar_si_reader(destroy_q_sem(t), q')
    /\ readers' = readers + 1
    /\ Goto(t, "reading")

-----------------------------------------------------------------------------
(* wlock *)

(* Mutant: the readers inside are not looked at. *)
WLockIgnoresReaders(t) ==
    /\ pc[t] = "idle"
    /\ \/ /\ q_in_use
          /\ Encolar(t, "WRITER")
          /\ Goto(t, "w_wait")
       \/ /\ ~ q_in_use
          /\ Goto(t, "writing")
          /\ UNCHANGED <<q, sem, live>>
    /\ q_in_use' = TRUE
    /\ UNCHANGED readers

(* Mutant: q_in_use is only set once the writer holds the lock. *)
WLockLateFlag(t) ==
    /\ pc[t] = "idle"
    /\ \/ /\ q_in_use \/ readers > 0
          /\ Encolar(t, "WRITER")
          /\ Goto(t, "w_wait")
          /\ UNCHANGED q_in_use
       \/ /\ ~ q_in_use /\ readers = 0
          /\ Goto(t, "writing")
          /\ q_in_use' = TRUE
          /\ UNCHANGED <<q, sem, live>>
    /\ UNCHANGED readers

WLock(t) ==
    /\ pc[t] = "idle"
    /\ \/ /\ q_in_use \/ readers > 0
          /\ Encolar(t, "WRITER")
          /\ Goto(t, "w_wait")
       \/ /\ ~ q_in_use /\ readers = 0
          /\ Goto(t, "writing")
          /\ UNCHANGED <<q, sem, live>>
    /\ q_in_use' = TRUE
    /\ UNCHANGED readers

(* Mutant: the writer forgets to destroy its semaphore. *)
WLockWokenLeaks(t) ==
    /\ pc[t] = "w_woken"
    /\ q' = desencolar_tope
    /\ q_in_use' = TRUE
    /\ Goto(t, "writing")
    /\ UNCHANGED <<readers, sem, live>>

(* The turn of a queued writer. *)
WLockWoken(t) ==
    /\ pc[t] = "w_woken"
    /\ q' = desencolar_tope
    /\ live' = live \ {t}
    /\ sem' = destroy_q_sem(t)
    /\ q_in_use' = TRUE
    /\ Goto(t, "writing")
    /\ UNCHANGED readers

-----------------------------------------------------------------------------
(* runlock and wunlock *)

(* Mutant: every reader that leaves wakes the head of the queue. *)
RUnlockAlwaysWakes(t) ==
    /\ pc[t] = "reading"
    /\ readers' = readers - 1
    /\ sem' = despertar_prox(sem, q)
    /\ Goto(t, "idle")
    /\ UNCHANGED <<q, q_in_use, live>>

RUnlock(t) ==
    /\ pc[t] = "reading"
    /\ readers' = readers - 1
    /\ sem' = IF readers' = 0 THEN despertar_prox(sem, q) ELSE sem
    /\ Goto(t, "idle")
    /\ UNCHANGED <<q, q_in_use, live>>

(* Mutant: the flag is cleared although requests are queued. *)
WUnlockClearsFlag(t) ==
    /\ pc[t] = "writing"
    /\ q_in_use' = FALSE
    /\ sem' = despertar_prox(sem, q)
    /\ Goto(t, "idle")
    /\ UNCHANGED <<q, readers, live>>

WUnlock(t) ==
    /\ pc[t] = "writing"
    /\ q_in_use' = (q # <<>> /\ q_in_use)
    /\ sem' = despertar_prox(sem, q)
    /\ Goto(t, "idle")
    /\ UNCHANGED <<q, readers, live>>

-----------------------------------------------------------------------------

Next ==
    \E t \in Threads :
        \/ RLock(t) \/ WLock(t)
        \/ SemWait(t) \/ RLockWoken(t) \/ WLockWoken(t)
        \/ RUnlock(t) \/ WUnlock(t)

(* Threads that hold the lock release it, and a thread that can run or     *)
(* take q_lock does so in the end.  Nobody is obliged to ask for the lock. *)
Fairness ==
    \A t \in Threads :
        /\ WF_vars(SemWait(t))
        /\ WF_vars(RLockWoken(t)) /\ WF_vars(WLockWoken(t))
        /\ WF_vars(RUnlock(t)) /\ WF_vars(WUnlock(t))

SafeSpec == Init /\ [][Next]_vars

Spec == SafeSpec /\ Fairness

-----------------------------------------------------------------------------
(* What the lock promises.                                                 *)

(* A writer holds the lock alone: no reader and no other writer is inside. *)
MutualExclusion ==
    \A t \in Writing : Writing = {t} /\ Reading = {}

(* The two variables rlock and wlock decide by tell the truth: readers is  *)
(* the number of threads inside to read, and q_in_use says exactly that    *)
(* someone is queued or a writer is inside.  A flag that stays up when the *)
(* lock is free stops it for ever, one that drops early lets a newcomer    *)
(* overtake the queue.                                                     *)
Bookkeeping ==
    /\ readers = Cardinality(Reading)
    /\ q_in_use <=> (q # <<>> \/ Writing # {})

(* "Yo soy el tope por invariante": whoever was woken is the head of the   *)
(* queue, so that the pop after sem_wait removes its own request, and the  *)
(* holders are compatible with it.                                         *)
WokenIsFront ==
    \A t \in Threads :
        sem[t] > 0 \/ pc[t] \in {"r_woken", "w_woken"} =>
            /\ q # <<>> /\ Head(q).sem = t
            /\ Writing = {}
            /\ Head(q).type = "WRITER" => Reading = {}

(* No lost wakeup: while a request is queued, either a holder keeps its    *)
(* head out, or the head has been woken.                                   *)
FrontIsWoken ==
    q # <<>> =>
        LET h == Head(q) IN
        \/ sem[h.sem] > 0
        \/ pc[h.sem] \in {"r_woken", "w_woken"}
        \/ Writing # {}
        \/ h.type = "WRITER" /\ Reading # {}

(* The queue holds one request of the right type for each thread that is   *)
(* inside rlock or wlock waiting, and nothing else.                        *)
QueueMatchesThreads ==
    /\ \A i, j \in 1..Len(q) : q[i].sem = q[j].sem => i = j
    /\ \A i \in 1..Len(q) :
          pc[q[i].sem] \in IF q[i].type = "READER" THEN {"r_wait", "r_woken"}
                                                  ELSE {"w_wait", "w_woken"}
    /\ \A t \in Threads :
          pc[t] \in {"r_wait", "r_woken", "w_wait", "w_woken"} =>
              \E i \in 1..Len(q) : q[i].sem = t

(* The allocated semaphores are those of the queued requests: none leaks,  *)
(* and no post can reach one that was destroyed.                           *)
SemaphoresOfTheQueue == live = {q[i].sem : i \in 1..Len(q)}

(* The three assertions of the destructor hold once nobody uses the lock.  *)
DestructorAsserts ==
    (\A t \in Threads : pc[t] = "idle") =>
        q = <<>> /\ readers = 0 /\ ~ q_in_use

(* Whoever gets the lock was the oldest request in the queue, or found it  *)
(* empty: nobody is overtaken by a later request.                          *)
NoOvertaking ==
    [][\A t \in Threads :
          t \notin Reading \cup Writing /\ t \in (Reading \cup Writing)' =>
              q = <<>> \/ Head(q).sem = t]_vars

(* No starvation: every request is granted, however many others arrive.    *)
EveryRequestGranted ==
    \A t \in Threads :
        /\ pc[t] = "r_wait" ~> pc[t] = "reading"
        /\ pc[t] = "w_wait" ~> pc[t] = "writing"

(* The report says of runlock that, when the last reader leaves and the    *)
(* queue is not empty, a writer is necessarily at its head.                *)
LastReaderWakesWriter ==
    [][\A t \in Threads :
          RUnlock(t) /\ readers' = 0 /\ q # <<>> => Head(q).type = "WRITER"]_vars

-----------------------------------------------------------------------------
(* The lock implements FairRWLock: a request waits in the abstract line    *)
(* from its enqueueing to its dequeueing.                                  *)

AbstractState(where) ==
    CASE where \in {"r_wait", "r_woken"} -> "rwait"
      [] where \in {"w_wait", "w_woken"} -> "wwait"
      [] OTHER -> where

Abstract == INSTANCE FairRWLock WITH
    state <- [t \in Threads |-> AbstractState(pc[t])],
    line  <- [i \in 1..Len(q) |-> q[i].sem]

(* Every behaviour of the lock is one of the fair lock, its fairness       *)
(* included.                                                               *)
ImplementsFairRWLock == Abstract!Spec
=============================================================================
