----------------------------- MODULE FairRWLock -----------------------------
(***************************************************************************)
(* What tp2's read-write lock promises, without queues of semaphores,      *)
(* flags or counters: several readers or one writer hold it, and requests  *)
(* are served in the order they were made.  A request that finds nobody    *)
(* waiting and a compatible holder is granted at once; any other waits in  *)
(* line, and the head of the line is granted as soon as it is compatible.  *)
(* RWLock implements it, and CasilleroLocks states the cells' locks by it. *)
(***************************************************************************)
EXTENDS Sequences

CONSTANT Threads

VARIABLES
    state,  \* what each thread is doing with the lock
    line    \* the threads that wait, oldest first

vars == <<state, line>>

States == {"idle", "rwait", "wwait", "reading", "writing"}

Reading == {t \in Threads : state[t] = "reading"}
Writing == {t \in Threads : state[t] = "writing"}

TypeOK == state \in [Threads -> States] /\ line \in Seq(Threads)

Init == state = [t \in Threads |-> "idle"] /\ line = <<>>

(* rlock: a reader is compatible with readers only. *)
RLock(t) ==
    /\ state[t] = "idle"
    /\ \/ /\ line = <<>> /\ Writing = {}
          /\ state' = [state EXCEPT ![t] = "reading"]
          /\ UNCHANGED line
       \/ /\ line # <<>> \/ Writing # {}
          /\ state' = [state EXCEPT ![t] = "rwait"]
          /\ line' = Append(line, t)

(* wlock: a writer is compatible with nobody. *)
WLock(t) ==
    /\ state[t] = "idle"
    /\ \/ /\ line = <<>> /\ Writing = {} /\ Reading = {}
          /\ state' = [state EXCEPT ![t] = "writing"]
          /\ UNCHANGED line
       \/ /\ line # <<>> \/ Writing # {} \/ Reading # {}
          /\ state' = [state EXCEPT ![t] = "wwait"]
          /\ line' = Append(line, t)

(* The oldest waiting request gets the lock. *)
Grant(t) ==
    /\ line # <<>> /\ Head(line) = t
    /\ Writing = {}
    /\ \/ /\ state[t] = "rwait"
          /\ state' = [state EXCEPT ![t] = "reading"]
       \/ /\ state[t] = "wwait" /\ Reading = {}
          /\ state' = [state EXCEPT ![t] = "writing"]
    /\ line' = Tail(line)

Unlock(t) ==
    /\ state[t] \in {"reading", "writing"}
    /\ state' = [state EXCEPT ![t] = "idle"]
    /\ UNCHANGED line

Next == \E t \in Threads : RLock(t) \/ WLock(t) \/ Grant(t) \/ Unlock(t)

Fairness == \A t \in Threads : WF_vars(Grant(t)) /\ WF_vars(Unlock(t))

Spec == Init /\ [][Next]_vars /\ Fairness
=============================================================================
