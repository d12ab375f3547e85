---------------------------- MODULE MCRWLockCalls ----------------------------
(* RWLock where thread t makes at most Requests[t] calls that take or       *)
(* upgrade the lock: every call then has to come to an end.                *)
EXTENDS RWLock

CONSTANT Requests

(* One thread that upgrades, one that takes the lock twice, one waiter of  *)
(* each kind.                                                              *)
FewCalls == [t1 |-> 2, t2 |-> 2, t3 |-> 1, t4 |-> 1]

VARIABLE left   \* how many requests each thread may still make

MCInit == Init /\ left = Requests

MCNext ==
  \E t \in Threads :
    \/ /\ left[t] > 0
       /\ Acquire(t)
       /\ left' = [left EXCEPT ![t] = @ - 1]
    \/ (Wait(t) \/ SpuriousWake(t) \/ Unlock(t)) /\ UNCHANGED left

(* A woken or expired thread gets the mutex back, and whoever holds the    *)
(* lock gives it back in the end, as every caller in psql.c does.          *)
Fairness == \A t \in Threads :
  /\ WF_<<vars, left>>((Resume(t) \/ TimeoutRead(t) \/ TimeoutWrite(t)) /\ UNCHANGED left)
  /\ WF_<<vars, left>>(Unlock(t) /\ UNCHANGED left)

FairSpec == MCInit /\ [][MCNext]_<<vars, left>> /\ Fairness

(* Every call returns: no thread sleeps forever in a lock that the others  *)
(* have given back, with no help from deadlines or spurious wake-ups.      *)
EveryCallReturns ==
  \A t \in Threads : (call[t] # "none") ~> (call[t] = "none")
=============================================================================
