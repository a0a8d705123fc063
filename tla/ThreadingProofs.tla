-------------------------- MODULE ThreadingProofs --------------------------
(***************************************************************************)
(* Proofs about Threading, for any number of threads.                      *)
(***************************************************************************)
EXTENDS Threading, TLAPS

TypeInv ==
    /\ mutex \in Threads \cup {Caller, NoThread}
    /\ started \in [Threads -> {"none", "true", "false"}]
    /\ data \in [Threads -> {"none", "allocated", "freed"}]
    /\ complete \in [Threads -> BOOLEAN]
    /\ tpc \in [Threads -> {"none", "sleep", "lock", "hold", "unlock",
                            "complete", "returned"}]
    /\ joined \in [Threads -> {"none", "true", "false"}]

(* A thread holds the mutex exactly between taking and releasing it.       *)
MutexInv == \A t \in Threads : mutex = t <=> tpc[t] \in {"hold", "unlock"}

(* A thread exists exactly if its call returned true, its data is freed    *)
(* exactly when it has been joined, and it is joined after its last store. *)
LifeInv ==
    \A t \in Threads :
        /\ started[t] = "true" <=> tpc[t] # "none"
        /\ started[t] = "none" => data[t] = "none"
        /\ tpc[t] = "returned" => complete[t]
        /\ joined[t] # "none" => tpc[t] = "returned" /\ joined[t] = "true"
        /\ tpc[t] # "none" =>
             data[t] = IF joined[t] = "none" THEN "allocated" ELSE "freed"

IInv == TypeInv /\ MutexInv /\ LifeInv

(* The invariant holds before any thread is started.                       *)
LEMMA InvInit == Init => IInv
<1> QED BY ThreadingAssumption DEF Init, IInv, TypeInv, MutexInv, LifeInv

(* Every step of the threads and the caller keeps it.                      *)
LEMMA InvStep == IInv /\ [Next]_vars => IInv'
<1> SUFFICES ASSUME IInv, [Next]_vars PROVE IInv'
  OBVIOUS
<1> USE ThreadingAssumption DEF IInv, TypeInv, MutexInv, LifeInv
<1>1. ASSUME NEW t \in Threads, NoMemory(t) PROVE IInv'
  BY <1>1 DEF NoMemory
<1>2. ASSUME NEW t \in Threads, Start(t) PROVE IInv'
  BY <1>2 DEF Start
<1>3. ASSUME NEW t \in Threads, StartFails(t) PROVE IInv'
  BY <1>3 DEF StartFails
<1>4. ASSUME NEW t \in Threads, Wake(t) PROVE IInv'
  BY <1>4 DEF Wake
<1>5. ASSUME NEW t \in Threads, LockMutex(t) PROVE IInv'
  BY <1>5 DEF LockMutex
<1>6. ASSUME NEW t \in Threads, UnlockMutex(t) PROVE IInv'
  BY <1>6 DEF UnlockMutex
<1>7. ASSUME NEW t \in Threads, Complete(t) PROVE IInv'
  BY <1>7 DEF Complete
<1>8. ASSUME NEW t \in Threads, CallerJoins(t) PROVE IInv'
  BY <1>8 DEF CallerJoins
<1>9. ASSUME NEW t \in Threads, JoinReturns(t) PROVE IInv'
  BY <1>9 DEF JoinReturns
<1>10. CASE CallerLocks
  BY <1>10 DEF CallerLocks
<1>11. CASE CallerUnlocks
  BY <1>11 DEF CallerUnlocks
<1>12. CASE UNCHANGED vars
  BY <1>12 DEF vars
<1> QED BY <1>1, <1>2, <1>3, <1>4, <1>5, <1>6, <1>7, <1>8, <1>9, <1>10, <1>11,
           <1>12 DEF Next, ThreadStep, Finished

(* Whoever joins a thread of start_thread_obtaining_mutex() finds its      *)
(* success and its data, and the mutex no longer its, however many threads *)
(* compete for it and whichever calls fail.                                *)
THEOREM JoinCorrect == Spec => []JoinFindsSuccess
<1>1. IInv => JoinFindsSuccess
  BY DEF IInv, TypeInv, MutexInv, LifeInv, JoinFindsSuccess
<1> QED BY <1>1, InvInit, InvStep, PTL DEF Spec
=============================================================================
