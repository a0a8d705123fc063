----------------------------- MODULE Threading -----------------------------
(***************************************************************************)
(* examples/threading: start_thread_obtaining_mutex() gives a new thread a *)
(* thread_data on the heap; the thread sleeps, takes the mutex, sleeps,    *)
(* releases it, notes its success there and returns it to whoever joins,   *)
(* to be read and freed.  The caller may itself hold the mutex for a time. *)
(*                                                                         *)
(* A sleep may last any time: the module says nothing about how long.      *)
(***************************************************************************)
EXTENDS Naturals

CONSTANTS
    Threads,   \* calls of start_thread_obtaining_mutex(), one thread each
    Caller,    \* the thread that makes the calls and joins the threads
    NoThread,  \* "nobody"
    MaxHolds   \* bound: times the caller takes the mutex itself

ASSUME ThreadingAssumption ==
    /\ Caller \notin Threads
    /\ NoThread \notin Threads \cup {Caller}
    /\ MaxHolds \in Nat

VARIABLES
    mutex,     \* the thread that holds the mutex, or NoThread
    started,   \* what each call has returned: "none", "true" or "false"
    data,      \* its thread_data: "none", "allocated" or "freed"
    complete,  \* thread_complete_success in it
    tpc,       \* what the thread does next; "none" before it exists
    joining,   \* the thread the caller is joining, or NoThread
    joined,    \* what each join has found in thread_complete_success
    holds      \* times the caller has taken the mutex

vars == <<mutex, started, data, complete, tpc, joining, joined, holds>>

-----------------------------------------------------------------------------
(* start_thread_obtaining_mutex()                                          *)

(* malloc() fails.                                                         *)
NoMemory(t) ==
    /\ joining = NoThread /\ started[t] = "none"
    /\ started' = [started EXCEPT ![t] = "false"]
    /\ UNCHANGED <<mutex, data, complete, tpc, joining, joined, holds>>

(* pthread_create() succeeds.  thread_complete_success is not initialized. *)
Start(t) ==
    /\ joining = NoThread /\ started[t] = "none"
    /\ started' = [started EXCEPT ![t] = "true"]
    /\ data' = [data EXCEPT ![t] = "allocated"]
    /\ \E garbage \in BOOLEAN : complete' = [complete EXCEPT ![t] = garbage]
    /\ tpc' = [tpc EXCEPT ![t] = "sleep"]
    /\ UNCHANGED <<mutex, joining, joined, holds>>

(* pthread_create() fails.  What malloc() gave is not freed.               *)
StartFails(t) ==
    /\ joining = NoThread /\ started[t] = "none"
    /\ started' = [started EXCEPT ![t] = "false"]
    /\ data' = [data EXCEPT ![t] = "allocated"]
    /\ UNCHANGED <<mutex, complete, tpc, joining, joined, holds>>

-----------------------------------------------------------------------------
(* threadfunc()                                                            *)

(* nanosleep() returns: when the time is over, when a signal handler has   *)
(* run, or at once if it is told more than a second.                       *)
Wake(t) ==
    /\ \/ tpc[t] = "sleep" /\ tpc' = [tpc EXCEPT ![t] = "lock"]
       \/ tpc[t] = "hold"  /\ tpc' = [tpc EXCEPT ![t] = "unlock"]
    /\ UNCHANGED <<mutex, started, data, complete, joining, joined, holds>>

LockMutex(t) ==
    /\ tpc[t] = "lock"
    /\ mutex = NoThread
    /\ mutex' = t
    /\ tpc' = [tpc EXCEPT ![t] = "hold"]
    /\ UNCHANGED <<started, data, complete, joining, joined, holds>>

(* Mutant: the mutex is not released.                                      *)
UnlockForgotten(t) ==
    /\ tpc[t] = "unlock"
    /\ tpc' = [tpc EXCEPT ![t] = "complete"]
    /\ UNCHANGED <<mutex, started, data, complete, joining, joined, holds>>

UnlockMutex(t) ==
    /\ tpc[t] = "unlock"
    /\ mutex' = NoThread
    /\ tpc' = [tpc EXCEPT ![t] = "complete"]
    /\ UNCHANGED <<started, data, complete, joining, joined, holds>>

(* Mutant: the success is not noted.                                       *)
CompleteForgotten(t) ==
    /\ tpc[t] = "complete"
    /\ tpc' = [tpc EXCEPT ![t] = "returned"]
    /\ UNCHANGED <<mutex, started, data, complete, joining, joined, holds>>

(* thread_complete_success = true; return thread_param                     *)
Complete(t) ==
    /\ tpc[t] = "complete"
    /\ complete' = [complete EXCEPT ![t] = TRUE]
    /\ tpc' = [tpc EXCEPT ![t] = "returned"]
    /\ UNCHANGED <<mutex, started, data, joining, joined, holds>>

ThreadStep(t) == Wake(t) \/ LockMutex(t) \/ UnlockMutex(t) \/ Complete(t)

-----------------------------------------------------------------------------
(* The caller (external).  It joins each thread it was told was started,   *)
(* once, and not while it holds the mutex itself; threading.h: "which can  *)
(* be used to free memory as well as to check thread_complete_success".    *)

CallerLocks ==
    /\ joining = NoThread /\ mutex = NoThread /\ holds < MaxHolds
    /\ mutex' = Caller
    /\ holds' = holds + 1
    /\ UNCHANGED <<started, data, complete, tpc, joining, joined>>

CallerUnlocks ==
    /\ mutex = Caller
    /\ mutex' = NoThread
    /\ UNCHANGED <<started, data, complete, tpc, joining, joined, holds>>

CallerJoins(t) ==
    /\ joining = NoThread /\ mutex # Caller
    /\ started[t] = "true" /\ joined[t] = "none"
    /\ joining' = t
    /\ UNCHANGED <<mutex, started, data, complete, tpc, joined, holds>>

JoinReturns(t) ==
    /\ joining = t /\ tpc[t] = "returned"
    /\ joining' = NoThread
    /\ joined' = [joined EXCEPT ![t] = IF complete[t] THEN "true" ELSE "false"]
    /\ data' = [data EXCEPT ![t] = "freed"]
    /\ UNCHANGED <<mutex, started, complete, tpc, holds>>

-----------------------------------------------------------------------------
Init ==
    /\ mutex = NoThread
    /\ started = [t \in Threads |-> "none"]
    /\ data = [t \in Threads |-> "none"]
    /\ complete = [t \in Threads |-> FALSE]
    /\ tpc = [t \in Threads |-> "none"]
    /\ joining = NoThread
    /\ joined = [t \in Threads |-> "none"]
    /\ holds = 0

Finished ==
    /\ mutex = NoThread /\ joining = NoThread
    /\ \A t \in Threads : started[t] # "none" /\ tpc[t] \in {"none", "returned"}
    /\ UNCHANGED vars

Next ==
    \/ \E t \in Threads : \/ NoMemory(t) \/ Start(t) \/ StartFails(t)
                          \/ ThreadStep(t) \/ CallerJoins(t) \/ JoinReturns(t)
    \/ CallerLocks \/ CallerUnlocks
    \/ Finished

(* Every thread is scheduled; the caller releases the mutex.               *)
Fairness ==
    /\ \A t \in Threads : WF_vars(ThreadStep(t))
    /\ WF_vars(CallerUnlocks)

Spec == Init /\ [][Next]_vars

FairSpec == Spec /\ Fairness

-----------------------------------------------------------------------------
(* Properties                                                              *)

(* Whoever joins a thread finds true in thread_complete_success, though    *)
(* nobody initialized it, and then the thread has released the mutex.  The *)
(* data is there as long as the thread uses it, is freed by the join only, *)
(* and data that nobody is left to free was that of a call which failed.   *)
JoinFindsSuccess ==
    \A t \in Threads :
        /\ joined[t] # "none" => joined[t] = "true" /\ mutex # t
        /\ tpc[t] # "none" =>
             data[t] = IF joined[t] = "none" THEN "allocated" ELSE "freed"
        /\ (data[t] = "allocated" /\ tpc[t] = "none") => started[t] = "false"

(* A thread that was started takes the mutex, releases it and returns,     *)
(* whatever the other threads and the caller do with the mutex meanwhile,  *)
(* even if the caller waits for another thread.                            *)
ThreadsComplete == \A t \in Threads : tpc[t] = "sleep" ~> tpc[t] = "returned"
=============================================================================
