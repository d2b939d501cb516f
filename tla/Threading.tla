----------------------------- MODULE Threading -----------------------------
(***************************************************************************)
(* examples/threading/threading.c: start_thread_obtaining_mutex starts a   *)
(* thread that waits, obtains the mutex, holds it for a while and releases *)
(* it.  Several threads of a program may call it at once, each for a       *)
(* thread of its own and all with one mutex; what it is given back is kept *)
(* in a global, myThread, on the way to its caller.                        *)
(***************************************************************************)
EXTENDS Naturals

CONSTANTS
    Caller,      \* each starts one thread, which has its caller's name here
    Faults,      \* TRUE if pthread_create may fail and a signal end a usleep
    None

VARIABLES
    myThread,
    thread,      \* what *thread of each caller was filled with
    caller, tp,  \* where callers and threads are
    mutex,       \* the thread that holds the mutex, or None
    thread_complete_success,
    data         \* the thread_data of each caller: "none", "used", "freed"

vars == <<myThread, thread, caller, tp, mutex, thread_complete_success, data>>

Init ==
    /\ myThread = None
    /\ thread = [c \in Caller |-> None]
    /\ caller = [c \in Caller |-> "call"] /\ tp = [c \in Caller |-> "none"]
    /\ mutex = None
    /\ thread_complete_success = [c \in Caller |-> FALSE]
    /\ data = [c \in Caller |-> "none"]

-----------------------------------------------------------------------------
(* start_thread_obtaining_mutex: the thread runs before its caller goes on. *)
Create(c) ==
    /\ caller[c] = "call"
    /\ caller' = [caller EXCEPT ![c] = "created"]
    /\ myThread' = c
    /\ tp' = [tp EXCEPT ![c] = "wait_to_obtain"]
    /\ data' = [data EXCEPT ![c] = "used"]
    /\ UNCHANGED <<thread, mutex, thread_complete_success>>

CreateFails(c) ==
    /\ Faults /\ caller[c] = "call"
    /\ caller' = [caller EXCEPT ![c] = "false"]
    /\ data' = [data EXCEPT ![c] = "used"]
    /\ UNCHANGED <<myThread, thread, tp, mutex, thread_complete_success>>

Fill(c) ==
    /\ caller[c] = "created"
    /\ caller' = [caller EXCEPT ![c] = "true"]
    /\ thread' = [thread EXCEPT ![c] = myThread]
    /\ UNCHANGED <<myThread, tp, mutex, thread_complete_success, data>>

-----------------------------------------------------------------------------
(* threadfunc.  A usleep or a call on the mutex that fails ends the thread  *)
(* there and then.                                                          *)
Goes(t, from, to) == tp[t] = from /\ tp' = [tp EXCEPT ![t] = to]

Slept(t, from, to) ==
    /\ Goes(t, from, to)
    /\ UNCHANGED <<myThread, thread, caller, mutex, thread_complete_success, data>>

WaitToObtain(t) == Slept(t, "wait_to_obtain", "lock")

Interrupted(t) ==
    Faults /\ \/ Slept(t, "wait_to_obtain", "exited")
              \/ Slept(t, "wait_to_release", "exited")

MayLock_Unchecked(t) == TRUE                      \* slip: a trylock, rc not looked at
MayLock(t) == mutex = None

Lock(t) ==
    /\ MayLock(t) /\ Goes(t, "lock", "wait_to_release")
    /\ mutex' = t
    /\ UNCHANGED <<myThread, thread, caller, thread_complete_success, data>>

WaitToRelease(t) == Slept(t, "wait_to_release", "unlock")

Released_Kept(t) == mutex                         \* slip: left without unlocking
Released(t) == None

Unlock(t) ==
    /\ Goes(t, "unlock", "complete")
    /\ mutex' = Released(t)
    /\ UNCHANGED <<myThread, thread, caller, thread_complete_success, data>>

Complete(t) ==
    /\ Goes(t, "complete", "exited")
    /\ thread_complete_success' = [thread_complete_success EXCEPT ![t] = TRUE]
    /\ UNCHANGED <<myThread, thread, caller, mutex, data>>

(* The caller joins the thread it was given, and frees what that returned.  *)
Join(c) ==
    /\ caller[c] = "true" /\ tp[thread[c]] = "exited"
    /\ caller' = [caller EXCEPT ![c] = "joined"]
    /\ data' = [data EXCEPT ![thread[c]] = "freed"]
    /\ UNCHANGED <<myThread, thread, tp, mutex, thread_complete_success>>

-----------------------------------------------------------------------------
Starting(c) == Create(c) \/ CreateFails(c) \/ Fill(c)

ThreadFunc(t) ==
    \/ WaitToObtain(t) \/ Interrupted(t) \/ Lock(t) \/ WaitToRelease(t)
    \/ Unlock(t) \/ Complete(t)

Next == \E c \in Caller : Starting(c) \/ ThreadFunc(c) \/ Join(c)

Spec == Init /\ [][Next]_vars

(* Callers and threads run on. *)
FairSpec == Spec /\ \A c \in Caller : WF_vars(Starting(c)) /\ WF_vars(ThreadFunc(c))

-----------------------------------------------------------------------------
(***************************************************************************)
(* Types; a caller that is told TRUE has been given a thread, and what is  *)
(* freed belonged to a thread that is over.                                *)
(***************************************************************************)
TypeOK ==
    /\ myThread \in Caller \cup {None} /\ thread \in [Caller -> Caller \cup {None}]
    /\ \A c \in Caller : caller[c] \in {"true", "joined"} <=> thread[c] # None
    /\ caller \in [Caller -> {"call", "created", "true", "false", "joined"}]
    /\ mutex \in Caller \cup {None}
    /\ \A c \in Caller : data[c] = "freed" => tp[c] = "exited"

(***************************************************************************)
(* Only one thread at a time is between obtaining and releasing the mutex, *)
(* and one that reports success has been there and has left.               *)
(***************************************************************************)
Holding == {t \in Caller : tp[t] \in {"wait_to_release", "unlock"}}

OneHolds ==
    /\ \A t, u \in Holding : t = u
    /\ \A t \in Caller : thread_complete_success[t] => mutex # t

(***************************************************************************)
(* Where nothing fails, every thread that is started comes to its success. *)
(***************************************************************************)
StartedSucceeds(c) == tp[c] = "wait_to_obtain" ~> thread_complete_success[c]

-----------------------------------------------------------------------------
(* The code's texts also state what follows, which the code does not keep: *)
(* TLC refutes each of them.                                               *)

(***************************************************************************)
(* "If a thread was started succesfully thread should be filled with the   *)
(* pthread_create thread ID coresponding to the thread which was started"  *)
(* (threading.h:125).                                                      *)
(***************************************************************************)
FilledWithOwn == \A c \in Caller : thread[c] # None => thread[c] = c

(***************************************************************************)
(* "then holds for wait_to_release_ms milliseconds, then releases"         *)
(* (threading.h:117): no thread is gone that has not released the mutex.   *)
(***************************************************************************)
NoneExitsHolding == \A t \in Caller : mutex = t => tp[t] # "exited"
=============================================================================
