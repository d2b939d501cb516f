-------------------------------- MODULE Jiq --------------------------------
(***************************************************************************)
(* misc-modules/jiq.c: files whose content is printed by a job, which      *)
(* queues itself again after each line until the page is full and then     *)
(* wakes the reader; the file of the timer has two lines, one of which the *)
(* reader prints.  There is one jiq_data for all of them, and no lock.     *)
(***************************************************************************)
EXTENDS Naturals

CONSTANTS
    Reader,      \* processes that read a file once
    Files,       \* "wq", "delayed", "tasklet", "timer", each the name of its job too
    LIMIT,       \* lines that fit
    Signals,     \* TRUE if a signal may wake a reader
    None

VARIABLES
    len, m,                  \* of jiq_data: lines printed, and the reader printed for
    queued,                  \* jobs that are scheduled
    waiting,                 \* readers on jiq_wait
    pc, file,                \* of a reader
    jpc, jlen, jm,           \* of a job: where it is, and the len and m it read
    broken                   \* a timer was set up while it was in the wheel

dataVars   == <<len, m, queued, waiting>>
readerVars == <<pc, file>>
jobVars    == <<jpc, jlen, jm, broken>>
vars       == <<dataVars, readerVars, jobVars>>

(* Whoever calls jiq_print. *)
Printer == Files \cup Reader

Init ==
    /\ len = 0 /\ m = None /\ queued = {} /\ waiting = {}
    /\ pc = [r \in Reader |-> "idle"] /\ file = [r \in Reader |-> None]
    /\ jpc = [j \in Printer |-> "idle"]
    /\ jlen = [j \in Printer |-> 0] /\ jm = [j \in Printer |-> None]
    /\ broken = FALSE

-----------------------------------------------------------------------------
(* jiq_read_wq_show, jiq_read_wq_delayed_show, jiq_read_tasklet_show. *)
Go(r, from, to) == pc[r] = from /\ pc' = [pc EXCEPT ![r] = to]

ReadLen(r) ==
    /\ Go(r, "idle", "place")
    /\ \E f \in Files : file' = [file EXCEPT ![r] = f]
    /\ len' = 0
    /\ UNCHANGED <<m, queued, waiting, jobVars>>

ReadPlace(r) ==
    /\ Go(r, "place", "prepare")
    /\ m' = r
    /\ UNCHANGED <<len, queued, waiting, file, jobVars>>

(* A work queue's reader is on the queue before it schedules the job. *)
Prepared(r) == file[r] \notin {"tasklet", "timer"}

Prepare(r) ==
    /\ file[r] # "timer" /\ Go(r, "prepare", "schedule")
    /\ waiting' = IF Prepared(r) THEN waiting \cup {r} ELSE waiting
    /\ UNCHANGED <<len, m, queued, file, jobVars>>

Schedule(r) ==
    /\ Go(r, "schedule", "sleep")
    /\ queued' = queued \cup {file[r]}
    /\ waiting' = IF Prepared(r) THEN waiting ELSE waiting \cup {r}
    /\ UNCHANGED <<len, m, file, jobVars>>

(* The work queue's reader goes on when it is woken; the others wait for a *)
(* condition that is always false, and so are back on the queue.           *)
Woken(r) ==
    /\ r \notin waiting
    /\ IF Prepared(r)
       THEN Go(r, "sleep", "done") /\ UNCHANGED waiting
       ELSE pc[r] = "sleep" /\ waiting' = waiting \cup {r} /\ UNCHANGED pc
    /\ UNCHANGED <<len, m, queued, file, jobVars>>

Signal(r) ==
    /\ Signals /\ Go(r, "sleep", IF file[r] = "timer" THEN "unset" ELSE "done")
    /\ waiting' = waiting \ {r}
    /\ UNCHANGED <<len, m, queued, file, jobVars>>

-----------------------------------------------------------------------------
(* A job: jiq_print, and back to its queue if that printed a line. *)
Job(j, from, to) == jpc[j] = from /\ jpc' = [jpc EXCEPT ![j] = to]

JobBegin(j) ==
    /\ j \in queued /\ Job(j, "idle", "print")
    /\ queued' = queued \ {j}
    /\ jlen' = [jlen EXCEPT ![j] = len] /\ jm' = [jm EXCEPT ![j] = m]
    /\ UNCHANGED <<len, m, waiting, readerVars, broken>>

StillWaiting_One == waiting \ {m}                 \* slip: only the reader in jiq_data
StillWaiting == {}

Full(n) == n > LIMIT

JobFull(j) ==
    /\ Full(jlen[j]) /\ Job(j, "print", "idle")
    /\ waiting' = StillWaiting
    /\ UNCHANGED <<len, m, queued, readerVars, jlen, jm, broken>>

Again_Full(j) == IF len' > LIMIT THEN queued ELSE queued \cup {j}  \* slip: not to find it full
Again(j) == queued \cup {j}

JobPrint(j) ==
    /\ ~Full(jlen[j]) /\ Job(j, "print", "idle")
    /\ len' = IF Full(len) THEN len ELSE len + 1
    /\ queued' = Again(j)
    /\ UNCHANGED <<m, waiting, readerVars, jlen, jm, broken>>

-----------------------------------------------------------------------------
(***************************************************************************)
(* jiq_read_run_timer_show, from timer_setup on, and jiq_timedout, which   *)
(* wakes whoever waits after its line.  Both call jiq_print.               *)
(***************************************************************************)
TimerSetUp(r) ==
    /\ file[r] = "timer" /\ Go(r, "prepare", "print")
    /\ broken' = ("timer" \in queued)
    /\ jlen' = [jlen EXCEPT ![r] = len] /\ jm' = [jm EXCEPT ![r] = m]
    /\ UNCHANGED <<dataVars, file, jpc>>

TimerPrint(r) ==
    /\ Go(r, "print", "schedule")
    /\ IF Full(jlen[r]) THEN waiting' = {} /\ UNCHANGED len
       ELSE len' = (IF Full(len) THEN len ELSE len + 1) /\ UNCHANGED waiting
    /\ UNCHANGED <<m, queued, file, jobVars>>

TimedOut ==
    /\ Job("timer", "print", "idle")
    /\ len' = IF Full(jlen["timer"]) \/ Full(len) THEN len ELSE len + 1
    /\ waiting' = {}
    /\ UNCHANGED <<m, queued, readerVars, jlen, jm, broken>>

(* del_timer_sync, which waits for jiq_timedout. *)
HandlerDone_Any == TRUE                           \* slip: del_timer
HandlerDone == jpc["timer"] = "idle"

TimerUnset(r) ==
    /\ Go(r, "unset", "done") /\ HandlerDone
    /\ queued' = queued \ {"timer"}
    /\ UNCHANGED <<len, m, waiting, file, jobVars>>

-----------------------------------------------------------------------------
Reading(r) ==
    \/ ReadPlace(r) \/ Prepare(r) \/ Schedule(r) \/ Woken(r)
    \/ TimerSetUp(r) \/ TimerPrint(r) \/ TimerUnset(r)

Printing(j) ==
    \/ JobBegin(j)
    \/ j # "timer" /\ (JobFull(j) \/ JobPrint(j))
    \/ j = "timer" /\ TimedOut

Next ==
    /\ ~broken
    /\ \/ \E r \in Reader : ReadLen(r) \/ Reading(r) \/ Signal(r)
       \/ \E j \in Files : Printing(j)

Spec == Init /\ [][Next]_vars

(* Readers that have called run on, and jobs that are scheduled run. *)
FairSpec ==
    /\ Spec
    /\ \A r \in Reader : WF_vars(Reading(r))
    /\ \A j \in Files : WF_vars(Printing(j))

-----------------------------------------------------------------------------
TypeOK ==
    /\ len \in 0 .. LIMIT + 1 /\ m \in Reader \cup {None} /\ waiting \subseteq Reader
    /\ pc \in [Reader -> {"idle", "place", "prepare", "print", "schedule", "sleep", "unset",
                          "done"}]
    /\ jpc \in [Printer -> {"idle", "print"}] /\ broken \in BOOLEAN

(* A work queue's reader that sleeps has a job that will wake it: one is   *)
(* scheduled or runs, whoever it prints for.                               *)
SleeperHasJob == \A r \in Reader :
    pc[r] = "sleep" /\ r \in waiting /\ Prepared(r) =>
        file[r] \in queued \/ jpc[file[r]] = "print"

(***************************************************************************)
(* "in case a signal woke us up" (jiq.c:249): when the readers of the      *)
(* timer's file have returned, the timer is neither in the wheel nor under *)
(* way, whoever prints for whom meanwhile.                                 *)
(***************************************************************************)
TimerGone ==
    ~broken /\ (\A r \in Reader : file[r] = "timer" => pc[r] = "done") =>
        "timer" \notin queued /\ ("timer" \in Files => jpc["timer"] = "idle")

(***************************************************************************)
(* "sleep till completion" (jiq.c:209), and the awakening of the reading   *)
(* process when the limit is reached (jiq.c:50): a reader returns.         *)
(***************************************************************************)
ReaderReturns(r) == pc[r] = "place" ~> pc[r] = "done"

-----------------------------------------------------------------------------
(* The code's texts also state what follows, which the code does not keep: *)
(* TLC refutes each of them.                                               *)

(***************************************************************************)
(* "print in this place" (jiq.c:139): what a job is about to print goes to *)
(* a reader that is still there.                                           *)
(***************************************************************************)
PrintsInPlace == \A j \in Files :
    jpc[j] = "print" /\ jlen[j] <= LIMIT => pc[jm[j]] # "done"

(***************************************************************************)
(* "prepare the argument for jiq_print()" (jiq.c:239) and set up the timer:*)
(* nobody's timer is set up while it is in the wheel.                      *)
(***************************************************************************)
SetUpOnce == ~broken
=============================================================================
