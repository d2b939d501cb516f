-------------------------------- MODULE Jit --------------------------------
(***************************************************************************)
(* misc-modules/jit.c: a file that a timer or a tasklet prints, a line at  *)
(* a time.  Each read has a jit_data of its own, and sleeps until no lines *)
(* are left to print.  And four files that print a line after a delay, by  *)
(* looping or sleeping until jiffies, which wraps, is far enough.          *)
(***************************************************************************)
EXTENDS Integers

CONSTANTS
    Reader,      \* processes that read a file once
    Files,       \* the files they read: "async", "busy", "sched", "queue", "schedto"
    LOOPS,       \* JIT_ASYNC_LOOPS
    delay, WRAP, \* the parameter; the number of values of jiffies
    Signals      \* TRUE if a signal may wake a reader

VARIABLES
    pc,                      \* of a reader
    data,                    \* its jit_data: "none", "live", "freed"
    loops, lines,            \* of it: lines to print; lines in its file
    queued,                  \* readers whose timer or tasklet is due
    fn, last,                \* where a reader's jit_timer_fn is, and whether it
                             \* has printed the last line
    jiffies,
    nap                      \* of a reader that delays: where it ends, what its
                             \* timer has left; history: the ticks so far, and
                             \* whether a signal has cut it short

fnVars  == <<fn, last>>
napVars == <<jiffies, nap>>
vars    == <<pc, data, loops, lines, queued, fnVars, napVars>>

Init ==
    /\ pc = [r \in Reader |-> "idle"] /\ data = [r \in Reader |-> "none"]
    /\ loops = [r \in Reader |-> 0] /\ lines = [r \in Reader |-> 0]
    /\ queued = {}
    /\ fn = [r \in Reader |-> "idle"] /\ last = [r \in Reader |-> FALSE]
    /\ jiffies = WRAP - 1                         \* a kernel starts it near the end
    /\ nap = [r \in Reader |-> [end |-> 0, left |-> 0, ticks |-> 0, cut |-> FALSE]]

Go(r, from, to) == pc[r] = from /\ pc' = [pc EXCEPT ![r] = to]

-----------------------------------------------------------------------------
(* jit_timer_show, jit_tasklet_show: print the first line, start the timer *)
(* or tasklet, and wait.                                                   *)
Show(r) ==
    /\ "async" \in Files /\ Go(r, "idle", "check")
    /\ data' = [data EXCEPT ![r] = "live"]
    /\ loops' = [loops EXCEPT ![r] = LOOPS] /\ lines' = [lines EXCEPT ![r] = 1]
    /\ queued' = queued \cup {r}
    /\ UNCHANGED <<fnVars, napVars>>

NoneLeft_Early(r) == loops[r] <= 1                   \* slip: one line too early
NoneLeft(r) == loops[r] = 0

(* wait_event_interruptible looks at the condition before it sleeps and    *)
(* each time it is woken; jit_data is left behind if a signal is pending.  *)
Check(r) ==
    /\ Go(r, "check", IF NoneLeft(r) THEN "free" ELSE "sleep")
    /\ UNCHANGED <<data, loops, lines, queued, fnVars, napVars>>

Signal(r) ==
    /\ Signals /\ \E from \in {"check", "sleep", "free"} : Go(r, from, "restart")
    /\ UNCHANGED <<data, loops, lines, queued, fnVars, napVars>>

Free(r) ==
    /\ Go(r, "free", "done")
    /\ data' = [data EXCEPT ![r] = "freed"]
    /\ UNCHANGED <<loops, lines, queued, fnVars, napVars>>

-----------------------------------------------------------------------------
(* jit_timer_fn, jit_tasklet_fn: print, count, and start again or wake.    *)
Fn(r, from, to) == fn[r] = from /\ fn' = [fn EXCEPT ![r] = to]

FnPrint(r) ==
    /\ r \in queued /\ Fn(r, "idle", "count")
    /\ queued' = queued \ {r}
    /\ lines' = [lines EXCEPT ![r] = @ + 1]
    /\ UNCHANGED <<pc, data, loops, last, napVars>>

FnCount(r) ==
    /\ Fn(r, "count", "next")
    /\ loops' = [loops EXCEPT ![r] = @ - 1]
    /\ last' = [last EXCEPT ![r] = loops[r] = 1]
    /\ UNCHANGED <<pc, data, lines, queued, napVars>>

Again_Swapped(r) == last[r]                          \* slip: tested the other way
Again(r) == ~last[r]

FnNext(r) ==
    /\ Fn(r, "next", "idle")
    /\ IF Again(r) THEN queued' = queued \cup {r} /\ UNCHANGED pc
       ELSE /\ pc' = IF pc[r] = "sleep" THEN [pc EXCEPT ![r] = "check"] ELSE pc
            /\ UNCHANGED queued
    /\ UNCHANGED <<data, loops, lines, last, napVars>>

TimerFn(r) == FnPrint(r) \/ FnCount(r) \/ FnNext(r)

-----------------------------------------------------------------------------
(* jit_fn_show: j1 is where the delay ends; jitbusy and jitsched look at   *)
(* jiffies again and again, jitqueue and jitschedto set a timer.           *)
asyncVars == <<data, loops, lines, queued, fnVars>>

JitFn(r, file) ==
    /\ file \in Files \ {"async"}
    /\ Go(r, "idle", IF file \in {"busy", "sched"} THEN "loop" ELSE "nap")
    /\ nap' = [nap EXCEPT ![r].end = (jiffies + delay) % WRAP]
    /\ UNCHANGED <<asyncVars, jiffies>>

before_Plain(a, b) == a < b                          \* slip: does not wrap
before(a, b) == (a - b) % WRAP >= WRAP \div 2        \* time_before

Loop(r) ==
    /\ Go(r, "loop", "print") /\ ~before(jiffies, nap[r].end)
    /\ UNCHANGED <<asyncVars, napVars>>

Sleep(r) ==
    /\ Go(r, "nap", "asleep") /\ nap' = [nap EXCEPT ![r].left = delay]
    /\ UNCHANGED <<asyncVars, jiffies>>

Timeout(r) ==
    /\ Go(r, "asleep", "print") /\ nap[r].left = 0
    /\ UNCHANGED <<asyncVars, napVars>>

NapSignal(r) ==
    /\ Signals /\ \E from \in {"nap", "asleep"} : Go(r, from, "print")
    /\ nap' = [nap EXCEPT ![r].cut = TRUE]
    /\ UNCHANGED <<asyncVars, jiffies>>

PrintLine(r) == Go(r, "print", "done") /\ UNCHANGED <<asyncVars, napVars>>

(* Time goes on, but passes nobody's end by half the range of jiffies.     *)
Delaying(r) == pc[r] \in {"loop", "nap", "asleep", "print"}
Late == delay + WRAP \div 2 - 1

Tick ==
    /\ \E r \in Reader : Delaying(r)
    /\ \A r \in Reader : Delaying(r) => nap[r].ticks < Late
    /\ jiffies' = (jiffies + 1) % WRAP
    /\ nap' = [r \in Reader |->
          IF Delaying(r) THEN [nap[r] EXCEPT !.ticks = @ + 1, !.left = IF @ > 0 THEN @ - 1 ELSE 0]
                         ELSE nap[r]]
    /\ UNCHANGED <<pc, asyncVars>>

-----------------------------------------------------------------------------
Next ==
    \/ \E r \in Reader :
          \/ Show(r) \/ Check(r) \/ Signal(r) \/ Free(r) \/ TimerFn(r)
          \/ Loop(r) \/ Sleep(r) \/ Timeout(r) \/ NapSignal(r) \/ PrintLine(r)
          \/ \E file \in Files : JitFn(r, file)
    \/ Tick

Spec == Init /\ [][Next]_vars

(* A reader that can run does, unless it delays, and timers and tasklets   *)
(* that are due run.                                                       *)
FairSpec ==
    /\ Spec
    /\ \A r \in Reader :
          WF_vars(Check(r) \/ Free(r)) /\ WF_vars(TimerFn(r))

-----------------------------------------------------------------------------
TypeOK ==
    /\ pc \in [Reader -> {"idle", "check", "sleep", "restart", "free", "done",
                          "loop", "nap", "asleep", "print"}]
    /\ data \in [Reader -> {"none", "live", "freed"}]
    /\ loops \in [Reader -> 0 .. LOOPS] /\ lines \in [Reader -> 0 .. LOOPS + 1]
    /\ queued \subseteq Reader
    /\ fn \in [Reader -> {"idle", "count", "next"}] /\ last \in [Reader -> BOOLEAN]

(* A read that returns without a signal has all the lines. *)
FullFile == \A r \in Reader : pc[r] \in {"free", "done"} => lines[r] = LOOPS + 1

(***************************************************************************)
(* "This function prints one line of data, after sleeping one second"      *)
(* (jit.c:58): a line that no signal has brought forward is printed when   *)
(* the delay is over, also where jiffies wraps meanwhile.                  *)
(***************************************************************************)
DelayLasts == \A r \in Reader : pc[r] = "print" => nap[r].ticks >= delay \/ nap[r].cut

(* A reader that nothing interrupts returns: there is always someone who   *)
(* will wake it.                                                           *)
ReaderReturns(r) == pc[r] = "check" ~> pc[r] = "done"

-----------------------------------------------------------------------------
(* The code's texts also state what follows, which the code does not keep: *)
(* TLC refutes each of them.                                               *)

(***************************************************************************)
(* "allocate everything to allow concurrency" (jit.c:196): the function of *)
(* a timer or a tasklet does not run on a jit_data that is freed.          *)
(***************************************************************************)
DataAlive == \A r \in Reader : fn[r] # "idle" \/ r \in queued => data[r] = "live"

(***************************************************************************)
(* "wait for the buffer to fill" (jit.c:224): when the read is over nothing*)
(* more is printed to its file.                                            *)
(***************************************************************************)
FileAlive == \A r \in Reader : r \in queued => pc[r] \notin {"restart", "done"}
=============================================================================
