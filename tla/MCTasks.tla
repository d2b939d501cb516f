------------------------------ MODULE MCTasks ------------------------------
(***************************************************************************)
(* Work that runs beside other work, in subjects that have little to do    *)
(* with each other, for TLC: interrupt handlers, whole and in halves       *)
(* (short), the worker and the printer of shortprint, work queues (jiq),   *)
(* timers and tasklets (jit), wait queues (sleepy and complete), threads   *)
(* (threading), child processes (systemcalls), calls into the aesd driver  *)
(* that wait for each other's mutex (aesdchar), and the programs of the car*)
(* dashboard.  Every behaviour exercises one of them, its subject, and the *)
(* others stay in their initial states.                                    *)
(***************************************************************************)
EXTENDS Naturals, Sequences, FiniteSets

CONSTANTS
    r1, None,
    Reader,                        \* of the files of jiq and jit
    Sleeper,                       \* of the files of sleepy and complete
    Caller,                        \* of threading; files of the aesd driver
    (* of short: *)                PageSize, LineLen, Count, NR_TIMEVAL, MaxWhole, MaxSplit,
    (* of jiq and jit: *)          LIMIT, LOOPS, delay, WRAP,
    (* of sleepy, systemcalls: *)  Writes, MaxCalls,
    (* of the dashboard: *)        Fastest, Few, Most, MaxSent

ASSUME ShortAssumption ==
    /\ PageSize \in Nat \ {0} /\ LineLen \in Nat /\ Count \subseteq Nat
    /\ NR_TIMEVAL \in Nat \ {0} /\ MaxWhole \in Nat /\ MaxSplit \in Nat

ASSUME JitAssumption ==
    LIMIT \in Nat /\ LOOPS \in Nat \ {0} /\ WRAP \in Nat \ {0} /\ delay \in 0 .. WRAP \div 2

ASSUME SleepyAssumption == IsFiniteSet(Sleeper) /\ Writes \in Nat

ASSUME ThreadAssumption == None \notin Caller

ASSUME GaugeAssumption == Fastest \in Nat \ {0} /\ Most \in Nat \ {0}

VARIABLES
    subject,
    head, tail, readers, rpc, rcount, tv, tv_head, tv_tail, wq_count, queued, irq, bh,
    saved, arrived, lines, reported,
    p_head, p_tail, p_readers, p_rpc, p_rcount,
    out_head, out_tail, bytes, out_mutex, active, outq, emptyq, ppc, rest, order, space,
    p_queued, worker, pending, timer, printer, p_irq, got,
    len, m, jobs, asleep, qpc, file, jpc, jlen, jm, broken,
    tpc, jit_data, loops, printed, due_fn, fn, last, jiffies, nap,
    flag, spc, writer, written, reads, due,
    myThread, thread, caller, tp, mutex, thread_complete_success, thread_data,
    cpc, call, child, status, result, fds, calls, ran,
    entry, in_offs, out_offs, full, ret, loaded, downer, temp, heap, mem, dpc, dcall, f_pos,
    answer, faulted,
    value, value2, ahead, stream, gps, sent, conn

-----------------------------------------------------------------------------
(* Whole handlers, with fewer interrupts than the array has places, and    *)
(* handlers in halves.                                                     *)
Shorts == [
    whole |-> [halves |-> FALSE, most |-> MaxWhole],
    split |-> [halves |-> TRUE, most |-> MaxSplit] ]

Irqs(S) == INSTANCE Short WITH
    Halves <- S.halves, Reader <- {r1}, MaxInterrupts <- S.most

(* Bytes one by one through a buffer that holds one; no interrupt is lost. *)
Printer == INSTANCE ShortPrint WITH
    Writer <- {r1}, Nobody <- None, NoByte <- None, OutSize <- 2,
    Data <- {<<None>>}, Losing <- FALSE,
    Reader <- {}, PageSize <- 3, LineLen <- 3, Count <- {1},
    head <- p_head, tail <- p_tail, readers <- p_readers, rpc <- p_rpc, rcount <- p_rcount,
    pc <- ppc, queued <- p_queued, irq <- p_irq

(* The files of jiq with signals, that of the timer beside another one, and*)
(* the work queues without.                                                *)
Jiqs == [
    jobs   |-> [files |-> {"wq", "delayed", "tasklet"}, signals |-> TRUE],
    timed  |-> [files |-> {"wq", "timer"}, signals |-> TRUE],
    queues |-> [files |-> {"wq", "delayed"}, signals |-> FALSE] ]

Jobs(J) == INSTANCE Jiq WITH
    Files <- J.files, Signals <- J.signals, queued <- jobs, waiting <- asleep, pc <- qpc

(* A file that timers and tasklets print, with signals and without; and    *)
(* those that delay, of which one starts right before jiffies wraps.       *)
Jits == [
    ticks  |-> [files |-> {"async"}, signals |-> TRUE],
    timers |-> [files |-> {"async"}, signals |-> FALSE],
    delays |-> [files |-> {"busy", "sched", "queue", "schedto"}, signals |-> TRUE] ]

Timers(T) == INSTANCE Jit WITH
    Files <- T.files, Signals <- T.signals,
    pc <- tpc, data <- jit_data, lines <- printed, queued <- due_fn

(* The flag of sleepy, and the completion of complete.                     *)
Sleepys == [flag |-> FALSE, completions |-> TRUE]

Waits(C) == INSTANCE Sleepy WITH Reader <- Sleeper, Completion <- C, pc <- spc

(* Threads whose calls may fail, and threads whose calls do not.           *)
Threadings == [failing |-> TRUE, threads |-> FALSE]

Threads(F) == INSTANCE Threading WITH Faults <- F, data <- thread_data

(* Commands that a signal may end, and commands that run to an end.        *)
Systems == [killed |-> TRUE, commands |-> FALSE]

Commands(K) == INSTANCE SystemCalls WITH
    Call <- {"system", "exec", "redirect"}, Signals <- K, Dup2Fails <- K, pc <- cpc

(* One-byte writes and a ring of one slot.                                 *)
Driver == INSTANCE AesdChar WITH
    Max <- 1, Ptr <- {"p1", "p2"}, NULL <- "NULL", ZeroPtr <- "ZeroPtr", Sizes <- {1},
    Handle <- Caller, Nobody <- None, Data <- {<<"a">>, <<"nl">>}, Count <- {1}, MaxLine <- 2,
    NL <- "nl", Garbage <- "garbage", owner <- downer, pc <- dpc, call <- dcall

(* The program that shows two gauges, and the one that sends the positions.*)
Dash(P) == INSTANCE Dashboard WITH Program <- P, Top <- Fastest, Cuts <- FALSE

-----------------------------------------------------------------------------
short  == <<head, tail, readers, rpc, rcount, tv, tv_head, tv_tail, wq_count, queued, irq, bh,
            saved, arrived, lines, reported>>
print  == <<p_head, p_tail, p_readers, p_rpc, p_rcount, out_head, out_tail, bytes, out_mutex,
            active, outq, emptyq, ppc, rest, order, space, p_queued, worker, pending, timer,
            printer, p_irq, got>>
jiq    == <<len, m, jobs, asleep, qpc, file, jpc, jlen, jm, broken>>
jit    == <<tpc, jit_data, loops, printed, due_fn, fn, last, jiffies, nap>>
sleepy == <<flag, spc, writer, written, reads, due>>
threads == <<myThread, thread, caller, tp, mutex, thread_complete_success, thread_data>>
system == <<cpc, call, child, status, result, fds, calls, ran>>
driver == <<entry, in_offs, out_offs, full, ret, loaded, downer, temp, heap, mem, dpc, dcall,
            f_pos, answer, faulted>>
dash   == <<value, value2, ahead, stream, gps, sent, conn>>

tasks == <<subject, short, print, jiq, jit, sleepy, threads, system, driver, dash>>

TasksInit ==
    /\ subject \in DOMAIN Shorts \cup DOMAIN Jiqs \cup DOMAIN Jits \cup DOMAIN Sleepys
                   \cup DOMAIN Threadings \cup DOMAIN Systems
                   \cup {"print", "driver", "display", "server"}
    /\ Driver!Init /\ Irqs(Shorts.whole)!Init /\ Printer!Init /\ Timers(Jits.ticks)!Init
    /\ Waits(FALSE)!Init /\ Threads(FALSE)!Init /\ Commands(FALSE)!Init /\ Dash("display")!Init
    /\ IF subject \in DOMAIN Jiqs
       THEN \E j \in DOMAIN Jiqs : subject = j /\ Jobs(Jiqs[j])!Init
       ELSE Jobs(Jiqs.jobs)!Init

OnlyShort   == UNCHANGED <<subject, print, jiq, jit, sleepy, threads, system, driver, dash>>
OnlyPrint   == UNCHANGED <<subject, short, jiq, jit, sleepy, threads, system, driver, dash>>
OnlyJiq     == UNCHANGED <<subject, short, print, jit, sleepy, threads, system, driver, dash>>
OnlyJit     == UNCHANGED <<subject, short, print, jiq, sleepy, threads, system, driver, dash>>
OnlySleepy  == UNCHANGED <<subject, short, print, jiq, jit, threads, system, driver, dash>>
OnlyThreads == UNCHANGED <<subject, short, print, jiq, jit, sleepy, system, driver, dash>>
OnlySystem  == UNCHANGED <<subject, short, print, jiq, jit, sleepy, threads, driver, dash>>
OnlyDriver  == UNCHANGED <<subject, short, print, jiq, jit, sleepy, threads, system, dash>>
OnlyDash    == UNCHANGED <<subject, short, print, jiq, jit, sleepy, threads, system, driver>>

TasksNext ==
    \/ \E s \in DOMAIN Shorts     : subject = s /\ Irqs(Shorts[s])!Next /\ OnlyShort
    \/ \E j \in DOMAIN Jiqs       : subject = j /\ Jobs(Jiqs[j])!Next /\ OnlyJiq
    \/ \E t \in DOMAIN Jits       : subject = t /\ Timers(Jits[t])!Next /\ OnlyJit
    \/ \E c \in DOMAIN Sleepys    : subject = c /\ Waits(Sleepys[c])!Next /\ OnlySleepy
    \/ \E f \in DOMAIN Threadings : subject = f /\ Threads(Threadings[f])!Next /\ OnlyThreads
    \/ \E k \in DOMAIN Systems    : subject = k /\ Commands(Systems[k])!Next /\ OnlySystem
    \/ \E p \in {"display", "server"} : subject = p /\ Dash(p)!Next /\ OnlyDash
    \/ subject = "print"  /\ Printer!Next /\ OnlyPrint
    \/ subject = "driver" /\ Driver!Next  /\ OnlyDriver

(***************************************************************************)
(* The fairness of the components, whose subjects nothing interrupts:      *)
(* handlers and what is scheduled run, the printer answers, processes and  *)
(* threads that are in a call run on, the mutex of the aesd driver is      *)
(* handed to those who wait for it in turn, and the display's loop goes on.*)
(***************************************************************************)
Handled  == subject = "split" /\ OnlyShort
Printed  == subject = "print" /\ OnlyPrint
Queued   == subject = "queues" /\ OnlyJiq
Timed    == subject = "timers" /\ OnlyJit
Threaded == subject = "threads" /\ OnlyThreads
Driven   == subject = "driver" /\ OnlyDriver
Shown    == subject = "display" /\ OnlyDash

Fairness ==
    /\ WF_tasks(Handled /\ Irqs(Shorts.split)!Handler)
    /\ WF_tasks(Handled /\ Irqs(Shorts.split)!BottomHalf)
    /\ WF_tasks(Printed /\ Printer!Work) /\ WF_tasks(Printed /\ Printer!Interrupt)
    /\ WF_tasks(Printed /\ Printer!TimerFires) /\ WF_tasks(Printed /\ Printer!TimerStatus)
    /\ WF_tasks(Printed /\ Printer!TimerIrq)
    /\ WF_tasks(Printed /\ Printer!PrinterAck) /\ WF_tasks(Printed /\ Printer!PrinterReady)
    /\ WF_tasks(Printed /\ Printer!Writing(r1))
    /\ WF_tasks(Shown /\ Dash("display")!Show)
    /\ \A r \in Reader :
        /\ WF_tasks(Queued /\ Jobs(Jiqs.queues)!Reading(r))
        /\ WF_tasks(Timed /\ (Timers(Jits.timers)!Check(r) \/ Timers(Jits.timers)!Free(r)))
        /\ WF_tasks(Timed /\ Timers(Jits.timers)!TimerFn(r))
    /\ \A j \in Jiqs.queues.files : WF_tasks(Queued /\ Jobs(Jiqs.queues)!Printing(j))
    /\ \A c \in Caller :
        /\ WF_tasks(Threaded /\ Threads(FALSE)!Starting(c))
        /\ WF_tasks(Threaded /\ Threads(FALSE)!ThreadFunc(c))
        /\ WF_tasks(Driven /\ Driver!Progress(c))
        /\ SF_tasks(Driven /\ (Driver!LockRead(c) \/ Driver!LockWrite(c)))

TasksSpec == TasksInit /\ [][TasksNext]_tasks /\ Fairness

-----------------------------------------------------------------------------
(***************************************************************************)
(* No wake-up is lost.  No reader of short sleeps over a line, whether the *)
(* whole handler wrote it (short_interrupt) or the bottom half, between    *)
(* whose steps more interrupts come; a reader of a work queue's file that  *)
(* sleeps has a job that will wake it, whoever it prints for and whatever  *)
(* signals came (jiq_print_wq), and who returns from the timer's file has  *)
(* stopped the timer (jiq_read_run_timer_show); and nobody is left asleep  *)
(* on what a writer has announced, unless one who is awake will still take *)
(* it (sleepy_write); and every complete_write lets exactly one read       *)
(* return, whether the reader came before it or comes later.               *)
(***************************************************************************)
SleepersHaveWakers ==
    /\ \A s \in DOMAIN Shorts : subject = s =>
        Irqs(Shorts[s])!TypeOK /\ Irqs(Shorts[s])!NoLostWakeup
    /\ \A j \in DOMAIN Jiqs : subject = j =>
        Jobs(Jiqs[j])!TypeOK /\ Jobs(Jiqs[j])!SleeperHasJob /\ Jobs(Jiqs[j])!TimerGone
    /\ \A c \in DOMAIN Sleepys : subject = c =>
        Waits(Sleepys[c])!TypeOK /\ Waits(Sleepys[c])!NoLostWakeup
    /\ subject = "completions" => Waits(TRUE)!OneReadPerWrite

(***************************************************************************)
(* A call that claims success has had it.  A read of jit that returns      *)
(* without a signal has all its lines, and a delay has lasted, also where  *)
(* jiffies wraps; one thread at a time is between obtaining and releasing  *)
(* its mutex, and one that reports thread_complete_success has left,       *)
(* whatever calls fail (threadfunc); and "true if the command ... were     *)
(* executed successfully" (systemcalls.c:40), where no signal kills it and *)
(* dup2 works.  And what the dashboard's display is about to show it has   *)
(* an image of.                                                            *)
(***************************************************************************)
SuccessIsTrue ==
    /\ \A t \in DOMAIN Jits : subject = t => Timers(Jits[t])!TypeOK /\ Timers(Jits[t])!DelayLasts
    /\ \A t \in DOMAIN Jits \ {"delays"} : subject = t => Timers(Jits[t])!FullFile
    /\ \A f \in DOMAIN Threadings : subject = f =>
        Threads(Threadings[f])!TypeOK /\ Threads(Threadings[f])!OneHolds
    /\ \A k \in DOMAIN Systems : subject = k => Commands(Systems[k])!TypeOK
    /\ subject = "commands" => Commands(FALSE)!TrueIfSucceeded
    /\ subject = "display" => Dash("display")!TypeOK /\ Dash("display")!GaugesHaveImages

(***************************************************************************)
(* What is started comes to its end: the time of every interrupt gets into *)
(* the page, however interrupts and bottom halves fall (short_do_tasklet); *)
(* while no interrupt is lost, what waits is printed (shortp_do_work); a   *)
(* reader of a work queue's or a timer's file that no signal interrupts    *)
(* returns, also when others print meanwhile (jiq, jit); every thread whose*)
(* calls do not fail comes to its success (threadfunc); every call into the*)
(* aesd driver returns (aesd_read, aesd_write); the dashboard's needle     *)
(* turns at both ends; and every position that the receiver sends is passed*)
(* on, in order, however many sentences a read gets, while it gets whole   *)
(* ones (gpsThread).  The readers, threads and callers of a subject are    *)
(* alike, and one of them is looked at.                                    *)
(***************************************************************************)
AllComesToItsEnd ==
    /\ subject = "split"   => Irqs(Shorts.split)!EachTimePrinted
    /\ subject = "print"   => Printer!OutputGoesOn
    /\ subject = "queues"  => Jobs(Jiqs.queues)!ReaderReturns(r1)
    /\ subject = "timers"  => Timers(Jits.timers)!ReaderReturns(r1)
    /\ subject = "threads" => Threads(FALSE)!StartedSucceeds(r1)
    /\ subject = "driver"  => Driver!EveryCallReturns(r1)
    /\ subject = "display" => Dash("display")!NeedleTurns
    /\ [](subject = "server" => Dash("server")!TypeOK /\ Dash("server")!EachPassedOn)
=============================================================================
