------------------------------- MODULE Short -------------------------------
(***************************************************************************)
(* short/short.c: the device that reports interrupts.  The handler writes  *)
(* the time into the page itself, or, split in halves, into an array that  *)
(* a workqueue or a tasklet copies to the page.                            *)
(***************************************************************************)
EXTENDS TimeRing, Sequences

CONSTANTS
    Halves,        \* TRUE if the module was loaded with wq or tasklet
    NR_TIMEVAL,    \* places of the array of times
    MaxInterrupts  \* bound: how many interrupts come

VARIABLES
    tv, tv_head, tv_tail, wq_count,   \* the array; short_wq_count
    queued,        \* the work or tasklet is scheduled
    irq, bh,       \* where the handler and the bottom half are
    saved,         \* savecount
    arrived, lines, reported          \* history: interrupts so far, the times in
                                      \* the page, and the sum of the counts there

tvVars == <<tv, tv_head, tv_tail>>
vars == <<ringVars, tvVars, wq_count, queued, irq, bh, saved, arrived, lines, reported>>

Init ==
    /\ RingInit
    /\ tv = [i \in 0 .. NR_TIMEVAL - 1 |-> 0]
    /\ tv_head = 0 /\ tv_tail = 0 /\ wq_count = 0
    /\ queued = FALSE /\ irq = "idle" /\ bh = "idle" /\ saved = 0
    /\ arrived = 0 /\ lines = <<>> /\ reported = 0

incr_tv_Past(i) == (i + 1) % (NR_TIMEVAL + 1)     \* slip: one place too many
incr_tv(i) == IF i = NR_TIMEVAL - 1 THEN 0 ELSE i + 1

Irq(from, to) == irq = from /\ irq' = to
Bh(from, to)  == bh = from /\ bh' = to

(***************************************************************************)
(* The whole handler, short_interrupt, and short_sh_interrupt when the     *)
(* interrupt is the port's.                                                *)
(***************************************************************************)
Whole ==
    /\ ~Halves /\ arrived < MaxInterrupts /\ Irq("idle", "wake")
    /\ AppendLine
    /\ arrived' = arrived + 1 /\ lines' = Append(lines, arrived')
    /\ UNCHANGED <<tvVars, wq_count, queued, bh, saved, reported>>

WholeWake ==
    /\ Irq("wake", "idle") /\ WakeReaders
    /\ UNCHANGED <<tvVars, wq_count, queued, bh, saved, arrived, lines, reported>>

(***************************************************************************)
(* The top halves take the time, schedule the bottom half and count.       *)
(***************************************************************************)
Top ==
    /\ Halves /\ arrived < MaxInterrupts /\ Irq("idle", "schedule")
    /\ arrived' = arrived + 1
    /\ tv' = [tv EXCEPT ![tv_head] = arrived'] /\ tv_head' = incr_tv(tv_head)
    /\ UNCHANGED <<ringVars, tv_tail, wq_count, queued, bh, saved, lines, reported>>

TopSchedule ==
    /\ Irq("schedule", "count")
    /\ queued' = TRUE
    /\ UNCHANGED <<ringVars, tvVars, wq_count, bh, saved, arrived, lines, reported>>

TopCount ==
    /\ Irq("count", "idle")
    /\ wq_count' = wq_count + 1
    /\ UNCHANGED <<ringVars, tvVars, queued, bh, saved, arrived, lines, reported>>

(***************************************************************************)
(* short_do_tasklet: a line with the count, and a line for each time.      *)
(***************************************************************************)
BhBegin ==
    /\ queued /\ queued' = FALSE
    /\ Bh("idle", "zero") /\ saved' = wq_count
    /\ UNCHANGED <<ringVars, tvVars, wq_count, irq, arrived, lines, reported>>

BhZero ==
    /\ Bh("zero", "after") /\ wq_count' = 0
    /\ UNCHANGED <<ringVars, tvVars, queued, irq, saved, arrived, lines, reported>>

BhAfter ==
    /\ Bh("after", "line") /\ AppendLine
    /\ reported' = reported + saved /\ saved' = 0
    /\ UNCHANGED <<tvVars, wq_count, queued, irq, arrived, lines>>

BhLine ==
    /\ Bh("line", "test") /\ AppendLine
    /\ lines' = Append(lines, tv[tv_tail]) /\ tv_tail' = incr_tv(tv_tail)
    /\ UNCHANGED <<tv, tv_head, wq_count, queued, irq, saved, arrived, reported>>

More_Not == FALSE                                 \* slip: not a loop
More == tv_tail # tv_head

BhTest ==
    /\ Bh("test", IF More THEN "line" ELSE "wake")
    /\ UNCHANGED <<ringVars, tvVars, wq_count, queued, irq, saved, arrived, lines, reported>>

BhWake ==
    /\ Bh("wake", "idle") /\ WakeReaders
    /\ UNCHANGED <<tvVars, wq_count, queued, irq, saved, arrived, lines, reported>>

BottomHalf == BhBegin \/ BhZero \/ BhAfter \/ BhLine \/ BhTest \/ BhWake
Handler == WholeWake \/ TopSchedule \/ TopCount

ReaderStep(r) ==
    /\ ReadCall(r) \/ ReadSignal(r) \/ Read(r)
    /\ UNCHANGED <<tvVars, wq_count, queued, irq, bh, saved, arrived, lines, reported>>

Next == Whole \/ Top \/ Handler \/ BottomHalf \/ \E r \in Reader : ReaderStep(r)

Spec == Init /\ [][Next]_vars

(* Handlers end, and the kernel runs what is scheduled. *)
FairSpec == Spec /\ WF_vars(Handler) /\ WF_vars(BottomHalf)

-----------------------------------------------------------------------------
TypeOK ==
    /\ RingOK
    /\ tv \in [0 .. NR_TIMEVAL - 1 -> 0 .. MaxInterrupts]
    /\ tv_head \in 0 .. NR_TIMEVAL - 1 /\ tv_tail \in 0 .. NR_TIMEVAL - 1
    /\ irq \in {"idle", "wake", "schedule", "count"}
    /\ bh \in {"idle", "zero", "after", "line", "test", "wake"}

(***************************************************************************)
(* No reader sleeps over a line, whoever wrote it.                         *)
(***************************************************************************)
NoLostWakeup == SleepsOnNothing(irq = "wake" \/ bh \in {"line", "test", "wake"})

(***************************************************************************)
(* However interrupts and bottom halves fall, the time of every interrupt  *)
(* gets into the page, as long as the array holds those that wait.         *)
(***************************************************************************)
EachTimePrinted == \A n \in 1 .. MaxInterrupts :
    arrived >= n ~> \E i \in 1 .. Len(lines) : lines[i] = n

-----------------------------------------------------------------------------
(* The code's texts also state what follows, which the code does not keep: *)
(* TLC refutes each of them.                                               *)

(***************************************************************************)
(* The halves "are equivalent to the previous one, but split in top and    *)
(* bottom half" (short.c:359): one line for each interrupt, in order.      *)
(***************************************************************************)
OneLineEach == \A i \in 1 .. Len(lines) : lines[i] = i

(***************************************************************************)
(* "the number of interrupts that occurred before this bh" (short.c:401):  *)
(* what the counts leave out is still to be counted.                       *)
(***************************************************************************)
CountsAddUp == irq = "idle" /\ bh = "idle" => reported + wq_count = arrived

(***************************************************************************)
(* "the number of readable data bytes" (short.c:300): not more than there  *)
(* are when they are copied.                                               *)
(***************************************************************************)
CopyReadable == CopyInPage
=============================================================================
