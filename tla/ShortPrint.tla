----------------------------- MODULE ShortPrint -----------------------------
(***************************************************************************)
(* shortprint/shortprint.c: a printer driver.  Writers fill a circular     *)
(* buffer under a mutex; one worker strobes a byte at a time into the      *)
(* printer, and is queued again by the interrupt that answers, or by a     *)
(* timer should that be lost.  A section under the spinlock is one step.   *)
(***************************************************************************)
EXTENDS TimeRing, Integers, Sequences

CONSTANTS
    Writer, Nobody,
    OutSize,    \* PAGE_SIZE, of the output buffer
    Data,       \* the byte sequences a program may write
    Losing,     \* TRUE if an interrupt may be lost
    NoByte

ASSUME OutAssumption == OutSize \in Nat \ {0, 1} /\ Nobody \notin Writer

Byte == (UNION {{d[i] : i \in 1 .. Len(d)} : d \in Data}) \cup {NoByte}

ASSUME DataAssumption == Data \subseteq Seq(Byte)

MinSpace == OutSize \div 2                        \* SP_MIN_SPACE

VARIABLES
    out_head, out_tail, bytes,   \* the output buffer
    out_mutex, active,           \* shortp_out_mutex, shortp_output_active
    outq, emptyq,                \* shortp_out_queue, shortp_empty_queue
    pc, rest, order, space,      \* of a writer: what it has to write, the first
                                 \* half and the value of shortp_out_space
    queued, worker,              \* shortp_work: pending, and where its function is
    pending, timer,              \* shortp_timer likewise
    printer, irq, got            \* the printer, its interrupt, the last byte

outVars  == <<out_head, out_tail, bytes>>
procVars == <<out_mutex, outq, emptyq, pc, rest, order, space>>
kernVars == <<active, queued, worker, pending, timer>>
portVars == <<printer, irq, got>>
vars     == <<ringVars, outVars, procVars, kernVars, portVars>>

Init ==
    /\ RingInit
    /\ out_head = 0 /\ out_tail = 0
    /\ bytes = [i \in 0 .. OutSize - 1 |-> NoByte]
    /\ out_mutex = Nobody /\ active = FALSE /\ outq = {} /\ emptyq = {}
    /\ pc = [w \in Writer |-> "idle"]
    /\ rest = [w \in Writer |-> <<>>]
    /\ order = [w \in Writer |-> FALSE]
    /\ space = [w \in Writer |-> 0]
    /\ queued = FALSE /\ worker = "idle"
    /\ pending = FALSE /\ timer = "idle"
    /\ printer = "ready" /\ irq = FALSE /\ got = <<>>

Go(w, from, to) == pc[w] = from /\ pc' = [pc EXCEPT ![w] = to]

incr_out_bp_Past(i, n) == IF i + n > OutSize THEN i + n - OutSize ELSE i + n  \* slip
incr_out_bp(i, n) == IF i + n >= OutSize THEN i + n - OutSize ELSE i + n

(***************************************************************************)
(* shortp_write.  shortp_out_space reads the tail twice.                   *)
(***************************************************************************)
MayWrite_Space == out_mutex = Nobody \/ out_head = out_tail  \* slip: no mutex
MayWrite == out_mutex = Nobody

WriteCall(w, d) ==
    /\ Go(w, "idle", "order") /\ MayWrite
    /\ out_mutex' = w
    /\ rest' = [rest EXCEPT ![w] = d]
    /\ UNCHANGED <<ringVars, outVars, kernVars, portVars, outq, emptyq, order, space>>

WriteOrder(w) ==
    /\ Go(w, "order", "space")
    /\ order' = [order EXCEPT ![w] = out_head >= out_tail]
    /\ UNCHANGED <<ringVars, outVars, kernVars, portVars, out_mutex, outq, emptyq, rest, space>>

Space(w) ==
    IF order[w] THEN OutSize - out_head - (IF out_tail = 0 THEN 1 ELSE 0)
                ELSE out_tail - out_head - 1

Enough(w) ==
    /\ Space(w) > 0 /\ Go(w, "space", "copy")
    /\ space' = [space EXCEPT ![w] = IF Space(w) < Len(rest[w]) THEN Space(w)
                                                                ELSE Len(rest[w])]
    /\ outq' = outq \ {w}
    /\ order' = [order EXCEPT ![w] = FALSE]
    /\ UNCHANGED <<ringVars, outVars, kernVars, portVars, out_mutex, emptyq, rest>>

(* wait_event: queue up, and sleep only after another look. *)
Full(w) ==
    /\ Space(w) <= 0
    /\ IF w \in outq THEN Go(w, "space", "sleep") ELSE Go(w, "space", "order")
    /\ outq' = outq \cup {w}
    /\ UNCHANGED <<ringVars, outVars, kernVars, portVars, out_mutex, emptyq, rest, order, space>>

Woken(w) ==
    /\ w \notin outq /\ Go(w, "sleep", "order")
    /\ outq' = outq \cup {w}
    /\ UNCHANGED <<ringVars, outVars, kernVars, portVars, out_mutex, emptyq, rest, order, space>>

(* A signal ends the sleep, and a fault the copy, and with it the call.    *)
GiveUp(w) ==
    /\ Go(w, "sleep", "idle") \/ Go(w, "copy", "idle")
    /\ outq' = outq \ {w} /\ out_mutex' = Nobody
    /\ rest' = [rest EXCEPT ![w] = <<>>] /\ space' = [space EXCEPT ![w] = 0]
    /\ UNCHANGED <<ringVars, outVars, kernVars, portVars, emptyq, order>>

Copy(w) ==
    /\ Go(w, "copy", "start")
    /\ bytes' = [i \in DOMAIN bytes |->
                    IF i \in out_head .. out_head + space[w] - 1
                    THEN rest[w][i - out_head + 1] ELSE bytes[i]]
    /\ out_head' = incr_out_bp(out_head, space[w])
    /\ rest' = [rest EXCEPT ![w] = SubSeq(@, space[w] + 1, Len(@))]
    /\ space' = [space EXCEPT ![w] = 0]
    /\ UNCHANGED <<ringVars, kernVars, portVars, out_tail, out_mutex, outq, emptyq, order>>

(* If no output is active, make it active: shortp_start_output. *)
MustStart_Empty == ~active /\ out_head = out_tail \* slip: only when drained
MustStart == ~active

Start(w) ==
    /\ IF rest[w] = <<>> THEN Go(w, "start", "idle") /\ out_mutex' = Nobody
                         ELSE Go(w, "start", "order") /\ UNCHANGED out_mutex
    /\ IF MustStart THEN active' = TRUE /\ pending' = TRUE /\ queued' = TRUE
                    ELSE UNCHANGED <<active, pending, queued>>
    /\ UNCHANGED <<ringVars, outVars, portVars, outq, emptyq, rest, order, space, worker, timer>>

(* shortp_release waits until no output is active, or a signal comes.      *)
Release(w) ==
    /\ active /\ Go(w, "idle", "close")
    /\ emptyq' = emptyq \cup {w}
    /\ UNCHANGED <<ringVars, outVars, kernVars, portVars, out_mutex, outq, rest, order, space>>

Closing(w) ==
    /\ IF active THEN Go(w, "close", "asleep") /\ UNCHANGED emptyq
                 ELSE Go(w, "close", "idle")   /\ emptyq' = emptyq \ {w}
    /\ UNCHANGED <<ringVars, outVars, kernVars, portVars, out_mutex, outq, rest, order, space>>

Closed(w) ==
    /\ \/ /\ w \notin emptyq /\ Go(w, "asleep", "close")
          /\ emptyq' = emptyq \cup {w}
       \/ /\ Go(w, "asleep", "idle")                \* a signal
          /\ emptyq' = emptyq \ {w}
    /\ UNCHANGED <<ringVars, outVars, kernVars, portVars, out_mutex, outq, rest, order, space>>

-----------------------------------------------------------------------------
(* shortp_do_work: the worker waits for the printer, writes a byte or      *)
(* stops, and appends a time stamp.                                        *)
WorkBegin ==
    /\ queued /\ worker = "idle"
    /\ queued' = FALSE /\ worker' = "wait"
    /\ UNCHANGED <<ringVars, outVars, procVars, portVars, active, pending, timer>>

WorkReady ==
    /\ worker = "wait" /\ printer # "busy"
    /\ worker' = "write"
    /\ UNCHANGED <<ringVars, outVars, procVars, portVars, active, queued, pending, timer>>

(* Free space, which is 0 as well when the buffer is empty.                *)
Free == (OutSize + out_tail' - out_head) % OutSize

WakeWriters_Drained == out_head = out_tail'       \* slip: only when drained
WakeWriters == Free > MinSpace

WorkEmpty ==
    /\ worker = "write" /\ out_head = out_tail
    /\ worker' = "line"
    /\ active' = FALSE /\ pending' = FALSE
    /\ emptyq' = {}
    /\ UNCHANGED <<ringVars, outVars, portVars, out_mutex, outq, pc, rest, order, space,
                   queued, timer>>

Rearmed_Not == pending                            \* slip: no mod_timer
Rearmed == TRUE

WorkByte ==
    /\ worker = "write" /\ out_head # out_tail
    /\ worker' = "line"
    /\ pending' = Rearmed
    /\ got' = <<bytes[out_tail]>> /\ printer' = "busy"
    /\ out_tail' = incr_out_bp(out_tail, 1)
    /\ outq' = IF WakeWriters THEN {} ELSE outq
    /\ UNCHANGED <<ringVars, out_head, bytes, out_mutex, emptyq, pc, rest, order, space,
                   active, queued, timer, irq>>

WorkLine ==
    /\ worker = "line" /\ worker' = "wake" /\ AppendLine
    /\ UNCHANGED <<outVars, procVars, portVars, active, queued, pending, timer>>

WorkEnd ==
    /\ worker = "wake" /\ worker' = "idle" /\ WakeReaders
    /\ UNCHANGED <<outVars, procVars, portVars, active, queued, pending, timer>>

Work == WorkBegin \/ WorkReady \/ WorkEmpty \/ WorkByte \/ WorkLine \/ WorkEnd

-----------------------------------------------------------------------------
(* shortp_interrupt, which asks for output without the lock. *)
Interrupt ==
    /\ irq /\ irq' = FALSE
    /\ queued' = (queued \/ active)
    /\ UNCHANGED <<ringVars, outVars, procVars, active, worker, pending, timer, printer, got>>

(* shortp_timeout: a look without the lock, the status under it, and what  *)
(* an interrupt would have done.                                           *)
TimerFires ==
    /\ pending /\ timer = "idle" /\ pending' = FALSE
    /\ timer' = IF active THEN "status" ELSE "idle"
    /\ UNCHANGED <<ringVars, outVars, procVars, portVars, active, queued, worker>>

TimerStatus ==
    /\ timer = "status"
    /\ IF printer # "ack" THEN timer' = "idle" /\ pending' = TRUE
                          ELSE timer' = "irq"  /\ UNCHANGED pending
    /\ UNCHANGED <<ringVars, outVars, procVars, portVars, active, queued, worker>>

TimerIrq ==
    /\ timer = "irq" /\ timer' = "idle"
    /\ queued' = (queued \/ active)
    /\ UNCHANGED <<ringVars, outVars, procVars, portVars, active, worker, pending>>

(* The printer: busy after a strobe, then for a moment acknowledging, which*)
(* interrupts, then ready.                                                 *)
PrinterAck ==
    /\ printer = "busy" /\ printer' = "ack"
    /\ irq' \in IF Losing THEN {TRUE, irq} ELSE {TRUE}
    /\ UNCHANGED <<ringVars, outVars, procVars, kernVars, got>>

PrinterReady ==
    /\ printer = "ack" /\ printer' = "ready"
    /\ UNCHANGED <<ringVars, outVars, procVars, kernVars, irq, got>>

-----------------------------------------------------------------------------
ReaderStep(r) ==
    /\ ReadCall(r) \/ ReadSignal(r) \/ Read(r)
    /\ UNCHANGED <<outVars, procVars, kernVars, portVars>>

Writing(w) ==
    \/ WriteOrder(w) \/ Enough(w) \/ Full(w) \/ Woken(w) \/ Copy(w) \/ Start(w)

Next ==
    \/ Work
    \/ Interrupt \/ TimerFires \/ TimerStatus \/ TimerIrq
    \/ PrinterAck \/ PrinterReady
    \/ \E r \in Reader : ReaderStep(r)
    \/ \E w \in Writer :
        \/ \E d \in Data : WriteCall(w, d)
        \/ GiveUp(w) \/ Writing(w) \/ Release(w) \/ Closing(w) \/ Closed(w)

Spec == Init /\ [][Next]_vars

(* The worker, interrupts, timers and the printer go on, and so do writers *)
(* in a call.                                                              *)
FairSpec == Spec
    /\ WF_vars(Work) /\ WF_vars(Interrupt)
    /\ WF_vars(TimerFires) /\ WF_vars(TimerStatus) /\ WF_vars(TimerIrq)
    /\ WF_vars(PrinterAck) /\ WF_vars(PrinterReady)
    /\ \A w \in Writer : WF_vars(Writing(w))

-----------------------------------------------------------------------------
TypeOK ==
    /\ RingOK
    /\ out_head \in 0 .. OutSize - 1 /\ out_tail \in 0 .. OutSize - 1
    /\ out_mutex \in Writer \cup {Nobody}
    /\ \A w \in Writer : out_mutex = w <=> pc[w] \in {"order", "space", "copy", "start", "sleep"}
    /\ active \in BOOLEAN /\ queued \in BOOLEAN /\ pending \in BOOLEAN /\ irq \in BOOLEAN
    /\ worker \in {"idle", "wait", "write", "line", "wake"}
    /\ timer \in {"idle", "status", "irq"}
    /\ printer \in {"busy", "ack", "ready"}

(***************************************************************************)
(* "When output is active, the timer is too" (shortprint.c:144), unless it *)
(* has just fired or the worker is about to start it again.                *)
(***************************************************************************)
TimerWhenActive == active =>
    pending \/ timer # "idle" \/ queued \/ worker \in {"wait", "write"}

(***************************************************************************)
(* Bytes that are waiting are on their way: output is active, or the writer*)
(* is about to make it so: shortp_do_work does not go idle between a       *)
(* writer's copy and its look at shortp_output_active.                     *)
(***************************************************************************)
DataKeepsActive ==
    out_head # out_tail => active \/ \E w \in Writer : pc[w] = "start"

(***************************************************************************)
(* Output goes on: its indices stay inside the buffers, active output has  *)
(* something that moves it, and what waits is output that is active.       *)
(***************************************************************************)
OutputKeepsMoving == TypeOK /\ TimerWhenActive /\ DataKeepsActive

(***************************************************************************)
(* A writer that sleeps has not missed the wake-up of shortp_do_work: less *)
(* than half the buffer is free, or, as the worker counts, nothing.        *)
(***************************************************************************)
WritersWoken == \A w \in outq : pc[w] = "sleep" =>
    (OutSize + out_tail - out_head) % OutSize <= MinSpace

(***************************************************************************)
(* Nor does a close sleep on (shortp_release) while no output is active.   *)
(***************************************************************************)
ClosersWoken == \A w \in emptyq : pc[w] = "asleep" => active

(***************************************************************************)
(* Nor a reader (shortp_read) over a line; and it copies bytes of the page *)
(* and no others, although it holds no lock and the last line of the page  *)
(* may run past its end.                                                   *)
(***************************************************************************)
ReadersServed == SleepsOnNothing(worker = "wake") /\ CopyInPage

(***************************************************************************)
(* Who waits for the printer, in shortp_write, shortp_release or           *)
(* shortp_read, gets the wake-up it waits for.                             *)
(***************************************************************************)
NoLostWakeup == WritersWoken /\ ClosersWoken /\ ReadersServed

(***************************************************************************)
(* Bytes come out of the printer in the order they were written, each once,*)
(* those of a write together, however late interrupts, timers and writers  *)
(* are.                                                                    *)
(***************************************************************************)
Waiting == [i \in 1 .. (OutSize + out_head - out_tail) % OutSize |->
                bytes[(out_tail + i - 1) % OutSize]]

Device == INSTANCE PrintQueue WITH Capacity <- OutSize - 1, queue <- Waiting
ImplementsQueue == Device!Spec

(***************************************************************************)
(* What is written is printed, "in case we miss interrupts" too            *)
(* (shortprint.c:145).                                                     *)
(***************************************************************************)
OutputGoesOn == out_head # out_tail ~> printer = "busy"

-----------------------------------------------------------------------------
(* The code's texts also state what follows, which the code does not keep: *)
(* TLC refutes it.                                                         *)

(***************************************************************************)
(* "The wait queue will be awakened when space becomes available in the    *)
(* buffer" (shortprint.c:91): no writer sleeps on an empty one.            *)
(***************************************************************************)
SleeperHasNoSpace == \A w \in outq : pc[w] = "sleep" => out_head # out_tail
=============================================================================
