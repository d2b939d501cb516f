------------------------------- MODULE Sleepy -------------------------------
(***************************************************************************)
(* misc-modules/sleepy.c: readers sleep until a writer raises the flag,    *)
(* and lower it when they wake; and misc-modules/complete.c, which uses a  *)
(* completion in its place.  Nothing is read or written but the waiting.   *)
(***************************************************************************)
EXTENDS Naturals, FiniteSets

CONSTANTS
    Reader,      \* processes that read
    Completion,  \* TRUE for complete.c
    Writes       \* bound: calls of the write function

VARIABLES
    flag,                    \* sleepy.c: flag; complete.c: completions not used
    pc,                      \* of a reader
    writer,                  \* "idle", or "wake" between the flag and the wakeup
    written, reads,          \* writes that are over, reads a completion has let go
    due                      \* readers asleep when a writer woke the queue

vars == <<flag, pc, writer, written, reads, due>>

Init ==
    /\ flag = 0 /\ pc = [r \in Reader |-> "idle"]
    /\ writer = "idle" /\ written = 0 /\ reads = 0 /\ due = {}

Go(r, from, to) == pc[r] = from /\ pc' = [pc EXCEPT ![r] = to]

-----------------------------------------------------------------------------
Read(r) ==
    /\ Go(r, "idle", "check")
    /\ UNCHANGED <<flag, writer, written, reads, due>>

(* wait_event_interruptible and wait_for_completion: the reader is on the  *)
(* queue before it looks, and a completion is used up as it is seen.       *)
Check(r) ==
    /\ IF flag = 0 THEN Go(r, "check", "sleep") /\ UNCHANGED flag
       ELSE /\ Go(r, "check", "reset")
            /\ flag' = IF Completion THEN flag - 1 ELSE flag
    /\ UNCHANGED <<writer, written, reads, due>>

Lowered == IF Completion THEN flag ELSE 0

Reset(r) ==
    /\ Go(r, "reset", "idle")
    /\ flag' = Lowered
    /\ reads' = IF Completion THEN reads + 1 ELSE reads
    /\ due' = due \ {r}
    /\ UNCHANGED <<writer, written>>

-----------------------------------------------------------------------------
Raised_Flag == 1                                     \* slip: a flag, not a count
Raised == IF Completion THEN flag + 1 ELSE 1

(* A signal ends the wait of sleepy.c, and the reader goes on as if woken. *)
Signal(r) ==
    /\ ~Completion /\ Go(r, "sleep", "reset")
    /\ UNCHANGED <<flag, writer, written, reads, due>>

(* The sleepers a wakeup may choose: all of them, or one. *)
Woken_None(asleep) == {{}}                           \* slip: nobody is woken
Woken(asleep) ==
    IF Completion /\ asleep # {} THEN {{r} : r \in asleep} ELSE {asleep}

Wake ==
    LET asleep == {r \in Reader : pc[r] = "sleep"} IN
    /\ due' = due \cup asleep
    /\ \E woken \in Woken(asleep) :
          pc' = [r \in Reader |-> IF r \in woken THEN "check" ELSE pc[r]]

(* sleepy.c raises the flag and then wakes; complete() is one step. *)
Write ==
    /\ ~Completion /\ writer = "idle" /\ written < Writes
    /\ writer' = "wake" /\ flag' = Raised
    /\ UNCHANGED <<pc, written, reads, due>>

WakeUp ==
    /\ writer = "wake" /\ writer' = "idle"
    /\ written' = written + 1 /\ Wake
    /\ UNCHANGED <<flag, reads>>

Complete ==
    /\ Completion /\ written < Writes
    /\ written' = written + 1 /\ flag' = Raised /\ Wake
    /\ UNCHANGED <<writer, reads>>

-----------------------------------------------------------------------------
Next ==
    \/ \E r \in Reader : Read(r) \/ Check(r) \/ Reset(r) \/ Signal(r)
    \/ Write \/ WakeUp \/ Complete

Spec == Init /\ [][Next]_vars

(* Readers that are woken run, and a writer goes on to wake. *)
FairSpec ==
    /\ Spec /\ WF_vars(WakeUp)
    /\ \A r \in Reader : WF_vars(Check(r) \/ Reset(r))

-----------------------------------------------------------------------------
TypeOK ==
    /\ flag \in 0 .. Writes /\ (~Completion => flag <= 1)
    /\ pc \in [Reader -> {"idle", "check", "sleep", "reset"}]
    /\ writer \in {"idle", "wake"} /\ written \in 0 .. Writes /\ due \subseteq Reader

(* Every write of complete.c lets exactly one read return, whether the     *)
(* reader came before it or comes later: none is lost, none counts twice.  *)
OneReadPerWrite ==
    written = flag + reads + Cardinality({r \in Reader : pc[r] = "reset"})

(* Nobody is left asleep on a flag that is up and that no writer is about  *)
(* to announce, unless one who is awake will still take it.                *)
NoLostWakeup ==
    flag > 0 /\ writer = "idle" => \/ \A r \in Reader : pc[r] # "sleep"
                                   \/ \E r \in Reader : pc[r] \in {"check", "reset"}

-----------------------------------------------------------------------------
(* The code's texts also state what follows, which the code does not keep: *)
(* TLC refutes it.                                                         *)

(***************************************************************************)
(* "awakening the readers..." (sleepy.c:47): every reader that is asleep   *)
(* when a writer wakes the queue returns.                                  *)
(***************************************************************************)
WakesReaders == \A r \in Reader : r \in due ~> r \notin due
=============================================================================
