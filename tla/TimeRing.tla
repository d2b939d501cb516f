------------------------------ MODULE TimeRing ------------------------------
(***************************************************************************)
(* The page of time stamps that short/short.c and shortprint/shortprint.c  *)
(* share: an interrupt or its bottom half appends a line, which a reader   *)
(* that is not fast enough loses; readers take bytes and hold no lock.     *)
(* Addresses are offsets into the page.                                    *)
(***************************************************************************)
EXTENDS Naturals

CONSTANTS
    Reader,
    PageSize,  \* bytes of the page
    LineLen,   \* what sprintf returns; it writes a zero byte more
    Count      \* the sizes a read can ask for

ASSUME PageAssumption == PageSize \in Nat \ {0} /\ LineLen \in Nat /\ Count \subseteq Nat

VARIABLES
    head, tail,      \* short_head, short_tail
    readers,         \* short_queue
    rpc,             \* where a reader is
    rcount           \* the count of its read

ringVars == <<head, tail, readers, rpc, rcount>>

RingInit ==
    /\ head = 0 /\ tail = 0 /\ readers = {}
    /\ rpc = [r \in Reader |-> "idle"]
    /\ rcount = [r \in Reader |-> 0]

incr_bp(i, delta) == IF i + delta >= PageSize THEN 0 ELSE i + delta

AppendLine ==
    /\ head' = incr_bp(head, LineLen)
    /\ UNCHANGED <<tail, readers, rpc, rcount>>

WakeReaders ==
    /\ readers' = {}
    /\ UNCHANGED <<head, tail, rpc, rcount>>

-----------------------------------------------------------------------------
RGo(r, from, to) == rpc[r] = from /\ rpc' = [rpc EXCEPT ![r] = to]

(* Look, queue up when there is nothing, look again, sleep.                *)
ReadCall(r) ==
    /\ RGo(r, "idle", IF head = tail THEN "queue" ELSE "count")
    /\ UNCHANGED <<head, tail, readers, rcount>>

ReadQueue(r) ==
    /\ RGo(r, "queue", "look")
    /\ readers' = readers \cup {r}
    /\ UNCHANGED <<head, tail, rcount>>

Empty_NotAgain == TRUE                            \* slip: sleeps unlooked
Empty == head = tail

ReadLook(r) ==
    /\ IF Empty
       THEN RGo(r, "look", "sleep") /\ UNCHANGED readers
       ELSE RGo(r, "look", "count") /\ readers' = readers \ {r}
    /\ UNCHANGED <<head, tail, rcount>>

ReadWoken(r) ==
    /\ r \notin readers
    /\ RGo(r, "sleep", IF head = tail THEN "queue" ELSE "count")
    /\ UNCHANGED <<head, tail, readers, rcount>>

ReadSignal(r) ==                                  \* -ERESTARTSYS
    /\ RGo(r, "sleep", "idle")
    /\ readers' = readers \ {r}
    /\ UNCHANGED <<head, tail, rcount>>

Readable_Whole == IF head < tail THEN PageSize ELSE head - tail  \* slip: from 0
Readable == IF head < tail THEN PageSize - tail ELSE head - tail

ReadCount(r) ==
    /\ RGo(r, "count", "copy")
    /\ \E n \in Count :
        rcount' = [rcount EXCEPT ![r] = IF Readable < n THEN Readable ELSE n]
    /\ UNCHANGED <<head, tail, readers>>

ReadCopy(r) ==                                    \* or -EFAULT
    /\ RGo(r, "copy", "incr") \/ RGo(r, "copy", "idle")
    /\ UNCHANGED <<head, tail, readers, rcount>>

ReadIncr(r) ==
    /\ RGo(r, "incr", "idle")
    /\ tail' = incr_bp(tail, rcount[r])
    /\ UNCHANGED <<head, readers, rcount>>

Read(r) ==
    \/ ReadQueue(r) \/ ReadLook(r) \/ ReadWoken(r)
    \/ ReadCount(r) \/ ReadCopy(r) \/ ReadIncr(r)

-----------------------------------------------------------------------------
RingOK ==
    /\ head \in 0 .. PageSize - 1 /\ tail \in 0 .. PageSize - 1
    /\ readers \subseteq Reader
    /\ rpc \in [Reader -> {"idle", "queue", "look", "sleep", "count", "copy", "incr"}]
    /\ rcount \in [Reader -> 0 .. PageSize]

(***************************************************************************)
(* A reader copies bytes of the page, and no others.                       *)
(***************************************************************************)
CopyInPage == \A r \in Reader : rpc[r] = "copy" => tail + rcount[r] <= PageSize

(***************************************************************************)
(* A reader sleeps in the queue only while there is nothing to read, or    *)
(* the line that came is about to wake it.                                 *)
(***************************************************************************)
SleepsOnNothing(waking) ==
    \A r \in readers : rpc[r] = "sleep" /\ head # tail => waking

-----------------------------------------------------------------------------
(* The code's texts also state what follows, which the code does not keep: *)
(* TLC refutes it.                                                         *)

(***************************************************************************)
(* The next line, with the zero behind it, has room in the page.           *)
(***************************************************************************)
LineFits == head + LineLen + 1 <= PageSize
=============================================================================
