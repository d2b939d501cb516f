--------------------------- MODULE CircularBuffer ---------------------------
(***************************************************************************)
(* aesd-char-driver/aesd-circular-buffer.{h,c}: a ring of Max entries, each*)
(* a pointer and a size, with the slot to write next (in_offs), the oldest *)
(* slot (out_offs) and a flag telling full from empty when they meet.      *)
(* The functions take no lock of their own: callers serialise them.        *)
(***************************************************************************)
EXTENDS Naturals, Sequences, FiniteSets

CONSTANTS
    Max,      \* AESDCHAR_MAX_WRITE_OPERATIONS_SUPPORTED (10 in the header)
    Ptr,      \* addresses a caller can put in an entry
    NULL,     \* the null pointer
    Sizes     \* sizes a caller can put in an entry

ASSUME MaxAssumption == Max \in Nat \ {0}
ASSUME PtrAssumption == NULL \notin Ptr
ASSUME SizesAssumption == Sizes \subseteq Nat

VARIABLES
    entry,    \* entry[i]: the record stored in slot i
    in_offs,  \* slot the next entry goes to
    out_offs, \* slot of the oldest entry
    full,     \* every slot is in use
    ret       \* what the last aesd_circular_buffer_add_entry returned

bufVars == <<entry, in_offs, out_offs, full, ret>>

Slot  == 0 .. Max - 1
Entry == [buffptr : Ptr \cup {NULL}, size : Nat]
Empty == [buffptr |-> NULL, size |-> 0]

BufferTypeOK ==
    /\ entry \in [Slot -> Entry]
    /\ in_offs \in Slot
    /\ out_offs \in Slot
    /\ full \in BOOLEAN
    /\ ret \in Ptr \cup {NULL}

(***************************************************************************)
(* aesd_circular_buffer_init: the whole structure is zeroed.               *)
(***************************************************************************)
BufferInit ==
    /\ entry = [i \in Slot |-> Empty]
    /\ in_offs = 0
    /\ out_offs = 0
    /\ full = FALSE
    /\ ret = NULL

(***************************************************************************)
(* aesd_circular_buffer_add_entry.  in_offs moves past the slot written;   *)
(* out_offs follows only when the buffer was full before the call, and     *)
(* full is recomputed from the two new offsets.                            *)
(***************************************************************************)
NextSlot_NoWrap(i) == i + 1                       \* slip: no modulo
NextSlot(i) == (i + 1) % Max

Evicted_AfterStore(e) == IF full THEN e.buffptr ELSE NULL   \* slip: read late
Evicted(e) == IF full THEN entry[in_offs].buffptr ELSE NULL

OutAfter == IF full THEN NextSlot(out_offs) ELSE out_offs

Meet_Ignored == FALSE                             \* slip: full never set
Meet == in_offs' = out_offs'

AddEntry(e) ==
    /\ ret' = Evicted(e)
    /\ entry' = [entry EXCEPT ![in_offs] = e]
    /\ in_offs' = NextSlot(in_offs)
    /\ out_offs' = OutAfter
    /\ full' = Meet

(***************************************************************************)
(* aesd_circular_buffer_find_entry_offset_for_fpos.  The do-while visits   *)
(* out_offs first and stops when it comes (back) to in_offs, so it visits  *)
(* every slot both of a full buffer and of one never written to.           *)
(***************************************************************************)
Pos(k) == (out_offs + k) % Max

Visits ==
    CHOOSE d \in 1 .. Max :
        Pos(d) = in_offs /\ \A j \in 1 .. d - 1 : Pos(j) # in_offs

SizeOfFirst(k) ==   \* bytes held by the first k slots visited
    LET sum[j \in 0 .. Max] ==
            IF j = 0 THEN 0 ELSE sum[j - 1] + entry[Pos(j - 1)].size
    IN  sum[k]

NotFound == [slot |-> Max, byte |-> 0]

FindEntry_Late(char_offset) ==                    \* slip: > for >=
    LET hits == {k \in 0 .. Visits - 1 : char_offset <= SizeOfFirst(k + 1)}
        k == CHOOSE k \in hits : \A j \in hits : k <= j
    IN  IF hits = {} THEN NotFound
        ELSE [slot |-> Pos(k), byte |-> char_offset - SizeOfFirst(k)]

FindEntry(char_offset) ==
    LET hits == {k \in 0 .. Visits - 1 : char_offset < SizeOfFirst(k + 1)}
    IN  IF hits = {}
        THEN NotFound
        ELSE LET k == CHOOSE k \in hits : \A j \in hits : k <= j
             IN  [slot |-> Pos(k), byte |-> char_offset - SizeOfFirst(k)]

-----------------------------------------------------------------------------
(***************************************************************************)
(* The buffer on its own: a caller that adds entries, one after another.   *)
(***************************************************************************)
NewEntry == [buffptr : Ptr, size : Sizes]

BufferNext == \E e \in NewEntry : AddEntry(e)

BufferSpec == BufferInit /\ [][BufferNext]_bufVars

(***************************************************************************)
(* The log the ring stands for: the live slots, oldest first.              *)
(***************************************************************************)
Live == IF full THEN Max
        ELSE IF in_offs >= out_offs THEN in_offs - out_offs
        ELSE in_offs + Max - out_offs

Log == [k \in 1 .. Live |-> entry[Pos(k - 1)]]

LiveSlots == {Pos(k) : k \in 0 .. Live - 1}

(***************************************************************************)
(* add_entry's two cases keep the offsets apart: the offsets meet only on  *)
(* a full ring or on one that was never written to, and until the ring is  *)
(* full nothing was overwritten, so out_offs is still the first slot and   *)
(* the slots not yet written are still zero.                               *)
(***************************************************************************)
RingInv ==
    /\ full => in_offs = out_offs
    /\ ~full => /\ out_offs = 0
                /\ \A i \in Slot : i >= in_offs => entry[i] = Empty

(***************************************************************************)
(* The ring implements the bounded log, and returns exactly the pointer of *)
(* the entry that falls out of it, for the caller to free.                 *)
(***************************************************************************)
BoundedLog == INSTANCE WriteLog WITH
    N <- Max, Item <- NewEntry, None <- NULL, log <- Log, told <- ret

ImplementsWriteLog == BoundedLog!Spec

(***************************************************************************)
(* "describing the zero referenced character index if all buffer strings   *)
(* were concatenated end to end" (aesd-circular-buffer.c:23): the bytes of *)
(* the log, each named by its slot and its place in it.                    *)
(***************************************************************************)
Concatenated ==
    LET Bytes(k) == [b \in 1 .. Log[k].size |->
                        [slot |-> Pos(k - 1), byte |-> b - 1]]
        upTo[k \in 0 .. Live] ==
            IF k = 0 THEN <<>> ELSE upTo[k - 1] \o Bytes(k)
    IN  upTo[Live]

(***************************************************************************)
(* A lookup answers with the byte the concatenation has at that offset, and*)
(* with NULL exactly when "not enough data is written" (line 29).          *)
(***************************************************************************)
FindIsExact ==
    \A off \in 0 .. Len(Concatenated) + 1 :
        FindEntry(off) = IF off < Len(Concatenated)
                         THEN Concatenated[off + 1]
                         ELSE NotFound
=============================================================================
