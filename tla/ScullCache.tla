----------------------------- MODULE ScullCache -----------------------------
(***************************************************************************)
(* scullc/main.c: the scull devices whose quanta are objects of one slab   *)
(* cache, scullc_cache.  Its objects have the size that scullc_quantum had *)
(* when the module was loaded; an ioctl changes scullc_quantum later.  An  *)
(* object keeps its bytes when it is freed, and the next device that gets  *)
(* it is to see zeroes.                                                    *)
(*                                                                         *)
(* A read and a write look up the quantum and the number of slots before   *)
(* they lock the device.  A section under dev->lock is one step, since the *)
(* other things it uses, the parameters and the cache, are read in it once.*)
(***************************************************************************)
EXTENDS Integers, FiniteSets

CONSTANTS
    Dev, Caller,      \* devices; processes that read and write them
    Object,           \* bound: the objects there is memory for
    ObjectSize,       \* scullc_quantum when the cache was made
    Quanta, Qsets,    \* what ioctls set the parameters to
    NBytes,           \* bound: bytes of a device that are written or read
    None

VARIABLES
    scullc_quantum, scullc_qset,
    quantum, qset, size, data,  \* struct scullc_dev; data[d][<<item, slot>>]
    used, bytes,                \* the objects that are allocated; what is in each
    call,                       \* of a caller: device, quantum and qset it looked up
    written,                    \* history: what was written to each byte, 0 where nothing
    spilled,                    \* history: a byte past the end of an object was used
    wrong,                      \* history: a read gave something else than written
    torn                        \* history: a parameter changed under a call, or between
                                \* the trim of its device and an allocation

vars == <<scullc_quantum, scullc_qset, quantum, qset, size, data, used, bytes, call, written,
          spilled, wrong, torn>>

Byte  == 0 .. NBytes - 1
Slots == Byte \X Byte                             \* item and s_pos

Max(S) == CHOOSE n \in S : \A k \in S : k <= n

(* What lies in an object; behind its end, up to Room, are its neighbours. *)
Room == 0 .. Max(Quanta \cup {ObjectSize}) - 1

Init ==
    /\ scullc_quantum = ObjectSize /\ scullc_qset \in Qsets
    /\ quantum = [d \in Dev |-> scullc_quantum] /\ qset = [d \in Dev |-> scullc_qset]
    /\ size = [d \in Dev |-> 0] /\ data = [d \in Dev |-> [s \in Slots |-> None]]
    /\ used = {} /\ bytes = [o \in Object |-> [b \in Room |-> 0]]
    /\ call = [c \in Caller |-> None]
    /\ written = [d \in Dev |-> [b \in Byte |-> 0]]
    /\ spilled = FALSE /\ wrong = FALSE /\ torn = FALSE

-----------------------------------------------------------------------------
(* scullc_trim goes through the slots that the device has, and gives it the*)
(* present parameters.  (Nothing maps the device: vmas stays 0.)           *)
Freed_Param(d) == {data[d][s] : s \in {r \in Slots : r[2] < scullc_qset}} \ {None}  \* slip: not dev->qset
Freed(d) == {data[d][s] : s \in {r \in Slots : r[2] < qset[d]}} \ {None}

(* scullc_open, write-only: its section under the lock. *)
OpenTrim(d) ==
    /\ used' = used \ Freed(d)
    /\ data' = [data EXCEPT ![d] = [s \in Slots |-> None]]
    /\ size' = [size EXCEPT ![d] = 0]
    /\ quantum' = [quantum EXCEPT ![d] = scullc_quantum]
    /\ qset' = [qset EXCEPT ![d] = scullc_qset]
    /\ written' = [written EXCEPT ![d] = [b \in Byte |-> 0]]
    /\ UNCHANGED <<scullc_quantum, scullc_qset, bytes, call, spilled, wrong, torn>>

Ioctl ==
    /\ scullc_quantum' \in Quanta /\ scullc_qset' \in Qsets
    /\ scullc_quantum' = scullc_quantum \/ scullc_qset' = scullc_qset
    /\ UNCHANGED <<quantum, qset, size, data, used, bytes, call, written, spilled, wrong, torn>>

-----------------------------------------------------------------------------
LookUp(c, d) ==
    /\ call[c] = None
    /\ call' = [call EXCEPT ![c] = [dev |-> d, quantum |-> quantum[d], qset |-> qset[d]]]
    /\ UNCHANGED <<scullc_quantum, scullc_qset, quantum, qset, size, data, used, bytes, written,
                   spilled, wrong, torn>>

(* Where a byte lies for a call, and how much of its quantum is left. *)
Place(p, k) ==
    LET rest == p % (k.quantum * k.qset)
    IN  [slot |-> <<p \div (k.quantum * k.qset), rest \div k.quantum>>, q |-> rest % k.quantum]

Cut(n, p, k) ==
    LET left == k.quantum - Place(p, k).q IN IF n > left THEN left ELSE n

Straddles(k) == k.quantum # quantum[k.dev] \/ k.qset # qset[k.dev]

(* The memset of a new object, as long as the parameter is at this moment. *)
Cleared_Not(old) == old                           \* slip: no memset
Cleared(old) == [b \in Room |-> IF b < scullc_quantum THEN 0 ELSE old[b]]

(***************************************************************************)
(* scullc_write under the lock, of n bytes x at p, of which the copy from  *)
(* the user brings k: all, or it has failed.  The history takes it that    *)
(* what a copy that failed has brought is the caller's own.                *)
(***************************************************************************)
Write(c, p, n, k, x) ==
    /\ call[c] # None
    /\ LET me == call[c]
           d == me.dev
           at == Place(p, me)
           m == Cut(n, p, me)
           new == data[d][at.slot] = None
       IN \E o \in Object :
            /\ IF new THEN o \notin used ELSE o = data[d][at.slot]
            /\ k <= m
            /\ used' = used \cup {o}
            /\ data' = [data EXCEPT ![d][at.slot] = o]
            /\ bytes' = [bytes EXCEPT ![o] =
                    LET old == IF new THEN Cleared(@) ELSE @
                    IN  [b \in Room |-> IF b \in at.q .. at.q + k - 1 THEN x ELSE old[b]]]
            /\ written' = [written EXCEPT ![d] =
                    [b \in Byte |-> IF b \in p .. p + k - 1 THEN x ELSE @[b]]]
            /\ size' = IF k = m /\ size[d] < p + m THEN [size EXCEPT ![d] = p + m] ELSE size
            /\ spilled' = (spilled \/ at.q + k > ObjectSize
                                   \/ (new /\ scullc_quantum > ObjectSize))
            /\ torn' = (torn \/ Straddles(me) \/ (new /\ scullc_quantum # me.quantum))
    /\ call' = [call EXCEPT ![c] = None]
    /\ UNCHANGED <<scullc_quantum, scullc_qset, quantum, qset, wrong>>

(* An allocation fails: that of the slots of the item, or of the object. *)
WriteNomem(c, p) ==
    /\ call[c] # None
    /\ data[call[c].dev][Place(p, call[c]).slot] = None
    /\ call' = [call EXCEPT ![c] = None]
    /\ UNCHANGED <<scullc_quantum, scullc_qset, quantum, qset, size, data, used, bytes, written,
                   spilled, wrong, torn>>

(* scullc_read under the lock, of n bytes from p; it does not fill holes. *)
ReadCount(d, n, p) == IF p + n > size[d] THEN size[d] - p ELSE n

Read(c, p, n) ==
    /\ call[c] # None
    /\ LET me == call[c]
           d == me.dev
           at == Place(p, me)
           o == data[d][at.slot]
           m == Cut(ReadCount(d, n, p), p, me)
       IN IF p > size[d] \/ o = None THEN UNCHANGED <<wrong, torn>>
          ELSE /\ torn' = (torn \/ Straddles(me))
               /\ wrong' = (wrong \/ (~torn' /\ ~spilled /\ \E i \in 0 .. m - 1 :
                                        bytes[o][at.q + i] # written[d][p + i]))
    /\ call' = [call EXCEPT ![c] = None]
    /\ UNCHANGED <<scullc_quantum, scullc_qset, quantum, qset, size, data, used, bytes, written,
                   spilled>>

-----------------------------------------------------------------------------
(* Every device's bytes are its own, so that a mixture shows: x is for it. *)
Next ==
    \/ Ioctl
    \/ \E d \in Dev : OpenTrim(d)
    \/ \E c \in Caller, d \in Dev : LookUp(c, d)
    \/ \E c \in Caller, p \in Byte, n \in 1 .. 2 : p + n <= NBytes /\ Read(c, p, n)
    \/ \E c \in Caller, p \in Byte, n \in 1 .. 2, k \in 0 .. 2 :
        p + n <= NBytes /\ call[c] # None /\ Write(c, p, n, k, call[c].dev)
    \/ \E c \in Caller, p \in Byte : WriteNomem(c, p)

Spec == Init /\ [][Next]_vars

-----------------------------------------------------------------------------
Sane == ~torn /\ ~spilled

Held(d) == {s \in Slots : data[d][s] # None}

(***************************************************************************)
(* "one cache pointer: use it for all devices" (scullc/main.c:56): unless  *)
(* a parameter changes under a call (torn) or an object is left behind its *)
(* end (spilled), the objects in use are those of the devices, each of one slot*)
(* of one device, so that when the devices are trimmed at the removal of   *)
(* the module nothing is left in the cache that is destroyed.              *)
(***************************************************************************)
ObjectsOwned == Sane =>
    /\ used = UNION {{data[d][s] : s \in Held(d)} : d \in Dev}
    /\ \A d, e \in Dev : \A s \in Held(d), t \in Held(e) :
        data[d][s] = data[e][t] => d = e /\ s = t

(***************************************************************************)
(* What is read from a device is what was written to it, and zeroes between*)
(* ("memset(dptr->data[s_pos], 0, ...)", main.c:248), never what another   *)
(* device had in the same object; again for as long as nothing has torn or *)
(* spilled.                                                                *)
(***************************************************************************)
ReadsWritten ==
    /\ ~wrong
    /\ Sane => \A d \in Dev : \A b \in Byte :
        LET at == Place(b, [quantum |-> quantum[d], qset |-> qset[d]])
            o == data[d][at.slot]
        IN  IF o = None THEN written[d][b] = 0 ELSE bytes[o][at.q] = written[d][b]

-----------------------------------------------------------------------------
(* The code's texts also state what follows, which the code does not keep: *)
(* TLC refutes it.                                                         *)

(***************************************************************************)
(* "Allocate a quantum using the memory cache" (main.c:243): a quantum is  *)
(* as long as the device takes it to be.  It is as long as the quanta of   *)
(* the time when the cache was made.                                       *)
(***************************************************************************)
ObjectHolds == ~spilled
=============================================================================
