------------------------------ MODULE AesdChar ------------------------------
(***************************************************************************)
(* aesd-char-driver/main.c: the character device.  Every open file may have*)
(* a read or a write in progress; driver_lock serialises them around the   *)
(* circular buffer (the variables of CircularBuffer), around temp_entry,   *)
(* the line being built, and around the memory both point to.              *)
(*                                                                         *)
(* Memory is a set of allocated addresses and the bytes each one holds; a  *)
(* byte that was allocated and never written is Garbage.                   *)
(***************************************************************************)
EXTENDS CircularBuffer

LOCAL INSTANCE TLC

CONSTANTS
    Handle,    \* open files
    Data,      \* the byte sequences a write can carry
    Count,     \* the sizes a read can ask for
    MaxLine,   \* bound: a write is not made when its line would grow past this
    NL,        \* '\n'
    Garbage,   \* an uninitialised byte
    ZeroPtr,   \* what kmalloc(0) returns: not NULL, and not memory
    Nobody     \* owner of an unlocked mutex

ASSUME HandleAssumption == Nobody \notin Handle
ASSUME ZeroPtrAssumption == ZeroPtr \notin Ptr \cup {NULL}
ASSUME CountAssumption == Count \subseteq Nat

Byte == (UNION {{d[i] : i \in 1 .. Len(d)} : d \in Data}) \cup {NL, Garbage}

ASSUME DataAssumption == Data \subseteq Seq(Byte)

VARIABLES
    loaded,    \* the module is inserted
    owner,     \* holder of driver_lock
    temp,      \* dev->temp_entry
    heap,      \* the addresses kmalloc handed out and kfree did not take back
    mem,       \* mem[p]: the bytes of the allocation at p
    pc,        \* pc[h]: where the system call on h is
    call,      \* call[h]: its arguments
    f_pos,     \* f_pos[h]: the file position
    answer,    \* history: the bytes the last aesd_read returned, until the next call
    faulted    \* history: an allocation failed, a write copied less than it was
               \* given, or the module was removed in the middle of a line

devVars == <<temp, heap, mem>>
ioVars  == <<pc, call, f_pos>>
vars == <<bufVars, loaded, owner, devVars, ioVars, answer, faulted>>

NoCall == [op |-> "none"]
Calls  == [op : {"read"}, count : Count] \cup [op : {"write"}, data : Data]
Clean  == [buffptr |-> NULL, size |-> 0]

DeviceTypeOK ==
    /\ BufferTypeOK
    /\ loaded \in BOOLEAN
    /\ owner \in Handle \cup {Nobody}
    /\ temp \in [buffptr : Ptr \cup {NULL, ZeroPtr}, size : Nat]
    /\ heap \subseteq Ptr
    /\ mem \in [Ptr -> Seq(Byte)]
    /\ pc \in [Handle -> {"closed", "open", "lock", "read", "write", "copy"}]
    /\ call \in [Handle -> Calls \cup {NoCall}]
    /\ faulted \in BOOLEAN

TypeOK == DeviceTypeOK /\ f_pos \in [Handle -> Nat] /\ answer \in Seq(Byte)

Init ==
    /\ BufferInit
    /\ loaded = TRUE
    /\ owner = Nobody
    /\ temp = Clean
    /\ heap = {}
    /\ mem = [p \in Ptr |-> <<>>]
    /\ pc = [h \in Handle |-> "closed"]
    /\ call = [h \in Handle |-> NoCall]
    /\ f_pos = [h \in Handle |-> 0]
    /\ answer = <<>>
    /\ faulted = FALSE

(***************************************************************************)
(* aesd_open and aesd_release; the file layer starts a file at position 0, *)
(* and the position goes away with the file.                               *)
(***************************************************************************)
Open(h) ==
    /\ loaded /\ pc[h] = "closed"
    /\ pc' = [pc EXCEPT ![h] = "open"]
    /\ UNCHANGED <<bufVars, loaded, owner, devVars, call, f_pos, answer, faulted>>

Release(h) ==
    /\ pc[h] = "open"
    /\ pc' = [pc EXCEPT ![h] = "closed"]
    /\ f_pos' = [f_pos EXCEPT ![h] = 0]
    /\ UNCHANGED <<bufVars, loaded, owner, devVars, call, answer, faulted>>

(***************************************************************************)
(* A program calls aesd_read or aesd_write and waits for driver_lock; what *)
(* it asks for matters, and is chosen, when it gets the lock.              *)
(* mutex_lock_interruptible: the lock, or -ERESTARTSYS while it is taken.  *)
(***************************************************************************)
Enter(h) ==
    /\ pc[h] = "open"
    /\ pc' = [pc EXCEPT ![h] = "lock"]
    /\ UNCHANGED <<bufVars, loaded, owner, devVars, call, f_pos, answer, faulted>>

LockFree == owner = Nobody

Lock(h, c) ==
    /\ pc[h] = "lock" /\ LockFree
    /\ owner' = h
    /\ pc' = [pc EXCEPT ![h] = c.op]
    /\ call' = [call EXCEPT ![h] = c]
    /\ answer' = <<>>
    /\ UNCHANGED <<bufVars, loaded, devVars, f_pos, faulted>>

LockRead(h)  == \E n \in Count : Lock(h, [op |-> "read", count |-> n])
LockWrite(h) == \E d \in Data :
    temp.size + Len(d) <= MaxLine /\ Lock(h, [op |-> "write", data |-> d])

Interrupted(h) ==
    /\ pc[h] = "lock" /\ ~LockFree
    /\ pc' = [pc EXCEPT ![h] = "open"]
    /\ UNCHANGED <<bufVars, loaded, owner, devVars, call, f_pos, answer, faulted>>

(* The cleanup label: unlock and return to the program. *)
Unlock_Forgotten == UNCHANGED owner               \* slip: return before it
Unlock == owner' = Nobody

Return(h) ==
    /\ Unlock
    /\ pc' = [pc EXCEPT ![h] = "open"]
    /\ call' = [call EXCEPT ![h] = NoCall]

(***************************************************************************)
(* aesd_read under the lock: at most one entry's bytes, from the one that  *)
(* holds f_pos; past the end, nothing, and the handle is rewound.          *)
(***************************************************************************)
ReadLen(slot, byte, n) ==
    LET left == entry[slot].size - byte IN IF n < left THEN n ELSE left

Advance_Asked(h, len) == call[h].count            \* slip: count, not retval
Advance(h, len) == len

Read(h) == pc[h] = "read" /\
    LET at  == FindEntry(f_pos[h])
        len == ReadLen(at.slot, at.byte, call[h].count)
    IN  /\ Return(h)
        /\ \/ /\ at = NotFound
              /\ answer' = <<>>
              /\ f_pos' = [f_pos EXCEPT ![h] = 0]
           \/ /\ at # NotFound
              /\ answer' = SubSeq(mem[entry[at.slot].buffptr],
                                  at.byte + 1, at.byte + len)
              /\ f_pos' = [f_pos EXCEPT ![h] = @ + Advance(h, len)]
           \/ /\ at # NotFound                     \* copy_to_user: -EFAULT
              /\ UNCHANGED <<answer, f_pos>>
        /\ UNCHANGED <<bufVars, loaded, devVars, faulted>>

(***************************************************************************)
(* aesd_write, first half: room for the new bytes.  An empty line gets a   *)
(* new allocation; a line under construction is krealloc'ed, in place or   *)
(* moved, and when that fails its pointer is overwritten with NULL while   *)
(* its size stays.                                                         *)
(***************************************************************************)
Free == Ptr \ heap
Blank(n) == [i \in 1 .. n |-> Garbage]
Grown(s, n) == [i \in 1 .. n |-> IF i <= Len(s) THEN s[i] ELSE Garbage]

Kmalloc(n) ==   \* temp_entry.buffptr = kmalloc(n)
    \/ /\ n = 0
       /\ temp' = [temp EXCEPT !.buffptr = ZeroPtr]
       /\ UNCHANGED <<heap, mem>>
    \/ /\ n > 0
       /\ \E p \in Free :
            /\ temp' = [temp EXCEPT !.buffptr = p]
            /\ heap' = heap \cup {p}
            /\ mem' = [mem EXCEPT ![p] = Blank(n)]

Krealloc(n) ==  \* n > 0 here, since temp.size is not 0
    IF temp.buffptr = NULL
    THEN Kmalloc(n)
    ELSE \E p \in Free \cup {temp.buffptr} :
            /\ temp' = [temp EXCEPT !.buffptr = p]
            /\ heap' = (heap \ {temp.buffptr}) \cup {p}
            /\ mem' = [mem EXCEPT ![temp.buffptr] = <<>>,
                                  ![p] = Grown(mem[temp.buffptr], n)]

NewLine_Restart == TRUE                           \* slip: size not tested
NewLine == temp.size = 0

WriteAlloc(h) ==
    /\ pc[h] = "write"
    /\ IF NewLine THEN Kmalloc(Len(call[h].data))
                  ELSE Krealloc(temp.size + Len(call[h].data))
    /\ pc' = [pc EXCEPT ![h] = "copy"]
    /\ UNCHANGED <<bufVars, loaded, owner, call, f_pos, answer, faulted>>

WriteNoMem(h) ==
    /\ pc[h] = "write"
    /\ NewLine => Len(call[h].data) > 0
    /\ temp' = [temp EXCEPT !.buffptr = NULL]
    /\ faulted' = TRUE
    /\ Return(h)
    /\ UNCHANGED <<bufVars, loaded, heap, mem, f_pos, answer>>

(***************************************************************************)
(* Second half: copy_from_user copies the first k bytes; a newline anywhere*)
(* in the line commits it to the ring, whose evicted line is freed, and a  *)
(* new line starts.  memchr may take an uninitialised byte for a newline.  *)
(***************************************************************************)
Overwrite(s, at, d) ==
    [i \in 1 .. Len(s) |-> IF i > at /\ i <= at + Len(d) THEN d[i - at] ELSE s[i]]

Occurs(b, s) == \E i \in 1 .. Len(s) : s[i] = b

AfterCommit_Kept(t) == t                          \* slip: temp_entry not reset
AfterCommit(t) == Clean

Commit(t, m) ==
    /\ AddEntry(t)
    /\ temp' = AfterCommit(t)
    /\ heap' = heap \ {ret'}
    /\ mem' = IF ret' = NULL THEN m ELSE [m EXCEPT ![ret'] = <<>>]

WriteCopy(h) == pc[h] = "copy" /\
    \E k \in 0 .. Len(call[h].data) :
        LET t == [temp EXCEPT !.size = @ + k]
            m == IF temp.buffptr = ZeroPtr THEN mem
                 ELSE [mem EXCEPT ![temp.buffptr] =
                        Overwrite(@, temp.size, SubSeq(call[h].data, 1, k))]
            line == IF t.size = 0 THEN <<>> ELSE SubSeq(m[t.buffptr], 1, t.size)
        IN  /\ \/ /\ Occurs(NL, line) \/ Occurs(Garbage, line)
                  /\ Commit(t, m)
               \/ /\ ~Occurs(NL, line)
                  /\ temp' = t /\ mem' = m
                  /\ UNCHANGED <<bufVars, heap>>
            /\ f_pos' = [f_pos EXCEPT ![h] = 0]
            /\ Return(h)
            /\ faulted' = (faulted \/ k < Len(call[h].data))
            /\ UNCHANGED <<loaded, answer>>

(***************************************************************************)
(* aesd_cleanup_module and aesd_init_module: no file is open (the kernel   *)
(* holds the module while one is); the entries of the ring are freed, the  *)
(* line under construction is not; the next insertion zeroes the device.   *)
(***************************************************************************)
RingPtrs == {entry[i].buffptr : i \in Slot} \ {NULL}

Unload ==
    /\ loaded /\ \A h \in Handle : pc[h] = "closed"
    /\ loaded' = FALSE
    /\ heap' = heap \ RingPtrs
    /\ mem' = [p \in Ptr |-> IF p \in RingPtrs THEN <<>> ELSE mem[p]]
    /\ faulted' = (faulted \/ temp.size > 0)
    /\ UNCHANGED <<bufVars, owner, temp, ioVars, answer>>

Load ==
    /\ ~loaded
    /\ loaded' = TRUE
    /\ temp' = Clean
    /\ entry' = [i \in Slot |-> Empty]
    /\ in_offs' = 0 /\ out_offs' = 0 /\ full' = FALSE /\ ret' = NULL
    /\ UNCHANGED <<owner, heap, mem, ioVars, answer, faulted>>

Next ==
    \/ Unload
    \/ Load
    \/ \E h \in Handle :
        \/ Open(h)      \/ Release(h)
        \/ Enter(h)     \/ Interrupted(h)
        \/ LockRead(h)  \/ LockWrite(h)
        \/ Read(h)
        \/ WriteAlloc(h) \/ WriteNoMem(h) \/ WriteCopy(h)

(***************************************************************************)
(* Fairness: the kernel keeps running whoever is inside a call (nothing in *)
(* a call waits but for the mutex), and the mutex is handed to its waiters *)
(* in turn, so nobody who waits for it is passed over for ever.            *)
(***************************************************************************)
Progress(h) == Read(h) \/ WriteAlloc(h) \/ WriteNoMem(h) \/ WriteCopy(h)

Spec == Init /\ [][Next]_vars
FairSpec == Spec /\ \A h \in Handle : 
    WF_vars(Progress(h)) /\ SF_vars(LockRead(h) \/ LockWrite(h))

-----------------------------------------------------------------------------
Inside == {h \in Handle : pc[h] \in {"read", "write", "copy"}}

(***************************************************************************)
(* driver_lock is held by whoever is between mutex_lock_interruptible and  *)
(* the cleanup label of aesd_read and aesd_write, and by nobody else.      *)
(***************************************************************************)
OneInside == Inside = IF owner = Nobody THEN {} ELSE {owner}

(***************************************************************************)
(* The ring never shows memory that is gone: every live entry has a block  *)
(* of its own, still allocated, that holds as many bytes as the entry says;*)
(* and the line under construction shares none of them.                    *)
(***************************************************************************)
NoDanglingEntry == loaded =>
    /\ \A i \in LiveSlots : /\ entry[i].buffptr \in heap \ {temp.buffptr}
                            /\ entry[i].size \in 1 .. Len(mem[entry[i].buffptr])
    /\ \A i, j \in LiveSlots : entry[i].buffptr = entry[j].buffptr => i = j
    /\ temp.buffptr \in Ptr => /\ temp.buffptr \in heap
                               /\ temp.size <= Len(mem[temp.buffptr])

(***************************************************************************)
(* Every block is reachable from the device, or something failed before:   *)
(* the paths of aesd_write that drop a pointer all start from a fault.     *)
(***************************************************************************)
Owned == {temp.buffptr} \cup (IF loaded THEN RingPtrs ELSE {})

LeaksOnlyAfterFault == heap \subseteq Owned \/ faulted

(***************************************************************************)
(* While the module is inserted, the ring changes only by a committed line *)
(* joining the log of the newest Max, and what add_entry returns for kfree *)
(* is the pointer of the line that falls out of it, or NULL.               *)
(***************************************************************************)
RingKeepsLog == [][loaded' = loaded => BoundedLog!Next]_bufVars

(***************************************************************************)
(* The device programs see: lines, the unfinished line, positions, answers.*)
(* aesd_read and aesd_write each take effect at one moment, whatever the   *)
(* other open files do, and a read returns the bytes at its position.      *)
(***************************************************************************)
Lines == IF ~loaded THEN <<>>
         ELSE [k \in 1 .. Live |-> SubSeq(mem[Log[k].buffptr], 1, Log[k].size)]

Partial == IF ~loaded \/ temp.size = 0 THEN <<>>
           ELSE IF temp.buffptr = NULL THEN Blank(temp.size)
           ELSE SubSeq(mem[temp.buffptr], 1, temp.size)

Device == INSTANCE LineDevice WITH
    N <- Max, lines <- Lines, partial <- Partial, pos <- f_pos

ImplementsLineDevice == Device!Spec

(***************************************************************************)
(* A program that called the driver gets its call back: no path through    *)
(* aesd_read or aesd_write leaves the lock taken.                          *)
(***************************************************************************)
EveryCallReturns(h) == pc[h] = "lock" ~> pc[h] = "open"

-----------------------------------------------------------------------------
(* For TLC: writes of a whole line, of its parts and of nothing; open files*)
(* are alike, and so are blocks of memory.                                 *)
Pieces == {<<"a", NL>>, <<"a">>, <<NL>>, <<>>}

Symmetry == Permutations(Ptr) \cup Permutations(Handle)
=============================================================================
