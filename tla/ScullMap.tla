------------------------------ MODULE ScullMap ------------------------------
(***************************************************************************)
(* scullp, scullv and sculld (main.c and mmap.c of each): the scull device *)
(* on whole pages, which processes may map.  The three are one program with*)
(* another allocator and another page fault handler.  dev->mutex makes the *)
(* body of a call one step; the order and the set size it works with are   *)
(* read before it waits for the mutex.  dev->vmas counts the mappings and  *)
(* keeps the device from being trimmed; it is changed without the mutex,   *)
(* each time by a read and a write.                                        *)
(*                                                                         *)
(* The unit here is the page: a quantum is 2^order of them.  An item of the*)
(* list is the sequence of its blocks, <<>> when its array is NULL.        *)
(***************************************************************************)
EXTENDS Integers, Sequences, FiniteSets

CONSTANTS
    Driver,          \* "scullp", "scullv" or "sculld"
    File, Proc,      \* open files with a call under way; processes that map
    NPages,          \* bound on file positions
    Orders, Qsets,   \* what an ioctl sets the parameters to
    Block,           \* the blocks of memory there are
    Nomem,           \* items of the list may not be had
    None

VARIABLES
    scullp_order, scullp_qset,      \* the module's parameters
    order, qset, vmas, size, list,  \* struct scullp_dev; list starts with the device
    call, arg, f_pos,               \* of a file: its call, the order and qset that one read
    pc, seen,                       \* of a process: where it is, and the vmas it read
    pages,                          \* of a process: the block mapped at a page, or None
    access,                         \* of a process: the page it is to touch, or None
    stale,                          \* history: a call ran with values not the device's
    spilled,                        \* history: memory was used past its end
    oops                            \* a null pointer was used, with the mutex held

params   == <<scullp_order, scullp_qset>>
devVars  == <<order, qset, vmas, size, list>>
fileVars == <<call, arg, f_pos>>
procVars == <<pc, seen, pages, access>>
history  == <<stale, spilled>>
vars     == <<params, devVars, fileVars, procVars, history, oops>>

Page == 0 .. NPages - 1

Init ==
    /\ scullp_order = 0 /\ scullp_qset \in Qsets
    /\ order = 0 /\ qset = scullp_qset /\ vmas = 0 /\ size = 0 /\ list = <<<<>>>>
    /\ call = [f \in File |-> "none"] /\ arg = [f \in File |-> <<0, 0>>]
    /\ f_pos = [f \in File |-> 0]
    /\ pc = [p \in Proc |-> "unmapped"] /\ seen = [p \in Proc |-> 0]
    /\ pages = [p \in Proc |-> [g \in Page |-> None]]
    /\ access = [p \in Proc |-> None]
    /\ stale = FALSE /\ spilled = FALSE /\ oops = FALSE

Mutex == ~oops /\ ~spilled

-----------------------------------------------------------------------------
(* Where a page is, for an order and a set size.                           *)
Where(g, o, s) == [item  |-> g \div (2 ^ o * s) + 1,
                   s_pos |-> (g % (2 ^ o * s)) \div 2 ^ o + 1,
                   q_pos |-> g % 2 ^ o]

At(f)   == Where(f_pos[f], arg[f][1], arg[f][2])
Room(f) == 2 ^ arg[f][1] - At(f).q_pos

(* The order is that of the first item; that of the others was never set.  *)
BlockPages(i) == IF i = 1 THEN 2 ^ order ELSE 1

(* Blocks in the list or in the memory of a process are in use.            *)
Held == UNION {{list[i][j] : j \in 1 .. Len(list[i])} : i \in 1 .. Len(list)}
        \cup {pages[p][g] : p \in Proc, g \in Page}

Unused == Block \ Held

Least(a, b) == IF a < b THEN a ELSE b

(* scullp_follow adds the items that are missing.                          *)
Follow(n) == [i \in 1 .. (IF Len(list) < n THEN n ELSE Len(list)) |->
                IF i <= Len(list) THEN list[i] ELSE <<>>]

-----------------------------------------------------------------------------
(* A call reads the features of the device, and waits for the mutex.       *)
Features(f, op) ==
    /\ call[f] = "none" /\ call' = [call EXCEPT ![f] = op]
    /\ arg' = [arg EXCEPT ![f] = <<order, qset>>]
    /\ UNCHANGED <<params, devVars, f_pos, procVars, history, oops>>

Start(f, op) ==
    /\ Mutex /\ call[f] = op
    /\ call' = [call EXCEPT ![f] = "none"] /\ arg' = [arg EXCEPT ![f] = <<0, 0>>]
    /\ stale' = (stale \/ arg[f] # <<order, qset>>)
    /\ UNCHANGED <<params, order, qset, vmas, procVars>>

Interrupted(f) ==
    /\ call[f] # "none" /\ call' = [call EXCEPT ![f] = "none"]
    /\ arg' = [arg EXCEPT ![f] = <<0, 0>>]
    /\ UNCHANGED <<params, devVars, f_pos, procVars, history, oops>>

(* The new item is cleared before anybody looks whether there is one.      *)
FollowOops(f) ==
    /\ Nomem /\ Len(list) < At(f).item
    /\ oops' = TRUE /\ UNCHANGED <<size, list, f_pos, spilled>>

Overrun == spilled' = TRUE /\ UNCHANGED <<size, list, f_pos, oops>>

Nothing(l) == list' = l /\ UNCHANGED <<size, f_pos, spilled, oops>>

(* Of n pages: no further than the size and the end of the quantum; a hole *)
(* is not filled, but the items before it are.                             *)
Read(f) == Start(f, "read") /\
    IF f_pos[f] > size THEN Nothing(list)
    ELSE \/ FollowOops(f)
         \/ \E n \in 0 .. NPages :
            LET w == At(f)
                l == Follow(w.item)
                c == Least(Least(n, size - f_pos[f]), Room(f))
            IN  IF l[w.item] = <<>> THEN Nothing(l)
                ELSE IF w.s_pos > Len(l[w.item]) THEN Overrun
                ELSE IF l[w.item][w.s_pos] = None THEN Nothing(l)
                ELSE IF w.q_pos + c > BlockPages(w.item) THEN Overrun
                ELSE \/ Nothing(l)                               \* -EFAULT
                     \/ /\ list' = l /\ f_pos' = [f_pos EXCEPT ![f] = @ + c]
                        /\ UNCHANGED <<size, spilled, oops>>

Fits_Any(f, n) == n                               \* slip: not cut at the quantum
Fits(f, n) == Least(n, Room(f))

Write(f) == Start(f, "write") /\
    \/ FollowOops(f)
    \/ \E n \in 0 .. NPages - f_pos[f] :
        LET w     == At(f)
            l     == Follow(w.item)
            array == IF l[w.item] = <<>> THEN [i \in 1 .. arg[f][2] |-> None] ELSE l[w.item]
            With(b) == [l EXCEPT ![w.item] = [array EXCEPT ![w.s_pos] = b]]
        IN  \/ l[w.item] = <<>> /\ Nothing(l)                    \* -ENOMEM
            \/ w.s_pos > Len(array) /\ Overrun
            \/ /\ w.s_pos <= Len(array)
               /\ \/ array[w.s_pos] = None /\ Nothing(With(None))
                  \/ \E b \in IF array[w.s_pos] # None THEN {array[w.s_pos]}
                              ELSE IF Unused = {} THEN {}
                              ELSE {CHOOSE u \in Unused : TRUE} :
                     \/ w.q_pos + Fits(f, n) > BlockPages(w.item) /\ Overrun
                     \/ /\ w.q_pos + Fits(f, n) <= BlockPages(w.item)
                        /\ \/ Nothing(With(b))                   \* -EFAULT
                           \/ /\ list' = With(b)
                              /\ f_pos' = [f_pos EXCEPT ![f] = @ + Fits(f, n)]
                              /\ size' = IF size < f_pos'[f] THEN f_pos'[f] ELSE size
                              /\ UNCHANGED <<spilled, oops>>

(* scullp_trim frees the device, unless it is mapped, and only then takes  *)
(* the parameters; it looks at as many blocks of an item as the set has.   *)
MayTrim_Mapped == TRUE                            \* slip: vmas not looked at
MayTrim == vmas = 0

Trim ==
    /\ Mutex /\ MayTrim
    /\ spilled' = (\E i \in 1 .. Len(list) : Len(list[i]) \in 1 .. qset - 1)
    /\ list' = <<<<>>>> /\ size' = 0
    /\ order' = scullp_order /\ qset' = scullp_qset
    /\ UNCHANGED <<params, vmas, fileVars, procVars, stale, oops>>

(* An ioctl that sets a parameter, with no lock.                           *)
Ioctl ==
    /\ \/ scullp_order' \in Orders /\ UNCHANGED scullp_qset
       \/ scullp_qset' \in Qsets /\ UNCHANGED scullp_order
    /\ UNCHANGED <<devVars, fileVars, procVars, history, oops>>

Llseek(f) ==
    /\ call[f] = "none"
    /\ \E off \in -1 .. 1, whence \in {0, f_pos[f], size} :
        /\ whence + off \in Page
        /\ f_pos' = [f_pos EXCEPT ![f] = whence + off]
    /\ UNCHANGED <<params, devVars, call, arg, procVars, history, oops>>

-----------------------------------------------------------------------------
Go(p, from, to) == pc[p] = from /\ pc' = [pc EXCEPT ![p] = to]

UnchangedButProc == UNCHANGED <<params, order, qset, size, list, fileVars, history>>

(* scullp_mmap, and scullp_vma_open after it: vmas++.  That of scullv maps *)
(* a device of any order.                                                  *)
ScullpMmap(p) ==
    /\ Driver = "scullp"
    /\ order = 0 /\ Go(p, "unmapped", "open_read")
    /\ UnchangedButProc /\ UNCHANGED <<vmas, seen, pages, access, oops>>

SculldMmap(p) ==
    /\ Driver = "sculld"
    /\ order = 0 /\ Go(p, "unmapped", "open_read")
    /\ UnchangedButProc /\ UNCHANGED <<vmas, seen, pages, access, oops>>

ScullvMmap(p) ==
    /\ Driver = "scullv" /\ Go(p, "unmapped", "open_read")
    /\ UnchangedButProc /\ UNCHANGED <<vmas, seen, pages, access, oops>>

ReadVmas(p, from, to) ==
    /\ Go(p, from, to)
    /\ seen' = [seen EXCEPT ![p] = vmas]
    /\ UnchangedButProc /\ UNCHANGED <<vmas, pages, access, oops>>

WriteVmas(p, from, to, n) ==
    /\ Go(p, from, to)
    /\ vmas' = n /\ seen' = [seen EXCEPT ![p] = 0]
    /\ UnchangedButProc /\ UNCHANGED <<pages, access, oops>>

OneLess_Same(n) == n                              \* slip: not counted down
OneLess(n) == n - 1

VmaOpen(p)  == \/ ReadVmas(p, "open_read", "open_write")
               \/ WriteVmas(p, "open_write", "mapped", seen[p] + 1)
VmaClose(p) == \/ ReadVmas(p, "close_read", "close_write")
               \/ WriteVmas(p, "close_write", "unmapped", OneLess(seen[p]))

(* munmap takes the pages away, and then closes.                           *)
Munmap(p) ==
    /\ Go(p, "mapped", "close_read") /\ access[p] = None
    /\ pages' = [pages EXCEPT ![p] = [g \in Page |-> None]]
    /\ UnchangedButProc /\ UNCHANGED <<vmas, seen, access, oops>>

(* A process touches a page of its mapping, and has it or faults.          *)
Touch(p, g) ==
    /\ pc[p] = "mapped" /\ access[p] = None
    /\ access' = [access EXCEPT ![p] = g]
    /\ UnchangedButProc /\ UNCHANGED <<vmas, pc, seen, pages, oops>>

Touched(p) ==
    /\ access[p] # None /\ pages[p][access[p]] # None
    /\ access' = [access EXCEPT ![p] = None]
    /\ UnchangedButProc /\ UNCHANGED <<vmas, pc, seen, pages, oops>>

(* The handler finds the block of a page by the page's number, as if a     *)
(* quantum were a page; where there is none it reports nothing mapped, and *)
(* the process runs into the same fault again.                             *)
Found(g) ==
    LET i == g \div qset + 1
    IN  IF g < size /\ i <= Len(list) /\ (g % qset) + 1 <= Len(list[i])
        THEN list[i][(g % qset) + 1] ELSE None

Fault(p) ==
    /\ Mutex /\ access[p] # None /\ pages[p][access[p]] = None
    /\ Found(access[p]) # None
    /\ UnchangedButProc /\ UNCHANGED <<vmas, pc, seen>>

(* The page of the block is mapped (virt_to_page, vmalloc_to_page).        *)
Nopage(p) ==
    /\ Fault(p)
    /\ pages' = [pages EXCEPT ![p][access[p]] = Found(access[p])]
    /\ access' = [access EXCEPT ![p] = None] /\ UNCHANGED oops

ScullpNopage(p) == Driver = "scullp" /\ Nopage(p)

ScullvNopage(p) == Driver = "scullv" /\ Nopage(p)

(* This one never sets the page that it then counts a user of.             *)
SculldNopage(p) ==
    /\ Driver = "sculld" /\ Fault(p)
    /\ oops' = TRUE /\ UNCHANGED <<pages, access>>

-----------------------------------------------------------------------------
(* The three copies of the file operations.  An open for writing only     *)
(* trims; any other leaves the device alone.                               *)
ScullpTrim       == Driver = "scullp" /\ Trim
ScullpOpen       == ScullpTrim
ScullpRead(f)    == Driver = "scullp" /\ (Features(f, "read") \/ Read(f))
ScullpWrite(f)   == Driver = "scullp" /\ (Features(f, "write") \/ Write(f))
ScullpIoctl      == Driver = "scullp" /\ Ioctl
ScullpLlseek(f)  == Driver = "scullp" /\ Llseek(f)

ScullvTrim       == Driver = "scullv" /\ Trim
ScullvOpen       == ScullvTrim
ScullvRead(f)    == Driver = "scullv" /\ (Features(f, "read") \/ Read(f))
ScullvWrite(f)   == Driver = "scullv" /\ (Features(f, "write") \/ Write(f))
ScullvIoctl      == Driver = "scullv" /\ Ioctl
ScullvLlseek(f)  == Driver = "scullv" /\ Llseek(f)

SculldTrim       == Driver = "sculld" /\ Trim
SculldOpen       == SculldTrim
SculldRead(f)    == Driver = "sculld" /\ (Features(f, "read") \/ Read(f))
SculldWrite(f)   == Driver = "sculld" /\ (Features(f, "write") \/ Write(f))
SculldIoctl      == Driver = "sculld" /\ Ioctl
SculldLlseek(f)  == Driver = "sculld" /\ Llseek(f)

Next ==
    \/ ScullpOpen \/ ScullvOpen \/ SculldOpen \/ ScullpIoctl \/ ScullvIoctl \/ SculldIoctl
    \/ \E f \in File :
        \/ ScullpRead(f) \/ ScullpWrite(f) \/ ScullpLlseek(f)
        \/ ScullvRead(f) \/ ScullvWrite(f) \/ ScullvLlseek(f)
        \/ SculldRead(f) \/ SculldWrite(f) \/ SculldLlseek(f)
        \/ Interrupted(f)
    \/ \E p \in Proc :
        \/ ScullpMmap(p) \/ ScullvMmap(p) \/ SculldMmap(p) \/ VmaOpen(p)
        \/ ScullpNopage(p) \/ ScullvNopage(p) \/ SculldNopage(p) \/ Touched(p)
        \/ Munmap(p) \/ VmaClose(p)
    \/ \E p \in Proc, g \in Page : Touch(p, g)

Spec == Init /\ [][Next]_vars

(* A process that has touched a page runs on.                              *)
FairSpec == Spec /\ \A p \in Proc :
    WF_vars(Touched(p) \/ ScullpNopage(p) \/ ScullvNopage(p) \/ SculldNopage(p))

-----------------------------------------------------------------------------
(***************************************************************************)
(* Types, and what a process may be about to touch is in its mapping.      *)
(***************************************************************************)
TypeOK ==
    /\ {scullp_order, order} \subseteq Orders /\ {scullp_qset, qset} \subseteq Qsets
    /\ vmas \in Int /\ size \in 0 .. NPages
    /\ list \in Seq(Seq(Block \cup {None})) /\ list # <<>>
    /\ f_pos \in [File -> 0 .. NPages] /\ call \in [File -> {"none", "read", "write"}]
    /\ pc \in [Proc -> {"unmapped", "open_read", "open_write", "mapped",
                        "close_read", "close_write"}]
    /\ \A p \in Proc : access[p] # None => access[p] \in Page /\ pc[p] = "mapped"

(***************************************************************************)
(* "just keep track of how many times the device is mapped, to avoid       *)
(* releasing it" (mmap.c:29): while nobody is about to change it, vmas is  *)
(* the number of mappings.                                                 *)
(***************************************************************************)
VmasCount ==
    (\A p \in Proc : pc[p] \in {"unmapped", "mapped"}) =>
        vmas = Cardinality({p \in Proc : pc[p] = "mapped"})

(***************************************************************************)
(* What a process sees at a page of its mapping is what the device has     *)
(* there, and another process that writes to the device writes to.         *)
(***************************************************************************)
BlockAt(g) ==
    LET w == Where(g, order, qset)
    IN  IF w.item <= Len(list) /\ w.s_pos <= Len(list[w.item])
        THEN list[w.item][w.s_pos] ELSE None

SharesPages == \A p \in Proc, g \in Page :
    pages[p][g] # None => g < size /\ pages[p][g] = BlockAt(g)

(***************************************************************************)
(* "Here's the allocation of a single quantum" (main.c:239): until a call  *)
(* has run with an order and a set size from before a trim, what is read   *)
(* and written stays within the block allocated for it, and trimming finds *)
(* arrays as long as it thinks they are.                                   *)
(***************************************************************************)
QuantumHolds == ~stale => ~spilled

-----------------------------------------------------------------------------
(* The code's texts also state what follows, which the code does not keep: *)
(* TLC refutes each of them.                                               *)

(***************************************************************************)
(* "it isn't possible to map pages from a multipage block" (mmap.c:55).    *)
(***************************************************************************)
MappedAreSingle == \A p \in Proc, g \in Page : pages[p][g] # None => order = 0

(***************************************************************************)
(* "If the device has holes, the process receives a SIGBUS when accessing  *)
(* the hole" (mmap.c:77): an access comes to an end.                       *)
(***************************************************************************)
AccessEnds == \A p \in Proc : access[p] # None ~> access[p] = None

(***************************************************************************)
(* "got it, now increment the count" (sculld/mmap.c:87): the page whose    *)
(* users are counted is one.                                               *)
(***************************************************************************)
PageIsThere == ~oops
=============================================================================
