------------------------------- MODULE Scull -------------------------------
(***************************************************************************)
(* scull/main.c: one bare scull device, a list of quantum sets.  The mutex *)
(* makes trim, and the body of a read or a write, one step; the quantum and*)
(* the set size a call works with are read before it waits for the mutex.  *)
(*                                                                         *)
(* An item of the list is the sequence of its quanta, <<>> when its array  *)
(* is NULL; a quantum is the sequence of its bytes, <<>> when it is NULL.  *)
(***************************************************************************)
EXTENDS Integers, Sequences

CONSTANTS
    File,      \* open files
    Quanta,    \* what scull_quantum can be set to
    QSets,     \* what scull_qset can be set to
    Data,      \* the byte sequences a write can carry
    Count,     \* the sizes a read can ask for
    Offsets,   \* the offsets llseek is called with
    MaxPos,    \* bound on file positions
    Hole, Garbage

Byte == (UNION {{d[i] : i \in 1 .. Len(d)} : d \in Data}) \cup {Garbage}

ASSUME QuantaAssumption == Quanta \subseteq Nat /\ QSets \subseteq Nat
ASSUME BoundsAssumption == Count \subseteq Nat /\ MaxPos \in Nat \ {0}
ASSUME DataAssumption   == Data \subseteq Seq(Byte) /\ Hole \notin Byte

VARIABLES
    scull_quantum, scull_qset,  \* the module's parameters
    quantum, qset, size, list,  \* the device: list is dev->data
    pc,        \* pc[f]: "closed", "open", or "called" and waiting for the mutex
    arg,       \* arg[f]: the quantum and qset a call on f has read
    f_pos,
    got,       \* history: the bytes the last read returned
    stale,     \* history: a call ran with values that were not the device's
    overrun    \* history: memory was used past its end; nothing follows

params == <<scull_quantum, scull_qset>>
dev    == <<quantum, qset, size, list>>
vars   == <<params, dev, pc, arg, f_pos, got, stale, overrun>>

Init ==
    /\ scull_quantum \in Quanta /\ scull_qset \in QSets
    /\ quantum = scull_quantum /\ qset = scull_qset /\ size = 0 /\ list = <<>>
    /\ pc = [f \in File |-> "closed"]
    /\ arg = [f \in File |-> <<quantum, qset>>]
    /\ f_pos = [f \in File |-> 0]
    /\ got = <<>> /\ stale = FALSE /\ overrun = FALSE

(* scull_trim frees everything, and only then takes new parameters. *)
Trimmed_NotFreed == list                          \* slip: data not reset
Trimmed == <<>>

Trim ==
    /\ list' = Trimmed /\ size' = 0
    /\ quantum' = scull_quantum /\ qset' = scull_qset

Go(f, from, to) == ~overrun /\ pc[f] = from /\ pc' = [pc EXCEPT ![f] = to]

Open(f) ==
    /\ Go(f, "closed", "open")
    /\ Trim \/ UNCHANGED dev                      \* O_WRONLY, or another mode
    /\ UNCHANGED <<params, arg, f_pos, got, stale, overrun>>

Release(f) ==
    /\ Go(f, "open", "closed")
    /\ f_pos' = [f_pos EXCEPT ![f] = 0]
    /\ UNCHANGED <<params, dev, arg, got, stale, overrun>>

(* scull_ioctl: any of the commands that set, with no lock. *)
Ioctl ==
    /\ ~overrun /\ \E f \in File : pc[f] = "open"
    /\ \/ scull_quantum' \in Quanta /\ UNCHANGED scull_qset
       \/ scull_qset' \in QSets /\ UNCHANGED scull_quantum
    /\ UNCHANGED <<dev, pc, arg, f_pos, got, stale, overrun>>

Llseek(f) ==
    /\ ~overrun /\ pc[f] = "open"
    /\ \E off \in Offsets, whence \in {0, f_pos[f], size} :
        /\ whence + off \in 0 .. MaxPos - 1
        /\ f_pos' = [f_pos EXCEPT ![f] = whence + off]
    /\ UNCHANGED <<params, dev, pc, arg, got, stale, overrun>>

Call(f) ==
    /\ Go(f, "open", "called")
    /\ arg' = [arg EXCEPT ![f] = <<quantum, qset>>]
    /\ UNCHANGED <<params, dev, f_pos, got, stale, overrun>>

Interrupted(f) ==
    /\ Go(f, "called", "open")
    /\ UNCHANGED <<params, dev, arg, f_pos, got, stale, overrun>>

-----------------------------------------------------------------------------
(* Where a position is, for a quantum and a set size. *)
Where(p, q, s) == [item  |-> p \div (q * s) + 1,
                   s_pos |-> (p % (q * s)) \div q + 1,
                   q_pos |-> (p % (q * s)) % q]

At(f) == Where(f_pos[f], arg[f][1], arg[f][2])

Least(a, b) == IF a < b THEN a ELSE b

(* scull_follow: missing items are added, until an allocation fails. *)
Follow(n) ==
    {list} \cup {[i \in 1 .. m |-> IF i <= Len(list) THEN list[i] ELSE <<>>] :
                    m \in Len(list) + 1 .. n}

Room(f) == arg[f][1] - At(f).q_pos

(* The mutex is taken: from here to its release is one step. *)
Start(f) ==
    /\ Go(f, "called", "open") /\ arg[f][1] * arg[f][2] > 0
    /\ stale' = (stale \/ arg[f] # <<quantum, qset>>)
    /\ UNCHANGED <<params, arg, quantum, qset>>

Overrun == overrun' = TRUE /\ UNCHANGED <<list, size, f_pos, got>>

Nothing == got' = <<>> /\ UNCHANGED <<size, f_pos, overrun>>

Read(f) == Start(f) /\
    IF f_pos[f] >= size THEN Nothing /\ UNCHANGED list
    ELSE \E l \in Follow(At(f).item), n \in Count :
        LET w == At(f)
            c == Least(Least(n, size - f_pos[f]), Room(f))
        IN  IF Len(l) < w.item \/ l[w.item] = <<>>
            THEN Nothing /\ list' = l             \* no memory, or a hole
            ELSE IF w.s_pos > Len(l[w.item]) THEN Overrun
            ELSE LET block == l[w.item][w.s_pos]
                 IN  IF block = <<>> THEN Nothing /\ list' = l
                     ELSE IF w.q_pos + c > Len(block) THEN Overrun
                     ELSE /\ list' = l
                          /\ \/ /\ got' = SubSeq(block, w.q_pos + 1, w.q_pos + c)
                                /\ f_pos' = [f_pos EXCEPT ![f] = @ + c]
                             \/ UNCHANGED <<got, f_pos>>          \* -EFAULT
                          /\ UNCHANGED <<size, overrun>>

NoMemory(l) == list' = l /\ UNCHANGED <<size, f_pos, got, overrun>>

Patched(block, at, d, k) ==
    [i \in 1 .. Len(block) |-> IF i \in at + 1 .. at + k THEN d[i - at] ELSE block[i]]

GrownSize_Always(f) == f_pos'[f]                  \* slip: size may shrink
GrownSize(f) == IF size < f_pos'[f] THEN f_pos'[f] ELSE size

QuantumBytes_Set(f) == arg[f][1] * arg[f][2]      \* slip: a set's size
QuantumBytes(f) == arg[f][1]

Write(f) == Start(f) /\ \E l \in Follow(At(f).item), d \in Data :
    LET w     == At(f)
        c     == Least(Len(d), Room(f))
        array == IF l[w.item] = <<>> THEN [i \in 1 .. arg[f][2] |-> <<>>] ELSE l[w.item]
        block == IF array[w.s_pos] = <<>> THEN [i \in 1 .. QuantumBytes(f) |-> Garbage]
                                          ELSE array[w.s_pos]
        With(b) == [l EXCEPT ![w.item] = [array EXCEPT ![w.s_pos] = b]]
    IN  /\ f_pos[f] + Len(d) <= MaxPos
        /\ IF Len(l) < w.item THEN NoMemory(l)
           ELSE \/ l[w.item] = <<>> /\ NoMemory(l)
                \/ w.s_pos > Len(array) /\ Overrun
                \/ /\ w.s_pos <= Len(array)
                   /\ \/ array[w.s_pos] = <<>> /\ NoMemory(With(<<>>))
                      \/ w.q_pos + c > Len(block) /\ Overrun
                      \/ /\ w.q_pos + c <= Len(block)
                         /\ \/ \E k \in 0 .. c - 1 :              \* -EFAULT
                                 NoMemory(With(Patched(block, w.q_pos, d, k)))
                            \/ /\ list' = With(Patched(block, w.q_pos, d, c))
                               /\ f_pos' = [f_pos EXCEPT ![f] = @ + c]
                               /\ size' = GrownSize(f)
                               /\ UNCHANGED <<got, overrun>>

Next ==
    \/ Ioctl
    \/ \E f \in File :
        \/ Open(f) \/ Release(f) \/ Llseek(f) \/ Call(f) \/ Interrupted(f)
        \/ Read(f) \/ Write(f)

Spec == Init /\ [][Next]_vars

-----------------------------------------------------------------------------
TypeOK ==
    /\ scull_quantum \in Quanta /\ scull_qset \in QSets
    /\ quantum \in Quanta /\ qset \in QSets
    /\ size \in 0 .. MaxPos
    /\ \A i \in 1 .. Len(list) : \A j \in 1 .. Len(list[i]) :
          Len(list[i][j]) \in Quanta \cup {0}
    /\ pc \in [File -> {"closed", "open", "called"}]
    /\ arg \in [File -> Quanta \X QSets]
    /\ f_pos \in [File -> 0 .. MaxPos]
    /\ stale \in BOOLEAN /\ overrun \in BOOLEAN

(***************************************************************************)
(* scull_trim and scull_write: types, and the parameters of the module     *)
(* change a device only when it is trimmed: until a call has run with      *)
(* values from before a trim, every array has qset places and every quantum*)
(* has quantum bytes, and nothing is used past its end.                    *)
(***************************************************************************)
WellFormed ==
    /\ TypeOK
    /\ ~stale =>
        /\ ~overrun
        /\ \A i \in 1 .. Len(list) :
            /\ Len(list[i]) \in {0, qset}
            /\ \A j \in 1 .. Len(list[i]) : Len(list[i][j]) \in {0, quantum}

(***************************************************************************)
(* The device is a file with holes: a byte written at a position is the    *)
(* byte read there, whatever quanta, sets and list items lie between, and  *)
(* whatever allocation fails on the way; until a call has run with values  *)
(* from before a trim.                                                     *)
(***************************************************************************)
ByteAt(p) ==
    LET w == Where(p, quantum, qset)
    IN  IF list = <<>> \/ Len(list) < w.item \/ list[w.item] = <<>> THEN Hole
        ELSE IF list[w.item][w.s_pos] = <<>> THEN Hole
        ELSE list[w.item][w.s_pos][w.q_pos + 1]

Device == INSTANCE SparseFile WITH
    pos <- f_pos, content <- [p \in 0 .. MaxPos - 1 |-> ByteAt(p)]

ImplementsSparseFile == Device!Init /\ [][~stale' => Device!Next]_(Device!vars)

-----------------------------------------------------------------------------
(* The code's texts also state what follows, which the code does not keep: *)
(* TLC refutes each of them.                                               *)

(***************************************************************************)
(* "read only up to the end of this quantum" (main.c:323) and "write only  *)
(* up to the end of this quantum" (main.c:372).                            *)
(***************************************************************************)
NeverOverruns == ~overrun

(***************************************************************************)
(* "Query: return it (it's positive)" (main.c:444): so no call divides by  *)
(* zero.                                                                   *)
(***************************************************************************)
NeverDividesByZero == \A f \in File : pc[f] = "called" => arg[f][1] * arg[f][2] > 0
-----------------------------------------------------------------------------
(* For TLC: every write is of two bytes that differ. *)
Ordered == {<<2, 1>>}
=============================================================================
