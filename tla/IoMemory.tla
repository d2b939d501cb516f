------------------------------ MODULE IoMemory ------------------------------
(***************************************************************************)
(* Two drivers that pass bytes between a process and I/O memory, through a *)
(* buffer of the call's own: misc-modules/silly.c, where a file is the ISA *)
(* memory, read and written in units of one, two or four bytes; and the    *)
(* ports of short/short.c, where every byte goes to the same port, with the*)
(* node that toggles the port so that its wire interrupts, and the handler *)
(* for a shared interrupt line, which reads and writes that port, too.     *)
(* Nothing locks: a call goes on unit by unit.                             *)
(***************************************************************************)
EXTENDS Integers, Sequences, FiniteSets

CONSTANTS
    Driver,      \* "silly" or "short"
    File,        \* processes, each with an open file
    Size,        \* silly: ISA_MAX - ISA_BASE; short: 1, the port
    Counts,      \* the sizes a call can ask for
    Offsets,     \* where pread and pwrite go, besides read and write
    MaxCalls,    \* bound: calls made
    None, Junk

Modes == IF Driver = "silly" THEN {"8", "16", "32", "memcpy", "undefined"}
                             ELSE {"port", "toggle", "undefined"}

(* Of a byte of the port only bit 7 matters, the one that interrupts.      *)
High == 255
Low  == 127
Zero == 0

Nomem == -12     Fault == -14     Inval == -22     Perm == -1

VARIABLES
    mem, pos, mode,     \* what is behind the driver; f_pos and minor of a file
    call, answer,       \* a file's call that goes on; what the last one returned
    irq, value,         \* the shared handler: where it is, what it has read
    pending,            \* the line interrupts
    calls, lost, edges, toggled, unclaimed    \* history: calls, buffers that nobody
                        \* freed, how often bit 7 rose, bytes toggled, and whether
                        \* the handler said that an interrupt was not the port's

handlerVars == <<irq, value, unclaimed>>
vars == <<mem, pos, mode, call, answer, handlerVars, pending, calls, lost, edges, toggled>>

Init ==
    /\ mem = [a \in 0 .. Size - 1 |-> IF Driver = "silly" THEN a ELSE Zero]
    /\ pos = [f \in File |-> 0] /\ mode \in [File -> Modes]
    /\ call = [f \in File |-> None] /\ answer = [f \in File |-> 0]
    /\ irq = "idle" /\ value = Zero /\ pending = FALSE
    /\ calls = 0 /\ lost = 0 /\ edges = 0 /\ toggled = 0 /\ unclaimed = FALSE

-----------------------------------------------------------------------------
(* The part of a call before anything moves. *)

(* count is a size_t: where it is negative no memory is found for it.      *)
Clip(p, n) == IF Driver = "silly" /\ p + n > Size THEN Size - p ELSE n

(* "I downgrade the `mode' if unaligned xfers are requested".              *)
Width_Start(f, p, n) ==                           \* slip: only where it starts
    CASE mode[f] = "32" /\ p % 4 = 0 -> 4
      [] mode[f] \in {"16", "32"} /\ p % 2 = 0 -> 2
      [] OTHER -> 1
Width(f, p, n) ==
    CASE mode[f] = "32" /\ p % 4 = 0 /\ n % 4 = 0 -> 4
      [] mode[f] \in {"16", "32"} /\ p % 2 = 0 /\ n % 2 = 0 -> 2
      [] OTHER -> 1

Call(f) == mode[f] # "toggle" /\ call[f] = None /\ calls < MaxCalls /\ calls' = calls + 1

Return(f, code) ==
    /\ answer' = [answer EXCEPT ![f] = code]
    /\ UNCHANGED <<mem, pos, mode, call, handlerVars, pending, edges, toggled>>

(* No memory; silly_write, which "allow root-only".                        *)
Refuse(f, op, p, n) ==
    /\ Call(f) /\ UNCHANGED lost
    /\ \/ Return(f, Nomem)
       \/ Driver = "silly" /\ op = "write" /\ Return(f, Perm)

(* Where a call ends with its buffer still allocated.                      *)
Lost(code) == IF (Driver = "silly" /\ code = Inval) \/ (Driver = "short" /\ code = Fault) THEN 1 ELSE 0

FaultIn(f, op, p, n) ==
    /\ Call(f) /\ op = "write" /\ Clip(p, n) >= 0
    /\ Return(f, Fault) /\ lost' = lost + Lost(Fault)

NoMode(f, p, n) ==
    /\ Call(f) /\ mode[f] = "undefined" /\ Clip(p, n) >= 0
    /\ Return(f, Inval) /\ lost' = lost + Lost(Inval)

(* What a process writes: to silly, bytes that are nowhere else.           *)
Data(n) == IF Driver = "silly" THEN {[i \in 1 .. n |-> Size + i]} ELSE [1 .. n -> {High, Zero}]

Start(f, op, p, n, moves) ==
    /\ Call(f) /\ mode[f] # "undefined" /\ Clip(p, n) >= 0
    /\ LET count == Clip(p, n) IN
        \E kbuf \in IF op = "write" THEN Data(count) ELSE {[i \in 1 .. count |-> Junk]} :
            call' = [call EXCEPT ![f] = [op |-> op, at |-> p, n |-> count, left |-> count, kbuf |-> kbuf,
                                         unit |-> Width(f, p, count), moves |-> moves]]
    /\ UNCHANGED <<mem, pos, mode, answer, handlerVars, pending, lost, edges, toggled>>

(* short_i_write. *)
StartToggle(f, n) ==
    /\ mode[f] = "toggle" /\ call[f] = None /\ calls < MaxCalls /\ calls' = calls + 1
    /\ call' = [call EXCEPT ![f] = [op |-> "toggle", at |-> pos[f], n |-> n, left |-> n, kbuf |-> <<>>,
                                    unit |-> 1, moves |-> TRUE]]
    /\ UNCHANGED <<mem, pos, mode, answer, handlerVars, pending, lost, edges, toggled>>

-----------------------------------------------------------------------------
(* Unit by unit. *)
Done(c)    == c.n - c.left
Address(c) == IF Driver = "silly" THEN c.at + Done(c) ELSE 0

Level_Fresh(c) == IF (Done(c) + 1) % 2 = 1 THEN High ELSE Zero     \* slip: f_pos forgotten
Level(c) == IF (Done(c) + 1 + c.at) % 2 = 1 THEN High ELSE Zero

(* Whatever the unit, silly_write gives the memory its first byte.         *)
Put(a, byte) ==
    /\ mem' = [mem EXCEPT ![a] = byte]
    /\ LET rises == Driver = "short" /\ mem[a] # High /\ byte = High IN
        /\ edges' = IF rises THEN edges + 1 ELSE edges
        /\ pending' = (pending \/ rises)

Got(c) == [i \in 1 .. c.n |->
    IF i \in Done(c) + 1 .. Done(c) + c.unit
    THEN mem[Address(c) + IF Driver = "silly" THEN i - Done(c) - 1 ELSE 0] ELSE c.kbuf[i]]

Unit(f) ==
    /\ call[f] # None /\ call[f].left >= call[f].unit
    /\ LET c == call[f] IN
        /\ CASE c.op = "read"   -> UNCHANGED <<mem, edges, pending>>
             [] c.op = "write"  -> Put(Address(c), c.kbuf[Done(c) + 1])
             [] c.op = "toggle" -> Put(Address(c), Level(c))
        /\ call' = [call EXCEPT ![f].left = c.left - c.unit,
                                ![f].kbuf = IF c.op = "read" THEN Got(c) ELSE c.kbuf]
        /\ toggled' = IF c.op = "toggle" THEN toggled + 1 ELSE toggled
    /\ UNCHANGED <<pos, mode, answer, handlerVars, calls, lost>>

(* The buffer is freed.  The kernel takes the new position where nothing   *)
(* has failed; the ports of short have none.                               *)
Over(f) == call[f] # None /\ call[f].left < call[f].unit

End(f) ==
    /\ Over(f)
    /\ \/ /\ answer' = [answer EXCEPT ![f] = call[f].n]
          /\ pos' = IF call[f].moves THEN [pos EXCEPT ![f] = @ + call[f].n] ELSE pos
       \/ /\ call[f].op = "read" /\ call[f].n > 0
          /\ answer' = [answer EXCEPT ![f] = Fault] /\ UNCHANGED pos
    /\ call' = [call EXCEPT ![f] = None]
    /\ UNCHANGED <<mem, mode, handlerVars, pending, calls, lost, edges, toggled>>

-----------------------------------------------------------------------------
(* short_sh_interrupt, on the interrupts that the toggling causes: "if it  *)
(* wasn't short, return"; "clear the interrupting bit"; the rest is Short. *)
ShLook ==
    /\ irq = "idle" /\ pending /\ pending' = FALSE
    /\ value' = mem[0]
    /\ irq' = IF value' = High THEN "clear" ELSE "idle"
    /\ unclaimed' = (unclaimed \/ value' # High)
    /\ UNCHANGED <<mem, pos, mode, call, answer, calls, lost, edges, toggled>>

ShClear ==
    /\ irq = "clear" /\ irq' = "idle"
    /\ mem' = [mem EXCEPT ![0] = IF value = High THEN Low ELSE value]
    /\ UNCHANGED <<pos, mode, call, answer, value, unclaimed, pending, calls, lost, edges, toggled>>

-----------------------------------------------------------------------------
Asks(f, op, n, p, moves) ==
    Refuse(f, op, p, n) \/ FaultIn(f, op, p, n) \/ NoMode(f, p, n) \/ Start(f, op, p, n, moves)

Next ==
    \/ \E f \in File, op \in {"read", "write"}, n \in Counts :
        Asks(f, op, n, pos[f], Driver = "silly") \/ \E p \in Offsets : Asks(f, op, n, p, FALSE)
    \/ \E f \in File : Unit(f) \/ End(f) \/ \E n \in Counts : StartToggle(f, n)
    \/ ShLook \/ ShClear

Spec == Init /\ [][Next]_vars

-----------------------------------------------------------------------------
TypeOK ==
    /\ DOMAIN mem = 0 .. Size - 1
    /\ pos \in [File -> Nat] /\ mode \in [File -> Modes]
    /\ answer \in [File -> Nat \cup {Nomem, Fault, Inval, Perm}]
    /\ irq \in {"idle", "clear"} /\ value \in {High, Low, Zero}
    /\ \A f \in File : call[f] # None /\ Driver = "silly" => call[f].at + call[f].n <= Size

(***************************************************************************)
(* silly_read, of one process: whatever the mode, the position and the     *)
(* count, every byte that is copied out of the buffer was read into it,    *)
(* from its own place; and a write in bytes, also one that was downgraded  *)
(* to them, puts every byte into its own place.                            *)
(***************************************************************************)
EveryByteMoved == \A f \in File : Over(f) /\ File = {f} /\ Driver = "silly" =>
    LET c == call[f] IN
    c.op = "read" \/ c.unit = 1 => \A i \in 1 .. c.n : c.kbuf[i] = mem[c.at + i - 1]

(***************************************************************************)
(* "Writing to the device toggles 00/FF on the parallel data lines"        *)
(* (short.c:115): of one process, whatever the sizes of its writes and     *)
(* whenever the handler clears the bit, every second byte raises it.       *)
(***************************************************************************)
EverySecondRises ==
    Cardinality(File) = 1 /\ (\A f \in File : mode[f] = "toggle") => edges = (toggled + 1) \div 2

-----------------------------------------------------------------------------
(* What follows the code does not keep, and TLC refutes.                   *)

(***************************************************************************)
(* "minor 1 uses ioread16/iowrite16, minor 2 uses ioread32/iowrite32"      *)
(* (silly.c:48): what is written in those units is in the memory.          *)
(***************************************************************************)
UnitsWritten == \A f \in File : Over(f) /\ File = {f} /\ Driver = "silly" =>
    \A i \in 1 .. call[f].n : call[f].kbuf[i] = mem[call[f].at + i - 1]

(***************************************************************************)
(* "If it wasn't short, return immediately" (short.c:457): an interrupt of *)
(* the port is taken for one.                                              *)
(***************************************************************************)
Claimed == ~unclaimed

(***************************************************************************)
(* silly_read, silly_write, do_short_write: every call frees its buffer    *)
(* (as in silly.c:202), also one that fails.                               *)
(***************************************************************************)
BuffersFreed == lost = 0
=============================================================================
