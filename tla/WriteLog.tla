------------------------------ MODULE WriteLog ------------------------------
(***************************************************************************)
(* What the aesd circular buffer promises its caller: it keeps the newest  *)
(* N entries handed to it, in order, and says which memory it let go of.   *)
(*   aesd-circular-buffer.h:36  "An array of pointers to memory allocated  *)
(*                               for the most recent write operations"     *)
(*   aesd-circular-buffer.c:83  "If the buffer was already full,           *)
(*                               overwrites the oldest entry"              *)
(***************************************************************************)
EXTENDS Naturals, Sequences

CONSTANTS
    N,        \* how many entries are kept
    Item,     \* the entries, records with a buffptr
    None      \* the answer when nothing is dropped

VARIABLES
    log,      \* the entries kept, oldest first
    told      \* the answer to the last Add: the memory of the entry dropped

vars == <<log, told>>

Init == log = <<>> /\ told = None

Add(e) ==
    IF Len(log) < N
    THEN log' = Append(log, e)       /\ told' = None
    ELSE log' = Append(Tail(log), e) /\ told' = Head(log).buffptr

Next == \E e \in Item : Add(e)

Spec == Init /\ [][Next]_vars
=============================================================================
