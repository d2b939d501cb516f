------------------------------ MODULE ByteFifo ------------------------------
(***************************************************************************)
(* What a pipe promises: bytes come out in the order they went in, each    *)
(* once, and at most Capacity wait inside.  Opening the pipe empties it.   *)
(***************************************************************************)
EXTENDS Naturals, Sequences

CONSTANTS Capacity, Data   \* Data: the byte sequences a program may write

VARIABLES queue, got       \* got: the bytes the last read took

vars == <<queue, got>>

Take(s, k) == SubSeq(s, 1, k)
Drop(s, k) == SubSeq(s, k + 1, Len(s))

Init == queue = <<>> /\ got = <<>>

Clear == queue' = <<>> /\ UNCHANGED got

Put == \E d \in Data, k \in 1 .. Capacity - Len(queue) :
    /\ k <= Len(d)
    /\ queue' = queue \o Take(d, k)
    /\ UNCHANGED got

Get == \E k \in 1 .. Len(queue) :
    /\ got' = Take(queue, k)
    /\ queue' = Drop(queue, k)

Next == Clear \/ Put \/ Get

Spec == Init /\ [][Next]_vars
=============================================================================
