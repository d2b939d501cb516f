----------------------------- MODULE PrintQueue -----------------------------
(***************************************************************************)
(* What the printer driver promises: the bytes of one write stay together  *)
(* and in order, and each is printed once.  A write may be cut short.      *)
(***************************************************************************)
EXTENDS Naturals, Sequences

CONSTANTS Writer, Data, Capacity

VARIABLES
    rest,   \* of a writer: what is left to write
    queue,  \* what waits for the printer
    got     \* the byte it printed last

vars == <<rest, queue, got>>

Init == rest = [w \in Writer |-> <<>>] /\ queue = <<>> /\ got = <<>>

Begin(w) ==
    /\ \A v \in Writer : rest[v] = <<>>
    /\ \E d \in Data : rest' = [rest EXCEPT ![w] = d]
    /\ UNCHANGED <<queue, got>>

Put(w) == \E k \in 1 .. Len(rest[w]) :
    /\ Len(queue) + k <= Capacity
    /\ queue' = queue \o SubSeq(rest[w], 1, k)
    /\ rest' = [rest EXCEPT ![w] = SubSeq(@, k + 1, Len(@))]
    /\ UNCHANGED got

CutShort(w) ==
    /\ rest' = [rest EXCEPT ![w] = <<>>]
    /\ UNCHANGED <<queue, got>>

Strobe ==
    /\ queue # <<>>
    /\ got' = <<Head(queue)>> /\ queue' = Tail(queue)
    /\ UNCHANGED rest

Next == Strobe \/ \E w \in Writer : Begin(w) \/ Put(w) \/ CutShort(w)

Spec == Init /\ [][Next]_vars
=============================================================================
