----------------------------- MODULE SparseFile -----------------------------
(***************************************************************************)
(* What a scull device promises: a file with holes.  A byte is a Hole until*)
(* something near it is written, then whatever memory held (Garbage), then *)
(* what was written.  A read stops at the end, and does not start in a     *)
(* hole; it and a write may do less than asked for.                        *)
(***************************************************************************)
EXTENDS Naturals, Sequences

CONSTANTS MaxPos, File, Data, Count, Hole, Garbage

VARIABLES content, size, pos, got

vars == <<content, size, pos, got>>

Place == 0 .. MaxPos - 1

Init ==
    /\ content = [p \in Place |-> Hole]
    /\ size = 0
    /\ pos = [f \in File |-> 0]
    /\ got = <<>>

Some(n) == {k \in 0 .. n : k = 0 => n = 0}        \* nothing only when asked for nothing

Read(f) ==
    /\ UNCHANGED <<content, size>>
    /\ \/ /\ pos[f] >= size \/ content[pos[f]] = Hole
          /\ got' = <<>> /\ UNCHANGED pos
       \/ \E n \in Count : \E k \in Some(n) :
          /\ pos[f] + k <= size
          /\ content[pos[f]] # Hole
          /\ got' = [i \in 1 .. k |-> content[pos[f] + i - 1]]
          /\ pos' = [pos EXCEPT ![f] = @ + k]

(* content changes nowhere but in the k bytes from pos[f] on, and in holes.*)
Stored(f, d, k) == \A p \in Place :
    \/ p \in pos[f] .. pos[f] + k - 1 /\ content'[p] = d[p - pos[f] + 1]
    \/ p \notin pos[f] .. pos[f] + k - 1 /\ content'[p] = content[p]
    \/ p \notin pos[f] .. pos[f] + k - 1 /\ content[p] = Hole /\ content'[p] = Garbage

Write(f) == \E d \in Data : \E k \in Some(Len(d)) :
    /\ Stored(f, d, k)
    /\ pos' = [pos EXCEPT ![f] = @ + k]
    /\ size' = IF pos'[f] > size THEN pos'[f] ELSE size
    /\ UNCHANGED got

(* A write that failed may have stored some of its bytes. *)
FailedWrite(f) ==
    /\ \E d \in Data : \E k \in 0 .. Len(d) : Stored(f, d, k)
    /\ UNCHANGED <<size, pos, got>>

Trim == content' = [p \in Place |-> Hole] /\ size' = 0 /\ UNCHANGED <<pos, got>>

Seek(f) ==
    /\ \E p \in Place : pos' = [pos EXCEPT ![f] = p]
    /\ UNCHANGED <<content, size, got>>

Next == Trim \/ \E f \in File : Read(f) \/ Write(f) \/ FailedWrite(f) \/ Seek(f)

Spec == Init /\ [][Next]_vars
=============================================================================
