----------------------------- MODULE LineDevice -----------------------------
(***************************************************************************)
(* What /dev/aesdchar promises the programs that open it: every call takes *)
(* effect at once; a write adds its bytes to the line being built and a    *)
(* newline among them completes that line; the newest N lines are kept; a  *)
(* read returns bytes of one line, from the handle's position on, and      *)
(* nothing (rewinding the handle) at the end.  An allocation failure may   *)
(* spoil the bytes of the unfinished line.                                 *)
(***************************************************************************)
EXTENDS Naturals, Sequences

CONSTANTS
    N,          \* lines kept
    Handle,     \* open files
    Data,       \* what a write can carry: a set of sequences of bytes
    Count,      \* what a read can ask for
    NL,         \* the newline byte
    Garbage     \* a byte nobody wrote

VARIABLES
    lines,      \* the complete lines, oldest first
    partial,    \* the bytes after the last completed line
    pos,        \* pos[h]: where the next read of h starts
    answer      \* the bytes the last read returned

vars == <<lines, partial, pos, answer>>

Occurs(b, s) == \E i \in 1 .. Len(s) : s[i] = b

LenOfFirst(ls, k) ==
    LET sum[j \in 0 .. Len(ls)] == IF j = 0 THEN 0 ELSE sum[j - 1] + Len(ls[j])
    IN  sum[k]

Init ==
    /\ lines = <<>>
    /\ partial = <<>>
    /\ pos = [h \in Handle |-> 0]
    /\ answer = <<>>

(* What a handle at position p reads when it asks for n bytes. *)
Answer(p, n) ==
    IF p >= LenOfFirst(lines, Len(lines)) THEN <<>>
    ELSE LET k   == CHOOSE k \in 1 .. Len(lines) :
                        LenOfFirst(lines, k - 1) <= p /\ p < LenOfFirst(lines, k)
             off == p - LenOfFirst(lines, k - 1)
             end == IF off + n < Len(lines[k]) THEN off + n ELSE Len(lines[k])
         IN  SubSeq(lines[k], off + 1, end)

(* The first k bytes of d are accepted; a garbage byte may read as newline.*)
Write(h, d, k) ==
    LET p == partial \o SubSeq(d, 1, k)
        complete == /\ lines' = IF Len(lines) < N THEN Append(lines, p)
                                ELSE Append(Tail(lines), p)
                    /\ partial' = <<>>
    IN  /\ pos' = [pos EXCEPT ![h] = 0]
        /\ UNCHANGED answer
        /\ \/ Occurs(NL, p) /\ complete
           \/ ~Occurs(NL, p) /\ Occurs(Garbage, p) /\ complete
           \/ ~Occurs(NL, p) /\ partial' = p /\ UNCHANGED lines

FailedWrite ==
    /\ partial' = [i \in 1 .. Len(partial) |-> Garbage]
    /\ UNCHANGED <<lines, pos, answer>>

Read(h, n) ==
    /\ answer' = Answer(pos[h], n)
    /\ pos' = [pos EXCEPT ![h] = IF @ >= LenOfFirst(lines, Len(lines))
                                 THEN 0 ELSE @ + Len(answer')]
    /\ UNCHANGED <<lines, partial>>

(* The program has looked at the answer; a file is closed. *)
Consume  == answer' = <<>> /\ UNCHANGED <<lines, partial, pos>>
Close(h) == pos' = [pos EXCEPT ![h] = 0] /\ UNCHANGED <<lines, partial, answer>>

Reload == lines' = <<>> /\ partial' = <<>> /\ UNCHANGED <<pos, answer>>

Next ==
    \/ FailedWrite
    \/ Reload
    \/ Consume
    \/ \E h \in Handle :
        \/ Close(h)
        \/ \E d \in Data : \E k \in 0 .. Len(d) : Write(h, d, k)
        \/ \E n \in Count : Read(h, n)

Spec == Init /\ [][Next]_vars
=============================================================================
