---------------------------- MODULE DoublyLinked ----------------------------
(***************************************************************************)
(* server/queue.h: the doubly linked kinds of list, LIST, TAILQ and        *)
(* CIRCLEQ, in one memory.  A head and an element have the same two fields:*)
(* next[h] is a head's first element and prev[h] its last, which a LIST    *)
(* does not have.  LIST and TAILQ point back to the field that points to an*)
(* element, CIRCLEQ to what holds it: either is the node before.           *)
(*                                                                         *)
(* The memory of an element that is in no list belongs to its user, who may*)
(* have freed it.                                                          *)
(***************************************************************************)
EXTENDS Naturals, SequencesExt

CONSTANTS
    Kind,     \* "LIST", "TAILQ" or "CIRCLEQ"
    Heads,    \* the heads of lists
    Elm,      \* the elements
    NULL,
    Junk      \* what there is in memory that belongs to the user

VARIABLES
    next, prev,
    loop,     \* a FOREACH_SAFE under way
    list,     \* history: what has been put into which list, in order
    due       \* history: what the loop has still to come to

vars == <<next, prev, loop, list, due>>

Node   == Heads \cup Elm
End(h) == IF Kind = "CIRCLEQ" THEN h ELSE NULL
NoLoop == [on |-> NULL, back |-> FALSE, var |-> NULL, tvar |-> NULL]

Init ==
    /\ next = [n \in Node |-> IF n \in Heads THEN End(n) ELSE Junk]
    /\ prev = [n \in Node |-> IF n \in Heads THEN n ELSE Junk]
    /\ loop = NoLoop
    /\ list = [h \in Heads |-> <<>>] /\ due = <<>>

Idle    == loop = NoLoop /\ UNCHANGED <<loop, due>>
Free(e) == \A h \in Heads : e \notin Range(list[h])

(* What is behind x has its back pointer set to n: x itself, or the head at*)
(* the end of the list.                                                    *)
Behind(h, x) == IF x = NULL THEN h ELSE x

SetPrev_First(f, h, x, n) ==      \* slip: the last of a list not set
    IF x = NULL THEN f ELSE [f EXCEPT ![x] = n]
SetPrev(f, h, x, n) ==
    IF x = NULL /\ Kind = "LIST" THEN f ELSE [f EXCEPT ![Behind(h, x)] = n]

-----------------------------------------------------------------------------
(* INSERT_HEAD, INSERT_BEFORE, INSERT_AFTER and INSERT_TAIL.  CIRCLEQ tells*)
(* an empty list by the field that it is not about to set.                 *)
FirstField(h) == IF Kind = "CIRCLEQ" /\ prev[h] = h THEN h ELSE next[h]
LastField(h)  == IF Kind = "CIRCLEQ" /\ next[h] = h THEN h ELSE prev[h]

InsertHead(h, e) ==
    /\ Free(e)
    /\ next' = [next EXCEPT ![e] = next[h], ![h] = e]
    /\ prev' = [SetPrev(prev, h, FirstField(h), e) EXCEPT ![e] = h]
    /\ list' = [list EXCEPT ![h] = <<e>> \o @]

InsertBefore(h, i, e) ==
    /\ Free(e) /\ i \in DOMAIN list[h]
    /\ LET listelm == list[h][i] IN
        /\ next' = [next EXCEPT ![e] = listelm, ![prev[listelm]] = e]
        /\ prev' = [prev EXCEPT ![e] = prev[listelm], ![listelm] = e]
    /\ list' = [list EXCEPT ![h] = InsertAt(@, i, e)]

InsertAfter(h, i, e) ==
    /\ Free(e) /\ i \in DOMAIN list[h]
    /\ LET listelm == list[h][i] IN
        /\ next' = [next EXCEPT ![e] = next[listelm], ![listelm] = e]
        /\ prev' = [SetPrev(prev, h, next[listelm], e) EXCEPT ![e] = listelm]
    /\ list' = [list EXCEPT ![h] = InsertAt(@, i + 1, e)]

InsertTail(h, e) ==
    /\ Kind # "LIST" /\ Free(e)
    /\ next' = [next EXCEPT ![e] = End(h), ![LastField(h)] = e]
    /\ prev' = [prev EXCEPT ![e] = prev[h], ![h] = e]
    /\ list' = [list EXCEPT ![h] = Append(@, e)]

-----------------------------------------------------------------------------
(* REMOVE and REPLACE; what is taken out is its user's again. *)
RemoveElm(h, i) ==
    /\ i \in DOMAIN list[h]
    /\ LET e == list[h][i] IN
        /\ next' = [next EXCEPT ![prev[e]] = next[e], ![e] = Junk]
        /\ prev' = [SetPrev(prev, h, next[e], prev[e]) EXCEPT ![e] = Junk]
    /\ list' = [list EXCEPT ![h] = RemoveAt(@, i)]

(* CIRCLEQ_REPLACE takes its head for a structure and a pointer, and does  *)
(* not compile.                                                            *)
Replace(h, i, e2) ==
    /\ Kind # "CIRCLEQ" /\ Free(e2) /\ i \in DOMAIN list[h]
    /\ LET e == list[h][i] IN
        /\ next' = [next EXCEPT ![e2] = next[e], ![prev[e]] = e2, ![e] = Junk]
        /\ prev' = [SetPrev(prev, h, next[e], e2) EXCEPT ![e2] = prev[e], ![e] = Junk]
    /\ list' = [list EXCEPT ![h] = ReplaceAt(@, i, e2)]

-----------------------------------------------------------------------------
(* TAILQ_CONCAT, LIST_SWAP and TAILQ_SWAP. *)
Concat(h1, h2) ==
    /\ Kind = "TAILQ"
    /\ IF next[h2] = NULL THEN UNCHANGED <<next, prev>>
       ELSE /\ next' = [next EXCEPT ![prev[h1]] = next[h2], ![h2] = NULL]
            /\ prev' = [prev EXCEPT ![next[h2]] = prev[h1], ![h1] = prev[h2], ![h2] = h2]
    /\ list' = [list EXCEPT ![h1] = @ \o list[h2], ![h2] = <<>>]

(* The last pointers are exchanged, and then those of empty lists set. *)
Swapped(h1, h2) ==
    IF Kind = "TAILQ" THEN [prev EXCEPT ![h1] = prev[h2], ![h2] = prev[h1]] ELSE prev

Swap(h1, h2) ==
    /\ Kind # "CIRCLEQ"
    /\ next' = [next EXCEPT ![h1] = next[h2], ![h2] = next[h1]]
    /\ prev' = SetPrev(SetPrev(Swapped(h1, h2), h1, next[h2], h1), h2, next[h1], h2)
    /\ list' = [list EXCEPT ![h1] = list[h2], ![h2] = list[h1]]

-----------------------------------------------------------------------------
(***************************************************************************)
(* LAST and PREV.  A TAILQ takes what points to the node before for a head,*)
(* to find the field that points to it.                                    *)
(***************************************************************************)
LIST_PREV(h, e) == IF prev[e] = h THEN NULL ELSE prev[e]
TAILQ_PREV(n)   == next[prev[prev[n]]]

LastOf(h) == IF Kind = "TAILQ" THEN TAILQ_PREV(h) ELSE prev[h]
PrevOf(h, e) ==
    CASE Kind = "LIST"    -> LIST_PREV(h, e)
      [] Kind = "TAILQ"   -> TAILQ_PREV(e)
      [] Kind = "CIRCLEQ" -> prev[e]

(***************************************************************************)
(* FOREACH_SAFE and FOREACH_REVERSE_SAFE, of which that of CIRCLEQ does not*)
(* compile and FOREACH_REVERSE stands for it.  In the body of the loop the *)
(* user removes the element that it is at.                                 *)
(***************************************************************************)
Along(h, back, e) == IF back THEN PrevOf(h, e) ELSE next[e]

At(h, back, e) ==
    IF e = End(h) THEN NoLoop
    ELSE [on |-> h, back |-> back, var |-> e,
          tvar |-> IF e = Junk THEN Junk ELSE Along(h, back, e)]

Foreach(h, back) ==
    /\ loop = NoLoop /\ (back => Kind # "LIST")
    /\ loop' = At(h, back, IF back THEN LastOf(h) ELSE next[h])
    /\ due' = IF back THEN Reverse(list[h]) ELSE list[h]
    /\ UNCHANGED <<next, prev, list>>

OnTo_Next == Along(loop.on, loop.back, loop.var)      \* slip: the unsafe loop
OnTo == loop.tvar

ForeachNext ==
    /\ loop # NoLoop
    /\ loop' = At(loop.on, loop.back, OnTo)
    /\ due' = Tail(due)
    /\ UNCHANGED <<next, prev, list>>

ForeachRemove ==
    /\ loop # NoLoop /\ ~(Kind = "CIRCLEQ" /\ loop.back)
    /\ \E i \in DOMAIN list[loop.on] : list[loop.on][i] = loop.var /\ RemoveElm(loop.on, i)
    /\ UNCHANGED <<loop, due>>

-----------------------------------------------------------------------------
Next ==
    \/ \E h \in Heads, e \in Elm :
        \/ Idle /\ InsertHead(h, e)
        \/ Idle /\ InsertTail(h, e)
        \/ \E i \in DOMAIN list[h] :
            Idle /\ (InsertBefore(h, i, e) \/ InsertAfter(h, i, e) \/ Replace(h, i, e))
    \/ \E h \in Heads : \E i \in DOMAIN list[h] : Idle /\ RemoveElm(h, i)
    \/ \E h1, h2 \in Heads : h1 # h2 /\ Idle /\ (Concat(h1, h2) \/ Swap(h1, h2))
    \/ \E h \in Heads, back \in BOOLEAN : Foreach(h, back)
    \/ ForeachNext \/ ForeachRemove

Spec == Init /\ [][Next]_vars

-----------------------------------------------------------------------------
TypeOK ==
    /\ next \in [Node -> Node \cup {NULL, Junk}]
    /\ prev \in [Node -> Node \cup {Junk}]
    /\ loop.on \in Heads \cup {NULL} /\ loop.back \in BOOLEAN
    /\ list \in [Heads -> Seq(Elm)] /\ due \in Seq(Elm)

(***************************************************************************)
(* "an arbitrary element can be removed without a need to traverse the     *)
(* list" (queue.h:57): however lists were built, cut, joined and exchanged,*)
(* the pointers of each lead through its elements in their order, forward  *)
(* and, where the kind has it, back; and no element is in two lists.       *)
(***************************************************************************)
NodeAt(h, i) == IF i = 0 THEN h ELSE list[h][i]

Linked(h) ==
    /\ \A i \in DOMAIN list[h] :
        /\ next[NodeAt(h, i - 1)] = list[h][i]
        /\ prev[list[h][i]] = NodeAt(h, i - 1)
        /\ PrevOf(h, list[h][i]) = IF i = 1 THEN End(h) ELSE list[h][i - 1]
    /\ next[NodeAt(h, Len(list[h]))] = End(h)
    /\ Kind # "LIST" =>
        /\ prev[h] = NodeAt(h, Len(list[h]))
        /\ LastOf(h) = IF list[h] = <<>> THEN End(h) ELSE LastField(h)

Apart ==
    \A h1, h2 \in Heads : \A i \in DOMAIN list[h1], j \in DOMAIN list[h2] :
        list[h1][i] = list[h2][j] => h1 = h2 /\ i = j

PointersFollowLists == Apart /\ \A h \in Heads : Linked(h)

(***************************************************************************)
(* FOREACH_SAFE: the loop comes to every element of the list once and in   *)
(* order, though its body takes elements out and frees them.               *)
(***************************************************************************)
LoopComesToAll ==
    /\ loop = NoLoop => due = <<>>
    /\ loop # NoLoop => due # <<>> /\ loop.var = due[1]
                        /\ loop.tvar = IF Len(due) = 1 THEN End(loop.on) ELSE due[2]

=============================================================================
