---------------------------- MODULE SinglyLinked ----------------------------
(***************************************************************************)
(* server/queue.h: the singly linked kinds of list, SLIST, with which the  *)
(* server keeps its threads, and STAILQ.  A head and an element have the   *)
(* field next; the head of a STAILQ also points to the field that ends its *)
(* list, which is given here by the node it is in.                         *)
(*                                                                         *)
(* The memory of an element that is in no list belongs to its user, who may*)
(* have freed it.                                                          *)
(***************************************************************************)
EXTENDS Naturals, SequencesExt

CONSTANTS
    Kind,     \* "SLIST" or "STAILQ"
    Heads,    \* the heads of lists
    Elm,      \* the elements
    NULL,
    Junk      \* what there is in memory that belongs to the user

VARIABLES
    next, last,
    loop,     \* a FOREACH_SAFE under way
    list,     \* history: what has been put into which list, in order
    due       \* history: what the loop has still to come to

vars == <<next, last, loop, list, due>>

Node   == Heads \cup Elm
NoLoop == [on |-> NULL, var |-> NULL, tvar |-> NULL]

Init ==
    /\ next = [n \in Node |-> IF n \in Heads THEN NULL ELSE Junk]
    /\ last = [h \in Heads |-> h]
    /\ loop = NoLoop
    /\ list = [h \in Heads |-> <<>>] /\ due = <<>>

Idle    == loop = NoLoop /\ UNCHANGED <<loop, due>>
Free(e) == \A h \in Heads : e \notin Range(list[h])

(* n becomes the last if nothing is behind it; an SLIST keeps no last. *)
Ends_Never(h, x, n) == last         \* slip: the end of the list not moved
Ends(h, x, n) ==
    IF Kind = "STAILQ" /\ x = NULL THEN [last EXCEPT ![h] = n] ELSE last

-----------------------------------------------------------------------------
(* INSERT_HEAD and INSERT_AFTER, which differ in the node they insert at,  *)
(* and INSERT_TAIL.                                                        *)
NodeAt(h, i) == IF i = 0 THEN h ELSE list[h][i]

InsertBehind(h, i, e) ==
    /\ Free(e) /\ i \in 0..Len(list[h])
    /\ LET n == NodeAt(h, i) IN
        /\ next' = [next EXCEPT ![e] = next[n], ![n] = e]
        /\ last' = Ends(h, next[n], e)
    /\ list' = [list EXCEPT ![h] = InsertAt(@, i + 1, e)]

InsertTail(h, e) ==
    /\ Kind = "STAILQ" /\ Free(e)
    /\ next' = [next EXCEPT ![e] = NULL, ![last[h]] = e]
    /\ last' = [last EXCEPT ![h] = e]
    /\ list' = [list EXCEPT ![h] = Append(@, e)]

-----------------------------------------------------------------------------
(* REMOVE_HEAD and REMOVE_AFTER take out what is behind a node, and REMOVE *)
(* looks for the node that an element is behind.                           *)
TakeBehind(n, h, i) ==
    LET e == next[n] IN
    /\ next' = [next EXCEPT ![n] = next[e], ![e] = Junk]
    /\ last' = Ends(h, next[e], n)
    /\ list' = [list EXCEPT ![h] = RemoveAt(@, i)]

RemoveBehind(h, i) ==
    /\ i \in 0..(Len(list[h]) - 1)
    /\ TakeBehind(NodeAt(h, i), h, i + 1)

Before(h, e) ==
    LET curelm[n \in Node] == IF next[n] = e THEN n ELSE curelm[next[n]]
    IN  curelm[h]

RemoveElm(h, i) == i \in DOMAIN list[h] /\ TakeBehind(Before(h, list[h][i]), h, i)

RemoveHeadUntil(h, i) ==
    /\ Kind = "STAILQ" /\ i \in DOMAIN list[h]
    /\ LET gone == Range(SubSeq(list[h], 1, i)) IN
        next' = [n \in Node |-> CASE n = h      -> next[list[h][i]]
                                  [] n \in gone -> Junk
                                  [] OTHER      -> next[n]]
    /\ last' = Ends(h, next[list[h][i]], h)
    /\ list' = [list EXCEPT ![h] = SubSeq(@, i + 1, Len(@))]

-----------------------------------------------------------------------------
(* STAILQ_CONCAT, SLIST_SWAP and STAILQ_SWAP. *)
Concat(h1, h2) ==
    /\ Kind = "STAILQ"
    /\ IF next[h2] = NULL THEN UNCHANGED <<next, last>>
       ELSE /\ next' = [next EXCEPT ![last[h1]] = next[h2], ![h2] = NULL]
            /\ last' = [last EXCEPT ![h1] = last[h2], ![h2] = h2]
    /\ list' = [list EXCEPT ![h1] = @ \o list[h2], ![h2] = <<>>]

Swap(h1, h2) ==
    /\ next' = [next EXCEPT ![h1] = next[h2], ![h2] = next[h1]]
    /\ last' = IF Kind = "SLIST" THEN last
               ELSE [last EXCEPT ![h1] = IF next[h2] = NULL THEN h1 ELSE last[h2],
                                 ![h2] = IF next[h1] = NULL THEN h2 ELSE last[h1]]
    /\ list' = [list EXCEPT ![h1] = list[h2], ![h2] = list[h1]]

-----------------------------------------------------------------------------
(* STAILQ_LAST, and FOREACH_SAFE: in the body of the loop the user removes *)
(* the element that it is at.                                              *)
LastOf(h) == IF next[h] = NULL THEN NULL ELSE last[h]

At(h, e) == IF e = NULL THEN NoLoop ELSE [on |-> h, var |-> e, tvar |-> next[e]]

Foreach(h) ==
    /\ loop = NoLoop
    /\ loop' = At(h, next[h])
    /\ due' = list[h]
    /\ UNCHANGED <<next, last, list>>

ForeachNext ==
    /\ loop # NoLoop
    /\ loop' = At(loop.on, loop.tvar)
    /\ due' = Tail(due)
    /\ UNCHANGED <<next, last, list>>

ForeachRemove ==
    /\ loop # NoLoop
    /\ \E i \in DOMAIN list[loop.on] :
        list[loop.on][i] = loop.var /\ RemoveElm(loop.on, i)
    /\ UNCHANGED <<loop, due>>

-----------------------------------------------------------------------------
Next ==
    \/ \E h \in Heads, e \in Elm :
        \/ \E i \in 0..Cardinality(Elm) : Idle /\ InsertBehind(h, i, e)
        \/ Idle /\ InsertTail(h, e)
    \/ \E h \in Heads : \E i \in 0..Cardinality(Elm) :
        Idle /\ (RemoveBehind(h, i) \/ RemoveElm(h, i) \/ RemoveHeadUntil(h, i))
    \/ \E h1, h2 \in Heads : h1 # h2 /\ Idle /\ (Concat(h1, h2) \/ Swap(h1, h2))
    \/ \E h \in Heads : Foreach(h)
    \/ ForeachNext \/ ForeachRemove

Spec == Init /\ [][Next]_vars

-----------------------------------------------------------------------------
TypeOK ==
    /\ next \in [Node -> Elm \cup {NULL, Junk}]
    /\ last \in [Heads -> Node]
    /\ loop.on \in Heads \cup {NULL}
    /\ list \in [Heads -> Seq(Elm)] /\ due \in Seq(Elm)

(***************************************************************************)
(* "Elements can be removed ... from the head of the list or after an      *)
(* existing element": however lists were built, cut, joined and exchanged, *)
(* each leads through its elements in their order and ends, a STAILQ       *)
(* inserts at the end of its own list, and no element is in two lists.     *)
(***************************************************************************)
Linked(h) ==
    /\ \A i \in DOMAIN list[h] : next[NodeAt(h, i - 1)] = list[h][i]
    /\ next[NodeAt(h, Len(list[h]))] = NULL
    /\ Kind = "STAILQ" =>
        /\ last[h] = NodeAt(h, Len(list[h]))
        /\ LastOf(h) = IF list[h] = <<>> THEN NULL ELSE Last(list[h])

Apart ==
    \A h1, h2 \in Heads : \A i \in DOMAIN list[h1], j \in DOMAIN list[h2] :
        list[h1][i] = list[h2][j] => h1 = h2 /\ i = j

PointersFollowLists == Apart /\ \A h \in Heads : Linked(h)

(***************************************************************************)
(* FOREACH_SAFE: the loop comes to every element of the list once and in   *)
(* order, though its body takes elements out and frees them.               *)
(***************************************************************************)
LoopComesToAll ==
    /\ loop = NoLoop => due = <<>>
    /\ loop # NoLoop => /\ due # <<>> /\ loop.var = due[1]
                        /\ loop.tvar = IF Len(due) = 1 THEN NULL ELSE due[2]

=============================================================================
