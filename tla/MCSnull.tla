------------------------------ MODULE MCSnull ------------------------------
(***************************************************************************)
(* The two interfaces for TLC, loaded in five ways.  Without NAPI: "one"   *)
(* sends, with a single buffer, or "both" do.  With NAPI: "poll", where one*)
(* sends to the other, which polls; "cross", where both send and both poll;*)
(* and "all", where one sends, interfaces go down and up, transmit         *)
(* interrupts get lost and the watchdog resets the pool of buffers.        *)
(***************************************************************************)
EXTENDS Snull

CONSTANTS sn0

VARIABLE load

(* The parameters of a load, and how many packets sn0 and the other send.  *)
Load(name, size, poll_, lock, first, second) ==
    [name |-> name, size |-> size, napi |-> poll_, lockup |-> lock,
     most |-> [d \in Dev |-> IF d = sn0 THEN first ELSE second]]

Loads == {Load("one",   1, FALSE, FALSE, 4, 0), Load("both",  2, FALSE, FALSE, 2, 2),
          Load("poll",  2, TRUE,  FALSE, 4, 0), Load("cross", 1, TRUE,  FALSE, 1, 1),
          Load("all",   2, TRUE,  TRUE,  3, 0)}

(* Buffers are numbered; the memory that is free is taken in that order.   *)
InOrder(s, free) ==
    /\ \A i, j \in 1 .. Len(s) : i < j => s[i] < s[j]
    /\ \A b \in Elems(s), c \in free : c < b => c \in Elems(s)

MCInit ==
    /\ load \in Loads
    /\ Init
    /\ pool_size = load.size /\ use_napi = load.napi /\ lockup = load.lockup
    /\ \A d \in Dev : Len(ppool[d]) = pool_size /\ InOrder(ppool[d], Buffer)

MCNext ==
    /\ Next
    /\ UNCHANGED load
    /\ \A d \in Dev :
        /\ sent'[d] <= load.most[d]
        /\ pc[d] = "t_pool" /\ pc'[d] = "t_wake" =>
              InOrder(ppool'[d], Buffer \ (heap[d] \ Elems(ppool[d])))
    /\ load.name = "all" \/ events' \subseteq {"reuse"}

OneTransmits(d) == load.name = "one" /\ Transmitting(d) /\ UNCHANGED load

(* The handlers of a transmission run to their end. *)
MCSpec == MCInit /\ [][MCNext]_<<load, vars>> /\ \A d \in Dev : WF_<<load, vars>>(OneTransmits(d))

-----------------------------------------------------------------------------
(***************************************************************************)
(* Without NAPI a queue that snull_get_tx_buffer stopped goes on, if one   *)
(* interface sends: every packet interrupts, and gives its buffer back.    *)
(***************************************************************************)
QueueGoesOn == \A d \in Dev : load.name = "one" /\ stopped[d] ~> ~stopped[d]
=============================================================================
