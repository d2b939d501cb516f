---------------------------- MODULE MCShortPrint ----------------------------
(***************************************************************************)
(* A printer for TLC.  Two programs write two bytes each through a buffer  *)
(* that holds two, and close it, and interrupts come late; or they write   *)
(* byte by byte, interrupts may get lost, and another program, reading,    *)
(* takes the time stamps from a page of two lines, the second too long.    *)
(***************************************************************************)
EXTENDS ShortPrint, TLC

VARIABLE reading

Pieces == {<<1>>, <<1, 2>>}

Alike == Permutations(Writer)

Calls(w) == pc[w] = "idle" /\ pc'[w] = "order"

MCInit == Init /\ reading \in BOOLEAN

MCNext ==
    /\ Next
    /\ UNCHANGED reading
    /\ reading =>
        /\ \A w \in Writer : Calls(w) => Len(rest'[w]) = 1 /\ out_head = out_tail
        /\ \A w \in Writer : pc'[w] # "close"
    /\ ~reading =>
        /\ \A w \in Writer : Calls(w) => Len(rest'[w]) = 2
        /\ printer = "busy" /\ printer' = "ack" => irq'
        /\ UNCHANGED rpc

MCSpec == MCInit /\ [][MCNext]_<<reading, vars>>
=============================================================================
