---------------------------- MODULE MCScullPipe ----------------------------
(***************************************************************************)
(* The pipe for TLC: writes of one byte and of two, with bytes that tell   *)
(* their order, into a buffer whose size stays; and writes of one byte     *)
(* into a buffer whose size is being changed, with one reader and one      *)
(* writer at most, who also poll.                                          *)
(***************************************************************************)
EXTENDS ScullPipe

VARIABLE sizing

Ordered == {<<1>>, <<2, 1>>}

MCInit == Init /\ sizing \in BOOLEAN /\ (scull_p_buffer # Largest => sizing)

MCNext ==
    /\ Next
    /\ UNCHANGED sizing
    /\ scull_p_buffer' # scull_p_buffer => sizing
    /\ \A f \in File : pc'[f] \in {"pollin", "pollout"} => sizing
    /\ sizing =>
        /\ nreaders' < 2 /\ nwriters' < 2 /\ Len(got') < 2
        /\ \A i \in DOMAIN bytes : bytes'[i] \in {1, NoByte}

Fair == \A f \in File : WF_vars(Inside(f)) /\ SF_vars(Lock(f))

MCSpec == MCInit /\ [][MCNext]_<<sizing, vars>> /\ Fair
=============================================================================
