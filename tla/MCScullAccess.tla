--------------------------- MODULE MCScullAccess ---------------------------
(***************************************************************************)
(* Who opens the devices, for TLC: ann, bob acting for ann on the same     *)
(* terminal, and root on none.                                             *)
(***************************************************************************)
EXTENDS ScullAccess

CONSTANTS a, b, r, ann, bob, root, t

Uid  == [p \in {a, b, r} |-> CASE p = a -> ann [] p = b -> bob [] OTHER -> root]
Euid == [Uid EXCEPT ![b] = ann]
Tty  == [p \in {a, b, r} |-> IF p = r THEN NoTty ELSE t]
=============================================================================
