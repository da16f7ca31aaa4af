----------------------------- MODULE MCNodeBus ------------------------------
(***************************************************************************)
(* NodeBus with the buses b1, b2, b3 and the callers c1, c2, of which the  *)
(* configuration says which detach.                                        *)
(***************************************************************************)
EXTENDS NodeBus

CONSTANTS b1, b2, b3, c1, c2

=============================================================================
