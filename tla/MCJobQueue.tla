----------------------------- MODULE MCJobQueue -----------------------------
(***************************************************************************)
(* JobQueue with the posters p1, p2 and the workers w1, w2.                *)
(***************************************************************************)
EXTENDS JobQueue

CONSTANTS p1, p2, w1, w2

=============================================================================
