--------------------------- MODULE MCCommissioner ---------------------------
(***************************************************************************)
(* Model checking Commissioner with two cubelets and one crash.            *)
(***************************************************************************)
EXTENDS Commissioner

CONSTANTS c1, c2

MCCubelets == {c1, c2}
=============================================================================
