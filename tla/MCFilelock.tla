----------------------------- MODULE MCFilelock -----------------------------
(***************************************************************************)
(* Model checking Filelock: programs that open the same sniffer.           *)
(***************************************************************************)
EXTENDS Filelock

CONSTANTS p1, p2, p3

MCProcs == {p1, p2}
MCThree == {p1, p2, p3}
=============================================================================
