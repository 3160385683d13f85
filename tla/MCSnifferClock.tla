--------------------------- MODULE MCSnifferClock ---------------------------
(***************************************************************************)
(* Model checking SnifferClock with an 8-unit timer over two periods and more and *)
(* the largest drift the assumption allows.                                *)
(***************************************************************************)
EXTENDS SnifferClock

MCTimerMax == 8
MCMaxDrift == 3
MCMaxStep == 2
MCMaxAge == 17
=============================================================================
