------------------------------- MODULE MCSlip -------------------------------
(***************************************************************************)
(* Model checking Slip with frames that contain each special byte.         *)
(***************************************************************************)
EXTENDS Slip

(* A header of three bytes: the length, least significant byte first, and  *)
(* the protocol version.                                                   *)
MCHeaderLength == 3
Header(n) == <<n, 0, 3>>

MCFrames == {
    Header(0),
    Header(1) \o <<SLIP_START>>,
    Header(3) \o <<SLIP_ESC, 0, SLIP_END>>,
    Header(1) \o <<SLIP_ESC_START>>}
=============================================================================
