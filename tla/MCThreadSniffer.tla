--------------------------- MODULE MCThreadSniffer ---------------------------
(***************************************************************************)
(* Model checking ThreadSniffer: one object, one capture.                  *)
(***************************************************************************)
EXTENDS ThreadSniffer

(* The second signal is the impatient user's, and may interrupt the        *)
(* handler of the first.                                                   *)
MCTwoSignals == <<"first", "second">>
MCOneSignal  == <<"first">>
MCNoSignal   == <<>>
=============================================================================
