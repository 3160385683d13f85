--------------------------- MODULE MCBleCollector ---------------------------
(* BleCollector with a counter that repeats within the list, a time stamp  *)
(* that wraps, and a list that is trimmed.                                 *)
EXTENDS BleCollector

MCNumbers == {-1, 1}
MCLengths == {1}
MCIdles == {1}
=============================================================================
