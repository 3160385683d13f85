----------------------------- MODULE MCBleToolbar -----------------------------
(* BleToolbar with one device above the RSSI filter and one below it.      *)
EXTENDS BleToolbar

CONSTANTS d1, d2
MCDevice == {d1, d2}
MCWeak == {d2}
=============================================================================
