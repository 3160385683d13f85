---------------------------- MODULE MCWifiSniffer ----------------------------
(* WifiSniffer with more packets than fit into the socket.                 *)
EXTENDS WifiSniffer
=============================================================================
