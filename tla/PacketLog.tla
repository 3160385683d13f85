------------------------------ MODULE PacketLog ------------------------------
(***************************************************************************)
(* What the packet list of the BLE sniffer promises a program that fetches *)
(* packets from it: packets come in the order in which they were sniffed,  *)
(* each at most once, and when the list grows too long it is the oldest    *)
(* ones that are given up.                                                 *)
(***************************************************************************)
EXTENDS Naturals, Sequences

CONSTANTS Packet        \* the packets

VARIABLES
    log,                \* every packet ever put into the list
    kept,               \* the list
    handed              \* what was fetched, in order
vars == <<log, kept, handed>>

Init == log = <<>> /\ kept = <<>> /\ handed = <<>>

\* SnifferCollector._appendPacket: possibly gives up the k oldest packets
Put(p) ==
    /\ log' = Append(log, p)
    /\ \E k \in 0..Len(kept) : kept' = Append(SubSeq(kept, k + 1, Len(kept)), p)
    /\ UNCHANGED handed

\* SnifferCollector._getPackets: hands over the k oldest packets
Hand(k) ==
    /\ handed' = handed \o SubSeq(kept, 1, k)
    /\ kept' = SubSeq(kept, k + 1, Len(kept))
    /\ UNCHANGED log

Next == (\E p \in Packet : Put(p)) \/ (\E k \in 0..Len(kept) : Hand(k))

Spec == Init /\ [][Next]_vars
=============================================================================
