----------------------------- MODULE WifiSniffer -----------------------------
(***************************************************************************)
(* The Wi-Fi sniffer of a cubelet (cubelet/src/sniff.c) and the display of *)
(* its packet rate (cubelet/python/packet_rate.py).  For every packet the  *)
(* sniffer sends a datagram to the cube and then its rate into a stream    *)
(* socket, in the same callback: whatever holds up the second send holds   *)
(* up the capture.  The display accepts one connection in its life.        *)
(*                                                                         *)
(* Both may crash.  systemd restarts the sniffer on failure, and does not  *)
(* count SIGPIPE as one; the display is no service, and cannot be started  *)
(* again while the path of its socket exists.                              *)
(***************************************************************************)
EXTENDS Naturals, Sequences

CONSTANTS
    MaxStarts,          \* bound: starts of the sniffer
    MaxPackets,         \* bound: packets in the life of a sniffer
    Room                \* rates that fit into a socket

ASSUME WifiAssumption == MaxStarts \in Nat /\ MaxPackets \in Nat /\ Room \in Nat \ {0}

VARIABLES
    sniffer,            \* where it is: down, waiting, forward, rate, killed
    start,              \* number of this start
    count,              \* packet_count
    connected,          \* did connect() succeed?
    display,            \* down, listening, serving, dead
    path,               \* does the socket's path exist?
    backlog,            \* starts of the sniffer whose connection is not accepted
    served,             \* start of the sniffer whose connection is, or 0
    stream,             \* for every start, the rates in its connection
    gauge,              \* the rate shown
    frames              \* history: datagrams sent by this start

vars == <<sniffer, start, count, connected, display, path, backlog, served, stream, gauge, frames>>

\* The n-th packet's rate; that of the first packet is never computed, and
\* what is sent is what the stack held.
Garbage == 0
Rates == 0..MaxPackets
Rate(n) == IF n = 1 THEN Garbage ELSE n

Init ==
    /\ sniffer = "down" /\ start = 0 /\ count = 0 /\ connected = FALSE /\ frames = 0
    /\ display = "down" /\ path = FALSE /\ backlog = <<>> /\ served = 0
    /\ stream = [s \in 1..MaxStarts |-> <<>>] /\ gauge = Garbage

-----------------------------------------------------------------------------
(* The sniffer                                                             *)

\* main: connecting fails unless the display listens; the sniffer goes on without.
Start ==
    /\ sniffer = "down" /\ start < MaxStarts
    /\ sniffer' = "waiting" /\ start' = start + 1 /\ count' = 0 /\ frames' = 0
    /\ connected' = (display \in {"listening", "serving"})
    /\ backlog' = IF connected' THEN Append(backlog, start + 1) ELSE backlog
    /\ UNCHANGED <<display, path, served, stream, gauge>>

\* got_packet up to the first send; a malformed header is not counted.
Capture ==
    /\ sniffer = "waiting" /\ count < MaxPackets
    /\ sniffer' = "forward" /\ count' = count + 1
    /\ UNCHANGED <<start, connected, display, path, backlog, served, stream, gauge, frames>>

Forward ==
    /\ sniffer = "forward"
    /\ sniffer' = "rate" /\ frames' = frames + 1
    /\ UNCHANGED <<start, count, connected, display, path, backlog, served, stream, gauge>>

\* Mutated form: the send never waits for room.
SendRateUnbounded ==
    /\ sniffer = "rate" /\ connected /\ display # "dead"
    /\ sniffer' = "waiting"
    /\ stream' = [stream EXCEPT ![start] = Append(@, Rate(count))]
    /\ UNCHANGED <<start, count, connected, display, path, backlog, served, gauge, frames>>
\* The rate goes into the connection, accepted or not, and waits for room.
SendRate ==
    /\ sniffer = "rate" /\ connected /\ display # "dead" /\ Len(stream[start]) < Room
    /\ sniffer' = "waiting"
    /\ stream' = [stream EXCEPT ![start] = Append(@, Rate(count))]
    /\ UNCHANGED <<start, count, connected, display, path, backlog, served, gauge, frames>>

\* Without a connection the send fails, and the capture goes on.
SendFails ==
    /\ sniffer = "rate" /\ ~connected /\ sniffer' = "waiting"
    /\ UNCHANGED <<start, count, connected, display, path, backlog, served, stream, gauge, frames>>

\* The display is gone: SIGPIPE ends the sniffer, for systemd a clean end.
SendKills ==
    /\ sniffer = "rate" /\ connected /\ display = "dead" /\ sniffer' = "killed"
    /\ UNCHANGED <<start, count, connected, display, path, backlog, served, stream, gauge, frames>>

Crash ==
    /\ sniffer \in {"waiting", "forward", "rate"} /\ sniffer' = "down"
    /\ UNCHANGED <<start, count, connected, display, path, backlog, served, stream, gauge, frames>>

-----------------------------------------------------------------------------
(* The display                                                             *)

\* bind refuses a path that exists.
DisplayStart ==
    /\ display \in {"down", "dead"} /\ ~path
    /\ display' = "listening" /\ path' = TRUE
    /\ UNCHANGED <<sniffer, start, count, connected, backlog, served, stream, gauge, frames>>

Accept ==
    /\ display = "listening" /\ backlog # <<>>
    /\ display' = "serving" /\ served' = Head(backlog) /\ backlog' = Tail(backlog)
    /\ UNCHANGED <<sniffer, start, count, connected, path, stream, gauge, frames>>

\* Mutated form: the loop ends at a struct.error.
ReceiveOnce ==
    /\ display = "serving" /\ Len(stream[served]) = 1
    /\ gauge' = stream[served][1]
    /\ stream' = [stream EXCEPT ![served] = <<>>]
    /\ UNCHANGED <<sniffer, start, count, connected, display, path, backlog, served, frames>>
\* recv(1024) takes all that is there; more than one rate is no float, and dropped.
Receive ==
    /\ display = "serving" /\ stream[served] # <<>>
    /\ gauge' = IF Len(stream[served]) = 1 THEN stream[served][1] ELSE gauge
    /\ stream' = [stream EXCEPT ![served] = <<>>]
    /\ UNCHANGED <<sniffer, start, count, connected, display, path, backlog, served, frames>>

\* Any exception but struct.error ends the display: the gateway cannot be reached.
DisplayDies ==
    /\ display \in {"listening", "serving"} /\ display' = "dead" /\ backlog' = <<>>
    /\ UNCHANGED <<sniffer, start, count, connected, path, served, stream, gauge, frames>>

-----------------------------------------------------------------------------
Handler == Forward \/ SendRate \/ SendFails \/ SendKills
Next == Start \/ Capture \/ Handler \/ Crash \/ DisplayStart \/ Accept \/ Receive \/ DisplayDies

\* The callback, the display's loop and systemd run; nothing else need happen.
Spec == Init /\ [][Next]_vars /\ WF_vars(Handler) /\ WF_vars(Accept) /\ WF_vars(Receive) /\ WF_vars(Start)

-----------------------------------------------------------------------------
(* Properties                                                              *)

\* Every variable has its type.
TypeOK ==
    /\ sniffer \in {"down", "waiting", "forward", "rate", "killed"}
    /\ start \in 0..MaxStarts /\ count \in 0..MaxPackets /\ frames \in 0..MaxPackets
    /\ display \in {"down", "listening", "serving", "dead"}
    /\ connected \in BOOLEAN /\ path \in BOOLEAN
    /\ backlog \in Seq(1..MaxStarts) /\ served \in 0..MaxStarts
    /\ stream \in [1..MaxStarts -> Seq(Rates)] /\ gauge \in Rates
    /\ \A s \in 1..MaxStarts : Len(stream[s]) <= Room

\* As long as the display lives, or is not there at all, got_packet returns in
\* the first sniffer after boot, however many rates pile up before the display
\* reads them. In a later one it may not: the connection is never accepted, and
\* fills up; and a display that dies takes the sniffer with it.
CaptureGoesOn ==
    (sniffer = "rate" /\ start = 1) ~> (sniffer \in {"waiting", "down"} \/ display = "dead")
=============================================================================
