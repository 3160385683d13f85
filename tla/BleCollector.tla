----------------------------- MODULE BleCollector -----------------------------
(***************************************************************************)
(* The collector of the BLE sniffer (SnifferAPI/SnifferCollector.py with   *)
(* the packet reader of Packet.py below it and the API of Sniffer.py above *)
(* it).  The sniffer thread reads packets, dates them, keeps them in a     *)
(* list and tracks connections; another thread fetches packets from the    *)
(* list, and asks for the end.                                             *)
(*                                                                         *)
(* The firmware's clock and packet counter wrap; `age` and `id` are what   *)
(* they would be if they did not.  What the firmware sends is `line`; what *)
(* happens to damaged frames is the business of module Slip, here they are *)
(* lost.  The host's clock is `age`: only the delay between a packet and   *)
(* its processing matters, not the difference of the two origins.          *)
(***************************************************************************)
EXTENDS Integers, Sequences, FiniteSets, FiniteSetsExt

CONSTANTS
    MaxFrames,          \* bound: frames the firmware sends
    MaxLine,            \* bound: frames on their way
    CounterCap,         \* the packet counter wraps here (2^16)
    TimerMax,           \* the time stamp wraps here (2^32)
    HighMark, Trim,     \* a list longer than HighMark loses Trim packets
    Lengths,            \* air times of packets
    Idles,              \* pauses between packets
    Numbers,            \* arguments of getPackets
    None

Frame == [kind : {"pdu", "connect", "disconnect", "resp"}, id : Nat, start : Nat, len : Nat]
Packet == [id : Nat, start : Nat, len : Nat, time : Nat, delta : Nat, ref : BOOLEAN]
Call == [number : Numbers, list : Seq(Packet)]

ASSUME CollectorAssumption ==
    /\ {MaxFrames, MaxLine, HighMark, Trim} \subseteq Nat
    /\ CounterCap \in Nat \ {0} /\ TimerMax \in Nat \ {0}
    /\ Lengths \subseteq Nat /\ Idles \subseteq Nat
    /\ Numbers \subseteq Int
    /\ Trim <= HighMark
    /\ None \notin Nat /\ None \notin Frame /\ None \notin Packet /\ None \notin Call

VARIABLES
    age,                \* time since the firmware's start
    sent,               \* frames sent
    line,               \* frames on their way
    asked,              \* requests for a time stamp not answered yet
    pc,                 \* where the sniffer thread is
    cur,                \* the packet it holds
    lastPacket,         \* PacketReader.lastReceivedPacket
    lastPdu,            \* PacketReader.lastReceivedTimestampPacket
    lastTime, lastStamp,\* _last_time, _last_timestamp: the time reference
    packets,            \* _packets
    lock,               \* who holds _packetListLock
    call,               \* the getPackets in progress, or None
    log, handed,        \* history: packets appended, packets fetched
    connect,            \* history: id of the frame behind the connect counter
    inConnection,       \* _inConnection
    request,            \* _currentConnectRequest
    inLast,             \* _packetsInLastConnection
    exit                \* _exit

firmware == <<age, sent, line, asked>>
clock == <<lastTime, lastStamp>>
reader == <<lastPacket, lastPdu>>
list == <<packets, lock, call, log, handed>>
connection == <<connect, inConnection, request, inLast>>
vars == <<firmware, pc, cur, reader, clock, list, connection, exit>>

Stamp(f) == f.start % TimerMax
Counter(f) == f.id % CounterCap

-----------------------------------------------------------------------------
\* getTimestamp has been called before the thread starts, and is not called again.
Init ==
    /\ age = 0 /\ sent = 0 /\ line = <<>> /\ asked = 1
    /\ pc = "loop" /\ cur = None /\ exit = FALSE
    /\ lastPacket = None /\ lastPdu = None
    /\ lastTime = None /\ lastStamp = 0
    /\ packets = <<>> /\ lock = "free" /\ call = None
    /\ log = <<>> /\ handed = <<>>
    /\ connect = None /\ inConnection = FALSE /\ request = None /\ inLast = None

\* The firmware sends a packet off the air, an event, or the answer to
\* REQ_TIMESTAMP, in the order of the time stamps; only packets take air time.
Send(kind, len, idle) ==
    /\ sent < MaxFrames /\ Len(line) < MaxLine
    /\ kind = "resp" => asked > 0
    /\ asked' = IF kind = "resp" THEN asked - 1 ELSE asked
    /\ line' = Append(line, [kind |-> kind, id |-> sent, start |-> age,
                             len |-> IF kind = "pdu" THEN len ELSE 0])
    /\ sent' = sent + 1
    /\ age' = age + (IF kind = "pdu" THEN len ELSE 0) + idle
    /\ UNCHANGED <<pc, cur, reader, clock, list, connection, exit>>

\* A frame is damaged: SLIP resynchronises after it, or Packet.valid is false.
Lose ==
    /\ line # <<>> /\ line' = Tail(line)
    /\ UNCHANGED <<age, sent, asked, pc, cur, reader, clock, list, connection, exit>>

-----------------------------------------------------------------------------
(* The sniffer thread                                                      *)

LoopTest ==
    /\ pc = "loop"
    /\ pc' = IF exit THEN "ended" ELSE "read"
    /\ UNCHANGED <<firmware, cur, reader, clock, list, connection, exit>>

\* Mutated form: the read is repeated without a look at _exit.
ReadTimesOutStays ==
    /\ pc = "read" /\ line = <<>>
    /\ UNCHANGED vars
\* getPacket(timeout=12) gives up: the loop goes on with its test.
ReadTimesOut ==
    /\ pc = "read" /\ line = <<>>
    /\ pc' = "loop"
    /\ UNCHANGED <<firmware, cur, reader, clock, list, connection, exit>>

\* handlePacketHistory; the frame leaves the line
Read(f, kind) ==
    /\ pc = "read" /\ line # <<>>
    /\ f = Head(line) /\ f.kind = kind
    /\ line' = Tail(line)
    /\ lastPacket' = f
    /\ lastPdu' = IF kind = "pdu" THEN f ELSE lastPdu
    /\ UNCHANGED <<age, sent, asked, exit>>

\* Mutated form: a negative difference is not wrapped.
EndToStartSigned(f) ==
    IF lastPdu = None THEN 0 ELSE Stamp(f) - (Stamp(lastPdu) + lastPacket.len)
\* The time from the end of the last packet to the start of this one, as the
\* conversion to version 2 writes it: the end is taken from the length of the
\* frame received last, which need not be that packet.
EndToStart(f) ==
    IF lastPdu = None THEN 0 ELSE (Stamp(f) - (Stamp(lastPdu) + lastPacket.len)) % TimerMax

\* Mutated form: a time stamp that wrapped is taken as it is.
SinceLastNoWrap(f) == Stamp(f) - lastStamp
\* The distance of a time stamp from the last one, across at most one wrap.
SinceLast(f) ==
    IF Stamp(f) < lastStamp THEN TimerMax - (lastStamp - Stamp(f)) ELSE Stamp(f) - lastStamp

\* A packet off the air: before there is a reference the host's time dates it.
ReadPdu(f) ==
    /\ Read(f, "pdu")
    /\ LET time == IF lastTime = None THEN age ELSE lastTime + SinceLast(f)
       IN  /\ cur' = [id |-> f.id, start |-> f.start, len |-> f.len,
                      time |-> time, delta |-> EndToStart(f), ref |-> lastTime # None]
           /\ IF lastTime = None THEN UNCHANGED clock
              ELSE lastTime' = time /\ lastStamp' = Stamp(f)
    /\ pc' = "append"
    /\ UNCHANGED <<list, connection>>

\* _appendPacket
AppendPacket ==
    /\ pc = "append" /\ lock = "free"
    /\ packets' = Append(IF Len(packets) > HighMark
                         THEN SubSeq(packets, Trim + 1, Len(packets)) ELSE packets, cur)
    /\ log' = Append(log, cur)
    /\ pc' = "publish"
    /\ UNCHANGED <<firmware, cur, reader, clock, lock, call, handed, connection, exit>>

\* The callbacks for NEW_BLE_PACKET return, and the capture file is written.
Publish ==
    /\ pc = "publish"
    /\ pc' = "loop" /\ cur' = None
    /\ UNCHANGED <<firmware, reader, clock, list, connection, exit>>

\* A callback meets a closed pipe: run() ends the thread, without doExit.
PipeBroken ==
    /\ pc = "publish"
    /\ pc' = "ended" /\ cur' = None
    /\ UNCHANGED <<firmware, reader, clock, list, connection, exit>>

\* RESP_TIMESTAMP: the host's time now stands for the time stamp.
ReadTimestamp(f) ==
    /\ Read(f, "resp")
    /\ lastTime' = age /\ lastStamp' = Stamp(f)
    /\ pc' = "loop"
    /\ UNCHANGED <<cur, list, connection>>

ReadConnect(f) ==
    /\ Read(f, "connect")
    /\ connect' = f.id /\ inConnection' = TRUE
    /\ pc' = "find"
    /\ UNCHANGED <<cur, clock, list, request, inLast>>

\* Mutated form: the search goes forwards.
FindPacketOldest(c) ==
    LET found == {i \in DOMAIN packets : Counter(packets[i]) = c}
    IN  IF found = {} THEN None ELSE packets[Min(found)]
\* _findPacketByPacketCounter: the search goes backwards.
FindPacket(c) ==
    LET found == {i \in DOMAIN packets : Counter(packets[i]) = c}
    IN  IF found = {} THEN None ELSE packets[Max(found)]

\* The connect request is the packet whose counter is one less; -1 is nobody's.
FindRequest ==
    /\ pc = "find" /\ lock = "free"
    /\ request' = FindPacket((connect % CounterCap) - 1)
    /\ pc' = "loop"
    /\ UNCHANGED <<firmware, cur, reader, clock, list, connect, inConnection, inLast, exit>>

ReadDisconnect(f) ==
    /\ Read(f, "disconnect")
    /\ inLast' = IF inConnection THEN Counter(f) - (connect % CounterCap) ELSE inLast
    /\ inConnection' = FALSE
    /\ pc' = "loop"
    /\ UNCHANGED <<cur, clock, list, connect, request>>

-----------------------------------------------------------------------------
(* Another thread                                                          *)

\* Python's slices [0:n] and [n:]: a negative n counts from the end.
Cut(n) ==
    IF n < 0 THEN (IF Len(packets) + n < 0 THEN 0 ELSE Len(packets) + n)
             ELSE (IF n > Len(packets) THEN Len(packets) ELSE n)

\* Mutated form: the lock is taken for the first slice only.
GetSliceUnlocked(n) ==
    /\ call = None /\ lock = "free"
    /\ call' = [number |-> n, list |-> SubSeq(packets, 1, Cut(n))]
    /\ UNCHANGED <<firmware, pc, cur, reader, clock, packets, lock, log, handed, connection, exit>>
\* getPackets(n) takes the lock and the first slice ...
GetSlice(n) ==
    /\ call = None /\ lock = "free"
    /\ lock' = "fetch"
    /\ call' = [number |-> n, list |-> SubSeq(packets, 1, Cut(n))]
    /\ UNCHANGED <<firmware, pc, cur, reader, clock, packets, log, handed, connection, exit>>

\* ... and keeps the second one.
GetRest ==
    /\ call # None
    /\ packets' = SubSeq(packets, Cut(call.number) + 1, Len(packets))
    /\ handed' = handed \o call.list
    /\ call' = None /\ lock' = "free"
    /\ UNCHANGED <<firmware, pc, cur, reader, clock, log, connection, exit>>

\* doExit of the main thread
RequestExit ==
    /\ ~exit /\ exit' = TRUE
    /\ UNCHANGED <<firmware, pc, cur, reader, clock, list, connection>>

-----------------------------------------------------------------------------
Firmware ==
    \/ \E kind \in {"pdu", "connect", "disconnect", "resp"}, len \in Lengths, idle \in Idles :
            Send(kind, len, idle)
    \/ Lose
Arrives ==
    \E f \in {line[i] : i \in DOMAIN line} :
        ReadPdu(f) \/ ReadTimestamp(f) \/ ReadConnect(f) \/ ReadDisconnect(f)
Reads == LoopTest \/ ReadTimesOut \/ Arrives
Sniffs == Reads \/ Publish \/ PipeBroken
Fetches == (\E n \in Numbers : GetSlice(n)) \/ GetRest

Next == Firmware \/ Sniffs \/ AppendPacket \/ FindRequest \/ Fetches \/ RequestExit

\* The sniffer thread runs, the holder of the lock gives it back after two
\* slices, and a thread that waits for the lock gets it in the end. A callback
\* may never return: it writes into a pipe that may be full.
Fairness ==
    /\ WF_vars(Reads) /\ WF_vars(GetRest)
    /\ SF_vars(AppendPacket) /\ SF_vars(FindRequest)

Spec == Init /\ [][Next]_vars /\ Fairness

-----------------------------------------------------------------------------
(* Properties                                                              *)

\* Every variable has its type.
TypeOK ==
    /\ age \in Nat /\ sent \in 0..MaxFrames /\ asked \in 0..1
    /\ line \in Seq(Frame)
    /\ pc \in {"loop", "read", "append", "publish", "find", "ended"}
    /\ cur \in Packet \cup {None} /\ (pc \in {"append", "publish"} => cur # None)
    /\ lastPacket \in Frame \cup {None} /\ lastPdu \in Frame \cup {None}
    /\ lastTime \in Nat \cup {None} /\ lastStamp \in 0..(TimerMax - 1)
    /\ packets \in Seq(Packet) /\ log \in Seq(Packet) /\ handed \in Seq(Packet)
    /\ lock \in {"free", "fetch"} /\ (lock = "fetch" <=> call # None) /\ call \in Call \cup {None}
    /\ connect \in Nat \cup {None} /\ inConnection \in BOOLEAN
    /\ request \in Packet \cup {None} /\ inLast \in Int \cup {None}
    /\ exit \in BOOLEAN

\* A program that fetches packets gets them in order and once, whatever is
\* trimmed and appended meanwhile (_appendPacket, _getPackets, _packetListLock).
Ids(s) == [i \in DOMAIN s |-> s[i].id]
PL == INSTANCE PacketLog WITH
    Packet <- 0..MaxFrames, log <- Ids(log), kept <- Ids(packets), handed <- Ids(handed)
ImplementsPacketLog == PL!Spec

\* A connect request is never taken for another (_findPacketByPacketCounter):
\* where the packet before the connect event came through, what is found is that
\* packet or nothing, although counters repeat within the list.
RequestIsRight ==
    (pc # "find" /\ request # None /\ \E i \in DOMAIN log : log[i].id = connect - 1)
        => request.id = connect - 1

\* The times written to Wireshark (_processBLEPacket, convertPacketListProtoVer2)
\* never go back, and after the reference was taken two packets less than a period
\* apart are dated as far apart as they were, across the wrap of the time stamp.
\* The pause written in version 2 is the true one if no other frame came between.
TimesTrue ==
    \A i \in 1..(Len(log) - 1) : LET p == log[i]  q == log[i + 1] IN
        q.start - p.start < TimerMax =>
            /\ q.time >= p.time
            /\ p.ref => q.time - p.time = q.start - p.start
            /\ q.id = p.id + 1 => q.delta = q.start - (p.start + p.len)

\* Once the end is asked for, the sniffer thread ends, in whatever read, search
\* or wait for the list's lock it is, if no callback keeps it for ever
\* (_continuouslyPipe).
CollectorEnds == []<>(pc # "publish") => (exit ~> pc = "ended")
=============================================================================
