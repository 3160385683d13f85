------------------------- MODULE BleCollector_proofs -------------------------
(***************************************************************************)
(* The packet list, the connection record and the times of the BLE         *)
(* collector, for every list length, counter width, timer width and        *)
(* argument of getPackets.                                                 *)
(***************************************************************************)
EXTENDS BleCollector, WellFoundedInduction, TLAPS

(* A record exists before what is derived from it is used.                 *)
Known ==
    /\ lastPdu # None => lastPacket # None
    /\ inConnection \/ pc = "find" \/ request # None => connect # None

(* Between the two slices of getPackets nobody touches the list.           *)
Fetching ==
    call # None => call.list = SubSeq(packets, 1, Cut(call.number))

(* The list is what is left at the end of the log.                         *)
Suffix ==
    /\ Len(packets) <= Len(log)
    /\ \A i \in 1..Len(packets) : packets[i] = log[Len(log) - Len(packets) + i]

(* Ids grow from the log over the packet in hand to the line.              *)
LineOrder ==
    \A i \in 1..Len(line) :
        /\ line[i].id < sent
        /\ \A j \in 1..Len(line) : i < j => line[i].id < line[j].id
LogOrder ==
    \A i \in 1..Len(log) :
        /\ log[i].id < sent
        /\ \A j \in 1..Len(log) : i < j => log[i].id < log[j].id
        /\ \A j \in 1..Len(line) : log[i].id < line[j].id
CurOrder ==
    /\ cur # None =>
        /\ cur.id < sent
        /\ \A j \in 1..Len(line) : cur.id < line[j].id
    /\ pc = "append" =>
        /\ \A i \in 1..Len(log) : log[i].id < cur.id
        /\ connect # None => connect < cur.id
ConnectOrder ==
    /\ connect # None =>
        /\ connect < sent
        /\ \A j \in 1..Len(line) : connect < line[j].id
    /\ pc = "find" => \A i \in 1..Len(log) : log[i].id < connect
Order == LineOrder /\ LogOrder /\ CurOrder /\ ConnectOrder

IInv == TypeOK /\ Known /\ Fetching /\ Suffix /\ Order

-----------------------------------------------------------------------------
(* What the helpers return                                                 *)

(* The remainder by a period is a number below it.                         *)
LEMMA ModBound ==
    ASSUME NEW a \in Int, NEW m \in Nat \ {0}
    PROVE  a % m \in 0..(m - 1)
BY SMTT(20)

(* Python's slices cut a list somewhere, whatever their argument.          *)
LEMMA CutBound ==
    ASSUME NEW n \in Int, packets \in Seq(Packet)
    PROVE  Cut(n) \in 0..Len(packets)
BY DEF Cut

(* A counter is below its period.                                          *)
LEMMA CounterType ==
    ASSUME NEW f, f.id \in Nat
    PROVE  Counter(f) \in 0..(CounterCap - 1)
<1>1. f.id \in Int /\ CounterCap \in Nat \ {0}
  BY CollectorAssumption
<1> QED
  BY <1>1, ModBound DEF Counter

(* A time stamp is below the timer's period; the distance of two is not    *)
(* negative.                                                               *)
LEMMA StampType ==
    ASSUME NEW f \in Frame, lastStamp \in 0..(TimerMax - 1)
    PROVE  Stamp(f) \in 0..(TimerMax - 1) /\ SinceLast(f) \in Nat
<1>1. f.start \in Int
  BY DEF Frame
<1>2. Stamp(f) \in 0..(TimerMax - 1)
  BY <1>1, ModBound, CollectorAssumption DEF Stamp
<1> QED
  BY <1>2, CollectorAssumption DEF SinceLast

(* The pause before a packet is a number of the timer's width.             *)
LEMMA DeltaType ==
    ASSUME NEW f \in Frame, lastPdu \in Frame \cup {None},
           lastPacket \in Frame \cup {None}, lastStamp \in 0..(TimerMax - 1),
           lastPdu # None => lastPacket # None
    PROVE  EndToStart(f) \in Nat
<1>1. CASE lastPdu = None
  BY <1>1 DEF EndToStart
<1>2. CASE lastPdu # None
  <2>1. Stamp(f) \in Int /\ Stamp(lastPdu) \in Int /\ lastPacket.len \in Int
    BY <1>2, StampType DEF Frame
  <2>2. Stamp(f) - (Stamp(lastPdu) + lastPacket.len) \in Int
    BY <2>1
  <2> QED
    BY <1>2, <2>2, ModBound, CollectorAssumption DEF EndToStart
<1> QED
  BY <1>1, <1>2

(* A set of indices of the list that is not empty has a greatest element.  *)
LEMMA FoundHasMax ==
    ASSUME packets \in Seq(Packet), NEW S \in SUBSET (DOMAIN packets), S # {}
    PROVE  Max(S) \in S /\ \A i \in S : Max(S) >= i
<1> DEFINE fromEnd == {Len(packets) - i : i \in S}
<1>1. fromEnd \subseteq Nat /\ fromEnd # {}
  OBVIOUS
<1>2. \E x \in fromEnd : \A y \in fromEnd : ~ (<<y, x>> \in OpToRel(<, Nat))
  BY <1>1, WFMin, NatLessThanWellFounded, Zenon
<1>3. PICK x \in fromEnd : \A y \in fromEnd : ~ (y < x)
  BY <1>1, <1>2 DEF OpToRel
<1>4. PICK m \in S : x = Len(packets) - m
  BY <1>3
<1>5. ASSUME NEW i \in S PROVE m >= i
  <2>1. ~ (Len(packets) - i < x)
    BY <1>3
  <2> QED
    BY <2>1, <1>4
<1> QED
  BY <1>5 DEF Max

(* A search gives a packet of the list, or nothing.                        *)
LEMMA FindPacketType ==
    ASSUME NEW c \in Int, packets \in Seq(Packet)
    PROVE  FindPacket(c) \in Packet \cup {None}
<1> DEFINE found == {i \in DOMAIN packets : Counter(packets[i]) = c}
<1>1. CASE found = {}
  BY <1>1 DEF FindPacket
<1>2. CASE found # {}
  <2>1. Max(found) \in found
    BY <1>2, FoundHasMax
  <2> QED
    BY <1>2, <2>1 DEF FindPacket
<1> QED
  BY <1>1, <1>2

-----------------------------------------------------------------------------
(* Type correctness                                                        *)

TInv == TypeOK /\ Known

(* The program starts with every variable of its type.                     *)
LEMMA TInit == Init => TInv
<1> SUFFICES ASSUME Init PROVE TypeOK /\ Known
  BY DEF TInv
<1>1. 0 \in 0..(TimerMax - 1) /\ 0 \in 0..MaxFrames /\ 1 \in 0..1
  BY CollectorAssumption
<1>2. <<>> \in Seq(Frame) /\ <<>> \in Seq(Packet)
  OBVIOUS
<1>3. TypeOK
  BY <1>1, <1>2 DEF Init, TypeOK
<1> QED
  BY <1>3 DEF Init, Known

(* A frame read is a frame; the line keeps its type without it.            *)
LEMMA ReadType ==
    ASSUME TypeOK, NEW f, NEW kind, Read(f, kind)
    PROVE  /\ f \in Frame /\ f = line[1] /\ pc = "read"
           /\ line' \in Seq(Frame) /\ lastPacket' \in Frame
           /\ lastPdu' \in Frame \cup {None}
           /\ line' = Tail(line) /\ line # <<>>
           /\ age' = age /\ sent' = sent /\ asked' = asked /\ exit' = exit
<1>1. line \in Seq(Frame) /\ line # <<>> /\ f = Head(line)
  BY DEF TypeOK, Read
<1>2. f \in Frame /\ f = line[1] /\ Tail(line) \in Seq(Frame)
  BY <1>1
<1> QED
  BY <1>1, <1>2 DEF TypeOK, Read

(* Every step keeps the types.                                             *)
LEMMA TNext == TInv /\ [Next]_vars => TInv'
<1> SUFFICES ASSUME TInv, [Next]_vars PROVE TInv'
  OBVIOUS
<1> USE DEF TInv
<1> USE CollectorAssumption
<1>1. ASSUME NEW kind \in {"pdu", "connect", "disconnect", "resp"},
             NEW len \in Lengths, NEW idle \in Idles, Send(kind, len, idle)
      PROVE  TInv'
  <2> DEFINE f == [kind |-> kind, id |-> sent, start |-> age, len |-> IF kind = "pdu" THEN len ELSE 0]
  <2>1. f \in Frame
    BY DEF TypeOK, Frame
  <2>2. line' = Append(line, f) /\ line' \in Seq(Frame)
    BY <1>1, <2>1 DEF Send, TypeOK
  <2>3. len \in Nat /\ idle \in Nat /\ MaxFrames \in Nat
    OBVIOUS
  <2>4. age' \in Nat /\ sent' \in 0..MaxFrames
    BY <1>1, <2>3 DEF Send, TypeOK
  <2>5. asked' \in 0..1
    BY <1>1 DEF Send, TypeOK
  <2> HIDE DEF f
  <2> QED
    BY <1>1, <2>2, <2>4, <2>5 DEF Send, TypeOK, Known, reader, clock, list, connection
<1>2. CASE Lose
  BY <1>2 DEF Lose, TypeOK, Known, reader, clock, list, connection
<1>3. CASE LoopTest
  BY <1>3 DEF LoopTest, TypeOK, Known, firmware, reader, clock, list, connection
<1>4. CASE ReadTimesOut
  BY <1>4 DEF ReadTimesOut, TypeOK, Known, firmware, reader, clock, list, connection
<1>5. ASSUME NEW f, ReadPdu(f) PROVE TInv'
  <2> DEFINE time == IF lastTime = None THEN age ELSE lastTime + SinceLast(f)
             p == [id |-> f.id, start |-> f.start, len |-> f.len,
                   time |-> time, delta |-> EndToStart(f), ref |-> lastTime # None]
  <2>1. Read(f, "pdu")
    BY <1>5 DEF ReadPdu
  <2>2. f \in Frame
    BY <2>1, ReadType
  <2>3. Stamp(f) \in 0..(TimerMax - 1) /\ SinceLast(f) \in Nat
    BY <2>2, StampType DEF TypeOK
  <2>4. EndToStart(f) \in Nat
    BY <2>2, DeltaType DEF TypeOK, Known
  <2>5. time \in Nat
    BY <2>3 DEF TypeOK
  <2>6. p \in Packet /\ p # None
    <3>1. f.id \in Nat /\ f.start \in Nat /\ f.len \in Nat
      BY <2>2 DEF Frame
    <3>2. (lastTime # None) \in BOOLEAN
      OBVIOUS
    <3> HIDE DEF time
    <3>3. p \in Packet
      BY <2>4, <2>5, <3>1, <3>2 DEF Packet
    <3> HIDE DEF p
    <3> QED
      BY <3>3
  <2>7. cur' = p /\ pc' = "append" /\ UNCHANGED <<list, connection>>
    BY <1>5 DEF ReadPdu
  <2>8. lastTime' \in Nat \cup {None} /\ lastStamp' \in 0..(TimerMax - 1)
    BY <1>5, <2>3, <2>5 DEF ReadPdu, clock, TypeOK
  <2>9. lastPdu' # None => lastPacket' # None
    BY <2>1, <2>2 DEF Read
  <2> HIDE DEF p
  <2> QED
    BY <2>1, <2>6, <2>7, <2>8, <2>9, ReadType DEF TypeOK, Known, list, connection
<1>6. ASSUME NEW f, ReadTimestamp(f) PROVE TInv'
  <2>1. Read(f, "resp")
    BY <1>6 DEF ReadTimestamp
  <2>2. f \in Frame
    BY <2>1, ReadType
  <2>3. Stamp(f) \in 0..(TimerMax - 1)
    BY <2>2, StampType DEF TypeOK
  <2>4. lastPdu' # None => lastPacket' # None
    BY <2>1, <2>2 DEF Read
  <2> QED
    BY <1>6, <2>1, <2>3, <2>4, ReadType DEF ReadTimestamp, TypeOK, Known, list, connection
<1>7. ASSUME NEW f, ReadConnect(f) PROVE TInv'
  <2>1. Read(f, "connect")
    BY <1>7 DEF ReadConnect
  <2>2. f \in Frame /\ f.id \in Nat
    BY <2>1, ReadType DEF Frame
  <2>3. lastPdu' # None => lastPacket' # None
    BY <2>1, <2>2 DEF Read
  <2> QED
    BY <1>7, <2>1, <2>2, <2>3, ReadType DEF ReadConnect, TypeOK, Known, clock, list
<1>8. ASSUME NEW f, ReadDisconnect(f) PROVE TInv'
  <2>1. Read(f, "disconnect")
    BY <1>8 DEF ReadDisconnect
  <2>2. f \in Frame /\ f.id \in Nat
    BY <2>1, ReadType DEF Frame
  <2>3. Counter(f) \in Int
    BY <2>2, CounterType
  <2>4. inConnection => connect % CounterCap \in Int
    BY ModBound DEF TypeOK, Known
  <2>5. inLast' \in Int \cup {None}
    BY <1>8, <2>3, <2>4 DEF ReadDisconnect, TypeOK
  <2>6. lastPdu' # None => lastPacket' # None
    BY <2>1, <2>2 DEF Read
  <2> QED
    BY <1>8, <2>1, <2>2, <2>5, <2>6, ReadType DEF ReadDisconnect, TypeOK, Known, clock, list
<1>9. CASE Publish
  BY <1>9 DEF Publish, TypeOK, Known, firmware, reader, clock, list, connection
<1>10. CASE PipeBroken
  BY <1>10 DEF PipeBroken, TypeOK, Known, firmware, reader, clock, list, connection
<1>11. CASE AppendPacket
  <2>1. cur \in Packet /\ packets \in Seq(Packet) /\ log \in Seq(Packet)
    BY <1>11 DEF AppendPacket, TypeOK
  <2>2. SubSeq(packets, Trim + 1, Len(packets)) \in Seq(Packet)
    BY <2>1
  <2>3. packets' \in Seq(Packet) /\ log' \in Seq(Packet)
    BY <1>11, <2>1, <2>2 DEF AppendPacket
  <2> QED
    BY <1>11, <2>3 DEF AppendPacket, TypeOK, Known, firmware, reader, clock, connection
<1>12. CASE FindRequest
  <2>1. connect \in Nat
    BY <1>12 DEF FindRequest, TypeOK, Known
  <2>2. (connect % CounterCap) - 1 \in Int
    BY <2>1, ModBound
  <2>3. request' \in Packet \cup {None}
    BY <1>12, <2>2, FindPacketType DEF FindRequest, TypeOK
  <2>4. connect # None
    BY <2>1
  <2> QED
    BY <1>12, <2>3, <2>4 DEF FindRequest, TypeOK, Known, firmware, reader, clock, list
<1>13. ASSUME NEW n \in Numbers, GetSlice(n) PROVE TInv'
  <2>1. Cut(n) \in 0..Len(packets)
    BY CutBound DEF TypeOK
  <2>2. SubSeq(packets, 1, Cut(n)) \in Seq(Packet)
    BY <2>1 DEF TypeOK
  <2> DEFINE c == [number |-> n, list |-> SubSeq(packets, 1, Cut(n))]
  <2>3. c \in Call
    BY <2>2 DEF Call
  <2>4. call' = c
    BY <1>13 DEF GetSlice
  <2> HIDE DEF c
  <2>5. call' \in Call /\ call' # None
    BY <2>3, <2>4
  <2> QED
    BY <1>13, <2>5 DEF GetSlice, TypeOK, Known, firmware, reader, clock, connection
<1>14. CASE GetRest
  <2>1. call \in Call
    BY <1>14 DEF GetRest, TypeOK
  <2>2. call.list \in Seq(Packet) /\ call.number \in Int
    BY <2>1 DEF Call
  <2>3. Cut(call.number) \in 0..Len(packets)
    BY <2>2, CutBound DEF TypeOK
  <2>4. SubSeq(packets, Cut(call.number) + 1, Len(packets)) \in Seq(Packet)
    BY <2>3 DEF TypeOK
  <2>5. handed' \in Seq(Packet)
    BY <1>14, <2>2 DEF GetRest, TypeOK
  <2> QED
    BY <1>14, <2>4, <2>5 DEF GetRest, TypeOK, Known, firmware, reader, clock, connection
<1>15. CASE RequestExit
  BY <1>15 DEF RequestExit, TypeOK, Known, firmware, reader, clock, list, connection
<1>16. CASE UNCHANGED vars
  BY <1>16 DEF vars, TypeOK, Known, Cut, firmware, reader, clock, list, connection
<1> QED
  BY <1>1, <1>2, <1>3, <1>4, <1>5, <1>6, <1>7, <1>8, <1>9, <1>10, <1>11,
     <1>12, <1>13, <1>14, <1>15, <1>16
     DEF Next, Firmware, Reads, Sniffs, Arrives, Fetches

(* Every variable has its type in every reachable state, for every list    *)
(* length, counter width and timer width.                                  *)
THEOREM TypeCorrect == Spec => []TypeOK
<1>1. Spec => []TInv
  BY TInit, TNext, PTL DEF Spec
<1>2. TInv => TypeOK
  BY DEF TInv
<1> QED
  BY <1>1, <1>2, PTL

-----------------------------------------------------------------------------
(* The order of the ids                                                    *)

(* A frame taken off the line precedes the rest of it.                     *)
LEMMA TailOrder ==
    ASSUME TypeOK, Order, line # <<>>, line' = Tail(line), sent' = sent
    PROVE  /\ LineOrder'
           /\ log' = log => LogOrder'
           /\ \A i \in 1..Len(line') : line[1].id < line'[i].id
           /\ line[1].id \in Nat /\ line[1].id < sent
           /\ \A i \in 1..Len(log) : log[i].id < line[1].id
           /\ connect # None => connect < line[1].id
<1>1. line \in Seq(Frame) /\ Len(line) \in Nat \ {0}
  BY DEF TypeOK
<1>2. Len(line') = Len(line) - 1 /\ \A i \in 1..Len(line') : line'[i] = line[i + 1]
  BY <1>1
<1>3. LineOrder'
  BY <1>1, <1>2 DEF Order, LineOrder
<1>4. log' = log => LogOrder'
  BY <1>1, <1>2 DEF Order, LogOrder
<1>5. \A i \in 1..Len(line') : line[1].id < line'[i].id
  BY <1>1, <1>2 DEF Order, LineOrder
<1>6. line[1] \in Frame /\ line[1].id < sent
  BY <1>1 DEF Order, LineOrder
<1>7. \A i \in 1..Len(log) : log[i].id < line[1].id
  BY <1>1 DEF Order, LogOrder
<1>8. connect # None => connect < line[1].id
  BY <1>1 DEF Order, ConnectOrder
<1> QED
  BY <1>3, <1>4, <1>5, <1>6, <1>7, <1>8 DEF Frame

(* Nothing has an id at the start.                                         *)
LEMMA OrderInit == Init => Order
BY DEF Init, Order, LineOrder, LogOrder, CurOrder, ConnectOrder

(* Every step keeps the order.                                             *)
LEMMA OrderNext == TInv /\ Order /\ [Next]_vars => Order'
<1> SUFFICES ASSUME TInv, Order, [Next]_vars PROVE Order'
  OBVIOUS
<1>0. TypeOK /\ Known /\ LineOrder /\ LogOrder /\ CurOrder /\ ConnectOrder
  BY DEF TInv, Order
<1>1. ASSUME NEW kind \in {"pdu", "connect", "disconnect", "resp"},
             NEW len \in Lengths, NEW idle \in Idles, Send(kind, len, idle)
      PROVE  Order'
  <2> DEFINE f == [kind |-> kind, id |-> sent, start |-> age, len |-> IF kind = "pdu" THEN len ELSE 0]
  <2>1. line' = Append(line, f) /\ f.id = sent /\ sent' = sent + 1
    BY <1>1 DEF Send
  <2>2. UNCHANGED <<log, cur, pc, connect>>
    BY <1>1 DEF Send, list, connection
  <2> HIDE DEF f
  <2>3. line \in Seq(Frame) /\ sent \in Nat /\ log \in Seq(Packet)
    BY <1>0, CollectorAssumption DEF TypeOK
  <2>4. /\ Len(line') = Len(line) + 1 /\ line'[Len(line) + 1] = f
        /\ \A i \in 1..Len(line) : line'[i] = line[i]
    BY <2>1, <2>3
  <2>5. /\ \A i \in 1..Len(line) : line[i].id \in Nat
        /\ \A i \in 1..Len(log) : log[i].id \in Nat
        /\ cur # None => cur.id \in Nat
        /\ connect # None => connect \in Nat
    <3>1. \A i \in 1..Len(line) : line[i] \in Frame
      BY <2>3
    <3>2. \A i \in 1..Len(log) : log[i] \in Packet
      BY <2>3
    <3>3. (cur # None => cur \in Packet) /\ (connect # None => connect \in Nat)
      BY <1>0 DEF TypeOK
    <3> QED
      BY <3>1, <3>2, <3>3 DEF Frame, Packet
  <2>6. LineOrder'
    BY <1>0, <2>1, <2>3, <2>4, <2>5, SMTT(40) DEF LineOrder
  <2>7. LogOrder'
    BY <1>0, <2>1, <2>2, <2>3, <2>4, <2>5 DEF LogOrder
  <2>8. CurOrder'
    BY <1>0, <2>1, <2>2, <2>3, <2>4, <2>5 DEF CurOrder
  <2>9. ConnectOrder'
    BY <1>0, <2>1, <2>2, <2>3, <2>4, <2>5 DEF ConnectOrder
  <2> QED
    BY <2>6, <2>7, <2>8, <2>9 DEF Order
<1>2. CASE Lose
  <2>1. line # <<>> /\ line' = Tail(line) /\ UNCHANGED <<sent, log, cur, pc, connect>>
    BY <1>2 DEF Lose, list, connection
  <2>2. \A i \in 1..Len(line') : i + 1 \in 1..Len(line) /\ line'[i] = line[i + 1]
    BY <1>0, <2>1 DEF TypeOK
  <2>3. CurOrder' /\ ConnectOrder'
    BY <1>0, <2>1, <2>2 DEF CurOrder, ConnectOrder
  <2> QED
    BY <1>0, <2>1, <2>3, TailOrder DEF Order
<1>3. ASSUME NEW f, ReadPdu(f) PROVE Order'
  <2>1. Read(f, "pdu") /\ UNCHANGED <<log, connect>> /\ pc' = "append" /\ cur'.id = f.id
    BY <1>3 DEF ReadPdu, list, connection
  <2>2. f = line[1] /\ line # <<>> /\ line' = Tail(line) /\ sent' = sent
    BY <1>0, <2>1, ReadType
  <2>3. CurOrder'
    BY <1>0, <2>1, <2>2, TailOrder DEF CurOrder
  <2>4. ConnectOrder'
    <3>1. \A i \in 1..Len(line') : i + 1 \in 1..Len(line) /\ line'[i] = line[i + 1]
      BY <1>0, <2>2 DEF TypeOK
    <3> QED
      BY <1>0, <2>1, <2>2, <3>1 DEF ConnectOrder
  <2> QED
    BY <1>0, <2>1, <2>2, <2>3, <2>4, TailOrder DEF Order
<1>4. ASSUME NEW f, ReadConnect(f) PROVE Order'
  <2>1. Read(f, "connect") /\ UNCHANGED <<log, cur>> /\ pc' = "find" /\ connect' = f.id
    BY <1>4 DEF ReadConnect, list
  <2>2. f = line[1] /\ line # <<>> /\ line' = Tail(line) /\ sent' = sent
    BY <1>0, <2>1, ReadType
  <2>3. ConnectOrder'
    BY <1>0, <2>1, <2>2, TailOrder DEF ConnectOrder
  <2>4. CurOrder'
    <3>1. \A i \in 1..Len(line') : i + 1 \in 1..Len(line) /\ line'[i] = line[i + 1]
      BY <1>0, <2>2 DEF TypeOK
    <3> QED
      BY <1>0, <2>1, <2>2, <3>1 DEF CurOrder
  <2> QED
    BY <1>0, <2>1, <2>2, <2>3, <2>4, TailOrder DEF Order
<1>5. ASSUME NEW f, ReadTimestamp(f) \/ ReadDisconnect(f) PROVE Order'
  <2>1. /\ Read(f, "resp") \/ Read(f, "disconnect")
        /\ UNCHANGED <<log, cur, connect>> /\ pc' = "loop"
    BY <1>5 DEF ReadTimestamp, ReadDisconnect, list, connection
  <2>2. line # <<>> /\ line' = Tail(line) /\ sent' = sent
    BY <1>0, <2>1, ReadType
  <2>3. \A i \in 1..Len(line') : i + 1 \in 1..Len(line) /\ line'[i] = line[i + 1]
    BY <1>0, <2>2 DEF TypeOK
  <2>4. CurOrder' /\ ConnectOrder'
    BY <1>0, <2>1, <2>2, <2>3 DEF CurOrder, ConnectOrder
  <2> QED
    BY <1>0, <2>1, <2>2, <2>4, TailOrder DEF Order
<1>6. CASE AppendPacket
  <2>1. /\ log' = Append(log, cur) /\ pc = "append" /\ pc' = "publish"
        /\ UNCHANGED <<sent, line, cur, connect>>
    BY <1>6 DEF AppendPacket, firmware, connection
  <2>2. log \in Seq(Packet) /\ cur \in Packet /\ cur # None
    BY <1>0, <2>1, CollectorAssumption DEF TypeOK
  <2>3. /\ Len(log') = Len(log) + 1 /\ log'[Len(log) + 1] = cur
        /\ \A i \in 1..Len(log) : log'[i] = log[i]
    BY <2>1, <2>2
  <2>4. LogOrder'
    <3> SUFFICES ASSUME NEW i \in 1..Len(log')
                 PROVE  /\ log'[i].id < sent
                        /\ \A j \in 1..Len(log') : i < j => log'[i].id < log'[j].id
                        /\ \A j \in 1..Len(line) : log'[i].id < line[j].id
      BY <2>1 DEF LogOrder
    <3>1. CASE i \in 1..Len(log)
      BY <1>0, <2>1, <2>2, <2>3, <3>1 DEF LogOrder, CurOrder
    <3>2. CASE i = Len(log) + 1
      BY <1>0, <2>1, <2>2, <2>3, <3>2 DEF CurOrder
    <3> QED
      BY <2>2, <2>3, <3>1, <3>2
  <2>5. LineOrder' /\ CurOrder' /\ ConnectOrder'
    BY <1>0, <2>1 DEF LineOrder, CurOrder, ConnectOrder
  <2> QED
    BY <2>4, <2>5 DEF Order
<1>7. CASE Publish \/ PipeBroken
  <2>1. /\ cur' = None /\ pc' \notin {"append", "find"}
        /\ UNCHANGED <<sent, line, log, connect>>
    BY <1>7 DEF Publish, PipeBroken, firmware, list, connection
  <2> QED
    BY <1>0, <2>1 DEF Order, LineOrder, LogOrder, CurOrder, ConnectOrder
<1>8. CASE LoopTest \/ ReadTimesOut \/ FindRequest \/ (\E n \in Numbers : GetSlice(n))
           \/ GetRest \/ RequestExit \/ UNCHANGED vars
  <2>1. /\ UNCHANGED <<sent, line, log, cur, connect>>
        /\ pc' = pc \/ pc' \notin {"append", "find"}
    BY <1>8 DEF LoopTest, ReadTimesOut, FindRequest, GetSlice, GetRest, RequestExit, vars,
                firmware, list, connection
  <2> QED
    BY <1>0, <2>1 DEF Order, LineOrder, LogOrder, CurOrder, ConnectOrder
<1> QED
  BY <1>1, <1>2, <1>3, <1>4, <1>5, <1>6, <1>7, <1>8
     DEF Next, Firmware, Reads, Sniffs, Arrives, Fetches

-----------------------------------------------------------------------------
(* The list, the fetch in progress and the connect request                 *)

(* Slices of a list are sequences, and a suffix keeps the last entries.    *)
LEMMA SliceOff ==
    ASSUME NEW s \in Seq(Packet), NEW k \in 0..Len(s)
    PROVE  /\ SubSeq(s, k + 1, Len(s)) \in Seq(Packet)
           /\ Len(SubSeq(s, k + 1, Len(s))) = Len(s) - k
           /\ \A i \in 1..(Len(s) - k) : SubSeq(s, k + 1, Len(s))[i] = s[i + k]
OBVIOUS

(* What is cut off in front leaves a suffix of the log.                    *)
LEMMA SuffixCut ==
    ASSUME TypeOK, Suffix, NEW k \in 0..Len(packets), log' = log,
           packets' = SubSeq(packets, k + 1, Len(packets))
    PROVE  Suffix'
<1>1. packets \in Seq(Packet) /\ Len(log) \in Nat /\ Len(packets) \in Nat
  BY DEF TypeOK
<1>2. /\ Len(packets') = Len(packets) - k
      /\ \A i \in 1..Len(packets') : packets'[i] = packets[i + k]
  BY <1>1, SliceOff
<1>3. Len(packets') <= Len(log')
  BY <1>1, <1>2 DEF Suffix
<1>4. ASSUME NEW i \in 1..Len(packets')
      PROVE  packets'[i] = log'[Len(log') - Len(packets') + i]
  <2> DEFINE m == Len(packets)
             n == Len(log)
  <2>1. i \in Int /\ i >= 1 /\ i <= m - k /\ m \in Nat /\ n \in Nat /\ k \in Nat
    BY <1>1, <1>2
  <2>2. i + k \in 1..m
    BY <2>1
  <2>3. packets[i + k] = log[n - m + (i + k)]
    BY <2>2 DEF Suffix
  <2>4. n - m + (i + k) = n - (m - k) + i
    BY <2>1
  <2> QED
    BY <1>2, <2>3, <2>4
<1> QED
  BY <1>3, <1>4 DEF Suffix

(* Every step keeps the list a suffix of the log.                          *)
LEMMA SuffixNext == TInv /\ Suffix /\ [Next]_vars => Suffix'
<1> SUFFICES ASSUME TInv, Suffix, [Next]_vars PROVE Suffix'
  OBVIOUS
<1>0. TypeOK
  BY DEF TInv
<1>1. CASE AppendPacket
  <2> DEFINE k == IF Len(packets) > HighMark THEN Trim ELSE 0
             t == SubSeq(packets, k + 1, Len(packets))
  <2>1. packets \in Seq(Packet) /\ log \in Seq(Packet) /\ cur \in Packet
    BY <1>0, <1>1 DEF AppendPacket, TypeOK
  <2>2. k \in 0..Len(packets)
    BY <2>1, CollectorAssumption
  <2>3. packets' = Append(t, cur) /\ log' = Append(log, cur)
    <3>1. SubSeq(packets, 0 + 1, Len(packets)) = packets
      BY <2>1
    <3>2. t = IF Len(packets) > HighMark THEN SubSeq(packets, Trim + 1, Len(packets)) ELSE packets
      BY <3>1
    <3> QED
      BY <1>1, <3>2 DEF AppendPacket
  <2> HIDE DEF k
  <2>4. /\ t \in Seq(Packet) /\ Len(t) = Len(packets) - k
        /\ \A i \in 1..Len(t) : t[i] = packets[i + k]
    BY <2>1, <2>2, SliceOff
  <2> HIDE DEF t
  <2>5. /\ Len(packets') = Len(t) + 1 /\ packets'[Len(t) + 1] = cur
        /\ \A i \in 1..Len(t) : packets'[i] = t[i]
    BY <2>1, <2>3, <2>4
  <2>6. /\ Len(log') = Len(log) + 1 /\ log'[Len(log) + 1] = cur
        /\ \A i \in 1..Len(log) : log'[i] = log[i]
    BY <2>1, <2>3
  <2>7. Len(packets) \in Nat /\ Len(log) \in Nat /\ Len(packets) <= Len(log)
    BY <2>1 DEF Suffix
  <2> SUFFICES ASSUME NEW i \in 1..Len(packets')
               PROVE  packets'[i] = log'[Len(log') - Len(packets') + i]
    BY <2>2, <2>4, <2>5, <2>6, <2>7 DEF Suffix
  <2>8. CASE i = Len(t) + 1
    BY <2>2, <2>4, <2>5, <2>6, <2>7, <2>8
  <2>9. CASE i \in 1..Len(t)
    <3>1. i + k \in 1..Len(packets) /\ packets'[i] = packets[i + k]
      BY <2>2, <2>4, <2>5, <2>7, <2>9
    <3>2. packets[i + k] = log[Len(log) - Len(packets) + (i + k)]
      BY <3>1 DEF Suffix
    <3>3. /\ Len(log) - Len(packets) + (i + k) \in 1..Len(log)
          /\ Len(log) - Len(packets) + (i + k) = Len(log') - Len(packets') + i
      BY <2>2, <2>4, <2>5, <2>6, <2>7, <3>1
    <3> QED
      BY <2>6, <3>1, <3>2, <3>3
  <2> QED
    BY <2>2, <2>4, <2>5, <2>7, <2>8, <2>9
<1>2. CASE GetRest
  <2>1. /\ call \in Call /\ log' = log
        /\ packets' = SubSeq(packets, Cut(call.number) + 1, Len(packets))
    BY <1>0, <1>2 DEF GetRest, TypeOK
  <2>2. Cut(call.number) \in 0..Len(packets)
    BY <1>0, <2>1, CutBound, CollectorAssumption DEF Call, TypeOK
  <2> QED
    BY <1>0, <2>1, <2>2, SuffixCut
<1>3. ASSUME packets' = packets, log' = log PROVE Suffix'
  BY <1>3 DEF Suffix
<1> QED
  BY <1>1, <1>2, <1>3
     DEF Next, Firmware, Send, Lose, Reads, Sniffs, LoopTest, ReadTimesOut, Arrives, ReadPdu,
         ReadTimestamp, ReadConnect, ReadDisconnect, Publish, PipeBroken, FindRequest,
         Fetches, GetSlice, RequestExit, vars, list

(* Every step keeps the first slice of a fetch in progress true.           *)
LEMMA FetchingNext == TInv /\ Fetching /\ [Next]_vars => Fetching'
<1> SUFFICES ASSUME TInv, Fetching, [Next]_vars, call' # None PROVE Fetching'
  BY DEF Fetching
<1>1. ASSUME NEW n \in Numbers, GetSlice(n) PROVE Fetching'
  <2>1. packets' = packets /\ call'.number = n /\ call'.list = SubSeq(packets, 1, Cut(n))
    BY <1>1 DEF GetSlice
  <2> QED
    BY <2>1 DEF Fetching, Cut
<1>2. CASE AppendPacket
  \* the holder of the lock keeps the list for itself
  BY <1>2 DEF AppendPacket, TInv, TypeOK
<1>3. ASSUME packets' = packets, call' = call PROVE Fetching'
  BY <1>3 DEF Fetching, Cut
<1> QED
  BY <1>1, <1>2, <1>3
     DEF Next, Firmware, Send, Lose, Reads, Sniffs, LoopTest, ReadTimesOut, Arrives, ReadPdu,
         ReadTimestamp, ReadConnect, ReadDisconnect, Publish, PipeBroken, FindRequest,
         Fetches, GetRest, RequestExit, vars, list

(* The inductive invariant holds in every reachable state.                 *)
LEMMA Invariant == Spec => []IInv
<1>1. Init => IInv
  <2>1. Init => Fetching /\ Suffix
    BY DEF Init, Fetching, Suffix
  <2> QED
    BY <2>1, TInit, OrderInit DEF IInv, TInv
<1>2. IInv /\ [Next]_vars => IInv'
  BY TNext, OrderNext, SuffixNext, FetchingNext DEF IInv, TInv
<1> QED
  BY <1>1, <1>2, PTL DEF Spec

-----------------------------------------------------------------------------
(* The connect request                                                     *)

(* The counter before one that is not zero is one less.                    *)
LEMMA CounterBefore ==
    ASSUME NEW a \in Nat \ {0}, NEW m \in Nat \ {0}, a % m # 0
    PROVE  (a - 1) % m = (a % m) - 1
<1> DEFINE q == a \div m
           r == a % m
<1>1. a = m * q + r /\ r \in 1..(m - 1) /\ q \in Int
  BY SMTT(20)
<1>2. a - 1 = m * q + (r - 1) /\ r - 1 \in 0..(m - 1)
  BY <1>1
<1> HIDE DEF q, r
<1>3. (m * q + (r - 1)) % m = r - 1
  BY <1>1, <1>2, SMTT(20)
<1> QED
  BY <1>2, <1>3 DEF r

(* The packet just before a connect event is the last of the log; if it is *)
(* still in the list the search finds it, and if it was fetched, so were   *)
(* all before it.                                                          *)
LEMMA FindRequestRight ==
    ASSUME IInv, FindRequest, request' # None,
           NEW i \in DOMAIN log, log[i].id = connect - 1
    PROVE  request'.id = connect - 1
<1> DEFINE c == (connect % CounterCap) - 1
           found == {j \in DOMAIN packets : Counter(packets[j]) = c}
           m == Len(packets)
           n == Len(log)
<1>1. /\ packets \in Seq(Packet) /\ log \in Seq(Packet) /\ connect \in Nat
      /\ m \in Nat /\ n \in Nat /\ pc = "find"
  BY DEF IInv, TypeOK, Known, FindRequest
<1>2. request' = FindPacket(c)
  BY DEF FindRequest
<1>3. found # {} /\ request' = packets[Max(found)]
  BY <1>2 DEF FindPacket
<1>4. /\ Max(found) \in 1..m /\ Counter(packets[Max(found)]) = c
      /\ \A j \in found : Max(found) >= j
  <2>1. found \in SUBSET (DOMAIN packets)
    OBVIOUS
  <2>2. Max(found) \in found /\ \A j \in found : Max(found) >= j
    <3> HIDE DEF found
    <3> QED
      BY <1>1, <1>3, <2>1, FoundHasMax
  <2> QED
    BY <1>1, <2>2
<1>5. m > 0
  BY <1>1, <1>4
<1>6. c \in 0..(CounterCap - 1)
  <2>1. packets[Max(found)] \in Packet
    BY <1>1, <1>4
  <2> QED
    BY <1>4, <2>1, CounterType DEF Packet
<1>7. packets[m] = log[n] /\ n >= m
  BY <1>1, <1>5 DEF IInv, Suffix
<1>8. i = n
  <2> SUFFICES ASSUME i < n PROVE FALSE
    BY <1>1
  <2>1. log[n] \in Packet /\ log[i] \in Packet /\ n \in 1..Len(log)
    BY <1>1, <1>5, <1>7
  <2>2. log[i].id < log[n].id /\ log[n].id < connect
    BY <1>1, <2>1 DEF IInv, Order, LogOrder, ConnectOrder, FindRequest
  <2> QED
    <3>1. log[i].id \in Nat /\ log[n].id \in Nat
      BY <2>1 DEF Packet
    <3> QED
      BY <1>1, <2>2, <3>1
<1>9. packets[m].id = connect - 1 /\ connect - 1 \in Nat
  <2>1. log[n] \in Packet
    BY <1>1, <1>5, <1>7
  <2> QED
    BY <1>7, <1>8, <2>1 DEF Packet
<1>10. Counter(packets[m]) = c
  <2>1. connect % CounterCap # 0 /\ connect \in Nat \ {0}
    BY <1>1, <1>6, <1>9, CollectorAssumption
  <2>2. (connect - 1) % CounterCap = c
    BY <2>1, CounterBefore, CollectorAssumption
  <2> QED
    BY <1>9, <2>2 DEF Counter
<1>11. m \in found
  BY <1>1, <1>5, <1>10
<1>12. Max(found) = m
  <2> DEFINE x == Max(found)
  <2>1. x \in 1..m /\ x >= m
    BY <1>4, <1>11
  <2> HIDE DEF x
  <2> QED
    <3>1. x = m
      BY <1>1, <2>1
    <3> QED
      BY <3>1 DEF x
<1> QED
  BY <1>3, <1>9, <1>12

(* Every step keeps the connect request right.                             *)
LEMMA RequestNext == IInv /\ RequestIsRight /\ [Next]_vars => RequestIsRight'
<1> SUFFICES ASSUME IInv, RequestIsRight, [Next]_vars,
                    pc' # "find", request' # None,
                    NEW i \in DOMAIN log', log'[i].id = connect' - 1
             PROVE  request'.id = connect' - 1
  BY DEF RequestIsRight
<1>1. CASE FindRequest
  <2>1. log' = log /\ connect' = connect
    BY <1>1 DEF FindRequest, list
  <2> QED
    BY <1>1, <2>1, FindRequestRight
<1>2. CASE AppendPacket
  <2>1. /\ log' = Append(log, cur) /\ pc = "append"
        /\ UNCHANGED <<connect, request>>
    BY <1>2 DEF AppendPacket, connection
  <2>2. /\ log \in Seq(Packet) /\ cur \in Packet /\ connect \in Nat
        /\ connect < cur.id
    BY <2>1 DEF IInv, TypeOK, Known, Order, CurOrder
  <2>3. CASE i \in DOMAIN log
    BY <2>1, <2>2, <2>3 DEF RequestIsRight
  <2>4. CASE i = Len(log) + 1
    BY <2>1, <2>2, <2>4 DEF Packet
  <2> QED
    BY <2>1, <2>2, <2>3, <2>4
<1>3. ASSUME NEW f, ReadConnect(f) PROVE FALSE
  BY <1>3 DEF ReadConnect
<1>4. ASSUME pc # "find", UNCHANGED <<log, connect, request>> PROVE request'.id = connect' - 1
  BY <1>4 DEF RequestIsRight
<1>5. CASE pc = "find" /\ pc' = pc
  BY <1>5
<1> QED
  BY <1>1, <1>2, <1>3, <1>4, <1>5
     DEF Next, Firmware, Send, Lose, Reads, Sniffs, LoopTest, ReadTimesOut, Arrives, Read, ReadPdu,
         ReadTimestamp, ReadDisconnect, Publish, PipeBroken,
         Fetches, GetSlice, GetRest, RequestExit, vars, list, connection

(* A connect request is never another packet than the one just before the  *)
(* connect event, whatever the width of the counter                        *)
(* (SnifferCollector._findPacketByPacketCounter).                          *)
THEOREM RequestCorrect == Spec => []RequestIsRight
<1>1. Init => RequestIsRight
  BY DEF Init, RequestIsRight
<1>2. IInv /\ RequestIsRight /\ [Next]_vars => RequestIsRight'
  BY RequestNext
<1> QED
  BY <1>1, <1>2, Invariant, PTL DEF Spec

-----------------------------------------------------------------------------
(* The list implements the packet log                                      *)

(* The ids of a sequence are a sequence of the same length.                *)
LEMMA IdsType ==
    ASSUME NEW s \in Seq(Packet)
    PROVE  /\ Ids(s) \in Seq(Nat) /\ Len(Ids(s)) = Len(s)
           /\ \A i \in 1..Len(s) : Ids(s)[i] = s[i].id
<1>1. Len(s) \in Nat /\ DOMAIN s = 1..Len(s) /\ \A i \in 1..Len(s) : s[i] \in Packet
  OBVIOUS
<1>2. Ids(s) = [i \in 1..Len(s) |-> s[i].id]
  BY <1>1 DEF Ids
<1>3. \A i \in 1..Len(s) : s[i].id \in Nat
  BY <1>1 DEF Packet
<1> QED
  BY <1>1, <1>2, <1>3

(* Appending commutes with taking the ids ...                              *)
LEMMA IdsAppend ==
    ASSUME NEW s \in Seq(Packet), NEW p \in Packet
    PROVE  Ids(Append(s, p)) = Append(Ids(s), p.id)
<1> DEFINE longer == Append(s, p)
           left == Ids(longer)
           ids == Ids(s)
           right == Append(ids, p.id)
<1>1. /\ longer \in Seq(Packet) /\ Len(longer) = Len(s) + 1
      /\ longer[Len(s) + 1] = p /\ Len(s) \in Nat
      /\ \A i \in 1..Len(s) : longer[i] = s[i]
  OBVIOUS
<1>2. p.id \in Nat
  BY DEF Packet
<1> HIDE DEF longer
<1>3. /\ left \in Seq(Nat) /\ Len(left) = Len(s) + 1
      /\ \A i \in 1..(Len(s) + 1) : left[i] = longer[i].id
  BY <1>1, IdsType
<1>4. ids \in Seq(Nat) /\ Len(ids) = Len(s) /\ \A i \in 1..Len(s) : ids[i] = s[i].id
  BY IdsType
<1> HIDE DEF left, ids
<1>5. /\ right \in Seq(Nat) /\ Len(right) = Len(s) + 1 /\ right[Len(s) + 1] = p.id
      /\ \A i \in 1..Len(s) : right[i] = ids[i]
  BY <1>1, <1>2, <1>4
<1> HIDE DEF right
<1>6. ASSUME NEW i \in 1..(Len(s) + 1) PROVE left[i] = right[i]
  <2>1. CASE i \in 1..Len(s)
    BY <1>1, <1>3, <1>4, <1>5, <2>1
  <2>2. CASE i = Len(s) + 1
    BY <1>1, <1>3, <1>5, <2>2
  <2> QED
    BY <1>1, <2>1, <2>2
<1>7. left = right
  BY <1>1, <1>3, <1>5, <1>6
<1> QED
  BY <1>7 DEF left, right, ids, longer

(* ... and so does joining two sequences ...                               *)
LEMMA IdsConcat ==
    ASSUME NEW s \in Seq(Packet), NEW t \in Seq(Packet)
    PROVE  Ids(s \o t) = Ids(s) \o Ids(t)
<1> DEFINE joined == s \o t
           left == Ids(joined)
           front == Ids(s)
           back == Ids(t)
           right == front \o back
           n == Len(s) + Len(t)
<1>1. /\ joined \in Seq(Packet) /\ Len(joined) = n /\ Len(s) \in Nat /\ Len(t) \in Nat
      /\ \A i \in 1..Len(s) : joined[i] = s[i]
      /\ \A i \in 1..n : i > Len(s) => joined[i] = t[i - Len(s)]
  OBVIOUS
<1> HIDE DEF joined
<1>2. /\ left \in Seq(Nat) /\ Len(left) = n
      /\ \A i \in 1..n : left[i] = joined[i].id
  BY <1>1, IdsType
<1>3. /\ front \in Seq(Nat) /\ Len(front) = Len(s) /\ \A i \in 1..Len(s) : front[i] = s[i].id
      /\ back \in Seq(Nat) /\ Len(back) = Len(t) /\ \A i \in 1..Len(t) : back[i] = t[i].id
  BY IdsType
<1> HIDE DEF left, front, back
<1>4. /\ right \in Seq(Nat) /\ Len(right) = n
      /\ \A i \in 1..Len(s) : right[i] = front[i]
      /\ \A i \in 1..n : i > Len(s) => right[i] = back[i - Len(s)]
  <2> HIDE DEF n
  <2>1. n = Len(front) + Len(back) /\ Len(front) \in Nat /\ Len(back) \in Nat
    BY <1>1, <1>3 DEF n
  <2>2. right \in Seq(Nat) /\ Len(right) = n
    BY <1>3, <2>1
  <2>3. \A i \in 1..Len(front) : right[i] = front[i]
    BY <1>3, <2>1
  <2>4. \A i \in 1..n : i > Len(front) => right[i] = back[i - Len(front)]
    BY <1>3, <2>1
  <2> QED
    BY <1>3, <2>2, <2>3, <2>4
<1> HIDE DEF right
<1>5. ASSUME NEW i \in 1..n PROVE left[i] = right[i]
  <2>1. CASE i \in 1..Len(s)
    BY <1>1, <1>2, <1>3, <1>4, <2>1, ZenonT(40)
  <2>2. CASE i > Len(s)
    <3>1. i - Len(s) \in 1..Len(t)
      BY <1>1, <2>2
    <3> QED
      BY <1>1, <1>2, <1>3, <1>4, <2>2, <3>1, ZenonT(40)
  <2> QED
    BY <1>1, <2>1, <2>2
<1>6. left = right
  BY <1>1, <1>2, <1>4, <1>5
<1> QED
  BY <1>6 DEF left, right, front, back, joined

(* ... and slicing.                                                        *)
LEMMA IdsSlice ==
    ASSUME NEW s \in Seq(Packet), NEW a \in 1..(Len(s) + 1), NEW b \in 0..Len(s)
    PROVE  Ids(SubSeq(s, a, b)) = SubSeq(Ids(s), a, b)
<1> DEFINE n == IF a <= b THEN b - a + 1 ELSE 0
           slice == SubSeq(s, a, b)
           left == Ids(slice)
           ids == Ids(s)
           right == SubSeq(ids, a, b)
<1>1. /\ slice \in Seq(Packet) /\ Len(slice) = n /\ n \in Nat
      /\ \A i \in 1..n : slice[i] = s[a + i - 1]
  OBVIOUS
<1> HIDE DEF slice
<1>2. /\ left \in Seq(Nat) /\ Len(left) = n
      /\ \A i \in 1..n : left[i] = slice[i].id
  <2> HIDE DEF n
  <2> QED
    BY <1>1, IdsType
<1>3. ids \in Seq(Nat) /\ Len(ids) = Len(s) /\ \A i \in 1..Len(s) : ids[i] = s[i].id
  BY IdsType
<1> HIDE DEF left, ids
<1>4. /\ right \in Seq(Nat) /\ Len(right) = n
      /\ \A i \in 1..n : right[i] = ids[a + i - 1]
  BY <1>3
<1> HIDE DEF right
<1>5. \A i \in 1..n : a + i - 1 \in 1..Len(s)
  OBVIOUS
<1> HIDE DEF n
<1>6. \A i \in 1..n : left[i] = right[i]
  BY <1>1, <1>2, <1>3, <1>4, <1>5
<1>7. left = right
  BY <1>1, <1>2, <1>4, <1>6
<1> QED
  BY <1>7 DEF left, right, ids, slice

(* _appendPacket puts a packet into the log.                               *)
LEMMA AppendPuts ==
    ASSUME IInv, AppendPacket
    PROVE  PL!Next
<1> DEFINE k == IF Len(packets) > HighMark THEN Trim ELSE 0
           t == SubSeq(packets, k + 1, Len(packets))
<1>1. packets \in Seq(Packet) /\ log \in Seq(Packet) /\ cur \in Packet /\ handed' = handed
  BY DEF IInv, TypeOK, AppendPacket
<1>2. k \in 0..Len(packets)
  BY <1>1, CollectorAssumption
<1>3. packets' = Append(t, cur) /\ log' = Append(log, cur)
  <2>1. SubSeq(packets, 0 + 1, Len(packets)) = packets
    BY <1>1
  <2>2. t = IF Len(packets) > HighMark THEN SubSeq(packets, Trim + 1, Len(packets)) ELSE packets
    BY <2>1
  <2> QED
    BY <2>2 DEF AppendPacket
<1> HIDE DEF k
<1>4. t \in Seq(Packet) /\ Ids(t) = SubSeq(Ids(packets), k + 1, Len(Ids(packets)))
  <2>1. k + 1 \in 1..(Len(packets) + 1) /\ Len(packets) \in 0..Len(packets)
    BY <1>1, <1>2
  <2> QED
    BY <1>1, <1>2, <2>1, SliceOff, IdsSlice, IdsType, ZenonT(40)
<1> HIDE DEF t
<1>5. Ids(packets)' = Append(SubSeq(Ids(packets), k + 1, Len(Ids(packets))), cur.id)
  BY <1>1, <1>3, <1>4, IdsAppend
<1>6. Ids(log)' = Append(Ids(log), cur.id)
  BY <1>1, <1>3, IdsAppend
<1>7. cur.id \in 0..MaxFrames
  <2>1. cur # None /\ cur.id \in Nat /\ sent \in 0..MaxFrames
    BY <1>1, CollectorAssumption DEF IInv, TypeOK, Packet
  <2> QED
    BY <2>1, CollectorAssumption DEF IInv, Order, CurOrder
<1>8. k \in 0..Len(Ids(packets))
  BY <1>1, <1>2, IdsType
<1>9. PL!Put(cur.id)
  BY <1>1, <1>5, <1>6, <1>8 DEF PL!Put
<1> QED
  BY <1>7, <1>9 DEF PL!Next

(* _getPackets hands over the oldest packets, once.                        *)
LEMMA FetchHands ==
    ASSUME IInv, GetRest
    PROVE  PL!Next
<1> DEFINE k == Cut(call.number)
<1>1. /\ packets \in Seq(Packet) /\ handed \in Seq(Packet) /\ log' = log
      /\ call \in Call /\ call # None
  BY DEF IInv, TypeOK, GetRest
<1>2. k \in 0..Len(packets)
  BY <1>1, CutBound, CollectorAssumption DEF Call
<1>3. call.list = SubSeq(packets, 1, k)
  BY <1>1 DEF IInv, Fetching
<1>4. packets' = SubSeq(packets, k + 1, Len(packets)) /\ handed' = handed \o call.list
  BY DEF GetRest
<1> HIDE DEF k
<1>5. Ids(packets)' = SubSeq(Ids(packets), k + 1, Len(Ids(packets)))
  <2>1. k + 1 \in 1..(Len(packets) + 1) /\ Len(packets) \in 0..Len(packets)
    BY <1>1, <1>2
  <2>2. Len(Ids(packets)) = Len(packets)
    BY <1>1, IdsType
  <2>3. Ids(SubSeq(packets, k + 1, Len(packets))) = SubSeq(Ids(packets), k + 1, Len(packets))
    BY <1>1, <2>1, IdsSlice
  <2>4. Ids(packets)' = Ids(packets')
    BY DEF Ids
  <2> QED
    BY <1>4, <2>2, <2>3, <2>4
<1>6. Ids(handed)' = Ids(handed) \o SubSeq(Ids(packets), 1, k)
  <2>1. SubSeq(packets, 1, k) \in Seq(Packet) /\ 1 \in 1..(Len(packets) + 1)
    BY <1>1, <1>2
  <2> QED
    BY <1>1, <1>2, <1>3, <1>4, <2>1, IdsConcat, IdsSlice
<1>7. k \in 0..Len(Ids(packets)) /\ Ids(log)' = Ids(log)
  BY <1>1, <1>2, IdsType
<1>8. PL!Hand(k)
  BY <1>5, <1>6, <1>7 DEF PL!Hand
<1> QED
  BY <1>7, <1>8 DEF PL!Next

(* One step of the collector is one step of the log, or invisible to it.   *)
LEMMA LogStep ==
    IInv /\ [Next]_vars => [PL!Next]_<<Ids(log), Ids(packets), Ids(handed)>>
<1> SUFFICES ASSUME IInv, [Next]_vars
             PROVE  PL!Next \/ UNCHANGED <<Ids(log), Ids(packets), Ids(handed)>>
  OBVIOUS
<1>1. CASE AppendPacket
  BY <1>1, AppendPuts
<1>2. CASE GetRest
  BY <1>2, FetchHands
<1>3. ASSUME UNCHANGED <<log, packets, handed>>
      PROVE  UNCHANGED <<Ids(log), Ids(packets), Ids(handed)>>
  BY <1>3
<1> QED
  BY <1>1, <1>2, <1>3
     DEF Next, Firmware, Send, Lose, Reads, Sniffs, LoopTest, ReadTimesOut, Arrives, ReadPdu,
         ReadTimestamp, ReadConnect, ReadDisconnect, Publish, PipeBroken, FindRequest,
         Fetches, GetSlice, RequestExit, vars, list

(* What a program fetches is what was sniffed, in order and once, whatever *)
(* is appended and trimmed meanwhile, for every length of the list and     *)
(* every argument of getPackets (_appendPacket, _getPackets).              *)
THEOREM CollectorImplementsLog == Spec => ImplementsPacketLog
<1>1. Init => PL!Init
  <2>1. Ids(<<>>) = <<>>
    BY DEF Ids
  <2> QED
    BY <2>1 DEF Init, PL!Init
<1>2. IInv /\ [Next]_vars => [PL!Next]_<<Ids(log), Ids(packets), Ids(handed)>>
  BY LogStep
<1> QED
  BY <1>1, <1>2, Invariant, PTL DEF Spec, ImplementsPacketLog, PL!Spec, PL!vars
-----------------------------------------------------------------------------
(* The times                                                               *)

(* Frames follow one another in time: each starts after the one before     *)
(* ended.                                                                  *)
LineTimes ==
    \A i \in 1..Len(line) :
        /\ line[i].start + line[i].len <= age
        /\ \A j \in 1..Len(line) : i < j => line[i].start + line[i].len <= line[j].start

(* The time stamp is asked for and answered once.                          *)
OneAnswer ==
    /\ asked # 0 => lastTime = None
    /\ \A i \in 1..Len(line) : line[i].kind = "resp" =>
        /\ asked = 0 /\ lastTime = None
        /\ \A j \in 1..Len(line) : line[j].kind = "resp" => j = i

(* The frame received last is the last packet, or a later frame.           *)
ReadersAgree ==
    lastPacket # None =>
        /\ lastPacket.id < sent
        /\ \A j \in 1..Len(line) : lastPacket.id < line[j].id
        /\ lastPdu # None =>
            /\ lastPdu.id <= lastPacket.id
            /\ lastPdu.id = lastPacket.id => lastPdu = lastPacket

(* What is true of the packet read last, p: the packet reader remembers it,*)
(* and the time reference belongs to a moment R at p's start or after it.  *)
Dated(p) ==
    /\ p.start + p.len <= age
    /\ \A j \in 1..Len(line) : p.start + p.len <= line[j].start
    /\ lastPdu # None /\ lastPacket # None
    /\ lastPdu.id = p.id /\ lastPdu.start = p.start /\ lastPdu.len = p.len
    /\ lastTime = None => ~p.ref /\ p.time <= age
    /\ lastTime # None => \E R \in Nat :
        /\ lastStamp = R % TimerMax
        /\ p.start <= R /\ R <= age
        /\ \A j \in 1..Len(line) : R <= line[j].start
        /\ p.time <= lastTime
        /\ p.ref => lastTime - R = p.time - p.start

(* Two packets one after the other are dated as TimesTrue says.            *)
PairTrue(p, q) ==
    q.start - p.start < TimerMax =>
        /\ q.time >= p.time
        /\ p.ref => q.time - p.time = q.start - p.start
        /\ q.id = p.id + 1 => q.delta = q.start - (p.start + p.len)

Last == IF pc = "append" THEN cur ELSE IF log # <<>> THEN log[Len(log)] ELSE None

LastDated == Last # None => Dated(Last)
PairInHand == pc = "append" /\ log # <<>> => PairTrue(log[Len(log)], cur)

Clock == LineTimes /\ OneAnswer /\ ReadersAgree /\ LastDated /\ PairInHand

(* A remainder does not change by whole periods.                           *)
LEMMA ModUnique ==
    ASSUME NEW m \in Nat \ {0}, NEW k \in Int, NEW r \in 0..(m - 1)
    PROVE  (m * k + r) % m = r
BY SMTT(20)

(* Two moments less than a period apart: the difference of their remainders*)
(* is theirs, or a period less.                                            *)
LEMMA WrapOnce ==
    ASSUME NEW m \in Nat \ {0}, NEW a \in Nat, NEW b \in Nat, a <= b, b - a < m
    PROVE  \/ b % m < a % m /\ (b % m) - (a % m) = b - a - m
           \/ ~ (b % m < a % m) /\ (b % m) - (a % m) = b - a
<1> DEFINE qa == a \div m
           qb == b \div m
           ra == a % m
           rb == b % m
<1>1. /\ a = m * qa + ra /\ ra \in 0..(m - 1) /\ qa \in Int
      /\ b = m * qb + rb /\ rb \in 0..(m - 1) /\ qb \in Int
  BY SMTT(20)
<1> HIDE DEF qa, qb
<1>2. b - a = m * (qb - qa) + (rb - ra)
  BY <1>1, SMTT(20)
<1>3. qb - qa = 0 \/ qb - qa = 1
  <2>1. ASSUME qb - qa >= 2 PROVE FALSE
    <3>1. m * (qb - qa) >= 2 * m
      BY <1>1, <2>1, SMTT(20)
    <3> QED
      BY <1>1, <1>2, <3>1
  <2>2. ASSUME qb - qa <= -1 PROVE FALSE
    <3>1. m * (qb - qa) <= -m
      BY <1>1, <2>2, SMTT(20)
    <3> QED
      BY <1>1, <1>2, <3>1
  <2> QED
    BY <1>1, <2>1, <2>2
<1>4. CASE qb - qa = 0
  <2>1. m * (qb - qa) = 0
    BY <1>1, <1>4
  <2> QED
    BY <1>1, <1>2, <2>1
<1>5. CASE qb - qa = 1
  <2>1. m * (qb - qa) = m
    BY <1>1, <1>5
  <2> QED
    BY <1>1, <1>2, <2>1
<1> QED
  BY <1>3, <1>4, <1>5

(* The distance of two stamps less than a period apart is that of the      *)
(* moments.                                                                *)
LEMMA DistanceTrue ==
    ASSUME NEW R \in Nat, NEW f \in Frame, lastStamp = R % TimerMax,
           R <= f.start, f.start - R < TimerMax
    PROVE  SinceLast(f) = f.start - R
<1>1. f.start \in Nat /\ TimerMax \in Nat \ {0}
  BY CollectorAssumption DEF Frame
<1>2. Stamp(f) \in Int /\ lastStamp \in Int /\ Stamp(f) = f.start % TimerMax
  BY <1>1, ModBound DEF Stamp
<1>3. \/ f.start % TimerMax < R % TimerMax
         /\ (f.start % TimerMax) - (R % TimerMax) = f.start - R - TimerMax
      \/ ~ (f.start % TimerMax < R % TimerMax)
         /\ (f.start % TimerMax) - (R % TimerMax) = f.start - R
  BY <1>1, WrapOnce, Zenon
<1>4. \/ Stamp(f) < lastStamp /\ Stamp(f) - lastStamp = f.start - R - TimerMax
      \/ ~ (Stamp(f) < lastStamp) /\ Stamp(f) - lastStamp = f.start - R
  BY <1>2, <1>3
<1> QED
  BY <1>1, <1>2, <1>4 DEF SinceLast

(* The pause from the end of one packet to the start of the next is the    *)
(* true one.                                                               *)
LEMMA PauseTrue ==
    ASSUME NEW f \in Frame, lastPdu \in Frame, lastPacket = lastPdu,
           lastPdu.start + lastPdu.len <= f.start, f.start - lastPdu.start < TimerMax,
           lastPdu # None
    PROVE  EndToStart(f) = f.start - (lastPdu.start + lastPdu.len)
<1> DEFINE a == lastPdu.start
           b == f.start
           l == lastPdu.len
           m == TimerMax
           ra == a % m
           rb == b % m
<1>1. a \in Nat /\ b \in Nat /\ l \in Nat /\ m \in Nat \ {0} /\ a <= b /\ b - a < m
  BY CollectorAssumption DEF Frame
<1>2. EndToStart(f) = (rb - (ra + l)) % m
  BY DEF EndToStart, Stamp
<1>3. b - (a + l) \in 0..(m - 1)
  BY <1>1
<1> HIDE DEF a, b, l, m
<1>4. ra \in Int /\ rb \in Int
  BY <1>1, ModBound
<1>8. \/ b % m < a % m /\ (b % m) - (a % m) = b - a - m
      \/ ~ (b % m < a % m) /\ (b % m) - (a % m) = b - a
  BY <1>1, WrapOnce, Zenon
<1>5. rb - ra = b - a \/ rb - ra = b - a - m
  BY <1>8
<1> HIDE DEF ra, rb
<1>6. CASE rb - ra = b - a
  <2>1. rb - (ra + l) = m * 0 + (b - (a + l))
    BY <1>1, <1>4, <1>6
  <2>2. (m * 0 + (b - (a + l))) % m = b - (a + l)
    BY <1>1, <1>3, ModUnique
  <2> QED
    BY <1>2, <2>1, <2>2 DEF a, b, l
<1>7. CASE rb - ra = b - a - m
  <2>1. rb - (ra + l) = m * (-1) + (b - (a + l))
    BY <1>1, <1>4, <1>7
  <2>2. (m * (-1) + (b - (a + l))) % m = b - (a + l)
    BY <1>1, <1>3, ModUnique
  <2> QED
    BY <1>2, <2>1, <2>2 DEF a, b, l
<1> QED
  BY <1>5, <1>6, <1>7

(* Nothing has happened at the start.                                      *)
LEMMA ClockInit == Init => Clock /\ TimesTrue
BY DEF Init, Clock, LineTimes, OneAnswer, ReadersAgree, LastDated, Last, PairInHand, TimesTrue

(* The frames on the line keep their order in time.                        *)
LEMMA LineTimesNext ==
    ASSUME IInv, LineTimes, [Next]_vars
    PROVE  LineTimes'
<1>0. line \in Seq(Frame) /\ age \in Nat /\ Len(line) \in Nat
      /\ \A i \in 1..Len(line) : line[i].start \in Nat /\ line[i].len \in Nat
  <2>1. line \in Seq(Frame) /\ age \in Nat
    BY DEF IInv, TypeOK
  <2>2. \A i \in 1..Len(line) : line[i] \in Frame
    BY <2>1
  <2> QED
    BY <2>1, <2>2, SMTT(40) DEF Frame
<1>1. ASSUME NEW kind \in {"pdu", "connect", "disconnect", "resp"},
             NEW len \in Lengths, NEW idle \in Idles, Send(kind, len, idle)
      PROVE  LineTimes'
  <2> DEFINE air == IF kind = "pdu" THEN len ELSE 0
             f == [kind |-> kind, id |-> sent, start |-> age, len |-> air]
  <2>1. air \in Nat /\ idle \in Nat
    BY CollectorAssumption
  <2>2. line' = Append(line, f) /\ f.start = age /\ f.len = air /\ age' = age + air + idle
    BY <1>1 DEF Send
  <2> HIDE DEF f, air
  <2>3. /\ Len(line') = Len(line) + 1 /\ line'[Len(line) + 1] = f
        /\ \A i \in 1..Len(line) : line'[i] = line[i]
    BY <1>0, <2>2
  <2> SUFFICES ASSUME NEW i \in 1..Len(line')
               PROVE  /\ line'[i].start + line'[i].len <= age'
                      /\ \A j \in 1..Len(line') : i < j =>
                            line'[i].start + line'[i].len <= line'[j].start
    BY DEF LineTimes
  <2>4. CASE i = Len(line) + 1
    BY <1>0, <2>1, <2>2, <2>3, <2>4
  <2>5. CASE i \in 1..Len(line)
    <3>1. line'[i] = line[i] /\ line[i].start + line[i].len <= age
      BY <2>3, <2>5 DEF LineTimes
    <3>2. line'[i].start + line'[i].len <= age'
      BY <1>0, <2>1, <2>2, <2>5, <3>1
    <3>3. ASSUME NEW j \in 1..Len(line'), i < j
          PROVE  line'[i].start + line'[i].len <= line'[j].start
      <4>1. CASE j = Len(line) + 1
        BY <2>2, <2>3, <3>1, <4>1
      <4>2. CASE j \in 1..Len(line)
        BY <2>3, <2>5, <3>1, <3>3, <4>2 DEF LineTimes
      <4> QED
        BY <1>0, <2>3, <4>1, <4>2
    <3> QED
      BY <3>2, <3>3
  <2> QED
    BY <1>0, <2>3, <2>4, <2>5
<1>2. ASSUME line # <<>>, line' = Tail(line), age' = age PROVE LineTimes'
  <2>1. /\ Len(line') = Len(line) - 1
        /\ \A i \in 1..Len(line') : line'[i] = line[i + 1] /\ i + 1 \in 1..Len(line)
    BY <1>0, <1>2
  <2> QED
    BY <1>0, <1>2, <2>1 DEF LineTimes
<1>3. ASSUME UNCHANGED <<line, age>> PROVE LineTimes'
  BY <1>3 DEF LineTimes
<1> QED
  BY <1>1, <1>2, <1>3
     DEF Next, Firmware, Lose, Reads, Sniffs, LoopTest, ReadTimesOut, Arrives, Read, ReadPdu,
         ReadTimestamp, ReadConnect, ReadDisconnect, Publish, PipeBroken, AppendPacket,
         FindRequest, Fetches, GetSlice, GetRest, RequestExit, vars, firmware

(* The question for the time stamp is answered once.                       *)
LEMMA OneAnswerNext ==
    ASSUME IInv, OneAnswer, [Next]_vars
    PROVE  OneAnswer'
<1>0. line \in Seq(Frame) /\ Len(line) \in Nat /\ asked \in 0..1
  BY DEF IInv, TypeOK
<1>1. ASSUME NEW kind \in {"pdu", "connect", "disconnect", "resp"},
             NEW len \in Lengths, NEW idle \in Idles, Send(kind, len, idle)
      PROVE  OneAnswer'
  <2> DEFINE f == [kind |-> kind, id |-> sent, start |-> age,
                   len |-> IF kind = "pdu" THEN len ELSE 0]
  <2>1. /\ line' = Append(line, f) /\ f.kind = kind /\ lastTime' = lastTime
        /\ kind = "resp" => asked > 0
        /\ asked' = IF kind = "resp" THEN asked - 1 ELSE asked
    BY <1>1 DEF Send, clock
  <2> HIDE DEF f
  <2>2. /\ Len(line') = Len(line) + 1 /\ line'[Len(line) + 1] = f
        /\ \A i \in 1..Len(line) : line'[i] = line[i]
    BY <1>0, <2>1
  <2>3. CASE kind = "resp"
    <3>1. asked' = 0 /\ asked # 0 /\ lastTime = None
      BY <1>0, <2>1, <2>3 DEF OneAnswer
    <3>2. \A i \in 1..Len(line) : line[i].kind # "resp"
      BY <3>1 DEF OneAnswer
    <3> QED
      BY <1>0, <2>1, <2>2, <3>1, <3>2 DEF OneAnswer
  <2>4. CASE kind # "resp"
    BY <1>0, <2>1, <2>2, <2>4 DEF OneAnswer
  <2> QED
    BY <2>3, <2>4
<1>2. ASSUME line # <<>>, line' = Tail(line), asked' = asked,
             lastTime' = lastTime \/ lastTime # None \/ line[1].kind = "resp"
      PROVE  OneAnswer'
  <2>1. /\ Len(line') = Len(line) - 1 /\ 1 \in 1..Len(line)
        /\ \A i \in 1..Len(line') : line'[i] = line[i + 1] /\ i + 1 \in 1..Len(line)
    BY <1>0, <1>2
  <2>2. CASE lastTime' = lastTime
    BY <1>0, <1>2, <2>1, <2>2 DEF OneAnswer
  <2>3. CASE lastTime # None
    BY <1>0, <1>2, <2>1, <2>3 DEF OneAnswer
  <2>4. CASE line[1].kind = "resp"
    <3>1. asked = 0 /\ \A j \in 1..Len(line) : line[j].kind = "resp" => j = 1
      BY <2>1, <2>4 DEF OneAnswer
    <3>2. \A i \in 1..Len(line') : line'[i].kind # "resp"
      BY <1>0, <2>1, <3>1
    <3> QED
      BY <1>2, <3>1, <3>2 DEF OneAnswer
  <2> QED
    BY <1>2, <2>2, <2>3, <2>4
<1>3. ASSUME NEW f, ReadPdu(f) PROVE OneAnswer'
  BY <1>2, <1>3 DEF ReadPdu, Read, clock
<1>4. ASSUME NEW f, ReadTimestamp(f) PROVE OneAnswer'
  <2>1. Read(f, "resp")
    BY <1>4 DEF ReadTimestamp
  <2>2. f = line[1] /\ f.kind = "resp"
    BY <2>1, ReadType DEF IInv, Read
  <2> QED
    BY <1>2, <2>1, <2>2 DEF Read
<1>5. ASSUME NEW f, ReadConnect(f) \/ ReadDisconnect(f) PROVE OneAnswer'
  BY <1>2, <1>5 DEF ReadConnect, ReadDisconnect, Read, clock
<1>6. CASE Lose
  BY <1>2, <1>6 DEF Lose, clock
<1>7. ASSUME UNCHANGED <<line, asked, lastTime>> PROVE OneAnswer'
  BY <1>7 DEF OneAnswer
<1> QED
  BY <1>1, <1>3, <1>4, <1>5, <1>6, <1>7
     DEF Next, Firmware, Reads, Sniffs, LoopTest, ReadTimesOut, Arrives, Publish, PipeBroken,
         AppendPacket, FindRequest, Fetches, GetSlice, GetRest, RequestExit, vars,
         firmware, clock

(* The two records of the packet reader stay in step.                      *)
LEMMA ReadersAgreeNext ==
    ASSUME IInv, ReadersAgree, [Next]_vars
    PROVE  ReadersAgree'
<1>0. line \in Seq(Frame) /\ Len(line) \in Nat /\ sent \in Nat
      /\ (lastPacket # None => lastPacket.id \in Nat)
      /\ (lastPdu # None => lastPacket # None /\ lastPdu.id \in Nat)
  BY CollectorAssumption, SMTT(40) DEF IInv, TypeOK, Known, Frame
<1>1. ASSUME NEW kind \in {"pdu", "connect", "disconnect", "resp"},
             NEW len \in Lengths, NEW idle \in Idles, Send(kind, len, idle)
      PROVE  ReadersAgree'
  <2> DEFINE f == [kind |-> kind, id |-> sent, start |-> age,
                   len |-> IF kind = "pdu" THEN len ELSE 0]
  <2>1. /\ line' = Append(line, f) /\ f.id = sent /\ sent' = sent + 1
        /\ UNCHANGED <<lastPacket, lastPdu>>
    BY <1>1 DEF Send, reader
  <2> HIDE DEF f
  <2>2. /\ Len(line') = Len(line) + 1 /\ line'[Len(line) + 1] = f
        /\ \A i \in 1..Len(line) : line'[i] = line[i]
    BY <1>0, <2>1
  <2> QED
    BY <1>0, <2>1, <2>2 DEF ReadersAgree
<1>2. ASSUME NEW f, NEW kind, Read(f, kind) PROVE ReadersAgree'
  <2>1. /\ f = line[1] /\ f \in Frame /\ f.id \in Nat /\ line # <<>> /\ line' = Tail(line)
        /\ sent' = sent
    BY <1>2, ReadType DEF IInv, Frame
  <2>2. f.id < sent /\ \A j \in 1..Len(line') : f.id < line'[j].id
    BY <2>1, TailOrder DEF IInv
  <2>3. lastPacket' = f /\ f # None /\ (lastPdu' = f \/ lastPdu' = lastPdu)
    BY <1>2, <2>1, CollectorAssumption DEF Read
  <2>4. lastPdu # None => lastPdu.id < f.id
    <3>1. 1 \in 1..Len(line)
      BY <1>0, <2>1
    <3> QED
      BY <1>0, <2>1, <3>1 DEF ReadersAgree
  <2> QED
    BY <1>0, <2>1, <2>2, <2>3, <2>4 DEF ReadersAgree
<1>3. CASE Lose
  <2>1. line # <<>> /\ line' = Tail(line) /\ UNCHANGED <<sent, lastPacket, lastPdu>>
    BY <1>3 DEF Lose, reader
  <2>2. \A i \in 1..Len(line') : i + 1 \in 1..Len(line) /\ line'[i] = line[i + 1]
    BY <1>0, <2>1
  <2> QED
    BY <2>1, <2>2 DEF ReadersAgree
<1>4. ASSUME UNCHANGED <<line, sent, lastPacket, lastPdu>> PROVE ReadersAgree'
  BY <1>4 DEF ReadersAgree
<1> QED
  BY <1>1, <1>2, <1>3, <1>4
     DEF Next, Firmware, Reads, Sniffs, LoopTest, ReadTimesOut, Arrives, ReadPdu, ReadTimestamp,
         ReadConnect, ReadDisconnect, Publish, PipeBroken, AppendPacket, FindRequest,
         Fetches, GetSlice, GetRest, RequestExit, vars, firmware, reader

(* A packet that stays the last one read stays dated while the line only   *)
(* loses frames or gains later ones.                                       *)
LEMMA StaysDated ==
    ASSUME IInv, LastDated, Last' = Last, UNCHANGED <<clock, lastPdu>>,
           lastPacket' = lastPacket \/ lastPacket' # None,
           age' \in Nat, age <= age',
           \A j \in 1..Len(line') :
              \/ \E k \in 1..Len(line) : line'[j] = line[k]
              \/ line'[j].start = age
    PROVE  LastDated'
<1> SUFFICES ASSUME Last' # None PROVE Dated(Last)'
  BY DEF LastDated
<1>1. PICK p : p = Last
  OBVIOUS
<1>2. Dated(Last)
  BY DEF LastDated
<1>3. age \in Nat /\ p \in Packet /\ p.start \in Nat /\ p.len \in Nat /\ p.time \in Nat
  <2>1. age \in Nat /\ log \in Seq(Packet) /\ (pc = "append" => cur \in Packet)
    BY DEF IInv, TypeOK
  <2>2. Last \in Packet
    BY <2>1 DEF Last
  <2> QED
    BY <1>1, <2>1, <2>2 DEF Packet
<1>4. /\ p.start + p.len <= age /\ \A j \in 1..Len(line) : p.start + p.len <= line[j].start
      /\ lastPdu # None /\ lastPacket # None
      /\ lastPdu.id = p.id /\ lastPdu.start = p.start /\ lastPdu.len = p.len
      /\ lastTime = None => ~p.ref /\ p.time <= age
  BY <1>1, <1>2 DEF Dated
<1>5. \A j \in 1..Len(line') : p.start + p.len <= line'[j].start
  BY <1>4
<1>6. lastTime = None => p.time <= age'
  BY <1>3, <1>4
<1>7. p.start + p.len <= age'
  BY <1>3, <1>4
<1>8. ASSUME lastTime # None
      PROVE  \E R \in Nat :
                /\ lastStamp = R % TimerMax
                /\ p.start <= R /\ R <= age'
                /\ \A j \in 1..Len(line') : R <= line'[j].start
                /\ p.time <= lastTime
                /\ p.ref => lastTime - R = p.time - p.start
  <2>1. PICK R \in Nat :
                /\ lastStamp = R % TimerMax
                /\ p.start <= R /\ R <= age
                /\ \A j \in 1..Len(line) : R <= line[j].start
                /\ p.time <= lastTime
                /\ p.ref => lastTime - R = p.time - p.start
    BY <1>1, <1>2, <1>8 DEF Dated
  <2>2. R <= age' /\ \A j \in 1..Len(line') : R <= line'[j].start
    BY <1>3, <2>1
  <2> QED
    BY <2>1, <2>2
<1>9. Last' = p /\ lastPdu' = lastPdu /\ lastPacket' # None /\ lastTime' = lastTime
      /\ lastStamp' = lastStamp
  BY <1>1, <1>4 DEF clock
<1> QED
  BY <1>4, <1>5, <1>6, <1>7, <1>8, <1>9 DEF Dated

(* The packet read next is dated against the one before, if there is one.  *)
LEMMA ReadDated ==
    ASSUME IInv, Clock, NEW f, ReadPdu(f)
    PROVE  LastDated' /\ PairInHand'
<1>1. Read(f, "pdu") /\ pc' = "append" /\ log' = log /\ pc = "read"
  BY DEF ReadPdu, Read, list
<1>2. /\ f = line[1] /\ f \in Frame /\ line # <<>> /\ line' = Tail(line) /\ age' = age
      /\ f # None /\ lastPacket' = f /\ lastPdu' = f
  BY <1>1, ReadType, CollectorAssumption DEF IInv, Read
<1>3. /\ line \in Seq(Frame) /\ Len(line) \in Nat /\ 1 \in 1..Len(line) /\ age \in Nat
      /\ f.id \in Nat /\ f.start \in Nat /\ f.len \in Nat
      /\ lastTime # None => lastTime \in Nat
  BY <1>2, SMTT(40) DEF IInv, TypeOK, Frame
<1>4. \A j \in 1..Len(line') : line'[j] = line[j + 1] /\ j + 1 \in 1..Len(line)
  BY <1>2, <1>3
<1>5. /\ f.start + f.len <= age
      /\ \A j \in 1..Len(line') : f.start + f.len <= line'[j].start
  BY <1>2, <1>3, <1>4 DEF Clock, LineTimes
<1>6. /\ cur'.id = f.id /\ cur'.start = f.start /\ cur'.len = f.len
      /\ cur'.delta = EndToStart(f) /\ cur'.ref = (lastTime # None)
      /\ cur'.time = IF lastTime = None THEN age ELSE lastTime + SinceLast(f)
      /\ lastTime = None => UNCHANGED <<lastTime, lastStamp>>
      /\ lastTime # None => lastTime' = lastTime + SinceLast(f) /\ lastStamp' = Stamp(f)
  BY DEF ReadPdu, clock
<1>7. SinceLast(f) \in Nat
  BY <1>2, StampType DEF IInv, TypeOK
<1>8. Last' = cur'
  BY <1>1 DEF Last
<1>9. Dated(cur)'
  <2>1. CASE lastTime = None
    <3>1. ~cur'.ref /\ cur'.time = age /\ lastTime' = None
      BY <1>6, <2>1
    <3>2. cur'.time <= age'
      BY <1>2, <1>3, <3>1
    <3> QED
      BY <1>2, <1>5, <1>6, <3>1, <3>2 DEF Dated
  <2>2. CASE lastTime # None
    <3>1. lastTime' \in Nat /\ lastTime' # None
      BY <1>3, <1>6, <1>7, <2>2, CollectorAssumption
    <3>2. cur'.time = lastTime' /\ lastStamp' = f.start % TimerMax
      BY <1>6, <2>2 DEF Stamp
    <3>3. f.start <= age /\ \A j \in 1..Len(line') : f.start <= line'[j].start
      <4>1. \A j \in 1..Len(line') : line'[j].start \in Nat
        <5>1. \A j \in 1..Len(line) : line[j] \in Frame
          BY <1>3
        <5> QED
          BY <1>4, <5>1 DEF Frame
      <4> QED
        BY <1>3, <1>5, <4>1
    <3>4. lastTime' - f.start = cur'.time - cur'.start /\ cur'.time <= lastTime'
      BY <1>3, <1>6, <3>1, <3>2
    <3> QED
      <4>1. \E R \in Nat :
                /\ lastStamp' = R % TimerMax
                /\ cur'.start <= R /\ R <= age'
                /\ \A j \in 1..Len(line') : R <= line'[j].start
                /\ cur'.time <= lastTime'
                /\ cur'.ref => lastTime' - R = cur'.time - cur'.start
        <5>1. f.start \in Nat /\ cur'.start <= f.start /\ f.start <= age'
          BY <1>2, <1>3, <1>6, <3>3
        <5> QED
          BY <3>2, <3>3, <3>4, <5>1
      <4> QED
        BY <1>2, <1>5, <1>6, <3>1, <4>1 DEF Dated
  <2> QED
    BY <2>1, <2>2
<1>10. ASSUME log # <<>> PROVE PairTrue(log[Len(log)], cur')
  <2> DEFINE p == log[Len(log)]
  <2>1. p \in Packet /\ p # None /\ Last = p
    BY <1>1, <1>10, CollectorAssumption DEF IInv, TypeOK, Last
  <2>2. p.id \in Nat /\ p.start \in Nat /\ p.len \in Nat /\ p.time \in Nat
    BY <2>1 DEF Packet
  <2>3. Dated(p)
    BY <2>1 DEF Clock, LastDated
  <2> HIDE DEF p
  <2>4. p.start + p.len <= f.start
    BY <1>2, <1>3, <2>3 DEF Dated
  <2> SUFFICES ASSUME f.start - p.start < TimerMax
               PROVE  /\ cur'.time >= p.time
                      /\ p.ref => cur'.time - p.time = f.start - p.start
                      /\ f.id = p.id + 1 => cur'.delta = f.start - (p.start + p.len)
    BY <1>6 DEF PairTrue, p
  <2>5. cur'.time >= p.time /\ (p.ref => cur'.time - p.time = f.start - p.start)
    <3>1. CASE lastTime = None
      BY <1>6, <2>3, <3>1 DEF Dated
    <3>2. CASE lastTime # None
      <4>1. PICK R \in Nat :
                /\ lastStamp = R % TimerMax
                /\ p.start <= R
                /\ \A j \in 1..Len(line) : R <= line[j].start
                /\ p.time <= lastTime
                /\ p.ref => lastTime - R = p.time - p.start
        BY <2>3, <3>2 DEF Dated
      <4>2. R <= f.start /\ f.start - R < TimerMax
        <5>1. R <= f.start
          BY <1>2, <1>3, <4>1
        <5>2. R \in Nat /\ f.start \in Nat /\ TimerMax \in Nat
          BY <1>3, CollectorAssumption
        <5>3. p.start <= R /\ f.start - p.start < TimerMax
          BY <4>1
        <5> QED
          BY <2>2, <5>1, <5>2, <5>3
      <4>3. SinceLast(f) = f.start - R
        BY <1>2, <4>1, <4>2, DistanceTrue
      <4> QED
        <5>1. cur'.time = lastTime + (f.start - R) /\ lastTime \in Nat
          BY <1>3, <1>6, <3>2, <4>3
        <5>2. cur'.time >= p.time
          BY <1>3, <2>2, <4>1, <4>2, <5>1
        <5>3. ASSUME p.ref PROVE cur'.time - p.time = f.start - p.start
          <6>1. lastTime - R = p.time - p.start
            BY <4>1, <5>3
          <6>2. R \in Nat /\ f.start \in Nat /\ p.start \in Nat /\ p.time \in Nat
            BY <1>3, <2>2
          <6> QED
            BY <5>1, <6>1, <6>2
        <5> QED
          BY <5>2, <5>3
    <3> QED
      BY <3>1, <3>2
  <2>6. ASSUME f.id = p.id + 1
        PROVE  cur'.delta = f.start - (p.start + p.len)
    <3>1. /\ lastPdu \in Frame /\ lastPdu # None /\ lastPacket # None /\ lastPacket \in Frame
          /\ lastPdu.id = p.id /\ lastPdu.start = p.start /\ lastPdu.len = p.len
      BY <2>3 DEF Dated, IInv, TypeOK
    <3>2. lastPacket.id \in Nat /\ lastPacket.id < f.id /\ p.id <= lastPacket.id
      BY <1>2, <1>3, <3>1 DEF Clock, ReadersAgree, Frame
    <3>3. lastPacket.id = lastPdu.id
      BY <1>3, <2>2, <2>6, <3>1, <3>2
    <3>4. lastPacket = lastPdu
      BY <3>1, <3>3 DEF Clock, ReadersAgree
    <3> QED
      BY <1>2, <1>6, <2>4, <3>1, <3>4, PauseTrue
  <2> QED
    BY <2>5, <2>6
<1> QED
  BY <1>1, <1>8, <1>9, <1>10 DEF LastDated, PairInHand

(* The answer to REQ_TIMESTAMP sets a reference at or after the last       *)
(* packet, whose own time is in the past.                                  *)
LEMMA AnswerDated ==
    ASSUME IInv, Clock, NEW f, ReadTimestamp(f)
    PROVE  LastDated' /\ PairInHand'
<1>1. Read(f, "resp") /\ pc' = "loop" /\ log' = log /\ pc = "read"
  BY DEF ReadTimestamp, Read, list
<1>2. /\ f = line[1] /\ f \in Frame /\ line # <<>> /\ line' = Tail(line) /\ age' = age
      /\ f # None /\ f.kind = "resp" /\ lastPacket' = f /\ lastPdu' = lastPdu
  BY <1>1, ReadType, CollectorAssumption DEF IInv, Read
<1>3. /\ line \in Seq(Frame) /\ Len(line) \in Nat /\ 1 \in 1..Len(line) /\ age \in Nat
      /\ f.start \in Nat /\ f.len \in Nat
      /\ \A j \in 1..Len(line) : line[j].start \in Nat
  <2>1. line \in Seq(Frame) /\ age \in Nat
    BY DEF IInv, TypeOK
  <2>2. \A j \in 1..Len(line) : line[j] \in Frame
    BY <2>1
  <2> QED
    BY <1>2, <2>1, <2>2, SMTT(40) DEF Frame
<1>4. lastTime = None /\ lastTime' = age /\ lastTime' # None /\ lastStamp' = f.start % TimerMax
  BY <1>2, <1>3, CollectorAssumption DEF Clock, OneAnswer, ReadTimestamp, Stamp
<1>5. \A j \in 1..Len(line') : line'[j] = line[j + 1] /\ j + 1 \in 1..Len(line)
  BY <1>2, <1>3
<1>6. /\ f.start <= age /\ \A j \in 1..Len(line') : f.start <= line'[j].start
  <2>1. f.start + f.len <= age /\ \A j \in 1..Len(line') : f.start + f.len <= line'[j].start
    BY <1>2, <1>3, <1>5 DEF Clock, LineTimes
  <2>2. \A j \in 1..Len(line') : line'[j].start \in Nat
    BY <1>3, <1>5
  <2> QED
    BY <1>3, <2>1, <2>2
<1>7. ASSUME log # <<>> PROVE Dated(log[Len(log)])'
  <2>1. PICK p : p = log[Len(log)]
    OBVIOUS
  <2>2. p \in Packet /\ p # None /\ Last = p
    BY <1>1, <1>7, <2>1, CollectorAssumption DEF IInv, TypeOK, Last
  <2>3. p.start \in Nat /\ p.len \in Nat /\ p.time \in Nat
    BY <2>2 DEF Packet
  <2>4. Dated(p)
    BY <2>2 DEF Clock, LastDated
  <2>5. /\ p.start + p.len <= age /\ \A j \in 1..Len(line') : p.start + p.len <= line'[j].start
        /\ ~p.ref /\ p.time <= lastTime'
    BY <1>4, <1>5, <2>4 DEF Dated
  <2>6. p.start <= f.start
    BY <1>2, <1>3, <2>3, <2>4 DEF Dated
  <2>7. lastPdu' # None /\ lastPdu'.id = p.id /\ lastPdu'.start = p.start /\ lastPdu'.len = p.len
    BY <1>2, <2>4 DEF Dated
  <2>8. log'[Len(log')] = p
    BY <1>1, <2>1
  <2> QED
    BY <1>2, <1>3, <1>4, <1>6, <2>5, <2>6, <2>7, <2>8 DEF Dated
<1>8. log # <<>> => Last' = log'[Len(log')]
  BY <1>1 DEF Last
<1>9. log = <<>> => Last' = None
  BY <1>1 DEF Last
<1> QED
  BY <1>1, <1>7, <1>8, <1>9 DEF LastDated, PairInHand

(* Every step keeps the last packet dated, and the packet in hand dated    *)
(* against the one before it.                                              *)
LEMMA DatedNext ==
    ASSUME IInv, Clock, [Next]_vars
    PROVE  LastDated' /\ PairInHand'
<1>0. /\ line \in Seq(Frame) /\ Len(line) \in Nat /\ age \in Nat /\ age' \in Nat
      /\ log \in Seq(Packet) /\ (pc = "append" => cur \in Packet)
  <2>1. TypeOK /\ Known
    BY DEF IInv
  <2>2. TypeOK'
    BY <2>1, TNext DEF TInv
  <2>3. line \in Seq(Frame) /\ age \in Nat /\ log \in Seq(Packet)
    BY <2>1 DEF TypeOK
  <2>4. age' \in Nat
    BY <2>2 DEF TypeOK
  <2>5. pc = "append" => cur \in Packet
    BY <2>1 DEF TypeOK
  <2> QED
    BY <2>3, <2>4, <2>5
<1>1. ASSUME NEW f, ReadPdu(f) PROVE LastDated' /\ PairInHand'
  BY <1>1, ReadDated
<1>2. ASSUME NEW f, ReadTimestamp(f) PROVE LastDated' /\ PairInHand'
  BY <1>2, AnswerDated
<1>3. ASSUME Last' = Last, UNCHANGED <<clock, lastPdu>>,
             lastPacket' = lastPacket \/ lastPacket' # None,
             age <= age',
             \A j \in 1..Len(line') :
                \/ \E k \in 1..Len(line) : line'[j] = line[k]
                \/ line'[j].start = age,
             pc' = "append" => pc = "append" /\ UNCHANGED <<log, cur>>
      PROVE  LastDated' /\ PairInHand'
  <2>1. LastDated'
    BY <1>0, <1>3, StaysDated DEF Clock
  <2>2. PairInHand'
    BY <1>3 DEF Clock, PairInHand, PairTrue
  <2> QED
    BY <2>1, <2>2
<1>4. ASSUME line # <<>>, line' = Tail(line)
      PROVE  \A j \in 1..Len(line') : \E k \in 1..Len(line) : line'[j] = line[k]
  <2>1. \A j \in 1..Len(line') : line'[j] = line[j + 1] /\ j + 1 \in 1..Len(line)
    BY <1>0, <1>4
  <2> QED
    BY <2>1
<1>5. ASSUME NEW kind \in {"pdu", "connect", "disconnect", "resp"},
             NEW len \in Lengths, NEW idle \in Idles, Send(kind, len, idle)
      PROVE  LastDated' /\ PairInHand'
  <2> DEFINE air == IF kind = "pdu" THEN len ELSE 0
             f == [kind |-> kind, id |-> sent, start |-> age, len |-> air]
  <2>1. air \in Nat /\ idle \in Nat
    BY CollectorAssumption
  <2>2. line' = Append(line, f) /\ f.start = age /\ age' = age + air + idle
    BY <1>5 DEF Send
  <2>3. UNCHANGED <<pc, cur, log, clock, lastPdu, lastPacket>>
    BY <1>5 DEF Send, reader, list
  <2> HIDE DEF f, air
  <2>4. /\ Len(line') = Len(line) + 1 /\ line'[Len(line) + 1] = f
        /\ \A i \in 1..Len(line) : line'[i] = line[i]
    BY <1>0, <2>2
  <2>5. \A j \in 1..Len(line') : \/ \E k \in 1..Len(line) : line'[j] = line[k]
                                 \/ line'[j].start = age
    <3> TAKE j \in 1..Len(line')
    <3>1. j \in 1..Len(line) \/ j = Len(line) + 1
      BY <1>0, <2>4
    <3> QED
      BY <2>2, <2>4, <3>1
  <2>6. Last' = Last /\ age <= age'
    BY <1>0, <2>1, <2>2, <2>3 DEF Last
  <2> QED
    BY <1>3, <2>3, <2>5, <2>6
<1>6. CASE Lose
  <2>1. /\ line # <<>> /\ line' = Tail(line) /\ age' = age
        /\ UNCHANGED <<pc, cur, log, clock, lastPdu, lastPacket>>
    BY <1>6 DEF Lose, reader, list
  <2>2. Last' = Last /\ age <= age'
    BY <1>0, <2>1 DEF Last
  <2> QED
    BY <1>3, <1>4, <2>1, <2>2
<1>7. ASSUME NEW f, ReadConnect(f) \/ ReadDisconnect(f) PROVE LastDated' /\ PairInHand'
  <2>1. Read(f, "connect") \/ Read(f, "disconnect")
    BY <1>7 DEF ReadConnect, ReadDisconnect
  <2>2. line # <<>> /\ line' = Tail(line) /\ age' = age /\ lastPacket' # None /\ lastPdu' = lastPdu
    BY <2>1, ReadType, CollectorAssumption DEF IInv, Read
  <2>3. UNCHANGED <<cur, log, clock>> /\ pc = "read" /\ pc' # "append"
    BY <1>7 DEF ReadConnect, ReadDisconnect, Read, list
  <2>4. Last' = Last /\ age <= age'
    BY <1>0, <2>2, <2>3 DEF Last
  <2> QED
    BY <1>3, <1>4, <2>2, <2>3, <2>4
<1>8. ASSUME UNCHANGED <<line, age, clock, lastPdu, lastPacket>>, Last' = Last,
             pc' = "append" => pc = "append" /\ UNCHANGED <<log, cur>>
      PROVE  LastDated' /\ PairInHand'
  <2>1. age <= age' /\ \A j \in 1..Len(line') : \E k \in 1..Len(line) : line'[j] = line[k]
    BY <1>0, <1>8
  <2> QED
    BY <1>3, <1>8, <2>1
<1>9. CASE AppendPacket
  <2>1. /\ pc = "append" /\ pc' = "publish" /\ log' = Append(log, cur)
        /\ UNCHANGED <<line, age, clock, lastPdu, lastPacket>>
    BY <1>9 DEF AppendPacket, firmware, reader
  <2>2. log' # <<>> /\ log'[Len(log')] = cur
    BY <1>0, <2>1
  <2>3. Last' = Last
    BY <2>1, <2>2 DEF Last
  <2> QED
    BY <1>8, <2>1, <2>3
<1>10. CASE \/ LoopTest \/ ReadTimesOut \/ Publish \/ PipeBroken \/ FindRequest \/ GetRest
            \/ RequestExit \/ UNCHANGED vars \/ \E n \in Numbers : GetSlice(n)
  <2>1. /\ UNCHANGED <<line, age, clock, lastPdu, lastPacket, log>>
        /\ \/ pc # "append" /\ pc' # "append"
           \/ UNCHANGED <<pc, cur>>
    BY <1>10 DEF LoopTest, ReadTimesOut, Publish, PipeBroken, FindRequest, GetRest, GetSlice,
                 RequestExit, vars, firmware, reader, list
  <2>2. Last' = Last
    BY <2>1 DEF Last
  <2> QED
    BY <1>8, <2>1, <2>2
<1> QED
  BY <1>1, <1>2, <1>5, <1>6, <1>7, <1>9, <1>10
     DEF Next, Firmware, Reads, Sniffs, Arrives, Fetches

(* Every step keeps the times true: the only packet put into the log is    *)
(* the one in hand.                                                        *)
LEMMA TimesNext ==
    ASSUME IInv, Clock, TimesTrue, [Next]_vars
    PROVE  TimesTrue'
<1>1. CASE AppendPacket
  <2>1. /\ pc = "append" /\ log' = Append(log, cur) /\ log \in Seq(Packet) /\ cur \in Packet
    BY <1>1 DEF AppendPacket, IInv, TypeOK
  <2>2. /\ Len(log') = Len(log) + 1 /\ log'[Len(log) + 1] = cur /\ Len(log) \in Nat
        /\ \A i \in 1..Len(log) : log'[i] = log[i]
    BY <2>1
  <2>3. ASSUME NEW i \in 1..(Len(log') - 1) PROVE PairTrue(log'[i], log'[i + 1])
    <3>1. CASE i = Len(log)
      <4>1. log # <<>>
        BY <2>1, <2>2, <2>3, <3>1
      <4>2. PairTrue(log[Len(log)], cur)
        BY <2>1, <4>1 DEF Clock, PairInHand
      <4>3. log'[i] = log[Len(log)] /\ log'[i + 1] = cur
        BY <2>2, <2>3, <3>1
      <4> QED
        BY <4>2, <4>3
    <3>2. CASE i \in 1..(Len(log) - 1)
      <4>1. PairTrue(log[i], log[i + 1])
        BY <3>2 DEF TimesTrue, PairTrue
      <4>2. log'[i] = log[i] /\ log'[i + 1] = log[i + 1]
        BY <2>2, <3>2
      <4> QED
        BY <4>1, <4>2
    <3> QED
      BY <2>2, <2>3, <3>1, <3>2
  <2> QED
    BY <2>3 DEF TimesTrue, PairTrue
<1>2. ASSUME log' = log PROVE TimesTrue'
  BY <1>2 DEF TimesTrue
<1> QED
  BY <1>1, <1>2
     DEF Next, Firmware, Send, Lose, Reads, Sniffs, LoopTest, ReadTimesOut, Arrives, ReadPdu,
         ReadTimestamp, ReadConnect, ReadDisconnect, Publish, PipeBroken, FindRequest,
         Fetches, GetSlice, GetRest, RequestExit, vars, list

(* The times written to Wireshark are true for every period of the time    *)
(* stamp, every air time, every pause and every loss of frames             *)
(* (_processBLEPacket, convertPacketListProtoVer2).                        *)
THEOREM TimesCorrect == Spec => []TimesTrue
<1>1. IInv /\ Clock /\ TimesTrue /\ [Next]_vars => Clock' /\ TimesTrue'
  BY LineTimesNext, OneAnswerNext, ReadersAgreeNext, DatedNext, TimesNext DEF Clock
<1> QED
  BY ClockInit, <1>1, Invariant, PTL DEF Spec
=============================================================================
