-------------------------- MODULE UartQueue_proofs --------------------------
(***************************************************************************)
(* What holds of the UART read queue for every number of bytes and every   *)
(* chunk size: types, byte order, no lost wake-up, close after the worker, *)
(* and the implementation of the abstract byte channel.                    *)
(***************************************************************************)
EXTENDS UartQueue, TLAPS

(* The worker holds bytes only between its read and its extend.            *)
BufferEmpty == wpc # "extend" => wbuf = <<>>

(* It never holds more than one read returned.                             *)
BufferBound == Len(wbuf) <= MaxChunk

(* From the join on, the worker is no more.                                *)
Joined == cpc \in {"joined", "closed"} => wpc = "done"

IInv ==
    /\ TypeOK
    /\ BytesInOrder
    /\ BufferEmpty
    /\ BufferBound
    /\ NoLostWakeup
    /\ Joined
    /\ ClosedAfterWorker

-----------------------------------------------------------------------------
(* The types are kept by every step.                                       *)
LEMMA TypeStep == TypeOK /\ [Next]_vars => TypeOK'
<1> SUFFICES ASSUME TypeOK, [Next]_vars PROVE TypeOK'
  OBVIOUS
<1> USE BoundsAssumption
<1>1. CASE UNCHANGED vars
  BY <1>1 DEF TypeOK, vars, worker, consumer, port
<1>2. CASE WorkerStart
  BY <1>2 DEF WorkerStart, TypeOK, consumer, port
<1>3. CASE WorkerCheck
  BY <1>3 DEF WorkerCheck, TypeOK, consumer, port
<1>4. CASE WorkerReadCancelled
  <2>1. <<>> \in Seq(Nat)
    OBVIOUS
  <2> QED
    BY <1>4, <2>1, ZenonT(40) DEF WorkerReadCancelled, TypeOK, consumer
<1>5. CASE WorkerRead
  BY <1>5 DEF WorkerRead, TypeOK, consumer, port
<1>6. CASE WorkerFails
  <2>1. reading' \in BOOLEAN
    BY <1>6, Zenon DEF WorkerFails, TypeOK
  <2>2. wpc' = "done"
    BY <1>6, Zenon DEF WorkerFails
  <2>3. UNCHANGED <<read_queue, has_data, wbuf, sent, gpc, got, ret, cpc, ser, cancelled, plugged>>
    BY <1>6, Zenon DEF WorkerFails, consumer, port
  <2> QED
    BY <2>1, <2>2, <2>3 DEF TypeOK
<1>7. CASE WorkerExtend
  BY <1>7 DEF WorkerExtend, TypeOK, consumer, port
<1>8. CASE WorkerSet
  BY <1>8 DEF WorkerSet, TypeOK, consumer, port
<1>9. CASE Call
  BY <1>9 DEF Call, TypeOK, worker, port
<1>10. CASE Leave
  BY <1>10 DEF Leave, TypeOK, worker, port
<1>11. CASE Wake
  BY <1>11 DEF Wake, TypeOK, worker, port
<1>12. CASE Timeout
  BY <1>12 DEF Timeout, TypeOK, worker, port
<1>13. CASE Clear
  BY <1>13, ZenonT(40) DEF Clear, TypeOK, worker, port
<1>14. CASE Pop
  BY <1>14 DEF Pop, TypeOK, worker, port
<1>15. CASE PopEmpty
  BY <1>15 DEF PopEmpty, TypeOK, worker, port
<1>16. CASE CheckLeft
  BY <1>16 DEF CheckLeft, TypeOK, worker, port
<1>17. CASE Reset
  BY <1>17 DEF Reset, TypeOK, worker, port
<1>18. CASE CloseStop
  BY <1>18, ZenonT(40) DEF CloseStop, TypeOK, worker, consumer, port
<1>19. CASE CloseWake
  BY <1>19 DEF CloseWake, TypeOK, worker, consumer, port
<1>20. CASE CloseCancel
  BY <1>20 DEF CloseCancel, TypeOK, worker, consumer, port
<1>21. CASE CloseJoin
  BY <1>21 DEF CloseJoin, TypeOK, worker, consumer, port
<1>22. CASE ClosePort
  BY <1>22 DEF ClosePort, TypeOK, worker, consumer, port
<1>23. CASE RequestExit
  BY <1>23 DEF RequestExit, TypeOK, worker, consumer, port
<1>24. CASE Unplug
  <2>1. plugged' \in BOOLEAN
    BY <1>24, Zenon DEF Unplug
  <2>2. UNCHANGED <<read_queue, has_data, reading, wpc, wbuf, sent, gpc, got, ret, cpc, ser, cancelled>>
    BY <1>24, Zenon DEF Unplug, worker, consumer
  <2> QED
    BY <2>1, <2>2 DEF TypeOK
<1>25. CASE WriteFails
  BY <1>25 DEF WriteFails, TypeOK, worker, consumer, port
<1> QED
  BY <1>1, <1>2, <1>3, <1>4, <1>5, <1>6, <1>7, <1>8, <1>9, <1>10, <1>11,
     <1>12, <1>13, <1>14, <1>15, <1>16, <1>17, <1>18, <1>19, <1>20, <1>21,
     <1>22, <1>23, <1>24, <1>25 DEF Next, Worker, Consumer, Closer
-----------------------------------------------------------------------------
(* Byte order survives every step: the worker appends consecutive numbers, *)
(* the consumer takes from the front, nobody else touches a byte.          *)
LEMMA OrderStep ==
    TypeOK /\ BytesInOrder /\ BufferEmpty /\ [Next]_vars
        => BytesInOrder' /\ BufferEmpty'
<1> SUFFICES ASSUME TypeOK, BytesInOrder, BufferEmpty, [Next]_vars
             PROVE  BytesInOrder' /\ BufferEmpty'
  OBVIOUS
<1> USE BoundsAssumption
<1>1. CASE WorkerReadCancelled
  <2>1. wbuf = <<>> /\ wbuf' = <<>>
    BY <1>1 DEF WorkerReadCancelled, BufferEmpty
  <2>2. UNCHANGED <<read_queue, got, sent>> /\ wpc' = "extend"
    BY <1>1 DEF WorkerReadCancelled, consumer
  <2> QED
    BY <2>1, <2>2 DEF BytesInOrder, BufferEmpty
<1>2. CASE WorkerRead
  <2>1. PICK n \in 1..MaxChunk : wbuf' = [i \in 1..n |-> sent + i] /\ sent' = sent + n
    BY <1>2 DEF WorkerRead
  <2>2. UNCHANGED <<read_queue, got>> /\ wpc' = "extend" /\ wbuf = <<>>
    BY <1>2 DEF WorkerRead, consumer, BufferEmpty
  <2>3. Len(wbuf) = 0
    BY <2>2
  <2>4. Len(wbuf') = n /\ \A i \in 1..n : wbuf'[i] = sent + i
    BY <2>1
  <2>5. sent = Len(got) + Len(read_queue)
    BY <2>3 DEF BytesInOrder, TypeOK
  <2> QED
    BY <2>1, <2>2, <2>4, <2>5 DEF BytesInOrder, BufferEmpty, TypeOK
<1>3. CASE WorkerExtend
  <2>1. /\ read_queue' = read_queue \o wbuf /\ wbuf' = <<>>
        /\ UNCHANGED <<got, sent>>
    BY <1>3 DEF WorkerExtend, consumer
  <2>2. /\ Len(read_queue') = Len(read_queue) + Len(wbuf)
        /\ \A i \in 1..Len(read_queue') :
              read_queue'[i] = IF i <= Len(read_queue) THEN read_queue[i]
                                                       ELSE wbuf[i - Len(read_queue)]
    BY <2>1 DEF TypeOK
  <2>3. Len(wbuf') = 0
    BY <2>1
  <2>4. \A i \in 1..Len(read_queue') : read_queue'[i] = Len(got) + i
    <3> SUFFICES ASSUME NEW i \in 1..Len(read_queue') PROVE read_queue'[i] = Len(got) + i
      OBVIOUS
    <3>1. Len(read_queue) \in Nat /\ Len(wbuf) \in Nat /\ Len(got) \in Nat
      BY DEF TypeOK
    <3>2. CASE i <= Len(read_queue)
      BY <3>1, <3>2, <2>2 DEF BytesInOrder
    <3>3. CASE i > Len(read_queue)
      <4>1. i - Len(read_queue) \in 1..Len(wbuf)
        BY <3>1, <3>3, <2>2
      <4>2. read_queue'[i] = wbuf[i - Len(read_queue)]
        BY <3>1, <3>3, <2>2
      <4> QED
        BY <4>1, <4>2, <3>1 DEF BytesInOrder
    <3> QED
      BY <3>1, <3>2, <3>3
  <2>5. BytesInOrder'
    <3>1. Len(got) \in Nat /\ Len(read_queue) \in Nat /\ Len(wbuf) \in Nat
      BY DEF TypeOK
    <3> QED
      BY <2>1, <2>2, <2>3, <2>4, <3>1 DEF BytesInOrder
  <2> QED
    BY <2>1, <2>5 DEF BufferEmpty
<1>4. CASE Pop
  <2>1. /\ read_queue # <<>> /\ read_queue' = Tail(read_queue)
        /\ got' = Append(got, Head(read_queue))
        /\ UNCHANGED <<wbuf, sent, wpc>>
    BY <1>4 DEF Pop, worker
  <2>2. /\ Len(read_queue) >= 1 /\ Len(read_queue') = Len(read_queue) - 1
        /\ \A i \in 1..Len(read_queue') : read_queue'[i] = read_queue[i + 1]
        /\ Len(got') = Len(got) + 1
        /\ \A i \in 1..Len(got) : got'[i] = got[i]
        /\ got'[Len(got) + 1] = read_queue[1]
    BY <2>1 DEF TypeOK
  <2>3. Len(got) \in Nat /\ Len(read_queue) \in Nat /\ Len(wbuf) \in Nat
    BY DEF TypeOK
  <2>4. ASSUME NEW i \in 1..Len(got') PROVE got'[i] = i
    <3>1. read_queue[1] = Len(got) + 1
      BY <2>2, <2>3 DEF BytesInOrder
    <3>2. i \in 1..Len(got) \/ i = Len(got) + 1
      BY <2>2, <2>3
    <3> QED
      BY <2>2, <3>1, <3>2 DEF BytesInOrder
  <2>5. ASSUME NEW i \in 1..Len(read_queue') PROVE read_queue'[i] = Len(got') + i
    <3>1. i + 1 \in 1..Len(read_queue)
      BY <2>2, <2>3
    <3>2. read_queue[i + 1] = Len(got) + (i + 1)
      BY <3>1 DEF BytesInOrder
    <3> QED
      BY <3>2, <2>2, <2>3
  <2>6. BytesInOrder'
    BY <2>1, <2>2, <2>3, <2>4, <2>5 DEF BytesInOrder
  <2> QED
    BY <2>1, <2>6 DEF BufferEmpty
<1>5. CASE /\ UNCHANGED <<read_queue, got, wbuf, sent>>
           /\ wbuf # <<>> => wpc' = wpc
  BY <1>5 DEF BytesInOrder, BufferEmpty
<1>6. CASE UNCHANGED vars \/ Call \/ Leave \/ Wake \/ Timeout \/ Clear \/ PopEmpty \/ CheckLeft \/ Reset
  BY <1>5, <1>6 DEF vars, Call, Leave, Wake, Timeout, Clear, PopEmpty, CheckLeft, Reset,
     worker, consumer
<1>7. CASE Closer \/ RequestExit \/ Unplug \/ WriteFails
  BY <1>5, <1>7 DEF Closer, CloseStop, CloseWake, CloseCancel, CloseJoin, ClosePort,
     RequestExit, Unplug, WriteFails, worker, consumer
<1>8. CASE WorkerStart \/ WorkerCheck \/ WorkerFails \/ WorkerSet
  BY <1>5, <1>8 DEF WorkerStart, WorkerCheck, WorkerFails, WorkerSet, consumer, BufferEmpty
<1> QED
  BY <1>1, <1>2, <1>3, <1>4, <1>6, <1>7, <1>8 DEF Next, Worker, Consumer

(* Only a read fills the worker's buffer, with at most MaxChunk bytes.     *)
LEMMA BoundStep == TypeOK /\ BufferBound /\ [Next]_vars => BufferBound'
<1> SUFFICES ASSUME TypeOK, BufferBound, [Next]_vars PROVE BufferBound'
  OBVIOUS
<1> USE BoundsAssumption
<1>1. CASE WorkerRead
  <2>1. PICK n \in 1..MaxChunk : wbuf' = [i \in 1..n |-> sent + i]
    BY <1>1 DEF WorkerRead
  <2>2. Len(wbuf') = n
    BY <2>1
  <2> QED
    BY <2>2 DEF BufferBound
<1>2. CASE WorkerReadCancelled \/ WorkerExtend
  <2>1. wbuf' = <<>>
    BY <1>2 DEF WorkerReadCancelled, WorkerExtend
  <2>2. Len(wbuf') = 0
    BY <2>1
  <2> QED
    BY <2>2 DEF BufferBound
<1>3. CASE UNCHANGED wbuf
  BY <1>3 DEF BufferBound
<1>4. CASE WorkerStart \/ WorkerCheck \/ WorkerFails \/ WorkerSet
  BY <1>3, <1>4 DEF WorkerStart, WorkerCheck, WorkerFails, WorkerSet
<1>5. CASE Consumer \/ UNCHANGED vars
  BY <1>3, <1>5 DEF Consumer, Call, Leave, Wake, Timeout, Clear, Pop, PopEmpty, CheckLeft,
     Reset, vars, worker
<1>6. CASE Closer \/ RequestExit \/ Unplug \/ WriteFails
  BY <1>3, <1>6 DEF Closer, CloseStop, CloseWake, CloseCancel, CloseJoin, ClosePort,
     RequestExit, Unplug, WriteFails, worker
<1> QED
  BY <1>1, <1>2, <1>4, <1>5, <1>6 DEF Next, Worker

-----------------------------------------------------------------------------
(* A byte in the deque always has someone who will look at it: only the    *)
(* steps on the deque, on the event and on the two program counters        *)
(* matter.                                                                 *)
LEMMA WakeupStep ==
    TypeOK /\ NoLostWakeup /\ [Next]_vars => NoLostWakeup'
<1> SUFFICES ASSUME TypeOK, NoLostWakeup, [Next]_vars PROVE NoLostWakeup'
  OBVIOUS
<1>1. CASE WorkerStart \/ WorkerCheck \/ WorkerReadCancelled \/ WorkerRead \/ WorkerFails
  BY <1>1 DEF WorkerStart, WorkerCheck, WorkerReadCancelled, WorkerRead, WorkerFails,
     NoLostWakeup, consumer
<1>2. CASE WorkerExtend
  <2>1. CASE wbuf = <<>>
    <3>1. read_queue' = read_queue
      BY <1>2, <2>1 DEF WorkerExtend, TypeOK
    <3> QED
      BY <1>2, <3>1 DEF WorkerExtend, NoLostWakeup, consumer
  <2>2. CASE wbuf # <<>>
    BY <1>2, <2>2 DEF WorkerExtend, NoLostWakeup
  <2> QED
    BY <2>1, <2>2
<1>3. CASE WorkerSet
  BY <1>3 DEF WorkerSet, NoLostWakeup
<1>4. CASE Call \/ Leave \/ Wake \/ Timeout \/ Clear
  BY <1>4 DEF Call, Leave, Wake, Timeout, Clear, NoLostWakeup, worker
<1>5. CASE Pop \/ PopEmpty
  BY <1>5 DEF Pop, PopEmpty, NoLostWakeup, worker
<1>6. CASE CheckLeft
  <2>1. Len(read_queue) > 0 \/ read_queue = <<>>
    BY DEF TypeOK
  <2> QED
    BY <1>6, <2>1 DEF CheckLeft, NoLostWakeup, worker
<1>7. CASE Reset
  BY <1>7 DEF Reset, NoLostWakeup
<1>8. CASE Closer \/ RequestExit \/ Unplug \/ WriteFails
  BY <1>8 DEF Closer, CloseStop, CloseWake, CloseCancel, CloseJoin, ClosePort,
     RequestExit, Unplug, WriteFails, NoLostWakeup, worker, consumer
<1>9. CASE UNCHANGED vars
  BY <1>9 DEF vars, NoLostWakeup, worker, consumer
<1> QED
  BY <1>1, <1>2, <1>3, <1>4, <1>5, <1>6, <1>7, <1>8, <1>9 DEF Next, Worker, Consumer

(* The worker's end is final, and close() waits for it.                    *)
LEMMA CloseStep ==
    TypeOK /\ Joined /\ ClosedAfterWorker /\ [Next]_vars
        => Joined' /\ ClosedAfterWorker'
<1> SUFFICES ASSUME TypeOK, Joined, ClosedAfterWorker, [Next]_vars
             PROVE  Joined' /\ ClosedAfterWorker'
  OBVIOUS
<1>1. CASE Worker
  <2>1. wpc # "done" /\ UNCHANGED <<cpc, ser, plugged>>
    BY <1>1 DEF Worker, WorkerStart, WorkerCheck, WorkerReadCancelled, WorkerRead,
       WorkerFails, WorkerExtend, WorkerSet, port
  <2> QED
    BY <2>1 DEF Joined, ClosedAfterWorker
<1>2. CASE Consumer \/ UNCHANGED vars
  <2>1. UNCHANGED <<wpc, cpc, ser, plugged>>
    BY <1>2 DEF Consumer, Call, Leave, Wake, Timeout, Clear, Pop, PopEmpty, CheckLeft,
       Reset, vars, worker, port
  <2> QED
    BY <2>1 DEF Joined, ClosedAfterWorker
<1>3. CASE RequestExit \/ CloseStop \/ CloseWake \/ CloseCancel
  <2>1. UNCHANGED <<wpc, ser, plugged>> /\ cpc' \notin {"joined", "closed"}
    BY <1>3 DEF RequestExit, CloseStop, CloseWake, CloseCancel, worker, port
  <2> QED
    BY <2>1 DEF Joined, ClosedAfterWorker
<1>4. CASE CloseJoin
  BY <1>4 DEF CloseJoin, Joined, ClosedAfterWorker, worker, port
<1>5. CASE ClosePort
  BY <1>5 DEF ClosePort, Joined, ClosedAfterWorker, worker
<1>6. CASE Unplug \/ WriteFails
  BY <1>6 DEF Unplug, WriteFails, Joined, ClosedAfterWorker, worker
<1> QED
  BY <1>1, <1>2, <1>3, <1>4, <1>5, <1>6 DEF Next, Closer

(* A Uart just built, its worker not yet scheduled, satisfies the invariant. *)
LEMMA Initially == Init => IInv
<1> SUFFICES ASSUME Init PROVE IInv
  OBVIOUS
<1>1. <<>> \in Seq(Nat) /\ Len(<<>>) = 0
  OBVIOUS
<1>2. TypeOK
  BY <1>1 DEF Init, TypeOK
<1>3. BytesInOrder
  BY <1>1 DEF Init, BytesInOrder
<1>4. BufferEmpty /\ BufferBound /\ NoLostWakeup /\ Joined /\ ClosedAfterWorker
  BY <1>1, BoundsAssumption
     DEF Init, BufferEmpty, BufferBound, NoLostWakeup, Joined, ClosedAfterWorker
<1> QED
  BY <1>2, <1>3, <1>4 DEF IInv

(* The inductive invariant of worker, consumer and close()                 *)
(* (UART.py 136-213).                                                      *)
THEOREM Inductive == Spec => []IInv
<1>1. Init => IInv
  BY Initially
<1>2. IInv /\ [Next]_vars => IInv'
  BY TypeStep, OrderStep, BoundStep, WakeupStep, CloseStep DEF IInv
<1> QED
  BY <1>1, <1>2, PTL DEF Spec

(* Type correctness of the read queue (UART.py 136-213).                   *)
THEOREM TypeCorrect == Spec => []TypeOK
<1>1. IInv => TypeOK
  BY DEF IInv
<1> QED
  BY Inductive, <1>1, PTL

(* No byte is lost, repeated or reordered between the port and the decoder,*)
(* whatever the interleaving of worker, consumer and close().              *)
THEOREM OrderCorrect == Spec => []BytesInOrder
<1>1. IInv => BytesInOrder
  BY DEF IInv
<1> QED
  BY Inductive, <1>1, PTL

(* The event protocol of UART.py 197-213 never leaves a byte in the deque  *)
(* under a lowered event that nobody is going to raise.                    *)
THEOREM WakeupCorrect == Spec => []NoLostWakeup
<1>1. IInv => NoLostWakeup
  BY DEF IInv
<1> QED
  BY Inductive, <1>1, PTL

(* close() never closes a port that its live worker still reads            *)
(* (UART.py 159-175).                                                      *)
THEOREM CloseCorrect == Spec => []ClosedAfterWorker
<1>1. IInv => ClosedAfterWorker
  BY DEF IInv
<1> QED
  BY Inductive, <1>1, PTL

-----------------------------------------------------------------------------
(* One step of the queue is one step of the channel, or invisible to it.   *)
LEMMA ChannelStep ==
    IInv /\ [Next]_vars => [Channel!Next]_<<read_queue, got>>
<1> SUFFICES ASSUME IInv, [Next]_vars
             PROVE  Channel!Next \/ UNCHANGED <<read_queue, got>>
  OBVIOUS
<1>1. CASE WorkerExtend
  <2> DEFINE n == Len(wbuf)
  <2>1. read_queue' = read_queue \o wbuf /\ got' = got
    BY <1>1 DEF WorkerExtend, consumer
  <2>2. CASE wbuf = <<>>
    BY <2>1, <2>2 DEF IInv, TypeOK
  <2>3. CASE wbuf # <<>>
    <3>1. wbuf = [i \in 1..n |-> Len(got) + Len(read_queue) + i]
      BY DEF IInv, TypeOK, BytesInOrder
    <3>2. n \in 1..MaxChunk
      BY <2>3, BoundsAssumption DEF IInv, TypeOK, BufferBound
    <3>3. Channel!Deliver
      BY <2>1, <3>1, <3>2 DEF Channel!Deliver
    <3> QED
      BY <3>3 DEF Channel!Next
  <2> QED
    BY <2>2, <2>3
<1>2. CASE Pop
  BY <1>2 DEF Pop, Channel!Take, Channel!Next
<1>3. CASE WorkerStart \/ WorkerCheck \/ WorkerReadCancelled \/ WorkerRead \/ WorkerFails \/ WorkerSet
  BY <1>3 DEF WorkerStart, WorkerCheck, WorkerReadCancelled, WorkerRead, WorkerFails,
     WorkerSet, consumer
<1>4. CASE Call \/ Leave \/ Wake \/ Timeout \/ Clear \/ PopEmpty \/ CheckLeft \/ Reset
  BY <1>4 DEF Call, Leave, Wake, Timeout, Clear, PopEmpty, CheckLeft, Reset
<1>5. CASE Closer \/ RequestExit \/ Unplug \/ WriteFails
  BY <1>5 DEF Closer, CloseStop, CloseWake, CloseCancel, CloseJoin, ClosePort,
     RequestExit, Unplug, WriteFails, consumer
<1>6. CASE UNCHANGED vars
  BY <1>6 DEF vars, consumer
<1> QED
  BY <1>1, <1>2, <1>3, <1>4, <1>5, <1>6 DEF Next, Worker, Consumer
(* The read queue implements the byte channel: every behaviour of worker,  *)
(* consumer, close() and a lost device looks to the decoder like a FIFO    *)
(* channel (UART.py 146-213).                                              *)
THEOREM QueueImplementsChannel == Spec => ImplementsByteChannel
<1>1. Init => Channel!Init
  BY DEF Init, Channel!Init
<1>2. IInv /\ [Next]_vars => [Channel!Next]_<<read_queue, got>>
  BY ChannelStep
<1> QED
  BY <1>1, <1>2, Inductive, PTL DEF Spec, ImplementsByteChannel, Channel!Spec
=============================================================================
