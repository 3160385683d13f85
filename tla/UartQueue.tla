----------------------------- MODULE UartQueue -----------------------------
(***************************************************************************)
(* The read side of SnifferAPI/UART.py: a worker thread moves bytes from   *)
(* the serial port into read_queue and raises the event                    *)
(* read_queue_has_data; one consumer (the thread that decodes packets)     *)
(* waits for the event, clears it, pops one byte, and raises the event     *)
(* again if bytes are left; a third thread closes the port.  The deque and *)
(* the event are two objects with no common lock, so every line is a step. *)
(*                                                                         *)
(* The i-th byte the worker reads from the port is the number i.           *)
(***************************************************************************)
EXTENDS Integers, Sequences

CONSTANTS
    NBytes,     \* bound: bytes the sniffer sends in a behaviour
    MaxChunk    \* bound: bytes one ser.read() returns

ASSUME BoundsAssumption == NBytes \in Nat /\ MaxChunk \in Nat \ {0}

VARIABLES
    read_queue, \* the deque
    has_data,   \* the event read_queue_has_data
    reading,    \* the flag the worker loop tests
    wpc,        \* worker: where it is
    wbuf,       \* worker: data_read, not yet in the deque
    sent,       \* bytes the worker has read from the port
    gpc,        \* consumer: where it is in _read_queue_get
    got,        \* bytes returned to the consumer's caller, in order
    ret,        \* what the last _read_queue_get returned, and why
    cpc,        \* closing thread: where it is
    ser,        \* the Serial object: "open" or "closed"
    cancelled,  \* cancel_read() called, not yet seen by a read
    plugged     \* the device is on the bus

worker   == <<wpc, wbuf, sent>>
consumer == <<gpc, got, ret>>
port     == <<ser, cancelled, plugged>>
vars     == <<read_queue, has_data, reading, worker, consumer, cpc, port>>

TypeOK ==
    /\ read_queue \in Seq(Nat)
    /\ has_data \in BOOLEAN
    /\ reading \in BOOLEAN
    /\ wpc \in {"start", "loop", "read", "extend", "set", "done"}
    /\ wbuf \in Seq(Nat)
    /\ sent \in Nat
    /\ gpc \in {"idle", "wait", "clear", "pop", "check", "reset", "exited"}
    /\ got \in Seq(Nat)
    /\ ret \in {"none", "byte", "timeout", "empty"}
    /\ cpc \in {"open", "exiting", "stopped", "woken", "cancelled", "joined", "closed"}
    /\ ser \in {"open", "closed"}
    /\ cancelled \in BOOLEAN
    /\ plugged \in BOOLEAN

Init ==
    /\ read_queue = <<>>
    /\ has_data = FALSE
    /\ reading = TRUE
    /\ wpc = "start"
    /\ wbuf = <<>>
    /\ sent = 0
    /\ gpc = "idle"
    /\ got = <<>>
    /\ ret = "none"
    /\ cpc = "open"
    /\ ser = "open"
    /\ cancelled = FALSE
    /\ plugged = TRUE

Usable == ser = "open" /\ plugged

Exiting == cpc # "open"

-----------------------------------------------------------------------------
(* The worker thread, _read_worker.                                        *)

(* reset_input_buffer() is outside the try: a failure ends the thread.     *)
WorkerStart ==
    /\ wpc = "start"
    /\ wpc' = IF Usable THEN "loop" ELSE "done"
    /\ UNCHANGED <<read_queue, has_data, reading, wbuf, sent, consumer, cpc, port>>

WorkerCheck ==
    /\ wpc = "loop"
    /\ wpc' = IF reading THEN "read" ELSE "done"
    /\ UNCHANGED <<read_queue, has_data, reading, wbuf, sent, consumer, cpc, port>>

(* A cancelled read returns no bytes and consumes the cancellation.        *)
WorkerReadCancelled ==
    /\ wpc = "read" /\ Usable /\ cancelled
    /\ cancelled' = FALSE
    /\ wbuf' = <<>>
    /\ wpc' = "extend"
    /\ UNCHANGED <<read_queue, has_data, reading, sent, consumer, cpc, ser, plugged>>

WorkerRead ==
    /\ wpc = "read" /\ Usable /\ ~cancelled
    /\ \E n \in 1..MaxChunk :
        /\ sent + n <= NBytes
        /\ wbuf' = [i \in 1..n |-> sent + i]
        /\ sent' = sent + n
    /\ wpc' = "extend"
    /\ UNCHANGED <<read_queue, has_data, reading, consumer, cpc, port>>

(* Mutated form: the failed worker stays in a state of its own.            *)
WorkerFailsUntyped ==
    /\ wpc = "read" /\ ~Usable
    /\ wpc' = "failed"
    /\ UNCHANGED <<read_queue, has_data, reading, wbuf, sent, consumer, cpc, port>>

(* SerialException clears reading; any other exception (in_waiting raises  *)
(* OSError on a lost device) ends the thread with reading still true.      *)
WorkerFails ==
    /\ wpc = "read" /\ ~Usable
    /\ reading' = FALSE \/ reading' = reading
    /\ wpc' = "done"
    /\ UNCHANGED <<read_queue, has_data, wbuf, sent, consumer, cpc, port>>

(* Mutated form: the bytes of an earlier read are overwritten.             *)
WorkerExtendReplaces ==
    /\ wpc = "extend"
    /\ read_queue' = IF wbuf = <<>> THEN read_queue ELSE wbuf
    /\ wbuf' = <<>>
    /\ wpc' = IF wbuf = <<>> THEN "loop" ELSE "set"
    /\ UNCHANGED <<has_data, reading, sent, consumer, cpc, port>>

(* _read_queue_extend: first the bytes, then the event.                    *)
WorkerExtend ==
    /\ wpc = "extend"
    /\ read_queue' = read_queue \o wbuf
    /\ wbuf' = <<>>
    /\ wpc' = IF wbuf = <<>> THEN "loop" ELSE "set"
    /\ UNCHANGED <<has_data, reading, sent, consumer, cpc, port>>

WorkerSet ==
    /\ wpc = "set"
    /\ has_data' = TRUE
    /\ wpc' = "loop"
    /\ UNCHANGED <<read_queue, reading, wbuf, sent, consumer, cpc, port>>

Worker ==
    \/ WorkerStart \/ WorkerCheck \/ WorkerReadCancelled \/ WorkerRead
    \/ WorkerFails \/ WorkerExtend \/ WorkerSet
-----------------------------------------------------------------------------
(* The consumer, _read_queue_get.  Every caller in Packet.py passes a      *)
(* timeout, and calls again for the next byte until it leaves its loop.    *)

(* After an unsuccessful read the collector loop looks at its exit flag,   *)
(* so it calls again only if no exit was requested.                        *)
Call ==
    /\ gpc = "idle"
    /\ ~(Exiting /\ ret \in {"timeout", "empty"})
    /\ gpc' = "wait"
    /\ UNCHANGED <<read_queue, has_data, reading, worker, got, ret, cpc, port>>

Leave ==
    /\ gpc = "idle" /\ Exiting
    /\ gpc' = "exited"
    /\ UNCHANGED <<read_queue, has_data, reading, worker, got, ret, cpc, port>>

Wake ==
    /\ gpc = "wait" /\ has_data
    /\ gpc' = "clear"
    /\ UNCHANGED <<read_queue, has_data, reading, worker, got, ret, cpc, port>>

Timeout ==
    /\ gpc = "wait" /\ ~has_data
    /\ gpc' = "idle"
    /\ ret' = "timeout"
    /\ UNCHANGED <<read_queue, has_data, reading, worker, got, cpc, port>>

Clear ==
    /\ gpc = "clear"
    /\ has_data' = FALSE
    /\ gpc' = "pop"
    /\ UNCHANGED <<read_queue, reading, worker, got, ret, cpc, port>>

(* Mutated form: the newest byte is popped instead of the oldest.          *)
PopNewest ==
    /\ gpc = "pop" /\ read_queue # <<>>
    /\ got' = Append(got, read_queue[Len(read_queue)])
    /\ read_queue' = SubSeq(read_queue, 1, Len(read_queue) - 1)
    /\ gpc' = "check"
    /\ UNCHANGED <<has_data, reading, worker, ret, cpc, port>>

Pop ==
    /\ gpc = "pop" /\ read_queue # <<>>
    /\ got' = Append(got, Head(read_queue))
    /\ read_queue' = Tail(read_queue)
    /\ gpc' = "check"
    /\ UNCHANGED <<has_data, reading, worker, ret, cpc, port>>

(* popleft() raises IndexError: None is returned before any timeout.       *)
PopEmpty ==
    /\ gpc = "pop" /\ read_queue = <<>>
    /\ ret' = "empty"
    /\ gpc' = "idle"
    /\ UNCHANGED <<read_queue, has_data, reading, worker, got, cpc, port>>

(* Mutated form: the event is not raised again for the bytes that are left. *)
CheckForgetsRest ==
    /\ gpc = "check"
    /\ gpc' = "idle"
    /\ ret' = "byte"
    /\ UNCHANGED <<read_queue, has_data, reading, worker, got, cpc, port>>

CheckLeft ==
    /\ gpc = "check"
    /\ gpc' = IF Len(read_queue) > 0 THEN "reset" ELSE "idle"
    /\ ret' = "byte"
    /\ UNCHANGED <<read_queue, has_data, reading, worker, got, cpc, port>>

Reset ==
    /\ gpc = "reset"
    /\ has_data' = TRUE
    /\ gpc' = "idle"
    /\ UNCHANGED <<read_queue, reading, worker, got, ret, cpc, port>>

Consumer ==
    \/ Call \/ Leave \/ Wake \/ Timeout \/ Clear \/ Pop \/ PopEmpty
    \/ CheckLeft \/ Reset

-----------------------------------------------------------------------------
(* close(), called by PacketReader.doExit after the exit flag is set.      *)

RequestExit ==
    /\ cpc = "open"
    /\ cpc' = "exiting"
    /\ UNCHANGED <<read_queue, has_data, reading, worker, consumer, port>>

CloseStop ==
    /\ cpc = "exiting"
    /\ reading' = FALSE
    /\ cpc' = "stopped"
    /\ UNCHANGED <<read_queue, has_data, worker, consumer, port>>

CloseWake ==
    /\ cpc = "stopped"
    /\ has_data' = TRUE
    /\ cpc' = "woken"
    /\ UNCHANGED <<read_queue, reading, worker, consumer, port>>

(* Mutated form: the worker blocked in read() is not cancelled.            *)
CloseWithoutCancel ==
    /\ cpc = "woken"
    /\ cpc' = "cancelled"
    /\ UNCHANGED <<read_queue, has_data, reading, worker, consumer, port>>

(* cancel_read() does nothing on a port that writeList has closed.         *)
CloseCancel ==
    /\ cpc = "woken"
    /\ cancelled' = (cancelled \/ ser = "open")
    /\ cpc' = "cancelled"
    /\ UNCHANGED <<read_queue, has_data, reading, worker, consumer, ser, plugged>>

(* Mutated form: the worker is not joined before the port is closed.       *)
CloseWithoutJoin ==
    /\ cpc = "cancelled"
    /\ cpc' = "joined"
    /\ UNCHANGED <<read_queue, has_data, reading, worker, consumer, port>>

CloseJoin ==
    /\ cpc = "cancelled" /\ wpc = "done"
    /\ cpc' = "joined"
    /\ UNCHANGED <<read_queue, has_data, reading, worker, consumer, port>>

ClosePort ==
    /\ cpc = "joined"
    /\ ser' = "closed"
    /\ cpc' = "closed"
    /\ UNCHANGED <<read_queue, has_data, reading, worker, consumer, cancelled, plugged>>

Closer == CloseStop \/ CloseWake \/ CloseCancel \/ CloseJoin \/ ClosePort

-----------------------------------------------------------------------------
(* The environment: the device is unplugged; a command written to a lost   *)
(* device fails, and writeList closes the port under the worker.           *)

Unplug ==
    /\ plugged
    /\ plugged' = FALSE
    /\ UNCHANGED <<read_queue, has_data, reading, worker, consumer, cpc, ser, cancelled>>

WriteFails ==
    /\ ~plugged /\ ser = "open"
    /\ ser' = "closed"
    /\ UNCHANGED <<read_queue, has_data, reading, worker, consumer, cpc, cancelled, plugged>>

Next == Worker \/ Consumer \/ Closer \/ RequestExit \/ Unplug \/ WriteFails

Spec == Init /\ [][Next]_vars

(* Threads are scheduled and a wait with a timeout ends; bytes, unplugging *)
(* and the request to exit come from outside and may never come.           *)
Fairness ==
    /\ WF_vars(WorkerStart) /\ WF_vars(WorkerCheck) /\ WF_vars(WorkerReadCancelled)
    /\ WF_vars(WorkerFails) /\ WF_vars(WorkerExtend) /\ WF_vars(WorkerSet)
    /\ WF_vars(Consumer)
    /\ WF_vars(Closer)

FairSpec == Spec /\ Fairness

-----------------------------------------------------------------------------
(* Properties.                                                             *)

(* Bytes reach the decoder in the order they came from the port, and every *)
(* byte read is in exactly one place: returned, in the deque, or in the    *)
(* worker's hands (UART.py 146-157, 197-213).                              *)
BytesInOrder ==
    /\ Len(got) + Len(read_queue) + Len(wbuf) = sent
    /\ \A i \in 1..Len(got) : got[i] = i
    /\ \A i \in 1..Len(read_queue) : read_queue[i] = Len(got) + i
    /\ \A i \in 1..Len(wbuf) : wbuf[i] = Len(got) + Len(read_queue) + i

(* No wake-up is lost: bytes may be waiting under a lowered event only     *)
(* while the worker is about to raise it, or the consumer is between its   *)
(* clear() and its own second look at the deque.                           *)
NoLostWakeup ==
    read_queue # <<>> /\ ~has_data =>
        \/ wpc = "set"
        \/ gpc \in {"pop", "check", "reset"}

(* close() never pulls the Serial object from under a worker that still    *)
(* reads it: unless the device was lost, the port is closed only after the *)
(* worker ended.                                                           *)
ClosedAfterWorker ==
    ser = "closed" /\ plugged => wpc = "done"

(* Does not hold (README, "Also seen").  UART.py 209 says of the empty     *)
(* pop: "This will happen when the class is destroyed".                    *)
EmptyOnlyWhenDestroyed ==
    ret = "empty" => Exiting

(* Every byte the worker read is returned to the consumer, unless the      *)
(* reader is shut down meanwhile - even if the device is lost.             *)
EveryByteDelivered ==
    \A n \in 1..NBytes : (sent >= n) ~> (Len(got) >= n \/ Exiting)

(* Once exit is requested everybody leaves: close() returns, as the worker *)
(* it joins is woken whatever it was doing and even if the device is gone, *)
(* and the thread that decodes packets ends, also when its wake-up was     *)
(* swallowed (UART.py 159-175, 202-213).                                   *)
EverybodyLeaves == Exiting ~> (cpc = "closed" /\ gpc = "exited")

-----------------------------------------------------------------------------
(* The queue implements the abstract byte channel: a byte is in the        *)
(* channel from the moment the worker has put it into the deque.           *)
Channel == INSTANCE ByteChannel WITH Chunk <- MaxChunk, chan <- read_queue, got <- got

(* Every step of the queue is a delivery of one chunk, the taking of the   *)
(* oldest byte, or invisible to the decoder: timeouts, wake-ups without    *)
(* data, a lost device and close() neither drop nor repeat a byte          *)
(* (UART.py 146-175, 197-213).                                             *)
ImplementsByteChannel == Channel!Spec
=============================================================================
