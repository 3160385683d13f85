--------------------------- MODULE ThreadSniffer ---------------------------
(***************************************************************************)
(* The life of one Nrf802154Sniffer object (nrf802154_sniffer.py): a       *)
(* capture starts up to four threads that share the events running and     *)
(* setup_done, the Serial object, the command queue and the packet queue;  *)
(* signal handlers on the main thread, the end of Wireshark's control      *)
(* pipe, or a failing reader stops it, and the object may capture again.   *)
(*                                                                         *)
(* Commands are "sleep", "channel" and "receive"; the empty command that   *)
(* only flushes the sniffer's line buffer is left out.  The i-th packet of *)
(* a capture is the number i.                                              *)
(***************************************************************************)
EXTENDS Integers, Sequences

CONSTANTS
    HasControl,         \* Wireshark passed a control_in pipe
    HasOpenTimeout,     \* connection_open_timeout is not None
    MaxPackets,         \* bound: packets sniffed per capture
    Signals,            \* bound: the calls of stop_sig_handler main makes, by name
    MaxCaptures         \* bound: times extcap_capture is called

Threads  == {"control", "reader", "writer", "fifo"}

ASSUME SnifferAssumption ==
    /\ {HasControl, HasOpenTimeout} \subseteq BOOLEAN
    /\ MaxPackets \in Nat /\ MaxCaptures \in Nat
    /\ Signals \in Seq(STRING)
    /\ \A i \in 1..Len(Signals) : Signals[i] \notin Threads \cup {"main"}
    /\ \A i, j \in 1..Len(Signals) : i < j => Signals[i] # Signals[j]

(* Whoever runs stop_sig_handler: main, once for each signal, and two of   *)
(* the threads.                                                            *)
MainCalls == {Signals[i] : i \in 1..Len(Signals)}
Stoppers  == MainCalls \cup {"control", "reader"}
Commands  == {"sleep", "channel", "receive"}

VARIABLES
    running, setup_done,    \* the two events
    serial,                 \* self.serial: "none", "open" or "closed"
    serial_queue,           \* commands for the sniffer
    threads,                \* self.threads
    pc,                     \* where main and each thread are
    to_start,               \* main: threads not started yet
    stop,                   \* where each call of stop_sig_handler is
    joining, alive,         \* its loop: threads still to join, not joined
    cmd,                    \* writer: the command in hand
    device, plugged,        \* the sniffer's mode, and whether it is there
    echoed,                 \* commands of this capture the sniffer echoed
    packet_queue,           \* number of packets between the reader and the fifo
    sniffed,                \* packets the reader has received
    captures, stops,        \* counters for the bounds: captures, signals
    calls,                  \* history: calls of stop_sig_handler, by anyone
    refused                 \* extcap_capture raised "Old threads ..."

events  == <<running, setup_done>>
packets == <<packet_queue, sniffed>>
sniffer == <<device, plugged, echoed>>
joins   == <<stop, joining, alive>>
starts  == <<threads, to_start, captures, stops, calls, refused>>
vars    == <<events, serial, serial_queue, pc, joins, cmd, sniffer, packets, starts>>

PcValues == [
    main    |-> {"idle", "starting", "looping", "crashed"},
    control |-> {"off", "reading", "stop", "dead"},
    reader  |-> {"off", "delay", "open", "opening", "setup", "echo", "ready", "done",
                 "loop", "final", "check", "stop", "dead"},
    writer  |-> {"off", "loop", "get", "write", "drain", "drainwrite", "dead"},
    fifo    |-> {"off", "open", "loop", "get", "write", "dead"}]

TypeOK ==
    /\ running \in BOOLEAN /\ setup_done \in BOOLEAN
    /\ serial \in {"none", "open", "closed"}
    /\ serial_queue \in Seq(Commands)
    /\ threads \in Seq(Threads) /\ to_start \in Seq(Threads)
    /\ DOMAIN pc = Threads \cup {"main"}
    /\ \A t \in Threads \cup {"main"} : pc[t] \in PcValues[t]
    /\ stop \in [Stoppers -> {"out", "wait", "check", "put", "clear", "join", "prune",
                              "close", "closing"}]
    /\ joining \in [Stoppers -> Seq(Threads)]
    /\ alive \in [Stoppers -> Seq(Threads)]
    /\ cmd \in Commands \cup {"none"}
    /\ device \in {"unknown", "sleep", "receive"}
    /\ plugged \in BOOLEAN /\ refused \in BOOLEAN
    /\ echoed \in 0..2
    /\ packet_queue \in 0..sniffed /\ sniffed \in 0..MaxPackets
    /\ captures \in 0..MaxCaptures /\ stops \in 0..Len(Signals)
    /\ calls \in Nat

Init ==
    /\ running = FALSE /\ setup_done = FALSE
    /\ serial = "none" /\ serial_queue = <<>>
    /\ threads = <<>> /\ to_start = <<>>
    /\ pc = [t \in Threads \cup {"main"} |-> IF t = "main" THEN "idle" ELSE "off"]
    /\ stop = [s \in Stoppers |-> "out"]
    /\ joining = [s \in Stoppers |-> <<>>] /\ alive = [s \in Stoppers |-> <<>>]
    /\ cmd = "none"
    /\ device = "unknown" /\ plugged = TRUE /\ echoed = 0
    /\ packet_queue = 0 /\ sniffed = 0
    /\ captures = 0 /\ stops = 0 /\ calls = 0 /\ refused = FALSE

Usable == serial = "open" /\ plugged
Goto(t, where) == pc' = [pc EXCEPT ![t] = where]
At(t, where) == pc[t] = where
Ended(t) == pc[t] \in {"off", "dead"}
AllEnded == \A t \in Threads : Ended(t)
-----------------------------------------------------------------------------
(* The main thread: extcap_capture, and the loop that waits for its end.   *)
(* A signal handler runs on this thread and suspends it, and what other    *)
(* handler it is in.                                                       *)

ThreadList ==
    IF HasControl THEN <<"control", "reader", "writer", "fifo">>
                  ELSE <<"reader", "writer", "fifo">>

MainRuns == \A c \in MainCalls : stop[c] = "out"

(* The events are those of the object: setup_done is cleared only in       *)
(* __init__.  A thread's program counter is reused, so the next capture is *)
(* modelled once the threads of the last one have ended.                   *)
StartCapture ==
    /\ MainRuns /\ At("main", "idle")
    /\ captures < MaxCaptures /\ threads = <<>> /\ AllEnded
    /\ captures' = captures + 1
    /\ running' = TRUE
    /\ threads' = ThreadList /\ to_start' = ThreadList
    /\ pc' = [t \in Threads \cup {"main"} |-> IF t = "main" THEN "starting" ELSE "off"]
    /\ packet_queue' = 0 /\ sniffed' = 0
    /\ echoed' = 0
    /\ UNCHANGED <<setup_done, serial, serial_queue, joins, cmd, device, plugged,
                   stops, calls, refused>>

(* RuntimeError("Old threads were not joined properly").                   *)
RefuseCapture ==
    /\ MainRuns /\ At("main", "idle")
    /\ threads # <<>>
    /\ refused' = TRUE
    /\ Goto("main", "crashed")
    /\ UNCHANGED <<events, serial, serial_queue, joins, cmd, sniffer, packets,
                   threads, to_start, captures, stops, calls>>

FirstStep == [control |-> "reading", reader |-> "delay", writer |-> "loop", fifo |-> "open"]

StartThread ==
    /\ MainRuns /\ At("main", "starting") /\ to_start # <<>>
    /\ Goto(Head(to_start), FirstStep[Head(to_start)])
    /\ to_start' = Tail(to_start)
    /\ UNCHANGED <<events, serial, serial_queue, joins, cmd, sniffer, packets,
                   threads, captures, stops, calls, refused>>

AllStarted ==
    /\ MainRuns /\ At("main", "starting") /\ to_start = <<>>
    /\ Goto("main", "looping")
    /\ UNCHANGED <<events, serial, serial_queue, joins, cmd, sniffer, packets, starts>>

CaptureReturns ==
    /\ MainRuns /\ At("main", "looping") /\ ~running
    /\ Goto("main", "idle")
    /\ UNCHANGED <<events, serial, serial_queue, joins, cmd, sniffer, packets, starts>>

Main == StartThread \/ AllStarted \/ CaptureReturns

(* SIGINT, SIGTERM, or the program using the class calls stop_sig_handler: *)
(* at any moment, so that the handler may interrupt itself, any number of  *)
(* times.  A signal during the few instructions of the start loop is left  *)
(* out.                                                                    *)
Signal ==
    /\ ~At("main", "starting") /\ captures > 0 /\ stops < Len(Signals)
    /\ stops' = stops + 1 /\ calls' = calls + 1
    /\ stop' = [stop EXCEPT ![Signals[stops + 1]] = "wait"]
    /\ UNCHANGED <<events, serial, serial_queue, pc, joining, alive, cmd, sniffer, packets,
                   threads, to_start, captures, refused>>

-----------------------------------------------------------------------------
(* stop_sig_handler, the call s.                                           *)

(* On the main thread the handler that interrupted last goes on.           *)
Innermost(s) ==
    \A i, j \in 1..Len(Signals) : s = Signals[i] /\ i < j => stop[Signals[j]] = "out"

Step(s, from, to) == stop[s] = from /\ stop' = [stop EXCEPT ![s] = to]

(* Mutated form: the handler does not wait for the sniffer to start.       *)
StopWaitSkipped(s) ==
    /\ Step(s, "wait", "check")
    /\ UNCHANGED <<events, serial, serial_queue, pc, joining, alive, cmd, sniffer, packets, starts>>

(* "Let's wait with closing afer we're sure that the sniffer started."     *)
StopWait(s) ==
    /\ ~running \/ setup_done
    /\ Step(s, "wait", "check")
    /\ UNCHANGED <<events, serial, serial_queue, pc, joining, alive, cmd, sniffer, packets, starts>>

(* running is read again: another thread may have stopped meanwhile.       *)
StopCheck(s) ==
    /\ Step(s, "check", IF running THEN "put" ELSE "close")
    /\ UNCHANGED <<events, serial, serial_queue, pc, joining, alive, cmd, sniffer, packets, starts>>

(* Mutated form: the sniffer is sent a command it does not know.           *)
StopPutUnknown(s) ==
    /\ Step(s, "put", "clear")
    /\ serial_queue' = Append(serial_queue, "stop")
    /\ UNCHANGED <<events, serial, pc, joining, alive, cmd, sniffer, packets, starts>>

StopPut(s) ==
    /\ Step(s, "put", "clear")
    /\ serial_queue' = Append(serial_queue, "sleep")
    /\ UNCHANGED <<events, serial, pc, joining, alive, cmd, sniffer, packets, starts>>

StopClear(s) ==
    /\ Step(s, "clear", "join")
    /\ running' = FALSE
    /\ joining' = [joining EXCEPT ![s] = threads]
    /\ alive' = [alive EXCEPT ![s] = <<>>]
    /\ UNCHANGED <<setup_done, serial, serial_queue, pc, cmd, sniffer, packets, starts>>

(* The waits of a thread that may outlast join(timeout=10): a read or      *)
(* write of Wireshark's pipes, and a stop_sig_handler of its own.  All     *)
(* other waits of the threads end within two seconds.                      *)
MayBlock(t) ==
    \/ t = "control" /\ pc[t] \in {"reading", "stop"}
    \/ t = "reader" /\ pc[t] = "stop"
    \/ t = "fifo" /\ pc[t] \in {"open", "write"}

(* Joining oneself or a thread not yet started raises RuntimeError, which  *)
(* the handler ignores.                                                    *)
StopJoin(s) ==
    /\ stop[s] = "join" /\ joining[s] # <<>>
    /\ LET t == Head(joining[s]) IN
        \/ /\ t = s \/ Ended(t)
           /\ alive' = alive
        \/ /\ t # s /\ MayBlock(t)
           /\ alive' = [alive EXCEPT ![s] = Append(@, t)]
    /\ joining' = [joining EXCEPT ![s] = Tail(@)]
    /\ UNCHANGED <<events, serial, serial_queue, pc, stop, cmd, sniffer, packets, starts>>

(* Mutated form: every thread is dropped after its join, ended or not.     *)
StopPruneAll(s) ==
    /\ joining[s] = <<>>
    /\ Step(s, "join", "close")
    /\ threads' = <<>>
    /\ alive' = [alive EXCEPT ![s] = <<>>]
    /\ UNCHANGED <<events, serial, serial_queue, pc, joining, cmd, sniffer, packets,
                   to_start, captures, stops, calls, refused>>

StopPrune(s) ==
    /\ joining[s] = <<>>
    /\ Step(s, "join", "close")
    /\ threads' = alive[s]
    /\ alive' = [alive EXCEPT ![s] = <<>>]
    /\ UNCHANGED <<events, serial, serial_queue, pc, joining, cmd, sniffer, packets,
                   to_start, captures, stops, calls, refused>>

(* A thread that returns from the handler has nothing left to do; the main *)
(* thread resumes where it was interrupted.                                *)
Resume(s) == pc' = IF s \in MainCalls THEN pc ELSE [pc EXCEPT ![s] = "dead"]

StopNothingOpen(s) ==
    /\ serial = "none"
    /\ Step(s, "close", "out")
    /\ Resume(s)
    /\ UNCHANGED <<events, serial, serial_queue, joining, alive, cmd, sniffer, packets, starts>>

StopFoundOpen(s) ==
    /\ serial # "none"
    /\ Step(s, "close", "closing")
    /\ UNCHANGED <<events, serial, serial_queue, pc, joining, alive, cmd, sniffer, packets, starts>>

(* Mutated form: the port is closed only if this call stopped the threads. *)
StopCloseForgotten(s) ==
    /\ Step(s, "closing", "out")
    /\ Resume(s)
    /\ UNCHANGED <<events, serial, serial_queue, joining, alive, cmd, sniffer, packets, starts>>

StopClose(s) ==
    /\ serial # "none"
    /\ Step(s, "closing", "out")
    /\ Resume(s)
    /\ serial' = "none"
    /\ UNCHANGED <<events, serial_queue, joining, alive, cmd, sniffer, packets, starts>>

(* If another call has set self.serial to None since it was tested, the    *)
(* attribute access raises and ends the thread: of the main thread, all    *)
(* the calls that were interrupted.                                        *)
StopCloseRaises(s) ==
    /\ serial = "none" /\ stop[s] = "closing"
    /\ stop' = [c \in Stoppers |-> IF c = s \/ {s, c} \subseteq MainCalls THEN "out" ELSE stop[c]]
    /\ IF s \in MainCalls THEN Goto("main", "crashed") ELSE Goto(s, "dead")
    /\ UNCHANGED <<events, serial, serial_queue, joining, alive, cmd, sniffer, packets, starts>>

Stop(s) ==
    /\ Innermost(s)
    /\ \/ StopWait(s) \/ StopCheck(s) \/ StopPut(s) \/ StopClear(s) \/ StopJoin(s)
       \/ StopPrune(s) \/ StopNothingOpen(s) \/ StopFoundOpen(s)
       \/ StopClose(s) \/ StopCloseRaises(s)
-----------------------------------------------------------------------------
(* control_reader: the end of Wireshark's control pipe stops the sniffer.  *)

ControlEnds ==
    /\ At("control", "reading")
    /\ Goto("control", "stop")
    /\ stop' = [stop EXCEPT !["control"] = "wait"]
    /\ calls' = calls + 1
    /\ UNCHANGED <<events, serial, serial_queue, joining, alive, cmd, sniffer, packets,
                   threads, to_start, captures, stops, refused>>

-----------------------------------------------------------------------------
(* serial_reader.                                                          *)

ReaderMoves(from, to) ==
    /\ At("reader", from) /\ Goto("reader", to)
    /\ UNCHANGED <<joins, cmd, packet_queue, starts>>

(* time.sleep(2): main has started the other threads by then, unless a     *)
(* signal handler holds it up.                                             *)
ReaderDelay ==
    /\ to_start = <<>> \/ ~MainRuns
    /\ ReaderMoves("delay", "open")
    /\ UNCHANGED <<events, serial, serial_queue, sniffer, sniffed>>

ReaderTest ==
    /\ ReaderMoves("open", IF running THEN "opening" ELSE "setup")
    /\ UNCHANGED <<events, serial, serial_queue, sniffer, sniffed>>

ReaderOpens ==
    /\ plugged
    /\ ReaderMoves("opening", "setup")
    /\ serial' = "open"
    /\ UNCHANGED <<events, serial_queue, sniffer, sniffed>>

(* The port is missing or in use: look at running and try again.           *)
ReaderRetries ==
    /\ ReaderMoves("opening", "open")
    /\ UNCHANGED <<events, serial, serial_queue, sniffer, sniffed>>

(* The exception leaves the thread outside its try: no finally runs.       *)
ReaderGivesUp ==
    /\ HasOpenTimeout
    /\ ReaderMoves("opening", "dead")
    /\ running' = FALSE
    /\ UNCHANGED <<setup_done, serial, serial_queue, sniffer, sniffed>>

ReaderSetup ==
    /\ Usable
    /\ ReaderMoves("setup", "echo")
    /\ serial_queue' = serial_queue \o <<"sleep", "channel">>
    /\ UNCHANGED <<events, serial, sniffer, sniffed>>

ReaderEchoed ==
    /\ Usable /\ echoed = 2
    /\ ReaderMoves("echo", "ready")
    /\ UNCHANGED <<events, serial, serial_queue, sniffer, sniffed>>

(* "did not reply properly to setup commands": too late, or garbled.       *)
ReaderMisreads ==
    /\ ReaderMoves("echo", "final")
    /\ serial' = IF serial = "open" THEN "closed" ELSE serial
    /\ UNCHANGED <<events, serial_queue, sniffer, sniffed>>

ReaderReady ==
    /\ ReaderMoves("ready", "done")
    /\ serial_queue' = Append(serial_queue, "receive")
    /\ UNCHANGED <<events, serial, sniffer, sniffed>>

ReaderDone ==
    /\ ReaderMoves("done", "loop")
    /\ setup_done' = TRUE
    /\ UNCHANGED <<running, serial, serial_queue, sniffer, sniffed>>

ReaderPacket ==
    /\ At("reader", "loop") /\ running /\ Usable /\ device = "receive"
    /\ sniffed < MaxPackets
    /\ sniffed' = sniffed + 1
    /\ packet_queue' = packet_queue + 1
    /\ UNCHANGED <<events, serial, serial_queue, pc, joins, cmd, sniffer, starts>>

ReaderLeavesLoop ==
    /\ ~running
    /\ ReaderMoves("loop", "final")
    /\ UNCHANGED <<events, serial, serial_queue, sniffer, sniffed>>

(* What the sniffer sent does not decode (382), or a line that looks like  *)
(* a packet is none: an odd number of digits (403), a value out of range.  *)
(* The port stays as it is.                                                *)
ReaderRaises ==
    /\ Usable
    /\ \E from \in {"echo", "loop"} : ReaderMoves(from, "final")
    /\ UNCHANGED <<events, serial, serial_queue, sniffer, sniffed>>

(* The port is gone, closed or None when the reader uses it.               *)
ReaderFails ==
    /\ ~Usable
    /\ \E from \in {"setup", "echo", "loop"} : ReaderMoves(from, "final")
    /\ UNCHANGED <<events, serial, serial_queue, sniffer, sniffed>>

(* Mutated form: setup_done is not set when the setup failed.              *)
ReaderFinalForgets ==
    /\ ReaderMoves("final", "check")
    /\ UNCHANGED <<events, serial, serial_queue, sniffer, sniffed>>

ReaderFinal ==
    /\ ReaderMoves("final", "check")
    /\ setup_done' = TRUE
    /\ UNCHANGED <<running, serial, serial_queue, sniffer, sniffed>>

ReaderCheck ==
    /\ At("reader", "check")
    /\ Goto("reader", IF running THEN "stop" ELSE "dead")
    /\ stop' = IF running THEN [stop EXCEPT !["reader"] = "wait"] ELSE stop
    /\ calls' = IF running THEN calls + 1 ELSE calls
    /\ UNCHANGED <<events, serial, serial_queue, joining, alive, cmd, sniffer, packets,
                   threads, to_start, captures, stops, refused>>

Reader ==
    \/ ReaderDelay \/ ReaderTest \/ ReaderOpens \/ ReaderRetries \/ ReaderGivesUp
    \/ ReaderSetup \/ ReaderEchoed \/ ReaderMisreads \/ ReaderReady \/ ReaderDone
    \/ ReaderPacket \/ ReaderLeavesLoop \/ ReaderFails \/ ReaderFinal \/ ReaderCheck

-----------------------------------------------------------------------------
(* serial_writer and serial_write.                                         *)

WriterMoves(from, to) ==
    /\ At("writer", from) /\ Goto("writer", to)
    /\ UNCHANGED <<setup_done, serial, joins, plugged, packets, starts>>

(* Mutated form: the loop ends without writing the final commands.         *)
WriterLoopNoDrain ==
    /\ WriterMoves("loop", IF running THEN "get" ELSE "dead")
    /\ UNCHANGED <<running, serial_queue, cmd, device, echoed>>

WriterLoop ==
    /\ WriterMoves("loop", IF running THEN "get" ELSE "drain")
    /\ UNCHANGED <<running, serial_queue, cmd, device, echoed>>

WriterTakes ==
    /\ serial_queue # <<>>
    /\ WriterMoves("get", "write") \/ WriterMoves("drain", "drainwrite")
    /\ cmd' = Head(serial_queue)
    /\ serial_queue' = Tail(serial_queue)
    /\ UNCHANGED <<running, device, echoed>>

(* queue.Empty after a second: back to the loop, or the end.               *)
WriterFindsNone ==
    /\ serial_queue = <<>>
    /\ WriterMoves("get", "loop") \/ WriterMoves("drain", "dead")
    /\ UNCHANGED <<running, serial_queue, cmd, device, echoed>>

(* The sniffer obeys the command and echoes it.                            *)
WriterWrites ==
    /\ Usable
    /\ WriterMoves("write", "loop") \/ WriterMoves("drainwrite", "drain")
    /\ device' = IF cmd = "channel" THEN device ELSE cmd
    /\ echoed' = IF echoed < 2 THEN echoed + 1 ELSE 2
    /\ cmd' = "none"
    /\ UNCHANGED <<running, serial_queue>>

WriterIOError ==
    /\ ~Usable /\ serial # "none"
    /\ WriterMoves("write", "loop") \/ WriterMoves("drainwrite", "drain")
    /\ running' = FALSE
    /\ cmd' = "none"
    /\ UNCHANGED <<serial_queue, device, echoed>>

(* self.serial is None: the AttributeError ends the thread.                *)
WriterCrashes ==
    /\ serial = "none"
    /\ WriterMoves("write", "dead") \/ WriterMoves("drainwrite", "dead")
    /\ cmd' = "none"
    /\ UNCHANGED <<running, serial_queue, device, echoed>>

Writer ==
    \/ WriterLoop \/ WriterTakes \/ WriterFindsNone
    \/ WriterWrites \/ WriterIOError \/ WriterCrashes

-----------------------------------------------------------------------------
(* fifo_writer.                                                            *)

FifoMoves(from, to) ==
    /\ At("fifo", from) /\ Goto("fifo", to)
    /\ UNCHANGED <<events, serial, serial_queue, joins, cmd, sniffer, sniffed, starts>>

(* open() returns when Wireshark opens the pipe; the header is written     *)
(* outside any try, so that a reader that left at once ends the thread.    *)
FifoOpened ==
    /\ FifoMoves("open", "loop") \/ FifoMoves("open", "dead")
    /\ UNCHANGED packet_queue

FifoLoop ==
    /\ FifoMoves("loop", IF running THEN "get" ELSE "dead")
    /\ UNCHANGED packet_queue

FifoTakes ==
    /\ packet_queue > 0
    /\ FifoMoves("get", "write")
    /\ packet_queue' = packet_queue - 1

FifoFindsNone ==
    /\ packet_queue = 0
    /\ FifoMoves("get", "loop")
    /\ UNCHANGED packet_queue

(* An IOError is ignored and the packet is lost.                           *)
FifoWrites ==
    /\ FifoMoves("write", "loop")
    /\ UNCHANGED packet_queue

Fifo == FifoLoop \/ FifoTakes \/ FifoFindsNone \/ FifoWrites

-----------------------------------------------------------------------------
(* The environment: Wireshark's pipes, what the sniffer sends, and that it *)
(* may be pulled from its USB port.                                        *)

Unplug ==
    /\ plugged
    /\ plugged' = FALSE
    /\ UNCHANGED <<events, serial, serial_queue, pc, joins, cmd, device, echoed, packets, starts>>

Environment == ControlEnds \/ FifoOpened \/ ReaderRaises \/ Unplug

Next ==
    \/ StartCapture \/ RefuseCapture \/ Main \/ Signal
    \/ \E s \in Stoppers : Stop(s)
    \/ Reader \/ Writer \/ Fifo \/ Environment

Spec == Init /\ [][Next]_vars

(* Each thread is scheduled, in whatever call of the handler it is, and    *)
(* its bounded waits end.  How long the reader tries to open the port is   *)
(* left open, also where there is a timeout.  Starting a capture, signals, *)
(* pipes and the device are up to the outside.                             *)
Fairness ==
    /\ WF_vars(Main \/ \E s \in MainCalls : Stop(s))
    /\ WF_vars(Stop("control"))
    /\ WF_vars(Reader \/ Stop("reader"))
    /\ WF_vars(Writer)
    /\ WF_vars(Fifo)

FairSpec == Spec /\ Fairness

-----------------------------------------------------------------------------
(* Properties.                                                             *)

(* "Function responsible for stopping the sniffer firmware" (149): a       *)
(* sniffer that was told to receive is asleep again when the thread that   *)
(* writes its commands has ended - unless it was unplugged.  The code does *)
(* not keep this (README, findings): ...                                   *)
AsleepAtEnd == At("writer", "dead") /\ plugged => device # "receive"

(* ... but it holds if stop_sig_handler was called once, whoever called    *)
(* it: the writer then drains "sleep" before the port is closed (341-346). *)
AsleepIfStoppedOnce == calls <= 1 => AsleepAtEnd

(* "Let's wait with closing afer we're sure that the sniffer started"      *)
(* (151-152): nobody stops a capture whose reader is still before the end  *)
(* of its setup.                                                           *)
StopsOnlyStarted ==
    \A s \in Stoppers : stop[s] \in {"put", "clear"} =>
        pc["reader"] \in {"loop", "final", "check", "stop", "dead"}

(* Once a stop_sig_handler of main or of the control thread has returned   *)
(* and nobody else can touch the port, it is released for the next program *)
(* (177-180).                                                              *)
PortReleased ==
    /\ (stops > 0 /\ MainRuns) \/ At("control", "dead")
    /\ Ended("reader") /\ Ended("control")
    => serial = "none"

(* The handler drops a thread from self.threads only if it has ended, so   *)
(* that the test of extcap_capture (444) cannot miss a writer or a fifo    *)
(* thread of the previous capture.  (The thread that runs the handler      *)
(* cannot join itself, so a reader or control thread may be forgotten      *)
(* while it returns from the handler.)                                     *)
ForgottenOnlyIfEnded == threads = <<>> => Ended("writer") /\ Ended("fifo")

(* Does not hold (README, "Also seen").  extcap_capture refuses with "Old  *)
(* threads were not joined properly" (445): then some thread of the old    *)
(* capture should still be alive.                                          *)
RefusedOnlyIfAlive == refused => ~AllEnded

(* Every call of the handler has returned, and these threads have ended.  *)
Stopped == (\A s \in Stoppers : stop[s] = "out") /\ Ended("reader") /\ Ended("writer")

(* A stop works: "this method will block until SIGTERM/SIGINT and/or       *)
(* stop_sig_handler disables the loop" (441-442), "closing all threads"    *)
(* (149).  The code does not keep this (README, "Also seen"): without an   *)
(* open timeout a reader may try to open the port for ever, and the        *)
(* handler waits for its start ...                                         *)
StopReturns == (\E s \in Stoppers : stop[s] # "out") ~> Stopped

(* ... but nothing else holds it up: every call of the handler returns,    *)
(* though calls join the threads of other calls, and reader and writer     *)
(* end, or the reader is still trying.  (From there it leads on in the     *)
(* same way, so that having tried is no excuse.)                           *)
StopReturnsIfOpened ==
    (\E s \in Stoppers : stop[s] # "out")
        ~> (Stopped \/ pc["reader"] \in {"open", "opening"})
=============================================================================
