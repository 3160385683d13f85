------------------------- MODULE ThreadSniffer_proofs -------------------------
(***************************************************************************)
(* The life of one Nrf802154Sniffer object, for any constants.  In every   *)
(* capture: types, and a stop waits only for a reader that lives; without  *)
(* a control pipe, no live thread is forgotten.  In the first capture, for *)
(* any number of packets, and of signals nested in each other's handlers:  *)
(* the stop waits for the start, the port is released, no live thread is   *)
(* forgotten, and the firmware is asleep at the end if it was stopped      *)
(* once.                                                                   *)
(***************************************************************************)
EXTENDS ThreadSniffer, TLAPS

(* x is an element of the sequence.                                        *)
Among(x, seq) == \E i \in 1..Len(seq) : seq[i] = x

(* Every thread has a place, of its own kind.                              *)
Placed == pc = [t \in Threads \cup {"main"} |-> pc[t]]
Places ==
    /\ pc["main"] \in {"idle", "starting", "looping", "crashed"}
    /\ pc["control"] \in {"off", "reading", "stop", "dead"}
    /\ pc["reader"] \in {"off", "delay", "open", "opening", "setup", "echo", "ready", "done",
                         "loop", "final", "check", "stop", "dead"}
    /\ pc["writer"] \in {"off", "loop", "get", "write", "drain", "drainwrite", "dead"}
    /\ pc["fifo"] \in {"off", "open", "loop", "get", "write", "dead"}
(* The types, by kind of variable.                                         *)
Scalars ==
    /\ running \in BOOLEAN /\ setup_done \in BOOLEAN
    /\ serial \in {"none", "open", "closed"}
    /\ cmd \in Commands \cup {"none"}
    /\ device \in {"unknown", "sleep", "receive"}
    /\ plugged \in BOOLEAN /\ refused \in BOOLEAN
    /\ echoed \in 0..2
    /\ packet_queue \in 0..sniffed /\ sniffed \in 0..MaxPackets
    /\ captures \in 0..MaxCaptures /\ stops \in 0..Len(Signals)
    /\ calls \in Nat
Lists ==
    /\ serial_queue \in Seq(Commands)
    /\ threads \in Seq(Threads) /\ to_start \in Seq(Threads)
Handlers ==
    /\ stop \in [Stoppers -> {"out", "wait", "check", "put", "clear", "join", "prune",
                              "close", "closing"}]
    /\ joining \in [Stoppers -> Seq(Threads)]
    /\ alive \in [Stoppers -> Seq(Threads)]

(* The threads are started once each, all of them before the reader goes   *)
(* on, as no handler interrupts the start.                                 *)
Starting ==
    /\ to_start # <<>> => pc["main"] = "starting"
    /\ pc["main"] = "starting" => MainRuns
    /\ pc["reader"] \notin {"off", "delay"} => to_start = <<>>
    /\ \A i, j \in 1..Len(to_start) : i < j => to_start[i] # to_start[j]
    /\ \A t \in Threads : Among(t, to_start) => pc[t] = "off"

(* A thread in the handler has left its loop.                              *)
Handling == \A s \in {"control", "reader"} : stop[s] # "out" => pc[s] = "stop"

(* The writer has a command in hand exactly while it writes it.            *)
InHand == pc["writer"] \in {"write", "drainwrite"} <=> cmd # "none"

(* A signal that has not come yet has no call.                             *)
Unused == \A i \in 1..Len(Signals) : i > stops => stop[Signals[i]] = "out"

TInv == Placed /\ Places /\ Scalars /\ Lists /\ Handlers /\ Starting /\ Handling /\ InHand /\ Unused

(* The reader before it has opened the port, up to the end of its setup,   *)
(* and later.                                                              *)
Unopened == {"off", "delay", "open", "opening"}
Opened   == {"setup", "echo", "ready", "done"}
Later    == {"loop", "final", "check", "stop", "dead"}

(* A reader that runs on past its setup, or ends, has said so; a capture   *)
(* whose setup is not over has a reader that has still to say so.          *)
Expected ==
    /\ pc["reader"] \in {"loop", "check", "stop"} => setup_done
    /\ running /\ ~setup_done =>
        \/ pc["reader"] \in {"delay", "open", "opening", "final"} \cup Opened
        \/ Among("reader", to_start)

(* No stop_sig_handler waits for a reader that is gone.                    *)
WaitsForReader ==
    \A s \in Stoppers : stop[s] = "wait" /\ running /\ ~setup_done =>
        pc["reader"] \notin {"loop", "check", "stop", "dead"}

(* Before its first capture the object is as __init__ left it.             *)
Fresh ==
    captures = 0 =>
        /\ ~running /\ ~setup_done /\ serial = "none" /\ serial_queue = <<>>
        /\ threads = <<>> /\ to_start = <<>> /\ stops = 0 /\ calls = 0
        /\ pc["main"] = "idle" /\ \A t \in Threads : pc[t] = "off"
        /\ \A s \in Stoppers : stop[s] = "out"
        /\ device = "unknown" /\ cmd = "none"

(* The reader opens the port once, and only while the capture runs; the    *)
(* port is given up only when it does not run any more.                    *)
Reading ==
    /\ setup_done => pc["reader"] \in Later
    /\ pc["reader"] \in Unopened => serial = "none"
    /\ captures > 0 =>
        /\ pc["reader"] \in Unopened => running
        /\ pc["reader"] \notin Unopened /\ serial = "none" => ~running

(* What a handler has seen stays true: the setup had ended, or the capture *)
(* had stopped.                                                            *)
Stopping ==
    \A s \in Stoppers :
        /\ stop[s] = "check" => ~running \/ setup_done
        /\ stop[s] \in {"put", "clear", "join"} => setup_done
        /\ stop[s] \in {"join", "close", "closing"} => ~running

(* A handler that has returned leaves the port released, for good.         *)
Released ==
    (stops > 0 /\ MainRuns) \/ pc["control"] = "dead" => ~running /\ serial = "none"

(* A writer or fifo thread that lives is listed, and whoever joins the     *)
(* threads has it still before him or will keep it.                        *)
Kept ==
    \A t \in {"writer", "fifo"} : ~Ended(t) \/ to_start # <<>> =>
        /\ Among(t, threads)
        /\ \A s \in Stoppers : stop[s] = "join" =>
            Among(t, joining[s]) \/ (t = "fifo" /\ Among(t, alive[s]))

(* The inductive invariant of the first capture.                           *)
Once == Fresh /\ Reading /\ Stopping /\ Released /\ Kept

(* Without a control pipe there is no control thread.                      *)
NoControl == pc["control"] = "off" /\ stop["control"] = "out" /\ ~Among("control", to_start)

(* The firmware has not been told to receive, nor will it be by what is    *)
(* already queued.                                                         *)
NoReceive == device # "receive" /\ cmd # "receive" /\ ~Among("receive", serial_queue)

(* Whatever is written of the queue, the firmware sleeps afterwards.       *)
SleepsLast ==
    IF serial_queue # <<>> THEN serial_queue[Len(serial_queue)] = "sleep"
    ELSE IF cmd # "none" THEN cmd = "sleep"
    ELSE device = "sleep"

(* The writer drains only when the capture has stopped, and nothing is     *)
(* queued before the port is open.                                         *)
Writing ==
    /\ pc["writer"] \in {"drain", "drainwrite", "dead"} => ~running
    /\ pc["reader"] \in Unopened => serial_queue = <<>> /\ pc["writer"] \in {"off", "loop", "get"}

(* As long as the sniffer is plugged in: receive is queued once, at the    *)
(* end of the setup, and the capture runs until then.                      *)
Setup ==
    plugged =>
        /\ pc["reader"] \in Unopened \cup (Opened \ {"done"}) => NoReceive
        /\ captures > 0 /\ pc["reader"] \in Unopened \cup Opened => running
        /\ serial = "closed" => NoReceive /\ pc["reader"] \in Later \ {"loop"}

(* A call counts as long as it lasts: of one call, no other is under way.  *)
Single ==
    /\ calls = 0 => \A s \in Stoppers : stop[s] = "out"
    /\ calls <= 1 => \A s, t \in Stoppers : stop[s] # "out" /\ stop[t] # "out" => s = t

(* A single call finds the capture running, queues sleep last, joins the   *)
(* writer, and only then closes the port.                                  *)
Sleeping ==
    plugged /\ ~NoReceive =>
        /\ calls = 0 => running
        /\ \A s \in Stoppers : stop[s] \in {"wait", "check", "put", "clear"} => running
        /\ ~running \/ (\E s \in Stoppers : stop[s] = "clear") => SleepsLast
        /\ ~running => Ended("writer") \/ \E s \in Stoppers : stop[s] = "join"
        /\ serial = "none" => Ended("writer")
        /\ pc["writer"] = "dead" => device = "sleep"

(* The inductive invariant of the first capture, if it is stopped once.    *)
OnceAlone == Once /\ Writing /\ Setup /\ Single /\ (calls <= 1 => Sleeping)

(* TypeOK is those parts.                                                  *)
LEMMA TypesAre == Placed => (TypeOK <=> Places /\ Scalars /\ Lists /\ Handlers)
<1>1. Placed => (DOMAIN pc = Threads \cup {"main"}
                 /\ (\A t \in Threads \cup {"main"} : pc[t] \in PcValues[t]) <=> Places)
  BY DEF Placed, Places, PcValues, Threads
<1> QED
  BY <1>1 DEF Scalars, Lists, Handlers, TypeOK

(* Going on changes one thread's place.                                    *)
LEMMA GotoIs ==
    ASSUME Placed, NEW t \in Threads \cup {"main"}, NEW where, Goto(t, where)
    PROVE  /\ Placed'
           /\ pc'[t] = where
           /\ \A u \in Threads \cup {"main"} : u # t => pc'[u] = pc[u]
BY DEF Placed, Goto

(* The calls of main are no threads, and the next signal has one.          *)
LEMMA CallsAre ==
    /\ MainCalls \subseteq Stoppers /\ {"control", "reader"} \subseteq Stoppers
    /\ \A c \in MainCalls : c \notin Threads /\ c # "main"
    /\ \A s \in Stoppers : s \notin MainCalls <=> s \in {"control", "reader"}
    /\ \A n \in Nat : n < Len(Signals) => n + 1 \in 1..Len(Signals) /\ Signals[n + 1] \in MainCalls
BY SnifferAssumption DEF MainCalls, Stoppers, Threads

(* A thread that returns from the handler ends, main resumes.              *)
LEMMA ResumeIs ==
    ASSUME Placed, NEW s \in Stoppers, Resume(s)
    PROVE  /\ Placed'
           /\ s \notin MainCalls => pc'[s] = "dead"
           /\ \A u \in Threads \cup {"main"} : u # s \/ s \in MainCalls => pc'[u] = pc[u]
BY CallsAre DEF Placed, Resume, Threads

(* A thread that the handler leaves with an exception ends as well, main   *)
(* crashes.                                                                *)
LEMMA RaisesIs ==
    ASSUME Placed, NEW s \in Stoppers, StopCloseRaises(s)
    PROVE  /\ Placed'
           /\ s \notin MainCalls => pc'[s] = "dead" /\ pc'["main"] = pc["main"]
           /\ s \in MainCalls => pc'["main"] = "crashed"
           /\ \A u \in Threads : u # s => pc'[u] = pc[u]
           /\ stop[s] = "closing" /\ serial = "none" /\ serial' = "none"
           /\ stop' \in [Stoppers -> {stop[c] : c \in Stoppers} \cup {"out"}]
           /\ stop'[s] = "out"
           /\ \A c \in Stoppers : stop'[c] = "out" \/ stop'[c] = stop[c]
           /\ \A c \in Stoppers : c # s /\ ~({s, c} \subseteq MainCalls) => stop'[c] = stop[c]
           /\ s \in MainCalls => \A c \in MainCalls : stop'[c] = "out"
BY CallsAre, GotoIs DEF StopCloseRaises, Threads

(* A signal starts one call, of main.                                      *)
LEMMA SignalIs ==
    ASSUME TInv, Signal
    PROVE  /\ Signals[stops + 1] \in MainCalls /\ stop'[Signals[stops + 1]] = "wait"
           /\ \A c \in Stoppers : c # Signals[stops + 1] => stop'[c] = stop[c]
           /\ stop' \in [Stoppers -> {stop[c] : c \in Stoppers} \cup {"wait"}]
           /\ stops' = stops + 1 /\ calls' = calls + 1 /\ pc' = pc
BY CallsAre DEF TInv, Scalars, Handlers, Signal

(* A step of one call moves no other, except for leaving with an exception *)
(* the calls it interrupted.                                               *)
LEMMA StopIs ==
    ASSUME TInv, NEW s \in Stoppers, Stop(s)
    PROVE  /\ stop[s] # "out"
           /\ \A c \in Stoppers : c # s => stop'[c] = stop[c] \/ stop'[c] = "out"
           /\ UNCHANGED <<stops, calls>>
<1> USE DEF TInv, Handlers, Step, joins, starts
<1>1. CASE StopWait(s) \/ StopCheck(s) \/ StopPut(s) \/ StopClear(s) \/ StopJoin(s) \/ StopPrune(s)
  BY <1>1 DEF StopWait, StopCheck, StopPut, StopClear, StopJoin, StopPrune
<1>2. CASE StopNothingOpen(s) \/ StopFoundOpen(s) \/ StopClose(s)
  BY <1>2 DEF StopNothingOpen, StopFoundOpen, StopClose
<1>3. CASE StopCloseRaises(s)
  BY <1>3, RaisesIs DEF StopCloseRaises
<1> QED
  BY <1>1, <1>2, <1>3 DEF Stop

(* The threads of a capture, once each, and the first of a list.           *)
LEMMA ThreadListIs ==
    /\ ThreadList \in Seq(Threads) /\ ThreadList # <<>>
    /\ Among("reader", ThreadList) /\ Among("writer", ThreadList) /\ Among("fifo", ThreadList)
    /\ \A i, j \in 1..Len(ThreadList) : i < j => ThreadList[i] # ThreadList[j]
    /\ ~HasControl => ~Among("control", ThreadList)
<1> DEFINE four == <<"control", "reader", "writer", "fifo">>
           three == <<"reader", "writer", "fifo">>
<1>1. four \in Seq(Threads) /\ Len(four) = 4
  BY DEF Threads
<1>2. three \in Seq(Threads) /\ Len(three) = 3
  BY DEF Threads
<1>3. Among("reader", four) /\ Among("writer", four) /\ Among("fifo", four)
  <2>1. /\ four[2] = "reader" /\ four[3] = "writer" /\ four[4] = "fifo"
        /\ \A i \in {2, 3, 4} : i \in 1..Len(four)
    BY <1>1
  <2> QED
    BY <2>1 DEF Among
<1>4. Among("reader", three) /\ Among("writer", three) /\ Among("fifo", three) /\ ~Among("control", three)
  <2>1. three[1] = "reader" /\ three[2] = "writer" /\ three[3] = "fifo" /\ 1..Len(three) = {1, 2, 3}
    BY <1>2
  <2> QED
    BY <2>1 DEF Among
<1>5. \A i, j \in 1..Len(four) : i < j => four[i] # four[j]
  BY <1>1
<1>6. \A i, j \in 1..Len(three) : i < j => three[i] # three[j]
  BY <1>2
<1>7. CASE HasControl
  <2>1. ThreadList = four
    BY <1>7 DEF ThreadList
  <2> QED
    BY <1>1, <1>3, <1>5, <1>7, <2>1
<1>8. CASE ~HasControl
  <2>1. ThreadList = three
    BY <1>8 DEF ThreadList
  <2> QED
    BY <1>2, <1>4, <1>6, <1>8, <2>1
<1> QED
  BY <1>7, <1>8

(* The lists' operators, for any sequence: what is in the head, the tail,  *)
(* and the list with one more element.                                     *)
LEMMA HeadAmong ==
    ASSUME NEW S, NEW q \in Seq(S), q # <<>>
    PROVE  /\ Head(q) \in S /\ Tail(q) \in Seq(S) /\ Len(Tail(q)) = Len(q) - 1
           /\ Among(Head(q), q)
           /\ \A i \in 1..Len(Tail(q)) : Tail(q)[i] = q[i + 1] /\ i + 1 \in 1..Len(q)
           /\ \A x : Among(x, q) <=> x = Head(q) \/ Among(x, Tail(q))
<1>1. Len(q) \in Nat /\ Len(q) > 0 /\ Head(q) = q[1] /\ Head(q) \in S
  OBVIOUS
<1>2. Tail(q) \in Seq(S) /\ Len(Tail(q)) = Len(q) - 1
  OBVIOUS
<1>3. \A i \in 1..Len(Tail(q)) : Tail(q)[i] = q[i + 1] /\ i + 1 \in 1..Len(q)
  BY <1>1, <1>2
<1>4. \A x : x = Head(q) \/ Among(x, Tail(q)) => Among(x, q)
  <2>1. 1 \in 1..Len(q)
    BY <1>1
  <2> QED
    BY <1>1, <1>3, <2>1 DEF Among
<1>5. ASSUME NEW x, Among(x, q), x # Head(q) PROVE Among(x, Tail(q))
  <2>1. PICK i \in 1..Len(q) : q[i] = x
    BY <1>5 DEF Among
  <2>2. i # 1
    BY <1>1, <1>5, <2>1
  <2>3. i - 1 \in 1..Len(Tail(q)) /\ (i - 1) + 1 = i
    BY <1>1, <1>2, <2>2
  <2>4. Tail(q)[i - 1] = x
    BY <1>3, <2>1, <2>3
  <2> QED
    BY <2>3, <2>4 DEF Among
<1> QED
  BY <1>1, <1>2, <1>3, <1>4, <1>5

LEMMA AppendAmong ==
    ASSUME NEW S, NEW q \in Seq(S), NEW y \in S
    PROVE  /\ Append(q, y) \in Seq(S) /\ Append(q, y) # <<>>
           /\ Append(q, y)[Len(Append(q, y))] = y
           /\ \A x : Among(x, Append(q, y)) <=> Among(x, q) \/ x = y
<1>1. /\ Append(q, y) \in Seq(S) /\ Len(Append(q, y)) = Len(q) + 1 /\ Len(q) \in Nat
      /\ Append(q, y)[Len(q) + 1] = y
      /\ \A i \in 1..Len(q) : Append(q, y)[i] = q[i]
  OBVIOUS
<1>2. \A x : Among(x, q) \/ x = y => Among(x, Append(q, y))
  <2>1. Len(q) + 1 \in 1..Len(Append(q, y)) /\ \A i \in 1..Len(q) : i \in 1..Len(Append(q, y))
    BY <1>1
  <2> QED
    BY <1>1, <2>1 DEF Among
<1>3. ASSUME NEW x, Among(x, Append(q, y)), x # y PROVE Among(x, q)
  <2>1. PICK i \in 1..Len(Append(q, y)) : Append(q, y)[i] = x
    BY <1>3 DEF Among
  <2>2. i # Len(q) + 1
    BY <1>1, <1>3, <2>1
  <2>3. i \in 1..Len(q)
    BY <1>1, <2>2
  <2> QED
    BY <1>1, <2>1, <2>3 DEF Among
<1>4. Append(q, y) # <<>>
  BY <1>1
<1> QED
  BY <1>1, <1>2, <1>3, <1>4

LEMMA TwoAmong ==
    ASSUME NEW S, NEW q \in Seq(S), NEW y \in S, NEW z \in S
    PROVE  /\ q \o <<y, z>> \in Seq(S)
           /\ \A x : Among(x, q \o <<y, z>>) <=> Among(x, q) \/ x = y \/ x = z
<1> DEFINE r == Append(q, y)
<1>1. r \in Seq(S) /\ \A x : Among(x, r) <=> Among(x, q) \/ x = y
  BY AppendAmong
<1>2. q \o <<y, z>> = Append(r, z)
  OBVIOUS
<1> HIDE DEF r
<1>3. Append(r, z) \in Seq(S) /\ \A x : Among(x, Append(r, z)) <=> Among(x, r) \/ x = z
  BY <1>1, AppendAmong
<1> QED
  BY <1>1, <1>2, <1>3

LEMMA EmptyAmong == \A x : ~Among(x, <<>>)
BY DEF Among

(* Every step keeps every thread at a place of its own.                    *)
LEMMA PlacesNext ==
    ASSUME TInv, [Next]_vars
    PROVE  Placed' /\ Places'
<1> USE GotoIs, ResumeIs, RaisesIs, CallsAre DEF TInv, Places, Threads, Stoppers, At, events,
     packets, sniffer, joins, starts
<1>1. ASSUME StartCapture PROVE Placed' /\ Places'
  BY <1>1 DEF StartCapture, ThreadList, Placed, AllEnded, Ended
<1>2. ASSUME RefuseCapture PROVE Placed' /\ Places'
  BY <1>2 DEF RefuseCapture
<1>3. CASE Main
  <2>1. CASE StartThread
    BY <2>1 DEF StartThread, FirstStep, Lists, Starting
  <2>2. CASE AllStarted
    BY <2>2 DEF AllStarted
  <2>3. CASE CaptureReturns
    BY <2>3 DEF CaptureReturns
  <2> QED
    BY <1>3, <2>1, <2>2, <2>3 DEF Main
<1>4. ASSUME Signal PROVE Placed' /\ Places'
  BY <1>4 DEF Signal, Placed
<1>5. ASSUME NEW s \in Stoppers, Stop(s) PROVE Placed' /\ Places'
  <2>1. CASE StopWait(s)
    BY <2>1 DEF StopWait, Step, Placed
  <2>2. CASE StopCheck(s)
    BY <2>2 DEF StopCheck, Step, Placed
  <2>3. CASE StopPut(s)
    BY <2>3 DEF StopPut, Step, Placed
  <2>4. CASE StopClear(s)
    BY <2>4 DEF StopClear, Step, Placed
  <2>5. CASE StopJoin(s)
    BY <2>5 DEF StopJoin, MayBlock, Placed
  <2>6. CASE StopPrune(s)
    BY <2>6 DEF StopPrune, Step, Placed
  <2>7. CASE StopNothingOpen(s)
    BY <2>7 DEF StopNothingOpen, Step
  <2>8. CASE StopFoundOpen(s)
    BY <2>8 DEF StopFoundOpen, Step, Placed
  <2>9. CASE StopClose(s)
    BY <2>9 DEF StopClose, Step
  <2>10. CASE StopCloseRaises(s)
    BY <2>10 DEF StopCloseRaises, Step
  <2> QED
    BY <1>5, <2>1, <2>2, <2>3, <2>4, <2>5, <2>6, <2>7, <2>8, <2>9, <2>10 DEF Stop
<1>6. CASE Reader
  <2>1. CASE ReaderDelay
    BY <2>1 DEF ReaderDelay, ReaderMoves
  <2>2. CASE ReaderTest
    BY <2>2 DEF ReaderTest, ReaderMoves
  <2>3. CASE ReaderOpens
    BY <2>3 DEF ReaderOpens, ReaderMoves
  <2>4. CASE ReaderRetries
    BY <2>4 DEF ReaderRetries, ReaderMoves
  <2>5. CASE ReaderGivesUp
    BY <2>5 DEF ReaderGivesUp, ReaderMoves
  <2>6. CASE ReaderSetup
    BY <2>6 DEF ReaderSetup, ReaderMoves, Usable
  <2>7. CASE ReaderEchoed
    BY <2>7 DEF ReaderEchoed, ReaderMoves, Usable
  <2>8. CASE ReaderMisreads
    BY <2>8 DEF ReaderMisreads, ReaderMoves
  <2>9. CASE ReaderReady
    BY <2>9 DEF ReaderReady, ReaderMoves
  <2>10. CASE ReaderDone
    BY <2>10 DEF ReaderDone, ReaderMoves
  <2>11. CASE ReaderPacket
    BY <2>11 DEF ReaderPacket, Usable, Placed
  <2>12. CASE ReaderLeavesLoop
    BY <2>12 DEF ReaderLeavesLoop, ReaderMoves
  <2>13. CASE ReaderFails
    BY <2>13 DEF ReaderFails, ReaderMoves, Usable
  <2>14. CASE ReaderFinal
    BY <2>14 DEF ReaderFinal, ReaderMoves
  <2>15. CASE ReaderCheck
    BY <2>15 DEF ReaderCheck
  <2> QED
    BY <1>6, <2>1, <2>2, <2>3, <2>4, <2>5, <2>6, <2>7, <2>8, <2>9, <2>10,
         <2>11, <2>12, <2>13, <2>14, <2>15 DEF Reader
<1>7. CASE Writer
  <2>1. CASE WriterLoop
    BY <2>1 DEF WriterLoop, WriterMoves
  <2>2. CASE WriterTakes
    BY <2>2 DEF WriterTakes, WriterMoves
  <2>3. CASE WriterFindsNone
    BY <2>3 DEF WriterFindsNone, WriterMoves
  <2>4. CASE WriterWrites
    <3>1. /\ WriterMoves("write", "loop") \/ WriterMoves("drainwrite", "drain")
          /\ cmd' = "none"
      BY <2>4 DEF WriterWrites
    <3> QED
      BY <3>1 DEF WriterMoves
  <2>5. CASE WriterIOError
    BY <2>5 DEF WriterIOError, WriterMoves, Usable
  <2>6. CASE WriterCrashes
    BY <2>6 DEF WriterCrashes, WriterMoves
  <2> QED
    BY <1>7, <2>1, <2>2, <2>3, <2>4, <2>5, <2>6 DEF Writer
<1>8. CASE Fifo
  <2>1. CASE FifoLoop
    BY <2>1 DEF FifoLoop, FifoMoves
  <2>2. CASE FifoTakes
    BY <2>2 DEF FifoTakes, FifoMoves
  <2>3. CASE FifoFindsNone
    BY <2>3 DEF FifoFindsNone, FifoMoves
  <2>4. CASE FifoWrites
    BY <2>4 DEF FifoWrites, FifoMoves
  <2> QED
    BY <1>8, <2>1, <2>2, <2>3, <2>4 DEF Fifo
<1>9. CASE Environment
  <2>1. CASE ControlEnds
    BY <2>1 DEF ControlEnds
  <2>2. CASE FifoOpened
    BY <2>2 DEF FifoOpened, FifoMoves
  <2>3. CASE Unplug
    BY <2>3 DEF Unplug, Placed
  <2>4. CASE ReaderRaises
    BY <2>4 DEF ReaderRaises, ReaderMoves, Usable
  <2> QED
    BY <1>9, <2>1, <2>2, <2>3, <2>4 DEF Environment
<1>10. CASE UNCHANGED vars
  BY <1>10 DEF vars, Placed
<1> QED
  BY <1>1, <1>2, <1>3, <1>4, <1>5, <1>6, <1>7, <1>8, <1>9, <1>10 DEF Next

(* The fifo thread takes packets, and changes no other of these.           *)
LEMMA FifoIs ==
    ASSUME Fifo
    PROVE  /\ UNCHANGED <<running, setup_done, serial, cmd, device, plugged, echoed, sniffed,
                          captures, stops, calls, refused>>
           /\ packet_queue' = packet_queue \/ (packet_queue > 0 /\ packet_queue' = packet_queue - 1)
<1>1. UNCHANGED <<running, setup_done, serial, cmd, device, plugged, echoed, sniffed,
                 captures, stops, calls, refused>>
  BY DEF Fifo, FifoLoop, FifoMoves, FifoTakes, FifoFindsNone, FifoWrites, events, sniffer, starts
<1>2. packet_queue' = packet_queue \/ (packet_queue > 0 /\ packet_queue' = packet_queue - 1)
  BY DEF Fifo, FifoLoop, FifoTakes, FifoFindsNone, FifoWrites
<1> QED
  BY <1>1, <1>2

(* Every step keeps the flags, the port and the counters.                  *)
LEMMA ScalarsNext ==
    ASSUME TInv, [Next]_vars
    PROVE  Scalars'
<1> USE SnifferAssumption DEF TInv, Scalars, InHand, Lists, At, Commands,
     Stoppers, events, packets, sniffer, joins, starts
<1>1. ASSUME StartCapture PROVE Scalars'
  <2>1. /\ captures' = captures + 1 /\ captures < MaxCaptures
        /\ running' = TRUE /\ packet_queue' = 0 /\ sniffed' = 0 /\ echoed' = 0
        /\ UNCHANGED <<setup_done, serial, cmd, device, plugged, stops, calls, refused>>
    BY <1>1 DEF StartCapture
  <2>2. captures' \in 0..MaxCaptures
    BY <2>1
  <2>3. packet_queue' \in 0..sniffed' /\ sniffed' \in 0..MaxPackets /\ echoed' \in 0..2
    BY <2>1
  <2> QED
    BY <2>1, <2>2, <2>3
<1>2. ASSUME RefuseCapture PROVE Scalars'
  BY <1>2 DEF RefuseCapture
<1>3. CASE Main
  <2>1. UNCHANGED <<events, serial, cmd, sniffer, packets, captures, stops, calls, refused>>
    BY <1>3 DEF Main, StartThread, AllStarted, CaptureReturns
  <2> QED
    BY <2>1
<1>4. ASSUME Signal PROVE Scalars'
  <2>1. /\ stops' = stops + 1 /\ calls' = calls + 1 /\ stops < Len(Signals)
        /\ UNCHANGED <<events, serial, cmd, sniffer, packets, captures, refused>>
    BY <1>4 DEF Signal
  <2>2. stops' \in 0..Len(Signals)
    BY <2>1
  <2> QED
    BY <2>1, <2>2
<1>5. ASSUME NEW s \in Stoppers, Stop(s) PROVE Scalars'
  <2>1. CASE StopWait(s)
    BY <2>1 DEF StopWait, Step
  <2>2. CASE StopCheck(s)
    BY <2>2 DEF StopCheck, Step
  <2>3. CASE StopPut(s)
    BY <2>3 DEF StopPut, Step
  <2>4. CASE StopClear(s)
    BY <2>4 DEF StopClear, Step
  <2>5. CASE StopJoin(s)
    BY <2>5 DEF StopJoin, MayBlock
  <2>6. CASE StopPrune(s)
    BY <2>6 DEF StopPrune, Step
  <2>7. CASE StopNothingOpen(s)
    BY <2>7 DEF StopNothingOpen, Step
  <2>8. CASE StopFoundOpen(s)
    BY <2>8 DEF StopFoundOpen, Step
  <2>9. CASE StopClose(s)
    BY <2>9 DEF StopClose, Step
  <2>10. CASE StopCloseRaises(s)
    BY <2>10 DEF StopCloseRaises, Step
  <2> QED
    BY <1>5, <2>1, <2>2, <2>3, <2>4, <2>5, <2>6, <2>7, <2>8, <2>9, <2>10 DEF Stop
<1>6. CASE Reader
  <2>1. CASE ReaderDelay
    BY <2>1 DEF ReaderDelay, ReaderMoves
  <2>2. CASE ReaderTest
    BY <2>2 DEF ReaderTest, ReaderMoves
  <2>3. CASE ReaderOpens
    BY <2>3 DEF ReaderOpens, ReaderMoves
  <2>4. CASE ReaderRetries
    BY <2>4 DEF ReaderRetries, ReaderMoves
  <2>5. CASE ReaderGivesUp
    BY <2>5 DEF ReaderGivesUp, ReaderMoves
  <2>6. CASE ReaderSetup
    BY <2>6 DEF ReaderSetup, ReaderMoves, Usable
  <2>7. CASE ReaderEchoed
    BY <2>7 DEF ReaderEchoed, ReaderMoves, Usable
  <2>8. CASE ReaderMisreads
    BY <2>8 DEF ReaderMisreads, ReaderMoves
  <2>9. CASE ReaderReady
    BY <2>9 DEF ReaderReady, ReaderMoves
  <2>10. CASE ReaderDone
    BY <2>10 DEF ReaderDone, ReaderMoves
  <2>11. CASE ReaderPacket
    BY <2>11 DEF ReaderPacket, Usable
  <2>12. CASE ReaderLeavesLoop
    BY <2>12 DEF ReaderLeavesLoop, ReaderMoves
  <2>13. CASE ReaderFails
    BY <2>13 DEF ReaderFails, ReaderMoves, Usable
  <2>14. CASE ReaderFinal
    BY <2>14 DEF ReaderFinal, ReaderMoves
  <2>15. CASE ReaderCheck
    BY <2>15 DEF ReaderCheck
  <2> QED
    BY <1>6, <2>1, <2>2, <2>3, <2>4, <2>5, <2>6, <2>7, <2>8, <2>9, <2>10,
         <2>11, <2>12, <2>13, <2>14, <2>15 DEF Reader
<1>7. CASE Writer
  <2>1. CASE WriterLoop
    BY <2>1 DEF WriterLoop, WriterMoves
  <2>2. CASE WriterTakes
    <3>1. cmd' \in Commands
      BY <2>2, HeadAmong DEF WriterTakes
    <3>2. UNCHANGED <<running, setup_done, serial, device, plugged, echoed, packets, starts>>
      BY <2>2 DEF WriterTakes, WriterMoves
    <3> QED
      BY <3>1, <3>2
  <2>3. CASE WriterFindsNone
    BY <2>3 DEF WriterFindsNone, WriterMoves
  <2>4. CASE WriterWrites
    <3>1. cmd \in Commands
      BY <2>4 DEF WriterWrites, WriterMoves
    <3>2. /\ device' = IF cmd = "channel" THEN device ELSE cmd
          /\ echoed' = IF echoed < 2 THEN echoed + 1 ELSE 2
          /\ cmd' = "none"
          /\ UNCHANGED <<running, setup_done, serial, plugged, packets, starts>>
      BY <2>4 DEF WriterWrites, WriterMoves
    <3> QED
      BY <3>1, <3>2
  <2>5. CASE WriterIOError
    BY <2>5 DEF WriterIOError, WriterMoves, Usable
  <2>6. CASE WriterCrashes
    BY <2>6 DEF WriterCrashes, WriterMoves
  <2> QED
    BY <1>7, <2>1, <2>2, <2>3, <2>4, <2>5, <2>6 DEF Writer
<1>8. CASE Fifo
  <2>1. packet_queue' \in 0..sniffed
    BY <1>8, FifoIs
  <2> QED
    BY <1>8, <2>1, FifoIs
<1>9. CASE Environment
  <2>1. CASE ControlEnds
    BY <2>1 DEF ControlEnds
  <2>2. CASE FifoOpened
    <3>1. UNCHANGED <<running, setup_done, serial, cmd, device, plugged, echoed, packets, starts>>
      BY <2>2 DEF FifoOpened, FifoMoves
    <3> QED
      BY <3>1
  <2>3. CASE Unplug
    BY <2>3 DEF Unplug
  <2>4. CASE ReaderRaises
    BY <2>4 DEF ReaderRaises, ReaderMoves, Usable
  <2> QED
    BY <1>9, <2>1, <2>2, <2>3, <2>4 DEF Environment
<1>10. CASE UNCHANGED vars
  BY <1>10 DEF vars
<1> QED
  BY <1>1, <1>2, <1>3, <1>4, <1>5, <1>6, <1>7, <1>8, <1>9, <1>10 DEF Next

(* Every step keeps the lists.                                             *)
LEMMA ListsNext ==
    ASSUME TInv, [Next]_vars
    PROVE  Lists'
<1> USE ThreadListIs DEF TInv, Lists, events, packets, sniffer, joins, starts
<1>1. ASSUME StartCapture PROVE Lists'
  BY <1>1 DEF StartCapture
<1>2. ASSUME RefuseCapture PROVE Lists'
  BY <1>2 DEF RefuseCapture
<1>3. CASE Main
  <2>1. CASE StartThread
    BY <2>1 DEF StartThread
  <2>2. CASE AllStarted
    BY <2>2 DEF AllStarted
  <2>3. CASE CaptureReturns
    BY <2>3 DEF CaptureReturns
  <2> QED
    BY <1>3, <2>1, <2>2, <2>3 DEF Main
<1>4. ASSUME Signal PROVE Lists'
  BY <1>4 DEF Signal
<1>5. ASSUME NEW s \in Stoppers, Stop(s) PROVE Lists'
  <2>1. CASE StopWait(s)
    BY <2>1 DEF StopWait, Step, Handlers, Stoppers, Commands
  <2>2. CASE StopCheck(s)
    BY <2>2 DEF StopCheck, Step, Handlers, Stoppers, Commands
  <2>3. CASE StopPut(s)
    BY <2>3 DEF StopPut, Step, Handlers, Stoppers, Commands
  <2>4. CASE StopClear(s)
    BY <2>4 DEF StopClear, Step, Handlers, Stoppers, Commands
  <2>5. CASE StopJoin(s)
    BY <2>5 DEF StopJoin, MayBlock, Handlers, Stoppers, Commands
  <2>6. CASE StopPrune(s)
    BY <2>6 DEF StopPrune, Step, Handlers, Stoppers, Commands
  <2>7. CASE StopNothingOpen(s)
    BY <2>7 DEF StopNothingOpen, Step, Handlers, Stoppers, Commands
  <2>8. CASE StopFoundOpen(s)
    BY <2>8 DEF StopFoundOpen, Step, Handlers, Stoppers, Commands
  <2>9. CASE StopClose(s)
    BY <2>9 DEF StopClose, Step, Handlers, Stoppers, Commands
  <2>10. CASE StopCloseRaises(s)
    BY <2>10 DEF StopCloseRaises, Step, Handlers, Stoppers, Commands
  <2> QED
    BY <1>5, <2>1, <2>2, <2>3, <2>4, <2>5, <2>6, <2>7, <2>8, <2>9, <2>10 DEF Stop
<1>6. CASE Reader
  <2>1. CASE ReaderDelay
    BY <2>1 DEF ReaderDelay, ReaderMoves
  <2>2. CASE ReaderTest
    BY <2>2 DEF ReaderTest, ReaderMoves
  <2>3. CASE ReaderOpens
    BY <2>3 DEF ReaderOpens, ReaderMoves
  <2>4. CASE ReaderRetries
    BY <2>4 DEF ReaderRetries, ReaderMoves
  <2>5. CASE ReaderGivesUp
    BY <2>5 DEF ReaderGivesUp, ReaderMoves
  <2>6. CASE ReaderSetup
    BY <2>6 DEF ReaderSetup, ReaderMoves, Usable, Commands
  <2>7. CASE ReaderEchoed
    BY <2>7 DEF ReaderEchoed, ReaderMoves, Usable
  <2>8. CASE ReaderMisreads
    BY <2>8 DEF ReaderMisreads, ReaderMoves
  <2>9. CASE ReaderReady
    BY <2>9 DEF ReaderReady, ReaderMoves, Commands
  <2>10. CASE ReaderDone
    BY <2>10 DEF ReaderDone, ReaderMoves
  <2>11. CASE ReaderPacket
    BY <2>11 DEF ReaderPacket, Usable
  <2>12. CASE ReaderLeavesLoop
    BY <2>12 DEF ReaderLeavesLoop, ReaderMoves
  <2>13. CASE ReaderFails
    BY <2>13 DEF ReaderFails, ReaderMoves, Usable
  <2>14. CASE ReaderFinal
    BY <2>14 DEF ReaderFinal, ReaderMoves
  <2>15. CASE ReaderCheck
    BY <2>15 DEF ReaderCheck
  <2> QED
    BY <1>6, <2>1, <2>2, <2>3, <2>4, <2>5, <2>6, <2>7, <2>8, <2>9, <2>10,
         <2>11, <2>12, <2>13, <2>14, <2>15 DEF Reader
<1>7. CASE Writer
  <2>1. CASE WriterLoop
    BY <2>1 DEF WriterLoop, WriterMoves
  <2>2. CASE WriterTakes
    BY <2>2 DEF WriterTakes, WriterMoves
  <2>3. CASE WriterFindsNone
    BY <2>3 DEF WriterFindsNone, WriterMoves
  <2>4. CASE WriterWrites
    BY <2>4 DEF WriterWrites, WriterMoves, Usable
  <2>5. CASE WriterIOError
    BY <2>5 DEF WriterIOError, WriterMoves, Usable
  <2>6. CASE WriterCrashes
    BY <2>6 DEF WriterCrashes, WriterMoves
  <2> QED
    BY <1>7, <2>1, <2>2, <2>3, <2>4, <2>5, <2>6 DEF Writer
<1>8. CASE Fifo
  <2>1. CASE FifoLoop
    BY <2>1 DEF FifoLoop, FifoMoves
  <2>2. CASE FifoTakes
    BY <2>2 DEF FifoTakes, FifoMoves
  <2>3. CASE FifoFindsNone
    BY <2>3 DEF FifoFindsNone, FifoMoves
  <2>4. CASE FifoWrites
    BY <2>4 DEF FifoWrites, FifoMoves
  <2> QED
    BY <1>8, <2>1, <2>2, <2>3, <2>4 DEF Fifo
<1>9. CASE Environment
  <2>1. CASE ControlEnds
    BY <2>1 DEF ControlEnds
  <2>2. CASE FifoOpened
    BY <2>2 DEF FifoOpened, FifoMoves
  <2>3. CASE Unplug
    BY <2>3 DEF Unplug
  <2>4. CASE ReaderRaises
    BY <2>4 DEF ReaderRaises, ReaderMoves, Usable
  <2> QED
    BY <1>9, <2>1, <2>2, <2>3, <2>4 DEF Environment
<1>10. CASE UNCHANGED vars
  BY <1>10 DEF vars
<1> QED
  BY <1>1, <1>2, <1>3, <1>4, <1>5, <1>6, <1>7, <1>8, <1>9, <1>10 DEF Next

(* Every step keeps where the handlers are.                                *)
LEMMA HandlersNext ==
    ASSUME TInv, [Next]_vars
    PROVE  Handlers'
<1> USE DEF TInv, Lists, Handlers, Stoppers, events, packets, sniffer, joins,
     starts
<1>1. ASSUME StartCapture PROVE Handlers'
  BY <1>1 DEF StartCapture
<1>2. ASSUME RefuseCapture PROVE Handlers'
  BY <1>2 DEF RefuseCapture
<1>3. CASE Main
  BY <1>3 DEF Main, StartThread, AllStarted, CaptureReturns
<1>4. ASSUME Signal PROVE Handlers'
  BY <1>4 DEF Signal
<1>5. ASSUME NEW s \in Stoppers, Stop(s) PROVE Handlers'
  <2>1. CASE StopWait(s)
    BY <2>1 DEF StopWait, Step
  <2>2. CASE StopCheck(s)
    BY <2>2 DEF StopCheck, Step
  <2>3. CASE StopPut(s)
    BY <2>3 DEF StopPut, Step
  <2>4. CASE StopClear(s)
    BY <2>4 DEF StopClear, Step
  <2>5. CASE StopJoin(s)
    <3>1. joining[s] \in Seq(Threads) /\ alive[s] \in Seq(Threads) /\ joining[s] # <<>>
      BY <2>5 DEF StopJoin
    <3>2. Head(joining[s]) \in Threads /\ Tail(joining[s]) \in Seq(Threads)
      BY <3>1
    <3>3. Append(alive[s], Head(joining[s])) \in Seq(Threads)
      BY <3>1, <3>2
    <3>4. /\ stop' = stop
          /\ joining' = [joining EXCEPT ![s] = Tail(joining[s])]
          /\ alive' = alive \/ alive' = [alive EXCEPT ![s] = Append(alive[s], Head(joining[s]))]
      BY <2>5 DEF StopJoin
    <3>5. alive' \in [Stoppers -> Seq(Threads)]
      BY <3>3, <3>4
    <3>6. joining' \in [Stoppers -> Seq(Threads)]
      BY <3>2, <3>4
    <3> QED
      BY <3>4, <3>5, <3>6
  <2>6. CASE StopPrune(s)
    BY <2>6 DEF StopPrune, Step
  <2>7. CASE StopNothingOpen(s)
    BY <2>7 DEF StopNothingOpen, Step
  <2>8. CASE StopFoundOpen(s)
    BY <2>8 DEF StopFoundOpen, Step
  <2>9. CASE StopClose(s)
    BY <2>9 DEF StopClose, Step
  <2>10. CASE StopCloseRaises(s)
    BY <2>10 DEF StopCloseRaises, Step
  <2> QED
    BY <1>5, <2>1, <2>2, <2>3, <2>4, <2>5, <2>6, <2>7, <2>8, <2>9, <2>10 DEF Stop
<1>6. CASE Reader
  BY <1>6 DEF Reader, ReaderDelay, ReaderMoves, ReaderTest, ReaderOpens,
       ReaderRetries, ReaderGivesUp, ReaderSetup, Usable, ReaderEchoed,
       ReaderMisreads, ReaderReady, ReaderDone, ReaderPacket,
       ReaderLeavesLoop, ReaderFails, ReaderFinal, ReaderCheck
<1>7. CASE Writer
  BY <1>7 DEF Writer, WriterLoop, WriterMoves, WriterTakes, WriterFindsNone,
       WriterWrites, Usable, WriterIOError, WriterCrashes
<1>8. CASE Fifo
  BY <1>8 DEF Fifo, FifoLoop, FifoMoves, FifoTakes, FifoFindsNone, FifoWrites
<1>9. CASE Environment
  BY <1>9 DEF Environment, ControlEnds, FifoOpened, FifoMoves, ReaderRaises, ReaderMoves, Unplug
<1>10. CASE UNCHANGED vars
  BY <1>10 DEF vars
<1> QED
  BY <1>1, <1>2, <1>3, <1>4, <1>5, <1>6, <1>7, <1>8, <1>9, <1>10 DEF Next

(* Every step keeps the command in hand.                                   *)
LEMMA InHandNext ==
    ASSUME TInv, [Next]_vars
    PROVE  InHand'
<1> USE GotoIs, ResumeIs, RaisesIs, CallsAre DEF TInv, InHand, Places, Threads, Stoppers, At,
     events, packets, sniffer, joins, starts
<1>1. ASSUME StartCapture PROVE InHand'
  BY <1>1 DEF StartCapture, ThreadList, Placed, AllEnded, Ended
<1>2. ASSUME RefuseCapture PROVE InHand'
  BY <1>2 DEF RefuseCapture
<1>3. CASE Main
  <2>1. CASE StartThread
    <3>1. Head(to_start) \in Threads /\ pc[Head(to_start)] = "off"
      BY <2>1, HeadAmong DEF StartThread, Lists, Starting
    <3>2. pc'["writer"] \notin {"write", "drainwrite"} <=> pc["writer"] \notin {"write", "drainwrite"}
      BY <2>1, <3>1 DEF StartThread, FirstStep
    <3> QED
      BY <2>1, <3>2 DEF StartThread
  <2>2. CASE AllStarted
    BY <2>2 DEF AllStarted
  <2>3. CASE CaptureReturns
    BY <2>3 DEF CaptureReturns
  <2> QED
    BY <1>3, <2>1, <2>2, <2>3 DEF Main
<1>4. ASSUME Signal PROVE InHand'
  BY <1>4 DEF Signal, Placed
<1>5. ASSUME NEW s \in Stoppers, Stop(s) PROVE InHand'
  <2>1. CASE StopWait(s)
    BY <2>1 DEF StopWait, Step, Placed
  <2>2. CASE StopCheck(s)
    BY <2>2 DEF StopCheck, Step, Placed
  <2>3. CASE StopPut(s)
    BY <2>3 DEF StopPut, Step, Placed
  <2>4. CASE StopClear(s)
    BY <2>4 DEF StopClear, Step, Placed
  <2>5. CASE StopJoin(s)
    BY <2>5 DEF StopJoin, MayBlock, Placed
  <2>6. CASE StopPrune(s)
    BY <2>6 DEF StopPrune, Step, Placed
  <2>7. CASE StopNothingOpen(s)
    BY <2>7 DEF StopNothingOpen, Step
  <2>8. CASE StopFoundOpen(s)
    BY <2>8 DEF StopFoundOpen, Step, Placed
  <2>9. CASE StopClose(s)
    BY <2>9 DEF StopClose, Step
  <2>10. CASE StopCloseRaises(s)
    BY <2>10 DEF StopCloseRaises, Step
  <2> QED
    BY <1>5, <2>1, <2>2, <2>3, <2>4, <2>5, <2>6, <2>7, <2>8, <2>9, <2>10 DEF Stop
<1>6. CASE Reader
  <2>1. CASE ReaderDelay
    BY <2>1 DEF ReaderDelay, ReaderMoves
  <2>2. CASE ReaderTest
    BY <2>2 DEF ReaderTest, ReaderMoves
  <2>3. CASE ReaderOpens
    BY <2>3 DEF ReaderOpens, ReaderMoves
  <2>4. CASE ReaderRetries
    BY <2>4 DEF ReaderRetries, ReaderMoves
  <2>5. CASE ReaderGivesUp
    BY <2>5 DEF ReaderGivesUp, ReaderMoves
  <2>6. CASE ReaderSetup
    BY <2>6 DEF ReaderSetup, ReaderMoves, Usable
  <2>7. CASE ReaderEchoed
    BY <2>7 DEF ReaderEchoed, ReaderMoves, Usable
  <2>8. CASE ReaderMisreads
    BY <2>8 DEF ReaderMisreads, ReaderMoves
  <2>9. CASE ReaderReady
    BY <2>9 DEF ReaderReady, ReaderMoves
  <2>10. CASE ReaderDone
    BY <2>10 DEF ReaderDone, ReaderMoves
  <2>11. CASE ReaderPacket
    BY <2>11 DEF ReaderPacket, Usable, Placed
  <2>12. CASE ReaderLeavesLoop
    BY <2>12 DEF ReaderLeavesLoop, ReaderMoves
  <2>13. CASE ReaderFails
    BY <2>13 DEF ReaderFails, ReaderMoves, Usable
  <2>14. CASE ReaderFinal
    BY <2>14 DEF ReaderFinal, ReaderMoves
  <2>15. CASE ReaderCheck
    BY <2>15 DEF ReaderCheck
  <2> QED
    BY <1>6, <2>1, <2>2, <2>3, <2>4, <2>5, <2>6, <2>7, <2>8, <2>9, <2>10,
         <2>11, <2>12, <2>13, <2>14, <2>15 DEF Reader
<1>7. CASE Writer
  <2>1. CASE WriterLoop
    BY <2>1 DEF WriterLoop, WriterMoves
  <2>2. CASE WriterTakes
    BY <2>2 DEF WriterTakes, WriterMoves, Lists, Commands
  <2>3. CASE WriterFindsNone
    BY <2>3 DEF WriterFindsNone, WriterMoves
  <2>4. CASE WriterWrites
    <3>1. /\ WriterMoves("write", "loop") \/ WriterMoves("drainwrite", "drain")
          /\ cmd' = "none"
      BY <2>4 DEF WriterWrites
    <3> QED
      BY <3>1 DEF WriterMoves
  <2>5. CASE WriterIOError
    BY <2>5 DEF WriterIOError, WriterMoves, Usable
  <2>6. CASE WriterCrashes
    BY <2>6 DEF WriterCrashes, WriterMoves
  <2> QED
    BY <1>7, <2>1, <2>2, <2>3, <2>4, <2>5, <2>6 DEF Writer
<1>8. CASE Fifo
  <2>1. CASE FifoLoop
    BY <2>1 DEF FifoLoop, FifoMoves
  <2>2. CASE FifoTakes
    BY <2>2 DEF FifoTakes, FifoMoves
  <2>3. CASE FifoFindsNone
    BY <2>3 DEF FifoFindsNone, FifoMoves
  <2>4. CASE FifoWrites
    BY <2>4 DEF FifoWrites, FifoMoves
  <2> QED
    BY <1>8, <2>1, <2>2, <2>3, <2>4 DEF Fifo
<1>9. CASE Environment
  <2>1. CASE ControlEnds
    BY <2>1 DEF ControlEnds
  <2>2. CASE FifoOpened
    BY <2>2 DEF FifoOpened, FifoMoves
  <2>3. CASE Unplug
    BY <2>3 DEF Unplug, Placed
  <2>4. CASE ReaderRaises
    BY <2>4 DEF ReaderRaises, ReaderMoves, Usable
  <2> QED
    BY <1>9, <2>1, <2>2, <2>3, <2>4 DEF Environment
<1>10. CASE UNCHANGED vars
  BY <1>10 DEF vars, Placed
<1> QED
  BY <1>1, <1>2, <1>3, <1>4, <1>5, <1>6, <1>7, <1>8, <1>9, <1>10 DEF Next

(* Every step keeps the order of the start.                                *)
LEMMA StartingNext ==
    ASSUME TInv, [Next]_vars
    PROVE  Starting'
<1> USE GotoIs, ResumeIs, RaisesIs, CallsAre DEF TInv, Starting, Handling, MainRuns, Places,
     Threads, Stoppers, At, events, packets, sniffer, joins, starts
<1>1. ASSUME StartCapture PROVE Starting'
  <2>1. /\ to_start' = ThreadList /\ threads' = ThreadList /\ pc'["main"] = "starting" /\ MainRuns'
        /\ \A t \in Threads : pc'[t] = "off"
    BY <1>1 DEF StartCapture
  <2> QED
    BY <2>1, ThreadListIs
<1>2. ASSUME RefuseCapture PROVE Starting'
  BY <1>2 DEF RefuseCapture
<1>3. CASE Main
  <2>1. CASE StartThread
    <3> DEFINE t == Head(to_start)
    <3>1. to_start \in Seq(Threads) /\ to_start # <<>> /\ to_start' = Tail(to_start)
      BY <2>1 DEF StartThread, Lists
    <3>2. /\ t \in Threads /\ Tail(to_start) \in Seq(Threads) /\ Len(Tail(to_start)) = Len(to_start) - 1
          /\ t = to_start[1] /\ Len(to_start) \in Nat /\ Len(to_start) > 0
          /\ \A i \in 1..Len(Tail(to_start)) : Tail(to_start)[i] = to_start[i + 1] /\ i + 1 \in 1..Len(to_start)
          /\ \A x : Among(x, to_start) <=> x = t \/ Among(x, Tail(to_start))
      BY <3>1, HeadAmong
    <3>3. ~Among(t, Tail(to_start))
      <4>1. ASSUME NEW i \in 1..Len(Tail(to_start)) PROVE Tail(to_start)[i] # t
        <5>1. i + 1 \in 1..Len(to_start) /\ 1 \in 1..Len(to_start) /\ 1 < i + 1
          BY <3>2
        <5> QED
          BY <3>2, <5>1
      <4> QED
        BY <4>1 DEF Among
    <3>4. /\ pc'["main"] = "starting" /\ \A u \in Threads : u # t => pc'[u] = pc[u]
          /\ MainRuns /\ threads' = threads /\ stop' = stop
      BY <2>1, <3>2 DEF StartThread
    <3>5. \A i, j \in 1..Len(to_start') : i < j => to_start'[i] # to_start'[j]
      <4>1. ASSUME NEW i \in 1..Len(Tail(to_start)), NEW j \in 1..Len(Tail(to_start)), i < j
            PROVE  Tail(to_start)[i] # Tail(to_start)[j]
        <5>1. i + 1 \in 1..Len(to_start) /\ j + 1 \in 1..Len(to_start) /\ i + 1 < j + 1
          BY <3>2, <4>1
        <5> QED
          BY <3>2, <5>1
      <4> QED
        BY <3>1, <4>1
    <3>6. \A u \in Threads : Among(u, to_start') => pc'[u] = "off"
      BY <3>1, <3>2, <3>3, <3>4
    <3>7. pc'["reader"] \notin {"off", "delay"} => to_start' = <<>>
      <4>1. pc'["reader"] \in {"off", "delay"}
        BY <2>1, <3>1, <3>2, <3>4 DEF StartThread, FirstStep
      <4> QED
        BY <4>1
    <3> QED
      BY <3>1, <3>4, <3>5, <3>6, <3>7 DEF MainRuns
  <2>2. CASE AllStarted
    BY <2>2 DEF AllStarted
  <2>3. CASE CaptureReturns
    BY <2>3 DEF CaptureReturns
  <2> QED
    BY <1>3, <2>1, <2>2, <2>3 DEF Main
<1>4. ASSUME Signal PROVE Starting'
  BY <1>4 DEF Signal, Placed
<1>5. ASSUME NEW s \in Stoppers, Stop(s) PROVE Starting'
  <2>1. CASE StopWait(s)
    BY <2>1 DEF StopWait, Step, Placed, Handlers
  <2>2. CASE StopCheck(s)
    BY <2>2 DEF StopCheck, Step, Placed, Handlers
  <2>3. CASE StopPut(s)
    BY <2>3 DEF StopPut, Step, Placed, Handlers
  <2>4. CASE StopClear(s)
    BY <2>4 DEF StopClear, Step, Placed, Handlers
  <2>5. CASE StopJoin(s)
    BY <2>5 DEF StopJoin, MayBlock, Placed, Step, Handlers
  <2>6. CASE StopPrune(s)
    BY <2>6 DEF StopPrune, Step, Placed, Handlers
  <2>7. CASE StopNothingOpen(s)
    <3>1. /\ stop[s] = "close" /\ stop' = [stop EXCEPT ![s] = "out"] /\ Resume(s)
          /\ UNCHANGED <<threads, to_start>>
      BY <2>7 DEF StopNothingOpen, Step
    <3>2. stop'[s] = "out" /\ \A c \in Stoppers : c # s => stop'[c] = stop[c]
      BY <3>1 DEF Handlers
    <3>3. s \notin MainCalls => pc[s] = "stop" /\ s \in {"control", "reader"}
      BY <3>1
    <3> QED
      BY <3>1, <3>2, <3>3
  <2>8. CASE StopFoundOpen(s)
    BY <2>8 DEF StopFoundOpen, Step, Placed, Handlers
  <2>9. CASE StopClose(s)
    BY <2>9 DEF StopClose, Step, Handlers
  <2>10. CASE StopCloseRaises(s)
    BY <2>10 DEF StopCloseRaises, Step, Handlers
  <2> QED
    BY <1>5, <2>1, <2>2, <2>3, <2>4, <2>5, <2>6, <2>7, <2>8, <2>9, <2>10 DEF Stop
<1>6. CASE Reader
  <2>1. CASE ReaderDelay
    BY <2>1 DEF ReaderDelay, ReaderMoves
  <2>2. CASE ReaderTest
    BY <2>2 DEF ReaderTest, ReaderMoves
  <2>3. CASE ReaderOpens
    BY <2>3 DEF ReaderOpens, ReaderMoves
  <2>4. CASE ReaderRetries
    BY <2>4 DEF ReaderRetries, ReaderMoves
  <2>5. CASE ReaderGivesUp
    BY <2>5 DEF ReaderGivesUp, ReaderMoves
  <2>6. CASE ReaderSetup
    BY <2>6 DEF ReaderSetup, ReaderMoves, Usable
  <2>7. CASE ReaderEchoed
    BY <2>7 DEF ReaderEchoed, ReaderMoves, Usable
  <2>8. CASE ReaderMisreads
    BY <2>8 DEF ReaderMisreads, ReaderMoves
  <2>9. CASE ReaderReady
    BY <2>9 DEF ReaderReady, ReaderMoves
  <2>10. CASE ReaderDone
    BY <2>10 DEF ReaderDone, ReaderMoves
  <2>11. CASE ReaderPacket
    BY <2>11 DEF ReaderPacket, Usable, Placed
  <2>12. CASE ReaderLeavesLoop
    BY <2>12 DEF ReaderLeavesLoop, ReaderMoves
  <2>13. CASE ReaderFails
    BY <2>13 DEF ReaderFails, ReaderMoves, Usable
  <2>14. CASE ReaderFinal
    BY <2>14 DEF ReaderFinal, ReaderMoves
  <2>15. CASE ReaderCheck
    BY <2>15 DEF ReaderCheck
  <2> QED
    BY <1>6, <2>1, <2>2, <2>3, <2>4, <2>5, <2>6, <2>7, <2>8, <2>9, <2>10,
         <2>11, <2>12, <2>13, <2>14, <2>15 DEF Reader
<1>7. CASE Writer
  <2>1. CASE WriterLoop
    BY <2>1 DEF WriterLoop, WriterMoves
  <2>2. CASE WriterTakes
    BY <2>2 DEF WriterTakes, WriterMoves
  <2>3. CASE WriterFindsNone
    BY <2>3 DEF WriterFindsNone, WriterMoves
  <2>4. CASE WriterWrites
    <3>1. /\ WriterMoves("write", "loop") \/ WriterMoves("drainwrite", "drain")
          /\ cmd' = "none"
      BY <2>4 DEF WriterWrites
    <3> QED
      BY <3>1 DEF WriterMoves
  <2>5. CASE WriterIOError
    BY <2>5 DEF WriterIOError, WriterMoves, Usable
  <2>6. CASE WriterCrashes
    BY <2>6 DEF WriterCrashes, WriterMoves
  <2> QED
    BY <1>7, <2>1, <2>2, <2>3, <2>4, <2>5, <2>6 DEF Writer
<1>8. CASE Fifo
  <2>1. CASE FifoLoop
    BY <2>1 DEF FifoLoop, FifoMoves
  <2>2. CASE FifoTakes
    BY <2>2 DEF FifoTakes, FifoMoves
  <2>3. CASE FifoFindsNone
    BY <2>3 DEF FifoFindsNone, FifoMoves
  <2>4. CASE FifoWrites
    BY <2>4 DEF FifoWrites, FifoMoves
  <2> QED
    BY <1>8, <2>1, <2>2, <2>3, <2>4 DEF Fifo
<1>9. CASE Environment
  <2>1. CASE ControlEnds
    BY <2>1 DEF ControlEnds
  <2>2. CASE FifoOpened
    BY <2>2 DEF FifoOpened, FifoMoves
  <2>3. CASE Unplug
    BY <2>3 DEF Unplug, Placed
  <2>4. CASE ReaderRaises
    BY <2>4 DEF ReaderRaises, ReaderMoves, Usable
  <2> QED
    BY <1>9, <2>1, <2>2, <2>3, <2>4 DEF Environment
<1>10. CASE UNCHANGED vars
  BY <1>10 DEF vars, Placed
<1> QED
  BY <1>1, <1>2, <1>3, <1>4, <1>5, <1>6, <1>7, <1>8, <1>9, <1>10 DEF Next

(* Every step keeps who may be in the handler.                              *)
LEMMA HandlingNext ==
    ASSUME TInv, [Next]_vars
    PROVE  Handling'
<1> USE GotoIs, ResumeIs, RaisesIs, CallsAre DEF TInv, Handling, Places, Threads, Stoppers, At,
     events, packets, sniffer, joins, starts
<1>1. ASSUME StartCapture PROVE Handling'
  BY <1>1 DEF StartCapture, ThreadList, Placed, AllEnded, Ended
<1>2. ASSUME RefuseCapture PROVE Handling'
  BY <1>2 DEF RefuseCapture
<1>3. CASE Main
  <2>1. CASE StartThread
    BY <2>1, HeadAmong DEF StartThread, FirstStep, Lists, Starting
  <2>2. CASE AllStarted
    BY <2>2 DEF AllStarted
  <2>3. CASE CaptureReturns
    BY <2>3 DEF CaptureReturns
  <2> QED
    BY <1>3, <2>1, <2>2, <2>3 DEF Main
<1>4. ASSUME Signal PROVE Handling'
  BY <1>4, SignalIs DEF Signal, Placed
<1>5. ASSUME NEW s \in Stoppers, Stop(s) PROVE Handling'
  <2>1. CASE StopWait(s)
    BY <2>1 DEF StopWait, Step, Placed, Handlers
  <2>2. CASE StopCheck(s)
    BY <2>2 DEF StopCheck, Step, Placed, Handlers
  <2>3. CASE StopPut(s)
    BY <2>3 DEF StopPut, Step, Placed, Handlers
  <2>4. CASE StopClear(s)
    BY <2>4 DEF StopClear, Step, Placed, Handlers
  <2>5. CASE StopJoin(s)
    BY <2>5 DEF StopJoin, MayBlock, Placed, Step, Handlers
  <2>6. CASE StopPrune(s)
    BY <2>6 DEF StopPrune, Step, Placed, Handlers
  <2>7. CASE StopNothingOpen(s)
    BY <2>7 DEF StopNothingOpen, Step, Handlers
  <2>8. CASE StopFoundOpen(s)
    BY <2>8 DEF StopFoundOpen, Step, Placed, Handlers
  <2>9. CASE StopClose(s)
    BY <2>9 DEF StopClose, Step, Handlers
  <2>10. CASE StopCloseRaises(s)
    BY <2>10 DEF StopCloseRaises, Step, Handlers
  <2> QED
    BY <1>5, <2>1, <2>2, <2>3, <2>4, <2>5, <2>6, <2>7, <2>8, <2>9, <2>10 DEF Stop
<1>6. CASE Reader
  <2>1. CASE ReaderDelay
    BY <2>1 DEF ReaderDelay, ReaderMoves
  <2>2. CASE ReaderTest
    BY <2>2 DEF ReaderTest, ReaderMoves
  <2>3. CASE ReaderOpens
    BY <2>3 DEF ReaderOpens, ReaderMoves
  <2>4. CASE ReaderRetries
    BY <2>4 DEF ReaderRetries, ReaderMoves
  <2>5. CASE ReaderGivesUp
    BY <2>5 DEF ReaderGivesUp, ReaderMoves
  <2>6. CASE ReaderSetup
    BY <2>6 DEF ReaderSetup, ReaderMoves, Usable
  <2>7. CASE ReaderEchoed
    BY <2>7 DEF ReaderEchoed, ReaderMoves, Usable
  <2>8. CASE ReaderMisreads
    BY <2>8 DEF ReaderMisreads, ReaderMoves
  <2>9. CASE ReaderReady
    BY <2>9 DEF ReaderReady, ReaderMoves
  <2>10. CASE ReaderDone
    BY <2>10 DEF ReaderDone, ReaderMoves
  <2>11. CASE ReaderPacket
    BY <2>11 DEF ReaderPacket, Usable, Placed
  <2>12. CASE ReaderLeavesLoop
    BY <2>12 DEF ReaderLeavesLoop, ReaderMoves
  <2>13. CASE ReaderFails
    BY <2>13 DEF ReaderFails, ReaderMoves, Usable
  <2>14. CASE ReaderFinal
    BY <2>14 DEF ReaderFinal, ReaderMoves
  <2>15. CASE ReaderCheck
    BY <2>15 DEF ReaderCheck, Step, Handlers
  <2> QED
    BY <1>6, <2>1, <2>2, <2>3, <2>4, <2>5, <2>6, <2>7, <2>8, <2>9, <2>10,
         <2>11, <2>12, <2>13, <2>14, <2>15 DEF Reader
<1>7. CASE Writer
  <2>1. CASE WriterLoop
    BY <2>1 DEF WriterLoop, WriterMoves
  <2>2. CASE WriterTakes
    BY <2>2 DEF WriterTakes, WriterMoves
  <2>3. CASE WriterFindsNone
    BY <2>3 DEF WriterFindsNone, WriterMoves
  <2>4. CASE WriterWrites
    <3>1. /\ WriterMoves("write", "loop") \/ WriterMoves("drainwrite", "drain")
          /\ cmd' = "none"
      BY <2>4 DEF WriterWrites
    <3> QED
      BY <3>1 DEF WriterMoves
  <2>5. CASE WriterIOError
    BY <2>5 DEF WriterIOError, WriterMoves, Usable
  <2>6. CASE WriterCrashes
    BY <2>6 DEF WriterCrashes, WriterMoves
  <2> QED
    BY <1>7, <2>1, <2>2, <2>3, <2>4, <2>5, <2>6 DEF Writer
<1>8. CASE Fifo
  <2>1. CASE FifoLoop
    BY <2>1 DEF FifoLoop, FifoMoves
  <2>2. CASE FifoTakes
    BY <2>2 DEF FifoTakes, FifoMoves
  <2>3. CASE FifoFindsNone
    BY <2>3 DEF FifoFindsNone, FifoMoves
  <2>4. CASE FifoWrites
    BY <2>4 DEF FifoWrites, FifoMoves
  <2> QED
    BY <1>8, <2>1, <2>2, <2>3, <2>4 DEF Fifo
<1>9. CASE Environment
  <2>1. CASE ControlEnds
    BY <2>1 DEF ControlEnds, Step, Handlers
  <2>2. CASE FifoOpened
    BY <2>2 DEF FifoOpened, FifoMoves
  <2>3. CASE Unplug
    BY <2>3 DEF Unplug, Placed
  <2>4. CASE ReaderRaises
    BY <2>4 DEF ReaderRaises, ReaderMoves, Usable
  <2> QED
    BY <1>9, <2>1, <2>2, <2>3, <2>4 DEF Environment
<1>10. CASE UNCHANGED vars
  BY <1>10 DEF vars, Placed
<1> QED
  BY <1>1, <1>2, <1>3, <1>4, <1>5, <1>6, <1>7, <1>8, <1>9, <1>10 DEF Next

(* Every step keeps that a signal that has not come has no call.           *)
LEMMA UnusedNext ==
    ASSUME TInv, [Next]_vars
    PROVE  Unused'
<1> USE CallsAre DEF TInv, Unused, events, packets, sniffer, joins, starts
<1>1. \A i \in 1..Len(Signals) : Signals[i] \in Stoppers
  BY DEF MainCalls
<1>2. ASSUME Signal PROVE Unused'
  <2>1. ASSUME NEW i \in 1..Len(Signals), i > stops + 1 PROVE stop'[Signals[i]] = "out"
    <3>1. stops \in Nat /\ stops < Len(Signals)
      BY <1>2, SnifferAssumption DEF Signal, Scalars
    <3>2. stops + 1 \in 1..Len(Signals) /\ i > stops /\ Signals[i] # Signals[stops + 1]
      BY <2>1, <3>1, SnifferAssumption
    <3> QED
      BY <1>1, <1>2, <3>2, SignalIs
  <2> QED
    BY <1>2, <2>1, SignalIs
<1>3. ASSUME NEW s \in Stoppers, Stop(s) PROVE Unused'
  BY <1>1, <1>3, StopIs
<1>4. ASSUME StartCapture \/ RefuseCapture \/ Main PROVE UNCHANGED <<stop, stops>>
  BY <1>4 DEF StartCapture, RefuseCapture, Main, StartThread, AllStarted, CaptureReturns
<1>5. ASSUME Reader \/ ReaderRaises
      PROVE  UNCHANGED stops /\ \A c \in MainCalls : stop'[c] = stop[c]
  BY <1>5 DEF Reader, ReaderMoves, ReaderDelay, ReaderTest, ReaderOpens, ReaderRetries, ReaderGivesUp,
       ReaderSetup, ReaderEchoed, ReaderMisreads, ReaderReady, ReaderDone, ReaderPacket, ReaderLeavesLoop,
       ReaderFails, ReaderFinal, ReaderCheck, ReaderRaises, Handlers, Threads
<1>6. ASSUME Writer PROVE UNCHANGED <<stop, stops>>
  BY <1>6 DEF Writer, WriterMoves, WriterLoop, WriterTakes, WriterFindsNone, WriterWrites, WriterIOError,
       WriterCrashes
<1>7. ASSUME Fifo \/ FifoOpened \/ Unplug PROVE UNCHANGED <<stop, stops>>
  BY <1>7 DEF Fifo, FifoMoves, FifoLoop, FifoTakes, FifoFindsNone, FifoWrites, FifoOpened, Unplug
<1>8. ASSUME ControlEnds
      PROVE  UNCHANGED stops /\ \A c \in MainCalls : stop'[c] = stop[c]
  BY <1>8 DEF ControlEnds, Handlers, Threads
<1>9. ASSUME UNCHANGED vars PROVE UNCHANGED <<stop, stops>>
  BY <1>9 DEF vars
<1>10. ASSUME UNCHANGED stops, \A c \in MainCalls : stop'[c] = stop[c] PROVE Unused'
  BY <1>10 DEF MainCalls
<1> QED
  BY <1>2, <1>3, <1>4, <1>5, <1>6, <1>7, <1>8, <1>9, <1>10 DEF Next, Environment

LEMMA TInvNext == TInv /\ [Next]_vars => TInv'
BY PlacesNext, ScalarsNext, ListsNext, HandlersNext, StartingNext, HandlingNext, InHandNext,
   UnusedNext DEF TInv

LEMMA TInvInit == Init => TInv
<1> SUFFICES ASSUME Init PROVE TInv
  OBVIOUS
<1>1. Placed /\ Places
  BY DEF Init, Placed, Places, Threads
<1>2. Scalars
  <2>1. 0 \in 0..MaxPackets /\ 0 \in 0..MaxCaptures /\ 0 \in 0..Len(Signals) /\ 0 \in 0..0 /\ 0 \in 0..2
    BY SnifferAssumption
  <2> QED
    BY <2>1, Zenon DEF Init, Scalars
<1>5. Lists /\ Handlers
  BY DEF Init, Lists, Handlers
<1>3. Starting
  BY EmptyAmong DEF Init, Starting, MainRuns, Stoppers, Threads
<1>4. Handling /\ InHand /\ Unused
  BY CallsAre DEF Init, Handling, InHand, Unused, Threads, MainCalls
<1> QED
  BY <1>1, <1>2, <1>3, <1>4, <1>5 DEF TInv

(* The commands, the lists of threads, the places of the threads and of    *)
(* the handlers, and the counters are of their types, for any constants.   *)
THEOREM TypeCorrect == Spec => []TypeOK
<1>1. TInv => TypeOK
  BY TypesAre DEF TInv
<1> QED
  BY <1>1, TInvInit, TInvNext, PTL DEF Spec

(* And the invariant itself, for the proofs below.                         *)
LEMMA TInvAlways == Spec => []TInv
BY TInvInit, TInvNext, PTL DEF Spec

-----------------------------------------------------------------------------
(* The wait for the start, in every capture                                *)

(* Every step keeps Expected.                                              *)
LEMMA ExpectedNext ==
    ASSUME TInv, Expected, [Next]_vars
    PROVE  Expected'
<1> USE GotoIs, ResumeIs, RaisesIs, CallsAre DEF TInv, Expected, Opened, Places, Threads, Stoppers, At,
     events, packets, sniffer, joins, starts
<1>1. ASSUME StartCapture PROVE Expected'
  <2>1. pc'["reader"] = "off" /\ to_start' = ThreadList
    BY <1>1 DEF StartCapture
  <2> QED
    BY <2>1, ThreadListIs
<1>2. ASSUME RefuseCapture PROVE Expected'
  BY <1>2 DEF RefuseCapture
<1>3. CASE Main
  <2>1. CASE StartThread
    <3>1. /\ to_start \in Seq(Threads) /\ to_start # <<>> /\ to_start' = Tail(to_start)
          /\ UNCHANGED <<running, setup_done>>
      BY <2>1 DEF StartThread, Lists
    <3>2. /\ Head(to_start) \in Threads /\ pc[Head(to_start)] = "off"
          /\ Among("reader", to_start) => Head(to_start) = "reader" \/ Among("reader", Tail(to_start))
      BY <3>1, HeadAmong DEF Starting
    <3>3. /\ Head(to_start) = "reader" => pc'["reader"] = "delay"
          /\ Head(to_start) # "reader" => pc'["reader"] = pc["reader"]
      BY <2>1, <3>2 DEF StartThread, FirstStep
    <3> QED
      BY <3>1, <3>2, <3>3
  <2>2. CASE AllStarted
    BY <2>2 DEF AllStarted
  <2>3. CASE CaptureReturns
    BY <2>3 DEF CaptureReturns
  <2> QED
    BY <1>3, <2>1, <2>2, <2>3 DEF Main
<1>4. ASSUME Signal PROVE Expected'
  BY <1>4 DEF Signal, Handlers
<1>5. ASSUME NEW s \in Stoppers, Stop(s) PROVE Expected'
  <2>1. CASE StopWait(s)
    BY <2>1 DEF StopWait, Step, Handlers
  <2>2. CASE StopCheck(s)
    BY <2>2 DEF StopCheck, Step, Handlers
  <2>3. CASE StopPut(s)
    BY <2>3 DEF StopPut, Step, Handlers
  <2>4. CASE StopClear(s)
    BY <2>4 DEF StopClear, Step, Handlers
  <2>5. CASE StopJoin(s)
    BY <2>5 DEF StopJoin, MayBlock, Handlers, Step
  <2>6. CASE StopPrune(s)
    BY <2>6 DEF StopPrune, Step, Handlers
  <2>7. CASE StopNothingOpen(s)
    BY <2>7 DEF StopNothingOpen, Step, Handlers, Handling
  <2>8. CASE StopFoundOpen(s)
    BY <2>8 DEF StopFoundOpen, Step, Handlers
  <2>9. CASE StopClose(s)
    BY <2>9 DEF StopClose, Step, Handlers, Handling
  <2>10. CASE StopCloseRaises(s)
    BY <2>10 DEF StopCloseRaises, Step, Handlers, Handling
  <2> QED
    BY <1>5, <2>1, <2>2, <2>3, <2>4, <2>5, <2>6, <2>7, <2>8, <2>9, <2>10 DEF Stop
<1>6. CASE Reader
  <2>1. CASE ReaderDelay
    BY <2>1 DEF ReaderDelay, ReaderMoves
  <2>2. CASE ReaderTest
    BY <2>2 DEF ReaderTest, ReaderMoves
  <2>3. CASE ReaderOpens
    BY <2>3 DEF ReaderOpens, ReaderMoves
  <2>4. CASE ReaderRetries
    BY <2>4 DEF ReaderRetries, ReaderMoves
  <2>5. CASE ReaderGivesUp
    BY <2>5 DEF ReaderGivesUp, ReaderMoves
  <2>6. CASE ReaderSetup
    BY <2>6 DEF ReaderSetup, ReaderMoves, Usable
  <2>7. CASE ReaderEchoed
    BY <2>7 DEF ReaderEchoed, ReaderMoves, Usable
  <2>8. CASE ReaderMisreads
    BY <2>8 DEF ReaderMisreads, ReaderMoves
  <2>9. CASE ReaderReady
    BY <2>9 DEF ReaderReady, ReaderMoves
  <2>10. CASE ReaderDone
    BY <2>10 DEF ReaderDone, ReaderMoves
  <2>11. CASE ReaderPacket
    BY <2>11 DEF ReaderPacket, Usable
  <2>12. CASE ReaderLeavesLoop
    BY <2>12 DEF ReaderLeavesLoop, ReaderMoves
  <2>13. CASE ReaderFails
    BY <2>13 DEF ReaderFails, ReaderMoves, Usable
  <2>14. CASE ReaderFinal
    BY <2>14 DEF ReaderFinal, ReaderMoves
  <2>15. CASE ReaderCheck
    BY <2>15 DEF ReaderCheck, Handlers
  <2> QED
    BY <1>6, <2>1, <2>2, <2>3, <2>4, <2>5, <2>6, <2>7, <2>8, <2>9, <2>10,
         <2>11, <2>12, <2>13, <2>14, <2>15 DEF Reader
<1>7. CASE Writer
  <2>1. CASE WriterLoop
    BY <2>1 DEF WriterLoop, WriterMoves
  <2>2. CASE WriterTakes
    BY <2>2 DEF WriterTakes, WriterMoves
  <2>3. CASE WriterFindsNone
    BY <2>3 DEF WriterFindsNone, WriterMoves
  <2>4. CASE WriterWrites
    <3>1. /\ WriterMoves("write", "loop") \/ WriterMoves("drainwrite", "drain")
          /\ UNCHANGED <<running, serial_queue>>
      BY <2>4 DEF WriterWrites
    <3> QED
      BY <3>1 DEF WriterMoves
  <2>5. CASE WriterIOError
    BY <2>5 DEF WriterIOError, WriterMoves, Usable
  <2>6. CASE WriterCrashes
    BY <2>6 DEF WriterCrashes, WriterMoves
  <2> QED
    BY <1>7, <2>1, <2>2, <2>3, <2>4, <2>5, <2>6 DEF Writer
<1>8. CASE Fifo
  <2>1. CASE FifoLoop
    BY <2>1 DEF FifoLoop, FifoMoves
  <2>2. CASE FifoTakes
    BY <2>2 DEF FifoTakes, FifoMoves
  <2>3. CASE FifoFindsNone
    BY <2>3 DEF FifoFindsNone, FifoMoves
  <2>4. CASE FifoWrites
    BY <2>4 DEF FifoWrites, FifoMoves
  <2> QED
    BY <1>8, <2>1, <2>2, <2>3, <2>4 DEF Fifo
<1>9. CASE Environment
  <2>1. CASE ControlEnds
    BY <2>1 DEF ControlEnds, Handlers
  <2>2. CASE FifoOpened
    BY <2>2 DEF FifoOpened, FifoMoves
  <2>3. CASE Unplug
    BY <2>3 DEF Unplug
  <2>4. CASE ReaderRaises
    BY <2>4 DEF ReaderRaises, ReaderMoves, Usable
  <2> QED
    BY <1>9, <2>1, <2>2, <2>3, <2>4 DEF Environment
<1>10. CASE UNCHANGED vars
  BY <1>10 DEF vars
<1> QED
  BY <1>1, <1>2, <1>3, <1>4, <1>5, <1>6, <1>7, <1>8, <1>9, <1>10 DEF Next

(* stop_sig_handler, "Let's wait with closing": however often the object   *)
(* captures, whoever waits for the end of the setup waits for a reader     *)
(* that has not ended, or does not wait any more, as running is cleared    *)
(* (serial_reader sets setup_done on every way out but the one that clears *)
(* running first).                                                         *)
THEOREM WaitCorrect == Spec => []WaitsForReader
<1>1. TInv /\ Expected /\ [Next]_vars => (TInv /\ Expected)'
  BY TInvNext, ExpectedNext
<1>2. Init => TInv /\ Expected
  BY TInvInit DEF Init, Expected, Threads
<1>3. TInv /\ Expected => WaitsForReader
  <2> SUFFICES ASSUME TInv, Expected, running, ~setup_done, pc["reader"] \in {"loop", "check", "stop", "dead"}
               PROVE  FALSE
    BY DEF WaitsForReader
  <2>1. ~Among("reader", to_start)
    BY DEF TInv, Starting, Threads
  <2> QED
    BY <2>1 DEF Expected, Opened
<1> QED
  BY <1>1, <1>2, <1>3, PTL DEF Spec

-----------------------------------------------------------------------------
(* The first capture                                                       *)

(* Only StartCapture counts a capture, and only Signal a stop by main.      *)
LEMMA CountsNext ==
    ASSUME TInv, [Next]_vars
    PROVE  /\ captures' = captures \/ StartCapture
           /\ stops' = stops \/ Signal
<1> USE DEF events, packets, sniffer, joins, starts
<1>1. ASSUME StartCapture PROVE stops' = stops
  BY <1>1 DEF StartCapture
<1>2. ASSUME Signal PROVE captures' = captures
  BY <1>2 DEF Signal
<1>3. ASSUME RefuseCapture \/ Main PROVE UNCHANGED <<captures, stops>>
  BY <1>3 DEF RefuseCapture, Main, StartThread, AllStarted, CaptureReturns
<1>4. ASSUME NEW s \in Stoppers, Stop(s) PROVE UNCHANGED <<captures, stops>>
  BY <1>4 DEF Stop, StopWait, StopCheck, StopPut, StopClear, StopJoin, StopPrune, StopNothingOpen,
       StopFoundOpen, StopClose, StopCloseRaises
<1>5. ASSUME Reader PROVE UNCHANGED <<captures, stops>>
  BY <1>5 DEF Reader, ReaderMoves, ReaderDelay, ReaderTest, ReaderOpens, ReaderRetries, ReaderGivesUp,
       ReaderSetup, ReaderEchoed, ReaderMisreads, ReaderReady, ReaderDone, ReaderPacket, ReaderLeavesLoop,
       ReaderFails, ReaderFinal, ReaderCheck
<1>6. ASSUME Writer PROVE UNCHANGED <<captures, stops>>
  BY <1>6 DEF Writer, WriterMoves, WriterLoop, WriterTakes, WriterFindsNone, WriterWrites, WriterIOError,
       WriterCrashes
<1>7. ASSUME Fifo \/ Environment PROVE UNCHANGED <<captures, stops>>
  BY <1>7 DEF Fifo, FifoMoves, FifoLoop, FifoTakes, FifoFindsNone, FifoWrites, Environment, ControlEnds,
       FifoOpened, ReaderRaises, ReaderMoves, Unplug
<1>8. ASSUME UNCHANGED vars PROVE UNCHANGED <<captures, stops>>
  BY <1>8 DEF vars
<1> QED
  BY <1>1, <1>2, <1>3, <1>4, <1>5, <1>6, <1>7, <1>8 DEF Next

(* Counters never go back.                                                 *)
LEMMA CountsGrow ==
    ASSUME TInv, [Next]_vars
    PROVE  /\ captures' <= 1 => captures <= 1
           /\ stops' = 0 => stops = 0
<1>1. captures \in Nat /\ stops \in Nat
  BY SnifferAssumption DEF TInv, Scalars
<1>2. captures' = captures \/ captures' = captures + 1
  BY CountsNext DEF StartCapture
<1>3. stops' = stops \/ stops' = stops + 1
  BY CountsNext DEF Signal
<1> QED
  BY <1>1, <1>2, <1>3

(* Before the first capture nothing moves but the device.                  *)
LEMMA FreshNext ==
    ASSUME TInv, Fresh, [Next]_vars
    PROVE  Fresh'
<1> USE GotoIs, ResumeIs, SnifferAssumption DEF TInv, Fresh, Scalars, Places,
     Threads, Stoppers, At, events, packets, sniffer, joins, starts
<1>1. ASSUME StartCapture PROVE Fresh'
  BY <1>1 DEF StartCapture
<1>2. ASSUME RefuseCapture PROVE Fresh'
  BY <1>2 DEF RefuseCapture
<1>3. CASE Main
  <2>1. CASE StartThread
    <3>1. /\ Head(to_start) \in Threads /\ pc[Head(to_start)] = "off" /\ to_start # <<>>
          /\ pc["main"] = "starting"
      BY <2>1, HeadAmong DEF StartThread, Lists, Starting
    <3> QED
      BY <2>1, <3>1 DEF StartThread, FirstStep
  <2>2. CASE AllStarted
    BY <2>2 DEF AllStarted
  <2>3. CASE CaptureReturns
    BY <2>3 DEF CaptureReturns
  <2> QED
    BY <1>3, <2>1, <2>2, <2>3 DEF Main
<1>4. ASSUME Signal PROVE Fresh'
  BY <1>4 DEF Signal, Handlers
<1>5. ASSUME NEW s \in Stoppers, Stop(s) PROVE Fresh'
  <2>1. CASE StopWait(s)
    BY <2>1 DEF StopWait, Step, Handlers
  <2>2. CASE StopCheck(s)
    BY <2>2 DEF StopCheck, Step, Handlers
  <2>3. CASE StopPut(s)
    BY <2>3 DEF StopPut, Step, Handlers
  <2>4. CASE StopClear(s)
    BY <2>4 DEF StopClear, Step, Handlers
  <2>5. CASE StopJoin(s)
    BY <2>5 DEF StopJoin, MayBlock, Handlers, Step
  <2>6. CASE StopPrune(s)
    BY <2>6 DEF StopPrune, Step, Handlers
  <2>7. CASE StopNothingOpen(s)
    BY <2>7 DEF StopNothingOpen, Step, Handlers, Handling
  <2>8. CASE StopFoundOpen(s)
    BY <2>8 DEF StopFoundOpen, Step, Handlers
  <2>9. CASE StopClose(s)
    BY <2>9 DEF StopClose, Step, Handlers, Handling
  <2>10. CASE StopCloseRaises(s)
    BY <2>10 DEF StopCloseRaises, Step, Handlers, Handling
  <2> QED
    BY <1>5, <2>1, <2>2, <2>3, <2>4, <2>5, <2>6, <2>7, <2>8, <2>9, <2>10 DEF Stop
<1>6. CASE Reader
  <2>1. CASE ReaderDelay
    BY <2>1 DEF ReaderDelay, ReaderMoves
  <2>2. CASE ReaderTest
    BY <2>2 DEF ReaderTest, ReaderMoves
  <2>3. CASE ReaderOpens
    BY <2>3 DEF ReaderOpens, ReaderMoves
  <2>4. CASE ReaderRetries
    BY <2>4 DEF ReaderRetries, ReaderMoves
  <2>5. CASE ReaderGivesUp
    BY <2>5 DEF ReaderGivesUp, ReaderMoves
  <2>6. CASE ReaderSetup
    BY <2>6 DEF ReaderSetup, ReaderMoves, Usable
  <2>7. CASE ReaderEchoed
    BY <2>7 DEF ReaderEchoed, ReaderMoves, Usable
  <2>8. CASE ReaderMisreads
    BY <2>8 DEF ReaderMisreads, ReaderMoves
  <2>9. CASE ReaderReady
    BY <2>9 DEF ReaderReady, ReaderMoves
  <2>10. CASE ReaderDone
    BY <2>10 DEF ReaderDone, ReaderMoves
  <2>11. CASE ReaderPacket
    BY <2>11 DEF ReaderPacket, Usable
  <2>12. CASE ReaderLeavesLoop
    BY <2>12 DEF ReaderLeavesLoop, ReaderMoves
  <2>13. CASE ReaderFails
    BY <2>13 DEF ReaderFails, ReaderMoves, Usable
  <2>14. CASE ReaderFinal
    BY <2>14 DEF ReaderFinal, ReaderMoves
  <2>15. CASE ReaderCheck
    BY <2>15 DEF ReaderCheck, Handlers
  <2> QED
    BY <1>6, <2>1, <2>2, <2>3, <2>4, <2>5, <2>6, <2>7, <2>8, <2>9, <2>10,
         <2>11, <2>12, <2>13, <2>14, <2>15 DEF Reader
<1>7. CASE Writer
  <2>1. CASE WriterLoop
    BY <2>1 DEF WriterLoop, WriterMoves
  <2>2. CASE WriterTakes
    BY <2>2 DEF WriterTakes, WriterMoves
  <2>3. CASE WriterFindsNone
    BY <2>3 DEF WriterFindsNone, WriterMoves
  <2>4. CASE WriterWrites
    <3>1. /\ WriterMoves("write", "loop") \/ WriterMoves("drainwrite", "drain")
          /\ UNCHANGED <<running, serial_queue>>
      BY <2>4 DEF WriterWrites
    <3> QED
      BY <3>1 DEF WriterMoves
  <2>5. CASE WriterIOError
    BY <2>5 DEF WriterIOError, WriterMoves, Usable
  <2>6. CASE WriterCrashes
    BY <2>6 DEF WriterCrashes, WriterMoves
  <2> QED
    BY <1>7, <2>1, <2>2, <2>3, <2>4, <2>5, <2>6 DEF Writer
<1>8. CASE Fifo
  <2>1. CASE FifoLoop
    BY <2>1 DEF FifoLoop, FifoMoves
  <2>2. CASE FifoTakes
    BY <2>2 DEF FifoTakes, FifoMoves
  <2>3. CASE FifoFindsNone
    BY <2>3 DEF FifoFindsNone, FifoMoves
  <2>4. CASE FifoWrites
    BY <2>4 DEF FifoWrites, FifoMoves
  <2> QED
    BY <1>8, <2>1, <2>2, <2>3, <2>4 DEF Fifo
<1>9. CASE Environment
  <2>1. CASE ControlEnds
    BY <2>1 DEF ControlEnds, Handlers
  <2>2. CASE FifoOpened
    BY <2>2 DEF FifoOpened, FifoMoves
  <2>3. CASE Unplug
    BY <2>3 DEF Unplug
  <2>4. CASE ReaderRaises
    BY <2>4 DEF ReaderRaises, ReaderMoves, Usable
  <2> QED
    BY <1>9, <2>1, <2>2, <2>3, <2>4 DEF Environment
<1>10. CASE UNCHANGED vars
  BY <1>10 DEF vars
<1> QED
  BY <1>1, <1>2, <1>3, <1>4, <1>5, <1>6, <1>7, <1>8, <1>9, <1>10 DEF Next

(* Every step keeps Reading: nobody stops before the port is open, and     *)
(* who closes it has stopped.                                              *)
LEMMA ReadingNext ==
    ASSUME captures' <= 1, TInv, Fresh, Reading, Stopping, [Next]_vars
    PROVE  Reading'
<1> USE GotoIs, ResumeIs, SnifferAssumption DEF TInv, Reading, Unopened,
     Later, Places, Threads, Stoppers, At, events, packets, sniffer, joins,
     starts
<1>1. ASSUME StartCapture PROVE Reading'
  BY <1>1 DEF StartCapture, Fresh, Scalars
<1>2. ASSUME RefuseCapture PROVE Reading'
  BY <1>2 DEF RefuseCapture
<1>3. CASE Main
  <2>1. CASE StartThread
    <3>1. /\ Head(to_start) \in Threads /\ pc[Head(to_start)] = "off" /\ to_start # <<>>
          /\ pc["main"] = "starting"
      BY <2>1, HeadAmong DEF StartThread, Lists, Starting
    <3> QED
      BY <2>1, <3>1 DEF StartThread, FirstStep
  <2>2. CASE AllStarted
    BY <2>2 DEF AllStarted
  <2>3. CASE CaptureReturns
    BY <2>3 DEF CaptureReturns
  <2> QED
    BY <1>3, <2>1, <2>2, <2>3 DEF Main
<1>4. ASSUME Signal PROVE Reading'
  BY <1>4 DEF Signal, Handlers
<1>5. ASSUME NEW s \in Stoppers, Stop(s) PROVE Reading'
  <2>1. CASE StopWait(s)
    BY <2>1 DEF StopWait, Step, Handlers, Stopping
  <2>2. CASE StopCheck(s)
    BY <2>2 DEF StopCheck, Step, Handlers, Stopping
  <2>3. CASE StopPut(s)
    BY <2>3 DEF StopPut, Step, Handlers, Stopping
  <2>4. CASE StopClear(s)
    BY <2>4 DEF StopClear, Step, Handlers, Stopping
  <2>5. CASE StopJoin(s)
    BY <2>5 DEF StopJoin, MayBlock, Handlers, Step, Stopping
  <2>6. CASE StopPrune(s)
    BY <2>6 DEF StopPrune, Step, Handlers, Stopping
  <2>7. CASE StopNothingOpen(s)
    BY <2>7 DEF StopNothingOpen, Step, Handlers, Handling, Stopping
  <2>8. CASE StopFoundOpen(s)
    BY <2>8 DEF StopFoundOpen, Step, Handlers, Stopping
  <2>9. CASE StopClose(s)
    BY <2>9 DEF StopClose, Step, Handlers, Handling, Stopping
  <2>10. CASE StopCloseRaises(s)
    BY <2>10 DEF StopCloseRaises, Step, Handlers, Handling, Stopping
  <2> QED
    BY <1>5, <2>1, <2>2, <2>3, <2>4, <2>5, <2>6, <2>7, <2>8, <2>9, <2>10 DEF Stop
<1>6. CASE Reader
  <2>1. CASE ReaderDelay
    BY <2>1 DEF ReaderDelay, ReaderMoves
  <2>2. CASE ReaderTest
    BY <2>2 DEF ReaderTest, ReaderMoves
  <2>3. CASE ReaderOpens
    BY <2>3 DEF ReaderOpens, ReaderMoves
  <2>4. CASE ReaderRetries
    BY <2>4 DEF ReaderRetries, ReaderMoves
  <2>5. CASE ReaderGivesUp
    BY <2>5 DEF ReaderGivesUp, ReaderMoves
  <2>6. CASE ReaderSetup
    BY <2>6 DEF ReaderSetup, ReaderMoves, Usable
  <2>7. CASE ReaderEchoed
    BY <2>7 DEF ReaderEchoed, ReaderMoves, Usable
  <2>8. CASE ReaderMisreads
    BY <2>8 DEF ReaderMisreads, ReaderMoves
  <2>9. CASE ReaderReady
    BY <2>9 DEF ReaderReady, ReaderMoves
  <2>10. CASE ReaderDone
    BY <2>10 DEF ReaderDone, ReaderMoves
  <2>11. CASE ReaderPacket
    BY <2>11 DEF ReaderPacket, Usable
  <2>12. CASE ReaderLeavesLoop
    BY <2>12 DEF ReaderLeavesLoop, ReaderMoves
  <2>13. CASE ReaderFails
    BY <2>13 DEF ReaderFails, ReaderMoves, Usable
  <2>14. CASE ReaderFinal
    BY <2>14 DEF ReaderFinal, ReaderMoves
  <2>15. CASE ReaderCheck
    BY <2>15 DEF ReaderCheck, Handlers
  <2> QED
    BY <1>6, <2>1, <2>2, <2>3, <2>4, <2>5, <2>6, <2>7, <2>8, <2>9, <2>10,
         <2>11, <2>12, <2>13, <2>14, <2>15 DEF Reader
<1>7. CASE Writer
  <2>1. CASE WriterLoop
    BY <2>1 DEF WriterLoop, WriterMoves
  <2>2. CASE WriterTakes
    BY <2>2 DEF WriterTakes, WriterMoves
  <2>3. CASE WriterFindsNone
    BY <2>3 DEF WriterFindsNone, WriterMoves
  <2>4. CASE WriterWrites
    <3>1. /\ WriterMoves("write", "loop") \/ WriterMoves("drainwrite", "drain")
          /\ UNCHANGED <<running, serial_queue>>
      BY <2>4 DEF WriterWrites
    <3> QED
      BY <3>1 DEF WriterMoves
  <2>5. CASE WriterIOError
    <3>1. /\ serial # "none" /\ running' = FALSE
          /\ WriterMoves("write", "loop") \/ WriterMoves("drainwrite", "drain")
      BY <2>5 DEF WriterIOError
    <3> QED
      BY <3>1 DEF WriterMoves
  <2>6. CASE WriterCrashes
    BY <2>6 DEF WriterCrashes, WriterMoves
  <2> QED
    BY <1>7, <2>1, <2>2, <2>3, <2>4, <2>5, <2>6 DEF Writer
<1>8. CASE Fifo
  <2>1. CASE FifoLoop
    BY <2>1 DEF FifoLoop, FifoMoves
  <2>2. CASE FifoTakes
    BY <2>2 DEF FifoTakes, FifoMoves
  <2>3. CASE FifoFindsNone
    BY <2>3 DEF FifoFindsNone, FifoMoves
  <2>4. CASE FifoWrites
    BY <2>4 DEF FifoWrites, FifoMoves
  <2> QED
    BY <1>8, <2>1, <2>2, <2>3, <2>4 DEF Fifo
<1>9. CASE Environment
  <2>1. CASE ControlEnds
    BY <2>1 DEF ControlEnds, Handlers
  <2>2. CASE FifoOpened
    BY <2>2 DEF FifoOpened, FifoMoves
  <2>3. CASE Unplug
    BY <2>3 DEF Unplug
  <2>4. CASE ReaderRaises
    BY <2>4 DEF ReaderRaises, ReaderMoves, Usable
  <2> QED
    BY <1>9, <2>1, <2>2, <2>3, <2>4 DEF Environment
<1>10. CASE UNCHANGED vars
  BY <1>10 DEF vars
<1> QED
  BY <1>1, <1>2, <1>3, <1>4, <1>5, <1>6, <1>7, <1>8, <1>9, <1>10 DEF Next

(* Every step keeps what the handlers have seen.                           *)
LEMMA StoppingNext ==
    ASSUME captures' <= 1, TInv, Fresh, Stopping, [Next]_vars
    PROVE  Stopping'
<1> USE GotoIs, ResumeIs, SnifferAssumption DEF TInv, Stopping, Places,
     Threads, Stoppers, At, events, packets, sniffer, joins, starts
<1>1. ASSUME StartCapture PROVE Stopping'
  BY <1>1 DEF StartCapture, Fresh, Scalars
<1>2. ASSUME RefuseCapture PROVE Stopping'
  BY <1>2 DEF RefuseCapture
<1>3. CASE Main
  <2>1. CASE StartThread
    <3>1. /\ Head(to_start) \in Threads /\ pc[Head(to_start)] = "off" /\ to_start # <<>>
          /\ pc["main"] = "starting"
      BY <2>1, HeadAmong DEF StartThread, Lists, Starting
    <3> QED
      BY <2>1, <3>1 DEF StartThread, FirstStep
  <2>2. CASE AllStarted
    BY <2>2 DEF AllStarted
  <2>3. CASE CaptureReturns
    BY <2>3 DEF CaptureReturns
  <2> QED
    BY <1>3, <2>1, <2>2, <2>3 DEF Main
<1>4. ASSUME Signal PROVE Stopping'
  BY <1>4 DEF Signal, Handlers
<1>5. ASSUME NEW s \in Stoppers, Stop(s) PROVE Stopping'
  <2>1. CASE StopWait(s)
    BY <2>1 DEF StopWait, Step, Handlers, Scalars
  <2>2. CASE StopCheck(s)
    BY <2>2 DEF StopCheck, Step, Handlers, Scalars
  <2>3. CASE StopPut(s)
    BY <2>3 DEF StopPut, Step, Handlers, Scalars
  <2>4. CASE StopClear(s)
    BY <2>4 DEF StopClear, Step, Handlers, Scalars
  <2>5. CASE StopJoin(s)
    BY <2>5 DEF StopJoin, MayBlock, Handlers, Step, Scalars
  <2>6. CASE StopPrune(s)
    BY <2>6 DEF StopPrune, Step, Handlers, Scalars
  <2>7. CASE StopNothingOpen(s)
    BY <2>7 DEF StopNothingOpen, Step, Handlers, Handling, Scalars
  <2>8. CASE StopFoundOpen(s)
    BY <2>8 DEF StopFoundOpen, Step, Handlers, Scalars
  <2>9. CASE StopClose(s)
    BY <2>9 DEF StopClose, Step, Handlers, Handling, Scalars
  <2>10. CASE StopCloseRaises(s)
    BY <2>10 DEF StopCloseRaises, Step, Handlers, Handling, Scalars
  <2> QED
    BY <1>5, <2>1, <2>2, <2>3, <2>4, <2>5, <2>6, <2>7, <2>8, <2>9, <2>10 DEF Stop
<1>6. CASE Reader
  <2>1. CASE ReaderDelay
    BY <2>1 DEF ReaderDelay, ReaderMoves
  <2>2. CASE ReaderTest
    BY <2>2 DEF ReaderTest, ReaderMoves
  <2>3. CASE ReaderOpens
    BY <2>3 DEF ReaderOpens, ReaderMoves
  <2>4. CASE ReaderRetries
    BY <2>4 DEF ReaderRetries, ReaderMoves
  <2>5. CASE ReaderGivesUp
    BY <2>5 DEF ReaderGivesUp, ReaderMoves
  <2>6. CASE ReaderSetup
    BY <2>6 DEF ReaderSetup, ReaderMoves, Usable
  <2>7. CASE ReaderEchoed
    BY <2>7 DEF ReaderEchoed, ReaderMoves, Usable
  <2>8. CASE ReaderMisreads
    BY <2>8 DEF ReaderMisreads, ReaderMoves
  <2>9. CASE ReaderReady
    BY <2>9 DEF ReaderReady, ReaderMoves
  <2>10. CASE ReaderDone
    BY <2>10 DEF ReaderDone, ReaderMoves
  <2>11. CASE ReaderPacket
    BY <2>11 DEF ReaderPacket, Usable
  <2>12. CASE ReaderLeavesLoop
    BY <2>12 DEF ReaderLeavesLoop, ReaderMoves
  <2>13. CASE ReaderFails
    BY <2>13 DEF ReaderFails, ReaderMoves, Usable
  <2>14. CASE ReaderFinal
    BY <2>14 DEF ReaderFinal, ReaderMoves
  <2>15. CASE ReaderCheck
    BY <2>15 DEF ReaderCheck, Handlers
  <2> QED
    BY <1>6, <2>1, <2>2, <2>3, <2>4, <2>5, <2>6, <2>7, <2>8, <2>9, <2>10,
         <2>11, <2>12, <2>13, <2>14, <2>15 DEF Reader
<1>7. CASE Writer
  <2>1. CASE WriterLoop
    BY <2>1 DEF WriterLoop, WriterMoves
  <2>2. CASE WriterTakes
    BY <2>2 DEF WriterTakes, WriterMoves
  <2>3. CASE WriterFindsNone
    BY <2>3 DEF WriterFindsNone, WriterMoves
  <2>4. CASE WriterWrites
    <3>1. /\ WriterMoves("write", "loop") \/ WriterMoves("drainwrite", "drain")
          /\ UNCHANGED <<running, serial_queue>>
      BY <2>4 DEF WriterWrites
    <3> QED
      BY <3>1 DEF WriterMoves
  <2>5. CASE WriterIOError
    BY <2>5 DEF WriterIOError, WriterMoves, Usable
  <2>6. CASE WriterCrashes
    BY <2>6 DEF WriterCrashes, WriterMoves
  <2> QED
    BY <1>7, <2>1, <2>2, <2>3, <2>4, <2>5, <2>6 DEF Writer
<1>8. CASE Fifo
  <2>1. CASE FifoLoop
    BY <2>1 DEF FifoLoop, FifoMoves
  <2>2. CASE FifoTakes
    BY <2>2 DEF FifoTakes, FifoMoves
  <2>3. CASE FifoFindsNone
    BY <2>3 DEF FifoFindsNone, FifoMoves
  <2>4. CASE FifoWrites
    BY <2>4 DEF FifoWrites, FifoMoves
  <2> QED
    BY <1>8, <2>1, <2>2, <2>3, <2>4 DEF Fifo
<1>9. CASE Environment
  <2>1. CASE ControlEnds
    BY <2>1 DEF ControlEnds, Handlers
  <2>2. CASE FifoOpened
    BY <2>2 DEF FifoOpened, FifoMoves
  <2>3. CASE Unplug
    BY <2>3 DEF Unplug
  <2>4. CASE ReaderRaises
    BY <2>4 DEF ReaderRaises, ReaderMoves, Usable
  <2> QED
    BY <1>9, <2>1, <2>2, <2>3, <2>4 DEF Environment
<1>10. CASE UNCHANGED vars
  BY <1>10 DEF vars
<1> QED
  BY <1>1, <1>2, <1>3, <1>4, <1>5, <1>6, <1>7, <1>8, <1>9, <1>10 DEF Next

(* Every step keeps the port released.                                     *)
LEMMA ReleasedNext ==
    ASSUME captures' <= 1, TInv, Fresh, Reading, Stopping, Released, [Next]_vars
    PROVE  Released'
<1> USE GotoIs, ResumeIs, SnifferAssumption DEF TInv, Released, Fresh,
     MainRuns, Places, Threads, Stoppers, At, events, packets, sniffer, joins,
     starts
<1>1. ASSUME StartCapture PROVE Released'
  BY <1>1 DEF StartCapture, Scalars
<1>2. ASSUME RefuseCapture PROVE Released'
  BY <1>2 DEF RefuseCapture
<1>3. CASE Main
  <2>1. CASE StartThread
    <3>1. /\ Head(to_start) \in Threads /\ pc[Head(to_start)] = "off" /\ to_start # <<>>
          /\ pc["main"] = "starting"
      BY <2>1, HeadAmong DEF StartThread, Lists, Starting
    <3> QED
      BY <2>1, <3>1 DEF StartThread, FirstStep
  <2>2. CASE AllStarted
    BY <2>2 DEF AllStarted
  <2>3. CASE CaptureReturns
    BY <2>3 DEF CaptureReturns
  <2> QED
    BY <1>3, <2>1, <2>2, <2>3 DEF Main
<1>4. ASSUME Signal PROVE Released'
  BY <1>4, SignalIs DEF Signal, MainRuns
<1>5. ASSUME NEW s \in Stoppers, Stop(s) PROVE Released'
  <2>1. CASE StopWait(s)
    BY <2>1 DEF StopWait, Step, Handlers, Stopping
  <2>2. CASE StopCheck(s)
    BY <2>2 DEF StopCheck, Step, Handlers, Stopping
  <2>3. CASE StopPut(s)
    BY <2>3 DEF StopPut, Step, Handlers, Stopping
  <2>4. CASE StopClear(s)
    BY <2>4 DEF StopClear, Step, Handlers, Stopping
  <2>5. CASE StopJoin(s)
    BY <2>5 DEF StopJoin, MayBlock, Handlers, Step, Stopping
  <2>6. CASE StopPrune(s)
    BY <2>6 DEF StopPrune, Step, Handlers, Stopping
  <2>7. CASE StopNothingOpen(s)
    BY <2>7 DEF StopNothingOpen, Step, Handlers, Handling, Stopping
  <2>8. CASE StopFoundOpen(s)
    BY <2>8 DEF StopFoundOpen, Step, Handlers, Stopping
  <2>9. CASE StopClose(s)
    BY <2>9 DEF StopClose, Step, Handlers, Handling, Stopping
  <2>10. CASE StopCloseRaises(s)
    BY <2>10 DEF StopCloseRaises, Step, Handlers, Handling, Stopping
  <2> QED
    BY <1>5, <2>1, <2>2, <2>3, <2>4, <2>5, <2>6, <2>7, <2>8, <2>9, <2>10 DEF Stop
<1>6. CASE Reader
  <2>1. CASE ReaderDelay
    BY <2>1 DEF ReaderDelay, ReaderMoves, Reading, Unopened, Scalars
  <2>2. CASE ReaderTest
    BY <2>2 DEF ReaderTest, ReaderMoves, Reading, Unopened, Scalars
  <2>3. CASE ReaderOpens
    BY <2>3 DEF ReaderOpens, ReaderMoves, Reading, Unopened, Scalars
  <2>4. CASE ReaderRetries
    BY <2>4 DEF ReaderRetries, ReaderMoves, Reading, Unopened, Scalars
  <2>5. CASE ReaderGivesUp
    BY <2>5 DEF ReaderGivesUp, ReaderMoves, Reading, Unopened, Scalars
  <2>6. CASE ReaderSetup
    BY <2>6 DEF ReaderSetup, ReaderMoves, Usable, Reading, Unopened, Scalars
  <2>7. CASE ReaderEchoed
    BY <2>7 DEF ReaderEchoed, ReaderMoves, Usable, Reading, Unopened, Scalars
  <2>8. CASE ReaderMisreads
    BY <2>8 DEF ReaderMisreads, ReaderMoves, Reading, Unopened, Scalars
  <2>9. CASE ReaderReady
    BY <2>9 DEF ReaderReady, ReaderMoves, Reading, Unopened, Scalars
  <2>10. CASE ReaderDone
    BY <2>10 DEF ReaderDone, ReaderMoves, Reading, Unopened, Scalars
  <2>11. CASE ReaderPacket
    BY <2>11 DEF ReaderPacket, Usable, Reading, Unopened, Scalars
  <2>12. CASE ReaderLeavesLoop
    BY <2>12 DEF ReaderLeavesLoop, ReaderMoves, Reading, Unopened, Scalars
  <2>13. CASE ReaderFails
    BY <2>13 DEF ReaderFails, ReaderMoves, Usable, Reading, Unopened, Scalars
  <2>14. CASE ReaderFinal
    BY <2>14 DEF ReaderFinal, ReaderMoves, Reading, Unopened, Scalars
  <2>15. CASE ReaderCheck
    BY <2>15 DEF ReaderCheck, Handlers, Reading, Unopened, Scalars
  <2> QED
    BY <1>6, <2>1, <2>2, <2>3, <2>4, <2>5, <2>6, <2>7, <2>8, <2>9, <2>10,
         <2>11, <2>12, <2>13, <2>14, <2>15 DEF Reader
<1>7. CASE Writer
  <2>1. CASE WriterLoop
    BY <2>1 DEF WriterLoop, WriterMoves
  <2>2. CASE WriterTakes
    BY <2>2 DEF WriterTakes, WriterMoves
  <2>3. CASE WriterFindsNone
    BY <2>3 DEF WriterFindsNone, WriterMoves
  <2>4. CASE WriterWrites
    <3>1. /\ WriterMoves("write", "loop") \/ WriterMoves("drainwrite", "drain")
          /\ UNCHANGED <<running, serial_queue>>
      BY <2>4 DEF WriterWrites
    <3> QED
      BY <3>1 DEF WriterMoves
  <2>5. CASE WriterIOError
    BY <2>5 DEF WriterIOError, WriterMoves, Usable
  <2>6. CASE WriterCrashes
    BY <2>6 DEF WriterCrashes, WriterMoves
  <2> QED
    BY <1>7, <2>1, <2>2, <2>3, <2>4, <2>5, <2>6 DEF Writer
<1>8. CASE Fifo
  <2>1. CASE FifoLoop
    BY <2>1 DEF FifoLoop, FifoMoves
  <2>2. CASE FifoTakes
    BY <2>2 DEF FifoTakes, FifoMoves
  <2>3. CASE FifoFindsNone
    BY <2>3 DEF FifoFindsNone, FifoMoves
  <2>4. CASE FifoWrites
    BY <2>4 DEF FifoWrites, FifoMoves
  <2> QED
    BY <1>8, <2>1, <2>2, <2>3, <2>4 DEF Fifo
<1>9. CASE Environment
  <2>1. CASE ControlEnds
    BY <2>1 DEF ControlEnds, Handlers
  <2>2. CASE FifoOpened
    BY <2>2 DEF FifoOpened, FifoMoves
  <2>3. CASE Unplug
    BY <2>3 DEF Unplug
  <2>4. CASE ReaderRaises
    BY <2>4 DEF ReaderRaises, ReaderMoves, Usable
  <2> QED
    BY <1>9, <2>1, <2>2, <2>3, <2>4 DEF Environment
<1>10. CASE UNCHANGED vars
  BY <1>10 DEF vars
<1> QED
  BY <1>1, <1>2, <1>3, <1>4, <1>5, <1>6, <1>7, <1>8, <1>9, <1>10 DEF Next

(* Every step keeps who is listed, if nobody joins the threads while they  *)
(* are started.                                                            *)
LEMMA KeptNext ==
    ASSUME TInv, Kept, [Next]_vars,
           \A s \in Stoppers : stop[s] = "join" => to_start = <<>>
    PROVE  Kept'
<1> USE GotoIs, ResumeIs, SnifferAssumption DEF TInv, Kept, Ended, Places,
     Threads, Stoppers, At, events, packets, sniffer, joins, starts
<1>1. ASSUME StartCapture PROVE Kept'
  <2>1. threads' = ThreadList /\ stop' = stop /\ \A s \in Stoppers : stop[s] = "out"
    BY <1>1 DEF StartCapture, AllEnded, MainRuns, Handling
  <2> QED
    BY <2>1, ThreadListIs
<1>2. ASSUME RefuseCapture PROVE Kept'
  BY <1>2 DEF RefuseCapture
<1>3. CASE Main
  <2>1. CASE StartThread
    <3>1. to_start # <<>> /\ UNCHANGED <<threads, joins>>
      BY <2>1 DEF StartThread
    <3> QED
      BY <3>1
  <2>2. CASE AllStarted
    BY <2>2 DEF AllStarted
  <2>3. CASE CaptureReturns
    BY <2>3 DEF CaptureReturns
  <2> QED
    BY <1>3, <2>1, <2>2, <2>3 DEF Main
<1>4. ASSUME Signal PROVE Kept'
  BY <1>4 DEF Signal, Handlers
<1>5. ASSUME NEW s \in Stoppers, Stop(s) PROVE Kept'
  <2>1. CASE StopWait(s)
    BY <2>1 DEF StopWait, Step, Handlers
  <2>2. CASE StopCheck(s)
    BY <2>2 DEF StopCheck, Step, Handlers
  <2>3. CASE StopPut(s)
    BY <2>3 DEF StopPut, Step, Handlers
  <2>4. CASE StopClear(s)
    BY <2>4 DEF StopClear, Step, Handlers
  <2>5. CASE StopJoin(s)
    <3> DEFINE u == Head(joining[s])
    <3>1. /\ stop[s] = "join" /\ joining[s] # <<>>
          /\ joining[s] \in Seq(Threads) /\ alive[s] \in Seq(Threads)
          /\ joining' = [joining EXCEPT ![s] = Tail(joining[s])]
          /\ UNCHANGED <<pc, stop, threads, to_start>>
      BY <2>5 DEF StopJoin, Handlers
    <3>2. /\ u \in Threads
          /\ \A x : Among(x, joining[s]) <=> x = u \/ Among(x, Tail(joining[s]))
      BY <3>1, HeadAmong
    <3>3. \/ (u = s \/ Ended(u)) /\ alive' = alive
          \/ MayBlock(u) /\ alive' = [alive EXCEPT ![s] = Append(alive[s], u)]
      BY <2>5 DEF StopJoin
    <3>4. \A x : Among(x, Append(alive[s], u)) <=> Among(x, alive[s]) \/ x = u
      BY <3>1, <3>2, AppendAmong
    <3>5. to_start = <<>>
      BY <3>1
    <3>6. joining'[s] = Tail(joining[s]) /\ \A r \in Stoppers : r # s => joining'[r] = joining[r] /\ alive'[r] = alive[r]
      BY <3>1, <3>3 DEF Handlers
    <3>7. \A x : Among(x, alive[s]) => Among(x, alive'[s])
      <4>1. CASE alive' = alive
        BY <4>1
      <4>2. CASE alive' = [alive EXCEPT ![s] = Append(alive[s], u)]
        <5>1. alive'[s] = Append(alive[s], u)
          BY <4>2 DEF Handlers
        <5> QED
          BY <3>4, <5>1
      <4> QED
        BY <3>3, <4>1, <4>2
    <3>8. \A t \in {"writer", "fifo"} : ~Ended(t) /\ Among(t, joining[s]) =>
             Among(t, joining'[s]) \/ (t = "fifo" /\ Among(t, alive'[s]))
      <4>1. ASSUME NEW t \in {"writer", "fifo"}, ~Ended(t), t = u
            PROVE  t = "fifo" /\ Among(t, alive'[s])
        <5>1. t # s
          BY CallsAre DEF Stoppers, Threads
        <5>2. MayBlock(t) /\ alive' = [alive EXCEPT ![s] = Append(alive[s], u)]
          BY <3>3, <4>1, <5>1
        <5>3. alive'[s] = Append(alive[s], u)
          BY <5>2 DEF Handlers
        <5> QED
          BY <3>4, <4>1, <5>2, <5>3 DEF MayBlock
      <4> QED
        BY <3>2, <3>6, <4>1
    <3> QED
      BY <3>1, <3>5, <3>6, <3>7, <3>8
  <2>6. CASE StopPrune(s)
    <3>1. /\ stop[s] = "join" /\ joining[s] = <<>> /\ stop'[s] = "close" /\ threads' = alive[s]
          /\ \A r \in Stoppers : r # s => stop'[r] = stop[r] /\ alive'[r] = alive[r]
          /\ UNCHANGED <<pc, joining, to_start>>
      BY <2>6 DEF StopPrune, Step, Handlers
    <3>2. to_start = <<>>
      BY <3>1
    <3>3. \A t \in {"writer", "fifo"} : ~Ended(t) => t = "fifo" /\ Among(t, threads')
      BY <3>1, EmptyAmong
    <3> QED
      BY <3>1, <3>2, <3>3
  <2>7. CASE StopNothingOpen(s)
    BY <2>7 DEF StopNothingOpen, Step, Handlers, Handling
  <2>8. CASE StopFoundOpen(s)
    BY <2>8 DEF StopFoundOpen, Step, Handlers
  <2>9. CASE StopClose(s)
    BY <2>9 DEF StopClose, Step, Handlers, Handling
  <2>10. CASE StopCloseRaises(s)
    BY <2>10 DEF StopCloseRaises, Step, Handlers, Handling
  <2> QED
    BY <1>5, <2>1, <2>2, <2>3, <2>4, <2>5, <2>6, <2>7, <2>8, <2>9, <2>10 DEF Stop
<1>6. CASE Reader
  <2>1. CASE ReaderDelay
    BY <2>1 DEF ReaderDelay, ReaderMoves
  <2>2. CASE ReaderTest
    BY <2>2 DEF ReaderTest, ReaderMoves
  <2>3. CASE ReaderOpens
    BY <2>3 DEF ReaderOpens, ReaderMoves
  <2>4. CASE ReaderRetries
    BY <2>4 DEF ReaderRetries, ReaderMoves
  <2>5. CASE ReaderGivesUp
    BY <2>5 DEF ReaderGivesUp, ReaderMoves
  <2>6. CASE ReaderSetup
    BY <2>6 DEF ReaderSetup, ReaderMoves, Usable
  <2>7. CASE ReaderEchoed
    BY <2>7 DEF ReaderEchoed, ReaderMoves, Usable
  <2>8. CASE ReaderMisreads
    BY <2>8 DEF ReaderMisreads, ReaderMoves
  <2>9. CASE ReaderReady
    BY <2>9 DEF ReaderReady, ReaderMoves
  <2>10. CASE ReaderDone
    BY <2>10 DEF ReaderDone, ReaderMoves
  <2>11. CASE ReaderPacket
    BY <2>11 DEF ReaderPacket, Usable
  <2>12. CASE ReaderLeavesLoop
    BY <2>12 DEF ReaderLeavesLoop, ReaderMoves
  <2>13. CASE ReaderFails
    BY <2>13 DEF ReaderFails, ReaderMoves, Usable
  <2>14. CASE ReaderFinal
    BY <2>14 DEF ReaderFinal, ReaderMoves
  <2>15. CASE ReaderCheck
    BY <2>15 DEF ReaderCheck, Handlers
  <2> QED
    BY <1>6, <2>1, <2>2, <2>3, <2>4, <2>5, <2>6, <2>7, <2>8, <2>9, <2>10,
         <2>11, <2>12, <2>13, <2>14, <2>15 DEF Reader
<1>7. CASE Writer
  <2>1. CASE WriterLoop
    BY <2>1 DEF WriterLoop, WriterMoves
  <2>2. CASE WriterTakes
    BY <2>2 DEF WriterTakes, WriterMoves
  <2>3. CASE WriterFindsNone
    BY <2>3 DEF WriterFindsNone, WriterMoves
  <2>4. CASE WriterWrites
    <3>1. /\ WriterMoves("write", "loop") \/ WriterMoves("drainwrite", "drain")
          /\ UNCHANGED <<running, serial_queue>>
      BY <2>4 DEF WriterWrites
    <3> QED
      BY <3>1 DEF WriterMoves
  <2>5. CASE WriterIOError
    BY <2>5 DEF WriterIOError, WriterMoves, Usable
  <2>6. CASE WriterCrashes
    BY <2>6 DEF WriterCrashes, WriterMoves
  <2> QED
    BY <1>7, <2>1, <2>2, <2>3, <2>4, <2>5, <2>6 DEF Writer
<1>8. CASE Fifo
  <2>1. CASE FifoLoop
    BY <2>1 DEF FifoLoop, FifoMoves
  <2>2. CASE FifoTakes
    BY <2>2 DEF FifoTakes, FifoMoves
  <2>3. CASE FifoFindsNone
    BY <2>3 DEF FifoFindsNone, FifoMoves
  <2>4. CASE FifoWrites
    BY <2>4 DEF FifoWrites, FifoMoves
  <2> QED
    BY <1>8, <2>1, <2>2, <2>3, <2>4 DEF Fifo
<1>9. CASE Environment
  <2>1. CASE ControlEnds
    BY <2>1 DEF ControlEnds, Handlers
  <2>2. CASE FifoOpened
    BY <2>2 DEF FifoOpened, FifoMoves
  <2>3. CASE Unplug
    BY <2>3 DEF Unplug
  <2>4. CASE ReaderRaises
    BY <2>4 DEF ReaderRaises, ReaderMoves, Usable
  <2> QED
    BY <1>9, <2>1, <2>2, <2>3, <2>4 DEF Environment
<1>10. CASE UNCHANGED vars
  BY <1>10 DEF vars
<1> QED
  BY <1>1, <1>2, <1>3, <1>4, <1>5, <1>6, <1>7, <1>8, <1>9, <1>10 DEF Next

LEMMA OnceInit == Init => Once
BY EmptyAmong DEF Init, Once, Fresh, Reading, Stopping, Released, Kept, Threads, Stoppers, Unopened,
     Later, Ended, MainRuns

(* The first capture is stopped after its start.                           *)
LEMMA OnceKept == ASSUME captures' <= 1, TInv, Once, [Next]_vars PROVE Kept'
<1>1. \A s \in Stoppers : stop[s] = "join" => to_start = <<>>
  BY DEF TInv, Starting, Once, Stopping, Reading, Later
<1> QED
  BY <1>1, KeptNext DEF Once

LEMMA OnceAlways == Spec => [](TInv /\ (captures <= 1 => Once))
<1>1. TInv /\ (captures <= 1 => Once) /\ [Next]_vars => (TInv /\ (captures <= 1 => Once))'
  <2> SUFFICES ASSUME TInv, captures <= 1 => Once, [Next]_vars, captures' <= 1
               PROVE  Once'
    BY TInvNext
  <2>1. Once
    BY CountsGrow
  <2>2. Kept'
    BY <2>1, OnceKept
  <2> QED
    BY <2>1, <2>2, FreshNext, ReadingNext, StoppingNext, ReleasedNext DEF Once
<1> QED
  BY <1>1, TInvInit, OnceInit, PTL DEF Spec

(* stop_sig_handler: whoever stops the object's first capture - main, for  *)
(* any number of signals, the control pipe's end, or the reader - found    *)
(* the reader past the end of its setup.                                   *)
THEOREM FirstStopsOnlyStarted == Spec => [](captures <= 1 => StopsOnlyStarted)
<1>1. Once => StopsOnlyStarted
  BY DEF Once, Stopping, Reading, StopsOnlyStarted, Later
<1> QED
  BY <1>1, OnceAlways, PTL

(* In the first capture the port is released once a handler of main or of  *)
(* the control thread has returned.                                        *)
THEOREM FirstPortReleased == Spec => [](captures <= 1 => PortReleased)
<1>1. Once => PortReleased
  BY DEF Once, Released, PortReleased, At
<1> QED
  BY <1>1, OnceAlways, PTL

(* In the first capture self.threads is empty only when the writer and the *)
(* fifo thread have ended.                                                 *)
THEOREM FirstForgottenOnlyIfEnded == Spec => [](captures <= 1 => ForgottenOnlyIfEnded)
<1>1. Once => ForgottenOnlyIfEnded
  BY EmptyAmong DEF Once, Kept, ForgottenOnlyIfEnded
<1> QED
  BY <1>1, OnceAlways, PTL

(* So for an object that captures once, as the extcap program's does, the  *)
(* three hold throughout.                                                  *)
LEMMA CapturesBound == MaxCaptures <= 1 /\ TInv => captures <= 1
BY SnifferAssumption DEF TInv, Scalars
THEOREM OnceStopsOnlyStarted == ASSUME MaxCaptures <= 1 PROVE Spec => []StopsOnlyStarted
BY FirstStopsOnlyStarted, CapturesBound, TInvAlways, PTL
THEOREM OncePortReleased == ASSUME MaxCaptures <= 1 PROVE Spec => []PortReleased
BY FirstPortReleased, CapturesBound, TInvAlways, PTL
THEOREM OnceForgottenOnlyIfEnded == ASSUME MaxCaptures <= 1 PROVE Spec => []ForgottenOnlyIfEnded
BY FirstForgottenOnlyIfEnded, CapturesBound, TInvAlways, PTL

-----------------------------------------------------------------------------
(* Every capture, without a control pipe                                   *)

(* Without a control pipe no control thread is started.                    *)
LEMMA NoControlNext ==
    ASSUME ~HasControl, TInv, NoControl, [Next]_vars
    PROVE  NoControl'
<1> USE GotoIs, ResumeIs, RaisesIs, CallsAre DEF TInv, NoControl, Places, Threads, Stoppers, At,
     events, packets, sniffer, joins, starts
<1>1. ASSUME StartCapture PROVE NoControl'
  <2>1. pc'["control"] = "off" /\ stop' = stop /\ to_start' = ThreadList
    BY <1>1 DEF StartCapture
  <2> QED
    BY <2>1, ThreadListIs
<1>2. ASSUME RefuseCapture PROVE NoControl'
  BY <1>2 DEF RefuseCapture
<1>3. CASE Main
  <2>1. CASE StartThread
    <3>1. to_start \in Seq(Threads) /\ to_start # <<>> /\ to_start' = Tail(to_start)
      BY <2>1 DEF StartThread, Lists
    <3>2. Head(to_start) \in Threads /\ Head(to_start) # "control" /\ ~Among("control", Tail(to_start))
      BY <3>1, HeadAmong
    <3> QED
      BY <2>1, <3>1, <3>2 DEF StartThread
  <2>2. CASE AllStarted
    BY <2>2 DEF AllStarted
  <2>3. CASE CaptureReturns
    BY <2>3 DEF CaptureReturns
  <2> QED
    BY <1>3, <2>1, <2>2, <2>3 DEF Main
<1>4. ASSUME Signal PROVE NoControl'
  BY <1>4, SignalIs, CallsAre DEF Signal
<1>5. ASSUME NEW s \in Stoppers, Stop(s) PROVE NoControl'
  <2>1. CASE StopWait(s)
    BY <2>1 DEF StopWait, Step, Handlers
  <2>2. CASE StopCheck(s)
    BY <2>2 DEF StopCheck, Step, Handlers
  <2>3. CASE StopPut(s)
    BY <2>3 DEF StopPut, Step, Handlers
  <2>4. CASE StopClear(s)
    BY <2>4 DEF StopClear, Step, Handlers
  <2>5. CASE StopJoin(s)
    BY <2>5 DEF StopJoin, MayBlock, Handlers, Step
  <2>6. CASE StopPrune(s)
    BY <2>6 DEF StopPrune, Step, Handlers
  <2>7. CASE StopNothingOpen(s)
    BY <2>7 DEF StopNothingOpen, Step, Handlers, Handling
  <2>8. CASE StopFoundOpen(s)
    BY <2>8 DEF StopFoundOpen, Step, Handlers
  <2>9. CASE StopClose(s)
    BY <2>9 DEF StopClose, Step, Handlers, Handling
  <2>10. CASE StopCloseRaises(s)
    BY <2>10 DEF StopCloseRaises, Step, Handlers, Handling
  <2> QED
    BY <1>5, <2>1, <2>2, <2>3, <2>4, <2>5, <2>6, <2>7, <2>8, <2>9, <2>10 DEF Stop
<1>6. CASE Reader
  <2>1. CASE ReaderDelay
    BY <2>1 DEF ReaderDelay, ReaderMoves
  <2>2. CASE ReaderTest
    BY <2>2 DEF ReaderTest, ReaderMoves
  <2>3. CASE ReaderOpens
    BY <2>3 DEF ReaderOpens, ReaderMoves
  <2>4. CASE ReaderRetries
    BY <2>4 DEF ReaderRetries, ReaderMoves
  <2>5. CASE ReaderGivesUp
    BY <2>5 DEF ReaderGivesUp, ReaderMoves
  <2>6. CASE ReaderSetup
    BY <2>6 DEF ReaderSetup, ReaderMoves, Usable
  <2>7. CASE ReaderEchoed
    BY <2>7 DEF ReaderEchoed, ReaderMoves, Usable
  <2>8. CASE ReaderMisreads
    BY <2>8 DEF ReaderMisreads, ReaderMoves
  <2>9. CASE ReaderReady
    BY <2>9 DEF ReaderReady, ReaderMoves
  <2>10. CASE ReaderDone
    BY <2>10 DEF ReaderDone, ReaderMoves
  <2>11. CASE ReaderPacket
    BY <2>11 DEF ReaderPacket, Usable
  <2>12. CASE ReaderLeavesLoop
    BY <2>12 DEF ReaderLeavesLoop, ReaderMoves
  <2>13. CASE ReaderFails
    BY <2>13 DEF ReaderFails, ReaderMoves, Usable
  <2>14. CASE ReaderFinal
    BY <2>14 DEF ReaderFinal, ReaderMoves
  <2>15. CASE ReaderCheck
    BY <2>15 DEF ReaderCheck, Handlers
  <2> QED
    BY <1>6, <2>1, <2>2, <2>3, <2>4, <2>5, <2>6, <2>7, <2>8, <2>9, <2>10,
         <2>11, <2>12, <2>13, <2>14, <2>15 DEF Reader
<1>7. CASE Writer
  <2>1. CASE WriterLoop
    BY <2>1 DEF WriterLoop, WriterMoves
  <2>2. CASE WriterTakes
    BY <2>2 DEF WriterTakes, WriterMoves
  <2>3. CASE WriterFindsNone
    BY <2>3 DEF WriterFindsNone, WriterMoves
  <2>4. CASE WriterWrites
    <3>1. /\ WriterMoves("write", "loop") \/ WriterMoves("drainwrite", "drain")
          /\ UNCHANGED <<running, serial_queue>>
      BY <2>4 DEF WriterWrites
    <3> QED
      BY <3>1 DEF WriterMoves
  <2>5. CASE WriterIOError
    BY <2>5 DEF WriterIOError, WriterMoves, Usable
  <2>6. CASE WriterCrashes
    BY <2>6 DEF WriterCrashes, WriterMoves
  <2> QED
    BY <1>7, <2>1, <2>2, <2>3, <2>4, <2>5, <2>6 DEF Writer
<1>8. CASE Fifo
  <2>1. CASE FifoLoop
    BY <2>1 DEF FifoLoop, FifoMoves
  <2>2. CASE FifoTakes
    BY <2>2 DEF FifoTakes, FifoMoves
  <2>3. CASE FifoFindsNone
    BY <2>3 DEF FifoFindsNone, FifoMoves
  <2>4. CASE FifoWrites
    BY <2>4 DEF FifoWrites, FifoMoves
  <2> QED
    BY <1>8, <2>1, <2>2, <2>3, <2>4 DEF Fifo
<1>9. CASE Environment
  <2>1. CASE ControlEnds
    BY <2>1 DEF ControlEnds, Handlers
  <2>2. CASE FifoOpened
    BY <2>2 DEF FifoOpened, FifoMoves
  <2>3. CASE Unplug
    BY <2>3 DEF Unplug
  <2>4. CASE ReaderRaises
    BY <2>4 DEF ReaderRaises, ReaderMoves, Usable
  <2> QED
    BY <1>9, <2>1, <2>2, <2>3, <2>4 DEF Environment
<1>10. CASE UNCHANGED vars
  BY <1>10 DEF vars
<1> QED
  BY <1>1, <1>2, <1>3, <1>4, <1>5, <1>6, <1>7, <1>8, <1>9, <1>10 DEF Next

(* Without a control pipe, main stops a capture only after its start, and  *)
(* the reader only past its delay.                                         *)
LEMMA AloneKept == ASSUME TInv, NoControl, Kept, [Next]_vars PROVE Kept'
<1>1. ASSUME NEW s \in Stoppers, stop[s] = "join" PROVE to_start = <<>>
  BY <1>1 DEF TInv, Starting, Handling, MainRuns, NoControl, Stoppers
<1> QED
  BY <1>1, KeptNext

(* An object that was given no control pipe forgets no live writer or fifo *)
(* thread in any of its captures, so that the test of extcap_capture finds *)
(* each of them.                                                           *)
THEOREM ForgottenWithoutControl == ASSUME ~HasControl PROVE Spec => []ForgottenOnlyIfEnded
<1>1. TInv /\ NoControl /\ Kept /\ [Next]_vars => (TInv /\ NoControl /\ Kept)'
  BY TInvNext, NoControlNext, AloneKept
<1>2. Init => TInv /\ NoControl /\ Kept
  BY TInvInit, OnceInit, EmptyAmong DEF Init, NoControl, Once, Threads, Stoppers
<1>3. Kept => ForgottenOnlyIfEnded
  BY EmptyAmong DEF Kept, ForgottenOnlyIfEnded
<1> QED
  BY <1>1, <1>2, <1>3, PTL DEF Spec

-----------------------------------------------------------------------------
(* The first capture, stopped once                                         *)

(* Only the end of the setup asks the firmware to receive.                 *)
LEMMA ReceiveNext ==
    ASSUME TInv, NoReceive, ~(At("reader", "ready") /\ pc'["reader"] = "done"), [Next]_vars
    PROVE  NoReceive'
<1> USE GotoIs, ResumeIs, RaisesIs, CallsAre DEF TInv, NoReceive, Lists, InHand, Places, Threads,
     Stoppers, At, events, packets, sniffer, joins, starts
<1>1. ASSUME StartCapture PROVE NoReceive'
  BY <1>1 DEF StartCapture
<1>2. ASSUME RefuseCapture PROVE NoReceive'
  BY <1>2 DEF RefuseCapture
<1>3. CASE Main
  <2>1. CASE StartThread
    <3>1. /\ Head(to_start) \in Threads /\ pc[Head(to_start)] = "off" /\ to_start # <<>>
          /\ pc["main"] = "starting"
      BY <2>1, HeadAmong DEF StartThread, Lists, Starting
    <3> QED
      BY <2>1, <3>1 DEF StartThread, FirstStep
  <2>2. CASE AllStarted
    BY <2>2 DEF AllStarted
  <2>3. CASE CaptureReturns
    BY <2>3 DEF CaptureReturns
  <2> QED
    BY <1>3, <2>1, <2>2, <2>3 DEF Main
<1>4. ASSUME Signal PROVE NoReceive'
  BY <1>4 DEF Signal
<1>5. ASSUME NEW s \in Stoppers, Stop(s) PROVE NoReceive'
  <2>1. CASE StopWait(s)
    BY <2>1 DEF StopWait, Step
  <2>2. CASE StopCheck(s)
    BY <2>2 DEF StopCheck, Step
  <2>3. CASE StopPut(s)
    <3>1. serial_queue' = Append(serial_queue, "sleep") /\ UNCHANGED <<device, cmd>>
      BY <2>3 DEF StopPut
    <3>2. serial_queue \in Seq(Commands) /\ "sleep" \in Commands
      BY DEF Commands
    <3>3. ~Among("receive", serial_queue')
      BY <3>1, <3>2, AppendAmong
    <3> QED
      BY <3>1, <3>3
  <2>4. CASE StopClear(s)
    BY <2>4 DEF StopClear, Step
  <2>5. CASE StopJoin(s)
    BY <2>5 DEF StopJoin, MayBlock
  <2>6. CASE StopPrune(s)
    BY <2>6 DEF StopPrune, Step
  <2>7. CASE StopNothingOpen(s)
    BY <2>7 DEF StopNothingOpen, Step
  <2>8. CASE StopFoundOpen(s)
    BY <2>8 DEF StopFoundOpen, Step
  <2>9. CASE StopClose(s)
    BY <2>9 DEF StopClose, Step
  <2>10. CASE StopCloseRaises(s)
    BY <2>10 DEF StopCloseRaises, Step
  <2> QED
    BY <1>5, <2>1, <2>2, <2>3, <2>4, <2>5, <2>6, <2>7, <2>8, <2>9, <2>10 DEF Stop
<1>6. CASE Reader
  <2>1. CASE ReaderDelay
    BY <2>1 DEF ReaderDelay, ReaderMoves
  <2>2. CASE ReaderTest
    BY <2>2 DEF ReaderTest, ReaderMoves
  <2>3. CASE ReaderOpens
    BY <2>3 DEF ReaderOpens, ReaderMoves
  <2>4. CASE ReaderRetries
    BY <2>4 DEF ReaderRetries, ReaderMoves
  <2>5. CASE ReaderGivesUp
    BY <2>5 DEF ReaderGivesUp, ReaderMoves
  <2>6. CASE ReaderSetup
    <3>1. serial_queue' = serial_queue \o <<"sleep", "channel">> /\ UNCHANGED <<device, cmd>>
      BY <2>6 DEF ReaderSetup, ReaderMoves
    <3>2. serial_queue \in Seq(Commands) /\ "sleep" \in Commands /\ "channel" \in Commands
      BY DEF Commands
    <3>3. ~Among("receive", serial_queue')
      BY <3>1, <3>2, TwoAmong
    <3> QED
      BY <3>1, <3>3
  <2>7. CASE ReaderEchoed
    BY <2>7 DEF ReaderEchoed, ReaderMoves, Usable
  <2>8. CASE ReaderMisreads
    BY <2>8 DEF ReaderMisreads, ReaderMoves
  <2>9. CASE ReaderReady
    BY <2>9 DEF ReaderReady, ReaderMoves
  <2>10. CASE ReaderDone
    BY <2>10 DEF ReaderDone, ReaderMoves
  <2>11. CASE ReaderPacket
    BY <2>11 DEF ReaderPacket, Usable
  <2>12. CASE ReaderLeavesLoop
    BY <2>12 DEF ReaderLeavesLoop, ReaderMoves
  <2>13. CASE ReaderFails
    BY <2>13 DEF ReaderFails, ReaderMoves, Usable
  <2>14. CASE ReaderFinal
    BY <2>14 DEF ReaderFinal, ReaderMoves
  <2>15. CASE ReaderCheck
    BY <2>15 DEF ReaderCheck
  <2> QED
    BY <1>6, <2>1, <2>2, <2>3, <2>4, <2>5, <2>6, <2>7, <2>8, <2>9, <2>10,
         <2>11, <2>12, <2>13, <2>14, <2>15 DEF Reader
<1>7. CASE Writer
  <2>1. CASE WriterLoop
    BY <2>1 DEF WriterLoop, WriterMoves
  <2>2. CASE WriterTakes
    <3>1. /\ serial_queue # <<>> /\ cmd' = Head(serial_queue) /\ serial_queue' = Tail(serial_queue)
          /\ device' = device
      BY <2>2 DEF WriterTakes, WriterMoves
    <3>2. serial_queue \in Seq(Commands)
      OBVIOUS
    <3>3. ~Among("receive", Tail(serial_queue)) /\ Head(serial_queue) # "receive"
      BY <3>1, <3>2, HeadAmong
    <3> QED
      BY <3>1, <3>3
  <2>3. CASE WriterFindsNone
    BY <2>3 DEF WriterFindsNone, WriterMoves
  <2>4. CASE WriterWrites
    <3>1. /\ device' = (IF cmd = "channel" THEN device ELSE cmd) /\ cmd' = "none"
          /\ serial_queue' = serial_queue
      BY <2>4 DEF WriterWrites
    <3> QED
      BY <3>1
  <2>5. CASE WriterIOError
    BY <2>5 DEF WriterIOError, WriterMoves, Usable
  <2>6. CASE WriterCrashes
    BY <2>6 DEF WriterCrashes, WriterMoves
  <2> QED
    BY <1>7, <2>1, <2>2, <2>3, <2>4, <2>5, <2>6 DEF Writer
<1>8. CASE Fifo
  <2>1. CASE FifoLoop
    BY <2>1 DEF FifoLoop, FifoMoves
  <2>2. CASE FifoTakes
    BY <2>2 DEF FifoTakes, FifoMoves
  <2>3. CASE FifoFindsNone
    BY <2>3 DEF FifoFindsNone, FifoMoves
  <2>4. CASE FifoWrites
    BY <2>4 DEF FifoWrites, FifoMoves
  <2> QED
    BY <1>8, <2>1, <2>2, <2>3, <2>4 DEF Fifo
<1>9. CASE Environment
  <2>1. CASE ControlEnds
    BY <2>1 DEF ControlEnds
  <2>2. CASE FifoOpened
    BY <2>2 DEF FifoOpened, FifoMoves
  <2>3. CASE Unplug
    BY <2>3 DEF Unplug
  <2>4. CASE ReaderRaises
    BY <2>4 DEF ReaderRaises, ReaderMoves, Usable
  <2> QED
    BY <1>9, <2>1, <2>2, <2>3, <2>4 DEF Environment
<1>10. CASE UNCHANGED vars
  BY <1>10 DEF vars
<1> QED
  BY <1>1, <1>2, <1>3, <1>4, <1>5, <1>6, <1>7, <1>8, <1>9, <1>10 DEF Next

(* Every step keeps Writing: the writer has nothing to write before the    *)
(* port is open.                                                           *)
LEMMA WritingNext ==
    ASSUME captures' <= 1, TInv, Fresh, Reading, Stopping, Writing, [Next]_vars
    PROVE  Writing'
<1> USE GotoIs, ResumeIs, SnifferAssumption DEF TInv, Writing, Unopened,
     Places, Threads, Stoppers, At, events, packets, sniffer, joins, starts
<1>1. ASSUME StartCapture PROVE Writing'
  BY <1>1 DEF StartCapture, Scalars, Fresh
<1>2. ASSUME RefuseCapture PROVE Writing'
  BY <1>2 DEF RefuseCapture
<1>3. CASE Main
  <2>1. CASE StartThread
    <3>1. /\ Head(to_start) \in Threads /\ pc[Head(to_start)] = "off" /\ to_start # <<>>
          /\ pc["main"] = "starting"
      BY <2>1, HeadAmong DEF StartThread, Lists, Starting
    <3> QED
      BY <2>1, <3>1 DEF StartThread, FirstStep
  <2>2. CASE AllStarted
    BY <2>2 DEF AllStarted
  <2>3. CASE CaptureReturns
    BY <2>3 DEF CaptureReturns
  <2> QED
    BY <1>3, <2>1, <2>2, <2>3 DEF Main
<1>4. ASSUME Signal PROVE Writing'
  BY <1>4 DEF Signal, Handlers
<1>5. ASSUME NEW s \in Stoppers, Stop(s) PROVE Writing'
  <2>1. CASE StopWait(s)
    BY <2>1 DEF StopWait, Step, Handlers
  <2>2. CASE StopCheck(s)
    BY <2>2 DEF StopCheck, Step, Handlers
  <2>3. CASE StopPut(s)
    BY <2>3 DEF StopPut, Step, Handlers, Stopping, Reading, Later
  <2>4. CASE StopClear(s)
    BY <2>4 DEF StopClear, Step, Handlers
  <2>5. CASE StopJoin(s)
    BY <2>5 DEF StopJoin, MayBlock, Handlers, Step
  <2>6. CASE StopPrune(s)
    BY <2>6 DEF StopPrune, Step, Handlers
  <2>7. CASE StopNothingOpen(s)
    BY <2>7 DEF StopNothingOpen, Step, Handlers, Handling
  <2>8. CASE StopFoundOpen(s)
    BY <2>8 DEF StopFoundOpen, Step, Handlers
  <2>9. CASE StopClose(s)
    BY <2>9 DEF StopClose, Step, Handlers, Handling
  <2>10. CASE StopCloseRaises(s)
    BY <2>10 DEF StopCloseRaises, Step, Handlers, Handling
  <2> QED
    BY <1>5, <2>1, <2>2, <2>3, <2>4, <2>5, <2>6, <2>7, <2>8, <2>9, <2>10 DEF Stop
<1>6. CASE Reader
  <2>1. CASE ReaderDelay
    BY <2>1 DEF ReaderDelay, ReaderMoves, Reading
  <2>2. CASE ReaderTest
    BY <2>2 DEF ReaderTest, ReaderMoves, Reading
  <2>3. CASE ReaderOpens
    BY <2>3 DEF ReaderOpens, ReaderMoves, Reading
  <2>4. CASE ReaderRetries
    BY <2>4 DEF ReaderRetries, ReaderMoves, Reading
  <2>5. CASE ReaderGivesUp
    BY <2>5 DEF ReaderGivesUp, ReaderMoves, Reading
  <2>6. CASE ReaderSetup
    BY <2>6 DEF ReaderSetup, ReaderMoves, Usable, Reading
  <2>7. CASE ReaderEchoed
    BY <2>7 DEF ReaderEchoed, ReaderMoves, Usable, Reading
  <2>8. CASE ReaderMisreads
    BY <2>8 DEF ReaderMisreads, ReaderMoves, Reading
  <2>9. CASE ReaderReady
    BY <2>9 DEF ReaderReady, ReaderMoves, Reading
  <2>10. CASE ReaderDone
    BY <2>10 DEF ReaderDone, ReaderMoves, Reading
  <2>11. CASE ReaderPacket
    BY <2>11 DEF ReaderPacket, Usable, Reading
  <2>12. CASE ReaderLeavesLoop
    BY <2>12 DEF ReaderLeavesLoop, ReaderMoves, Reading
  <2>13. CASE ReaderFails
    BY <2>13 DEF ReaderFails, ReaderMoves, Usable, Reading
  <2>14. CASE ReaderFinal
    BY <2>14 DEF ReaderFinal, ReaderMoves, Reading
  <2>15. CASE ReaderCheck
    BY <2>15 DEF ReaderCheck, Handlers, Reading
  <2> QED
    BY <1>6, <2>1, <2>2, <2>3, <2>4, <2>5, <2>6, <2>7, <2>8, <2>9, <2>10,
         <2>11, <2>12, <2>13, <2>14, <2>15 DEF Reader
<1>7. CASE Writer
  <2>1. CASE WriterLoop
    BY <2>1 DEF WriterLoop, WriterMoves, Reading, Fresh, Scalars
  <2>2. CASE WriterTakes
    BY <2>2 DEF WriterTakes, WriterMoves, Reading, Fresh, Scalars
  <2>3. CASE WriterFindsNone
    BY <2>3 DEF WriterFindsNone, WriterMoves, Reading, Fresh, Scalars
  <2>4. CASE WriterWrites
    <3>1. /\ WriterMoves("write", "loop") \/ WriterMoves("drainwrite", "drain")
          /\ UNCHANGED <<running, serial_queue>>
      BY <2>4 DEF WriterWrites
    <3> QED
      BY <3>1 DEF WriterMoves
  <2>5. CASE WriterIOError
    <3>1. /\ running' = FALSE /\ serial_queue' = serial_queue
          /\ WriterMoves("write", "loop") \/ WriterMoves("drainwrite", "drain")
      BY <2>5 DEF WriterIOError
    <3> QED
      BY <3>1 DEF WriterMoves
  <2>6. CASE WriterCrashes
    BY <2>6 DEF WriterCrashes, WriterMoves, Reading, Fresh, Scalars
  <2> QED
    BY <1>7, <2>1, <2>2, <2>3, <2>4, <2>5, <2>6 DEF Writer
<1>8. CASE Fifo
  <2>1. CASE FifoLoop
    BY <2>1 DEF FifoLoop, FifoMoves
  <2>2. CASE FifoTakes
    BY <2>2 DEF FifoTakes, FifoMoves
  <2>3. CASE FifoFindsNone
    BY <2>3 DEF FifoFindsNone, FifoMoves
  <2>4. CASE FifoWrites
    BY <2>4 DEF FifoWrites, FifoMoves
  <2> QED
    BY <1>8, <2>1, <2>2, <2>3, <2>4 DEF Fifo
<1>9. CASE Environment
  <2>1. CASE ControlEnds
    BY <2>1 DEF ControlEnds, Handlers
  <2>2. CASE FifoOpened
    BY <2>2 DEF FifoOpened, FifoMoves
  <2>3. CASE Unplug
    BY <2>3 DEF Unplug
  <2>4. CASE ReaderRaises
    BY <2>4 DEF ReaderRaises, ReaderMoves, Usable
  <2> QED
    BY <1>9, <2>1, <2>2, <2>3, <2>4 DEF Environment
<1>10. CASE UNCHANGED vars
  BY <1>10 DEF vars
<1> QED
  BY <1>1, <1>2, <1>3, <1>4, <1>5, <1>6, <1>7, <1>8, <1>9, <1>10 DEF Next

(* Every step keeps Setup.                                                 *)
LEMMA SetupNext ==
    ASSUME captures' <= 1, TInv, Fresh, Reading, Stopping, Writing, Setup, [Next]_vars
    PROVE  Setup'
<1> USE GotoIs, ResumeIs, SnifferAssumption DEF TInv, Setup, Unopened, Opened,
     Later, Places, Threads, Stoppers, At, events, packets, sniffer, joins,
     starts
<1>0. NoReceive /\ ~(At("reader", "ready") /\ pc'["reader"] = "done") => NoReceive'
  BY ReceiveNext
<1>keep. ASSUME pc'["reader"] = pc["reader"], UNCHANGED <<running, serial, captures, plugged>>
      PROVE  Setup'
  BY <1>0, <1>keep
<1>1. ASSUME StartCapture PROVE Setup'
  <2>1. captures = 0
    BY <1>1 DEF StartCapture, Scalars
  <2>2. NoReceive /\ serial = "none"
    BY <2>1, EmptyAmong DEF Fresh, NoReceive
  <2>3. NoReceive' /\ serial' = "none" /\ running' /\ pc'["reader"] = "off"
    BY <1>1, <1>0, <2>2 DEF StartCapture
  <2> QED
    BY <2>3
<1>2. ASSUME RefuseCapture PROVE Setup'
  BY <1>2, <1>0 DEF RefuseCapture
<1>3. CASE Main
  <2>1. CASE StartThread
    <3>1. /\ Head(to_start) \in Threads /\ pc[Head(to_start)] = "off" /\ to_start # <<>>
          /\ pc["main"] = "starting"
      BY <2>1, HeadAmong DEF StartThread, Lists, Starting
    <3>2. /\ pc'["reader"] # pc["reader"] => pc["reader"] = "off" /\ pc'["reader"] = "delay"
          /\ UNCHANGED <<running, serial, plugged, captures>>
      BY <2>1, <3>1 DEF StartThread, FirstStep
    <3> QED
      BY <1>0, <3>2
  <2>2. CASE AllStarted
    BY <2>2, <1>0 DEF AllStarted
  <2>3. CASE CaptureReturns
    BY <2>3, <1>0 DEF CaptureReturns
  <2> QED
    BY <1>3, <2>1, <2>2, <2>3 DEF Main
<1>4. ASSUME Signal PROVE Setup'
  BY <1>4, <1>0 DEF Signal, Handlers
<1>5. ASSUME NEW s \in Stoppers, Stop(s) PROVE Setup'
  <2>1. CASE StopWait(s)
    BY <2>1, <1>0 DEF StopWait, Step, Handlers, Stopping, Reading
  <2>2. CASE StopCheck(s)
    BY <2>2, <1>0 DEF StopCheck, Step, Handlers, Stopping, Reading
  <2>3. CASE StopPut(s)
    BY <2>3, <1>0 DEF StopPut, Step, Handlers, Stopping, Reading
  <2>4. CASE StopClear(s)
    BY <2>4, <1>0 DEF StopClear, Step, Handlers, Stopping, Reading
  <2>5. CASE StopJoin(s)
    BY <2>5, <1>0 DEF StopJoin, MayBlock, Handlers, Step, Stopping, Reading
  <2>6. CASE StopPrune(s)
    BY <2>6, <1>0 DEF StopPrune, Step, Handlers, Stopping, Reading
  <2>7. CASE StopNothingOpen(s)
    BY <2>7, <1>0 DEF StopNothingOpen, Step, Handlers, Handling, Stopping,
         Reading
  <2>8. CASE StopFoundOpen(s)
    BY <2>8, <1>0 DEF StopFoundOpen, Step, Handlers, Stopping, Reading
  <2>9. CASE StopClose(s)
    BY <2>9, <1>0 DEF StopClose, Step, Handlers, Handling, Stopping, Reading
  <2>10. CASE StopCloseRaises(s)
    BY <2>10, <1>0 DEF StopCloseRaises, Step, Handlers, Handling, Stopping, Reading
  <2> QED
    BY <1>5, <2>1, <2>2, <2>3, <2>4, <2>5, <2>6, <2>7, <2>8, <2>9, <2>10 DEF Stop
<1>6. CASE Reader
  <2>1. CASE ReaderDelay
    BY <2>1, <1>0 DEF ReaderDelay, ReaderMoves, Scalars, Reading, Fresh
  <2>2. CASE ReaderTest
    BY <2>2, <1>0 DEF ReaderTest, ReaderMoves, Scalars, Reading, Fresh
  <2>3. CASE ReaderOpens
    BY <2>3, <1>0 DEF ReaderOpens, ReaderMoves, Scalars, Reading, Fresh
  <2>4. CASE ReaderRetries
    BY <2>4, <1>0 DEF ReaderRetries, ReaderMoves, Scalars, Reading, Fresh
  <2>5. CASE ReaderGivesUp
    BY <2>5, <1>0 DEF ReaderGivesUp, ReaderMoves, Scalars, Reading, Fresh
  <2>6. CASE ReaderSetup
    BY <2>6, <1>0 DEF ReaderSetup, ReaderMoves, Usable, Scalars, Reading,
         Fresh
  <2>7. CASE ReaderEchoed
    BY <2>7, <1>0 DEF ReaderEchoed, ReaderMoves, Usable, Scalars, Reading,
         Fresh
  <2>8. CASE ReaderMisreads
    BY <2>8, <1>0 DEF ReaderMisreads, ReaderMoves, Scalars, Reading, Fresh
  <2>9. CASE ReaderReady
    BY <2>9, <1>0 DEF ReaderReady, ReaderMoves, Scalars, Reading, Fresh
  <2>10. CASE ReaderDone
    BY <2>10, <1>0 DEF ReaderDone, ReaderMoves, Scalars, Reading, Fresh
  <2>11. CASE ReaderPacket
    BY <2>11, <1>0 DEF ReaderPacket, Usable, Scalars, Reading, Fresh
  <2>12. CASE ReaderLeavesLoop
    BY <2>12, <1>0 DEF ReaderLeavesLoop, ReaderMoves, Scalars, Reading, Fresh
  <2>13. CASE ReaderFails
    BY <2>13, <1>0 DEF ReaderFails, ReaderMoves, Usable, Scalars, Reading,
         Fresh
  <2>14. CASE ReaderFinal
    BY <2>14, <1>0 DEF ReaderFinal, ReaderMoves, Scalars, Reading, Fresh
  <2>15. CASE ReaderCheck
    BY <2>15, <1>0 DEF ReaderCheck, Handlers, Scalars, Reading, Fresh
  <2> QED
    BY <1>6, <2>1, <2>2, <2>3, <2>4, <2>5, <2>6, <2>7, <2>8, <2>9, <2>10,
         <2>11, <2>12, <2>13, <2>14, <2>15 DEF Reader
<1>7. CASE Writer
  <2>1. CASE WriterLoop
    <3>1. pc'["reader"] = pc["reader"] /\ UNCHANGED <<running, serial, captures, plugged>>
      BY <2>1 DEF WriterLoop, WriterMoves
    <3> QED
      BY <1>keep, <3>1
  <2>2. CASE WriterTakes
    <3>1. pc'["reader"] = pc["reader"] /\ UNCHANGED <<running, serial, captures, plugged>>
      BY <2>2 DEF WriterTakes, WriterMoves
    <3> QED
      BY <1>keep, <3>1
  <2>3. CASE WriterFindsNone
    <3>1. pc'["reader"] = pc["reader"] /\ UNCHANGED <<running, serial, captures, plugged>>
      BY <2>3 DEF WriterFindsNone, WriterMoves
    <3> QED
      BY <1>keep, <3>1
  <2>4. CASE WriterWrites
    <3>1. pc'["reader"] = pc["reader"]
      BY <2>4 DEF WriterWrites, WriterMoves
    <3>2. UNCHANGED <<running, serial, captures, plugged>>
      BY <2>4 DEF WriterWrites, WriterMoves
    <3> QED
      BY <1>keep, <3>1, <3>2
  <2>5. CASE WriterIOError
    <3>1. /\ pc'["reader"] = pc["reader"] /\ UNCHANGED <<serial, captures, plugged>>
          /\ running' = FALSE
          /\ plugged => serial = "closed"
      BY <2>5 DEF WriterIOError, WriterMoves, Usable, Scalars
    <3>2. plugged => NoReceive /\ pc["reader"] \in Later \ {"loop"}
      BY <3>1
    <3>3. plugged => NoReceive'
      BY <1>0, <3>2
    <3> QED
      BY <3>1, <3>2, <3>3
  <2>6. CASE WriterCrashes
    <3>1. pc'["reader"] = pc["reader"] /\ UNCHANGED <<running, serial, captures, plugged>>
      BY <2>6 DEF WriterCrashes, WriterMoves
    <3> QED
      BY <1>keep, <3>1
  <2> QED
    BY <1>7, <2>1, <2>2, <2>3, <2>4, <2>5, <2>6 DEF Writer
<1>8. CASE Fifo
  <2>1. CASE FifoLoop
    <3>1. pc'["reader"] = pc["reader"] /\ UNCHANGED <<running, serial, captures, plugged>>
      BY <2>1 DEF FifoLoop, FifoMoves
    <3> QED
      BY <1>keep, <3>1
  <2>2. CASE FifoTakes
    <3>1. pc'["reader"] = pc["reader"] /\ UNCHANGED <<running, serial, captures, plugged>>
      BY <2>2 DEF FifoTakes, FifoMoves
    <3> QED
      BY <1>keep, <3>1
  <2>3. CASE FifoFindsNone
    <3>1. pc'["reader"] = pc["reader"] /\ UNCHANGED <<running, serial, captures, plugged>>
      BY <2>3 DEF FifoFindsNone, FifoMoves
    <3> QED
      BY <1>keep, <3>1
  <2>4. CASE FifoWrites
    <3>1. pc'["reader"] = pc["reader"] /\ UNCHANGED <<running, serial, captures, plugged>>
      BY <2>4 DEF FifoWrites, FifoMoves
    <3> QED
      BY <1>keep, <3>1
  <2> QED
    BY <1>8, <2>1, <2>2, <2>3, <2>4 DEF Fifo
<1>9. CASE Environment
  <2>1. CASE ControlEnds
    BY <2>1, <1>0 DEF ControlEnds, Handlers
  <2>2. CASE FifoOpened
    <3>1. pc'["reader"] = pc["reader"] /\ UNCHANGED <<running, serial, captures, plugged>>
      BY <2>2 DEF FifoOpened, FifoMoves
    <3> QED
      BY <1>keep, <3>1
  <2>3. CASE Unplug
    BY <2>3, <1>0 DEF Unplug
  <2>4. CASE ReaderRaises
    BY <2>4 DEF ReaderRaises, ReaderMoves, Usable
  <2> QED
    BY <1>9, <2>1, <2>2, <2>3, <2>4 DEF Environment
<1>10. CASE UNCHANGED vars
  BY <1>keep, <1>10 DEF vars
<1> QED
  BY <1>1, <1>2, <1>3, <1>4, <1>5, <1>6, <1>7, <1>8, <1>9, <1>10 DEF Next

(* A step begins one call, and counts it, or none.                         *)
LEMMA CallsNext ==
    ASSUME TInv, [Next]_vars
    PROVE  \/ calls' = calls /\ \A c \in Stoppers : stop[c] = "out" => stop'[c] = "out"
           \/ calls' = calls + 1 /\ \E s \in Stoppers : \A c \in Stoppers : c # s => stop'[c] = stop[c]
<1> USE CallsAre DEF TInv, events, packets, sniffer, joins, starts
<1>1. ASSUME StartCapture \/ RefuseCapture \/ Main PROVE UNCHANGED <<stop, calls>>
  BY <1>1 DEF StartCapture, RefuseCapture, Main, StartThread, AllStarted, CaptureReturns
<1>2. ASSUME NEW s \in Stoppers, Stop(s)
      PROVE  calls' = calls /\ \A c \in Stoppers : stop[c] = "out" => stop'[c] = "out"
  BY <1>2, StopIs
<1>3. ASSUME Signal
      PROVE  calls' = calls + 1 /\ \E s \in Stoppers : \A c \in Stoppers : c # s => stop'[c] = stop[c]
  BY <1>3, SignalIs
<1>4. ASSUME Reader
      PROVE  \/ UNCHANGED <<stop, calls>>
             \/ calls' = calls + 1 /\ \E s \in Stoppers : \A c \in Stoppers : c # s => stop'[c] = stop[c]
  <2>1. CASE ReaderCheck
    BY <2>1 DEF ReaderCheck, Handlers
  <2>2. CASE ~ReaderCheck
    BY <1>4, <2>2 DEF Reader, ReaderMoves, ReaderDelay, ReaderTest, ReaderOpens, ReaderRetries,
         ReaderGivesUp, ReaderSetup, ReaderEchoed, ReaderMisreads, ReaderReady, ReaderDone, ReaderPacket,
         ReaderLeavesLoop, ReaderFails, ReaderFinal
  <2> QED
    BY <2>1, <2>2
<1>5. ASSUME Writer \/ Fifo PROVE UNCHANGED <<stop, calls>>
  BY <1>5 DEF Writer, WriterMoves, WriterLoop, WriterTakes, WriterFindsNone, WriterWrites, WriterIOError,
       WriterCrashes, Fifo, FifoMoves, FifoLoop, FifoTakes, FifoFindsNone, FifoWrites
<1>6. ASSUME ControlEnds
      PROVE  calls' = calls + 1 /\ \E s \in Stoppers : \A c \in Stoppers : c # s => stop'[c] = stop[c]
  BY <1>6 DEF ControlEnds, Handlers
<1>7. ASSUME FifoOpened \/ ReaderRaises \/ Unplug PROVE UNCHANGED <<stop, calls>>
  BY <1>7 DEF FifoOpened, FifoMoves, ReaderRaises, ReaderMoves, Unplug
<1>8. ASSUME UNCHANGED vars PROVE UNCHANGED <<stop, calls>>
  BY <1>8 DEF vars
<1> QED
  BY <1>1, <1>2, <1>3, <1>4, <1>5, <1>6, <1>7, <1>8 DEF Next, Environment

(* Every step keeps Single.                                                *)
LEMMA SingleNext ==
    ASSUME TInv, Single, [Next]_vars
    PROVE  Single'
<1>1. calls \in Nat
  BY DEF TInv, Scalars
<1>2. CASE calls' = calls /\ \A c \in Stoppers : stop[c] = "out" => stop'[c] = "out"
  BY <1>2 DEF Single
<1>3. ASSUME calls' = calls + 1,
             NEW s \in Stoppers, \A c \in Stoppers : c # s => stop'[c] = stop[c]
      PROVE  Single'
  <2>1. calls' # 0 /\ (calls' <= 1 => calls = 0)
    BY <1>1, <1>3
  <2> QED
    BY <1>3, <2>1 DEF Single
<1> QED
  BY <1>2, <1>3, CallsNext

(* Every step keeps Sleeping: who stops queues sleep last, and the writer  *)
(* has ended before the port is closed.                                    *)
LEMMA SleepingNext ==
    ASSUME captures' <= 1, calls' <= 1, TInv, Fresh, Reading, Stopping, Kept, Writing, Setup,
           Single, Sleeping, [Next]_vars
    PROVE  Sleeping'
<1> USE GotoIs, ResumeIs, SnifferAssumption DEF TInv, Places, Threads, At, events, packets,
     sniffer, joins, starts
<1>0. NoReceive /\ ~(At("reader", "ready") /\ pc'["reader"] = "done") => NoReceive'
  BY ReceiveNext
<1>calls. calls <= 1 /\ (calls' = 0 => calls = 0)
  BY CallsNext DEF Scalars
<1>quiet. ASSUME plugged' => NoReceive' PROVE Sleeping'
  BY <1>quiet DEF Sleeping
<1>keep. ASSUME UNCHANGED <<running, serial, serial_queue, cmd, device, plugged>>, stop' = stop,
                Ended("writer")' <=> Ended("writer"), pc'["writer"] = "dead" <=> pc["writer"] = "dead"
         PROVE  Sleeping'
  BY <1>keep, <1>calls DEF Sleeping, SleepsLast, NoReceive, Among
<1>stopped. plugged /\ ~NoReceive /\ ~running =>
            /\ SleepsLast /\ (pc["writer"] = "dead" => device = "sleep")
            /\ Ended("writer") \/ \E t \in Stoppers : stop[t] = "join"
  BY DEF Sleeping
<1>call. ASSUME UNCHANGED <<running, serial, serial_queue, cmd, device, plugged>>, calls' = calls + 1,
                NEW s \in Stoppers, stop'[s] = "wait", \A c \in Stoppers : c # s => stop'[c] = stop[c],
                Ended("writer")' <=> Ended("writer"), pc'["writer"] = "dead" <=> pc["writer"] = "dead"
         PROVE  Sleeping'
  <2>1. calls = 0
    BY <1>call DEF Scalars
  <2>2. \A c \in Stoppers : stop'[c] \in {"wait", "out"}
    BY <1>call, <2>1 DEF Single
  <2> QED
    BY <1>call, <2>1, <2>2 DEF Sleeping, NoReceive, Among, Scalars
<1>1. ASSUME StartCapture PROVE Sleeping'
  <2>1. captures = 0 /\ pc'["reader"] = "off"
    BY <1>1 DEF StartCapture, Scalars
  <2>2. NoReceive
    BY <2>1, EmptyAmong DEF Fresh, NoReceive
  <2> QED
    BY <1>0, <1>quiet, <2>1, <2>2
<1>2. ASSUME RefuseCapture PROVE Sleeping'
  <2>1. UNCHANGED <<running, serial, serial_queue, cmd, device, plugged>> /\ stop' = stop
        /\ pc'["writer"] = pc["writer"]
    BY <1>2 DEF RefuseCapture
  <2> QED
    BY <1>keep, <2>1 DEF Ended
<1>3. CASE Main
  <2>1. CASE StartThread
    <3>1. to_start # <<>> /\ Head(to_start) \in Threads /\ plugged' = plugged
      BY <2>1, HeadAmong DEF StartThread, Lists
    <3>2. pc["reader"] \in {"off", "delay"}
      BY <3>1 DEF Starting
    <3>3. plugged => NoReceive
      BY <3>2 DEF Setup, Unopened
    <3> QED
      BY <1>0, <1>quiet, <3>1, <3>2, <3>3
  <2>2. CASE AllStarted
    <3>1. UNCHANGED <<running, serial, serial_queue, cmd, device, plugged>> /\ stop' = stop
          /\ pc'["writer"] = pc["writer"]
      BY <2>2 DEF AllStarted
    <3> QED
      BY <1>keep, <3>1 DEF Ended
  <2>3. CASE CaptureReturns
    <3>1. UNCHANGED <<running, serial, serial_queue, cmd, device, plugged>> /\ stop' = stop
          /\ pc'["writer"] = pc["writer"]
      BY <2>3 DEF CaptureReturns
    <3> QED
      BY <1>keep, <3>1 DEF Ended
  <2> QED
    BY <1>3, <2>1, <2>2, <2>3 DEF Main
<1>4. ASSUME Signal PROVE Sleeping'
  <2>1. UNCHANGED <<running, serial, serial_queue, cmd, device, plugged, pc>>
    BY <1>4 DEF Signal
  <2> QED
    BY <1>4, <1>call, <2>1, SignalIs, CallsAre DEF Ended
<1>5. ASSUME NEW s \in Stoppers, Stop(s) PROVE Sleeping'
  <2> USE DEF Sleeping, SleepsLast, NoReceive, Among, Ended
  <2>o. \A c \in Stoppers : c # s => stop[c] = "out" /\ stop'[c] = "out"
    BY <1>5, <1>calls, StopIs DEF Single
  <2>1. CASE StopWait(s)
    <3>1. /\ UNCHANGED <<running, serial, serial_queue, cmd, device, plugged, pc>>
          /\ stop[s] = "wait" /\ stop'[s] = "check"
      BY <2>1 DEF StopWait, Step, Handlers
    <3> QED
      BY <1>calls, <2>o, <3>1
  <2>2. CASE StopCheck(s)
    <3>1. /\ UNCHANGED <<running, serial, serial_queue, cmd, device, plugged, pc>>
          /\ stop[s] = "check" /\ stop'[s] = IF running THEN "put" ELSE "close"
      BY <2>2 DEF StopCheck, Step, Handlers
    <3> QED
      BY <1>calls, <2>o, <3>1
  <2>3. CASE StopPut(s)
    <3>1. /\ UNCHANGED <<running, serial, cmd, device, plugged, pc>>
          /\ stop[s] = "put" /\ stop'[s] = "clear"
          /\ serial_queue' = Append(serial_queue, "sleep")
      BY <2>3 DEF StopPut, Step, Handlers
    <3>2. SleepsLast'
      <4>1. serial_queue \in Seq(Commands) /\ "sleep" \in Commands
        BY DEF Lists, Commands
      <4>2. serial_queue' # <<>> /\ serial_queue'[Len(serial_queue')] = "sleep"
        BY <3>1, <4>1, AppendAmong
      <4> QED
        BY <4>2 DEF SleepsLast
    <3>3. NoReceive => NoReceive'
      BY <1>0, <3>1
    <3> HIDE DEF SleepsLast, NoReceive
    <3> QED
      BY <1>calls, <2>o, <3>1, <3>2, <3>3
  <2>4. CASE StopClear(s)
    <3>1. /\ UNCHANGED <<serial, serial_queue, cmd, device, plugged, pc>>
          /\ stop[s] = "clear" /\ stop'[s] = "join" /\ calls # 0
      BY <2>4 DEF StopClear, Step, Handlers, Single
    <3> QED
      BY <1>calls, <2>o, <3>1
  <2>5. CASE StopJoin(s)
    <3>1. UNCHANGED <<running, serial, serial_queue, cmd, device, plugged, stop>>
          /\ pc'["writer"] = pc["writer"]
      BY <2>5 DEF StopJoin
    <3> QED
      BY <1>keep, <3>1
  <2>6. CASE StopPrune(s)
    <3>1. /\ UNCHANGED <<running, serial, serial_queue, cmd, device, plugged, pc>>
          /\ stop[s] = "join" /\ stop'[s] = "close" /\ joining[s] = <<>>
      BY <2>6 DEF StopPrune, Step, Handlers
    <3>2. Ended("writer")
      BY <3>1, EmptyAmong DEF Kept
    <3> QED
      BY <1>calls, <2>o, <3>1, <3>2
  <2>7. CASE StopNothingOpen(s)
    <3>1. /\ UNCHANGED <<running, serial, serial_queue, cmd, device, plugged>>
          /\ pc'["writer"] = pc["writer"]
          /\ stop[s] = "close" /\ stop'[s] = "out"
      BY <2>7, CallsAre DEF StopNothingOpen, Step, Handlers
    <3> QED
      BY <1>calls, <2>o, <3>1
  <2>8. CASE StopFoundOpen(s)
    <3>1. /\ UNCHANGED <<running, serial, serial_queue, cmd, device, plugged, pc>>
          /\ stop[s] = "close" /\ stop'[s] = "closing"
      BY <2>8 DEF StopFoundOpen, Step, Handlers
    <3> QED
      BY <1>calls, <2>o, <3>1
  <2>9. CASE StopClose(s)
    <3>1. /\ UNCHANGED <<running, serial_queue, cmd, device, plugged>>
          /\ pc'["writer"] = pc["writer"]
          /\ stop[s] = "closing" /\ stop'[s] = "out" /\ ~running
      <4>1. /\ UNCHANGED <<running, serial_queue, cmd, device, plugged>> /\ Resume(s)
            /\ stop[s] = "closing" /\ stop'[s] = "out"
        BY <2>9 DEF StopClose, Step, Handlers
      <4>2. s \notin MainCalls => s \in {"control", "reader"}
        BY CallsAre
      <4>3. pc'["writer"] = pc["writer"]
        BY <4>1, <4>2
      <4> QED
        BY <4>1, <4>3 DEF Stopping
    <3>2. /\ NoReceive' <=> NoReceive
          /\ SleepsLast' <=> SleepsLast
          /\ Ended("writer")' <=> Ended("writer")
      BY <3>1
    <3>3. \A c \in Stoppers : stop[c] # "join"
      BY <2>o, <3>1
    <3> HIDE DEF TInv, Places, Sleeping, SleepsLast, NoReceive, Ended, Among
    <3>4. plugged /\ ~NoReceive => SleepsLast /\ Ended("writer") /\ (pc["writer"] = "dead" => device = "sleep")
      BY <1>stopped, <3>1, <3>3
    <3> USE DEF Sleeping
    <3> QED
      BY <1>calls, <2>o, <3>1, <3>2, <3>4
  <2>10. CASE StopCloseRaises(s)
    <3>1. /\ UNCHANGED <<running, serial, serial_queue, cmd, device, plugged>>
          /\ pc'["writer"] = pc["writer"]
          /\ stop[s] = "closing" /\ stop'[s] = "out"
      BY <2>10, RaisesIs, CallsAre DEF StopCloseRaises
    <3> QED
      BY <1>calls, <2>o, <3>1
  <2> QED
    BY <1>5, <2>1, <2>2, <2>3, <2>4, <2>5, <2>6, <2>7, <2>8, <2>9, <2>10 DEF Stop
<1>6. CASE Reader
  <2>1. CASE ReaderDelay
    <3>1. UNCHANGED <<running, serial, serial_queue, cmd, device, plugged>> /\ stop' = stop
          /\ pc'["writer"] = pc["writer"]
      BY <2>1 DEF ReaderDelay, ReaderMoves
    <3> QED
      BY <1>keep, <3>1 DEF Ended
  <2>2. CASE ReaderTest
    <3>1. UNCHANGED <<running, serial, serial_queue, cmd, device, plugged>> /\ stop' = stop
          /\ pc'["writer"] = pc["writer"]
      BY <2>2 DEF ReaderTest, ReaderMoves
    <3> QED
      BY <1>keep, <3>1 DEF Ended
  <2>3. CASE ReaderOpens
    <3>1. /\ plugged' = plugged /\ ~(At("reader", "ready") /\ pc'["reader"] = "done")
      BY <2>3 DEF ReaderOpens, ReaderMoves
    <3>2. plugged => NoReceive
      BY <2>3 DEF ReaderOpens, ReaderMoves, Setup, Unopened, Opened
    <3> QED
      BY <1>0, <1>quiet, <3>1, <3>2
  <2>4. CASE ReaderRetries
    <3>1. UNCHANGED <<running, serial, serial_queue, cmd, device, plugged>> /\ stop' = stop
          /\ pc'["writer"] = pc["writer"]
      BY <2>4 DEF ReaderRetries, ReaderMoves
    <3> QED
      BY <1>keep, <3>1 DEF Ended
  <2>5. CASE ReaderGivesUp
    <3>1. /\ plugged' = plugged /\ ~(At("reader", "ready") /\ pc'["reader"] = "done")
      BY <2>5 DEF ReaderGivesUp, ReaderMoves
    <3>2. plugged => NoReceive
      BY <2>5 DEF ReaderGivesUp, ReaderMoves, Setup, Unopened, Opened
    <3> QED
      BY <1>0, <1>quiet, <3>1, <3>2
  <2>6. CASE ReaderSetup
    <3>1. /\ plugged' = plugged /\ ~(At("reader", "ready") /\ pc'["reader"] = "done")
      BY <2>6 DEF ReaderSetup, ReaderMoves, Usable
    <3>2. plugged => NoReceive
      BY <2>6 DEF ReaderSetup, ReaderMoves, Usable, Setup, Unopened, Opened
    <3> QED
      BY <1>0, <1>quiet, <3>1, <3>2
  <2>7. CASE ReaderEchoed
    <3>1. UNCHANGED <<running, serial, serial_queue, cmd, device, plugged>> /\ stop' = stop
          /\ pc'["writer"] = pc["writer"]
      BY <2>7 DEF ReaderEchoed, ReaderMoves, Usable
    <3> QED
      BY <1>keep, <3>1 DEF Ended
  <2>8. CASE ReaderMisreads
    <3>1. /\ plugged' = plugged /\ ~(At("reader", "ready") /\ pc'["reader"] = "done")
      BY <2>8 DEF ReaderMisreads, ReaderMoves
    <3>2. plugged => NoReceive
      BY <2>8 DEF ReaderMisreads, ReaderMoves, Setup, Unopened, Opened
    <3> QED
      BY <1>0, <1>quiet, <3>1, <3>2
  <2>9. CASE ReaderReady
    <3>1. /\ UNCHANGED <<running, setup_done, serial, cmd, device, plugged>> /\ stop' = stop
          /\ pc["reader"] = "ready" /\ pc'["writer"] = pc["writer"]
      BY <2>9 DEF ReaderReady, ReaderMoves
    <3>6. captures > 0
      BY <3>1 DEF Fresh, Scalars, Threads
    <3>2. plugged => running
      BY <3>1, <3>6 DEF Setup, Opened
    <3>3. ~setup_done /\ (serial = "none" => ~running)
      BY <3>1, <3>6 DEF Reading, Later, Unopened
    <3>4. pc["writer"] = "dead" => ~running
      BY DEF Writing
    <3>5. \A s \in Stoppers : stop[s] # "clear"
      BY <3>3 DEF Stopping
    <3> QED
      BY <1>calls, <3>1, <3>2, <3>3, <3>4, <3>5 DEF Sleeping
  <2>10. CASE ReaderDone
    <3>1. UNCHANGED <<running, serial, serial_queue, cmd, device, plugged>> /\ stop' = stop
          /\ pc'["writer"] = pc["writer"]
      BY <2>10 DEF ReaderDone, ReaderMoves
    <3> QED
      BY <1>keep, <3>1 DEF Ended
  <2>11. CASE ReaderPacket
    <3>1. UNCHANGED <<running, serial, serial_queue, cmd, device, plugged>> /\ stop' = stop
          /\ pc'["writer"] = pc["writer"]
      BY <2>11 DEF ReaderPacket, Usable
    <3> QED
      BY <1>keep, <3>1 DEF Ended
  <2>12. CASE ReaderLeavesLoop
    <3>1. UNCHANGED <<running, serial, serial_queue, cmd, device, plugged>> /\ stop' = stop
          /\ pc'["writer"] = pc["writer"]
      BY <2>12 DEF ReaderLeavesLoop, ReaderMoves
    <3> QED
      BY <1>keep, <3>1 DEF Ended
  <2>13. CASE ReaderFails
    <3>1. UNCHANGED <<running, serial, serial_queue, cmd, device, plugged>> /\ stop' = stop
          /\ pc'["writer"] = pc["writer"]
      BY <2>13 DEF ReaderFails, ReaderMoves, Usable
    <3> QED
      BY <1>keep, <3>1 DEF Ended
  <2>14. CASE ReaderFinal
    <3>1. UNCHANGED <<running, serial, serial_queue, cmd, device, plugged>> /\ stop' = stop
          /\ pc'["writer"] = pc["writer"]
      BY <2>14 DEF ReaderFinal, ReaderMoves
    <3> QED
      BY <1>keep, <3>1 DEF Ended
  <2>15. CASE ReaderCheck
    <3>1. UNCHANGED <<running, serial, serial_queue, cmd, device, plugged>> /\ pc'["writer"] = pc["writer"]
      BY <2>15 DEF ReaderCheck
    <3>2. CASE running
      <4>1. calls' = calls + 1 /\ stop'["reader"] = "wait"
            /\ \A c \in Stoppers : c # "reader" => stop'[c] = stop[c]
        BY <2>15, <3>2, CallsAre DEF ReaderCheck, Handlers
      <4> QED
        BY <1>call, <3>1, <4>1, CallsAre DEF Ended
    <3>3. CASE ~running
      BY <1>keep, <2>15, <3>1, <3>3 DEF ReaderCheck, Ended
    <3> QED
      BY <3>2, <3>3
  <2> QED
    BY <1>6, <2>1, <2>2, <2>3, <2>4, <2>5, <2>6, <2>7, <2>8, <2>9, <2>10,
         <2>11, <2>12, <2>13, <2>14, <2>15 DEF Reader
<1>7. CASE Writer
  <2>1. CASE WriterLoop
    <3>1. /\ UNCHANGED <<running, serial, serial_queue, cmd, device, plugged>> /\ stop' = stop
          /\ pc["writer"] = "loop" /\ pc'["writer"] \in {"get", "drain"}
      BY <2>1 DEF WriterLoop, WriterMoves
    <3> QED
      BY <1>keep, <3>1 DEF Ended
  <2>2. CASE WriterTakes
    <3>1. /\ WriterMoves("get", "write") \/ WriterMoves("drain", "drainwrite")
          /\ UNCHANGED <<running, device>>
          /\ serial_queue # <<>> /\ cmd' = Head(serial_queue) /\ serial_queue' = Tail(serial_queue)
      BY <2>2 DEF WriterTakes
    <3>2. /\ UNCHANGED <<serial, plugged>> /\ stop' = stop /\ pc'["reader"] = pc["reader"]
          /\ pc["writer"] \notin {"off", "dead"} /\ pc'["writer"] \notin {"off", "dead"}
      BY <3>1 DEF WriterMoves
    <3>3. SleepsLast => SleepsLast'
      <4>1. serial_queue \in Seq(Commands)
        BY DEF Lists
      <4>2. /\ Head(serial_queue) \in Commands /\ Len(Tail(serial_queue)) = Len(serial_queue) - 1
            /\ Head(serial_queue) = serial_queue[1] /\ Len(serial_queue) \in Nat /\ Len(serial_queue) > 0
            /\ \A i \in 1..Len(Tail(serial_queue)) : Tail(serial_queue)[i] = serial_queue[i + 1]
            /\ Tail(serial_queue) \in Seq(Commands)
        BY <3>1, <4>1, HeadAmong
      <4>3. CASE Tail(serial_queue) = <<>>
        <5>2. \A q : q = <<>> => Len(q) = 0
          OBVIOUS
        <5>3. Len(serial_queue) - 1 = 0
          BY <4>2, <4>3, <5>2, Zenon
        <5>4. Len(serial_queue) \in Nat
          BY <4>2, Zenon
        <5>1. Len(serial_queue) = 1
          BY <5>3, <5>4
        <5> QED
          BY <3>1, <4>2, <4>3, <5>1 DEF SleepsLast
      <4>4. CASE Tail(serial_queue) # <<>>
        <5>1. Len(Tail(serial_queue)) \in 1..Len(Tail(serial_queue))
          BY <4>2, <4>4
        <5>2. Tail(serial_queue)[Len(Tail(serial_queue))] = serial_queue[Len(serial_queue)]
          BY <4>2, <5>1
        <5> QED
          BY <3>1, <4>4, <5>2 DEF SleepsLast
      <4> QED
        BY <4>3, <4>4
    <3>4. NoReceive => NoReceive'
      BY <1>0, <3>2
    <3> QED
      BY <1>calls, <3>1, <3>2, <3>3, <3>4 DEF Sleeping, Ended
  <2>3. CASE WriterFindsNone
    <3>1. /\ WriterMoves("get", "loop") \/ WriterMoves("drain", "dead")
          /\ UNCHANGED <<running, serial_queue, cmd, device>> /\ serial_queue = <<>>
      BY <2>3 DEF WriterFindsNone
    <3>2. CASE WriterMoves("get", "loop")
      <4>1. /\ UNCHANGED <<serial, plugged>> /\ stop' = stop
            /\ pc["writer"] = "get" /\ pc'["writer"] = "loop"
        BY <3>2 DEF WriterMoves
      <4> QED
        BY <1>keep, <3>1, <4>1 DEF Ended
    <3>3. CASE WriterMoves("drain", "dead")
      <4>1. /\ UNCHANGED <<serial, plugged>> /\ stop' = stop /\ pc'["reader"] = pc["reader"]
            /\ pc["writer"] = "drain" /\ pc'["writer"] = "dead"
        BY <3>3 DEF WriterMoves
      <4>2. ~running /\ cmd = "none"
        BY <4>1 DEF Writing, InHand
      <4>3. SleepsLast => device = "sleep" /\ SleepsLast'
        BY <3>1, <4>2 DEF SleepsLast
      <4>4. NoReceive => NoReceive'
        BY <1>0, <4>1
      <4> QED
        BY <1>calls, <3>1, <4>1, <4>2, <4>3, <4>4 DEF Sleeping, Ended
    <3> QED
      BY <3>1, <3>2, <3>3
  <2>4. CASE WriterWrites
    <3>1. /\ WriterMoves("write", "loop") \/ WriterMoves("drainwrite", "drain")
          /\ UNCHANGED <<running, serial_queue>> /\ cmd' = "none"
          /\ device' = IF cmd = "channel" THEN device ELSE cmd
      BY <2>4 DEF WriterWrites
    <3>2. /\ UNCHANGED <<serial, plugged>> /\ stop' = stop /\ pc'["reader"] = pc["reader"]
          /\ pc["writer"] \in {"write", "drainwrite"} /\ pc'["writer"] \notin {"off", "dead"}
      BY <3>1 DEF WriterMoves
    <3>3. SleepsLast => SleepsLast'
      BY <3>1, <3>2 DEF SleepsLast, InHand
    <3>4. NoReceive => NoReceive'
      BY <1>0, <3>2
    <3> QED
      BY <1>calls, <3>1, <3>2, <3>3, <3>4 DEF Sleeping, Ended
  <2>5. CASE WriterIOError
    <3>1. /\ pc'["reader"] = pc["reader"] /\ plugged' = plugged
          /\ plugged => serial = "closed"
      BY <2>5 DEF WriterIOError, WriterMoves, Usable, Scalars
    <3>2. plugged => NoReceive
      BY <3>1 DEF Setup
    <3> QED
      BY <1>0, <1>quiet, <3>1, <3>2
  <2>6. CASE WriterCrashes
    <3>1. /\ pc'["reader"] = pc["reader"] /\ plugged' = plugged
          /\ serial = "none" /\ pc["writer"] \in {"write", "drainwrite"}
      BY <2>6 DEF WriterCrashes, WriterMoves
    <3>2. plugged => NoReceive
      BY <3>1 DEF Sleeping, Ended
    <3> QED
      BY <1>0, <1>quiet, <3>1, <3>2
  <2> QED
    BY <1>7, <2>1, <2>2, <2>3, <2>4, <2>5, <2>6 DEF Writer
<1>8. CASE Fifo
  <2>1. CASE FifoLoop
    <3>1. UNCHANGED <<running, serial, serial_queue, cmd, device, plugged>> /\ stop' = stop
          /\ pc'["writer"] = pc["writer"]
      BY <2>1 DEF FifoLoop, FifoMoves
    <3> QED
      BY <1>keep, <3>1 DEF Ended
  <2>2. CASE FifoTakes
    <3>1. UNCHANGED <<running, serial, serial_queue, cmd, device, plugged>> /\ stop' = stop
          /\ pc'["writer"] = pc["writer"]
      BY <2>2 DEF FifoTakes, FifoMoves
    <3> QED
      BY <1>keep, <3>1 DEF Ended
  <2>3. CASE FifoFindsNone
    <3>1. UNCHANGED <<running, serial, serial_queue, cmd, device, plugged>> /\ stop' = stop
          /\ pc'["writer"] = pc["writer"]
      BY <2>3 DEF FifoFindsNone, FifoMoves
    <3> QED
      BY <1>keep, <3>1 DEF Ended
  <2>4. CASE FifoWrites
    <3>1. UNCHANGED <<running, serial, serial_queue, cmd, device, plugged>> /\ stop' = stop
          /\ pc'["writer"] = pc["writer"]
      BY <2>4 DEF FifoWrites, FifoMoves
    <3> QED
      BY <1>keep, <3>1 DEF Ended
  <2> QED
    BY <1>8, <2>1, <2>2, <2>3, <2>4 DEF Fifo
<1>9. CASE Environment
  <2>1. CASE ControlEnds
    <3>1. UNCHANGED <<running, serial, serial_queue, cmd, device, plugged>> /\ pc'["writer"] = pc["writer"]
      BY <2>1 DEF ControlEnds
    <3>2. calls' = calls + 1 /\ stop'["control"] = "wait"
          /\ \A c \in Stoppers : c # "control" => stop'[c] = stop[c]
      BY <2>1, CallsAre DEF ControlEnds, Handlers
    <3> QED
      BY <1>call, <3>1, <3>2, CallsAre DEF Ended
  <2>2. CASE FifoOpened
    <3>1. UNCHANGED <<running, serial, serial_queue, cmd, device, plugged>> /\ stop' = stop
          /\ pc'["writer"] = pc["writer"]
      BY <2>2 DEF FifoOpened, FifoMoves
    <3> QED
      BY <1>keep, <3>1 DEF Ended
  <2>3. CASE Unplug
    BY <2>3, <1>quiet DEF Unplug
  <2>4. CASE ReaderRaises
    <3>1. UNCHANGED <<running, serial, serial_queue, cmd, device, plugged, stop>>
          /\ pc'["writer"] = pc["writer"]
      BY <2>4 DEF ReaderRaises, ReaderMoves
    <3> QED
      BY <1>keep, <3>1 DEF Ended
  <2> QED
    BY <1>9, <2>1, <2>2, <2>3, <2>4 DEF Environment
<1>10. CASE UNCHANGED vars
  BY <1>keep, <1>10 DEF vars, Ended
<1> QED
  BY <1>1, <1>2, <1>3, <1>4, <1>5, <1>6, <1>7, <1>8, <1>9, <1>10 DEF Next

(* The second half of the invariant, from the first.                       *)
LEMMA OnceAloneInit == Init => OnceAlone
<1> SUFFICES ASSUME Init PROVE OnceAlone
  OBVIOUS
<1>1. NoReceive
  BY EmptyAmong DEF Init, NoReceive
<1>2. Writing /\ Setup /\ Single
  BY <1>1 DEF Init, Writing, Setup, Single, Threads, Unopened, Opened, Later
<1> QED
  BY <1>1, <1>2, OnceInit DEF OnceAlone, Sleeping

LEMMA OnceAloneNext == ASSUME captures' <= 1, TInv, OnceAlone, [Next]_vars PROVE OnceAlone'
<1>1. Once' /\ Writing' /\ Setup' /\ Single'
  BY FreshNext, ReadingNext, StoppingNext, ReleasedNext, OnceKept, WritingNext, SetupNext, SingleNext
     DEF OnceAlone, Once
<1>2. ASSUME calls' <= 1 PROVE Sleeping'
  <2>1. calls <= 1
    BY <1>2, CallsNext DEF TInv, Scalars
  <2> QED
    BY <1>2, <2>1, SleepingNext DEF OnceAlone, Once
<1> QED
  BY <1>1, <1>2 DEF OnceAlone

(* In the first capture, the firmware is asleep when the writer has ended, *)
(* unless unplugged, if stop_sig_handler was called once: by main, by the  *)
(* control thread, or by a reader that failed with the port intact or gone *)
(* - whatever the number of packets and the timings.  (A second call, by   *)
(* anyone, breaks it: README, findings.)                                   *)
THEOREM FirstAsleepIfStoppedOnce == Spec => [](captures <= 1 => AsleepIfStoppedOnce)
<1>1. TInv /\ (captures <= 1 => OnceAlone) /\ [Next]_vars => (TInv /\ (captures <= 1 => OnceAlone))'
  BY TInvNext, CountsGrow, OnceAloneNext
<1>2. Init => TInv /\ (captures <= 1 => OnceAlone)
  BY TInvInit, OnceAloneInit
<1>3. (captures <= 1 => OnceAlone) => (captures <= 1 => AsleepIfStoppedOnce)
  BY DEF OnceAlone, Sleeping, NoReceive, AsleepIfStoppedOnce, AsleepAtEnd, At
<1> QED
  BY <1>1, <1>2, <1>3, PTL DEF Spec

(* So it holds throughout for an object that captures once.                *)
THEOREM OnceAsleepIfStoppedOnce == ASSUME MaxCaptures <= 1 PROVE Spec => []AsleepIfStoppedOnce
BY CapturesBound, TInvAlways, FirstAsleepIfStoppedOnce, PTL
=============================================================================
