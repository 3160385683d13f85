------------------------------ MODULE BleToolbar ------------------------------
(***************************************************************************)
(* The BLE extcap program (nrf_sniffer_ble.py) with its device list        *)
(* (Devices.py) and its callbacks (Notifications.py).  Two threads: the    *)
(* main thread "C" obeys Wireshark's toolbar, the sniffer thread "S" finds *)
(* devices.  A notification runs its callbacks under up to three locks:    *)
(* "list" of the device list, "devices" of the list's callbacks, "reader"  *)
(* of the packet reader's and "sniffer" of the sniffer's callbacks; these  *)
(* write into Wireshark's pipes, which may be full or closed.              *)
(*                                                                         *)
(* What the toolbar shows is what was written: a pipe keeps the order.     *)
(* Packets and signal strengths are abstract: the advertisements of the    *)
(* devices in Weak are below the RSSI filter.  Log lines matter only as    *)
(* writes into the same pipe, until teardown_extcap_log_handler.           *)
(***************************************************************************)
EXTENDS FiniteSets, Naturals

CONSTANTS
    Device,             \* devices in the air or entered by the user
    Weak,               \* those under the RSSI filter
    None

ASSUME ToolbarAssumption == Weak \subseteq Device /\ None \notin Device

Thread == {"S", "C"}
Lock == {"list", "devices", "reader", "sniffer"}

VARIABLES
    at,                 \* where each thread is
    job,                \* what each thread is doing, to which device
    lock,               \* who holds each lock
    hears,              \* Notifier.callbacks not cleared: of the sniffer, of the devices
    devices,            \* DeviceList.devices
    shown,              \* the toolbar's list
    state,              \* SnifferCollector._state
    follow,             \* in_follow_mode
    mode,               \* the firmware: whom it follows, None if it scans
    writing,            \* write_new_packets: INIT has come
    exit, port,         \* _exit; can the port be written?
    open, stalled,      \* Wireshark's pipes: open at its end? full?
    closed              \* the program has closed its ends

sniffing == <<state, follow, mode>>
wireshark == <<open, stalled>>
ending == <<exit, port, closed>>
vars == <<at, job, lock, hears, devices, shown, sniffing, writing, wireshark, ending>>

NoJob == [what |-> "none", dev |-> None]
DevOf(t) == job[t].dev

\* The sniffer has been created, has subscribed, and scans.
Init ==
    /\ at = [t \in Thread |-> IF t = "S" THEN "loop" ELSE "read"]
    /\ job = [t \in Thread |-> NoJob]
    /\ lock = [l \in Lock |-> "free"] /\ hears = [l \in {"sniffer", "devices"} |-> TRUE]
    /\ devices = {} /\ shown = {}
    /\ state = "scanning" /\ follow = FALSE /\ mode = None
    /\ writing = FALSE /\ exit = FALSE /\ port = TRUE
    /\ open = TRUE /\ stalled = FALSE /\ closed = FALSE

\* A thread goes on to a place; back in its loop, or torn down, it has no job.
Go(t, place) ==
    /\ at' = [at EXCEPT ![t] = place]
    /\ job' = IF place \in {"loop", "read", "ended", "appexit"} THEN [job EXCEPT ![t] = NoJob] ELSE job
Take(t, l) == lock[l] = "free" /\ lock' = [lock EXCEPT ![l] = t]
ReleaseAll(t) == lock' = [l \in Lock |-> IF lock[l] = t THEN "free" ELSE lock[l]]

\* Where a thread goes on after a notification.
After(t) ==
    CASE t = "S" -> "loop"
      [] job[t].what = "follow" -> "send"
      [] job[t].what = "clear" -> "scan"
      [] job[t].what = "select" -> "set"
      [] OTHER -> "read"

\* The log handler has not been removed: sniffer_capture is still in its try.
Logging == at["C"] \notin {"appexit", "doexit", "deaf", "deafer", "close", "ended"}

\* Where an OSError in a callback takes a thread: to the end of sniffer_capture's
\* try; or out of _processBLEPacket, whose except clause logs, into the same pipe,
\* to the end of run(); once the log handler is removed, back to its loop.
Failed(t) == IF t = "C" THEN "appexit" ELSE IF Logging THEN "ended" ELSE "loop"

\* A line can be written into Wireshark's pipes.
Writable == open /\ ~stalled

-----------------------------------------------------------------------------
(* Both threads: the device list and its notifications                     *)

\* Mutated form: a new device is announced after the list's lock is given back.
AppendOrUpdateUnlocked(t) ==
    /\ at[t] = "append" /\ lock["list"] = "free"
    /\ devices' = devices \cup {DevOf(t)}
    /\ Go(t, "notify")
    /\ UNCHANGED <<lock, hears, shown, sniffing, writing, wireshark, ending>>
\* appendOrUpdate: a new device, or one whose name or RSSI has changed, is announced.
AppendOrUpdate(t) ==
    /\ at[t] = "append" /\ lock["list"] = "free"
    /\ devices' = devices \cup {DevOf(t)}
    /\ \/ Take(t, "list") /\ Go(t, "notify")
       \/ DevOf(t) \in devices /\ Go(t, After(t)) /\ UNCHANGED lock
    /\ UNCHANGED <<hears, shown, sniffing, writing, wireshark, ending>>

\* notify of the list's callbacks
NotifyDevices(t) ==
    /\ at[t] = "notify" /\ Take(t, "devices") /\ Go(t, "pass")
    /\ UNCHANGED <<hears, devices, shown, sniffing, writing, wireshark, ending>>

\* passOnNotification: notify of the sniffer's callbacks
PassOn(t) ==
    /\ at[t] = "pass" /\ hears["devices"] /\ Take(t, "sniffer") /\ Go(t, "callback")
    /\ UNCHANGED <<hears, devices, shown, sniffing, writing, wireshark, ending>>

\* Does the callback write? Nobody subscribes to DEVICE_FOLLOWED; an address
\* the user has entered has RSSI 0, above every filter.
Writes(t) ==
    /\ hears["sniffer"]
    /\ \/ job[t].what = "clear"
       \/ job[t].what \in {"add", "select"} /\ (t = "C" \/ DevOf(t) \notin Weak)

\* device_added, devices_cleared: what is written reaches the toolbar.
Callback(t) ==
    /\ at[t] = "callback" /\ Writes(t) /\ Writable
    /\ shown' = IF job[t].what = "clear" THEN {} ELSE shown \cup {DevOf(t)}
    /\ ReleaseAll(t) /\ Go(t, After(t))
    /\ UNCHANGED <<hears, devices, sniffing, writing, wireshark, ending>>

\* Nobody hears the notification, or the callback has nothing to write.
CallbackSilent(t) ==
    /\ \/ at[t] = "callback" /\ ~Writes(t)
       \/ at[t] = "pass" /\ ~hears["devices"]
    /\ ReleaseAll(t) /\ Go(t, After(t))
    /\ UNCHANGED <<hears, devices, shown, sniffing, writing, wireshark, ending>>

\* Mutated form: the exception leaves the locks taken.
CallbackFailsHoldingLocks(t) ==
    /\ at[t] = "callback" /\ Writes(t) /\ ~open /\ Go(t, Failed(t))
    /\ UNCHANGED <<lock, hears, devices, shown, sniffing, writing, wireshark, ending>>
\* Wireshark has closed the pipe: the exception leaves through all locks.
CallbackFails(t) ==
    /\ at[t] = "callback" /\ Writes(t) /\ ~open
    /\ ReleaseAll(t) /\ Go(t, Failed(t))
    /\ UNCHANGED <<hears, devices, shown, sniffing, writing, wireshark, ending>>

-----------------------------------------------------------------------------
(* The sniffer thread                                                      *)

\* The loop of _continuouslyPipe: _exit is tested before the wait for a packet.
LoopTest ==
    /\ at["S"] = "loop" /\ Go("S", IF exit THEN "ended" ELSE "wait")
    /\ UNCHANGED <<lock, hears, devices, shown, sniffing, writing, wireshark, ending>>
ReadTimesOut ==
    /\ at["S"] = "wait" /\ (Logging => Writable) /\ Go("S", "loop")
    /\ UNCHANGED <<lock, hears, devices, shown, sniffing, writing, wireshark, ending>>

\* A packet of a device arrives, maybe the last one from the queue of a closed
\* port, and NEW_BLE_PACKET is notified.
Packet(d) ==
    /\ at["S"] = "wait" /\ mode \in {None, d}
    /\ at' = [at EXCEPT !["S"] = "new"] /\ job' = [job EXCEPT !["S"] = [what |-> "add", dev |-> d]]
    /\ Take("S", "sniffer")
    /\ UNCHANGED <<hears, devices, shown, sniffing, writing, wireshark, ending>>

\* new_packet writes unless nobody listens yet or the filter rejects the packet.
NewPacketWrites == hears["sniffer"] /\ writing /\ (follow \/ DevOf("S") \notin Weak)

\* The packet's type decides whether it tells of a device.
NewPacket ==
    /\ at["S"] = "new" /\ (NewPacketWrites => Writable)
    /\ ReleaseAll("S")
    /\ Go("S", "append") \/ Go("S", "loop")
    /\ UNCHANGED <<hears, devices, shown, sniffing, writing, wireshark, ending>>

NewPacketFails ==
    /\ at["S"] = "new" /\ NewPacketWrites /\ ~open
    /\ ReleaseAll("S") /\ Go("S", "ended")
    /\ UNCHANGED <<hears, devices, shown, sniffing, writing, wireshark, ending>>

\* The thread logs a timeout, a gap or an unknown packet into a closed pipe.
LogFails ==
    /\ at["S"] = "wait" /\ Logging /\ ~open /\ Go("S", "ended")
    /\ UNCHANGED <<lock, hears, devices, shown, sniffing, writing, wireshark, ending>>

-----------------------------------------------------------------------------
(* The main thread                                                         *)

\* Mutated form: an address to add is taken for an entry of the list.
WhereByName(c) == IF c = "scan" THEN "scan" ELSE c
Where(c) ==
    CASE c \in {"scan", "clear", "key", "hop"} -> c [] c = "follow" -> "mark" [] OTHER -> "log"

\* handle_control_command: an entry of the device list or "All advertising
\* devices", the Clear button, a key, a hop sequence, an address to add or follow.
Command(c, d) ==
    /\ at["C"] = "read" /\ open
    /\ c = "follow" => d \in shown
    /\ at' = [at EXCEPT !["C"] = Where(c)]
    /\ job' = [job EXCEPT !["C"] = [what |-> c, dev |-> IF c \in {"scan", "clear", "key", "hop"} THEN None ELSE d]]
    /\ UNCHANGED <<lock, hears, devices, shown, sniffing, writing, wireshark, ending>>

\* The initial values end with INIT, ...
ReadInit ==
    /\ at["C"] = "read" /\ ~writing /\ open /\ Go("C", "defaults")
    /\ UNCHANGED <<lock, hears, devices, shown, sniffing, writing, wireshark, ending>>

\* ... the defaults are written, and packets may flow.
WriteDefaults ==
    /\ at["C"] = "defaults" /\ Writable
    /\ writing' = TRUE /\ Go("C", "read")
    /\ UNCHANGED <<lock, hears, devices, shown, sniffing, wireshark, ending>>

\* The end of the pipe ends control_loop; before INIT it is taken for a
\* message that is none, again and again.
ReadEnd ==
    /\ at["C"] = "read" /\ ~open /\ writing /\ Go("C", "appexit")
    /\ UNCHANGED <<lock, hears, devices, shown, sniffing, writing, wireshark, ending>>

\* DeviceList.clear
Clear ==
    /\ at["C"] = "clear" /\ Writable /\ Take("C", "list")
    /\ devices' = {} /\ Go("C", "notify")
    /\ UNCHANGED <<hears, shown, sniffing, writing, wireshark, ending>>

\* scan_for_devices: only a sniffer that follows is told to scan, after
\* STATE_CHANGE was notified; in_follow_mode is reset in any case.
ScanNothing ==
    /\ at["C"] = "scan" /\ state = "scanning" /\ follow' = FALSE /\ Go("C", "read")
    /\ UNCHANGED <<lock, hears, devices, shown, state, mode, writing, wireshark, ending>>

\* Mutated form: in_follow_mode is not reset.
ScanKeepsFollow ==
    /\ at["C"] = "scan" /\ state = "following" /\ Writable /\ lock["sniffer"] = "free" /\ port
    /\ state' = "scanning" /\ mode' = None /\ Go("C", "read")
    /\ UNCHANGED <<lock, hears, devices, shown, follow, writing, wireshark, ending>>
Scan ==
    /\ at["C"] = "scan" /\ state = "following" /\ Writable /\ lock["sniffer"] = "free" /\ port
    /\ state' = "scanning" /\ mode' = None /\ follow' = FALSE /\ Go("C", "read")
    /\ UNCHANGED <<lock, hears, devices, shown, writing, wireshark, ending>>

\* add_address, follow_address: the log line ...
LogAddress ==
    /\ at["C"] = "log" /\ Writable /\ Go("C", "append")
    /\ UNCHANGED <<lock, hears, devices, shown, sniffing, writing, wireshark, ending>>

\* ... and, once it is added, the address to follow is selected.
Select ==
    /\ at["C"] = "set" /\ Writable /\ Go("C", "mark")
    /\ UNCHANGED <<lock, hears, devices, shown, sniffing, writing, wireshark, ending>>

\* A line cannot be written: sniffer_capture catches the error and tears down.
WriteFails ==
    /\ ~open
    /\ \/ at["C"] \in {"log", "set", "defaults", "clear", "mark", "send", "key", "mode", "hoplog"}
       \/ at["C"] = "scan" /\ state = "following"
    /\ Go("C", "appexit")
    /\ UNCHANGED <<lock, hears, devices, shown, sniffing, writing, wireshark, ending>>

\* A command cannot be sent: the SerialException of writeList is an OSError.
SendFails ==
    /\ ~port
    /\ \/ at["C"] = "hop" /\ UNCHANGED state
       \/ at["C"] \in {"send", "key"} /\ Writable /\ UNCHANGED state
       \/ Writable /\ at["C"] = "scan" /\ state = "following" /\ lock["sniffer"] = "free" /\ state' = "scanning"
    /\ Go("C", "appexit")
    /\ UNCHANGED <<lock, hears, devices, shown, follow, mode, writing, wireshark, ending>>

\* A key travels on to the firmware and is logged; one that is none is only logged.
SendKey ==
    /\ at["C"] = "key" /\ Writable /\ Go("C", "read")
    /\ UNCHANGED <<lock, hears, devices, shown, sniffing, writing, wireshark, ending>>

\* sendHopSequence: the firmware is told, ...
SendHop ==
    /\ at["C"] = "hop" /\ port /\ Go("C", "announce")
    /\ UNCHANGED <<lock, hears, devices, shown, sniffing, writing, wireshark, ending>>

\* ... NEW_ADV_HOP_SEQ is notified of the packet reader's callbacks, ...
NotifyHop ==
    /\ at["C"] = "announce" /\ Take("C", "reader") /\ Go("C", "hear")
    /\ UNCHANGED <<hears, devices, shown, sniffing, writing, wireshark, ending>>

\* ... passed on to the sniffer's, none of which listens, ...
HopHeard ==
    /\ at["C"] = "hear" /\ lock["sniffer"] = "free"
    /\ ReleaseAll("C") /\ Go("C", "hoplog")
    /\ UNCHANGED <<hears, devices, shown, sniffing, writing, wireshark, ending>>

\* ... and logged.
LogHop ==
    /\ at["C"] = "hoplog" /\ Writable /\ Go("C", "read")
    /\ UNCHANGED <<lock, hears, devices, shown, sniffing, writing, wireshark, ending>>

\* follow_device: setFollowed notifies DEVICE_FOLLOWED, ...
MarkFollowed ==
    /\ at["C"] = "mark" /\ Writable
    /\ at' = [at EXCEPT !["C"] = "notify"] /\ job' = [job EXCEPT !["C"].what = "follow"]
    /\ UNCHANGED <<lock, hears, devices, shown, sniffing, writing, wireshark, ending>>

\* ... the firmware is told, ...
SendFollow ==
    /\ at["C"] = "send" /\ Writable /\ port /\ mode' = DevOf("C") /\ Go("C", "state")
    /\ UNCHANGED <<lock, hears, devices, shown, state, follow, writing, wireshark, ending>>

\* ... STATE_CHANGE is notified, ...
SetState ==
    /\ at["C"] = "state" /\ lock["sniffer"] = "free" /\ state' = "following" /\ Go("C", "mode")
    /\ UNCHANGED <<lock, hears, devices, shown, follow, mode, writing, wireshark, ending>>

\* ... and 0.1 s later the filter is off.
FilterOff ==
    /\ at["C"] = "mode" /\ Writable /\ follow' = TRUE /\ Go("C", "read")
    /\ UNCHANGED <<lock, hears, devices, shown, state, mode, writing, wireshark, ending>>

\* The finally clause: _doExit sets _exit and notifies APP_EXIT, ...
AppExit ==
    /\ at["C"] = "appexit" /\ lock["sniffer"] = "free"
    /\ exit' = TRUE /\ Go("C", "doexit")
    /\ UNCHANGED <<lock, hears, devices, shown, sniffing, writing, wireshark, port, closed>>

\* ... PacketReader.doExit closes the port and clears its callbacks, ...
ClosePort ==
    /\ at["C"] = "doexit" /\ lock["reader"] = "free" /\ port' = FALSE /\ Go("C", "deaf")
    /\ UNCHANGED <<lock, hears, devices, shown, sniffing, writing, wireshark, exit, closed>>

\* Mutated form: the sniffer's callbacks are kept.
ClearCallbacksForgotten ==
    /\ at["C"] = "deaf" /\ Go("C", "deafer")
    /\ UNCHANGED <<lock, hears, devices, shown, sniffing, writing, wireshark, ending>>
\* ... the callbacks of the sniffer are cleared, ...
ClearCallbacks ==
    /\ at["C"] = "deaf" /\ lock["sniffer"] = "free"
    /\ hears' = [hears EXCEPT !["sniffer"] = FALSE] /\ Go("C", "deafer")
    /\ UNCHANGED <<lock, devices, shown, sniffing, writing, wireshark, ending>>

\* ... and those of the device list.
ClearDeviceCallbacks ==
    /\ at["C"] = "deafer" /\ lock["devices"] = "free"
    /\ hears' = [hears EXCEPT !["devices"] = FALSE] /\ Go("C", "close")
    /\ UNCHANGED <<lock, devices, shown, sniffing, writing, wireshark, ending>>

ClosePipes ==
    /\ at["C"] = "close" /\ closed' = TRUE /\ Go("C", "ended")
    /\ UNCHANGED <<lock, hears, devices, shown, sniffing, writing, wireshark, exit, port>>

-----------------------------------------------------------------------------
(* Wireshark and the device                                                *)

\* It closes its pipes; what it sent before has been read.
Close ==
    /\ open /\ open' = FALSE
    /\ UNCHANGED <<at, job, lock, hears, devices, shown, sniffing, writing, stalled, ending>>

\* It stops or resumes reading.
Stall ==
    /\ open /\ stalled' = ~stalled
    /\ UNCHANGED <<at, job, lock, hears, devices, shown, sniffing, writing, open, ending>>

\* The sniffer is pulled: what is read just times out, what is sent fails.
Unplug ==
    /\ port /\ ~exit /\ port' = FALSE
    /\ UNCHANGED <<at, job, lock, hears, devices, shown, sniffing, writing, wireshark, exit, closed>>

-----------------------------------------------------------------------------
Notifying(t) ==
    NotifyDevices(t) \/ PassOn(t) \/ Callback(t) \/ CallbackSilent(t) \/ CallbackFails(t)
DoExit == AppExit \/ ClosePort \/ ClearCallbacks \/ ClearDeviceCallbacks \/ ClosePipes
Sniffer == AppendOrUpdate("S") \/ Notifying("S") \/ NewPacket \/ NewPacketFails \/ LoopTest \/ ReadTimesOut
Hop == SendHop \/ NotifyHop \/ HopHeard \/ LogHop
Follow == MarkFollowed \/ SendFollow \/ SetState \/ FilterOff
Control ==
    \/ AppendOrUpdate("C") \/ Notifying("C") \/ WriteDefaults \/ ReadEnd \/ Clear \/ ScanNothing \/ Scan
    \/ LogAddress \/ Select \/ WriteFails \/ SendFails \/ SendKey \/ Hop \/ Follow \/ DoExit
Asked == {"scan", "follow", "clear", "key", "hop", "add", "select"}
Commands == \E c \in Asked, d \in Device : Command(c, d)

Next ==
    \/ Sniffer \/ Control \/ Commands \/ ReadInit \/ (\E d \in Device : Packet(d)) \/ LogFails
    \/ Close \/ Stall \/ Unplug

\* Both threads run; a thread that waits for a lock gets it in the end.
Spec == Init /\ [][Next]_vars /\ SF_vars(Sniffer) /\ SF_vars(Control)

-----------------------------------------------------------------------------
(* Properties                                                              *)

\* Every variable has its type.
TypeOK ==
    /\ at["S"] \in {"loop", "wait", "new", "append", "notify", "pass", "callback", "ended"}
    /\ at["C"] \in {"read", "log", "append", "notify", "pass", "callback", "clear", "scan", "set", "mark", "defaults",
                    "key", "hop", "announce", "hear", "hoplog", "send", "state", "mode",
                    "appexit", "doexit", "deaf", "deafer", "close", "ended"}
    /\ job \in [Thread -> [what : Asked \cup {"none"},
                         dev : Device \cup {None}]]
    /\ lock \in [Lock -> Thread \cup {"free"}] /\ hears \in [{"sniffer", "devices"} -> BOOLEAN]
    /\ devices \subseteq Device /\ shown \subseteq Device
    /\ state \in {"scanning", "following"} /\ mode \in Device \cup {None}
    /\ {follow, writing, exit, port, open, stalled, closed} \subseteq BOOLEAN

\* Whenever the device list is not being changed, the toolbar shows it, up to
\* devices under the filter (Devices.py: each change is announced under the lock).
MirrorsList ==
    (lock["list"] = "free" /\ ~exit /\ open) => shown \subseteq devices /\ devices \ shown \subseteq Weak

\* Between two commands the three notions of following agree: the sniffer's
\* state, in_follow_mode and what the firmware does (follow_device, scan_for_devices).
FollowAgrees ==
    at["C"] = "read" =>
        (follow <=> state = "following") /\ (follow <=> mode # None)

\* After the program has closed its pipes no callback writes into them: the
\* sniffer thread may run on, but nobody hears it (_doExit before close).
NoWriteAfterClose ==
    closed => ~(at["S"] = "new" /\ NewPacketWrites) /\ ~(at["S"] = "callback" /\ Writes("S"))

\* Once Wireshark has closed its pipes both threads end, whatever lock they
\* wait for and whatever pipe was full, if the initial values had been read
\* (sniffer_capture, control_loop, _doExit).
Ended == at["C"] = "ended" /\ at["S"] = "ended"
EndsAfterClose == (~open /\ writing) ~> Ended

\* "We'll get OSError=22 when/if wireshark kills the pipe(s) on capture stop":
\* whenever it does, the capture ends (sniffer_capture).
EndsWheneverClosed == ~open ~> Ended
=============================================================================
