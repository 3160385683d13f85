# Formal models of the Matter testbed

TLA+ models of the programs in this repository: the sniffers that feed
Wireshark (`src/wireshark/extcap`), the scripts that store what they capture
(`src/matter`), and the home cube with its cubelets (`src/homecube`). Small
instances are checked with TLC, and the results that matter most are proved
with TLAPS for every value of the constants.

What matters in these programs is not computation but coordination: threads
that share a deque, an event and a serial port; a handler that stops them from
whichever thread notices first; a lock file raced by several programs; a
registration server that crashes, leaks and is restarted; a clock that wraps.
Those parts are modelled first. Python statements that other threads can
interleave with, system calls, and SQL statements are separate steps.

## 1. Inventory

| Part | Code | State it keeps | Operations | Talks to |
|---|---|---|---|---|
| UART read queue | `SnifferAPI/UART.py` | deque, event, `reading` flag, `Serial` object | worker loop, `readByte`, `writeList`, `close` | packet reader (calls), port lock (calls), the device |
| Port lock | `SnifferAPI/Filelock.py` | a file with a pid in `/var/lock` | `lock`, `unlock` | other processes, through the file system |
| SLIP framing, BLE packets | `SnifferAPI/Packet.py` | last packet, counters | encode, decode, validate, convert versions, send requests | UART below, collector above |
| BLE collector | `SnifferAPI/SnifferCollector.py`, `Sniffer.py` | packet list, connection state, thread | collect, scan, follow, `getPackets`, exit | packet reader, notifications, devices |
| Notifications, devices | `SnifferAPI/Notifications.py`, `Devices.py` | callbacks, device list, their locks | subscribe, notify, find, append, remove | collector, toolbar |
| Capture files | `SnifferAPI/CaptureFiles.py`, `Pcap.py` | current file and its size | write, roll over | collector |
| BLE extcap program | `nrf_sniffer_ble.py` | toolbar state, control pipe | control messages, capture loop, exit | Wireshark's pipes, collector |
| 802.15.4 sniffer | `nrf802154_sniffer.py` | two events, thread list, `Serial` object, two queues | `extcap_capture`, four threads, `stop_sig_handler` | Wireshark's pipes, the device, signals |
| 802.15.4 clock | same file, `correct_time` | reference of the first packet | one call per packet | reader thread |
| MongoDB scripts | `matter/scripts/*.py` | a database handle | subclass the 802.15.4 sniffer, replace its last thread | MongoDB |
| Cubelet commissioner | `cube/src/cubelet-commissioner.c`, `cubelet_setup.sh` | table `cubelets`, descriptors | accept, select, insert, answer | cubelets (TCP), other readers of the database, systemd |
| Wi-Fi pipeline | `cubelet/src/sniff.c`, `cube/src/recv.c` | counters, table of frames | sniff, send, receive, insert | UDP, the cube's database |
| Packet-rate display | `cubelet/python/*.py` | last rate | send, receive, set LED | Unix socket |
| gRPC server | `cube/grpc/server.cpp` | none | two queries | the cube's database |
| Scanner, discovery, byte counter | `port-scan.c`, `device_discovery.c`, `scrape_bytes.py` | none | run a tool, push its output | metrics gateway |
| Setup scripts, units | `*_setup.sh`, `config/*` | files of the host | run once; restart policy | systemd |

How they hang together: device → **UART read queue** → **SLIP framing** →
**BLE collector** → **BLE extcap program** → Wireshark. The 802.15.4 sniffer is
a separate program with its own four threads and shares only the kind of
device. On the cube, every program shares one SQLite file.

Behaviours that are hard to test, and what must hold of them (each is a hazard
with its line in `PROJECT.json`):

* **UART read queue**: two objects without a common lock (interleaving, lost
  wake-up), a blocking read during `close()` (deadlock), a lost device. Bytes
  must come once and in order, and everyone must get out.
* **Port lock**: test-and-create in several system calls, crashes in between.
* **SLIP**: bytes lost on the line, a read that fails inside a frame.
* **802.15.4 sniffer**: three threads may run the stop handler, which joins
  threads that may be running it too, and on the main thread a second signal
  runs it inside itself; the device must be put to sleep, the port released.
* **Clock**: a 32-bit microsecond timer wraps every 72 minutes while two
  clocks drift and the host's may step back.
* **Commissioner**: crash between insert and answer, a cubelet that gives up,
  no client socket ever closed, a read lock leaked by a failed insert.
* **BLE collector**: a 16-bit packet counter searched for in a list that
  outlives its period, a time stamp that wraps while frames are lost, two slices
  of a list that another thread trims and appends to. Connect requests must not
  be mixed up, times must be true, packets be fetched in order and once.
* **Toolbar, devices, notifications**: two threads notify under four locks and
  write into pipes that may be full or closed. The toolbar must show the list,
  nobody may write after the end, and both threads must end.
* **Wi-Fi sniffer and display**: each rate is sent from the capture callback
  into a socket somebody must read; one is restarted, the other is not.

## 2. Modules

| Module | Models | Kind |
|---|---|---|
| `ByteChannel` | what the read queue promises: a FIFO channel | abstract specification |
| `UartQueue` | `UART.py`: worker, consumer, closer, lost device | implements `ByteChannel` |
| `UartQueue_proofs` | | theorems |
| `Slip` | `Packet.py`: encoder, decoder, length test, lossy line | |
| `Slip_proofs` | | theorems |
| `Filelock` | `Filelock.py` and the exclusive open and close around it | |
| `Filelock_proofs` | | theorems |
| `ThreadSniffer` | `nrf802154_sniffer.py`: life of a sniffer object | |
| `ThreadSniffer_proofs` | | theorems |
| `SnifferClock` | `correct_time` of the same file | |
| `SnifferClock_proofs` | | theorems |
| `Commissioner` | the server, its database, the set-up of cubelets, systemd | |
| `Commissioner_proofs` | | theorems, also about `WifiSniffer` |
| `PacketLog` | what the packet list promises: a log, oldest first, each packet once | abstract specification |
| `BleCollector` | `SnifferCollector.py`, the upper half of `Packet.py`, `Sniffer.py` | implements `PacketLog` |
| `BleCollector_proofs` | | theorems |
| `BleToolbar` | `nrf_sniffer_ble.py`, `Devices.py`, `Notifications.py` | |
| `BleToolbar_proofs` | | theorems |
| `WifiSniffer` | `sniff.c`, `packet_rate.py`, the sniffer's unit | |
| `MC<Module>` | values of the constants for TLC | |

`map` in `PROJECT.json` gives the lines of every definition. Definitions
marked *Mutated form* are bugs the code does not have; each property has one
that TLC must catch. They take no part in any specification.

### UartQueue

State: the deque `read_queue`, the event `has_data`, the flag `reading`, the
`Serial` object `ser`, and one program counter per thread: the worker
(`_read_worker`), the consumer (`readByte` in the decoding thread), and the
closer (`close`). `sent` and `got` are history: bytes are numbered. One action
per statement that touches shared state, so the worker's `extend` and `set`,
and the consumer's `wait`, `clear`, `popleft`, test and `set`, interleave
freely. A cancelled read returns nothing and uses up the cancellation. A lost
device makes the read raise; depending on the exception `reading` is cleared
or not, and the model takes both. A failing `writeList` closes the port from
the consumer's side (`WriteFails`).

### Slip

The encoder puts a frame on the line step by step: the START, each byte or its
escape, the END (`encodeToSLIP` is the host's; the firmware frames what it
sends in the same way). The decoder is a state machine with one action per kind
of byte in each state. A byte on the line carries the number of its frame and
its place there, which no action of the decoder looks at but to note which
frame it opened and which has ended; so the properties can say where a decoded
packet came from. The line may lose bytes; a read may
fail at any point, and what was decoded of the frame is dropped with the stack
frame of `decodeFromSLIP`. The frame header is shortened from six to three
bytes: length and protocol version, which the length test reads, are kept;
counter and id, which it skips, are not. `complete_timeout` is left out: only
the discovery of sniffers passes it (`UART.find_sniffer`), never `getPacket`.

### Filelock

The lock file is absent, names a process, or is `Invalid` (created or
truncated and not yet written). One action per system call, for every process
at once: exists, read, remove, kill(pid, 0), open, truncate, write; then the
port's exclusive open, which the kernel arbitrates; close; and `unlock` in its
three steps. `linked` says whose open file descriptor is still the file in the
directory, so that a write into a removed file goes nowhere. A process may
crash between any two steps.

### ThreadSniffer

State: events `running` and `setup_done`, `serial`, `serial_queue`,
`packet_queue`, `threads`, a program counter per thread, and, for each call of
`stop_sig_handler`, where it is. It is called by main for every signal, by the
control thread at the end of its pipe, and by the reader when it fails with
`running` set. A signal interrupts main wherever it is, also in the handler of
another signal: main's calls are named by `Signals`, and the innermost of them
goes on (`Innermost`). The reader fails because the port is gone or closed
(`ReaderFails`), because the setup is not echoed (`ReaderMisreads`, which closes
the port), or because what it read does not decode or parse, with the port
intact (`ReaderRaises`). A call that finds the port closed and forgotten by
another one ends its thread (`StopCloseRaises`). `calls` counts the calls;
`device` is the mode the firmware is in. The threads are `control_reader`,
`serial_reader`, `serial_writer` and `fifo_writer`; each statement that waits
on, reads or writes something shared is an action.

Assumptions made explicit in the model:

* `join(timeout=10)` runs out only for threads that wait for Wireshark's pipes
  or run the handler themselves (`MayBlock`); every other wait in the threads
  ends within two seconds.
* The reader's `sleep(2)` outlasts the start loop of the main thread, unless a
  handler suspends main.
* A signal that arrives inside the start loop (lines 469-470) is left out. A
  handler that suspends main there waits for a reader that was never started.
* How long a reader with an open timeout tries is left open: with
  `HasOpenTimeout` it may give up at any failed attempt, or never, so that the
  behaviours include those without.
* The empty command that only flushes the firmware's line buffer is left out.
* A write to the port fails only if the port is closed or the device pulled.
* A thread's counter is reused, so another capture begins once all threads of
  the last have ended. A capture is refused exactly as the code refuses it.

### SnifferClock

`age` is what the device's timer would show if it never wrapped; a packet is
stamped `age % TimerMax`. `Tick` moves both clocks independently, the host's
possibly backwards; `LaterPacket` delivers a packet stamped at any time since
the last one, as long as drift plus delay stays below half a period - the
"approximately 36 minutes" of the docstring.

### Commissioner

State: the table as a sequence (AUTOINCREMENT ids are positions, as no program
deletes a row), the descriptors and the read lock the server has leaked, where
it is with its client, the backlog, and what each cubelet got. Each SQL
statement is a transaction. `reading` is another program's read transaction:
any reader of the file, the gRPC server for instance. `Crash` strikes anywhere;
`Restart` is systemd's `Restart=on-failure` (its delays of 7 s keep it below
systemd's start limit). A cubelet that gives up (`netcat -w3`) leaves its
connection in the backlog.

### BleCollector

The firmware numbers its frames and stamps them; the true number and the true
time (`id`, `start`) are what its wrapping counter and timer would show if they
did not wrap, and only properties look at them. A frame may be lost anywhere
(`Lose`: what a damaged frame does is the business of `Slip`). The sniffer
thread reads a frame (one action per kind: packet, connect event, disconnect
event, answer to `REQ_TIMESTAMP`), and for a packet goes on in two steps, the
append under `_packetListLock` and the callbacks, which need not return: they
write into Wireshark's pipe; for a connect event it searches the list under the
same lock. The other thread is `getPackets`: the two slices are two steps, with
the lock between them, and Python's rules for a negative argument.
`CounterCap`, `TimerMax`, `HighMark` and `Trim` stand for 2^16, 2^32, 100000
and 20000. `log`, `handed` and `connect` are history.

### BleToolbar

Two threads, each with a place (`at`) and the job it is doing (`job`): the
sniffer thread announces a device, the main thread obeys a toolbar command. The
way through `appendOrUpdate`, `notify`, `passOnNotification`, `notify` and the
callback is modelled lock by lock, and so is that of a new hop sequence, which
the packet reader's notifier passes on to the sniffer's (`Hop`); all locks are
released together on the way back, or when the callback raises. A callback
writes into a pipe that may be full (the thread waits, holding its locks) or
closed (`OSError`). Where the error goes depends on the thread, and on whether
the log handler, which writes into the same pipe, is still there (`Failed`).
`_doExit` is five steps of the main thread; the sniffer thread is not joined
and runs on between them. The state the program keeps three times over -
`_state`, `in_follow_mode`, the firmware's mode - is three variables. Log lines
are modelled as the writes they are, not by their text.

### WifiSniffer

`got_packet` is two steps, the datagram and the rate; the rate goes into a
stream socket with room for `Room` rates, accepted or not. The display accepts
one connection in its life and drops what it cannot read as one float. Both may
crash; systemd restarts the sniffer (`Restart=on-failure`, which does not count
SIGPIPE), nobody restarts the display, and its socket's path refuses a second
start.

## 3. What is checked

| Run | Question | Bounds | Result |
|---|---|---|---|
| `uart_queue` | Does every byte arrive once and in order, is no wake-up lost, do `close()` and the consumer end? | 4 bytes, reads of up to 2 | holds; implements `ByteChannel` |
| `slip` | Are packets whole, does damage stay local, does the length test find a loss? | 3 frames of 4 kinds, 2 lost bytes, 1 failed read | holds |
| `ble_collector` | Are packets fetched once and in order, connect requests right, times true, does the thread end? | 5 frames, 1 on its way, counter of 2, timer of 4, list of 1 to 2, `getPackets(1)` and `(-1)` | holds; implements `PacketLog` |
| `ble_toolbar` | Does the toolbar show the list, do the notions of following agree, does nobody write after the end, do both threads end? | 2 devices, one below the RSSI filter; any number of commands, packets and stalls | holds |
| `ble_toolbar_early` | Does the capture end whenever Wireshark closes its pipes? | same | violated (finding) |
| `thread_capture` | One capture, stopped by signals and by the failing reader: is the firmware asleep after one stop, the port released, no living thread forgotten? | no control pipe, no open timeout, 1 packet, 2 signals, which may nest | holds |
| `thread_control` | Do all calls of the handler return, and reader and writer end, when the control thread and the reader stop at the same time, or the reader gives up? | control pipe, open timeout that may strike or not, 0 packets, no signal | holds |
| `thread_awake` | Is the firmware asleep at the end, with two stoppers? | control pipe, 1 packet, 1 signal | violated (finding) |
| `filelock` | Does a lock file stay behind, does a stale one lock anybody out? | 3 processes, 1 try each, any crashes | holds |
| `sniffer_clock` | Is every packet placed at its true time? | period 8, drift 3, 17 units | holds |
| `commissioner` | Are numbers unique and stable, is everybody registered? | 2 cubelets, backlog 2, 5 descriptors, 1 crash | holds |
| `wifi_sniffer` | Does the capture go on whatever the display does? | 2 starts, 4 packets, room for 2 rates | holds of the first start |

Why the bounds suffice. *UartQueue*: with four bytes in chunks of up to two a
chunk arrives while the deque is empty, holds a remainder, and has been drained
between the worker's two steps; the proofs remove the bound for safety. *Slip*:
three frames are a damaged one, one swallowed with it and one that must
survive; the frames contain each special byte, an escaped byte followed by
another, and a byte that looks like the second half of an escape; the proofs
remove the bounds and the choice of frames. *Filelock*:
two processes race, the third crashes or comes late. *ThreadSniffer*: one
signal can interrupt the handler of the other at any step, and both overlap with
the reader's own call; packets only pass through a queue of their own, so one is
enough to let every thread run through its loop; the proofs remove both bounds
for safety, and the choice of pipe and timeout. Programs start one capture with
an object.
*SnifferClock*: more than two periods pass, and the drift is the largest the
assumption allows. *Commissioner*: one cubelet's failed insert blocks the
other's; five descriptors leave room for a success, a leak and exhaustion, and
a crash may come on top. *BleCollector*: with five frames and a counter of two,
a connect event finds two packets with the counter it looks for, an earlier one
fetched or trimmed, or the right one lost; the timer wraps within two packets,
and the answer to `REQ_TIMESTAMP` comes before, between or behind them; the
proofs remove every bound but for `CollectorEnds`. *BleToolbar*: its state is
finite without a bound; two devices are one that is shown and one that is not,
and each thread can be busy with either; the proofs remove that bound for
safety. *WifiSniffer*: the socket holds two rates and four packets come, so
that it is full before the display reads; the second start is the one whose
connection is never accepted.

Deadlock is not checked: in each of these systems everything may end (a closed
queue, a finished capture, processes that have crashed or used up their
tries, a bound reached). Instead, that nobody is left waiting is stated as a
liveness property wherever the code promises it.

### Properties worth a second look

* `NoLostWakeup`: bytes under a lowered event are always somebody's business.
  It fails if the consumer forgets its second look at the deque (211-213).
* `EveryByteDelivered`: even when the device is lost right after the read.
* `EverybodyLeaves`: `close()` returns, and the consumer leaves its last read:
  the wake-up of `close()` can be swallowed by `clear()`, and then the consumer
  gets out only because its reads have a timeout.
* `CollectorEnds`: once it is told to, the thread ends unless a callback keeps
  it for ever in a full pipe; that closing the pipe ends this wait is
  `EndsAfterClose`, where the pipe is modelled.
* `AsleepIfStoppedOnce`: needs the writer's drain after its loop *and* that
  nobody closes the port before, even when the reader that just failed is the
  one who stops; with a second call, `AsleepAtEnd`, the latter is lost.
* `StopReturnsIfOpened`: calls of the handler wait for the reader's start and
  for each other's threads. They may wait for ever only for a reader that tries
  to open the port for ever, as it does if the device is absent and there is no
  open timeout. That is an escape in the property and not an assumed timeout,
  which no program sets. The run has the two threads call the handler; with
  `HasControl = FALSE` and `Signals <- MCTwoSignals` in its `.cfg`, two nested
  signals and the reader call it, and the property holds as well (566 thousand
  states, a few minutes, too long for a run beside the others).
* `LossDetected`: the bytes of one frame that is one byte short and those of two
  frames run together have another length than the header says.
* `ForgottenOnlyIfEnded`: `self.threads` never forgets a thread that lives.
  The other direction does not hold (section 4).
* `StaleLockRecovered`: with the last process alive, no debris of the others,
  whole or half written, keeps it out.
* `EventuallyRegistered`: the server recovers from its leaked read lock only
  because it leaks descriptors too, and dies of that.
* `Recovers`: a frame that is itself intact and follows an intact one is
  decoded, whatever happened earlier: merging never reaches further.
* `RequestIsRight`: the counter that is searched for repeats within the list.
  It holds because the search goes backwards, because the wanted packet was the
  last one before the event, and because what is fetched leaves from the front:
  if it is gone, so are all its namesakes.
* `TimesTrue`: across the wrap, the answer to `REQ_TIMESTAMP` and lost frames.
  The true pause is demanded only between packets received one after the other;
  with another frame in between the code takes that frame's length.
* `MirrorsList`: needs the announcement inside the list's lock, as two threads
  add and clear.
* `EndsAfterClose`: a thread may wait for a lock whose holder waits for a full
  pipe; closing the pipe must free them all, on each of the ways an `OSError`
  takes.

### Fairness

Every fairness condition is on steps of code that the scheduler runs and whose
waits are bounded: the worker's, consumer's and closer's steps (the consumer's
wait has a timeout); the threads of a sniffer; a process inside `lock()` or
`unlock()`; the server and its restart. Nothing outside is assumed fair: no
byte need arrive, no signal, no unplugging, no crash.

In `ThreadSniffer` the fairness is one condition per thread, in whatever call of
the handler the thread is. Opening a port is not assumed to succeed, nor is the
reader assumed to give up. In `BleCollector` the sniffer thread is fair where
it reads and looks at `_exit`, not in its callbacks.

Where a step can be disabled again before it is taken, the fairness is strong.
In `BleCollector` a thread that waits for the list's lock gets it in the end,
and in `BleToolbar` each thread goes on if it can again and again, as a lock or
a pipe that is given back may be taken before the waiter wakes: Python's locks
are not fair, and a waiter is passed over only finitely often. No toolbar
command, packet or reading Wireshark is assumed. In `WifiSniffer` the callback,
the display's `accept` and `recv`, and systemd's first start go on; neither
packets nor the display's start need come. In `Commissioner`, the set-up of a
cubelet that the cube does not know is repeated while connecting is possible
again and again: an assumption about the operator, as is `<>[](~reading)`, the
premise of `EventuallyRegistered`.

## 4. Findings

Two runs end in a counterexample; details and quotations are in
`PROJECT.json`.

1. **A second stopper leaves the firmware on the air** (`AsleepAtEnd`,
   `thread_awake`): it finds `running` cleared and closes the port before the
   writer has written `sleep`. The run's second stopper is the end of the control
   pipe; a second signal while the first one's handler joins, or a reader that
   raises with the port intact, does the same, and no control pipe is needed.
2. **Pipes closed before `INIT`** (`EndsWheneverClosed`, `ble_toolbar_early`):
   while the main thread waits for the toolbar's initial values, it takes the
   end of the control pipe for a message without a type and reads on, for ever.

Also seen, without a run of its own. The first six are properties of the
modules that do not hold; adding one to the module's `.cfg` shows it:

* A capture that ended by itself, because the open timed out (361) or a write
  failed (329), poisons the object (`RefusedOnlyIfAlive`): the thread list is
  pruned only in the branch that finds `running` set.
* A stop hangs while the device is absent (`StopReturns`), though "this method
  will block until SIGTERM/SIGINT" (`nrf802154_sniffer.py` 441): every program
  constructs the object with `connection_open_timeout=None` (515,
  `thread_mongo.py` 62, `nrf_sniffer.py` 62), so that the reader tries for ever,
  and the handler waits (153) for `setup_done` or a cleared `running`; neither
  comes. `StopReturnsIfOpened` excepts exactly this.
* `setup_done` is never cleared, so in the second capture of an object a stop
  does not wait for the reader (`StopsOnlyStarted` with `MaxCaptures = 2`).
* `lock()` does not exclude (`LockExcludes`): test and create are separate;
  only the exclusive open behind it keeps two programs apart.
* The empty pop is not only for destruction (`EmptyOnlyWhenDestroyed`): an
  event raised after its byte was already popped ends a read at once. The
  decoder takes that for a timeout and drops the frame it is in; `slip` shows
  that no more than the frame is lost.
* The length test misses some single losses in the header, where what moves up
  may be a length that fits (`LossDetected` without its condition on the first
  three bytes): a frame of version 3 with a payload of four bytes and a counter
  that ends in 1, `04 00 03 01 ...`, is without its second byte a valid packet
  of version 1 with a payload of three.

The others were met while reading and lie outside the models or at their rim:

* `first_local_timestamp` is set once per object (`nrf802154_sniffer.py` 116),
  so a second capture measures against the reference of the first.
* A lock file whose pid was given to an unrelated process keeps the port locked
  (`Filelock.py` 45); a second `Uart` of the same process passes `lock()`, and
  its destructor removes the first one's file (42).
* `Packet.py` 169 takes the length of the frame received last, of whatever
  kind, instead of the one of the packet it is given (`BleCollector` models
  it). A packet whose header cannot be parsed stays valid without a time (404)
  and ends the sniffer thread.
* `getPackets(-1)` keeps the last packet back, against `Sniffer.py` 77;
  `packetsInLastConnection` is negative when the counter wraps within a
  connection, and the branch for a lost contact (`SnifferCollector.py` 183-186)
  is never taken.
* `nrf_sniffer_ble.py` 674 names `sniffer` in a `finally` that may be reached
  before it is bound.
* Wi-Fi: a sniffer that is restarted connects to a display that accepts nobody
  any more, fills the socket and stalls (`CaptureGoesOn` without its
  `start = 1`); the death of the display takes the sniffer with it (SIGPIPE);
  the insert statement of `recv.c` is malformed, so nothing is stored.
* `cubelet_setup.sh` 71 takes a failed answer for a number.

## 5. What is proved

The theorems hold for every value of the constants that satisfies the `ASSUME`
of the module. What else is assumed of the constants a theorem says itself: one
capture or no control pipe in five theorems of `ThreadSniffer_proofs`, the
bounds of `WifiSniffer`, whose `ASSUME` its instance does not bring along, in
two of `Commissioner_proofs`.

Liveness is out of the prover's reach, but the safety behind it is not. For
four of the liveness properties it is proved that nobody ever waits for what
cannot come: `WakeupCorrect` for `EveryByteDelivered`, `DeadlockFree` for
`EndsAfterClose`, `WaitCorrect` for `StopReturnsIfOpened`, `HeldUpCorrect` for
`CaptureGoesOn`. That what can come does come stays with TLC.

**UartQueue_proofs** (any number of bytes, any chunk size). The inductive
invariant is

    TypeOK /\ BytesInOrder /\ BufferEmpty /\ BufferBound
           /\ NoLostWakeup /\ Joined /\ ClosedAfterWorker

`BytesInOrder` alone is not inductive: `wbuf` must be empty whenever the worker
is not about to extend, or a read would overwrite undelivered bytes
(`BufferEmpty`). `ClosedAfterWorker` needs `Joined`: past the join the worker
is done. `BufferBound` is what makes an `extend` a legal delivery of the
abstract channel, whose chunks are bounded. From the invariant follow
`TypeCorrect`, `OrderCorrect`, `WakeupCorrect`, `CloseCorrect`, and
`QueueImplementsChannel`: `extend` maps to `Deliver`, the pop to `Take`, every
other step of every thread to a stutter.

**BleCollector_proofs** (any number of frames, any widths of counter and timer,
any list bounds, any argument of `getPackets`). The inductive invariant is

    TypeOK /\ Known /\ Fetching /\ Suffix /\ Order

`Suffix` says that the list is what is left at the end of the log of all
packets, `Order` that ids grow from the log over the packet in hand to the
line, and `Fetching` that nobody touches the list between the two slices.
`Known` keeps the types: a record exists before something derived from it is
used. Results:

* `RequestCorrect`. At the search, everything in the log came before the
  connect event. If the wanted packet arrived at all it is the last of the log,
  hence of the list, hence the first that the backward search tries; if it was
  taken from the list, so was everything before it (`Suffix`).
* `CollectorImplementsLog`. Read through `Ids`, the append - with or without
  the trimming before it - is `Put` of the abstract log, the second slice is
  `Hand`, all else stutters.
* `TimesCorrect`. Needs a second invariant, `Clock`: frames on the line follow
  one another in time (`LineTimes`); the time stamp is asked for and answered
  once (`OneAnswer`); packet reader and collector mean the same last frame
  (`ReadersAgree`); the reference belongs to some moment at or after the start
  of the last packet, at which clock and reference agreed (`LastDated`); and
  the packet in hand fits its predecessor (`PairInHand`). The arithmetic is
  `WrapOnce`: less than a period apart, two stamps differ by the true distance,
  or by a period less exactly when the second is smaller.

**BleToolbar_proofs** (any set of devices, any RSSI filter). The inductive
invariant is

    TypeOK /\ Placed /\ SnifferJob /\ ControlJob
           /\ ListLock /\ DevicesLock /\ ReaderLock /\ SnifferLock
           /\ Listed /\ Following /\ Ending /\ Mirror

`SnifferJob` and `ControlJob` say which job a thread can have at which place.
`ListLock`: the list's lock is held exactly while a change is announced, and
`Listed`: a device stays in the list meanwhile. So what the toolbar misses is
under the filter or just being announced (`Mirror`), and with the lock free
nothing is (`MirrorCorrect`). `Following` says which of the three notions is
already set within a command: firmware, state, filter (`FollowCorrect`).
`Ending` is the order of `_doExit`: callbacks are cleared before the pipes are
closed, whatever the sniffer thread does (`EndCorrect`).

The four locks are taken on the ways of an announcement and of a hop sequence
through the functions of four modules. `ListLock`, `DevicesLock`, `ReaderLock`
and `SnifferLock` say at which places each is held; `Wants` says at which places
a thread's next step takes one. Hence `LockOrderCorrect`: list before list's
notifier before sniffer's notifier, the packet reader's notifier before the
sniffer's too, and no thread that ends or waits for a command holds any; hence
`DeadlockFree`. A
thread that holds locks may still wait for a full pipe: that closing the pipe
frees them all is `EndsAfterClose`.

**Filelock_proofs** (any set of processes, any number of tries). The inductive
invariant adds `Responsible`: as long as nobody has crashed, a file with a pid
belongs to a process that will still unlock it, and one without a pid was there
before or is about to be looked at, removed or written by somebody. Processes
overwrite and remove each other's files, but each step leaves somebody
responsible; when all are idle nobody is, and the file is gone
(`CleanCorrect`).

**SnifferClock_proofs** (any even period, any drift below half of it, any
bounds). The argument is arithmetic. `OneWrapOff`: the host's estimate and the
truth differ by less than half a period, so their wrap counts differ by at most
one. `OverflowCountCorrect`: the two comparisons of the code pick the right one
of the three. `StampShift`: the stamps of the first and a later packet differ
from their ages by whole periods. Together `CorrectTimeCorrect`, and with the
invariant that the reference was taken at the first packet, `AbsoluteTime`;
`NeverGoesBack` follows as later packets are stamped no earlier. Zero slack is
left: with a drift of exactly half a period the statement is false.

**ThreadSniffer_proofs**. Three results hold for every capture of an object.
`TypeCorrect` holds for all constants: any number of captures, packets and
signals, with and without a control pipe. It needs to know which threads are
yet to be started (`Starting`), that a thread in the handler has left its loop
(`Handling`), when the writer has a command in hand (`InHand`), and that a
signal that has not come has no call (`Unused`).
`WaitCorrect` adds `Expected`: as long as a capture runs whose setup is not
over, its reader is before or in its setup, or still to be started. So a
handler that waits waits for a reader that lives - also in a second capture,
also when the reader gave up, misread its setup or lost the port.
`ForgottenWithoutControl` is about an object without a control pipe.

The others are about an object's first capture (`captures <= 1`), whatever the
constants. Every program here captures once with its object
(`nrf802154_sniffer.py` 515-535, `thread_mongo.py` 63, `nrf_sniffer.py` 63); the
`Once` theorems state that case, `MaxCaptures <= 1`. In a second capture TLC
finds `StopsOnlyStarted`, `PortReleased` and, with a control pipe,
`ForgottenOnlyIfEnded` violated, as `setup_done` stays set (section 4). The
inductive
invariant of the first capture adds

    Fresh /\ Reading /\ Stopping /\ Released /\ Kept

`Reading`: the reader opens the port once, only while the capture runs, and
`setup_done` means that its setup has ended. `Stopping`: what a handler has
found before it waited, put or joined is still true when it goes on, whatever
the other handlers have done since; hence `FirstStopsOnlyStarted`. `Released`: a
handler that has returned leaves no port open and nobody who will open one
(`FirstPortReleased`). `Kept`: a writer or fifo thread that lives is in the
list, and a handler that is joining has it still before it or will keep it, so
no two handlers forget it between them (`FirstForgottenOnlyIfEnded`). `Kept` is
inductive as long as nobody joins threads that are still being started. In the
first capture `Stopping` excludes that; without a control pipe `NoControl`
does in every capture, since main is then the only thread that may stop before
the reader runs, and main is busy starting.

`FirstAsleepIfStoppedOnce` says that one call of the handler, whoever makes it,
puts the firmware to sleep; with two the code does not (finding 1). It adds
`Writing`, `Setup`, `Single` and, as long as there was no second call,
`Sleeping`. While the device is plugged in, `receive` is queued once, at the end
of the setup, and the capture runs until then (`Setup`). A single call is alone
under way (`Single`). If the firmware was told to receive, that call finds the
capture running and queues `sleep`; from there on `sleep` is the last command of
the queue, in hand, or obeyed, and the port is closed only after the writer's
end (`Sleeping`), which drains the queue after its loop (`Writing`). A reader
that raises with the port intact makes the one call itself, and joins the writer
before it closes the port. `OnceAsleepIfStoppedOnce` is the case of one capture.

**Slip_proofs** (any set of valid frames, any number of frames, losses and
failed reads). What is proved first of all is `Line`: the bytes on the line are
those of consecutive frames without a gap, as bytes are lost where they leave
it; so the next byte to leave is known from the last (`NextIs`). On it rest
three arguments:

* `Faithful`. `Decoding`: in a frame that lost nothing, what has been decoded
  is what has left the line, up to the half of an escape. So its END finds the
  buffer equal to the frame (`WholeFrame`).
* `DamageEnds`. `InStep`: after an undisturbed frame the decoder hunts, and in
  an undisturbed frame behind it, it has taken its START. A damaged frame may
  swallow its successor, never the one after that.
* `LengthTestFindsALoss`. `OneLoss`: after one loss in frames without escapes
  the decoder has what was sent, or one byte less, or the next frame as well.
  The last two differ in length from the frame that was opened.

**Commissioner_proofs** (any finite set of cubelets, any backlog, descriptors
and crashes). The inductive invariant adds to the properties what the server
knows of its client between transactions: the address found absent by the first
select is still absent at the insert, as nobody else writes (`Unknown`); the
number from `select max` is that of the next row (`NextNumber`); the answer is
the client's row or a failure (`Answer`). That the number fits its type needs a
pigeonhole argument: distinct rows are no more than cubelets. Results:
`TypeCorrect`, `NumberCorrect`, `OnceCorrect`. That a row's hostname is its id
(`HostnameIsRow`) is only a part of the invariant: no program deletes rows, so
the maximum and the key that AUTOINCREMENT chooses cannot part.

The module also holds what is proved of **WifiSniffer** (any number of starts
and packets, any room in the socket), the other long-running program of
`homecube`; it is instantiated there, as `Wifi`. `WifiTypeCorrect` needs that a
sniffer that is up and a display that serves do so for some start, and that no
more datagrams are forwarded than packets were counted (`WifiTypes`). For
`HeldUpCorrect`, `FirstConnection` says where the connection of the first start
may be: in the backlog of a display that has accepted nobody, or served, or the
display is dead, in which case the send fails and does not wait. So a first
sniffer whose socket is full has a display that will read it. Of later starts
this is false (section 4).

**Only model-checked**: every liveness property (`EveryByteDelivered`,
`EverybodyLeaves`, `StopReturnsIfOpened`, `StaleLockRecovered`,
`EventuallyRegistered`, `CollectorEnds`, `EndsAfterClose`, `CaptureGoesOn`), as
the proof system does not reason about fairness. Every invariant and every
refinement that a passing run checks is also a theorem.

## 6. Not modelled

* `UART.find_sniffer`, `list_comports` and the baud-rate probing: hardware
  discovery without shared state. The collector's switch of the baud rate, too:
  the program never asks for one.
* The BLE program before its sniffer runs: arguments, printing of options, the
  parsing of keys and addresses.
* Operations nobody calls: `_clearPackets`, `Devices.remove`, `unSubscribe`.
* Capture files: one thread appends; the file rolls over only when its handler
  is created, before any packet is written. Logger: rotation of a log.
* Layout: pcap headers, the regular expression for the firmware's lines, the
  fields of a BLE packet, extcap option printers.
* The MongoDB scripts' own code (they inherit the life cycle modelled in
  `ThreadSniffer`), the websocket and replay scripts.
* `recv.c`, which ends at the first datagram because of its malformed
  statement; `led.py`, which blinks lamps.
* Radiotap parser: third-party code. Port scanner, discovery, byte counter,
  set-up scripts: sequential glue around system tools.
* Reuse of process ids, and two `Uart` objects in one process (section 4).

## 7. Plan

What is left, in order of importance:

1. Proofs: what a second capture does keep, with `setup_done`, the port and the
   list as the first one leaves them and a control pipe.
2. Compositions: `ThreadSniffer` with `SnifferClock` (a second capture against
   the first one's reference); `UartQueue` with `Filelock` and `Slip`.
