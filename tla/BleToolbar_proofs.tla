-------------------------- MODULE BleToolbar_proofs --------------------------
(***************************************************************************)
(* The BLE extcap program: types, the toolbar's list, the notions of       *)
(* following and the end, for every set of devices and every RSSI filter.  *)
(***************************************************************************)
EXTENDS BleToolbar, TLAPS

(* Where a thread may be with which job.  The sniffer thread only adds; a  *)
(* device that is appended, followed or shown is one.                      *)
SnifferJob ==
    at["S"] \in {"new", "append", "notify", "pass", "callback"} =>
        job["S"].what = "add" /\ DevOf("S") \in Device
ControlJob ==
    /\ at["C"] = "clear" => job["C"].what = "clear"
    /\ at["C"] \in {"log", "append"} => job["C"].what \in {"add", "select"}
    /\ at["C"] = "set" => job["C"].what = "select"
    /\ at["C"] \in {"mark", "send", "state", "mode"} => job["C"].what \in {"select", "follow"}
    /\ at["C"] \in {"notify", "pass", "callback"} => job["C"].what \in {"add", "select", "clear", "follow"}
    /\ /\ at["C"] \in {"log", "append", "set", "mark", "send", "state", "mode", "notify", "pass", "callback"}
       /\ job["C"].what # "clear"
       => DevOf("C") \in Device

(* Both threads have a place.                                             *)
Placed == at = [t \in Thread |-> at[t]]

TInv == TypeOK /\ Placed /\ SnifferJob /\ ControlJob

(* A notification of a change runs under the list's lock; the lock is      *)
(* nobody's otherwise.                                                     *)
Announces(t) == at[t] \in {"notify", "pass", "callback"} /\ job[t].what # "follow"
ListLock == \A t \in Thread : lock["list"] = t <=> Announces(t)

(* A device is in the list while it is announced.                          *)
Listed == \A t \in Thread : Announces(t) /\ job[t].what # "clear" => DevOf(t) \in devices

(* What the toolbar misses is under the filter, or about to be announced.  *)
Mirror ==
    ~exit /\ open =>
        /\ \A l \in {"sniffer", "devices"} : hears[l]
        /\ \A t \in Thread : Announces(t) /\ job[t].what = "clear" => devices = {}
        /\ (\A t \in Thread : ~(Announces(t) /\ job[t].what = "clear")) =>
            /\ shown \subseteq devices
            /\ \A d \in devices \ shown : d \in Weak \/ \E t \in Thread : Announces(t) /\ DevOf(t) = d

(* While a device is being followed, the firmware knows first, then the    *)
(* sniffer's state, then the toolbar.                                      *)
Teardown == {"appexit", "doexit", "deaf", "deafer", "close", "ended"}
Following ==
    /\ at["C"] \notin Teardown \cup {"state", "mode"} => (follow <=> mode # None)
    /\ at["C"] \notin Teardown \cup {"mode"} => (follow <=> state = "following")
    /\ at["C"] \in {"state", "mode"} => mode # None
    /\ at["C"] = "mode" => state = "following"

(* The callbacks are cleared before the pipes are closed, at the very end. *)
Ending ==
    /\ closed => at["C"] = "ended"
    /\ at["C"] \in {"deafer", "close", "ended"} => ~hears["sniffer"]
    /\ at["C"] \in Teardown \ {"appexit"} => exit

(* The locks are taken in one order, those of the notifiers inside the     *)
(* list's: who holds them when.                                            *)
DevicesLock == \A t \in Thread : lock["devices"] = t <=> at[t] \in {"pass", "callback"}
SnifferLock == \A t \in Thread : lock["sniffer"] = t <=> at[t] \in {"callback", "new"}
ReaderLock == \A t \in Thread : lock["reader"] = t <=> at[t] = "hear"
Position(l) == CASE l = "list" -> 1 [] l \in {"devices", "reader"} -> 2 [] OTHER -> 3

(* A thread's next step takes the lock.                                    *)
Wants(t, l) ==
    \/ l = "list" /\ at[t] \in {"append", "clear"}
    \/ l = "devices" /\ at[t] \in {"notify", "deafer"}
    \/ l = "reader" /\ at[t] \in {"announce", "doexit"}
    \/ /\ l = "sniffer"
       /\ \/ at[t] \in {"wait", "state", "hear", "appexit", "deaf"}
          \/ at[t] = "pass" /\ hears["devices"]
          \/ at[t] = "scan" /\ state = "following"

(* Nobody who holds a lock wants one that comes before it, or the same;    *)
(* a thread that ends, or waits for Wireshark's commands, holds none.      *)
LockOrder ==
    \A t \in Thread, l \in Lock : lock[l] = t =>
        /\ at[t] \in {"notify", "pass", "callback", "new", "hear"}
        /\ \A m \in Lock : Wants(t, m) => Position(l) < Position(m)

(* No two threads wait for each other, and none for itself.                *)
NoDeadlock ==
    \A t, u \in Thread, l, m \in Lock :
        ~(Wants(t, l) /\ lock[l] = u /\ Wants(u, m) /\ lock[m] = t)

-----------------------------------------------------------------------------
(* Type correctness                                                        *)

(* Going on changes one thread's place, and its job only at the end of it. *)
LEMMA GoIs ==
    ASSUME TInv, NEW t \in Thread, NEW place, Go(t, place)
    PROVE  /\ Placed'
           /\ at'[t] = place
           /\ job'[t] = IF place \in {"loop", "read", "ended", "appexit"} THEN NoJob ELSE job[t]
           /\ \A u \in Thread : u # t => at'[u] = at[u] /\ job'[u] = job[u]
           /\ job' \in [Thread -> [what : Asked \cup {"none"},
                                   dev : Device \cup {None}]]
<1>1. Placed' /\ at'[t] = place /\ \A u \in Thread : u # t => at'[u] = at[u]
  BY DEF TInv, Placed, Go
<1>2. NoJob \in [what : Asked \cup {"none"}, dev : Device \cup {None}]
  BY DEF NoJob
<1>3. /\ job'[t] = IF place \in {"loop", "read", "ended", "appexit"} THEN NoJob ELSE job[t]
      /\ \A u \in Thread : u # t => job'[u] = job[u]
      /\ job' \in [Thread -> [what : Asked \cup {"none"},
                              dev : Device \cup {None}]]
  BY <1>2 DEF TInv, TypeOK, Go
<1> QED
  BY <1>1, <1>3

(* Giving locks back, and taking one, keep their type.                     *)
LEMMA LocksAre ==
    ASSUME TInv, NEW t \in Thread
    PROVE  /\ ReleaseAll(t) => lock' \in [Lock -> Thread \cup {"free"}]
           /\ \A l \in Lock : Take(t, l) => lock' \in [Lock -> Thread \cup {"free"}]
BY DEF TInv, TypeOK, ReleaseAll, Take

(* The program starts with every variable of its type.                     *)
LEMMA TInit == Init => TInv
<1> SUFFICES ASSUME Init PROVE TInv
  OBVIOUS
<1>1. NoJob \in [what : Asked \cup {"none"}, dev : Device \cup {None}]
  BY DEF NoJob
<1> QED
  BY <1>1 DEF Init, TInv, TypeOK, Placed, SnifferJob, ControlJob, Thread, Lock

(* Every step keeps the types.                                             *)
LEMMA TNext == TInv /\ [Next]_vars => TInv'
<1> SUFFICES ASSUME TInv, [Next]_vars PROVE TInv'
  OBVIOUS
<1> USE GoIs, LocksAre DEF TInv, TypeOK, Placed, SnifferJob, ControlJob,
       DevOf, Asked, Thread, Lock
<1>1. ASSUME NEW t \in Thread, AppendOrUpdate(t) PROVE TInv'
  BY <1>1 DEF AppendOrUpdate, After, sniffing, wireshark, ending
<1>2. ASSUME NEW t \in Thread, NotifyDevices(t) PROVE TInv'
  BY <1>2 DEF NotifyDevices, sniffing, wireshark, ending
<1>3. ASSUME NEW t \in Thread, PassOn(t) PROVE TInv'
  BY <1>3 DEF PassOn, sniffing, wireshark, ending
<1>4. ASSUME NEW t \in Thread, Callback(t) PROVE TInv'
  BY <1>4 DEF Callback, After, Writes, sniffing, wireshark, ending
<1>5. ASSUME NEW t \in Thread, CallbackSilent(t) PROVE TInv'
  BY <1>5 DEF CallbackSilent, After, Writes, sniffing, wireshark, ending
<1>6. ASSUME NEW t \in Thread, CallbackFails(t) PROVE TInv'
  BY <1>6 DEF CallbackFails, Writes, Failed, sniffing, wireshark, ending
<1>7. ASSUME LoopTest PROVE TInv'
  BY <1>7 DEF LoopTest, sniffing, wireshark, ending
<1>8. ASSUME ReadTimesOut PROVE TInv'
  BY <1>8 DEF ReadTimesOut, sniffing, wireshark, ending
<1>9. ASSUME NEW d \in Device, Packet(d) PROVE TInv'
  BY <1>9, ZenonT(40) DEF Packet, sniffing, wireshark, ending
<1>10. ASSUME NewPacket PROVE TInv'
  BY <1>10 DEF NewPacket, sniffing, wireshark, ending
<1>11. ASSUME NewPacketFails PROVE TInv'
  BY <1>11 DEF NewPacketFails, sniffing, wireshark, ending
<1>12. ASSUME LogFails PROVE TInv'
  BY <1>12 DEF LogFails, sniffing, wireshark, ending
<1>13. ASSUME NEW c \in Asked, NEW d \in Device, Command(c, d) PROVE TInv'
  BY <1>13, ZenonT(40) DEF Command, Where, Asked, sniffing, wireshark, ending
<1>14. ASSUME ReadInit PROVE TInv'
  BY <1>14 DEF ReadInit, sniffing, wireshark, ending
<1>15. ASSUME WriteDefaults PROVE TInv'
  BY <1>15 DEF WriteDefaults, sniffing, wireshark, ending
<1>16. ASSUME ReadEnd PROVE TInv'
  BY <1>16 DEF ReadEnd, sniffing, wireshark, ending
<1>17. ASSUME Clear PROVE TInv'
  BY <1>17 DEF Clear, sniffing, wireshark, ending
<1>18. ASSUME ScanNothing PROVE TInv'
  BY <1>18 DEF ScanNothing, sniffing, wireshark, ending
<1>19. ASSUME Scan PROVE TInv'
  BY <1>19 DEF Scan, sniffing, wireshark, ending
<1>20. ASSUME LogAddress PROVE TInv'
  BY <1>20 DEF LogAddress, sniffing, wireshark, ending
<1>21. ASSUME Select PROVE TInv'
  BY <1>21 DEF Select, sniffing, wireshark, ending
<1>22. ASSUME WriteFails PROVE TInv'
  BY <1>22 DEF WriteFails, sniffing, wireshark, ending
<1>23. ASSUME SendFails PROVE TInv'
  BY <1>23 DEF SendFails, sniffing, wireshark, ending
<1>24. ASSUME SendKey PROVE TInv'
  BY <1>24 DEF SendKey, sniffing, wireshark, ending
<1>25. ASSUME MarkFollowed PROVE TInv'
  BY <1>25, ZenonT(40) DEF MarkFollowed, sniffing, wireshark, ending
<1>26. ASSUME SendFollow PROVE TInv'
  BY <1>26 DEF SendFollow, sniffing, wireshark, ending
<1>27. ASSUME SetState PROVE TInv'
  BY <1>27 DEF SetState, sniffing, wireshark, ending
<1>28. ASSUME FilterOff PROVE TInv'
  BY <1>28 DEF FilterOff, sniffing, wireshark, ending
<1>29. ASSUME AppExit PROVE TInv'
  BY <1>29 DEF AppExit, sniffing, wireshark, ending
<1>30. ASSUME ClosePort PROVE TInv'
  BY <1>30 DEF ClosePort, sniffing, wireshark, ending
<1>31. ASSUME ClearCallbacks PROVE TInv'
  BY <1>31 DEF ClearCallbacks, sniffing, wireshark, ending
<1>32. ASSUME ClearDeviceCallbacks PROVE TInv'
  BY <1>32 DEF ClearDeviceCallbacks, sniffing, wireshark, ending
<1>33. ASSUME ClosePipes PROVE TInv'
  BY <1>33 DEF ClosePipes, sniffing, wireshark, ending
<1>34. ASSUME Close PROVE TInv'
  <2>1. open' \in BOOLEAN
    BY <1>34 DEF Close
  <2>2. {follow, writing, exit, port, stalled, closed}' \subseteq BOOLEAN
    BY <1>34 DEF Close, sniffing, wireshark, ending
  <2>3. {follow, writing, exit, port, open, stalled, closed}' \subseteq BOOLEAN
    BY <2>1, <2>2
  <2> QED
    BY <1>34, <2>3 DEF Close, sniffing, wireshark, ending
<1>35. ASSUME Stall PROVE TInv'
  BY <1>35 DEF Stall, sniffing, wireshark, ending
<1>36. ASSUME Unplug PROVE TInv'
  <2>1. port' \in BOOLEAN
    BY <1>36 DEF Unplug
  <2>2. {follow, writing, exit, open, stalled, closed}' \subseteq BOOLEAN
    BY <1>36 DEF Unplug, sniffing, wireshark, ending
  <2>3. {follow, writing, exit, port, open, stalled, closed}' \subseteq BOOLEAN
    BY <2>1, <2>2
  <2> QED
    BY <1>36, <2>3 DEF Unplug, sniffing, wireshark, ending
<1>37. ASSUME SendHop PROVE TInv'
  BY <1>37 DEF SendHop, sniffing, wireshark, ending
<1>38. ASSUME NotifyHop PROVE TInv'
  BY <1>38 DEF NotifyHop, sniffing, wireshark, ending
<1>39. ASSUME HopHeard PROVE TInv'
  BY <1>39 DEF HopHeard, sniffing, wireshark, ending
<1>40. ASSUME LogHop PROVE TInv'
  BY <1>40 DEF LogHop, sniffing, wireshark, ending
<1>41. CASE UNCHANGED vars
  BY <1>41 DEF vars, sniffing, wireshark, ending
<1> QED
  BY <1>1, <1>2, <1>3, <1>4, <1>5, <1>6, <1>7, <1>8, <1>9, <1>10, <1>11,
     <1>12, <1>13, <1>14, <1>15, <1>16, <1>17, <1>18, <1>19, <1>20,
     <1>21, <1>22, <1>23, <1>24, <1>25, <1>26, <1>27, <1>28, <1>29,
     <1>30, <1>31, <1>32, <1>33, <1>34, <1>35, <1>36, <1>37, <1>38, <1>39, <1>40, <1>41
     DEF Next, Sniffer, Control, Notifying, Hop, Follow, DoExit, Commands, Thread

(* Every variable keeps its type (BleToolbar).                             *)
THEOREM TypeCorrect == Spec => []TypeOK
<1>1. TInv => TypeOK
  BY DEF TInv
<1> QED
  BY <1>1, TInit, TNext, PTL DEF Spec

-----------------------------------------------------------------------------
(* The list's lock                                                         *)

(* The list's lock is held exactly while a change is announced.            *)
LEMMA ListLockNext == TInv /\ ListLock /\ [Next]_vars => ListLock'
<1> SUFFICES ASSUME TInv, ListLock, [Next]_vars PROVE ListLock'
  OBVIOUS
<1> USE GoIs DEF TInv, TypeOK, SnifferJob, ControlJob, ListLock, Announces,
       Thread, Lock
<1>1. ASSUME NEW t \in Thread, AppendOrUpdate(t) PROVE ListLock'
  BY <1>1 DEF AppendOrUpdate, After, Take
<1>2. ASSUME NEW t \in Thread, NotifyDevices(t) PROVE ListLock'
  BY <1>2 DEF NotifyDevices, Take
<1>3. ASSUME NEW t \in Thread, PassOn(t) PROVE ListLock'
  BY <1>3 DEF PassOn, Take
<1>4. ASSUME NEW t \in Thread, Callback(t) PROVE ListLock'
  BY <1>4 DEF Callback, After, Writes, ReleaseAll
<1>5. ASSUME NEW t \in Thread, CallbackSilent(t) PROVE ListLock'
  BY <1>5 DEF CallbackSilent, After, Writes, ReleaseAll
<1>6. ASSUME NEW t \in Thread, CallbackFails(t) PROVE ListLock'
  BY <1>6 DEF CallbackFails, Writes, Failed, ReleaseAll
<1>7. ASSUME LoopTest PROVE ListLock'
  BY <1>7 DEF LoopTest
<1>8. ASSUME ReadTimesOut PROVE ListLock'
  BY <1>8 DEF ReadTimesOut
<1>9. ASSUME NEW d \in Device, Packet(d) PROVE ListLock'
  BY <1>9 DEF Packet, Take, Placed
<1>10. ASSUME NewPacket PROVE ListLock'
  BY <1>10 DEF NewPacket, ReleaseAll
<1>11. ASSUME NewPacketFails PROVE ListLock'
  BY <1>11 DEF NewPacketFails, ReleaseAll
<1>12. ASSUME LogFails PROVE ListLock'
  BY <1>12 DEF LogFails
<1>13. ASSUME NEW c \in Asked, NEW d \in Device, Command(c, d) PROVE ListLock'
  BY <1>13 DEF Command, Where, Asked, Placed
<1>14. ASSUME ReadInit PROVE ListLock'
  BY <1>14 DEF ReadInit
<1>15. ASSUME WriteDefaults PROVE ListLock'
  BY <1>15 DEF WriteDefaults
<1>16. ASSUME ReadEnd PROVE ListLock'
  BY <1>16 DEF ReadEnd
<1>17. ASSUME Clear PROVE ListLock'
  BY <1>17 DEF Clear, Take
<1>18. ASSUME ScanNothing PROVE ListLock'
  BY <1>18 DEF ScanNothing
<1>19. ASSUME Scan PROVE ListLock'
  BY <1>19 DEF Scan
<1>20. ASSUME LogAddress PROVE ListLock'
  BY <1>20 DEF LogAddress
<1>21. ASSUME Select PROVE ListLock'
  BY <1>21 DEF Select
<1>22. ASSUME WriteFails PROVE ListLock'
  BY <1>22 DEF WriteFails
<1>23. ASSUME SendFails PROVE ListLock'
  BY <1>23 DEF SendFails
<1>24. ASSUME SendKey PROVE ListLock'
  BY <1>24 DEF SendKey
<1>25. ASSUME MarkFollowed PROVE ListLock'
  BY <1>25 DEF MarkFollowed, Placed
<1>26. ASSUME SendFollow PROVE ListLock'
  BY <1>26 DEF SendFollow
<1>27. ASSUME SetState PROVE ListLock'
  BY <1>27 DEF SetState
<1>28. ASSUME FilterOff PROVE ListLock'
  BY <1>28 DEF FilterOff
<1>29. ASSUME AppExit PROVE ListLock'
  BY <1>29 DEF AppExit
<1>30. ASSUME ClosePort PROVE ListLock'
  BY <1>30 DEF ClosePort
<1>31. ASSUME ClearCallbacks PROVE ListLock'
  BY <1>31 DEF ClearCallbacks
<1>32. ASSUME ClearDeviceCallbacks PROVE ListLock'
  BY <1>32 DEF ClearDeviceCallbacks
<1>33. ASSUME ClosePipes PROVE ListLock'
  BY <1>33 DEF ClosePipes
<1>34. ASSUME Close PROVE ListLock'
  BY <1>34 DEF Close, Placed
<1>35. ASSUME Stall PROVE ListLock'
  BY <1>35 DEF Stall, Placed
<1>36. ASSUME Unplug PROVE ListLock'
  BY <1>36 DEF Unplug, Placed
<1>37. ASSUME SendHop PROVE ListLock'
  BY <1>37 DEF SendHop
<1>38. ASSUME NotifyHop PROVE ListLock'
  BY <1>38 DEF NotifyHop, Take
<1>39. ASSUME HopHeard PROVE ListLock'
  BY <1>39 DEF HopHeard, ReleaseAll
<1>40. ASSUME LogHop PROVE ListLock'
  BY <1>40 DEF LogHop
<1>41. CASE UNCHANGED vars
  BY <1>41 DEF vars, sniffing, wireshark, ending, Placed
<1> QED
  BY <1>1, <1>2, <1>3, <1>4, <1>5, <1>6, <1>7, <1>8, <1>9, <1>10, <1>11,
     <1>12, <1>13, <1>14, <1>15, <1>16, <1>17, <1>18, <1>19, <1>20,
     <1>21, <1>22, <1>23, <1>24, <1>25, <1>26, <1>27, <1>28, <1>29,
     <1>30, <1>31, <1>32, <1>33, <1>34, <1>35, <1>36, <1>37, <1>38, <1>39, <1>40, <1>41
     DEF Next, Sniffer, Control, Notifying, Hop, Follow, DoExit, Commands, Thread

(* The lock of the list's callbacks is held exactly while they run.        *)
LEMMA DevicesLockNext == TInv /\ DevicesLock /\ [Next]_vars => DevicesLock'
<1> SUFFICES ASSUME TInv, DevicesLock, [Next]_vars PROVE DevicesLock'
  OBVIOUS
<1> USE GoIs DEF TInv, TypeOK, SnifferJob, ControlJob, DevicesLock,
       Thread, Lock
<1>1. ASSUME NEW t \in Thread, AppendOrUpdate(t) PROVE DevicesLock'
  BY <1>1 DEF AppendOrUpdate, After, Take
<1>2. ASSUME NEW t \in Thread, NotifyDevices(t) PROVE DevicesLock'
  BY <1>2 DEF NotifyDevices, Take
<1>3. ASSUME NEW t \in Thread, PassOn(t) PROVE DevicesLock'
  BY <1>3 DEF PassOn, Take
<1>4. ASSUME NEW t \in Thread, Callback(t) PROVE DevicesLock'
  BY <1>4 DEF Callback, After, Writes, ReleaseAll
<1>5. ASSUME NEW t \in Thread, CallbackSilent(t) PROVE DevicesLock'
  BY <1>5 DEF CallbackSilent, After, Writes, ReleaseAll
<1>6. ASSUME NEW t \in Thread, CallbackFails(t) PROVE DevicesLock'
  BY <1>6 DEF CallbackFails, Writes, Failed, ReleaseAll
<1>7. ASSUME LoopTest PROVE DevicesLock'
  BY <1>7 DEF LoopTest
<1>8. ASSUME ReadTimesOut PROVE DevicesLock'
  BY <1>8 DEF ReadTimesOut
<1>9. ASSUME NEW d \in Device, Packet(d) PROVE DevicesLock'
  BY <1>9 DEF Packet, Take, Placed
<1>10. ASSUME NewPacket PROVE DevicesLock'
  BY <1>10 DEF NewPacket, ReleaseAll
<1>11. ASSUME NewPacketFails PROVE DevicesLock'
  BY <1>11 DEF NewPacketFails, ReleaseAll
<1>12. ASSUME LogFails PROVE DevicesLock'
  BY <1>12 DEF LogFails
<1>13. ASSUME NEW c \in Asked, NEW d \in Device, Command(c, d) PROVE DevicesLock'
  BY <1>13 DEF Command, Where, Asked, Placed
<1>14. ASSUME ReadInit PROVE DevicesLock'
  BY <1>14 DEF ReadInit
<1>15. ASSUME WriteDefaults PROVE DevicesLock'
  BY <1>15 DEF WriteDefaults
<1>16. ASSUME ReadEnd PROVE DevicesLock'
  BY <1>16 DEF ReadEnd
<1>17. ASSUME Clear PROVE DevicesLock'
  BY <1>17 DEF Clear, Take
<1>18. ASSUME ScanNothing PROVE DevicesLock'
  BY <1>18 DEF ScanNothing
<1>19. ASSUME Scan PROVE DevicesLock'
  BY <1>19 DEF Scan
<1>20. ASSUME LogAddress PROVE DevicesLock'
  BY <1>20 DEF LogAddress
<1>21. ASSUME Select PROVE DevicesLock'
  BY <1>21 DEF Select
<1>22. ASSUME WriteFails PROVE DevicesLock'
  BY <1>22 DEF WriteFails
<1>23. ASSUME SendFails PROVE DevicesLock'
  BY <1>23 DEF SendFails
<1>24. ASSUME SendKey PROVE DevicesLock'
  BY <1>24 DEF SendKey
<1>25. ASSUME MarkFollowed PROVE DevicesLock'
  BY <1>25 DEF MarkFollowed, Placed
<1>26. ASSUME SendFollow PROVE DevicesLock'
  BY <1>26 DEF SendFollow
<1>27. ASSUME SetState PROVE DevicesLock'
  BY <1>27 DEF SetState
<1>28. ASSUME FilterOff PROVE DevicesLock'
  BY <1>28 DEF FilterOff
<1>29. ASSUME AppExit PROVE DevicesLock'
  BY <1>29 DEF AppExit
<1>30. ASSUME ClosePort PROVE DevicesLock'
  BY <1>30 DEF ClosePort
<1>31. ASSUME ClearCallbacks PROVE DevicesLock'
  BY <1>31 DEF ClearCallbacks
<1>32. ASSUME ClearDeviceCallbacks PROVE DevicesLock'
  BY <1>32 DEF ClearDeviceCallbacks
<1>33. ASSUME ClosePipes PROVE DevicesLock'
  BY <1>33 DEF ClosePipes
<1>34. ASSUME Close PROVE DevicesLock'
  BY <1>34 DEF Close, Placed
<1>35. ASSUME Stall PROVE DevicesLock'
  BY <1>35 DEF Stall, Placed
<1>36. ASSUME Unplug PROVE DevicesLock'
  BY <1>36 DEF Unplug, Placed
<1>37. ASSUME SendHop PROVE DevicesLock'
  BY <1>37 DEF SendHop
<1>38. ASSUME NotifyHop PROVE DevicesLock'
  BY <1>38 DEF NotifyHop, Take
<1>39. ASSUME HopHeard PROVE DevicesLock'
  BY <1>39 DEF HopHeard, ReleaseAll
<1>40. ASSUME LogHop PROVE DevicesLock'
  BY <1>40 DEF LogHop
<1>41. CASE UNCHANGED vars
  BY <1>41 DEF vars, sniffing, wireshark, ending, Placed
<1> QED
  BY <1>1, <1>2, <1>3, <1>4, <1>5, <1>6, <1>7, <1>8, <1>9, <1>10, <1>11,
     <1>12, <1>13, <1>14, <1>15, <1>16, <1>17, <1>18, <1>19, <1>20,
     <1>21, <1>22, <1>23, <1>24, <1>25, <1>26, <1>27, <1>28, <1>29,
     <1>30, <1>31, <1>32, <1>33, <1>34, <1>35, <1>36, <1>37, <1>38, <1>39, <1>40, <1>41
     DEF Next, Sniffer, Control, Notifying, Hop, Follow, DoExit, Commands, Thread

(* The lock of the sniffer's callbacks is held exactly while they run.     *)
LEMMA SnifferLockNext == TInv /\ SnifferLock /\ [Next]_vars => SnifferLock'
<1> SUFFICES ASSUME TInv, SnifferLock, [Next]_vars PROVE SnifferLock'
  OBVIOUS
<1> USE GoIs DEF TInv, TypeOK, SnifferJob, ControlJob, SnifferLock,
       Thread, Lock
<1>1. ASSUME NEW t \in Thread, AppendOrUpdate(t) PROVE SnifferLock'
  BY <1>1 DEF AppendOrUpdate, After, Take
<1>2. ASSUME NEW t \in Thread, NotifyDevices(t) PROVE SnifferLock'
  BY <1>2 DEF NotifyDevices, Take
<1>3. ASSUME NEW t \in Thread, PassOn(t) PROVE SnifferLock'
  BY <1>3 DEF PassOn, Take
<1>4. ASSUME NEW t \in Thread, Callback(t) PROVE SnifferLock'
  BY <1>4 DEF Callback, After, Writes, ReleaseAll
<1>5. ASSUME NEW t \in Thread, CallbackSilent(t) PROVE SnifferLock'
  BY <1>5 DEF CallbackSilent, After, Writes, ReleaseAll
<1>6. ASSUME NEW t \in Thread, CallbackFails(t) PROVE SnifferLock'
  BY <1>6 DEF CallbackFails, Writes, Failed, ReleaseAll
<1>7. ASSUME LoopTest PROVE SnifferLock'
  BY <1>7 DEF LoopTest
<1>8. ASSUME ReadTimesOut PROVE SnifferLock'
  BY <1>8 DEF ReadTimesOut
<1>9. ASSUME NEW d \in Device, Packet(d) PROVE SnifferLock'
  BY <1>9 DEF Packet, Take, Placed
<1>10. ASSUME NewPacket PROVE SnifferLock'
  BY <1>10 DEF NewPacket, ReleaseAll
<1>11. ASSUME NewPacketFails PROVE SnifferLock'
  BY <1>11 DEF NewPacketFails, ReleaseAll
<1>12. ASSUME LogFails PROVE SnifferLock'
  BY <1>12 DEF LogFails
<1>13. ASSUME NEW c \in Asked, NEW d \in Device, Command(c, d) PROVE SnifferLock'
  BY <1>13 DEF Command, Where, Asked, Placed
<1>14. ASSUME ReadInit PROVE SnifferLock'
  BY <1>14 DEF ReadInit
<1>15. ASSUME WriteDefaults PROVE SnifferLock'
  BY <1>15 DEF WriteDefaults
<1>16. ASSUME ReadEnd PROVE SnifferLock'
  BY <1>16 DEF ReadEnd
<1>17. ASSUME Clear PROVE SnifferLock'
  BY <1>17 DEF Clear, Take
<1>18. ASSUME ScanNothing PROVE SnifferLock'
  BY <1>18 DEF ScanNothing
<1>19. ASSUME Scan PROVE SnifferLock'
  BY <1>19 DEF Scan
<1>20. ASSUME LogAddress PROVE SnifferLock'
  BY <1>20 DEF LogAddress
<1>21. ASSUME Select PROVE SnifferLock'
  BY <1>21 DEF Select
<1>22. ASSUME WriteFails PROVE SnifferLock'
  BY <1>22 DEF WriteFails
<1>23. ASSUME SendFails PROVE SnifferLock'
  BY <1>23 DEF SendFails
<1>24. ASSUME SendKey PROVE SnifferLock'
  BY <1>24 DEF SendKey
<1>25. ASSUME MarkFollowed PROVE SnifferLock'
  BY <1>25 DEF MarkFollowed, Placed
<1>26. ASSUME SendFollow PROVE SnifferLock'
  BY <1>26 DEF SendFollow
<1>27. ASSUME SetState PROVE SnifferLock'
  BY <1>27 DEF SetState
<1>28. ASSUME FilterOff PROVE SnifferLock'
  BY <1>28 DEF FilterOff
<1>29. ASSUME AppExit PROVE SnifferLock'
  BY <1>29 DEF AppExit
<1>30. ASSUME ClosePort PROVE SnifferLock'
  BY <1>30 DEF ClosePort
<1>31. ASSUME ClearCallbacks PROVE SnifferLock'
  BY <1>31 DEF ClearCallbacks
<1>32. ASSUME ClearDeviceCallbacks PROVE SnifferLock'
  BY <1>32 DEF ClearDeviceCallbacks
<1>33. ASSUME ClosePipes PROVE SnifferLock'
  BY <1>33 DEF ClosePipes
<1>34. ASSUME Close PROVE SnifferLock'
  BY <1>34 DEF Close, Placed
<1>35. ASSUME Stall PROVE SnifferLock'
  BY <1>35 DEF Stall, Placed
<1>36. ASSUME Unplug PROVE SnifferLock'
  BY <1>36 DEF Unplug, Placed
<1>37. ASSUME SendHop PROVE SnifferLock'
  BY <1>37 DEF SendHop
<1>38. ASSUME NotifyHop PROVE SnifferLock'
  BY <1>38 DEF NotifyHop, Take
<1>39. ASSUME HopHeard PROVE SnifferLock'
  BY <1>39 DEF HopHeard, ReleaseAll
<1>40. ASSUME LogHop PROVE SnifferLock'
  BY <1>40 DEF LogHop
<1>41. CASE UNCHANGED vars
  BY <1>41 DEF vars, sniffing, wireshark, ending, Placed
<1> QED
  BY <1>1, <1>2, <1>3, <1>4, <1>5, <1>6, <1>7, <1>8, <1>9, <1>10, <1>11,
     <1>12, <1>13, <1>14, <1>15, <1>16, <1>17, <1>18, <1>19, <1>20,
     <1>21, <1>22, <1>23, <1>24, <1>25, <1>26, <1>27, <1>28, <1>29,
     <1>30, <1>31, <1>32, <1>33, <1>34, <1>35, <1>36, <1>37, <1>38, <1>39, <1>40, <1>41
     DEF Next, Sniffer, Control, Notifying, Hop, Follow, DoExit, Commands, Thread

(* So is the lock of the packet reader's callbacks.                        *)
LEMMA ReaderLockNext == TInv /\ ReaderLock /\ [Next]_vars => ReaderLock'
<1> SUFFICES ASSUME TInv, ReaderLock, [Next]_vars PROVE ReaderLock'
  OBVIOUS
<1> USE GoIs DEF TInv, TypeOK, SnifferJob, ControlJob, ReaderLock,
       Thread, Lock
<1>1. ASSUME NEW t \in Thread, AppendOrUpdate(t) PROVE ReaderLock'
  BY <1>1 DEF AppendOrUpdate, After, Take
<1>2. ASSUME NEW t \in Thread, NotifyDevices(t) PROVE ReaderLock'
  BY <1>2 DEF NotifyDevices, Take
<1>3. ASSUME NEW t \in Thread, PassOn(t) PROVE ReaderLock'
  BY <1>3 DEF PassOn, Take
<1>4. ASSUME NEW t \in Thread, Callback(t) PROVE ReaderLock'
  BY <1>4 DEF Callback, After, Writes, ReleaseAll
<1>5. ASSUME NEW t \in Thread, CallbackSilent(t) PROVE ReaderLock'
  BY <1>5 DEF CallbackSilent, After, Writes, ReleaseAll
<1>6. ASSUME NEW t \in Thread, CallbackFails(t) PROVE ReaderLock'
  BY <1>6 DEF CallbackFails, Writes, Failed, ReleaseAll
<1>7. ASSUME LoopTest PROVE ReaderLock'
  BY <1>7 DEF LoopTest
<1>8. ASSUME ReadTimesOut PROVE ReaderLock'
  BY <1>8 DEF ReadTimesOut
<1>9. ASSUME NEW d \in Device, Packet(d) PROVE ReaderLock'
  BY <1>9 DEF Packet, Take, Placed
<1>10. ASSUME NewPacket PROVE ReaderLock'
  BY <1>10 DEF NewPacket, ReleaseAll
<1>11. ASSUME NewPacketFails PROVE ReaderLock'
  BY <1>11 DEF NewPacketFails, ReleaseAll
<1>12. ASSUME LogFails PROVE ReaderLock'
  BY <1>12 DEF LogFails
<1>13. ASSUME NEW c \in Asked, NEW d \in Device, Command(c, d) PROVE ReaderLock'
  BY <1>13 DEF Command, Where, Asked, Placed
<1>14. ASSUME ReadInit PROVE ReaderLock'
  BY <1>14 DEF ReadInit
<1>15. ASSUME WriteDefaults PROVE ReaderLock'
  BY <1>15 DEF WriteDefaults
<1>16. ASSUME ReadEnd PROVE ReaderLock'
  BY <1>16 DEF ReadEnd
<1>17. ASSUME Clear PROVE ReaderLock'
  BY <1>17 DEF Clear, Take
<1>18. ASSUME ScanNothing PROVE ReaderLock'
  BY <1>18 DEF ScanNothing
<1>19. ASSUME Scan PROVE ReaderLock'
  BY <1>19 DEF Scan
<1>20. ASSUME LogAddress PROVE ReaderLock'
  BY <1>20 DEF LogAddress
<1>21. ASSUME Select PROVE ReaderLock'
  BY <1>21 DEF Select
<1>22. ASSUME WriteFails PROVE ReaderLock'
  BY <1>22 DEF WriteFails
<1>23. ASSUME SendFails PROVE ReaderLock'
  BY <1>23 DEF SendFails
<1>24. ASSUME SendKey PROVE ReaderLock'
  BY <1>24 DEF SendKey
<1>25. ASSUME MarkFollowed PROVE ReaderLock'
  BY <1>25 DEF MarkFollowed, Placed
<1>26. ASSUME SendFollow PROVE ReaderLock'
  BY <1>26 DEF SendFollow
<1>27. ASSUME SetState PROVE ReaderLock'
  BY <1>27 DEF SetState
<1>28. ASSUME FilterOff PROVE ReaderLock'
  BY <1>28 DEF FilterOff
<1>29. ASSUME AppExit PROVE ReaderLock'
  BY <1>29 DEF AppExit
<1>30. ASSUME ClosePort PROVE ReaderLock'
  BY <1>30 DEF ClosePort
<1>31. ASSUME ClearCallbacks PROVE ReaderLock'
  BY <1>31 DEF ClearCallbacks
<1>32. ASSUME ClearDeviceCallbacks PROVE ReaderLock'
  BY <1>32 DEF ClearDeviceCallbacks
<1>33. ASSUME ClosePipes PROVE ReaderLock'
  BY <1>33 DEF ClosePipes
<1>34. ASSUME Close PROVE ReaderLock'
  BY <1>34 DEF Close, Placed
<1>35. ASSUME Stall PROVE ReaderLock'
  BY <1>35 DEF Stall, Placed
<1>36. ASSUME Unplug PROVE ReaderLock'
  BY <1>36 DEF Unplug, Placed
<1>37. ASSUME SendHop PROVE ReaderLock'
  BY <1>37 DEF SendHop
<1>38. ASSUME NotifyHop PROVE ReaderLock'
  BY <1>38 DEF NotifyHop, Take
<1>39. ASSUME HopHeard PROVE ReaderLock'
  BY <1>39 DEF HopHeard, ReleaseAll
<1>40. ASSUME LogHop PROVE ReaderLock'
  BY <1>40 DEF LogHop
<1>41. CASE UNCHANGED vars
  BY <1>41 DEF vars, sniffing, wireshark, ending, Placed
<1> QED
  BY <1>1, <1>2, <1>3, <1>4, <1>5, <1>6, <1>7, <1>8, <1>9, <1>10, <1>11,
     <1>12, <1>13, <1>14, <1>15, <1>16, <1>17, <1>18, <1>19, <1>20,
     <1>21, <1>22, <1>23, <1>24, <1>25, <1>26, <1>27, <1>28, <1>29,
     <1>30, <1>31, <1>32, <1>33, <1>34, <1>35, <1>36, <1>37, <1>38, <1>39, <1>40, <1>41
     DEF Next, Sniffer, Control, Notifying, Hop, Follow, DoExit, Commands, Thread

(* Nobody takes a device from the list while it is announced.              *)
LEMMA ListedNext == TInv /\ ListLock /\ Listed /\ [Next]_vars => Listed'
<1> SUFFICES ASSUME TInv, ListLock, Listed, [Next]_vars PROVE Listed'
  OBVIOUS
<1> USE GoIs DEF TInv, SnifferJob, ControlJob, ListLock, Listed, Announces,
       DevOf, Thread
<1>1. ASSUME NEW t \in Thread, AppendOrUpdate(t) PROVE Listed'
  BY <1>1 DEF AppendOrUpdate, After, Take
<1>2. ASSUME NEW t \in Thread, NotifyDevices(t) PROVE Listed'
  BY <1>2 DEF NotifyDevices
<1>3. ASSUME NEW t \in Thread, PassOn(t) PROVE Listed'
  BY <1>3 DEF PassOn
<1>4. ASSUME NEW t \in Thread, Callback(t) PROVE Listed'
  BY <1>4 DEF Callback, After, Writes
<1>5. ASSUME NEW t \in Thread, CallbackSilent(t) PROVE Listed'
  BY <1>5 DEF CallbackSilent, After, Writes
<1>6. ASSUME NEW t \in Thread, CallbackFails(t) PROVE Listed'
  BY <1>6 DEF CallbackFails, Writes, Failed
<1>7. ASSUME LoopTest PROVE Listed'
  BY <1>7 DEF LoopTest
<1>8. ASSUME ReadTimesOut PROVE Listed'
  BY <1>8 DEF ReadTimesOut
<1>9. ASSUME NEW d \in Device, Packet(d) PROVE Listed'
  BY <1>9 DEF Packet, Placed, TypeOK
<1>10. ASSUME NewPacket PROVE Listed'
  BY <1>10 DEF NewPacket
<1>11. ASSUME NewPacketFails PROVE Listed'
  BY <1>11 DEF NewPacketFails
<1>12. ASSUME LogFails PROVE Listed'
  BY <1>12 DEF LogFails
<1>13. ASSUME NEW c \in Asked, NEW d \in Device, Command(c, d) PROVE Listed'
  BY <1>13 DEF Command, Where, Asked, Placed, TypeOK
<1>14. ASSUME ReadInit PROVE Listed'
  BY <1>14 DEF ReadInit
<1>15. ASSUME WriteDefaults PROVE Listed'
  BY <1>15 DEF WriteDefaults
<1>16. ASSUME ReadEnd PROVE Listed'
  BY <1>16 DEF ReadEnd
<1>17. ASSUME Clear PROVE Listed'
  BY <1>17 DEF Clear, Take
<1>18. ASSUME ScanNothing PROVE Listed'
  BY <1>18 DEF ScanNothing
<1>19. ASSUME Scan PROVE Listed'
  BY <1>19 DEF Scan
<1>20. ASSUME LogAddress PROVE Listed'
  BY <1>20 DEF LogAddress
<1>21. ASSUME Select PROVE Listed'
  BY <1>21 DEF Select
<1>22. ASSUME WriteFails PROVE Listed'
  BY <1>22 DEF WriteFails
<1>23. ASSUME SendFails PROVE Listed'
  BY <1>23 DEF SendFails
<1>24. ASSUME SendKey PROVE Listed'
  BY <1>24 DEF SendKey
<1>25. ASSUME MarkFollowed PROVE Listed'
  BY <1>25 DEF MarkFollowed, Placed, TypeOK
<1>26. ASSUME SendFollow PROVE Listed'
  BY <1>26 DEF SendFollow
<1>27. ASSUME SetState PROVE Listed'
  BY <1>27 DEF SetState
<1>28. ASSUME FilterOff PROVE Listed'
  BY <1>28 DEF FilterOff
<1>29. ASSUME AppExit PROVE Listed'
  BY <1>29 DEF AppExit
<1>30. ASSUME ClosePort PROVE Listed'
  BY <1>30 DEF ClosePort
<1>31. ASSUME ClearCallbacks PROVE Listed'
  BY <1>31 DEF ClearCallbacks
<1>32. ASSUME ClearDeviceCallbacks PROVE Listed'
  BY <1>32 DEF ClearDeviceCallbacks
<1>33. ASSUME ClosePipes PROVE Listed'
  BY <1>33 DEF ClosePipes
<1>34. ASSUME Close PROVE Listed'
  BY <1>34 DEF Close, Placed, TypeOK
<1>35. ASSUME Stall PROVE Listed'
  BY <1>35 DEF Stall, Placed, TypeOK
<1>36. ASSUME Unplug PROVE Listed'
  BY <1>36 DEF Unplug, Placed, TypeOK
<1>37. ASSUME SendHop PROVE Listed'
  BY <1>37 DEF SendHop
<1>38. ASSUME NotifyHop PROVE Listed'
  BY <1>38 DEF NotifyHop
<1>39. ASSUME HopHeard PROVE Listed'
  BY <1>39 DEF HopHeard
<1>40. ASSUME LogHop PROVE Listed'
  BY <1>40 DEF LogHop
<1>41. CASE UNCHANGED vars
  BY <1>41 DEF vars, sniffing, wireshark, ending, Placed, TypeOK
<1> QED
  BY <1>1, <1>2, <1>3, <1>4, <1>5, <1>6, <1>7, <1>8, <1>9, <1>10, <1>11,
     <1>12, <1>13, <1>14, <1>15, <1>16, <1>17, <1>18, <1>19, <1>20,
     <1>21, <1>22, <1>23, <1>24, <1>25, <1>26, <1>27, <1>28, <1>29,
     <1>30, <1>31, <1>32, <1>33, <1>34, <1>35, <1>36, <1>37, <1>38, <1>39, <1>40, <1>41
     DEF Next, Sniffer, Control, Notifying, Hop, Follow, DoExit, Commands, Thread

-----------------------------------------------------------------------------
(* The three notions of following, the end, the toolbar's list             *)

(* Each step of a command leaves the three notions as Following says.      *)
LEMMA FollowingNext == TInv /\ Following /\ [Next]_vars => Following'
<1> SUFFICES ASSUME TInv, Following, [Next]_vars PROVE Following'
  OBVIOUS
<1> USE GoIs, ToolbarAssumption DEF TInv, ControlJob, Following, Teardown,
       DevOf, Thread
<1>1. ASSUME NEW t \in Thread, AppendOrUpdate(t) PROVE Following'
  BY <1>1 DEF AppendOrUpdate, After, sniffing
<1>2. ASSUME NEW t \in Thread, NotifyDevices(t) PROVE Following'
  BY <1>2 DEF NotifyDevices, sniffing
<1>3. ASSUME NEW t \in Thread, PassOn(t) PROVE Following'
  BY <1>3 DEF PassOn, sniffing
<1>4. ASSUME NEW t \in Thread, Callback(t) PROVE Following'
  BY <1>4 DEF Callback, After, Writes, sniffing
<1>5. ASSUME NEW t \in Thread, CallbackSilent(t) PROVE Following'
  BY <1>5 DEF CallbackSilent, After, Writes, sniffing
<1>6. ASSUME NEW t \in Thread, CallbackFails(t) PROVE Following'
  BY <1>6 DEF CallbackFails, Writes, Failed, sniffing
<1>7. ASSUME LoopTest PROVE Following'
  BY <1>7 DEF LoopTest, sniffing
<1>8. ASSUME ReadTimesOut PROVE Following'
  BY <1>8 DEF ReadTimesOut, sniffing
<1>9. ASSUME NEW d \in Device, Packet(d) PROVE Following'
  BY <1>9 DEF Packet, sniffing, Placed, TypeOK
<1>10. ASSUME NewPacket PROVE Following'
  BY <1>10 DEF NewPacket, sniffing
<1>11. ASSUME NewPacketFails PROVE Following'
  BY <1>11 DEF NewPacketFails, sniffing
<1>12. ASSUME LogFails PROVE Following'
  BY <1>12 DEF LogFails, sniffing
<1>13. ASSUME NEW c \in Asked, NEW d \in Device, Command(c, d) PROVE Following'
  BY <1>13 DEF Command, Where, Asked, sniffing, Placed, TypeOK
<1>14. ASSUME ReadInit PROVE Following'
  BY <1>14 DEF ReadInit, sniffing
<1>15. ASSUME WriteDefaults PROVE Following'
  BY <1>15 DEF WriteDefaults, sniffing
<1>16. ASSUME ReadEnd PROVE Following'
  BY <1>16 DEF ReadEnd, sniffing
<1>17. ASSUME Clear PROVE Following'
  BY <1>17 DEF Clear, sniffing
<1>18. ASSUME ScanNothing PROVE Following'
  BY <1>18 DEF ScanNothing, sniffing
<1>19. ASSUME Scan PROVE Following'
  BY <1>19 DEF Scan, sniffing
<1>20. ASSUME LogAddress PROVE Following'
  BY <1>20 DEF LogAddress, sniffing
<1>21. ASSUME Select PROVE Following'
  BY <1>21 DEF Select, sniffing
<1>22. ASSUME WriteFails PROVE Following'
  BY <1>22 DEF WriteFails, sniffing
<1>23. ASSUME SendFails PROVE Following'
  BY <1>23 DEF SendFails, sniffing
<1>24. ASSUME SendKey PROVE Following'
  BY <1>24 DEF SendKey, sniffing
<1>25. ASSUME MarkFollowed PROVE Following'
  BY <1>25 DEF MarkFollowed, sniffing, Placed, TypeOK
<1>26. ASSUME SendFollow PROVE Following'
  BY <1>26 DEF SendFollow, sniffing
<1>27. ASSUME SetState PROVE Following'
  BY <1>27 DEF SetState, sniffing
<1>28. ASSUME FilterOff PROVE Following'
  BY <1>28 DEF FilterOff, sniffing
<1>29. ASSUME AppExit PROVE Following'
  BY <1>29 DEF AppExit, sniffing
<1>30. ASSUME ClosePort PROVE Following'
  BY <1>30 DEF ClosePort, sniffing
<1>31. ASSUME ClearCallbacks PROVE Following'
  BY <1>31 DEF ClearCallbacks, sniffing
<1>32. ASSUME ClearDeviceCallbacks PROVE Following'
  BY <1>32 DEF ClearDeviceCallbacks, sniffing
<1>33. ASSUME ClosePipes PROVE Following'
  BY <1>33 DEF ClosePipes, sniffing
<1>34. ASSUME Close PROVE Following'
  BY <1>34 DEF Close, sniffing, Placed, TypeOK
<1>35. ASSUME Stall PROVE Following'
  BY <1>35 DEF Stall, sniffing, Placed, TypeOK
<1>36. ASSUME Unplug PROVE Following'
  BY <1>36 DEF Unplug, sniffing, Placed, TypeOK
<1>37. ASSUME SendHop PROVE Following'
  BY <1>37 DEF SendHop, sniffing
<1>38. ASSUME NotifyHop PROVE Following'
  BY <1>38 DEF NotifyHop, sniffing
<1>39. ASSUME HopHeard PROVE Following'
  BY <1>39 DEF HopHeard, sniffing
<1>40. ASSUME LogHop PROVE Following'
  BY <1>40 DEF LogHop, sniffing
<1>41. CASE UNCHANGED vars
  BY <1>41 DEF vars, sniffing, wireshark, ending, Placed, TypeOK
<1> QED
  BY <1>1, <1>2, <1>3, <1>4, <1>5, <1>6, <1>7, <1>8, <1>9, <1>10, <1>11,
     <1>12, <1>13, <1>14, <1>15, <1>16, <1>17, <1>18, <1>19, <1>20,
     <1>21, <1>22, <1>23, <1>24, <1>25, <1>26, <1>27, <1>28, <1>29,
     <1>30, <1>31, <1>32, <1>33, <1>34, <1>35, <1>36, <1>37, <1>38, <1>39, <1>40, <1>41
     DEF Next, Sniffer, Control, Notifying, Hop, Follow, DoExit, Commands, Thread

(* The main thread ends the program in the order of _doExit.               *)
LEMMA EndingNext == TInv /\ Ending /\ [Next]_vars => Ending'
<1> SUFFICES ASSUME TInv, Ending, [Next]_vars PROVE Ending'
  OBVIOUS
<1> USE GoIs DEF TInv, TypeOK, ControlJob, Ending, Teardown, Thread
<1>1. ASSUME NEW t \in Thread, AppendOrUpdate(t) PROVE Ending'
  BY <1>1 DEF AppendOrUpdate, After, ending
<1>2. ASSUME NEW t \in Thread, NotifyDevices(t) PROVE Ending'
  BY <1>2 DEF NotifyDevices, ending
<1>3. ASSUME NEW t \in Thread, PassOn(t) PROVE Ending'
  BY <1>3 DEF PassOn, ending
<1>4. ASSUME NEW t \in Thread, Callback(t) PROVE Ending'
  BY <1>4 DEF Callback, After, Writes, ending
<1>5. ASSUME NEW t \in Thread, CallbackSilent(t) PROVE Ending'
  BY <1>5 DEF CallbackSilent, After, Writes, ending
<1>6. ASSUME NEW t \in Thread, CallbackFails(t) PROVE Ending'
  BY <1>6 DEF CallbackFails, Writes, Failed, ending
<1>7. ASSUME LoopTest PROVE Ending'
  BY <1>7 DEF LoopTest, ending
<1>8. ASSUME ReadTimesOut PROVE Ending'
  BY <1>8 DEF ReadTimesOut, ending
<1>9. ASSUME NEW d \in Device, Packet(d) PROVE Ending'
  BY <1>9 DEF Packet, ending, Placed
<1>10. ASSUME NewPacket PROVE Ending'
  BY <1>10 DEF NewPacket, ending
<1>11. ASSUME NewPacketFails PROVE Ending'
  BY <1>11 DEF NewPacketFails, ending
<1>12. ASSUME LogFails PROVE Ending'
  BY <1>12 DEF LogFails, ending
<1>13. ASSUME NEW c \in Asked, NEW d \in Device, Command(c, d) PROVE Ending'
  BY <1>13 DEF Command, Where, Asked, ending, Placed
<1>14. ASSUME ReadInit PROVE Ending'
  BY <1>14 DEF ReadInit, ending
<1>15. ASSUME WriteDefaults PROVE Ending'
  BY <1>15 DEF WriteDefaults, ending
<1>16. ASSUME ReadEnd PROVE Ending'
  BY <1>16 DEF ReadEnd, ending
<1>17. ASSUME Clear PROVE Ending'
  BY <1>17 DEF Clear, ending
<1>18. ASSUME ScanNothing PROVE Ending'
  BY <1>18 DEF ScanNothing, ending
<1>19. ASSUME Scan PROVE Ending'
  BY <1>19 DEF Scan, ending
<1>20. ASSUME LogAddress PROVE Ending'
  BY <1>20 DEF LogAddress, ending
<1>21. ASSUME Select PROVE Ending'
  BY <1>21 DEF Select, ending
<1>22. ASSUME WriteFails PROVE Ending'
  BY <1>22 DEF WriteFails, ending
<1>23. ASSUME SendFails PROVE Ending'
  BY <1>23 DEF SendFails, ending
<1>24. ASSUME SendKey PROVE Ending'
  BY <1>24 DEF SendKey, ending
<1>25. ASSUME MarkFollowed PROVE Ending'
  BY <1>25 DEF MarkFollowed, ending, Placed
<1>26. ASSUME SendFollow PROVE Ending'
  BY <1>26 DEF SendFollow, ending
<1>27. ASSUME SetState PROVE Ending'
  BY <1>27 DEF SetState, ending
<1>28. ASSUME FilterOff PROVE Ending'
  BY <1>28 DEF FilterOff, ending
<1>29. ASSUME AppExit PROVE Ending'
  BY <1>29 DEF AppExit, ending
<1>30. ASSUME ClosePort PROVE Ending'
  BY <1>30 DEF ClosePort, ending
<1>31. ASSUME ClearCallbacks PROVE Ending'
  BY <1>31 DEF ClearCallbacks, ending
<1>32. ASSUME ClearDeviceCallbacks PROVE Ending'
  BY <1>32 DEF ClearDeviceCallbacks, ending
<1>33. ASSUME ClosePipes PROVE Ending'
  BY <1>33 DEF ClosePipes, ending
<1>34. ASSUME Close PROVE Ending'
  BY <1>34 DEF Close, ending, Placed
<1>35. ASSUME Stall PROVE Ending'
  BY <1>35 DEF Stall, ending, Placed
<1>36. ASSUME Unplug PROVE Ending'
  BY <1>36 DEF Unplug, ending, Placed
<1>37. ASSUME SendHop PROVE Ending'
  BY <1>37 DEF SendHop, ending
<1>38. ASSUME NotifyHop PROVE Ending'
  BY <1>38 DEF NotifyHop, ending
<1>39. ASSUME HopHeard PROVE Ending'
  BY <1>39 DEF HopHeard, ending
<1>40. ASSUME LogHop PROVE Ending'
  BY <1>40 DEF LogHop, ending
<1>41. CASE UNCHANGED vars
  BY <1>41 DEF vars, ending, sniffing, wireshark, Placed
<1> QED
  BY <1>1, <1>2, <1>3, <1>4, <1>5, <1>6, <1>7, <1>8, <1>9, <1>10, <1>11,
     <1>12, <1>13, <1>14, <1>15, <1>16, <1>17, <1>18, <1>19, <1>20,
     <1>21, <1>22, <1>23, <1>24, <1>25, <1>26, <1>27, <1>28, <1>29,
     <1>30, <1>31, <1>32, <1>33, <1>34, <1>35, <1>36, <1>37, <1>38, <1>39, <1>40, <1>41
     DEF Next, Sniffer, Control, Notifying, Hop, Follow, DoExit, Commands, Thread

(* Until the end, what the toolbar misses is being announced.              *)
LEMMA MirrorNext == TInv /\ ListLock /\ Listed /\ Ending /\ Mirror /\ [Next]_vars => Mirror'
<1> SUFFICES ASSUME TInv, ListLock, Listed, Ending, Mirror, [Next]_vars PROVE Mirror'
  OBVIOUS
<1> USE GoIs DEF TInv, SnifferJob, ControlJob, ListLock, Listed, Ending,
       Teardown, Mirror, Announces, DevOf, Thread
<1>1. ASSUME NEW t \in Thread, AppendOrUpdate(t) PROVE Mirror'
  BY <1>1 DEF AppendOrUpdate, After, Take, wireshark, ending
<1>2. ASSUME NEW t \in Thread, NotifyDevices(t) PROVE Mirror'
  BY <1>2 DEF NotifyDevices, wireshark, ending
<1>3. ASSUME NEW t \in Thread, PassOn(t) PROVE Mirror'
  BY <1>3 DEF PassOn, wireshark, ending
<1>4. ASSUME NEW t \in Thread, Callback(t) PROVE Mirror'
  BY <1>4 DEF Callback, After, Writes, wireshark, ending
<1>5. ASSUME NEW t \in Thread, CallbackSilent(t) PROVE Mirror'
  BY <1>5 DEF CallbackSilent, After, Writes, wireshark, ending
<1>6. ASSUME NEW t \in Thread, CallbackFails(t) PROVE Mirror'
  BY <1>6 DEF CallbackFails, Writes, Failed, wireshark, ending
<1>7. ASSUME LoopTest PROVE Mirror'
  BY <1>7 DEF LoopTest, wireshark, ending
<1>8. ASSUME ReadTimesOut PROVE Mirror'
  BY <1>8 DEF ReadTimesOut, wireshark, ending
<1>9. ASSUME NEW d \in Device, Packet(d) PROVE Mirror'
  BY <1>9 DEF Packet, wireshark, ending, Placed, TypeOK
<1>10. ASSUME NewPacket PROVE Mirror'
  BY <1>10 DEF NewPacket, wireshark, ending
<1>11. ASSUME NewPacketFails PROVE Mirror'
  BY <1>11 DEF NewPacketFails, wireshark, ending
<1>12. ASSUME LogFails PROVE Mirror'
  BY <1>12 DEF LogFails, wireshark, ending
<1>13. ASSUME NEW c \in Asked, NEW d \in Device, Command(c, d) PROVE Mirror'
  BY <1>13 DEF Command, Where, Asked, wireshark, ending, Placed, TypeOK
<1>14. ASSUME ReadInit PROVE Mirror'
  BY <1>14 DEF ReadInit, wireshark, ending
<1>15. ASSUME WriteDefaults PROVE Mirror'
  BY <1>15 DEF WriteDefaults, wireshark, ending
<1>16. ASSUME ReadEnd PROVE Mirror'
  BY <1>16 DEF ReadEnd, wireshark, ending
<1>17. ASSUME Clear PROVE Mirror'
  BY <1>17 DEF Clear, Take, wireshark, ending
<1>18. ASSUME ScanNothing PROVE Mirror'
  BY <1>18 DEF ScanNothing, wireshark, ending
<1>19. ASSUME Scan PROVE Mirror'
  BY <1>19 DEF Scan, wireshark, ending
<1>20. ASSUME LogAddress PROVE Mirror'
  BY <1>20 DEF LogAddress, wireshark, ending
<1>21. ASSUME Select PROVE Mirror'
  BY <1>21 DEF Select, wireshark, ending
<1>22. ASSUME WriteFails PROVE Mirror'
  BY <1>22 DEF WriteFails, wireshark, ending
<1>23. ASSUME SendFails PROVE Mirror'
  BY <1>23 DEF SendFails, wireshark, ending
<1>24. ASSUME SendKey PROVE Mirror'
  BY <1>24 DEF SendKey, wireshark, ending
<1>25. ASSUME MarkFollowed PROVE Mirror'
  BY <1>25 DEF MarkFollowed, wireshark, ending, Placed, TypeOK
<1>26. ASSUME SendFollow PROVE Mirror'
  BY <1>26 DEF SendFollow, wireshark, ending
<1>27. ASSUME SetState PROVE Mirror'
  BY <1>27 DEF SetState, wireshark, ending
<1>28. ASSUME FilterOff PROVE Mirror'
  BY <1>28 DEF FilterOff, wireshark, ending
<1>29. ASSUME AppExit PROVE Mirror'
  BY <1>29 DEF AppExit, wireshark, ending
<1>30. ASSUME ClosePort PROVE Mirror'
  BY <1>30 DEF ClosePort, wireshark, ending
<1>31. ASSUME ClearCallbacks PROVE Mirror'
  BY <1>31 DEF ClearCallbacks, wireshark, ending
<1>32. ASSUME ClearDeviceCallbacks PROVE Mirror'
  BY <1>32 DEF ClearDeviceCallbacks, wireshark, ending
<1>33. ASSUME ClosePipes PROVE Mirror'
  BY <1>33 DEF ClosePipes, wireshark, ending
<1>34. ASSUME Close PROVE Mirror'
  BY <1>34 DEF Close, wireshark, ending, Placed, TypeOK
<1>35. ASSUME Stall PROVE Mirror'
  BY <1>35 DEF Stall, wireshark, ending, Placed, TypeOK
<1>36. ASSUME Unplug PROVE Mirror'
  BY <1>36 DEF Unplug, wireshark, ending, Placed, TypeOK
<1>37. ASSUME SendHop PROVE Mirror'
  BY <1>37 DEF SendHop, wireshark, ending
<1>38. ASSUME NotifyHop PROVE Mirror'
  BY <1>38 DEF NotifyHop, wireshark, ending
<1>39. ASSUME HopHeard PROVE Mirror'
  BY <1>39 DEF HopHeard, wireshark, ending
<1>40. ASSUME LogHop PROVE Mirror'
  BY <1>40 DEF LogHop, wireshark, ending
<1>41. CASE UNCHANGED vars
  BY <1>41 DEF vars, wireshark, ending, sniffing, Placed, TypeOK
<1> QED
  BY <1>1, <1>2, <1>3, <1>4, <1>5, <1>6, <1>7, <1>8, <1>9, <1>10, <1>11,
     <1>12, <1>13, <1>14, <1>15, <1>16, <1>17, <1>18, <1>19, <1>20,
     <1>21, <1>22, <1>23, <1>24, <1>25, <1>26, <1>27, <1>28, <1>29,
     <1>30, <1>31, <1>32, <1>33, <1>34, <1>35, <1>36, <1>37, <1>38, <1>39, <1>40, <1>41
     DEF Next, Sniffer, Control, Notifying, Hop, Follow, DoExit, Commands, Thread

-----------------------------------------------------------------------------
(* The theorems                                                            *)

(* The inductive invariant.                                                *)
IInv == TInv /\ ListLock /\ DevicesLock /\ SnifferLock /\ ReaderLock /\ Listed /\ Following /\ Ending /\ Mirror

(* It holds of every behaviour.                                            *)
LEMMA Invariant == Spec => []IInv
<1>1. Init => IInv
  <2> SUFFICES ASSUME Init PROVE IInv
    OBVIOUS
  <2>1. \A t \in Thread : ~Announces(t) /\ lock["list"] # t
    BY DEF Init, Announces, Thread, Lock
  <2>2. Following
    BY ToolbarAssumption DEF Init, Following, Teardown, Thread
  <2>3. Ending
    BY DEF Init, Ending, Teardown, Thread
  <2>4. Mirror
    BY <2>1 DEF Init, Mirror
  <2>5. DevicesLock /\ SnifferLock /\ ReaderLock
    BY DEF Init, DevicesLock, SnifferLock, ReaderLock, Thread, Lock
  <2> QED
    BY <2>1, <2>2, <2>3, <2>4, <2>5, TInit DEF IInv, ListLock, Listed
<1>2. IInv /\ [Next]_vars => IInv'
  BY TNext, ListLockNext, DevicesLockNext, SnifferLockNext, ReaderLockNext, ListedNext,
     FollowingNext, EndingNext, MirrorNext DEF IInv
<1> QED
  BY <1>1, <1>2, PTL DEF Spec

(* Whenever nobody changes the device list, the toolbar shows it, up to    *)
(* devices under the filter (Devices.py, device_added, devices_cleared).   *)
THEOREM MirrorCorrect == Spec => []MirrorsList
<1>1. IInv => MirrorsList
  <2> SUFFICES ASSUME IInv, lock["list"] = "free", ~exit, open
               PROVE  shown \subseteq devices /\ devices \ shown \subseteq Weak
    BY DEF MirrorsList
  <2>1. \A t \in Thread : ~Announces(t)
    BY DEF IInv, ListLock, Thread
  <2> QED
    BY <2>1 DEF IInv, Mirror
<1> QED
  BY <1>1, Invariant, PTL

(* Between two commands the sniffer's state, in_follow_mode and the        *)
(* firmware agree (follow_device, scan_for_devices, SnifferCollector).     *)
THEOREM FollowCorrect == Spec => []FollowAgrees
<1>1. IInv => FollowAgrees
  BY DEF IInv, Following, Teardown, FollowAgrees
<1> QED
  BY <1>1, Invariant, PTL

(* Once the program has closed its pipes, no callback of the sniffer       *)
(* thread writes into them (_doExit, the finally clause).                  *)
THEOREM EndCorrect == Spec => []NoWriteAfterClose
<1>1. IInv => NoWriteAfterClose
  BY DEF IInv, Ending, NoWriteAfterClose, NewPacketWrites, Writes
<1> QED
  BY <1>1, Invariant, PTL

(* The threads take the locks in one order: the list's, then the list's    *)
(* notifier's, then the sniffer's; and who ends holds none (DeviceList,    *)
(* Notifier.notify, passOnNotification, _doExit).                          *)
THEOREM LockOrderCorrect == Spec => []LockOrder
<1>1. IInv => LockOrder
  BY DEF IInv, TInv, TypeOK, Placed, ListLock, Announces, DevicesLock, SnifferLock,
     ReaderLock, LockOrder, Wants, Position, Thread, Lock
<1> QED
  BY <1>1, Invariant, PTL

(* So the two threads never wait for each other, nor for themselves, while *)
(* one runs a notification and the other one tears down (_doExit).         *)
THEOREM DeadlockFree == Spec => []NoDeadlock
<1>1. LockOrder => NoDeadlock
  <2> SUFFICES ASSUME LockOrder, NEW t \in Thread, NEW u \in Thread, NEW l \in Lock, NEW m \in Lock,
                      Wants(t, l), lock[l] = u, Wants(u, m), lock[m] = t
               PROVE  FALSE
    BY DEF NoDeadlock
  <2>1. Position(l) < Position(m) /\ Position(m) < Position(l)
    BY DEF LockOrder
  <2>2. Position(l) \in Nat /\ Position(m) \in Nat
    BY DEF Position
  <2> QED
    BY <2>1, <2>2
<1> QED
  BY <1>1, LockOrderCorrect, PTL
=============================================================================
