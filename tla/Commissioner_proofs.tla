------------------------ MODULE Commissioner_proofs ------------------------
(***************************************************************************)
(* What holds of the registration of cubelets for every finite set of      *)
(* cubelets, every backlog and every number of descriptors and crashes:    *)
(* types, one row per cubelet, and numbers that are those of the rows.     *)
(* At the end, the cubelet's other program, its Wi-Fi sniffer: types, and  *)
(* what keeps the display from holding up the first capture after boot.    *)
(***************************************************************************)
EXTENDS Commissioner, FiniteSetTheorems, SequenceTheorems, TLAPS

(* No address has two rows.                                                *)
Distinct == \A i, j \in DOMAIN db : db[i].mac = db[j].mac => i = j

(* Between accept and send the server has a client.                        *)
Served == pc \in {"select", "max", "insert", "send"} => peer \in Connection

(* An open database leaves a descriptor to leak.                           *)
Descriptors == pc \in {"max", "insert"} => fds < MaxFds

(* What the select found out still holds at the insert: only the server    *)
(* writes the table.                                                       *)
Unknown == pc \in {"max", "insert"} => RowsOf(peer.mac) = {}

(* The number chosen by select max is that of the row to be inserted.      *)
NextNumber == pc = "insert" => id = Len(db) + 1

(* The answer to be sent is the client's row, or a failure.                *)
Answer == pc = "send" /\ id > 0 => id \in RowsOf(peer.mac)

(* The hostname of a row is its number.                                    *)
HostnameIsRow == \A i \in DOMAIN db : db[i].host = i

IInv ==
    /\ TypeOK
    /\ Distinct
    /\ Served
    /\ Descriptors
    /\ Unknown
    /\ NextNumber
    /\ Answer
    /\ NumberIsRow
    /\ HostnameIsRow

USE CommissionerAssumption

-----------------------------------------------------------------------------
(* What a row consists of.                                                 *)
LEMMA RowType ==
    ASSUME TypeOK
    PROVE  /\ Len(db) \in Nat /\ DOMAIN db = 1..Len(db)
           /\ \A i \in DOMAIN db : db[i].mac \in Cubelets /\ db[i].host \in Numbers
<1>1. db \in Seq([mac : Cubelets, host : Numbers])
  BY DEF TypeOK
<1>2. \A i \in 1..Len(db) : db[i] \in [mac : Cubelets, host : Numbers]
  BY <1>1, ElementOfSeq
<1>3. Len(db) \in Nat /\ DOMAIN db = 1..Len(db)
  BY <1>1
<1> QED BY <1>2, <1>3

(* A set of cubelets that holds the address of every row has as many       *)
(* members as there are rows, or more.                                     *)
LEMMA RowsFit ==
    ASSUME TypeOK, Distinct, NEW S \in SUBSET Cubelets, \A i \in DOMAIN db : db[i].mac \in S
    PROVE  Len(db) <= Cardinality(S)
<1> DEFINE mac == [i \in 1..Len(db) |-> db[i].mac]
<1>1. Len(db) \in Nat /\ DOMAIN db = 1..Len(db)
  BY RowType
<1>2. IsFiniteSet(S) /\ Cardinality(S) \in Nat
  BY FS_Subset, FS_CardinalityType
<1>3. IsFiniteSet(1..Len(db)) /\ Cardinality(1..Len(db)) = Len(db)
  BY <1>1, FS_Interval, SMTT(40)
<1>4. mac \in [1..Len(db) -> S]
  BY <1>1
<1>5. ASSUME Cardinality(S) < Len(db) PROVE FALSE
  <2> HIDE DEF mac
  <2>1. \E i, j \in 1..Len(db) : i # j /\ mac[i] = mac[j]
    BY <1>2, <1>3, <1>4, <1>5, FS_PigeonHole
  <2>2. PICK i, j \in 1..Len(db) : i # j /\ mac[i] = mac[j]
    BY <2>1
  <2> QED BY <2>2, <1>1 DEF Distinct, mac
<1> QED BY <1>1, <1>2, <1>5

(* There are never more rows than cubelets.                                *)
LEMMA RowCount ==
    ASSUME TypeOK, Distinct
    PROVE  Len(db) \in 0..Cardinality(Cubelets)
<1>1. \A i \in DOMAIN db : db[i].mac \in Cubelets
  BY RowType
<1>2. Len(db) <= Cardinality(Cubelets)
  BY <1>1, RowsFit
<1>3. Len(db) \in Nat /\ Cardinality(Cubelets) \in Nat
  BY FS_CardinalityType DEF TypeOK
<1> QED BY <1>2, <1>3

(* As long as a cubelet has no row, there is a number left for it.         *)
LEMMA RoomForNew ==
    ASSUME TypeOK, Distinct, NEW c \in Cubelets, RowsOf(c) = {}
    PROVE  Len(db) + 1 \in 1..Cardinality(Cubelets)
<1>1. \A i \in DOMAIN db : db[i].mac \in Cubelets \ {c}
  BY RowType DEF RowsOf
<1>2. Len(db) <= Cardinality(Cubelets \ {c})
  BY <1>1, RowsFit
<1>3. Cardinality(Cubelets \ {c}) = Cardinality(Cubelets) - 1
  BY FS_RemoveElement
<1>4. Len(db) \in Nat /\ Cardinality(Cubelets) \in Nat
  BY FS_CardinalityType DEF TypeOK
<1> QED BY <1>2, <1>3, <1>4

(* A number of a row is a number.                                          *)
LEMMA RowNumbers ==
    ASSUME TypeOK, Distinct
    PROVE  \A c : RowsOf(c) \subseteq Numbers
<1>1. DOMAIN db = 1..Len(db) /\ Len(db) \in 0..Cardinality(Cubelets)
  BY RowType, RowCount
<1>2. Cardinality(Cubelets) \in Nat
  BY FS_CardinalityType
<1> QED BY <1>1, <1>2 DEF RowsOf, Numbers

-----------------------------------------------------------------------------
(* A connection stays one when its client hangs up.                        *)
LEMMA HangupType ==
    ASSUME NEW c \in Cubelets
    PROVE  /\ \A conn \in Connection : Hangup(conn, c) \in Connection
           /\ \A conn \in Connection : Hangup(conn, c).mac = conn.mac
           /\ Hangup(NoPeer, c) = NoPeer
BY DEF Connection, NoPeer, Hangup

(* The types are kept by every step.                                       *)
LEMMA TypeStep == IInv /\ [Next]_vars => TypeOK'
<1> SUFFICES ASSUME IInv, [Next]_vars PROVE TypeOK'
  OBVIOUS
<1> USE DEF database, server, vars
<1> TypeOK
  BY DEF IInv
<1>c. Cardinality(Cubelets) \in Nat
  BY FS_CardinalityType
<1>1. ASSUME NEW c \in Cubelets, Connect(c) PROVE TypeOK'
  <2>1. [mac |-> c, live |-> TRUE] \in Connection
    BY DEF Connection
  <2>2. queue' \in Seq(Connection) /\ Len(queue') <= Backlog
    BY <1>1, <2>1 DEF Connect, TypeOK
  <2> QED BY <1>1, <2>2 DEF Connect, TypeOK
<1>2. ASSUME NEW c \in Cubelets, GiveUp(c) PROVE TypeOK'
  <2>1. queue' \in Seq(Connection) /\ Len(queue') <= Backlog
    <3>1. queue \in Seq(Connection) /\ Len(queue) <= Backlog
      BY DEF TypeOK
    <3>2. Len(queue) \in Nat /\ DOMAIN queue = 1..Len(queue)
      BY <3>1
    <3>3. queue' = [i \in 1..Len(queue) |-> Hangup(queue[i], c)]
      BY <1>2, <3>2 DEF GiveUp
    <3>4. queue' \in [1..Len(queue) -> Connection]
      BY <3>1, <3>2, <3>3, HangupType
    <3>5. queue' \in Seq(Connection)
      BY <3>2, <3>4, SeqDef
    <3> QED BY <3>1, <3>2, <3>4, <3>5
  <2>2. peer' \in Connection \cup {NoPeer}
    BY <1>2, HangupType DEF GiveUp, TypeOK
  <2>3. number' \in [Cubelets -> Numbers]
    BY <1>2, <1>c DEF GiveUp, TypeOK, Numbers
  <2> QED BY <1>2, <2>1, <2>2, <2>3 DEF GiveUp, TypeOK
<1>3. CASE Accept
  <2>1. peer' \in Connection /\ queue' \in Seq(Connection) /\ Len(queue') <= Backlog
    BY <1>3 DEF Accept, TypeOK
  <2>2. fds' \in 0..MaxFds
    BY <1>3 DEF Accept, TypeOK
  <2> QED BY <1>3, <2>1, <2>2 DEF Accept, TypeOK
<1>4. CASE SelectFound
  <2>1. id' \in Numbers
    BY <1>4, RowNumbers DEF SelectFound, IInv
  <2> QED BY <1>4, <2>1 DEF SelectFound, TypeOK
<1>5. CASE SelectNew
  BY <1>5 DEF SelectNew, TypeOK
<1>6. CASE SelectFails
  BY <1>6, <1>c DEF SelectFails, TypeOK, Numbers
<1>7. CASE SelectMax
  <2>1. peer.mac \in Cubelets /\ RowsOf(peer.mac) = {}
    BY <1>7 DEF SelectMax, IInv, Served, Unknown, Connection
  <2>2. id' \in Numbers
    BY <1>7, <2>1, <1>c, RoomForNew DEF SelectMax, IInv, Numbers
  <2> QED BY <1>7, <2>2 DEF SelectMax, TypeOK
<1>8. CASE InsertOk
  <2>1. [mac |-> peer.mac, host |-> id] \in [mac : Cubelets, host : Numbers]
    BY <1>8 DEF InsertOk, TypeOK, IInv, Served, Connection
  <2>2. db' \in Seq([mac : Cubelets, host : Numbers])
    BY <1>8, <2>1 DEF InsertOk, TypeOK
  <2>3. fds' \in 0..MaxFds
    BY <1>8 DEF InsertOk, IInv, TypeOK, Descriptors
  <2> QED BY <1>8, <2>2, <2>3 DEF InsertOk, TypeOK
<1>9. CASE InsertBusy
  <2>1. fds' \in 0..MaxFds
    BY <1>9 DEF InsertBusy, IInv, TypeOK, Descriptors
  <2>2. id' \in Numbers
    BY <1>9, <1>c DEF InsertBusy, Numbers
  <2> QED BY <1>9, <2>1, <2>2 DEF InsertBusy, TypeOK
<1>10. CASE Send
  <2>1. number' \in [Cubelets -> Numbers]
    BY <1>10 DEF Send, TypeOK
  <2>2. waiting' \subseteq Cubelets
    BY <1>10 DEF Send, TypeOK
  <2>3. id' \in Numbers
    BY <1>10, <1>c DEF Send, Numbers
  <2> QED BY <1>10, <2>1, <2>2, <2>3 DEF Send, TypeOK
<1>11. ASSUME Die, crashes' \in 0..MaxCrashes PROVE TypeOK'
  <2>1. number' \in [Cubelets -> Numbers]
    BY <1>11, <1>c DEF Die, TypeOK, Numbers
  <2>2. id' \in Numbers
    BY <1>11, <1>c DEF Die, Numbers
  <2>3. queue' \in Seq(Connection) /\ Len(queue') <= Backlog
    <3>1. queue' = <<>> /\ Len(<<>>) = 0
      BY <1>11 DEF Die
    <3>2. <<>> \in Seq(Connection)
      OBVIOUS
    <3> QED BY <3>1, <3>2
  <2>4. db' \in Seq([mac : Cubelets, host : Numbers]) /\ reading' \in BOOLEAN
    BY <1>11 DEF Die, TypeOK
  <2>5. /\ leaked' \in BOOLEAN /\ fds' \in 0..MaxFds /\ waiting' \subseteq Cubelets
        /\ peer' \in Connection \cup {NoPeer}
        /\ pc' \in {"accept", "select", "max", "insert", "send", "down"}
    <3>1. /\ pc' = "down" /\ leaked' = FALSE /\ fds' = 0
          /\ peer' = NoPeer /\ waiting' = {}
      BY <1>11 DEF Die
    <3>2. 0 \in 0..MaxFds
      OBVIOUS
    <3> QED BY <3>1, <3>2
  <2> QED BY <1>11, <2>1, <2>2, <2>3, <2>4, <2>5 DEF TypeOK
<1>12. CASE AcceptFails
  BY <1>12, <1>11 DEF AcceptFails, TypeOK
<1>13. CASE Crash
  BY <1>13, <1>11 DEF Crash, TypeOK
<1>14. CASE Restart
  BY <1>14 DEF Restart, TypeOK
<1>15. CASE OtherReads
  BY <1>15 DEF OtherReads, TypeOK
<1>16. CASE UNCHANGED vars
  BY <1>16 DEF TypeOK
<1> QED
  BY <1>1, <1>2, <1>3, <1>4, <1>5, <1>6, <1>7, <1>8, <1>9, <1>10, <1>12, <1>13, <1>14,
     <1>15, <1>16 DEF Next, Server

-----------------------------------------------------------------------------
(* What an insert does to the table: one row more, the others as before.   *)
LEMMA RowAppended ==
    ASSUME IInv, InsertOk
    PROVE  /\ Len(db) \in Nat /\ DOMAIN db = 1..Len(db)
           /\ DOMAIN db' = 1..(Len(db) + 1) /\ Len(db') = Len(db) + 1
           /\ \A i \in 1..Len(db) : db'[i] = db[i]
           /\ db'[Len(db) + 1].mac = peer.mac
           /\ db'[Len(db) + 1].host = id
<1> DEFINE row == [mac |-> peer.mac, host |-> id]
<1>1. db \in Seq([mac : Cubelets, host : Numbers])
  BY DEF IInv, TypeOK
<1>2. db' = Append(db, row)
  BY DEF InsertOk
<1>3. row.mac = peer.mac /\ row.host = id
  OBVIOUS
<1>4. row \in [mac : Cubelets, host : Numbers]
  BY DEF InsertOk, IInv, TypeOK, Served, Connection
<1> HIDE DEF row
<1>5. /\ Len(db') = Len(db) + 1
      /\ \A i \in 1..Len(db) : db'[i] = db[i]
      /\ db'[Len(db) + 1] = row
  BY <1>1, <1>2, <1>4, AppendProperties
<1>6. Len(db) \in Nat /\ DOMAIN db = 1..Len(db)
  BY <1>1
<1>7. DOMAIN db' = 1..(Len(db) + 1)
  BY <1>1, <1>2, <1>4
<1> QED BY <1>3, <1>5, <1>6, <1>7

(* Only an insert changes the table.                                       *)
LEMMA TableKept ==
    ASSUME [Next]_vars, ~InsertOk
    PROVE  UNCHANGED db
BY DEF Next, Server, vars, database, server, Connect, GiveUp, Accept, AcceptFails, SelectFound,
       SelectNew, SelectFails, SelectMax, InsertBusy, Send, Restart, Crash, Die, OtherReads

(* An insert adds an address that was not there, under the number of its   *)
(* row.                                                                    *)
LEMMA TableStep == IInv /\ [Next]_vars => Distinct' /\ HostnameIsRow'
<1> SUFFICES ASSUME IInv, [Next]_vars PROVE Distinct' /\ HostnameIsRow'
  OBVIOUS
<1>1. CASE InsertOk
  <2>1. pc = "insert" /\ RowsOf(peer.mac) = {} /\ id = Len(db) + 1
    BY <1>1 DEF InsertOk, IInv, Unknown, NextNumber
  <2>2. \A i \in 1..Len(db) : db[i].mac # peer.mac
    BY <1>1, <2>1, RowAppended DEF RowsOf
  <2>3. Distinct'
    BY <1>1, <2>2, RowAppended DEF IInv, Distinct
  <2>4. HostnameIsRow'
    BY <1>1, <2>1, RowAppended DEF IInv, HostnameIsRow
  <2> QED BY <2>3, <2>4
<1>2. CASE ~InsertOk
  BY <1>2, TableKept DEF IInv, Distinct, HostnameIsRow
<1> QED BY <1>1, <1>2

(* No row leaves the table.                                                *)
LEMMA RowsKept ==
    ASSUME IInv, [Next]_vars
    PROVE  \A c : RowsOf(c) \subseteq RowsOf(c)'
<1>1. CASE InsertOk
  BY <1>1, RowAppended DEF RowsOf
<1>2. CASE ~InsertOk
  BY <1>2, TableKept DEF RowsOf
<1> QED BY <1>1, <1>2

(* A cubelet is told the number of its row or a failure.                   *)
LEMMA NumberStep == IInv /\ [Next]_vars => NumberIsRow'
<1> SUFFICES ASSUME IInv, [Next]_vars, NEW c \in Cubelets, number'[c] > 0
             PROVE  number'[c] \in RowsOf(c)'
  BY DEF NumberIsRow
<1> USE DEF database, server, vars
<1>t. number \in [Cubelets -> Numbers] /\ Cardinality(Cubelets) \in Nat
  BY FS_CardinalityType DEF IInv, TypeOK
<1>1. CASE number'[c] = number[c]
  BY <1>1, RowsKept DEF IInv, NumberIsRow
<1>2. CASE Send /\ peer.live /\ peer.mac = c
  <2>1. number'[c] = id /\ id > 0 /\ pc = "send"
    BY <1>2, <1>t DEF Send
  <2>2. id \in RowsOf(c)
    BY <1>2, <2>1 DEF IInv, Answer
  <2> QED BY <2>1, <2>2, RowsKept
<1>3. CASE Send /\ ~(peer.live /\ peer.mac = c)
  BY <1>1, <1>3, <1>t DEF Send
<1>4. ASSUME NEW d \in Cubelets, GiveUp(d) PROVE number'[c] = number[c] \/ number'[c] = 0
  BY <1>4, <1>t DEF GiveUp
<1>5. CASE Die
  BY <1>1, <1>5, <1>t DEF Die
<1>6. ASSUME ~Send, ~Die, \A d \in Cubelets : ~GiveUp(d) PROVE number' = number
  BY <1>6 DEF Next, Server, Connect, Accept, AcceptFails, SelectFound, SelectNew, SelectFails,
              SelectMax, InsertOk, InsertBusy, Restart, Crash, OtherReads
<1> QED BY <1>1, <1>2, <1>3, <1>4, <1>5, <1>6

-----------------------------------------------------------------------------
(* A client that hangs up keeps its address.                               *)
LEMMA PeerKept ==
    ASSUME IInv, NEW c \in Cubelets, GiveUp(c)
    PROVE  /\ Served'
           /\ pc \in {"select", "max", "insert", "send"} => RowsOf(peer.mac)' = RowsOf(peer.mac)
<1>1. /\ peer' = Hangup(peer, c) /\ pc' = pc /\ db' = db
  BY DEF GiveUp, database
<1>2. ASSUME pc \in {"select", "max", "insert", "send"}
      PROVE  peer' \in Connection /\ peer'.mac = peer.mac
  BY <1>1, <1>2, HangupType DEF IInv, Served
<1> QED BY <1>1, <1>2 DEF Served, RowsOf

(* The server keeps what it knows of its client until the answer is sent.  *)
LEMMA ServerStep ==
    IInv /\ [Next]_vars => Served' /\ Descriptors' /\ Unknown' /\ NextNumber' /\ Answer'
<1> SUFFICES ASSUME IInv, [Next]_vars
             PROVE  Served' /\ Descriptors' /\ Unknown' /\ NextNumber' /\ Answer'
  OBVIOUS
<1> USE DEF database, server, vars, Served, Descriptors, Unknown, NextNumber, Answer
<1>i. Served /\ Descriptors /\ Unknown /\ NextNumber /\ Answer
  BY DEF IInv
<1>1. ASSUME NEW c \in Cubelets, Connect(c)
      PROVE  Served' /\ Descriptors' /\ Unknown' /\ NextNumber' /\ Answer'
  BY <1>i, <1>1 DEF Connect, RowsOf
<1>2. ASSUME NEW c \in Cubelets, GiveUp(c)
      PROVE  Served' /\ Descriptors' /\ Unknown' /\ NextNumber' /\ Answer'
  BY <1>i, <1>2, PeerKept DEF GiveUp
<1>3. CASE Accept
  <2>1. peer' \in Connection
    BY <1>3 DEF Accept, IInv, TypeOK
  <2> QED BY <1>3, <2>1 DEF Accept
<1>4. CASE SelectFound
  <2>1. id' \in RowsOf(peer.mac) /\ RowsOf(peer.mac)' = RowsOf(peer.mac)
    BY <1>4 DEF SelectFound, RowsOf
  <2> QED BY <1>i, <1>4, <2>1 DEF SelectFound
<1>5. CASE SelectNew
  <2>1. fds < MaxFds /\ RowsOf(peer.mac)' = {}
    BY <1>5 DEF SelectNew, RowsOf
  <2> QED BY <1>i, <1>5, <2>1 DEF SelectNew
<1>6. CASE SelectFails
  BY <1>i, <1>6 DEF SelectFails
<1>7. CASE SelectMax
  <2>1. RowsOf(peer.mac)' = RowsOf(peer.mac)
    BY <1>7 DEF SelectMax, RowsOf
  <2> QED BY <1>i, <1>7, <2>1 DEF SelectMax
<1>8. CASE InsertOk
  <2>1. id \in RowsOf(peer.mac)'
    BY <1>i, <1>8, RowAppended DEF InsertOk, RowsOf
  <2> QED BY <1>i, <1>8, <2>1 DEF InsertOk
<1>9. CASE InsertBusy
  BY <1>i, <1>9 DEF InsertBusy
<1>10. CASE Send
  BY <1>10 DEF Send
<1>11. CASE Die
  BY <1>11 DEF Die
<1>12. CASE AcceptFails \/ Crash
  BY <1>11, <1>12 DEF AcceptFails, Crash
<1>13. CASE Restart
  BY <1>13 DEF Restart
<1>14. CASE OtherReads
  BY <1>i, <1>14 DEF OtherReads, RowsOf
<1>15. CASE UNCHANGED vars
  BY <1>i, <1>15 DEF RowsOf
<1> QED
  BY <1>1, <1>2, <1>3, <1>4, <1>5, <1>6, <1>7, <1>8, <1>9, <1>10, <1>12, <1>13, <1>14,
     <1>15 DEF Next, Server

-----------------------------------------------------------------------------
(* The initial state: no rows, no client, no numbers.                      *)
LEMMA Initially == Init => IInv
<1> SUFFICES ASSUME Init PROVE IInv
  OBVIOUS
<1>1. Cardinality(Cubelets) \in Nat
  BY FS_CardinalityType
<1>2. TypeOK
  <2>1. db \in Seq([mac : Cubelets, host : Numbers]) /\ queue \in Seq(Connection)
    BY DEF Init
  <2>2. number \in [Cubelets -> Numbers] /\ id \in Numbers
    BY <1>1 DEF Init, Numbers
  <2>3. Len(queue) <= Backlog
    BY DEF Init
  <2>4. 0 \in 0..MaxFds /\ 0 \in 0..MaxCrashes
    OBVIOUS
  <2>5. /\ reading = FALSE /\ leaked = FALSE /\ fds = 0 /\ crashes = 0
        /\ pc = "accept" /\ peer = NoPeer /\ waiting = {}
    BY DEF Init
  <2> QED BY <2>1, <2>2, <2>3, <2>4, <2>5 DEF TypeOK
<1>3. DOMAIN db = {}
  BY DEF Init
<1> QED
  BY <1>2, <1>3 DEF Init, IInv, Distinct, Served, Descriptors, Unknown, NextNumber, Answer,
                    NumberIsRow, HostnameIsRow

(* The invariant holds in every state of the registration.                 *)
THEOREM Inductive == Spec => []IInv
<1>1. IInv /\ [Next]_vars => IInv'
  BY TypeStep, TableStep, ServerStep, NumberStep DEF IInv
<1> QED BY Initially, <1>1, PTL DEF Spec

(* Type correctness for every set of cubelets and every bound; it includes *)
(* that no number ever exceeds the number of cubelets.                     *)
THEOREM TypeCorrect == Spec => []TypeOK
<1>1. IInv => TypeOK
  BY DEF IInv
<1> QED BY Inductive, <1>1, PTL

(* A cubelet that has a number has the number of its row, across crashes,  *)
(* retries and late answers.                                               *)
THEOREM NumberCorrect == Spec => []NumberIsRow
<1>1. IInv => NumberIsRow
  BY DEF IInv
<1> QED BY Inductive, <1>1, PTL

(* No cubelet is ever registered twice.                                    *)
THEOREM OnceCorrect == Spec => []RegisteredOnce
<1>1. IInv => RegisteredOnce
  <2> SUFFICES ASSUME IInv, NEW c \in Cubelets PROVE Cardinality(RowsOf(c)) <= 1
    BY DEF RegisteredOnce
  <2>1. CASE RowsOf(c) = {}
    BY <2>1, FS_EmptySet
  <2>2. CASE \E i : RowsOf(c) = {i}
    BY <2>2, FS_Singleton
  <2>3. \A i, j \in RowsOf(c) : i = j
    BY DEF RowsOf, IInv, Distinct
  <2> QED BY <2>1, <2>2, <2>3
<1> QED BY Inductive, <1>1, PTL

-----------------------------------------------------------------------------
(* The cubelet's other program, its Wi-Fi sniffer, for any number of       *)
(* starts, packets and rates in a socket.                                  *)
CONSTANTS MaxStarts, MaxPackets, Room
VARIABLES sniffer, start, count, connected, display, path, backlog, served, stream, gauge, frames
Wifi == INSTANCE WifiSniffer

(* A sniffer that runs has been started; it forwards every packet it has   *)
(* counted.  A display that serves has accepted a connection.              *)
WifiTypes ==
    /\ Wifi!TypeOK
    /\ sniffer # "down" => start > 0
    /\ frames <= count /\ (sniffer = "forward" => frames < count)
    /\ display = "serving" => served > 0

(* The display is started once: its path stays.  So the first sniffer, if  *)
(* it found it listening, is first in its backlog, and then served.        *)
FirstConnection ==
    /\ display # "down" => path
    /\ start = 0 => backlog = <<>> /\ ~connected /\ display # "serving"
    /\ display = "down" => backlog = <<>> /\ ~connected
    /\ start = 1 /\ ~connected => backlog = <<>>
    /\ start = 1 /\ connected =>
        \/ display = "dead"
        \/ display = "listening" /\ backlog = <<1>>
        \/ display = "serving" /\ served = 1

(* The first sniffer waits for room in its socket only while the display   *)
(* can accept its connection or read what fills the socket.                *)
HeldUpIsHelped ==
    sniffer = "rate" /\ start = 1 /\ connected /\ display # "dead" /\ Len(stream[1]) = Room =>
        \/ display = "listening" /\ backlog = <<1>>
        \/ display = "serving" /\ served = 1 /\ stream[served] # <<>>

(* The bounds are numbers, and a socket has room.                          *)
WifiBounds == MaxStarts \in Nat /\ MaxPackets \in Nat /\ Room \in Nat \ {0}

(* What the sequences' operators return, for the socket and the backlog.   *)
LEMMA SequenceFacts ==
    ASSUME NEW S, NEW q \in Seq(S)
    PROVE  /\ Len(q) \in Nat /\ <<>> \in Seq(S) /\ Len(<<>>) = 0
           /\ \A i \in 1..Len(q) : q[i] \in S
           /\ \A e \in S : Append(q, e) \in Seq(S) /\ Len(Append(q, e)) = Len(q) + 1
           /\ q # <<>> => Head(q) \in S /\ Tail(q) \in Seq(S) /\ Len(q) > 0
OBVIOUS

(* Every step keeps the types of the Wi-Fi sniffer.                        *)
LEMMA WifiTypesNext ==
    ASSUME WifiBounds, WifiTypes, [Wifi!Next]_Wifi!vars
    PROVE  WifiTypes'
<1> USE DEF WifiBounds, WifiTypes, Wifi!TypeOK, Wifi!Rates
<1>1. CASE Wifi!Start
  <2>1. start + 1 \in 1..MaxStarts /\ connected' \in BOOLEAN
    BY <1>1 DEF Wifi!Start
  <2>2. backlog' = backlog \/ backlog' = Append(backlog, start + 1)
    BY <1>1 DEF Wifi!Start
  <2>3. backlog' \in Seq(1..MaxStarts)
    <3> DEFINE N == 1..MaxStarts
    <3>1. backlog \in Seq(N) /\ start + 1 \in N
      BY <2>1
    <3> HIDE DEF N
    <3>2. Append(backlog, start + 1) \in Seq(N)
      BY <3>1
    <3> QED
      BY <2>2, <3>1, <3>2 DEF N
  <2> QED
    BY <1>1, <2>1, <2>3 DEF Wifi!Start
<1>2. CASE Wifi!Capture
  BY <1>2 DEF Wifi!Capture
<1>3. CASE Wifi!Forward
  BY <1>3 DEF Wifi!Forward
<1>4. CASE Wifi!SendRate
  <2>1. Wifi!Rate(count) \in 0..MaxPackets /\ start \in 1..MaxStarts
    BY <1>4 DEF Wifi!SendRate, Wifi!Rate, Wifi!Garbage
  <2>2. /\ stream[start] \in Seq(0..MaxPackets) /\ Len(stream[start]) < Room
        /\ stream' = [stream EXCEPT ![start] = Append(stream[start], Wifi!Rate(count))]
    BY <1>4, <2>1 DEF Wifi!SendRate
  <2>3. /\ Append(stream[start], Wifi!Rate(count)) \in Seq(0..MaxPackets)
        /\ Len(Append(stream[start], Wifi!Rate(count))) <= Room
    BY <2>1, <2>2, SequenceFacts
  <2>4. stream' \in [1..MaxStarts -> Seq(0..MaxPackets)] /\ \A s \in 1..MaxStarts : Len(stream'[s]) <= Room
    BY <2>1, <2>2, <2>3
  <2> QED
    BY <1>4, <2>4 DEF Wifi!SendRate
<1>5. CASE Wifi!SendFails
  BY <1>5 DEF Wifi!SendFails
<1>6. CASE Wifi!SendKills
  BY <1>6 DEF Wifi!SendKills
<1>7. CASE Wifi!Crash
  BY <1>7 DEF Wifi!Crash
<1>8. CASE Wifi!DisplayStart
  BY <1>8 DEF Wifi!DisplayStart
<1>9. CASE Wifi!Accept
  <2>1. Head(backlog) \in 1..MaxStarts /\ Tail(backlog) \in Seq(1..MaxStarts)
    BY <1>9, SequenceFacts DEF Wifi!Accept
  <2> QED
    BY <1>9, <2>1 DEF Wifi!Accept
<1>10. CASE Wifi!Receive
  <2>1. served \in 1..MaxStarts /\ stream[served] \in Seq(0..MaxPackets)
    BY <1>10 DEF Wifi!Receive
  <2>2. stream' = [stream EXCEPT ![served] = <<>>] /\ <<>> \in Seq(0..MaxPackets) /\ Len(<<>>) = 0
    BY <1>10, <2>1, SequenceFacts DEF Wifi!Receive
  <2>3. stream' \in [1..MaxStarts -> Seq(0..MaxPackets)] /\ \A s \in 1..MaxStarts : Len(stream'[s]) <= Room
    BY <2>1, <2>2
  <2>4. Len(stream[served]) = 1 => stream[served][1] \in 0..MaxPackets
    <3> DEFINE N == 0..MaxPackets
    <3>1. stream[served] \in Seq(N)
      BY <2>1
    <3> HIDE DEF N
    <3>2. Len(stream[served]) = 1 => stream[served][1] \in N
      BY <3>1, SequenceFacts
    <3> QED
      BY <3>2 DEF N
  <2> QED
    BY <1>10, <2>3, <2>4 DEF Wifi!Receive
<1>11. CASE Wifi!DisplayDies
  BY <1>11 DEF Wifi!DisplayDies
<1>12. CASE UNCHANGED Wifi!vars
  BY <1>12 DEF Wifi!vars
<1> QED
  BY <1>1, <1>2, <1>3, <1>4, <1>5, <1>6, <1>7, <1>8, <1>9, <1>10, <1>11, <1>12 DEF Wifi!Next, Wifi!Handler

(* They hold at boot.                                                     *)
LEMMA WifiTypesInit == ASSUME WifiBounds, Wifi!Init PROVE WifiTypes
<1> USE DEF WifiBounds, Wifi!Init, Wifi!Rates, Wifi!Garbage
<1>1. <<>> \in Seq(0..MaxPackets) /\ <<>> \in Seq(1..MaxStarts) /\ Len(<<>>) = 0
  OBVIOUS
<1>2. 0 \in 0..MaxPackets /\ 0 \in 0..MaxStarts
  OBVIOUS
<1>3. stream \in [1..MaxStarts -> Seq(0..MaxPackets)] /\ \A s \in 1..MaxStarts : Len(stream[s]) <= Room
  BY <1>1
<1>4. sniffer = "down" /\ display = "down" /\ frames <= count
  OBVIOUS
<1>5. Wifi!TypeOK
  BY <1>1, <1>2, <1>3 DEF Wifi!TypeOK
<1> QED
  BY <1>4, <1>5 DEF WifiTypes

(* Every step keeps the first sniffer's connection first.                  *)
LEMMA FirstConnectionNext ==
    ASSUME WifiBounds, WifiTypes, FirstConnection, [Wifi!Next]_Wifi!vars
    PROVE  FirstConnection'
<1> USE DEF WifiBounds, WifiTypes, Wifi!TypeOK, FirstConnection
<1>1. CASE Wifi!Start
  <2>1. /\ start' = start + 1 /\ UNCHANGED <<display, path, served>>
        /\ connected' = (display \in {"listening", "serving"})
        /\ backlog' = IF connected' THEN Append(backlog, start + 1) ELSE backlog
    BY <1>1 DEF Wifi!Start
  <2>2. start = 0 => backlog' = IF connected' THEN <<1>> ELSE <<>>
    BY <2>1
  <2> QED
    BY <2>1, <2>2
<1>2. CASE Wifi!Accept
  <2>1. /\ display = "listening" /\ display' = "serving" /\ backlog # <<>>
        /\ served' = Head(backlog) /\ backlog' = Tail(backlog)
        /\ UNCHANGED <<sniffer, start, connected, path>>
    BY <1>2 DEF Wifi!Accept
  <2>2. start # 0 /\ (start = 1 => connected)
    BY <2>1
  <2>3. start = 1 => served' = 1
    BY <2>1, <2>2
  <2> QED
    BY <2>1, <2>2, <2>3
<1>3. CASE Wifi!DisplayStart \/ Wifi!DisplayDies
  BY <1>3 DEF Wifi!DisplayStart, Wifi!DisplayDies
<1>4. CASE Wifi!Capture \/ Wifi!Forward \/ Wifi!SendRate \/ Wifi!SendFails \/ Wifi!SendKills \/ Wifi!Crash
  <2>1. UNCHANGED <<start, connected, display, path, backlog, served>>
    BY <1>4 DEF Wifi!Capture, Wifi!Forward, Wifi!SendRate, Wifi!SendFails, Wifi!SendKills, Wifi!Crash
  <2> QED
    BY <2>1
<1>5. CASE Wifi!Receive \/ UNCHANGED Wifi!vars
  <2>1. UNCHANGED <<start, connected, display, path, backlog, served>>
    BY <1>5 DEF Wifi!Receive, Wifi!vars
  <2> QED
    BY <2>1
<1> QED
  BY <1>1, <1>2, <1>3, <1>4, <1>5 DEF Wifi!Next, Wifi!Handler

(* Every variable of the Wi-Fi sniffer and the display keeps its type, and *)
(* no socket holds more rates than it has room for (sniff.c).              *)
THEOREM WifiTypeCorrect == ASSUME WifiBounds PROVE Wifi!Spec => []Wifi!TypeOK
<1>1. Wifi!Init => WifiTypes
  BY WifiTypesInit
<1>2. WifiTypes /\ [Wifi!Next]_Wifi!vars => WifiTypes'
  BY WifiTypesNext
<1>3. WifiTypes => Wifi!TypeOK
  BY DEF WifiTypes
<1> QED
  BY <1>1, <1>2, <1>3, PTL DEF Wifi!Spec

(* The safety behind CaptureGoesOn: whatever crashes and restarts, the     *)
(* first sniffer after boot is never held up by a socket nobody will read  *)
(* (got_packet, packet_rate.py).                                           *)
THEOREM HeldUpCorrect == ASSUME WifiBounds PROVE Wifi!Spec => []HeldUpIsHelped
<1>1. Wifi!Init => WifiTypes /\ FirstConnection
  BY WifiTypesInit DEF Wifi!Init, FirstConnection
<1>2. WifiTypes /\ FirstConnection /\ [Wifi!Next]_Wifi!vars => (WifiTypes /\ FirstConnection)'
  BY WifiTypesNext, FirstConnectionNext
<1>3. WifiTypes /\ FirstConnection => HeldUpIsHelped
  BY DEF WifiBounds, WifiTypes, Wifi!TypeOK, FirstConnection, HeldUpIsHelped
<1> QED
  BY <1>1, <1>2, <1>3, PTL DEF Wifi!Spec
=============================================================================
