---------------------------- MODULE Commissioner ----------------------------
(***************************************************************************)
(* Registration of cubelets: cubelet_setup.sh sends a cubelet's MAC        *)
(* address to the cube and takes the answer as the cubelet's number;       *)
(* cubelet-commissioner.c looks the address up in splicecube.db and        *)
(* inserts it if it is new.  Each SQL statement is a transaction of its    *)
(* own.  The server may crash between any two of them and is restarted by  *)
(* systemd; a cubelet may give up waiting (netcat -w3) and be set up again.*)
(* Other programs (recv.c, the gRPC server, an operator's sqlite3 shell)   *)
(* open the same database file and may be reading it.                      *)
(*                                                                         *)
(* A cubelet is its MAC address.  The rows of table cubelets are a         *)
(* sequence: the AUTOINCREMENT cubelet_id of a row is its position, as no  *)
(* program of the cube deletes a row.                                      *)
(***************************************************************************)
EXTENDS Integers, Sequences, FiniteSets

CONSTANTS
    Cubelets,   \* the cubelets that are set up
    Backlog,    \* bound: connections waiting for accept()
    MaxFds,     \* descriptors the server may leak before accept() fails
    MaxCrashes  \* bound: crashes, other than running out of descriptors

ASSUME CommissionerAssumption ==
    /\ IsFiniteSet(Cubelets)
    /\ Backlog \in Nat \ {0} /\ MaxFds \in Nat \ {0} /\ MaxCrashes \in Nat

VARIABLES
    db,         \* rows of cubelets: MAC address and number in the hostname
    reading,    \* another program has a read transaction open
    leaked,     \* the server holds a read lock it will never release
    fds,        \* descriptors the server has leaked
    pc,         \* where the server is
    peer, id,   \* its client, and the number for it
    queue,      \* connections not yet accepted
    waiting,    \* cubelets whose netcat is running
    number,     \* the answer each cubelet got last: 0 is none
    crashes

database == <<db, reading>>
server   == <<leaked, fds, pc, peer, id>>
vars     == <<database, server, queue, waiting, number, crashes>>

(* A connection outlives the client that gave up: live tells the two apart.*)
Connection == [mac : Cubelets, live : BOOLEAN]
NoPeer == [mac |-> "none", live |-> FALSE]

Numbers == -1..Cardinality(Cubelets)

TypeOK ==
    /\ db \in Seq([mac : Cubelets, host : Numbers])
    /\ reading \in BOOLEAN /\ leaked \in BOOLEAN
    /\ fds \in 0..MaxFds
    /\ pc \in {"accept", "select", "max", "insert", "send", "down"}
    /\ peer \in Connection \cup {NoPeer}
    /\ id \in Numbers
    /\ queue \in Seq(Connection) /\ Len(queue) <= Backlog
    /\ waiting \subseteq Cubelets
    /\ number \in [Cubelets -> Numbers]
    /\ crashes \in 0..MaxCrashes

Init ==
    /\ db = <<>> /\ reading = FALSE
    /\ leaked = FALSE /\ fds = 0
    /\ pc = "accept" /\ peer = NoPeer /\ id = 0
    /\ queue = <<>> /\ waiting = {}
    /\ number = [c \in Cubelets |-> 0]
    /\ crashes = 0

-----------------------------------------------------------------------------
(* The cubelet's side.  Setup may be run again at any time.                *)

Connect(c) ==
    /\ c \notin waiting /\ pc # "down" /\ Len(queue) < Backlog
    /\ waiting' = waiting \cup {c}
    /\ queue' = Append(queue, [mac |-> c, live |-> TRUE])
    /\ UNCHANGED <<database, server, number, crashes>>

Hangup(conn, c) == IF conn.mac = c THEN [conn EXCEPT !.live = FALSE] ELSE conn

(* netcat ends after three silent seconds; the number stays empty.         *)
GiveUp(c) ==
    /\ c \in waiting
    /\ waiting' = waiting \ {c}
    /\ queue' = [i \in DOMAIN queue |-> Hangup(queue[i], c)]
    /\ peer' = Hangup(peer, c)
    /\ number' = [number EXCEPT ![c] = 0]
    /\ UNCHANGED <<database, leaked, fds, pc, id, crashes>>

-----------------------------------------------------------------------------
(* main() and get_cubelet_num().                                           *)

(* Mutated form: the result of accept() is not checked.                    *)
AcceptUnchecked ==
    /\ pc = "accept" /\ queue # <<>>
    /\ peer' = Head(queue)
    /\ queue' = Tail(queue)
    /\ fds' = fds + 1
    /\ pc' = "select"
    /\ UNCHANGED <<database, leaked, id, waiting, number, crashes>>

(* accept() and recv().  No client socket is ever closed.                  *)
Accept ==
    /\ pc = "accept" /\ queue # <<>> /\ fds < MaxFds
    /\ peer' = Head(queue)
    /\ queue' = Tail(queue)
    /\ fds' = fds + 1
    /\ pc' = "select"
    /\ UNCHANGED <<database, leaked, id, waiting, number, crashes>>

RowsOf(mac) == {i \in DOMAIN db : db[i].mac = mac}

(* Mutated form: a known address is not looked for.                        *)
SelectNone ==
    /\ pc = "select" /\ fds < MaxFds
    /\ pc' = "max"
    /\ UNCHANGED <<database, leaked, fds, peer, id, queue, waiting, number, crashes>>

(* The address is known: answer with its row's id.                         *)
SelectFound ==
    /\ pc = "select" /\ fds < MaxFds
    /\ \E i \in RowsOf(peer.mac) :
        /\ \A j \in RowsOf(peer.mac) : i <= j
        /\ id' = i
    /\ pc' = "send"
    /\ UNCHANGED <<database, leaked, fds, peer, queue, waiting, number, crashes>>

SelectNew ==
    /\ pc = "select" /\ fds < MaxFds
    /\ RowsOf(peer.mac) = {}
    /\ pc' = "max"
    /\ UNCHANGED <<database, leaked, fds, peer, id, queue, waiting, number, crashes>>

(* The database cannot be opened without a descriptor.                     *)
SelectFails ==
    /\ pc = "select" /\ fds = MaxFds
    /\ id' = -1
    /\ pc' = "send"
    /\ UNCHANGED <<database, leaked, fds, peer, queue, waiting, number, crashes>>

(* Mutated form: the new number is the highest one.                        *)
SelectMaxNoIncrement ==
    /\ pc = "max"
    /\ id' = Len(db)
    /\ pc' = "insert"
    /\ UNCHANGED <<database, leaked, fds, peer, queue, waiting, number, crashes>>

(* select max(cubelet_id), and one more; an empty table gives NULL, 0.     *)
SelectMax ==
    /\ pc = "max"
    /\ id' = Len(db) + 1
    /\ pc' = "insert"
    /\ UNCHANGED <<database, leaked, fds, peer, queue, waiting, number, crashes>>

(* An insert needs every reader gone, and a descriptor for the database    *)
(* and one for its journal.                                                *)
Insertable == ~reading /\ ~leaked /\ fds + 2 <= MaxFds

(* The first statement is reset but never finalized, so sqlite3_close      *)
(* refuses and the connection, lock-free, is lost.                         *)
InsertOk ==
    /\ pc = "insert" /\ Insertable
    /\ db' = Append(db, [mac |-> peer.mac, host |-> id])
    /\ fds' = fds + 1
    /\ pc' = "send"
    /\ UNCHANGED <<reading, leaked, peer, id, queue, waiting, number, crashes>>

(* SQLITE_BUSY, as another connection holds a read lock, or no journal.    *)
(* The function returns with its own select still open, and that read lock *)
(* stays.                                                                  *)
InsertBusy ==
    /\ pc = "insert" /\ ~Insertable
    /\ id' = -1
    /\ leaked' = TRUE
    /\ fds' = fds + 1
    /\ pc' = "send"
    /\ UNCHANGED <<database, peer, queue, waiting, number, crashes>>

(* The answer reaches the cubelet only if it still waits.                  *)
Send ==
    /\ pc = "send"
    /\ IF peer.live THEN /\ number' = [number EXCEPT ![peer.mac] = id]
                         /\ waiting' = waiting \ {peer.mac}
                    ELSE UNCHANGED <<number, waiting>>
    /\ peer' = NoPeer /\ id' = 0
    /\ pc' = "accept"
    /\ UNCHANGED <<database, leaked, fds, queue, crashes>>

(* The process ends: the kernel closes its descriptors and resets its      *)
(* connections, and every waiting cubelet is left without a number.        *)
Die ==
    /\ pc' = "down"
    /\ leaked' = FALSE /\ fds' = 0 /\ peer' = NoPeer /\ id' = 0
    /\ queue' = <<>> /\ waiting' = {}
    /\ number' = [c \in Cubelets |-> IF c \in waiting THEN 0 ELSE number[c]]
    /\ UNCHANGED database

(* Mutated form: the server survives the failure of accept().              *)
AcceptFailsSilently ==
    /\ pc = "accept" /\ queue # <<>> /\ fds = MaxFds
    /\ UNCHANGED vars

(* accept() fails for want of descriptors: "Server accept failed."         *)
AcceptFails ==
    /\ pc = "accept" /\ queue # <<>> /\ fds = MaxFds
    /\ Die
    /\ UNCHANGED crashes

Crash ==
    /\ pc # "down" /\ crashes < MaxCrashes
    /\ crashes' = crashes + 1
    /\ Die

(* systemd: Restart=on-failure.                                            *)
Restart ==
    /\ pc = "down"
    /\ pc' = "accept"
    /\ UNCHANGED <<database, leaked, fds, peer, id, queue, waiting, number, crashes>>

(* Another program opens or ends a read transaction.                       *)
OtherReads ==
    /\ reading' = ~reading
    /\ UNCHANGED <<db, server, queue, waiting, number, crashes>>

Server ==
    \/ Accept \/ AcceptFails \/ SelectFound \/ SelectNew \/ SelectFails \/ SelectMax
    \/ InsertOk \/ InsertBusy \/ Send \/ Restart

Next ==
    \/ \E c \in Cubelets : Connect(c) \/ GiveUp(c)
    \/ Server \/ Crash \/ OtherReads

Spec == Init /\ [][Next]_vars

(* The server runs and is restarted, and the setup of a cubelet is run     *)
(* until the cube knows it.                                                *)
FairSpec ==
    /\ Spec /\ WF_vars(Server)
    /\ \A c \in Cubelets : SF_vars(RowsOf(c) = {} /\ Connect(c))

-----------------------------------------------------------------------------
(* Properties.                                                             *)

(* A cubelet that got a number has the number of its row, whatever         *)
(* crashes, retries and late answers there were; so no two cubelets have   *)
(* the same one (cubelet-commissioner.c 32-91, 132-153).                   *)
NumberIsRow == \A c \in Cubelets : number[c] > 0 => number[c] \in RowsOf(c)

(* A cubelet is registered once, also when a crash hit the server between  *)
(* the insert and the answer, or the cubelet gave up in between (46-84).   *)
RegisteredOnce == \A c \in Cubelets : Cardinality(RowsOf(c)) <= 1

SetUpAgain == \E c \in Cubelets : RowsOf(c) # {} /\ Connect(c)

(* Once nobody else reads the database and no known cubelet is set up      *)
(* again, every cubelet is registered in the end.  After a failed insert   *)
(* the leaked lock refuses every new cubelet, until the server has run out *)
(* of descriptors and is restarted (22-29, 57-78, 129-134).                *)
EventuallyRegistered ==
    <>[](~reading) /\ <>[][~SetUpAgain]_vars
        => \A c \in Cubelets : <>(RowsOf(c) # {})
=============================================================================
