------------------------------ MODULE Filelock ------------------------------
(***************************************************************************)
(* SnifferAPI/Filelock.py used by several programs on one serial port: the *)
(* lock file /var/lock/LCK..<tty> holds the pid of its owner.  lock() and  *)
(* unlock() look at the file and change it in separate system calls, with  *)
(* other programs, and crashes, in between.  After lock() the port itself  *)
(* is opened with exclusive=True, which the kernel enforces.               *)
(*                                                                         *)
(* A process is its pid; a crashed process does not come back and its pid  *)
(* is not reused.                                                          *)
(***************************************************************************)
EXTENDS Integers, FiniteSets

CONSTANTS
    Procs,      \* the processes (their pids)
    MaxTries    \* bound: how often a process opens the port

ASSUME TriesAssumption == MaxTries \in Nat

Absent  == "absent"
Invalid == "invalid"    \* present, but not a number: created and not yet written

ASSUME ContentAssumption == Absent \notin Procs /\ Invalid \notin Procs

VARIABLES
    file,       \* what the directory entry of the lock file holds
    pc,         \* where each process is
    found,      \* what lockpid() returned to it
    linked,     \* the processes whose open lock file is the one in the directory
    port,       \* the process that has the port open, or "free"
    alive,      \* the processes that have not crashed
    tries       \* how often each process has called lock()

vars == <<file, pc, found, linked, port, alive, tries>>

Pcs == {"idle", "check", "read", "judge", "invalid", "stale", "create", "truncate", "write",
        "open", "using", "ucheck", "uread", "uinvalid", "uremove"}

TypeOK ==
    /\ file \in Procs \cup {Absent, Invalid}
    /\ pc \in [Procs -> Pcs]
    /\ found \in [Procs -> Procs \cup {Absent}]
    /\ linked \subseteq Procs
    /\ port \in Procs \cup {"free"}
    /\ alive \subseteq Procs
    /\ tries \in [Procs -> 0..MaxTries]

(* A lock file may be left over from a crash before a reboot or from a     *)
(* process that died while it wrote the file.                              *)
Init ==
    /\ file \in {Absent, Invalid}
    /\ pc = [p \in Procs |-> "idle"]
    /\ found = [p \in Procs |-> Absent]
    /\ linked = {}
    /\ port = "free"
    /\ alive = Procs
    /\ tries = [p \in Procs |-> 0]

Go(p, from, to) ==
    /\ p \in alive /\ pc[p] = from
    /\ pc' = [pc EXCEPT ![p] = to]

(* os.remove: the entry disappears; open files live on without a name.     *)
Remove == file' = Absent /\ linked' = {}

-----------------------------------------------------------------------------
(* lock(port).                                                             *)

Lock(p) ==
    /\ tries[p] < MaxTries
    /\ Go(p, "idle", "check")
    /\ tries' = [tries EXCEPT ![p] = @ + 1]
    /\ UNCHANGED <<file, found, linked, port, alive>>

(* os.path.isfile.                                                         *)
Check(p) ==
    /\ Go(p, "check", IF file = Absent THEN "create" ELSE "read")
    /\ UNCHANGED <<file, found, linked, port, alive, tries>>

(* A file that vanished since raises FileNotFoundError out of lock(); the  *)
(* half-built Uart is then deleted, and its __del__ unlocks.               *)
Read(p) ==
    /\ Go(p, "read", CASE file = Absent  -> "ucheck"
                       [] file = Invalid -> "invalid"
                       [] OTHER          -> "judge")
    /\ found' = [found EXCEPT ![p] = IF file \in Procs THEN file ELSE Absent]
    /\ UNCHANGED <<file, linked, port, alive, tries>>

(* "Lockfile is invalid. Overriding it.."                                  *)
RemoveInvalid(p) ==
    /\ Go(p, "invalid", IF file = Absent THEN "ucheck" ELSE "create")
    /\ Remove
    /\ UNCHANGED <<found, port, alive, tries>>

(* Mutated form: the owner of the lock is not looked for.                  *)
JudgeAlwaysLocked(p) ==
    /\ Go(p, "judge", IF found[p] = p THEN "open" ELSE "ucheck")
    /\ found' = [found EXCEPT ![p] = Absent]
    /\ UNCHANGED <<file, linked, port, alive, tries>>

(* The own lock, the lock of a running process (LockedException), or a     *)
(* stale one.                                                              *)
Judge(p) ==
    /\ Go(p, "judge", CASE found[p] = p       -> "open"
                        [] found[p] \in alive \ {p} -> "ucheck"
                        [] OTHER              -> "stale")
    /\ found' = [found EXCEPT ![p] = Absent]
    /\ UNCHANGED <<file, linked, port, alive, tries>>

(* "Lockfile is stale. Overriding it.."                                    *)
RemoveStale(p) ==
    /\ Go(p, "stale", IF file = Absent THEN "ucheck" ELSE "create")
    /\ Remove
    /\ UNCHANGED <<found, port, alive, tries>>

(* open(lockfile, 'w'), twice: creates the file, or empties the one there. *)
Create(p) ==
    /\ Go(p, "create", "truncate")
    /\ file' = Invalid
    /\ UNCHANGED <<found, linked, port, alive, tries>>

Truncate(p) ==
    /\ Go(p, "truncate", "write")
    /\ file' = Invalid
    /\ linked' = linked \cup {p}
    /\ UNCHANGED <<found, port, alive, tries>>

(* Mutated form: the pid is never written.                                 *)
WriteNothing(p) ==
    /\ Go(p, "write", "open")
    /\ file' = IF p \in linked THEN "" ELSE file
    /\ linked' = linked \ {p}
    /\ UNCHANGED <<found, port, alive, tries>>

(* The pid reaches the file when it is closed - if it still has a name.    *)
Write(p) ==
    /\ Go(p, "write", "open")
    /\ file' = IF p \in linked THEN p ELSE file
    /\ linked' = linked \ {p}
    /\ UNCHANGED <<found, port, alive, tries>>

-----------------------------------------------------------------------------
(* The port, opened exclusively, and unlock(port).                         *)

Open(p) ==
    /\ Go(p, "open", IF port = "free" THEN "using" ELSE "ucheck")
    /\ port' = IF port = "free" THEN p ELSE port
    /\ UNCHANGED <<file, found, linked, alive, tries>>

Close(p) ==
    /\ Go(p, "using", "ucheck")
    /\ port' = "free"
    /\ UNCHANGED <<file, found, linked, alive, tries>>

UnlockCheck(p) ==
    /\ Go(p, "ucheck", IF file = Absent THEN "idle" ELSE "uread")
    /\ UNCHANGED <<file, found, linked, port, alive, tries>>

(* Mutated form: the lock file is never removed.                           *)
UnlockReadForgets(p) ==
    /\ Go(p, "uread", "idle")
    /\ UNCHANGED <<file, found, linked, port, alive, tries>>

(* lockpid() removes an invalid file here as well.                         *)
UnlockRead(p) ==
    /\ Go(p, "uread", CASE file = p       -> "uremove"
                        [] file = Invalid -> "uinvalid"
                        [] OTHER          -> "idle")
    /\ UNCHANGED <<file, found, linked, port, alive, tries>>

(* Removing a file that has vanished raises; nothing is left to do either  *)
(* way.                                                                    *)
UnlockRemove(p) ==
    /\ Go(p, "uremove", "idle") \/ Go(p, "uinvalid", "idle")
    /\ Remove
    /\ UNCHANGED <<found, port, alive, tries>>

(* A crash: the kernel closes the port, the lock file stays.               *)
Crash(p) ==
    /\ p \in alive
    /\ alive' = alive \ {p}
    /\ linked' = linked \ {p}
    /\ port' = IF port = p THEN "free" ELSE port
    /\ UNCHANGED <<file, pc, found, tries>>

Acquire(p) ==
    \/ Check(p) \/ Read(p) \/ RemoveInvalid(p) \/ Judge(p) \/ RemoveStale(p)
    \/ Create(p) \/ Truncate(p) \/ Write(p) \/ Open(p)

Release(p) == UnlockCheck(p) \/ UnlockRead(p) \/ UnlockRemove(p)

Next ==
    \E p \in Procs : Lock(p) \/ Acquire(p) \/ Close(p) \/ Release(p) \/ Crash(p)

Spec == Init /\ [][Next]_vars

(* A process that has begun to lock or unlock goes on; it may keep the     *)
(* port as long as it likes.                                               *)
FairSpec ==
    Spec /\ \A p \in Procs : WF_vars(Acquire(p)) /\ WF_vars(Release(p))

-----------------------------------------------------------------------------
(* Properties.                                                             *)

InLock(p) == p \in alive /\ pc[p] \in {"open", "using"}

(* Does not hold (README, "Also seen").  "Device {port} is locked" (46):   *)
(* lock() admits one process at a time.                                    *)
LockExcludes == \A p, q \in Procs : InLock(p) /\ InLock(q) => p = q

(* If nobody crashed, no process leaves a lock file behind, whatever the   *)
(* races it lost (33-64).                                                  *)
NothingLeftBehind ==
    /\ alive = Procs
    /\ \A p \in Procs : pc[p] = "idle"
    /\ \E p \in Procs : tries[p] > 0
    => file = Absent

(* A lock file left by crashed processes never keeps the last one out:     *)
(* once the others are gone, lock() leads to an open port (22-29, 45-49).  *)
StaleLockRecovered ==
    \A p \in Procs :
        (alive = {p} /\ pc[p] = "check") ~> (pc[p] = "using" \/ p \notin alive)
=============================================================================
