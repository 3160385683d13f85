--------------------------- MODULE Filelock_proofs ---------------------------
(***************************************************************************)
(* The lock file, for any set of processes and any number of tries: what   *)
(* no process crashed over is cleaned up by somebody.                      *)
(***************************************************************************)
EXTENDS Filelock, TLAPS

(* Process p is going to deal with a file that holds no number: it will    *)
(* look at it, is about to remove it, or has it open and will write it.    *)
Deals(p) ==
    \/ pc[p] \in {"check", "read", "invalid", "truncate"}
    \/ pc[p] = "write" /\ p \in linked

(* While nobody crashes, a file with a pid belongs to a process that will  *)
(* still unlock it, and one without was there before or is dealt with.     *)
Responsible ==
    alive = Procs =>
        /\ file \in Procs => pc[file] \in {"open", "using", "ucheck", "uread", "uremove"}
        /\ file = Invalid => (\A p \in Procs : tries[p] = 0) \/ \E p \in Procs : Deals(p)

(* The inductive invariant.                                                *)
IInv == TypeOK /\ Responsible

-----------------------------------------------------------------------------
(* Every step keeps the types.                                             *)
LEMMA TNext == TypeOK /\ [Next]_vars => TypeOK'
<1> SUFFICES ASSUME TypeOK, [Next]_vars PROVE TypeOK'
  OBVIOUS
<1> USE TriesAssumption, ContentAssumption DEF TypeOK, Pcs
<1>1. ASSUME NEW p \in Procs, Lock(p) PROVE TypeOK'
  BY <1>1 DEF Lock, Go
<1>2. ASSUME NEW p \in Procs, Check(p) PROVE TypeOK'
  BY <1>2 DEF Check, Go
<1>3. ASSUME NEW p \in Procs, Read(p) PROVE TypeOK'
  BY <1>3 DEF Read, Go
<1>4. ASSUME NEW p \in Procs, RemoveInvalid(p) PROVE TypeOK'
  BY <1>4 DEF RemoveInvalid, Go, Remove
<1>5. ASSUME NEW p \in Procs, Judge(p) PROVE TypeOK'
  BY <1>5 DEF Judge, Go
<1>6. ASSUME NEW p \in Procs, RemoveStale(p) PROVE TypeOK'
  BY <1>6 DEF RemoveStale, Go, Remove
<1>7. ASSUME NEW p \in Procs, Create(p) PROVE TypeOK'
  BY <1>7 DEF Create, Go
<1>8. ASSUME NEW p \in Procs, Truncate(p) PROVE TypeOK'
  BY <1>8 DEF Truncate, Go
<1>9. ASSUME NEW p \in Procs, Write(p) PROVE TypeOK'
  BY <1>9 DEF Write, Go
<1>10. ASSUME NEW p \in Procs, Open(p) PROVE TypeOK'
  BY <1>10 DEF Open, Go
<1>11. ASSUME NEW p \in Procs, Close(p) PROVE TypeOK'
  BY <1>11 DEF Close, Go
<1>12. ASSUME NEW p \in Procs, UnlockCheck(p) PROVE TypeOK'
  BY <1>12 DEF UnlockCheck, Go
<1>13. ASSUME NEW p \in Procs, UnlockRead(p) PROVE TypeOK'
  BY <1>13 DEF UnlockRead, Go
<1>14. ASSUME NEW p \in Procs, UnlockRemove(p) PROVE TypeOK'
  BY <1>14 DEF UnlockRemove, Go, Remove
<1>15. ASSUME NEW p \in Procs, Crash(p) PROVE TypeOK'
  BY <1>15 DEF Crash
<1>16. CASE UNCHANGED vars
  BY <1>16 DEF vars
<1> QED
  BY <1>1, <1>2, <1>3, <1>4, <1>5, <1>6, <1>7, <1>8, <1>9, <1>10, <1>11, <1>12, <1>13, <1>14, <1>15, <1>16
     DEF Next, Acquire, Release

(* Every variable keeps its type (Filelock.py).                            *)
THEOREM TypeCorrect == Spec => []TypeOK
<1>1. Init => TypeOK
  BY TriesAssumption, ContentAssumption DEF Init, TypeOK, Pcs
<1> QED
  BY <1>1, TNext, PTL DEF Spec

(* Every step leaves somebody responsible.                                 *)
LEMMA ResponsibleNext == TypeOK /\ Responsible /\ [Next]_vars => Responsible'
<1> SUFFICES ASSUME TypeOK, Responsible, [Next]_vars PROVE Responsible'
  OBVIOUS
<1> USE TriesAssumption, ContentAssumption DEF TypeOK, Pcs, Responsible, Deals, Absent, Invalid
<1>1. ASSUME NEW p \in Procs, Lock(p) PROVE Responsible'
  BY <1>1 DEF Lock, Go
<1>2. ASSUME NEW p \in Procs, Check(p) PROVE Responsible'
  BY <1>2 DEF Check, Go
<1>3. ASSUME NEW p \in Procs, Read(p) PROVE Responsible'
  BY <1>3 DEF Read, Go
<1>4. ASSUME NEW p \in Procs, RemoveInvalid(p) PROVE Responsible'
  BY <1>4 DEF RemoveInvalid, Go, Remove
<1>5. ASSUME NEW p \in Procs, Judge(p) PROVE Responsible'
  BY <1>5 DEF Judge, Go
<1>6. ASSUME NEW p \in Procs, RemoveStale(p) PROVE Responsible'
  BY <1>6 DEF RemoveStale, Go, Remove
<1>7. ASSUME NEW p \in Procs, Create(p) PROVE Responsible'
  BY <1>7 DEF Create, Go
<1>8. ASSUME NEW p \in Procs, Truncate(p) PROVE Responsible'
  BY <1>8 DEF Truncate, Go
<1>9. ASSUME NEW p \in Procs, Write(p) PROVE Responsible'
  BY <1>9 DEF Write, Go
<1>10. ASSUME NEW p \in Procs, Open(p) PROVE Responsible'
  BY <1>10 DEF Open, Go
<1>11. ASSUME NEW p \in Procs, Close(p) PROVE Responsible'
  BY <1>11 DEF Close, Go
<1>12. ASSUME NEW p \in Procs, UnlockCheck(p) PROVE Responsible'
  BY <1>12 DEF UnlockCheck, Go
<1>13. ASSUME NEW p \in Procs, UnlockRead(p) PROVE Responsible'
  BY <1>13 DEF UnlockRead, Go
<1>14. ASSUME NEW p \in Procs, UnlockRemove(p) PROVE Responsible'
  BY <1>14 DEF UnlockRemove, Go, Remove
<1>15. ASSUME NEW p \in Procs, Crash(p) PROVE Responsible'
  BY <1>15 DEF Crash
<1>16. CASE UNCHANGED vars
  BY <1>16 DEF vars
<1> QED
  BY <1>1, <1>2, <1>3, <1>4, <1>5, <1>6, <1>7, <1>8, <1>9, <1>10, <1>11, <1>12, <1>13, <1>14, <1>15, <1>16
     DEF Next, Acquire, Release

(* It holds of every behaviour.                                            *)
LEMMA Invariant == Spec => []IInv
<1>1. Init => Responsible
  BY ContentAssumption DEF Init, Responsible, Absent, Invalid
<1> QED
  BY <1>1, TypeCorrect, ResponsibleNext, PTL DEF Spec, IInv

(* If nobody crashed, no process leaves a lock file behind, whatever the   *)
(* races it lost (Filelock.py 33-64).                                      *)
THEOREM CleanCorrect == Spec => []NothingLeftBehind
<1>1. IInv => NothingLeftBehind
  BY DEF IInv, TypeOK, Responsible, Deals, NothingLeftBehind
<1> QED
  BY <1>1, Invariant, PTL
=============================================================================
