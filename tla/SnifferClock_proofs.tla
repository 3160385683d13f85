------------------------ MODULE SnifferClock_proofs ------------------------
(***************************************************************************)
(* correct_time is right for every timer width, every capture length and   *)
(* every drift below half the timer's period.                              *)
(***************************************************************************)
EXTENDS SnifferClock, TLAPS

half == TimerMax \div 2

(* Floor division splits an integer into quotient and remainder.           *)
LEMMA DivMod ==
    ASSUME NEW a \in Int, NEW m \in Nat \ {0}
    PROVE  /\ a = m * (a \div m) + (a % m)
           /\ a % m \in 0..(m - 1)
           /\ a \div m \in Int
BY SMTT(20)

(* TIMER_MAX is even, so half a period is a whole number of units.         *)
LEMMA HalfPeriod == half \in Nat \ {0} /\ TimerMax = 2 * half
<1>1. TimerMax \in Int /\ 2 \in Nat \ {0}
  BY ClockAssumption
<1>2. TimerMax = 2 * (TimerMax \div 2) + (TimerMax % 2) /\ TimerMax \div 2 \in Int
  BY <1>1
<1> QED
  BY <1>2, ClockAssumption DEF half

(* The arithmetic of the two corner cases: an estimate less than half a    *)
(* period from the truth is at most one wrap off, and the comparison of    *)
(* its remainder with the stamp tells which way.                           *)
LEMMA OneWrapOff ==
    ASSUME NEW count \in Int, NEW modulo \in 0..(TimerMax - 1),
           NEW wraps \in Int, NEW stamp \in 0..(TimerMax - 1),
           NEW absolute \in Int, absolute = TimerMax * count + modulo,
           NEW truth \in Int, truth = TimerMax * wraps + stamp,
           absolute - truth < half, truth - absolute < half
    PROVE  wraps = IF modulo + half < stamp THEN count - 1
                   ELSE IF modulo - half > stamp THEN count + 1
                   ELSE count
<1> USE HalfPeriod
<1>0. TimerMax \in Nat
  BY ClockAssumption
<1>1. count - wraps <= 1 /\ wraps - count <= 1
  <2>1. ASSUME count - wraps >= 2 PROVE FALSE
    <3>1. TimerMax * (count - wraps) >= 2 * TimerMax
      BY <1>0, <2>1, SMTT(20)
    <3>2. absolute - truth = TimerMax * (count - wraps) + modulo - stamp
      BY <1>0, SMTT(20)
    <3> QED
      BY <1>0, <3>1, <3>2
  <2>2. ASSUME wraps - count >= 2 PROVE FALSE
    <3>1. TimerMax * (wraps - count) >= 2 * TimerMax
      BY <1>0, <2>2, SMTT(20)
    <3>2. truth - absolute = TimerMax * (wraps - count) + stamp - modulo
      BY <1>0, SMTT(20)
    <3> QED
      BY <1>0, <3>1, <3>2
  <2> QED
    BY <2>1, <2>2
<1>2. CASE count = wraps
  BY <1>0, <1>2, SMTT(20)
<1>3. CASE count = wraps + 1
  <2>1. absolute - truth = TimerMax + modulo - stamp
    BY <1>0, <1>3, SMTT(20)
  <2> QED
    BY <1>0, <1>3, <2>1
<1>4. CASE count = wraps - 1
  <2>1. truth - absolute = TimerMax + stamp - modulo
    BY <1>0, <1>4, SMTT(20)
  <2> QED
    BY <1>0, <1>4, <2>1
<1> QED
  BY <1>1, <1>2, <1>3, <1>4

(* OverflowCount returns the number of wraps of the sniffer's timer        *)
(* whenever the host's estimate is less than half a period off.            *)
LEMMA OverflowCountCorrect ==
    ASSUME NEW absolute \in Int, NEW truth \in Int,
           absolute - truth < half, truth - absolute < half
    PROVE  OverflowCount(absolute, truth % TimerMax) = truth \div TimerMax
<1>1. TimerMax \in Nat \ {0}
  BY ClockAssumption
<1>2. /\ absolute = TimerMax * (absolute \div TimerMax) + (absolute % TimerMax)
      /\ absolute % TimerMax \in 0..(TimerMax - 1)
      /\ absolute \div TimerMax \in Int
  BY <1>1, DivMod
<1>3. /\ truth = TimerMax * (truth \div TimerMax) + (truth % TimerMax)
      /\ truth % TimerMax \in 0..(TimerMax - 1)
      /\ truth \div TimerMax \in Int
  BY <1>1, DivMod
<1> QED
  BY <1>2, <1>3, OneWrapOff DEF OverflowCount, half

(* Whole periods do not change a stamp.                                    *)
LEMMA StampShift ==
    ASSUME NEW a \in Int, NEW c \in Int
    PROVE  (a - TimerMax * c) % TimerMax = a % TimerMax
<1> DEFINE b == a - TimerMax * c
<1>1. TimerMax \in Nat \ {0} /\ b \in Int
  BY ClockAssumption
<1>2. /\ a = TimerMax * (a \div TimerMax) + (a % TimerMax)
      /\ a % TimerMax \in 0..(TimerMax - 1) /\ a \div TimerMax \in Int
  BY <1>1, DivMod
<1>3. /\ b = TimerMax * (b \div TimerMax) + (b % TimerMax)
      /\ b % TimerMax \in 0..(TimerMax - 1) /\ b \div TimerMax \in Int
  BY <1>1, DivMod
<1> DEFINE d == (a \div TimerMax) - c - (b \div TimerMax)
<1>4. d \in Int /\ TimerMax * d = (b % TimerMax) - (a % TimerMax)
  BY <1>1, <1>2, <1>3, SMTT(20)
<1> HIDE DEF d, b
<1>5. d < 1 /\ d > -1
  <2>1. ASSUME d >= 1 PROVE FALSE
    <3>1. TimerMax * d >= TimerMax
      BY <1>1, <1>4, <2>1, SMTT(20)
    <3> QED
      BY <1>1, <1>2, <1>3, <1>4, <3>1
  <2>2. ASSUME d <= -1 PROVE FALSE
    <3>1. TimerMax * d <= -TimerMax
      BY <1>1, <1>4, <2>2, SMTT(20)
    <3> QED
      BY <1>1, <1>2, <1>3, <1>4, <3>1
  <2> QED
    BY <1>4, <2>1, <2>2
<1>6. d = 0
  BY <1>4, <1>5
<1>7. b % TimerMax = a % TimerMax
  BY <1>1, <1>2, <1>3, <1>4, <1>6
<1> QED
  BY <1>7 DEF b

-----------------------------------------------------------------------------
(* The reference of both time lines is the first packet.                   *)
Reference == seen => first_sniffer_timestamp = first_age % TimerMax

IInv == TypeOK /\ Reference /\ AbsoluteTime

(* correct_time returns the packet's place on the absolute time line.      *)
LEMMA CorrectTimeCorrect ==
    ASSUME TypeOK, Reference, seen, NEW a \in Nat, Drift(a) \in -MaxDrift..MaxDrift
    PROVE  CorrectTime(local, Stamp(a)) = first_local_timestamp + (a - first_age)
<1> DEFINE absolute == first_sniffer_timestamp + (local - first_local_timestamp)
           truth    == first_sniffer_timestamp + (a - first_age)
           c        == first_age \div TimerMax
<1>1. /\ TimerMax \in Nat \ {0} /\ first_age \in Int /\ a \in Int /\ local \in Int
      /\ first_local_timestamp \in Int /\ first_sniffer_timestamp \in Int
  BY ClockAssumption DEF TypeOK
<1>2. first_age = TimerMax * c + first_sniffer_timestamp /\ c \in Int
  BY <1>1, DivMod DEF Reference
<1>3. absolute \in Int /\ truth \in Int
  BY <1>1
<1>4. absolute - truth < half /\ truth - absolute < half
  <2>1. absolute - truth = Drift(a)
    BY <1>1 DEF Drift
  <2> QED
    BY <1>3, <2>1, HalfPeriod, ClockAssumption DEF half
<1>5. truth = a - TimerMax * c
  <2> HIDE DEF c
  <2> QED
    BY <1>1, <1>2
<1>6. truth % TimerMax = a % TimerMax
  <2> HIDE DEF truth, c
  <2> QED
    BY <1>1, <1>2, <1>5, StampShift
<1>7. /\ truth = TimerMax * (truth \div TimerMax) + (truth % TimerMax)
      /\ truth % TimerMax \in Int /\ truth \div TimerMax \in Int
  <2> HIDE DEF truth
  <2> QED
    BY <1>1, <1>3, DivMod
<1>8. OverflowCount(absolute, Stamp(a)) = truth \div TimerMax
  <2> HIDE DEF truth, absolute
  <2> QED
    BY <1>3, <1>4, <1>6, OverflowCountCorrect DEF Stamp
<1>9. Stamp(a) + OverflowCount(absolute, Stamp(a)) * TimerMax = truth
  <2> HIDE DEF truth, absolute
  <2> QED
    BY <1>1, <1>6, <1>7, <1>8, SMTT(20) DEF Stamp
<1>10. OverflowCount(absolute, Stamp(a)) * TimerMax \in Int /\ Stamp(a) \in Int
  <2> HIDE DEF truth, absolute
  <2> QED
    BY <1>1, <1>6, <1>7, <1>8 DEF Stamp
<1> QED
  BY <1>1, <1>9, <1>10 DEF CorrectTime

(* Before the first packet there is no reference to be wrong about.        *)
LEMMA Initially == Init => IInv
<1> SUFFICES ASSUME Init PROVE IInv
  OBVIOUS
<1>1. seen = FALSE /\ seen \in BOOLEAN
  BY DEF Init
<1>2. TypeOK
  BY <1>1, ClockAssumption DEF Init, TypeOK
<1> QED
  BY <1>1, <1>2 DEF IInv, Reference, AbsoluteTime

(* The clocks, the first packet and every later one keep the reference and *)
(* the reported time right.                                                *)
LEMMA Step == IInv /\ [Next]_vars => IInv'
<1> SUFFICES ASSUME IInv, [Next]_vars PROVE IInv'
  OBVIOUS
<1> USE ClockAssumption DEF IInv
<1>1. CASE Tick
  <2>1. /\ age' \in Nat /\ local' \in Int
        /\ UNCHANGED <<seen, first_local_timestamp, first_sniffer_timestamp, first_age,
                       last_age, reported>>
    BY <1>1 DEF Tick, TypeOK, firsts
  <2> QED
    BY <2>1 DEF TypeOK, Reference, AbsoluteTime
<1>2. CASE FirstPacket
  <2>1. age \in Int /\ TimerMax \in Nat \ {0}
    BY DEF TypeOK
  <2>2. Stamp(age) \in 0..(TimerMax - 1)
    BY <2>1, DivMod DEF Stamp
  <2> QED
    BY <1>2, <2>2 DEF FirstPacket, TypeOK, Reference, AbsoluteTime, Stamp
<1>3. CASE LaterPacket
  <2>1. PICK a \in last_age..age :
          /\ Drift(a) \in -MaxDrift..MaxDrift
          /\ reported' = CorrectTime(local, Stamp(a))
          /\ last_age' = a
    BY <1>3 DEF LaterPacket
  <2>2. a \in Nat /\ seen
    BY <1>3, <2>1 DEF LaterPacket, TypeOK
  <2>3. reported' = first_local_timestamp + (a - first_age)
    BY <2>1, <2>2, CorrectTimeCorrect
  <2>4. UNCHANGED <<local, age, seen, first_local_timestamp, first_sniffer_timestamp, first_age>>
    BY <1>3 DEF LaterPacket, firsts
  <2> QED
    BY <2>1, <2>2, <2>3, <2>4 DEF TypeOK, Reference, AbsoluteTime
<1>4. CASE UNCHANGED vars
  BY <1>4 DEF vars, firsts, TypeOK, Reference, AbsoluteTime
<1> QED
  BY <1>1, <1>2, <1>3, <1>4 DEF Next

(* The inductive invariant of the time correction                          *)
(* (nrf802154_sniffer.py 102-145).                                         *)
THEOREM Inductive == Spec => []IInv
BY Initially, Step, PTL DEF Spec

(* Type correctness of the clock state (nrf802154_sniffer.py 97-145).      *)
THEOREM TypeCorrect == Spec => []TypeOK
<1>1. IInv => TypeOK
  BY DEF IInv
<1> QED
  BY Inductive, <1>1, PTL

(* Whatever the timer's width and the capture's length, below half a       *)
(* period of drift every packet gets its true absolute time.               *)
THEOREM AbsoluteTimeCorrect == Spec => []AbsoluteTime
<1>1. IInv => AbsoluteTime
  BY DEF IInv
<1> QED
  BY Inductive, <1>1, PTL

(* A later age is placed later.                                            *)
LEMMA PlacedLater ==
    ASSUME NEW first \in Int, NEW origin \in Int, NEW a \in Int, NEW b \in Int, b >= a
    PROVE  first + (b - origin) >= first + (a - origin)
OBVIOUS

(* Reported times never go back, even when the host clock does.            *)
THEOREM NeverGoesBack == Spec => TimeNeverGoesBack
<1>1. IInv /\ IInv' /\ [Next]_vars => [seen => reported' >= reported]_vars
  <2> SUFFICES ASSUME IInv, IInv', Next, seen PROVE reported' >= reported
    BY DEF vars
  <2>1. seen' /\ UNCHANGED <<first_local_timestamp, first_age>> /\ last_age' >= last_age
    <3>1. CASE Tick
      BY <3>1 DEF Tick, firsts, IInv, TypeOK
    <3>2. CASE FirstPacket
      BY <3>2 DEF FirstPacket
    <3>3. CASE LaterPacket
      BY <3>3 DEF LaterPacket, firsts, IInv, TypeOK
    <3> QED
      BY <3>1, <3>2, <3>3 DEF Next
  <2> QED
    <3>1. /\ reported = first_local_timestamp + (last_age - first_age)
          /\ reported' = first_local_timestamp' + (last_age' - first_age')
      BY <2>1 DEF IInv, AbsoluteTime
    <3>2. first_local_timestamp' = first_local_timestamp /\ first_age' = first_age
      BY <2>1
    <3>3. /\ first_local_timestamp \in Int /\ first_age \in Int
          /\ last_age \in Int /\ last_age' \in Int
      BY DEF IInv, TypeOK
    <3>4. last_age' >= last_age
      BY <2>1
    <3>5. reported' = first_local_timestamp + (last_age' - first_age)
      BY <3>1, <3>2
    <3>6. reported = first_local_timestamp + (last_age - first_age)
      BY <3>1
    <3> QED
      BY <3>3, <3>4, <3>5, <3>6, PlacedLater
<1> QED
  BY Inductive, <1>1, PTL DEF Spec, TimeNeverGoesBack
=============================================================================
