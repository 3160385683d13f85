---------------------------- MODULE SnifferClock ----------------------------
(***************************************************************************)
(* correct_time of nrf802154_sniffer.py: the 802.15.4 sniffer stamps       *)
(* packets with a 32-bit microsecond timer that wraps about every 72       *)
(* minutes; the host places each stamp on an absolute time line by         *)
(* counting wraps with its own clock.  The two clocks drift apart, packets *)
(* are delayed on the serial line, and the host clock may step back.       *)
(*                                                                         *)
(* age is what the sniffer's timer would show if it never wrapped.         *)
(***************************************************************************)
EXTENDS Integers

CONSTANTS
    TimerMax,   \* TIMER_MAX: the sniffer timer counts modulo this
    MaxDrift,   \* how far the two clocks, and the delays, may be apart
    MaxStep,    \* bound: how far a clock advances in one step
    MaxAge      \* bound: how long the capture lasts

(* The docstring promises correct times below "approximately 36 minutes"   *)
(* of drift: half the timer's period.                                      *)
ASSUME ClockAssumption ==
    /\ TimerMax \in Nat \ {0} /\ TimerMax % 2 = 0
    /\ MaxDrift \in Nat /\ MaxDrift < TimerMax \div 2
    /\ MaxStep \in Nat /\ MaxAge \in Nat

VARIABLES
    local,      \* the host clock, time.time()
    age,        \* the sniffer's unwrapped timer
    seen,       \* first_local_timestamp is not None
    first_local_timestamp,
    first_sniffer_timestamp,
    first_age,  \* age stamped on the first packet
    last_age,   \* age stamped on the latest packet
    reported    \* what correct_time returned for it

firsts == <<seen, first_local_timestamp, first_sniffer_timestamp, first_age>>
vars == <<local, age, firsts, last_age, reported>>

TypeOK ==
    /\ local \in Int
    /\ age \in Nat
    /\ seen \in BOOLEAN
    /\ first_local_timestamp \in Int
    /\ first_sniffer_timestamp \in 0..(TimerMax - 1)
    /\ first_age \in Nat
    /\ last_age \in Nat
    /\ reported \in Int

Init ==
    /\ local \in 0..1
    /\ age \in 0..MaxAge
    /\ seen = FALSE
    /\ first_local_timestamp = 0
    /\ first_sniffer_timestamp = 0
    /\ first_age = 0
    /\ last_age = 0
    /\ reported = 0

-----------------------------------------------------------------------------
(* Mutated form: the stamp is not reduced to 32 bits.                      *)
StampUnmasked(a) == a

(* The stamp the sniffer prints for a packet of age a.                     *)
Stamp(a) == a % TimerMax

(* Mutated form: the sniffer's wrap is never anticipated.                  *)
OverflowCountNoLead(absolute, stamp) ==
    LET count  == absolute \div TimerMax
        modulo == absolute % TimerMax
    IN  IF modulo + (TimerMax \div 2) < stamp THEN count - 1 ELSE count

(* How often the sniffer's timer has wrapped, seen from the host: the      *)
(* host's own estimate, corrected when estimate and stamp are on different *)
(* sides of a wrap.                                                        *)
OverflowCount(absolute, stamp) ==
    LET count  == absolute \div TimerMax
        modulo == absolute % TimerMax
        half   == TimerMax \div 2
    IN  IF modulo + half < stamp THEN count - 1
        ELSE IF modulo - half > stamp THEN count + 1
        ELSE count

CorrectTime(now, stamp) ==
    LET absolute == first_sniffer_timestamp + (now - first_local_timestamp)
    IN  first_local_timestamp - first_sniffer_timestamp + stamp
            + OverflowCount(absolute, stamp) * TimerMax

-----------------------------------------------------------------------------
(* Time passes: each clock moves on its own, the host's possibly back.     *)
Tick ==
    /\ \E s \in 0..MaxStep : age + s <= MaxAge /\ age' = age + s
    /\ \E h \in -1..MaxStep :
        /\ local + h \in -MaxStep..(MaxAge + MaxStep)
        /\ local' = local + h
    /\ UNCHANGED <<firsts, last_age, reported>>

(* The first packet fixes the reference of both time lines.                *)
FirstPacket ==
    /\ ~seen
    /\ seen' = TRUE
    /\ first_local_timestamp' = local
    /\ first_sniffer_timestamp' = Stamp(age)
    /\ first_age' = age
    /\ last_age' = age
    /\ reported' = local
    /\ UNCHANGED <<local, age>>

(* What the host clock and the packet's stamp disagree by: drift of the    *)
(* two clocks since the first packet, plus the packet's delay.             *)
Drift(a) == (local - first_local_timestamp) - (a - first_age)

(* A later packet, stamped at age a and perhaps delayed since; the serial  *)
(* line keeps the order of packets.                                        *)
LaterPacket ==
    /\ seen
    /\ \E a \in last_age..age :
        /\ Drift(a) \in -MaxDrift..MaxDrift
        /\ reported' = CorrectTime(local, Stamp(a))
        /\ last_age' = a
    /\ UNCHANGED <<local, age, firsts>>

Next == Tick \/ FirstPacket \/ LaterPacket

Spec == Init /\ [][Next]_vars

-----------------------------------------------------------------------------
(* Every packet is placed where the sniffer's unwrapped timer says it      *)
(* belongs, whatever the wraps, the drift and the delay                    *)
(* (nrf802154_sniffer.py 108-145).                                         *)
AbsoluteTime ==
    seen => reported = first_local_timestamp + (last_age - first_age)

(* Reported times never go back within a capture, although the host clock  *)
(* they are computed from may (nrf802154_sniffer.py 119-145).              *)
TimeNeverGoesBack == [][seen => reported' >= reported]_vars
=============================================================================
