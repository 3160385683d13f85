-------------------------------- MODULE Slip --------------------------------
(***************************************************************************)
(* SLIP framing between the BLE sniffer and the host: encodeToSLIP,        *)
(* decodeFromSLIP and the length test of SnifferAPI/Packet.py.  The line   *)
(* may lose bytes, and a read may fail in the middle of a frame: after its *)
(* timeout, or at once when the read queue was signalled while empty (see  *)
(* UartQueue).  A failed read drops what was decoded so far.               *)
(*                                                                         *)
(* The sender puts the bytes of a frame on the line one after the other.   *)
(* The i-th frame sent has the number i; a byte on the line carries the    *)
(* number of its frame and its place there: 0 is the START, the place      *)
(* after the last byte the END, and both bytes of an escape have the same. *)
(***************************************************************************)
EXTENDS Integers, SequencesExt

CONSTANTS
    Frames,         \* the frames sent, sequences of bytes
    HEADER_LENGTH,  \* bytes of a frame that its length field does not count
    MaxFrames,      \* bound: frames sent
    MaxLost,        \* bound: bytes lost on the line
    MaxFails        \* bound: failed reads

SLIP_START == 171
SLIP_END   == 188
SLIP_ESC   == 205
SLIP_ESC_START == SLIP_START + 1
SLIP_ESC_END   == SLIP_END + 1
SLIP_ESC_ESC   == SLIP_ESC + 1

Byte == 0..255

(* Packet.__init__ and validatePacketList.  The third byte is the protocol *)
(* version; up to version 1 the length of what follows the header is one   *)
(* byte, then it is two, least significant first.  A packet that is too    *)
(* short to have a header is invalid as well.                              *)
PayloadLength(data) == IF data[3] = 1 THEN data[2] ELSE data[1] + 256 * data[2]

(* Mutated form: a packet may be longer than it says.                      *)
ValidAnyLonger(data) ==
    /\ Len(data) >= HEADER_LENGTH
    /\ data[3] <= 3
    /\ PayloadLength(data) + HEADER_LENGTH <= Len(data)

Valid(data) ==
    /\ Len(data) >= HEADER_LENGTH
    /\ data[3] <= 3
    /\ PayloadLength(data) + HEADER_LENGTH = Len(data)

ASSUME FramesAssumption ==
    /\ HEADER_LENGTH \in Nat /\ HEADER_LENGTH >= 3
    /\ Frames \subseteq Seq(Byte)
    /\ \A f \in Frames : Valid(f)
    /\ MaxFrames \in Nat /\ MaxLost \in Nat /\ MaxFails \in Nat

VARIABLES
    frames,     \* the frames sent, in order
    sending,    \* place of the next byte of the last frame, 0 when it is sent
    line,       \* bytes on their way to the decoder
    state,      \* decoder: looking for a START, in a frame, or after an ESC
    dataBuffer, \* bytes decoded so far
    opened,     \* the frame whose START was taken last
    ended,      \* the last frame whose END has left the line
    decoded,    \* what decodeFromSLIP returned: bytes, first and last frame
    hurt,       \* the frames that lost a byte or during which a read failed
    lost, fails \* counters for the bounds

decoder == <<state, dataBuffer, opened, decoded>>
sender == <<frames, sending>>
vars == <<sender, line, decoder, ended, hurt, lost, fails>>

TypeOK ==
    /\ frames \in Seq(Frames) /\ Len(frames) <= MaxFrames
    /\ sending \in Nat
    /\ line \in Seq([byte : Byte, frame : 1..Len(frames), at : Nat])
    /\ state \in {"hunt", "body", "esc"}
    /\ dataBuffer \in Seq(Byte)
    /\ opened \in 0..Len(frames) /\ ended \in 0..Len(frames)
    /\ decoded \in Seq([data : Seq(Byte), first : 1..Len(frames), last : 1..Len(frames)])
    /\ hurt \subseteq 1..Len(frames)
    /\ lost \in 0..MaxLost /\ fails \in 0..MaxFails

Init ==
    /\ frames = <<>> /\ sending = 0 /\ line = <<>>
    /\ state = "hunt" /\ dataBuffer = <<>> /\ opened = 0
    /\ ended = 0 /\ decoded = <<>>
    /\ hurt = {} /\ lost = 0 /\ fails = 0

-----------------------------------------------------------------------------
(* encodeToSLIP.                                                           *)

(* Mutated form: the escape byte itself is not escaped.                    *)
EscapeKeepsEsc(b) ==
    CASE b = SLIP_START -> <<SLIP_ESC, SLIP_ESC_START>>
      [] b = SLIP_END   -> <<SLIP_ESC, SLIP_ESC_END>>
      [] OTHER          -> <<b>>

Escape(b) ==
    CASE b = SLIP_START -> <<SLIP_ESC, SLIP_ESC_START>>
      [] b = SLIP_END   -> <<SLIP_ESC, SLIP_ESC_END>>
      [] b = SLIP_ESC   -> <<SLIP_ESC, SLIP_ESC_ESC>>
      [] OTHER          -> <<b>>

Placed(bytes, k, i) == [j \in DOMAIN bytes |-> [byte |-> bytes[j], frame |-> k, at |-> i]]

SendStart ==
    /\ sending = 0 /\ Len(frames) < MaxFrames
    /\ \E f \in Frames : frames' = Append(frames, f)
    /\ line' = line \o Placed(<<SLIP_START>>, Len(frames) + 1, 0)
    /\ sending' = 1
    /\ UNCHANGED <<decoder, ended, hurt, lost, fails>>

SendByte ==
    /\ sending # 0 /\ sending \in DOMAIN Last(frames)
    /\ line' = line \o Placed(Escape(Last(frames)[sending]), Len(frames), sending)
    /\ sending' = sending + 1
    /\ UNCHANGED <<frames, decoder, ended, hurt, lost, fails>>

SendEnd ==
    /\ sending # 0 /\ sending = Len(Last(frames)) + 1
    /\ line' = line \o Placed(<<SLIP_END>>, Len(frames), sending)
    /\ sending' = 0
    /\ UNCHANGED <<frames, decoder, ended, hurt, lost, fails>>

Send == SendStart \/ SendByte \/ SendEnd

-----------------------------------------------------------------------------
(* decodeFromSLIP, one action per kind of byte it meets in each state.     *)

NextByte == Head(line)

Take(byte) == line # <<>> /\ NextByte.byte = byte /\ line' = Tail(line)
TakeOther(bytes) == line # <<>> /\ NextByte.byte \notin bytes /\ line' = Tail(line)

(* The END of a frame has left the line, wherever it went.                 *)
Ended == ended' = IF NextByte.byte = SLIP_END THEN NextByte.frame ELSE ended

Put(byte) == dataBuffer' = Append(dataBuffer, byte)

Start ==
    /\ state = "hunt" /\ Take(SLIP_START)
    /\ state' = "body"
    /\ opened' = NextByte.frame
    /\ UNCHANGED <<sender, dataBuffer, decoded, ended, hurt, lost, fails>>

Skip ==
    /\ state = "hunt" /\ TakeOther({SLIP_START})
    /\ Ended
    /\ UNCHANGED <<sender, decoder, hurt, lost, fails>>

(* The packet is complete; the next call begins with an empty buffer.      *)
End ==
    /\ state = "body" /\ Take(SLIP_END)
    /\ Ended
    /\ decoded' = Append(decoded, [data |-> dataBuffer, first |-> opened, last |-> NextByte.frame])
    /\ dataBuffer' = <<>> /\ state' = "hunt"
    /\ UNCHANGED <<sender, opened, hurt, lost, fails>>

Esc ==
    /\ state = "body" /\ Take(SLIP_ESC)
    /\ state' = "esc"
    /\ UNCHANGED <<sender, dataBuffer, opened, decoded, ended, hurt, lost, fails>>

(* A START inside a packet is data: the packet is not begun anew.          *)
Data ==
    /\ state = "body" /\ TakeOther({SLIP_END, SLIP_ESC})
    /\ Put(NextByte.byte)
    /\ UNCHANGED <<sender, state, opened, decoded, ended, hurt, lost, fails>>

(* Mutated form: the escape is undone by arithmetic, whatever was escaped. *)
EscapedArithmetic ==
    /\ state = "esc" /\ TakeOther({})
    /\ Ended
    /\ Put(NextByte.byte - 1)
    /\ state' = "body"
    /\ UNCHANGED <<sender, opened, decoded, hurt, lost, fails>>

(* Whatever follows an ESC is taken with it, even an END or a START.       *)
Escaped ==
    /\ state = "esc" /\ TakeOther({})
    /\ Ended
    /\ Put(CASE NextByte.byte = SLIP_ESC_START -> SLIP_START
             [] NextByte.byte = SLIP_ESC_END   -> SLIP_END
             [] NextByte.byte = SLIP_ESC_ESC   -> SLIP_ESC
             [] OTHER                       -> SLIP_END)
    /\ state' = "body"
    /\ UNCHANGED <<sender, opened, decoded, hurt, lost, fails>>

(* A failed read spoils the frame that is being received.                  *)
Disturb ==
    hurt' = IF state = "hunt" THEN hurt ELSE hurt \cup ({ended + 1} \cap 1..Len(frames))

(* Mutated form: after a failed read the packet is continued.              *)
ReadFailsKeeps ==
    /\ fails < MaxFails /\ Len(frames) > 0
    /\ fails' = fails + 1
    /\ Disturb
    /\ state' = "hunt"
    /\ UNCHANGED <<sender, line, dataBuffer, opened, decoded, ended, lost>>

(* SnifferTimeout leaves getPacket; the next call looks for a START.       *)
ReadFails ==
    /\ fails < MaxFails /\ Len(frames) > 0
    /\ fails' = fails + 1
    /\ Disturb
    /\ state' = "hunt" /\ dataBuffer' = <<>>
    /\ UNCHANGED <<sender, line, opened, decoded, ended, lost>>

(* The line loses a byte.                                                  *)
Lose ==
    /\ line # <<>> /\ lost < MaxLost
    /\ lost' = lost + 1
    /\ line' = Tail(line)
    /\ Ended
    /\ hurt' = hurt \cup {NextByte.frame}
    /\ UNCHANGED <<sender, decoder, fails>>

Decode == Start \/ Skip \/ End \/ Esc \/ Data \/ Escaped

Next == Send \/ Decode \/ ReadFails \/ Lose

Spec == Init /\ [][Next]_vars

-----------------------------------------------------------------------------
(* Properties.                                                             *)

(* As long as no byte is lost, every decoded packet is a frame that was    *)
(* sent, whole and unaltered, and packets keep their order - however many  *)
(* reads failed in the middle of a frame (94-144).                         *)
OnlySentFrames ==
    lost = 0 =>
        /\ \A p \in Range(decoded) : p.data = frames[p.first]
        /\ \A i, j \in DOMAIN decoded : i < j => decoded[i].last < decoded[j].first

(* Damage does not spread: a frame is decoded if it and the frame before   *)
(* it reached the host undisturbed, whatever happened to others (122-144). *)
Recovers ==
    \A k \in 1..ended :
        k \notin hurt /\ k - 1 \notin hurt =>
            \E p \in Range(decoded) : p.data = frames[k] /\ p.first = k /\ p.last = k

Plain(f) == \A i \in DOMAIN f : f[i] \notin {SLIP_START, SLIP_END, SLIP_ESC}

(* The length test finds a lost byte, or the merger of two frames that it  *)
(* causes, in frames that need no escaping, as long as the fields it reads *)
(* are those of the frame (431-439).                                       *)
LossDetected ==
    lost <= 1 /\ (\A f \in Range(frames) : Plain(f)) =>
        \A p \in Range(decoded) :
            Valid(p.data) /\ (\A i \in 1..3 : p.data[i] = frames[p.first][i])
            => p.data = frames[p.first]
=============================================================================
