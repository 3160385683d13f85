----------------------------- MODULE Slip_proofs -----------------------------
(***************************************************************************)
(* SLIP framing, for every set of valid frames, any number of frames, lost *)
(* bytes and failed reads: types, no packet but those sent, no spreading   *)
(* of damage, and the length test.                                         *)
(***************************************************************************)
EXTENDS Slip, TLAPS

(* What is not sent as it is, and what it is sent as, behind an ESC.       *)
Special == {SLIP_START, SLIP_END, SLIP_ESC}
Code(b) == b + 1
FirstOf(b) == IF b \in Special THEN SLIP_ESC ELSE b

-----------------------------------------------------------------------------
(* The inductive invariant                                                 *)

(* While the decoder is in a frame, it knows which.                        *)
Within ==
    /\ state = "hunt" => dataBuffer = <<>>
    /\ state # "hunt" => opened > 0
Sending ==
    /\ sending # 0 => frames # <<>>
    /\ frames # <<>> => sending \in 0..(Len(frames[Len(frames)]) + 1)
TInv == TypeOK /\ Within /\ Sending

(* A byte on the line is one that its place in its frame is sent as.       *)
Mark(fs) == [byte : Byte, frame : 1..Len(fs), at : Nat]
Fits(b, fs) ==
    LET f == fs[b.frame] IN
    /\ b.at \in 0..(Len(f) + 1)
    /\ b.at = 0 => b.byte = SLIP_START
    /\ b.at = Len(f) + 1 => b.byte = SLIP_END
    /\ b.at \in 1..Len(f) =>
        IF f[b.at] \in Special THEN b.byte \in {SLIP_ESC, Code(f[b.at])} ELSE b.byte = f[b.at]

(* The byte c is sent right after b.                                       *)
Follows(b, c, fs) ==
    IF b.byte = SLIP_ESC
    THEN c.frame = b.frame /\ c.at = b.at /\ c.byte = Code(fs[b.frame][b.at])
    ELSE IF b.byte = SLIP_END
    THEN c.frame = b.frame + 1 /\ c.at = 0
    ELSE /\ c.frame = b.frame /\ c.at = b.at + 1
         /\ c.at \in 1..Len(fs[b.frame]) => c.byte = FirstOf(fs[b.frame][c.at])

(* The bytes of frames, without a gap.                                     *)
Chain(q, fs) ==
    /\ \A i \in 1..Len(q) : Fits(q[i], fs)
    /\ \A i \in 1..(Len(q) - 1) : Follows(q[i], q[i + 1], fs)

(* The sender goes on right after the last byte.                           *)
Meets(b) ==
    /\ b.frame = Len(frames) /\ b.byte # SLIP_ESC
    /\ IF b.byte = SLIP_END THEN sending = 0 ELSE sending = b.at + 1

(* The line has no gap: bytes are lost where they leave it.                *)
Line == Chain(line, frames) /\ (line # <<>> => Meets(line[Len(line)]))

(* The place of the next byte to leave the line, and whether it is the     *)
(* second one of an escape.                                                *)
NextFrame ==
    IF line # <<>> THEN Head(line).frame
    ELSE IF sending = 0 THEN Len(frames) + 1 ELSE Len(frames)
NextAt == IF line # <<>> THEN Head(line).at ELSE sending
Half ==
    /\ line # <<>> /\ Head(line).byte # SLIP_ESC
    /\ Head(line).at \in 1..Len(frames[Head(line).frame])
    /\ frames[Head(line).frame][Head(line).at] \in Special

(* Frames leave the line one after the other.                              *)
InTurn == NextFrame = ended + 1

(* In a frame that lost nothing the decoder has what it has read so far.   *)
Intact == lost = 0 \/ opened \notin hurt
Decoding ==
    state # "hunt" /\ Intact =>
        /\ opened = ended + 1 /\ NextAt > 0
        /\ state = "esc" <=> Half
        /\ Len(dataBuffer) = NextAt - 1
        /\ \A i \in 1..Len(dataBuffer) : dataBuffer[i] = frames[opened][i]

(* What has been decoded without a loss.                                   *)
Decoded ==
    /\ \A i \in 1..Len(decoded) : decoded[i].last <= ended
    /\ lost = 0 =>
        /\ \A i \in 1..Len(decoded) : decoded[i].data = frames[decoded[i].first]
        /\ \A i, j \in 1..Len(decoded) : i < j => decoded[i].last < decoded[j].first

(* An unharmed frame finds the decoder hunting if the one before it was    *)
(* unharmed, and is decoded then.                                          *)
InStep ==
    /\ NextAt = 0 /\ ended \notin hurt => state = "hunt"
    /\ NextAt > 0 /\ ended \notin hurt /\ ended + 1 \notin hurt =>
        state # "hunt" /\ opened = ended + 1
    /\ NextAt > 0 /\ ended + 1 \notin hurt /\ state = "esc" => Half

(* After one loss the decoder has one byte less than was sent, or the next *)
(* frame as well, until it hunts again.                                    *)
AllPlain == \A i \in 1..Len(frames) : Plain(frames[i])
HasAll ==
    /\ opened = NextFrame /\ NextAt > 0 /\ Len(dataBuffer) = NextAt - 1
    /\ \A i \in 1..Len(dataBuffer) : dataBuffer[i] = frames[opened][i]
HasLess == lost = 1 /\ opened = NextFrame /\ NextAt > 0 /\ Len(dataBuffer) = NextAt - 2
HasMore == lost = 1 /\ opened + 1 = NextFrame /\ Len(dataBuffer) = Len(frames[opened]) + NextAt
OneLoss ==
    lost <= 1 /\ AllPlain =>
        /\ state # "esc"
        /\ state = "body" => HasAll \/ HasLess \/ HasMore
        /\ \A i \in 1..Len(decoded) :
            LET p == decoded[i] IN
            p.data = frames[p.first] \/ Len(p.data) # Len(frames[p.first])
-----------------------------------------------------------------------------
(* The code                                                                *)

LEMMA CodesAre ==
    /\ SLIP_START \in Byte /\ SLIP_END \in Byte /\ SLIP_ESC \in Byte
    /\ SLIP_START # SLIP_END /\ SLIP_START # SLIP_ESC /\ SLIP_END # SLIP_ESC
    /\ Special \subseteq Byte
    /\ \A b \in Special : Code(b) \in Byte \ Special
    /\ Code(SLIP_START) = SLIP_ESC_START /\ Code(SLIP_END) = SLIP_ESC_END /\ Code(SLIP_ESC) = SLIP_ESC_ESC
    /\ SLIP_ESC_START # SLIP_ESC_END /\ SLIP_ESC_START # SLIP_ESC_ESC /\ SLIP_ESC_END # SLIP_ESC_ESC
BY DEF SLIP_START, SLIP_END, SLIP_ESC, SLIP_ESC_START, SLIP_ESC_END, SLIP_ESC_ESC, Byte, Special, Code

(* A byte is sent as it is, or as an escape and its code.                  *)
LEMMA EscapeIs ==
    \A b : Escape(b) = IF b \in Special THEN <<SLIP_ESC, Code(b)>> ELSE <<b>>
BY CodesAre DEF Escape, Special

(* One or two bytes that the sender puts on the line.                      *)
LEMMA PlacedOne ==
    ASSUME NEW S, NEW q \in Seq(S), NEW k, NEW i, NEW x, [byte |-> x, frame |-> k, at |-> i] \in S
    PROVE  q \o Placed(<<x>>, k, i) = Append(q, [byte |-> x, frame |-> k, at |-> i])
<1> DEFINE a == [byte |-> x, frame |-> k, at |-> i]
<1>1. Placed(<<x>>, k, i) = <<a>>
  BY DEF Placed
<1> HIDE DEF a
<1>2. q \o <<a>> = Append(q, a)
  BY DEF a
<1> QED
  BY <1>1, <1>2 DEF a

LEMMA PlacedTwo ==
    ASSUME NEW S, NEW q \in Seq(S), NEW k, NEW i, NEW x, NEW y,
           [byte |-> x, frame |-> k, at |-> i] \in S, [byte |-> y, frame |-> k, at |-> i] \in S
    PROVE  q \o Placed(<<x, y>>, k, i) =
                Append(Append(q, [byte |-> x, frame |-> k, at |-> i]), [byte |-> y, frame |-> k, at |-> i])
<1> DEFINE a == [byte |-> x, frame |-> k, at |-> i]
           b == [byte |-> y, frame |-> k, at |-> i]
<1>1. Placed(<<x, y>>, k, i) = <<a, b>>
  BY DEF Placed
<1> HIDE DEF a, b
<1>2. a \in S /\ b \in S
  BY DEF a, b
<1>3. q \o <<a, b>> = Append(Append(q, a), b)
  BY <1>2
<1> QED
  BY <1>1, <1>3 DEF a, b

(* A chain with one more byte, of one more frame, and without its first.   *)
LEMMA ChainGrows ==
    ASSUME NEW fs, NEW S, NEW q \in Seq(S), NEW a \in S, Chain(q, fs), Fits(a, fs),
           q # <<>> => Follows(q[Len(q)], a, fs)
    PROVE  Chain(Append(q, a), fs)
<1>1. /\ Len(q) \in Nat /\ Len(Append(q, a)) = Len(q) + 1 /\ Append(q, a)[Len(q) + 1] = a
      /\ \A i \in 1..Len(q) : Append(q, a)[i] = q[i]
      /\ q = <<>> <=> Len(q) = 0
  OBVIOUS
<1>2. \A i \in 1..Len(Append(q, a)) : Fits(Append(q, a)[i], fs)
  <2>1. \A i \in 1..(Len(q) + 1) : i \in 1..Len(q) \/ i = Len(q) + 1
    BY <1>1
  <2> QED
    BY <1>1, <2>1 DEF Chain
<1>3. ASSUME NEW i \in 1..(Len(Append(q, a)) - 1) PROVE Follows(Append(q, a)[i], Append(q, a)[i + 1], fs)
  <2>1. CASE i = Len(q)
    BY <1>1, <2>1
  <2>2. CASE i # Len(q)
    <3>1. i \in 1..(Len(q) - 1) /\ i \in 1..Len(q) /\ i + 1 \in 1..Len(q)
      BY <1>1, <2>2
    <3> QED
      BY <1>1, <3>1 DEF Chain
  <2> QED
    BY <2>1, <2>2
<1> QED
  BY <1>2, <1>3 DEF Chain

LEMMA ChainStays ==
    ASSUME NEW S, NEW fs \in Seq(S), NEW f \in S, NEW q \in Seq(Mark(fs)), Chain(q, fs)
    PROVE  Chain(q, Append(fs, f))
<1>1. \A i \in 1..Len(q) : Append(fs, f)[q[i].frame] = fs[q[i].frame]
  <2>1. \A i \in 1..Len(q) : q[i].frame \in 1..Len(fs)
    <3>1. \A i \in 1..Len(q) : q[i] \in Mark(fs)
      OBVIOUS
    <3> QED
      BY <3>1 DEF Mark
  <2>2. \A k \in 1..Len(fs) : Append(fs, f)[k] = fs[k]
    OBVIOUS
  <2> QED
    BY <2>1, <2>2
<1>2. \A i \in 1..(Len(q) - 1) : i \in 1..Len(q)
  OBVIOUS
<1> QED
  BY <1>1, <1>2 DEF Chain, Fits, Follows

LEMMA ChainTail ==
    ASSUME NEW fs, NEW S, NEW q \in Seq(S), q # <<>>, Chain(q, fs)
    PROVE  /\ Head(q) = q[1] /\ Head(q) \in S /\ Fits(Head(q), fs) /\ Tail(q) \in Seq(S)
           /\ Chain(Tail(q), fs)
           /\ Tail(q) # <<>> => /\ Tail(q)[Len(Tail(q))] = q[Len(q)]
                                /\ Head(Tail(q)) = Tail(q)[1] /\ Head(Tail(q)) \in S
                                /\ Fits(Head(Tail(q)), fs)
                                /\ Follows(Head(q), Head(Tail(q)), fs)
           /\ Tail(q) = <<>> => q[Len(q)] = Head(q)
<1>1. /\ Len(q) \in Nat /\ Len(q) > 0 /\ Head(q) = q[1] /\ Tail(q) \in Seq(S) /\ Len(Tail(q)) = Len(q) - 1
      /\ \A i \in 1..(Len(q) - 1) : Tail(q)[i] = q[i + 1] /\ i + 1 \in 1..Len(q)
      /\ 1 \in 1..Len(q) /\ \A i \in 1..Len(q) : q[i] \in S
  OBVIOUS
<1>2. Chain(Tail(q), fs)
  <2>1. \A i \in 1..Len(Tail(q)) : Fits(Tail(q)[i], fs)
    BY <1>1 DEF Chain
  <2>2. ASSUME NEW i \in 1..(Len(Tail(q)) - 1) PROVE Follows(Tail(q)[i], Tail(q)[i + 1], fs)
    <3>1. i \in 1..(Len(q) - 1) /\ i + 1 \in 1..(Len(q) - 1)
      BY <1>1
    <3> QED
      BY <1>1, <3>1 DEF Chain
  <2> QED
    BY <2>1, <2>2 DEF Chain
<1>3. ASSUME Tail(q) # <<>>
      PROVE  /\ Tail(q)[Len(Tail(q))] = q[Len(q)]
             /\ Head(Tail(q)) = Tail(q)[1] /\ Tail(q)[1] = q[2] /\ 2 \in 1..Len(q) /\ 1 \in 1..(Len(q) - 1)
  <2>1. Len(Tail(q)) > 0
    BY <1>1, <1>3
  <2>2. Len(q) - 1 \in 1..(Len(q) - 1)
    BY <1>1, <2>1
  <2> QED
    BY <1>1, <2>1, <2>2, <1>3
<1>4. Tail(q) = <<>> => Len(q) = 1
  <2>1. \A r : r = <<>> => Len(r) = 0
    OBVIOUS
  <2>2. Tail(q) = <<>> => Len(q) - 1 = 0
    BY <1>1, <2>1, Zenon
  <2>3. Len(q) \in Nat
    OBVIOUS
  <2> QED
    BY <2>2, <2>3
<1> QED
  BY <1>1, <1>2, <1>3, <1>4 DEF Chain

-----------------------------------------------------------------------------
(* The line                                                                *)

(* The frames are valid, and at least as long as their header.             *)
LEMMA FrameIs ==
    ASSUME TypeOK, NEW k \in 1..Len(frames)
    PROVE  /\ frames[k] \in Frames /\ frames[k] \in Seq(Byte) /\ Len(frames[k]) \in Nat
           /\ Len(frames[k]) >= 3 /\ Valid(frames[k])
           /\ \A i \in 1..Len(frames[k]) : frames[k][i] \in Byte
<1>1. frames[k] \in Frames
  BY DEF TypeOK
<1>2. frames[k] \in Seq(Byte) /\ Valid(frames[k])
  BY <1>1, FramesAssumption
<1>3. Len(frames[k]) >= HEADER_LENGTH /\ HEADER_LENGTH >= 3 /\ HEADER_LENGTH \in Nat
  BY <1>2, FramesAssumption DEF Valid
<1> QED
  BY <1>1, <1>2, <1>3

LEMMA MarkIs ==
    ASSUME NEW fs, NEW m \in Mark(fs)
    PROVE  m.byte \in Byte /\ m.frame \in 1..Len(fs) /\ m.at \in Nat
BY DEF Mark

(* The next byte: a START or END is one, an escaped byte is not what it    *)
(* stands for, and any other byte is the frame's.                          *)
LEMMA HeadIs ==
    ASSUME TypeOK, Line, line # <<>>, NEW f, f = frames[Head(line).frame]
    PROVE  LET h == Head(line) IN
           /\ h \in Mark(frames) /\ h.byte \in Byte /\ h.frame \in 1..Len(frames) /\ h.at \in Nat
           /\ h = NextByte /\ Fits(h, frames)
           /\ NextFrame = h.frame /\ NextAt = h.at /\ h.at <= Len(f) + 1
           /\ h.byte = SLIP_START => h.at = 0
           /\ h.at = 0 => h.byte = SLIP_START
           /\ h.byte = SLIP_END <=> h.at = Len(f) + 1
           /\ h.byte = SLIP_ESC => h.at \in 1..Len(f) /\ f[h.at] \in Special /\ ~Half
           /\ Half => h.at \in 1..Len(f) /\ f[h.at] \in Special /\ h.byte = Code(f[h.at])
                      /\ h.byte \notin Special
           /\ ~Half /\ h.byte \notin Special => h.at \in 1..Len(f) /\ h.byte = f[h.at]
<1> DEFINE h == Head(line)
<1>1. h \in Mark(frames) /\ Fits(h, frames)
  BY ChainTail DEF TypeOK, Line, Mark
<1>2. h.byte \in Byte /\ h.frame \in 1..Len(frames) /\ h.at \in Nat
  BY <1>1 DEF Mark
<1>3. f \in Seq(Byte) /\ Len(f) \in Nat /\ Len(f) >= 3 /\ \A i \in 1..Len(f) : f[i] \in Byte
  BY <1>2, FrameIs
<1>4. /\ h.at \in 0..(Len(f) + 1)
      /\ h.at = 0 => h.byte = SLIP_START
      /\ h.at = Len(f) + 1 => h.byte = SLIP_END
      /\ h.at \in 1..Len(f) => IF f[h.at] \in Special THEN h.byte \in {SLIP_ESC, Code(f[h.at])}
                               ELSE h.byte = f[h.at]
  BY <1>1 DEF Fits
<1>5. Half <=> h.byte # SLIP_ESC /\ h.at \in 1..Len(f) /\ f[h.at] \in Special
  BY DEF Half
<1>6. NextFrame = h.frame /\ NextAt = h.at /\ h = NextByte
  BY DEF NextFrame, NextAt, NextByte
<1>7. h.at = 0 \/ h.at = Len(f) + 1 \/ h.at \in 1..Len(f)
  BY <1>3, <1>4
<1>8. CASE h.at = 0
  BY <1>1, <1>2, <1>3, <1>4, <1>5, <1>6, <1>8, CodesAre DEF Special
<1>9. CASE h.at = Len(f) + 1
  BY <1>1, <1>2, <1>3, <1>4, <1>5, <1>6, <1>9, CodesAre DEF Special
<1>10. CASE h.at \in 1..Len(f)
  <2>1. h.at # 0 /\ h.at # Len(f) + 1 /\ h.at <= Len(f) + 1
    BY <1>3, <1>10
  <2>2. CASE f[h.at] \in Special
    <3>1. h.byte = SLIP_ESC \/ (h.byte = Code(f[h.at]) /\ h.byte \notin Special)
      BY <1>4, <1>10, <2>2, CodesAre
    <3> QED
      BY <1>1, <1>2, <1>5, <1>6, <1>10, <2>1, <2>2, <3>1, CodesAre DEF Special
  <2>3. CASE f[h.at] \notin Special
    <3>1. h.byte = f[h.at] /\ h.byte \notin Special
      BY <1>4, <1>10, <2>3
    <3> QED
      BY <1>1, <1>2, <1>5, <1>6, <1>10, <2>1, <2>3, <3>1, CodesAre DEF Special
  <2> QED
    BY <2>2, <2>3
<1> QED
  BY <1>7, <1>8, <1>9, <1>10

(* When a byte leaves the line, the one sent after it is next.             *)
LEMMA TakeIs ==
    ASSUME TypeOK, Sending, Line, line # <<>>, line' = Tail(line), UNCHANGED sender
    PROVE  LET h == Head(line) IN
           /\ Line' /\ line' \in Seq(Mark(frames))
           /\ h.byte = SLIP_ESC => NextFrame' = h.frame /\ NextAt' = h.at /\ Half'
           /\ h.byte = SLIP_END => NextFrame' = h.frame + 1 /\ NextAt' = 0 /\ ~Half'
           /\ h.byte \notin {SLIP_ESC, SLIP_END} =>
                NextFrame' = h.frame /\ NextAt' = h.at + 1 /\ ~Half'
<1> DEFINE h == Head(line)
           n == Head(Tail(line))
           f == frames[h.frame]
<1>1. line \in Seq(Mark(frames)) /\ Chain(line, frames) /\ frames' = frames /\ sending' = sending
  BY DEF TypeOK, Line, Mark, sender
<1>2. /\ h \in Mark(frames) /\ Tail(line) \in Seq(Mark(frames)) /\ Chain(Tail(line), frames)
      /\ Fits(h, frames)
      /\ Tail(line) # <<>> => /\ Tail(line)[Len(Tail(line))] = line[Len(line)]
                              /\ n \in Mark(frames) /\ Fits(n, frames) /\ Follows(h, n, frames)
      /\ Tail(line) = <<>> => line[Len(line)] = h
  BY <1>1, ChainTail
<1>3. Line' /\ line' \in Seq(Mark(frames))
  BY <1>1, <1>2 DEF Line, Meets
<1>4. \A m \in Mark(frames) : m.frame \in 1..Len(frames) /\ m.at \in Nat
  BY DEF Mark
<1>5. /\ h.byte = SLIP_ESC => h.at \in 1..Len(f) /\ f[h.at] \in Special
      /\ h.byte = SLIP_END => h.at = Len(f) + 1
      /\ f \in Seq(Byte) /\ Len(f) \in Nat
  BY HeadIs, FrameIs, <1>2 DEF Mark
<1>6. CASE Tail(line) = <<>>
  <2>1. h.frame = Len(frames) /\ h.byte # SLIP_ESC /\ IF h.byte = SLIP_END THEN sending = 0 ELSE sending = h.at + 1
    BY <1>2, <1>6 DEF Line, Meets
  <2>2. ~Half' /\ NextAt' = sending /\ NextFrame' = IF sending = 0 THEN Len(frames) + 1 ELSE Len(frames)
    BY <1>1, <1>6 DEF Half, NextAt, NextFrame
  <2>3. h.at + 1 # 0
    BY <1>2, <1>4
  <2> QED
    BY <1>3, <2>1, <2>2, <2>3
<1>7. CASE Tail(line) # <<>>
  <2>1. NextAt' = n.at /\ NextFrame' = n.frame
    BY <1>1, <1>7 DEF NextAt, NextFrame
  <2>2. Half' <=> n.byte # SLIP_ESC /\ n.at \in 1..Len(frames[n.frame]) /\ frames[n.frame][n.at] \in Special
    BY <1>1, <1>7 DEF Half
  <2>3. Follows(h, n, frames)
    BY <1>2, <1>7
  <2>4. CASE h.byte = SLIP_ESC
    BY <1>3, <1>5, <2>1, <2>2, <2>3, <2>4, CodesAre DEF Follows, Special
  <2>5. CASE h.byte = SLIP_END
    <3>2. n.at = 0 /\ n.frame = h.frame + 1
      BY <2>3, <2>5, CodesAre DEF Follows
    <3>3. Len(frames[n.frame]) \in Nat
      BY <1>2, <1>4, <1>7, FrameIs
    <3>5. \A l \in Nat : 0 \notin 1..l
      OBVIOUS
    <3>4. n.at \notin 1..Len(frames[n.frame])
      BY <3>2, <3>3, <3>5, Zenon
    <3>1. n.at = 0 /\ n.frame = h.frame + 1 /\ ~Half'
      BY <2>2, <3>2, <3>4, Zenon
    <3> QED
      BY <1>3, <2>1, <2>5, <3>1, CodesAre
  <2>6. CASE h.byte \notin {SLIP_ESC, SLIP_END}
    BY <1>3, <2>1, <2>2, <2>3, <2>6 DEF Follows, FirstOf
  <2> QED
    BY <2>4, <2>5, <2>6
<1> QED
  BY <1>6, <1>7

(* What is put behind a sequence is in front only if it is empty.          *)
LEMMA HeadGrows ==
    ASSUME NEW S, NEW q \in Seq(S), NEW a \in S, NEW r,
           r = Append(q, a) \/ \E b \in S : r = Append(Append(q, a), b)
    PROVE  r # <<>> /\ Head(r) = IF q = <<>> THEN a ELSE Head(q)
<1> DEFINE p == Append(q, a)
<1>1. p \in Seq(S) /\ p # <<>> /\ Len(p) \in Nat \ {0} /\ Head(p) = p[1]
      /\ p[1] = IF q = <<>> THEN a ELSE Head(q)
  OBVIOUS
<1>2. ASSUME NEW b \in S
      PROVE  Append(p, b) # <<>> /\ Head(Append(p, b)) = p[1]
  <2> HIDE DEF p
  <2> QED
    BY <1>1
<1> HIDE DEF p
<1>3. r = p \/ \E b \in S : r = Append(p, b)
  BY DEF p
<1> QED
  BY <1>1, <1>2, <1>3

(* What the sender puts on the line goes on from what is there, and is     *)
(* next only if the line is empty.                                         *)
LEMMA SendIs ==
    ASSUME TypeOK, Sending, Line, Send
    PROVE  /\ Line' /\ Sending' /\ line' \in Seq(Mark(frames'))
           /\ NextFrame' = NextFrame /\ NextAt' = NextAt /\ (Half' <=> Half)
           /\ frames' \in Seq(Frames) /\ Len(frames') <= MaxFrames /\ sending' \in Nat
           /\ Len(frames) <= Len(frames') /\ \A k \in 1..Len(frames) : frames'[k] = frames[k]
<1>1. line \in Seq(Mark(frames)) /\ Chain(line, frames) /\ frames \in Seq(Frames) /\ Len(frames) \in Nat
  BY DEF TypeOK, Line, Mark
<1>2. ASSUME NEW a, line' = Append(line, a) \/ \E b \in Mark(frames') : line' = Append(Append(line, a), b),
             a \in Mark(frames'), line \in Seq(Mark(frames')),
             line = <<>> => a.frame = NextFrame /\ a.at = NextAt
                            /\ (a.byte = SLIP_ESC \/ a.at \notin 1..Len(frames'[a.frame])
                                \/ frames'[a.frame][a.at] \notin Special),
             Len(frames) <= Len(frames'), \A k \in 1..Len(frames) : frames'[k] = frames[k]
      PROVE  NextFrame' = NextFrame /\ NextAt' = NextAt /\ (Half' <=> Half)
  <2>1. line' # <<>> /\ Head(line') = IF line = <<>> THEN a ELSE Head(line)
    BY <1>2, HeadGrows
  <2>2. CASE line = <<>>
    BY <1>2, <2>1, <2>2 DEF NextFrame, NextAt, Half
  <2>3. CASE line # <<>>
    <3>1. Head(line).frame \in 1..Len(frames)
      <4>1. Head(line) \in Mark(frames)
        BY <1>1, <2>3, ChainTail
      <4> QED
        BY <4>1, MarkIs
    <3>2. frames'[Head(line).frame] = frames[Head(line).frame]
      BY <1>2, <3>1
    <3> QED
      BY <2>1, <2>3, <3>2 DEF NextFrame, NextAt, Half
  <2> QED
    BY <2>2, <2>3
<1>3. CASE SendStart
  <2> DEFINE a == [byte |-> SLIP_START, frame |-> Len(frames) + 1, at |-> 0]
  <2>1. PICK f \in Frames : frames' = Append(frames, f)
    BY <1>3 DEF SendStart
  <2>2. /\ Append(frames, f) \in Seq(Frames) /\ Len(Append(frames, f)) = Len(frames) + 1
        /\ Append(frames, f)[Len(frames) + 1] = f /\ Append(frames, f) # <<>>
        /\ \A k \in 1..Len(frames) : Append(frames, f)[k] = frames[k]
    BY <1>1
  <2>3. f \in Seq(Byte) /\ Len(f) \in Nat /\ Len(f) >= 3
    BY FramesAssumption DEF Valid
  <2>4. Mark(frames) \subseteq Mark(Append(frames, f)) /\ a \in Mark(Append(frames, f))
    BY <1>1, <2>2, CodesAre DEF Mark
  <2>5. line \in Seq(Mark(Append(frames, f)))
    BY <1>1, <2>4
  <2>6. line' = Append(line, a) /\ sending' = 1 /\ sending = 0 /\ Len(frames) < MaxFrames
    BY <1>3, <2>4, <2>5, PlacedOne DEF SendStart
  <2>7. Chain(line, Append(frames, f))
    BY <1>1, ChainStays
  <2>8. Fits(a, Append(frames, f))
    BY <2>2, <2>3 DEF Fits
  <2>9. line # <<>> => Follows(line[Len(line)], a, Append(frames, f))
    <3>1. line # <<>> => line[Len(line)].frame = Len(frames)
                         /\ (line[Len(line)].byte = SLIP_END \/ sending = line[Len(line)].at + 1)
      BY <2>6 DEF Line, Meets
    <3>2. line # <<>> => line[Len(line)] \in Mark(frames)
      BY <1>1
    <3>3. line # <<>> => line[Len(line)].at \in Nat
      BY <3>2, MarkIs
    <3>4. line # <<>> => line[Len(line)].byte = SLIP_END
      BY <2>6, <3>1, <3>3
    <3> QED
      BY <3>1, <3>4, CodesAre DEF Follows
  <2>10. Chain(Append(line, a), Append(frames, f))
    BY <2>4, <2>5, <2>7, <2>8, <2>9, ChainGrows
  <2>11. /\ line' \in Seq(Mark(Append(frames, f))) /\ line' # <<>> /\ line'[Len(line')] = a
    BY <2>4, <2>5, <2>6
  <2>12. Line'
    BY <2>1, <2>2, <2>6, <2>10, <2>11, CodesAre DEF Line, Meets
  <2>13. Sending'
    BY <2>1, <2>2, <2>3, <2>6 DEF Sending
  <2>14. NextFrame' = NextFrame /\ NextAt' = NextAt /\ (Half' <=> Half)
    <3>1. line = <<>> => a.frame = NextFrame /\ a.at = NextAt /\ a.at \notin 1..Len(Append(frames, f)[a.frame])
      BY <2>2, <2>3, <2>6 DEF NextFrame, NextAt
    <3>2. a \in Mark(frames') /\ line \in Seq(Mark(frames')) /\ line' = Append(line, a)
      BY <2>1, <2>4, <2>5, <2>6
    <3>3. Len(frames) <= Len(frames') /\ \A k \in 1..Len(frames) : frames'[k] = frames[k]
      BY <1>1, <2>1, <2>2
    <3>4. line = <<>> => a.frame = NextFrame /\ a.at = NextAt /\ a.at \notin 1..Len(frames'[a.frame])
      BY <2>1, <3>1
    <3> HIDE DEF a
    <3> QED
      BY <1>2, <3>2, <3>3, <3>4
  <2>15. Len(frames) <= Len(frames') /\ \A k \in 1..Len(frames) : frames'[k] = frames[k]
    BY <1>1, <2>1, <2>2
  <2>16. frames' \in Seq(Frames) /\ Len(frames') <= MaxFrames /\ sending' \in Nat
    BY <1>1, <2>1, <2>2, <2>6, FramesAssumption
  <2> QED
    BY <2>1, <2>11, <2>12, <2>13, <2>14, <2>15, <2>16
<1>4. ASSUME sending # 0
      PROVE  LET k == Len(frames) IN
             /\ k \in 1..Len(frames) /\ frames # <<>> /\ Last(frames) = frames[k]
             /\ frames[k] \in Seq(Byte) /\ Len(frames[k]) \in Nat /\ sending \in 1..(Len(frames[k]) + 1)
             /\ NextAt = 0 => line # <<>>
             /\ line = <<>> => NextFrame = k /\ NextAt = sending
             /\ line # <<>> => line[Len(line)] \in Mark(frames) /\ line[Len(line)].frame = k
                               /\ line[Len(line)].at + 1 = sending
                               /\ line[Len(line)].byte \notin {SLIP_ESC, SLIP_END}
  <2>1. frames # <<>> /\ Len(frames) \in 1..Len(frames)
    BY <1>1, <1>4 DEF Sending
  <2>2. Last(frames) = frames[Len(frames)]
    BY DEF Last
  <2>3. frames[Len(frames)] \in Seq(Byte) /\ Len(frames[Len(frames)]) \in Nat
    BY <2>1, FrameIs
  <2>4. sending \in 1..(Len(frames[Len(frames)]) + 1)
    BY <1>4, <2>1, <2>3 DEF Sending
  <2>5. line # <<>> => line[Len(line)] \in Mark(frames)
    BY <1>1
  <2>6. line # <<>> => line[Len(line)].frame = Len(frames) /\ line[Len(line)].at + 1 = sending
                       /\ line[Len(line)].byte \notin {SLIP_ESC, SLIP_END}
    BY <1>4 DEF Line, Meets
  <2> QED
    BY <1>4, <2>1, <2>2, <2>3, <2>4, <2>5, <2>6 DEF NextFrame, NextAt
<1>5. CASE SendByte
  <2> DEFINE k == Len(frames)
             d == frames[k][sending]
             a == [byte |-> FirstOf(d), frame |-> k, at |-> sending]
             b == [byte |-> Code(d), frame |-> k, at |-> sending]
  <2>1. /\ frames' = frames /\ sending' = sending + 1 /\ sending # 0 /\ sending \in 1..Len(frames[k])
        /\ line' = line \o Placed(Escape(d), k, sending)
    <3>1. /\ frames' = frames /\ sending' = sending + 1 /\ sending # 0 /\ sending \in DOMAIN Last(frames)
          /\ line' = line \o Placed(Escape(Last(frames)[sending]), Len(frames), sending)
      BY <1>5 DEF SendByte
    <3>2. Last(frames) = frames[k] /\ frames[k] \in Seq(Byte)
      BY <1>4, <3>1
    <3> QED
      BY <3>1, <3>2
  <2>2. d \in Byte
    BY <1>4, <2>1
  <2>3. a \in Mark(frames) /\ (d \in Special => b \in Mark(frames))
    BY <1>4, <2>1, <2>2, CodesAre DEF Mark, FirstOf
  <2>4. d \in Special => line' = Append(Append(line, a), b)
    <3>1. d \in Special => Escape(d) = <<SLIP_ESC, Code(d)>> /\ FirstOf(d) = SLIP_ESC
      BY EscapeIs DEF FirstOf
    <3>2. ASSUME d \in Special
          PROVE  line' = Append(Append(line, a), b)
      <4> DEFINE x == [byte |-> SLIP_ESC, frame |-> k, at |-> sending]
      <4>1. a = x
        BY <3>1, <3>2
      <4>2. x \in Mark(frames) /\ b \in Mark(frames)
        BY <2>3, <3>2, <4>1
      <4>3. line \o Placed(<<SLIP_ESC, Code(d)>>, k, sending) = Append(Append(line, x), b)
        BY <1>1, <4>2, PlacedTwo
      <4> HIDE DEF a, x, b
      <4> QED
        BY <2>1, <3>1, <3>2, <4>1, <4>3
    <3> QED
      BY <3>2
  <2>5. d \notin Special => line' = Append(line, a)
    <3>1. d \notin Special => Escape(d) = <<FirstOf(d)>>
      BY EscapeIs DEF FirstOf
    <3> QED
      BY <1>1, <2>1, <2>3, <3>1, PlacedOne
  <2>6. Fits(a, frames)
    BY <1>4, <2>1 DEF Fits, FirstOf
  <2>7. line # <<>> => Follows(line[Len(line)], a, frames)
    BY <1>4, <2>1 DEF Follows
  <2>8. /\ Append(line, a) \in Seq(Mark(frames)) /\ Chain(Append(line, a), frames)
        /\ Append(line, a) # <<>> /\ Append(line, a)[Len(Append(line, a))] = a
    <3> HIDE DEF a
    <3>1. /\ Append(line, a) \in Seq(Mark(frames))
          /\ Append(line, a) # <<>> /\ Append(line, a)[Len(Append(line, a))] = a
      BY <1>1, <2>3
    <3>2. Chain(Append(line, a), frames)
      BY <1>1, <2>3, <2>6, <2>7, ChainGrows
    <3> QED
      BY <3>1, <3>2
  <2>9. ASSUME d \in Special
        PROVE  /\ line' \in Seq(Mark(frames)) /\ Chain(line', frames)
               /\ line' # <<>> /\ line'[Len(line')] = b
    <3> DEFINE q == Append(line, a)
    <3>1. Fits(b, frames)
      BY <1>4, <2>1, <2>9 DEF Fits
    <3>2. Follows(a, b, frames)
      BY <2>9 DEF Follows, FirstOf
    <3>3. q \in Seq(Mark(frames)) /\ Chain(q, frames) /\ q # <<>> /\ q[Len(q)] = a
      BY <2>8
    <3> HIDE DEF q
    <3>4. Append(q, b) \in Seq(Mark(frames)) /\ Append(q, b) # <<>> /\ Append(q, b)[Len(Append(q, b))] = b
      BY <2>3, <2>9, <3>3
    <3>5. Chain(Append(q, b), frames)
      BY <2>3, <2>9, <3>1, <3>2, <3>3, ChainGrows
    <3> QED
      BY <2>4, <2>9, <3>4, <3>5 DEF q
  <2>10. Line' /\ line' \in Seq(Mark(frames))
    <3>1. CASE d \in Special
      <4>1. line'[Len(line')].frame = k /\ line'[Len(line')].at = sending
            /\ line'[Len(line')].byte \notin {SLIP_ESC, SLIP_END}
        BY <2>2, <2>9, <3>1, CodesAre DEF Special
      <4>2. Meets(line[Len(line)])'
        BY <2>1, <4>1 DEF Meets
      <4> QED
        BY <2>1, <2>9, <3>1, <4>2 DEF Line
    <3>2. CASE d \notin Special
      <4>1. line'[Len(line')].frame = k /\ line'[Len(line')].at = sending
            /\ line'[Len(line')].byte \notin {SLIP_ESC, SLIP_END}
        BY <2>2, <2>5, <2>8, <3>2, CodesAre DEF Special, FirstOf
      <4>2. Meets(line[Len(line)])'
        BY <2>1, <4>1 DEF Meets
      <4> QED
        BY <2>1, <2>5, <2>8, <3>2, <4>2 DEF Line
    <3> QED
      BY <3>1, <3>2
  <2>11. Sending'
    BY <1>4, <2>1 DEF Sending
  <2>12. NextFrame' = NextFrame /\ NextAt' = NextAt /\ (Half' <=> Half)
    <3>1. line' = Append(line, a) \/ \E x \in Mark(frames') : line' = Append(Append(line, a), x)
      BY <2>1, <2>3, <2>4, <2>5
    <3>2. line = <<>> => a.frame = NextFrame /\ a.at = NextAt
                         /\ (a.byte = SLIP_ESC \/ frames'[a.frame][a.at] \notin Special)
      BY <1>4, <2>1 DEF FirstOf
    <3>3. a \in Mark(frames') /\ line \in Seq(Mark(frames'))
      BY <1>1, <2>1, <2>3
    <3>4. Len(frames) <= Len(frames') /\ \A i \in 1..Len(frames) : frames'[i] = frames[i]
      BY <1>1, <2>1
    <3> HIDE DEF a
    <3> QED
      BY <1>2, <3>1, <3>2, <3>3, <3>4
  <2>13. sending' \in Nat /\ Len(frames') <= MaxFrames /\ line' \in Seq(Mark(frames'))
    BY <2>1, <2>10, <1>4 DEF TypeOK
  <2> QED
    BY <1>1, <2>1, <2>10, <2>11, <2>12, <2>13
<1>6. CASE SendEnd
  <2> DEFINE k == Len(frames)
             a == [byte |-> SLIP_END, frame |-> k, at |-> sending]
  <2>1. /\ frames' = frames /\ sending' = 0 /\ sending # 0 /\ sending = Len(frames[k]) + 1
        /\ line' = line \o Placed(<<SLIP_END>>, k, sending)
    BY <1>4, <1>6 DEF SendEnd
  <2>2. a \in Mark(frames)
    BY <1>4, <2>1, CodesAre DEF Mark
  <2>3. line' = Append(line, a)
    BY <1>1, <2>1, <2>2, PlacedOne
  <2>4. Fits(a, frames)
    BY <1>4, <2>1 DEF Fits
  <2>5. line # <<>> => Follows(line[Len(line)], a, frames)
    BY <1>4, <2>1 DEF Follows
  <2>6. /\ line' \in Seq(Mark(frames)) /\ Chain(line', frames)
        /\ line' # <<>> /\ line'[Len(line')] = a
    BY <1>1, <2>2, <2>3, <2>4, <2>5, ChainGrows
  <2>7. Line'
    BY <2>1, <2>6, CodesAre DEF Line, Meets
  <2>8. Sending'
    BY <1>4, <2>1 DEF Sending
  <2>9. NextFrame' = NextFrame /\ NextAt' = NextAt /\ (Half' <=> Half)
    <3>1. line = <<>> => a.frame = NextFrame /\ a.at = NextAt /\ a.at \notin 1..Len(frames'[a.frame])
      BY <1>4, <2>1
    <3>2. Len(frames) <= Len(frames') /\ \A i \in 1..Len(frames) : frames'[i] = frames[i]
      BY <1>1, <2>1
    <3>3. a \in Mark(frames') /\ line \in Seq(Mark(frames'))
      BY <1>1, <2>1, <2>2
    <3> HIDE DEF a
    <3> QED
      BY <1>2, <2>3, <3>1, <3>2, <3>3
  <2>10. sending' \in Nat /\ Len(frames') <= MaxFrames /\ line' \in Seq(Mark(frames'))
    BY <2>1, <2>6 DEF TypeOK
  <2> QED
    BY <1>1, <2>1, <2>7, <2>8, <2>9, <2>10
<1> QED
  BY <1>3, <1>5, <1>6 DEF Send

(* When a byte leaves the line, by whichever step.                         *)
LEMMA LeavesIs ==
    ASSUME TypeOK, Sending, Line, InTurn, Decode \/ Lose
    PROVE  /\ line # <<>> /\ line' = Tail(line) /\ UNCHANGED sender /\ frames' = frames
           /\ NextByte \in Mark(frames) /\ NextByte.byte \in Byte /\ NextByte.frame \in 1..Len(frames)
           /\ NextByte.frame = ended + 1
           /\ ended' = IF NextByte.byte = SLIP_END THEN ended + 1 ELSE ended
           /\ Line' /\ Sending' /\ InTurn' /\ line' \in Seq(Mark(frames'))
<1>1. line # <<>> /\ line' = Tail(line) /\ UNCHANGED sender
  BY DEF Decode, Start, Skip, End, Esc, Data, Escaped, Lose, Take, TakeOther
<1>2. frames' = frames /\ sending' = sending
  BY <1>1 DEF sender
<1>3. /\ NextByte \in Mark(frames) /\ NextByte.byte \in Byte /\ NextByte.frame \in 1..Len(frames)
      /\ NextByte.frame = NextFrame /\ NextByte = Head(line)
  BY <1>1, HeadIs
<1>4. NextByte.frame = ended + 1
  BY <1>3 DEF InTurn
<1>5. ended' = IF NextByte.byte = SLIP_END THEN NextByte.frame ELSE ended
  BY CodesAre DEF Decode, Start, Skip, End, Esc, Data, Escaped, Lose, Take, TakeOther, Ended
<1>6. Line' /\ line' \in Seq(Mark(frames))
  BY <1>1, TakeIs
<1>7. NextFrame' = IF NextByte.byte = SLIP_END THEN NextByte.frame + 1 ELSE NextByte.frame
  BY <1>1, <1>3, TakeIs, CodesAre
<1>8. InTurn'
  BY <1>4, <1>5, <1>7 DEF InTurn
<1> QED
  BY <1>1, <1>2, <1>3, <1>4, <1>5, <1>6, <1>8 DEF Sending

(* The line, and its turn, at any step.                                    *)
LEMMA LineNext ==
    ASSUME TypeOK, Sending, Line, InTurn, [Next]_vars
    PROVE  /\ Line' /\ Sending' /\ InTurn' /\ line' \in Seq(Mark(frames'))
           /\ frames' \in Seq(Frames) /\ Len(frames') <= MaxFrames /\ sending' \in Nat
           /\ Len(frames) <= Len(frames') /\ \A k \in 1..Len(frames) : frames'[k] = frames[k]
<1>1. CASE Send
  <2>1. UNCHANGED <<decoder, ended, hurt, lost, fails>>
    BY <1>1 DEF Send, SendStart, SendByte, SendEnd
  <2> QED
    BY <1>1, <2>1, SendIs DEF InTurn
<1>2. CASE Decode \/ Lose
  <2>1. frames' = frames /\ sending' = sending /\ Line' /\ Sending' /\ InTurn' /\ line' \in Seq(Mark(frames'))
    BY <1>2, LeavesIs DEF sender
  <2>2. frames \in Seq(Frames) /\ Len(frames) <= MaxFrames /\ sending \in Nat /\ Len(frames) \in Nat
    BY DEF TypeOK
  <2> QED
    BY <2>1, <2>2
<1>3. CASE ReadFails \/ UNCHANGED vars
  <2>1. UNCHANGED <<sender, line, ended>>
    BY <1>3 DEF ReadFails, vars
  <2>2. Line' /\ Sending' /\ InTurn'
    BY <2>1 DEF Line, Meets, Sending, InTurn, NextFrame, sender
  <2> QED
    BY <2>1, <2>2 DEF TypeOK, sender, Mark
<1> QED
  BY <1>1, <1>2, <1>3 DEF Next

-----------------------------------------------------------------------------
(* Type correctness                                                        *)

Packet(fs) == [data : Seq(Byte), first : 1..Len(fs), last : 1..Len(fs)]

(* What is kept when frames are added.                                     *)
LEMMA SeqGrows ==
    ASSUME NEW A, NEW B, A \subseteq B, NEW q \in Seq(A)
    PROVE  q \in Seq(B)
OBVIOUS

LEMMA TypesGrow ==
    ASSUME NEW n \in Nat, NEW m \in Nat, n <= m
    PROVE  /\ 1..n \subseteq 1..m /\ 0..n \subseteq 0..m
           /\ \A q \in Seq([data : Seq(Byte), first : 1..n, last : 1..n]) :
                 q \in Seq([data : Seq(Byte), first : 1..m, last : 1..m])
<1>1. 1..n \subseteq 1..m /\ 0..n \subseteq 0..m
  OBVIOUS
<1>2. [data : Seq(Byte), first : 1..n, last : 1..n] \subseteq [data : Seq(Byte), first : 1..m, last : 1..m]
  BY <1>1
<1> QED
  BY <1>1, <1>2, SeqGrows

LEMMA TypeNext ==
    ASSUME TInv, Line, InTurn, [Next]_vars
    PROVE  TInv'
<1> USE DEF TInv
<1>1. /\ frames' \in Seq(Frames) /\ Len(frames') <= MaxFrames /\ sending' \in Nat /\ Sending'
      /\ line' \in Seq([byte : Byte, frame : 1..Len(frames'), at : Nat])
      /\ Len(frames) <= Len(frames') /\ Len(frames) \in Nat /\ Len(frames') \in Nat
  <2>1. frames \in Seq(Frames)
    BY DEF TypeOK
  <2> QED
    BY <2>1, LineNext DEF Mark
<1>2. SUFFICES /\ state' \in {"hunt", "body", "esc"}
               /\ dataBuffer' \in Seq(Byte)
               /\ opened' \in 0..Len(frames) /\ ended' \in 0..Len(frames)
               /\ decoded' \in Seq(Packet(frames))
               /\ hurt' \subseteq 1..Len(frames)
               /\ lost' \in 0..MaxLost /\ fails' \in 0..MaxFails
               /\ Within'
  <2>1. /\ 1..Len(frames) \subseteq 1..Len(frames') /\ 0..Len(frames) \subseteq 0..Len(frames')
        /\ decoded' \in Seq(Packet(frames)) => decoded' \in Seq(Packet(frames'))
    BY <1>1, TypesGrow DEF Packet
  <2> QED
    BY <1>1, <2>1 DEF TypeOK, Packet
<1>3. /\ state \in {"hunt", "body", "esc"} /\ dataBuffer \in Seq(Byte)
      /\ opened \in 0..Len(frames) /\ ended \in 0..Len(frames)
      /\ decoded \in Seq(Packet(frames)) /\ hurt \subseteq 1..Len(frames)
      /\ lost \in 0..MaxLost /\ fails \in 0..MaxFails
      /\ MaxLost \in Nat /\ MaxFails \in Nat
  BY FramesAssumption DEF TypeOK, Packet
<1>4. CASE Send
  BY <1>3, <1>4 DEF Send, SendStart, SendByte, SendEnd, decoder, Within
<1>5. CASE Decode \/ Lose
  <2> DEFINE h == NextByte
  <2>1. h.byte \in Byte /\ h.frame \in 1..Len(frames) /\ ended' \in 0..Len(frames) /\ h.frame > 0
    BY <1>1, <1>3, <1>5, LeavesIs
  <2>2. CASE Start
    BY <1>3, <2>1, <2>2 DEF Start, Take, Within
  <2>3. CASE Skip
    BY <1>3, <2>1, <2>3 DEF Skip, decoder, Within
  <2>4. CASE End
    <3>1. opened \in 1..Len(frames)
      BY <1>3, <2>4 DEF End, Within
    <3>2. [data |-> dataBuffer, first |-> opened, last |-> h.frame] \in Packet(frames)
      BY <1>3, <2>1, <3>1 DEF Packet
    <3>3. decoded' = Append(decoded, [data |-> dataBuffer, first |-> opened, last |-> h.frame])
          /\ state' = "hunt" /\ dataBuffer' = <<>> /\ UNCHANGED <<opened, hurt, lost, fails>>
      BY <2>4 DEF End
    <3>4. decoded' \in Seq(Packet(frames))
      BY <1>3, <3>2, <3>3
    <3>5. dataBuffer' \in Seq(Byte)
      BY <3>3
    <3> QED
      BY <1>3, <2>1, <3>3, <3>4, <3>5 DEF Within
  <2>5. CASE Esc
    BY <1>3, <2>1, <2>5 DEF Esc, Take, Within
  <2>6. CASE Data
    BY <1>3, <2>1, <2>6 DEF Data, Put, Within
  <2>7. CASE Escaped
    BY <1>3, <2>1, <2>7, CodesAre DEF Escaped, Put, Within
  <2>8. CASE Lose
    <3>1. /\ lost < MaxLost /\ lost' = lost + 1 /\ hurt' = hurt \cup {h.frame}
          /\ UNCHANGED <<state, dataBuffer, opened, decoded, fails>>
      BY <2>8 DEF Lose, decoder
    <3>2. lost' \in 0..MaxLost
      BY <1>3, <3>1
    <3>3. hurt' \subseteq 1..Len(frames)
      BY <1>3, <2>1, <3>1
    <3> QED
      BY <1>3, <2>1, <3>1, <3>2, <3>3 DEF Within
  <2> QED
    BY <1>5, <2>2, <2>3, <2>4, <2>5, <2>6, <2>7, <2>8 DEF Decode
<1>6. CASE ReadFails
  <2>1. /\ fails < MaxFails /\ fails' = fails + 1 /\ state' = "hunt" /\ dataBuffer' = <<>>
        /\ hurt' = hurt \/ hurt' = hurt \cup ({ended + 1} \cap 1..Len(frames))
        /\ UNCHANGED <<opened, decoded, ended, lost>>
    BY <1>6 DEF ReadFails, Disturb
  <2>2. fails' \in 0..MaxFails
    BY <1>3, <2>1
  <2>3. hurt' \subseteq 1..Len(frames)
    BY <1>3, <2>1
  <2> QED
    BY <1>3, <2>1, <2>2, <2>3 DEF Within
<1>7. CASE UNCHANGED vars
  BY <1>3, <1>7 DEF vars, decoder, Within
<1> QED
  BY <1>4, <1>5, <1>6, <1>7 DEF Next

LEMMA TypeInit == Init => TInv /\ Line /\ InTurn
BY FramesAssumption DEF Init, TInv, TypeOK, Within, Sending, Line, Chain, InTurn, NextFrame

(* The frames, the line, the decoder and the counters are of their types,  *)
(* for any frames and any number of losses and failed reads.               *)
THEOREM TypeCorrect == Spec => []TypeOK
<1>1. TInv /\ Line /\ InTurn /\ [Next]_vars => (TInv /\ Line /\ InTurn)'
  BY TypeNext, LineNext DEF TInv
<1>2. TInv => TypeOK
  BY DEF TInv
<1> QED
  BY <1>1, <1>2, TypeInit, PTL DEF Spec

-----------------------------------------------------------------------------
(* What was sent                                                           *)

(* The next byte and its place, and what is next when it has left.         *)
LEMMA NextIs ==
    ASSUME TInv, Line, InTurn, Decode \/ Lose, NEW f, f = frames[ended + 1]
    PROVE  LET b == NextByte.byte IN
           /\ ended + 1 \in 1..Len(frames) /\ f \in Seq(Byte) /\ Len(f) \in Nat /\ Len(f) >= 3
           /\ \A i \in 1..Len(f) : f[i] \in Byte
           /\ NextByte.frame = ended + 1 /\ NextFrame = ended + 1 /\ frames' = frames
           /\ b \in Byte /\ NextAt \in Nat /\ NextAt <= Len(f) + 1
           /\ b = SLIP_START => NextAt = 0
           /\ NextAt = 0 => b = SLIP_START
           /\ b = SLIP_END <=> NextAt = Len(f) + 1
           /\ b = SLIP_ESC => NextAt \in 1..Len(f) /\ f[NextAt] \in Special /\ ~Half
           /\ Half => NextAt \in 1..Len(f) /\ f[NextAt] \in Special /\ b = Code(f[NextAt]) /\ b \notin Special
           /\ ~Half /\ b \notin Special => NextAt \in 1..Len(f) /\ b = f[NextAt]
           /\ ended' = IF b = SLIP_END THEN ended + 1 ELSE ended
           /\ b = SLIP_ESC => NextAt' = NextAt /\ Half'
           /\ b = SLIP_END => NextAt' = 0 /\ ~Half'
           /\ b \notin {SLIP_ESC, SLIP_END} => NextAt' = NextAt + 1 /\ ~Half'
<1>1. /\ TypeOK /\ Sending /\ line # <<>> /\ line' = Tail(line) /\ UNCHANGED sender /\ frames' = frames
      /\ NextByte.frame \in 1..Len(frames) /\ NextByte.frame = ended + 1 /\ NextByte.byte \in Byte
      /\ ended' = IF NextByte.byte = SLIP_END THEN ended + 1 ELSE ended
  BY LeavesIs DEF TInv
<1>2. NextByte = Head(line)
  BY DEF NextByte
<1>3. /\ f \in Seq(Byte) /\ Len(f) \in Nat /\ Len(f) >= 3 /\ \A i \in 1..Len(f) : f[i] \in Byte
  BY <1>1, FrameIs
<1>4. f = frames[Head(line).frame]
  BY <1>1, <1>2
<1>5. LET h == Head(line) IN
           /\ h.at \in Nat /\ NextFrame = h.frame /\ NextAt = h.at /\ h.at <= Len(f) + 1
           /\ h.byte = SLIP_START => h.at = 0
           /\ h.at = 0 => h.byte = SLIP_START
           /\ h.byte = SLIP_END <=> h.at = Len(f) + 1
           /\ h.byte = SLIP_ESC => h.at \in 1..Len(f) /\ f[h.at] \in Special /\ ~Half
           /\ Half => h.at \in 1..Len(f) /\ f[h.at] \in Special /\ h.byte = Code(f[h.at])
                      /\ h.byte \notin Special
           /\ ~Half /\ h.byte \notin Special => h.at \in 1..Len(f) /\ h.byte = f[h.at]
  BY <1>1, <1>4, HeadIs
<1>6. LET h == Head(line) IN
           /\ h.byte = SLIP_ESC => NextAt' = h.at /\ Half'
           /\ h.byte = SLIP_END => NextAt' = 0 /\ ~Half'
           /\ h.byte \notin {SLIP_ESC, SLIP_END} => NextAt' = h.at + 1 /\ ~Half'
  BY <1>1, TakeIs
<1> QED
  BY <1>1, <1>2, <1>3, <1>5, <1>6

(* What the sender does is nothing to the decoder.                         *)
LEMMA SendsOnly ==
    ASSUME TInv, Line, InTurn, Send \/ UNCHANGED vars
    PROVE  /\ UNCHANGED <<state, dataBuffer, opened, decoded, ended, hurt, lost, fails>>
           /\ NextFrame' = NextFrame /\ NextAt' = NextAt /\ (Half' <=> Half)
           /\ Len(frames) <= Len(frames') /\ Len(frames) \in Nat /\ Len(frames') \in Nat
           /\ \A k \in 1..Len(frames) : frames'[k] = frames[k]
<1>1. CASE Send
  <2>1. UNCHANGED <<state, dataBuffer, opened, decoded, ended, hurt, lost, fails>>
    BY <1>1 DEF Send, SendStart, SendByte, SendEnd, decoder
  <2> QED
    BY <1>1, <2>1, SendIs DEF TInv, TypeOK
<1>2. CASE UNCHANGED vars
  BY <1>2 DEF vars, sender, decoder, NextFrame, NextAt, Half, TInv, TypeOK
<1> QED
  BY <1>1, <1>2

(* A failed read is nothing to the line.                                   *)
LEMMA FailsOnly ==
    ASSUME ReadFails
    PROVE  /\ UNCHANGED <<frames, opened, decoded, ended, lost>> /\ state' = "hunt"
           /\ NextFrame' = NextFrame /\ NextAt' = NextAt
           /\ hurt' = IF state = "hunt" THEN hurt ELSE hurt \cup ({ended + 1} \cap 1..Len(frames))
BY DEF ReadFails, Disturb, sender, NextFrame, NextAt

(* An escape is undone.                                                    *)
Unescaped(b) == CASE b = SLIP_ESC_START -> SLIP_START
                  [] b = SLIP_ESC_END   -> SLIP_END
                  [] b = SLIP_ESC_ESC   -> SLIP_ESC
                  [] OTHER              -> SLIP_END
LEMMA UnescapedIs == \A d \in Special : Unescaped(Code(d)) = d
BY CodesAre DEF Unescaped, Special

(* Every step keeps what the decoder has of a frame without loss.          *)
LEMMA DecodingNext ==
    ASSUME TInv, Line, InTurn, Decoding, [Next]_vars
    PROVE  Decoding'
<1>0. /\ opened \in 0..Len(frames) /\ ended \in 0..Len(frames) /\ dataBuffer \in Seq(Byte) /\ lost \in Nat
      /\ Len(frames) \in Nat
  BY FramesAssumption DEF TInv, TypeOK
<1>1. CASE Send \/ UNCHANGED vars
  <2>1. state # "hunt" => frames'[opened] = frames[opened]
    BY <1>0, <1>1, SendsOnly DEF TInv, Within
  <2> QED
    BY <1>1, <2>1, SendsOnly DEF Decoding, Intact
<1>2. CASE Decode \/ Lose
  <2> DEFINE f == frames[ended + 1]
             b == NextByte.byte
  <2>1. CASE Start
    <3>1. /\ state = "hunt" /\ b = SLIP_START /\ state' = "body" /\ opened' = NextByte.frame
          /\ dataBuffer' = dataBuffer
      BY <2>1 DEF Start, Take
    <3>2. NextAt' = 1 /\ ~Half' /\ ended' = ended /\ opened' = ended + 1
      BY <1>2, <3>1, NextIs, CodesAre
    <3>3. dataBuffer' = <<>> /\ Len(dataBuffer') = 0
      BY <3>1 DEF TInv, Within
    <3> QED
      BY <3>1, <3>2, <3>3 DEF Decoding
  <2>2. CASE Skip \/ End
    BY <2>2 DEF Skip, End, decoder, Decoding
  <2>3. CASE Esc
    <3>1. /\ state = "body" /\ b = SLIP_ESC /\ state' = "esc"
          /\ UNCHANGED <<dataBuffer, opened, lost, hurt>>
      BY <2>3 DEF Esc, Take
    <3>2. NextAt' = NextAt /\ Half' /\ ended' = ended /\ frames' = frames
      BY <1>2, <3>1, NextIs, CodesAre
    <3> QED
      BY <3>1, <3>2 DEF Decoding, Intact
  <2>4. ASSUME Intact, state # "hunt", NEW d, dataBuffer' = Append(dataBuffer, d), d = f[NextAt],
               NextAt' = NextAt + 1, ~Half', ended' = ended, opened' = opened, state' = "body", d \in Byte
        PROVE  Decoding'
    <3>1. /\ opened = ended + 1 /\ NextAt > 0 /\ Len(dataBuffer) = NextAt - 1 /\ NextAt \in Nat
          /\ \A i \in 1..Len(dataBuffer) : dataBuffer[i] = f[i]
      BY <1>2, <2>4, NextIs DEF Decoding
    <3>2. /\ Len(dataBuffer') = Len(dataBuffer) + 1 /\ dataBuffer'[Len(dataBuffer) + 1] = d
          /\ \A i \in 1..Len(dataBuffer) : dataBuffer'[i] = dataBuffer[i]
      BY <1>0, <2>4
    <3>3. \A i \in 1..Len(dataBuffer') : i \in 1..Len(dataBuffer) \/ i = NextAt
      BY <1>0, <3>1, <3>2
    <3>4. frames' = frames
      BY <1>2, LeavesIs DEF TInv
    <3>5. \A i \in 1..Len(dataBuffer') : dataBuffer'[i] = f[i]
      BY <2>4, <3>1, <3>2, <3>3
    <3>6. Len(dataBuffer') = NextAt' - 1 /\ NextAt' > 0
      BY <2>4, <3>1, <3>2
    <3> QED
      BY <2>4, <3>1, <3>4, <3>5, <3>6 DEF Decoding
  <2>5. CASE Data
    <3>1. /\ state = "body" /\ b \notin {SLIP_END, SLIP_ESC} /\ dataBuffer' = Append(dataBuffer, b)
          /\ UNCHANGED <<state, opened, lost, hurt>>
      BY <2>5 DEF Data, TakeOther, Put
    <3>2. CASE ~Intact
      BY <3>1, <3>2 DEF Decoding, Intact
    <3>3. CASE Intact
      <4>1. ~Half /\ NextAt > 0
        BY <3>1, <3>3 DEF Decoding
      <4>2. b # SLIP_START
        BY <1>2, <4>1, NextIs
      <4>3. b \in Byte /\ b = f[NextAt] /\ NextAt' = NextAt + 1 /\ ~Half' /\ ended' = ended
        BY <1>2, <3>1, <4>1, <4>2, NextIs DEF Special
      <4> QED
        BY <2>4, <3>1, <3>3, <4>3
    <3> QED
      BY <3>2, <3>3
  <2>6. CASE Escaped
    <3>1. /\ state = "esc" /\ state' = "body" /\ dataBuffer' = Append(dataBuffer, Unescaped(b))
          /\ UNCHANGED <<opened, lost, hurt>>
      BY <2>6 DEF Escaped, TakeOther, Put, Unescaped
    <3>2. CASE ~Intact
      BY <3>1, <3>2 DEF Decoding, Intact
    <3>3. CASE Intact
      <4>1. Half
        BY <3>1, <3>3 DEF Decoding
      <4>2. /\ NextAt \in 1..Len(f) /\ f[NextAt] \in Special /\ b = Code(f[NextAt])
            /\ b \notin {SLIP_END, SLIP_ESC} /\ f[NextAt] \in Byte
        BY <1>2, <4>1, NextIs, CodesAre DEF Special
      <4>3. Unescaped(b) = f[NextAt]
        BY <4>2, UnescapedIs
      <4>4. NextAt' = NextAt + 1 /\ ~Half' /\ ended' = ended
        BY <1>2, <4>2, NextIs
      <4> QED
        BY <2>4, <3>1, <3>3, <4>2, <4>3, <4>4
    <3> QED
      BY <3>2, <3>3
  <2>7. CASE Lose
    <3>1. lost' = lost + 1 /\ hurt' = hurt \cup {NextByte.frame} /\ UNCHANGED <<state, opened>>
      BY <2>7 DEF Lose, decoder
    <3>2. NextByte.frame = ended + 1
      BY <1>2, NextIs
    <3>3. state # "hunt" => ~Intact'
      BY <1>0, <3>1, <3>2 DEF Intact, Decoding
    <3> QED
      BY <3>1, <3>3 DEF Decoding
  <2> QED
    BY <1>2, <2>1, <2>2, <2>3, <2>5, <2>6, <2>7 DEF Decode
<1>3. CASE ReadFails
  BY <1>3, FailsOnly DEF Decoding
<1> QED
  BY <1>1, <1>2, <1>3 DEF Next

(* At the END of a frame without loss the decoder has the frame.           *)
LEMMA WholeFrame ==
    ASSUME TInv, Line, InTurn, Decoding, Intact, End
    PROVE  opened = ended + 1 /\ dataBuffer = frames[opened]
<1>1. state = "body" /\ NextByte.byte = SLIP_END /\ Decode
  BY DEF End, Take, Decode
<1>2. /\ opened = ended + 1 /\ Len(dataBuffer) = NextAt - 1
      /\ \A i \in 1..Len(dataBuffer) : dataBuffer[i] = frames[opened][i]
  BY <1>1 DEF Decoding
<1>3. NextAt = Len(frames[opened]) + 1 /\ frames[opened] \in Seq(Byte) /\ Len(frames[opened]) \in Nat
  BY <1>1, <1>2, NextIs
<1>4. dataBuffer \in Seq(Byte) /\ Len(dataBuffer) = Len(frames[opened])
  BY <1>2, <1>3 DEF TInv, TypeOK
<1> QED
  BY <1>2, <1>3, <1>4

(* A packet is added to what was decoded.                                  *)
LEMMA AppendIs ==
    ASSUME NEW S, NEW q \in Seq(S), NEW d \in S
    PROVE  /\ Len(q) \in Nat /\ Len(Append(q, d)) = Len(q) + 1 /\ Append(q, d)[Len(q) + 1] = d
           /\ \A i \in 1..Len(q) : Append(q, d)[i] = q[i]
           /\ \A i \in 1..(Len(q) + 1) : i \in 1..Len(q) \/ i = Len(q) + 1
OBVIOUS

LEMMA EndIs ==
    ASSUME TInv, Line, InTurn, End
    PROVE  LET p == [data |-> dataBuffer, first |-> opened, last |-> ended + 1]
               n == Len(decoded) + 1
           IN
           /\ Len(decoded) \in Nat /\ Len(decoded') = n /\ decoded'[n] = p
           /\ \A i \in 1..Len(decoded) : decoded'[i] = decoded[i] /\ i \in 1..n
           /\ \A i \in 1..n : i \in 1..Len(decoded) \/ i = n
           /\ n \in 1..n
           /\ ended \in Nat /\ ended + 1 \in 1..Len(frames) /\ opened \in 1..Len(frames)
           /\ ended' = ended + 1 /\ state = "body" /\ state' = "hunt" /\ NextAt' = 0 /\ NextAt > 0
           /\ NextByte.byte = SLIP_END
           /\ UNCHANGED <<frames, opened, hurt, lost, fails>>
<1> DEFINE p == [data |-> dataBuffer, first |-> opened, last |-> ended + 1]
<1>1. /\ state = "body" /\ NextByte.byte = SLIP_END /\ state' = "hunt"
      /\ decoded' = Append(decoded, [data |-> dataBuffer, first |-> opened, last |-> NextByte.frame])
      /\ UNCHANGED <<opened, hurt, lost, fails>>
  BY DEF End, Take
<1>2. /\ NextByte.frame = ended + 1 /\ ended + 1 \in 1..Len(frames) /\ ended' = ended + 1
      /\ frames' = frames /\ NextAt' = 0 /\ NextAt > 0
  BY <1>1, NextIs DEF Decode
<1>3. opened \in 1..Len(frames) /\ dataBuffer \in Seq(Byte) /\ decoded \in Seq(Packet(frames)) /\ ended \in Nat
  BY <1>1 DEF TInv, TypeOK, Within, Packet
<1>4. p \in Packet(frames) /\ decoded' = Append(decoded, p)
  BY <1>1, <1>2, <1>3 DEF Packet
<1>5. /\ Len(decoded) \in Nat /\ Len(decoded') = Len(decoded) + 1 /\ decoded'[Len(decoded) + 1] = p
      /\ \A i \in 1..Len(decoded) : decoded'[i] = decoded[i]
      /\ \A i \in 1..(Len(decoded) + 1) : i \in 1..Len(decoded) \/ i = Len(decoded) + 1
  BY <1>3, <1>4, AppendIs
<1> QED
  BY <1>1, <1>2, <1>3, <1>5

(* The packets decoded are records over the frames sent.                   *)
LEMMA PacketIs ==
    ASSUME TInv, NEW i \in 1..Len(decoded)
    PROVE  /\ decoded[i].first \in 1..Len(frames) /\ decoded[i].last \in 1..Len(frames)
           /\ decoded[i].data \in Seq(Byte)
<1>1. decoded \in Seq(Packet(frames))
  BY DEF TInv, TypeOK, Packet
<1>2. decoded[i] \in Packet(frames)
  BY <1>1
<1> QED
  BY <1>2 DEF Packet

(* All steps but End leave what was decoded alone.                         *)
LEMMA OthersKeep ==
    ASSUME TInv, Line, InTurn, [Next]_vars, ~End
    PROVE  /\ decoded' = decoded /\ ended' \in Nat /\ ended \in Nat /\ ended <= ended'
           /\ lost' \in Nat /\ lost \in Nat /\ lost <= lost' /\ hurt \subseteq hurt'
           /\ \A i \in 1..Len(decoded) : frames'[decoded[i].first] = frames[decoded[i].first]
<1>1. ended \in Nat /\ lost \in Nat
  BY FramesAssumption DEF TInv, TypeOK
<1>2. CASE Send \/ UNCHANGED vars
  BY <1>1, <1>2, SendsOnly, PacketIs
<1>3. CASE Decode \/ Lose
  <2>1. frames' = frames /\ (ended' = ended \/ ended' = ended + 1)
    BY <1>3, LeavesIs DEF TInv
  <2>2. decoded' = decoded /\ (lost' = lost \/ lost' = lost + 1) /\ hurt \subseteq hurt'
    BY <1>3 DEF Decode, Start, Skip, Esc, Data, Escaped, Lose, decoder
  <2> QED
    BY <1>1, <2>1, <2>2
<1>4. CASE ReadFails
  BY <1>1, <1>4, FailsOnly
<1> QED
  BY <1>2, <1>3, <1>4 DEF Next

-----------------------------------------------------------------------------
(* Nothing is decoded but what was sent                                    *)

LEMMA DecodedNext ==
    ASSUME TInv, Line, InTurn, Decoding, Decoded, [Next]_vars
    PROVE  Decoded'
<1>1. CASE End
  <2> DEFINE p == [data |-> dataBuffer, first |-> opened, last |-> ended + 1]
             n == Len(decoded) + 1
  <2>1. /\ Len(decoded) \in Nat /\ Len(decoded') = n /\ decoded'[n] = p
        /\ \A i \in 1..Len(decoded) : decoded'[i] = decoded[i]
        /\ \A i \in 1..n : i \in 1..Len(decoded) \/ i = n
        /\ ended \in Nat /\ ended' = ended + 1 /\ lost' = lost /\ frames' = frames
    BY <1>1, EndIs
  <2>2. \A i \in 1..Len(decoded) : decoded[i].last <= ended /\ decoded[i].last \in Nat
    BY PacketIs DEF Decoded
  <2>3. \A i \in 1..Len(decoded') : decoded'[i].last <= ended'
    BY <2>1, <2>2
  <2>4. ASSUME lost' = 0
        PROVE  /\ \A i \in 1..Len(decoded') : decoded'[i].data = frames'[decoded'[i].first]
               /\ \A i, j \in 1..Len(decoded') : i < j => decoded'[i].last < decoded'[j].first
    <3>1. opened = ended + 1 /\ dataBuffer = frames[opened]
      BY <1>1, <2>1, <2>4, WholeFrame DEF Intact
    <3>2. \A i \in 1..Len(decoded') : decoded'[i].data = frames'[decoded'[i].first]
      BY <2>1, <2>4, <3>1 DEF Decoded
    <3>3. ASSUME NEW i \in 1..Len(decoded'), NEW j \in 1..Len(decoded'), i < j
          PROVE  decoded'[i].last < decoded'[j].first
      <4>1. i \in 1..Len(decoded) /\ decoded'[i].last = decoded[i].last
        BY <2>1, <3>3
      <4>2. CASE j \in 1..Len(decoded)
        BY <2>1, <2>4, <3>3, <4>1, <4>2 DEF Decoded
      <4>3. CASE j = n
        BY <2>1, <2>2, <3>1, <4>1, <4>3
      <4> QED
        BY <2>1, <4>2, <4>3
    <3> QED
      BY <3>2, <3>3
  <2> QED
    BY <2>3, <2>4 DEF Decoded
<1>2. CASE ~End
  <2>1. /\ decoded' = decoded /\ ended' \in Nat /\ ended \in Nat /\ ended <= ended'
        /\ lost' \in Nat /\ lost \in Nat /\ lost <= lost'
        /\ \A i \in 1..Len(decoded) : frames'[decoded[i].first] = frames[decoded[i].first]
    BY <1>2, OthersKeep
  <2>2. \A i \in 1..Len(decoded) : decoded[i].last <= ended'
    BY <2>1, PacketIs DEF Decoded
  <2>3. lost' = 0 => lost = 0
    BY <2>1
  <2> QED
    BY <2>1, <2>2, <2>3 DEF Decoded
<1> QED
  BY <1>1, <1>2

LEMMA RangeIs ==
    ASSUME TInv
    PROVE  /\ \A p \in Range(decoded) : \E i \in 1..Len(decoded) : p = decoded[i]
           /\ \A i \in 1..Len(decoded) : decoded[i] \in Range(decoded)
           /\ DOMAIN decoded = 1..Len(decoded)
<1>1. DOMAIN decoded = 1..Len(decoded)
  BY DEF TInv, TypeOK
<1> QED
  BY <1>1 DEF Range

LEMMA DecodingInit == Init => Decoding /\ Decoded
<1> SUFFICES ASSUME Init PROVE Decoding /\ Decoded
  OBVIOUS
<1>1. decoded = <<>> /\ state = "hunt"
  BY DEF Init
<1>2. Len(decoded) = 0
  BY <1>1
<1> QED
  BY <1>1, <1>2 DEF Decoding, Decoded

(* As long as no byte is lost, every packet decoded is a frame that was    *)
(* sent, whole and in order, whatever reads failed (Packet.py 94-144).     *)
THEOREM Faithful == Spec => []OnlySentFrames
<1> DEFINE I == TInv /\ Line /\ InTurn /\ Decoding /\ Decoded
<1>1. Init => I
  BY TypeInit, DecodingInit
<1>2. I /\ [Next]_vars => I'
  BY TypeNext, LineNext, DecodingNext, DecodedNext DEF TInv
<1>3. I => OnlySentFrames
  BY RangeIs DEF Decoded, OnlySentFrames
<1> QED
  BY <1>1, <1>2, <1>3, PTL DEF Spec

-----------------------------------------------------------------------------
(* Damage does not spread                                                  *)

(* Inside a frame there is a frame.                                        *)
LEMMA FrameOfNext ==
    ASSUME TInv, Line, InTurn, NextAt > 0
    PROVE  ended + 1 \in 1..Len(frames)
<1>1. CASE line # <<>>
  <2>1. Head(line) \in Mark(frames)
    BY <1>1, HeadIs DEF TInv
  <2> QED
    BY <1>1, <2>1 DEF Mark, InTurn, NextFrame
<1>2. CASE line = <<>>
  <2>1. sending > 0 /\ NextFrame = Len(frames) /\ frames # <<>>
    BY <1>2 DEF NextAt, NextFrame, TInv, TypeOK, Sending
  <2>2. frames \in Seq(Frames)
    BY DEF TInv, TypeOK
  <2>3. Len(frames) \in Nat /\ Len(frames) > 0
    BY <2>1, <2>2
  <2> QED
    BY <2>1, <2>3 DEF InTurn
<1> QED
  BY <1>1, <1>2

LEMMA InStepNext ==
    ASSUME TInv, Line, InTurn, InStep, [Next]_vars
    PROVE  InStep'
<1>0. ended \in Nat /\ state \in {"hunt", "body", "esc"}
  BY DEF TInv, TypeOK
<1>1. CASE Send \/ UNCHANGED vars
  BY <1>1, SendsOnly DEF InStep
<1>2. CASE Decode \/ Lose
  <2> DEFINE b == NextByte.byte
  <2>1. /\ NextAt \in Nat
        /\ b = SLIP_START => NextAt = 0
        /\ NextAt = 0 => b = SLIP_START
        /\ Half => b \notin {SLIP_START, SLIP_END, SLIP_ESC}
        /\ b = SLIP_ESC => NextAt' = NextAt /\ Half' /\ ended' = ended /\ NextAt > 0
        /\ b = SLIP_END => NextAt' = 0 /\ ended' = ended + 1 /\ NextAt > 0
        /\ b \notin {SLIP_ESC, SLIP_END} => NextAt' = NextAt + 1 /\ ended' = ended
        /\ NextByte.frame = ended + 1
    BY <1>2, NextIs, CodesAre DEF Special
  <2>2. NextAt' > 0 => b # SLIP_END /\ ended' = ended
    BY <2>1
  <2>3. NextAt' = 0 => b = SLIP_END /\ ended' = ended + 1 /\ NextAt > 0
    BY <2>1
  <2>4. CASE Start
    <3>1. state' = "body" /\ opened' = ended + 1 /\ b = SLIP_START
      BY <2>1, <2>4 DEF Start, Take
    <3>2. ended' = ended
      BY <2>1, <3>1, CodesAre
    <3> QED
      BY <2>1, <3>1, <3>2, CodesAre DEF InStep
  <2>5. CASE Skip
    <3>1. state = "hunt" /\ b # SLIP_START /\ UNCHANGED <<state, opened, hurt>>
      BY <2>5 DEF Skip, TakeOther, decoder
    <3>2. NextAt > 0
      BY <2>1, <3>1
    <3> QED
      BY <2>2, <3>1, <3>2 DEF InStep
  <2>6. CASE End
    BY <2>6, EndIs DEF InStep
  <2>7. CASE Esc
    <3>1. state = "body" /\ b = SLIP_ESC /\ state' = "esc" /\ UNCHANGED <<opened, hurt>>
      BY <2>7 DEF Esc, Take
    <3> QED
      BY <2>1, <3>1 DEF InStep
  <2>8. ASSUME state # "hunt", UNCHANGED <<opened, hurt>>, state' = "body",
               NextAt' = 0 => ended' \in hurt
        PROVE  InStep'
    <3>1. NextAt' > 0 /\ ended \notin hurt => NextAt > 0
      BY <2>1, <2>8 DEF InStep
    <3> QED
      BY <2>2, <2>8, <3>1 DEF InStep
  <2>9. CASE Data
    <3>1. state = "body" /\ b # SLIP_END /\ UNCHANGED <<state, opened, hurt>>
      BY <2>9 DEF Data, TakeOther
    <3> QED
      BY <2>3, <2>8, <3>1
  <2>10. CASE Escaped
    <3>1. state = "esc" /\ state' = "body" /\ UNCHANGED <<opened, hurt>>
      BY <2>10 DEF Escaped
    <3>2. NextAt' = 0 => ended' \in hurt
      BY <2>1, <2>3, <3>1 DEF InStep
    <3> QED
      BY <2>8, <3>1, <3>2
  <2>11. CASE Lose
    <3>1. ended + 1 \in hurt'
      BY <2>1, <2>11 DEF Lose
    <3> QED
      BY <2>1, <2>2, <2>3, <3>1 DEF InStep
  <2> QED
    BY <1>2, <2>4, <2>5, <2>6, <2>7, <2>9, <2>10, <2>11 DEF Decode
<1>3. CASE ReadFails
  <2>1. NextAt > 0 /\ ended \notin hurt' /\ ended + 1 \notin hurt' => FALSE
    BY <1>3, FailsOnly, FrameOfNext DEF InStep
  <2> QED
    BY <1>3, <2>1, FailsOnly DEF InStep
<1> QED
  BY <1>1, <1>2, <1>3 DEF Next

(* What Recovers says, over the places of the packets.                     *)
Found(k) == \E i \in 1..Len(decoded) :
    decoded[i].data = frames[k] /\ decoded[i].first = k /\ decoded[i].last = k
AllFound == \A k \in 1..ended : k \notin hurt /\ k - 1 \notin hurt => Found(k)

LEMMA RecoversNext ==
    ASSUME TInv, Line, InTurn, Decoding, InStep, AllFound, [Next]_vars
    PROVE  AllFound'
<1>0. ended \in Nat /\ lost \in Nat /\ ended <= Len(frames) /\ Len(frames) \in Nat
  BY FramesAssumption DEF TInv, TypeOK
<1>1. ASSUME hurt \subseteq hurt', ended' = ended, decoded' = decoded,
             \A k \in 1..Len(frames) : frames'[k] = frames[k]
      PROVE  AllFound'
  BY <1>0, <1>1 DEF AllFound, Found
<1>2. CASE Send \/ UNCHANGED vars
  BY <1>1, <1>2, SendsOnly
<1>3. CASE End
  <2> DEFINE p == [data |-> dataBuffer, first |-> opened, last |-> ended + 1]
             n == Len(decoded) + 1
  <2>1. /\ Len(decoded') = n /\ decoded'[n] = p /\ n \in 1..n
        /\ \A i \in 1..Len(decoded) : decoded'[i] = decoded[i] /\ i \in 1..n
        /\ ended' = ended + 1 /\ frames' = frames /\ hurt' = hurt /\ NextAt > 0
    BY <1>3, EndIs
  <2>2. SUFFICES ASSUME NEW k \in 1..ended', k \notin hurt, k - 1 \notin hurt
                 PROVE  Found(k)'
    BY <2>1 DEF AllFound
  <2>3. CASE k \in 1..ended
    <3>1. PICK i \in 1..Len(decoded) :
             decoded[i].data = frames[k] /\ decoded[i].first = k /\ decoded[i].last = k
      BY <2>2, <2>3 DEF AllFound, Found
    <3>2. i \in 1..Len(decoded') /\ decoded'[i] = decoded[i]
      BY <2>1, <3>1
    <3> QED
      BY <2>1, <3>1, <3>2 DEF Found
  <2>4. CASE k = ended + 1
    <3>1. opened = ended + 1
      BY <1>0, <2>1, <2>2, <2>4 DEF InStep
    <3>2. dataBuffer = frames[k]
      BY <1>3, <2>2, <2>4, <3>1, WholeFrame DEF Intact
    <3> QED
      BY <2>1, <2>4, <3>1, <3>2 DEF Found
  <2> QED
    BY <1>0, <2>1, <2>3, <2>4
<1>4. CASE (Decode \/ Lose) /\ ~End
  <2> DEFINE b == NextByte.byte
  <2>1. decoded' = decoded /\ hurt \subseteq hurt'
    BY <1>4, OthersKeep DEF Next
  <2>2. /\ ended' = (IF b = SLIP_END THEN ended + 1 ELSE ended) /\ frames' = frames
        /\ b = SLIP_END => NextAt > 0 /\ ~Half
        /\ NextByte.frame = ended + 1
    BY <1>4, NextIs DEF Special
  <2>3. CASE b # SLIP_END
    BY <1>1, <2>1, <2>2, <2>3
  <2>4. CASE b = SLIP_END
    <3>1. ended + 1 \in hurt' \/ ended \in hurt'
      <4>1. CASE Skip
        BY <2>2, <2>4, <4>1 DEF Skip, decoder, InStep
      <4>2. CASE Escaped
        BY <2>2, <2>4, <4>2 DEF Escaped, InStep
      <4>3. CASE Lose
        BY <2>2, <4>3 DEF Lose
      <4>4. CASE Start \/ Esc \/ Data
        BY <2>4, <4>4, CodesAre DEF Start, Esc, Data, Take, TakeOther
      <4> QED
        BY <1>4, <4>1, <4>2, <4>3, <4>4 DEF Decode
    <3>2. SUFFICES ASSUME NEW k \in 1..ended', k \notin hurt', k - 1 \notin hurt'
                   PROVE  Found(k)'
      BY DEF AllFound
    <3>3. k \in 1..ended
      BY <1>0, <2>2, <2>4, <3>1, <3>2
    <3>4. Found(k)
      BY <2>1, <3>2, <3>3 DEF AllFound
    <3> QED
      BY <2>1, <2>2, <3>4 DEF Found
  <2> QED
    BY <2>3, <2>4
<1>5. CASE ReadFails
  <2>1. hurt \subseteq hurt' /\ ended' = ended /\ decoded' = decoded /\ frames' = frames
    BY <1>5, FailsOnly
  <2> QED
    BY <1>1, <2>1
<1> QED
  BY <1>2, <1>3, <1>4, <1>5 DEF Next

LEMMA InStepInit == Init => InStep /\ AllFound
<1> SUFFICES ASSUME Init PROVE InStep /\ AllFound
  OBVIOUS
<1>1. state = "hunt" /\ NextAt = 0 /\ ended = 0
  BY DEF Init, NextAt
<1> QED
  BY <1>1 DEF InStep, AllFound

(* A frame is decoded if it and the frame before it reached the host       *)
(* undisturbed, whatever happened to the others (Packet.py 122-144).       *)
THEOREM DamageEnds == Spec => []Recovers
<1> DEFINE I == TInv /\ Line /\ InTurn /\ Decoding /\ InStep /\ AllFound
<1>1. Init => I
  BY TypeInit, DecodingInit, InStepInit
<1>2. I /\ [Next]_vars => I'
  BY TypeNext, LineNext, DecodingNext, InStepNext, RecoversNext DEF TInv
<1>3. I => Recovers
  BY RangeIs DEF AllFound, Found, Recovers
<1> QED
  BY <1>1, <1>2, <1>3, PTL DEF Spec

-----------------------------------------------------------------------------
(* A lost byte shows in the length                                         *)

LEMMA OneLossNext ==
    ASSUME TInv, Line, InTurn, OneLoss, [Next]_vars
    PROVE  OneLoss'
<1>0. /\ ended \in Nat /\ lost \in Nat /\ dataBuffer \in Seq(Byte) /\ Len(dataBuffer) \in Nat
      /\ opened \in Nat /\ NextFrame = ended + 1 /\ Len(frames) \in Nat
  BY FramesAssumption DEF TInv, TypeOK, InTurn
<1>1. SUFFICES ASSUME lost' <= 1, AllPlain'
               PROVE  /\ state' # "esc"
                      /\ state' = "body" => HasAll' \/ HasLess' \/ HasMore'
                      /\ \A i \in 1..Len(decoded') : LET p == decoded'[i] IN
                            p.data = frames'[p.first] \/ Len(p.data) # Len(frames'[p.first])
  BY DEF OneLoss
<1>2. CASE End
  <2> DEFINE p == [data |-> dataBuffer, first |-> opened, last |-> ended + 1]
             n == Len(decoded) + 1
  <2>1. /\ Len(decoded) \in Nat /\ Len(decoded') = n /\ decoded'[n] = p
        /\ \A i \in 1..Len(decoded) : decoded'[i] = decoded[i]
        /\ \A i \in 1..n : i \in 1..Len(decoded) \/ i = n
        /\ frames' = frames /\ lost' = lost /\ state = "body" /\ state' = "hunt"
        /\ ended + 1 \in 1..Len(frames) /\ opened \in 1..Len(frames)
        /\ NextByte.byte = SLIP_END /\ NextAt > 0
    BY <1>2, EndIs
  <2>2. AllPlain
    BY <1>1, <2>1 DEF AllPlain
  <2>3. HasAll \/ HasLess \/ HasMore
    BY <1>1, <2>1, <2>2 DEF OneLoss
  <2>4. NextAt = Len(frames[ended + 1]) + 1 /\ NextAt \in Nat
    BY <1>2, <2>1, NextIs DEF Decode
  <2>5. frames[opened] \in Seq(Byte) /\ Len(frames[opened]) \in Nat
    BY <2>1, FrameIs DEF TInv
  <2>6. dataBuffer = frames[opened] \/ Len(dataBuffer) # Len(frames[opened])
    <3>1. CASE HasAll
      <4>1. Len(dataBuffer) = Len(frames[opened])
        BY <1>0, <2>4, <3>1 DEF HasAll
      <4> QED
        BY <1>0, <2>5, <3>1, <4>1 DEF HasAll
    <3>2. CASE HasLess
      BY <1>0, <2>4, <2>5, <3>2 DEF HasLess
    <3>3. CASE HasMore
      <4>1. Len(dataBuffer) = Len(frames[opened]) + NextAt
        BY <3>3 DEF HasMore
      <4>2. \A m \in Nat : m + NextAt # m
        BY <2>1, <2>4
      <4> QED
        BY <2>5, <4>1, <4>2
    <3> QED
      BY <2>3, <3>1, <3>2, <3>3
  <2>7. p.data = dataBuffer /\ p.first = opened
    OBVIOUS
  <2>8. ASSUME NEW i \in 1..Len(decoded')
        PROVE  LET q == decoded'[i] IN q.data = frames'[q.first] \/ Len(q.data) # Len(frames'[q.first])
    <3>1. CASE i \in 1..Len(decoded)
      BY <1>1, <2>1, <2>2, <3>1 DEF OneLoss
    <3>2. CASE i = n
      BY <2>1, <2>6, <2>7, <3>2
    <3> QED
      BY <2>1, <3>1, <3>2
  <2> QED
    BY <2>1, <2>8
<1>3. CASE ~End
  <2>1. /\ decoded' = decoded /\ lost <= lost'
        /\ \A i \in 1..Len(decoded) : frames'[decoded[i].first] = frames[decoded[i].first]
    BY <1>3, OthersKeep
  <2>2. /\ Len(frames) <= Len(frames') /\ Len(frames') \in Nat
        /\ \A k \in 1..Len(frames) : frames'[k] = frames[k]
    <3>1. frames' \in Seq(Frames)
      BY LineNext DEF TInv
    <3> QED
      BY <3>1, LineNext DEF TInv
  <2>3. AllPlain
    BY <1>0, <1>1, <2>2 DEF AllPlain
  <2>4. lost <= 1 /\ lost' \in Nat
    BY <1>0, <1>1, <1>3, <2>1, OthersKeep
  <2>5. /\ state # "esc"
        /\ state = "body" => HasAll \/ HasLess \/ HasMore
        /\ \A i \in 1..Len(decoded) : LET p == decoded[i] IN
              p.data = frames[p.first] \/ Len(p.data) # Len(frames[p.first])
    BY <2>3, <2>4 DEF OneLoss
  <2>6. SUFFICES state' # "esc" /\ (state' = "body" => HasAll' \/ HasLess' \/ HasMore')
    BY <2>1, <2>5
  <2>7. CASE Send \/ UNCHANGED vars
    <3>1. state = "body" => opened \in 1..Len(frames)
      BY DEF TInv, TypeOK, Within
    <3>2. state = "body" => frames'[opened] = frames[opened]
      BY <2>2, <3>1
    <3> QED
      BY <2>5, <2>7, <3>2, SendsOnly DEF HasAll, HasLess, HasMore
  <2>8. CASE Decode \/ Lose
    <3> DEFINE f == frames[ended + 1]
               b == NextByte.byte
    <3>1. /\ ended + 1 \in 1..Len(frames) /\ f \in Seq(Byte) /\ Len(f) \in Nat
          /\ b \in Byte /\ NextAt \in Nat /\ NextByte.frame = ended + 1 /\ frames' = frames
          /\ b = SLIP_START => NextAt = 0
          /\ b = SLIP_END <=> NextAt = Len(f) + 1
          /\ b = SLIP_ESC => NextAt \in 1..Len(f) /\ f[NextAt] \in Special
          /\ Half => NextAt \in 1..Len(f) /\ f[NextAt] \in Special
          /\ ~Half /\ b \notin Special => NextAt \in 1..Len(f) /\ b = f[NextAt]
          /\ ended' = IF b = SLIP_END THEN ended + 1 ELSE ended
          /\ b = SLIP_END => NextAt' = 0
          /\ b \notin {SLIP_ESC, SLIP_END} => NextAt' = NextAt + 1
      BY <2>8, NextIs
    <3>2. \A i \in 1..Len(f) : f[i] \notin Special
      BY <2>3, <3>1 DEF AllPlain, Plain, Special
    <3>3. b # SLIP_ESC /\ ~Half
      BY <3>1, <3>2
    <3>4. NextFrame' = ended' + 1
      BY LineNext DEF TInv, InTurn
    <3>5. CASE Start
      <4>1. state' = "body" /\ opened' = ended + 1 /\ b = SLIP_START /\ dataBuffer' = <<>>
        BY <3>1, <3>5 DEF Start, Take, TInv, Within
      <4>2. Len(dataBuffer') = 0
        BY <4>1
      <4>3. NextAt' = 1 /\ NextFrame' = ended + 1
        BY <3>1, <3>4, <4>1, CodesAre
      <4> QED
        BY <4>1, <4>2, <4>3 DEF HasAll
    <3>6. CASE Skip
      BY <3>6 DEF Skip, decoder
    <3>7. CASE Esc \/ Escaped
      BY <2>5, <3>3, <3>7 DEF Esc, Escaped, Take
    <3>8. CASE Data
      <4>1. /\ state = "body" /\ b # SLIP_END /\ dataBuffer' = Append(dataBuffer, b)
            /\ UNCHANGED <<state, opened, lost>>
        BY <3>8 DEF Data, TakeOther, Put
      <4>2. NextAt' = NextAt + 1 /\ NextFrame' = NextFrame /\ ended' = ended
        BY <1>0, <3>1, <3>3, <3>4, <4>1
      <4>3. /\ Len(dataBuffer') = Len(dataBuffer) + 1 /\ dataBuffer'[Len(dataBuffer) + 1] = b
            /\ \A i \in 1..Len(dataBuffer) : dataBuffer'[i] = dataBuffer[i]
            /\ \A i \in 1..(Len(dataBuffer) + 1) : i \in 1..Len(dataBuffer) \/ i = Len(dataBuffer) + 1
        BY <1>0, <3>1, <4>1, AppendIs
      <4>4. CASE HasAll
        <5>1. /\ opened = ended + 1 /\ NextAt > 0 /\ Len(dataBuffer) = NextAt - 1
              /\ \A i \in 1..Len(dataBuffer) : dataBuffer[i] = f[i]
          BY <1>0, <4>4 DEF HasAll
        <5>2. b = f[NextAt]
          BY <3>1, <3>3, <4>1, <5>1 DEF Special
        <5>3. Len(dataBuffer) + 1 = NextAt
          BY <3>1, <5>1
        <5>4. \A i \in 1..Len(dataBuffer') : dataBuffer'[i] = f[i]
          BY <4>3, <5>1, <5>2, <5>3
        <5>5. Len(dataBuffer') = NextAt' - 1 /\ NextAt' > 0
          BY <3>1, <4>2, <4>3, <5>1
        <5> QED
          BY <1>0, <3>1, <4>1, <4>2, <5>1, <5>4, <5>5 DEF HasAll
      <4>5. CASE HasLess
        <5>1. Len(dataBuffer') = NextAt' - 2 /\ NextAt' > 0
          BY <1>0, <3>1, <4>2, <4>3, <4>5 DEF HasLess
        <5>2. lost' = 1 /\ opened' = NextFrame'
          BY <4>1, <4>2, <4>5 DEF HasLess
        <5> QED
          BY <4>1, <5>1, <5>2 DEF HasLess
      <4>6. CASE HasMore
        <5>1. opened \in 1..Len(frames)
          BY <4>1 DEF TInv, TypeOK, Within
        <5>2. Len(frames[opened]) \in Nat
          BY <5>1, FrameIs DEF TInv
        <5>3. \A m, k \in Nat : k = m + NextAt => k + 1 = m + (NextAt + 1)
          BY <3>1
        <5>4. Len(dataBuffer') = Len(frames[opened]) + NextAt'
          BY <1>0, <4>2, <4>3, <4>6, <5>2, <5>3 DEF HasMore
        <5> QED
          BY <3>1, <4>1, <4>2, <4>6, <5>4 DEF HasMore
      <4> QED
        BY <2>5, <4>1, <4>4, <4>5, <4>6
    <3>9. CASE Lose
      <4>1. lost' = lost + 1 /\ UNCHANGED <<state, dataBuffer, opened>>
        BY <3>9 DEF Lose, decoder
      <4>2. lost = 0 /\ lost' = 1
        BY <1>0, <1>1, <4>1
      <4>3. state = "body" => HasAll
        BY <2>5, <4>2 DEF HasLess, HasMore
      <4>4. CASE b = SLIP_END
        <5>1. NextFrame' = NextFrame + 1 /\ NextAt' = 0
          BY <1>0, <3>1, <3>4, <4>4
        <5>2. state = "body" => opened = ended + 1 /\ Len(dataBuffer) = Len(f)
          BY <1>0, <3>1, <4>3, <4>4 DEF HasAll
        <5>3. state = "body" => Len(dataBuffer') = Len(frames'[opened']) + NextAt' /\ opened' + 1 = NextFrame'
          BY <1>0, <3>1, <4>1, <5>1, <5>2
        <5> QED
          BY <2>5, <4>1, <4>2, <5>3 DEF HasMore
      <4>5. CASE b # SLIP_END
        <5>1. NextFrame' = NextFrame /\ NextAt' = NextAt + 1
          BY <1>0, <3>1, <3>3, <3>4, <4>5
        <5> QED
          BY <1>0, <2>5, <3>1, <4>1, <4>2, <4>3, <5>1 DEF HasAll, HasLess
      <4> QED
        BY <4>4, <4>5
    <3> QED
      BY <1>3, <2>8, <3>5, <3>6, <3>7, <3>8, <3>9 DEF Decode
  <2>9. CASE ReadFails
    BY <2>9, FailsOnly
  <2> QED
    BY <2>7, <2>8, <2>9 DEF Next
<1> QED
  BY <1>2, <1>3

LEMMA OneLossInit == Init => OneLoss
<1> SUFFICES ASSUME Init PROVE OneLoss
  OBVIOUS
<1>1. decoded = <<>> /\ state = "hunt"
  BY DEF Init
<1>2. Len(decoded) = 0
  BY <1>1
<1> QED
  BY <1>1, <1>2 DEF OneLoss

(* What has the same header as a valid frame and is valid is as long.      *)
LEMMA SameLength ==
    ASSUME NEW d, NEW e, Valid(d), Valid(e), Len(d) \in Nat, Len(e) \in Nat,
           d[1] = e[1], d[2] = e[2], d[3] = e[3]
    PROVE  Len(d) = Len(e)
BY FramesAssumption DEF Valid, PayloadLength

(* With one byte lost, what is decoded and passes the length test under    *)
(* the header of the frame it began as is that frame (Packet.py 431-439).  *)
THEOREM LengthTestFindsALoss == Spec => []LossDetected
<1> DEFINE I == TInv /\ Line /\ InTurn /\ OneLoss
<1>1. Init => I
  BY TypeInit, OneLossInit
<1>2. I /\ [Next]_vars => I'
  BY TypeNext, LineNext, OneLossNext DEF TInv
<1>3. I => LossDetected
  <2> SUFFICES ASSUME I, lost <= 1, \A f \in Range(frames) : Plain(f), NEW p \in Range(decoded),
                      Valid(p.data), \A i \in 1..3 : p.data[i] = frames[p.first][i]
               PROVE  p.data = frames[p.first]
    BY DEF LossDetected
  <2>1. PICK i \in 1..Len(decoded) : p = decoded[i]
    BY RangeIs
  <2>2. AllPlain
    <3>1. DOMAIN frames = 1..Len(frames)
      BY DEF TInv, TypeOK
    <3> QED
      BY <3>1 DEF AllPlain, Range
  <2>3. p.first \in 1..Len(frames) /\ p.data \in Seq(Byte)
    BY <2>1, PacketIs
  <2>4. Valid(frames[p.first]) /\ Len(frames[p.first]) \in Nat
    BY <2>3, FrameIs DEF TInv
  <2>5. Len(p.data) = Len(frames[p.first])
    <3>1. p.data[1] = frames[p.first][1] /\ p.data[2] = frames[p.first][2] /\ p.data[3] = frames[p.first][3]
      OBVIOUS
    <3>2. Len(p.data) \in Nat /\ Valid(p.data)
      BY <2>3
    <3> QED
      BY <2>4, <3>1, <3>2, SameLength, Zenon
  <2> QED
    BY <2>1, <2>2, <2>5 DEF OneLoss
<1> QED
  BY <1>1, <1>2, <1>3, PTL DEF Spec
=============================================================================
