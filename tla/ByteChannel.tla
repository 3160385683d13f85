---------------------------- MODULE ByteChannel ----------------------------
(***************************************************************************)
(* What the serial read path promises the packet decoder: a first-in       *)
(* first-out channel of bytes.  A delivery appends bytes, a take removes   *)
(* the oldest one, and a read that comes back empty-handed changes         *)
(* nothing.  Bytes are named by the position in which they arrived.        *)
(***************************************************************************)
EXTENDS Naturals, Sequences

CONSTANT Chunk  \* bound: bytes one delivery may carry

VARIABLES
    chan,       \* bytes received from the port and not yet handed out
    got         \* bytes handed to the decoder, in order

Init ==
    /\ chan = <<>>
    /\ got = <<>>

(* The port driver hands over the bytes that arrived since the last read.  *)
Deliver ==
    \E n \in 1..Chunk :
        /\ chan' = chan \o [i \in 1..n |-> Len(got) + Len(chan) + i]
        /\ got' = got

Take ==
    /\ chan # <<>>
    /\ got' = Append(got, Head(chan))
    /\ chan' = Tail(chan)

Next == Deliver \/ Take

Spec == Init /\ [][Next]_<<chan, got>>
=============================================================================
