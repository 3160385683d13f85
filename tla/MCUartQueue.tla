---------------------------- MODULE MCUartQueue ----------------------------
(***************************************************************************)
(* Model checking UartQueue on a handful of bytes.                         *)
(***************************************************************************)
EXTENDS UartQueue

(* Four bytes in chunks of at most two: a chunk can arrive while the deque *)
(* is empty, while it holds a remainder, and after it was drained between  *)
(* the worker's two steps.                                                 *)
MCNBytes == 4
MCMaxChunk == 2
=============================================================================
