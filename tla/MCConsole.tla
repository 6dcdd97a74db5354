----------------------------- MODULE MCConsole ------------------------------
(* A small instance of Console.                                            *)
EXTENDS Console, TLC

(* The cells outside r .. e are never read before they are written.        *)
Live == [k \in 1 .. Minus(input.e, input.r) |-> input.buf[Cell(input.r + k - 1)]]
RingView == <<[input EXCEPT !.buf = Live], lockvars, intr, state, pc, rd, killed, cur, at, skipped>>
=============================================================================
