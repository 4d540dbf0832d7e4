-------------------------- MODULE MCMessageBuffer ---------------------------
(***************************************************************************)
(* Blocks of two bytes, a chain that grows to four and may be one too long *)
(* for reset: reads within a block, to its end and across two.             *)
(***************************************************************************)
EXTENDS MessageBuffer, TLC

\* Neighbours differ, within an arrival of up to five bytes and mostly across.
MCByte == 0..2
MCArrivals == {[k \in 1..n |-> k % 3] : n \in {1, 2, 5}}
=============================================================================
