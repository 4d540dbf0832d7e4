----------------------------- MODULE ByteQueue ------------------------------
(***************************************************************************)
(* What message_buffer promises its caller: a queue of bytes, read from    *)
(* the front, with an index of the caller's from which bytes ahead can be  *)
(* looked at without taking them.                                          *)
(***************************************************************************)
EXTENDS Integers, Sequences

VARIABLES queue, \* the bytes not yet read
          ahead, \* how many of them the index is past, or -1: there is none
          in,    \* the bytes that arrived in the last step
          out    \* the bytes read or peeked in it

qvars == <<queue, ahead, in, out>>

QInit == queue = << >> /\ ahead = -1 /\ in = << >> /\ out = << >>

Gives(n, from) == out' = SubSeq(queue, from + 1, from + n) /\ in' = << >>

\* Bytes arrive behind those there are (or none do).
Put == queue' = queue \o in' /\ out' = << >> /\ UNCHANGED ahead

\* The first n bytes are read, or skipped; an index is worth nothing then.
Take(n) == Gives(n, 0) /\ queue' = SubSeq(queue, n + 1, Len(queue)) /\ ahead' = -1
Drop(n) == Gives(0, 0) /\ queue' = SubSeq(queue, n + 1, Len(queue)) /\ ahead' = -1

Mark == Gives(0, 0) /\ ahead' = 0 /\ UNCHANGED queue
Look(n) == /\ ahead >= 0 /\ ahead + n <= Len(queue)
           /\ Gives(n, ahead) /\ ahead' = ahead + n /\ UNCHANGED queue

QNext == Put \/ Mark \/ \E n \in 0..Len(queue) : Take(n) \/ Drop(n) \/ Look(n)
QSpec == QInit /\ [][QNext]_qvars
=============================================================================
