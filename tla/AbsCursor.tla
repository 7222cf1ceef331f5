------------------------------ MODULE AbsCursor ------------------------------
(***************************************************************************)
(* What spec.md promises of a ByteCursor: an immutable byte buffer and a   *)
(* read position that is always in [0, len(buffer)].  Reads move the      *)
(* position forward over bytes that are there; the position can also be   *)
(* set to a place inside the buffer.  Both the decode engine (BinDecode)  *)
(* and the public cursor API (BinCursor) are shown to implement it.       *)
(***************************************************************************)
EXTENDS Integers, Sequences

CONSTANTS
  Buffers,      \* the buffers a decoder may be created with
  CanSeek       \* whether the client may set the position

VARIABLES data, pos

Init == data \in Buffers /\ pos = 0

(* A read consumes bytes that remain.                                      *)
Advance == \E k \in 1..(Len(data) - pos) : pos' = pos + k /\ UNCHANGED data

(* The position is set to a place in the buffer.                           *)
Seek == CanSeek /\ \E j \in 0..Len(data) : pos' = j /\ UNCHANGED data

Spec == Init /\ [][Advance \/ Seek]_<<data, pos>>
=============================================================================
