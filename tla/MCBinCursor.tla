----------------------------- MODULE MCBinCursor -----------------------------
(***************************************************************************)
(* Model-checking instance of the cursor API: every buffer of at most 3   *)
(* bytes over {0, 1, 0x81}, and four buffers that start with the 8-byte   *)
(* length of ReadRustString (and the 8 bytes of ReadTypeID): a length of  *)
(* 1 with its body, a length of 3 with one byte of body, a length with    *)
(* the top bit set, and a length beyond 2^32.                             *)
(***************************************************************************)
EXTENDS BinCursor

MaxShort == 3
ShortBuffers == UNION {[1..k -> {0, 1, 129}] : k \in 0..MaxShort}
RustBuffers ==
  { <<1, 0, 0, 0, 0, 0, 0, 0, 5>>,
    <<3, 0, 0, 0, 0, 0, 0, 0, 5>>,
    <<0, 0, 0, 0, 0, 0, 0, 129, 5>>,
    <<0, 0, 0, 0, 1, 0, 0, 0, 5>> }
MCBuffers == ShortBuffers \cup RustBuffers

(* Arguments a caller may pass: every position and count in a buffer, one *)
(* past it, and (WrapArgs) the uints whose int() is negative.             *)
InRangeArgs == 0..10
WrapArgs == {0, 1, 2, 8, 9, 2 * MaxInt, 2 * MaxInt + 1}
NegativeRust == {<<0, 0, 0, 0, 0, 0, 0, 129, 5>>, <<1, 0>>}
=============================================================================
