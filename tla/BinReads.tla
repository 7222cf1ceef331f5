------------------------------ MODULE BinReads ------------------------------
(***************************************************************************)
(* The Decoder's buffer and cursor (src/decoder.go: Decoder.data and       *)
(* Decoder.pos) and what the primitive reads compute from them: the bytes  *)
(* remaining, and binary.Uvarint as ReadUvarint64 and ReadVarint64 call it *)
(* on dec.data[dec.pos:].  Shared by the decode engine (BinDecode) and the *)
(* public cursor API (BinCursor).                                          *)
(***************************************************************************)
EXTENDS Integers, Sequences

VARIABLES
  data,     \* dec.data
  pos       \* dec.pos

Byte == 0..255


(* Mutation: Remaining() off by one.                                       *)
RemainingOffByOne == Len(data) - pos + 1
Remaining == Len(data) - pos
Rest == SubSeq(data, pos + 1, Len(data))

MaxVarintLen64 == 10

(* binary.Uvarint(buf): the index of the first byte without continuation   *)
(* bit, and the count it returns: bytes read, 0 if buf ends first, or      *)
(* -(i+1) when the value overflows 64 bits.                                *)
FirstStop(buf) == CHOOSE j \in 1..Len(buf) : buf[j] < 128 /\ \A m \in 1..(j - 1) : buf[m] >= 128
UvarintRead(buf) ==
  IF \A j \in 1..Len(buf) : j <= MaxVarintLen64 => buf[j] >= 128
    THEN IF Len(buf) > MaxVarintLen64 THEN -(MaxVarintLen64 + 1) ELSE 0
    ELSE IF FirstStop(buf) = MaxVarintLen64 /\ buf[MaxVarintLen64] > 1
           THEN -MaxVarintLen64
           ELSE FirstStop(buf)

(* The value of the first k bytes, seven bits each, low group first.       *)
UvarintValue(buf, k) ==
  LET d(j) == IF j <= k THEN buf[j] % 128 ELSE 0
  IN d(1) + 128 * (d(2) + 128 * (d(3) + 128 * (d(4) + 128 * (d(5)
      + 128 * (d(6) + 128 * (d(7) + 128 * (d(8) + 128 * (d(9) + 128 * d(10)))))))))

(* int(v) of a uint64 v decoded from k bytes: only a 10-byte varint can    *)
(* reach 2^63.                                                             *)
GoInt(v, k) == IF k = MaxVarintLen64 /\ v >= 2^63 THEN v - 2^64 ELSE v

=============================================================================
