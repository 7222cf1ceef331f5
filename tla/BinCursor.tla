------------------------------ MODULE BinCursor ------------------------------
(***************************************************************************)
(* The public cursor API of a Bin Decoder (src/decoder.go): the calls a    *)
(* BinaryUnmarshaler or any other client makes on the Decoder.  Each       *)
(* action is one call, with its arguments drawn from small sets; status    *)
(* records how the last call ended.  A panic ends the program.            *)
(*                                                                         *)
(* Go's int tops at MaxInt (math.MaxInt, 2^63 - 1 in the build) and uint  *)
(* at 2 * MaxInt + 1: the conversions int(uint) and uint(int) wrap modulo  *)
(* 2 * (MaxInt + 1) exactly as they do at 2^64.                            *)
(***************************************************************************)
EXTENDS BinReads

CONSTANTS
  Buffers,  \* the buffers NewBinDecoder is called with
  Args,     \* the uint arguments callers pass (and, reinterpreted, the int ones)
  MaxInt    \* the largest int of Go (math.MaxInt)

ASSUME CursorAssumption ==
  /\ Buffers \subseteq Seq(Byte)
  /\ MaxInt \in Nat
  /\ Args \subseteq 0..(2 * MaxInt + 1)

VARIABLE status     \* "ok", "error": how the last call ended; "panic"

vars == <<data, pos, status>>

(* int(u) and uint(i) of Go: two's complement modulo 2 * (MaxInt + 1).    *)
ToInt(u) == IF u > MaxInt THEN u - 2 * (MaxInt + 1) ELSE u
ToUint(i) == i % (2 * (MaxInt + 1))

(* TypeSize of the fixed-width reads: Byte/Bool/(U)Int8, (U)Int16,          *)
(* (U)Int32/Float32, (U)Int64/Float64, (U)Int128/Float128.                 *)
FixedWidths == {1, 2, 4, 8, 16}

(* The uint64 little-endian length ReadRustString reads, as int(length):   *)
(* -1 stands for every negative int (top bit set), BigLen for every value  *)
(* past the last byte of any buffer, and a length below 2^24 is exact.     *)
BigLen == 2^24
RustLen(b) ==
  IF b[8] >= 128 THEN -1
  ELSE IF \E j \in 4..8 : b[j] # 0 THEN BigLen
  ELSE b[1] + 256 * (b[2] + 256 * b[3])

Ok == status' = "ok"
Err == status' = "error" /\ UNCHANGED pos
Panic == status' = "panic" /\ UNCHANGED pos

Init ==
  /\ data \in Buffers
  /\ pos = 0
  /\ status = "ok"

(* ReadByte, ReadBool, ReadUint16 ... ReadUint128 and their signed and     *)
(* float forms: check Remaining() against the width, then read            *)
(* dec.data[dec.pos:], which panics for a negative dec.pos.                *)
FixedRead(w) ==
  \/ Remaining < w /\ Err
  \/ Remaining >= w /\ pos < 0 /\ Panic
  \/ Remaining >= w /\ pos >= 0 /\ pos' = pos + w /\ Ok

(* readNBytes(n, dec) from position p: make([]byte, n), then ReadByte n    *)
(* times; the first ReadByte that finds no byte fails, after the earlier   *)
(* ones have moved dec.pos.                                                *)
ReadNBytesAt(p, n) ==
  \/ n < 0 /\ Panic
  \/ n = 0 /\ pos' = p /\ Ok
  \/ n > 0 /\ p < 0 /\ Panic
  \/ n > 0 /\ p >= 0 /\ p + n <= Len(data) /\ pos' = p + n /\ Ok
  \/ n > 0 /\ p >= 0 /\ p + n > Len(data) /\ pos' = Len(data) /\ status' = "error"

(* ReadUvarint64 / ReadVarint64 (and the 16/32-bit forms that call them):  *)
(* binary.(U)varint(dec.data[dec.pos:]); a count <= 0 is an error.         *)
(* Varint decodes its count with Uvarint, so both read the same bytes.     *)
ReadVarint ==
  /\ status # "panic"
  /\ \/ pos < 0 /\ Panic
     \/ pos >= 0 /\ UvarintRead(Rest) <= 0 /\ Err
     \/ pos >= 0 /\ UvarintRead(Rest) > 0 /\ pos' = pos + UvarintRead(Rest) /\ Ok
  /\ UNCHANGED data

ReadFixed ==
  /\ status # "panic"
  /\ \E w \in FixedWidths : FixedRead(w)
  /\ UNCHANGED data

(* ReadByteSlice (ReadString, SafeReadUTF8String): ReadLength is           *)
(* ReadUvarint64 for Bin, then the body dec.data[pos:pos+length] if it    *)
(* fits; a negative int(length) passes the check and panics in slicing.   *)
ReadByteSlice ==
  /\ status # "panic"
  /\ LET r == UvarintRead(Rest)
         l == GoInt(UvarintValue(Rest, r), r)
     IN \/ pos < 0 /\ Panic
        \/ pos >= 0 /\ r <= 0 /\ Err
        \/ pos >= 0 /\ r > 0 /\ Len(data) < pos + r + l /\ pos' = pos + r /\ status' = "error"
        \/ pos >= 0 /\ r > 0 /\ ~(Len(data) < pos + r + l) /\ l < 0 /\ Panic
        \/ pos >= 0 /\ r > 0 /\ ~(Len(data) < pos + r + l) /\ l >= 0 /\ pos' = pos + r + l /\ Ok
  /\ UNCHANGED data

(* ReadNBytes(n) with n an int; ReadTypeID is ReadNBytes(8).               *)
ReadNBytes ==
  /\ status # "panic"
  /\ \E a \in Args \cup {8} : ReadNBytesAt(pos, ToInt(a))
  /\ UNCHANGED data

(* ReadRustString: ReadUint64(LE), then ReadNBytes(int(length)).          *)
ReadRustString ==
  /\ status # "panic"
  /\ \/ FixedRead(8) /\ status' # "ok"
     \/ Remaining >= 8 /\ pos >= 0
        /\ ReadNBytesAt(pos + 8, RustLen(SubSeq(data, pos + 1, pos + 8)))
  /\ UNCHANGED data

(* Peek(n): no move; n < 0 and n > Remaining() are errors.                 *)
Peek ==
  /\ status # "panic"
  /\ \E a \in Args :
       LET n == ToInt(a) IN
       \/ (n < 0 \/ Remaining < n) /\ Err
       \/ n >= 0 /\ Remaining >= n /\ pos < 0 /\ Panic
       \/ n >= 0 /\ Remaining >= n /\ pos >= 0 /\ Ok /\ UNCHANGED pos
  /\ UNCHANGED data

(* SkipBytes(count uint): uint(Remaining()) < count fails, else            *)
(* dec.pos += int(count).                                                  *)
SkipBytes ==
  /\ status # "panic"
  /\ \E a \in Args :
       \/ ToUint(Remaining) < a /\ Err
       \/ ToUint(Remaining) >= a /\ pos' = pos + ToInt(a) /\ Ok
  /\ UNCHANGED data

(* Mutation: SetPosition without its bounds check.                          *)
SetPositionUnchecked ==
  /\ status # "panic"
  /\ \E a \in Args : pos' = ToInt(a) /\ Ok
  /\ UNCHANGED data

(* SetPosition(idx uint): int(idx) < len(dec.data) sets dec.pos.           *)
SetPosition ==
  /\ status # "panic"
  /\ \E a \in Args :
       \/ ToInt(a) < Len(data) /\ pos' = ToInt(a) /\ Ok
       \/ ~(ToInt(a) < Len(data)) /\ Err
  /\ UNCHANGED data

(* The program has panicked: nothing more happens.                         *)
Halted ==
  /\ status = "panic"
  /\ UNCHANGED vars

Next ==
  \/ ReadFixed \/ ReadVarint \/ ReadByteSlice \/ ReadNBytes \/ ReadRustString
  \/ Peek \/ SkipBytes \/ SetPosition \/ Halted

Spec == Init /\ [][Next]_vars

-----------------------------------------------------------------------------
(* Properties.                                                             *)

Abs == INSTANCE AbsCursor WITH CanSeek <- TRUE

(* The cursor API implements the spec's ByteCursor: dec.data never changes *)
(* and every call leaves dec.pos in [0, len(dec.data)], reads only moving  *)
(* it forward over bytes that are there, SetPosition only to a place in    *)
(* the buffer.  SetPosition converts its uint argument with int(idx).      *)
AbsSpec == Abs!Spec

(* Whatever the arguments, no call moves the cursor past the end of the   *)
(* buffer: the checks of the reads, SkipBytes' uint(Remaining()) < count   *)
(* and SetPosition's int(idx) < len(dec.data) all bound it from above,     *)
(* even after a wrapped int(idx) has made dec.pos negative.                *)
CursorNeverPastEnd == pos <= Len(data)

(* A call that fails leaves the cursor where it was (spec.md: "every read  *)
(* that would exceed the buffer fails before mutating position").         *)
FailedCallKeepsCursor == [][status' = "error" => pos' = pos]_vars

(* No call panics on what it reads from the buffer: a bad length or a      *)
(* short buffer is an error the caller can handle (spec.md, error policy). *)
NoInputPanic == status # "panic"
=============================================================================
