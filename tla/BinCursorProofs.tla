-------------------------- MODULE BinCursorProofs --------------------------
(***************************************************************************)
(* Proofs about the public cursor API of BinCursor, for every buffer set,  *)
(* argument set and MaxInt the assumption allows: whatever uints a caller *)
(* passes, no call moves dec.pos past the end of dec.data.                *)
(***************************************************************************)
EXTENDS BinCursor, BinReadsProofs, TLAPS

(* The invariant: CursorNeverPastEnd with the types the arithmetic needs. *)
(* dec.pos may be negative (a wrapped SetPosition), so only its upper     *)
(* bound is kept.                                                          *)
PastEndInv ==
  /\ data \in Seq(Byte)
  /\ pos \in Int
  /\ pos <= Len(data)

(* int(u) of a uint is an integer no larger than u.                        *)
LEMMA ToIntLe ==
  ASSUME NEW u \in Nat
  PROVE  ToInt(u) \in Int /\ ToInt(u) <= u
BY CursorAssumption DEF ToInt

(* uint(i) of a non-negative int is no larger than i.                      *)
LEMMA ToUintLe ==
  ASSUME NEW i \in Nat
  PROVE  ToUint(i) \in Int /\ ToUint(i) <= i
BY CursorAssumption DEF ToUint

(* Every uint argument is a natural.                                       *)
LEMMA ArgsNat == Args \cup {8} \subseteq Nat
BY CursorAssumption

(* The length ReadRustString reads from 8 bytes in the buffer is an int.   *)
LEMMA RustLenInt ==
  ASSUME data \in Seq(Byte), NEW p \in Nat, p + 8 <= Len(data)
  PROVE  RustLen(SubSeq(data, p + 1, p + 8)) \in Int
<1> DEFINE b == SubSeq(data, p + 1, p + 8)
<1>1. \A i \in 1..8 : b[i] = data[p + i]
  BY SubSeqProperties
<1>2. \A i \in 1..8 : data[p + i] \in 0..255
  BY ByteSeq
<1>3. b[1] \in 0..255 /\ b[2] \in 0..255 /\ b[3] \in 0..255
  BY <1>1, <1>2
<1>4. PICK x1 \in 0..255 : x1 = b[1]
  BY <1>3
<1>5. PICK x2 \in 0..255 : x2 = b[2]
  BY <1>3
<1>6. PICK x3 \in 0..255 : x3 = b[3]
  BY <1>3
<1>7. RustLen(b) \in {-1, BigLen, x1 + 256 * (x2 + 256 * x3)}
  BY <1>4, <1>5, <1>6, Zenon DEF RustLen
<1>8. BigLen \in Int /\ x1 + 256 * (x2 + 256 * x3) \in Int
  BY DEF BigLen
<1>. QED  BY <1>7, <1>8

(* readNBytes from a position at most len(dec.data) ends at most there.    *)
LEMMA NBytesPos ==
  ASSUME data \in Seq(Byte), pos \in Int, pos <= Len(data),
         NEW p \in Int, p <= Len(data), NEW n \in Int,
         ReadNBytesAt(p, n)
  PROVE  pos' \in Int /\ pos' <= Len(data)
BY DEF ReadNBytesAt, Ok, Panic

(* A fixed-width read moves the cursor only over bytes that remain.       *)
LEMMA FixedPos ==
  ASSUME data \in Seq(Byte), pos \in Int, pos <= Len(data),
         NEW w \in FixedWidths, FixedRead(w)
  PROVE  pos' \in Int /\ pos' <= Len(data)
BY DEF FixedRead, FixedWidths, Remaining, Ok, Err, Panic

LEMMA ReadFixedStep == PastEndInv /\ ReadFixed => PastEndInv'
BY FixedPos DEF PastEndInv, ReadFixed

(* At a cursor inside the buffer, binary.Uvarint returns an integer count *)
(* and, when positive, at most the bytes remaining and a length that int() *)
(* turns into an integer.                                                  *)
LEMMA VarintAt ==
  ASSUME data \in Seq(Byte), pos \in 0..Len(data)
  PROVE  /\ UvarintRead(Rest) \in Int
         /\ UvarintRead(Rest) > 0 =>
              /\ UvarintRead(Rest) \in 1..Remaining
              /\ GoInt(UvarintValue(Rest, UvarintRead(Rest)), UvarintRead(Rest)) \in Int
<1>1. Rest \in Seq(Byte) /\ Len(Rest) = Remaining
  BY RestFacts
<1>2. UvarintRead(Rest) \in Int /\ (UvarintRead(Rest) > 0 => UvarintRead(Rest) \in 1..Len(Rest))
  BY <1>1, UvarintReadFacts
<1>3. ASSUME UvarintRead(Rest) > 0
      PROVE  UvarintValue(Rest, UvarintRead(Rest)) \in Nat
  BY <1>1, <1>2, <1>3, UvarintValueNat
<1>. QED  BY <1>1, <1>2, <1>3, GoIntInt

(* A varint read moves the cursor by the count binary.Uvarint returns,    *)
(* which is at most the bytes remaining.                                   *)
LEMMA ReadVarintStep == PastEndInv /\ ReadVarint => PastEndInv'
<1> SUFFICES ASSUME PastEndInv, ReadVarint PROVE PastEndInv'
  OBVIOUS
<1>1. /\ data' = data
      /\ \/ pos' = pos
         \/ pos >= 0 /\ UvarintRead(Rest) > 0 /\ pos' = pos + UvarintRead(Rest)
  BY Zenon DEF ReadVarint, Ok, Err, Panic
<1>2. CASE pos' = pos
  BY <1>1, <1>2 DEF PastEndInv
<1>3. CASE pos >= 0 /\ UvarintRead(Rest) > 0 /\ pos' = pos + UvarintRead(Rest)
  <2>1. pos \in 0..Len(data)
    BY <1>3 DEF PastEndInv
  <2>2. PICK rr \in Int : rr = UvarintRead(Rest)
    BY <2>1, VarintAt DEF PastEndInv
  <2>3. rr \in 1..Remaining
    BY <1>3, <2>1, <2>2, VarintAt DEF PastEndInv
  <2>. QED  BY <1>1, <1>3, <2>2, <2>3 DEF PastEndInv, Remaining
<1>. QED  BY <1>1, <1>2, <1>3

(* ReadByteSlice moves past the length varint, and past the body only if  *)
(* len(dec.data) < dec.pos + length is false.                             *)
LEMMA ReadByteSliceStep == PastEndInv /\ ReadByteSlice => PastEndInv'
<1> SUFFICES ASSUME PastEndInv, ReadByteSlice PROVE PastEndInv'
  OBVIOUS
<1> DEFINE r == UvarintRead(Rest)
           l == GoInt(UvarintValue(Rest, r), r)
<1>1. /\ data' = data
      /\ \/ pos' = pos
         \/ pos >= 0 /\ r > 0 /\ Len(data) < pos + r + l /\ pos' = pos + r
         \/ pos >= 0 /\ r > 0 /\ ~(Len(data) < pos + r + l) /\ pos' = pos + r + l
  BY Zenon DEF ReadByteSlice, Ok, Err, Panic
<1>2. CASE pos' = pos
  BY <1>1, <1>2 DEF PastEndInv
<1>3. CASE pos >= 0 /\ r > 0 /\ pos' # pos
  <2>1. pos \in 0..Len(data)
    BY <1>3 DEF PastEndInv
  <2>2. PICK rr \in Int : rr = r
    BY <2>1, VarintAt DEF PastEndInv
  <2>3. rr \in 1..Remaining
    BY <1>3, <2>1, <2>2, VarintAt DEF PastEndInv
  <2>4. PICK ll \in Int : ll = l
    BY <1>3, <2>1, VarintAt DEF PastEndInv
  <2>. QED  BY <1>1, <1>3, <2>2, <2>3, <2>4 DEF PastEndInv, Remaining
<1>. QED  BY <1>1, <1>2, <1>3

LEMMA ReadNBytesStep == PastEndInv /\ ReadNBytes => PastEndInv'
<1> SUFFICES ASSUME PastEndInv, ReadNBytes PROVE PastEndInv'
  OBVIOUS
<1>1. PICK a \in Args \cup {8} : ReadNBytesAt(pos, ToInt(a))
  BY DEF ReadNBytes
<1>2. ToInt(a) \in Int
  BY ArgsNat, ToIntLe
<1>. QED  BY <1>1, <1>2, NBytesPos DEF PastEndInv, ReadNBytes

(* ReadRustString: a failed ReadUint64, or ReadNBytes after its 8 bytes.   *)
LEMMA ReadRustStringStep == PastEndInv /\ ReadRustString => PastEndInv'
<1> SUFFICES ASSUME PastEndInv, ReadRustString PROVE PastEndInv'
  OBVIOUS
<1>1. CASE FixedRead(8) /\ status' # "ok"
  <2>1. 8 \in FixedWidths
    BY DEF FixedWidths
  <2>. QED  BY <1>1, <2>1, FixedPos DEF PastEndInv, ReadRustString
<1>2. CASE Remaining >= 8 /\ pos >= 0
           /\ ReadNBytesAt(pos + 8, RustLen(SubSeq(data, pos + 1, pos + 8)))
  <2>1. pos \in Nat /\ pos + 8 <= Len(data)
    BY <1>2 DEF PastEndInv, Remaining
  <2>2. RustLen(SubSeq(data, pos + 1, pos + 8)) \in Int
    BY <2>1, RustLenInt DEF PastEndInv
  <2>. QED  BY <1>2, <2>1, <2>2, NBytesPos DEF PastEndInv, ReadRustString
<1>. QED  BY <1>1, <1>2 DEF ReadRustString

LEMMA PeekStep == PastEndInv /\ Peek => PastEndInv'
BY DEF PastEndInv, Peek, Ok, Err, Panic

(* SkipBytes adds int(count) <= count <= uint(Remaining()) <= Remaining(),  *)
(* Remaining() being non-negative while dec.pos is at most len(dec.data).  *)
LEMMA SkipBytesStep == PastEndInv /\ SkipBytes => PastEndInv'
<1> SUFFICES ASSUME PastEndInv, SkipBytes PROVE PastEndInv'
  OBVIOUS
<1>1. PICK a \in Args : \/ ToUint(Remaining) < a /\ Err
                        \/ ToUint(Remaining) >= a /\ pos' = pos + ToInt(a) /\ Ok
  BY DEF SkipBytes
<1>2. a \in Nat /\ Remaining \in Nat
  BY ArgsNat DEF PastEndInv, Remaining
<1>3. ToInt(a) \in Int /\ ToInt(a) <= a
  BY <1>2, ToIntLe
<1>4. ToUint(Remaining) \in Int /\ ToUint(Remaining) <= Remaining
  BY <1>2, ToUintLe
<1>5. PICK m \in Int : m = ToUint(Remaining)
  BY <1>4
<1>6. PICK k \in Int : k = ToInt(a)
  BY <1>3
<1>7. \/ pos' = pos
      \/ m >= a /\ pos' = pos + k
  BY <1>1, <1>5, <1>6 DEF Ok, Err
<1>8. data' = data
  BY DEF SkipBytes
<1>. QED  BY <1>2, <1>3, <1>4, <1>5, <1>6, <1>7, <1>8 DEF PastEndInv, Remaining

(* SetPosition sets dec.pos only to an int(idx) below len(dec.data).      *)
LEMMA SetPositionStep == PastEndInv /\ SetPosition => PastEndInv'
<1> SUFFICES ASSUME PastEndInv, SetPosition PROVE PastEndInv'
  OBVIOUS
<1>1. PICK a \in Args : \/ ToInt(a) < Len(data) /\ pos' = ToInt(a) /\ Ok
                        \/ ~(ToInt(a) < Len(data)) /\ Err
  BY DEF SetPosition
<1>2. ToInt(a) \in Int
  BY ArgsNat, ToIntLe
<1>. QED  BY <1>1, <1>2 DEF PastEndInv, SetPosition, Ok, Err

LEMMA PastEndStep == PastEndInv /\ [Next]_vars => PastEndInv'
<1> SUFFICES ASSUME PastEndInv, [Next]_vars PROVE PastEndInv'
  OBVIOUS
<1>1. CASE ReadFixed  BY <1>1, ReadFixedStep
<1>2. CASE ReadVarint  BY <1>2, ReadVarintStep
<1>3. CASE ReadByteSlice  BY <1>3, ReadByteSliceStep
<1>4. CASE ReadNBytes  BY <1>4, ReadNBytesStep
<1>5. CASE ReadRustString  BY <1>5, ReadRustStringStep
<1>6. CASE Peek  BY <1>6, PeekStep
<1>7. CASE SkipBytes  BY <1>7, SkipBytesStep
<1>8. CASE SetPosition  BY <1>8, SetPositionStep
<1>9. CASE Halted \/ UNCHANGED vars  BY <1>9 DEF PastEndInv, Halted, vars
<1>. QED  BY <1>1, <1>2, <1>3, <1>4, <1>5, <1>6, <1>7, <1>8, <1>9 DEF Next

(* For every buffer, every set of uint arguments and every width of int,  *)
(* no sequence of cursor calls, SetPosition's and SkipBytes' wrapping      *)
(* int() conversions included, moves dec.pos past the end of dec.data.     *)
THEOREM NeverPastEndTheorem == Spec => []CursorNeverPastEnd
<1>1. Init => PastEndInv
  BY CursorAssumption DEF Init, PastEndInv
<1>2. PastEndInv => CursorNeverPastEnd
  BY DEF PastEndInv, CursorNeverPastEnd
<1>. QED  BY <1>1, <1>2, PastEndStep, PTL DEF Spec
-----------------------------------------------------------------------------
(* Refinement.  When every uint a caller passes is at most MaxInt, so that *)
(* int() keeps it, dec.pos never goes below 0 either, and every call is a *)
(* step of the abstract ByteCursor or leaves the cursor alone.             *)
InRange == Args \subseteq 0..MaxInt

RefInv == data \in Seq(Byte) /\ pos \in 0..Len(data)

(* int(u) of a uint of at most MaxInt is u itself.                          *)
LEMMA ToIntId ==
  ASSUME InRange, NEW a \in Args
  PROVE  ToInt(a) = a /\ a \in Nat
BY CursorAssumption DEF InRange, ToInt

(* readNBytes from a position at or after dec.pos leaves dec.pos no lower. *)
LEMMA NBytesLow ==
  ASSUME pos \in Nat, NEW p \in Int, p >= pos, NEW n \in Int, ReadNBytesAt(p, n)
  PROVE  pos' >= 0
BY DEF ReadNBytesAt, Ok, Panic

LEMMA FixedLow ==
  ASSUME pos \in Nat, NEW w \in FixedWidths, FixedRead(w)
  PROVE  pos' >= 0
BY DEF FixedRead, FixedWidths, Ok, Err, Panic

(* Every call of the API leaves dec.pos non-negative.                      *)
LEMMA LowStep ==
  ASSUME InRange, RefInv, Next
  PROVE  pos' >= 0
<1>0. pos \in Nat
  BY DEF RefInv
<1>1. CASE ReadFixed
  BY <1>0, <1>1, FixedLow DEF ReadFixed
<1>2. CASE ReadVarint
  <2>1. \/ pos' = pos
        \/ pos >= 0 /\ UvarintRead(Rest) > 0 /\ pos' = pos + UvarintRead(Rest)
    BY <1>2, Zenon DEF ReadVarint, Ok, Err, Panic
  <2>2. PICK rr \in Int : rr = UvarintRead(Rest)
    BY VarintAt DEF RefInv
  <2>. QED  BY <1>0, <2>1, <2>2
<1>3. CASE ReadByteSlice
  <2> DEFINE r == UvarintRead(Rest)
             l == GoInt(UvarintValue(Rest, r), r)
  <2>1. \/ pos' = pos
        \/ r > 0 /\ pos' = pos + r
        \/ r > 0 /\ l >= 0 /\ pos' = pos + r + l
    BY <1>3, Zenon DEF ReadByteSlice, Ok, Err, Panic
  <2>2. PICK rr \in Int : rr = r
    BY VarintAt DEF RefInv
  <2>3. CASE rr > 0
    <3>1. PICK ll \in Int : ll = l
      BY <2>2, <2>3, VarintAt DEF RefInv
    <3>. QED  BY <1>0, <2>1, <2>2, <3>1
  <2>. QED  BY <1>0, <2>1, <2>2, <2>3
<1>4. CASE ReadNBytes
  <2>1. PICK a \in Args \cup {8} : ReadNBytesAt(pos, ToInt(a))
    BY <1>4 DEF ReadNBytes
  <2>2. ToInt(a) \in Int
    BY ArgsNat, ToIntLe
  <2>. QED  BY <1>0, <2>1, <2>2, NBytesLow
<1>5. CASE ReadRustString
  <2>1. CASE FixedRead(8)
    BY <1>0, <2>1, FixedLow DEF FixedWidths
  <2>2. CASE pos >= 0 /\ Remaining >= 8
             /\ ReadNBytesAt(pos + 8, RustLen(SubSeq(data, pos + 1, pos + 8)))
    <3>1. pos + 8 <= Len(data)
      BY <2>2 DEF Remaining, RefInv
    <3>2. RustLen(SubSeq(data, pos + 1, pos + 8)) \in Int
      BY <1>0, <3>1, RustLenInt DEF RefInv
    <3>. QED  BY <1>0, <2>2, <3>2, NBytesLow
  <2>. QED  BY <1>5, <2>1, <2>2 DEF ReadRustString
<1>6. CASE Peek \/ Halted
  BY <1>0, <1>6 DEF Peek, Halted, vars, Ok, Err, Panic
<1>7. CASE SkipBytes
  <2>1. PICK a \in Args : pos' = pos \/ pos' = pos + ToInt(a)
    BY <1>7 DEF SkipBytes, Ok, Err
  <2>. QED  BY <1>0, <2>1, ToIntId
<1>8. CASE SetPosition
  <2>1. PICK a \in Args : pos' = pos \/ pos' = ToInt(a)
    BY <1>8 DEF SetPosition, Ok, Err
  <2>. QED  BY <1>0, <2>1, ToIntId
<1>. QED  BY <1>1, <1>2, <1>3, <1>4, <1>5, <1>6, <1>7, <1>8 DEF Next

(* Every call is a Seek of the abstract cursor or leaves it alone.          *)
LEMMA RefStep ==
  ASSUME InRange, RefInv, [Next]_vars
  PROVE  RefInv' /\ [Abs!Advance \/ Abs!Seek]_<<data, pos>>
<1>1. CASE UNCHANGED vars
  BY <1>1 DEF RefInv, vars
<1>2. CASE Next
  <2>1. PastEndInv'
    BY <1>2, PastEndStep DEF RefInv, PastEndInv
  <2>2. pos' >= 0
    BY <1>2, LowStep
  <2>3. data' = data
    BY <1>2, Zenon DEF Next, ReadFixed, ReadVarint, ReadByteSlice, ReadNBytes,
                      ReadRustString, Peek, SkipBytes, SetPosition, Halted, vars
  <2>4. RefInv'
    BY <2>1, <2>2 DEF PastEndInv, RefInv
  <2>5. Abs!Seek \/ UNCHANGED <<data, pos>>
    BY <2>3, <2>4 DEF RefInv, Abs!Seek
  <2>. QED  BY <2>4, <2>5
<1>. QED  BY <1>1, <1>2

(* With arguments int() keeps (the in-range uints of a well-behaved        *)
(* caller), the public cursor API implements the spec's ByteCursor: the    *)
(* buffer never changes and dec.pos stays in [0, len(dec.data)].           *)
THEOREM CursorRefinesTheorem ==
  ASSUME InRange PROVE Spec => AbsSpec
<1>1. Init => RefInv /\ Abs!Init
  BY CursorAssumption DEF Init, RefInv, Abs!Init
<1>2. RefInv /\ [Next]_vars => RefInv' /\ [Abs!Advance \/ Abs!Seek]_<<data, pos>>
  BY RefStep
<1>. QED  BY <1>1, <1>2, PTL DEF Spec, AbsSpec, Abs!Spec
=============================================================================
