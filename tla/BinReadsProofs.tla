-------------------------- MODULE BinReadsProofs --------------------------
(***************************************************************************)
(* Facts about the primitive reads of BinReads: the unread bytes, the     *)
(* count and the value binary.Uvarint returns.  Used by the proofs about  *)
(* the decode engine and about the public cursor API.                     *)
(***************************************************************************)
EXTENDS BinReads, SequenceTheorems, WellFoundedInduction, TLAPS

(* A byte sequence has a natural length and a byte at every index.       *)
LEMMA ByteSeq ==
  ASSUME NEW s \in Seq(Byte)
  PROVE  /\ Len(s) \in Nat
         /\ \A i \in 1..Len(s) : s[i] \in 0..255
BY LenProperties DEF Byte

(* The unread part of dec.data is a byte sequence of Remaining bytes.     *)
LEMMA RestFacts ==
  ASSUME data \in Seq(Byte), pos \in 0..Len(data)
  PROVE  /\ Rest \in Seq(Byte)
         /\ Len(Rest) = Remaining
<1>1. \A i \in (pos + 1)..Len(data) : data[i] \in Byte
  BY ByteSeq DEF Byte
<1>. QED  BY <1>1, SubSeqProperties DEF Rest, Remaining

(* binary.Uvarint stops at the first byte below 0x80: such a byte exists  *)
(* whenever one of the first ten bytes is below 0x80, since < is          *)
(* well-founded on Nat.                                                    *)
LEMMA FirstStopFacts ==
  ASSUME NEW buf \in Seq(Byte),
         \E j \in 1..Len(buf) : buf[j] < 128
  PROVE  /\ FirstStop(buf) \in 1..Len(buf)
         /\ buf[FirstStop(buf)] < 128
<1> DEFINE T == {j \in 1..Len(buf) : buf[j] < 128}
<1>0. Len(buf) \in Nat /\ \A i \in 1..Len(buf) : buf[i] \in 0..255
  BY ByteSeq
<1>1. T \subseteq Nat /\ T # {}
  BY <1>0 DEF T
<1>2. \E x \in T : \A y \in T : ~(<<y, x>> \in OpToRel(<, Nat))
  BY <1>1, NatLessThanWellFounded, WFMin
<1>3. PICK x \in T : \A y \in T : ~(<<y, x>> \in OpToRel(<, Nat))
  BY <1>2
<1>4. \A y \in T : ~(y < x)
  BY <1>1, <1>3, Zenon DEF OpToRel
<1>5. x \in 1..Len(buf) /\ buf[x] < 128
  BY <1>3 DEF T
<1>6. ASSUME NEW m \in 1..(x - 1) PROVE buf[m] >= 128
  <2>1. m \in 1..Len(buf) /\ m < x
    BY <1>5
  <2>2. m \notin T
    BY <2>1, <1>4
  <2>3. buf[m] \in 0..255 /\ ~(buf[m] < 128)
    BY <2>1, <2>2, <1>0 DEF T
  <2>4. PICK y \in 0..255 : y = buf[m]
    BY <2>3
  <2>. QED  BY <2>3, <2>4
<1>. QED  BY <1>5, <1>6 DEF FirstStop

(* The count binary.Uvarint returns is an integer, and when positive it   *)
(* is a number of bytes of the buffer.                                     *)
LEMMA UvarintReadFacts ==
  ASSUME NEW buf \in Seq(Byte)
  PROVE  /\ UvarintRead(buf) \in Int
         /\ UvarintRead(buf) > 0 => UvarintRead(buf) \in 1..Len(buf)
<1>1. CASE \A j \in 1..Len(buf) : j <= MaxVarintLen64 => buf[j] >= 128
  BY <1>1 DEF UvarintRead, MaxVarintLen64
<1>2. CASE ~\A j \in 1..Len(buf) : j <= MaxVarintLen64 => buf[j] >= 128
  <2>1. \E j \in 1..Len(buf) : buf[j] < 128
    <3>1. PICK j \in 1..Len(buf) : ~(j <= MaxVarintLen64 => buf[j] >= 128)
      BY <1>2
    <3>2. PICK y \in 0..255 : y = buf[j]
      BY ByteSeq
    <3>. QED  BY <3>1, <3>2
  <2>2. FirstStop(buf) \in 1..Len(buf)
    BY <2>1, FirstStopFacts
  <2>3. CASE FirstStop(buf) = MaxVarintLen64 /\ buf[MaxVarintLen64] > 1
    <3>1. UvarintRead(buf) = -MaxVarintLen64
      BY <1>2, <2>3, Zenon DEF UvarintRead
    <3>. QED  BY <3>1 DEF MaxVarintLen64
  <2>4. CASE ~(FirstStop(buf) = MaxVarintLen64 /\ buf[MaxVarintLen64] > 1)
    <3>1. UvarintRead(buf) = FirstStop(buf)
      BY <1>2, <2>4, Zenon DEF UvarintRead
    <3>. QED  BY <3>1, <2>2
  <2>. QED  BY <2>3, <2>4
<1>. QED  BY <1>1, <1>2

(* x % 128, the seven payload bits of a varint byte.                      *)
LEMMA LowBits == \A x \in 0..255 : x % 128 \in 0..127
BY SMT

(* One Horner step of the varint value stays a natural.                    *)
LEMMA HornerStep == \A x \in 0..127, y \in Nat : x + 128 * y \in Nat
BY SMT

(* The j-th seven-bit group of the first k bytes of a byte buffer.         *)
LEMMA Digit ==
  ASSUME NEW buf \in Seq(Byte), NEW k \in 0..Len(buf), NEW j \in 1..MaxVarintLen64
  PROVE  (IF j <= k THEN buf[j] % 128 ELSE 0) \in 0..127
<1>1. CASE j <= k
  <2>0. j \in 1..Len(buf)
    BY <1>1, LenProperties DEF MaxVarintLen64
  <2>1. buf[j] \in 0..255
    BY <2>0, ElementOfSeq, Zenon DEF Byte
  <2>. QED BY <1>1, <2>1, LowBits, Zenon
<1>2. CASE ~(j <= k)
  BY <1>2
<1>. QED BY <1>1, <1>2

(* The uint64 the first k bytes of a byte buffer encode is a natural.      *)
LEMMA UvarintValueNat ==
  ASSUME NEW buf \in Seq(Byte), NEW k \in 0..Len(buf)
  PROVE  UvarintValue(buf, k) \in Nat
<1>1. \A j \in 1..MaxVarintLen64 : (IF j <= k THEN buf[j] % 128 ELSE 0) \in 0..127
  BY Digit
<1>0. {1,2,3,4,5,6,7,8,9,10} \subseteq 1..MaxVarintLen64
  BY DEF MaxVarintLen64
<1>2. \A j \in {1,2,3,4,5,6,7,8,9,10} : (IF j <= k THEN buf[j] % 128 ELSE 0) \in 0..127
  BY <1>0, <1>1, Zenon
<1> DEFINE d(j) == IF j <= k THEN buf[j] % 128 ELSE 0
<1>3. /\ d(1) \in 0..127 /\ d(2) \in 0..127 /\ d(3) \in 0..127 /\ d(4) \in 0..127
      /\ d(5) \in 0..127 /\ d(6) \in 0..127 /\ d(7) \in 0..127 /\ d(8) \in 0..127
      /\ d(9) \in 0..127 /\ d(10) \in 0..127
  BY <1>2, Zenon
<1> HIDE DEF d
<1>4. d(10) \in Nat
  <2>1. 0..127 \subseteq Nat
    OBVIOUS
  <2>. QED  BY <1>3, <2>1, Zenon
<1>5. d(9) + 128 * d(10) \in Nat
  BY <1>4, <1>3, HornerStep, Zenon
<1>6. d(8) + 128 * (d(9) + 128 * d(10)) \in Nat
  BY <1>5, <1>3, HornerStep, Zenon
<1>7. d(7) + 128 * (d(8) + 128 * (d(9) + 128 * d(10))) \in Nat
  BY <1>6, <1>3, HornerStep, Zenon
<1>8. d(6) + 128 * (d(7) + 128 * (d(8) + 128 * (d(9) + 128 * d(10)))) \in Nat
  BY <1>7, <1>3, HornerStep, Zenon
<1>9. d(5) + 128 * (d(6) + 128 * (d(7) + 128 * (d(8) + 128 * (d(9) + 128 * d(10))))) \in Nat
  BY <1>8, <1>3, HornerStep, Zenon
<1>10. d(4) + 128 * (d(5) + 128 * (d(6) + 128 * (d(7) + 128 * (d(8) + 128 * (d(9) + 128 * d(10)))))) \in Nat
  BY <1>9, <1>3, HornerStep, Zenon
<1>11. d(3) + 128 * (d(4) + 128 * (d(5) + 128 * (d(6) + 128 * (d(7) + 128 * (d(8) + 128 * (d(9) + 128 * d(10))))))) \in Nat
  BY <1>10, <1>3, HornerStep, Zenon
<1>12. d(2) + 128 * (d(3) + 128 * (d(4) + 128 * (d(5) + 128 * (d(6) + 128 * (d(7) + 128 * (d(8) + 128 * (d(9) + 128 * d(10)))))))) \in Nat
  BY <1>11, <1>3, HornerStep, Zenon
<1>13. d(1) + 128 * (d(2) + 128 * (d(3) + 128 * (d(4) + 128 * (d(5) + 128 * (d(6) + 128 * (d(7) + 128 * (d(8) + 128 * (d(9) + 128 * d(10))))))))) \in Nat
  BY <1>12, <1>3, HornerStep, Zenon
<1>. QED BY <1>13 DEF UvarintValue, d

(* int() of such a value is an integer.                                    *)
LEMMA GoIntInt == \A v \in Nat, k \in Int : GoInt(v, k) \in Int
BY DEF GoInt, MaxVarintLen64

=============================================================================
