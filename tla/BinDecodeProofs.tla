-------------------------- MODULE BinDecodeProofs --------------------------
(***************************************************************************)
(* Proofs about the Bin decode engine of BinDecode, for every destination  *)
(* type definition, buffer set and bound the assumptions allow.           *)
(***************************************************************************)
EXTENDS BinDecode, BinReadsProofs, TLAPS

(* The width of every fixed-width kind is one to eight bytes.             *)
LEMMA WidthRange == \A k \in ScalarKinds : Width[k] \in 1..8
BY DEF ScalarKinds, Width

-----------------------------------------------------------------------------
(* The cursor stays in the buffer.  dec.data never changes, so the         *)
(* invariant is CursorInBounds together with the type of dec.data, which  *)
(* the length arithmetic of every read needs.                              *)
CursorInv == data \in Seq(Byte) /\ pos \in 0..Len(data)

LEMMA CursorInit == Init => CursorInv
BY BoundsAssumption DEF Init, CursorInv

(* A step that reads forward: dec.data is unchanged and dec.pos moves      *)
(* forward, never past the end.                                            *)
Forward == data' = data /\ pos' \in pos..Len(data)

(* The reads that move dec.pos: each moves it by at most what remains.    *)
LEMMA PresencePos ==
  ASSUME CursorInv, ReadPresence
  PROVE  Forward
<1>1. data' = data /\ (pos' = pos \/ (Remaining >= 1 /\ pos' = pos + 1))
  BY Zenon DEF ReadPresence
<1>. QED  BY <1>1 DEF CursorInv, Remaining, Forward

LEMMA UnmarshalPos ==
  ASSUME CursorInv, Unmarshal
  PROVE  Forward
<1>1. data' = data /\ \E m \in 0..CustomMax : m <= Remaining /\ pos' = pos + m
  BY Zenon DEF Unmarshal
<1>. QED  BY <1>1, BoundsAssumption DEF CursorInv, Remaining, Forward

LEMMA ScalarPos ==
  ASSUME CursorInv, DecodeScalar
  PROVE  Forward
<1> DEFINE w == Width[Def[Top.t].kind]
<1>1. /\ data' = data /\ Def[Top.t].kind \in ScalarKinds
      /\ pos' = pos \/ (Remaining >= w /\ pos' = pos + w)
  BY Zenon DEF DecodeScalar
<1>2. PICK n \in 1..8 : n = w
  BY <1>1, WidthRange
<1>. QED  BY <1>1, <1>2 DEF CursorInv, Remaining, Forward

(* The varint at the cursor: its count r, and when r > 0 the int l it     *)
(* encodes, an integer, with r among the bytes that remain.              *)
LEMMA VarintAtCursor ==
  ASSUME CursorInv
  PROVE  /\ UvarintRead(Rest) \in Int
         /\ UvarintRead(Rest) > 0 =>
              /\ UvarintRead(Rest) \in 1..Remaining
              /\ GoInt(UvarintValue(Rest, UvarintRead(Rest)), UvarintRead(Rest)) \in Int
<1>1. Rest \in Seq(Byte) /\ Len(Rest) = Remaining
  BY RestFacts DEF CursorInv
<1>2. UvarintRead(Rest) \in Int /\ (UvarintRead(Rest) > 0 => UvarintRead(Rest) \in 1..Len(Rest))
  BY <1>1, UvarintReadFacts
<1>3. ASSUME UvarintRead(Rest) > 0
      PROVE  UvarintValue(Rest, UvarintRead(Rest)) \in Nat
  BY <1>1, <1>2, <1>3, UvarintValueNat
<1>. QED  BY <1>1, <1>2, <1>3, GoIntInt

LEMMA StringPos ==
  ASSUME CursorInv, DecodeString
  PROVE  Forward
<1> DEFINE r == UvarintRead(Rest)
           l == GoInt(UvarintValue(Rest, r), r)
<1>1. /\ data' = data
      /\ \/ pos' = pos
         \/ r > 0 /\ Len(data) < pos + r + l /\ pos' = pos + r
         \/ r > 0 /\ ~(Len(data) < pos + r + l) /\ ~(l < 0) /\ pos' = pos + r + l
  BY Zenon DEF DecodeString
<1>2. PICK rr \in Int : rr = r
  BY VarintAtCursor
<1>3. CASE rr > 0
  <2>1. PICK ll \in Int : ll = l
    BY <1>2, <1>3, VarintAtCursor
  <2>2. rr \in 1..Remaining
    BY <1>2, <1>3, VarintAtCursor
  <2>. QED  BY <1>1, <1>2, <2>1, <2>2 DEF CursorInv, Remaining, Forward
<1>4. CASE ~(rr > 0)
  BY <1>1, <1>2, <1>4 DEF CursorInv, Forward
<1>. QED  BY <1>3, <1>4

LEMMA SlicePos ==
  ASSUME CursorInv, DecodeSlice
  PROVE  Forward
<1> DEFINE r == UvarintRead(Rest)
<1>1. data' = data /\ (pos' = pos \/ (r > 0 /\ pos' = pos + r))
  BY Zenon DEF DecodeSlice, MakeSlice
<1>2. r > 0 => r \in 1..Remaining
  BY VarintAtCursor
<1>. QED  BY <1>1, <1>2 DEF CursorInv, Remaining, Forward

(* Every step of the engine reads forward or leaves the cursor alone.      *)
LEMMA ForwardStep == CursorInv /\ [Next]_vars => Forward
<1> SUFFICES ASSUME CursorInv, [Next]_vars PROVE Forward
  OBVIOUS
<1>1. CASE ReadPresence  BY <1>1, PresencePos
<1>2. CASE Unmarshal     BY <1>2, UnmarshalPos
<1>3. CASE DecodeScalar  BY <1>3, ScalarPos
<1>4. CASE DecodeString  BY <1>4, StringPos
<1>5. CASE DecodeSlice   BY <1>5, SlicePos
<1>6. CASE \/ Decode \/ Enter \/ IndirectStep \/ DecodeInterface \/ Unsupported
           \/ DecodeArray \/ DecodeStruct \/ NextElement \/ StructField
           \/ SizeOfField \/ Done \/ UNCHANGED vars
  <2>1. data' = data /\ pos' = pos
    BY <1>6, Zenon DEF Decode, Enter, IndirectStep, DecodeInterface, Unsupported,
                       DecodeArray, DecodeStruct, NextElement, StructField,
                       SizeOfField, Done, vars
  <2>. QED  BY <2>1 DEF CursorInv, Forward
<1>. QED  BY <1>1, <1>2, <1>3, <1>4, <1>5, <1>6 DEF Next, Step

(* Every step of the engine keeps the cursor in the buffer.              *)
LEMMA CursorStep == CursorInv /\ [Next]_vars => CursorInv'
BY ForwardStep DEF CursorInv, Forward

(* Theorem: whatever the buffer and the destination types, no read of     *)
(* the Bin engine moves dec.pos outside 0..len(dec.data).                *)
THEOREM CursorInBoundsTheorem == Spec => []CursorInBounds
<1>1. CursorInv => CursorInBounds
  BY DEF CursorInv, CursorInBounds
<1>. QED  BY <1>1, CursorInit, CursorStep, PTL DEF Spec

(* Theorem: the engine is a ByteCursor client that never seeks.  Whatever  *)
(* the buffer and the destination types, dec.data never changes and every *)
(* step, across successive Decode calls too, leaves dec.pos alone or      *)
(* moves it forward over bytes that are there: an Advance of the abstract *)
(* cursor, never a Seek.                                                   *)
THEOREM EngineIsReaderTheorem == Spec => EngineIsReader
<1>1. Init => Reader!Init
  BY DEF Init, Reader!Init
<1>2. ASSUME CursorInv, [Next]_vars
      PROVE  [Reader!Advance \/ Reader!Seek]_<<data, pos>>
  <2>1. Forward
    BY <1>2, ForwardStep
  <2>2. CASE pos' = pos
    BY <2>1, <2>2 DEF Forward
  <2>3. CASE pos' # pos
    <3>0. PICK n \in Nat : n = Len(data)
      BY <1>2, LenProperties DEF CursorInv
    <3>1. PICK p \in 0..n : p = pos
      BY <1>2, <3>0 DEF CursorInv
    <3>2. PICK q \in p..n : q = pos'
      BY <2>1, <3>0, <3>1 DEF Forward
    <3>3. q # p
      BY <2>3, <3>1, <3>2, Zenon
    <3>4. q - p \in 1..(n - p) /\ q = p + (q - p)
      BY <3>3
    <3>. QED  BY <2>1, <3>0, <3>1, <3>2, <3>4 DEF Forward, Reader!Advance
  <2>. QED  BY <2>2, <2>3
<1>. QED  BY <1>1, <1>2, CursorInit, CursorStep, PTL DEF Spec, EngineIsReader, Reader!Spec
=============================================================================
