------------------------ MODULE BinDecodeTypeProofs ------------------------
(***************************************************************************)
(* Type correctness of the Bin decode engine: TypeOK holds in every        *)
(* behaviour, for every destination type definition, buffer set and bound. *)
(***************************************************************************)
EXTENDS BinDecodeProofs

Statuses == {"idle", "running", "ok", "error", "panic"}

(* A frame inside decodeStruct's loop knows how many fields its struct     *)
(* has and is at one of them; while a field's decodeBin runs (pc           *)
(* "sizeof") that field exists.  StructField and SizeOfField read          *)
(* Def[t].fields[i + 1], which is a field record only then.               *)
FrameShape(f) ==
  f.pc \in {"fields", "sizeof"} =>
    /\ f.n = Len(Def[f.t].fields)
    /\ f.i \in 0..f.n
    /\ (f.pc = "sizeof" => f.i < f.n)
GoodFrame == {f \in Frame : FrameShape(f)}

(* The call stack and the status agree.                                   *)
CtlOK ==
  /\ stack \in Seq(GoodFrame)
  /\ status \in Statuses
  /\ (status = "running") = (stack # <<>>)

(* The destination: locations are index paths, values are Values.        *)
OutOK == DOMAIN out \subseteq Seq(Nat) /\ out \in [DOMAIN out -> Value]

(* Everything TypeOK says beyond the cursor.                             *)
TypeRest == CtlOK /\ OutOK /\ curOpt \in Opt /\ decodes \in Nat

IInv == CursorInv /\ TypeRest

-----------------------------------------------------------------------------
(* Dropping the last element of a non-empty sequence.                     *)
LEMMA PopSeq ==
  ASSUME NEW S, NEW s \in Seq(S), s # <<>>
  PROVE  /\ SubSeq(s, 1, Len(s) - 1) \in Seq(S)
         /\ Len(SubSeq(s, 1, Len(s) - 1)) = Len(s) - 1
<1>1. Len(s) \in Nat \ {0}
  BY EmptySeq
<1>2. \A i \in 1..(Len(s) - 1) : s[i] \in S
  BY <1>1, ElementOfSeq
<1>3. PICK n \in Int : n = Len(s) - 1
  BY <1>1
<1>4. \A i \in 1..n : s[i] \in S
  BY <1>2, <1>3
<1>5. SubSeq(s, 1, n) \in Seq(S) /\ Len(SubSeq(s, 1, n)) = IF 1 <= n THEN n - 1 + 1 ELSE 0
  BY <1>4, SubSeqProperties
<1>. QED  BY <1>1, <1>3, <1>5

(* The frame on top of a running decode.                                  *)
LEMMA TopFrame ==
  ASSUME CtlOK, Running
  PROVE  /\ Len(stack) \in Nat \ {0}
         /\ Top \in GoodFrame
         /\ Top \in Frame
<1>1. Len(stack) \in Nat /\ stack # <<>>
  BY LenProperties DEF CtlOK, Running
<1>2. Len(stack) \in Nat \ {0}
  BY <1>1, EmptySeq DEF CtlOK
<1>3. Top \in GoodFrame
  BY <1>2, ElementOfSeq DEF CtlOK, Top
<1>. QED  BY <1>2, <1>3 DEF GoodFrame

(* Continue: the top frame is replaced.                                   *)
LEMMA ContinueCtl ==
  ASSUME CtlOK, Running, NEW g \in GoodFrame, Continue(g)
  PROVE  CtlOK'
<1>1. Len(stack) \in Nat \ {0}
  BY TopFrame
<1>2. stack' \in Seq(GoodFrame) /\ Len(stack') = Len(stack)
  BY <1>1, ExceptSeq DEF Continue, CtlOK
<1>3. stack' # <<>>
  BY <1>1, <1>2
<1>. QED  BY <1>2, <1>3 DEF Continue, CtlOK, Running

(* Return: the top frame is popped; the decode is over when it was last.  *)
LEMMA ReturnCtl ==
  ASSUME CtlOK, Running, Return
  PROVE  CtlOK'
<1>1. Len(stack) \in Nat \ {0}
  BY TopFrame
<1>2. stack' \in Seq(GoodFrame) /\ Len(stack') = Len(stack) - 1
  BY <1>1, PopSeq DEF Return, CtlOK
<1>3. stack' = <<>> <=> Len(stack) = 1
  <2>1. Len(<<>>) = 0 /\ (stack' # <<>> => Len(stack') \in Nat \ {0})
    BY <1>2, EmptySeq
  <2>. QED  BY <1>1, <1>2, <2>1
<1>. QED  BY <1>2, <1>3 DEF Return, CtlOK, Running, Statuses

(* Fail and Crash end the decode.                                        *)
LEMMA EndCtl ==
  ASSUME NEW why, Fail(why) \/ Crash(why)
  PROVE  CtlOK'
BY EmptySeq DEF Fail, Crash, CtlOK, Statuses

(* Call pushes a frame, or overflows the stack.                          *)
LEMMA CallCtl ==
  ASSUME CtlOK, Running, NEW g \in GoodFrame, NEW child \in GoodFrame, Call(g, child)
  PROVE  CtlOK'
<1>1. Len(stack) \in Nat \ {0}
  BY TopFrame
<1>2. CASE Len(stack) >= MaxDepth
  BY <1>2, EndCtl DEF Call
<1>3. CASE ~(Len(stack) >= MaxDepth)
  <2>1. [stack EXCEPT ![Len(stack)] = g] \in Seq(GoodFrame)
    BY <1>1, ExceptSeq DEF CtlOK
  <2>2. stack' \in Seq(GoodFrame) /\ stack' # <<>>
    BY <1>3, <2>1, AppendProperties DEF Call
  <2>. QED  BY <1>3, <2>2 DEF Call, CtlOK, Running
<1>. QED  BY <1>2, <1>3

-----------------------------------------------------------------------------
(* The frames decodeWithOptionBin and the recursive calls create.         *)
LEMMA Frame0Good ==
  ASSUME NEW t \in TypeIds, NEW b \in BOOLEAN
  PROVE  Frame0(t, b) \in GoodFrame
<1>1. DefaultOpt \in Opt
  BY BoundsAssumption DEF DefaultOpt, Opt
<1>2. EmptySizes \in [FieldNames -> Int]
  BY DEF EmptySizes
<1>. QED  BY <1>1, <1>2 DEF Frame0, GoodFrame, Frame, FrameShape, PCs

LEMMA ChildGood ==
  ASSUME NEW f \in Frame, NEW t \in TypeIds, NEW o \in Opt, NEW j \in Nat
  PROVE  ChildFrame(f, t, o, j) \in GoodFrame
<1>1. Append(f.path, j) \in Seq(Nat)
  BY AppendProperties DEF Frame
<1>2. Frame0(t, TRUE) \in GoodFrame
  BY Frame0Good
<1>. QED  BY <1>1, <1>2 DEF ChildFrame, Frame0, GoodFrame, Frame, FrameShape, PCs

(* Writing a Value at a path keeps the destination well typed.           *)
LEMMA WriteOut ==
  ASSUME OutOK, NEW q \in Seq(Nat), NEW v \in Value, Write(q, v)
  PROVE  OutOK'
BY DEF Write, OutOK

LEMMA EmptyOut ==
  ASSUME out' = [p \in {} |-> ZeroValue]
  PROVE  OutOK'
BY DEF OutOK

LEMMA ZeroValueType == ZeroValue \in Value
BY EmptySeq DEF ZeroValue, Value

(* The bytes j + 1 .. k of dec.data, inside the buffer.                   *)
LEMMA DataSlice ==
  ASSUME CursorInv, NEW j \in Int, NEW k \in Int, 0 <= j, k <= Len(data)
  PROVE  /\ SubSeq(data, j + 1, k) \in Seq(Int)
         /\ Len(SubSeq(data, j + 1, k)) = IF j + 1 <= k THEN k - j ELSE 0
<1>1. Len(data) \in Nat /\ \A i \in 1..Len(data) : data[i] \in 0..255
  BY ByteSeq DEF CursorInv
<1>2. PICK m \in Int : m = j + 1
  OBVIOUS
<1>3. \A i \in m..k : data[i] \in 0..255
  <2> SUFFICES ASSUME NEW i \in m..k PROVE data[i] \in 0..255
    OBVIOUS
  <2>1. i \in 1..Len(data)
    BY <1>2
  <2>. QED  BY <1>1, <2>1, Zenon
<1>4. SubSeq(data, m, k) \in Seq(0..255) /\ Len(SubSeq(data, m, k)) = IF m <= k THEN k - m + 1 ELSE 0
  BY <1>3, SubSeqProperties
<1>5. SubSeq(data, m, k) \in Seq(Int)
  <2>1. 0..255 \subseteq Int
    OBVIOUS
  <2>. QED  BY <1>4, <2>1, SeqMonotonic, Zenon
<1>. QED  BY <1>2, <1>4, <1>5

(* A scalar read of one or more bytes yields a Value.                      *)
LEMMA LeafType ==
  ASSUME NEW kind, NEW order, NEW bytes \in Seq(Int), Len(bytes) >= 1
  PROVE  Leaf(kind, order, bytes) \in Value
<1>1. Reverse(bytes) \in Seq(Int)
  <2>1. Len(bytes) \in Nat /\ \A i \in 1..Len(bytes) : bytes[i] \in Int
    BY LenProperties, ElementOfSeq
  <2>2. \A j \in 1..Len(bytes) : Len(bytes) - j + 1 \in 1..Len(bytes)
    BY <2>1
  <2>3. \A j \in 1..Len(bytes) : bytes[Len(bytes) - j + 1] \in Int
    BY <2>1, <2>2
  <2>. QED  BY <2>1, <2>3 DEF Reverse
<1>2. <<IF bytes[1] = 0 THEN 0 ELSE 1>> \in Seq(Int)
  OBVIOUS
<1>. QED  BY <1>1, <1>2 DEF Leaf, Value

-----------------------------------------------------------------------------
(* sizeof reads an integer out of the decoded value.                       *)
LEMMA LEValueInt ==
  ASSUME NEW sq \in Seq(Int)
  PROVE  LEValue(sq) \in Int
<1> DEFINE d(j) == IF j \in 1..Len(sq) THEN sq[j] ELSE 0
<1>1. \A j \in 1..8 : d(j) \in Int
  BY ElementOfSeq
<1>. HIDE DEF d
<1>2a. PICK a1 \in Int : a1 = d(1)
  BY <1>1
<1>2b. PICK a2 \in Int : a2 = d(2)
  BY <1>1
<1>2c. PICK a3 \in Int : a3 = d(3)
  BY <1>1
<1>2d. PICK a4 \in Int : a4 = d(4)
  BY <1>1
<1>2e. PICK a5 \in Int : a5 = d(5)
  BY <1>1
<1>2f. PICK a6 \in Int : a6 = d(6)
  BY <1>1
<1>2g. PICK a7 \in Int : a7 = d(7)
  BY <1>1
<1>2h. PICK a8 \in Int : a8 = d(8)
  BY <1>1
<1>3. a1 + 256 * (a2 + 256 * (a3 + 256 * (a4 + 256 * (a5 + 256 * (a6 + 256 * (a7 + 256 * a8)))))) \in Int
  BY SMT
<1>. QED  BY <1>2a, <1>2b, <1>2c, <1>2d, <1>2e, <1>2f, <1>2g, <1>2h, <1>3
       DEF LEValue, d

LEMMA PowersInt == 256^1 \in Int /\ 256^2 \in Int /\ 256^4 \in Int /\ 256^8 \in Int
BY SMT

LEMMA SizeOfInt ==
  ASSUME NEW kind \in IntKinds, NEW v \in Value
  PROVE  SizeOf(kind, v) \in Int
<1>1. PICK lv \in Int : lv = LEValue(v.data)
  BY LEValueInt DEF Value
<1>2. PICK p \in Int : p = 256^Width[kind]
  BY PowersInt DEF IntKinds, SignedKinds, Width
<1>. QED  BY <1>1, <1>2 DEF SizeOf

(* The value a location holds, or the zero value.                        *)
LEMMA DecodedType ==
  ASSUME OutOK, NEW q
  PROVE  Decoded(q) \in Value
BY ZeroValueType DEF Decoded, OutOK

-----------------------------------------------------------------------------
(* What DefAssumption says of a type descriptor.                          *)
LEMMA DefType ==
  ASSUME NEW t \in TypeIds
  PROVE  /\ Def[t].kind \in Kinds /\ Def[t].elem \in TypeIds /\ Def[t].len \in Nat
         /\ Def[t].fields \in Seq(FieldRec) /\ Len(Def[t].fields) \in Nat
<1>1. Def[t] \in TypeRec
  BY DefAssumption
<1>. QED  BY <1>1, LenProperties DEF TypeRec

(* The frame updates of the loops.                                         *)
LEMMA FrameReset ==
  ASSUME NEW f \in Frame, NEW p \in PCs, NEW n \in Int
  PROVE  [f EXCEPT !.pc = p, !.i = 0, !.n = n] \in Frame
BY DEF Frame

LEMMA FrameStructReset ==
  ASSUME NEW f \in Frame, NEW n \in Int
  PROVE  [f EXCEPT !.pc = "fields", !.i = 0, !.n = n, !.sized = {},
                   !.sizes = EmptySizes, !.seenExt = FALSE] \in Frame
<1>1. EmptySizes \in [FieldNames -> Int]
  BY DEF EmptySizes
<1>. QED  BY <1>1 DEF Frame, PCs

LEMMA FrameNext ==
  ASSUME NEW f \in Frame
  PROVE  [f EXCEPT !.i = f.i + 1] \in Frame
BY DEF Frame

LEMMA FrameCtl ==
  ASSUME NEW f \in Frame, NEW p \in PCs, NEW u \in BOOLEAN, NEW v \in BOOLEAN
  PROVE  [f EXCEPT !.pc = p, !.u = u, !.valid = v] \in Frame
BY DEF Frame

LEMMA FrameDeref ==
  ASSUME NEW f \in Frame, NEW e \in TypeIds, NEW p \in PCs
  PROVE  [f EXCEPT !.t = e, !.settable = TRUE, !.isNil = TRUE, !.u = FALSE,
                   !.valid = TRUE, !.pc = p] \in Frame
BY DEF Frame

LEMMA FrameSkip ==
  ASSUME NEW f \in Frame, NEW b \in BOOLEAN
  PROVE  [f EXCEPT !.i = f.i + 1, !.seenExt = b] \in Frame
<1>1. f.i + 1 \in Nat
  BY DEF Frame
<1>. QED  BY <1>1, Zenon DEF Frame

LEMMA FrameSizeof ==
  ASSUME NEW f \in Frame, NEW b \in BOOLEAN
  PROVE  [f EXCEPT !.pc = "sizeof", !.seenExt = b] \in Frame
BY DEF Frame, PCs

LEMMA FrameBack ==
  ASSUME NEW f \in Frame
  PROVE  [[f EXCEPT !.i = f.i + 1] EXCEPT !.pc = "fields"] \in Frame
<1>1. f.i + 1 \in Nat
  BY DEF Frame
<1>. QED  BY <1>1, Zenon DEF Frame, PCs

LEMMA FrameRecordSize ==
  ASSUME NEW f \in Frame, NEW nm \in FieldNames, NEW v \in Int
  PROVE  [[f EXCEPT !.i = f.i + 1] EXCEPT !.pc = "fields", !.sized = f.sized \cup {nm},
                                          !.sizes[nm] = v] \in Frame
<1>1. f.i + 1 \in Nat /\ f.sized \cup {nm} \subseteq FieldNames
  BY DEF Frame
<1>2. [f.sizes EXCEPT ![nm] = v] \in [FieldNames -> Int]
  BY DEF Frame
<1>. QED  BY <1>1, <1>2, Zenon DEF Frame, PCs

(* A frame outside the field loop has nothing more to satisfy.            *)
LEMMA OutsideLoop ==
  ASSUME NEW g \in Frame, g.pc \notin {"fields", "sizeof"}
  PROVE  g \in GoodFrame
BY DEF GoodFrame, FrameShape

(* A step that only changes the top frame, keeping it a good frame.       *)
LEMMA ContinueRest ==
  ASSUME IInv, Running, NEW g \in GoodFrame, Continue(g),
         UNCHANGED <<out, curOpt, decodes>>
  PROVE  TypeRest'
BY ContinueCtl DEF IInv, TypeRest, OutOK

(* decodeBin entry: the option becomes currentFieldOpt.                    *)
LEMMA EnterType ==
  ASSUME IInv, Enter
  PROVE  TypeRest'
<1>1. Top \in Frame
  BY TopFrame DEF IInv, TypeRest, Enter
<1>2. [Top EXCEPT !.pc = "ind1"] \in GoodFrame
  BY <1>1 DEF GoodFrame, Frame, FrameShape, PCs
<1>3. CtlOK'
  BY <1>2, ContinueCtl DEF IInv, TypeRest, Enter
<1>. QED  BY <1>1, <1>3 DEF Enter, IInv, TypeRest, OutOK, Frame

LEMMA InterfaceType ==
  ASSUME IInv, DecodeInterface
  PROVE  TypeRest'
BY ReturnCtl DEF DecodeInterface, IInv, TypeRest, OutOK

LEMMA UnsupportedType ==
  ASSUME IInv, Unsupported
  PROVE  TypeRest'
BY EndCtl DEF Unsupported, IInv, TypeRest, OutOK

LEMMA ArrayType ==
  ASSUME IInv, DecodeArray
  PROVE  TypeRest'
<1>1. Top \in Frame /\ Def[Top.t].len \in Nat
  BY TopFrame, DefType DEF IInv, TypeRest, DecodeArray, Frame
<1> DEFINE g == [Top EXCEPT !.pc = "elems", !.i = 0, !.n = Def[Top.t].len]
<1>2. g \in Frame
  <2>1. Def[Top.t].len \in Int /\ "elems" \in PCs
    BY <1>1 DEF PCs
  <2>. QED  BY <1>1, <2>1, FrameReset, Zenon
<1>3. FrameShape(g)
  BY <1>1 DEF Frame, FrameShape
<1>. QED  BY <1>2, <1>3, ContinueRest DEF DecodeArray, GoodFrame

LEMMA StructType ==
  ASSUME IInv, DecodeStruct
  PROVE  TypeRest'
<1>1. Top \in Frame /\ Len(Def[Top.t].fields) \in Nat
  BY TopFrame, DefType DEF IInv, TypeRest, DecodeStruct, Frame
<1>2. EmptySizes \in [FieldNames -> Int]
  BY DEF EmptySizes
<1> DEFINE g == [Top EXCEPT !.pc = "fields", !.i = 0, !.n = Len(Def[Top.t].fields),
                          !.sized = {}, !.sizes = EmptySizes, !.seenExt = FALSE]
<1>3. g \in Frame
  <2>1. Len(Def[Top.t].fields) \in Int
    BY <1>1
  <2>. QED  BY <1>1, <2>1, FrameStructReset, Zenon
<1>4. FrameShape(g)
  BY <1>1 DEF Frame, FrameShape
<1>. QED  BY <1>3, <1>4, ContinueRest DEF DecodeStruct, GoodFrame

LEMMA ElementType ==
  ASSUME IInv, NextElement
  PROVE  TypeRest'
<1>1. Top \in Frame /\ Def[Top.t].elem \in TypeIds
  BY TopFrame, DefType DEF IInv, TypeRest, NextElement, Frame
<1>2. CASE Top.i >= Top.n /\ Return
  BY <1>2, ReturnCtl DEF NextElement, IInv, TypeRest, OutOK
<1>3. CASE Top.i < Top.n /\ Call([Top EXCEPT !.i = Top.i + 1],
                                  ChildFrame(Top, Def[Top.t].elem, Top.opt, Top.i))
  <2>1. Top.pc = "elems"
    BY DEF NextElement
  <2>2. [Top EXCEPT !.i = Top.i + 1] \in GoodFrame
    <3>1. [Top EXCEPT !.i = Top.i + 1] \in Frame
      BY <1>1, FrameNext, Zenon
    <3>2. FrameShape([Top EXCEPT !.i = Top.i + 1])
      BY <1>1, <2>1 DEF Frame, FrameShape
    <3>. QED  BY <3>1, <3>2 DEF GoodFrame
  <2>3. ChildFrame(Top, Def[Top.t].elem, Top.opt, Top.i) \in GoodFrame
    BY <1>1, ChildGood DEF Frame
  <2>4. CtlOK'
    BY <1>3, <2>2, <2>3, CallCtl DEF IInv, TypeRest, NextElement
  <2>. QED  BY <2>4 DEF NextElement, IInv, TypeRest, OutOK
<1>. QED  BY <1>2, <1>3 DEF NextElement

(* indirect: each turn moves down a pointer level or leaves the loop.     *)
LEMMA IndirectType ==
  ASSUME IInv, IndirectStep
  PROVE  TypeRest'
<1>1. /\ Running /\ Top \in Frame /\ Top.pc \in {"ind1", "ind2"}
      /\ Def[Top.t].elem \in TypeIds
  BY TopFrame, DefType DEF IInv, TypeRest, IndirectStep, Frame
<1> DEFINE after == IF Top.pc = "ind1" /\ Top.opt.optional THEN "presence" ELSE "dispatch"
           uc == Def[Top.t].named /\ Def[Top.t].custom
           e == Def[Top.t].elem
           deref == [Top EXCEPT !.t = e, !.settable = TRUE, !.isNil = TRUE, !.u = FALSE,
                                !.valid = TRUE, !.pc = IF Def[e].kind = "ptr" THEN Top.pc ELSE after]
<1>2. /\ \/ Continue([Top EXCEPT !.pc = after, !.u = uc, !.valid = ~uc])
         \/ Continue([Top EXCEPT !.pc = after, !.u = FALSE, !.valid = TRUE])
         \/ Continue([Top EXCEPT !.pc = after, !.u = TRUE, !.valid = FALSE])
         \/ Continue(deref)
         \/ Crash("set_unaddressable")
      /\ UNCHANGED <<out, curOpt, decodes>>
  BY Zenon DEF IndirectStep
<1>3. after \in PCs /\ after \notin {"fields", "sizeof"} /\ uc \in BOOLEAN
  BY DEF PCs
<1>4. \A u, v \in BOOLEAN : [Top EXCEPT !.pc = after, !.u = u, !.valid = v] \in GoodFrame
  <2> SUFFICES ASSUME NEW u \in BOOLEAN, NEW v \in BOOLEAN
               PROVE  [Top EXCEPT !.pc = after, !.u = u, !.valid = v] \in GoodFrame
    OBVIOUS
  <2>1. [Top EXCEPT !.pc = after, !.u = u, !.valid = v] \in Frame
    BY <1>1, <1>3, FrameCtl, Zenon
  <2>2. [Top EXCEPT !.pc = after, !.u = u, !.valid = v].pc = after
    BY <1>1 DEF Frame
  <2>. QED  BY <2>1, <2>2, <1>3, OutsideLoop, Zenon
<1>5. deref \in GoodFrame
  <2>1. (IF Def[e].kind = "ptr" THEN Top.pc ELSE after) \in PCs \ {"fields", "sizeof"}
    BY <1>1, <1>3 DEF PCs
  <2>2. deref \in Frame
    BY <1>1, <2>1, FrameDeref, Zenon
  <2>3. deref.pc = IF Def[e].kind = "ptr" THEN Top.pc ELSE after
    BY <1>1 DEF Frame
  <2>. QED  BY <2>1, <2>2, <2>3, OutsideLoop, Zenon
<1>6. CtlOK'
  <2>1. \A g \in GoodFrame : Continue(g) => CtlOK'
    BY <1>1, ContinueCtl DEF IInv, TypeRest
  <2>2. Crash("set_unaddressable") => CtlOK'
    BY EndCtl
  <2>3. (~uc) \in BOOLEAN /\ FALSE \in BOOLEAN /\ TRUE \in BOOLEAN
    BY <1>3
  <2>. QED  BY <1>2, <1>4, <1>5, <2>1, <2>2, <2>3, Zenon
<1>. QED  BY <1>2, <1>6 DEF IInv, TypeRest, OutOK

(* The three ways a step of decodeBin ends: it returns after writing its   *)
(* location, or the decode ends with an error or a panic, having written   *)
(* it or not.                                                              *)
LEMMA WriteReturnRest ==
  ASSUME IInv, Running, NEW v \in Value, Write(Top.path, v), Return,
         UNCHANGED <<curOpt, decodes>>
  PROVE  TypeRest'
<1>1. Top.path \in Seq(Nat)
  BY TopFrame DEF IInv, TypeRest, Frame
<1>. QED  BY <1>1, WriteOut, ReturnCtl DEF IInv, TypeRest

LEMMA WriteEndRest ==
  ASSUME IInv, Running, NEW v \in Value, Write(Top.path, v),
         NEW why, Fail(why) \/ Crash(why), UNCHANGED <<curOpt, decodes>>
  PROVE  TypeRest'
<1>1. Top.path \in Seq(Nat)
  BY TopFrame DEF IInv, TypeRest, Frame
<1>. QED  BY <1>1, WriteOut, EndCtl DEF IInv, TypeRest

LEMMA EndRest ==
  ASSUME IInv, NEW why, Fail(why) \/ Crash(why), UNCHANGED out,
         UNCHANGED <<curOpt, decodes>>
  PROVE  TypeRest'
BY EndCtl DEF IInv, TypeRest, OutOK

(* The presence byte of an optional.                                     *)
LEMMA PresenceType ==
  ASSUME IInv, ReadPresence
  PROVE  TypeRest'
<1>1. Running /\ Top \in Frame /\ Top.pc = "presence"
  BY TopFrame DEF IInv, TypeRest, ReadPresence
<1>2. /\ \/ (Fail("truncated") \/ Crash("invalid_value")) /\ UNCHANGED out
         \/ Write(Top.path, ZeroValue) /\ Return
         \/ Continue([Top EXCEPT !.pc = "ind2"]) /\ UNCHANGED out
      /\ UNCHANGED <<curOpt, decodes>>
  BY Zenon DEF ReadPresence
<1>3. [Top EXCEPT !.pc = "ind2"] \in GoodFrame
  <2>1. [Top EXCEPT !.pc = "ind2"] \in Frame /\ [Top EXCEPT !.pc = "ind2"].pc = "ind2"
    BY <1>1 DEF Frame, PCs
  <2>. QED  BY <2>1, OutsideLoop
<1>4. CASE (Fail("truncated") \/ Crash("invalid_value")) /\ UNCHANGED out
  BY <1>2, <1>4, EndRest, Zenon
<1>5. CASE Write(Top.path, ZeroValue) /\ Return
  BY <1>1, <1>2, <1>5, ZeroValueType, WriteReturnRest
<1>6. CASE Continue([Top EXCEPT !.pc = "ind2"]) /\ UNCHANGED out
  BY <1>1, <1>2, <1>3, <1>6, ContinueRest
<1>. QED  BY <1>2, <1>4, <1>5, <1>6

(* UnmarshalBinary: what it consumed, or its error.                      *)
LEMMA UnmarshalType ==
  ASSUME IInv, Unmarshal
  PROVE  TypeRest'
<1>1. Running
  BY DEF Unmarshal
<1>2. PICK m \in 0..CustomMax :
        /\ m <= Remaining
        /\ \/ Write(Top.path, [tag |-> "custom", data |-> SubSeq(data, pos + 1, pos + m)])
              /\ Return
           \/ Fail("unmarshaler") /\ UNCHANGED out
        /\ UNCHANGED <<curOpt, decodes>>
  BY Zenon DEF Unmarshal
<1>3. [tag |-> "custom", data |-> SubSeq(data, pos + 1, pos + m)] \in Value
  <2>1. pos \in Int /\ pos + m \in Int /\ 0 <= pos /\ pos + m <= Len(data)
    BY <1>2, BoundsAssumption DEF IInv, CursorInv, Remaining
  <2>2. SubSeq(data, pos + 1, pos + m) \in Seq(Int)
    BY <2>1, DataSlice DEF IInv
  <2>. QED  BY <2>2 DEF Value
<1>. QED  BY <1>1, <1>2, <1>3, WriteReturnRest, EndRest

(* Fixed-width reads: a short buffer still writes 0, then fails.          *)
LEMMA ScalarType ==
  ASSUME IInv, DecodeScalar
  PROVE  TypeRest'
<1>1. Running /\ Def[Top.t].kind \in ScalarKinds
  BY DEF DecodeScalar
<1> DEFINE kind == Def[Top.t].kind
           w == Width[kind]
<1>2. /\ \/ Write(Top.path, ZeroValue) /\ Fail("truncated")
         \/ /\ Remaining >= w
            /\ Write(Top.path, Leaf(kind, Top.opt.order, SubSeq(data, pos + 1, pos + w)))
            /\ Return
      /\ UNCHANGED <<curOpt, decodes>>
  BY Zenon DEF DecodeScalar
<1>3. CASE Write(Top.path, ZeroValue) /\ Fail("truncated")
  BY <1>1, <1>2, <1>3, ZeroValueType, WriteEndRest
<1>4. CASE Remaining >= w
  <2>1. PICK wv \in 1..8 : wv = w
    BY <1>1, WidthRange
  <2>2. pos \in Int /\ pos + wv \in Int /\ 0 <= pos /\ pos + wv <= Len(data)
    BY <1>4, <2>1 DEF IInv, CursorInv, Remaining
  <2>3. SubSeq(data, pos + 1, pos + wv) \in Seq(Int) /\ Len(SubSeq(data, pos + 1, pos + wv)) >= 1
    <3>1. PICK k \in Int : k = pos + wv
      BY <2>2
    <3>2. PICK j \in Int : j = pos
      BY <2>2
    <3>3. SubSeq(data, j + 1, k) \in Seq(Int)
          /\ Len(SubSeq(data, j + 1, k)) = IF j + 1 <= k THEN k - j ELSE 0
      BY <2>2, <3>1, <3>2, DataSlice DEF IInv
    <3>. QED  BY <2>1, <3>1, <3>2, <3>3
  <2>4. Leaf(kind, Top.opt.order, SubSeq(data, pos + 1, pos + w)) \in Value
    BY <2>1, <2>3, LeafType
  <2>. QED  BY <1>1, <1>2, <1>3, <2>4, WriteReturnRest, ZeroValueType, WriteEndRest
<1>. QED  BY <1>2, <1>3, <1>4

(* Strings: the body the length varint announced, when it fits.          *)
LEMMA StringType ==
  ASSUME IInv, DecodeString
  PROVE  TypeRest'
<1>1. Running
  BY DEF DecodeString
<1> DEFINE r == UvarintRead(Rest)
           l == GoInt(UvarintValue(Rest, r), r)
           body == [tag |-> "leaf", data |-> SubSeq(data, pos + r + 1, pos + r + l)]
<1>2. /\ \/ Fail("varint") /\ UNCHANGED out
         \/ Fail("truncated") /\ UNCHANGED out
         \/ Crash("slice_bounds") /\ UNCHANGED out
         \/ r > 0 /\ ~(Len(data) < pos + r + l) /\ ~(l < 0) /\ Write(Top.path, body) /\ Return
      /\ UNCHANGED <<curOpt, decodes>>
  BY Zenon DEF DecodeString
<1>3. CASE r > 0 /\ ~(Len(data) < pos + r + l) /\ ~(l < 0) /\ Write(Top.path, body) /\ Return
  <2>1. PICK rr \in Int : rr = r
    BY VarintAtCursor DEF IInv
  <2>2. PICK ll \in Int : ll = l
    BY <1>3, <2>1, VarintAtCursor DEF IInv
  <2>3. PICK j \in Int : j = pos + rr
    BY <2>1 DEF IInv, CursorInv
  <2>4. PICK k \in Int : k = pos + rr + ll
    BY <2>1, <2>2 DEF IInv, CursorInv
  <2>5. 0 <= j /\ k <= Len(data)
    <3>1. rr > 0 /\ ~(Len(data) < pos + rr + ll)
      BY <1>3, <2>1, <2>2, Zenon
    <3>. QED  BY <3>1, <2>3, <2>4 DEF IInv, CursorInv
  <2>6. SubSeq(data, j + 1, k) \in Seq(Int)
    BY <2>5, DataSlice DEF IInv
  <2>7. body \in Value
    BY <2>1, <2>2, <2>3, <2>4, <2>6 DEF Value
  <2>. QED  BY <1>1, <1>2, <1>3, <2>7, WriteReturnRest
<1>. QED  BY <1>2, <1>3, EndRest

(* MakeSlice: a slice header of length l, then the element loop.          *)
LEMMA MakeSliceRest ==
  ASSUME IInv, Running, NEW l \in Int, MakeSlice(l), UNCHANGED <<curOpt, decodes>>
  PROVE  TypeRest'
<1>1. CASE l < 0
  <2>1. Crash("makeslice") /\ UNCHANGED out
    BY <1>1 DEF MakeSlice
  <2>. QED  BY <2>1, EndRest
<1>2. CASE ~(l < 0)
  <2>1. Top \in Frame /\ Top.path \in Seq(Nat)
    BY TopFrame DEF IInv, TypeRest, Frame
  <2>2. [tag |-> "slice", data |-> <<l>>] \in Value
    BY DEF Value
  <2>3. OutOK'
    BY <1>2, <2>1, <2>2, WriteOut DEF MakeSlice, IInv, TypeRest
  <2>4. [Top EXCEPT !.pc = "elems", !.i = 0, !.n = l] \in GoodFrame
    <3>1. [Top EXCEPT !.pc = "elems", !.i = 0, !.n = l] \in Frame
      <4>1. "elems" \in PCs
        BY DEF PCs
      <4>. QED  BY <2>1, <4>1, FrameReset, Zenon
    <3>2. [Top EXCEPT !.pc = "elems", !.i = 0, !.n = l].pc = "elems"
      BY <2>1 DEF Frame
    <3>. QED  BY <3>1, <3>2, OutsideLoop, Zenon
  <2>5. CtlOK'
    BY <1>2, <2>4, ContinueCtl DEF MakeSlice, IInv, TypeRest
  <2>. QED  BY <2>3, <2>5 DEF TypeRest, IInv
<1>. QED  BY <1>1, <1>2

(* Slices: the length comes from sizeof or from a varint.                 *)
LEMMA SliceType ==
  ASSUME IInv, DecodeSlice
  PROVE  TypeRest'
<1>1. Running /\ Top \in Frame
  BY TopFrame DEF IInv, TypeRest, DecodeSlice
<1> DEFINE r == UvarintRead(Rest)
<1>2. /\ \/ MakeSlice(Top.opt.size)
         \/ Fail("varint") /\ UNCHANGED out
         \/ r > 0 /\ MakeSlice(GoInt(UvarintValue(Rest, r), r))
      /\ UNCHANGED <<curOpt, decodes>>
  BY Zenon DEF DecodeSlice
<1>3. Top.opt.size \in Int
  BY <1>1 DEF Frame, Opt
<1>4. r > 0 => GoInt(UvarintValue(Rest, r), r) \in Int
  BY VarintAtCursor DEF IInv
<1>. QED  BY <1>1, <1>2, <1>3, <1>4, MakeSliceRest, EndRest

(* The field a struct frame is at exists while the loop has not ended.    *)
LEMMA CurrentField ==
  ASSUME NEW f \in GoodFrame, f.pc \in {"fields", "sizeof"}, f.i < f.n
  PROVE  /\ Def[f.t].fields[f.i + 1] \in FieldRec
         /\ f.i + 1 \in 0..f.n
<1>1. f \in Frame /\ f.n = Len(Def[f.t].fields) /\ f.i \in 0..f.n
  BY DEF GoodFrame, FrameShape
<1>2. Def[f.t].fields \in Seq(FieldRec) /\ f.i + 1 \in 1..Len(Def[f.t].fields)
  BY <1>1, DefType DEF Frame
<1>. QED  BY <1>1, <1>2, ElementOfSeq

(* The option decodeStruct passes to a field's decodeBin.                 *)
LEMMA FieldOptType ==
  ASSUME NEW f \in Frame, NEW fd \in FieldRec
  PROVE  FieldOpt(fd, f) \in Opt
BY DEF FieldOpt, Opt, Frame, FieldRec

(* One turn of decodeStruct's field loop.                                *)
LEMMA FieldType ==
  ASSUME IInv, StructField
  PROVE  TypeRest'
<1>1. Running /\ Top \in GoodFrame /\ Top \in Frame /\ Top.pc = "fields"
  BY TopFrame DEF IInv, TypeRest, StructField
<1> DEFINE f == Top
           fd == Def[f.t].fields[f.i + 1]
           next == [f EXCEPT !.i = f.i + 1, !.seenExt = f.seenExt \/ fd.ext]
           sz == [f EXCEPT !.pc = "sizeof", !.seenExt = f.seenExt \/ fd.ext]
           child == ChildFrame(f, fd.type, FieldOpt(fd, f), f.i)
<1>2. f.n = Len(Def[f.t].fields) /\ f.i \in 0..f.n
  BY <1>1 DEF GoodFrame, FrameShape
<1>3. /\ \/ Return
         \/ f.i < f.n /\ Continue([f EXCEPT !.i = f.i + 1])
         \/ Crash("binary_extension_order")
         \/ f.i < f.n /\ Continue(next)
         \/ f.i < f.n /\ Call(sz, child)
      /\ UNCHANGED <<out, curOpt, decodes>>
  BY Zenon DEF StructField, NextField
<1>4. CASE Return
  BY <1>1, <1>3, <1>4, ReturnCtl DEF IInv, TypeRest, OutOK
<1>5. CASE Crash("binary_extension_order")
  BY <1>3, <1>5, EndRest
<1>6. ASSUME f.i < f.n
      PROVE  /\ fd \in FieldRec /\ f.i + 1 \in 0..f.n
             /\ [f EXCEPT !.i = f.i + 1] \in GoodFrame
             /\ next \in GoodFrame
             /\ sz \in GoodFrame
             /\ child \in GoodFrame
  <2>1. fd \in FieldRec /\ f.i + 1 \in 0..f.n
    BY <1>1, <1>6, CurrentField
  <2>2. [f EXCEPT !.i = f.i + 1] \in Frame /\ FrameShape([f EXCEPT !.i = f.i + 1])
    <3>1. [f EXCEPT !.i = f.i + 1] \in Frame
      BY <1>1, FrameNext, Zenon
    <3>. QED  BY <1>1, <1>2, <2>1, <3>1 DEF Frame, FrameShape
  <2>3. next \in Frame /\ FrameShape(next)
    <3>1. (f.seenExt \/ fd.ext) \in BOOLEAN
      BY <1>1, <2>1 DEF Frame, FieldRec
    <3>2. next \in Frame
      BY <1>1, <3>1, FrameSkip, Zenon
    <3>. QED  BY <1>1, <1>2, <2>1, <3>2 DEF Frame, FrameShape
  <2>4. sz \in Frame /\ FrameShape(sz)
    <3>1. (f.seenExt \/ fd.ext) \in BOOLEAN
      BY <1>1, <2>1 DEF Frame, FieldRec
    <3>2. sz \in Frame
      BY <1>1, <3>1, FrameSizeof, Zenon
    <3>. QED  BY <1>1, <1>2, <1>6, <3>2 DEF Frame, FrameShape
  <2>5. child \in GoodFrame
    <3>1. FieldOpt(fd, f) \in Opt /\ fd.type \in TypeIds /\ f.i \in Nat
      BY <1>1, <2>1, FieldOptType DEF FieldRec, Frame
    <3>. QED  BY <1>1, <3>1, ChildGood
  <2>. QED  BY <2>1, <2>2, <2>3, <2>4, <2>5 DEF GoodFrame
<1>7. CASE f.i < f.n /\ Continue([f EXCEPT !.i = f.i + 1])
  BY <1>1, <1>3, <1>6, <1>7, ContinueRest
<1>8. CASE f.i < f.n /\ Continue(next)
  BY <1>1, <1>3, <1>6, <1>8, ContinueRest
<1>9. CASE f.i < f.n /\ Call(sz, child)
  BY <1>1, <1>3, <1>6, <1>9, CallCtl DEF IInv, TypeRest, OutOK
<1>. QED  BY <1>3, <1>4, <1>5, <1>7, <1>8, <1>9

(* After a field's decodeBin: sizeof records the field's integer value.    *)
LEMMA SizeOfFieldType ==
  ASSUME IInv, SizeOfField
  PROVE  TypeRest'
<1>1. Running /\ Top \in GoodFrame /\ Top \in Frame /\ Top.pc = "sizeof"
  BY TopFrame DEF IInv, TypeRest, SizeOfField
<1> DEFINE f == Top
           fd == Def[f.t].fields[f.i + 1]
           kind == Def[fd.type].kind
           size == SizeOf(kind, Decoded(Append(f.path, f.i)))
           back == [NextField(f) EXCEPT !.pc = "fields"]
           rec == [NextField(f) EXCEPT !.pc = "fields", !.sized = f.sized \cup {fd.sizeof},
                                       !.sizes[fd.sizeof] = size]
<1>2. f.n = Len(Def[f.t].fields) /\ f.i \in 0..f.n /\ f.i < f.n
  BY <1>1 DEF GoodFrame, FrameShape
<1>3. fd \in FieldRec /\ f.i + 1 \in 0..f.n
  BY <1>1, <1>2, CurrentField
<1>4. /\ \/ Continue(back)
         \/ Crash("sizeof_kind")
         \/ fd.sizeof # NoName /\ kind \in IntKinds /\ Continue(rec)
      /\ UNCHANGED <<out, curOpt, decodes>>
  BY Zenon DEF SizeOfField
<1>5. CASE Continue(back)
  <2>1. back \in Frame
    BY <1>1, FrameBack, Zenon DEF NextField
  <2>2. FrameShape(back)
    BY <1>1, <1>2, <1>3, <2>1 DEF Frame, FrameShape, NextField
  <2>. QED  BY <1>1, <1>4, <1>5, <2>1, <2>2, ContinueRest DEF GoodFrame
<1>6. CASE Crash("sizeof_kind")
  BY <1>4, <1>6, EndRest
<1>7. CASE fd.sizeof # NoName /\ kind \in IntKinds /\ Continue(rec)
  <2>1. fd.sizeof \in FieldNames
    BY <1>3, <1>7 DEF FieldRec
  <2>2. size \in Int
    <3>1. Decoded(Append(f.path, f.i)) \in Value
      BY DecodedType DEF IInv, TypeRest
    <3>. QED  BY <1>7, <3>1, SizeOfInt
  <2>3. rec \in Frame
    BY <1>1, <2>1, <2>2, FrameRecordSize, Zenon DEF NextField
  <2>4. FrameShape(rec)
    BY <1>1, <1>2, <1>3, <2>3 DEF Frame, FrameShape, NextField
  <2>. QED  BY <1>1, <1>4, <1>7, <2>3, <2>4, ContinueRest DEF GoodFrame
<1>. QED  BY <1>4, <1>5, <1>6, <1>7

(* decodeWithOptionBin: a fresh destination and one frame for the root.    *)
LEMMA DecodeType ==
  ASSUME IInv, Decode
  PROVE  TypeRest'
<1>1. PICK r \in Roots, isNil \in NilRoots :
        IF Def[r].kind # "ptr"
          THEN Fail("invalid_decoder")
          ELSE stack' = <<Frame0(r, isNil)>> /\ status' = "running" /\ fault' = "none"
  BY Zenon DEF Decode
<1>2. CtlOK'
  <2>1. CASE Def[r].kind # "ptr"
    BY <1>1, <2>1, EndCtl
  <2>2. CASE ~(Def[r].kind # "ptr")
    <3>1. Frame0(r, isNil) \in GoodFrame
      BY DefAssumption, BoundsAssumption, Frame0Good
    <3>2. <<Frame0(r, isNil)>> \in Seq(GoodFrame) /\ <<Frame0(r, isNil)>> # <<>>
      BY <3>1
    <3>. QED  BY <1>1, <2>2, <3>2 DEF CtlOK, Statuses
  <2>. QED  BY <2>1, <2>2
<1>3. OutOK' /\ curOpt' \in Opt /\ decodes' \in Nat
  BY EmptyOut DEF Decode, IInv, TypeRest
<1>. QED  BY <1>2, <1>3 DEF TypeRest

LEMMA TypeInit == Init => IInv
<1> SUFFICES ASSUME Init PROVE IInv
  OBVIOUS
<1>1. CursorInv
  BY CursorInit
<1>2. NilOpt \in Opt
  BY BoundsAssumption DEF NilOpt, Opt
<1>3. CtlOK /\ OutOK
  BY EmptySeq DEF Init, CtlOK, OutOK, Statuses
<1>. QED  BY <1>1, <1>2, <1>3 DEF Init, IInv, TypeRest

(* Every step of a behaviour keeps the inductive invariant.               *)
LEMMA TypeStep == IInv /\ [Next]_vars => IInv'
<1> SUFFICES ASSUME IInv, [Next]_vars PROVE IInv'
  OBVIOUS
<1>1. CursorInv'
  BY CursorStep DEF IInv
<1>2. TypeRest'
  <2>1. CASE Decode          BY <2>1, DecodeType
  <2>2. CASE Enter           BY <2>2, EnterType
  <2>3. CASE IndirectStep    BY <2>3, IndirectType
  <2>4. CASE ReadPresence    BY <2>4, PresenceType
  <2>5. CASE Unmarshal       BY <2>5, UnmarshalType
  <2>6. CASE DecodeScalar    BY <2>6, ScalarType
  <2>7. CASE DecodeString    BY <2>7, StringType
  <2>8. CASE DecodeInterface BY <2>8, InterfaceType
  <2>9. CASE Unsupported     BY <2>9, UnsupportedType
  <2>10. CASE DecodeArray    BY <2>10, ArrayType
  <2>11. CASE DecodeSlice    BY <2>11, SliceType
  <2>12. CASE DecodeStruct   BY <2>12, StructType
  <2>13. CASE NextElement    BY <2>13, ElementType
  <2>14. CASE StructField    BY <2>14, FieldType
  <2>15. CASE SizeOfField    BY <2>15, SizeOfFieldType
  <2>16. CASE Done \/ UNCHANGED vars
    BY <2>16 DEF Done, vars, IInv, TypeRest, CtlOK, OutOK
  <2>. QED  BY <2>1, <2>2, <2>3, <2>4, <2>5, <2>6, <2>7, <2>8, <2>9, <2>10,
                <2>11, <2>12, <2>13, <2>14, <2>15, <2>16 DEF Next, Step
<1>. QED  BY <1>1, <1>2 DEF IInv

(* TypeOK: in every behaviour of the engine, for every type definition,   *)
(* buffer set and bound, dec.data is a byte string, the call stack holds  *)
(* well-formed decodeBin frames exactly while a Decode runs, the          *)
(* destination maps index paths to values, and currentFieldOpt is an      *)
(* option.                                                                 *)
THEOREM TypeOKTheorem == Spec => []TypeOK
<1>1. IInv => TypeOK
  <2> SUFFICES ASSUME IInv PROVE TypeOK
    OBVIOUS
  <2>1. Seq(GoodFrame) \subseteq Seq(Frame)
    <3>1. GoodFrame \subseteq Frame
      BY DEF GoodFrame
    <3>. QED  BY <3>1, SeqMonotonic, Zenon
  <2>. QED  BY <2>1 DEF IInv, TypeRest, CursorInv, CtlOK, OutOK, Statuses, TypeOK
<1>. QED  BY <1>1, TypeInit, TypeStep, PTL DEF Spec
=============================================================================
