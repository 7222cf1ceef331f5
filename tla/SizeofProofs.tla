--------------------------- MODULE SizeofProofs ---------------------------
(***************************************************************************)
(* sizeof linkage (decodeStruct's sizeOfMap, src/unnamed/part_000:255-266): *)
(* the slice of a struct field takes its length from the last earlier      *)
(* field of the same struct whose sizeof tag names it.  Proved for every   *)
(* destination type definition, buffer set and bound.                      *)
(*                                                                         *)
(* The argument rests on where decodeBin writes: a call writes only at its *)
(* own location, which extends its caller's location by the index of the  *)
(* field or element being decoded; so what an earlier field wrote stays,   *)
(* and a field not yet reached has written nothing.                        *)
(***************************************************************************)
EXTENDS BinDecodeTypeProofs, WellFoundedInduction

(* The index a frame's callee decodes: NextElement has already advanced i. *)
ChildIndex(g) == IF g.pc = "elems" THEN g.i - 1 ELSE g.i

(* Location p lies strictly inside location q.                             *)
Inside(p, q) == Len(p) > Len(q) /\ SubSeq(p, 1, Len(q)) = q

(* Only the array/slice loop and the field loop call decodeBin; every      *)
(* frame's location is its caller's extended by the index its caller is   *)
(* decoding, and so lies inside the location of every frame below it.     *)
PathInv ==
  /\ \A k \in 1..(Len(stack) - 1) : stack[k].pc \in {"elems", "sizeof"}
  /\ \A k \in 2..Len(stack) :
       stack[k].path = Append(stack[k - 1].path, ChildIndex(stack[k - 1]))
  /\ \A j, k \in 1..Len(stack) :
       j < k => /\ Inside(stack[k].path, stack[j].path)
                /\ stack[k].path[Len(stack[j].path) + 1] = ChildIndex(stack[j])

(* Where destination o has been written: nothing at or inside the         *)
(* location of a call that has not yet dispatched (or is dispatching);     *)
(* inside a loop, only at the elements or fields already reached.          *)
Entry == {"enter", "ind1", "ind2", "presence", "dispatch"}
Bound(g) == IF g.pc = "sizeof" THEN g.i + 1 ELSE g.i
FrameFresh(g, o) ==
  \A p \in DOMAIN o :
    /\ g.pc \in Entry => p # g.path /\ ~Inside(p, g.path)
    /\ g.pc \notin Entry /\ Inside(p, g.path) => p[Len(g.path) + 1] < Bound(g)

(* The fields of struct frame g before its current one whose sizeof tag    *)
(* names nm and which were decoded into o, and the last of them.           *)
SourcesFor(g, nm, o) ==
  {m \in 0..(g.i - 1) : FieldOf(g, m).sizeof = nm /\ Append(g.path, m) \in DOMAIN o}
LastOf(g, nm, o) == CHOOSE m \in SourcesFor(g, nm, o) : \A m2 \in SourcesFor(g, nm, o) : m2 <= m

(* sizeOfMap holds nm exactly when such a field exists, with sizeof() of   *)
(* the value of the last one.                                              *)
SizedOK(g, o) ==
  \A nm \in FieldNames :
    /\ nm \in g.sized <=> SourcesFor(g, nm, o) # {}
    /\ nm \in g.sized =>
         g.sizes[nm] = SizeOf(Def[FieldOf(g, LastOf(g, nm, o)).type].kind,
                              o[Append(g.path, LastOf(g, nm, o))])
LoopOK(g, o) == g.pc \in {"fields", "sizeof"} => SizedOK(g, o)

(* The field a "sizeof" frame is decoding, and its kind.                    *)
CurField(g) == FieldOf(g, g.i)
CurKind(g) == Def[CurField(g).type].kind

(* A field call gets the option decodeStruct built from sizeOfMap; the     *)
(* call for an integer field stays at that integer type, is no            *)
(* Unmarshaler, and has not returned (it is on top of the stack).          *)
CallOK(g, c) ==
  g.pc = "sizeof" =>
    /\ c.opt = FieldOpt(CurField(g), g)
    /\ CurKind(g) \in IntKinds => /\ c.t = CurField(g).type
                                  /\ ~c.u
                                  /\ c.pc \in Entry

(* Once the call for an integer field has returned, it has written there. *)
WroteOK(g, o) ==
  g.pc = "sizeof" /\ CurKind(g) \in IntKinds => Append(g.path, g.i) \in DOMAIN o

FramesOK(s, o) == \A k \in 1..Len(s) : FrameFresh(s[k], o) /\ LoopOK(s[k], o)
CallInv == \A k \in 2..Len(stack) : CallOK(stack[k - 1], stack[k])
WroteInv == stack # <<>> => WroteOK(Top, out)

SizeofRest == PathInv /\ FramesOK(stack, out) /\ CallInv /\ WroteInv
SizeofInv == IInv /\ SizeofRest

-----------------------------------------------------------------------------
(* Locations.                                                              *)
LEMMA PathSeq ==
  ASSUME NEW s \in Seq(Nat)
  PROVE  s \in Seq(Int)
<1>1. Nat \subseteq Int
  OBVIOUS
<1>. QED  BY <1>1, SeqMonotonic, Zenon

(* The location of element or field e of location s.                       *)
LEMMA AppendInside ==
  ASSUME NEW s \in Seq(Int), NEW e \in Int
  PROVE  /\ Append(s, e) \in Seq(Int)
         /\ Inside(Append(s, e), s)
         /\ Append(s, e)[Len(s) + 1] = e
<1>1. /\ Append(s, e) \in Seq(Int) /\ Len(Append(s, e)) = Len(s) + 1
      /\ \A i \in 1..Len(s) : Append(s, e)[i] = s[i]
      /\ Append(s, e)[Len(s) + 1] = e
  BY AppendProperties
<1>2. SubSeq(Append(s, e), 1, Len(s)) = s
  <2>1. Len(s) \in Nat
    BY LenProperties
  <2>2. \A i \in 1..Len(s) : Append(s, e)[i] \in Int
    BY <1>1, <2>1, ElementOfSeq
  <2>3. /\ SubSeq(Append(s, e), 1, Len(s)) \in Seq(Int)
        /\ Len(SubSeq(Append(s, e), 1, Len(s))) = Len(s)
        /\ \A i \in 1..Len(s) : SubSeq(Append(s, e), 1, Len(s))[i] = s[i]
    BY <1>1, <2>1, <2>2, SubSeqProperties
  <2>. QED  BY <2>3, SeqEqual
<1>. QED  BY <1>1, <1>2, LenProperties DEF Inside

(* What lies inside a location lies inside every location it extends.     *)
LEMMA InsideAppend ==
  ASSUME NEW s \in Seq(Int), NEW q \in Seq(Int), NEW e \in Int, Inside(q, s)
  PROVE  /\ Inside(Append(q, e), s)
         /\ Append(q, e)[Len(s) + 1] = q[Len(s) + 1]
<1>1. Len(s) \in Nat /\ Len(q) \in Nat /\ Len(q) > Len(s)
  BY LenProperties DEF Inside
<1>2. /\ Len(Append(q, e)) = Len(q) + 1
      /\ \A i \in 1..Len(q) : Append(q, e)[i] = q[i]
      /\ \A i \in 1..Len(q) + 1 : Append(q, e)[i] \in Int
  BY AppendProperties, ElementOfSeq
<1>3. \A i \in 1..Len(q) : q[i] \in Int
  BY ElementOfSeq
<1>4. /\ Len(SubSeq(Append(q, e), 1, Len(s))) = Len(s)
      /\ \A i \in 1..Len(s) : SubSeq(Append(q, e), 1, Len(s))[i] = Append(q, e)[i]
      /\ SubSeq(Append(q, e), 1, Len(s)) \in Seq(Int)
  BY <1>1, <1>2, SubSeqProperties
<1>5. /\ Len(SubSeq(q, 1, Len(s))) = Len(s)
      /\ \A i \in 1..Len(s) : SubSeq(q, 1, Len(s))[i] = q[i]
      /\ SubSeq(q, 1, Len(s)) \in Seq(Int)
  BY <1>1, <1>3, SubSeqProperties
<1>6. SubSeq(Append(q, e), 1, Len(s)) = SubSeq(q, 1, Len(s))
  BY <1>1, <1>2, <1>4, <1>5, SeqEqual
<1>. QED  BY <1>1, <1>2, <1>6 DEF Inside

(* What lies inside the location of element e of s lies inside s, at e.    *)
LEMMA InsideOfAppend ==
  ASSUME NEW s \in Seq(Int), NEW e \in Int, NEW p \in Seq(Int),
         p = Append(s, e) \/ Inside(p, Append(s, e))
  PROVE  Inside(p, s) /\ p[Len(s) + 1] = e
<1>1. Len(s) \in Nat /\ Len(p) \in Nat
  BY LenProperties
<1>2. /\ Len(Append(s, e)) = Len(s) + 1
      /\ Append(s, e)[Len(s) + 1] = e
      /\ Inside(Append(s, e), s)
  BY AppendInside, AppendProperties
<1>3. CASE p = Append(s, e)
  BY <1>2, <1>3
<1>4. CASE Inside(p, Append(s, e))
  <2>1. Len(p) > Len(s) + 1
    BY <1>2, <1>4 DEF Inside
  <2>2. \A i \in 1..Len(p) : p[i] \in Int
    BY ElementOfSeq
  <2>3. \A i \in 1..Len(s) + 1 : SubSeq(p, 1, Len(s) + 1)[i] = p[i]
    BY <1>1, <2>1, <2>2, SubSeqProperties
  <2>4. \A i \in 1..Len(s) + 1 : p[i] = Append(s, e)[i]
    <3>1. SubSeq(p, 1, Len(s) + 1) = Append(s, e)
      BY <1>2, <1>4 DEF Inside
    <3>. QED  BY <2>3, <3>1
  <2>5. p[Len(s) + 1] = e
    BY <1>1, <1>2, <2>4
  <2>6. SubSeq(p, 1, Len(s)) = SubSeq(Append(s, e), 1, Len(s))
    <3>1. /\ SubSeq(p, 1, Len(s)) \in Seq(Int) /\ Len(SubSeq(p, 1, Len(s))) = Len(s)
          /\ \A i \in 1..Len(s) : SubSeq(p, 1, Len(s))[i] = p[i]
      BY <1>1, <2>1, <2>2, SubSeqProperties
    <3>2. \A i \in 1..Len(s) + 1 : Append(s, e)[i] \in Int
      BY AppendProperties, ElementOfSeq
    <3>3. /\ SubSeq(Append(s, e), 1, Len(s)) \in Seq(Int)
          /\ Len(SubSeq(Append(s, e), 1, Len(s))) = Len(s)
          /\ \A i \in 1..Len(s) : SubSeq(Append(s, e), 1, Len(s))[i] = Append(s, e)[i]
      BY <1>1, <3>2, SubSeqProperties
    <3>. QED  BY <1>1, <2>4, <3>1, <3>3, SeqEqual
  <2>. QED  BY <1>2, <2>1, <2>5, <2>6 DEF Inside
<1>. QED  BY <1>3, <1>4

-----------------------------------------------------------------------------
(* The last of a set of field indices.                                     *)
LEMMA LastExists ==
  ASSUME NEW n \in Nat, NEW S \in SUBSET (0..n), S # {}
  PROVE  /\ (CHOOSE m \in S : \A m2 \in S : m2 <= m) \in S
         /\ \A y \in S : y <= (CHOOSE m \in S : \A m2 \in S : m2 <= m)
<1> DEFINE T == {n - m : m \in S}
<1>1. T \subseteq Nat /\ T # {}
  <2>1. \A m \in S : n - m \in Nat
    OBVIOUS
  <2>2. PICK m1 \in S : TRUE
    OBVIOUS
  <2>. QED  BY <2>1, <2>2
<1>2. PICK x \in T : \A y \in T : ~(<<y, x>> \in OpToRel(<, Nat))
  BY <1>1, NatLessThanWellFounded, WFMin
<1>3. PICK m0 \in S : x = n - m0
  OBVIOUS
<1>4. \A y \in S : y <= m0
  <2> SUFFICES ASSUME NEW y \in S PROVE y <= m0
    OBVIOUS
  <2>1. n - y \in T /\ n - y \in Nat /\ x \in Nat
    BY <1>1
  <2>2. ~(n - y < x)
    BY <1>2, <2>1 DEF OpToRel
  <2>. QED  BY <1>3, <2>2
<1>. QED  BY <1>4

LEMMA LastUnique ==
  ASSUME NEW S \in SUBSET Int, NEW x \in S, \A y \in S : y <= x
  PROVE  (CHOOSE m \in S : \A m2 \in S : m2 <= m) = x
<1>1. \A m \in S : (\A m2 \in S : m2 <= m) => m = x
  OBVIOUS
<1>. QED  BY <1>1

-----------------------------------------------------------------------------
(* What the invariant gives about the frames of a running decode.         *)
LEMMA Frames ==
  ASSUME SizeofInv, Running
  PROVE  /\ Len(stack) \in Nat \ {0}
         /\ \A k \in 1..Len(stack) : stack[k] \in GoodFrame /\ stack[k] \in Frame
                                      /\ stack[k].path \in Seq(Int)
         /\ Top \in Frame
         /\ DOMAIN out \subseteq Seq(Int)
<1>1. Len(stack) \in Nat \ {0} /\ stack \in Seq(GoodFrame)
  BY TopFrame DEF SizeofInv, IInv, TypeRest, CtlOK
<1>2. \A k \in 1..Len(stack) : stack[k] \in GoodFrame /\ stack[k] \in Frame
  BY <1>1, ElementOfSeq DEF GoodFrame
<1>3. \A k \in 1..Len(stack) : stack[k].path \in Seq(Int)
  BY <1>2, PathSeq DEF Frame
<1>4. DOMAIN out \subseteq Seq(Int)
  BY PathSeq DEF SizeofInv, IInv, TypeRest, OutOK
<1>. QED  BY <1>1, <1>2, <1>3, <1>4 DEF Top

-----------------------------------------------------------------------------
(* A step of decodeBin writes at most the location of its own call.        *)
OutStep ==
  /\ DOMAIN out \subseteq DOMAIN out'
  /\ DOMAIN out' \subseteq DOMAIN out \cup {Top.path}
  /\ \A p \in DOMAIN out : p # Top.path => out'[p] = out[p]

LEMMA WriteTop ==
  ASSUME NEW v, Write(Top.path, v)
  PROVE  OutStep
BY DEF Write, OutStep

LEMMA KeepOut ==
  ASSUME out' = out
  PROVE  OutStep
BY DEF OutStep

(* A caller's location and its index are where its callee's location      *)
(* leaves it.                                                              *)
LEMMA Caller ==
  ASSUME SizeofInv, Running, NEW k \in 1..(Len(stack) - 1)
  PROVE  /\ stack[k].pc \in {"elems", "sizeof"}
         /\ Inside(Top.path, stack[k].path)
         /\ Top.path[Len(stack[k].path) + 1] = ChildIndex(stack[k])
         /\ ChildIndex(stack[k]) \in Int
         /\ ChildIndex(stack[k]) < Bound(stack[k])
<1>1. Len(stack) \in Nat \ {0} /\ stack[k] \in Frame
  BY Frames
<1>2. /\ stack[k].pc \in {"elems", "sizeof"}
      /\ Inside(Top.path, stack[k].path)
      /\ Top.path[Len(stack[k].path) + 1] = ChildIndex(stack[k])
  <2>1. Len(stack) \in 1..Len(stack) /\ k \in 1..Len(stack) /\ k < Len(stack)
    BY <1>1
  <2>2. \A j, i \in 1..Len(stack) :
          j < i => /\ Inside(stack[i].path, stack[j].path)
                   /\ stack[i].path[Len(stack[j].path) + 1] = ChildIndex(stack[j])
    BY DEF SizeofInv, SizeofRest, PathInv
  <2>3. stack[k].pc \in {"elems", "sizeof"}
    BY <2>1 DEF SizeofInv, SizeofRest, PathInv
  <2>. QED  BY <2>1, <2>2, <2>3, Zenon DEF Top
<1>3. stack[k].i \in Nat
  BY <1>1 DEF Frame
<1>. QED  BY <1>2, <1>3 DEF ChildIndex, Bound

(* The index of a field a caller has passed is not the one its callee is  *)
(* decoding.                                                               *)
LEMMA PassedField ==
  ASSUME SizeofInv, Running, NEW k \in 1..(Len(stack) - 1), stack[k].pc = "sizeof",
         NEW m \in 0..(stack[k].i - 1)
  PROVE  Append(stack[k].path, m) # Top.path
<1>1. stack[k].path \in Seq(Int)
  BY Frames
<1>2. Append(stack[k].path, m)[Len(stack[k].path) + 1] = m
  BY <1>1, AppendInside
<1>3. Top.path[Len(stack[k].path) + 1] = stack[k].i
  BY Caller DEF ChildIndex
<1>. QED  BY <1>2, <1>3

(* The frames below the top keep what the invariant says of them when the *)
(* top call writes its own location.                                       *)
LEMMA BelowFresh ==
  ASSUME SizeofInv, Running, OutStep, NEW k \in 1..(Len(stack) - 1)
  PROVE  FrameFresh(stack[k], out')
<1> DEFINE g == stack[k]
<1>1. /\ g.pc \notin Entry
      /\ Inside(Top.path, g.path)
      /\ Top.path[Len(g.path) + 1] < Bound(g)
  BY Caller DEF Entry
<1>2. FrameFresh(g, out)
  BY Frames DEF SizeofInv, SizeofRest, FramesOK
<1>. QED  BY <1>1, <1>2 DEF FrameFresh, OutStep

LEMMA BelowSources ==
  ASSUME SizeofInv, Running, OutStep, NEW k \in 1..(Len(stack) - 1),
         stack[k].pc = "sizeof", NEW nm
  PROVE  SourcesFor(stack[k], nm, out') = SourcesFor(stack[k], nm, out)
<1> DEFINE g == stack[k]
<1>1. \A m \in 0..(g.i - 1) : Append(g.path, m) \in DOMAIN out' <=> Append(g.path, m) \in DOMAIN out
  BY PassedField DEF OutStep
<1>. QED  BY <1>1 DEF SourcesFor

LEMMA BelowLoop ==
  ASSUME SizeofInv, Running, OutStep, NEW k \in 1..(Len(stack) - 1)
  PROVE  LoopOK(stack[k], out')
<1> DEFINE g == stack[k]
<1> SUFFICES ASSUME g.pc \in {"fields", "sizeof"} PROVE SizedOK(g, out')
  BY DEF LoopOK
<1>1. g.pc = "sizeof" /\ g \in Frame
  BY Caller, Frames
<1>2. SizedOK(g, out)
  BY <1>1 DEF SizeofInv, SizeofRest, FramesOK, LoopOK
<1> SUFFICES ASSUME NEW nm \in FieldNames
             PROVE  /\ nm \in g.sized <=> SourcesFor(g, nm, out') # {}
                    /\ nm \in g.sized =>
                         g.sizes[nm] = SizeOf(Def[FieldOf(g, LastOf(g, nm, out')).type].kind,
                                              out'[Append(g.path, LastOf(g, nm, out'))])
  BY DEF SizedOK
<1>3. SourcesFor(g, nm, out') = SourcesFor(g, nm, out)
  BY <1>1, BelowSources
<1>4. LastOf(g, nm, out') = LastOf(g, nm, out)
  BY <1>3 DEF LastOf
<1>5. ASSUME nm \in g.sized
      PROVE  out'[Append(g.path, LastOf(g, nm, out))] = out[Append(g.path, LastOf(g, nm, out))]
  <2>1. SourcesFor(g, nm, out) # {} /\ SourcesFor(g, nm, out) \in SUBSET (0..g.i) /\ g.i \in Nat
    BY <1>1, <1>2, <1>5 DEF SizedOK, SourcesFor, Frame
  <2>2. LastOf(g, nm, out) \in SourcesFor(g, nm, out)
    BY <2>1, LastExists DEF LastOf
  <2>3. LastOf(g, nm, out) \in 0..(g.i - 1) /\ Append(g.path, LastOf(g, nm, out)) \in DOMAIN out
    BY <2>2 DEF SourcesFor
  <2>4. Append(g.path, LastOf(g, nm, out)) # Top.path
    BY <1>1, <2>3, PassedField
  <2>. QED  BY <2>3, <2>4 DEF OutStep
<1>. QED  BY <1>2, <1>3, <1>4, <1>5 DEF SizedOK

LEMMA PathPair ==
  ASSUME SizeofInv, NEW j \in 1..Len(stack), NEW k \in 1..Len(stack), j < k
  PROVE  /\ Inside(stack[k].path, stack[j].path)
         /\ stack[k].path[Len(stack[j].path) + 1] = ChildIndex(stack[j])
BY Zenon DEF SizeofInv, SizeofRest, PathInv

-----------------------------------------------------------------------------
(* The four ways a step changes the call stack.                            *)

(* The top frame becomes g, at the same location.                          *)
LEMMA ContinueSizeof ==
  ASSUME SizeofInv, Running, OutStep, NEW g,
         stack' = [stack EXCEPT ![Len(stack)] = g],
         g.path = Top.path,
         FrameFresh(g, out'), LoopOK(g, out'), WroteOK(g, out'),
         Len(stack) > 1 => CallOK(stack[Len(stack) - 1], g)
  PROVE  SizeofRest'
<1> DEFINE L == Len(stack)
<1>1. L \in Nat \ {0} /\ stack \in Seq(GoodFrame \cup {g})
  <2>1. stack \in Seq(GoodFrame)
    BY DEF SizeofInv, IInv, TypeRest, CtlOK
  <2>2. GoodFrame \subseteq GoodFrame \cup {g}
    OBVIOUS
  <2>. QED  BY <2>1, <2>2, Frames, SeqMonotonic, Zenon
<1>2. /\ Len(stack') = L
      /\ \A k \in 1..L : stack'[k] = IF k = L THEN g ELSE stack[k]
  BY <1>1, ExceptSeq
<1>3. /\ \A k \in 1..(L - 1) : stack'[k] = stack[k]
      /\ \A k \in 1..L : stack'[k].path = stack[k].path
      /\ stack'[L] = g
  <2>0. L \in 1..L /\ \A k \in 1..(L - 1) : k \in 1..L /\ k # L
    BY <1>1
  <2>1. \A k \in 1..(L - 1) : stack'[k] = stack[k]
    BY <2>0, <1>2, Zenon
  <2>2. stack'[L] = g
    BY <2>0, <1>2, Zenon
  <2>3. \A k \in 1..L : stack'[k].path = stack[k].path
    BY <2>1, <2>2, <1>1 DEF Top
  <2>. QED  BY <2>1, <2>2, <2>3
<1>4. PathInv'
  <2>1. \A k \in 1..(Len(stack') - 1) : stack'[k].pc \in {"elems", "sizeof"}
    <3> SUFFICES ASSUME NEW k \in 1..(L - 1) PROVE stack'[k].pc \in {"elems", "sizeof"}
      BY <1>2
    <3>. QED  BY <1>3 DEF SizeofInv, SizeofRest, PathInv
  <2>2. \A k \in 2..Len(stack') :
          stack'[k].path = Append(stack'[k - 1].path, ChildIndex(stack'[k - 1]))
    <3> SUFFICES ASSUME NEW k \in 2..L
                 PROVE  stack'[k].path = Append(stack'[k - 1].path, ChildIndex(stack'[k - 1]))
      BY <1>2
    <3>1. stack'[k].path = stack[k].path /\ stack'[k - 1] = stack[k - 1]
      BY <1>1, <1>3
    <3>. QED  BY <1>1, <3>1 DEF SizeofInv, SizeofRest, PathInv
  <2>3. \A j, k \in 1..Len(stack') : j < k =>
          /\ Inside(stack'[k].path, stack'[j].path)
          /\ stack'[k].path[Len(stack'[j].path) + 1] = ChildIndex(stack'[j])
    <3> SUFFICES ASSUME NEW j \in 1..L, NEW k \in 1..L, j < k
                 PROVE  /\ Inside(stack'[k].path, stack'[j].path)
                        /\ stack'[k].path[Len(stack'[j].path) + 1] = ChildIndex(stack'[j])
      BY <1>2
    <3>1. stack'[k].path = stack[k].path /\ stack'[j] = stack[j]
      BY <1>1, <1>3
    <3>2. /\ Inside(stack[k].path, stack[j].path)
          /\ stack[k].path[Len(stack[j].path) + 1] = ChildIndex(stack[j])
      BY PathPair
    <3>. QED  BY <3>1, <3>2
  <2>. QED  BY <2>1, <2>2, <2>3 DEF PathInv
<1>5. FramesOK(stack, out)'
  <2> SUFFICES ASSUME NEW k \in 1..L
               PROVE  FrameFresh(stack'[k], out') /\ LoopOK(stack'[k], out')
    BY <1>2 DEF FramesOK
  <2>1. CASE k = L
    BY <1>3, <2>1
  <2>2. CASE k < L
    <3>1. k \in 1..(L - 1) /\ stack'[k] = stack[k]
      BY <1>1, <1>3, <2>2
    <3>. QED  BY <3>1, BelowFresh, BelowLoop
  <2>. QED  BY <1>1, <2>1, <2>2
<1>6. CallInv'
  <2> SUFFICES ASSUME NEW k \in 2..L PROVE CallOK(stack'[k - 1], stack'[k])
    BY <1>2 DEF CallInv
  <2>1. CASE k = L
    <3>1. stack'[k - 1] = stack[L - 1] /\ L > 1
      BY <1>1, <1>3, <2>1
    <3>. QED  BY <1>3, <2>1, <3>1
  <2>2. CASE k < L
    <3>1. stack'[k - 1] = stack[k - 1] /\ stack'[k] = stack[k]
      BY <1>1, <1>3, <2>2
    <3>. QED  BY <3>1 DEF SizeofInv, SizeofRest, CallInv
  <2>. QED  BY <1>1, <2>1, <2>2
<1>7. WroteInv'
  <2>1. stack'[Len(stack')] = g
    BY <1>2, <1>3
  <2>. QED  BY <2>1, Zenon DEF WroteInv, Top
<1>. QED  BY <1>4, <1>5, <1>6, <1>7 DEF SizeofRest

(* The top frame becomes g and calls c on the index g is decoding.        *)
LEMMA CallSizeof ==
  ASSUME SizeofInv, Running, out' = out, NEW g, NEW c,
         stack' = Append([stack EXCEPT ![Len(stack)] = g], c),
         g.path = Top.path, g.pc \in {"elems", "sizeof"}, ChildIndex(g) \in Int,
         c.path = Append(g.path, ChildIndex(g)),
         FrameFresh(g, out), LoopOK(g, out), FrameFresh(c, out), LoopOK(c, out),
         WroteOK(c, out),
         Len(stack) > 1 => CallOK(stack[Len(stack) - 1], g),
         CallOK(g, c)
  PROVE  SizeofRest'
<1> DEFINE L == Len(stack)
           mid == [stack EXCEPT ![L] = g]
<1>1. L \in Nat \ {0} /\ stack \in Seq(GoodFrame \cup {g, c})
  <2>1. stack \in Seq(GoodFrame)
    BY DEF SizeofInv, IInv, TypeRest, CtlOK
  <2>2. GoodFrame \subseteq GoodFrame \cup {g, c}
    OBVIOUS
  <2>. QED  BY <2>1, <2>2, Frames, SeqMonotonic, Zenon
<1>2. mid \in Seq(GoodFrame \cup {g, c}) /\ Len(mid) = L
      /\ \A k \in 1..L : mid[k] = IF k = L THEN g ELSE stack[k]
  BY <1>1, ExceptSeq
<1>3. /\ Len(stack') = L + 1
      /\ \A k \in 1..L : stack'[k] = mid[k]
      /\ stack'[L + 1] = c
  <2>1. c \in GoodFrame \cup {g, c}
    OBVIOUS
  <2>2. /\ Len(Append(mid, c)) = Len(mid) + 1
        /\ \A k \in 1..Len(mid) : Append(mid, c)[k] = mid[k]
        /\ Append(mid, c)[Len(mid) + 1] = c
    <3>1. \A sq \in Seq(GoodFrame \cup {g, c}) :
            /\ Len(Append(sq, c)) = Len(sq) + 1
            /\ \A k \in 1..Len(sq) : Append(sq, c)[k] = sq[k]
            /\ Append(sq, c)[Len(sq) + 1] = c
      BY <2>1, AppendProperties
    <3>. QED  BY <1>2, <3>1
  <2>3. stack' = Append(mid, c)
    OBVIOUS
  <2>. QED  BY <1>2, <2>2, <2>3
<1>4. /\ \A k \in 1..(L - 1) : stack'[k] = stack[k]
      /\ \A k \in 1..L : stack'[k].path = stack[k].path
      /\ stack'[L] = g /\ stack'[L + 1] = c
  <2>0. L \in 1..L /\ \A k \in 1..(L - 1) : k \in 1..L /\ k # L
    BY <1>1
  <2>1. \A k \in 1..(L - 1) : stack'[k] = stack[k]
    BY <2>0, <1>2, <1>3, Zenon
  <2>2. stack'[L] = g
    BY <2>0, <1>2, <1>3, Zenon
  <2>3. \A k \in 1..L : stack'[k].path = stack[k].path
    BY <2>1, <2>2, <1>1 DEF Top
  <2>. QED  BY <1>3, <2>1, <2>2, <2>3
<1>5. g.path \in Seq(Int)
  BY Frames DEF Top
<1>6. PathInv'
  <2>1. \A k \in 1..(Len(stack') - 1) : stack'[k].pc \in {"elems", "sizeof"}
    <3> SUFFICES ASSUME NEW k \in 1..L PROVE stack'[k].pc \in {"elems", "sizeof"}
      BY <1>1, <1>3
    <3>1. CASE k = L
      BY <1>4, <3>1
    <3>2. CASE k < L
      <4>1. stack[k].pc \in {"elems", "sizeof"} /\ stack'[k] = stack[k]
        BY <1>1, <1>4, <3>2 DEF SizeofInv, SizeofRest, PathInv
      <4>. QED  BY <4>1
    <3>. QED  BY <1>1, <3>1, <3>2
  <2>2. \A k \in 2..Len(stack') :
          stack'[k].path = Append(stack'[k - 1].path, ChildIndex(stack'[k - 1]))
    <3> SUFFICES ASSUME NEW k \in 2..(L + 1)
                 PROVE  stack'[k].path = Append(stack'[k - 1].path, ChildIndex(stack'[k - 1]))
      BY <1>3
    <3>1. CASE k = L + 1
      BY <1>4, <3>1
    <3>2. CASE k <= L
      <4>1. stack[k].path = Append(stack[k - 1].path, ChildIndex(stack[k - 1]))
        BY <1>1, <3>2 DEF SizeofInv, SizeofRest, PathInv
      <4>2. stack'[k].path = stack[k].path /\ stack'[k - 1] = stack[k - 1]
        BY <1>1, <1>4, <3>2
      <4>. QED  BY <4>1, <4>2
    <3>. QED  BY <1>1, <3>1, <3>2
  <2>3. \A j, k \in 1..L : j < k =>
          /\ Inside(stack'[k].path, stack'[j].path)
          /\ stack'[k].path[Len(stack'[j].path) + 1] = ChildIndex(stack'[j])
    <3> SUFFICES ASSUME NEW j \in 1..L, NEW k \in 1..L, j < k
                 PROVE  /\ Inside(stack'[k].path, stack'[j].path)
                        /\ stack'[k].path[Len(stack'[j].path) + 1] = ChildIndex(stack'[j])
      OBVIOUS
    <3>1. stack'[j] = stack[j] /\ stack'[k].path = stack[k].path
      BY <1>1, <1>4
    <3>. QED  BY <3>1, PathPair
  <2>4. Inside(c.path, g.path) /\ c.path[Len(g.path) + 1] = ChildIndex(g)
    BY <1>5, AppendInside
  <2>5. \A j \in 1..(L - 1) :
          /\ Inside(c.path, stack[j].path)
          /\ c.path[Len(stack[j].path) + 1] = ChildIndex(stack[j])
    <3> SUFFICES ASSUME NEW j \in 1..(L - 1)
                 PROVE  /\ Inside(c.path, stack[j].path)
                        /\ c.path[Len(stack[j].path) + 1] = ChildIndex(stack[j])
      OBVIOUS
    <3>1. Inside(Top.path, stack[j].path)
          /\ Top.path[Len(stack[j].path) + 1] = ChildIndex(stack[j])
      BY Caller
    <3>2. stack[j].path \in Seq(Int)
      BY <1>1, Frames
    <3>. QED  BY <1>5, <3>1, <3>2, InsideAppend
  <2>6. \A j, k \in 1..Len(stack') : j < k =>
          /\ Inside(stack'[k].path, stack'[j].path)
          /\ stack'[k].path[Len(stack'[j].path) + 1] = ChildIndex(stack'[j])
    <3> SUFFICES ASSUME NEW j \in 1..Len(stack'), NEW k \in 1..Len(stack'), j < k
                 PROVE  /\ Inside(stack'[k].path, stack'[j].path)
                        /\ stack'[k].path[Len(stack'[j].path) + 1] = ChildIndex(stack'[j])
      OBVIOUS
    <3>1. CASE k <= L
      BY <1>1, <1>3, <2>3, <3>1
    <3>2. CASE k = L + 1 /\ j = L
      BY <1>4, <2>4, <3>2
    <3>3. CASE k = L + 1 /\ j < L
      <4>1. j \in 1..(L - 1) /\ stack'[j] = stack[j] /\ stack'[k] = c
        BY <1>1, <1>3, <1>4, <3>3
      <4>. QED  BY <2>5, <4>1
    <3>4. PICK n \in Nat \ {0} : n = L
      BY <1>1
    <3>5. k \in 1..(n + 1) /\ j \in 1..(n + 1)
      BY <1>3, <3>4
    <3>6. k <= L \/ (k = L + 1 /\ j = L) \/ (k = L + 1 /\ j < L)
      BY <3>4, <3>5
    <3>. QED  BY <3>1, <3>2, <3>3, <3>6
  <2>. QED  BY <2>1, <2>2, <2>6 DEF PathInv
<1>7. FramesOK(stack, out)'
  <2>1. FramesOK(stack, out)
    BY DEF SizeofInv, SizeofRest
  <2>. QED  BY <1>1, <1>3, <1>4, <2>1 DEF FramesOK
<1>8. CallInv'
  <2>1. CallInv
    BY DEF SizeofInv, SizeofRest
  <2>. QED  BY <1>1, <1>3, <1>4, <2>1 DEF CallInv
<1>9. WroteInv'
  <2>1. stack'[Len(stack')] = c
    BY <1>3
  <2>. QED  BY <2>1 DEF WroteInv, Top
<1>. QED  BY <1>6, <1>7, <1>8, <1>9 DEF SizeofRest

(* The top frame returns.                                                  *)
LEMMA ReturnSizeof ==
  ASSUME SizeofInv, Running, OutStep,
         stack' = SubSeq(stack, 1, Len(stack) - 1),
         Len(stack) > 1 => WroteOK(stack[Len(stack) - 1], out')
  PROVE  SizeofRest'
<1> DEFINE L == Len(stack)
<1>1. L \in Nat \ {0} /\ stack \in Seq(GoodFrame)
  BY Frames DEF SizeofInv, IInv, TypeRest, CtlOK
<1>2. /\ Len(stack') = L - 1
      /\ \A k \in 1..(L - 1) : stack'[k] = stack[k]
  <2>1. PICK n \in Nat : n = L - 1
    BY <1>1
  <2>2. \A k \in 1..n : stack[k] \in GoodFrame
    BY <1>1, <2>1, ElementOfSeq
  <2>3. /\ Len(SubSeq(stack, 1, n)) = IF 1 <= n THEN n - 1 + 1 ELSE 0
        /\ \A k \in 1..(n - 1 + 1) : SubSeq(stack, 1, n)[k] = stack[1 + k - 1]
    BY <2>2, SubSeqProperties
  <2>. QED  BY <2>1, <2>3
<1>3. PathInv'
  <2>1. \A k \in 1..(Len(stack') - 1) : stack'[k].pc \in {"elems", "sizeof"}
    <3> SUFFICES ASSUME NEW k \in 1..(L - 2) PROVE stack'[k].pc \in {"elems", "sizeof"}
      BY <1>2
    <3>. QED  BY <1>1, <1>2 DEF SizeofInv, SizeofRest, PathInv
  <2>2. \A k \in 2..Len(stack') :
          stack'[k].path = Append(stack'[k - 1].path, ChildIndex(stack'[k - 1]))
    <3> SUFFICES ASSUME NEW k \in 2..(L - 1)
                 PROVE  stack'[k].path = Append(stack'[k - 1].path, ChildIndex(stack'[k - 1]))
      BY <1>2
    <3>1. stack'[k] = stack[k] /\ stack'[k - 1] = stack[k - 1]
      BY <1>1, <1>2
    <3>. QED  BY <1>1, <3>1 DEF SizeofInv, SizeofRest, PathInv
  <2>3. \A j, k \in 1..Len(stack') : j < k =>
          /\ Inside(stack'[k].path, stack'[j].path)
          /\ stack'[k].path[Len(stack'[j].path) + 1] = ChildIndex(stack'[j])
    <3> SUFFICES ASSUME NEW j \in 1..(L - 1), NEW k \in 1..(L - 1), j < k
                 PROVE  /\ Inside(stack'[k].path, stack'[j].path)
                        /\ stack'[k].path[Len(stack'[j].path) + 1] = ChildIndex(stack'[j])
      BY <1>2
    <3>1. stack'[k] = stack[k] /\ stack'[j] = stack[j]
      BY <1>1, <1>2
    <3>2. j \in 1..Len(stack) /\ k \in 1..Len(stack)
      BY <1>1
    <3>3. /\ Inside(stack[k].path, stack[j].path)
          /\ stack[k].path[Len(stack[j].path) + 1] = ChildIndex(stack[j])
      BY <3>2, PathPair
    <3>. QED  BY <3>1, <3>3
  <2>. QED  BY <2>1, <2>2, <2>3 DEF PathInv
<1>4. FramesOK(stack, out)'
  BY <1>1, <1>2, BelowFresh, BelowLoop DEF FramesOK
<1>5. CallInv'
  BY <1>1, <1>2 DEF SizeofInv, SizeofRest, CallInv
<1>6. WroteInv'
  <2>1. CASE L = 1
    <3>1. stack # <<>>
      BY DEF Running
    <3>2. stack' \in Seq(GoodFrame) /\ Len(stack') = 0
      BY <1>1, <2>1, <3>1, PopSeq
    <3>3. stack' = <<>>
      BY <3>2, EmptySeq
    <3>. QED  BY <3>3 DEF WroteInv
  <2>2. CASE L > 1
    <3>1. Len(stack') = L - 1 /\ L - 1 \in 1..(L - 1)
      BY <1>1, <1>2, <2>2
    <3>2. stack'[Len(stack')] = stack[L - 1]
      BY <1>2, <3>1
    <3>3. WroteOK(stack[L - 1], out')
      BY <2>2
    <3>. QED  BY <3>2, <3>3, Zenon DEF WroteInv, Top
  <2>3. L = 1 \/ L > 1
    <3>1. PICK n \in Nat \ {0} : n = L
      BY <1>1
    <3>2. n = 1 \/ n > 1
      OBVIOUS
    <3>. QED  BY <3>1, <3>2
  <2>. QED  BY <2>1, <2>2, <2>3, Zenon
<1>. QED  BY <1>3, <1>4, <1>5, <1>6 DEF SizeofRest

(* The decode ends.                                                        *)
LEMMA EndSizeof ==
  ASSUME stack' = <<>>
  PROVE  SizeofRest'
BY EmptySeq DEF SizeofRest, PathInv, FramesOK, CallInv, WroteInv

-----------------------------------------------------------------------------
(* What a new top frame has to satisfy, frame by frame.                    *)

(* A call that has not dispatched moves to another pre-dispatch point, or *)
(* enters a loop at index 0; a loop moves forward.                         *)
LEMMA FreshEntry ==
  ASSUME NEW f, NEW g, NEW o, g.path = f.path, f.pc \in Entry, FrameFresh(f, o)
  PROVE  FrameFresh(g, o)
BY DEF FrameFresh

LEMMA FreshLoop ==
  ASSUME NEW f, NEW g, NEW o, g.path = f.path, f.pc \notin Entry, g.pc \notin Entry,
         Bound(f) \in Int, Bound(g) \in Int, Bound(f) <= Bound(g), FrameFresh(f, o),
         DOMAIN o \subseteq Seq(Int), Len(f.path) \in Nat
  PROVE  FrameFresh(g, o)
<1> SUFFICES ASSUME NEW p \in DOMAIN o, Inside(p, g.path)
             PROVE  p[Len(g.path) + 1] < Bound(g)
  BY DEF FrameFresh
<1>1. p[Len(f.path) + 1] < Bound(f)
  BY DEF FrameFresh
<1>2. p[Len(f.path) + 1] \in Int
  <2>1. p \in Seq(Int) /\ Len(p) > Len(f.path)
    BY DEF Inside
  <2>2. Len(f.path) + 1 \in 1..Len(p)
    BY <2>1, LenProperties
  <2>. QED  BY <2>1, <2>2, ElementOfSeq
<1>. QED  BY <1>1, <1>2

(* The top frame is a loop at index Top.i, which it has not reached.       *)
LEMMA ChildFresh ==
  ASSUME SizeofInv, Running, Top.pc \in {"elems", "fields"},
         NEW c, c.path = Append(Top.path, Top.i)
  PROVE  FrameFresh(c, out)
<1>1. Top \in Frame /\ Top.path \in Seq(Int) /\ DOMAIN out \subseteq Seq(Int)
  BY Frames DEF Top
<1>2. FrameFresh(Top, out)
  BY Frames DEF SizeofInv, SizeofRest, FramesOK, Top
<1>3. Top.i \in Int /\ Bound(Top) = Top.i /\ Top.pc \notin Entry
  BY <1>1 DEF Frame, Bound, Entry
<1> SUFFICES ASSUME NEW p \in DOMAIN out, p = c.path \/ Inside(p, c.path) PROVE FALSE
  BY DEF FrameFresh
<1>4. Inside(p, Top.path) /\ p[Len(Top.path) + 1] = Top.i
  <2>1. p \in Seq(Int) /\ (p = Append(Top.path, Top.i) \/ Inside(p, Append(Top.path, Top.i)))
    BY <1>1
  <2>. QED  BY <1>1, <1>3, <2>1, InsideOfAppend
<1>. QED  BY <1>2, <1>3, <1>4 DEF FrameFresh

(* A loop frame that has not moved on keeps its sizeOfMap invariant.        *)
LEMMA SizedSame ==
  ASSUME NEW f, NEW g, NEW o, g.t = f.t, g.i = f.i, g.path = f.path,
         g.sized = f.sized, g.sizes = f.sizes, SizedOK(f, o)
  PROVE  SizedOK(g, o)
<1>1. \A nm : SourcesFor(g, nm, o) = SourcesFor(f, nm, o)
  BY DEF SourcesFor, FieldOf
<1>2. \A nm : LastOf(g, nm, o) = LastOf(f, nm, o)
  BY <1>1 DEF LastOf
<1>3. \A m : FieldOf(g, m) = FieldOf(f, m)
  BY DEF FieldOf
<1>. QED  BY <1>1, <1>2, <1>3 DEF SizedOK

(* A field passed without decoding adds no source: nothing was written at *)
(* it.                                                                     *)
LEMMA SkipSized ==
  ASSUME SizeofInv, Running, Top.pc = "fields", NEW g, g.t = Top.t, g.i = Top.i + 1,
         g.path = Top.path, g.sized = Top.sized, g.sizes = Top.sizes
  PROVE  SizedOK(g, out)
<1>1. Top \in Frame /\ Top.path \in Seq(Int) /\ FrameFresh(Top, out) /\ SizedOK(Top, out)
  BY Frames DEF SizeofInv, SizeofRest, FramesOK, LoopOK, Top
<1>2. Append(Top.path, Top.i) \notin DOMAIN out
  <2>1. Top.i \in Int /\ Bound(Top) = Top.i /\ Top.pc \notin Entry
    BY <1>1 DEF Frame, Bound, Entry
  <2>2. Inside(Append(Top.path, Top.i), Top.path)
        /\ Append(Top.path, Top.i)[Len(Top.path) + 1] = Top.i
    BY <1>1, <2>1, AppendInside
  <2> SUFFICES ASSUME Append(Top.path, Top.i) \in DOMAIN out PROVE FALSE
    OBVIOUS
  <2>3. Append(Top.path, Top.i)[Len(Top.path) + 1] < Bound(Top)
    BY <1>1, <2>1, <2>2 DEF FrameFresh
  <2>. QED  BY <2>1, <2>2, <2>3
<1>3. \A nm : SourcesFor(g, nm, out) = SourcesFor(Top, nm, out)
  <2> SUFFICES ASSUME NEW nm, NEW m
               PROVE  m \in SourcesFor(g, nm, out) <=> m \in SourcesFor(Top, nm, out)
    BY DEF SourcesFor
  <2>1. Top.i \in Nat
    BY <1>1 DEF Frame
  <2>2. m \in 0..(g.i - 1) <=> m \in 0..(Top.i - 1) \/ m = Top.i
    BY <2>1
  <2>3. FieldOf(g, m) = FieldOf(Top, m)
    BY DEF FieldOf
  <2>. QED  BY <1>2, <2>2, <2>3 DEF SourcesFor
<1>. QED  BY <1>1, <1>3 DEF SizedOK, LastOf, FieldOf

(* The callee's option, and for an integer field its type, survive a step *)
(* of the callee that keeps them.                                          *)
LEMMA CallKeep ==
  ASSUME SizeofInv, Running, Len(stack) > 1, NEW g, g.opt = Top.opt,
         Def[Top.t].kind \in IntKinds /\ ~Top.u /\ Top.pc \in Entry =>
           g.t = Top.t /\ ~g.u /\ g.pc \in Entry
  PROVE  CallOK(stack[Len(stack) - 1], g)
<1>1. PICK n \in Nat \ {0} : n = Len(stack)
  BY Frames
<1>2. n \in 2..Len(stack) /\ n - 1 = Len(stack) - 1
  BY <1>1
<1>3. CallOK(stack[Len(stack) - 1], Top)
  BY <1>1, <1>2 DEF SizeofInv, SizeofRest, CallInv, Top
<1>. QED  BY <1>3, Zenon DEF CallOK, CurKind

(* A call that returns without writing is no integer field's call.        *)
LEMMA PopKeep ==
  ASSUME SizeofInv, Running, DOMAIN out \subseteq DOMAIN out',
         ~(Top.pc \in Entry /\ Def[Top.t].kind \in IntKinds)
  PROVE  Len(stack) > 1 => WroteOK(stack[Len(stack) - 1], out')
<1> SUFFICES ASSUME Len(stack) > 1 PROVE WroteOK(stack[Len(stack) - 1], out')
  OBVIOUS
<1>1. PICK n \in Nat \ {0} : n = Len(stack)
  BY Frames
<1>2. n \in 2..Len(stack) /\ n - 1 = Len(stack) - 1 /\ n - 1 \in 1..Len(stack)
  BY <1>1
<1>3. CallOK(stack[Len(stack) - 1], Top) /\ WroteInv
  BY <1>1, <1>2 DEF SizeofInv, SizeofRest, CallInv, Top
<1>. QED  BY <1>3 DEF CallOK, WroteOK, CurKind

(* A call that returns after writing its location: if its caller is at a  *)
(* field, that field's location is now written.                            *)
LEMMA PopWrote ==
  ASSUME SizeofInv, Running, Top.path \in DOMAIN out'
  PROVE  Len(stack) > 1 => WroteOK(stack[Len(stack) - 1], out')
<1> SUFFICES ASSUME Len(stack) > 1 PROVE WroteOK(stack[Len(stack) - 1], out')
  OBVIOUS
<1>1. PICK n \in Nat \ {0} : n = Len(stack)
  BY Frames
<1>2. n \in 2..Len(stack) /\ n - 1 = Len(stack) - 1
  BY <1>1
<1>3. Top.path = Append(stack[Len(stack) - 1].path, ChildIndex(stack[Len(stack) - 1]))
  BY <1>1, <1>2 DEF SizeofInv, SizeofRest, PathInv, Top
<1>. QED  BY <1>3 DEF WroteOK, ChildIndex

-----------------------------------------------------------------------------
(* The shapes of a step, with what each leaves to show.                    *)

LEMMA EndStep ==
  ASSUME NEW why, Fail(why) \/ Crash(why)
  PROVE  SizeofRest'
BY EndSizeof DEF Fail, Crash

(* decodeBin returns after setting its location.                          *)
LEMMA WriteReturnStep ==
  ASSUME SizeofInv, Running, NEW v, Write(Top.path, v), Return
  PROVE  SizeofRest'
<1>1. OutStep /\ Top.path \in DOMAIN out'
  BY WriteTop DEF Write
<1>. QED  BY <1>1, PopWrote, ReturnSizeof DEF Return

(* decodeBin returns without writing, which no integer field's call does. *)
LEMMA KeepReturnStep ==
  ASSUME SizeofInv, Running, Return, out' = out,
         ~(Top.pc \in Entry /\ Def[Top.t].kind \in IntKinds)
  PROVE  SizeofRest'
BY KeepOut, PopKeep, ReturnSizeof DEF Return

(* A step of a call that keeps the destination and the call's option.     *)
LEMMA KeepContinueStep ==
  ASSUME SizeofInv, Running, out' = out, NEW g, Continue(g), g.path = Top.path,
         FrameFresh(g, out), LoopOK(g, out), WroteOK(g, out), g.opt = Top.opt,
         Def[Top.t].kind \in IntKinds /\ ~Top.u /\ Top.pc \in Entry =>
           g.t = Top.t /\ ~g.u /\ g.pc \in Entry
  PROVE  SizeofRest'
<1>1. OutStep
  BY KeepOut
<1>2. Len(stack) > 1 => CallOK(stack[Len(stack) - 1], g)
  BY CallKeep
<1>. QED  BY <1>1, <1>2, ContinueSizeof DEF Continue

(* A step of a call that has not dispatched yet.                          *)
LEMMA EntryStep ==
  ASSUME SizeofInv, Running, Top.pc \in Entry, out' = out, NEW g, Continue(g),
         g.path = Top.path, g.pc \in Entry, g.opt = Top.opt,
         Def[Top.t].kind \in IntKinds /\ ~Top.u => g.t = Top.t /\ ~g.u
  PROVE  SizeofRest'
<1>1. FrameFresh(Top, out)
  BY Frames DEF SizeofInv, SizeofRest, FramesOK, Top
<1>2. FrameFresh(g, out) /\ LoopOK(g, out) /\ WroteOK(g, out)
  BY <1>1, FreshEntry DEF LoopOK, WroteOK, Entry
<1>. QED  BY <1>2, KeepContinueStep

-----------------------------------------------------------------------------
(* The actions.                                                            *)

LEMMA DecodeSizeof ==
  ASSUME SizeofInv, Decode
  PROVE  SizeofRest'
<1>1. PICK r \in Roots, isNil \in NilRoots :
        IF Def[r].kind # "ptr"
          THEN Fail("invalid_decoder")
          ELSE stack' = <<Frame0(r, isNil)>> /\ status' = "running" /\ fault' = "none"
  BY Zenon DEF Decode
<1>2. CASE Def[r].kind # "ptr"
  BY <1>1, <1>2, EndStep
<1>3. CASE ~(Def[r].kind # "ptr")
  <2> DEFINE F == Frame0(r, isNil)
  <2>1. stack' = <<F>> /\ DOMAIN out' = {} /\ F.pc = "enter"
    BY <1>1, <1>3 DEF Decode, Frame0
  <2>2. PathInv'
    BY <2>1 DEF PathInv
  <2>3. FramesOK(stack, out)'
    BY <2>1 DEF FramesOK, FrameFresh, LoopOK
  <2>4. CallInv' /\ WroteInv'
    BY <2>1 DEF CallInv, WroteInv, WroteOK, Top
  <2>. QED  BY <2>2, <2>3, <2>4 DEF SizeofRest
<1>. QED  BY <1>2, <1>3

LEMMA EnterSizeof ==
  ASSUME SizeofInv, Enter
  PROVE  SizeofRest'
<1>1. Running /\ Top \in Frame /\ Top.pc = "enter"
  BY Frames DEF Enter
<1>2. Top.pc \in Entry /\ "ind1" \in Entry
  BY <1>1 DEF Entry
<1> DEFINE g == [Top EXCEPT !.pc = "ind1"]
<1>3. g.path = Top.path /\ g.pc = "ind1" /\ g.opt = Top.opt /\ g.t = Top.t /\ g.u = Top.u
  BY <1>1 DEF Frame
<1>4. Continue(g) /\ out' = out
  BY DEF Enter
<1>. QED  BY <1>1, <1>2, <1>3, <1>4, EntryStep

(* indirect: whatever turn it takes, the call stays before its dispatch,   *)
(* at its location, with its option; an integer stays an integer that is  *)
(* not an Unmarshaler (DefAssumption: only named non-integer types are).   *)
LEMMA IndirectSizeof ==
  ASSUME SizeofInv, IndirectStep
  PROVE  SizeofRest'
<1>1. Running /\ Top \in Frame /\ Top.pc \in {"ind1", "ind2"} /\ out' = out
  BY Frames DEF IndirectStep
<1> DEFINE after == IF Top.pc = "ind1" /\ Top.opt.optional THEN "presence" ELSE "dispatch"
           uc == Def[Top.t].named /\ Def[Top.t].custom
           e == Def[Top.t].elem
           deref == [Top EXCEPT !.t = e, !.settable = TRUE, !.isNil = TRUE, !.u = FALSE,
                                !.valid = TRUE, !.pc = IF Def[e].kind = "ptr" THEN Top.pc ELSE after]
<1>2. \/ Continue([Top EXCEPT !.pc = after, !.u = uc, !.valid = ~uc])
      \/ Continue([Top EXCEPT !.pc = after, !.u = FALSE, !.valid = TRUE])
      \/ Def[Top.t].kind = "ptr" /\ Continue([Top EXCEPT !.pc = after, !.u = TRUE, !.valid = FALSE])
      \/ Def[Top.t].kind = "ptr" /\ Continue(deref)
      \/ Crash("set_unaddressable")
  BY Zenon DEF IndirectStep
<1>3. Top.pc \in Entry /\ after \in Entry /\ Top.t \in TypeIds
  BY <1>1 DEF Entry, Frame
<1>4. Def[Top.t].kind \in IntKinds => ~uc
  BY <1>3, DefAssumption
<1>5. CASE Continue([Top EXCEPT !.pc = after, !.u = uc, !.valid = ~uc])
  <2> DEFINE g == [Top EXCEPT !.pc = after, !.u = uc, !.valid = ~uc]
  <2>1. g.path = Top.path /\ g.pc = after /\ g.opt = Top.opt /\ g.t = Top.t /\ g.u = uc
    BY <1>1 DEF Frame
  <2>. QED  BY <1>1, <1>3, <1>4, <1>5, <2>1, EntryStep
<1>6. CASE Continue([Top EXCEPT !.pc = after, !.u = FALSE, !.valid = TRUE])
  <2> DEFINE g == [Top EXCEPT !.pc = after, !.u = FALSE, !.valid = TRUE]
  <2>1. g.path = Top.path /\ g.pc = after /\ g.opt = Top.opt /\ g.t = Top.t /\ g.u = FALSE
    BY <1>1 DEF Frame
  <2>. QED  BY <1>1, <1>3, <1>6, <2>1, EntryStep
<1>7. CASE Def[Top.t].kind = "ptr" /\ Continue([Top EXCEPT !.pc = after, !.u = TRUE, !.valid = FALSE])
  <2>1. Def[Top.t].kind \notin IntKinds
    BY <1>7 DEF IntKinds, SignedKinds
  <2> DEFINE g == [Top EXCEPT !.pc = after, !.u = TRUE, !.valid = FALSE]
  <2>2. g.path = Top.path /\ g.pc = after /\ g.opt = Top.opt
    BY <1>1 DEF Frame
  <2>. QED  BY <1>1, <1>3, <1>7, <2>1, <2>2, EntryStep
<1>8. CASE Def[Top.t].kind = "ptr" /\ Continue(deref)
  <2>1. Def[Top.t].kind \notin IntKinds
    BY <1>8 DEF IntKinds, SignedKinds
  <2>2. deref.pc \in Entry /\ deref.path = Top.path /\ deref.opt = Top.opt
    BY <1>1, <1>3 DEF Entry
  <2>. QED  BY <1>1, <1>3, <1>8, <2>1, <2>2, EntryStep
<1>9. CASE Crash("set_unaddressable")
  BY <1>9, EndStep
<1>. QED  BY <1>2, <1>5, <1>6, <1>7, <1>8, <1>9

LEMMA PresenceSizeof ==
  ASSUME SizeofInv, ReadPresence
  PROVE  SizeofRest'
<1>1. Running /\ Top \in Frame /\ Top.pc = "presence"
  BY Frames DEF ReadPresence
<1>2. \/ Fail("truncated") \/ Crash("invalid_value")
      \/ Write(Top.path, ZeroValue) /\ Return
      \/ Continue([Top EXCEPT !.pc = "ind2"]) /\ out' = out
  BY Zenon DEF ReadPresence
<1>3. Top.pc \in Entry /\ "ind2" \in Entry
  BY <1>1 DEF Entry
<1> DEFINE g == [Top EXCEPT !.pc = "ind2"]
<1>4. g.path = Top.path /\ g.pc = "ind2" /\ g.opt = Top.opt /\ g.t = Top.t /\ g.u = Top.u
  BY <1>1 DEF Frame
<1>5. CASE Continue(g) /\ out' = out
  BY <1>1, <1>3, <1>4, <1>5, EntryStep
<1>. QED  BY <1>1, <1>2, <1>5, EndStep, WriteReturnStep

LEMMA UnmarshalSizeof ==
  ASSUME SizeofInv, Unmarshal
  PROVE  SizeofRest'
<1>1. Running
  BY DEF Unmarshal
<1>2. \/ \E v : Write(Top.path, v) /\ Return
      \/ Fail("unmarshaler")
  BY Zenon DEF Unmarshal
<1>. QED  BY <1>1, <1>2, EndStep, WriteReturnStep

LEMMA ScalarSizeof ==
  ASSUME SizeofInv, DecodeScalar
  PROVE  SizeofRest'
<1>1. Running
  BY DEF DecodeScalar
<1>2. \/ Fail("truncated")
      \/ \E v : Write(Top.path, v) /\ Return
  BY Zenon DEF DecodeScalar
<1>. QED  BY <1>1, <1>2, EndStep, WriteReturnStep

LEMMA StringSizeof ==
  ASSUME SizeofInv, DecodeString
  PROVE  SizeofRest'
<1>1. Running
  BY DEF DecodeString
<1>2. \/ Fail("varint") \/ Fail("truncated") \/ Crash("slice_bounds")
      \/ \E v : Write(Top.path, v) /\ Return
  BY Zenon DEF DecodeString
<1>. QED  BY <1>1, <1>2, EndStep, WriteReturnStep

LEMMA InterfaceSizeof ==
  ASSUME SizeofInv, DecodeInterface
  PROVE  SizeofRest'
<1>1. Def[Top.t].kind \notin IntKinds
  BY DEF DecodeInterface, IntKinds, SignedKinds
<1>. QED  BY <1>1, KeepReturnStep DEF DecodeInterface

LEMMA UnsupportedSizeof ==
  ASSUME SizeofInv, Unsupported
  PROVE  SizeofRest'
BY EndStep DEF Unsupported

(* Entering a loop: nothing has been written inside the location yet.     *)
LEMMA ArraySizeof ==
  ASSUME SizeofInv, DecodeArray
  PROVE  SizeofRest'
<1>1. Running /\ Top \in Frame /\ Top.pc = "dispatch" /\ Def[Top.t].kind = "array" /\ out' = out
  BY Frames DEF DecodeArray
<1> DEFINE g == [Top EXCEPT !.pc = "elems", !.i = 0, !.n = Def[Top.t].len]
<1>2. g.path = Top.path /\ g.pc = "elems" /\ g.opt = Top.opt
  BY <1>1 DEF Frame
<1>3. FrameFresh(g, out)
  <2>1. FrameFresh(Top, out) /\ Top.pc \in Entry
    BY <1>1, Frames DEF SizeofInv, SizeofRest, FramesOK, Top, Entry
  <2>. QED  BY <1>2, <2>1, FreshEntry
<1>4. LoopOK(g, out) /\ WroteOK(g, out) /\ Def[Top.t].kind \notin IntKinds
  BY <1>1, <1>2 DEF LoopOK, WroteOK, IntKinds, SignedKinds
<1>. QED  BY <1>1, <1>2, <1>3, <1>4, KeepContinueStep DEF DecodeArray

(* decodeStruct starts with an empty sizeOfMap, and no field is passed.    *)
LEMMA StructSizeof ==
  ASSUME SizeofInv, DecodeStruct
  PROVE  SizeofRest'
<1>1. Running /\ Top \in Frame /\ Top.pc = "dispatch" /\ Def[Top.t].kind = "struct" /\ out' = out
  BY Frames DEF DecodeStruct
<1> DEFINE g == [Top EXCEPT !.pc = "fields", !.i = 0, !.n = Len(Def[Top.t].fields),
                            !.sized = {}, !.sizes = EmptySizes, !.seenExt = FALSE]
<1>2. g.path = Top.path /\ g.pc = "fields" /\ g.opt = Top.opt /\ g.i = 0 /\ g.sized = {}
  BY <1>1 DEF Frame
<1>3. FrameFresh(g, out)
  <2>1. FrameFresh(Top, out) /\ Top.pc \in Entry
    BY <1>1, Frames DEF SizeofInv, SizeofRest, FramesOK, Top, Entry
  <2>. QED  BY <1>2, <2>1, FreshEntry
<1>4. LoopOK(g, out)
  <2>1. \A nm : SourcesFor(g, nm, out) = {}
    BY <1>2 DEF SourcesFor
  <2>. QED  BY <1>2, <2>1 DEF LoopOK, SizedOK
<1>5. WroteOK(g, out) /\ Def[Top.t].kind \notin IntKinds
  BY <1>1, <1>2 DEF WroteOK, IntKinds, SignedKinds
<1>. QED  BY <1>1, <1>2, <1>3, <1>4, <1>5, KeepContinueStep DEF DecodeStruct

(* MakeSlice writes the slice header at the location, then loops.          *)
LEMMA MakeSliceSizeof ==
  ASSUME SizeofInv, Running, Top.pc = "dispatch", Def[Top.t].kind = "slice",
         NEW l, MakeSlice(l)
  PROVE  SizeofRest'
<1>1. Top \in Frame /\ Top.path \in Seq(Int) /\ DOMAIN out \subseteq Seq(Int)
  BY Frames DEF Top
<1>2. CASE l < 0
  BY <1>2, EndStep DEF MakeSlice
<1>3. CASE ~(l < 0)
  <2> DEFINE g == [Top EXCEPT !.pc = "elems", !.i = 0, !.n = l]
  <2>1. Write(Top.path, [tag |-> "slice", data |-> <<l>>]) /\ Continue(g)
    BY <1>3 DEF MakeSlice
  <2>2. g.path = Top.path /\ g.pc = "elems" /\ g.opt = Top.opt
    BY <1>1 DEF Frame
  <2>3. OutStep
    BY <2>1, WriteTop
  <2>4. FrameFresh(g, out')
    <3>1. FrameFresh(Top, out) /\ Top.pc \in Entry
      BY Frames DEF SizeofInv, SizeofRest, FramesOK, Top, Entry
    <3>2. DOMAIN out' = DOMAIN out \cup {Top.path}
      BY <2>1 DEF Write
    <3>3. ~Inside(Top.path, Top.path)
      <4>1. Len(Top.path) \in Nat
        BY <1>1, LenProperties
      <4>. QED  BY <4>1 DEF Inside
    <3>4. \A p \in DOMAIN out' : ~Inside(p, g.path)
      BY <2>2, <3>1, <3>2, <3>3 DEF FrameFresh
    <3>5. g.pc \notin Entry
      BY <2>2 DEF Entry
    <3>. QED  BY <3>4, <3>5 DEF FrameFresh
  <2>5. LoopOK(g, out') /\ WroteOK(g, out')
    BY <2>2 DEF LoopOK, WroteOK
  <2>6. Len(stack) > 1 => CallOK(stack[Len(stack) - 1], g)
    <3>1. Def[Top.t].kind \notin IntKinds
      BY DEF IntKinds, SignedKinds
    <3>. QED  BY <2>2, <3>1, CallKeep
  <2>. QED  BY <2>1, <2>2, <2>3, <2>4, <2>5, <2>6, ContinueSizeof DEF Continue
<1>. QED  BY <1>2, <1>3

LEMMA SliceSizeof ==
  ASSUME SizeofInv, DecodeSlice
  PROVE  SizeofRest'
<1>1. Running /\ Top.pc = "dispatch" /\ Def[Top.t].kind = "slice"
  BY DEF DecodeSlice
<1>2. \/ \E l : MakeSlice(l)
      \/ Fail("varint")
  BY Zenon DEF DecodeSlice
<1>. QED  BY <1>1, <1>2, MakeSliceSizeof, EndStep

(* The element loop: element i is called at index i, or the loop ends.    *)
LEMMA ElementSizeof ==
  ASSUME SizeofInv, NextElement
  PROVE  SizeofRest'
<1>1. /\ Running /\ Top \in Frame /\ Top.pc = "elems" /\ out' = out
      /\ Top.path \in Seq(Int) /\ DOMAIN out \subseteq Seq(Int)
  BY Frames DEF NextElement, Top
<1>2. Top.pc \notin Entry
  BY <1>1 DEF Entry
<1>3. CASE Return
  BY <1>1, <1>2, <1>3, KeepReturnStep
<1> DEFINE g == [Top EXCEPT !.i = Top.i + 1]
           c == ChildFrame(Top, Def[Top.t].elem, Top.opt, Top.i)
<1>4. CASE Call(g, c)
  <2>1. CASE Len(stack) >= MaxDepth
    BY <1>4, <2>1, EndStep DEF Call
  <2>2. CASE ~(Len(stack) >= MaxDepth)
    <3>1. stack' = Append([stack EXCEPT ![Len(stack)] = g], c)
      BY <1>4, <2>2 DEF Call
    <3>2. /\ g.path = Top.path /\ g.pc = "elems" /\ g.opt = Top.opt /\ g.i = Top.i + 1
          /\ Top.i \in Nat
      BY <1>1 DEF Frame
    <3>3. ChildIndex(g) = Top.i /\ ChildIndex(g) \in Int
      BY <3>2 DEF ChildIndex
    <3>4. c.path = Append(Top.path, Top.i) /\ c.pc = "enter"
      BY DEF ChildFrame, Frame0
    <3>5. FrameFresh(g, out)
      <4>1. FrameFresh(Top, out)
        BY <1>1, Frames DEF SizeofInv, SizeofRest, FramesOK, Top
      <4>2. Bound(Top) \in Int /\ Bound(g) \in Int /\ Bound(Top) <= Bound(g) /\ g.pc \notin Entry
        BY <1>1, <3>2 DEF Bound, Entry
      <4>3. Len(Top.path) \in Nat
        BY <1>1, LenProperties
      <4>. QED  BY <1>1, <1>2, <3>2, <4>1, <4>2, <4>3, FreshLoop, Zenon
    <3>6. FrameFresh(c, out)
      BY <1>1, <3>4, ChildFresh
    <3>7. LoopOK(g, out) /\ LoopOK(c, out) /\ WroteOK(c, out) /\ CallOK(g, c)
      BY <3>2, <3>4 DEF LoopOK, WroteOK, CallOK
    <3>8. Len(stack) > 1 => CallOK(stack[Len(stack) - 1], g)
      BY <1>1, <1>2, <3>2, CallKeep
    <3>. QED  BY <1>1, <3>1, <3>2, <3>3, <3>4, <3>5, <3>6, <3>7, <3>8, CallSizeof
  <2>. QED  BY <2>1, <2>2
<1>. QED  BY <1>3, <1>4 DEF NextElement

(* The field loop moves on to field i + 1 without decoding field i.       *)
LEMMA FieldNextStep ==
  ASSUME SizeofInv, Running, Top.pc = "fields", out' = out, NEW g, Continue(g),
         g.pc = "fields", g.path = Top.path, g.t = Top.t, g.i = Top.i + 1,
         g.sized = Top.sized, g.sizes = Top.sizes, g.opt = Top.opt
  PROVE  SizeofRest'
<1>1. /\ Top \in Frame /\ Top.path \in Seq(Int) /\ DOMAIN out \subseteq Seq(Int)
      /\ FrameFresh(Top, out)
  BY Frames DEF SizeofInv, SizeofRest, FramesOK, Top
<1>2. Top.pc \notin Entry /\ g.pc \notin Entry
  BY DEF Entry
<1>3. FrameFresh(g, out)
  <2>1. Bound(Top) \in Int /\ Bound(g) \in Int /\ Bound(Top) <= Bound(g)
    BY <1>1 DEF Bound, Frame
  <2>2. Len(Top.path) \in Nat
    BY <1>1, LenProperties
  <2>. QED  BY <1>1, <1>2, <2>1, <2>2, FreshLoop, Zenon
<1>4. LoopOK(g, out) /\ WroteOK(g, out)
  BY SkipSized DEF LoopOK, WroteOK
<1>. QED  BY <1>2, <1>3, <1>4, KeepContinueStep

(* The field loop: a field is passed, the loop ends, or decodeBin is       *)
(* called on field i with the option built from sizeOfMap.                 *)
LEMMA FieldSizeof ==
  ASSUME SizeofInv, StructField
  PROVE  SizeofRest'
<1>0. Running /\ Top.pc = "fields" /\ out' = out
  BY DEF StructField
<1>1. /\ Running /\ Top \in Frame /\ Top.pc = "fields" /\ out' = out
      /\ Top.path \in Seq(Int) /\ DOMAIN out \subseteq Seq(Int)
  BY <1>0, Frames DEF Top
<1>2. Top.pc \notin Entry
  BY <1>1 DEF Entry
<1> DEFINE f == Top
           fd == Def[f.t].fields[f.i + 1]
           next == [f EXCEPT !.i = f.i + 1, !.seenExt = f.seenExt \/ fd.ext]
           sz == [f EXCEPT !.pc = "sizeof", !.seenExt = f.seenExt \/ fd.ext]
           ch == ChildFrame(f, fd.type, FieldOpt(fd, f), f.i)
<1>3. \/ Return
      \/ Continue(NextField(f))
      \/ Crash("binary_extension_order")
      \/ Continue(next)
      \/ Call(sz, ch)
  BY Zenon DEF StructField
<1>4. CASE Return
  BY <1>1, <1>2, <1>4, KeepReturnStep
<1>5. CASE Continue(NextField(f))
  <2>1. /\ NextField(f).pc = "fields" /\ NextField(f).path = Top.path
        /\ NextField(f).t = Top.t /\ NextField(f).i = Top.i + 1
        /\ NextField(f).sized = Top.sized /\ NextField(f).sizes = Top.sizes
        /\ NextField(f).opt = Top.opt
    BY <1>1 DEF NextField, Frame
  <2>. QED  BY <1>1, <1>5, <2>1, FieldNextStep
<1>6. CASE Continue(next)
  <2>1. /\ next.pc = "fields" /\ next.path = Top.path /\ next.t = Top.t
        /\ next.i = Top.i + 1 /\ next.sized = Top.sized /\ next.sizes = Top.sizes
        /\ next.opt = Top.opt
    BY <1>1 DEF Frame
  <2>. QED  BY <1>1, <1>6, <2>1, FieldNextStep
<1>7. CASE Call(sz, ch)
  <2>1. CASE Len(stack) >= MaxDepth
    BY <1>7, <2>1, EndStep DEF Call
  <2>2. CASE ~(Len(stack) >= MaxDepth)
    <3>1. stack' = Append([stack EXCEPT ![Len(stack)] = sz], ch)
      BY <1>7, <2>2 DEF Call
    <3>2. /\ sz.path = Top.path /\ sz.pc = "sizeof" /\ sz.opt = Top.opt
          /\ sz.t = Top.t /\ sz.i = Top.i /\ sz.sized = Top.sized /\ sz.sizes = Top.sizes
          /\ Top.i \in Nat
      BY <1>1 DEF Frame
    <3>3. ChildIndex(sz) = Top.i /\ ChildIndex(sz) \in Int
      BY <3>2 DEF ChildIndex
    <3>4. /\ ch.path = Append(Top.path, Top.i) /\ ch.pc = "enter" /\ ~ch.u
          /\ ch.t = fd.type /\ ch.opt = FieldOpt(fd, f)
      BY DEF ChildFrame, Frame0
    <3>5. FrameFresh(sz, out)
      <4>1. FrameFresh(Top, out) /\ SizedOK(Top, out)
        BY <1>1, Frames DEF SizeofInv, SizeofRest, FramesOK, LoopOK, Top
      <4>2. Bound(Top) \in Int /\ Bound(sz) \in Int /\ Bound(Top) <= Bound(sz)
            /\ sz.pc \notin Entry
        BY <1>1, <3>2 DEF Bound, Entry
      <4>3. Len(Top.path) \in Nat
        BY <1>1, LenProperties
      <4>. QED  BY <1>1, <1>2, <3>2, <4>1, <4>2, <4>3, FreshLoop, Zenon
    <3>6. LoopOK(sz, out)
      <4>1. SizedOK(Top, out)
        BY <1>1, Frames DEF SizeofInv, SizeofRest, FramesOK, LoopOK, Top
      <4>. QED  BY <3>2, <4>1, SizedSame DEF LoopOK
    <3>7. FrameFresh(ch, out)
      BY <1>1, <3>4, ChildFresh
    <3>8. LoopOK(ch, out) /\ WroteOK(ch, out)
      BY <3>4 DEF LoopOK, WroteOK
    <3>9. CallOK(sz, ch)
      <4>1. CurField(sz) = fd
        BY <3>2 DEF CurField, FieldOf
      <4>2. FieldOpt(fd, sz) = FieldOpt(fd, f)
        BY <3>2 DEF FieldOpt
      <4>3. ch.pc \in Entry
        BY <3>4 DEF Entry
      <4>. QED  BY <3>4, <4>1, <4>2, <4>3 DEF CallOK, CurKind
    <3>10. Len(stack) > 1 => CallOK(stack[Len(stack) - 1], sz)
      BY <1>1, <1>2, <3>2, CallKeep
    <3>. QED  BY <1>1, <3>1, <3>2, <3>3, <3>4, <3>5, <3>6, <3>7, <3>8, <3>9, <3>10,
                CallSizeof
  <2>. QED  BY <2>1, <2>2
<1>8. CASE Crash("binary_extension_order")
  BY <1>8, EndStep
<1>. QED  BY <1>3, <1>4, <1>5, <1>6, <1>7, <1>8

(* A passed field with no sizeof tag leaves sizeOfMap as it was.           *)
LEMMA SizedBySources ==
  ASSUME NEW f, NEW g, NEW o, g.t = f.t, g.path = f.path, g.sized = f.sized,
         g.sizes = f.sizes, \A nm \in FieldNames : SourcesFor(g, nm, o) = SourcesFor(f, nm, o),
         SizedOK(f, o)
  PROVE  SizedOK(g, o)
<1>1. \A nm \in FieldNames : LastOf(g, nm, o) = LastOf(f, nm, o)
  BY DEF LastOf
<1>2. \A m : FieldOf(g, m) = FieldOf(f, m)
  BY DEF FieldOf
<1>. QED  BY <1>1, <1>2 DEF SizedOK

(* The sources of name nm once field i is passed: those before it, and i  *)
(* itself when it names nm and was written.                               *)
LEMMA SourcesNext ==
  ASSUME NEW f, NEW g, NEW o, f.i \in Nat, g.t = f.t, g.path = f.path, g.i = f.i + 1
  PROVE  \A nm, m : m \in SourcesFor(g, nm, o)
                      <=> \/ m \in SourcesFor(f, nm, o)
                          \/ /\ m = f.i /\ FieldOf(f, f.i).sizeof = nm
                             /\ Append(f.path, f.i) \in DOMAIN o
<1>1. \A m : m \in 0..(g.i - 1) <=> m \in 0..(f.i - 1) \/ m = f.i
  OBVIOUS
<1>2. \A m : FieldOf(g, m) = FieldOf(f, m)
  BY DEF FieldOf
<1>. QED  BY <1>1, <1>2 DEF SourcesFor

(* Recording sizeof(field i) under the name x: the last source of x is    *)
(* now field i, whose value is at its location.                           *)
Recorded(f, g, o, s, x) ==
  /\ g.t = f.t /\ g.path = f.path /\ g.i = f.i + 1
  /\ g.sized = f.sized \cup {x} /\ g.sizes = [f.sizes EXCEPT ![x] = s]
  /\ FieldOf(f, f.i).sizeof = x /\ Append(f.path, f.i) \in DOMAIN o
  /\ s = SizeOf(Def[FieldOf(f, f.i).type].kind, o[Append(f.path, f.i)])

LEMMA SizedRecord ==
  ASSUME NEW f \in Frame, NEW g, NEW o, NEW s, NEW x \in FieldNames,
         Recorded(f, g, o, s, x), SizedOK(f, o)
  PROVE  SizedOK(g, o)
<1> USE DEF Recorded
<1>1. f.i \in Nat /\ f.sizes \in [FieldNames -> Int]
  BY DEF Frame
<1>2. \A nm, m : m \in SourcesFor(g, nm, o)
                   <=> \/ m \in SourcesFor(f, nm, o)
                       \/ m = f.i /\ FieldOf(f, f.i).sizeof = nm /\ Append(f.path, f.i) \in DOMAIN o
  BY <1>1, SourcesNext
<1>3. \A m : FieldOf(g, m) = FieldOf(f, m)
  BY DEF FieldOf
<1> SUFFICES ASSUME NEW nm \in FieldNames
             PROVE  /\ nm \in g.sized <=> SourcesFor(g, nm, o) # {}
                    /\ nm \in g.sized =>
                         g.sizes[nm] = SizeOf(Def[FieldOf(g, LastOf(g, nm, o)).type].kind,
                                              o[Append(g.path, LastOf(g, nm, o))])
  BY DEF SizedOK
<1>4. CASE nm = x
  <2>1. f.i \in SourcesFor(g, nm, o) /\ nm \in g.sized
    BY <1>2, <1>4
  <2>2. SourcesFor(g, nm, o) \subseteq Int /\ \A y \in SourcesFor(g, nm, o) : y <= f.i
    BY <1>1 DEF SourcesFor
  <2>3. LastOf(g, nm, o) = f.i
    BY <2>1, <2>2, LastUnique DEF LastOf
  <2>4. g.sizes[nm] = s
    BY <1>1, <1>4
  <2>. QED  BY <1>3, <2>1, <2>3, <2>4
<1>5. CASE nm # x
  <2>1. SourcesFor(g, nm, o) = SourcesFor(f, nm, o)
    BY <1>2, <1>5
  <2>2. LastOf(g, nm, o) = LastOf(f, nm, o)
    BY <2>1 DEF LastOf
  <2>3. (nm \in g.sized <=> nm \in f.sized) /\ g.sizes[nm] = f.sizes[nm]
    BY <1>1, <1>5
  <2>. QED  BY <1>3, <2>1, <2>2, <2>3 DEF SizedOK
<1>. QED  BY <1>4, <1>5

(* After a field's decodeBin: its size is recorded under the name of its  *)
(* sizeof tag, or the loop goes on.                                        *)
LEMMA SizeOfFieldSizeof ==
  ASSUME SizeofInv, SizeOfField
  PROVE  SizeofRest'
<1>0. Running /\ Top.pc = "sizeof" /\ out' = out
  BY DEF SizeOfField
<1>1. /\ Top \in Frame /\ Top \in GoodFrame /\ Top.path \in Seq(Int)
      /\ DOMAIN out \subseteq Seq(Int)
      /\ FrameFresh(Top, out) /\ SizedOK(Top, out) /\ WroteOK(Top, out)
  <2>1. stack # <<>>
    BY <1>0 DEF Running
  <2>. QED  BY <1>0, <2>1, Frames DEF SizeofInv, SizeofRest, FramesOK, LoopOK, WroteInv, Top
<1> DEFINE f == Top
           fd == Def[f.t].fields[f.i + 1]
           kind == Def[fd.type].kind
           size == SizeOf(kind, Decoded(Append(f.path, f.i)))
           back == [NextField(f) EXCEPT !.pc = "fields"]
           rec == [NextField(f) EXCEPT !.pc = "fields", !.sized = f.sized \cup {fd.sizeof},
                                       !.sizes[fd.sizeof] = size]
<1>2. \/ fd.sizeof = NoName /\ Continue(back)
      \/ Crash("sizeof_kind")
      \/ fd.sizeof # NoName /\ kind \in IntKinds /\ Continue(rec)
  BY Zenon DEF SizeOfField
<1>3. /\ Top.i \in Nat /\ Top.i < Top.n /\ fd \in FieldRec /\ fd = FieldOf(Top, Top.i)
      /\ Top.pc \notin Entry
  BY <1>0, <1>1, CurrentField DEF GoodFrame, FrameShape, Frame, FieldOf, Entry
(* Either way the frame goes back to the loop at field i + 1.             *)
<1>4. ASSUME NEW g, Continue(g), g.pc = "fields", g.path = Top.path, g.t = Top.t,
             g.i = Top.i + 1, g.opt = Top.opt, SizedOK(g, out)
      PROVE  SizeofRest'
  <2>1. Bound(Top) \in Int /\ Bound(g) \in Int /\ Bound(Top) <= Bound(g) /\ g.pc \notin Entry
    BY <1>0, <1>3, <1>4 DEF Bound, Entry
  <2>2. Len(Top.path) \in Nat
    BY <1>1, LenProperties
  <2>3. FrameFresh(g, out)
    BY <1>1, <1>3, <1>4, <2>1, <2>2, FreshLoop, Zenon
  <2>4. LoopOK(g, out) /\ WroteOK(g, out)
    BY <1>4 DEF LoopOK, WroteOK
  <2>. QED  BY <1>0, <1>3, <1>4, <2>3, <2>4, KeepContinueStep
<1>5. CASE fd.sizeof = NoName /\ Continue(back)
  <2>0. PICK b : b = back
    OBVIOUS
  <2>1. /\ b.pc = "fields" /\ b.path = Top.path /\ b.t = Top.t
        /\ b.i = Top.i + 1 /\ b.opt = Top.opt
        /\ b.sized = Top.sized /\ b.sizes = Top.sizes
    BY <2>0, <1>1 DEF NextField, Frame
  <2>2. \A nm \in FieldNames : SourcesFor(b, nm, out) = SourcesFor(Top, nm, out)
    <3>1. \A nm, m : m \in SourcesFor(b, nm, out)
                       <=> \/ m \in SourcesFor(Top, nm, out)
                           \/ /\ m = Top.i /\ FieldOf(Top, Top.i).sizeof = nm
                              /\ Append(Top.path, Top.i) \in DOMAIN out
      BY <1>3, <2>1, SourcesNext, Zenon
    <3>2. \A nm \in FieldNames : FieldOf(Top, Top.i).sizeof # nm
      BY <1>3, <1>5, DefAssumption
    <3> SUFFICES ASSUME NEW nm \in FieldNames, NEW m
                 PROVE  m \in SourcesFor(b, nm, out) <=> m \in SourcesFor(Top, nm, out)
      OBVIOUS
    <3>. QED  BY <3>1, <3>2
  <2>3. SizedOK(b, out)
    BY <1>1, <2>1, <2>2, SizedBySources
  <2>4. Continue(b)
    BY <2>0, <1>5
  <2>. QED  BY <2>1, <2>3, <2>4, <1>4
<1>6. CASE fd.sizeof # NoName /\ kind \in IntKinds /\ Continue(rec)
  <2>0. PICK r : r = rec
    OBVIOUS
  <2>1. /\ r.pc = "fields" /\ r.path = Top.path /\ r.t = Top.t
        /\ r.i = Top.i + 1 /\ r.opt = Top.opt
        /\ r.sized = Top.sized \cup {fd.sizeof}
        /\ r.sizes = [Top.sizes EXCEPT ![fd.sizeof] = size]
    BY <2>0, <1>1 DEF NextField, Frame
  <2>2. fd.sizeof \in FieldNames
    BY <1>3, <1>6 DEF FieldRec
  <2>3. Append(Top.path, Top.i) \in DOMAIN out
    BY <1>0, <1>1, <1>3, <1>6 DEF WroteOK, CurKind, CurField
  <2>4. size = SizeOf(Def[FieldOf(Top, Top.i).type].kind, out[Append(Top.path, Top.i)])
    BY <1>3, <2>3 DEF Decoded
  <2>5. FieldOf(Top, Top.i).sizeof = fd.sizeof
    BY <1>3
  <2>6. SizedOK(r, out)
    <3>1. PICK x \in FieldNames : x = fd.sizeof
      BY <2>2
    <3>2. PICK sv : sv = size
      OBVIOUS
    <3>3. /\ r.sized = Top.sized \cup {x} /\ r.sizes = [Top.sizes EXCEPT ![x] = sv]
          /\ FieldOf(Top, Top.i).sizeof = x
          /\ sv = SizeOf(Def[FieldOf(Top, Top.i).type].kind, out[Append(Top.path, Top.i)])
      BY <2>1, <2>4, <2>5, <3>1, <3>2
    <3>4. PICK tp \in Frame : tp = Top
      BY <1>1
    <3>5. Recorded(tp, r, out, sv, x) /\ SizedOK(tp, out)
      BY <1>1, <2>1, <2>3, <3>3, <3>4 DEF Recorded
    <3>. QED  BY <3>1, <3>4, <3>5, SizedRecord
  <2>7. Continue(r)
    BY <2>0, <1>6
  <2>. QED  BY <2>1, <2>6, <2>7, <1>4
<1>7. CASE Crash("sizeof_kind")
  BY <1>7, EndStep
<1>. QED  BY <1>2, <1>5, <1>6, <1>7

-----------------------------------------------------------------------------
(* The invariant holds initially and is kept by every step.               *)

LEMMA SizeofInit == Init => SizeofInv
<1> SUFFICES ASSUME Init PROVE SizeofInv
  OBVIOUS
<1>1. IInv
  BY TypeInit
<1>2. stack = <<>>
  BY DEF Init
<1>. QED  BY <1>1, <1>2, EmptySeq DEF SizeofInv, SizeofRest, PathInv, FramesOK, CallInv, WroteInv

LEMMA SizeofStep == SizeofInv /\ [Next]_vars => SizeofInv'
<1> SUFFICES ASSUME SizeofInv, [Next]_vars PROVE SizeofInv'
  OBVIOUS
<1>1. IInv'
  BY TypeStep DEF SizeofInv
<1>2. SizeofRest'
  <2>1. CASE Decode
    BY <2>1, DecodeSizeof
  <2>2. CASE Step
    BY <2>2, EnterSizeof, IndirectSizeof, PresenceSizeof, UnmarshalSizeof, ScalarSizeof,
       StringSizeof, InterfaceSizeof, UnsupportedSizeof, ArraySizeof, SliceSizeof,
       StructSizeof, ElementSizeof, FieldSizeof, SizeOfFieldSizeof DEF Step
  <2>3. CASE Done \/ UNCHANGED vars
    <3>1. stack' = stack /\ out' = out
      BY <2>3 DEF Done, vars
    <3>. QED  BY <3>1 DEF SizeofInv, SizeofRest, PathInv, FramesOK, CallInv, WroteInv, Top
  <2>. QED  BY <2>1, <2>2, <2>3 DEF Next
<1>. QED  BY <1>1, <1>2 DEF SizeofInv

(* The location, sizeOfMap and call invariant holds in every reachable    *)
(* state: each frame's location extends its caller's, nothing is written  *)
(* inside a field not yet reached, each struct frame's sizeOfMap holds    *)
(* sizeof() of the last decoded field naming each key, and every call of  *)
(* a field carries the option decodeStruct built for it.                  *)
THEOREM SizeofInvTheorem == Spec => []SizeofInv
BY SizeofInit, SizeofStep, PTL DEF Spec

-----------------------------------------------------------------------------
(* The slice of a field is made only by DecodeSlice: the location was not *)
(* written before, and every other step at "dispatch" is of another kind. *)
LEMMA FieldSliceStep ==
  ASSUME SizeofInv, [Next]_vars, MakesFieldSlice
  PROVE  /\ DecodeSlice
         /\ Top.path \notin DOMAIN out
<1>1. /\ Running /\ Top.pc = "dispatch" /\ ~Top.u /\ Def[Top.t].kind = "slice"
      /\ Top.path \in DOMAIN out'
  BY DEF MakesFieldSlice
<1>2. Top.path \notin DOMAIN out
  <2>1. FrameFresh(Top, out)
    BY <1>1, Frames DEF SizeofInv, SizeofRest, FramesOK, Top
  <2>. QED  BY <1>1, <2>1 DEF FrameFresh, Entry
<1>3. out' # out
  BY <1>1, <1>2
<1>4. ~Decode /\ ~Done /\ ~UNCHANGED vars
  BY <1>1, <1>3 DEF Decode, Done, Running, vars
<1>5. ~Enter /\ ~IndirectStep /\ ~ReadPresence /\ ~NextElement /\ ~StructField /\ ~SizeOfField
  BY <1>1 DEF Enter, IndirectStep, ReadPresence, NextElement, StructField, SizeOfField
<1>6. ~Unmarshal /\ ~DecodeScalar /\ ~DecodeString /\ ~DecodeInterface /\ ~Unsupported
      /\ ~DecodeArray /\ ~DecodeStruct
  BY <1>1 DEF Unmarshal, DecodeScalar, DecodeString, DecodeInterface, Unsupported,
              DecodeArray, DecodeStruct, ScalarKinds, Width
<1>. QED  BY <1>2, <1>4, <1>5, <1>6 DEF Next, Step

(* What the invariant says of the struct frame whose field is being made: *)
(* the field's option is built from sizeOfMap, which is right for the     *)
(* field's name.                                                          *)
LEMMA ParentSized ==
  ASSUME SizeofInv, Running, Len(stack) > 1, Parent.pc = "sizeof"
  PROVE  /\ CurField(Parent).name \in FieldNames
         /\ Top.opt = FieldOpt(CurField(Parent), Parent)
         /\ SizedOK(Parent, out)
<1>1. PICK n \in Nat \ {0} : n = Len(stack)
  BY Frames
<1>2. n - 1 \in 1..Len(stack) /\ n \in 2..Len(stack) /\ Parent = stack[n - 1] /\ Top = stack[n]
  BY <1>1 DEF Parent, Top
<1>3. Parent \in GoodFrame /\ LoopOK(Parent, out)
  BY <1>2, Frames DEF SizeofInv, SizeofRest, FramesOK
<1>4. CallOK(Parent, Top)
  BY <1>2 DEF SizeofInv, SizeofRest, CallInv
<1>5. Parent.i < Parent.n
  BY <1>3 DEF GoodFrame, FrameShape
<1>6. CurField(Parent) \in FieldRec
  BY <1>3, <1>5, CurrentField DEF CurField, FieldOf
<1>. QED  BY <1>3, <1>4, <1>6 DEF CallOK, LoopOK, FieldRec

(* The option's size, when set, is what MakeSlice gets and writes.        *)
LEMMA HonouredStep ==
  SizeofInv /\ [Next]_vars =>
    [MakesFieldSlice =>
       IF SizeSources(Parent) = {}
         THEN ~Top.opt.hasSize
         ELSE out'[Top.path].data =
                <<SizeOf(Def[FieldOf(Parent, LastSource(Parent)).type].kind,
                         out[Append(Parent.path, LastSource(Parent))])>>]_vars
<1> SUFFICES ASSUME SizeofInv, [Next]_vars, MakesFieldSlice
             PROVE  IF SizeSources(Parent) = {}
                      THEN ~Top.opt.hasSize
                      ELSE out'[Top.path].data =
                             <<SizeOf(Def[FieldOf(Parent, LastSource(Parent)).type].kind,
                                      out[Append(Parent.path, LastSource(Parent))])>>
  OBVIOUS
<1>1. Running /\ Len(stack) > 1 /\ Parent.pc = "sizeof"
  BY DEF MakesFieldSlice
<1>2. DecodeSlice /\ Top.path \notin DOMAIN out /\ Top.path \in DOMAIN out'
  BY FieldSliceStep DEF MakesFieldSlice
<1> DEFINE nm == CurField(Parent).name
<1>3. /\ nm \in FieldNames /\ SizedOK(Parent, out)
      /\ Top.opt.hasSize = (nm \in Parent.sized) /\ Top.opt.size = Parent.sizes[nm]
  BY <1>1, ParentSized DEF FieldOpt
<1>4. SizeSources(Parent) = SourcesFor(Parent, nm, out)
      /\ LastSource(Parent) = LastOf(Parent, nm, out)
  BY DEF SizeSources, SourcesFor, LastSource, LastOf, CurField
<1>5. /\ nm \in Parent.sized <=> SourcesFor(Parent, nm, out) # {}
      /\ nm \in Parent.sized =>
           Parent.sizes[nm] = SizeOf(Def[FieldOf(Parent, LastOf(Parent, nm, out)).type].kind,
                                     out[Append(Parent.path, LastOf(Parent, nm, out))])
  BY <1>3 DEF SizedOK
<1>6. CASE Top.opt.hasSize
  <2>1. MakeSlice(Top.opt.size)
    BY <1>2, <1>6 DEF DecodeSlice
  <2>2. ~(Top.opt.size < 0)
    BY <1>2, <2>1 DEF MakeSlice
  <2>3. out'[Top.path].data = <<Top.opt.size>>
    BY <2>1, <2>2 DEF MakeSlice, Write
  <2>. QED  BY <1>3, <1>4, <1>5, <1>6, <2>3
<1>7. CASE ~Top.opt.hasSize
  BY <1>3, <1>4, <1>5, <1>7
<1>. QED  BY <1>6, <1>7

(* sizeof linkage: whenever decodeBin makes the slice of a struct field,  *)
(* its length is sizeof() of the last earlier field of the same struct    *)
(* whose sizeof tag names it, if one was decoded, and otherwise the       *)
(* option gives no size and the length is read from the wire.             *)
THEOREM SizeofHonouredTheorem == Spec => SizeofHonoured
<1>1. Init => SizeofInv
  BY SizeofInit
<1>2. SizeofInv /\ [Next]_vars => SizeofInv'
  BY SizeofStep
<1>3. SizeofInv /\ [Next]_vars =>
        [MakesFieldSlice =>
           IF SizeSources(Parent) = {}
             THEN ~Top.opt.hasSize
             ELSE out'[Top.path].data =
                    <<SizeOf(Def[FieldOf(Parent, LastSource(Parent)).type].kind,
                             out[Append(Parent.path, LastSource(Parent))])>>]_vars
  BY HonouredStep
<1>. QED  BY <1>1, <1>2, <1>3, PTL DEF Spec, SizeofHonoured

=============================================================================
