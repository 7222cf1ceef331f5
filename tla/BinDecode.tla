------------------------------ MODULE BinDecode ------------------------------
(***************************************************************************)
(* The type-driven decode engine of the "bin" encoding (src/unnamed/       *)
(* part_000: decodeWithOptionBin, decodeBin, decodeStruct) together with   *)
(* what it calls in src/decoder.go: Decode, indirect, sizeof and the       *)
(* primitive reads of the Decoder cursor.                                  *)
(*                                                                         *)
(* The Go recursion is an explicit call stack: one frame per active call   *)
(* of decodeBin, whose pc says where in decodeBin (or in indirect, or in   *)
(* the field loop of decodeStruct) the call is.  Destination types are a   *)
(* finite graph of type descriptors (CONSTANT Def); the destination value  *)
(* is `out`, a function from the location's path (field or element indices *)
(* from the root) to the value written there.                              *)
(***************************************************************************)
EXTENDS BinReads

CONSTANTS
  TypeIds,      \* the destination types of the model
  Def,          \* Def[t]: the reflect shape of type t
  FieldNames,   \* struct field names
  NoName,       \* "no sizeof tag"
  Roots,        \* the types of the values handed to Decode
  NilRoots,     \* whether the pointer handed to Decode may be nil
  Buffers,      \* the input buffers a Decoder may be created with
  DefaultOrder, \* byte order of the default option (newDefaultOption)
  CustomMax,    \* most bytes a BinaryUnmarshaler consumes in the model
  MaxDepth,     \* Go's stack limit, in decodeBin frames
  MaxDecodes    \* Decode calls made on one Decoder

Orders == {"LE", "BE"}

(* reflect kinds with a fixed width, and that width (TypeSize).            *)
Width == [bool |-> 1, u8 |-> 1, i8 |-> 1, u16 |-> 2, i16 |-> 2, u32 |-> 4,
          i32 |-> 4, u64 |-> 8, i64 |-> 8, f32 |-> 4, f64 |-> 8]
ScalarKinds == DOMAIN Width
SignedKinds == {"i8", "i16", "i32", "i64"}
IntKinds == SignedKinds \cup {"u8", "u16", "u32", "u64"}
(* "other" stands for every kind decodeBin has no case for: int, uint,     *)
(* map, chan, func, complex.                                               *)
Kinds == ScalarKinds \cup {"string", "interface", "array", "slice",
                           "struct", "ptr", "other"}

(* A struct field and its parsed `bin` tag.                                *)
FieldRec == [name: FieldNames, type: TypeIds, exported: BOOLEAN,
             skip: BOOLEAN, ext: BOOLEAN, optional: BOOLEAN,
             order: Orders, sizeof: FieldNames \cup {NoName}]

(* A type: its kind, element type (ptr, array, slice), array length,       *)
(* fields (struct), whether it is a named type, and whether the pointer    *)
(* to it implements BinaryUnmarshaler.                                     *)
TypeRec == [kind: Kinds, elem: TypeIds, len: Nat, fields: Seq(FieldRec),
            named: BOOLEAN, custom: BOOLEAN]

ASSUME DefAssumption ==
  /\ Def \in [TypeIds -> TypeRec]
  /\ Roots \subseteq TypeIds
  /\ NoName \notin FieldNames
  /\ \A t \in TypeIds : Def[t].custom => Def[t].named /\ Def[t].kind \notin IntKinds \cup {"ptr"}
ASSUME BoundsAssumption ==
  /\ Buffers \subseteq Seq(Byte)
  /\ DefaultOrder \in Orders
  /\ NilRoots \subseteq BOOLEAN
  /\ CustomMax \in Nat /\ MaxDepth \in Nat \ {0} /\ MaxDecodes \in Nat

(* The option struct of a decodeBin call (OptionalField, Order,            *)
(* SizeOfSlice).                                                           *)
Opt == [optional: BOOLEAN, order: Orders, hasSize: BOOLEAN, size: Int]
DefaultOpt == [optional |-> FALSE, order |-> DefaultOrder, hasSize |-> FALSE, size |-> 0]
NilOpt == [optional |-> FALSE, order |-> DefaultOrder, hasSize |-> FALSE, size |-> -1]

(* What a location holds: a scalar (integers and floats as their           *)
(* little-endian digits, a string as its bytes), the zero value, the       *)
(* header MakeSlice made, or what a BinaryUnmarshaler consumed.            *)
Value == [tag: {"leaf", "zero", "slice", "custom"}, data: Seq(Int)]
ZeroValue == [tag |-> "zero", data |-> <<>>]

PCs == {"enter", "ind1", "ind2", "presence", "dispatch", "elems", "fields", "sizeof"}

VARIABLES
  stack,    \* the decodeBin calls in progress, innermost last
  status,   \* "idle", "running", or how the last Decode ended
  fault,    \* the error or panic the last Decode ended with
  out,      \* the destination of the current Decode: path -> Value
  curOpt,   \* dec.currentFieldOpt
  decodes   \* Decode calls made so far

vars == <<data, pos, stack, status, fault, out, curOpt, decodes>>

Reverse(s) == [j \in 1..Len(s) |-> s[Len(s) - j + 1]]

(* order.Uint16/32/64 and ReadBool: the value a scalar read yields.        *)
Leaf(kind, order, bytes) ==
  [tag |-> "leaf",
   data |-> IF kind = "bool" THEN <<IF bytes[1] = 0 THEN 0 ELSE 1>>
            ELSE IF order = "BE" THEN Reverse(bytes) ELSE bytes]

(* The integer whose little-endian digits are s (at most 8 digits).        *)
LEValue(s) ==
  LET d(j) == IF j \in 1..Len(s) THEN s[j] ELSE 0
  IN d(1) + 256 * (d(2) + 256 * (d(3) + 256 * (d(4) + 256 * (d(5)
      + 256 * (d(6) + 256 * (d(7) + 256 * d(8)))))))

(* sizeof(t, v): v.Int() for signed kinds, int(v.Uint()) clamped at 0.    *)
SizeOf(kind, v) ==
  LET w == Width[kind]
      top == IF w \in 1..Len(v.data) THEN v.data[w] ELSE 0
  IN IF kind \in SignedKinds
       THEN IF top >= 128 THEN LEValue(v.data) - 256^w ELSE LEValue(v.data)
       ELSE IF w = 8 /\ top >= 128 THEN 0 ELSE LEValue(v.data)

-----------------------------------------------------------------------------
(* Frames and control.                                                     *)

Top == stack[Len(stack)]
Decoded(q) == IF q \in DOMAIN out THEN out[q] ELSE ZeroValue
EmptySizes == [nm \in FieldNames |-> 0]

Frame0(t, isNil) ==
  [pc |-> "enter", t |-> t, settable |-> FALSE, isNil |-> isNil,
   u |-> FALSE, valid |-> TRUE, opt |-> DefaultOpt, path |-> <<>>,
   i |-> 0, n |-> 0, sized |-> {}, sizes |-> EmptySizes, seenExt |-> FALSE]

(* The call decodeBin(rv.Index(j)) or decodeBin(rv.Field(j)).              *)
ChildFrame(f, t, o, j) ==
  [Frame0(t, TRUE) EXCEPT !.settable = TRUE, !.opt = o, !.path = Append(f.path, j)]

Write(q, v) == out' = [p \in DOMAIN out \cup {q} |-> IF p = q THEN v ELSE out[p]]

Continue(g) == stack' = [stack EXCEPT ![Len(stack)] = g] /\ UNCHANGED <<status, fault>>
Return ==
  /\ stack' = SubSeq(stack, 1, Len(stack) - 1)
  /\ status' = IF Len(stack) = 1 THEN "ok" ELSE status
  /\ UNCHANGED fault
(* Mutation: an error that does not unwind the callers.                   *)
FailKeepStack(why) == stack' = stack /\ status' = "error" /\ fault' = why
Fail(why) == stack' = <<>> /\ status' = "error" /\ fault' = why
Crash(why) == stack' = <<>> /\ status' = "panic" /\ fault' = why
Call(g, child) ==
  IF Len(stack) >= MaxDepth
    THEN Crash("stack_overflow")
    ELSE stack' = Append([stack EXCEPT ![Len(stack)] = g], child) /\ UNCHANGED <<status, fault>>

Running == status = "running" /\ stack # <<>>
-----------------------------------------------------------------------------
(* Actions.                                                                *)

Init ==
  /\ data \in Buffers
  /\ pos = 0
  /\ stack = <<>>
  /\ status = "idle"
  /\ fault = "none"
  /\ out = [p \in {} |-> ZeroValue]
  /\ curOpt = NilOpt
  /\ decodes = 0

(* Mutation: each Decode call starts again at the beginning of the buffer. *)
DecodeRewinding ==
  /\ status \in {"idle", "ok", "error"}
  /\ decodes < MaxDecodes
  /\ \E r \in Roots, isNil \in NilRoots :
       IF Def[r].kind # "ptr"
         THEN Fail("invalid_decoder")
         ELSE /\ stack' = <<Frame0(r, isNil)>>
              /\ status' = "running"
              /\ fault' = "none"
  /\ decodes' = decodes + 1
  /\ out' = [p \in {} |-> ZeroValue]
  /\ pos' = 0
  /\ UNCHANGED <<data, curOpt>>

(* Decoder.Decode on the Bin decoder: decodeWithOptionBin(v, nil) rejects  *)
(* a v that is not a pointer, else calls decodeBin(rv, nil) on the        *)
(* pointer itself, which is not settable and may be nil.                   *)
Decode ==
  /\ status \in {"idle", "ok", "error"}
  /\ decodes < MaxDecodes
  /\ \E r \in Roots, isNil \in NilRoots :
       IF Def[r].kind # "ptr"
         THEN Fail("invalid_decoder")
         ELSE /\ stack' = <<Frame0(r, isNil)>>
              /\ status' = "running"
              /\ fault' = "none"
  /\ decodes' = decodes + 1
  /\ out' = [p \in {} |-> ZeroValue]
  /\ UNCHANGED <<data, pos, curOpt>>

(* decodeBin entry: currentFieldOpt = opt, then indirect(rv, optional).    *)
Enter ==
  /\ Running /\ Top.pc = "enter"
  /\ curOpt' = Top.opt
  /\ Continue([Top EXCEPT !.pc = "ind1"])
  /\ UNCHANGED <<data, pos, out, decodes>>

(* One turn of the loop of indirect(v, decodingNull).  "ind1" is the call  *)
(* indirect(rv, opt.isOptional()), "ind2" the second call indirect(rv,     *)
(* false) made for a present optional.  A named non-pointer location is    *)
(* first addressed, so the Unmarshaler test sees *T; a pointer level stops *)
(* at the last pointer when decodingNull, allocates when nil (which needs  *)
(* a settable pointer) and stops at an Unmarshaler.  An Unmarshaler is     *)
(* returned with the invalid reflect.Value{}.                              *)
IndirectStep ==
  /\ Running /\ Top.pc \in {"ind1", "ind2"}
  /\ LET f == Top
         k == Def[f.t]
         e == k.elem
         dn == f.pc = "ind1" /\ f.opt.optional
         after == IF f.pc = "ind1" /\ f.opt.optional THEN "presence" ELSE "dispatch"
     IN \/ /\ k.kind # "ptr"
           /\ Continue([f EXCEPT !.pc = after, !.u = k.named /\ k.custom,
                                 !.valid = ~(k.named /\ k.custom)])
        \/ /\ k.kind = "ptr" /\ dn /\ Def[e].kind # "ptr" /\ f.settable
           /\ Continue([f EXCEPT !.pc = after, !.u = FALSE, !.valid = TRUE])
        \/ /\ k.kind = "ptr" /\ ~(dn /\ Def[e].kind # "ptr" /\ f.settable)
           /\ f.isNil /\ ~f.settable
           /\ Crash("set_unaddressable")
        \/ /\ k.kind = "ptr" /\ ~(dn /\ Def[e].kind # "ptr" /\ f.settable)
           /\ f.settable \/ ~f.isNil
           /\ IF Def[e].custom
                THEN Continue([f EXCEPT !.pc = after, !.u = TRUE, !.valid = FALSE])
                ELSE Continue([f EXCEPT !.t = e, !.settable = TRUE, !.isNil = TRUE,
                                 !.u = FALSE, !.valid = TRUE,
                                 !.pc = IF Def[e].kind = "ptr" THEN f.pc ELSE after])
  /\ UNCHANGED <<data, pos, out, curOpt, decodes>>

(* The presence byte of an optional: 0 sets the location to its zero      *)
(* value, anything else indirects again.  Both use rv, and rv.Type() on   *)
(* the invalid value indirect returned with an Unmarshaler panics.         *)
ReadPresence ==
  /\ Running /\ Top.pc = "presence"
  /\ \/ /\ Remaining < 1
        /\ IF Top.valid THEN Fail("truncated") ELSE Crash("invalid_value")
        /\ UNCHANGED <<pos, out>>
     \/ /\ Remaining >= 1 /\ data[pos + 1] = 0
        /\ pos' = pos + 1
        /\ IF Top.valid THEN Write(Top.path, ZeroValue) /\ Return
                        ELSE Crash("invalid_value") /\ UNCHANGED out
     \/ /\ Remaining >= 1 /\ data[pos + 1] # 0
        /\ pos' = pos + 1
        /\ IF Top.valid THEN Continue([Top EXCEPT !.pc = "ind2"])
                        ELSE Crash("invalid_value")
        /\ UNCHANGED out
  /\ UNCHANGED <<data, curOpt, decodes>>

(* unmarshaler.UnmarshalBinary(dec): any code reading from the Decoder.    *)
Unmarshal ==
  /\ Running /\ Top.pc = "dispatch" /\ Top.u
  /\ \E m \in 0..CustomMax, ok \in BOOLEAN :
       /\ m <= Remaining
       /\ pos' = pos + m
       /\ IF ok THEN Write(Top.path, [tag |-> "custom", data |-> SubSeq(data, pos + 1, pos + m)])
                     /\ Return
                ELSE Fail("unmarshaler") /\ UNCHANGED out
  /\ UNCHANGED <<data, curOpt, decodes>>

(* Bool, (u)int8..64, float32/64: ReadBool, ReadByte, ReadInt8,           *)
(* ReadUint16 ... ReadFloat64 with opt.Order.  A short buffer fails        *)
(* without moving the cursor; the location is still set to 0.              *)
DecodeScalar ==
  /\ Running /\ Top.pc = "dispatch" /\ ~Top.u
  /\ Def[Top.t].kind \in ScalarKinds
  /\ LET w == Width[Def[Top.t].kind] IN
       \/ /\ Remaining < w
          /\ Write(Top.path, ZeroValue)
          /\ Fail("truncated")
          /\ UNCHANGED pos
       \/ /\ Remaining >= w
          /\ pos' = pos + w
          /\ Write(Top.path, Leaf(Def[Top.t].kind, Top.opt.order, SubSeq(data, pos + 1, pos + w)))
          /\ Return
  /\ UNCHANGED <<data, curOpt, decodes>>

(* String: ReadString -> ReadByteSlice -> ReadLength, which for the Bin    *)
(* encoding is ReadUvarint64.  A length the buffer cannot supply fails     *)
(* after the varint was consumed.                                          *)
DecodeString ==
  /\ Running /\ Top.pc = "dispatch" /\ ~Top.u
  /\ Def[Top.t].kind = "string"
  /\ LET r == UvarintRead(Rest)
         l == GoInt(UvarintValue(Rest, r), r)
     IN \/ /\ r <= 0
           /\ Fail("varint") /\ UNCHANGED <<pos, out>>
        \/ /\ r > 0 /\ Len(data) < pos + r + l
           /\ pos' = pos + r
           /\ Fail("truncated") /\ UNCHANGED out
        \/ /\ r > 0 /\ ~(Len(data) < pos + r + l)
           /\ IF l < 0
                THEN Crash("slice_bounds") /\ UNCHANGED <<pos, out>>
                ELSE /\ pos' = pos + r + l
                     /\ Write(Top.path, [tag |-> "leaf", data |-> SubSeq(data, pos + r + 1, pos + r + l)])
                     /\ Return
  /\ UNCHANGED <<data, curOpt, decodes>>

(* interface{}: nothing is read.                                           *)
DecodeInterface ==
  /\ Running /\ Top.pc = "dispatch" /\ ~Top.u
  /\ Def[Top.t].kind = "interface"
  /\ Return
  /\ UNCHANGED <<data, pos, out, curOpt, decodes>>

Unsupported ==
  /\ Running /\ Top.pc = "dispatch" /\ ~Top.u
  /\ Def[Top.t].kind \in {"other", "ptr"}
  /\ Fail("unsupported")
  /\ UNCHANGED <<data, pos, out, curOpt, decodes>>

DecodeArray ==
  /\ Running /\ Top.pc = "dispatch" /\ ~Top.u
  /\ Def[Top.t].kind = "array"
  /\ Continue([Top EXCEPT !.pc = "elems", !.i = 0, !.n = Def[Top.t].len])
  /\ UNCHANGED <<data, pos, out, curOpt, decodes>>

(* Slice: the length is the option's SizeOfSlice if set, else a uvarint;   *)
(* MakeSlice panics on a negative length.                                  *)
MakeSlice(l) ==
  IF l < 0
    THEN Crash("makeslice") /\ UNCHANGED out
    ELSE /\ Write(Top.path, [tag |-> "slice", data |-> <<l>>])
         /\ Continue([Top EXCEPT !.pc = "elems", !.i = 0, !.n = l])
DecodeSlice ==
  /\ Running /\ Top.pc = "dispatch" /\ ~Top.u
  /\ Def[Top.t].kind = "slice"
  /\ LET r == UvarintRead(Rest) IN
       \/ /\ Top.opt.hasSize
          /\ MakeSlice(Top.opt.size)
          /\ UNCHANGED pos
       \/ /\ ~Top.opt.hasSize /\ r <= 0
          /\ Fail("varint") /\ UNCHANGED <<pos, out>>
       \/ /\ ~Top.opt.hasSize /\ r > 0
          /\ pos' = pos + r
          /\ MakeSlice(GoInt(UvarintValue(Rest, r), r))
  /\ UNCHANGED <<data, curOpt, decodes>>

(* Struct: decodeStruct starts with an empty sizeOfMap.                    *)
DecodeStruct ==
  /\ Running /\ Top.pc = "dispatch" /\ ~Top.u
  /\ Def[Top.t].kind = "struct"
  /\ Continue([Top EXCEPT !.pc = "fields", !.i = 0, !.n = Len(Def[Top.t].fields),
                          !.sized = {}, !.sizes = EmptySizes, !.seenExt = FALSE])
  /\ UNCHANGED <<data, pos, out, curOpt, decodes>>

(* The loops of the array and slice cases: element i with the same opt.    *)
NextElement ==
  /\ Running /\ Top.pc = "elems"
  /\ \/ /\ Top.i >= Top.n
        /\ Return
     \/ /\ Top.i < Top.n
        /\ Call([Top EXCEPT !.i = Top.i + 1], ChildFrame(Top, Def[Top.t].elem, Top.opt, Top.i))
  /\ UNCHANGED <<data, pos, out, curOpt, decodes>>

(* The option decodeStruct builds for a field.                             *)
FieldOpt(fd, f) ==
  [optional |-> fd.optional, order |-> fd.order,
   hasSize |-> fd.name \in f.sized, size |-> f.sizes[fd.name]]

(* Mutation: the loop index is not advanced.                              *)
NextFieldStuck(f) == f
(* The `continue` of the field loop: on to field i + 1.                    *)
NextField(f) == [f EXCEPT !.i = f.i + 1]

(* One turn of decodeStruct's field loop, up to the call of decodeBin.     *)
StructField ==
  /\ Running /\ Top.pc = "fields"
  /\ LET f == Top
         fd == Def[f.t].fields[f.i + 1]
         next == [f EXCEPT !.i = f.i + 1, !.seenExt = f.seenExt \/ fd.ext]
     IN \/ /\ f.i >= f.n
           /\ Return
        \/ /\ f.i < f.n /\ fd.skip
           /\ Continue(NextField(f))
        \/ /\ f.i < f.n /\ ~fd.skip /\ ~fd.ext /\ f.seenExt
           /\ Crash("binary_extension_order")
        \/ /\ f.i < f.n /\ ~fd.skip /\ fd.ext /\ Remaining <= 0
           /\ Continue(next)
        \/ /\ f.i < f.n /\ ~fd.skip /\ (fd.ext \/ ~f.seenExt)
           /\ (fd.ext => Remaining > 0) /\ ~fd.exported
           /\ Continue(next)
        \/ /\ f.i < f.n /\ ~fd.skip /\ (fd.ext \/ ~f.seenExt)
           /\ (fd.ext => Remaining > 0) /\ fd.exported
           /\ Call([f EXCEPT !.pc = "sizeof", !.seenExt = f.seenExt \/ fd.ext],
                   ChildFrame(f, fd.type, FieldOpt(fd, f), f.i))
  /\ UNCHANGED <<data, pos, out, curOpt, decodes>>

(* Mutation: the size is recorded under the source field's own name.     *)
SizeOfFieldOwnName ==
  /\ Running /\ Top.pc = "sizeof"
  /\ LET f == Top
         fd == Def[f.t].fields[f.i + 1]
         kind == Def[fd.type].kind
         size == SizeOf(kind, Decoded(Append(f.path, f.i)))
     IN \/ /\ fd.sizeof = NoName
           /\ Continue([NextField(f) EXCEPT !.pc = "fields"])
        \/ /\ fd.sizeof # NoName /\ kind \notin IntKinds
           /\ Crash("sizeof_kind")
        \/ /\ fd.sizeof # NoName /\ kind \in IntKinds
           /\ Continue([NextField(f) EXCEPT !.pc = "fields",
                        !.sized = f.sized \cup {fd.name}, !.sizes[fd.name] = size])
  /\ UNCHANGED <<data, pos, out, curOpt, decodes>>

(* After the field's decodeBin: record sizeof(field) under the name the   *)
(* sizeof tag gives.                                                       *)
SizeOfField ==
  /\ Running /\ Top.pc = "sizeof"
  /\ LET f == Top
         fd == Def[f.t].fields[f.i + 1]
         kind == Def[fd.type].kind
         size == SizeOf(kind, Decoded(Append(f.path, f.i)))
     IN \/ /\ fd.sizeof = NoName
           /\ Continue([NextField(f) EXCEPT !.pc = "fields"])
        \/ /\ fd.sizeof # NoName /\ kind \notin IntKinds
           /\ Crash("sizeof_kind")
        \/ /\ fd.sizeof # NoName /\ kind \in IntKinds
           /\ Continue([NextField(f) EXCEPT !.pc = "fields",
                        !.sized = f.sized \cup {fd.sizeof}, !.sizes[fd.sizeof] = size])
  /\ UNCHANGED <<data, pos, out, curOpt, decodes>>

(* A decode has ended and no further Decode is made.                       *)
Done ==
  /\ status \notin {"running"}
  /\ UNCHANGED vars

Step ==
  \/ Enter \/ IndirectStep \/ ReadPresence \/ Unmarshal \/ DecodeScalar
  \/ DecodeString \/ DecodeInterface \/ Unsupported \/ DecodeArray
  \/ DecodeSlice \/ DecodeStruct \/ NextElement \/ StructField \/ SizeOfField

Next == Decode \/ Step \/ Done

Spec == Init /\ [][Next]_vars /\ WF_vars(Step)

-----------------------------------------------------------------------------
(* Properties.                                                             *)

Frame == [pc: PCs, t: TypeIds, settable: BOOLEAN, isNil: BOOLEAN,
          u: BOOLEAN, valid: BOOLEAN, opt: Opt, path: Seq(Nat),
          i: Nat, n: Int, sized: SUBSET FieldNames,
          sizes: [FieldNames -> Int], seenExt: BOOLEAN]

(* Every variable holds a value of its type.                               *)
TypeOK ==
  /\ data \in Seq(Byte)
  /\ pos \in Int
  /\ stack \in Seq(Frame)
  /\ status \in {"idle", "running", "ok", "error", "panic"}
  /\ (status = "running") = (stack # <<>>)
  /\ DOMAIN out \subseteq Seq(Nat)
  /\ out \in [DOMAIN out -> Value]
  /\ curOpt \in Opt
  /\ decodes \in Nat

(* The cursor never leaves the buffer, whatever the buffer and the         *)
(* destination type: every read of the engine (fixed-width, varint, byte   *)
(* slice, presence byte, Unmarshaler) checks what remains before it moves  *)
(* dec.pos, and the varint length of strings and slices is checked against *)
(* the bytes left.                                                         *)
CursorInBounds == pos \in 0..Len(data)

Reader == INSTANCE AbsCursor WITH CanSeek <- FALSE

(* The engine is a ByteCursor client that never seeks: dec.data never      *)
(* changes, and every step, across successive Decode calls too, either    *)
(* leaves dec.pos or moves it forward over bytes that are there.           *)
(* Only the Unmarshaler, the presence byte, and the fixed-width, varint    *)
(* and byte-slice reads move it.                                           *)
EngineIsReader == Reader!Spec

(* The frame of the field whose decodeBin is running, and the fields of   *)
(* its struct decoded before it that name it in a sizeof tag.             *)
Parent == stack[Len(stack) - 1]
FieldOf(g, m) == Def[g.t].fields[m + 1]
SizeSources(g) ==
  {m \in 0..(g.i - 1) : FieldOf(g, m).sizeof = FieldOf(g, g.i).name
                        /\ Append(g.path, m) \in DOMAIN out}
LastSource(g) == CHOOSE m \in SizeSources(g) : \A m2 \in SizeSources(g) : m2 <= m

(* The step makes the slice of a struct field (MakeSlice in decodeBin).    *)
MakesFieldSlice ==
  /\ Running /\ Len(stack) > 1 /\ Parent.pc = "sizeof"
  /\ Top.pc = "dispatch" /\ ~Top.u /\ Def[Top.t].kind = "slice"
  /\ Top.path \in DOMAIN out'
  /\ out'[Top.path].tag = "slice"

(* sizeof linkage (decodeStruct's sizeOfMap): when a struct field's slice  *)
(* is made, its length is the value of the last earlier field of the same  *)
(* struct whose sizeof tag names it, if one was decoded; otherwise the     *)
(* length is not taken from any option but read from the wire.            *)
SizeofHonoured ==
  [][MakesFieldSlice =>
       IF SizeSources(Parent) = {}
         THEN ~Top.opt.hasSize
         ELSE out'[Top.path].data =
                <<SizeOf(Def[FieldOf(Parent, LastSource(Parent)).type].kind,
                         out[Append(Parent.path, LastSource(Parent))])>>]_vars

(* Decoding only panics for a defect of the destination type itself:       *)
(* binary_extension fields not packed at the end, a sizeof tag on a field  *)
(* that is not an integer, or a type whose decoding never stops (the Go    *)
(* stack limit).  Whatever the buffer holds, other failures are errors.    *)
OnlyDefinitionPanics ==
  status = "panic" => fault \in {"binary_extension_order", "sizeof_kind", "stack_overflow"}

(* ByteCursor: a read that would exceed the buffer fails before it moves   *)
(* the position.  A step that ends a running decode with a truncation     *)
(* error (ReadByte, ReadUint16 ..., ReadByteSlice) leaves dec.pos as it    *)
(* was.                                                                    *)
TruncationKeepsCursor ==
  [][status = "running" /\ status' = "error" /\ fault' = "truncated" => pos' = pos]_vars

(* Every Decode call returns: decodeBin's loops over array, slice and      *)
(* struct elements all advance, and nested calls end.                      *)
Terminates == status = "running" ~> status \in {"ok", "error", "panic"}

=============================================================================
