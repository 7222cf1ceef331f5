---------------------------- MODULE MCBinDecode ----------------------------
(***************************************************************************)
(* Destination types and buffers for model checking BinDecode.  Buffers    *)
(* are every sequence of at most MaxLen bytes over a byte alphabet holding *)
(* 0 (absent optional, zero), 1 (present, small length) and 0x81 (a varint *)
(* continuation byte, and a negative int8).                                *)
(***************************************************************************)
EXTENDS BinDecode

MaxLen == 4
Alphabet == {0, 1, 129}
MCBuffers == UNION {[1..k -> Alphabet] : k \in 0..MaxLen}

MCFieldNames == {"Len", "Items", "Opt", "Tail", "A", "b", "C", "D", "S",
                 "Q", "N", "R", "X", "Y", "Z", "Next"}

(* A field with an empty tag.                                              *)
F(nm, t) == [name |-> nm, type |-> t, exported |-> TRUE, skip |-> FALSE,
             ext |-> FALSE, optional |-> FALSE, order |-> "LE", sizeof |-> NoName]
(* A type with no element, no fields, not named, no Unmarshaler.           *)
T(k) == [kind |-> k, elem |-> "U8", len |-> 0, fields |-> <<>>, named |-> FALSE, custom |-> FALSE]
Named(k) == [T(k) EXCEPT !.named = TRUE]
Ptr(e) == [T("ptr") EXCEPT !.elem = e]
Struct(fs) == [T("struct") EXCEPT !.named = TRUE, !.fields = fs]

(* Rec:  struct { Len uint8 `bin:"sizeof=Items"`; Items []uint8;            *)
(*                Opt *uint8 `bin:"optional"`; Tail uint16 `bin:"binary_extension,big"` } *)
(* Mix:  struct { A interface{}; b uint8; C Cust; D *Cust `bin:"optional"`; *)
(*                S string; Q [2]uint8; R []uint8; N int }                  *)
(* Signed: struct { N int8 `bin:"sizeof=Items"`; Items []uint8 }             *)
(* OptC: struct { C Cust `bin:"optional"` }  (Cust has UnmarshalBinary)    *)
(* BadExt: struct { Z uint8 `bin:"-"`; X uint8 `bin:"binary_extension"`; Y uint8 }             *)
(* BadSize: struct { X *uint8 `bin:"sizeof=Items"`; Items []uint8 }         *)
(* Node: struct { Next *Node }                                             *)
(* Late: struct { Items []uint8; Len uint8 `bin:"sizeof=Items"` }  (the    *)
(*       size field follows the slice it names)                            *)
MCDef ==
  [U8 |-> Named("u8"), I8 |-> Named("i8"), U16 |-> Named("u16"),
   Str |-> Named("string"), Iface |-> T("interface"), Int |-> Named("other"),
   Bytes |-> [T("slice") EXCEPT !.elem = "U8"],
   Arr2 |-> [T("array") EXCEPT !.elem = "U8", !.len = 2],
   Cust |-> [Struct(<<>>) EXCEPT !.custom = TRUE],
   PCust |-> Ptr("Cust"), PU8 |-> Ptr("U8"), PPU8 |-> Ptr("PU8"),
   Rec |-> Struct(<<[F("Len", "U8") EXCEPT !.sizeof = "Items"], F("Items", "Bytes"),
                    [F("Opt", "PU8") EXCEPT !.optional = TRUE],
                    [F("Tail", "U16") EXCEPT !.ext = TRUE, !.order = "BE"]>>),
   Mix |-> Struct(<<F("A", "Iface"), [F("b", "U8") EXCEPT !.exported = FALSE],
                    F("C", "Cust"), [F("D", "PCust") EXCEPT !.optional = TRUE],
                    F("S", "Str"), F("Q", "Arr2"), F("R", "Bytes"), F("N", "Int")>>),
   Signed |-> Struct(<<[F("N", "I8") EXCEPT !.sizeof = "Items"], F("Items", "Bytes")>>),
   OptC |-> Struct(<<[F("C", "Cust") EXCEPT !.optional = TRUE]>>),
   BadExt |-> Struct(<<[F("Z", "U8") EXCEPT !.skip = TRUE], [F("X", "U8") EXCEPT !.ext = TRUE], F("Y", "U8")>>),
   BadSize |-> Struct(<<[F("X", "PU8") EXCEPT !.sizeof = "Items"], F("Items", "Bytes")>>),
   Node |-> Struct(<<F("Next", "PNode")>>), PNode |-> Ptr("Node"),
   Late |-> Struct(<<F("Items", "Bytes"), [F("Len", "U8") EXCEPT !.sizeof = "Items"]>>),
   PLate |-> Ptr("Late"),
   PRec |-> Ptr("Rec"), PMix |-> Ptr("Mix"), PSigned |-> Ptr("Signed"),
   POptC |-> Ptr("OptC"), PBadExt |-> Ptr("BadExt"), PBadSize |-> Ptr("BadSize"), PInt |-> Ptr("Int"),
   PStr |-> Ptr("Str")]

MCTypeIds == DOMAIN MCDef

(* Every kind of destination, for the run that exercises every path.      *)
AllRoots == {"PRec", "PMix", "PSigned", "POptC", "PBadExt", "PBadSize",
             "PNode", "PPU8", "PInt", "Rec", "PLate"}
(* A record with an optional field whose type has UnmarshalBinary.         *)
OptCustomRoots == {"POptC"}
(* A record whose signed sizeof field gives a slice length.                *)
SignedSizeofRoots == {"PSigned"}
(* A nil *Rec passed to Decode.                                            *)
NilRecRoots == {"PRec"}
(* A string.                                                               *)
StringRoots == {"PStr"}
=============================================================================
