# Verification of the go-binary Bin decoder

This directory holds TLA+ models of the reflection-driven binary decoder in
`src/` (`decoder.go` and `unnamed/part_000`). The models are checked with TLC
on small instances and proved with TLAPS for every instance.

## The system

A `Decoder` holds a byte buffer `data`, a cursor `pos`, the option of the field
being decoded (`currentFieldOpt`) and an encoding. `Decode(v)` dispatches on
the encoding. Only the Bin engine is in the sources:

* `decodeWithOptionBin` (part_000:10-23) rejects a non-pointer `v` and calls
  `decodeBin` on the pointer itself.
* `decodeBin` (part_000:25-182) proceeds in this order:
  1. It records the option.
  2. It resolves indirection with `indirect` (decoder.go:603-668). That
     function walks pointers, allocates nil ones and stops at a
     `BinaryUnmarshaler`.
  3. For an optional value it reads a presence byte.
  4. It delegates to an Unmarshaler, or switches on the kind: scalars and
     strings through the primitive reads, an interface is skipped, and arrays,
     slices and structs recurse.
* `decodeStruct` (part_000:184-283) walks the fields in order. It handles the
  `bin` tags:
  * `-` skips the field;
  * `binary_extension` fields must come last, and are decoded only while
    bytes remain;
  * `optional`;
  * byte order;
  * `sizeof=Name`, which records the decoded integer (via `sizeof`,
    decoder.go:131-147) as the length of the later slice field `Name`.
* The primitive reads (decoder.go:150-434, 534-541) check the remaining bytes
  and move `pos`.
* The same reads, plus `Peek`, `SkipBytes`, `SetPosition`, `ReadNBytes`,
  `ReadTypeID` and `ReadRustString` (decoder.go:150-593), are the public
  cursor API. A `BinaryUnmarshaler` calls it on the decoder the engine hands
  it, and so does any other client. `SkipBytes` and `SetPosition` take a
  `uint` and convert it with `int()`. `ReadRustString` converts a wire
  `uint64` with `int()`.

## Inventory

| Part | Source | Module | Status |
|---|---|---|---|
| Bin engine: decodeWithOptionBin, decodeBin, decodeStruct | part_000 | `BinDecode` | modelled |
| indirect | decoder.go:603-668 | `BinDecode` (`IndirectStep`) | modelled, except the interface-unwrapping branch (no destination holds a non-nil interface) |
| Buffer, cursor, `Remaining`, `binary.Uvarint` | decoder.go | `BinReads` | modelled; shared by the two modules below |
| Reads used by the engine: ReadByte, ReadBool, ReadUint16..64, floats, ReadUvarint64, ReadLength, ReadByteSlice, ReadString, sizeof | decoder.go | `BinDecode` | modelled as the engine calls them |
| Public cursor API: fixed-width reads up to 128 bits, all varints, ReadByteSlice/ReadString/SafeReadUTF8String, ReadNBytes, ReadTypeID, ReadRustString, Peek, SkipBytes, SetPosition | decoder.go | `BinCursor` | modelled for the Bin encoding (partly: not the Borsh/CompactU16 branches of ReadLength, nor ReadCompactU16Length) |
| What the spec promises of a ByteCursor | spec.md | `AbsCursor` | abstract specification |
| Borsh and compact-u16 engines | not in `src/` | — | not modelled |
| Tag parser, `option` type | not in `src/` | records in `BinDecode` | taken as given (spec_modelled) |

The hazards are listed in `PROJECT.json`, each at its source line.

## The model (`BinDecode.tla`)

The recursion is an explicit call stack. Each `decodeBin` call is a frame
record in `stack`. Its `pc` says where that call is:

* `enter`;
* `ind1`/`ind2`: the first and the second call of `indirect`;
* `presence`;
* `dispatch`;
* `elems`: the array/slice loop;
* `fields`/`sizeof`: decodeStruct's loop, before and after a field's
  `decodeBin`.

A frame also holds the fields below. The struct-loop fields are local
variables of `decodeStruct`:

| Frame field | Meaning in the code |
|---|---|
| `t` | The type at the current indirection level. |
| `settable`, `isNil` | The reflect flags that decide whether `indirect` may allocate. |
| `u`, `valid` | Whether `indirect` returned an Unmarshaler and a valid `rv`. |
| `opt` | The option. |
| `path` | The location written. |
| `i`, `n` | The loop index and its bound. |
| `sized`, `sizes` | `sizeOfMap`. |
| `seenExt` | `seenBinaryExtensionField`. |

The other variables:

* `data` and `pos` are the Decoder's fields. `curOpt` is `currentFieldOpt`.
* `out` maps each written location to its value:
  * a scalar's little-endian digits;
  * a string's bytes;
  * a slice header of length `l`;
  * the bytes an Unmarshaler consumed.
* `status` and `fault` record how the last `Decode` ended:
  * `ok`;
  * `error` plus its cause;
  * `panic` plus the Go runtime panic.

Each action models one step of the code:

* One action per case of `decodeBin` and per turn of each loop.
* Helper operators for the shared control:
  * `Call` pushes a frame, and panics as `stack_overflow` at `MaxDepth`
    frames, Go's stack limit;
  * `Return`;
  * `Fail` is an error that every caller returns unchanged;
  * `Crash` is a runtime panic.

The reads are modelled by what they do:

* `binary.Uvarint` returns the count of bytes read, 0 for a truncated
  varint, or a negative count on 64-bit overflow.
* `int(uint64)` goes negative only for a 10-byte varint.
* `order.Uint16..64` are modelled by byte reversal for big-endian.
* `sizeof` uses two's complement for signed kinds and clamps at 0 for
  unsigned ones.
* A short fixed-width read still writes 0 to the location (`rv.SetUint(0)`)
  before returning its error, as the code does.

Destination types are the constant `Def`: a record per type giving its kind,
element, length, fields with their parsed tags, whether it is named, and
whether `*T` implements `BinaryUnmarshaler`.

The engine's `data` and `pos` and its varint reads come from `BinReads`.

## The cursor API (`BinCursor.tla`, `AbsCursor.tla`)

`BinCursor` has the variables `data`, `pos` and `status`. `status` says how
the last call ended: `ok`, `error`, or `panic`. After a panic only the
stuttering `Halted` step remains. Each action is one call of the API, with
its argument drawn from the constant `Args`:

* `ReadFixed`: every fixed-width read (widths 1, 2, 4, 8 and 16). It checks
  `Remaining()`, then reads `dec.data[dec.pos:]`, which panics for a
  negative `pos`.
* `ReadVarint`, `ReadByteSlice`: as in the engine.
* `ReadNBytes`: `ReadNBytes(n)`, and `ReadTypeID` as `n = 8`. It is modelled
  by what `readNBytes` does: `make([]byte, n)` panics for a negative `n`, then
  `ReadByte` runs `n` times. On a short buffer the first failing `ReadByte`
  returns the error after the earlier ones have moved `pos`, so the call
  leaves `pos` at the end of the buffer.
* `ReadRustString`: `ReadUint64(LE)`, then `ReadNBytes(int(length))`.
  `RustLen` abstracts the 64-bit length to three cases: -1 for every value
  with the top bit set (a negative `int`), `BigLen` for every value past any
  buffer, and the exact value below 2^24.
* `Peek`, `SkipBytes`, `SetPosition`.

Go's `int` and `uint` wrap modulo `2 * (MaxInt + 1)`. `MaxInt` is Go's
`math.MaxInt`: 2^63 - 1 in the build, 15 in the runs. The conversions
`int(u)` and `uint(i)` are `ToInt` and `ToUint`. With `MaxInt = 15`, an
argument of 16..31 is exactly the class of uints whose `int()` is negative,
as 2^63..2^64-1 are at 64 bits.

`AbsCursor` states what spec.md promises of a ByteCursor:

* the buffer never changes;
* the position starts at 0;
* a read moves the position forward over bytes that are there (`Advance`);
* when `CanSeek` holds, the position may also be set to any place in the
  buffer (`Seek`).

Two refinements are checked, each with the identity mapping on `data` and
`pos`:

* `BinCursor` against `AbsCursor` with `CanSeek <- TRUE` (`AbsSpec`).
* The decode engine against `AbsCursor` with `CanSeek <- FALSE`
  (`EngineIsReader` in `BinDecode`). The engine never seeks: every `Decode`
  step leaves `pos` alone or moves it forward within the buffer.

## Runs (`MCBinDecode.tla`)

`MCBinDecode` defines:

* the types below;
* every buffer of at most 4 bytes over {0, 1, 0x81}:
  * 0 is an absent optional and a zero;
  * 1 is a presence byte and a small length;
  * 0x81 is a varint continuation byte and the int8 -127.

The types:

* `Rec`: a `sizeof`-linked slice, an optional pointer, and a big-endian
  `binary_extension` u16.
* `Mix`: an interface, an unexported field, an Unmarshaler by value and
  through an optional pointer, a string, an array, a slice and an `int`.
* `Signed`: an int8 sizeof source.
* `OptC`: an optional Unmarshaler.
* `BadExt`: a skipped field, then extension-before-normal.
* `BadSize`: sizeof on a pointer.
* `Node`: recursion through a non-optional pointer.
* `Late`: a slice declared before the `sizeof` field that names it.
* Pointers to scalars, and one non-pointer root.

Bounds:

* Two `Decode` calls are made per decoder, to show that a second call starts
  from the cursor the first one left.
* `MaxDepth` = 5 frames is enough for every finite type above and makes
  `Node` overflow.
* An Unmarshaler consumes 0 or 1 byte.
* Every action and every disjunct of `Next` fires in `decode_engine`. One
  branch never happens at this bound: the `slice_bounds` branch inside
  `DecodeString`. It needs a 10-byte varint of 2^63 or more, beyond TLC's
  integers.

| Run | Checks | Shows |
|---|---|---|
| `decode_engine` (pass, ~126k states) | `TypeOK`, `SizeofHonoured`, `Terminates`, `EngineIsReader` | See below. |
| `optional_custom_panic` (violation) | `OnlyDefinitionPanics` | An optional field whose type implements UnmarshalBinary panics on every buffer (code bug). |
| `signed_sizeof_panic` (violation) | `OnlyDefinitionPanics` | A negative int8 sizeof source reaches `reflect.MakeSlice` and panics; the spec says it clamps to 0. |
| `string_truncation_moves_cursor` (violation) | `TruncationKeepsCursor` | A string with a short body fails after its length varint has moved the cursor; the spec says failing reads do not move it. |
| `nil_root_panics` (violation) | `OnlyDefinitionPanics` | `Decode` of a nil `*Rec` panics in `indirect` on every buffer; the spec says an unusable destination is an error. |

What `decode_engine` shows:

* A slice made for a struct field takes its length from the last earlier
  `sizeof` source naming it, and from the wire when there is none. `Late`
  shows that a source declared after the slice is not used.
* Every decode ends.
* Every step of the engine is a forward read of the abstract cursor, or
  leaves it alone (`EngineIsReader`). This implies that the cursor stays in
  the buffer (`CursorInBounds`), so that invariant is not checked
  separately; it is proved, as a step towards `EngineIsReaderTheorem`.

Properties:

* `SizeofHonoured` is an action property. It relates the slice being made to
  the value decoded into a different, earlier field of the enclosing struct.
* `OnlyDefinitionPanics` states the spec's error policy: only defects of the
  type definition abort with a panic, and every input problem is an error.
  Go's stack overflow counts among those defects.
* `Terminates` is checked under weak fairness of the engine's steps. A
  `Decode` runs on one goroutine with no blocking, so once it has started its
  next step is always enabled and is taken.

`Decode((*T)(nil))` panics in `reflect.Value.Set` (decoder.go:652-653):
`decodeWithOptionBin` checks only that the destination is a pointer
(part_000:12). `nil_root_panics` shows it. The other violation runs use
`NilRoots = {FALSE}` so that this panic is not found before their own.

Each property of the passing run has a mutant in `PROJECT.json`, which
`decode_engine` detects:

| Mutant | Breaks |
|---|---|
| An error that does not unwind the callers | `TypeOK` |
| A size recorded under the source's own name | `SizeofHonoured` |
| A field loop that does not advance | `Terminates` |
| A `Decode` that rewinds the cursor to 0 | `EngineIsReader` |

## Runs (`MCBinCursor.tla`)

`MCBinCursor` sets `MaxInt = 15` and picks these buffers:

* every buffer of at most 3 bytes over {0, 1, 0x81};
* four 9-byte Rust strings whose 8-byte length is:
  * 1, a body that fits;
  * 3, a body that is short;
  * top bit set, a negative `int`;
  * 2^32, past any buffer.

The arguments are either `0..10` (in range) or `WrapArgs`. `WrapArgs`
holds small values, 8 and 9, and the two largest uints, 30 and 31, whose
`int()` is -2 and -1. The runs check arbitrary sequences of calls, since
no fairness is assumed: a client may stop calling at any time. Deadlock is
checked, and none occurs: some call is always possible, and after a panic
`Halted` stutters.

| Run | Checks | Shows |
|---|---|---|
| `cursor_api` (pass) | `AbsSpec` | With in-range arguments every call keeps `data` and keeps `pos` in `[0, len]`. |
| `cursor_wrapped_args` (pass) | `CursorNeverPastEnd` | Even with wrapped arguments no call moves `pos` past the end. `SkipBytes`' `uint(Remaining()) < count` and `SetPosition`'s `int(idx) < len` bound it from above. |
| `set_position_wraps` (violation) | `AbsSpec` | `SetPosition(idx)` with `idx > MaxInt` passes `int(idx) < len(dec.data)` and sets a negative `pos` (code bug, decoder.go:576). |
| `partial_read_moves_cursor` (violation) | `FailedCallKeepsCursor` | `ReadNBytes` on a short buffer fails after consuming the remaining bytes; the spec says a failing read does not move the cursor (decoder.go:275). |
| `rust_length_panics` (violation) | `NoInputPanic` | `ReadRustString` on a length with the top bit set panics in `make` (code bug, decoder.go:548). |

Mutants:

| Mutant | Breaks |
|---|---|
| `Remaining()` off by one | `AbsSpec` (`cursor_api`) |
| `SetPosition` without its bounds check | `CursorNeverPastEnd` (`cursor_wrapped_args`) |

## Proofs (`BinReadsProofs.tla`, `BinDecodeProofs.tla`, `BinDecodeTypeProofs.tla`, `SizeofProofs.tla`, `BinCursorProofs.tla`)

`BinReadsProofs` holds the lemmas about the shared reads (`RestFacts`,
`FirstStopFacts`, `UvarintReadFacts`, `UvarintValueNat`, `GoIntInt`). Both
components' proofs use them.

`CursorInBoundsTheorem` proves `Spec => []CursorInBounds` for every `Def`,
buffer set and bound the `ASSUME`s allow.

* Inductive invariant: `CursorInv` is `CursorInBounds` plus
  `data \in Seq(Byte)`. The reads' arithmetic needs the bytes to be
  integers.
* The argument, one lemma per action that moves `pos`:
  * the presence byte and the fixed-width reads move it by at most what
    remains (`WidthRange`);
  * an Unmarshaler moves it by at most what remains;
  * a string moves it past the varint and then past a body that the code
    checked fits.
* The varint lemmas:
  * `FirstStopFacts` gets the least byte below 0x80 from the well-foundedness
    of `<` on `Nat`;
  * `UvarintReadFacts` shows a positive count is at most the bytes
    remaining;
  * `UvarintValueNat` and `GoIntInt` show the decoded length is an integer.

`TypeOKTheorem` (`BinDecodeTypeProofs.tla`) proves `Spec => []TypeOK` under
the same assumptions.

* Inductive invariant: `IInv` is `CursorInv` plus `TypeRest`. `TypeOK` alone
  is not inductive, for two reasons:
  * `StructField` and `SizeOfField` read `Def[t].fields[i + 1]`, which is a
    field record only while `i < Len(fields)`;
  * `SizeOfField` stores `sizeof` of that field in `sizes`, which must stay
    an integer.

  So every frame on the stack must also satisfy `FrameShape`:
  * a frame in the field loop has `n = Len(fields)` and `i \in 0..n`;
  * at `sizeof` it also has `i < n`.

  TLC checked this strengthened invariant on `decode_engine` before it was
  proved.
* The argument: one lemma per action, each proving `TypeRest'`.
  * Shared control lemmas cover each way a step changes the stack: `Continue`,
    `Return`, `Call`, and `Fail`/`Crash`.
  * Value lemmas show that what a step writes is a `Value`:
    * a scalar read, via `DataSlice` and `LeafType`;
    * a string body, whose bounds come from the varint lemmas;
    * a slice header, and an Unmarshaler's bytes.
  * `SizeOfInt` shows `sizeof` yields an integer (`LEValueInt`).
  * The cursor part reuses `CursorStep`.

`BinCursorProofs` proves two theorems about the cursor API.

`NeverPastEndTheorem` proves `Spec => []CursorNeverPastEnd`. It holds for
every `Buffers`, every `Args` and every `MaxInt` that `CursorAssumption`
allows.

* Inductive invariant: `PastEndInv` is `pos <= Len(data)`, plus
  `data \in Seq(Byte)` and `pos \in Int`. It keeps no lower bound, because
  a wrapped `SetPosition` makes `pos` negative.
* The argument, one lemma per action:
  * `SkipBytes` adds `int(count) <= count <= uint(Remaining()) <=
    Remaining()`. The last step holds because `Remaining()` is non-negative
    (`ToIntLe`, `ToUintLe`).
  * `SetPosition` sets only an `int(idx)` below `len`.
  * The reads move over bytes that remain. `ReadRustString`'s length is an
    integer (`RustLenInt`).
* Why `MaxInt` rather than a bit width: the provers know `2^5` and `2^32` but
  nothing about `2^n` for a symbolic `n`, nor `2^64`. `MaxInt` keeps the
  conversions linear.

`CursorRefinesTheorem` proves `Spec => AbsSpec` under the hypothesis
`InRange` (every argument is at most `MaxInt`).

* Inductive invariant: `RefInv` is `pos \in 0..Len(data)`.
* `LowStep` shows that no call lowers `pos` below 0 once `int()` is the
  identity on the arguments (`ToIntId`). The upper bound comes from
  `PastEndStep`.
* Every step is therefore a `Seek` of the abstract cursor or a stutter.
* Without `InRange` the theorem is false: `set_position_wraps` is the
  counterexample.

`EngineIsReaderTheorem` (`BinDecodeProofs.tla`) proves
`Spec => EngineIsReader`. The engine implements the abstract cursor
`AbsCursor` with `CanSeek <- FALSE`.

* `ForwardStep` shows that every step, `Decode` included, keeps `data` and
  moves `pos` to a value in `pos..Len(data)`. The per-read lemmas of
  `CursorInBoundsTheorem` already carry this fact.
* A step that moves `pos` is therefore an `Advance` by `pos' - pos`, and
  that amount is in `1..(Len(data) - pos)`. Every other step is a stutter.
* Initial states map to the abstract initial state, since `pos = 0`.

`SizeofHonouredTheorem` (`SizeofProofs.tla`) proves `Spec => SizeofHonoured`
under the same assumptions. This is the sizeof linkage of `decodeStruct`
(part_000:255-266). `SizeofInvTheorem` proves the invariant it rests on,
`Spec => []SizeofInv`.

`SizeofInv` is `IInv` together with four facts about the stack and `out`:

* `PathInv`: every frame below the top is at `elems` or `sizeof`. Each
  frame's location extends its caller's by the index the caller is decoding
  (`ChildIndex`), and so it extends the location of every frame below.
* `FrameFresh`, for every frame. A frame that has not yet dispatched has
  nothing written at or inside its location. A looping frame has nothing
  written inside its location at an index at or beyond the one it is
  decoding (`Bound`).
* `SizedOK`, for every struct frame: `sizeOfMap` holds a name exactly when
  an earlier field with that `sizeof` tag was written. The value held is
  `sizeof` of the last such field (`SourcesFor`, `LastOf`).
* `CallOK` and `WroteOK`:
  * a field's call carries the option built from its struct's `sizeOfMap`;
  * while the call of an integer field runs, it keeps that integer type,
    is no Unmarshaler and has not dispatched past its write;
  * once the call has returned, its location has been written.

`SizedOK` alone is not inductive. A step deep in a nested call could
overwrite an earlier field, or write a field not yet reached. The location
facts rule this out: a step writes only at its own location, which lies
inside its callers' locations below their bounds (`OutStep`, `PassedField`).
When `SizeOfField` records a size, `WroteOK` shows that the field it names
was written. `LastUnique` shows that this field is now the last source. TLC
checked `SizeofInv` as an invariant on `decode_engine`'s configuration
before it was proved.

The proof has one lemma per action. Shared lemmas cover each shape of a
step: `ContinueSizeof`, `CallSizeof`, `ReturnSizeof` and `EndSizeof`.
`HonouredStep` then shows that a step that makes a field's slice is
`DecodeSlice`:

* the location was fresh;
* every other step at `dispatch` is of another kind.

`CallOK` and `SizedOK` of the parent frame then give the length.

What stays with TLC:

* `Terminates` is a liveness property under weak fairness. TLAPS's backends
  here cannot discharge the `ENABLED` reasoning that weak fairness needs.
* The violation runs are model-checked only. They are counterexamples, not
  theorems.
* Which numbers the reads decode. The proofs show only that `LEValue`,
  `UvarintValue` and `SizeOf` yield integers (`LEValueInt`,
  `UvarintValueNat`, `SizeOfInt`). `SizeofHonoured` needs no more than
  that: it compares the length written with `SizeOf` of the source field's
  value. The model has no recursion, so nothing here needs induction over
  data.

## Plan

1. Compose `BinCursor` with the engine, so that an Unmarshaler makes
   arbitrary API calls in place of its opaque read.
2. Compose the engine with an encoder of the same types. The goal is to state
   round-trip, and the forward-compatibility problem of nested
   `binary_extension` fields (part_000:212-221).
3. Write an abstract recursive reference decoder, and show that the stack
   machine refines it.
