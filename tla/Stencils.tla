------------------------------ MODULE Stencils ------------------------------
(***************************************************************************)
(* The Go types fields are stored as, the generated specialisations        *)
(* ("stencils") of the generic thunks and table functions, and the map     *)
(* items, as data: a thunk is a record that says which generic function it *)
(* specialises and for which types.  Fields says what each one does.       *)
(*                                                                         *)
(* A stencil in internal/tdp/thunks/stencils.go or                         *)
(* internal/swiss/stencils.go is generated from a hyperpb:stencil          *)
(* directive: the generic function's body with the type parameters replaced *)
(* and the calls the directive names redirected to other stencils.  Both   *)
(* choices are made by hand, once per directive, and are what is kept here. *)
(***************************************************************************)
EXTENDS Integers, Sequences

CONSTANTS
  Bits8, Bits32, Bits64  \* the widths of the integer types

ASSUME WidthAssumption ==
  /\ {Bits8, Bits32, Bits64} \subseteq Nat /\ Bits8 > 1
  /\ \A b \in {Bits8, Bits32, Bits64} : 2^b \in Nat \ {0} /\ 2^(b - 1) \in Nat \ {0}
  /\ Bits32 % Bits8 = 0 /\ Bits64 % Bits32 = 0 /\ Bits8 < Bits32 /\ Bits32 < Bits64

----------------------------------------------------------------------------
(* Types.  Memory holds bit patterns; a type says how wide a pattern is and   *)
(* what it is read as.  zc.Range and pointers are 64 bits wide.               *)

uint8   == [bits |-> Bits8,  as |-> "uint"]
bool    == [bits |-> Bits8,  as |-> "bool"]
uint32  == [bits |-> Bits32, as |-> "uint"]
int32   == [bits |-> Bits32, as |-> "int"]
float32 == [bits |-> Bits32, as |-> "uint"]
uint64  == [bits |-> Bits64, as |-> "uint"]
int64   == [bits |-> Bits64, as |-> "int"]
float64 == [bits |-> Bits64, as |-> "uint"]
zcRange == [bits |-> Bits64, as |-> "range"]
pointer == [bits |-> Bits64, as |-> "pointer"]
EnumNumber == int32

\* layout.Size
Size(T) == T.bits \div Bits8

\* T(n): the low bits of n.
Trunc(T, n) == n % 2^T.bits

\* The number a signed type reads from a pattern.
Signed(T, b) == IF b < 2^(T.bits - 1) THEN b ELSE b - 2^T.bits

\* Mutant of DecodeZigZag: the sign is taken off after the number was cut to T.
DecodeZigZagWide(T, n) ==
  Trunc(T, IF n % 2 = 0 THEN n \div 2 ELSE 2^Bits64 - (n \div 2) - 1)

\* zigzag.Decode64: cut to the width of T first, then (n >> 1) ^ -(n & 1).
DecodeZigZag(T, n) ==
  LET m == Trunc(T, n)
  IN  IF m % 2 = 0 THEN m \div 2 ELSE 2^T.bits - (m \div 2) - 1

\* zext: what is hashed for an integer key, whatever its sign.
Zext(T, b) == Trunc(T, b)

----------------------------------------------------------------------------
(* The specialised table functions of internal/swiss.                         *)

\* search and searchFunc for a table of K: keys are compared as integers, or by
\* the bytes that extract finds for them.
SearchStencil(K)     == [key |-> K, by |-> "value"]
SearchFuncStencil(K) == [key |-> K, by |-> "content"]

\* Init and Insert for a table of K and V and the two searches they call.
TableStencil(K, V, search, searchFunc) ==
  [key |-> K, val |-> V, search |-> search, searchFunc |-> searchFunc]

searchU8xU8 == SearchStencil(uint8)
searchU32xU8 == SearchStencil(uint32)
searchU64xU8 == SearchStencil(uint64)
searchU8xU32 == SearchStencil(uint8)
searchU32xU32 == SearchStencil(uint32)
searchU64xU32 == SearchStencil(uint64)
searchU8xU64 == SearchStencil(uint8)
searchU32xU64 == SearchStencil(uint32)
searchU64xU64 == SearchStencil(uint64)
searchU8xP == SearchStencil(uint8)
searchU32xP == SearchStencil(uint32)
searchU64xP == SearchStencil(uint64)

searchFuncU8xU8 == SearchFuncStencil(uint8)
searchFuncU32xU8 == SearchFuncStencil(uint32)
searchFuncU64xU8 == SearchFuncStencil(uint64)
searchFuncU8xU32 == SearchFuncStencil(uint8)
searchFuncU32xU32 == SearchFuncStencil(uint32)
searchFuncU64xU32 == SearchFuncStencil(uint64)
searchFuncU8xU64 == SearchFuncStencil(uint8)
searchFuncU32xU64 == SearchFuncStencil(uint32)
searchFuncU64xU64 == SearchFuncStencil(uint64)
searchFuncU8xP == SearchFuncStencil(uint8)
searchFuncU32xP == SearchFuncStencil(uint32)
searchFuncU64xP == SearchFuncStencil(uint64)

InitU8xU8 == TableStencil(uint8, uint8, searchU8xU8, searchFuncU8xU8)
InitU32xU8 == TableStencil(uint32, uint8, searchU32xU8, searchFuncU32xU8)
InitU64xU8 == TableStencil(uint64, uint8, searchU64xU8, searchFuncU64xU8)
InitU8xU32 == TableStencil(uint8, uint32, searchU8xU32, searchFuncU8xU32)
InitU32xU32 == TableStencil(uint32, uint32, searchU32xU32, searchFuncU32xU32)
InitU64xU32 == TableStencil(uint64, uint32, searchU64xU32, searchFuncU64xU32)
InitU8xU64 == TableStencil(uint8, uint64, searchU8xU64, searchFuncU8xU64)
InitU32xU64 == TableStencil(uint32, uint64, searchU32xU64, searchFuncU32xU64)
InitU64xU64 == TableStencil(uint64, uint64, searchU64xU64, searchFuncU64xU64)
InitU8xP == TableStencil(uint8, pointer, searchU8xP, searchFuncU8xP)
InitU32xP == TableStencil(uint32, pointer, searchU32xP, searchFuncU32xP)
InitU64xP == TableStencil(uint64, pointer, searchU64xP, searchFuncU64xP)

InsertU8xU8 == TableStencil(uint8, uint8, searchU8xU8, searchFuncU8xU8)
InsertU32xU8 == TableStencil(uint32, uint8, searchU32xU8, searchFuncU32xU8)
InsertU64xU8 == TableStencil(uint64, uint8, searchU64xU8, searchFuncU64xU8)
InsertU8xU32 == TableStencil(uint8, uint32, searchU8xU32, searchFuncU8xU32)
InsertU32xU32 == TableStencil(uint32, uint32, searchU32xU32, searchFuncU32xU32)
InsertU64xU32 == TableStencil(uint64, uint32, searchU64xU32, searchFuncU64xU32)
InsertU8xU64 == TableStencil(uint8, uint64, searchU8xU64, searchFuncU8xU64)
InsertU32xU64 == TableStencil(uint32, uint64, searchU32xU64, searchFuncU32xU64)
InsertU64xU64 == TableStencil(uint64, uint64, searchU64xU64, searchFuncU64xU64)
InsertU8xP == TableStencil(uint8, pointer, searchU8xP, searchFuncU8xP)
InsertU32xP == TableStencil(uint32, pointer, searchU32xP, searchFuncU32xP)
InsertU64xP == TableStencil(uint64, pointer, searchU64xP, searchFuncU64xP)

----------------------------------------------------------------------------
(* Map items: a wire type, how a value is parsed, and into which type.  The   *)
(* keys of string maps are compared by content.                               *)

Item(kind, parse, T, extract) ==
  [kind |-> kind, parse |-> parse, T |-> T, extract |-> extract]

varint32Item == Item("varint", "varint", uint32, FALSE)
varint64Item == Item("varint", "varint", uint64, FALSE)
zigzag32Item == Item("varint", "zigzag", uint32, FALSE)
zigzag64Item == Item("varint", "zigzag", uint64, FALSE)
boolItem     == Item("varint", "bool", uint8, FALSE)
fixed32Item  == Item("fixed32", "fixed", uint32, FALSE)
fixed64Item  == Item("fixed64", "fixed", uint64, FALSE)
stringItem   == Item("bytes", "utf8", uint64, TRUE)
bytesItem    == Item("bytes", "bytes", uint64, TRUE)

----------------------------------------------------------------------------
(* Thunks.                                                                    *)

\* A thunk that stores to a field of type T; before says what it does to the
\* presence of the field before it parses the value.
Thunk(parse, T) == [parse |-> parse, T |-> T, before |-> "nothing"]

parseVarint32 == Thunk("varint", uint32)
parseVarint64 == Thunk("varint", uint64)
parseZigZag32 == Thunk("zigzag", uint32)
parseZigZag64 == Thunk("zigzag", uint64)
parseFixed32  == Thunk("fixed", uint32)
parseFixed64  == Thunk("fixed", uint64)

parseRepeatedVarint8  == Thunk("repeatedVarint", uint8)
parseRepeatedVarint32 == Thunk("repeatedVarint", uint32)
parseRepeatedVarint64 == Thunk("repeatedVarint", uint64)
parsePackedVarint8    == Thunk("packedVarint", uint8)
parsePackedVarint32   == Thunk("packedVarint", uint32)
parsePackedVarint64   == Thunk("packedVarint", uint64)
appendFixed32         == Thunk("appendFixed", uint32)
appendFixed64         == Thunk("appendFixed", uint64)
parsePackedFixed32    == Thunk("packedFixed", uint32)
parsePackedFixed64    == Thunk("packedFixed", uint64)

\* parseMapKxV for a key and a value item, with the table functions it calls ...
MapKxV(ki, vi, init, insert) ==
  [parse |-> "mapKxV", ki |-> ki, vi |-> vi, init |-> init, insert |-> insert]

\* ... and parseMapKxM, whose values are messages.
MapKxM(ki, init, insert) ==
  [parse |-> "mapKxM", ki |-> ki, init |-> init, insert |-> insert]

parseMapV32xV32 == MapKxV(varint32Item, varint32Item, InitU32xU32, InsertU32xU32)
parseMapV32xV64 == MapKxV(varint32Item, varint64Item, InitU32xU64, InsertU32xU64)
parseMapV32xZ32 == MapKxV(varint32Item, zigzag32Item, InitU32xU32, InsertU32xU32)
parseMapV32xZ64 == MapKxV(varint32Item, zigzag64Item, InitU32xU64, InsertU32xU64)
parseMapV32xF32 == MapKxV(varint32Item, fixed32Item, InitU32xU32, InsertU32xU32)
parseMapV32xF64 == MapKxV(varint32Item, fixed64Item, InitU32xU64, InsertU32xU64)
parseMapV32x2 == MapKxV(varint32Item, boolItem, InitU32xU8, InsertU32xU8)
parseMapV32xS == MapKxV(varint32Item, stringItem, InitU32xU64, InsertU32xU64)
parseMapV32xB == MapKxV(varint32Item, bytesItem, InitU32xU64, InsertU32xU64)
parseMapV32xM == MapKxM(varint32Item, InitU32xP, InsertU32xP)

parseMapV64xV32 == MapKxV(varint64Item, varint32Item, InitU64xU32, InsertU64xU32)
parseMapV64xV64 == MapKxV(varint64Item, varint64Item, InitU64xU64, InsertU64xU64)
parseMapV64xZ32 == MapKxV(varint64Item, zigzag32Item, InitU64xU32, InsertU64xU32)
parseMapV64xZ64 == MapKxV(varint64Item, zigzag64Item, InitU64xU64, InsertU64xU64)
parseMapV64xF32 == MapKxV(varint64Item, fixed32Item, InitU64xU32, InsertU64xU32)
parseMapV64xF64 == MapKxV(varint64Item, fixed64Item, InitU64xU64, InsertU64xU64)
parseMapV64x2 == MapKxV(varint64Item, boolItem, InitU64xU8, InsertU64xU8)
parseMapV64xS == MapKxV(varint64Item, stringItem, InitU64xU64, InsertU64xU64)
parseMapV64xB == MapKxV(varint64Item, bytesItem, InitU64xU64, InsertU64xU64)
parseMapV64xM == MapKxM(varint64Item, InitU64xP, InsertU64xP)

parseMapZ32xV32 == MapKxV(zigzag32Item, varint32Item, InitU32xU32, InsertU32xU32)
parseMapZ32xV64 == MapKxV(zigzag32Item, varint64Item, InitU32xU64, InsertU32xU64)
parseMapZ32xZ32 == MapKxV(zigzag32Item, zigzag32Item, InitU32xU32, InsertU32xU32)
parseMapZ32xZ64 == MapKxV(zigzag32Item, zigzag64Item, InitU32xU64, InsertU32xU64)
parseMapZ32xF32 == MapKxV(zigzag32Item, fixed32Item, InitU32xU32, InsertU32xU32)
parseMapZ32xF64 == MapKxV(zigzag32Item, fixed64Item, InitU32xU64, InsertU32xU64)
parseMapZ32x2 == MapKxV(zigzag32Item, boolItem, InitU32xU8, InsertU32xU8)
parseMapZ32xS == MapKxV(zigzag32Item, stringItem, InitU32xU64, InsertU32xU64)
parseMapZ32xB == MapKxV(zigzag32Item, bytesItem, InitU32xU64, InsertU32xU64)
parseMapZ32xM == MapKxM(zigzag32Item, InitU32xP, InsertU32xP)

parseMapZ64xV32 == MapKxV(zigzag64Item, varint32Item, InitU64xU32, InsertU64xU32)
parseMapZ64xV64 == MapKxV(zigzag64Item, varint64Item, InitU64xU64, InsertU64xU64)
parseMapZ64xZ32 == MapKxV(zigzag64Item, zigzag32Item, InitU64xU32, InsertU64xU32)
parseMapZ64xZ64 == MapKxV(zigzag64Item, zigzag64Item, InitU64xU64, InsertU64xU64)
parseMapZ64xF32 == MapKxV(zigzag64Item, fixed32Item, InitU64xU32, InsertU64xU32)
parseMapZ64xF64 == MapKxV(zigzag64Item, fixed64Item, InitU64xU64, InsertU64xU64)
parseMapZ64x2 == MapKxV(zigzag64Item, boolItem, InitU64xU8, InsertU64xU8)
parseMapZ64xS == MapKxV(zigzag64Item, stringItem, InitU64xU64, InsertU64xU64)
parseMapZ64xB == MapKxV(zigzag64Item, bytesItem, InitU64xU64, InsertU64xU64)
parseMapZ64xM == MapKxM(zigzag64Item, InitU64xP, InsertU64xP)

parseMapF32xV32 == MapKxV(fixed32Item, varint32Item, InitU32xU32, InsertU32xU32)
parseMapF32xV64 == MapKxV(fixed32Item, varint64Item, InitU32xU64, InsertU32xU64)
parseMapF32xZ32 == MapKxV(fixed32Item, zigzag32Item, InitU32xU32, InsertU32xU32)
parseMapF32xZ64 == MapKxV(fixed32Item, zigzag64Item, InitU32xU64, InsertU32xU64)
parseMapF32xF32 == MapKxV(fixed32Item, fixed32Item, InitU32xU32, InsertU32xU32)
parseMapF32xF64 == MapKxV(fixed32Item, fixed64Item, InitU32xU64, InsertU32xU64)
parseMapF32x2 == MapKxV(fixed32Item, boolItem, InitU32xU8, InsertU32xU8)
parseMapF32xS == MapKxV(fixed32Item, stringItem, InitU32xU64, InsertU32xU64)
parseMapF32xB == MapKxV(fixed32Item, bytesItem, InitU32xU64, InsertU32xU64)
parseMapF32xM == MapKxM(fixed32Item, InitU32xP, InsertU32xP)

parseMapF64xV32 == MapKxV(fixed64Item, varint32Item, InitU64xU32, InsertU64xU32)
parseMapF64xV64 == MapKxV(fixed64Item, varint64Item, InitU64xU64, InsertU64xU64)
parseMapF64xZ32 == MapKxV(fixed64Item, zigzag32Item, InitU64xU32, InsertU64xU32)
parseMapF64xZ64 == MapKxV(fixed64Item, zigzag64Item, InitU64xU64, InsertU64xU64)
parseMapF64xF32 == MapKxV(fixed64Item, fixed32Item, InitU64xU32, InsertU64xU32)
parseMapF64xF64 == MapKxV(fixed64Item, fixed64Item, InitU64xU64, InsertU64xU64)
parseMapF64x2 == MapKxV(fixed64Item, boolItem, InitU64xU8, InsertU64xU8)
parseMapF64xS == MapKxV(fixed64Item, stringItem, InitU64xU64, InsertU64xU64)
parseMapF64xB == MapKxV(fixed64Item, bytesItem, InitU64xU64, InsertU64xU64)
parseMapF64xM == MapKxM(fixed64Item, InitU64xP, InsertU64xP)

parseMapSxV32 == MapKxV(stringItem, varint32Item, InitU64xU32, InsertU64xU32)
parseMapSxV64 == MapKxV(stringItem, varint64Item, InitU64xU64, InsertU64xU64)
parseMapSxZ32 == MapKxV(stringItem, zigzag32Item, InitU64xU32, InsertU64xU32)
parseMapSxZ64 == MapKxV(stringItem, zigzag64Item, InitU64xU64, InsertU64xU64)
parseMapSxF32 == MapKxV(stringItem, fixed32Item, InitU64xU32, InsertU64xU32)
parseMapSxF64 == MapKxV(stringItem, fixed64Item, InitU64xU64, InsertU64xU64)
parseMapSx2 == MapKxV(stringItem, boolItem, InitU64xU8, InsertU64xU8)
parseMapSxS == MapKxV(stringItem, stringItem, InitU64xU64, InsertU64xU64)
parseMapSxB == MapKxV(stringItem, bytesItem, InitU64xU64, InsertU64xU64)
parseMapSxM == MapKxM(stringItem, InitU64xP, InsertU64xP)

parseMapBxV32 == MapKxV(bytesItem, varint32Item, InitU64xU32, InsertU64xU32)
parseMapBxV64 == MapKxV(bytesItem, varint64Item, InitU64xU64, InsertU64xU64)
parseMapBxZ32 == MapKxV(bytesItem, zigzag32Item, InitU64xU32, InsertU64xU32)
parseMapBxZ64 == MapKxV(bytesItem, zigzag64Item, InitU64xU64, InsertU64xU64)
parseMapBxF32 == MapKxV(bytesItem, fixed32Item, InitU64xU32, InsertU64xU32)
parseMapBxF64 == MapKxV(bytesItem, fixed64Item, InitU64xU64, InsertU64xU64)
parseMapBx2 == MapKxV(bytesItem, boolItem, InitU64xU8, InsertU64xU8)
parseMapBxS == MapKxV(bytesItem, stringItem, InitU64xU64, InsertU64xU64)
parseMapBxB == MapKxV(bytesItem, bytesItem, InitU64xU64, InsertU64xU64)
parseMapBxM == MapKxM(bytesItem, InitU64xP, InsertU64xP)

parseMap2xV32 == MapKxV(boolItem, varint32Item, InitU8xU32, InsertU8xU32)
parseMap2xV64 == MapKxV(boolItem, varint64Item, InitU8xU64, InsertU8xU64)
parseMap2xZ32 == MapKxV(boolItem, zigzag32Item, InitU8xU32, InsertU8xU32)
parseMap2xZ64 == MapKxV(boolItem, zigzag64Item, InitU8xU64, InsertU8xU64)
parseMap2xF32 == MapKxV(boolItem, fixed32Item, InitU8xU32, InsertU8xU32)
parseMap2xF64 == MapKxV(boolItem, fixed64Item, InitU8xU64, InsertU8xU64)
parseMap2x2 == MapKxV(boolItem, boolItem, InitU8xU8, InsertU8xU8)
parseMap2xS == MapKxV(boolItem, stringItem, InitU8xU64, InsertU8xU64)
parseMap2xB == MapKxV(boolItem, bytesItem, InitU8xU64, InsertU8xU64)
parseMap2xM == MapKxM(boolItem, InitU8xP, InsertU8xP)

=============================================================================
