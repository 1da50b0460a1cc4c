----------------------------- MODULE Archetypes -----------------------------
(***************************************************************************)
(* The archetypes of internal/tdp/thunks: for every kind of field and every *)
(* cardinality the getter and the thunks, one per wire type.               *)
(* SelectArchetype picks the table; the kind and the wire type of a record *)
(* pick the thunk that parses it.                                          *)
(***************************************************************************)
EXTENDS Stencils

\* The field kinds; proto2String is the one fieldKind gives to strings whose
\* UTF-8 is not validated.
ScalarKinds ==
  {"Int32", "Uint32", "Sint32", "Int64", "Uint64", "Sint64", "Fixed32", "Sfixed32",
   "Float", "Fixed64", "Sfixed64", "Double", "Bool", "Enum"}
StringKinds == {"String", "proto2String", "Bytes"}
MessageKinds == {"Message", "Group"}
Kinds == ScalarKinds \cup StringKinds \cup MessageKinds

\* A parser of an archetype: the wire type it accepts, the thunk.  "packed" and
\* "entry" are length-delimited records ("bytes") that hold scalars or a map entry.
Parser(kind, thunk) == [kind |-> kind, thunk |-> thunk]

\* The archetypes below have one parser; repeated scalars have two.
Archetype(getter, kind, thunk) == [getter |-> getter, parsers |-> {Parser(kind, thunk)}]

\* What a getter reads the field as, after which check of presence.
Getter(get, T) == [get |-> get, T |-> T]

----------------------------------------------------------------------------
(* Singular fields: singular.go *)

getScalar(T) == Getter("scalar", T)
getBool      == Getter("bit", bool)
getFloat32   == Getter("scalar", float32)
getFloat64   == Getter("scalar", float64)
getString    == Getter("text", zcRange)
getBytes     == Getter("text", zcRange)
getMessage   == Getter("message", pointer)

parseString  == Thunk("utf8", zcRange)
parseBytes   == Thunk("bytes", zcRange)
parseBool    == Thunk("bool", bool)
parseMessage == Thunk("message", pointer)
parseGroup   == Thunk("message", pointer)

singularFields == [
  Int32        |-> Archetype(getScalar(int32),      "varint",  parseVarint32),
  Uint32       |-> Archetype(getScalar(uint32),     "varint",  parseVarint32),
  Sint32       |-> Archetype(getScalar(int32),      "varint",  parseZigZag32),
  Int64        |-> Archetype(getScalar(int64),      "varint",  parseVarint64),
  Uint64       |-> Archetype(getScalar(uint64),     "varint",  parseVarint64),
  Sint64       |-> Archetype(getScalar(int64),      "varint",  parseZigZag64),
  Fixed32      |-> Archetype(getScalar(uint32),     "fixed32", parseFixed32),
  Sfixed32     |-> Archetype(getScalar(int32),      "fixed32", parseFixed32),
  Float        |-> Archetype(getFloat32,            "fixed32", parseFixed32),
  Fixed64      |-> Archetype(getScalar(uint64),     "fixed64", parseFixed64),
  Sfixed64     |-> Archetype(getScalar(int64),      "fixed64", parseFixed64),
  Double       |-> Archetype(getFloat64,            "fixed64", parseFixed64),
  Bool         |-> Archetype(getBool,               "varint",  parseBool),
  Enum         |-> Archetype(getScalar(EnumNumber), "varint",  parseVarint32),
  String       |-> Archetype(getString,             "bytes",   parseString),
  proto2String |-> Archetype(getString,             "bytes",   parseBytes),
  Bytes        |-> Archetype(getBytes,              "bytes",   parseBytes),
  Message      |-> Archetype(getMessage,            "bytes",   parseMessage),
  Group        |-> Archetype(getMessage,            "group",   parseGroup)]

----------------------------------------------------------------------------
(* Optional fields and oneof members: optional.go, oneof.go *)

getOptionalScalar(T) == Getter("optional", T)
getOptionalBool      == Getter("optionalBit", bool)
getOptionalString    == Getter("optional", zcRange)
getOptionalBytes     == Getter("optional", zcRange)

\* vm.SetBit, then the singular thunk ...
SetBitThen(t) == [t EXCEPT !.before = "bit"]
parseOptionalBool == Thunk("optionalBool", bool)

optionalFields == [
  Int32        |-> Archetype(getOptionalScalar(int32),      "varint",  SetBitThen(parseVarint32)),
  Uint32       |-> Archetype(getOptionalScalar(uint32),     "varint",  SetBitThen(parseVarint32)),
  Sint32       |-> Archetype(getOptionalScalar(int32),      "varint",  SetBitThen(parseZigZag32)),
  Int64        |-> Archetype(getOptionalScalar(int64),      "varint",  SetBitThen(parseVarint64)),
  Uint64       |-> Archetype(getOptionalScalar(uint64),     "varint",  SetBitThen(parseVarint64)),
  Sint64       |-> Archetype(getOptionalScalar(int64),      "varint",  SetBitThen(parseZigZag64)),
  Fixed32      |-> Archetype(getOptionalScalar(uint32),     "fixed32", SetBitThen(parseFixed32)),
  Sfixed32     |-> Archetype(getOptionalScalar(int32),      "fixed32", SetBitThen(parseFixed32)),
  Float        |-> Archetype(getOptionalScalar(float32),    "fixed32", SetBitThen(parseFixed32)),
  Fixed64      |-> Archetype(getOptionalScalar(uint64),     "fixed64", SetBitThen(parseFixed64)),
  Sfixed64     |-> Archetype(getOptionalScalar(int64),      "fixed64", SetBitThen(parseFixed64)),
  Double       |-> Archetype(getOptionalScalar(float64),    "fixed64", SetBitThen(parseFixed64)),
  Bool         |-> Archetype(getOptionalBool,               "varint",  parseOptionalBool),
  Enum         |-> Archetype(getOptionalScalar(EnumNumber), "varint",  SetBitThen(parseVarint32)),
  String       |-> Archetype(getOptionalString,             "bytes",   SetBitThen(parseString)),
  proto2String |-> Archetype(getOptionalString,             "bytes",   SetBitThen(parseBytes)),
  Bytes        |-> Archetype(getOptionalBytes,              "bytes",   SetBitThen(parseBytes)),
  Message      |-> singularFields["Message"],
  Group        |-> singularFields["Group"]]

getOneofScalar(T) == Getter("oneof", T)
getOneofBool      == Getter("oneof", bool)
getOneofString    == Getter("oneof", zcRange)
getOneofBytes     == Getter("oneof", zcRange)
getOneofMessage   == Getter("oneofMessage", pointer)

\* ... or the member's number in the which word, then the singular thunk.
SetWhichThen(t) == [t EXCEPT !.before = "which"]
parseOneofBool == Thunk("oneofBool", bool)

oneofFields == [
  Int32        |-> Archetype(getOneofScalar(int32),      "varint",  SetWhichThen(parseVarint32)),
  Uint32       |-> Archetype(getOneofScalar(uint32),     "varint",  SetWhichThen(parseVarint32)),
  Sint32       |-> Archetype(getOneofScalar(int32),      "varint",  SetWhichThen(parseZigZag32)),
  Int64        |-> Archetype(getOneofScalar(int64),      "varint",  SetWhichThen(parseVarint64)),
  Uint64       |-> Archetype(getOneofScalar(uint64),     "varint",  SetWhichThen(parseVarint64)),
  Sint64       |-> Archetype(getOneofScalar(int64),      "varint",  SetWhichThen(parseZigZag64)),
  Fixed32      |-> Archetype(getOneofScalar(uint32),     "fixed32", SetWhichThen(parseFixed32)),
  Sfixed32     |-> Archetype(getOneofScalar(int32),      "fixed32", SetWhichThen(parseFixed32)),
  Float        |-> Archetype(getOneofScalar(float32),    "fixed32", SetWhichThen(parseFixed32)),
  Fixed64      |-> Archetype(getOneofScalar(uint64),     "fixed64", SetWhichThen(parseFixed64)),
  Sfixed64     |-> Archetype(getOneofScalar(int64),      "fixed64", SetWhichThen(parseFixed64)),
  Double       |-> Archetype(getOneofScalar(float64),    "fixed64", SetWhichThen(parseFixed64)),
  Bool         |-> Archetype(getOneofBool,               "varint",  parseOneofBool),
  Enum         |-> Archetype(getOneofScalar(EnumNumber), "varint",  SetWhichThen(parseVarint32)),
  String       |-> Archetype(getOneofString,             "bytes",   SetWhichThen(parseString)),
  proto2String |-> Archetype(getOneofString,             "bytes",   SetWhichThen(parseBytes)),
  Bytes        |-> Archetype(getOneofBytes,              "bytes",   SetWhichThen(parseBytes)),
  Message      |-> Archetype(getOneofMessage,            "bytes",   SetWhichThen(parseMessage)),
  Group        |-> Archetype(getOneofMessage,            "group",   SetWhichThen(parseGroup))]

----------------------------------------------------------------------------
(* Repeated fields: repeated.go, repeated_message.go *)

\* Scalars, Zigzags and Bools: zero-copy elements are read as ZC, others as E.
getRepeatedScalar(ZC, E) == [get |-> "list", ZC |-> ZC, E |-> E, zigzag |-> FALSE]
getRepeatedZigzag(ZC, E) == [get |-> "list", ZC |-> ZC, E |-> E, zigzag |-> TRUE]
getRepeatedBool    == [get |-> "listBool", ZC |-> uint8, E |-> uint8, zigzag |-> FALSE]
getRepeatedString  == [get |-> "listText"]
getRepeatedBytes   == [get |-> "listText"]
getRepeatedMessage == [get |-> "listMessage"]

parseRepeatedUTF8    == Thunk("repeatedUTF8", zcRange)
parseRepeatedBytes   == Thunk("repeatedBytes", zcRange)
parseRepeatedMessage == Thunk("repeatedMessage", pointer)
parseRepeatedGroup   == Thunk("repeatedMessage", pointer)

\* Repeated scalars come packed in a length-delimited record or one per record.
Both(getter, packed, kind, thunk) ==
  [getter |-> getter, parsers |-> {Parser("packed", packed), Parser(kind, thunk)}]
Varints32(getter) == Both(getter, parsePackedVarint32, "varint", parseRepeatedVarint32)
Varints64(getter) == Both(getter, parsePackedVarint64, "varint", parseRepeatedVarint64)
Fixeds32(getter)  == Both(getter, parsePackedFixed32, "fixed32", appendFixed32)
Fixeds64(getter)  == Both(getter, parsePackedFixed64, "fixed64", appendFixed64)

repeatedFields == [
  Int32        |-> Varints32(getRepeatedScalar(uint8, int32)),
  Uint32       |-> Varints32(getRepeatedScalar(uint8, uint32)),
  Sint32       |-> Varints32(getRepeatedZigzag(uint8, int32)),
  Int64        |-> Varints64(getRepeatedScalar(uint8, int64)),
  Uint64       |-> Varints64(getRepeatedScalar(uint8, uint64)),
  Sint64       |-> Varints64(getRepeatedZigzag(uint8, int64)),
  Fixed32      |-> Fixeds32(getRepeatedScalar(uint32, uint32)),
  Sfixed32     |-> Fixeds32(getRepeatedScalar(int32, int32)),
  Float        |-> Fixeds32(getRepeatedScalar(float32, float32)),
  Fixed64      |-> Fixeds64(getRepeatedScalar(uint64, uint64)),
  Sfixed64     |-> Fixeds64(getRepeatedScalar(int64, int64)),
  Double       |-> Fixeds64(getRepeatedScalar(float64, float64)),
  Bool         |-> Both(getRepeatedBool, parsePackedVarint8, "varint", parseRepeatedVarint8),
  Enum         |-> Varints32(getRepeatedScalar(uint8, EnumNumber)),
  String       |-> Archetype(getRepeatedString,  "bytes", parseRepeatedUTF8),
  proto2String |-> Archetype(getRepeatedString,  "bytes", parseRepeatedBytes),
  Bytes        |-> Archetype(getRepeatedBytes,   "bytes", parseRepeatedBytes),
  Message      |-> Archetype(getRepeatedMessage, "bytes", parseRepeatedMessage),
  Group        |-> Archetype(getRepeatedMessage, "group", parseRepeatedGroup)]

----------------------------------------------------------------------------
(* Map fields: map.go *)

\* The getters wrap the table in a map type of package maps: keys are integers,
\* ranges or bools (I, S, 2), values scalars, ranges or messages (I, S and B, M).
MapGetter(K, V) == [get |-> "map", K |-> K, V |-> V]
getMapIxI(K, V) == MapGetter(K, V)
getMapIxS(K)    == MapGetter(K, zcRange)
getMapIxB(K)    == MapGetter(K, zcRange)
getMapIxM(K)    == MapGetter(K, pointer)
getMapSxI(V)    == MapGetter(zcRange, V)
getMapSxS       == MapGetter(zcRange, zcRange)
getMapSxB       == MapGetter(zcRange, zcRange)
getMapSxM       == MapGetter(zcRange, pointer)
getMap2xI(V)    == MapGetter(bool, V)
getMap2xS       == MapGetter(bool, zcRange)
getMap2xB       == MapGetter(bool, zcRange)
getMap2xM       == MapGetter(bool, pointer)

mapArch(getter, thunk) == Archetype(getter, "entry", thunk)

\* The value types of the scalar kinds, as the rows of mapFields name them.
ScalarType == [
  Int32 |-> int32, Uint32 |-> uint32, Sint32 |-> int32, Int64 |-> int64,
  Uint64 |-> uint64, Sint64 |-> int64, Fixed32 |-> uint32, Sfixed32 |-> int32,
  Float |-> float32, Fixed64 |-> uint64, Sfixed64 |-> int64, Double |-> float64,
  Bool |-> bool, Enum |-> EnumNumber]

\* A row of mapFields: the getters by class of the value, those of scalars by kind,
\* and the thunks by value item.  The init function adds the column proto2String.
MapRow(getI, getS, getB, getM, th) == [
  Int32        |-> mapArch(getI.Int32,    th.V32),
  Uint32       |-> mapArch(getI.Uint32,   th.V32),
  Sint32       |-> mapArch(getI.Sint32,   th.Z32),
  Int64        |-> mapArch(getI.Int64,    th.V64),
  Uint64       |-> mapArch(getI.Uint64,   th.V64),
  Sint64       |-> mapArch(getI.Sint64,   th.Z64),
  Fixed32      |-> mapArch(getI.Fixed32,  th.F32),
  Sfixed32     |-> mapArch(getI.Sfixed32, th.F32),
  Float        |-> mapArch(getI.Float,    th.F32),
  Fixed64      |-> mapArch(getI.Fixed64,  th.F64),
  Sfixed64     |-> mapArch(getI.Sfixed64, th.F64),
  Double       |-> mapArch(getI.Double,   th.F64),
  Bool         |-> mapArch(getI.Bool,     th.two),
  Enum         |-> mapArch(getI.Enum,     th.V32),
  String       |-> mapArch(getS, th.S),
  proto2String |-> mapArch(getS, th.B),
  Bytes        |-> mapArch(getB, th.B),
  Message      |-> mapArch(getM, th.M)]

\* The thunks of a key item.
parseMapV32 ==
  [V32 |-> parseMapV32xV32, V64 |-> parseMapV32xV64, Z32 |-> parseMapV32xZ32, Z64 |-> parseMapV32xZ64,
   F32 |-> parseMapV32xF32, F64 |-> parseMapV32xF64, two |-> parseMapV32x2, S |-> parseMapV32xS,
   B |-> parseMapV32xB, M |-> parseMapV32xM]
parseMapV64 ==
  [V32 |-> parseMapV64xV32, V64 |-> parseMapV64xV64, Z32 |-> parseMapV64xZ32, Z64 |-> parseMapV64xZ64,
   F32 |-> parseMapV64xF32, F64 |-> parseMapV64xF64, two |-> parseMapV64x2, S |-> parseMapV64xS,
   B |-> parseMapV64xB, M |-> parseMapV64xM]
parseMapZ32 ==
  [V32 |-> parseMapZ32xV32, V64 |-> parseMapZ32xV64, Z32 |-> parseMapZ32xZ32, Z64 |-> parseMapZ32xZ64,
   F32 |-> parseMapZ32xF32, F64 |-> parseMapZ32xF64, two |-> parseMapZ32x2, S |-> parseMapZ32xS,
   B |-> parseMapZ32xB, M |-> parseMapZ32xM]
parseMapZ64 ==
  [V32 |-> parseMapZ64xV32, V64 |-> parseMapZ64xV64, Z32 |-> parseMapZ64xZ32, Z64 |-> parseMapZ64xZ64,
   F32 |-> parseMapZ64xF32, F64 |-> parseMapZ64xF64, two |-> parseMapZ64x2, S |-> parseMapZ64xS,
   B |-> parseMapZ64xB, M |-> parseMapZ64xM]
parseMapF32 ==
  [V32 |-> parseMapF32xV32, V64 |-> parseMapF32xV64, Z32 |-> parseMapF32xZ32, Z64 |-> parseMapF32xZ64,
   F32 |-> parseMapF32xF32, F64 |-> parseMapF32xF64, two |-> parseMapF32x2, S |-> parseMapF32xS,
   B |-> parseMapF32xB, M |-> parseMapF32xM]
parseMapF64 ==
  [V32 |-> parseMapF64xV32, V64 |-> parseMapF64xV64, Z32 |-> parseMapF64xZ32, Z64 |-> parseMapF64xZ64,
   F32 |-> parseMapF64xF32, F64 |-> parseMapF64xF64, two |-> parseMapF64x2, S |-> parseMapF64xS,
   B |-> parseMapF64xB, M |-> parseMapF64xM]
parseMapS ==
  [V32 |-> parseMapSxV32, V64 |-> parseMapSxV64, Z32 |-> parseMapSxZ32, Z64 |-> parseMapSxZ64,
   F32 |-> parseMapSxF32, F64 |-> parseMapSxF64, two |-> parseMapSx2, S |-> parseMapSxS,
   B |-> parseMapSxB, M |-> parseMapSxM]
parseMapB ==
  [V32 |-> parseMapBxV32, V64 |-> parseMapBxV64, Z32 |-> parseMapBxZ32, Z64 |-> parseMapBxZ64,
   F32 |-> parseMapBxF32, F64 |-> parseMapBxF64, two |-> parseMapBx2, S |-> parseMapBxS,
   B |-> parseMapBxB, M |-> parseMapBxM]
parseMapTwo ==
  [V32 |-> parseMap2xV32, V64 |-> parseMap2xV64, Z32 |-> parseMap2xZ32, Z64 |-> parseMap2xZ64,
   F32 |-> parseMap2xF32, F64 |-> parseMap2xF64, two |-> parseMap2x2, S |-> parseMap2xS,
   B |-> parseMap2xB, M |-> parseMap2xM]

\* A row whose keys are integers of type K.
IntRow(K, th) ==
  MapRow([k \in ScalarKinds |-> getMapIxI(K, ScalarType[k])],
         getMapIxS(K), getMapIxB(K), getMapIxM(K), th)

mapInt32        == IntRow(int32, parseMapV32)
mapInt64        == IntRow(int64, parseMapV64)
mapUint32       == IntRow(uint32, parseMapV32)
mapUint64       == IntRow(uint64, parseMapV64)
mapSint32       == IntRow(int32, parseMapZ32)
mapSint64       == IntRow(int64, parseMapZ64)
mapFixed32      == IntRow(uint32, parseMapF32)
mapFixed64      == IntRow(uint64, parseMapF64)
mapSfixed32     == IntRow(int32, parseMapF32)
mapSfixed64     == IntRow(int64, parseMapF64)
mapBool         == MapRow([k \in ScalarKinds |-> getMap2xI(ScalarType[k])],
                          getMap2xS, getMap2xB, getMap2xM, parseMapTwo)
mapEnum         == IntRow(EnumNumber, parseMapV32)
mapString       == MapRow([k \in ScalarKinds |-> getMapSxI(ScalarType[k])],
                          getMapSxS, getMapSxB, getMapSxM, parseMapS)
mapProto2String == MapRow([k \in ScalarKinds |-> getMapSxI(ScalarType[k])],
                          getMapSxS, getMapSxB, getMapSxM, parseMapB)

mapFields == [
  Int32 |-> mapInt32, Int64 |-> mapInt64, Uint32 |-> mapUint32, Uint64 |-> mapUint64,
  Sint32 |-> mapSint32, Sint64 |-> mapSint64, Fixed32 |-> mapFixed32,
  Fixed64 |-> mapFixed64, Sfixed32 |-> mapSfixed32, Sfixed64 |-> mapSfixed64,
  Bool |-> mapBool, Enum |-> mapEnum, String |-> mapString,
  proto2String |-> mapProto2String]

\* SelectArchetype for a field [card, kind, key]; card says which case of its
\* switch applies, key is the kind of a map's key.
SelectArchetype(fd) ==
  CASE fd.card = "map"      -> mapFields[fd.key][fd.kind]
    [] fd.card = "repeated" -> repeatedFields[fd.kind]
    [] fd.card = "oneof"    -> oneofFields[fd.kind]
    [] fd.card = "optional" -> optionalFields[fd.kind]
    [] fd.card = "singular" -> singularFields[fd.kind]
=============================================================================
