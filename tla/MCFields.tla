------------------------------ MODULE MCFields ------------------------------
(* Instances of Fields for TLC: bytes have 2 bits, 32-bit integers 4, 64-bit ones 8. *)
EXTENDS Fields

\* A record or a part of one; what does not matter for its form has a fixed value.
Raw(wt, ok, v, len, ends, c, utf8, els) ==
  [wt |-> wt, ok |-> ok, v |-> v, len |-> len, ends |-> ends, c |-> c, utf8 |-> utf8, els |-> els]

\* Varints as <<value, bytes>>; a byte has one bit of payload.  <<1, 2>> is overlong.
Varint(x)      == Raw("varint", TRUE, x[1], x[2], TRUE, <<>>, TRUE, <<>>)
BadVarint(l,e) == Raw("varint", FALSE, 1, l, e, <<>>, TRUE, <<>>)
Fixed(wt, x)   == Raw(wt, TRUE, x, 0, TRUE, <<>>, TRUE, <<>>)
Text(c, utf8)  == Raw("bytes", TRUE, 0, 0, TRUE, c, utf8, <<>>)
Sub(wt, c)     == Raw(wt, TRUE, 0, 0, TRUE, c, TRUE, <<>>)
Bad(wt)        == Raw(wt, FALSE, 0, 0, TRUE, <<>>, TRUE, <<>>)
Pack(els)      == Raw("packed", TRUE, 0, 0, TRUE, <<>>, TRUE, els)

WireType(kind) ==
  CASE kind \in {"Fixed32", "Sfixed32", "Float"}   -> "fixed32"
    [] kind \in {"Fixed64", "Sfixed64", "Double"}  -> "fixed64"
    [] kind \in StringKinds \cup {"Message"}       -> "bytes"
    [] kind = "Group"                              -> "group"
    [] OTHER                                       -> "varint"

\* Repeated bools of which the low byte is 0 are read as false; see the README.
Good(kind) ==
  CASE WireType(kind) = "varint" ->
         {Varint(x) : x \in {<<0, 1>>, <<1, 1>>, <<1, 2>>, <<2, 2>>, <<15, 4>>, <<17, 5>>, <<201, 8>>}}
    [] WireType(kind) = "fixed32" -> {Fixed("fixed32", x) : x \in {0, 1, 15}}
    [] WireType(kind) = "fixed64" -> {Fixed("fixed64", x) : x \in {0, 17, 255}}
    [] kind \in StringKinds       -> {Text(<<>>, TRUE), Text(<<1>>, TRUE), Text(<<2>>, FALSE)}
    [] kind \in MessageKinds      -> {Sub(WireType(kind), c) : c \in {<<>>, <<1>>, <<2, 3>>}}

Packs(kind) ==
  {Pack(<<>>), Bad("packed")}
    \cup (IF WireType(kind) = "varint"
          THEN {Pack(<<Varint(<<1, 1>>)>>), Pack(<<Varint(<<0, 1>>), Varint(<<1, 1>>)>>),
                Pack(<<Varint(<<1, 2>>)>>), Pack(<<Varint(<<1, 1>>), Varint(<<17, 5>>)>>),
                Pack([i \in 1 .. 5 |-> Varint(<<i % 2, 2>>)]),
                Pack(<<Varint(<<1, 1>>), BadVarint(3, TRUE), Varint(<<1, 1>>)>>),
                Pack(<<Varint(<<2, 2>>), BadVarint(1, FALSE)>>)}
          ELSE {Pack(<<x>>) : x \in Good(kind)}
                 \cup {Pack(<<x, y, x>>) : x \in Good(kind), y \in Good(kind)})

\* Two keys that are equal after the conversion to the key's type, and a third one;
\* two values.
Part(part, r) == r @@ [part |-> part]
Keys(kind) ==
  CASE WireType(kind) = "varint"  -> <<Varint(<<15, 4>>), Varint(<<31, 5>>), Varint(<<1, 1>>)>>
    [] WireType(kind) = "fixed32" -> <<Fixed("fixed32", 9), Fixed("fixed32", 9), Fixed("fixed32", 1)>>
    [] WireType(kind) = "fixed64" -> <<Fixed("fixed64", 200), Fixed("fixed64", 200), Fixed("fixed64", 1)>>
    [] OTHER                      -> <<Text(<<1>>, TRUE), Text(<<1>>, TRUE), Text(<<2>>, FALSE)>>
Values(kind) ==
  CASE WireType(kind) = "varint"  -> <<Varint(<<201, 8>>), Varint(<<1, 1>>)>>
    [] WireType(kind) = "fixed32" -> <<Fixed("fixed32", 9), Fixed("fixed32", 1)>>
    [] WireType(kind) = "fixed64" -> <<Fixed("fixed64", 201), Fixed("fixed64", 1)>>
    [] kind \in StringKinds       -> <<Text(<<3>>, TRUE), Text(<<2>>, FALSE)>>
    [] kind \in MessageKinds      -> <<Sub("bytes", <<4>>), Sub("bytes", <<5, 6>>)>>

\* Map entries: complete ones, and the ones parsers handle differently.
Entry(els) == Raw("entry", TRUE, 0, 0, TRUE, <<>>, TRUE, els)
K(fd, i) == Part("key", Keys(fd.key)[i])
V(fd, i) == Part("value", Values(fd.kind)[i])
Other(ok) == Part("unknown", Raw("varint", ok, 1, 1, TRUE, <<>>, TRUE, <<>>))

\* The entry ends with the tag of a varint; what follows it is read as the key, or as
\* the key, a value's tag and the value, or as the value.
CutPart(part) == Part(part, Varint(<<1, 0>>))
Cut(fd) ==
  (IF WireType(fd.key) # "varint" THEN {}
   ELSE {Entry(<<CutPart("key")>>)}
          \cup (IF fd.kind = "Message" THEN {} ELSE {Entry(<<CutPart("key"), V(fd, 1)>>)}))
    \cup (IF WireType(fd.kind) # "varint" THEN {} ELSE {Entry(<<K(fd, 1), CutPart("value")>>)})

Entries(fd) ==
  {Entry(<<K(fd, i), V(fd, i - (i \div 2))>>) : i \in 1 .. 3}
    \cup {Entry(<<K(fd, 1), V(fd, 2)>>), Entry(<<>>), Entry(<<V(fd, 1)>>), Bad("entry"),
          Entry(<<Other(TRUE), K(fd, 3), V(fd, 1)>>), Entry(<<Other(FALSE), K(fd, 1), V(fd, 1)>>),
          Entry(<<Part("key", Bad(WireType(fd.key))), V(fd, 1)>>),
          Entry(<<K(fd, 1), Part("value", Bad(WireType(fd.kind)))>>)}
    \cup Cut(fd)
Irregular(fd) ==
  {Entry(<<K(fd, 1)>>), Entry(<<V(fd, 1), K(fd, 1)>>), Entry(<<K(fd, 3), K(fd, 1), V(fd, 1)>>),
   Entry(<<K(fd, 1), V(fd, 1), V(fd, 2)>>), Entry(<<K(fd, 1), V(fd, 2), Other(TRUE)>>)}

\* A oneof has two members, so each of them tries less.
MCRecords(fd) ==
  CASE fd.key = "silent" -> {}
    [] fd.card = "map" ->
         Entries(fd) \cup (IF fd.kind = "Message" THEN {} ELSE Irregular(fd))
    [] fd.card = "repeated" /\ fd.kind \in ScalarKinds ->
         Good(fd.kind) \cup Packs(fd.kind) \cup {Bad(WireType(fd.kind))}
    [] fd.card = "oneof" /\ WireType(fd.kind) = "varint" ->
         {Varint(<<0, 1>>), Varint(<<15, 4>>), Varint(<<201, 8>>), Bad("varint")}
    [] OTHER -> Good(fd.kind) \cup (IF fd.kind = "Group" THEN {} ELSE {Bad(WireType(fd.kind))})

Field(card, kind, key, preload) == [card |-> card, kind |-> kind, key |-> key, preload |-> preload]
Schema(fields, max, lax) == [fields |-> fields, max |-> max, allowInvalidUTF8 |-> lax]

Lax(kind) == IF kind = "String" THEN BOOLEAN ELSE {FALSE}
Plain ==
  UNION {{Schema(<<Field(card, kind, "none", 0)>>, 3, lax) : lax \in Lax(kind)} :
          card \in {"singular", "optional"}, kind \in Kinds}
Lists ==
  UNION {{Schema(<<Field("repeated", kind, "none", q)>>, IF kind \in MessageKinds THEN 5 ELSE 4, lax) :
            lax \in Lax(kind), q \in IF kind \in ScalarKinds THEN {0} ELSE {0, 2}} :
          kind \in Kinds}
Maps == UNION {{Schema(<<Field("map", kind, key, 0)>>, 2, lax) : lax \in Lax(kind)} :
                key \in DOMAIN mapFields, kind \in Kinds \ {"Group"}}
Pair(j, k, key) == Schema(<<Field("oneof", j, "none", 0), Field("oneof", k, key, 0)>>, 3, FALSE)

\* A message member of a oneof is tried next to a member that is never present.
Oneofs ==
  {Pair(j, k, "none") : j \in Kinds \ MessageKinds, k \in Kinds \ MessageKinds}
    \cup {Pair(j, "Bool", "silent") : j \in MessageKinds}

MCSchemas == Plain \cup Lists \cup Maps \cup Oneofs

\* A message member next to one that is present.
UnionSchemas == {Pair("Message", "Uint64", "none")}
=============================================================================
