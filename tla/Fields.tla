------------------------------- MODULE Fields -------------------------------
(***************************************************************************)
(* How the records of a message become the values its getters return: the  *)
(* thunks of internal/tdp/thunks, the storage they write (slots, hasbits,  *)
(* which words, slices, tables, messages) and the getters and containers   *)
(* that read it.                                                           *)
(*                                                                         *)
(* A behaviour is one message with one field, or with the members of one   *)
(* oneof, and a parse that reads records of them until one is malformed.   *)
(* Records are values here: how they are cut out of the input, and fields  *)
(* of other numbers, are Parser's.  The table of a map field is a list of  *)
(* pairs here; Swiss shows that the real one behaves like that.            *)
(***************************************************************************)
EXTENDS Archetypes, FiniteSetsExt, SequencesExt

CONSTANTS
  Schemas,     \* [fields, max, allowInvalidUTF8]: the messages to look at; max bounds their records
  Records(_),  \* the records to try for a field
  MinSize,     \* the smallest size SuggestSize returns, 64 in the source
  Stride,      \* tdp.Type.Size of the element type of a repeated message field
  MaxParts     \* bounds the parts of a map entry, so that their ranges differ

\* The fields of a message that is looked at: one, or the members of a oneof.
IsSchema(s) ==
  /\ s.fields \in Seq([card : {"singular", "optional", "oneof", "repeated", "map"},
                       kind : Kinds, key : STRING, preload : Nat])
  /\ \A f \in DOMAIN s.fields :
       /\ s.fields[f].card # "oneof" => DOMAIN s.fields = {f}
       /\ s.fields[f].card = "map" =>
            s.fields[f].key \in DOMAIN mapFields /\ s.fields[f].kind # "Group"

\* What the parser makes sure of for the records it gives to the thunks of a field: a
\* fixed value has the width of its wire type; a varint has bytes and, unless it fails,
\* ends; a byte without a sign bit is a varint; a group has no length that could be wrong.
FixedKinds == {"Fixed32", "Sfixed32", "Float", "Fixed64", "Sfixed64", "Double"}
Width == [Int32 |-> Bits32, Uint32 |-> Bits32, Sint32 |-> Bits32, Fixed32 |-> Bits32,
          Sfixed32 |-> Bits32, Float |-> Bits32, Enum |-> Bits32, Int64 |-> Bits64,
          Uint64 |-> Bits64, Sint64 |-> Bits64, Fixed64 |-> Bits64, Sfixed64 |-> Bits64,
          Double |-> Bits64]
IsElement(fd, e) ==
  /\ e.ok \in BOOLEAN /\ e.ends \in BOOLEAN /\ e.len \in Nat
  /\ IF fd.kind \in FixedKinds THEN e.ok /\ e.v \in 0 .. 2^Width[fd.kind] - 1
     ELSE e.len > 0 /\ (e.ok => e.ends) /\ (e.ends /\ e.len = 1 => e.ok)
IsRecord(fd, r) ==
  /\ {"wt", "ok", "els"} \subseteq DOMAIN r
  /\ r.els \in Seq(ToSet(r.els))
  /\ r.wt = "packed" => \A j \in DOMAIN r.els : IsElement(fd, r.els[j])
  /\ r.wt = "entry" => Len(r.els) <= MaxParts
  /\ r.wt = "group" => r.ok

ASSUME SizeAssumption == MinSize \in Nat \ {0} /\ Stride \in Nat \ {0} /\ MaxParts \in Nat
ASSUME RecordsAssumption ==
  \A s \in Schemas :
    IsSchema(s) /\ \A f \in DOMAIN s.fields : \A r \in Records(s.fields[f]) : IsRecord(s.fields[f], r)

VARIABLES
  schema,  \* the message's fields, [card, kind, key, preload]; the records it may have
  wire,    \* the records read so far, each with its field
  msg,     \* the message: [slot, bits, which]
  heap,    \* the submessages by address: [owner, tokens]
  frame,   \* the submessage that is being parsed, if any: <<[addr, left]>>
  status   \* "ok"; "failed": Fail was called; "astray": followed bits that are no pointer;
           \* "over": read past the end of the record, into whatever follows it

vars == <<schema, wire, msg, heap, frame, status>>

Garbage == 0 - 1000

----------------------------------------------------------------------------
(* Memory *)

\* A zc.Range is where its bytes are in the input: in record i, or in part j of
\* record i.  Tag and length precede them, so no parsed range is zero.
RangeAt(i, j) == (MaxParts + 1) * i + j
ContentIn(src, r) ==
  LET i == r \div (MaxParts + 1)
      j == r % (MaxParts + 1)
  IN  IF r = 0 THEN <<>>
      ELSE IF i \notin DOMAIN src THEN <<Garbage>>
      ELSE IF j = 0 THEN src[i].c ELSE src[i].els[j].c
Content(r) == ContentIn(wire, r)

\* *(*T)(p) = v: the higher bytes of a wider slot keep what they hold.
StoreAs(T, old, v) == (old - Trunc(T, old)) + Trunc(T, v)

\* What a T in memory is read as.  A pointer fills its slot, and needs no cutting.
Load(T, b) ==
  LET t == Trunc(T, b)
  IN  CASE T.as = "uint"    -> t
        [] T.as = "int"     -> Signed(T, t)
        [] T.as = "bool"    -> IF t \in {0, 1} THEN t ELSE Garbage
        [] T.as = "range"   -> Content(t)
        [] T.as = "pointer" -> IF b \in DOMAIN heap THEN heap[b].tokens ELSE <<Garbage>>

\* The members of a oneof share a slot.
SlotOf(f) == IF schema.fields[f].card = "oneof" THEN 1 ELSE f
Slot(f) == msg.slot[SlotOf(f)]

----------------------------------------------------------------------------
(* Arena slices, as far as the thunks look at them; Arena has the rest *)

NilSlice == [mode |-> "nil", elems |-> <<>>, cap |-> 0]

\* SuggestSize, sliceLayout: the capacity of n elements asked for.  Sizes are powers
\* of two, MinSize the smallest.
SuggestSize(bytes) ==
  LET sizes[i \in 0 .. bytes] == IF i = 0 THEN MinSize ELSE 2 * sizes[i - 1]
  IN  IF bytes = 0 THEN 0
      ELSE sizes[CHOOSE i \in 0 .. bytes : sizes[i] >= bytes /\ (i = 0 \/ sizes[i - 1] < bytes)]

\* Room for n elements.  Slice.cap is a uint32, and Grow converts the size in bytes to one
\* before it divides: that changes nothing below 4 GiB, and no list here gets there.
CapFor(T, n) == SuggestSize(Size(T) * n) \div Size(T)

\* Slice.Grow
Grown(T, s, n) == [s EXCEPT !.mode = "arena", !.cap = CapFor(T, s.cap + n)]

\* Slice.Append and AppendOne
AppendAll(T, s, vs) ==
  LET g == IF s.cap - Len(s.elems) < Len(vs) THEN Grown(T, s, Len(vs)) ELSE s
  IN  [g EXCEPT !.elems = @ \o vs]

\* OffArena: the slice is the input; its capacity is its length, so that nothing
\* is appended to the input.
OffArena(T, vs) == [mode |-> "zc", elems |-> vs, cap |-> Len(vs)]

\* A borrowed slice moves to the arena, with room for n more.
Spilled(T, s, n) ==
  [mode |-> "arena", elems |-> [i \in DOMAIN s.elems |-> Trunc(T, s.elems[i])],
   cap |-> CapFor(T, Len(s.elems) + n)]

----------------------------------------------------------------------------
(* Values *)

\* P1.Varint, Fixed32, Fixed64, Bytes and UTF8 fail on what they cannot parse.
Fails(parse, r) ==
  ~r.ok \/ (parse = "utf8" /\ ~r.utf8 /\ ~schema.allowInvalidUTF8)

\* The pattern the thunks and items store for a record r that is at range `at`.
Parsed(parse, T, r, at) ==
  CASE parse = "varint" -> Trunc(T, r.v)
    [] parse = "zigzag" -> DecodeZigZag(T, r.v)
    [] parse = "fixed"  -> Trunc(T, r.v)
    [] parse = "bool"   -> IF r.v # 0 THEN 1 ELSE 0
    [] parse \in {"utf8", "bytes"} -> at

\* Where the payload of the record that is being read is.
Here == RangeAt(Len(wire) + 1, 0)

Reading == status = "ok" /\ frame = <<>> /\ Len(wire) < schema.max

\* The thunk of field f returns or fails; the record counts as read.
WithField(r, f) == [x \in DOMAIN r \cup {"field"} |-> IF x = "field" THEN f ELSE r[x]]
Done(f, r, failed) ==
  /\ wire' = Append(wire, WithField(r, f))
  /\ status' = IF failed THEN "failed" ELSE "ok"
  /\ UNCHANGED schema
SetSlot(m, f, s) == [m EXCEPT !.slot[SlotOf(f)] = s]

----------------------------------------------------------------------------
(* Scalars, strings and bytes: singular.go, optional.go, oneof.go *)

\* What a thunk does before it parses the value, which may then fail.
Mark(m, f, t) ==
  CASE t.before = "nothing" -> m
    [] t.before = "bit"     -> [m EXCEPT !.bits = @ \cup {0}]
    [] t.before = "which"   -> [m EXCEPT !.which = f]

\* parseVarint, parseZigZag, parseFixed, parseString, parseBytes, alone or called
\* by the optional and the oneof thunks.
ParseScalar(f, t, r) ==
  /\ t.parse \in {"varint", "zigzag", "fixed", "utf8", "bytes"}
  /\ Done(f, r, Fails(t.parse, r))
  /\ LET m == Mark(msg, f, t)
     IN  msg' = IF Fails(t.parse, r) THEN m
                ELSE SetSlot(m, f, StoreAs(t.T, Slot(f), Parsed(t.parse, t.T, r, Here)))
  /\ UNCHANGED <<heap, frame>>

\* Message.SetBit(n, v != 0)
BitsOf(n, v, bits) == IF v # 0 THEN bits \cup {n} ELSE bits \ {n}

\* parseBool: the value is the bit; parseOptionalBool: the next bit.
ParseBool(f, t, r) ==
  /\ t.parse \in {"bool", "optionalBool"}
  /\ Done(f, r, ~r.ok)
  /\ msg' = IF ~r.ok THEN msg
            ELSE [msg EXCEPT !.bits = IF t.parse = "bool" THEN BitsOf(0, r.v, @)
                                      ELSE BitsOf(1, r.v, @ \cup {0})]
  /\ UNCHANGED <<heap, frame>>

\* parseOneofBool stores a byte and then the which word.
ParseOneofBool(f, t, r) ==
  /\ t.parse = "oneofBool"
  /\ Done(f, r, ~r.ok)
  /\ msg' = IF ~r.ok THEN msg
            ELSE [SetSlot(msg, f, StoreAs(t.T, Slot(f), Parsed("bool", t.T, r, Here)))
                    EXCEPT !.which = f]
  /\ UNCHANGED <<heap, frame>>

----------------------------------------------------------------------------
(* Submessages: singular.go *)

NewMessage(f) == [owner |-> f, tokens |-> <<>>]

\* PushMessage and PushGroup; an empty submessage is not pushed.
Push(addr, tokens) == IF tokens = <<>> THEN <<>> ELSE <<[addr |-> addr, left |-> tokens]>>

\* Whether push fails because the stack is full.  That depends on the messages around
\* this one and on which of their frames were elided, so both may happen; but only
\* groups and what has bytes are pushed.
PushFails(wt, bytes) == IF wt = "group" \/ bytes # <<>> THEN BOOLEAN ELSE {FALSE}

\* LengthPrefix fails.  Groups have none.
MessageFails(f, t, r) ==
  /\ t.parse = "message" /\ ~r.ok
  /\ Done(f, r, TRUE)
  /\ msg' = Mark(msg, f, t)
  /\ UNCHANGED <<heap, frame>>

\* parseMessage and parseGroup: a message is allocated and stored, unless the slot holds
\* one, and then pushed.  Whatever bits the slot holds are followed.
ParseMessage(f, t, r) ==
  /\ t.parse = "message" /\ r.ok
  /\ wire' = Append(wire, WithField(r, f))
  /\ LET fresh == Slot(f) = 0
         m == IF fresh THEN Len(heap) + 1 ELSE Slot(f)
         astray == /\ r.wt = "group" \/ r.c # <<>>
                   /\ ~fresh /\ (m \notin DOMAIN heap \/ heap[m].owner # f)
     IN  /\ \E fails \in PushFails(r.wt, r.c) :
              status' = IF fails THEN "failed" ELSE IF astray THEN "astray" ELSE "ok"
         /\ msg' = SetSlot(Mark(msg, f, t), f, m)
         /\ heap' = IF fresh THEN Append(heap, NewMessage(f)) ELSE heap
         /\ frame' = IF status' = "ok" THEN Push(m, r.c) ELSE <<>>
  /\ UNCHANGED schema

\* The heap after the next record of the submessage.
ChildStored ==
  [heap EXCEPT ![frame[1].addr].tokens = Append(@, Head(frame[1].left))]

\* The loop runs the thunks of the submessage, one field at a time, and pops it.
ParseChild ==
  /\ status = "ok" /\ frame # <<>>
  /\ heap' = ChildStored
  /\ frame' = Push(frame[1].addr, Tail(frame[1].left))
  /\ UNCHANGED <<schema, wire, msg, status>>

\* One of them fails, before or after it stores something, or the end of a group does.
ChildFails ==
  /\ status = "ok" /\ frame # <<>>
  /\ heap' \in {heap, ChildStored}
  /\ status' = "failed" /\ frame' = <<>>
  /\ UNCHANGED <<schema, wire, msg>>

----------------------------------------------------------------------------
(* Repeated scalars: repeated.go *)

\* parseRepeatedVarint
ParseRepeatedVarint(f, t, r) ==
  /\ t.parse = "repeatedVarint"
  /\ Done(f, r, ~r.ok)
  /\ LET s == IF Slot(f).mode = "zc" THEN Spilled(t.T, Slot(f), 1) ELSE Slot(f)
     IN  msg' = IF ~r.ok THEN msg
                ELSE SetSlot(msg, f, AppendAll(t.T, s, <<Trunc(t.T, r.v)>>))
  /\ UNCHANGED <<heap, frame>>

\* The packed varints of a record: their bytes, and how many of those have the
\* sign bit: all but the last of a varint, and all of one that is cut off.
Total(ns) ==
  LET t[i \in 0 .. Len(ns)] == IF i = 0 THEN 0 ELSE t[i - 1] + ns[i]
  IN  t[Len(ns)]
ByteLen(els) == Total([i \in DOMAIN els |-> els[i].len])
SignBytes(els) ==
  Total([i \in DOMAIN els |-> IF els[i].ends THEN els[i].len - 1 ELSE els[i].len])

\* Mutant of Reserved: the spare elements are not counted on top of the length.
ReservedShort(T, s, count) ==
  IF s.mode = "zc" THEN Spilled(T, s, count)
  ELSE IF s.cap < count THEN Grown(T, s, count - s.cap) ELSE s

\* parsePackedVarint's switch: a slice with room for count more elements.
Reserved(T, s, count) ==
  LET spare == s.cap - Len(s.elems)
  IN  IF s.mode = "zc" THEN Spilled(T, s, count)
      ELSE IF s.mode = "nil" \/ spare < count THEN Grown(T, s, count - spare) ELSE s

\* The loops of parsePackedVarint write without looking at the capacity.
StorePacked(T, s, els) ==
  [s EXCEPT !.elems = @ \o [i \in DOMAIN els |-> Trunc(T, els[i].v)]]

\* Mutant of Publish: r.Raw is stored before the loop.
PublishEarly(old, new, failed) == new

\* r.Raw is stored after the last varint; a varint that fails leaves it alone.
Publish(old, new, failed) == IF failed THEN old ELSE new

\* parsePackedVarint.  Into an empty field, one-byte varints are borrowed.
ParsePackedVarint(f, t, r) ==
  /\ t.parse = "packedVarint"
  /\ LET n == ByteLen(r.els)
         count == n - SignBytes(r.els)
         values == [i \in DOMAIN r.els |-> r.els[i].v]
         failed == \E i \in DOMAIN r.els : ~r.els[i].ok
         stored == StorePacked(t.T, Reserved(t.T, Slot(f), count), r.els)
     IN  /\ Done(f, r, ~r.ok \/ failed)
         /\ msg' = IF ~r.ok \/ n = 0 THEN msg
                   ELSE IF Slot(f).mode = "nil" /\ count = n
                   THEN SetSlot(msg, f, OffArena(uint8, values))
                   ELSE SetSlot(msg, f, Publish(Slot(f), stored, failed))
  /\ UNCHANGED <<heap, frame>>

\* parseRepeatedFixed32 and parseRepeatedFixed64, through appendFixed.
ParseRepeatedFixed(f, t, r) ==
  /\ t.parse = "appendFixed"
  /\ Done(f, r, ~r.ok)
  /\ LET s == Slot(f)
         v == <<Trunc(t.T, r.v)>>
     IN  msg' = IF ~r.ok THEN msg
                ELSE IF Len(s.elems) < s.cap THEN SetSlot(msg, f, [s EXCEPT !.elems = @ \o v])
                ELSE SetSlot(msg, f, AppendAll(t.T, IF s.mode = "zc" THEN Spilled(t.T, s, 1) ELSE s, v))
  /\ UNCHANGED <<heap, frame>>

\* parsePackedFixed
ParsePackedFixed(f, t, r) ==
  /\ t.parse = "packedFixed"
  /\ Done(f, r, ~r.ok)
  /\ LET s == Slot(f)
         values == [i \in DOMAIN r.els |-> Trunc(t.T, r.els[i].v)]
     IN  msg' = IF ~r.ok \/ r.els = <<>> THEN msg
                ELSE IF s.mode = "nil" THEN SetSlot(msg, f, OffArena(t.T, values))
                ELSE SetSlot(msg, f, AppendAll(t.T, IF s.mode = "zc" THEN Spilled(t.T, s, Len(values))
                                                    ELSE s, values))
  /\ UNCHANGED <<heap, frame>>

\* parseRepeatedBytes and parseRepeatedUTF8
ParseRepeatedBytes(f, t, r) ==
  /\ t.parse \in {"repeatedBytes", "repeatedUTF8"}
  /\ LET failed == Fails(IF t.parse = "repeatedUTF8" THEN "utf8" ELSE "bytes", r)
         preload == schema.fields[f].preload
         s == IF Slot(f).mode = "nil" /\ preload > 0
              THEN [mode |-> "arena", elems |-> <<>>, cap |-> CapFor(zcRange, preload)]
              ELSE Slot(f)
     IN  /\ Done(f, r, failed)
         /\ msg' = IF failed THEN msg ELSE SetSlot(msg, f, AppendAll(zcRange, s, <<Here>>))
  /\ UNCHANGED <<heap, frame>>

----------------------------------------------------------------------------
(* Repeated messages: repeated_message.go *)

\* repeated.Messages: first a block of messages side by side from address base
\* (stride is not 0, len and cap are bytes), later a slice of pointers.
NilMessages == [mode |-> "nil", elems |-> <<>>, cap |-> 0, base |-> 0, len |-> 0, stride |-> 0]

\* Messages.Len and Messages.Get
MessagesLen(s) == IF s.stride # 0 THEN s.len \div s.stride ELSE Len(s.elems)
MessagesGet(s, i) == IF s.stride # 0 THEN s.base + i - 1 ELSE s.elems[i]

\* newInlineRepeatedField
InlineCap(f) == SuggestSize(Stride * Max({1, schema.fields[f].preload}))
NewInline(f) ==
  [NilMessages EXCEPT !.mode = "arena", !.cap = InlineCap(f), !.base = Len(heap) + 1,
                      !.stride = Stride]

\* Mutant of SpillInline: the first message is left behind.
SpillInlineShort(s) ==
  [NilMessages EXCEPT !.mode = "arena", !.cap = CapFor(pointer, (s.cap \div s.stride) * 2),
                      !.elems = [i \in 1 .. (s.len \div s.stride) |-> s.base + i]]

\* spillInlineRepeatedField: pointers to the messages of the block.
SpillInline(s) ==
  [NilMessages EXCEPT !.mode = "arena", !.cap = CapFor(pointer, (s.cap \div s.stride) * 2),
                      !.elems = [i \in 1 .. (s.len \div s.stride) |-> s.base + i - 1]]

\* parseRepeatedMessage and parseRepeatedGroup push the message that was added to the list.
PushElement(f, r, m) ==
  \E fails \in PushFails(r.wt, r.c) :
    /\ Done(f, r, fails)
    /\ frame' = IF fails THEN <<>> ELSE Push(m, r.c)

\* allocRepeatedMessage2 when the block is new or has room ...
Inline(s) == s.mode = "nil" \/ (s.stride # 0 /\ s.len + s.stride <= s.cap)
ParseInline(f, t, r) ==
  /\ t.parse = "repeatedMessage" /\ r.ok /\ Inline(Slot(f))
  /\ LET s == IF Slot(f).mode = "nil" THEN NewInline(f) ELSE Slot(f)
     IN  /\ msg' = SetSlot(msg, f, [s EXCEPT !.len = @ + s.stride])
         /\ heap' = IF Slot(f).mode # "nil" THEN heap
                    ELSE heap \o [i \in 1 .. (s.cap \div s.stride) |-> NewMessage(f)]
         /\ PushElement(f, r, s.base + (s.len \div s.stride))

\* ... and when it is full, or has been spilled.
ParseOutlined(f, t, r) ==
  /\ t.parse = "repeatedMessage" /\ r.ok /\ ~Inline(Slot(f))
  /\ LET s == IF Slot(f).stride # 0 THEN SpillInline(Slot(f)) ELSE Slot(f)
         m == Len(heap) + 1
     IN  /\ msg' = SetSlot(msg, f, AppendAll(pointer, s, <<m>>))
         /\ heap' = Append(heap, NewMessage(f))
         /\ PushElement(f, r, m)

\* parseRepeatedMessage: LengthPrefix fails before anything is allocated.
RepeatedMessageFails(f, t, r) ==
  /\ t.parse = "repeatedMessage" /\ ~r.ok
  /\ Done(f, r, TRUE)
  /\ UNCHANGED <<msg, heap, frame>>

----------------------------------------------------------------------------
(* Maps: map.go *)

NilTable == [nil |-> TRUE]

\* A part of which only the tag is in the entry.  Varint does not look for the end before
\* its first byte, so its value is read from the bytes after the entry, of which one part
\* may be the value for such a key; all other items fail.
CutTag(t, e) ==
  /\ e.part = "key" \/ (e.part = "value" /\ t.parse = "mapKxV")
  /\ (IF e.part = "key" THEN t.ki ELSE t.vi).parse \in {"varint", "zigzag", "bool"}
  /\ e.len = 0

\* What the loop over an entry's fields makes of its parts: the last key, the last
\* value, and whether one of the parts could not be parsed.  The fast path, for a
\* key and then a value, makes the same assignments.
EntryParts(t, els) ==
  LET at(j) == RangeAt(Len(wire) + 1, j)
      item(e) == IF e.part = "key" THEN t.ki ELSE t.vi
      bad(e) == IF e.part = "unknown" \/ (e.part = "value" /\ t.parse = "mapKxM") THEN ~e.ok
                ELSE Fails(item(e).parse, e)
      last(part) == {j \in DOMAIN els : els[j].part = part}
      of(part, it) ==
        IF last(part) = {} THEN 0
        ELSE LET j == Max(last(part)) IN Parsed(it.parse, it.T, els[j], at(j))
  IN  [failed |-> \E j \in DOMAIN els : bad(els[j]),
       over |-> \E j \in DOMAIN els : CutTag(t, els[j]),
       k |-> of("key", t.ki),
       v |-> IF t.parse = "mapKxV" THEN of("value", t.vi) ELSE 0]

\* What Insert and Lookup hash and compare: an integer of type T, or the bytes
\* that extract finds in the input.
KeyOf(src, by, T, k) ==
  IF by = "content" THEN <<ContentIn(src, k)>> ELSE <<Zext(T, k), Load(T, k)>>

\* Insert of k into the table of a map field, which is made for its first entry,
\* then *vp = v.
TableAfter(t, table, k, v, src) ==
  LET old == IF table = NilTable
             THEN [key |-> t.init.key, val |-> t.init.val, pairs |-> <<>>] ELSE table
      by == IF t.ki.extract THEN t.insert.searchFunc.by ELSE t.insert.search.by
      keyOf(x) == KeyOf(src, by, t.insert.key, x)
      key == Trunc(t.insert.key, k)
      val == Trunc(t.insert.val, v)
      same == {i \in DOMAIN old.pairs : keyOf(old.pairs[i].k) = keyOf(key)}
  IN  [old EXCEPT !.pairs = IF same # {} THEN [@ EXCEPT ![Min(same)].v = val]
                            ELSE Append(@, [k |-> key, v |-> val])]

\* parseMapKxV
ParseMapKxV(f, t, r) ==
  /\ t.parse = "mapKxV"
  /\ LET e == EntryParts(t, r.els)
         failed == ~r.ok \/ e.failed
     IN  /\ wire' = Append(wire, WithField(r, f))
         /\ status' = IF failed THEN "failed" ELSE IF e.over THEN "over" ELSE "ok"
         /\ msg' = IF failed THEN msg
                   ELSE SetSlot(msg, f, TableAfter(t, Slot(f), e.k, e.v, wire'))
  /\ UNCHANGED <<schema, heap, frame>>

\* parseMapKxM rewinds and lets the map entry parser merge the value parts.  Three
\* forms of entries go wrong: one with only a key keeps the length of the entry,
\* which is then taken from the bytes after it; because vTag is the tag of a string
\* key, a second such key is taken for the value; and after a value the map entry
\* parser goes to NextOk, which was linked as an offset instead of an address.
KeyOnly(els) == Len(els) = 1 /\ els[1].part = "key"
KeyTwice(t, els) ==
  Len(els) > 1 /\ els[1].part = "key" /\ els[2].part = "key" /\ t.ki.kind = "bytes"
ValueFirst(els) == \E j \in DOMAIN els : j < Len(els) /\ els[j].part = "value"
ValueTokens(t, els) ==
  IF KeyOnly(els) \/ KeyTwice(t, els) THEN <<Garbage>>
  ELSE FlattenSeq([j \in DOMAIN els |-> IF els[j].part = "value" THEN els[j].c ELSE <<>>])

\* parseMapKxM: every entry gets a new message, which is stored and then pushed, with
\* the whole entry or its value.
ParseMapKxM(f, t, r) ==
  /\ t.parse = "mapKxM"
  /\ LET e == EntryParts(t, r.els)
         failed == ~r.ok \/ e.failed
         m == Len(heap) + 1
     IN  /\ wire' = Append(wire, WithField(r, f))
         /\ \E fails \in PushFails(r.wt, r.els) :
              status' = IF failed \/ fails THEN "failed" ELSE IF e.over THEN "over"
                        ELSE IF ValueFirst(r.els) THEN "astray" ELSE "ok"
         /\ msg' = IF failed THEN msg
                   ELSE SetSlot(msg, f, TableAfter(t, Slot(f), e.k, m, wire'))
         /\ heap' = IF failed THEN heap ELSE Append(heap, NewMessage(f))
         /\ frame' = IF status' = "ok" THEN Push(m, ValueTokens(t, r.els)) ELSE <<>>
  /\ UNCHANGED schema

----------------------------------------------------------------------------
(* The message *)

ZeroSlot(fd) ==
  CASE fd.card = "map" -> NilTable
    [] fd.card = "repeated" /\ fd.kind \in MessageKinds -> NilMessages
    [] fd.card = "repeated" /\ fd.kind \notin MessageKinds -> NilSlice
    [] OTHER -> 0

Init ==
  /\ schema \in Schemas
  /\ wire = <<>> /\ heap = <<>> /\ frame = <<>> /\ status = "ok"
  /\ msg = [slot |-> [f \in DOMAIN schema.fields |-> ZeroSlot(schema.fields[f])],
            bits |-> {}, which |-> 0]

\* The loop calls the thunk that the tag, a field number and a wire type, selects.
ParseField ==
  /\ Reading
  /\ \E f \in DOMAIN schema.fields :
       \E r \in Records(schema.fields[f]), p \in SelectArchetype(schema.fields[f]).parsers :
         /\ p.kind = r.wt
         /\ LET t == p.thunk
            IN  \/ ParseScalar(f, t, r)         \/ ParseBool(f, t, r)
                \/ ParseOneofBool(f, t, r)      \/ ParseMessage(f, t, r)
                \/ MessageFails(f, t, r)
                \/ ParseRepeatedVarint(f, t, r) \/ ParsePackedVarint(f, t, r)
                \/ ParseRepeatedFixed(f, t, r)  \/ ParsePackedFixed(f, t, r)
                \/ ParseRepeatedBytes(f, t, r)  \/ ParseInline(f, t, r)
                \/ ParseOutlined(f, t, r)       \/ RepeatedMessageFails(f, t, r)
                \/ ParseMapKxV(f, t, r)         \/ ParseMapKxM(f, t, r)

Next == ParseField \/ ParseChild \/ ChildFails

Spec == Init /\ [][Next]_vars

----------------------------------------------------------------------------
(* Getters *)

\* A list element: a Scalars reads borrowed elements as ZC and converts them to E.
Element(g, s, b) ==
  LET e == IF s.mode = "zc" THEN Trunc(g.E, Trunc(g.ZC, b)) ELSE Trunc(g.E, b)
  IN  Load(g.E, IF g.zigzag THEN DecodeZigZag(g.E, e) ELSE e)

\* The maps of package maps: Range, with Get of every key it yields.  The key is
\* looked up as K, whatever type it was inserted as.
LoadAs(T, stored, b) == IF T.bits = stored.bits THEN Load(T, b) ELSE Garbage
MapGet(g, table, k) ==
  LET by == IF g.K.as = "range" THEN "content" ELSE "value"
      K(T) == IF T.as = "bool" THEN uint8 ELSE T
  IN  {LoadAs(g.V, table.val, p.v) :
        p \in {p \in ToSet(table.pairs) :
                 KeyOf(wire, by, K(g.K), k)[1] = KeyOf(wire, by, table.key, p.k)[1]}}
MapEntries(g, table) ==
  IF table = NilTable THEN {}
  ELSE {<<LoadAs(g.K, table.key, p.k), LoadAs(g.V, table.val, p.v), MapGet(g, table, p.k)>> :
          p \in ToSet(table.pairs)}

\* What the getter of field f returns: <<>> for an invalid Value, else the value.
Get(f) ==
  LET g == SelectArchetype(schema.fields[f]).getter
      s == Slot(f)
      present == 0 \in msg.bits
  IN  CASE g.get = "scalar"      -> IF Trunc(g.T, s) = 0 THEN <<>> ELSE <<Load(g.T, s)>>
        [] g.get = "text"        -> IF Content(s) = <<>> THEN <<>> ELSE <<Content(s)>>
        [] g.get = "bit"         -> IF present THEN <<1>> ELSE <<>>
        [] g.get = "message"     -> IF s = 0 THEN <<>> ELSE <<Load(g.T, s)>>
        [] g.get = "optional"    -> IF present THEN <<Load(g.T, s)>> ELSE <<>>
        [] g.get = "optionalBit" -> IF present THEN <<IF 1 \in msg.bits THEN 1 ELSE 0>> ELSE <<>>
        [] g.get \in {"oneof", "oneofMessage"} ->
                                    IF msg.which = f THEN <<Load(g.T, s)>> ELSE <<>>
        [] g.get = "list"        -> [i \in DOMAIN s.elems |-> Element(g, s, s.elems[i])]
        [] g.get = "listBool"    -> [i \in DOMAIN s.elems |-> IF s.elems[i] # 0 THEN 1 ELSE 0]
        [] g.get = "listText"    -> [i \in DOMAIN s.elems |-> Content(s.elems[i])]
        [] g.get = "listMessage" -> [i \in 1 .. MessagesLen(s) |-> Load(pointer, MessagesGet(s, i))]
        [] g.get = "map"         -> MapEntries(g, s)

----------------------------------------------------------------------------
(* What the records mean *)

ZigZagOf(i) == IF i >= 0 THEN 2 * i ELSE (-2) * i - 1

\* The value of one record, part or packed element of a kind of field.
ValueOf(kind, r) ==
  CASE kind = "Bool" -> IF r.v # 0 THEN 1 ELSE 0
    [] kind \in {"Uint32", "Uint64", "Fixed32", "Fixed64", "Float", "Double"} ->
         CHOOSE n \in 0 .. 2^Width[kind] - 1 : (n - r.v) % 2^Width[kind] = 0
    [] kind \in {"Int32", "Int64", "Sfixed32", "Sfixed64", "Enum"} ->
         CHOOSE n \in -(2^(Width[kind] - 1)) .. 2^(Width[kind] - 1) - 1 :
           (n - r.v) % 2^Width[kind] = 0
    [] kind \in {"Sint32", "Sint64"} ->
         CHOOSE n \in -(2^(Width[kind] - 1)) .. 2^(Width[kind] - 1) - 1 :
           (ZigZagOf(n) - r.v) % 2^Width[kind] = 0
    [] kind \in StringKinds \cup MessageKinds -> r.c

\* The default of a kind.
Zero(kind) == IF kind \in ScalarKinds THEN 0 ELSE <<>>

\* The last part of a map entry, or the default.
PartOf(part, kind, els) ==
  LET js == {j \in DOMAIN els : els[j].part = part}
  IN  IF kind \in MessageKinds
      THEN FlattenSeq([j \in DOMAIN els |-> IF j \in js THEN els[j].c ELSE <<>>])
      ELSE IF js = {} THEN Zero(kind) ELSE ValueOf(kind, els[Max(js)])

\* The records of field f since another member of its oneof was read.
RecordsOf(f) ==
  LET others == {i \in DOMAIN wire : wire[i].field # f}
  IN  IF others = {} THEN wire ELSE SubSeq(wire, Max(others) + 1, Len(wire))

\* The value that protobuf gives field f: the last record decides, submessages are
\* merged, repeated fields concatenated, and in a map the last entry of a key wins.
Meaning(f) ==
  LET fd == schema.fields[f]
      rs == RecordsOf(f)
      all == IF fd.kind \in MessageKinds THEN FlattenSeq([i \in DOMAIN rs |-> rs[i].c])
             ELSE ValueOf(fd.kind, Last(rs))
      elems(r) == IF r.wt = "packed" THEN [i \in DOMAIN r.els |-> ValueOf(fd.kind, r.els[i])]
                  ELSE <<ValueOf(fd.kind, r)>>
      key(i) == PartOf("key", fd.key, rs[i].els)
      value(i) == PartOf("value", fd.kind, rs[i].els)
  IN  CASE fd.card = "repeated" -> FlattenSeq([i \in DOMAIN rs |-> elems(rs[i])])
        [] fd.card = "map" ->
             {<<key(i), value(i), {value(i)}>> :
               i \in {i \in DOMAIN rs : \A j \in DOMAIN rs : j > i => key(j) # key(i)}}
        [] fd.card = "singular" /\ fd.kind \notin MessageKinds ->
             IF rs = <<>> \/ all = Zero(fd.kind) THEN <<>> ELSE <<all>>
        [] OTHER -> IF rs = <<>> THEN <<>> ELSE <<all>>

----------------------------------------------------------------------------
(* Properties *)

\* Whatever kinds, cardinalities and wire forms the records have and in whatever
\* order they come, every getter returns what protobuf says the records mean: the
\* archetype tables pair each thunk with a getter and a stencil that fit (all of
\* internal/tdp/thunks).
ReadsMeaning ==
  status \notin {"failed", "over"} /\ frame = <<>> => \A f \in DOMAIN schema.fields : Get(f) = Meaning(f)

RepeatedField(f) == schema.fields[f].card = "repeated"
HasMessages(f) == schema.fields[f].kind \in MessageKinds

\* The packed records that have elements, and the values of one.
FullRecords == {i \in DOMAIN wire : wire[i].ok /\ wire[i].wt = "packed" /\ wire[i].els # <<>>}
ValuesAt(i) == [j \in DOMAIN wire[i].els |-> wire[i].els[j].v]

\* Every list fits its capacity, although parsePackedVarint writes without looking
\* at it; and a borrowed list is exactly the first non-empty packed record, so
\* nothing was ever appended to the input (repeated.go, OffArena).
ListsFit ==
  \A f \in DOMAIN schema.fields :
    RepeatedField(f) =>
      /\ Len(Slot(f).elems) <= Slot(f).cap \/ HasMessages(f)
      /\ Slot(f).mode = "zc" => Slot(f).elems = ValuesAt(Min(FullRecords))

\* A message of a repeated field keeps its address when the list spills and grows:
\* what was handed out, or is being parsed, stays an element at the same index
\* (spillInlineRepeatedField, "to avoid needing to copy parsed messages").
AddressesStable ==
  [][\A f \in DOMAIN schema.fields :
       RepeatedField(f) /\ HasMessages(f) =>
         /\ MessagesLen(Slot(f)) <= MessagesLen(Slot(f)')
         /\ \A i \in 1 .. MessagesLen(Slot(f)) : MessagesGet(Slot(f), i) = (MessagesGet(Slot(f), i))']_vars

\* What a record that fails may add: a message is stored before it is pushed, which may
\* fail, and the hasbit of an optional field is set before its value is parsed.  So an
\* empty message may appear, in a list behind the others, in a map in place of the key's
\* value; and an optional field may appear with a zero value.
AddsEmpty(f) ==
  LET fd == schema.fields[f]
  IN  \/ fd.card # "map" /\ HasMessages(f) /\ (Get(f))' = Append(Get(f), <<>>)
      \/ fd.card = "optional" /\ Get(f) = <<>> /\ (Get(f))' = <<Zero(fd.kind)>>
      \/ /\ fd.card = "map" /\ HasMessages(f)
         /\ \E e \in (Get(f))' :
              /\ e[2] = <<>> /\ e[3] = {<<>>}
              /\ (Get(f))' = {x \in Get(f) : x[1] # e[1]} \cup {e}

\* Field f survives a record that fails.
FailureKeeps(f) == (Get(f))' = Get(f) \/ AddsEmpty(f)

\* A record that fails leaves what could be read before it readable, except that it may
\* add something empty.  A record of a submessage is one of that message's, so what is
\* said here of a message holds for it.  Oneofs are not covered: a failing member is active
\* over the bits of the previous one (optional.go, singular.go, repeated.go, map.go).
FailureKeepsFields ==
  [][\A f \in DOMAIN schema.fields :
       status' = "failed" /\ frame = <<>> /\ schema.fields[f].card # "oneof" => FailureKeeps(f)]_vars

----------------------------------------------------------------------------
(* The inductive invariant behind the properties of repeated fields *)

IsSeq(s) == s \in Seq(ToSet(s))

\* Only the slot of f is there.
OneSlot(f) ==
  /\ msg = [slot |-> msg.slot, bits |-> msg.bits, which |-> msg.which]
  /\ msg.slot = [g \in {f} |-> msg.slot[f]]

IsList(s) ==
  /\ s = [mode |-> s.mode, elems |-> s.elems, cap |-> s.cap]
  /\ s.cap \in Nat /\ IsSeq(s.elems) /\ Len(s.elems) <= s.cap

\* A list is nil only as long as no packed record had elements, and borrowed exactly
\* from the first that had, so that it is full.
ListInv(f) ==
  LET s == Slot(f)
  IN  /\ IsList(s) /\ s.mode \in {"nil", "zc", "arena"}
      /\ s.mode = "nil" => s = NilSlice /\ (status = "ok" => FullRecords = {})
      /\ s.mode = "zc" => /\ s.cap = Len(s.elems)
                          /\ FullRecords # {} /\ s.elems = ValuesAt(Min(FullRecords))

\* Messages lie in one block, or are pointed to.
MessagesInv(f) ==
  LET s == Slot(f)
  IN  /\ s = [mode |-> s.mode, elems |-> s.elems, cap |-> s.cap,
              base |-> s.base, len |-> s.len, stride |-> s.stride]
      /\ s.mode \in {"nil", "arena"}
      /\ s.mode = "nil" => s = NilMessages
      /\ s.stride \in {0, Stride} /\ s.len \in Nat /\ IsSeq(s.elems)

RepeatedInv ==
  \A f \in DOMAIN schema.fields :
    RepeatedField(f) =>
      IsSeq(wire) /\ OneSlot(f) /\ (IF HasMessages(f) THEN MessagesInv(f) ELSE ListInv(f))

(* ... and behind what a failure keeps *)

\* The bytes are in a record that was read.
IsRead(b) == b \in 0 .. RangeAt(Len(wire), MaxParts)

TextInv(f) == IsRead(Slot(f)) /\ Trunc(zcRange, Slot(f)) = Slot(f)

\* The hasbit is set before the value.
HasbitInv(f) == 0 \in msg.bits \/ Slot(f) = 0

TableInv(f) ==
  LET g == SelectArchetype(schema.fields[f]).getter
      s == Slot(f)
  IN  s # NilTable =>
        /\ s = [key |-> s.key, val |-> s.val, pairs |-> s.pairs] /\ IsSeq(s.pairs)
        /\ \A i \in DOMAIN s.pairs :
             /\ s.pairs[i] = [k |-> s.pairs[i].k, v |-> s.pairs[i].v]
             /\ g.K.as = "range" => IsRead(s.pairs[i].k)
             /\ g.V.as = "range" => IsRead(s.pairs[i].v)

\* The messages of a list are where the list says, also the one that is parsed, and the
\* rest of their block is empty.
BlockInv(f) ==
  LET s == Slot(f)
      n == MessagesLen(s)
  IN  /\ \A i \in 1 .. n : MessagesGet(s, i) \in DOMAIN heap
      /\ frame # <<>> => \E i \in 1 .. n : frame[1].addr = MessagesGet(s, i)
      /\ s.stride # 0 =>
           /\ s.cap \in Nat /\ s.base \in Nat
           /\ \A i \in n + 1 .. s.cap \div s.stride :
                MessagesGet(s, i) \in DOMAIN heap /\ heap[MessagesGet(s, i)].tokens = <<>>

\* What field f refers to was read.
FieldRead(f) ==
  LET fd == schema.fields[f]
      text == fd.kind \in StringKinds
  IN  /\ IsSeq(wire) /\ IsSeq(heap) /\ OneSlot(f)
      /\ fd.card \in {"singular", "optional"} /\ text => TextInv(f)
      /\ fd.card = "optional" /\ fd.kind \notin {"Bool"} \cup MessageKinds => HasbitInv(f)
      /\ fd.card = "repeated" /\ text => \A i \in DOMAIN Slot(f).elems : IsRead(Slot(f).elems[i])
      /\ fd.card = "repeated" /\ HasMessages(f) => BlockInv(f)
      /\ fd.card = "map" => TableInv(f)

ReadInv == \A f \in DOMAIN schema.fields : schema.fields[f].card # "oneof" => FieldRead(f)
=============================================================================
