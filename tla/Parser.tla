------------------------------- MODULE Parser -------------------------------
(***************************************************************************)
(* The table-driven parser of internal/tdp/vm: the loop of run.go, the     *)
(* stack and the primitive decoders of vm.go and varint.go, and the        *)
(* singular and repeated-message field thunks of internal/tdp/thunks.      *)
(*                                                                         *)
(* One parse of one input is one behaviour.  pc is the label of loop() (or *)
(* the outlined function) that runs next; p1 and p2 are the register halves *)
(* of the parser state.  Input bytes are numbers; tags are kept decoded    *)
(* (field number * 8 + wire type) because tdp.Tag is a one-to-one encoding *)
(* of that.  Offsets count from the first input byte.                      *)
(***************************************************************************)
EXTENDS Integers, Sequences

CONSTANTS
  Inputs,       \* the byte sequences to parse
  Slacks,       \* what may follow the input in memory (readable slack bytes)
  Types,        \* message types
  Root,         \* type of the message passed to Run
  Fields,       \* Fields[ty]: its field parsers, in parser-table order
  NextOk,       \* NextOk[ty][i]: the field predicted after field i
  MaxMisses,    \* Options.MaxMisses
  MaxDepth,     \* Options.MaxDepth
  DiscardUnknown, \* Options.DiscardUnknown (only map entries set the type's own)
  TagBits       \* width of a tag (32 in the source)

Kinds == {"varint", "fixed32", "bytes", "message", "group",
          "messages", "groups"}

ASSUME ParserAssumption ==
  /\ \A s \in Inputs : s \in Seq(0 .. 255)
  /\ \A s \in Slacks : s \in Seq(0 .. 255) /\ Len(s) >= 9
  /\ Root \in Types /\ MaxMisses \in Nat /\ MaxDepth \in Nat
  /\ DiscardUnknown \in BOOLEAN /\ TagBits \in Nat
  /\ \A ty \in Types :
       /\ Fields[ty] \in Seq([tag : Nat, kind : Kinds, sub : Types])
       /\ \A i \in 1 .. Len(Fields[ty]) : NextOk[ty][i] \in 1 .. Len(Fields[ty])

\* The arithmetic of word sizes.
ASSUME WordAssumption == 2^TagBits \in Nat \ {0}

VARIABLES
  input,  \* the bytes being parsed
  slack,  \* the bytes after them
  pc,     \* where the parser is
  p1,     \* [ptr, end, endGroup]
  p2,     \* [msg, ty, field, scratch]
  stack,  \* p3.stack: saved frames, bottom first
  tries,  \* what is left of MaxMisses while searching for a field
  skips,  \* end tags of the unknown groups skipRecord is inside of
  start,  \* first byte of the unknown record being skipped
  msgs,   \* every message allocated so far; msgs[1] is the root
  err     \* p3.err.code

regs == <<p1, p2, stack, tries, skips, start>>
vars == <<input, slack, pc, regs, msgs, err>>

NotAGroup == -1   \* notAGroup
NoTag == -1       \* the tag of the dummy parser of a type without fields
NilField == -1    \* a nil *FieldParser
Entrypoint == 0   \* index of TypeParser.Entrypoint
NilMessage == 0
ErrorOk == "ok"
Final == {"done", "failed", "fault"}

\* The wire types of protowire.
VarintType == 0
Fixed64Type == 1
BytesType == 2
StartGroupType == 3
EndGroupType == 4
Fixed32Type == 5

----------------------------------------------------------------------------
(* Memory *)

\* RelocatePageBoundary leaves at least nine readable bytes after the input;
\* reading past Limit leaves them.
Limit == Len(input) + Len(slack)

Byte(o) == IF o < Len(input) THEN input[o + 1] ELSE slack[o - Len(input) + 1]

\* P1.Len; negative once ptr has run past end.
Left == p1.end - p1.ptr

\* The offset of the last byte that parsing a varint at o looks at: the first
\* without a sign bit, or the tenth; Limit if memory ends before.
EndsVarint(o, q) == Byte(q) < 128 \/ q = o + 9
LastByte(o) ==
  IF \E q \in o .. Limit - 1 : EndsVarint(o, q)
  THEN CHOOSE q \in o .. Limit - 1 :
         EndsVarint(o, q) /\ \A r \in o .. q - 1 : ~EndsVarint(o, r)
  ELSE Limit

\* The value of the varint at o .. q.  Values that need a fifth byte are
\* represented by Huge, which is larger than any length, tag or limit.
Digit(i, q) == IF i <= q THEN Byte(i) % 128 ELSE 0
Huge == 268435456
VarintValue(o, q) ==
  IF \A i \in o + 4 .. q : Byte(i) % 128 = 0
  THEN Digit(o, q) + 128 * Digit(o + 1, q) + 16384 * Digit(o + 2, q)
         + 2097152 * Digit(o + 3, q)
  ELSE Huge

\* parseVarint at ptr.  The first byte and the tenth are read without a check;
\* before the others ptr is compared with end for equality, so once ptr is past
\* end the check never fires.
VarintTruncated ==
  p1.ptr < p1.end /\ p1.end <= LastByte(p1.ptr) /\ p1.end < p1.ptr + 9
VarintFaults    == LastByte(p1.ptr) >= Limit
VarintOverflows == LastByte(p1.ptr) = p1.ptr + 9 /\ Byte(p1.ptr + 9) > 1
Varint          == VarintValue(p1.ptr, LastByte(p1.ptr))
AfterVarint     == LastByte(p1.ptr) + 1

\* uint64(n) > uint64(p1.Len()) after a length prefix that ends before o:
\* a negative length converts to a huge one.
Exceeds(n, o) == p1.end - o >= 0 /\ n > p1.end - o

----------------------------------------------------------------------------
(* Tables *)

\* A type without fields gets one parser that never matches.
NumFields(ty) == IF Len(Fields[ty]) = 0 THEN 1 ELSE Len(Fields[ty])
FieldTag(ty, i) == IF i \in 1 .. Len(Fields[ty]) THEN Fields[ty][i].tag ELSE NoTag
NextErrOf(ty, i) == IF i >= NumFields(ty) THEN 1 ELSE i + 1
NextOkOf(ty, i) == IF i \in 1 .. Len(Fields[ty]) THEN NextOk[ty][i] ELSE 1

\* TypeParser.TagLUT and the swiss table TypeParser.Tags, which is keyed by
\* the low bits of the tag.
ByTag(ty, tag) ==
  IF \E i \in 1 .. Len(Fields[ty]) : FieldTag(ty, i) = tag % 2^TagBits
  THEN CHOOSE i \in 1 .. Len(Fields[ty]) : FieldTag(ty, i) = tag % 2^TagBits
  ELSE NilField

----------------------------------------------------------------------------
(* Leaving a label *)

Goto(label) == pc' = label /\ UNCHANGED err

Fail(code) ==
  /\ pc' = "failed"
  /\ err' = code
  /\ UNCHANGED <<regs, msgs>>

\* The parser reads memory beyond the slack.
Fault == pc' = "fault" /\ UNCHANGED <<regs, msgs, err>>

\* Fail or fault if the varint at ptr cannot be parsed, otherwise do Then.
WithVarint(Then) ==
  IF VarintTruncated THEN Fail("Truncated")
  ELSE IF VarintFaults THEN Fault
  ELSE IF VarintOverflows THEN Fail("Overflow")
  ELSE Then

\* LengthPrefix: a varint that fits in what is left.
WithLengthPrefix(Then) ==
  IF Left = 0 THEN Fail("Truncated")
  ELSE WithVarint(IF Exceeds(Varint, AfterVarint) THEN Fail("Truncated") ELSE Then)

\* AtLeast(n), whose check is unsigned, and the load that follows.
WithFixed(n, Then) ==
  IF 0 <= Left /\ Left < n THEN Fail("Truncated")
  ELSE IF p1.ptr + n > Limit THEN Fault
  ELSE Then

\* What loop() does after every thunk: predict the next field, clear scratch.
ThunkReturns(ptr, end, endGroup, msg, ty, field) ==
  /\ Goto("checkDone")
  /\ p1' = [ptr |-> ptr, end |-> end, endGroup |-> endGroup]
  /\ p2' = [msg |-> msg, ty |-> ty, field |-> NextOkOf(ty, field), scratch |-> 0]

----------------------------------------------------------------------------
(* The stack *)

Frame == [end |-> p1.end, endGroup |-> p1.endGroup,
          msg |-> p2.msg, ty |-> p2.ty, field |-> p2.field]

\* Mutant of StackFull: one frame too many.
StackOverfull == Len(stack) > MaxDepth

\* push fails when the stack is full.
StackFull == Len(stack) = MaxDepth
PushFails == pc' = "failed" /\ err' = "RecursionDepth" /\ UNCHANGED regs

\* Mutant of NeedsFrame: an open group does not count.
NeedsFrameUnlessTail(o, n) == o + n # p1.end

\* PushMessage of m with n bytes at offset o: nothing to do if empty, no frame
\* if the current one would be empty once the new one is popped.
NeedsFrame(o, n) == p1.endGroup # NotAGroup \/ o + n # p1.end

PushMessage(o, n, m, ty) ==
  IF n = 0
  THEN /\ ThunkReturns(o, p1.end, p1.endGroup, p2.msg, p2.ty, p2.field)
       /\ UNCHANGED stack
  ELSE /\ ThunkReturns(o, o + n, NotAGroup, m, ty, Entrypoint)
       /\ stack' = IF NeedsFrame(o, n) THEN Append(stack, Frame) ELSE stack

\* PushGroup always takes a frame.  The end tag is the start tag in scratch
\* plus one.
PushGroup(m, ty) ==
  /\ ThunkReturns(p1.ptr, p1.end, p2.scratch + 1, m, ty, Entrypoint)
  /\ stack' = Append(stack, Frame)

Top == stack[Len(stack)]

\* Mutant of Pop: the type is not restored.
PopKeepsType ==
  /\ Goto(IF Len(stack) = 1 THEN "done" ELSE "checkDone")
  /\ p1' = [p1 EXCEPT !.end = Top.end, !.endGroup = Top.endGroup]
  /\ p2' = [msg |-> Top.msg, ty |-> p2.ty, field |-> Top.field, scratch |-> 0]
  /\ stack' = SubSeq(stack, 1, Len(stack) - 1)
  /\ UNCHANGED <<tries, skips, start, msgs>>

\* Mutant of Pop: the end tag is not restored.
PopKeepsGroup ==
  /\ Goto(IF Len(stack) = 1 THEN "done" ELSE "checkDone")
  /\ p1' = [p1 EXCEPT !.end = Top.end]
  /\ p2' = [msg |-> Top.msg, ty |-> Top.ty, field |-> Top.field, scratch |-> 0]
  /\ stack' = SubSeq(stack, 1, Len(stack) - 1)
  /\ UNCHANGED <<tries, skips, start, msgs>>

\* pop restores the frame on top; the parse is over when it was the last.
\* Scratch is dead here.
Pop ==
  /\ Goto(IF Len(stack) = 1 THEN "done" ELSE "checkDone")
  /\ p1' = [p1 EXCEPT !.end = Top.end, !.endGroup = Top.endGroup]
  /\ p2' = [msg |-> Top.msg, ty |-> Top.ty, field |-> Top.field, scratch |-> 0]
  /\ stack' = SubSeq(stack, 1, Len(stack) - 1)
  /\ UNCHANGED <<tries, skips, start, msgs>>

----------------------------------------------------------------------------
(* Messages *)

ZeroValue(kind) ==
  CASE kind = "varint"                -> 0
    [] kind = "fixed32"               -> <<0, 0, 0, 0>>
    [] kind = "bytes"                 -> [start |-> 0, len |-> 0]
    [] kind \in {"message", "group"}   -> NilMessage
    [] kind \in {"messages", "groups"} -> <<>>

NewMessage(ty) ==
  [ty      |-> ty,
   vals    |-> [i \in 1 .. Len(Fields[ty]) |-> ZeroValue(Fields[ty][i].kind)],
   unknown |-> <<>>]

Field == Fields[p2.ty][p2.field]
Value == msgs[p2.msg].vals[p2.field]
Store(v) == msgs' = [msgs EXCEPT ![p2.msg].vals[p2.field] = v]

\* GetMutableField and AllocMessage for a message-typed field: the message it
\* already holds, or a new one; a repeated field always gets a new one.
SubMessage ==
  IF Field.kind \in {"message", "group"} /\ Value # NilMessage
  THEN Value ELSE Len(msgs) + 1

StoreSubMessage ==
  IF SubMessage <= Len(msgs) THEN UNCHANGED msgs
  ELSE msgs' = [Append(msgs, NewMessage(Field.sub)) EXCEPT
                  ![p2.msg].vals[p2.field] =
                    IF Field.kind \in {"message", "group"} THEN SubMessage
                    ELSE Append(@, SubMessage)]

----------------------------------------------------------------------------
(* loop() *)

Init ==
  /\ input \in Inputs
  /\ slack \in Slacks
  /\ pc = "run"
  /\ p1 = [ptr |-> 0, end |-> 0, endGroup |-> 0]
  /\ p2 = [msg |-> NilMessage, ty |-> Root, field |-> NilField, scratch |-> 0]
  /\ stack = <<>> /\ tries = 0 /\ skips = <<>> /\ start = 0
  /\ msgs = <<NewMessage(Root)>>
  /\ err = ErrorOk

\* Run: an empty input parses to an empty message; otherwise push the root and
\* enter the loop.
Run ==
  /\ pc = "run"
  /\ IF input = <<>> THEN Goto("done") /\ UNCHANGED <<regs, msgs>>
     ELSE IF StackFull THEN PushFails /\ UNCHANGED msgs
     ELSE /\ PushMessage(0, Len(input), 1, Root)
          /\ UNCHANGED <<tries, skips, start, msgs>>

\* Mutant of CheckDone: being past the end counts as being at it.
CheckDoneOrPast ==
  /\ pc = "checkDone"
  /\ IF Left > 0 THEN Goto("number") /\ UNCHANGED <<regs, msgs>>
     ELSE IF p1.endGroup # NotAGroup THEN Fail("EndGroup")
     ELSE Pop

CheckDone ==
  /\ pc = "checkDone"
  /\ IF Left # 0 THEN Goto("number") /\ UNCHANGED <<regs, msgs>>
     ELSE IF p1.endGroup # NotAGroup THEN Fail("EndGroup")
     ELSE Pop

\* The length of the tag at ptr.  Eight bytes are loaded at once; a longer tag
\* is checked by checkLargeVarint, which accepts one more byte of padding.
TagLen == LastByte(p1.ptr) - p1.ptr + 1

\* A one-byte tag goes through the TagLUT.
NumberSmall ==
  /\ pc = "number" /\ p1.ptr < Limit /\ Byte(p1.ptr) < 128
  /\ LET tag == Byte(p1.ptr)
         hit == ByTag(p2.ty, tag)
     IN  /\ p1' = [p1 EXCEPT !.ptr = @ + 1]
         /\ p2' = [p2 EXCEPT !.scratch = tag,
                             !.field = IF hit # NilField THEN hit ELSE @]
         /\ Goto(IF hit # NilField THEN "parseField" ELSE "field")
         /\ tries' = MaxMisses
         /\ UNCHANGED <<stack, skips, start, msgs>>

NumberLarge ==
  /\ pc = "number" /\ p1.ptr < Limit /\ Byte(p1.ptr) >= 128
  /\ IF p1.ptr + 8 > Limit THEN Fault
     ELSE IF p1.ptr + (IF TagLen > 8 THEN 8 ELSE TagLen) > p1.end THEN Fail("Truncated")
     ELSE IF TagLen > 8 /\ Byte(p1.ptr + 7) # 128 THEN Fail("Overflow")
     ELSE IF VarintFaults THEN Fault
     ELSE IF TagLen > 8 /\ Byte(p1.ptr + 8) # 0 THEN Fail("Overflow")
     ELSE /\ p1' = [p1 EXCEPT !.ptr = AfterVarint]
          /\ p2' = [p2 EXCEPT !.scratch = Varint]
          /\ tries' = MaxMisses
          /\ Goto("field")
          /\ UNCHANGED <<stack, skips, start, msgs>>

NumberFaults == pc = "number" /\ p1.ptr >= Limit /\ Fault

\* Mutant of TryField: a miss is not counted.
TryFieldForever ==
  /\ pc = "field"
  /\ IF FieldTag(p2.ty, p2.field) = p2.scratch
     THEN Goto("parseField") /\ UNCHANGED p2
     ELSE /\ p2' = [p2 EXCEPT !.field = NextErrOf(p2.ty, @)]
          /\ Goto("field")
  /\ UNCHANGED <<p1, stack, tries, skips, start, msgs>>

\* One try of the search along NextErr.  tries counts down and is compared
\* with zero, so it passes zero if it starts there; from then on it counts
\* down for 2^64 steps, which the model represents by keeping it at -1.
TryField ==
  /\ pc = "field"
  /\ IF FieldTag(p2.ty, p2.field) = p2.scratch
     THEN Goto("parseField") /\ UNCHANGED <<p2, tries>>
     ELSE /\ p2' = [p2 EXCEPT !.field = NextErrOf(p2.ty, @)]
          /\ tries' = IF tries > 0 THEN tries - 1 ELSE -1
          /\ Goto(IF tries = 1 THEN "missedField" ELSE "field")
  /\ UNCHANGED <<p1, stack, skips, start, msgs>>

\* missedField clears scratch before it looks the tag up in the table;
\* handleUnknown puts it back.
MissedField ==
  /\ pc = "missedField"
  /\ LET tag == p2.scratch
         hit == ByTag(p2.ty, tag)
     IN  IF tag = p1.endGroup THEN Pop
         ELSE IF tag >= 2^TagBits THEN Fail("Overflow")
         ELSE /\ p2' = [p2 EXCEPT !.field = hit,
                                  !.scratch = IF hit # NilField THEN 0 ELSE tag]
              /\ Goto(IF hit # NilField THEN "parseField" ELSE "handleUnknown")
              /\ UNCHANGED <<p1, stack, tries, skips, start, msgs>>

----------------------------------------------------------------------------
(* parseField: the thunks *)

AtThunk(kinds) == pc = "parseField" /\ Field.kind \in kinds

\* A scalar is stored and ptr moves past it.
StoreAndAdvance(v, o) ==
  /\ Store(v)
  /\ ThunkReturns(o, p1.end, p1.endGroup, p2.msg, p2.ty, p2.field)
  /\ UNCHANGED <<stack, tries, skips, start>>

\* parseVarint
ParseVarint == AtThunk({"varint"}) /\ WithVarint(StoreAndAdvance(Varint, AfterVarint))

\* parseFixed, whose own check is signed
ParseFixed ==
  /\ AtThunk({"fixed32"})
  /\ IF Left < 4 THEN Fail("Truncated")
     ELSE IF p1.ptr + 4 > Limit THEN Fault
     ELSE StoreAndAdvance([i \in 1 .. 4 |-> Byte(p1.ptr + i - 1)], p1.ptr + 4)

\* parseBytes, and parseString without its UTF-8 check
ParseBytes ==
  /\ AtThunk({"bytes"})
  /\ WithLengthPrefix(
       StoreAndAdvance([start |-> AfterVarint, len |-> Varint], AfterVarint + Varint))

\* parseMessage and parseRepeatedMessage
ParseMessage ==
  /\ AtThunk({"message", "messages"})
  /\ WithLengthPrefix(
       /\ StoreSubMessage
       /\ IF Varint # 0 /\ NeedsFrame(AfterVarint, Varint) /\ StackFull
          THEN PushFails
          ELSE /\ PushMessage(AfterVarint, Varint, SubMessage, Field.sub)
               /\ UNCHANGED <<tries, skips, start>>)

\* parseGroup and parseRepeatedGroup
ParseGroup ==
  /\ AtThunk({"group", "groups"})
  /\ StoreSubMessage
  /\ IF StackFull THEN PushFails
     ELSE PushGroup(SubMessage, Field.sub) /\ UNCHANGED <<tries, skips, start>>

----------------------------------------------------------------------------
(* Unknown fields *)

\* protowire.SizeVarint, for values up to Huge
SizeVarint(n) ==
  IF n < 128 THEN 1 ELSE IF n < 16384 THEN 2 ELSE IF n < 2097152 THEN 3
  ELSE IF n < Huge THEN 4 ELSE 5

\* Mutant of RecordStart: the padding of an over-long tag is not trimmed.
RecordStartMinimal(tag) == p1.ptr - SizeVarint(tag)

\* Where the record whose tag ends before ptr starts: back over the padding of
\* an over-long tag, then over the tag itself.  For a zero tag the first part
\* runs back through earlier records, or out of the buffer.
IsPadding(q) == Byte(q) % 128 = 0
TagTop ==
  IF \E q \in 0 .. p1.ptr - 1 : ~IsPadding(q)
  THEN CHOOSE q \in 0 .. p1.ptr - 1 :
         ~IsPadding(q) /\ \A r \in q + 1 .. p1.ptr - 1 : IsPadding(r)
  ELSE -1

\* Mutant of RecordStart: one byte too far back.
RecordStartEarly(tag) == TagTop - SizeVarint(tag)

RecordStart(tag) == TagTop + 1 - SizeVarint(tag)

\* handleUnknown up to the call of skipRecord.
HandleUnknown ==
  /\ pc = "handleUnknown"
  /\ LET tag == p2.scratch
     IN  IF tag >= 2^TagBits THEN Fail("Overflow")
         ELSE /\ start' = RecordStart(tag)
              /\ skips' = <<>>
              /\ Goto("skipRecord")
              /\ UNCHANGED <<p1, p2, stack, tries, msgs>>

\* protowire.Number(tag >> 3), a signed integer of TagBits bits kept unsigned.
\* The end tag of a group with a negative number is longer than any the model
\* reads.
SkipNumber == (p2.scratch \div 8) % 2^TagBits
SkipEndTag == IF SkipNumber < 2^(TagBits - 1) THEN SkipNumber * 8 + EndGroupType ELSE NoTag

\* A record inside an unknown group is followed by another tag.
Skipped(o) ==
  /\ p1' = [p1 EXCEPT !.ptr = o]
  /\ Goto(IF skips = <<>> THEN "keepUnknown" ELSE "skipTag")
  /\ UNCHANGED <<p2, stack, tries, skips, start, msgs>>

AtSkip(type) == pc = "skipRecord" /\ SkipNumber # 0 /\ p2.scratch % 8 = type

SkipZero == pc = "skipRecord" /\ SkipNumber = 0 /\ Fail("FieldNumber")
SkipVarint == AtSkip(VarintType) /\ WithVarint(Skipped(AfterVarint))
SkipFixed32 == AtSkip(Fixed32Type) /\ WithFixed(4, Skipped(p1.ptr + 4))
SkipFixed64 == AtSkip(Fixed64Type) /\ WithFixed(8, Skipped(p1.ptr + 8))
SkipBytes == AtSkip(BytesType) /\ WithLengthPrefix(Skipped(AfterVarint + Varint))
SkipEndGroup == AtSkip(EndGroupType) /\ Fail("EndGroup")
SkipReserved == (AtSkip(6) \/ AtSkip(7)) /\ Fail("Reserved")

\* Mutant of SkipStartGroup: the depth limit is off by one.
SkipStartGroupShallow ==
  /\ AtSkip(StartGroupType)
  /\ IF MaxDepth - Len(skips) <= 0 THEN Fail("RecursionDepth")
     ELSE /\ skips' = Append(skips, SkipEndTag)
          /\ Goto("skipTag")
          /\ UNCHANGED <<p1, p2, stack, tries, start, msgs>>

SkipStartGroup ==
  /\ AtSkip(StartGroupType)
  /\ IF MaxDepth - Len(skips) < 0 THEN Fail("RecursionDepth")
     ELSE /\ skips' = Append(skips, SkipEndTag)
          /\ Goto("skipTag")
          /\ UNCHANGED <<p1, p2, stack, tries, start, msgs>>

\* The next tag inside the innermost unknown group.
SkipTag ==
  /\ pc = "skipTag"
  /\ WithVarint(
       /\ p1' = [p1 EXCEPT !.ptr = AfterVarint]
       /\ IF Varint = skips[Len(skips)]
          THEN /\ skips' = SubSeq(skips, 1, Len(skips) - 1)
               /\ Goto(IF Len(skips) = 1 THEN "keepUnknown" ELSE "skipTag")
               /\ UNCHANGED p2
          ELSE /\ p2' = [p2 EXCEPT !.scratch = Varint]
               /\ Goto("skipRecord")
               /\ UNCHANGED skips
       /\ UNCHANGED <<stack, tries, start, msgs>>)

\* Mutant of AddUnknown: ranges are never joined.
AddUnknownApart(ranges, from, n) == Append(ranges, [start |-> from, len |-> n])

\* The rest of handleUnknown: record the bytes, joined to the last range of
\* the message if they follow it directly.
AddUnknown(ranges, from, n) ==
  LET k == Len(ranges)
  IN  IF k > 0 /\ ranges[k].start + ranges[k].len = from
      THEN [ranges EXCEPT ![k].len = @ + n]
      ELSE Append(ranges, [start |-> from, len |-> n])

KeepUnknown ==
  /\ pc = "keepUnknown"
  /\ msgs' = IF DiscardUnknown THEN msgs
             ELSE [msgs EXCEPT ![p2.msg].unknown = AddUnknown(@, start, p1.ptr - start)]
  /\ Goto("nextUnknown")
  /\ UNCHANGED regs

\* The loop of missedField: skip until there is a tag the main loop can take,
\* and rewind to it.
RewindTo(field) ==
  /\ p2' = [p2 EXCEPT !.field = field, !.scratch = 0]
  /\ Goto("number")
  /\ UNCHANGED <<p1, stack, tries, skips, start, msgs>>

NextUnknown ==
  /\ pc = "nextUnknown"
  /\ IF Left = 0 THEN Pop
     ELSE WithVarint(
            IF Varint > (2^(TagBits - 1) - 1) * 8 THEN Fail("Overflow")
            ELSE IF Varint % 8 = EndGroupType
            THEN RewindTo(NextOkOf(p2.ty, Entrypoint))
            ELSE IF ByTag(p2.ty, Varint) # NilField
            THEN RewindTo(ByTag(p2.ty, Varint))
            ELSE /\ p1' = [p1 EXCEPT !.ptr = AfterVarint]
                 /\ p2' = [p2 EXCEPT !.field = NilField, !.scratch = Varint]
                 /\ Goto("handleUnknown")
                 /\ UNCHANGED <<stack, tries, skips, start, msgs>>)

----------------------------------------------------------------------------

Next ==
  /\ \/ Run \/ CheckDone \/ NumberSmall \/ NumberLarge \/ NumberFaults
     \/ TryField \/ MissedField
     \/ ParseVarint \/ ParseFixed \/ ParseBytes \/ ParseMessage \/ ParseGroup
     \/ HandleUnknown \/ SkipZero \/ SkipVarint \/ SkipFixed32 \/ SkipFixed64
     \/ SkipBytes \/ SkipStartGroup \/ SkipEndGroup \/ SkipReserved \/ SkipTag
     \/ KeepUnknown \/ NextUnknown
  /\ UNCHANGED <<input, slack>>

\* loop() runs on the caller's goroutine until it is done.
Spec == Init /\ [][Next]_vars /\ WF_vars(Next)

----------------------------------------------------------------------------
(* Properties *)

Running == pc \notin Final \cup {"run"}

Labels ==
  {"run", "checkDone", "number", "field", "missedField", "parseField",
   "handleUnknown", "skipRecord", "skipTag", "keepUnknown", "nextUnknown"} \cup Final

FrameType == [end : Nat, endGroup : Int, msg : Nat, ty : Types, field : Int]

Values == Nat \cup [1 .. 4 -> 0 .. 255] \cup [start : Nat, len : Nat] \cup Seq(Nat)
MessageType ==
  [ty : Types, vals : Seq(Values), unknown : Seq([start : Int, len : Int])]

\* Types of the registers, the stack, the messages and the error code.
TypeOK ==
  /\ input \in Seq(0 .. 255) /\ slack \in Seq(0 .. 255)
  /\ pc \in Labels
  /\ p1 \in [ptr : Nat, end : Nat, endGroup : Int]
  /\ p2 \in [msg : Nat, ty : Types, field : Int, scratch : Nat]
  /\ stack \in Seq(FrameType)
  /\ tries \in Int /\ skips \in Seq(Int) /\ start \in Int
  /\ msgs \in Seq(MessageType)
  /\ (pc = "failed") = (err # ErrorOk)

\* push never writes above the stack and pop never reads below it, although
\* the frames PushMessage elides and the frames pop returns do not pair up.
StackInBounds == Len(stack) <= MaxDepth /\ (Running => stack # <<>>)

\* What the frame at the bottom of the stack will be resumed with is the root
\* message: all of the input, and not a group.
BottomEnd == IF Len(stack) = 1 THEN p1.end ELSE stack[2].end
BottomGroup == IF Len(stack) = 1 THEN p1.endGroup ELSE stack[2].endGroup
BottomIsRoot ==
  Running => stack # <<>> /\ BottomEnd = Len(input) /\ BottomGroup = NotAGroup

\* A parse that succeeds has consumed the input exactly.  The parser does read
\* past the end of a message, or of the input, when a tag is the last thing in
\* it, and then goes on parsing; this says that it can never get back from
\* there to success.
AcceptedConsumesAll == pc = "done" => p1.ptr = Len(input)

\* Messages are only written through the tables of their own type: the pair
\* (message, type) in the registers and in every frame but the one that Run
\* pushed agrees, and a message-typed field refers to messages of its type.
Agrees(m, ty) == m \in 1 .. Len(msgs) /\ msgs[m].ty = ty

Refs(v, kind) ==
  CASE kind \in {"message", "group"}   -> {v} \ {NilMessage}
    [] kind \in {"messages", "groups"} -> {v[j] : j \in 1 .. Len(v)}
    [] OTHER                           -> {}

WellTyped ==
  /\ Running => Agrees(p2.msg, p2.ty)
  /\ \A k \in 2 .. Len(stack) : Agrees(stack[k].msg, stack[k].ty)
  /\ \A m \in 1 .. Len(msgs) : \A i \in 1 .. Len(Fields[msgs[m].ty]) :
       LET f == Fields[msgs[m].ty][i]
       IN  \A r \in Refs(msgs[m].vals[i], f.kind) : Agrees(r, f.sub)

\* The shape of a message is that of its type.
WellFormed ==
  \A m \in 1 .. Len(msgs) :
    LET fds == Fields[msgs[m].ty]
    IN  /\ Len(msgs[m].vals) = Len(fds)
        /\ \A i \in 1 .. Len(fds) :
             /\ fds[i].kind \in {"message", "group"} => msgs[m].vals[i] \in Nat
             /\ fds[i].kind \in {"messages", "groups"} => msgs[m].vals[i] \in Seq(Nat)

\* Thunks are called with a field of the type in the registers.
ThunkInTable == pc = "parseField" => p2.field \in 1 .. Len(Fields[p2.ty])

\* What Run is entered with.
FreshStart ==
  pc = "run" => /\ stack = <<>> /\ p1.ptr = 0 /\ p1.endGroup # NotAGroup
                /\ Len(msgs) = 1 /\ msgs[1].ty = Root

\* The inductive invariant behind the theorems of ParserProofs.
ParserInv ==
  /\ TypeOK /\ StackInBounds /\ BottomIsRoot /\ AcceptedConsumesAll
  /\ WellFormed /\ WellTyped /\ ThunkInTable /\ FreshStart

\* The unknown ranges of a message are nonempty, lie behind ptr, are in input
\* order and are never adjacent: handleUnknown joins what it can, also across
\* submessages parsed in between.
UnknownsOrdered ==
  \A m \in 1 .. Len(msgs) :
    LET u == msgs[m].unknown
    IN  /\ \A i \in 1 .. Len(u) : u[i].len > 0 /\ u[i].start + u[i].len <= p1.ptr
        /\ \A i \in 1 .. Len(u) - 1 : u[i].start + u[i].len < u[i + 1].start

\* All unknown ranges recorded so far end at or before o; Ahead also asks that o is
\* behind ptr.
UnknownsEndBy(o) ==
  \A m \in 1 .. Len(msgs) : \A i \in 1 .. Len(msgs[m].unknown) :
    msgs[m].unknown[i].start + msgs[m].unknown[i].len <= o
Ahead(o) == UnknownsEndBy(o) /\ o < p1.ptr

\* Where handleUnknown finds, or has found, the record to begin is not before the
\* ranges recorded so far: the way back over the padding of its tag stops in the
\* tag, unless the tag is zero, and then skipRecord fails before it is recorded.
RecordIsAhead ==
  /\ pc \in {"field", "missedField", "handleUnknown"} =>
       p2.scratch = 0 \/ Ahead(RecordStart(p2.scratch))
  /\ pc = "skipRecord" => (p2.scratch = 0 /\ skips = <<>>) \/ Ahead(start)
  /\ pc \in {"skipTag", "keepUnknown"} => Ahead(start)

\* The unknown ranges are in order, and the record that handleUnknown is in, or may
\* come to, does not begin before any of them: the inductive invariant behind
\* theorem UnknownsInvariance.
UnknownsInv == UnknownsOrdered /\ RecordIsAhead

\* Every parse ends, whatever the input and the slack after it.
Termination == <>(pc \in Final)

=============================================================================
