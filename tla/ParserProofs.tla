---------------------------- MODULE ParserProofs ----------------------------
(***************************************************************************)
(* Proofs about module Parser, for every input, slack, schema, prediction  *)
(* table and option.                                                       *)
(***************************************************************************)
EXTENDS Parser, WellFoundedInduction, SequenceTheorems, TLAPS

----------------------------------------------------------------------------
(* Memory *)

\* Every non-empty set of naturals has a least element.
LEMMA LeastOf ==
  ASSUME NEW S, S \subseteq Nat, S # {}
  PROVE  \E l \in S : \A k \in S : l <= k
<1> DEFINE Below == OpToRel(<, Nat)
<1>1. PICK l \in S : \A k \in S : ~ (<<k, l>> \in Below)
  <2>1. IsWellFoundedOn(Below, Nat)
    BY NatLessThanWellFounded
  <2> HIDE DEF Below
  <2> QED
    BY <2>1, WFMin
<1>2. ASSUME NEW k \in S
      PROVE  l <= k
  <2>1. k \in Nat /\ l \in Nat
    OBVIOUS
  <2>2. k < l => <<k, l>> \in Below
    <3> SUFFICES ASSUME k < l PROVE <<k, l>> \in Below
      OBVIOUS
    <3>1. <<k, l>> \in Nat \X Nat /\ <<k, l>>[1] < <<k, l>>[2]
      BY <2>1
    <3> QED
      BY <3>1, Zenon DEF OpToRel
  <2> HIDE DEF Below
  <2> QED
    BY <1>1, <2>1, <2>2
<1> QED
  BY <1>2

\* What the memory lemmas need of the state.
MemoryTyped ==
  input \in Seq(0 .. 255) /\ slack \in Seq(0 .. 255) /\ p1 \in [ptr : Nat, end : Nat, endGroup : Int]

\* A readable byte is a byte.
LEMMA ByteType ==
  ASSUME MemoryTyped, NEW o \in Nat, o < Limit
  PROVE  Byte(o) \in 0 .. 255
<1>0. /\ \A i \in 1 .. Len(input) : input[i] \in 0 .. 255
      /\ \A i \in 1 .. Len(slack) : slack[i] \in 0 .. 255
      /\ Len(input) \in Nat /\ Len(slack) \in Nat
  <2> DEFINE B == 0 .. 255
  <2>1. input \in Seq(B) /\ slack \in Seq(B)
    BY DEF MemoryTyped
  <2> HIDE DEF B
  <2>2. /\ \A i \in 1 .. Len(input) : input[i] \in B
        /\ \A i \in 1 .. Len(slack) : slack[i] \in B
        /\ Len(input) \in Nat /\ Len(slack) \in Nat
    BY <2>1
  <2> QED
    BY <2>2 DEF B
<1>1. CASE o < Len(input)
  <2>1. o + 1 \in 1 .. Len(input)
    BY <1>1 DEF MemoryTyped
  <2>2. Byte(o) = input[o + 1]
    BY <1>1 DEF Byte
  <2> QED
    BY <1>0, <2>1, <2>2
<1>2. CASE o >= Len(input)
  <2>1. o - Len(input) + 1 \in 1 .. Len(slack)
    BY <1>2 DEF MemoryTyped, Limit
  <2>2. Byte(o) = slack[o - Len(input) + 1]
    BY <1>0, <1>2 DEF Byte
  <2> QED
    BY <1>0, <2>1, <2>2
<1> QED
  BY <1>1, <1>2 DEF MemoryTyped

\* The last byte of a varint is found, at or after its first, or memory ends.
LEMMA LastByteType ==
  ASSUME MemoryTyped, NEW o \in Nat
  PROVE  LastByte(o) \in Nat /\ (LastByte(o) < Limit => o <= LastByte(o))
<1>1. Limit \in Nat
  BY DEF MemoryTyped, Limit
<1>2. CASE \E q \in o .. Limit - 1 : EndsVarint(o, q)
  <2> DEFINE S == {q \in o .. Limit - 1 : EndsVarint(o, q)}
  <2>1. S \subseteq Nat /\ S # {}
    BY <1>1, <1>2
  <2>2. PICK q \in S : \A r \in S : q <= r
    <3> HIDE DEF S
    <3> QED
      BY <2>1, LeastOf
  <2>3. \A r \in o .. q - 1 : ~EndsVarint(o, r)
    <3> SUFFICES ASSUME NEW r \in o .. q - 1, EndsVarint(o, r) PROVE FALSE
      OBVIOUS
    <3>1. q \in o .. Limit - 1
      OBVIOUS
    <3>2. r \in o .. Limit - 1 /\ r < q
      BY <3>1, <1>1
    <3> QED
      BY <2>2, <3>2, <3>1
  <2>4. LastByte(o) \in o .. Limit - 1
    BY <1>2, <2>2, <2>3, Zenon DEF LastByte
  <2> QED
    BY <2>4, <1>1
<1>3. CASE ~ \E q \in o .. Limit - 1 : EndsVarint(o, q)
  BY <1>1, <1>3 DEF LastByte
<1> QED
  BY <1>2, <1>3

\* A varint that does not run out of memory has a value and an end.
LEMMA VarintIsNat ==
  ASSUME MemoryTyped, ~VarintFaults
  PROVE  Varint \in Nat /\ AfterVarint \in Nat
<1> DEFINE o == p1.ptr
           q == LastByte(o)
<1>1. o \in Nat
  BY DEF MemoryTyped
<1>2. q \in Nat /\ q < Limit
  <2>1. Limit \in Nat
    BY DEF MemoryTyped, Limit
  <2> QED
    BY <1>1, <2>1, LastByteType DEF VarintFaults
<1>3. \A i \in Nat : Digit(i, q) \in Nat
  <2> SUFFICES ASSUME NEW i \in Nat PROVE Digit(i, q) \in Nat
    OBVIOUS
  <2>1. CASE i <= q
    <3>1. Limit \in Nat
      BY DEF MemoryTyped, Limit
    <3>2. Byte(i) \in 0 .. 255
      BY <1>2, <2>1, <3>1, ByteType
    <3> QED
      BY <2>1, <3>2 DEF Digit
  <2>2. CASE ~(i <= q)
    BY <2>2 DEF Digit
  <2> QED
    BY <2>1, <2>2
<1>4. Digit(o, q) \in Nat /\ Digit(o + 1, q) \in Nat /\ Digit(o + 2, q) \in Nat
        /\ Digit(o + 3, q) \in Nat
  BY <1>1, <1>3
<1>5. VarintValue(o, q) \in Nat
  <2> HIDE DEF o, q
  <2> QED
    BY <1>4 DEF VarintValue, Huge
<1> QED
  BY <1>2, <1>5 DEF Varint, AfterVarint

\* The rewind of handleUnknown yields an offset.
LEMMA RecordStartType ==
  ASSUME MemoryTyped, NEW tag \in Nat
  PROVE  RecordStart(tag) \in Int
<1>1. p1.ptr \in Nat
  BY DEF MemoryTyped
<1>2. TagTop \in Int
  <2>1. CASE \E q \in 0 .. p1.ptr - 1 : ~IsPadding(q)
    <3> DEFINE S == {k \in 0 .. p1.ptr - 1 : ~IsPadding(p1.ptr - 1 - k)}
    <3>1. S \subseteq Nat
      OBVIOUS
    <3>2. S # {}
      <4>1. PICK q \in 0 .. p1.ptr - 1 : ~IsPadding(q)
        BY <2>1
      <4>2. p1.ptr - 1 - q \in 0 .. p1.ptr - 1 /\ p1.ptr - 1 - (p1.ptr - 1 - q) = q
        BY <1>1
      <4> QED
        BY <4>1, <4>2
    <3>3. PICK k \in S : \A j \in S : k <= j
      <4> HIDE DEF S
      <4> QED
        BY <3>1, <3>2, LeastOf
    <3>4. p1.ptr - 1 - k \in 0 .. p1.ptr - 1 /\ ~IsPadding(p1.ptr - 1 - k)
      BY <1>1
    <3>5. ASSUME NEW r \in (p1.ptr - 1 - k) + 1 .. p1.ptr - 1
          PROVE  IsPadding(r)
      <4>1. p1.ptr - 1 - r \in 0 .. p1.ptr - 1 /\ p1.ptr - 1 - r < k
              /\ p1.ptr - 1 - (p1.ptr - 1 - r) = r
        BY <1>1, <3>4
      <4>2. ~IsPadding(r) => p1.ptr - 1 - r \in S
        BY <4>1
      <4> QED
        BY <1>1, <3>3, <4>1, <4>2
    <3>6. TagTop \in 0 .. p1.ptr - 1
      <4> HIDE DEF S
      <4> QED
        BY <2>1, <3>4, <3>5, Zenon DEF TagTop
    <3> QED
      BY <3>6, <1>1
  <2>2. CASE ~ \E q \in 0 .. p1.ptr - 1 : ~IsPadding(q)
    BY <2>2 DEF TagTop
  <2> QED
    BY <2>1, <2>2
<1>3. SizeVarint(tag) \in Int
  BY DEF SizeVarint
<1> QED
  BY <1>2, <1>3 DEF RecordStart

----------------------------------------------------------------------------
(* Tables *)

\* What the assumption on the schema says of one type.
LEMMA Schema ==
  ASSUME NEW ty \in Types
  PROVE  /\ Fields[ty] \in Seq([tag : Nat, kind : Kinds, sub : Types])
         /\ Len(Fields[ty]) \in Nat
         /\ \A i \in 1 .. Len(Fields[ty]) :
              /\ Fields[ty][i].tag \in Nat /\ Fields[ty][i].kind \in Kinds
              /\ Fields[ty][i].sub \in Types
              /\ NextOk[ty][i] \in 1 .. Len(Fields[ty])
<1> DEFINE F == [tag : Nat, kind : Kinds, sub : Types]
<1>1. Fields[ty] \in Seq(F) /\ \A i \in 1 .. Len(Fields[ty]) : NextOk[ty][i] \in 1 .. Len(Fields[ty])
  BY ParserAssumption
<1>2. ASSUME NEW i \in 1 .. Len(Fields[ty])
      PROVE  Fields[ty][i] \in F
  <2> HIDE DEF F
  <2> QED
    BY <1>1
<1> QED
  BY <1>1, <1>2

\* The tables yield a field of the type, or nil.
LEMMA ByTagType ==
  ASSUME NEW ty \in Types, NEW tag
  PROVE  ByTag(ty, tag) \in Int /\ (ByTag(ty, tag) # NilField => ByTag(ty, tag) \in 1 .. Len(Fields[ty]))
<1>1. CASE \E i \in 1 .. Len(Fields[ty]) : FieldTag(ty, i) = tag % 2^TagBits
  <2>1. ByTag(ty, tag) \in 1 .. Len(Fields[ty])
    BY <1>1, Zenon DEF ByTag
  <2> QED
    BY <2>1, Schema
<1>2. CASE ~ \E i \in 1 .. Len(Fields[ty]) : FieldTag(ty, i) = tag % 2^TagBits
  BY <1>2 DEF ByTag, NilField
<1> QED
  BY <1>1, <1>2

\* Predictions are field indices, and only a field of the type has a tag.
LEMMA TableTypes ==
  ASSUME NEW ty \in Types, NEW i \in Int
  PROVE  /\ NextOkOf(ty, i) \in Int /\ NextErrOf(ty, i) \in Int
         /\ FieldTag(ty, i) \in Nat => i \in 1 .. Len(Fields[ty])
<1>1. NextOkOf(ty, i) \in Int
  BY Schema DEF NextOkOf
<1>2. NextErrOf(ty, i) \in Int
  BY DEF NextErrOf
<1>3. FieldTag(ty, i) \in Nat => i \in 1 .. Len(Fields[ty])
  BY DEF FieldTag, NoTag
<1> QED
  BY <1>1, <1>2, <1>3

----------------------------------------------------------------------------
(* Steps that leave the stack and the messages alone *)

P1Type == [ptr : Nat, end : Nat, endGroup : Int]
P2Type == [msg : Nat, ty : Types, field : Int, scratch : Nat]
Codes == {"Truncated", "Overflow", "EndGroup", "FieldNumber", "Reserved", "RecursionDepth"}

Quiet ==
  /\ UNCHANGED <<input, slack, stack, msgs>>
  /\ p1' \in P1Type /\ p1'.end = p1.end /\ p1'.endGroup = p1.endGroup
  /\ p2' \in P2Type /\ p2'.msg = p2.msg /\ p2'.ty = p2.ty
  /\ tries' \in Int /\ skips' \in Seq(Int) /\ start' \in Int
  /\ pc' \in Labels \ {"run", "done"}
  /\ (pc' = "failed") = (err' # ErrorOk)
  /\ pc' = "parseField" => p2'.field \in 1 .. Len(Fields[p2.ty])

\* A quiet step of the loop preserves the invariant.
LEMMA QuietStep ==
  ASSUME ParserInv, Running, Quiet
  PROVE  ParserInv'
<1>1. TypeOK'
  BY DEF ParserInv, TypeOK, Quiet, P1Type, P2Type
<1>2. StackInBounds'
  BY DEF ParserInv, StackInBounds, Quiet
<1>3. BottomIsRoot'
  BY DEF ParserInv, BottomIsRoot, BottomEnd, BottomGroup, Quiet
<1>4. AcceptedConsumesAll'
  BY DEF AcceptedConsumesAll, Quiet
<1>5. WellFormed'
  BY DEF ParserInv, WellFormed, Quiet
<1>6. WellTyped'
  BY DEF ParserInv, WellTyped, Agrees, Quiet
<1>7. ThunkInTable'
  BY DEF ThunkInTable, Quiet
<1>8. FreshStart'
  BY DEF FreshStart, Quiet
<1> QED
  BY <1>1, <1>2, <1>3, <1>4, <1>5, <1>6, <1>7, <1>8 DEF ParserInv

\* Failing and faulting are quiet.
LEMMA FailuresAreQuiet ==
  ASSUME ParserInv, Running, UNCHANGED <<input, slack>>,
         Fault \/ \E code \in Codes : Fail(code)
  PROVE  Quiet
<1>1. err = ErrorOk
  BY DEF ParserInv, TypeOK, Running, Final
<1>2. CASE Fault
  BY <1>1, <1>2 DEF ParserInv, TypeOK, Fault, Quiet, P1Type, P2Type, regs, Labels, Final
<1>3. ASSUME NEW code \in Codes, Fail(code)
      PROVE  Quiet
  <2>1. code # ErrorOk
    BY DEF Codes, ErrorOk
  <2> QED
    BY <1>3, <2>1 DEF ParserInv, TypeOK, Fail, Quiet, P1Type, P2Type, regs, Labels, Final
<1> QED
  BY <1>2, <1>3

\* A step to another label of the loop is quiet if it keeps the registers typed.
LoopLabels == Labels \ {"run", "done", "failed"}

KeepsFrame ==
  /\ UNCHANGED <<input, slack, stack, msgs>>
  /\ p1' \in P1Type /\ p1'.end = p1.end /\ p1'.endGroup = p1.endGroup
  /\ p2' \in P2Type /\ p2'.msg = p2.msg /\ p2'.ty = p2.ty
  /\ tries' \in Int /\ skips' \in Seq(Int) /\ start' \in Int

\* Such a step is quiet.
LEMMA GotoQuiet ==
  ASSUME ParserInv, Running, NEW label \in LoopLabels, Goto(label), KeepsFrame,
         label = "parseField" => p2'.field \in 1 .. Len(Fields[p2.ty])
  PROVE  Quiet
<1>1. err = ErrorOk
  BY DEF ParserInv, TypeOK, Running, Final
<1>2. pc' = label /\ err' = ErrorOk /\ label # "failed"
  BY <1>1 DEF Goto, LoopLabels
<1>3. pc' \in Labels \ {"run", "done"} /\ (pc' = "failed") = (err' # ErrorOk)
  BY <1>2 DEF LoopLabels
<1> QED
  BY <1>2, <1>3 DEF Quiet, KeepsFrame

\* Types of the registers and of the bookkeeping variables.
LEMMA InvTypes ==
  ASSUME ParserInv
  PROVE  /\ p1 \in P1Type /\ p2 \in P2Type /\ tries \in Int /\ skips \in Seq(Int)
         /\ start \in Int /\ MaxMisses \in Int
BY ParserAssumption DEF ParserInv, TypeOK, P1Type, P2Type

\* The invariant types the memory.
LEMMA InvMemory == ASSUME ParserInv PROVE MemoryTyped
BY DEF ParserInv, TypeOK, MemoryTyped

\* A one-byte tag: the LUT yields a field of the type.
LEMMA NumberSmallQuiet ==
  ASSUME ParserInv, NumberSmall, UNCHANGED <<input, slack>>
  PROVE  Running /\ Quiet
<1> DEFINE tag == Byte(p1.ptr)
           hit == ByTag(p2.ty, tag)
           label == IF hit # NilField THEN "parseField" ELSE "field"
<1>1. Running
  BY DEF NumberSmall, Running, Final
<1>2. tag \in Nat
  <2>1. p1.ptr \in Nat /\ p1.ptr < Limit
    BY InvMemory DEF MemoryTyped, NumberSmall
  <2> QED
    BY <2>1, InvMemory, ByteType
<1>3. p2.ty \in Types
  BY InvTypes DEF P2Type
<1>4. hit \in Int /\ (hit # NilField => hit \in 1 .. Len(Fields[p2.ty]))
  BY <1>3, ByTagType
<1>5. /\ p1' = [p1 EXCEPT !.ptr = @ + 1]
      /\ p2' = [p2 EXCEPT !.scratch = tag, !.field = IF hit # NilField THEN hit ELSE @]
      /\ Goto(label)
      /\ tries' = MaxMisses
      /\ UNCHANGED <<stack, skips, start, msgs>>
  BY DEF NumberSmall
<1> HIDE DEF tag, hit
<1>7. p1' \in P1Type /\ p1'.end = p1.end /\ p1'.endGroup = p1.endGroup
  BY <1>5, InvTypes DEF P1Type
<1>8. /\ p2' \in P2Type /\ p2'.msg = p2.msg /\ p2'.ty = p2.ty
      /\ hit # NilField => p2'.field = hit
  BY <1>2, <1>4, <1>5, InvTypes DEF P2Type
<1>9. KeepsFrame
  BY <1>5, <1>7, <1>8, InvTypes DEF KeepsFrame
<1>10. label \in LoopLabels /\ (label = "parseField" => p2'.field \in 1 .. Len(Fields[p2.ty]))
  BY <1>4, <1>8 DEF LoopLabels, Labels
<1> HIDE DEF label
<1> QED
  BY <1>1, <1>5, <1>9, <1>10, GotoQuiet

\* Moving ptr leaves the rest of P1 alone.
LEMMA MovePtr ==
  ASSUME ParserInv, NEW o \in Nat, p1' = [p1 EXCEPT !.ptr = o]
  PROVE  p1' \in P1Type /\ p1'.end = p1.end /\ p1'.endGroup = p1.endGroup
BY InvTypes DEF P1Type

\* Changing field and scratch leaves the rest of P2 alone.
LEMMA MoveField ==
  ASSUME ParserInv, NEW f \in Int, NEW v \in Nat,
         p2' = [p2 EXCEPT !.field = f, !.scratch = v]
  PROVE  p2' \in P2Type /\ p2'.msg = p2.msg /\ p2'.ty = p2.ty /\ p2'.field = f
BY InvTypes DEF P2Type

\* A longer tag is read within the input, or the step fails.
LEMMA NumberLargeQuiet ==
  ASSUME ParserInv, NumberLarge, UNCHANGED <<input, slack>>
  PROVE  Running /\ Quiet
<1>1. Running
  BY DEF NumberLarge, Running, Final
<1> DEFINE Over == p1.ptr + (IF TagLen > 8 THEN 8 ELSE TagLen) > p1.end
           Far == p1.ptr + 8 > Limit
           Large == TagLen > 8 /\ Byte(p1.ptr + 7) # 128
           Larger == TagLen > 8 /\ Byte(p1.ptr + 8) # 0
<1>2. CASE Far \/ Over \/ Large \/ VarintFaults \/ Larger
  <2>1. Fault \/ Fail("Truncated") \/ Fail("Overflow")
    BY <1>2 DEF NumberLarge
  <2> QED
    BY <1>1, <2>1, FailuresAreQuiet DEF Codes
<1>3. CASE ~Far /\ ~Over /\ ~Large /\ ~VarintFaults /\ ~Larger
  <2>1. /\ p1' = [p1 EXCEPT !.ptr = AfterVarint]
        /\ p2' = [p2 EXCEPT !.scratch = Varint]
        /\ tries' = MaxMisses
        /\ Goto("field")
        /\ UNCHANGED <<stack, skips, start, msgs>>
    BY <1>3 DEF NumberLarge
  <2>3. Varint \in Nat /\ AfterVarint \in Nat
    BY <1>3, InvMemory, VarintIsNat
  <2>4. p1' \in P1Type /\ p1'.end = p1.end /\ p1'.endGroup = p1.endGroup
    BY <2>1, <2>3, MovePtr
  <2>5. p2' \in P2Type /\ p2'.msg = p2.msg /\ p2'.ty = p2.ty
    BY <2>1, <2>3, InvTypes DEF P2Type
  <2>6. KeepsFrame
    BY <2>1, <2>4, <2>5, InvTypes DEF KeepsFrame
  <2> QED
    BY <1>1, <2>1, <2>6, GotoQuiet DEF LoopLabels, Labels
<1> QED
  BY <1>1, <1>2, <1>3

\* One try of the search: a match is a field of the type.
LEMMA TryFieldQuiet ==
  ASSUME ParserInv, TryField, UNCHANGED <<input, slack>>
  PROVE  Running /\ Quiet
<1>1. Running
  BY DEF TryField, Running, Final
<1>2. p2.ty \in Types /\ p2.field \in Int /\ p2.scratch \in Nat
  BY InvTypes DEF P2Type
<1>3. UNCHANGED <<p1, stack, skips, start, msgs>>
  BY DEF TryField
<1>4. CASE FieldTag(p2.ty, p2.field) = p2.scratch
  <2>1. Goto("parseField") /\ UNCHANGED <<p2, tries>>
    BY <1>4 DEF TryField
  <2>2. p2.field \in 1 .. Len(Fields[p2.ty])
    BY <1>2, <1>4, TableTypes
  <2>3. KeepsFrame
    BY <1>3, <2>1, InvTypes DEF KeepsFrame
  <2> QED
    BY <1>1, <2>1, <2>2, <2>3, GotoQuiet DEF LoopLabels, Labels
<1>5. CASE FieldTag(p2.ty, p2.field) # p2.scratch
  <2>1. /\ p2' = [p2 EXCEPT !.field = NextErrOf(p2.ty, @)]
        /\ tries' = IF tries > 0 THEN tries - 1 ELSE -1
        /\ Goto("missedField") \/ Goto("field")
    BY <1>5 DEF TryField
  <2>2. NextErrOf(p2.ty, p2.field) \in Int
    BY <1>2, TableTypes
  <2>3. p2' \in P2Type /\ p2'.msg = p2.msg /\ p2'.ty = p2.ty
    BY <2>1, <2>2, InvTypes DEF P2Type
  <2>4. tries' \in Int
    BY <2>1, InvTypes
  <2>5. KeepsFrame
    BY <1>3, <2>3, <2>4, InvTypes DEF KeepsFrame
  <2>6. CASE Goto("missedField")
    BY <1>1, <2>5, <2>6, GotoQuiet DEF LoopLabels, Labels
  <2>7. CASE Goto("field")
    BY <1>1, <2>5, <2>7, GotoQuiet DEF LoopLabels, Labels
  <2> QED
    BY <1>1, <2>1, <2>6, <2>7
<1> QED
  BY <1>4, <1>5

\* Entering handleUnknown.
LEMMA HandleUnknownQuiet ==
  ASSUME ParserInv, HandleUnknown, UNCHANGED <<input, slack>>
  PROVE  Running /\ Quiet
<1>1. Running
  BY DEF HandleUnknown, Running, Final
<1>2. CASE p2.scratch >= 2^TagBits
  <2>1. Fail("Overflow")
    BY <1>2 DEF HandleUnknown
  <2> QED
    BY <1>1, <2>1, FailuresAreQuiet DEF Codes
<1>3. CASE ~(p2.scratch >= 2^TagBits)
  <2>1. /\ start' = RecordStart(p2.scratch)
        /\ skips' = <<>>
        /\ Goto("skipRecord")
        /\ UNCHANGED <<p1, p2, stack, tries, msgs>>
    BY <1>3 DEF HandleUnknown
  <2>2. p2.scratch \in Nat
    BY InvTypes DEF P2Type
  <2>3. start' \in Int
    BY <2>1, <2>2, InvMemory, RecordStartType
  <2>4. KeepsFrame
    BY <2>1, <2>3, InvTypes DEF KeepsFrame
  <2> QED
    BY <1>1, <2>1, <2>4, GotoQuiet DEF LoopLabels, Labels
<1> QED
  BY <1>2, <1>3

\* Skipping to a later offset.
LEMMA SkippedQuiet ==
  ASSUME ParserInv, Running, NEW o \in Nat, Skipped(o), UNCHANGED <<input, slack>>
  PROVE  Quiet
<1>1. /\ p1' = [p1 EXCEPT !.ptr = o]
      /\ Goto("keepUnknown") \/ Goto("skipTag")
      /\ UNCHANGED <<p2, stack, tries, skips, start, msgs>>
  BY DEF Skipped
<1>2. KeepsFrame
  BY <1>1, MovePtr, InvTypes DEF KeepsFrame
<1>3. CASE Goto("keepUnknown")
  BY <1>2, <1>3, GotoQuiet DEF LoopLabels, Labels
<1>4. CASE Goto("skipTag")
  BY <1>2, <1>4, GotoQuiet DEF LoopLabels, Labels
<1> QED
  BY <1>1, <1>3, <1>4

\* skipRecord for the wire types that hold a value.
LEMMA SkipValueQuiet ==
  ASSUME ParserInv, UNCHANGED <<input, slack>>,
         SkipVarint \/ SkipFixed32 \/ SkipFixed64 \/ SkipBytes
  PROVE  Running /\ Quiet
<1>1. Running
  BY DEF SkipVarint, SkipFixed32, SkipFixed64, SkipBytes, AtSkip, Running, Final
<1>2. p1.ptr \in Nat
  BY InvTypes DEF P1Type
<1>3. \/ Fault \/ Fail("Truncated") \/ Fail("Overflow")
      \/ Skipped(p1.ptr + 4) \/ Skipped(p1.ptr + 8)
      \/ ~VarintFaults /\ (Skipped(AfterVarint) \/ Skipped(AfterVarint + Varint))
  BY DEF SkipVarint, SkipFixed32, SkipFixed64, SkipBytes, WithVarint, WithFixed,
         WithLengthPrefix
<1>4. CASE Fault \/ Fail("Truncated") \/ Fail("Overflow")
  BY <1>1, <1>4, FailuresAreQuiet DEF Codes
<1>5. CASE Skipped(p1.ptr + 4) \/ Skipped(p1.ptr + 8)
  <2>1. p1.ptr + 4 \in Nat /\ p1.ptr + 8 \in Nat
    BY <1>2
  <2> QED
    BY <1>1, <1>5, <2>1, SkippedQuiet
<1>6. CASE ~VarintFaults /\ (Skipped(AfterVarint) \/ Skipped(AfterVarint + Varint))
  <2>1. Varint \in Nat /\ AfterVarint \in Nat
    BY <1>6, InvMemory, VarintIsNat
  <2>2. AfterVarint + Varint \in Nat
    BY <2>1
  <2> QED
    BY <1>1, <1>6, <2>1, <2>2, SkippedQuiet
<1> QED
  BY <1>1, <1>3, <1>4, <1>5, <1>6

\* The end tag skipRecord waits for is an integer.
LEMMA SkipEndTagType == ASSUME ParserInv PROVE SkipEndTag \in Int
<1>1. p2.scratch \in Nat
  BY InvTypes DEF P2Type
<1>2. CASE SkipNumber < 2^(TagBits - 1)
  <2>1. SkipNumber \in Int
    <3> DEFINE n == p2.scratch \div 8
               w == 2^TagBits
    <3>1. n \in Int /\ w \in Nat /\ w > 0
      <4>1. n \in Int
        BY <1>1
      <4>2. w \in Nat /\ w > 0
        BY WordAssumption
      <4> QED
        BY <4>1, <4>2
    <3> HIDE DEF n, w
    <3>2. n % w \in Int
      BY <3>1
    <3> QED
      BY <3>2 DEF SkipNumber, n, w
  <2> QED
    BY <1>2, <2>1 DEF SkipEndTag, EndGroupType
<1>3. CASE ~(SkipNumber < 2^(TagBits - 1))
  BY <1>3 DEF SkipEndTag, NoTag
<1> QED
  BY <1>2, <1>3

\* skipRecord for the other wire types, and the tag after a nested record.
LEMMA SkipGroupQuiet ==
  ASSUME ParserInv, UNCHANGED <<input, slack>>,
         SkipZero \/ SkipStartGroup \/ SkipEndGroup \/ SkipReserved
  PROVE  Running /\ Quiet
<1>1. Running
  BY DEF SkipZero, SkipStartGroup, SkipEndGroup, SkipReserved, AtSkip, Running, Final
<1>2. CASE \E code \in Codes : Fail(code)
  BY <1>1, <1>2, FailuresAreQuiet
<1>3. CASE SkipZero \/ SkipEndGroup \/ SkipReserved
  BY <1>1, <1>2, <1>3 DEF SkipZero, SkipEndGroup, SkipReserved, Codes
<1>4. CASE SkipStartGroup /\ MaxDepth - Len(skips) < 0
  BY <1>1, <1>2, <1>4 DEF SkipStartGroup, Codes
<1>5. CASE SkipStartGroup /\ ~(MaxDepth - Len(skips) < 0)
  <2>1. /\ skips' = Append(skips, SkipEndTag)
        /\ Goto("skipTag")
        /\ UNCHANGED <<p1, p2, stack, tries, start, msgs>>
    BY <1>5 DEF SkipStartGroup
  <2>2. skips' \in Seq(Int)
    BY <2>1, SkipEndTagType, InvTypes
  <2>3. KeepsFrame
    BY <2>1, <2>2, InvTypes DEF KeepsFrame
  <2> QED
    BY <1>1, <2>1, <2>3, GotoQuiet DEF LoopLabels, Labels
<1> QED
  BY <1>3, <1>4, <1>5

\* The tag after a record inside an unknown group.
LEMMA SkipTagQuiet ==
  ASSUME ParserInv, SkipTag, UNCHANGED <<input, slack>>
  PROVE  Running /\ Quiet
<1>1. Running
  BY DEF SkipTag, Running, Final
<1>2. CASE Fault \/ Fail("Truncated") \/ Fail("Overflow")
  BY <1>1, <1>2, FailuresAreQuiet DEF Codes
<1>3. CASE /\ ~VarintFaults
           /\ p1' = [p1 EXCEPT !.ptr = AfterVarint]
           /\ skips' = SubSeq(skips, 1, Len(skips) - 1)
           /\ Goto(IF Len(skips) = 1 THEN "keepUnknown" ELSE "skipTag")
           /\ UNCHANGED <<p2, stack, tries, start, msgs>>
  <2>1. Varint \in Nat /\ AfterVarint \in Nat
    BY <1>3, InvMemory, VarintIsNat
  <2>2. skips' \in Seq(Int)
    BY <1>3, InvTypes
  <2>3. KeepsFrame
    BY <1>3, <2>1, <2>2, MovePtr, InvTypes DEF KeepsFrame
  <2>4. Goto("keepUnknown") \/ Goto("skipTag")
    BY <1>3
  <2>5. CASE Goto("keepUnknown")
    BY <1>1, <2>3, <2>5, GotoQuiet DEF LoopLabels, Labels
  <2>6. CASE Goto("skipTag")
    BY <1>1, <2>3, <2>6, GotoQuiet DEF LoopLabels, Labels
  <2> QED
    BY <1>1, <2>4, <2>5, <2>6
<1>4. CASE /\ ~VarintFaults
           /\ p1' = [p1 EXCEPT !.ptr = AfterVarint]
           /\ p2' = [p2 EXCEPT !.scratch = Varint]
           /\ Goto("skipRecord")
           /\ UNCHANGED <<skips, stack, tries, start, msgs>>
  <2>1. Varint \in Nat /\ AfterVarint \in Nat
    BY <1>4, InvMemory, VarintIsNat
  <2>2. p2' \in P2Type /\ p2'.msg = p2.msg /\ p2'.ty = p2.ty
    BY <1>4, <2>1, InvTypes DEF P2Type
  <2>3. KeepsFrame
    BY <1>4, <2>1, <2>2, MovePtr, InvTypes DEF KeepsFrame
  <2> QED
    BY <1>1, <1>4, <2>3, GotoQuiet DEF LoopLabels, Labels
<1> QED
  BY <1>1, <1>2, <1>3, <1>4 DEF SkipTag, WithVarint

----------------------------------------------------------------------------
(* pop *)

\* A sequence without its last element.
LEMMA Butlast ==
  ASSUME NEW S, NEW s \in Seq(S), s # <<>>
  PROVE  /\ SubSeq(s, 1, Len(s) - 1) \in Seq(S)
         /\ Len(SubSeq(s, 1, Len(s) - 1)) = Len(s) - 1
         /\ \A k \in 1 .. Len(s) - 1 : SubSeq(s, 1, Len(s) - 1)[k] = s[k]
         /\ Len(s) \in Nat /\ Len(s) >= 1 /\ s[Len(s)] \in S
<1>1. Len(s) \in Nat /\ Len(s) >= 1
  <2>1. Len(s) \in Nat \ {0}
    BY EmptySeq
  <2> QED
    BY <2>1
<1>2. \A i \in 1 .. Len(s) : s[i] \in S
  BY ElementOfSeq
<1>3. /\ SubSeq(s, 1, Len(s) - 1) \in Seq(S)
      /\ Len(SubSeq(s, 1, Len(s) - 1)) = IF 1 <= Len(s) - 1 THEN Len(s) - 1 - 1 + 1 ELSE 0
      /\ \A k \in 1 .. Len(s) - 1 - 1 + 1 : SubSeq(s, 1, Len(s) - 1)[k] = s[1 + k - 1]
  <2>1. Len(s) - 1 \in Int /\ \A i \in 1 .. Len(s) - 1 : s[i] \in S
    BY <1>1, <1>2
  <2> QED
    BY <2>1, SubSeqProperties
<1>4. Len(SubSeq(s, 1, Len(s) - 1)) = Len(s) - 1
  <2>1. CASE 1 <= Len(s) - 1
    <3>1. Len(s) - 1 - 1 + 1 = Len(s) - 1
      BY <1>1
    <3> QED
      BY <1>3, <2>1, <3>1, Zenon
  <2>2. CASE ~(1 <= Len(s) - 1)
    <3>0. \A n \in Nat : n >= 1 /\ ~(1 <= n - 1) => n - 1 = 0
      OBVIOUS
    <3>1. Len(s) - 1 = 0
      BY <1>1, <2>2, <3>0
    <3> QED
      BY <1>3, <2>2, <3>1, Zenon
  <2> QED
    BY <2>1, <2>2
<1>5. ASSUME NEW k \in 1 .. Len(s) - 1
      PROVE  SubSeq(s, 1, Len(s) - 1)[k] = s[k]
  <2>1. k \in 1 .. Len(s) - 1 - 1 + 1 /\ 1 + k - 1 = k
    BY <1>1
  <2> QED
    BY <1>3, <2>1
<1> QED
  BY <1>1, <1>2, <1>3, <1>4, <1>5

\* Popping a frame preserves the invariant; the last frame is only popped when
\* the input has been consumed.
LEMMA PopStep ==
  ASSUME ParserInv, Running, Pop, UNCHANGED <<input, slack>>,
         Len(stack) = 1 => p1.ptr = Len(input)
  PROVE  ParserInv'
<1>1. /\ stack \in Seq(FrameType) /\ stack # <<>> /\ Len(stack) \in Nat /\ Len(stack) >= 1
      /\ Len(stack) <= MaxDepth /\ MaxDepth \in Nat
  <2>1. stack \in Seq(FrameType) /\ stack # <<>> /\ Len(stack) <= MaxDepth
    BY DEF ParserInv, TypeOK, StackInBounds
  <2> QED
    BY <2>1, Butlast, ParserAssumption
<1>2. Top \in FrameType
  BY <1>1 DEF Top
<1>3. /\ pc' = IF Len(stack) = 1 THEN "done" ELSE "checkDone"
      /\ err' = err /\ err = ErrorOk
      /\ stack' = SubSeq(stack, 1, Len(stack) - 1)
      /\ UNCHANGED <<tries, skips, start, msgs>>
  BY DEF Pop, Goto, ParserInv, TypeOK, Running, Final
<1>4. /\ stack' \in Seq(FrameType) /\ Len(stack') = Len(stack) - 1
      /\ \A k \in 1 .. Len(stack) - 1 : stack'[k] = stack[k]
  BY <1>1, <1>3, Butlast
<1>5. p1' \in P1Type /\ p1'.ptr = p1.ptr /\ p1'.end = Top.end /\ p1'.endGroup = Top.endGroup
  BY <1>2, InvTypes DEF Pop, P1Type, FrameType
<1>6. p2' \in P2Type /\ p2'.msg = Top.msg /\ p2'.ty = Top.ty
  BY <1>2 DEF Pop, P2Type, FrameType
<1>7. TypeOK'
  BY <1>3, <1>4, <1>5, <1>6 DEF ParserInv, TypeOK, P1Type, P2Type, Labels, Final
<1>0. Running' => Len(stack) > 1
  <2> SUFFICES ASSUME Running' PROVE Len(stack) > 1
    OBVIOUS
  <2>1. Len(stack) # 1
    BY <1>3 DEF Running, Final
  <2> QED
    BY <1>1, <2>1
<1>8. StackInBounds'
  <2>1. Running' => stack' # <<>>
    BY <1>0, <1>1, <1>4
  <2>2. Len(stack') <= MaxDepth
    BY <1>1, <1>4
  <2> QED
    BY <2>1, <2>2 DEF StackInBounds
<1>9. BottomIsRoot'
  <2>1. CASE ~Running'
    BY <2>1 DEF BottomIsRoot
  <2>2. CASE Len(stack) = 2
    <3>1. Top = stack[2] /\ Len(stack') = 1 /\ stack' # <<>>
      BY <1>4, <2>2 DEF Top
    <3>2. stack[2].end = Len(input) /\ stack[2].endGroup = NotAGroup
      BY <2>2 DEF ParserInv, BottomIsRoot, BottomEnd, BottomGroup
    <3>3. p1'.end = Len(input) /\ p1'.endGroup = NotAGroup
      BY <1>5, <3>1, <3>2
    <3> QED
      BY <3>1, <3>3 DEF BottomIsRoot, BottomEnd, BottomGroup
  <2>3. CASE Len(stack) > 2
    <3>0. 2 \in 1 .. Len(stack) - 1
      BY <1>1, <2>3
    <3>1. stack'[2] = stack[2] /\ Len(stack') # 1 /\ stack' # <<>>
      BY <1>1, <1>4, <2>3, <3>0
    <3>2. stack[2].end = Len(input) /\ stack[2].endGroup = NotAGroup
      BY <2>3 DEF ParserInv, BottomIsRoot, BottomEnd, BottomGroup
    <3> QED
      BY <3>1, <3>2 DEF BottomIsRoot, BottomEnd, BottomGroup
  <2>4. Running' => Len(stack) = 2 \/ Len(stack) > 2
    <3> SUFFICES ASSUME Running' PROVE Len(stack) = 2 \/ Len(stack) > 2
      OBVIOUS
    <3>1. \A n \in Nat : n > 1 => n = 2 \/ n > 2
      OBVIOUS
    <3> QED
      BY <1>0, <1>1, <3>1
  <2> QED
    BY <2>1, <2>2, <2>3, <2>4
<1>10. AcceptedConsumesAll'
  BY <1>3, <1>5 DEF AcceptedConsumesAll
<1>11. WellFormed'
  BY <1>3 DEF ParserInv, WellFormed
<1>12. WellTyped'
  <2>1. Running' => Agrees(p2.msg, p2.ty)'
    <3>1. Running' => Len(stack) \in 2 .. Len(stack)
      BY <1>0, <1>1
    <3>2. Running' => Agrees(Top.msg, Top.ty)
      BY <3>1 DEF ParserInv, WellTyped, Top
    <3> QED
      BY <1>3, <1>6, <3>2 DEF Agrees
  <2>2. (\A k \in 2 .. Len(stack) : Agrees(stack[k].msg, stack[k].ty))'
    BY <1>1, <1>3, <1>4 DEF ParserInv, WellTyped, Agrees
  <2> QED
    BY <1>3, <2>1, <2>2 DEF ParserInv, WellTyped, Agrees
<1>13. ThunkInTable'
  BY <1>3 DEF ThunkInTable
<1>14. FreshStart'
  BY <1>3 DEF FreshStart
<1> QED
  BY <1>7, <1>8, <1>9, <1>10, <1>11, <1>12, <1>13, <1>14 DEF ParserInv

\* At the bottom of the stack the registers hold the root message.
LEMMA BottomRegisters ==
  ASSUME ParserInv, Running, Len(stack) = 1
  PROVE  p1.end = Len(input) /\ p1.endGroup = NotAGroup
BY DEF ParserInv, BottomIsRoot, BottomEnd, BottomGroup

\* checkDone pops only when ptr is exactly at end.
LEMMA CheckDoneStep ==
  ASSUME ParserInv, CheckDone, UNCHANGED <<input, slack>>
  PROVE  ParserInv'
<1>1. Running
  BY DEF CheckDone, Running, Final
<1>2. CASE Left # 0
  <2>1. Goto("number") /\ UNCHANGED <<regs, msgs>>
    BY <1>2 DEF CheckDone
  <2>2. KeepsFrame
    BY <2>1, InvTypes DEF KeepsFrame, regs
  <2>3. Quiet
    BY <1>1, <2>1, <2>2, GotoQuiet DEF LoopLabels, Labels
  <2> QED
    BY <1>1, <2>3, QuietStep
<1>3. CASE Left = 0 /\ p1.endGroup # NotAGroup
  <2>1. Fail("EndGroup")
    BY <1>3 DEF CheckDone
  <2> QED
    BY <1>1, <2>1, FailuresAreQuiet, QuietStep DEF Codes
<1>4. CASE Left = 0 /\ p1.endGroup = NotAGroup
  <2>1. Pop
    BY <1>4 DEF CheckDone
  <2>2. p1.ptr = p1.end
    BY <1>4, InvTypes DEF Left, P1Type
  <2> QED
    BY <1>1, <2>1, <2>2, BottomRegisters, PopStep
<1> QED
  BY <1>2, <1>3, <1>4

\* missedField pops only at the end tag of an open group, which the root is not.
LEMMA MissedFieldStep ==
  ASSUME ParserInv, MissedField, UNCHANGED <<input, slack>>
  PROVE  ParserInv'
<1>1. Running
  BY DEF MissedField, Running, Final
<1>2. p2.scratch \in Nat /\ p2.ty \in Types
  BY InvTypes DEF P2Type
<1> DEFINE hit == ByTag(p2.ty, p2.scratch)
           label == IF hit # NilField THEN "parseField" ELSE "handleUnknown"
<1>3. CASE p2.scratch = p1.endGroup
  <2>1. Pop
    BY <1>3 DEF MissedField
  <2>2. p1.endGroup # NotAGroup
    BY <1>2, <1>3 DEF NotAGroup
  <2> QED
    BY <1>1, <2>1, <2>2, BottomRegisters, PopStep
<1>4. CASE p2.scratch # p1.endGroup /\ p2.scratch >= 2^TagBits
  <2>1. Fail("Overflow")
    BY <1>4 DEF MissedField
  <2> QED
    BY <1>1, <2>1, FailuresAreQuiet, QuietStep DEF Codes
<1>5. CASE p2.scratch # p1.endGroup /\ ~(p2.scratch >= 2^TagBits)
  <2>1. /\ p2' = [p2 EXCEPT !.field = hit,
                            !.scratch = IF hit # NilField THEN 0 ELSE p2.scratch]
        /\ Goto(label)
        /\ UNCHANGED <<p1, stack, tries, skips, start, msgs>>
    BY <1>5 DEF MissedField
  <2>2. hit \in Int /\ (hit # NilField => hit \in 1 .. Len(Fields[p2.ty]))
    BY <1>2, ByTagType
  <2>3. label \in LoopLabels /\ (label = "parseField" => hit # NilField)
    BY DEF LoopLabels, Labels
  <2> HIDE DEF hit, label
  <2>4. p2' \in P2Type /\ p2'.msg = p2.msg /\ p2'.ty = p2.ty /\ p2'.field = hit
    <3>1. (IF hit # NilField THEN 0 ELSE p2.scratch) \in Nat
      BY <1>2
    <3> QED
      BY <2>1, <2>2, <3>1, MoveField
  <2>5. KeepsFrame
    BY <2>1, <2>4, InvTypes DEF KeepsFrame
  <2>6. Quiet
    BY <1>1, <2>1, <2>2, <2>3, <2>4, <2>5, GotoQuiet
  <2> QED
    BY <1>1, <2>6, QuietStep
<1> QED
  BY <1>3, <1>4, <1>5

\* Rewinding to a tag for the main loop is quiet.
LEMMA RewindQuiet ==
  ASSUME ParserInv, Running, NEW f \in Int, RewindTo(f), UNCHANGED <<input, slack>>
  PROVE  Quiet
<1>1. /\ p2' = [p2 EXCEPT !.field = f, !.scratch = 0]
      /\ Goto("number")
      /\ UNCHANGED <<p1, stack, tries, skips, start, msgs>>
  BY DEF RewindTo
<1>2. KeepsFrame
  BY <1>1, MoveField, InvTypes DEF KeepsFrame
<1> QED
  BY <1>1, <1>2, GotoQuiet DEF LoopLabels, Labels

\* The loop of missedField pops only when ptr is exactly at end.
LEMMA NextUnknownStep ==
  ASSUME ParserInv, NextUnknown, UNCHANGED <<input, slack>>
  PROVE  ParserInv'
<1>1. Running
  BY DEF NextUnknown, Running, Final
<1>2. p2.ty \in Types
  BY InvTypes DEF P2Type
<1>3. CASE Left = 0
  <2>1. Pop
    BY <1>3 DEF NextUnknown
  <2>2. p1.ptr = p1.end
    BY <1>3, InvTypes DEF Left, P1Type
  <2> QED
    BY <1>1, <2>1, <2>2, BottomRegisters, PopStep
<1>4. CASE Fault \/ Fail("Truncated") \/ Fail("Overflow")
  BY <1>1, <1>4, FailuresAreQuiet, QuietStep DEF Codes
<1>5. CASE RewindTo(NextOkOf(p2.ty, Entrypoint))
  <2>1. NextOkOf(p2.ty, Entrypoint) \in Int
    BY <1>2, TableTypes DEF Entrypoint
  <2> QED
    BY <1>1, <1>5, <2>1, RewindQuiet, QuietStep
<1>6. CASE RewindTo(ByTag(p2.ty, Varint))
  <2>1. ByTag(p2.ty, Varint) \in Int
    BY <1>2, ByTagType
  <2> QED
    BY <1>1, <1>6, <2>1, RewindQuiet, QuietStep
<1>7. CASE /\ ~VarintFaults
           /\ p1' = [p1 EXCEPT !.ptr = AfterVarint]
           /\ p2' = [p2 EXCEPT !.field = NilField, !.scratch = Varint]
           /\ Goto("handleUnknown")
           /\ UNCHANGED <<stack, tries, skips, start, msgs>>
  <2>1. Varint \in Nat /\ AfterVarint \in Nat /\ NilField \in Int
    BY <1>7, InvMemory, VarintIsNat DEF NilField
  <2>2. p1' \in P1Type /\ p1'.end = p1.end /\ p1'.endGroup = p1.endGroup
    BY <1>7, <2>1, MovePtr
  <2>3. p2' \in P2Type /\ p2'.msg = p2.msg /\ p2'.ty = p2.ty
    BY <1>7, <2>1, MoveField
  <2>4. KeepsFrame
    BY <1>7, <2>2, <2>3, InvTypes DEF KeepsFrame
  <2>5. Quiet
    BY <1>1, <1>7, <2>4, GotoQuiet DEF LoopLabels, Labels
  <2> QED
    BY <1>1, <2>5, QuietStep
<1> QED
  BY <1>3, <1>4, <1>5, <1>6, <1>7 DEF NextUnknown, WithVarint

----------------------------------------------------------------------------
(* Messages *)

\* A value fits a field if it has the type its kind asks for and refers only
\* to messages of ms of the right type.
ValueOK(ms, v, fd) ==
  /\ fd.kind \in {"message", "group"} => v \in Nat
  /\ fd.kind \in {"messages", "groups"} => v \in Seq(Nat)
  /\ \A r \in Refs(v, fd.kind) : r \in 1 .. Len(ms) /\ ms[r].ty = fd.sub

MessageOK(ms, m) ==
  /\ Len(m.vals) = Len(Fields[m.ty])
  /\ \A i \in 1 .. Len(Fields[m.ty]) : ValueOK(ms, m.vals[i], Fields[m.ty][i])

MsgsOK(ms) ==
  /\ ms \in Seq(MessageType)
  /\ \A m \in 1 .. Len(ms) : MessageOK(ms, ms[m])

\* ms2 has the messages of ms, with their types, and possibly more.
Keeps(ms, ms2) ==
  /\ Len(ms) \in Nat /\ Len(ms2) \in Nat /\ Len(ms) <= Len(ms2)
  /\ \A k \in 1 .. Len(ms) : ms2[k].ty = ms[k].ty

\* The part of the invariant that is about messages.
LEMMA InvMsgs == ASSUME ParserInv PROVE MsgsOK(msgs)
BY DEF ParserInv, TypeOK, WellFormed, WellTyped, Agrees, MsgsOK, MessageOK, ValueOK

\* References stay good when messages are added.
LEMMA KeepsValues ==
  ASSUME NEW ms, NEW ms2, Keeps(ms, ms2), NEW v, NEW fd, ValueOK(ms, v, fd)
  PROVE  ValueOK(ms2, v, fd)
<1>1. ASSUME NEW r \in Refs(v, fd.kind)
      PROVE  r \in 1 .. Len(ms2) /\ ms2[r].ty = fd.sub
  <2>1. r \in 1 .. Len(ms) /\ ms[r].ty = fd.sub
    BY DEF ValueOK
  <2> QED
    BY <2>1 DEF Keeps
<1> QED
  BY <1>1 DEF ValueOK

\* The type of one message.
LEMMA MessageFacts ==
  ASSUME NEW ms, MsgsOK(ms), NEW k \in 1 .. Len(ms)
  PROVE  /\ ms[k] \in MessageType /\ MessageOK(ms, ms[k]) /\ Len(ms) \in Nat
         /\ ms[k].ty \in Types /\ ms[k].vals \in Seq(Values)
         /\ Len(ms[k].vals) = Len(Fields[ms[k].ty])
<1>1. ms[k] \in MessageType /\ Len(ms) \in Nat
  BY ElementOfSeq, LenProperties DEF MsgsOK
<1> QED
  BY <1>1 DEF MsgsOK, MessageOK, MessageType

\* Replacing message k by one of the same type that fits.
LEMMA ReplaceMessage ==
  ASSUME NEW ms, MsgsOK(ms), NEW k \in 1 .. Len(ms), NEW m \in MessageType,
         m.ty = ms[k].ty, MessageOK(ms, m)
  PROVE  MsgsOK([ms EXCEPT ![k] = m]) /\ Keeps(ms, [ms EXCEPT ![k] = m])
<1> DEFINE ms2 == [ms EXCEPT ![k] = m]
<1>1. ms \in Seq(MessageType) /\ Len(ms) \in Nat
  BY LenProperties DEF MsgsOK
<1>2. ms2 \in Seq(MessageType) /\ Len(ms2) = Len(ms)
  BY <1>1
<1>3. \A j \in 1 .. Len(ms) : ms2[j] = IF j = k THEN m ELSE ms[j]
  BY <1>1, LenProperties
<1>4. Keeps(ms, ms2)
  <2> HIDE DEF ms2
  <2> QED
    BY <1>1, <1>2, <1>3 DEF Keeps
<1>5. ASSUME NEW j \in 1 .. Len(ms2)
      PROVE  MessageOK(ms2, ms2[j])
  <2> HIDE DEF ms2
  <2>1. MessageOK(ms, ms2[j])
    BY <1>2, <1>3 DEF MsgsOK
  <2> QED
    BY <2>1, <1>4, KeepsValues DEF MessageOK
<1> QED
  BY <1>2, <1>4, <1>5 DEF MsgsOK

\* Storing a value that fits into field i of message k.
LEMMA StoreValue ==
  ASSUME NEW ms, MsgsOK(ms), NEW k \in 1 .. Len(ms),
         NEW i \in 1 .. Len(Fields[ms[k].ty]), NEW v \in Values,
         ValueOK(ms, v, Fields[ms[k].ty][i])
  PROVE  MsgsOK([ms EXCEPT ![k].vals[i] = v]) /\ Keeps(ms, [ms EXCEPT ![k].vals[i] = v])
<1> DEFINE vals == [ms[k].vals EXCEPT ![i] = v]
           m == [ms[k] EXCEPT !.vals = vals]
<1>1. /\ ms[k] \in MessageType /\ MessageOK(ms, ms[k])
      /\ ms[k].vals \in Seq(Values) /\ Len(ms[k].vals) = Len(Fields[ms[k].ty])
  BY MessageFacts
<1>2. vals \in Seq(Values) /\ Len(vals) = Len(ms[k].vals)
  BY <1>1
<1>3. \A j \in 1 .. Len(ms[k].vals) : vals[j] = IF j = i THEN v ELSE ms[k].vals[j]
  BY <1>1, LenProperties
<1> HIDE DEF vals
<1>4. m \in MessageType /\ m.ty = ms[k].ty /\ m.vals = vals
  BY <1>1, <1>2 DEF MessageType
<1> HIDE DEF m
<1>5. MessageOK(ms, m)
  BY <1>1, <1>2, <1>3, <1>4 DEF MessageOK
<1>6. MsgsOK([ms EXCEPT ![k] = m]) /\ Keeps(ms, [ms EXCEPT ![k] = m])
  BY <1>4, <1>5, ReplaceMessage
<1> QED
  BY <1>6 DEF m, vals

\* Adding an empty message.
LEMMA AddMessage ==
  ASSUME NEW ms, MsgsOK(ms), NEW ty \in Types
  PROVE  /\ MsgsOK(Append(ms, NewMessage(ty))) /\ Keeps(ms, Append(ms, NewMessage(ty)))
         /\ Len(Append(ms, NewMessage(ty))) = Len(ms) + 1
         /\ Append(ms, NewMessage(ty))[Len(ms) + 1].ty = ty
         /\ \A k \in 1 .. Len(ms) : Append(ms, NewMessage(ty))[k] = ms[k]
<1> DEFINE new == NewMessage(ty)
           ms2 == Append(ms, new)
<1>1. ASSUME NEW i \in 1 .. Len(Fields[ty])
      PROVE  /\ ZeroValue(Fields[ty][i].kind) \in Values
             /\ ValueOK(ms2, ZeroValue(Fields[ty][i].kind), Fields[ty][i])
  <2> DEFINE kind == Fields[ty][i].kind
  <2>1. kind \in Kinds
    BY Schema
  <2> HIDE DEF ms2
  <2>2. CASE kind \in {"message", "group"}
    BY <2>2 DEF ZeroValue, ValueOK, Values, Refs, NilMessage
  <2>3. CASE kind \in {"messages", "groups"}
    <3>1. ZeroValue(kind) = <<>>
      BY <2>3 DEF ZeroValue
    <3>2. <<>> \in Seq(Nat) /\ Len(<<>>) = 0
      OBVIOUS
    <3>3. Refs(<<>>, kind) = {}
      BY <2>3, <3>2 DEF Refs
    <3> QED
      BY <2>3, <3>1, <3>2, <3>3 DEF ValueOK, Values
  <2>4. CASE kind = "varint"
    BY <2>4 DEF ZeroValue, ValueOK, Values, Refs
  <2>5. CASE kind = "fixed32"
    <3>1. ZeroValue(kind) = <<0, 0, 0, 0>> /\ <<0, 0, 0, 0>> \in Seq(Nat)
      BY <2>5 DEF ZeroValue
    <3> QED
      BY <2>5, <3>1 DEF ValueOK, Values, Refs
  <2>6. CASE kind = "bytes"
    BY <2>6 DEF ZeroValue, ValueOK, Values, Refs
  <2> QED
    BY <2>1, <2>2, <2>3, <2>4, <2>5, <2>6 DEF Kinds
<1>2. new \in MessageType /\ new.ty = ty
  <2> DEFINE n == Len(Fields[ty])
             vals == [i \in 1 .. n |-> ZeroValue(Fields[ty][i].kind)]
  <2>1. n \in Nat
    BY Schema
  <2>2. vals \in Seq(Values)
    <3>1. \A i \in 1 .. n : ZeroValue(Fields[ty][i].kind) \in Values
      BY <1>1
    <3> HIDE DEF n
    <3> QED
      BY <2>1, <3>1
  <2> HIDE DEF vals
  <2>3. new = [ty |-> ty, vals |-> vals, unknown |-> <<>>]
    BY DEF NewMessage, vals
  <2> HIDE DEF new
  <2> QED
    BY <2>2, <2>3 DEF MessageType
<1>3. new.vals = [i \in 1 .. Len(Fields[ty]) |-> ZeroValue(Fields[ty][i].kind)]
  BY DEF NewMessage
<1>4. Len(new.vals) = Len(Fields[ty])
  <2>1. Len(Fields[ty]) \in Nat
    BY Schema
  <2> QED
    BY <1>3, <2>1
<1>5. MessageOK(ms2, new)
  <2> HIDE DEF new, ms2
  <2> QED
    BY <1>1, <1>2, <1>3, <1>4 DEF MessageOK
<1>6. ms \in Seq(MessageType) /\ Len(ms) \in Nat
  BY LenProperties DEF MsgsOK
<1> HIDE DEF new
<1>7. /\ ms2 \in Seq(MessageType) /\ Len(ms2) = Len(ms) + 1
      /\ \A k \in 1 .. Len(ms) : ms2[k] = ms[k]
      /\ ms2[Len(ms) + 1] = new
  BY <1>2, <1>6, AppendProperties
<1> HIDE DEF ms2
<1>8. Keeps(ms, ms2)
  BY <1>6, <1>7 DEF Keeps
<1>9. ASSUME NEW k \in 1 .. Len(ms2)
      PROVE  MessageOK(ms2, ms2[k])
  <2>1. CASE k \in 1 .. Len(ms)
    <3>1. MessageOK(ms, ms2[k])
      BY <1>7, <2>1 DEF MsgsOK
    <3> QED
      BY <3>1, <1>8, KeepsValues DEF MessageOK
  <2>2. CASE k = Len(ms) + 1
    BY <1>5, <1>7, <2>2
  <2> QED
    BY <1>6, <1>7, <2>1, <2>2
<1> QED
  BY <1>2, <1>7, <1>8, <1>9 DEF MsgsOK, ms2, new

----------------------------------------------------------------------------
(* Thunks *)

\* What a thunk, or the rest of handleUnknown, leaves alone, and what it
\* must establish about the messages and the message in the registers.
ThunkSafe ==
  /\ UNCHANGED <<input, slack, tries, skips, start>>
  /\ p1' \in P1Type /\ p2' \in P2Type
  /\ pc' \in {"checkDone", "nextUnknown", "failed"} /\ (pc' = "failed") = (err' # ErrorOk)
  /\ MsgsOK(msgs') /\ Keeps(msgs, msgs')
  /\ pc' # "failed" => p2'.msg \in 1 .. Len(msgs') /\ msgs'[p2'.msg].ty = p2'.ty

\* The frames still agree with the messages.
LEMMA FramesKept ==
  ASSUME ParserInv, Running, Keeps(msgs, msgs')
  PROVE  /\ \A k \in 2 .. Len(stack) :
              stack[k].msg \in 1 .. Len(msgs') /\ msgs'[stack[k].msg].ty = stack[k].ty
         /\ p2.msg \in 1 .. Len(msgs') /\ msgs'[p2.msg].ty = p2.ty
BY DEF ParserInv, WellTyped, Agrees, Keeps

\* A safe thunk that does not push preserves the invariant.
LEMMA StayStep ==
  ASSUME ParserInv, Running, ThunkSafe, stack' = stack,
         p1'.end = p1.end, p1'.endGroup = p1.endGroup
  PROVE  ParserInv'
<1>1. TypeOK'
  BY DEF ParserInv, TypeOK, ThunkSafe, MsgsOK, P1Type, P2Type, Labels, Final
<1>2. StackInBounds'
  BY DEF ParserInv, StackInBounds
<1>3. BottomIsRoot'
  BY DEF ParserInv, BottomIsRoot, BottomEnd, BottomGroup, ThunkSafe
<1>4. AcceptedConsumesAll'
  BY DEF AcceptedConsumesAll, ThunkSafe
<1>5. WellFormed'
  BY DEF WellFormed, ThunkSafe, MsgsOK, MessageOK, ValueOK
<1>6. WellTyped'
  <2>1. Running' => Agrees(p2.msg, p2.ty)'
    BY DEF ThunkSafe, Agrees, Running, Final
  <2>2. (\A k \in 2 .. Len(stack) : Agrees(stack[k].msg, stack[k].ty))'
    BY FramesKept DEF ThunkSafe, Agrees
  <2>3. (\A m \in 1 .. Len(msgs) : \A i \in 1 .. Len(Fields[msgs[m].ty]) :
           LET f == Fields[msgs[m].ty][i]
           IN  \A r \in Refs(msgs[m].vals[i], f.kind) : Agrees(r, f.sub))'
    BY DEF ThunkSafe, MsgsOK, MessageOK, ValueOK, Agrees
  <2> QED
    BY <2>1, <2>2, <2>3 DEF WellTyped
<1>7. ThunkInTable'
  BY DEF ThunkInTable, ThunkSafe
<1>8. FreshStart'
  BY DEF FreshStart, ThunkSafe
<1> QED
  BY <1>1, <1>2, <1>3, <1>4, <1>5, <1>6, <1>7, <1>8 DEF ParserInv

\* A safe thunk that pushes the current frame preserves the invariant.
LEMMA PushStep ==
  ASSUME ParserInv, Running, ThunkSafe, ~StackFull, stack' = Append(stack, Frame)
  PROVE  ParserInv'
<1>1. stack \in Seq(FrameType) /\ stack # <<>> /\ Len(stack) <= MaxDepth
  BY DEF ParserInv, TypeOK, StackInBounds
<1>2. Len(stack) \in Nat /\ Len(stack) >= 1 /\ MaxDepth \in Nat
  BY <1>1, Butlast, ParserAssumption
<1>3. Frame \in FrameType
  BY InvTypes DEF Frame, FrameType, P1Type, P2Type
<1>4. /\ stack' \in Seq(FrameType) /\ stack' # <<>> /\ Len(stack') = Len(stack) + 1
      /\ \A k \in 1 .. Len(stack) : stack'[k] = stack[k]
      /\ stack'[Len(stack) + 1] = Frame
  BY <1>1, <1>3, AppendProperties
<1>5. TypeOK'
  BY <1>4 DEF ParserInv, TypeOK, ThunkSafe, MsgsOK, P1Type, P2Type, Labels, Final
<1>6. StackInBounds'
  <2>1. Len(stack') <= MaxDepth
    BY <1>1, <1>2, <1>4 DEF StackFull
  <2> QED
    BY <1>4, <2>1 DEF StackInBounds
<1>7. BottomIsRoot'
  <2>1. Len(stack') # 1
    BY <1>2, <1>4
  <2>2. stack'[2].end = Len(input) /\ stack'[2].endGroup = NotAGroup
    <3>1. CASE Len(stack) = 1
      <4>1. stack'[2] = Frame
        BY <1>4, <3>1
      <4>2. p1.end = Len(input) /\ p1.endGroup = NotAGroup
        BY <3>1, BottomRegisters
      <4>3. Frame.end = p1.end /\ Frame.endGroup = p1.endGroup
        BY DEF Frame
      <4> QED
        BY <4>1, <4>2, <4>3
    <3>2. CASE Len(stack) # 1
      <4>1. stack[2].end = Len(input) /\ stack[2].endGroup = NotAGroup
        BY <3>2 DEF ParserInv, BottomIsRoot, BottomEnd, BottomGroup
      <4>2. \A n \in Nat : n >= 1 /\ n # 1 => 2 \in 1 .. n
        OBVIOUS
      <4>3. stack'[2] = stack[2]
        BY <1>2, <1>4, <3>2, <4>2
      <4> QED
        BY <4>1, <4>3
    <3> QED
      BY <3>1, <3>2
  <2> QED
    BY <1>4, <2>1, <2>2 DEF BottomIsRoot, BottomEnd, BottomGroup, ThunkSafe
<1>8. AcceptedConsumesAll'
  BY DEF AcceptedConsumesAll, ThunkSafe
<1>9. WellFormed'
  BY DEF WellFormed, ThunkSafe, MsgsOK, MessageOK, ValueOK
<1>10. WellTyped'
  <2>1. Running' => Agrees(p2.msg, p2.ty)'
    BY DEF ThunkSafe, Agrees, Running, Final
  <2>2. (\A k \in 2 .. Len(stack) : Agrees(stack[k].msg, stack[k].ty))'
    <3> SUFFICES ASSUME NEW k \in 2 .. Len(stack')
                 PROVE  stack'[k].msg \in 1 .. Len(msgs') /\ msgs'[stack'[k].msg].ty = stack'[k].ty
      BY DEF Agrees
    <3>1. CASE k \in 2 .. Len(stack)
      <4>1. stack'[k] = stack[k]
        BY <1>2, <1>4, <3>1
      <4> QED
        BY <3>1, <4>1, FramesKept DEF ThunkSafe
    <3>2. CASE k = Len(stack) + 1
      <4>1. stack'[k].msg = p2.msg /\ stack'[k].ty = p2.ty
        BY <1>4, <3>2 DEF Frame
      <4> QED
        BY <4>1, FramesKept DEF ThunkSafe
    <3> QED
      BY <1>2, <1>4, <3>1, <3>2
  <2>3. (\A m \in 1 .. Len(msgs) : \A i \in 1 .. Len(Fields[msgs[m].ty]) :
           LET f == Fields[msgs[m].ty][i]
           IN  \A r \in Refs(msgs[m].vals[i], f.kind) : Agrees(r, f.sub))'
    BY DEF ThunkSafe, MsgsOK, MessageOK, ValueOK, Agrees
  <2> QED
    BY <2>1, <2>2, <2>3 DEF WellTyped
<1>11. ThunkInTable'
  BY DEF ThunkInTable, ThunkSafe
<1>12. FreshStart'
  BY DEF FreshStart, ThunkSafe
<1> QED
  BY <1>5, <1>6, <1>7, <1>8, <1>9, <1>10, <1>11, <1>12 DEF ParserInv

\* The registers a thunk is called with.
LEMMA AtThunkFacts ==
  ASSUME ParserInv, pc = "parseField"
  PROVE  /\ Running /\ err = ErrorOk /\ p2.ty \in Types
         /\ p2.msg \in 1 .. Len(msgs) /\ msgs[p2.msg].ty = p2.ty
         /\ p2.field \in 1 .. Len(Fields[p2.ty])
         /\ Field.sub \in Types /\ Field.kind \in Kinds
<1>1. Running /\ err = ErrorOk
  BY DEF ParserInv, TypeOK, Running, Final
<1>2. p2.ty \in Types /\ p2.field \in 1 .. Len(Fields[p2.ty])
  BY InvTypes DEF P2Type, ParserInv, ThunkInTable
<1>3. p2.msg \in 1 .. Len(msgs) /\ msgs[p2.msg].ty = p2.ty
  BY <1>1 DEF ParserInv, WellTyped, Agrees
<1> QED
  BY <1>1, <1>2, <1>3, Schema DEF Field

\* Storing a scalar is safe.
LEMMA StoreAndAdvanceStep ==
  ASSUME ParserInv, AtThunk({"varint", "fixed32", "bytes"}), NEW v \in Values, NEW o \in Nat,
         StoreAndAdvance(v, o), UNCHANGED <<input, slack>>
  PROVE  ParserInv'
<1>1. /\ pc = "parseField" /\ Field.kind \in {"varint", "fixed32", "bytes"}
  BY DEF AtThunk
<1>2. /\ msgs' = [msgs EXCEPT ![p2.msg].vals[p2.field] = v]
      /\ UNCHANGED <<stack, tries, skips, start>>
  BY DEF StoreAndAdvance, Store
<1>3. /\ pc' = "checkDone" /\ err' = err
      /\ p1' = [ptr |-> o, end |-> p1.end, endGroup |-> p1.endGroup]
      /\ p2' = [msg |-> p2.msg, ty |-> p2.ty, field |-> NextOkOf(p2.ty, p2.field), scratch |-> 0]
  BY DEF StoreAndAdvance, ThunkReturns, Goto
<1>4. ValueOK(msgs, v, Fields[p2.ty][p2.field])
  BY <1>1 DEF Field, ValueOK, Refs
<1>5. MsgsOK(msgs') /\ Keeps(msgs, msgs')
  BY <1>1, <1>2, <1>4, AtThunkFacts, InvMsgs, StoreValue
<1>6. p2.field \in Int /\ p2.ty \in Types
  BY InvTypes DEF P2Type
<1>7. NextOkOf(p2.ty, p2.field) \in Int
  BY <1>6, TableTypes
<1>8. p1' \in P1Type /\ p1'.end = p1.end /\ p1'.endGroup = p1.endGroup
  BY <1>3, InvTypes DEF P1Type
<1>9. p2' \in P2Type /\ p2'.msg = p2.msg /\ p2'.ty = p2.ty
  BY <1>3, <1>7, InvTypes DEF P2Type
<1>10. pc' # "failed" /\ (pc' = "failed") = (err' # ErrorOk)
  BY <1>1, <1>3, AtThunkFacts
<1>11. p2'.msg \in 1 .. Len(msgs') /\ msgs'[p2'.msg].ty = p2'.ty
  BY <1>1, <1>5, <1>9, AtThunkFacts, FramesKept
<1>12. ThunkSafe
  BY <1>2, <1>3, <1>5, <1>8, <1>9, <1>10, <1>11 DEF ThunkSafe
<1> QED
  BY <1>1, <1>2, <1>8, <1>12, AtThunkFacts, StayStep

\* The scalar thunks.
LEMMA ScalarStep ==
  ASSUME ParserInv, ParseVarint \/ ParseFixed \/ ParseBytes, UNCHANGED <<input, slack>>
  PROVE  ParserInv'
<1>1. pc = "parseField"
  BY DEF ParseVarint, ParseFixed, ParseBytes, AtThunk
<1>2. Running
  BY <1>1, AtThunkFacts
<1>3. CASE Fault \/ Fail("Truncated") \/ Fail("Overflow")
  BY <1>2, <1>3, FailuresAreQuiet, QuietStep DEF Codes
<1>4. CASE ParseVarint /\ ~VarintFaults /\ StoreAndAdvance(Varint, AfterVarint)
  <2>1. Varint \in Nat /\ AfterVarint \in Nat
    BY <1>4, InvMemory, VarintIsNat
  <2>2. Varint \in Values
    BY <2>1 DEF Values
  <2>3. AtThunk({"varint", "fixed32", "bytes"})
    BY <1>4 DEF ParseVarint, AtThunk
  <2> QED
    BY <1>4, <2>1, <2>2, <2>3, StoreAndAdvanceStep
<1>5. CASE ParseFixed /\ ~(Left < 4) /\ ~(p1.ptr + 4 > Limit)
  <2> DEFINE v == [i \in 1 .. 4 |-> Byte(p1.ptr + i - 1)]
  <2>1. StoreAndAdvance(v, p1.ptr + 4)
    BY <1>5 DEF ParseFixed
  <2>2. p1.ptr \in Nat /\ p1.ptr + 4 \in Nat
    BY InvTypes DEF P1Type
  <2>3. v \in Values
    <3>1. \A i \in 1 .. 4 : Byte(p1.ptr + i - 1) \in 0 .. 255
      <4>1. Limit \in Nat
        BY InvMemory DEF MemoryTyped, Limit
      <4>2. \A i \in 1 .. 4 : p1.ptr + i - 1 \in Nat /\ p1.ptr + i - 1 < Limit
        BY <1>5, <2>2, <4>1
      <4> QED
        BY <4>2, InvMemory, ByteType
    <3> QED
      BY <3>1 DEF Values
  <2>4. AtThunk({"varint", "fixed32", "bytes"})
    BY <1>5 DEF ParseFixed, AtThunk
  <2> QED
    BY <2>1, <2>2, <2>3, <2>4, StoreAndAdvanceStep
<1>6. CASE ParseBytes /\ ~VarintFaults
             /\ StoreAndAdvance([start |-> AfterVarint, len |-> Varint], AfterVarint + Varint)
  <2>1. Varint \in Nat /\ AfterVarint \in Nat
    BY <1>6, InvMemory, VarintIsNat
  <2>2. [start |-> AfterVarint, len |-> Varint] \in Values /\ AfterVarint + Varint \in Nat
    BY <2>1 DEF Values
  <2>3. AtThunk({"varint", "fixed32", "bytes"})
    BY <1>6 DEF ParseBytes, AtThunk
  <2> QED
    BY <1>6, <2>2, <2>3, StoreAndAdvanceStep
<1> QED
  BY <1>3, <1>4, <1>5, <1>6 DEF ParseVarint, ParseFixed, ParseBytes, WithVarint, WithLengthPrefix

\* The value a message-typed field holds.
LEMMA HeldValue ==
  ASSUME ParserInv, pc = "parseField"
  PROVE  /\ MsgsOK(msgs) /\ Len(msgs) \in Nat
         /\ ValueOK(msgs, Value, Field)
<1>1. /\ p2.msg \in 1 .. Len(msgs) /\ msgs[p2.msg].ty = p2.ty
      /\ p2.field \in 1 .. Len(Fields[p2.ty])
  BY AtThunkFacts
<1>2. MsgsOK(msgs)
  BY InvMsgs
<1>3. MessageOK(msgs, msgs[p2.msg]) /\ Len(msgs) \in Nat
  BY <1>1, <1>2, MessageFacts
<1> QED
  BY <1>1, <1>2, <1>3 DEF MessageOK, Value, Field

\* The submessage a thunk pushes is, or becomes, a message of the type of its
\* field, and the field refers to it.
LEMMA SubMessageSafe ==
  ASSUME ParserInv, AtThunk({"message", "messages", "group", "groups"}), StoreSubMessage
  PROVE  /\ MsgsOK(msgs') /\ Keeps(msgs, msgs')
         /\ SubMessage \in 1 .. Len(msgs') /\ msgs'[SubMessage].ty = Field.sub
         /\ SubMessage \in Nat
<1>1. pc = "parseField" /\ Field.kind \in {"message", "messages", "group", "groups"}
  BY DEF AtThunk
<1>2. /\ p2.msg \in 1 .. Len(msgs) /\ msgs[p2.msg].ty = p2.ty
      /\ p2.field \in 1 .. Len(Fields[p2.ty]) /\ Field.sub \in Types
  BY <1>1, AtThunkFacts
<1>3. MsgsOK(msgs) /\ Len(msgs) \in Nat /\ ValueOK(msgs, Value, Field)
  BY <1>1, HeldValue
<1>4. CASE Field.kind \in {"message", "group"} /\ Value # NilMessage
  <2>1. SubMessage = Value
    BY <1>4 DEF SubMessage
  <2>2. Value \in Refs(Value, Field.kind)
    BY <1>4 DEF Refs
  <2>3. Value \in 1 .. Len(msgs) /\ msgs[Value].ty = Field.sub
    BY <1>3, <2>2 DEF ValueOK
  <2>4. msgs' = msgs
    BY <1>3, <2>1, <2>3 DEF StoreSubMessage
  <2>5. Keeps(msgs, msgs')
    BY <1>3, <2>4 DEF Keeps
  <2> QED
    BY <1>3, <2>1, <2>3, <2>4, <2>5
<1>5. CASE ~(Field.kind \in {"message", "group"} /\ Value # NilMessage)
  <2> DEFINE ms2 == Append(msgs, NewMessage(Field.sub))
             new == Len(msgs) + 1
             v == IF Field.kind \in {"message", "group"} THEN new ELSE Append(Value, new)
  <2>1. SubMessage = new
    BY <1>5 DEF SubMessage
  <2>2. /\ MsgsOK(ms2) /\ Keeps(msgs, ms2) /\ Len(ms2) = Len(msgs) + 1
        /\ ms2[Len(msgs) + 1].ty = Field.sub
        /\ \A k \in 1 .. Len(msgs) : ms2[k] = msgs[k]
    BY <1>2, <1>3, AddMessage
  <2>3. ms2[p2.msg].vals[p2.field] = Value
    BY <1>2, <2>2 DEF Value
  <2>4. msgs' = [ms2 EXCEPT ![p2.msg].vals[p2.field] = v]
    <3>1. ~(SubMessage <= Len(msgs))
      BY <1>3, <2>1
    <3>2. msgs' = [ms2 EXCEPT ![p2.msg].vals[p2.field] =
                     IF Field.kind \in {"message", "group"} THEN SubMessage
                     ELSE Append(ms2[p2.msg].vals[p2.field], SubMessage)]
      BY <3>1 DEF StoreSubMessage
    <3> QED
      BY <2>1, <2>3, <3>2
  <2> HIDE DEF ms2
  <2>5. new \in Nat /\ new \in 1 .. Len(ms2) /\ ms2[new].ty = Field.sub
    BY <1>3, <2>2
  <2>6. ValueOK(ms2, Value, Field)
    BY <1>3, <2>2, KeepsValues
  <2>7. v \in Values /\ ValueOK(ms2, v, Field)
    <3> HIDE DEF new
    <3>1. CASE Field.kind \in {"message", "group"}
      BY <2>5, <3>1 DEF Values, ValueOK, Refs
    <3>2. CASE Field.kind \in {"messages", "groups"}
      <4>1. Value \in Seq(Nat) /\ v = Append(Value, new)
        BY <2>6, <3>2 DEF ValueOK
      <4>2. /\ v \in Seq(Nat) /\ Len(v) = Len(Value) + 1 /\ Len(Value) \in Nat
            /\ \A j \in 1 .. Len(Value) : v[j] = Value[j]
            /\ v[Len(Value) + 1] = new
        <5> DEFINE old == Value
        <5> HIDE DEF old, v
        <5>1. old \in Seq(Nat) /\ new \in Nat /\ v = Append(old, new)
          BY <2>5, <4>1 DEF old
        <5>2. /\ v \in Seq(Nat) /\ Len(v) = Len(old) + 1 /\ Len(old) \in Nat
              /\ \A j \in 1 .. Len(old) : v[j] = old[j]
              /\ v[Len(old) + 1] = new
          BY <5>1, AppendProperties, LenProperties
        <5> QED
          BY <5>2 DEF old
      <4> HIDE DEF v
      <4>3. \A j \in 1 .. Len(Value) : Value[j] \in 1 .. Len(ms2) /\ ms2[Value[j]].ty = Field.sub
        <5>1. Refs(Value, Field.kind) = {Value[j] : j \in 1 .. Len(Value)}
          BY <3>2 DEF Refs
        <5> QED
          BY <2>6, <5>1 DEF ValueOK
      <4>4. \A j \in 1 .. Len(v) : v[j] \in 1 .. Len(ms2) /\ ms2[v[j]].ty = Field.sub
        <5> SUFFICES ASSUME NEW j \in 1 .. Len(v)
                     PROVE  v[j] \in 1 .. Len(ms2) /\ ms2[v[j]].ty = Field.sub
          OBVIOUS
        <5>1. j \in 1 .. Len(Value) \/ j = Len(Value) + 1
          BY <4>2
        <5> QED
          BY <2>5, <4>2, <4>3, <5>1
      <4>5. Refs(v, Field.kind) = {v[j] : j \in 1 .. Len(v)}
        BY <3>2 DEF Refs
      <4> QED
        BY <3>2, <4>2, <4>4, <4>5 DEF ValueOK, Values
    <3> QED
      BY <1>1, <3>1, <3>2
  <2>8. p2.msg \in 1 .. Len(ms2) /\ ms2[p2.msg].ty = p2.ty
    BY <1>2, <1>3, <2>2
  <2> HIDE DEF v
  <2>9. MsgsOK(msgs') /\ Keeps(ms2, msgs')
    BY <1>2, <2>2, <2>4, <2>7, <2>8, StoreValue DEF Field
  <2> HIDE DEF new
  <2>10. new \in 1 .. Len(msgs') /\ msgs'[new].ty = Field.sub
    BY <2>5, <2>9 DEF Keeps
  <2>11. Keeps(msgs, msgs')
    BY <2>2, <2>9 DEF Keeps
  <2> QED
    BY <2>1, <2>5, <2>9, <2>10, <2>11
<1> QED
  BY <1>4, <1>5

\* A push that fails leaves a submessage behind, and nothing else.
LEMMA PushFailsStep ==
  ASSUME ParserInv, Running, PushFails, MsgsOK(msgs'), Keeps(msgs, msgs'),
         UNCHANGED <<input, slack>>
  PROVE  ParserInv'
<1>1. /\ pc' = "failed" /\ err' = "RecursionDepth"
      /\ UNCHANGED <<p1, p2, stack, tries, skips, start>>
  BY DEF PushFails, regs
<1>2. ThunkSafe
  BY <1>1, InvTypes DEF ThunkSafe, ErrorOk
<1> QED
  BY <1>1, <1>2, StayStep

\* What a thunk that continues with message m of type ty must establish.
LEMMA ContinueWith ==
  ASSUME ParserInv, Running, UNCHANGED <<input, slack, tries, skips, start>>,
         MsgsOK(msgs'), Keeps(msgs, msgs'),
         NEW o \in Nat, NEW e \in Nat, NEW g \in Int, NEW m \in 1 .. Len(msgs'),
         NEW ty \in Types, NEW i \in Int, msgs'[m].ty = ty,
         ThunkReturns(o, e, g, m, ty, i)
  PROVE  ThunkSafe /\ p1'.end = e /\ p1'.endGroup = g
<1>1. /\ pc' = "checkDone" /\ err' = err
      /\ p1' = [ptr |-> o, end |-> e, endGroup |-> g]
      /\ p2' = [msg |-> m, ty |-> ty, field |-> NextOkOf(ty, i), scratch |-> 0]
  BY DEF ThunkReturns, Goto
<1>2. NextOkOf(ty, i) \in Int /\ m \in Nat
  BY TableTypes
<1>3. p1' \in P1Type /\ p1'.end = e /\ p1'.endGroup = g
  BY <1>1 DEF P1Type
<1>4. p2' \in P2Type /\ p2'.msg = m /\ p2'.ty = ty
  BY <1>1, <1>2 DEF P2Type
<1>5. (pc' = "failed") = (err' # ErrorOk)
  BY <1>1 DEF ParserInv, TypeOK, Running, Final
<1> QED
  BY <1>1, <1>3, <1>4, <1>5 DEF ThunkSafe

\* parseMessage and parseRepeatedMessage.
LEMMA ParseMessageStep ==
  ASSUME ParserInv, ParseMessage, UNCHANGED <<input, slack>>
  PROVE  ParserInv'
<1>1. pc = "parseField"
  BY DEF ParseMessage, AtThunk
<1>2. Running /\ Field.sub \in Types
  BY <1>1, AtThunkFacts
<1>3. CASE Fault \/ Fail("Truncated") \/ Fail("Overflow")
  BY <1>2, <1>3, FailuresAreQuiet, QuietStep DEF Codes
<1>4. CASE /\ ~VarintFaults /\ StoreSubMessage
           /\ IF Varint # 0 /\ NeedsFrame(AfterVarint, Varint) /\ StackFull
              THEN PushFails
              ELSE /\ PushMessage(AfterVarint, Varint, SubMessage, Field.sub)
                   /\ UNCHANGED <<tries, skips, start>>
  <2>1. Varint \in Nat /\ AfterVarint \in Nat
    BY <1>4, InvMemory, VarintIsNat
  <2>2. AtThunk({"message", "messages", "group", "groups"})
    BY DEF ParseMessage, AtThunk
  <2>3. /\ MsgsOK(msgs') /\ Keeps(msgs, msgs')
        /\ SubMessage \in 1 .. Len(msgs') /\ msgs'[SubMessage].ty = Field.sub
    BY <1>4, <2>2, SubMessageSafe
  <2>4. CASE PushFails
    BY <1>2, <2>3, <2>4, PushFailsStep
  <2>5. CASE /\ Varint = 0
             /\ PushMessage(AfterVarint, Varint, SubMessage, Field.sub)
             /\ UNCHANGED <<tries, skips, start>>
    <3>1. /\ ThunkReturns(AfterVarint, p1.end, p1.endGroup, p2.msg, p2.ty, p2.field)
          /\ UNCHANGED stack
      BY <2>5 DEF PushMessage
    <3>2. p1.end \in Nat /\ p1.endGroup \in Int /\ p2.ty \in Types /\ p2.field \in Int
      BY InvTypes DEF P1Type, P2Type
    <3>3. p2.msg \in 1 .. Len(msgs') /\ msgs'[p2.msg].ty = p2.ty
      BY <1>2, <2>3, FramesKept
    <3>4. ThunkSafe /\ p1'.end = p1.end /\ p1'.endGroup = p1.endGroup
      BY <1>2, <2>1, <2>3, <2>5, <3>1, <3>2, <3>3, ContinueWith
    <3> QED
      BY <1>2, <3>1, <3>4, StayStep
  <2>6. CASE /\ Varint # 0 /\ ~(NeedsFrame(AfterVarint, Varint) /\ StackFull)
             /\ PushMessage(AfterVarint, Varint, SubMessage, Field.sub)
             /\ UNCHANGED <<tries, skips, start>>
    <3> DEFINE e == AfterVarint + Varint
    <3>1. /\ ThunkReturns(AfterVarint, e, NotAGroup, SubMessage, Field.sub, Entrypoint)
          /\ stack' = IF NeedsFrame(AfterVarint, Varint) THEN Append(stack, Frame) ELSE stack
      BY <2>6 DEF PushMessage
    <3>2. e \in Nat /\ NotAGroup \in Int /\ Entrypoint \in Int
      BY <2>1 DEF NotAGroup, Entrypoint
    <3> HIDE DEF e
    <3>3. ThunkSafe /\ p1'.end = e /\ p1'.endGroup = NotAGroup
      BY <1>2, <2>1, <2>3, <2>6, <3>1, <3>2, ContinueWith
    <3>4. CASE NeedsFrame(AfterVarint, Varint)
      BY <1>2, <2>6, <3>1, <3>3, <3>4, PushStep
    <3>5. CASE ~NeedsFrame(AfterVarint, Varint)
      <4>1. p1.endGroup = NotAGroup /\ p1.end = e
        BY <3>5 DEF NeedsFrame, e
      <4> QED
        BY <1>2, <3>1, <3>3, <3>5, <4>1, StayStep
    <3> QED
      BY <3>4, <3>5
  <2> QED
    BY <1>4, <2>4, <2>5, <2>6
<1> QED
  BY <1>3, <1>4 DEF ParseMessage, WithVarint, WithLengthPrefix

\* parseGroup and parseRepeatedGroup.
LEMMA ParseGroupStep ==
  ASSUME ParserInv, ParseGroup, UNCHANGED <<input, slack>>
  PROVE  ParserInv'
<1>1. pc = "parseField" /\ StoreSubMessage
  BY DEF ParseGroup, AtThunk
<1>2. Running /\ Field.sub \in Types
  BY <1>1, AtThunkFacts
<1>3. AtThunk({"message", "messages", "group", "groups"})
  BY DEF ParseGroup, AtThunk
<1>4. /\ MsgsOK(msgs') /\ Keeps(msgs, msgs')
      /\ SubMessage \in 1 .. Len(msgs') /\ msgs'[SubMessage].ty = Field.sub
  BY <1>1, <1>3, SubMessageSafe
<1>5. CASE StackFull
  <2>1. PushFails
    BY <1>5 DEF ParseGroup
  <2> QED
    BY <1>2, <1>4, <2>1, PushFailsStep
<1>6. CASE ~StackFull
  <2>1. /\ ThunkReturns(p1.ptr, p1.end, p2.scratch + 1, SubMessage, Field.sub, Entrypoint)
        /\ stack' = Append(stack, Frame) /\ UNCHANGED <<tries, skips, start>>
    BY <1>6 DEF ParseGroup, PushGroup
  <2>2. p1.ptr \in Nat /\ p1.end \in Nat /\ p2.scratch + 1 \in Int /\ Entrypoint \in Int
    BY InvTypes DEF P1Type, P2Type, Entrypoint
  <2>3. ThunkSafe
    BY <1>2, <1>4, <2>1, <2>2, ContinueWith
  <2> QED
    BY <1>2, <1>6, <2>1, <2>3, PushStep
<1> QED
  BY <1>5, <1>6

----------------------------------------------------------------------------
(* Recording unknown records *)

\* Adding a range keeps a sequence of ranges one.
LEMMA AddUnknownType ==
  ASSUME NEW u \in Seq([start : Int, len : Int]), NEW from \in Int, NEW n \in Int
  PROVE  AddUnknown(u, from, n) \in Seq([start : Int, len : Int])
<1> DEFINE R == [start : Int, len : Int]
           k == Len(u)
<1>1. [start |-> from, len |-> n] \in R
  OBVIOUS
<1>2. CASE k > 0 /\ u[k].start + u[k].len = from
  <2>1. k \in 1 .. Len(u)
    BY <1>2, LenProperties
  <2>2. u[k] \in R
    BY <2>1, ElementOfSeq
  <2>3. [u[k] EXCEPT !.len = @ + n] \in R
    BY <2>2
  <2>4. AddUnknown(u, from, n) = [u EXCEPT ![k] = [u[k] EXCEPT !.len = @ + n]]
    BY <1>2 DEF AddUnknown
  <2> HIDE DEF R
  <2>5. [u EXCEPT ![k] = [u[k] EXCEPT !.len = @ + n]] \in Seq(R)
    <3> DEFINE r == [u[k] EXCEPT !.len = @ + n]
    <3>1. r \in R /\ u \in Seq(R)
      BY <2>3 DEF R
    <3> HIDE DEF r
    <3>2. [u EXCEPT ![k] = r] \in Seq(R)
      BY <2>1, <3>1
    <3> QED
      BY <3>2 DEF r
  <2> QED
    BY <2>4, <2>5 DEF R
<1>3. CASE ~(k > 0 /\ u[k].start + u[k].len = from)
  <2>1. AddUnknown(u, from, n) = Append(u, [start |-> from, len |-> n])
    BY <1>3 DEF AddUnknown
  <2> QED
    BY <1>1, <2>1, AppendProperties
<1> QED
  BY <1>2, <1>3

\* The rest of handleUnknown.
LEMMA KeepUnknownStep ==
  ASSUME ParserInv, KeepUnknown, UNCHANGED <<input, slack>>
  PROVE  ParserInv'
<1>1. pc = "keepUnknown" /\ pc' = "nextUnknown" /\ err' = err
  BY DEF KeepUnknown, Goto
<1>2. UNCHANGED <<p1, p2, stack, tries, skips, start>>
  BY DEF KeepUnknown, regs
<1>3. Running /\ err = ErrorOk
  BY <1>1 DEF ParserInv, TypeOK, Running, Final
<1>4. p2.msg \in 1 .. Len(msgs) /\ msgs[p2.msg].ty = p2.ty
  BY <1>3 DEF ParserInv, WellTyped, Agrees
<1>5. MsgsOK(msgs) /\ Len(msgs) \in Nat
  BY <1>4, InvMsgs, MessageFacts
<1>6. MsgsOK(msgs') /\ Keeps(msgs, msgs')
  <2>1. CASE DiscardUnknown
    BY <1>5, <2>1 DEF KeepUnknown, Keeps
  <2>2. CASE ~DiscardUnknown
    <3> DEFINE old == msgs[p2.msg]
               u == AddUnknown(old.unknown, start, p1.ptr - start)
               m == [old EXCEPT !.unknown = u]
    <3>1. old \in MessageType /\ MessageOK(msgs, old)
      BY <1>4, <1>5, MessageFacts
    <3>2. old.unknown \in Seq([start : Int, len : Int])
      BY <3>1 DEF MessageType
    <3>3. start \in Int /\ p1.ptr - start \in Int
      BY InvTypes DEF P1Type
    <3>4. u \in Seq([start : Int, len : Int])
      BY <3>2, <3>3, AddUnknownType
    <3> HIDE DEF u, old
    <3>5. m \in MessageType /\ m.ty = old.ty /\ m.vals = old.vals
      BY <3>1, <3>4 DEF MessageType
    <3> HIDE DEF m
    <3>6. MessageOK(msgs, m)
      BY <3>1, <3>5 DEF MessageOK
    <3>7. MsgsOK([msgs EXCEPT ![p2.msg] = m]) /\ Keeps(msgs, [msgs EXCEPT ![p2.msg] = m])
      BY <1>4, <1>5, <3>5, <3>6, ReplaceMessage DEF old
    <3>8. msgs' = [msgs EXCEPT ![p2.msg] = m]
      BY <2>2 DEF KeepUnknown, m, u, old
    <3> QED
      BY <3>7, <3>8
  <2> QED
    BY <2>1, <2>2
<1>7. p2.msg \in 1 .. Len(msgs') /\ msgs'[p2.msg].ty = p2.ty
  BY <1>3, <1>6, FramesKept
<1>8. ThunkSafe
  BY <1>1, <1>2, <1>3, <1>6, <1>7, InvTypes DEF ThunkSafe
<1> QED
  BY <1>2, <1>3, <1>8, StayStep

----------------------------------------------------------------------------
(* The first step, and all of them *)

\* Run: the root message is pushed on an empty stack.
LEMMA RunStep ==
  ASSUME ParserInv, Run, UNCHANGED <<input, slack>>
  PROVE  ParserInv'
<1>1. /\ pc = "run" /\ stack = <<>> /\ p1.ptr = 0 /\ p1.endGroup # NotAGroup
      /\ Len(msgs) = 1 /\ msgs[1].ty = Root /\ err = ErrorOk
  BY DEF Run, ParserInv, FreshStart, TypeOK
<1>2. /\ Len(stack) = 0 /\ MaxDepth \in Nat /\ Root \in Types
      /\ Len(input) \in Nat
  BY <1>1, InvMemory, ParserAssumption DEF MemoryTyped
<1>3. MsgsOK(msgs)
  BY InvMsgs
<1>4. CASE pc' = "done" /\ err' = err /\ UNCHANGED <<regs, msgs>> /\ input = <<>>
  <2>0. UNCHANGED <<p1, p2, stack, tries, skips, start, msgs>>
    BY <1>4 DEF regs
  <2>1. TypeOK'
    BY <1>1, <1>4, <2>0 DEF ParserInv, TypeOK, Labels, Final
  <2>2. StackInBounds' /\ BottomIsRoot' /\ ThunkInTable' /\ FreshStart'
    BY <1>2, <1>4, <2>0
    DEF StackInBounds, BottomIsRoot, Running, Final, ThunkInTable, FreshStart
  <2>3. AcceptedConsumesAll'
    BY <1>1, <1>4, <2>0 DEF AcceptedConsumesAll
  <2>4. WellFormed'
    BY <2>0 DEF ParserInv, WellFormed
  <2>5. WellTyped'
    BY <1>4, <2>0 DEF ParserInv, WellTyped, Agrees, Running, Final
  <2> QED
    BY <2>1, <2>2, <2>3, <2>4, <2>5 DEF ParserInv
<1>5. CASE PushFails /\ UNCHANGED msgs
  <2>0. /\ UNCHANGED <<p1, p2, stack, tries, skips, start, msgs>>
        /\ pc' = "failed" /\ err' # ErrorOk
    BY <1>5 DEF PushFails, regs, ErrorOk
  <2>1. TypeOK'
    BY <2>0 DEF ParserInv, TypeOK, Labels, Final
  <2>2. /\ StackInBounds' /\ BottomIsRoot' /\ ThunkInTable' /\ FreshStart'
        /\ AcceptedConsumesAll'
    BY <1>2, <2>0 DEF StackInBounds, BottomIsRoot, Running, Final, ThunkInTable,
                      FreshStart, AcceptedConsumesAll
  <2>3. WellFormed'
    BY <2>0 DEF ParserInv, WellFormed
  <2>4. WellTyped'
    BY <2>0 DEF ParserInv, WellTyped, Agrees, Running, Final
  <2> QED
    BY <2>1, <2>2, <2>3, <2>4 DEF ParserInv
<1>6. CASE /\ input # <<>> /\ ~StackFull
           /\ PushMessage(0, Len(input), 1, Root)
           /\ UNCHANGED <<tries, skips, start, msgs>>
  <2>1. Len(input) # 0
    BY <1>6, InvMemory DEF MemoryTyped
  <2>2. NeedsFrame(0, Len(input))
    BY <1>1 DEF NeedsFrame
  <2>3. /\ ThunkReturns(0, Len(input), NotAGroup, 1, Root, Entrypoint)
        /\ stack' = Append(stack, Frame)
    BY <1>6, <2>1, <2>2 DEF PushMessage
  <2>4. /\ pc' = "checkDone" /\ err' = err
        /\ p1' = [ptr |-> 0, end |-> Len(input), endGroup |-> NotAGroup]
        /\ p2' = [msg |-> 1, ty |-> Root, field |-> NextOkOf(Root, Entrypoint), scratch |-> 0]
    BY <2>3 DEF ThunkReturns, Goto
  <2>5. p1' \in P1Type /\ p1'.end = Len(input) /\ p1'.endGroup = NotAGroup
    BY <1>2, <2>4 DEF P1Type, NotAGroup
  <2>6. p2' \in P2Type /\ p2'.msg = 1 /\ p2'.ty = Root
    BY <1>2, <2>4, TableTypes DEF P2Type, Entrypoint
  <2>7. Frame \in FrameType
    BY InvTypes DEF Frame, FrameType, P1Type, P2Type
  <2>8. stack' \in Seq(FrameType) /\ Len(stack') = 1 /\ stack' # <<>>
    <3> DEFINE f == Frame
    <3>1. stack' = <<f>>
      BY <1>1, <2>3
    <3> HIDE DEF f
    <3> QED
      BY <2>7, <3>1 DEF f
  <2>9. TypeOK'
    BY <1>1, <1>6, <2>4, <2>5, <2>6, <2>8
    DEF ParserInv, TypeOK, Labels, Final, P1Type, P2Type
  <2>10. StackInBounds'
    <3>1. MaxDepth >= 1
      BY <1>2, <1>6 DEF StackFull
    <3> QED
      BY <2>8, <3>1 DEF StackInBounds
  <2>11. BottomIsRoot'
    BY <2>5, <2>8 DEF BottomIsRoot, BottomEnd, BottomGroup
  <2>12. AcceptedConsumesAll' /\ ThunkInTable' /\ FreshStart'
    BY <2>4 DEF AcceptedConsumesAll, ThunkInTable, FreshStart
  <2>13. WellFormed'
    BY <1>6 DEF ParserInv, WellFormed
  <2>14. WellTyped'
    <3>1. Agrees(p2.msg, p2.ty)'
      <4>1. 1 \in 1 .. Len(msgs) /\ msgs' = msgs
        BY <1>1, <1>6
      <4> QED
        BY <1>1, <2>6, <4>1 DEF Agrees
    <3>2. (\A k \in 2 .. Len(stack) : Agrees(stack[k].msg, stack[k].ty))'
      BY <2>8
    <3> QED
      BY <1>6, <3>1, <3>2 DEF ParserInv, WellTyped, Agrees
  <2> QED
    BY <2>9, <2>10, <2>11, <2>12, <2>13, <2>14 DEF ParserInv
<1> QED
  BY <1>4, <1>5, <1>6 DEF Run, Goto

\* A read beyond the slack instead of a tag.
LEMMA NumberFaultsStep ==
  ASSUME ParserInv, NumberFaults, UNCHANGED <<input, slack>>
  PROVE  ParserInv'
<1>1. Running /\ Fault
  BY DEF NumberFaults, Running, Final
<1> QED
  BY <1>1, FailuresAreQuiet, QuietStep

\* The states Run is entered in satisfy the invariant.
LEMMA InitInv == Init => ParserInv
<1> SUFFICES ASSUME Init PROVE ParserInv
  OBVIOUS
<1>1. /\ pc = "run" /\ stack = <<>> /\ tries = 0 /\ skips = <<>> /\ start = 0
      /\ err = ErrorOk /\ Len(stack) = 0 /\ MaxDepth \in Nat /\ Root \in Types
      /\ p1 = [ptr |-> 0, end |-> 0, endGroup |-> 0]
      /\ p2 = [msg |-> NilMessage, ty |-> Root, field |-> NilField, scratch |-> 0]
  BY ParserAssumption DEF Init
<1>2. p1 \in P1Type /\ p1.ptr = 0 /\ p1.endGroup # NotAGroup
  BY <1>1 DEF P1Type, NotAGroup
<1>3. p2 \in P2Type
  BY <1>1 DEF P2Type, NilMessage, NilField
<1>4. input \in Seq(0 .. 255) /\ slack \in Seq(0 .. 255)
  BY ParserAssumption DEF Init
<1>5. MsgsOK(<<>>)
  BY DEF MsgsOK
<1>6. msgs = Append(<<>>, NewMessage(Root))
  <2> DEFINE m == NewMessage(Root)
  <2>1. msgs = <<m>>
    BY DEF Init
  <2> HIDE DEF m
  <2>2. msgs = Append(<<>>, m)
    BY <2>1
  <2> QED
    BY <2>2 DEF m
<1>7. MsgsOK(msgs) /\ Len(msgs) = 1 /\ msgs[1].ty = Root
  <2> DEFINE none == <<>>
  <2>1. Len(none) = 0
    OBVIOUS
  <2> HIDE DEF none
  <2>2. MsgsOK(none) /\ msgs = Append(none, NewMessage(Root)) /\ Len(none) + 1 = 1
    BY <1>5, <1>6, <2>1 DEF none
  <2>3. MsgsOK(msgs) /\ Len(msgs) = Len(none) + 1 /\ msgs[Len(none) + 1].ty = Root
    BY <1>1, <2>2, AddMessage
  <2> QED
    BY <2>2, <2>3
<1>8. TypeOK
  BY <1>1, <1>2, <1>3, <1>4, <1>7 DEF TypeOK, P1Type, P2Type, MsgsOK, Labels, Final
<1>9. StackInBounds /\ BottomIsRoot /\ AcceptedConsumesAll /\ ThunkInTable /\ FreshStart
  BY <1>1, <1>2, <1>7 DEF StackInBounds, BottomIsRoot, AcceptedConsumesAll, ThunkInTable,
                          FreshStart, Running
<1>10. WellFormed
  BY <1>7 DEF WellFormed, MsgsOK, MessageOK, ValueOK
<1>11. WellTyped
  BY <1>1, <1>7 DEF WellTyped, MsgsOK, MessageOK, ValueOK, Agrees, Running
<1> QED
  BY <1>8, <1>9, <1>10, <1>11 DEF ParserInv

\* Every step preserves the invariant.
LEMMA NextInv == ParserInv /\ [Next]_vars => ParserInv'
<1> SUFFICES ASSUME ParserInv, [Next]_vars PROVE ParserInv'
  OBVIOUS
<1>1. CASE UNCHANGED vars
  <2>1. UNCHANGED <<input, slack, pc, p1, p2, stack, tries, skips, start, msgs, err>>
    BY <1>1 DEF vars, regs
  <2>2. TypeOK'
    BY <2>1 DEF ParserInv, TypeOK
  <2>3. StackInBounds' /\ BottomIsRoot' /\ AcceptedConsumesAll' /\ ThunkInTable' /\ FreshStart'
    BY <2>1 DEF ParserInv, StackInBounds, BottomIsRoot, BottomEnd, BottomGroup, Running,
                AcceptedConsumesAll, ThunkInTable, FreshStart
  <2>4. WellFormed' /\ WellTyped'
    BY <2>1 DEF ParserInv, WellFormed, WellTyped, Agrees, Running
  <2> QED
    BY <2>2, <2>3, <2>4 DEF ParserInv
<1>2. CASE Next
  <2>0. UNCHANGED <<input, slack>>
    BY <1>2 DEF Next
  <2>1. CASE Run
    BY <2>0, <2>1, RunStep
  <2>2. CASE CheckDone
    BY <2>0, <2>2, CheckDoneStep
  <2>3. CASE NumberSmall
    BY <2>0, <2>3, NumberSmallQuiet, QuietStep
  <2>4. CASE NumberLarge
    BY <2>0, <2>4, NumberLargeQuiet, QuietStep
  <2>5. CASE NumberFaults
    BY <2>0, <2>5, NumberFaultsStep
  <2>6. CASE TryField
    BY <2>0, <2>6, TryFieldQuiet, QuietStep
  <2>7. CASE MissedField
    BY <2>0, <2>7, MissedFieldStep
  <2>8. CASE ParseVarint \/ ParseFixed \/ ParseBytes
    BY <2>0, <2>8, ScalarStep
  <2>9. CASE ParseMessage
    BY <2>0, <2>9, ParseMessageStep
  <2>10. CASE ParseGroup
    BY <2>0, <2>10, ParseGroupStep
  <2>11. CASE HandleUnknown
    BY <2>0, <2>11, HandleUnknownQuiet, QuietStep
  <2>12. CASE SkipVarint \/ SkipFixed32 \/ SkipFixed64 \/ SkipBytes
    BY <2>0, <2>12, SkipValueQuiet, QuietStep
  <2>13. CASE SkipZero \/ SkipStartGroup \/ SkipEndGroup \/ SkipReserved
    BY <2>0, <2>13, SkipGroupQuiet, QuietStep
  <2>14. CASE SkipTag
    BY <2>0, <2>14, SkipTagQuiet, QuietStep
  <2>15. CASE KeepUnknown
    BY <2>0, <2>15, KeepUnknownStep
  <2>16. CASE NextUnknown
    BY <2>0, <2>16, NextUnknownStep
  <2> QED
    BY <1>2, <2>1, <2>2, <2>3, <2>4, <2>5, <2>6, <2>7, <2>8, <2>9, <2>10, <2>11, <2>12,
       <2>13, <2>14, <2>15, <2>16 DEF Next
<1> QED
  BY <1>1, <1>2

\* For every input, whatever follows it in memory, and every table, depth and
\* miss limit, the inductive invariant holds in every state of a parse.
THEOREM ParserInvariance == Spec => []ParserInv
<1> QED
  BY InitInv, NextInv, PTL DEF Spec

\* The registers, the stack and the messages keep their types, and a parse
\* fails exactly when an error code is recorded.
THEOREM TypeCorrect == Spec => []TypeOK
<1>1. ParserInv => TypeOK
  BY DEF ParserInv
<1> QED
  BY <1>1, ParserInvariance, PTL

\* push never writes above the stack and pop never reads below it, although
\* PushMessage elides frames.
THEOREM StackSafe == Spec => []StackInBounds
<1>1. ParserInv => StackInBounds
  BY DEF ParserInv
<1> QED
  BY <1>1, ParserInvariance, PTL

\* The bottom of the stack always belongs to the root message and the whole
\* input.
THEOREM RootAtBottom == Spec => []BottomIsRoot
<1>1. ParserInv => BottomIsRoot
  BY DEF ParserInv
<1> QED
  BY <1>1, ParserInvariance, PTL

\* A parse that succeeds consumed exactly the input, even though the parser
\* can run past the end of a message and go on parsing there.
THEOREM AcceptsWholeInput == Spec => []AcceptedConsumesAll
<1>1. ParserInv => AcceptedConsumesAll
  BY DEF ParserInv
<1> QED
  BY <1>1, ParserInvariance, PTL

\* Messages are only written through the tables of their own type, and
\* message-typed fields refer to messages of the right type.
THEOREM TablesMatchMessages == Spec => []WellTyped
<1>1. ParserInv => WellTyped
  BY DEF ParserInv
<1> QED
  BY <1>1, ParserInvariance, PTL

----------------------------------------------------------------------------
(***************************************************************************)
(* Unknown fields: that the ranges of every message are recorded in input  *)
(* order, joined and disjoint.  The heart of it is that handleUnknown,     *)
(* which is given only the value of a tag and where it ended, never        *)
(* rewinds past the first byte of that tag.                                *)
(***************************************************************************)
(* Rewinding over a tag *)

\* A set of naturals with an element below n has a last one below n.
LEMMA LastBelow ==
  ASSUME NEW n \in Nat, NEW B, NEW q \in 0 .. n - 1, q \in B
  PROVE  \E t \in 0 .. n - 1 : t \in B /\ \A r \in t + 1 .. n - 1 : r \notin B
<1> DEFINE S == {k \in 0 .. n - 1 : n - 1 - k \in B}
<1>1. S \subseteq Nat
  OBVIOUS
<1>2. S # {}
  <2>1. n - 1 - q \in 0 .. n - 1 /\ n - 1 - (n - 1 - q) = q
    OBVIOUS
  <2> QED
    BY <2>1
<1>3. PICK k \in S : \A j \in S : k <= j
  <2> HIDE DEF S
  <2> QED
    BY <1>1, <1>2, LeastOf
<1>4. n - 1 - k \in 0 .. n - 1 /\ n - 1 - k \in B
  OBVIOUS
<1>5. ASSUME NEW r \in (n - 1 - k) + 1 .. n - 1, r \in B
      PROVE  FALSE
  <2>1. n - 1 - r \in 0 .. n - 1 /\ n - 1 - r < k /\ n - 1 - (n - 1 - r) = r
    BY <1>4
  <2>2. n - 1 - r \in S
    BY <1>5, <2>1
  <2> QED
    BY <1>3, <2>1, <2>2
<1> QED
  BY <1>4, <1>5

\* The low seven bits of the readable bytes.
LEMMA Sevens ==
  ASSUME MemoryTyped, NEW q \in Nat, q < Limit
  PROVE  \A i \in 0 .. q : Byte(i) % 128 \in 0 .. 127
<1> SUFFICES ASSUME NEW i \in 0 .. q PROVE Byte(i) % 128 \in 0 .. 127
  OBVIOUS
<1>1. Limit \in Nat
  BY DEF MemoryTyped, Limit
<1>2. Byte(i) \in 0 .. 255
  BY <1>1, ByteType
<1> QED
  BY <1>2

\* protowire.SizeVarint of a varint at o .. q whose last byte with a bit set is t
\* is at most the number of bytes from o to t.
LEMMA SizeOfValue ==
  ASSUME MemoryTyped, NEW o \in Nat, NEW q \in Nat, o <= q, q < Limit,
         NEW t \in o .. q, \A r \in t + 1 .. q : Byte(r) % 128 = 0
  PROVE  SizeVarint(VarintValue(o, q)) \in 1 .. t - o + 1
<1> DEFINE d0 == Digit(o, q)
           d1 == Digit(o + 1, q)
           d2 == Digit(o + 2, q)
           d3 == Digit(o + 3, q)
           v == VarintValue(o, q)
<1> SUFFICES SizeVarint(v) \in 1 .. t - o + 1
  OBVIOUS
<1>1. \A i \in Nat : Digit(i, q) \in 0 .. 127 /\ (i > t => Digit(i, q) = 0)
  BY Sevens DEF Digit
<1>2. d0 \in 0 .. 127 /\ d1 \in 0 .. 127 /\ d2 \in 0 .. 127 /\ d3 \in 0 .. 127
  BY <1>1
<1>3. SizeVarint(v) \in 1 .. 5
  BY SMT DEF SizeVarint
<1>4. CASE t >= o + 4
  <2> HIDE DEF v
  <2> QED
    BY <1>3, <1>4
<1>5. CASE t < o + 4
  <2>1. \A i \in o + 4 .. q : Byte(i) % 128 = 0
    BY <1>5
  <2>2. v = d0 + 128 * d1 + 16384 * d2 + 2097152 * d3
    BY <2>1, SMT DEF VarintValue
  <2>3. /\ t < o + 1 => d1 = 0
        /\ t < o + 2 => d2 = 0
        /\ t < o + 3 => d3 = 0
    BY <1>1
  <2> HIDE DEF v, d0, d1, d2, d3
  <2>4. CASE t = o
    <3>1. v < 128
      BY <1>2, <2>2, <2>3, <2>4, SMT
    <3> QED
      BY <2>4, <3>1, SMT DEF SizeVarint
  <2>5. CASE t = o + 1
    <3>1. v < 16384
      BY <1>2, <2>2, <2>3, <2>5, SMT
    <3> QED
      BY <2>5, <3>1, SMT DEF SizeVarint
  <2>6. CASE t = o + 2
    <3>1. v < 2097152
      BY <1>2, <2>2, <2>3, <2>6, SMT
    <3> QED
      BY <2>6, <3>1, SMT DEF SizeVarint
  <2>7. CASE t = o + 3
    <3>1. v < Huge
      BY <1>2, <2>2, SMT DEF Huge
    <3>2. SizeVarint(v) \in 1 .. 4
      BY <3>1, SMT DEF SizeVarint
    <3> QED
      BY <2>7, <3>2
  <2> QED
    BY <1>5, <2>4, <2>5, <2>6, <2>7
<1> QED
  BY <1>4, <1>5

\* A varint that is not zero has a byte with a bit set.
LEMMA ValueHasTop ==
  ASSUME MemoryTyped, NEW o \in Nat, NEW q \in Nat, o <= q, q < Limit,
         VarintValue(o, q) # 0
  PROVE  \E i \in o .. q : Byte(i) % 128 # 0
<1> SUFFICES ASSUME \A i \in o .. q : Byte(i) % 128 = 0 PROVE FALSE
  OBVIOUS
<1>1. \A i \in o + 4 .. q : Byte(i) % 128 = 0
  OBVIOUS
<1>2. Digit(o, q) = 0 /\ Digit(o + 1, q) = 0 /\ Digit(o + 2, q) = 0 /\ Digit(o + 3, q) = 0
  BY DEF Digit
<1>3. VarintValue(o, q) = 0
  BY <1>1, <1>2, SMT DEF VarintValue
<1> QED
  BY <1>3

\* handleUnknown's way back from the end of a tag stays inside the tag.
LEMMA RewindStaysInTag ==
  ASSUME MemoryTyped, UNCHANGED <<input, slack>>, NEW o \in Nat, NEW q \in Nat,
         o <= q, q < Limit, p1'.ptr = q + 1,
         NEW v, v = VarintValue(o, q), v # 0, p2'.scratch = v
  PROVE  /\ RecordStart(p2.scratch)' \in Int
         /\ o <= RecordStart(p2.scratch)' /\ RecordStart(p2.scratch)' < p1'.ptr
<1> DEFINE B == {i \in 0 .. q : Byte(i) % 128 # 0}
<1>1. PICK i \in o .. q : Byte(i) % 128 # 0
  BY ValueHasTop
<1>2. \A r \in 0 .. q : IsPadding(r)' <=> r \notin B
  BY DEF IsPadding, Byte
<1>3. i \in B /\ i \in 0 .. (q + 1) - 1 /\ q + 1 \in Nat
  BY <1>1
<1> HIDE DEF B
<1>4. PICK top \in 0 .. (q + 1) - 1 :
           top \in B /\ \A r \in top + 1 .. (q + 1) - 1 : r \notin B
  BY <1>3, LastBelow
<1>5. (q + 1) - 1 = q /\ p1'.ptr - 1 = q
  OBVIOUS
<1>6. /\ top \in 0 .. p1'.ptr - 1 /\ ~IsPadding(top)'
      /\ \A r \in top + 1 .. p1'.ptr - 1 : IsPadding(r)'
  <2>1. top \in 0 .. q /\ \A r \in top + 1 .. q : r \in 0 .. q
    BY <1>4, <1>5
  <2> QED
    BY <1>2, <1>4, <1>5, <2>1
<1>7. /\ TagTop' \in 0 .. p1'.ptr - 1 /\ ~IsPadding(TagTop)'
      /\ \A r \in TagTop' + 1 .. p1'.ptr - 1 : IsPadding(r)'
  BY <1>6, Zenon DEF TagTop
<1> DEFINE t == TagTop'
<1>8. t \in 0 .. q /\ \A r \in t + 1 .. q : Byte(r) % 128 = 0
  <2>1. t \in 0 .. q /\ \A r \in t + 1 .. q : IsPadding(r)'
    BY <1>5, <1>7
  <2> HIDE DEF t
  <2> QED
    BY <1>2, <2>1 DEF B
<1>9. t \in o .. q
  <2> HIDE DEF t
  <2> QED
    BY <1>1, <1>8
<1>10. SizeVarint(v) \in 1 .. t - o + 1
  <2> HIDE DEF t
  <2> QED
    BY <1>8, <1>9, SizeOfValue
<1>11. RecordStart(p2.scratch)' = t + 1 - SizeVarint(v)
  BY SMT DEF RecordStart, SizeVarint, Huge
<1> HIDE DEF t
<1> QED
  BY <1>9, <1>10, <1>11

----------------------------------------------------------------------------
(* Ranges *)

RangeType == [start : Int, len : Int]

\* The state predicates about ranges as predicates of the messages and of ptr.
RangesOrdered(u, n) ==
  /\ \A i \in 1 .. Len(u) : u[i].len > 0 /\ u[i].start + u[i].len <= n
  /\ \A i \in 1 .. Len(u) - 1 : u[i].start + u[i].len < u[i + 1].start

RangesEndBy(u, o) == \A i \in 1 .. Len(u) : u[i].start + u[i].len <= o

\* ms2 has the ranges of ms; new messages have none.
SameUnknowns(ms, ms2) ==
  \A m \in 1 .. Len(ms2) :
    \/ ms2[m].unknown = <<>>
    \/ m \in 1 .. Len(ms) /\ ms2[m].unknown = ms[m].unknown

\* What the definitions in Parser say, in these terms.
LEMMA RangesOfState ==
  /\ UnknownsOrdered <=> \A m \in 1 .. Len(msgs) : RangesOrdered(msgs[m].unknown, p1.ptr)
  /\ UnknownsOrdered' <=> \A m \in 1 .. Len(msgs') : RangesOrdered(msgs'[m].unknown, p1'.ptr)
  /\ \A o : UnknownsEndBy(o) <=> \A m \in 1 .. Len(msgs) : RangesEndBy(msgs[m].unknown, o)
BY DEF UnknownsOrdered, UnknownsEndBy, RangesOrdered, RangesEndBy

\* The ranges of a message.
LEMMA RangesTyped ==
  ASSUME NEW ms, MsgsOK(ms), NEW m \in 1 .. Len(ms)
  PROVE  ms[m].unknown \in Seq(RangeType)
BY MessageFacts DEF MessageType, RangeType

\* Ranges stay in order when ptr advances.
LEMMA OrderedLater ==
  ASSUME NEW u \in Seq(RangeType), NEW n \in Int, NEW n2 \in Int, n <= n2, RangesOrdered(u, n)
  PROVE  RangesOrdered(u, n2)
<1>1. \A i \in 1 .. Len(u) : u[i] \in RangeType
  BY ElementOfSeq
<1>2. \A i \in 1 .. Len(u) : u[i].start + u[i].len \in Int
  BY <1>1 DEF RangeType
<1>3. ASSUME NEW i \in 1 .. Len(u)
      PROVE  u[i].len > 0 /\ u[i].start + u[i].len <= n2
  <2>1. PICK x \in Int : x = u[i].start + u[i].len
    BY <1>2
  <2>2. u[i].len > 0 /\ x <= n
    BY <2>1 DEF RangesOrdered
  <2>3. x <= n2
    BY <2>2
  <2> QED
    BY <2>1, <2>2, <2>3
<1>4. \A i \in 1 .. Len(u) - 1 : u[i].start + u[i].len < u[i + 1].start
  BY Zenon DEF RangesOrdered
<1> QED
  BY <1>3, <1>4, Zenon DEF RangesOrdered

\* A sequence without ranges is in order.
LEMMA NoRanges ==
  ASSUME NEW n
  PROVE  RangesOrdered(<<>>, n) /\ RangesEndBy(<<>>, n)
BY DEF RangesOrdered, RangesEndBy

\* Storing a value changes no ranges.
LEMMA StoreSame ==
  ASSUME NEW ms \in Seq(MessageType), NEW k \in 1 .. Len(ms), NEW i, NEW v
  PROVE  SameUnknowns(ms, [ms EXCEPT ![k].vals[i] = v])
<1> DEFINE m2 == [ms[k] EXCEPT !.vals = [ms[k].vals EXCEPT ![i] = v]]
           ms2 == [ms EXCEPT ![k] = m2]
<1>1. ms[k] \in MessageType
  BY ElementOfSeq
<1>2. m2.unknown = ms[k].unknown
  BY <1>1 DEF MessageType
<1> HIDE DEF m2
<1>3. DOMAIN ms = 1 .. Len(ms) /\ Len(ms) \in Nat
  BY LenProperties
<1>4. Len(ms2) = Len(ms)
  BY <1>3, LenProperties
<1>5. \A j \in 1 .. Len(ms) : ms2[j] = IF j = k THEN m2 ELSE ms[j]
  BY <1>3
<1> HIDE DEF ms2
<1>6. SameUnknowns(ms, ms2)
  BY <1>2, <1>4, <1>5 DEF SameUnknowns
<1> QED
  BY <1>6 DEF ms2, m2

\* Adding a message changes no ranges.
LEMMA AddSame ==
  ASSUME NEW ms, MsgsOK(ms), NEW ty \in Types
  PROVE  SameUnknowns(ms, Append(ms, NewMessage(ty)))
<1> DEFINE new == NewMessage(ty)
           ms2 == Append(ms, new)
<1>1. new.unknown = <<>>
  BY DEF NewMessage
<1> HIDE DEF new
<1>2. ms \in Seq(MessageType) /\ Len(ms) \in Nat
  BY LenProperties DEF MsgsOK
<1>3. /\ Len(ms2) = Len(ms) + 1 /\ ms2[Len(ms) + 1] = new
      /\ \A j \in 1 .. Len(ms) : ms2[j] = ms[j]
  <2>1. MsgsOK(ms2) /\ Len(ms2) = Len(ms) + 1 /\ \A j \in 1 .. Len(ms) : ms2[j] = ms[j]
    BY AddMessage DEF new
  <2>2. ms2[Len(ms) + 1] = new
    BY <1>2
  <2> QED
    BY <2>1, <2>2
<1> HIDE DEF ms2
<1>4. SameUnknowns(ms, ms2)
  BY <1>1, <1>2, <1>3 DEF SameUnknowns
<1> QED
  BY <1>4 DEF ms2, new

\* Adding a message and storing its index.
LEMMA SameTwice ==
  ASSUME NEW a, NEW b, NEW c, SameUnknowns(a, b), SameUnknowns(b, c)
  PROVE  SameUnknowns(a, c)
BY DEF SameUnknowns

\* GetMutableField and AllocMessage change no ranges.
LEMMA SubMessageSame ==
  ASSUME ParserInv, pc = "parseField", StoreSubMessage
  PROVE  SameUnknowns(msgs, msgs')
<1>1. p2.msg \in 1 .. Len(msgs) /\ Field.sub \in Types
  BY AtThunkFacts
<1>2. MsgsOK(msgs) /\ Len(msgs) \in Nat
  BY HeldValue
<1>3. CASE msgs' = msgs
  BY <1>3 DEF SameUnknowns
<1>4. CASE ~(SubMessage <= Len(msgs))
  <2> DEFINE ms2 == Append(msgs, NewMessage(Field.sub))
             v == IF Field.kind \in {"message", "group"} THEN SubMessage
                  ELSE Append(ms2[p2.msg].vals[p2.field], SubMessage)
  <2>1. msgs' = [ms2 EXCEPT ![p2.msg].vals[p2.field] = v]
    BY <1>4 DEF StoreSubMessage
  <2>2. MsgsOK(ms2) /\ Len(ms2) = Len(msgs) + 1
    BY <1>1, <1>2, AddMessage
  <2>3. SameUnknowns(msgs, ms2)
    BY <1>1, <1>2, AddSame
  <2> HIDE DEF ms2, v
  <2>4. ms2 \in Seq(MessageType) /\ p2.msg \in 1 .. Len(ms2)
    BY <1>1, <1>2, <2>2 DEF MsgsOK
  <2>5. SameUnknowns(ms2, msgs')
    BY <2>1, <2>4, StoreSame
  <2> QED
    BY <2>3, <2>5, SameTwice
<1> QED
  BY <1>3, <1>4 DEF StoreSubMessage

----------------------------------------------------------------------------
(* Steps that record nothing *)

\* Steps that keep the ranges and do not move ptr back.
LEMMA RangesKept ==
  ASSUME ParserInv, ParserInv', UnknownsOrdered, SameUnknowns(msgs, msgs'), p1.ptr <= p1'.ptr
  PROVE  /\ UnknownsOrdered'
         /\ \A o : UnknownsEndBy(o) =>
              \A m \in 1 .. Len(msgs') : RangesEndBy(msgs'[m].unknown, o)
<1>1. p1.ptr \in Int /\ p1'.ptr \in Int
  BY DEF ParserInv, TypeOK
<1>2. ASSUME NEW m \in 1 .. Len(msgs')
      PROVE  RangesOrdered(msgs'[m].unknown, p1'.ptr)
  <2>1. CASE msgs'[m].unknown = <<>>
    BY <2>1, NoRanges
  <2>2. CASE m \in 1 .. Len(msgs) /\ msgs'[m].unknown = msgs[m].unknown
    <3>1. msgs[m].unknown \in Seq(RangeType)
      BY <2>2, InvMsgs, RangesTyped
    <3>2. RangesOrdered(msgs[m].unknown, p1.ptr)
      BY <2>2, RangesOfState
    <3> QED
      BY <1>1, <2>2, <3>1, <3>2, OrderedLater
  <2> QED
    BY <2>1, <2>2 DEF SameUnknowns
<1>3. ASSUME NEW o, UnknownsEndBy(o), NEW m \in 1 .. Len(msgs')
      PROVE  RangesEndBy(msgs'[m].unknown, o)
  <2>1. CASE msgs'[m].unknown = <<>>
    BY <2>1, NoRanges
  <2>2. CASE m \in 1 .. Len(msgs) /\ msgs'[m].unknown = msgs[m].unknown
    BY <1>3, <2>2, RangesOfState
  <2> QED
    BY <2>1, <2>2 DEF SameUnknowns
<1> QED
  BY <1>2, <1>3, RangesOfState

Silent == {"run", "checkDone", "number", "parseField", "nextUnknown"} \cup Final

\* Where no unknown record is underway, nothing more is asked.
LEMMA SilentStep ==
  ASSUME ParserInv, ParserInv', UnknownsOrdered, SameUnknowns(msgs, msgs'), p1.ptr <= p1'.ptr,
         pc' \in Silent
  PROVE  UnknownsInv'
<1>1. UnknownsOrdered'
  BY RangesKept
<1>2. RecordIsAhead'
  BY DEF RecordIsAhead, Silent, Final
<1> QED
  BY <1>1, <1>2 DEF UnknownsInv

\* The ranges recorded so far end by every offset from ptr on.
LEMMA EndByPtr ==
  ASSUME ParserInv, UnknownsOrdered, NEW o \in Int, p1.ptr <= o
  PROVE  UnknownsEndBy(o)
<1>1. p1.ptr \in Int
  BY DEF ParserInv, TypeOK
<1>2. ASSUME NEW m \in 1 .. Len(msgs)
      PROVE  RangesEndBy(msgs[m].unknown, o)
  <2>1. msgs[m].unknown \in Seq(RangeType)
    BY InvMsgs, RangesTyped
  <2>2. RangesOrdered(msgs[m].unknown, o)
    <3>1. RangesOrdered(msgs[m].unknown, p1.ptr)
      BY RangesOfState
    <3> QED
      BY <1>1, <2>1, <3>1, OrderedLater
  <2> QED
    BY <2>2 DEF RangesOrdered, RangesEndBy
<1> QED
  BY <1>2, RangesOfState

\* After a tag has been read, the record it begins is ahead.
LEMMA TagReadStep ==
  ASSUME ParserInv, ParserInv', UnknownsOrdered, UNCHANGED <<input, slack, msgs>>,
         NEW q \in Nat, p1.ptr <= q, q < Limit, p1'.ptr = q + 1,
         p2'.scratch = VarintValue(p1.ptr, q),
         pc' \in {"field", "handleUnknown"} \cup Silent
  PROVE  UnknownsInv'
<1>0. p1.ptr \in Nat
  BY InvTypes DEF P1Type
<1>1. p1.ptr \in Nat /\ p1.ptr <= p1'.ptr
  BY <1>0
<1>2. SameUnknowns(msgs, msgs')
  BY DEF SameUnknowns
<1>3. UnknownsOrdered'
  BY <1>1, <1>2, RangesKept
<1>4. CASE p2'.scratch = 0
  BY <1>3, <1>4 DEF UnknownsInv, RecordIsAhead, Silent, Final
<1>5. CASE p2'.scratch # 0
  <2> DEFINE o == RecordStart(p2.scratch)'
  <2>1. o \in Int /\ p1.ptr <= o /\ o < p1'.ptr
    <3> DEFINE v == VarintValue(p1.ptr, q)
               n == p1.ptr
    <3>1. v # 0 /\ p2'.scratch = v /\ MemoryTyped
      BY <1>5, InvMemory
    <3> QED
      BY <1>1, <3>1, RewindStaysInTag
  <2>2. UnknownsEndBy(RecordStart(p2.scratch))'
    <3>1. UnknownsEndBy(o)
      BY <2>1, EndByPtr
    <3> HIDE DEF o
    <3>2. \A m \in 1 .. Len(msgs) : \A i \in 1 .. Len(msgs[m].unknown) :
             msgs[m].unknown[i].start + msgs[m].unknown[i].len <= o
      BY <3>1 DEF UnknownsEndBy
    <3> QED
      BY <3>2 DEF UnknownsEndBy, o
  <2>3. Ahead(RecordStart(p2.scratch))'
    BY <2>1, <2>2 DEF Ahead
  <2> QED
    BY <1>3, <2>3 DEF UnknownsInv, RecordIsAhead, Silent, Final
<1> QED
  BY <1>4, <1>5

\* The record stays ahead while its field is searched for.
LEMMA SearchStep ==
  ASSUME ParserInv, ParserInv', UnknownsInv, UNCHANGED <<input, slack, p1, msgs>>,
         p2'.scratch = p2.scratch, pc \in {"field", "missedField"},
         pc' \in {"field", "missedField", "handleUnknown"} \cup Silent
  PROVE  UnknownsInv'
<1>1. p1.ptr \in Nat /\ p1'.ptr = p1.ptr /\ p1.ptr <= p1'.ptr /\ UnknownsOrdered
  BY DEF ParserInv, TypeOK, UnknownsInv
<1>2. SameUnknowns(msgs, msgs')
  BY DEF SameUnknowns
<1>3. UnknownsOrdered'
  BY <1>1, <1>2, RangesKept
<1>4. TagTop' = TagTop
  BY SMT DEF TagTop, IsPadding, Byte
<1>5. RecordStart(p2.scratch)' = RecordStart(p2.scratch)
  BY <1>4, SMT DEF RecordStart, SizeVarint, Huge
<1>6. p2.scratch = 0 \/ Ahead(RecordStart(p2.scratch))
  BY DEF UnknownsInv, RecordIsAhead
<1>7. p2'.scratch = 0 \/ Ahead(RecordStart(p2.scratch))'
  BY <1>1, <1>5, <1>6 DEF Ahead, UnknownsEndBy
<1> QED
  BY <1>3, <1>7 DEF UnknownsInv, RecordIsAhead, Silent, Final

\* A record that is ahead stays ahead while it is skipped.
LEMMA SkipStep ==
  ASSUME ParserInv, ParserInv', UnknownsInv, Ahead(start), UNCHANGED <<msgs, start>>,
         p1.ptr <= p1'.ptr, pc' \in {"skipRecord", "skipTag", "keepUnknown"} \cup Silent
  PROVE  UnknownsInv'
<1>1. p1.ptr \in Int /\ p1'.ptr \in Int /\ start \in Int /\ UnknownsOrdered
  BY DEF ParserInv, TypeOK, UnknownsInv
<1>2. SameUnknowns(msgs, msgs')
  BY DEF SameUnknowns
<1>3. UnknownsOrdered'
  BY <1>1, <1>2, RangesKept
<1>4. start' < p1'.ptr
  BY <1>1 DEF Ahead
<1>5. Ahead(start)'
  BY <1>4 DEF Ahead, UnknownsEndBy
<1> QED
  BY <1>3, <1>5 DEF UnknownsInv, RecordIsAhead, Silent, Final

\* A record whose value is skipped is ahead: a zero tag has number zero.
LEMMA SkipIsAhead ==
  ASSUME ParserInv, UnknownsInv, pc = "skipRecord", SkipNumber # 0
  PROVE  Ahead(start)
<1>1. p2.scratch # 0
  <2> SUFFICES ASSUME p2.scratch = 0 PROVE FALSE
    OBVIOUS
  <2> DEFINE w == 2^TagBits
  <2>1. w \in Nat /\ w > 0
    BY WordAssumption
  <2> HIDE DEF w
  <2>2. 0 % w = 0 /\ 0 \div 8 = 0
    BY <2>1
  <2>3. SkipNumber = 0
    BY <2>2 DEF SkipNumber, w
  <2> QED
    BY <2>3
<1> QED
  BY <1>1 DEF UnknownsInv, RecordIsAhead

----------------------------------------------------------------------------
(* One lemma per group of actions *)

\* Failing and faulting record nothing.
LEMMA FailsStep ==
  ASSUME ParserInv, ParserInv', UnknownsInv, Fault \/ \E code \in Codes : Fail(code)
  PROVE  UnknownsInv'
<1>1. UNCHANGED <<p1, msgs>> /\ pc' \in Silent
  BY DEF Fault, Fail, regs, Silent, Final
<1>2. SameUnknowns(msgs, msgs') /\ p1.ptr <= p1'.ptr /\ UnknownsOrdered
  BY <1>1 DEF SameUnknowns, ParserInv, TypeOK, UnknownsInv
<1> QED
  BY <1>1, <1>2, SilentStep

\* A varint ends after it began.
LEMMA VarintAdvances ==
  ASSUME ParserInv, ~VarintFaults
  PROVE  /\ LastByte(p1.ptr) \in Nat /\ p1.ptr <= LastByte(p1.ptr) /\ LastByte(p1.ptr) < Limit
         /\ AfterVarint = LastByte(p1.ptr) + 1 /\ p1.ptr < AfterVarint
         /\ Varint \in Nat /\ AfterVarint \in Nat
<1>1. MemoryTyped /\ p1.ptr \in Nat
  BY InvMemory DEF MemoryTyped
<1>2. Limit \in Nat
  BY <1>1 DEF MemoryTyped, Limit
<1>3. LastByte(p1.ptr) \in Nat /\ (LastByte(p1.ptr) < Limit => p1.ptr <= LastByte(p1.ptr))
  BY <1>1, LastByteType
<1>4. LastByte(p1.ptr) < Limit
  BY <1>2, <1>3 DEF VarintFaults
<1>5. Varint \in Nat
  BY <1>1, VarintIsNat
<1> QED
  BY <1>1, <1>3, <1>4, <1>5 DEF AfterVarint

\* pop records nothing.
LEMMA PopSilent ==
  ASSUME ParserInv, ParserInv', UnknownsInv, Pop
  PROVE  UnknownsInv'
<1>1. /\ p1' = [p1 EXCEPT !.end = Top.end, !.endGroup = Top.endGroup]
      /\ UNCHANGED msgs /\ pc' \in {"done", "checkDone"}
  BY DEF Pop, Goto
<1>2. p1'.ptr = p1.ptr /\ p1.ptr \in Nat
  BY <1>1 DEF ParserInv, TypeOK
<1>3. SameUnknowns(msgs, msgs') /\ p1.ptr <= p1'.ptr /\ UnknownsOrdered
  BY <1>1, <1>2 DEF SameUnknowns, UnknownsInv
<1> QED
  BY <1>1, <1>3, SilentStep DEF Silent, Final

\* Run and CheckDone.
LEMMA EnterStep ==
  ASSUME ParserInv, ParserInv', UnknownsInv, Run \/ CheckDone
  PROVE  UnknownsInv'
<1>1. p1.ptr \in Nat /\ UnknownsOrdered
  BY DEF ParserInv, TypeOK, UnknownsInv
<1>2. CASE UNCHANGED <<p1, msgs>> /\ pc' \in {"done", "number", "failed"}
  BY <1>1, <1>2, SilentStep DEF SameUnknowns, Silent, Final
<1>3. CASE Run
  <2>1. CASE \/ input = <<>> /\ Goto("done") /\ UNCHANGED <<regs, msgs>>
             \/ PushFails /\ UNCHANGED msgs
    BY <1>2, <2>1 DEF Goto, PushFails, regs
  <2>2. CASE PushMessage(0, Len(input), 1, Root) /\ UNCHANGED msgs
    <3>1. p1'.ptr = 0 /\ pc' = "checkDone" /\ p1.ptr = 0
      BY <1>3, <2>2 DEF PushMessage, ThunkReturns, Goto, Run, ParserInv, FreshStart
    <3> QED
      BY <1>1, <2>2, <3>1, SilentStep DEF SameUnknowns, Silent
  <2> QED
    BY <1>3, <2>1, <2>2 DEF Run
<1>4. CASE CheckDone
  <2>1. CASE Goto("number") /\ UNCHANGED <<regs, msgs>>
    BY <1>2, <2>1 DEF Goto, regs
  <2>2. CASE Fail("EndGroup")
    BY <2>2, FailsStep DEF Codes
  <2>3. CASE Pop
    BY <2>3, PopSilent
  <2> QED
    BY <1>4, <2>1, <2>2, <2>3 DEF CheckDone
<1> QED
  BY <1>3, <1>4

\* The tag of a record is read.
LEMMA NumberStep ==
  ASSUME ParserInv, ParserInv', UnknownsInv, UNCHANGED <<input, slack>>,
         NumberSmall \/ NumberLarge \/ NumberFaults
  PROVE  UnknownsInv'
<1>1. p1 \in P1Type /\ p2 \in P2Type /\ p1.ptr \in Nat /\ UnknownsOrdered /\ MemoryTyped
  BY InvTypes, InvMemory DEF P1Type, UnknownsInv
<1>2. CASE NumberSmall
  <2> DEFINE o == p1.ptr
             b == Byte(o)
  <2>1. o < Limit /\ b < 128 /\ b \in 0 .. 255
    BY <1>1, <1>2, ByteType DEF NumberSmall
  <2>2. VarintValue(o, o) = b
    <3>1. \A i \in o + 4 .. o : Byte(i) % 128 = 0
      BY <1>1
    <3>2. Digit(o, o) = b /\ Digit(o + 1, o) = 0 /\ Digit(o + 2, o) = 0 /\ Digit(o + 3, o) = 0
      <4>1. b % 128 = b
        BY <2>1
      <4> QED
        BY <1>1, <4>1 DEF Digit
    <3> HIDE DEF o, b
    <3> QED
      BY <2>1, <3>1, <3>2, SMT DEF VarintValue
  <2>3. /\ p1' = [p1 EXCEPT !.ptr = @ + 1]
        /\ p2' = [p2 EXCEPT !.scratch = b,
                            !.field = IF ByTag(p2.ty, b) # NilField THEN ByTag(p2.ty, b) ELSE @]
        /\ pc' \in {"parseField", "field"} /\ UNCHANGED msgs
    BY <1>2 DEF NumberSmall, Goto
  <2>4. p1'.ptr = o + 1 /\ p2'.scratch = b
    BY <1>1, <2>3 DEF P1Type, P2Type
  <2> HIDE DEF b
  <2>5. pc' \in {"field", "handleUnknown"} \cup Silent
    BY <2>3 DEF Silent
  <2> QED
    BY <1>1, <2>1, <2>2, <2>3, <2>4, <2>5, TagReadStep
<1>3. CASE NumberLarge /\ (Fault \/ Fail("Truncated") \/ Fail("Overflow"))
  BY <1>3, FailsStep DEF Codes
<1>4. CASE /\ ~VarintFaults
           /\ p1' = [p1 EXCEPT !.ptr = AfterVarint]
           /\ p2' = [p2 EXCEPT !.scratch = Varint]
           /\ Goto("field")
           /\ UNCHANGED <<stack, skips, start, msgs>>
  <2> DEFINE q == LastByte(p1.ptr)
  <2>1. q \in Nat /\ p1.ptr <= q /\ q < Limit /\ AfterVarint = q + 1
    BY <1>4, VarintAdvances
  <2>2. p1'.ptr = q + 1 /\ p2'.scratch = VarintValue(p1.ptr, q)
    BY <1>1, <1>4, <2>1 DEF P1Type, P2Type, Varint
  <2>3. pc' \in {"field", "handleUnknown"} \cup Silent
    BY <1>4 DEF Goto
  <2> HIDE DEF q
  <2> QED
    BY <1>1, <1>4, <2>1, <2>2, <2>3, TagReadStep
<1>5. CASE NumberLarge
  BY <1>3, <1>4, <1>5 DEF NumberLarge
<1>6. CASE NumberFaults
  BY <1>6, FailsStep DEF NumberFaults
<1> QED
  BY <1>2, <1>5, <1>6

\* The search for the field of a tag.
LEMMA FieldStep ==
  ASSUME ParserInv, ParserInv', UnknownsInv, UNCHANGED <<input, slack>>, TryField \/ MissedField
  PROVE  UnknownsInv'
<1>1. p2 \in P2Type /\ p1.ptr \in Nat /\ UnknownsOrdered
  BY InvTypes DEF P1Type, UnknownsInv
<1>2. CASE TryField
  <2>1. /\ UNCHANGED <<p1, msgs>> /\ pc = "field"
        /\ pc' \in {"parseField", "missedField", "field"}
        /\ p2' = p2 \/ p2' = [p2 EXCEPT !.field = NextErrOf(p2.ty, @)]
    BY <1>2 DEF TryField, Goto
  <2>2. p2'.scratch = p2.scratch
    BY <1>1, <2>1 DEF P2Type
  <2> QED
    BY <2>1, <2>2, SearchStep DEF Silent
<1>3. CASE MissedField
  <2> DEFINE hit == ByTag(p2.ty, p2.scratch)
  <2>1. CASE Pop
    BY <2>1, PopSilent
  <2>2. CASE Fail("Overflow")
    BY <2>2, FailsStep DEF Codes
  <2>3. CASE /\ p2' = [p2 EXCEPT !.field = hit,
                                 !.scratch = IF hit # NilField THEN 0 ELSE p2.scratch]
             /\ Goto(IF hit # NilField THEN "parseField" ELSE "handleUnknown")
             /\ UNCHANGED <<p1, stack, tries, skips, start, msgs>>
    <3> HIDE DEF hit
    <3>1. CASE hit # NilField
      <4>1. pc' = "parseField" /\ UNCHANGED <<p1, msgs>>
        BY <2>3, <3>1 DEF Goto
      <4> QED
        BY <1>1, <4>1, SilentStep DEF SameUnknowns, Silent
    <3>2. CASE hit = NilField
      <4>1. pc' = "handleUnknown" /\ UNCHANGED <<p1, msgs>> /\ p2'.scratch = p2.scratch
        BY <1>1, <2>3, <3>2 DEF Goto, P2Type
      <4>2. pc = "missedField"
        BY <1>3 DEF MissedField
      <4> QED
        BY <4>1, <4>2, SearchStep
    <3> QED
      BY <3>1, <3>2
  <2> QED
    BY <1>3, <2>1, <2>2, <2>3 DEF MissedField
<1> QED
  BY <1>2, <1>3

\* The thunks record nothing and only advance.
LEMMA ThunkStep ==
  ASSUME ParserInv, ParserInv', UnknownsInv,
         ParseVarint \/ ParseFixed \/ ParseBytes \/ ParseMessage \/ ParseGroup
  PROVE  UnknownsInv'
<1>1. p1.ptr \in Nat /\ UnknownsOrdered
  BY InvTypes DEF P1Type, UnknownsInv
<1>2. pc = "parseField"
  BY DEF ParseVarint, ParseFixed, ParseBytes, ParseMessage, ParseGroup, AtThunk
<1>3. p2.msg \in 1 .. Len(msgs) /\ msgs \in Seq(MessageType)
  BY <1>2, AtThunkFacts DEF ParserInv, TypeOK
<1>4. CASE Fault \/ Fail("Truncated") \/ Fail("Overflow")
  BY <1>4, FailsStep DEF Codes
<1>5. ASSUME NEW v, NEW o, StoreAndAdvance(v, o), p1.ptr <= o
      PROVE  UnknownsInv'
  <2>1. msgs' = [msgs EXCEPT ![p2.msg].vals[p2.field] = v]
    BY <1>5 DEF StoreAndAdvance, Store
  <2>2. SameUnknowns(msgs, msgs')
    BY <1>3, <2>1, StoreSame
  <2>3. p1'.ptr = o /\ pc' = "checkDone"
    BY <1>5 DEF StoreAndAdvance, ThunkReturns, Goto
  <2> QED
    BY <1>1, <1>5, <2>2, <2>3, SilentStep DEF Silent
<1>6. ASSUME NEW o, StoreSubMessage, p1.ptr <= o,
             PushFails \/ (pc' = "checkDone" /\ p1'.ptr = o)
      PROVE  UnknownsInv'
  <2>1. SameUnknowns(msgs, msgs')
    BY <1>2, <1>6, SubMessageSame
  <2>2. p1.ptr <= p1'.ptr /\ pc' \in Silent
    BY <1>1, <1>6 DEF PushFails, regs, Silent, Final
  <2> QED
    BY <1>1, <2>1, <2>2, SilentStep
<1>7. CASE ParseVarint \/ ParseBytes
  <2>1. CASE ~VarintFaults /\ StoreAndAdvance(Varint, AfterVarint)
    <3>1. p1.ptr <= AfterVarint
      BY <1>1, <2>1, VarintAdvances
    <3> QED
      BY <1>5, <2>1, <3>1
  <2>2. CASE /\ ~VarintFaults
             /\ StoreAndAdvance([start |-> AfterVarint, len |-> Varint], AfterVarint + Varint)
    <3>1. p1.ptr <= AfterVarint + Varint
      BY <1>1, <2>2, VarintAdvances
    <3> DEFINE v == [start |-> AfterVarint, len |-> Varint]
               o == AfterVarint + Varint
    <3>2. StoreAndAdvance(v, o) /\ p1.ptr <= o
      BY <2>2, <3>1
    <3> HIDE DEF v, o
    <3> QED
      BY <1>5, <3>2
  <2> QED
    BY <1>4, <1>7, <2>1, <2>2 DEF ParseVarint, ParseBytes, WithVarint, WithLengthPrefix
<1>8. CASE ParseFixed
  <2> DEFINE v == [i \in 1 .. 4 |-> Byte(p1.ptr + i - 1)]
             o == p1.ptr + 4
  <2>1. CASE StoreAndAdvance(v, o)
    <3>1. StoreAndAdvance(v, o) /\ p1.ptr <= o
      BY <1>1, <2>1
    <3> HIDE DEF v, o
    <3> QED
      BY <1>5, <3>1
  <2> QED
    BY <1>4, <1>8, <2>1 DEF ParseFixed
<1>9. CASE ParseMessage
  <2>1. CASE /\ ~VarintFaults /\ StoreSubMessage
             /\ PushFails \/ PushMessage(AfterVarint, Varint, SubMessage, Field.sub)
    <3>1. p1.ptr <= AfterVarint
      BY <1>1, <2>1, VarintAdvances
    <3>2. PushFails \/ (pc' = "checkDone" /\ p1'.ptr = AfterVarint)
      BY <2>1 DEF PushMessage, ThunkReturns, Goto
    <3> QED
      BY <1>6, <2>1, <3>1, <3>2
  <2> QED
    BY <1>4, <1>9, <2>1 DEF ParseMessage, WithVarint, WithLengthPrefix
<1>10. CASE ParseGroup
  <2>1. StoreSubMessage /\ (PushFails \/ PushGroup(SubMessage, Field.sub))
    BY <1>10 DEF ParseGroup
  <2>2. PushFails \/ (pc' = "checkDone" /\ p1'.ptr = p1.ptr)
    BY <2>1 DEF PushGroup, ThunkReturns, Goto
  <2> QED
    BY <1>1, <1>6, <2>1, <2>2
<1> QED
  BY <1>7, <1>8, <1>9, <1>10

\* handleUnknown starts where the search left off.
LEMMA HandleUnknownStep ==
  ASSUME ParserInv, ParserInv', UnknownsInv, HandleUnknown
  PROVE  UnknownsInv'
<1>1. p1.ptr \in Nat /\ UnknownsOrdered
  BY InvTypes DEF P1Type, UnknownsInv
<1>2. CASE Fail("Overflow")
  BY <1>2, FailsStep DEF Codes
<1>3. CASE /\ start' = RecordStart(p2.scratch)
           /\ skips' = <<>>
           /\ Goto("skipRecord")
           /\ UNCHANGED <<p1, p2, stack, tries, msgs>>
  <2>1. UnknownsOrdered'
    BY <1>1, <1>3, RangesKept DEF SameUnknowns
  <2>2. p2.scratch = 0 \/ Ahead(RecordStart(p2.scratch))
    BY DEF HandleUnknown, UnknownsInv, RecordIsAhead
  <2>3. (p2'.scratch = 0 /\ skips' = <<>>) \/ Ahead(start)'
    <3> DEFINE o == RecordStart(p2.scratch)
    <3> HIDE DEF o
    <3>1. start' = o /\ (p2.scratch = 0 \/ Ahead(o))
      BY <1>3, <2>2 DEF o
    <3> QED
      BY <1>3, <3>1 DEF Ahead, UnknownsEndBy
  <2>4. pc' = "skipRecord"
    BY <1>3 DEF Goto
  <2> QED
    BY <2>1, <2>3, <2>4 DEF UnknownsInv, RecordIsAhead
<1> QED
  BY <1>2, <1>3 DEF HandleUnknown

\* Skipping advances and does not forget where the record started.
LEMMA SkipActionsStep ==
  ASSUME ParserInv, ParserInv', UnknownsInv,
         \/ SkipZero \/ SkipVarint \/ SkipFixed32 \/ SkipFixed64 \/ SkipBytes
         \/ SkipStartGroup \/ SkipEndGroup \/ SkipReserved \/ SkipTag
  PROVE  UnknownsInv'
<1>1. p1 \in P1Type /\ p1.ptr \in Nat
  BY InvTypes DEF P1Type
<1>2. CASE Fault \/ \E code \in Codes : Fail(code)
  BY <1>2, FailsStep
<1>3. CASE SkipZero \/ SkipEndGroup \/ SkipReserved
  BY <1>2, <1>3 DEF SkipZero, SkipEndGroup, SkipReserved, Codes
<1>4. ASSUME NEW o \in Nat, Skipped(o), Ahead(start), p1.ptr <= o
      PROVE  UnknownsInv'
  <2>1. /\ p1' = [p1 EXCEPT !.ptr = o] /\ UNCHANGED <<msgs, start>>
        /\ pc' \in {"keepUnknown", "skipTag"}
    BY <1>4 DEF Skipped, Goto
  <2>2. p1.ptr <= p1'.ptr
    BY <1>1, <1>4, <2>1 DEF P1Type
  <2> QED
    BY <1>4, <2>1, <2>2, SkipStep
<1>5. CASE SkipVarint \/ SkipFixed32 \/ SkipFixed64 \/ SkipBytes
  <2>1. Ahead(start)
    BY <1>5, SkipIsAhead DEF SkipVarint, SkipFixed32, SkipFixed64, SkipBytes, AtSkip
  <2>2. \/ Fault \/ Fail("Truncated") \/ Fail("Overflow")
        \/ Skipped(p1.ptr + 4) \/ Skipped(p1.ptr + 8)
        \/ ~VarintFaults /\ (Skipped(AfterVarint) \/ Skipped(AfterVarint + Varint))
    BY <1>5 DEF SkipVarint, SkipFixed32, SkipFixed64, SkipBytes, WithVarint, WithFixed,
                WithLengthPrefix
  <2>3. CASE Fault \/ Fail("Truncated") \/ Fail("Overflow")
    BY <1>2, <2>3 DEF Codes
  <2>4. CASE Skipped(p1.ptr + 4) \/ Skipped(p1.ptr + 8)
    <3>1. /\ p1.ptr + 4 \in Nat /\ p1.ptr <= p1.ptr + 4
          /\ p1.ptr + 8 \in Nat /\ p1.ptr <= p1.ptr + 8
      BY <1>1
    <3> QED
      BY <1>4, <2>1, <2>4, <3>1
  <2>5. CASE ~VarintFaults /\ (Skipped(AfterVarint) \/ Skipped(AfterVarint + Varint))
    <3>1. /\ AfterVarint \in Nat /\ p1.ptr <= AfterVarint
          /\ AfterVarint + Varint \in Nat /\ p1.ptr <= AfterVarint + Varint
      BY <1>1, <2>5, VarintAdvances
    <3> QED
      BY <1>4, <2>1, <2>5, <3>1
  <2> QED
    BY <2>2, <2>3, <2>4, <2>5
<1>6. CASE SkipStartGroup
  <2>1. Ahead(start)
    BY <1>6, SkipIsAhead DEF SkipStartGroup, AtSkip
  <2>2. CASE Fail("RecursionDepth")
    BY <1>2, <2>2 DEF Codes
  <2>3. CASE Goto("skipTag") /\ UNCHANGED <<p1, p2, stack, tries, start, msgs>>
    BY <1>1, <2>1, <2>3, SkipStep DEF Goto
  <2> QED
    BY <1>6, <2>2, <2>3 DEF SkipStartGroup
<1>7. CASE SkipTag
  <2>1. Ahead(start)
    BY <1>7 DEF SkipTag, UnknownsInv, RecordIsAhead
  <2>2. CASE Fault \/ Fail("Truncated") \/ Fail("Overflow")
    BY <1>2, <2>2 DEF Codes
  <2>3. CASE /\ ~VarintFaults
             /\ p1' = [p1 EXCEPT !.ptr = AfterVarint]
             /\ pc' \in {"keepUnknown", "skipTag", "skipRecord"}
             /\ UNCHANGED <<stack, tries, start, msgs>>
    <3>1. p1'.ptr = AfterVarint /\ p1.ptr <= p1'.ptr
      BY <1>1, <2>3, VarintAdvances DEF P1Type
    <3> QED
      BY <2>1, <2>3, <3>1, SkipStep
  <2> QED
    BY <1>7, <2>2, <2>3 DEF SkipTag, WithVarint, Goto
<1> QED
  BY <1>3, <1>5, <1>6, <1>7

\* Adding a range that begins where, or after, the last one ends and ends at n.
LEMMA AddUnknownOrdered ==
  ASSUME NEW u \in Seq(RangeType), NEW from \in Int, NEW n \in Int, from < n,
         RangesOrdered(u, n), RangesEndBy(u, from)
  PROVE  RangesOrdered(AddUnknown(u, from, n - from), n)
<1> DEFINE k == Len(u)
           w == AddUnknown(u, from, n - from)
<1>1. k \in Nat /\ DOMAIN u = 1 .. k /\ \A i \in 1 .. k : u[i] \in RangeType
  BY LenProperties, ElementOfSeq
<1>2. /\ \A i \in 1 .. k : u[i].start \in Int /\ u[i].len \in Int /\ u[i].len > 0
                             /\ u[i].start + u[i].len <= from
      /\ \A i \in 1 .. k - 1 : u[i].start + u[i].len < u[i + 1].start
  BY <1>1 DEF RangeType, RangesOrdered, RangesEndBy
<1>3. CASE k > 0 /\ u[k].start + u[k].len = from
  <2> DEFINE r == [u[k] EXCEPT !.len = @ + (n - from)]
  <2>1. w = [u EXCEPT ![k] = r]
    BY <1>3 DEF AddUnknown
  <2>2. k \in 1 .. k /\ u[k] \in RangeType
    BY <1>1, <1>3
  <2>3. r.start = u[k].start /\ r.len = u[k].len + (n - from)
    BY <2>2 DEF RangeType
  <2> HIDE DEF r
  <2>4. Len(w) = k /\ \A i \in 1 .. k : w[i] = IF i = k THEN r ELSE u[i]
    <3> DEFINE x == [u EXCEPT ![k] = r]
    <3>1. Len(x) = k /\ \A i \in 1 .. k : x[i] = IF i = k THEN r ELSE u[i]
      BY <1>1, <2>2, LenProperties
    <3> QED
      BY <2>1, <3>1
  <2> HIDE DEF w, k
  <2>5. r.len > 0 /\ r.start + r.len = n
    BY <1>2, <1>3, <2>2, <2>3
  <2>6. ASSUME NEW i \in 1 .. k
        PROVE  w[i].len > 0 /\ w[i].start + w[i].len <= n
    <3>1. CASE i = k
      BY <2>4, <2>5, <3>1
    <3>2. CASE i # k
      <4>1. w[i] = u[i]
        BY <2>4, <3>2
      <4> QED
        BY <1>2, <4>1
    <3> QED
      BY <3>1, <3>2
  <2>7. ASSUME NEW i \in 1 .. k - 1
        PROVE  w[i].start + w[i].len < w[i + 1].start
    <3>1. i \in 1 .. k /\ i + 1 \in 1 .. k /\ i # k
      BY <1>1
    <3>2. w[i] = u[i] /\ w[i + 1].start = u[i + 1].start
      BY <2>3, <2>4, <3>1
    <3> QED
      BY <1>2, <3>2
  <2> QED
    BY <2>4, <2>6, <2>7 DEF RangesOrdered, w
<1>4. CASE ~(k > 0 /\ u[k].start + u[k].len = from)
  <2> DEFINE r == [start |-> from, len |-> n - from]
  <2>1. w = Append(u, r)
    BY <1>4 DEF AddUnknown
  <2>2. r.start = from /\ r.len = n - from /\ r \in RangeType
    BY DEF RangeType
  <2> HIDE DEF r
  <2>3. /\ Len(w) = k + 1 /\ w[k + 1] = r
        /\ \A i \in 1 .. k : w[i] = u[i]
    <3> DEFINE x == Append(u, r)
    <3>1. Len(x) = k + 1 /\ x[k + 1] = r /\ \A i \in 1 .. k : x[i] = u[i]
      BY <2>2, AppendProperties
    <3> QED
      BY <2>1, <3>1
  <2>4. k > 0 => u[k].start + u[k].len < from
    <3> SUFFICES ASSUME k > 0 PROVE u[k].start + u[k].len < from
      OBVIOUS
    <3> HIDE DEF k
    <3>1. k \in 1 .. k
      BY <1>1
    <3>2. /\ u[k].start \in Int /\ u[k].len \in Int
          /\ u[k].start + u[k].len <= from /\ u[k].start + u[k].len # from
      BY <1>2, <1>4, <3>1
    <3> QED
      BY <3>2
  <2> HIDE DEF w, k
  <2>5. r.len > 0 /\ r.start + r.len = n
    BY <2>2
  <2>6. ASSUME NEW i \in 1 .. k + 1
        PROVE  w[i].len > 0 /\ w[i].start + w[i].len <= n
    <3>1. CASE i = k + 1
      BY <2>3, <2>5, <3>1
    <3>2. CASE i \in 1 .. k
      BY <1>2, <2>3, <3>2
    <3> QED
      BY <1>1, <3>1, <3>2
  <2>7. ASSUME NEW i \in 1 .. k
        PROVE  w[i].start + w[i].len < w[i + 1].start
    <3>1. CASE i = k
      BY <1>1, <2>2, <2>3, <2>4, <3>1
    <3>2. CASE i \in 1 .. k - 1
      <4>1. i \in 1 .. k /\ i + 1 \in 1 .. k
        BY <1>1, <3>2
      <4> QED
        BY <1>2, <2>3, <3>2, <4>1
    <3> QED
      BY <1>1, <3>1, <3>2
  <2>8. Len(w) - 1 = k
    BY <1>1, <2>3
  <2> QED
    BY <2>3, <2>6, <2>7, <2>8 DEF RangesOrdered, w
<1> QED
  BY <1>3, <1>4

\* The rest of handleUnknown.
LEMMA KeepStep ==
  ASSUME ParserInv, ParserInv', UnknownsInv, KeepUnknown
  PROVE  UnknownsInv'
<1>1. /\ p1.ptr \in Int /\ start \in Int /\ UnknownsOrdered /\ Ahead(start)
      /\ pc = "keepUnknown" /\ pc' = "nextUnknown" /\ p1' = p1
  BY InvTypes DEF P1Type, UnknownsInv, RecordIsAhead, KeepUnknown, Goto, regs
<1>2. start < p1.ptr /\ UnknownsEndBy(start)
  BY <1>1 DEF Ahead
<1>3. p2.msg \in 1 .. Len(msgs) /\ MsgsOK(msgs)
  BY <1>1, InvMsgs DEF ParserInv, WellTyped, Agrees, Running, Final
<1>4. ASSUME NEW m \in 1 .. Len(msgs)
      PROVE  /\ msgs[m].unknown \in Seq(RangeType)
             /\ RangesOrdered(msgs[m].unknown, p1.ptr) /\ RangesEndBy(msgs[m].unknown, start)
  BY <1>1, <1>2, <1>3, RangesTyped, RangesOfState
<1>5. CASE DiscardUnknown
  <2>1. msgs' = msgs
    BY <1>5 DEF KeepUnknown
  <2> QED
    BY <1>1, <2>1, SilentStep DEF SameUnknowns, Silent
<1>6. CASE ~DiscardUnknown
  <2> DEFINE old == msgs[p2.msg]
             u == AddUnknown(old.unknown, start, p1.ptr - start)
             m2 == [old EXCEPT !.unknown = u]
  <2>1. RangesOrdered(u, p1.ptr)
    BY <1>1, <1>2, <1>3, <1>4, AddUnknownOrdered
  <2>2. msgs' = [msgs EXCEPT ![p2.msg] = m2]
    BY <1>6 DEF KeepUnknown
  <2>3. old \in MessageType
    BY <1>3, MessageFacts
  <2> HIDE DEF u, old
  <2>4. m2.unknown = u
    BY <2>3 DEF MessageType
  <2> HIDE DEF m2
  <2>5. msgs \in Seq(MessageType)
    BY <1>3 DEF MsgsOK
  <2>6. DOMAIN msgs = 1 .. Len(msgs) /\ Len(msgs) \in Nat
    BY <2>5, LenProperties
  <2>7. Len(msgs') = Len(msgs)
    BY <1>3, <2>2, <2>5, <2>6, LenProperties
  <2>8. \A m \in 1 .. Len(msgs) : msgs'[m] = IF m = p2.msg THEN m2 ELSE msgs[m]
    BY <2>2, <2>6
  <2>9. ASSUME NEW m \in 1 .. Len(msgs')
        PROVE  RangesOrdered(msgs'[m].unknown, p1'.ptr)
    BY <1>1, <1>4, <2>1, <2>4, <2>7, <2>8
  <2>10. UnknownsOrdered'
    BY <2>9, RangesOfState
  <2> QED
    BY <1>1, <2>10 DEF UnknownsInv, RecordIsAhead
<1> QED
  BY <1>5, <1>6

\* The tag after an unknown record.
LEMMA NextUnknownRange ==
  ASSUME ParserInv, ParserInv', UnknownsInv, UNCHANGED <<input, slack>>, NextUnknown
  PROVE  UnknownsInv'
<1>1. p1 \in P1Type /\ p2 \in P2Type /\ p1.ptr \in Nat /\ UnknownsOrdered
  BY InvTypes DEF P1Type, UnknownsInv
<1>2. CASE Pop
  BY <1>2, PopSilent
<1>3. CASE Fault \/ Fail("Truncated") \/ Fail("Overflow")
  BY <1>3, FailsStep DEF Codes
<1>4. ASSUME NEW f, RewindTo(f)
      PROVE  UnknownsInv'
  <2>1. UNCHANGED <<p1, msgs>> /\ pc' = "number"
    BY <1>4 DEF RewindTo, Goto
  <2> QED
    BY <1>1, <2>1, SilentStep DEF SameUnknowns, Silent
<1>5. CASE /\ ~VarintFaults
           /\ p1' = [p1 EXCEPT !.ptr = AfterVarint]
           /\ p2' = [p2 EXCEPT !.field = NilField, !.scratch = Varint]
           /\ Goto("handleUnknown")
           /\ UNCHANGED <<stack, tries, skips, start, msgs>>
  <2> DEFINE q == LastByte(p1.ptr)
  <2>1. q \in Nat /\ p1.ptr <= q /\ q < Limit /\ AfterVarint = q + 1
    BY <1>5, VarintAdvances
  <2>2. p1'.ptr = q + 1 /\ p2'.scratch = VarintValue(p1.ptr, q)
    BY <1>1, <1>5, <2>1 DEF P1Type, P2Type, Varint
  <2>3. pc' \in {"field", "handleUnknown"} \cup Silent
    BY <1>5 DEF Goto
  <2> HIDE DEF q
  <2> QED
    BY <1>1, <1>5, <2>1, <2>2, <2>3, TagReadStep
<1> QED
  BY <1>2, <1>3, <1>4, <1>5 DEF NextUnknown, WithVarint

----------------------------------------------------------------------------

\* The ranges are in order to begin with.
LEMMA InitUnknowns == Init => UnknownsInv
<1> SUFFICES ASSUME Init PROVE UnknownsInv
  OBVIOUS
<1>1. msgs = <<NewMessage(Root)>> /\ pc = "run"
  BY DEF Init
<1>2. NewMessage(Root).unknown = <<>>
  BY DEF NewMessage
<1>3. \A m \in 1 .. Len(msgs) : msgs[m].unknown = <<>>
  <2> DEFINE new == NewMessage(Root)
  <2> HIDE DEF new
  <2>1. msgs = <<new>> /\ new.unknown = <<>>
    BY <1>1, <1>2 DEF new
  <2> QED
    BY <2>1
<1>4. UnknownsOrdered
  BY <1>3, NoRanges, RangesOfState
<1> QED
  BY <1>1, <1>4 DEF UnknownsInv, RecordIsAhead

\* Every step keeps them so.
LEMMA NextUnknowns ==
  ASSUME ParserInv, ParserInv', UnknownsInv, [Next]_vars
  PROVE  UnknownsInv'
<1>1. CASE UNCHANGED vars
  <2>1. UNCHANGED <<input, slack, pc, p1, p2, skips, start, msgs>>
    BY <1>1 DEF vars, regs
  <2>2. UnknownsOrdered'
    BY <2>1 DEF UnknownsInv, UnknownsOrdered
  <2>3. RecordStart(p2.scratch)' = RecordStart(p2.scratch)
    <3>1. TagTop' = TagTop
      BY <2>1, SMT DEF TagTop, IsPadding, Byte
    <3>2. p2'.scratch = p2.scratch
      BY <2>1
    <3> QED
      BY <3>1, <3>2, SMT DEF RecordStart, SizeVarint, Huge
  <2>4. /\ Ahead(start)' <=> Ahead(start)
        /\ Ahead(RecordStart(p2.scratch))' <=> Ahead(RecordStart(p2.scratch))
    BY <2>1, <2>3 DEF Ahead, UnknownsEndBy
  <2> QED
    BY <2>1, <2>2, <2>4 DEF UnknownsInv, RecordIsAhead
<1>2. CASE Next
  <2>0. UNCHANGED <<input, slack>>
    BY <1>2 DEF Next
  <2>1. CASE Run \/ CheckDone
    BY <2>1, EnterStep
  <2>2. CASE NumberSmall \/ NumberLarge \/ NumberFaults
    BY <2>0, <2>2, NumberStep
  <2>3. CASE TryField \/ MissedField
    BY <2>0, <2>3, FieldStep
  <2>4. CASE ParseVarint \/ ParseFixed \/ ParseBytes \/ ParseMessage \/ ParseGroup
    BY <2>4, ThunkStep
  <2>5. CASE HandleUnknown
    BY <2>5, HandleUnknownStep
  <2>6. CASE \/ SkipZero \/ SkipVarint \/ SkipFixed32 \/ SkipFixed64 \/ SkipBytes
             \/ SkipStartGroup \/ SkipEndGroup \/ SkipReserved \/ SkipTag
    BY <2>6, SkipActionsStep
  <2>7. CASE KeepUnknown
    BY <2>7, KeepStep
  <2>8. CASE NextUnknown
    BY <2>0, <2>8, NextUnknownRange
  <2> QED
    BY <1>2, <2>1, <2>2, <2>3, <2>4, <2>5, <2>6, <2>7, <2>8 DEF Next
<1> QED
  BY <1>1, <1>2

\* What handleUnknown and the search before it know of the record they are in:
\* it does not begin before a range that is already recorded.
THEOREM UnknownsInvariance == Spec => []UnknownsInv
<1>1. ParserInv /\ UnknownsInv /\ [Next]_vars => (ParserInv /\ UnknownsInv)'
  BY NextInv, NextUnknowns
<1>2. Init => ParserInv /\ UnknownsInv
  BY InitInv, InitUnknowns
<1> QED
  BY <1>1, <1>2, PTL DEF Spec

\* For every input and schema, the unknown ranges of every message are nonempty, in
\* input order and apart, although handleUnknown finds where a record began only by
\* looking back from the end of its tag, over any padding the tag may have.
THEOREM UnknownsAreOrdered == Spec => []UnknownsOrdered
<1>1. UnknownsInv => UnknownsOrdered
  BY DEF UnknownsInv
<1> QED
  BY <1>1, UnknownsInvariance, PTL
=============================================================================
