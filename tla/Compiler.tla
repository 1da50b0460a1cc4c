------------------------------ MODULE Compiler ------------------------------
(***************************************************************************)
(* internal/tdp/compiler: from message descriptors to linked types and     *)
(* parsers.  compile collects the messages, sorts their components (Scc),  *)
(* lays out, schedules and generates code for every message of every       *)
(* component, links, and fills in what of a type refers to other types.    *)
(*                                                                         *)
(* A field descriptor is a record [num, index, msg, required, oneof, ext,  *)
(* hot, arch]: index is its position in what declares it, msg the message  *)
(* it contains or None, oneof the number of its oneof or 0, hot whether    *)
(* its profile says that it is seen at least every second time, and arch   *)
(* its archetype [size, align, bits, parsers], a parser being [kind,       *)
(* retry].  Extensions come last.                                          *)
(***************************************************************************)
EXTENDS Scc

CONSTANTS
  Inputs,     \* [root, fields]: fields[m] are the field descriptors of message m
  None,
  WordBits,   \* hasbits per word, 32 in the source
  LutTags,    \* tags that fit one byte, 128 in the source
  LutAbsent,  \* the largest value of an entry of TagLUT, 0xff in the source
  MaxMisses,  \* P3.MaxMisses
  Base        \* the address of the linked program

\* The field descriptors that messages of the given types may have.
Descriptors(types) ==
  [num : Nat, index : Nat, msg : types \cup {None}, required : BOOLEAN, oneof : Nat,
   ext : BOOLEAN, hot : BOOLEAN,
   arch : [size : Nat, align : {1, 2, 4, 8}, bits : Nat,
           parsers : Seq([kind : 0 .. 7, retry : BOOLEAN])]]

\* "Protoc will always place oneof members contiguously", with different numbers.
OneofsContiguous(fds) ==
  \A i, j \in DOMAIN fds :
    i < j /\ fds[i].oneof # 0 /\ fds[j].oneof = fds[i].oneof =>
      fds[i].num # fds[j].num /\ \A k \in i .. j : fds[k].oneof = fds[i].oneof

\* Fields of a message have different numbers, parsers of a field different wire types.
TagsDiffer(fds) ==
  /\ \A i, j \in DOMAIN fds : i # j => fds[i].num # fds[j].num
  /\ \A i \in DOMAIN fds : \A j, k \in DOMAIN fds[i].arch.parsers :
       j # k => fds[i].arch.parsers[j].kind # fds[i].arch.parsers[k].kind

\* Every message is described.
IsInput(i) ==
  /\ i.root \in DOMAIN i.fields
  /\ i.fields \in [DOMAIN i.fields -> Seq(Descriptors(DOMAIN i.fields))]
  /\ \A m \in DOMAIN i.fields : OneofsContiguous(i.fields[m]) /\ TagsDiffer(i.fields[m])

ASSUME InputsAssumption == \A i \in Inputs : IsInput(i)
ASSUME WordAssumption == WordBits \in Nat \ {0}
\* The parser loop counts misses down from MaxMisses and tests the count only after it has compared:
\* it has to start from 1 at least.
ASSUME TableAssumption ==
  /\ {LutTags, LutAbsent, Base} \subseteq Nat
  /\ MaxMisses \in Nat \ {0}

VARIABLES
  input,   \* what is compiled
  info,    \* sccInfo.hasRequired of the components so far
  irs,     \* the ir of the messages so far: [offsets, hot, p]
  symbols, \* Linker.symbols
  program, \* the addresses of the symbols, once linked
  required \* Aux.Required of the messages

vars == <<graph, calls, index, stack, meta, keys, components,
          input, info, irs, symbols, program, required>>

Fields(m) == input.fields[m]

\* fieldMessage, as the edges that compile gives to scc.Sort, field by field.
Edges(fds) ==
  LET edges[i \in 0 .. Len(fds)] ==
        IF i = 0 THEN <<>>
        ELSE IF fds[i].msg = None THEN edges[i - 1] ELSE Append(edges[i - 1], fds[i].msg)
  IN  edges[Len(fds)]
MessageGraph == [root |-> input.root, deps |-> [m \in DOMAIN input.fields |-> Edges(Fields(m))]]

----------------------------------------------------------------------------
(* newSCCInfo *)

\* Mutant of HasRequired: what the dependencies contribute is forgotten.
HasRequiredOwn(c) ==
  \E m \in ToSet(components[c].members) : \E f \in ToSet(Fields(m)) : f.required

\* hasRequired of component c
HasRequired(c) ==
  \/ \E d \in components[c].deps : info[d]
  \/ \E m \in ToSet(components[c].members) : \E f \in ToSet(Fields(m)) : f.required

----------------------------------------------------------------------------
(* doLayout *)

RoundUp(v, align) == ((v + align - 1) \div align) * align

\* The fields that get a struct slot: all but the later members of a oneof, which
\* join the slot before them.
Heads(fds) ==
  {i \in DOMAIN fds : fds[i].oneof = 0 \/ \A j \in 1 .. i - 1 : fds[j].oneof # fds[i].oneof}
HeadOf(fds, i) == Max({h \in Heads(fds) : h <= i})
Members(fds, h) == {i \in DOMAIN fds : HeadOf(fds, i) = h}
SlotSize(fds, h)  == Max({fds[i].arch.size : i \in Members(fds, h)})
SlotAlign(fds, h) == Max({fds[i].arch.align : i \in Members(fds, h)})
SlotBits(fds, h)  == Max({fds[i].arch.bits : i \in Members(fds, h)})

\* Struct slots by alignment; the sort is stable, and every slot is hot.
Before(fds, a, b) ==
  SlotAlign(fds, a) > SlotAlign(fds, b) \/ (SlotAlign(fds, a) = SlotAlign(fds, b) /\ a < b)
Earlier(fds, h) == {g \in Heads(fds) : Before(fds, g, h)}
SlotAt(fds, k) == CHOOSE h \in Heads(fds) : Cardinality(Earlier(fds, h)) = k - 1

\* layout.Size[dynamic.Message]; bit and which words have 4 bytes.
MessageSize == 16
IsOneof(fds, h) == fds[h].oneof # 0
BitsOf(fds, slots) == UNION {{h} \X (1 .. SlotBits(fds, h)) : h \in slots}
OneofsOf(fds, slots) == {h \in slots : IsOneof(fds, h)}
BitWords(fds) == (Cardinality(BitsOf(fds, Heads(fds))) + WordBits - 1) \div WordBits
WhichWords(fds) == Cardinality(OneofsOf(fds, Heads(fds)))
DataStart(fds) == MessageSize + 4 * (BitWords(fds) + WhichWords(fds))

\* Mutant of WhichStart: the which words begin where the hasbits do.
WhichStartLow(fds) == MessageSize

\* nextWhichWord: the which words follow the hasbits.
WhichStart(fds) == DataStart(fds) - 4 * WhichWords(fds)

\* ir.hot after k slots, each aligned behind the one before.
Hot(fds) ==
  LET hot[k \in 0 .. Cardinality(Heads(fds))] ==
        IF k = 0 THEN DataStart(fds)
        ELSE LET h == SlotAt(fds, k)
             IN  RoundUp(hot[k - 1], SlotAlign(fds, h)) + SlotSize(fds, h)
  IN  hot

\* Where slot h begins; nextBit and nextWhichWord count what earlier slots took.
SlotData(fds, h) == RoundUp(Hot(fds)[Cardinality(Earlier(fds, h))], SlotAlign(fds, h))
SlotBit(fds, h) ==
  IF IsOneof(fds, h) THEN WhichStart(fds) + 4 * Cardinality(OneofsOf(fds, Earlier(fds, h)))
  ELSE IF SlotBits(fds, h) > 0 THEN Cardinality(BitsOf(fds, Earlier(fds, h))) ELSE 0

\* The offset of every field, and Type.Size, which a hidden field rounds up to 8.
Offsets(fds) ==
  [i \in DOMAIN fds |->
     LET h == HeadOf(fds, i)
     IN  [data   |-> SlotData(fds, h), bit |-> SlotBit(fds, h),
          number |-> IF IsOneof(fds, h) THEN fds[i].num ELSE 0]]
TypeSize(fds) == RoundUp(Hot(fds)[Cardinality(Heads(fds))], 8)

----------------------------------------------------------------------------
(* doSchedule *)

\* The parsers: the first ones of hot fields, then all others.
AllParsers(fds) ==
  FlattenSeq([i \in DOMAIN fds |->
    [j \in DOMAIN fds[i].arch.parsers |->
      [t |-> i, kind |-> fds[i].arch.parsers[j].kind, retry |-> fds[i].arch.parsers[j].retry,
       hot |-> j = 1 /\ fds[i].hot]]])
Selected(ps, hot) ==
  LET sel[i \in 0 .. Len(ps)] ==
        IF i = 0 THEN <<>> ELSE IF ps[i].hot = hot THEN Append(sel[i - 1], ps[i]) ELSE sel[i - 1]
  IN  sel[Len(ps)]
Parsers(fds) == Selected(AllParsers(fds), TRUE) \o Selected(AllParsers(fds), FALSE)

\* The complement of a oneof's index, or the field's.  An extension's is that of
\* its place in the file.
Idx(fds, t) == IF IsOneof(fds, t) THEN -fds[t].oneof ELSE fds[t].index

\* Where parser i goes on after a success: to itself, or to the first hot parser of
\* another field or oneof at or behind the first field from its own that has a hot
\* parser, or to the first parser.
NextOk(fds, p, i) ==
  LET hot(t) == {k \in DOMAIN p : p[k].hot /\ Idx(fds, p[k].t) = Idx(fds, t)}
      from == {t \in DOMAIN fds : t >= p[i].t /\ hot(t) # {}}
      ahead == {k \in DOMAIN p : /\ p[k].hot /\ k >= Min(hot(Min(from)))
                                 /\ Idx(fds, p[k].t) # Idx(fds, p[i].t)}
  IN  IF p[i].retry THEN i ELSE IF from = {} \/ ahead = {} THEN 1 ELSE Min(ahead)

IR(m) == [offsets |-> Offsets(Fields(m)), hot |-> TypeSize(Fields(m)), p |-> Parsers(Fields(m))]

----------------------------------------------------------------------------
(* codegen *)

Tag(fds, p) == 8 * fds[p.t].num + p.kind

\* Mutant of LutEntry: an index that does not fit is cut off.
LutEntryCut(i) == (i - 1) % (LutAbsent + 1)

\* What writeLUT stores for parser i; LutAbsent when the index does not fit, and
\* also for the last index that does.
LutEntry(i) == IF i - 1 <= LutAbsent THEN i - 1 ELSE LutAbsent
Lut(fds, p) ==
  [tag \in 0 .. LutTags - 1 |->
     LET is == {i \in DOMAIN p : Tag(fds, p[i]) = tag}
     IN  IF is = {} THEN LutAbsent ELSE LutEntry(Max(is))]

\* Symbols are named by what they are, for which message, and the index of a parser.
Name(sym, m, i) == [sym |-> sym, ty |-> m, at |-> i]
Rel(slot, to, kind) == [slot |-> slot, to |-> to, kind |-> kind]
Symbol(name, size, rels) == [name |-> name, size |-> size, rels |-> rels]

\* Sizes of the structs of package tdp, and of a table of n entries; all align to 8.
SizeofType == 40
SizeofField == 32
SizeofTypeParser == 208
SizeofFieldParser == 56
SizeofTable(n) == 8 * (n + 4)

ParserRels(m, tags, first) ==
  {Rel("TypeOffset", Name("type", m, 0), "Abs32"),
   Rel("Tags", tags, "Address"), Rel("NextOk", first, "Address")}

\* The parsers of a message; one that never matches if there are none.
FieldSymbols(m, fds, p) ==
  LET field(i) == Name("field", m, i)
      rels(i) ==
        {Rel("NextOk", field(NextOk(fds, p, i)), "Address"),
         Rel("NextErr", field(IF i = Len(p) THEN 1 ELSE i + 1), "Address")}
           \cup {Rel("Message", Name("parser", fds[t].msg, 0), "Address") :
                   t \in {t \in {p[i].t} : fds[t].msg # None}}
  IN  IF p = <<>>
      THEN <<Symbol(field(1), SizeofFieldParser, {Rel("NextOk", field(1), "Address"),
                                                  Rel("NextErr", field(1), "Address")})>>
      ELSE [i \in DOMAIN p |-> Symbol(field(i), SizeofFieldParser, rels(i))]

\* The parser of a message as a map entry.  NextOk is relocated with the wrong kind.
EntrySymbols(m) ==
  LET first == Name("entryField", m, 1)
  IN  <<Symbol(Name("entry", m, 0), SizeofTypeParser, ParserRels(m, Name("entryTags", m, 0), first)),
        Symbol(first, SizeofFieldParser,
               {Rel("NextOk", first, "Abs32"), Rel("NextErr", first, "Address"),
                Rel("Message", Name("parser", m, 0), "Address")}),
        Symbol(Name("entryTags", m, 0), SizeofTable(1), {})>>

TypeSymbol(m, fds) ==
  Symbol(Name("type", m, 0), SizeofType + SizeofField * (Len(fds) + 1),
         {Rel("Parser", Name("parser", m, 0), "Address"),
          Rel("Numbers", Name("numbers", m, 0), "Address")}
           \cup {Rel("Message", Name("type", fds[i].msg, 0), "Address") :
                   i \in {i \in DOMAIN fds : fds[i].msg # None}})

\* codegen
SymbolsOf(m) ==
  LET fds == Fields(m)
      p == Parsers(fds)
      tags == Name("tags", m, 0)
  IN  <<TypeSymbol(m, fds), Symbol(Name("numbers", m, 0), SizeofTable(Len(fds)), {}),
        Symbol(Name("parser", m, 0), SizeofTypeParser,
               {Rel("MapEntry", Name("entry", m, 0), "Address")}
                 \cup ParserRels(m, tags, Name("field", m, 1)))>>
       \o FieldSymbols(m, fds, p) \o <<Symbol(tags, SizeofTable(Len(p)), {})>>
       \o EntrySymbols(m)

----------------------------------------------------------------------------
(* Link *)

\* Where k symbols end, and the offset of every symbol.
Ends(syms) ==
  LET end[k \in 0 .. Len(syms)] == IF k = 0 THEN 0 ELSE RoundUp(end[k - 1], 8) + syms[k].size
  IN  end
LinkedAt(syms) ==
  LET end == Ends(syms)
  IN  [n \in {s.name : s \in ToSet(syms)} |->
         RoundUp(end[(CHOOSE k \in DOMAIN syms : syms[k].name = n) - 1], 8)]

\* What a relocation stores.
Resolve(r) == IF r.kind = "Address" THEN Base + program[r.to] ELSE program[r.to]

----------------------------------------------------------------------------
(* compile *)

Init ==
  /\ input \in Inputs
  /\ graph = MessageGraph
  /\ SccInit
  /\ info = <<>> /\ irs = <<>> /\ symbols = <<>> /\ program = <<>> /\ required = <<>>

SortComponents == SccNext /\ UNCHANGED <<input, info, irs, symbols, program, required>>

\* One turn of the loop over c.dag.Topological().
CompileComponent ==
  /\ Sorted /\ Len(info) < Len(components)
  /\ LET c == Len(info) + 1
         members == components[c].members
     IN  /\ info' = Append(info, HasRequired(c))
         /\ irs' = [m \in DOMAIN irs \cup ToSet(members) |->
                      IF m \in DOMAIN irs THEN irs[m] ELSE IR(m)]
         /\ symbols' = symbols \o FlattenSeq([k \in DOMAIN members |-> SymbolsOf(members[k])])
  /\ UNCHANGED <<graph, calls, index, stack, meta, keys, components, input, program, required>>

Link ==
  /\ Sorted /\ Len(info) = Len(components) /\ program = <<>>
  /\ program' = LinkedAt(symbols)
  /\ UNCHANGED <<graph, calls, index, stack, meta, keys, components, input, info, irs, symbols, required>>

\* ty.Required: i for a required field, -i for one whose message may have one.
RequiredOf(fds) ==
  LET own == {i \in DOMAIN fds : \A j \in 1 .. i : ~fds[j].ext}
  IN  {i \in own : fds[i].required}
        \cup {-i : i \in {i \in own : fds[i].msg # None /\ info[keys[fds[i].msg]]}}

PopulateTypes ==
  /\ program # <<>> /\ required = <<>>
  /\ required' = [m \in DOMAIN keys |-> RequiredOf(Fields(m))]
  /\ UNCHANGED <<graph, calls, index, stack, meta, keys, components, input, info, irs, symbols, program>>

Next == SortComponents \/ CompileComponent \/ Link \/ PopulateTypes

Spec == Init /\ [][Next]_vars

----------------------------------------------------------------------------
(* How the parser loop finds a field: run.go, number and field; vm.go, byTag *)

\* FieldParser i of the TypeParser at an address, as TypeParser.Fields computes it.
FieldAt(parser, i) == parser + SizeofTypeParser + SizeofFieldParser * i

\* The field parser symbol at an address.
SymbolAt(addr) == {s \in ToSet(symbols) : Base + program[s.name] = addr}
Follow(addr, slot) ==
  {Resolve(r) : r \in UNION {{r \in s.rels : r.slot = slot} : s \in SymbolAt(addr)}}

\* The tag of the field parser at an address.
TagAt(fds, p, addr) == UNION {{Tag(fds, p[i]) : i \in {s.name.at} \cap DOMAIN p} : s \in SymbolAt(addr)}

\* Along NextErr, until the tag is found.
Walk(fds, p, at, tag) ==
  LET walk[k \in 0 .. MaxMisses] ==
        IF k = 0 THEN at
        ELSE IF TagAt(fds, p, walk[k - 1]) = {tag} THEN walk[k - 1]
        ELSE CHOOSE a \in Follow(walk[k - 1], "NextErr") : TRUE
  IN  walk

\* The address that the loop finds for a tag in a message when it is at field
\* parser `at`: through TagLUT, by MaxMisses steps along NextErr, or through Tags;
\* none for an unknown field.
Found(m, at, tag) ==
  LET fds == Fields(m)
      p == irs[m].p
      parser == Base + program[Name("parser", m, 0)]
      walk == Walk(fds, p, at, tag)
      tries == {k \in 0 .. MaxMisses - 1 : TagAt(fds, p, walk[k]) = {tag}}
  IN  IF tag < LutTags /\ Lut(fds, p)[tag] # LutAbsent
      THEN {FieldAt(parser, Lut(fds, p)[tag])}
      ELSE IF tries # {} THEN {walk[Min(tries)]}
      ELSE {FieldAt(parser, i - 1) : i \in {i \in DOMAIN p : Tag(fds, p[i]) = tag}}

----------------------------------------------------------------------------
(* Properties *)

\* The field parsers of a message in the linked program, those for a tag, and the tags
\* that are looked for.
FieldAddr(m, i) == Base + program[Name("field", m, i)]
FieldAddrs(m, p) == {FieldAddr(m, i) : i \in DOMAIN p}
AddrsOf(m, fds, p, tag) == {FieldAddr(m, i) : i \in {i \in DOMAIN p : Tag(fds, p[i]) = tag}}
TagsOf(fds) == {8 * f.num + k : f \in ToSet(fds), k \in {0, 2}} \cup {0}

\* In the linked program the loop, wherever in a message's parser it is, finds for
\* every tag the parser that was generated for it and nothing else: the entries of
\* TagLUT and Tags count from the end of the TypeParser, where the linker has to put
\* the parsers in order, and every NextOk and NextErr leads to a parser of the same
\* message, and TypeOffset, an offset, to its type.  The NextOk of map entry parsers is
\* left out: it is not an address (compile.go codegen, writeLUT; linker.go Link; run.go
\* loop).
ProgramDispatches ==
  program # <<>> =>
    \A m \in DOMAIN keys :
      LET fds == Fields(m)
          p == irs[m].p
      IN  /\ p # <<>> =>
               \A a \in FieldAddrs(m, p) :
                 /\ \A slot \in {"NextOk", "NextErr"} :
                      Follow(a, slot) # {} /\ Follow(a, slot) \subseteq FieldAddrs(m, p)
                 /\ \A t \in TagsOf(fds) : Found(m, a, t) = AddrsOf(m, fds, p, t)
          /\ \A slot \in {"Tags", "MapEntry", "NextOk"} :
               \A x \in Follow(Base + program[Name("parser", m, 0)], slot) :
                 \E s \in SymbolAt(x) : s.name.ty = m
          /\ \A sym \in {"parser", "entry"} :
               Follow(Base + program[Name(sym, m, 0)], "TypeOffset") = {program[Name("type", m, 0)]}

\* The fields of a message of the given size at the given offsets: no two share
\* storage, neither bytes, nor hasbits, nor which words, unless they are members of
\* one oneof, which are told apart by number; everything lies behind the header,
\* aligned and within the size.
LaidOut(fds, off, size) ==
  LET words == MessageSize + 4 * BitWords(fds)
      data(i) == off[i].data .. off[i].data + fds[i].arch.size - 1
      bits(i) == IF IsOneof(fds, i) THEN {} ELSE off[i].bit .. off[i].bit + fds[i].arch.bits - 1
      which(i) == IF IsOneof(fds, i) THEN off[i].bit .. off[i].bit + 3 ELSE {}
      shared(i, j) == IsOneof(fds, i) /\ fds[i].oneof = fds[j].oneof
  IN  /\ size % 8 = 0
      /\ \A i \in DOMAIN fds :
           /\ off[i].data % fds[i].arch.align = 0
           /\ data(i) \subseteq DataStart(fds) .. size - 1
           /\ bits(i) \subseteq 0 .. WordBits * BitWords(fds) - 1
           /\ which(i) \subseteq words .. DataStart(fds) - 1
      /\ \A i, j \in DOMAIN fds : i # j =>
           IF shared(i, j) THEN off[i].number # off[j].number /\ which(i) = which(j)
           ELSE /\ data(i) \cap data(j) = {}
                /\ bits(i) \cap bits(j) = {}
                /\ which(i) \cap which(j) = {}

\* doLayout lays out the fields of every message so (ir.go doLayout).
SlotsDisjoint == \A m \in DOMAIN irs : LaidOut(Fields(m), irs[m].offsets, irs[m].hot)

\* A message contains a required field, directly or in what it contains.
MayLack(m) == \E n \in ReachFrom(m) : \E f \in ToSet(Fields(n)) : f.required
Recursive(m) == \E n \in ReachFrom(m) : n \in UNION {ReachFrom(d) : d \in ToSet(graph.deps[n])}

\* In messages that contain no recursive one, Initialized looks into exactly the
\* submessages that may lack a required field, however deep and through whichever
\* component it is found (ir.go newSCCInfo, compile.go compile).
RequiredExact ==
  \A m \in DOMAIN required :
    \A i \in DOMAIN Fields(m) :
      LET f == Fields(m)[i]
      IN  (\A j \in 1 .. i : ~Fields(m)[j].ext) /\ ~Recursive(m) =>
            (-i \in required[m] <=> f.msg # None /\ MayLack(f.msg))

\* The same for recursive messages, of which ir.go says that "it is sufficient to
\* just check for required fields across the whole component": no submessage that
\* may lack a required field is passed over.
RequiredFound ==
  \A m \in DOMAIN required :
    \A i \in DOMAIN Fields(m) :
      LET f == Fields(m)[i]
      IN  (\A j \in 1 .. i : ~Fields(m)[j].ext) /\ f.msg # None /\ MayLack(f.msg) =>
            -i \in required[m]

----------------------------------------------------------------------------
(* The inductive invariant *)

\* What newSCCInfo said of a component that was compiled is right for a message that
\* contains no recursive one.
InfoExact ==
  \A m \in DOMAIN keys :
    keys[m] <= Len(info) /\ ~Recursive(m) => (info[keys[m]] <=> MayLack(m))

\* What codegen hands to the linker for the messages ms: every symbol is of one of them,
\* no two have one name, and the symbols of a message are next to each other, in order.
Generated(syms, ms) ==
  /\ syms \in Seq(ToSet(syms))
  /\ \A k \in DOMAIN syms : syms[k].name.ty \in ms /\ syms[k].size \in Nat \ {0}
  /\ \A k, l \in DOMAIN syms : k # l => syms[k].name # syms[l].name
  /\ \A m \in ms : \E b \in 0 .. Len(syms) - Len(SymbolsOf(m)) :
       \A k \in DOMAIN SymbolsOf(m) : syms[b + k] = SymbolsOf(m)[k]

CompilerInv ==
  /\ SccInv
  /\ IsInput(input) /\ graph = MessageGraph
  /\ info \in Seq(BOOLEAN) /\ Len(info) <= Len(components)
  /\ info # <<>> \/ program # <<>> \/ required # <<>> => Sorted
  /\ program # <<>> \/ required # <<>> => Len(info) = Len(components)
  /\ InfoExact
  /\ DOMAIN irs = {m \in DOMAIN keys : keys[m] <= Len(info)} /\ \A m \in DOMAIN irs : irs[m] = IR(m)
  /\ Generated(symbols, DOMAIN irs) /\ (program # <<>> => program = LinkedAt(symbols))
  /\ required # <<>> => required = [m \in DOMAIN keys |-> RequiredOf(Fields(m))]
=============================================================================
