------------------------------- MODULE Swiss --------------------------------
(***************************************************************************)
(* The Swiss table of internal/swiss and its two writers: the map-field    *)
(* thunks of internal/tdp/thunks/map.go, which grow the table when Insert  *)
(* returns nil, and New, which sizes it once for all entries (the compiler *)
(* builds the tag tables that way).                                        *)
(*                                                                         *)
(* A behaviour is one map field (or one call of New) reading its entries.  *)
(* A table is [len, soft, hard, seed, ctrl, keys, vals]: ctrl has hard     *)
(* control bytes and a copy of the first ones, 0 for an empty slot.        *)
(* Memory comes zeroed from the arena, so unused keys and values are zero. *)
(***************************************************************************)
EXTENDS Integers, Sequences, FiniteSetsExt

CONSTANTS
  Content,  \* Content[k]: the bytes extract() finds for key k; k itself for integers
  ZeroKey,  \* the key whose representation is zero
  Hash,     \* Hash[seed][c]: the hash of content c, a number
  Inputs    \* [op, preload, entries]; op is "map" or "new"

Seeds == DOMAIN Hash
Keys == DOMAIN Content
Contents == {Content[k] : k \in Keys}

\* maxEntries: Layout panics if it is asked for more.
MaxEntries == 268435455

ASSUME SwissAssumption ==
  /\ ZeroKey \in Keys
  /\ \A seed \in Seeds : \A c \in Contents : Hash[seed][c] \in Nat
  /\ \A in \in Inputs :
       /\ in.op \in {"map", "new"} /\ in.preload \in 0 .. MaxEntries
       /\ in.entries \in Seq([key : Keys, value : Nat]) /\ Len(in.entries) <= MaxEntries

\* The powers of two that a table's size is chosen from.
ASSUME PowerAssumption ==
  /\ \A i \in 0 .. 29 : 2^i \in Nat
  /\ 2^0 = 1 /\ \A i \in 0 .. 28 : 2^(i + 1) = 2 * 2^i

VARIABLES
  op,       \* who writes: a map thunk or New
  preload,  \* FieldParser.Preload, the capacity a profile suggests
  entries,  \* the parsed entries, in wire order: [key, value]
  next,     \* how many were stored
  table,    \* the table, or Nil
  status    \* "ok"; "nil": wrote through a nil pointer; "loop": a search never ended

vars == <<op, preload, entries, next, table, status>>

Nil == [nil |-> TRUE]
ZeroValue == 0

----------------------------------------------------------------------------
(* Control words *)

CtrlSize == 8
Empty == 0

\* hash.h1 and hash.h2: 57 bits that choose where to probe, 7 that tag the slot;
\* the complement keeps a tag apart from Empty.
H1(h) == h \div 128

\* Mutant of H2: the seven bits are stored as they are.
H2Plain(h) == h % 128

H2(h) == 255 - (h % 128)

\* The control word at byte offset n.
Word(t, n) == [j \in 0 .. CtrlSize - 1 |-> t.ctrl[n + j]]

\* ctrl.matches.  The subtraction in (x - lows) &^ x & highs borrows from the
\* next byte, so the bytes above a match that differ from b in the lowest bit only
\* are reported as well.
Matches(word, b) ==
  {j \in 0 .. CtrlSize - 1 :
     \E i \in 0 .. j : word[i] = b /\ \A k \in i + 1 .. j : word[k] \div 2 = b \div 2}

\* prober.next: the offset of the s-th word looked at, s = 0, 1, ...
ProbeAt(t, h, s) ==
  LET at[i \in 0 .. s] == IF i = 0 THEN H1(h) % t.hard
                          ELSE (at[i - 1] + CtrlSize * i) % t.hard
  IN  at[s]

----------------------------------------------------------------------------
(* Searching *)

\* The slots of the word at n whose key search compares with k, and those where
\* it finds k.
Candidates(t, h, n) == {(n + j) % t.hard : j \in Matches(Word(t, n), H2(h))}
HitsAt(t, h, c, n) ==
  {j \in Matches(Word(t, n), H2(h)) : Content[t.keys[(n + j) % t.hard]] = c}
EmptiesAt(t, n) == Matches(Word(t, n), Empty)

\* Searching for content c ends at probe s.  The assertion in the loop of search
\* allows as many probes as there are words.
EndsAt(t, c, s) ==
  LET h == Hash[t.seed][c]
      n == ProbeAt(t, h, s)
  IN  HitsAt(t, h, c, n) # {} \/ EmptiesAt(t, n) # {}
Ends(t, c) == {s \in 0 .. (t.hard \div CtrlSize) - 1 : EndsAt(t, c, s)}

\* search and searchFunc: the slot of c, or the one to put it in.
Search(t, c) ==
  LET h == Hash[t.seed][c]
      n == ProbeAt(t, h, Min(Ends(t, c)))
      hits == HitsAt(t, h, c, n)
  IN  [idx |-> (n + Min(IF hits # {} THEN hits ELSE EmptiesAt(t, n))) % t.hard,
       occupied |-> hits # {}]

\* Lookup and LookupFunc; the set is empty for nil.
Lookup(t, c) ==
  IF t = Nil \/ Ends(t, c) = {} THEN {}
  ELSE LET slot == Search(t, c)
       IN  IF slot.occupied THEN {t.vals[slot.idx]} ELSE {}

\* The slots All yields: in order, and no more than len of them.
Live(t) == {i \in 0 .. t.hard - 1 : t.ctrl[i] # Empty}
All(t) == {i \in Live(t) : Cardinality({j \in Live(t) : j < i}) < t.len}

----------------------------------------------------------------------------
(* Creating and growing *)

\* Mutant of LoadFactor: no slot is held back.
LoadFactorFull(n) ==
  LET hard == Min({p \in {2^i : i \in 3 .. 29} : p >= n})
  IN  [soft |-> hard, hard |-> hard]

\* loadFactor: room for n elements at a load of at most 7/8.  The last power of
\* two exceeds what maxEntries needs.
MinEntries == (CtrlSize * 7) \div 8
LoadFactor(n) ==
  LET e == IF n > MinEntries THEN n ELSE MinEntries
      hard == Min({p \in {2^i : i \in 0 .. 29} : p >= (e * 8) \div 7})
  IN  [soft |-> (hard \div 8) * 7, hard |-> hard]

\* Layout and Init without a table to copy from.
Fresh(n, seed) ==
  LET f == LoadFactor(n)
  IN  [len |-> 0, soft |-> f.soft, hard |-> f.hard, seed |-> seed,
       ctrl |-> [i \in 0 .. f.hard + CtrlSize - 1 |-> Empty],
       keys |-> [i \in 0 .. f.hard - 1 |-> ZeroKey],
       vals |-> [i \in 0 .. f.hard - 1 |-> ZeroValue]]

\* mirrorIndex: where the copy of control byte idx is; idx itself if it has none.
MirrorIndex(t, idx) ==
  ((idx - (CtrlSize - 1)) % t.hard) + ((CtrlSize - 1) % t.hard)

\* Mutant of Occupy: the copy is not written.
OccupyUnmirrored(t, idx, k) ==
  [t EXCEPT !.ctrl[idx] = H2(Hash[t.seed][Content[k]]), !.keys[idx] = k, !.len = @ + 1]

\* Slot idx becomes k's.
Occupy(t, idx, k) ==
  LET h2 == H2(Hash[t.seed][Content[k]])
  IN  [t EXCEPT !.ctrl[idx] = h2, !.ctrl[MirrorIndex(t, idx)] = h2,
                !.keys[idx] = k, !.len = @ + 1]

\* The loop body of Init: slot i of a table is copied into t, if it is live and
\* not all live slots have been.
CopySlot(from, t, i) ==
  LET k == from.keys[i]
      idx == Search(t, Content[k]).idx
  IN  IF from.ctrl[i] = Empty \/ t.len = from.len THEN t
      ELSE [Occupy(t, idx, k) EXCEPT !.vals[idx] = from.vals[i]]

\* Init with a table to copy from, whose slots are visited in order.
Rehash(from, n, seed) ==
  LET copied[i \in 0 .. from.hard] ==
        IF i = 0 THEN Fresh(n, seed) ELSE CopySlot(from, copied[i - 1], i - 1)
  IN  copied[from.hard]

----------------------------------------------------------------------------
(* Inserting *)

\* Mutant of Full: compared one insertion too late.
FullLate(t) == t.len > t.soft

\* Insert returns nil, whether or not the key is in the table.
Full(t) == t.len = t.soft

\* Mutant of Inserted: an occupied slot is counted again.
InsertedTwice(t, slot, k) == Occupy(t, slot.idx, k)

\* The table after Insert of k, for which search found slot.
Inserted(t, slot, k) == IF slot.occupied THEN t ELSE Occupy(t, slot.idx, k)

\* *Insert(key, extract) = value
Store(t, e) ==
  /\ next' = next + 1
  /\ status' = IF Full(t) THEN "nil"
               ELSE IF Ends(t, Content[e.key]) = {} THEN "loop" ELSE "ok"
  /\ table' = IF status' # "ok" THEN t
              ELSE LET slot == Search(t, Content[e.key])
                   IN  [Inserted(t, slot, e.key) EXCEPT !.vals[slot.idx] = e.value]
  /\ UNCHANGED <<op, preload, entries>>

Reading == status = "ok" /\ next < Len(entries)

\* The insert part of parseMapKxV and parseMapKxM when the table has room (it is
\* created for the first entry) ...
ParseEntry ==
  /\ Reading /\ op = "map"
  /\ \/ table # Nil /\ ~Full(table) /\ Store(table, entries[next + 1])
     \/ /\ table = Nil
        /\ \E seed \in Seeds :
             Store(Fresh(IF preload > 1 THEN preload ELSE 1, seed), entries[next + 1])

\* ... and when Insert returns nil: a larger table is filled from the old one.
GrownLen(t) == t.len + 1
GrowAndParseEntry ==
  /\ Reading /\ op = "map" /\ table # Nil /\ Full(table)
  /\ \E seed \in Seeds :
       Store(Rehash(table, GrownLen(table), seed), entries[next + 1])

\* New: one table for all entries, then its loop over them.
NewTable ==
  /\ status = "ok" /\ op = "new" /\ table = Nil
  /\ \E seed \in Seeds : table' = Fresh(Len(entries), seed)
  /\ UNCHANGED <<op, preload, entries, next, status>>
NewEntry ==
  /\ Reading /\ op = "new" /\ table # Nil
  /\ Store(table, entries[next + 1])

Init ==
  /\ \E in \in Inputs : op = in.op /\ preload = in.preload /\ entries = in.entries
  /\ next = 0 /\ table = Nil /\ status = "ok"

Next == ParseEntry \/ GrowAndParseEntry \/ NewTable \/ NewEntry

Spec == Init /\ [][Next]_vars

----------------------------------------------------------------------------
(* Properties *)

\* The fields of a table: its capacities are those of a power of two of control
\* words, it counts its elements within the soft one, and its control bytes are
\* Empty or have the sign bit that h2 sets.
IsTable(t) ==
  /\ t = [len |-> t.len, soft |-> t.soft, hard |-> t.hard, seed |-> t.seed,
          ctrl |-> t.ctrl, keys |-> t.keys, vals |-> t.vals]
  /\ \E i \in 0 .. 26 : t.hard = CtrlSize * 2^i /\ t.soft = (CtrlSize - 1) * 2^i
  /\ t.len \in 0 .. t.soft /\ t.seed \in Seeds
  /\ t.ctrl \in [0 .. t.hard + CtrlSize - 1 -> {Empty} \cup (128 .. 255)]
  /\ t.keys \in [0 .. t.hard - 1 -> Keys] /\ t.vals \in [0 .. t.hard - 1 -> Nat]

\* Types of the input and of the table.
TypeOK ==
  /\ op \in {"map", "new"} /\ preload \in 0 .. MaxEntries
  /\ entries \in Seq([key : Keys, value : Nat]) /\ Len(entries) <= MaxEntries
  /\ status \in {"ok", "nil", "loop"} /\ next \in 0 .. Len(entries)
  /\ table # Nil => IsTable(table)

\* The abstract map: for each content the values All yields with it.
Visible ==
  [c \in Contents |-> IF table = Nil THEN {}
                      ELSE {table.vals[i] : i \in {i \in All(table) : Content[table.keys[i]] = c}}]
Abstract == INSTANCE MapField WITH map <- Visible

\* Through Insert, growth, collisions and repeated keys, iterating over the table
\* gives every key the value of its last entry and nothing else: the table
\* implements MapField (Table.Insert, Table.Init, Table.All and the map thunks).
Implements == Abstract!Spec

\* search ends for every key, present or not, before it has looked at more words
\* than there are: the comment and the assertion in Table.search.
ProbesEnd == table # Nil => \A c \in Contents : Ends(table, c) # {}

\* search compares k with the keys of occupied slots only, although matches may
\* report bytes that differ from h2: an empty slot holds the zero key.
ComparesLiveKeys ==
  table # Nil => \A c \in Contents :
    LET h == Hash[table.seed][c]
    IN  \A s \in 0 .. (table.hard \div CtrlSize) - 1 :
          Candidates(table, h, ProbeAt(table, h, s)) \subseteq Live(table)

\* Lookup, All and Len agree: All yields every key that Lookup finds exactly once,
\* with the value that Lookup finds, Lookup finds no other key, and Len counts them.
ReadersAgree ==
  table # Nil =>
    /\ \A i \in All(table) : Lookup(table, Content[table.keys[i]]) = {table.vals[i]}
    /\ Cardinality(All(table)) = table.len
    /\ Cardinality({Content[table.keys[i]] : i \in All(table)}) = table.len
    /\ Cardinality({c \in Contents : Lookup(table, c) # {}}) = table.len
----------------------------------------------------------------------------
(* The inductive invariant *)

\* A slot is live while its control byte and its copy hold the tag of its key.
Mirrored(t) == \A i \in 0 .. CtrlSize - 2 : t.ctrl[t.hard + i] = t.ctrl[i]
Tagged(t) == \A i \in Live(t) : t.ctrl[i] = H2(Hash[t.seed][Content[t.keys[i]]])

\* len counts the live slots, and no two of them hold the same key.
Counted(t) == Cardinality(Live(t)) = t.len
KeysDistinct(t) ==
  \A i, j \in Live(t) : Content[t.keys[i]] = Content[t.keys[j]] => i = j

\* Searching with hash h looks at slot i before it can end at an empty one.
Reachable(t, h, i) ==
  \E s \in 0 .. (t.hard \div CtrlSize) - 1 :
    /\ \E j \in 0 .. CtrlSize - 1 : i = (ProbeAt(t, h, s) + j) % t.hard
    /\ \A r \in 0 .. s - 1 : EmptiesAt(t, ProbeAt(t, h, r)) = {}
KeysReachable(t) ==
  \A i \in Live(t) : Reachable(t, Hash[t.seed][Content[t.keys[i]]], i)

\* What every operation on a table finds and leaves behind.
TableInv(t) ==
  /\ IsTable(t) /\ Mirrored(t) /\ Tagged(t) /\ Counted(t)
  /\ KeysDistinct(t) /\ KeysReachable(t)

\* The table is in order, New's has room for all entries, and no write went wrong.
SwissInv ==
  /\ TypeOK /\ status = "ok"
  /\ IF table = Nil THEN next = 0
     ELSE /\ TableInv(table) /\ table.len <= next
          /\ op = "new" => Len(entries) <= table.soft

=============================================================================
