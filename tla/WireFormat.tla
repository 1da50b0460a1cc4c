----------------------------- MODULE WireFormat -----------------------------
(***************************************************************************)
(* What a byte string means as a message: the Protobuf wire format as a    *)
(* recursive decoder over whole records, independent of how the parser     *)
(* proceeds.  It is the reference for the parser, and for TLC only.        *)
(*                                                                         *)
(* A decoded message is a tree: the value of every field (a submessage as  *)
(* a sequence of at most one tree, a repeated one as a sequence of trees,  *)
(* bytes as their contents) and the set of input positions that hold       *)
(* unknown records.                                                        *)
(*                                                                         *)
(* lax makes the reference give way on three points: a group whose last    *)
(* record is unknown may end with its buffer, numbers inside an unknown    *)
(* group may be wider than a tag, and a tag may be padded to ten bytes.    *)
(***************************************************************************)
EXTENDS Integers, Sequences

CONSTANTS Fields, TagBits, DiscardUnknown

NoEnd == -1

Greater(m, n) == IF m >= n THEN m ELSE n

Bad == [ok |-> FALSE]

\* The varint at positions i .. hi of b; a value of 2^28 and more is Huge.
Huge == 2^28
Var(b, i, hi) ==
  LET ends == {q \in i .. hi : q < i + 10 /\ b[q] < 128}
      last == CHOOSE q \in ends : \A r \in ends : q <= r
      sum[k \in 0 .. 4] ==
        IF k = 0 THEN 0
        ELSE sum[k - 1] + (IF i + k - 1 <= last THEN (b[i + k - 1] % 128) * 128^(k - 1) ELSE 0)
      val == IF \E q \in i + 4 .. last : b[q] % 128 # 0 THEN Huge ELSE sum[4]
  IN  IF ends = {} \/ (last = i + 9 /\ b[last] > 1) THEN Bad
      ELSE [ok |-> TRUE, next |-> last + 1, val |-> val]

TagOk(tag) == tag >= 8 /\ tag < 2^TagBits
NestedTagOk(tag, lax) == IF lax THEN (tag \div 8) % 2^TagBits # 0 ELSE TagOk(tag)

\* The value of an unknown record with the given tag, at i.  depth is one less
\* than the number of groups it nests.
RECURSIVE SkipValue(_, _, _, _, _)
RECURSIVE SkipUntil(_, _, _, _, _)

SkipTo(next, hi) ==
  IF next <= hi + 1 THEN [ok |-> TRUE, next |-> next, depth |-> -1] ELSE Bad

SkipValue(b, i, hi, tag, lax) ==
  LET v == Var(b, i, hi)
  IN  CASE tag % 8 = 0 -> IF v.ok THEN SkipTo(v.next, hi) ELSE Bad
        [] tag % 8 = 1 -> SkipTo(i + 8, hi)
        [] tag % 8 = 2 -> IF v.ok THEN SkipTo(v.next + v.val, hi) ELSE Bad
        [] tag % 8 = 3 -> SkipUntil(b, i, hi, tag + 1, lax)
        [] tag % 8 = 5 -> SkipTo(i + 4, hi)
        [] OTHER       -> Bad

SkipUntil(b, i, hi, endTag, lax) ==
  LET t == Var(b, i, hi)
  IN  IF ~t.ok THEN Bad
      ELSE IF t.val = endTag THEN [ok |-> TRUE, next |-> t.next, depth |-> 0]
      ELSE IF ~NestedTagOk(t.val, lax) THEN Bad
      ELSE LET r == SkipValue(b, t.next, hi, t.val, lax)
           IN  IF ~r.ok THEN Bad
               ELSE LET s == SkipUntil(b, r.next, hi, endTag, lax)
                    IN  IF ~s.ok THEN Bad
                        ELSE [s EXCEPT !.depth = Greater(@, r.depth + 1)]

Default(kind) ==
  CASE kind = "varint"  -> 0
    [] kind = "fixed32" -> <<0, 0, 0, 0>>
    [] OTHER            -> <<>>

EmptyTree(ty) ==
  [vals    |-> [f \in 1 .. Len(Fields[ty]) |-> Default(Fields[ty][f].kind)],
   unknown |-> {}]

\* A second occurrence of a singular submessage is merged into the first.
MergeInto(val, kind, ty) ==
  IF kind \in {"message", "group"} /\ val # <<>> THEN val[1] ELSE EmptyTree(ty)

WithSub(val, kind, sub) ==
  IF kind \in {"message", "group"} THEN <<sub>> ELSE Append(val, sub)

\* Decode positions i .. hi of b into tree, a message of type ty, up to the end
\* tag endTag or, without one, up to hi.  depth is the nesting depth.
RECURSIVE Decode(_, _, _, _, _, _, _, _)
Decode(b, i, hi, ty, tree, endTag, lax, afterUnknown) ==
  LET t     == Var(b, i, hi)
      known == {f \in 1 .. Len(Fields[ty]) : Fields[ty][f].tag = t.val}
      f     == CHOOSE x \in known : TRUE
      fd    == Fields[ty][f]
      Rest(next, tr, unk) == Decode(b, next, hi, ty, tr, endTag, lax, unk)
      Put(v, next) ==
        IF next <= hi + 1 THEN Rest(next, [tree EXCEPT !.vals[f] = v], FALSE) ELSE Bad
      Nest(sub) ==
        IF ~sub.ok THEN Bad
        ELSE LET r == Rest(sub.next,
                           [tree EXCEPT !.vals[f] = WithSub(@, fd.kind, sub.tree)], FALSE)
             IN  IF ~r.ok THEN Bad ELSE [r EXCEPT !.depth = Greater(@, sub.depth + 1)]
      old == MergeInto(tree.vals[f], fd.kind, fd.sub)
  IN
  IF i > hi
  THEN IF endTag = NoEnd \/ (lax /\ afterUnknown)
       THEN [ok |-> TRUE, next |-> i, tree |-> tree, depth |-> 1] ELSE Bad
  ELSE IF ~t.ok THEN Bad
  ELSE IF t.val = endTag
  THEN [ok |-> TRUE, next |-> t.next, tree |-> tree, depth |-> 1]
  ELSE IF ~TagOk(t.val) \/ (~lax /\ t.next = i + 10) THEN Bad
  ELSE IF known = {}
  THEN LET s == SkipValue(b, t.next, hi, t.val, lax)
       IN  IF ~s.ok THEN Bad
           ELSE LET r == Rest(s.next,
                              [tree EXCEPT !.unknown =
                                 IF DiscardUnknown THEN {} ELSE @ \cup i .. s.next - 1],
                              TRUE)
                IN  IF ~r.ok THEN Bad ELSE [r EXCEPT !.depth = Greater(@, s.depth)]
  ELSE LET v == Var(b, t.next, hi)
       IN  CASE fd.kind = "varint" -> IF v.ok THEN Put(v.val, v.next) ELSE Bad
             [] fd.kind = "fixed32" ->
                  Put(SubSeq(b, t.next, t.next + 3), t.next + 4)
             [] fd.kind = "bytes" ->
                  IF v.ok /\ v.next + v.val <= hi + 1
                  THEN Put(SubSeq(b, v.next, v.next + v.val - 1), v.next + v.val) ELSE Bad
             [] fd.kind \in {"message", "messages"} ->
                  IF v.ok /\ v.next + v.val <= hi + 1
                  THEN Nest(Decode(b, v.next, v.next + v.val - 1, fd.sub, old, NoEnd, lax, FALSE))
                  ELSE Bad
             [] fd.kind \in {"group", "groups"} ->
                  Nest(Decode(b, t.next, hi, fd.sub, old, t.val + 1, lax, FALSE))

\* The meaning of b as a message of type ty.
Meaning(b, ty, lax) == Decode(b, 1, Len(b), ty, EmptyTree(ty), NoEnd, lax, FALSE)
=============================================================================
