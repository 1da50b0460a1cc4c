------------------------------ MODULE MCParser ------------------------------
(***************************************************************************)
(* Schemas and inputs for the parser.  The input families enumerate every  *)
(* string over an alphabet of tags, lengths and values, so that tags also  *)
(* turn up as values, lengths run over and groups are left open.           *)
(***************************************************************************)
EXTENDS ParserCheck

Fd(tag, kind, sub) == [tag |-> tag, kind |-> kind, sub |-> sub]

\* "A": optional int32 a = 1; A b = 2; group C = 3 (of type "B"); int32 d = 17.
\* "B": A b = 2; int32 e = 4.
\* "S": fixed32 f = 4; bytes g = 5; repeated E h = 6; repeated group I = 7 (of
\*      type "E"); bytes v = 16; int32 w = 17.
\* "E" has no fields.
\* "G": a group with a two-byte tag, after a field that is predicted first.
MCFields ==
  [A |-> << Fd(8, "varint", "A"), Fd(18, "message", "A"), Fd(27, "group", "B"),
            Fd(136, "varint", "A") >>,
   B |-> << Fd(18, "message", "A"), Fd(32, "varint", "B") >>,
   S |-> << Fd(37, "fixed32", "E"), Fd(42, "bytes", "E"), Fd(50, "messages", "E"),
            Fd(59, "groups", "E"), Fd(130, "bytes", "E"), Fd(136, "varint", "E") >>,
   E |-> << >>,
   G |-> << Fd(8, "varint", "E"), Fd(131, "group", "E") >>]

MCTypes == DOMAIN MCFields

\* Declaration order is the predicted order; the last field predicts the first.
MCNextOk ==
  [ty \in MCTypes |->
     [i \in 1 .. Len(MCFields[ty]) |-> IF i = Len(MCFields[ty]) THEN 1 ELSE i + 1]]

Strings(alphabet, n) == UNION {[1 .. k -> alphabet] : k \in 0 .. n}

Pad(k) == [i \in 1 .. k |-> 128]

\* Tags and values of eight, nine and ten bytes, complete, cut short, padded,
\* and too large; a varint cut short after its ninth byte.
LongVarints ==
  { <<136>> \o Pad(6) \o <<0, 1>>,  <<136>> \o Pad(7) \o <<0, 1>>,
    <<136>> \o Pad(6) \o <<129, 0, 1>>, <<136>> \o Pad(8) \o <<0, 1>>,
    <<136, 128>>, <<136>> \o Pad(7),
    <<8>> \o Pad(9) \o <<0>>, <<8>> \o Pad(9) \o <<2>>, <<8>> \o Pad(9),
    <<8>> \o Pad(8), <<32>> \o Pad(9) \o <<2>>,
    <<32, 1, 160>> \o Pad(7) \o <<0, 1>> }

NestInputs == Strings({1, 2, 4, 8, 18, 27, 28}, 5) \cup LongVarints
              \cup {<<18, 6, 18, 4, 18, 2, 8, 1>>, <<27, 18, 2, 27, 28, 28, 8, 1>>,
                    <<27, 18, 4, 27, 32, 1, 28, 28>>, <<18, 2, 32, 1, 32, 1>>}

\* Known fields of every kind, found by LUT, prediction and table.
ScalarInputs ==
  Strings({0, 1, 3, 37, 42, 50, 59, 60}, 4)
    \cup {<<37, 1, 2, 3, 4>>, <<37, 1, 2, 3>>, <<42, 1>> \o Pad(1) \o <<37, 0, 0, 0, 1>>,
          <<50, 1, 59, 37, 1, 2, 3, 4>>, <<130, 1, 1, 136, 136, 1, 7>>,
          <<136, 1, 7, 130, 1, 0>>, <<50, 2, 8, 1, 50, 0, 50, 2, 16, 1>>,
          <<59, 8, 1, 60, 59, 60, 8, 1>>, <<40, 1, 42>>}

\* Unknown fields: numbers the type does not have, and numbers it has with
\* another wire type.
UnknownInputs ==
  Strings({0, 1, 32, 35, 36, 128, 136}, 5)
    \cup {<<35, 35, 35, 35, 36, 36, 36, 36>>, <<35, 35, 35, 36, 36, 36>>,
          <<33, 1, 2, 3, 4, 5, 6, 7, 8, 32, 1>>, <<33, 1, 2, 3, 4, 5, 6, 7>>,
          <<45, 1, 2, 3, 4>>, <<45, 1, 2, 3>>, <<34, 2, 0, 0, 32, 1>>, <<34, 2, 0>>,
          <<39, 1>>, <<35, 38, 36>>, <<35, 131, 32, 36>>, <<35, 136, 128, 1, 1, 36>>}

FieldInputs == ScalarInputs \cup UnknownInputs

\* Groups that the input leaves open, after a known and after an unknown field.
OpenGroup == {<<27, 8, 1>>, <<27, 40, 1>>}

\* The nine readable bytes RelocatePageBoundary promises: a copy of the input
\* is followed by zeros, the caller's own buffer by anything, here by records
\* for a runaway parse to find.
NineBytes == {<<1, 8, 1, 8, 1, 8, 1, 8, 1>>}
MCSlacks == {[i \in 1 .. 9 |-> 0]} \cup NineBytes
=============================================================================
