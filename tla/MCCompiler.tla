----------------------------- MODULE MCCompiler -----------------------------
(* Instances of Compiler for TLC. *)
EXTENDS Compiler

Parser(kind, retry) == [kind |-> kind, retry |-> retry]
Arch(size, align, bits, parsers) ==
  [size |-> size, align |-> align, bits |-> bits, parsers |-> parsers]
Int32   == Arch(4, 4, 0, <<Parser(0, FALSE)>>)
OptInt  == Arch(4, 4, 1, <<Parser(0, FALSE)>>)
Int64   == Arch(8, 8, 0, <<Parser(0, FALSE)>>)
OptBool == Arch(0, 1, 2, <<Parser(0, FALSE)>>)
Byte    == Arch(1, 1, 0, <<Parser(0, FALSE)>>)
Packed  == Arch(16, 8, 0, <<Parser(2, FALSE), Parser(0, TRUE)>>)
Sub     == Arch(8, 8, 0, <<Parser(2, FALSE)>>)

Field(num, i, msg, req, oneof, ext, hot, arch) ==
  [num |-> num, index |-> i, msg |-> msg, required |-> req, oneof |-> oneof,
   ext |-> ext, hot |-> hot, arch |-> arch]

\* All graphs of three messages, with a required field in at most one of them, and
\* the contained messages in either order.
Messages == {"A", "B", "C"}
MessageFields(deps, req) ==
  [i \in DOMAIN deps |-> Field(i, i - 1, deps[i], FALSE, 0, FALSE, i = 1, Sub)]
    \o (IF req THEN <<Field(9, Len(deps), None, TRUE, 0, FALSE, TRUE, OptInt)>> ELSE <<>>)
Orders == {SetToSeq(S) : S \in SUBSET Messages} \cup {<<"C", "B">>, <<"C", "A", "B">>}
Graphs3 ==
  {[root |-> "A", fields |-> [m \in Messages |-> MessageFields(g[m], m = r)]] :
    g \in [Messages -> Orders], r \in {"A", "B", "C", None}}

\* One message: up to four fields of any archetype or a oneof of the middle two,
\* with numbers that rise or fall, hot or not, the last one an extension or not.
Archs == {Int32, OptInt, Int64, OptBool, Byte, Packed}
Shapes == {<<a>> : a \in Archs} \cup {<<a, b, c, d>> : a \in Archs, b \in Archs, c \in Archs, d \in Archs}
Shape(s, oneof, falling, hot) ==
  [i \in DOMAIN s |->
     LET last == i = 4 /\ ~falling
     IN  Field(IF falling THEN 5 - i ELSE 2 * i, IF last THEN 0 ELSE i - 1, None, FALSE,
               IF oneof /\ i \in {2, 3} THEN 1 ELSE 0, last, i \in hot, s[i])]
NoBits(s) == Len(s) = 4 /\ s[2].bits + s[3].bits = 0 /\ Len(s[2].parsers) + Len(s[3].parsers) = 2
Singles ==
  {[root |-> "A", fields |-> [m \in {"A"} |-> Shape(s, FALSE, f, h)]] :
     s \in Shapes, f \in BOOLEAN, h \in {{1, 2, 3, 4}, {2, 4}}}
  \cup {[root |-> "A", fields |-> [m \in {"A"} |-> Shape(s, TRUE, f, h)]] :
     s \in {s \in Shapes : NoBits(s)}, f \in BOOLEAN, h \in {{}, {1, 2, 3}, {3}}}

MCInputs == Graphs3 \cup Singles
=============================================================================
