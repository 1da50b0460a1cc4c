---------------------------- MODULE ParserCheck ----------------------------
(***************************************************************************)
(* The parser against the meaning of its input (WireFormat).               *)
(***************************************************************************)
EXTENDS Parser

Wire == INSTANCE WireFormat

\* What the parser built, as a tree of WireFormat.
RECURSIVE TreeOf(_)
TreeOf(m) ==
  LET ty == msgs[m].ty
      Val(i) ==
        LET v == msgs[m].vals[i]
            kind == Fields[ty][i].kind
        IN  CASE kind \in {"varint", "fixed32"} -> v
              [] kind = "bytes" -> SubSeq(input, v.start + 1, v.start + v.len)
              [] kind \in {"message", "group"} ->
                   IF v = NilMessage THEN <<>> ELSE <<TreeOf(v)>>
              [] OTHER -> [j \in 1 .. Len(v) |-> TreeOf(v[j])]
  IN  [vals    |-> [i \in 1 .. Len(Fields[ty]) |-> Val(i)],
       unknown |-> UNION {msgs[m].unknown[j].start + 1 ..
                            msgs[m].unknown[j].start + msgs[m].unknown[j].len :
                            j \in 1 .. Len(msgs[m].unknown)}]

\* A parse that succeeds has built exactly what the input means, however the
\* fields were found (LUT, prediction, table) and whichever frames were elided.
AcceptedIsMeaning ==
  pc = "done" =>
    LET r == Wire!Meaning(input, Root, TRUE)
    IN  r.ok /\ TreeOf(1) = r.tree

\* A parse that fails, or runs out of readable memory, was given an input that
\* means nothing or nests deeper than MaxDepth.
RejectedIsInvalid ==
  pc \in {"failed", "fault"} =>
    LET r == Wire!Meaning(input, Root, FALSE)
    IN  ~r.ok \/ (err = "RecursionDepth" /\ r.depth > MaxDepth)

\* checkDone fails a group whose buffer runs out with ErrorEndGroup,
\* "mismatching end group marker": a group that is cut short does not parse.
AcceptedIsTerminated == pc = "done" => Wire!Meaning(input, Root, FALSE).ok
=============================================================================
