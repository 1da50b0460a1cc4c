----------------------------- MODULE MCRecorder -----------------------------
(* Instances of Recorder for TLC. *)
EXTENDS Recorder

\* Lists, maps (with counts) and other fields of one or two messages; three
\* goroutines that meet in one field, and two whose counts wrap the ring around.
Msg(fields) == [lib |-> "own", fields |-> fields]
Foreign == [lib |-> "other", fields |-> <<<<"f", NoCount>>>>]
MCJobs ==
  {"p1" :> <<Msg(<<<<"f", 1>>, <<"g", NoCount>>>>)>>
     @@ "p2" :> <<Msg(<<<<"f", 4>>>>), Foreign>> @@ "p3" :> <<Msg(<<<<"g", NoCount>>>>)>>,
   "p1" :> <<Msg(<<<<"f", 1>>>>), Msg(<<<<"f", 2>>>>)>>
     @@ "p2" :> <<Msg(<<<<"f", 5>>, <<"f", 7>>>>)>> @@ "p3" :> <<>>,
   "p1" :> <<Msg(<<<<"f", NoCount>>>>)>> @@ "p2" :> <<Msg(<<<<"f", NoCount>>>>)>>
     @@ "p3" :> <<Msg(<<<<"f", NoCount>>>>)>>}
MCProcs == {"p1", "p2", "p3"}
=============================================================================
