------------------------------ MODULE Recorder ------------------------------
(***************************************************************************)
(* The profile recorder of internal/tdp/profile with the statistics of     *)
(* internal/stats and the atomics of internal/xsync it is made of.  Parses *)
(* on several goroutines record into one Recorder without a lock; later    *)
(* the compiler asks it for a field's profile.                             *)
(*                                                                         *)
(* A goroutine's job is the messages it records: of each the library, and  *)
(* the fields that Range yields in it and in its submessages, in the order *)
(* of the walk, with the length of a list or map or NoCount.               *)
(***************************************************************************)
EXTENDS Integers, FiniteSetsExt, SequencesExt, TLC

CONSTANTS
  Procs,    \* goroutines
  Libs,     \* libraries
  Names,    \* fields
  Counts,   \* lengths of lists and maps
  Jobs,     \* the jobs to choose from: for each goroutine a sequence of messages
  Library,  \* Recorder.library
  Ring,     \* the samples a Median remembers, 1 << 12 in the source
  NoCount   \* the count of a field that is neither a list nor a map

\* What Range yields, and the messages it yields it of.
Entries == Names \X (Counts \cup {NoCount})
Messages == [lib : Libs, fields : Seq(Entries)]

ASSUME RingAssumption == Ring \in Nat \ {0}
ASSUME JobsAssumption ==
  /\ IsFiniteSet(Procs) /\ Counts \subseteq Nat /\ NoCount \notin Nat
  /\ \A j \in Jobs : j \in [Procs -> Seq(Messages)]

VARIABLES
  jobs,      \* what each goroutine still has to record
  pc,        \* the statement each one is at
  local,     \* its variables: [m, old, w], m the metrics of the current field
  profiles,  \* Recorder.profiles: the metrics of a field
  metrics,   \* the metrics that were made: [total, samples, w, n, ring]
  history    \* the <<field, count>> that were taken up, and how many

vars == <<jobs, pc, local, profiles, metrics, history>>

NewMetrics == [total |-> 0, samples |-> 0, w |-> 0, n |-> 0, ring |-> [i \in 0 .. Ring - 1 |-> 0]]

Init ==
  /\ jobs \in Jobs
  /\ pc = [p \in Procs |-> "record"]
  /\ local = [p \in Procs |-> [m |-> 0, old |-> 0, w |-> 0]]
  /\ profiles = <<>> /\ metrics = <<>> /\ history = <<>>

Message(p) == jobs[p][1]
Entry(p) == Message(p).fields[1]
Goto(p, label) == pc' = [pc EXCEPT ![p] = label]

----------------------------------------------------------------------------
(* Recorder.Record *)

\* A message of another library panics; one without further fields returns.
NextMessage(p) ==
  /\ pc[p] = "record" /\ jobs[p] # <<>>
  /\ Message(p).lib # Library \/ Message(p).fields = <<>>
  /\ jobs' = [jobs EXCEPT ![p] = IF Message(p).lib # Library THEN <<>> ELSE Tail(@)]
  /\ UNCHANGED <<pc, local, profiles, metrics, history>>

\* LoadOrStore loads first ...
LoadProfile(p) ==
  /\ pc[p] = "record" /\ jobs[p] # <<>>
  /\ Message(p).lib = Library /\ Message(p).fields # <<>>
  /\ history' = Append(history, Entry(p))
  /\ IF Entry(p)[1] \in DOMAIN profiles
     THEN local' = [local EXCEPT ![p].m = profiles[Entry(p)[1]]] /\ Goto(p, "total")
     ELSE Goto(p, "store") /\ UNCHANGED local
  /\ UNCHANGED <<jobs, profiles, metrics>>

\* Mutant of Winner: the goroutine keeps the metrics it made, stored or not.
WinnerOwn(f, mine) == mine

\* sync.Map.LoadOrStore: the metrics that are in the map by now, or the own.
Winner(f, mine) == IF f \in DOMAIN profiles THEN profiles[f] ELSE mine

\* ... and then makes the metrics, which another goroutine's may have preceded.
StoreProfile(p) ==
  /\ pc[p] = "store"
  /\ LET mine == Len(metrics) + 1
         f == Entry(p)[1]
     IN  /\ metrics' = Append(metrics, NewMetrics)
         /\ profiles' = [g \in DOMAIN profiles \cup {f} |->
                           IF g = f THEN Winner(f, mine) ELSE profiles[g]]
         /\ local' = [local EXCEPT ![p].m = Winner(f, mine)]
  /\ Goto(p, "total")
  /\ UNCHANGED <<jobs, history>>

\* On to the next field.
Advance(p) ==
  /\ jobs' = [jobs EXCEPT ![p][1].fields = Tail(@)]
  /\ Goto(p, "record")

----------------------------------------------------------------------------
(* Mean.Record: total.Add(1), samples.Add(1), each a CAS loop *)

M(p) == metrics[local[p].m]

\* Mutant of AfterFailure: the CAS is retried without a new load.
AfterFailureCas(label) ==
  CASE label = "total" -> "totalCas" [] label = "samples" -> "samplesCas" [] label = "w" -> "wCas"

\* goto retry, goto again
AfterFailure(label) == label

LoadTotal(p) ==
  /\ pc[p] = "total"
  /\ local' = [local EXCEPT ![p].old = M(p).total]
  /\ Goto(p, "totalCas")
  /\ UNCHANGED <<jobs, profiles, metrics, history>>

\* Mutant of Swapped: the new value is stored without a comparison.
SwappedAlways(cur, old) == TRUE

\* Whether CompareAndSwap swaps.
Swapped(cur, old) == cur = old

CasTotal(p) ==
  /\ pc[p] = "totalCas"
  /\ IF Swapped(M(p).total, local[p].old)
     THEN /\ metrics' = [metrics EXCEPT ![local[p].m].total = local[p].old + 1]
          /\ Goto(p, "samples")
     ELSE Goto(p, AfterFailure("total")) /\ UNCHANGED metrics
  /\ UNCHANGED <<jobs, local, profiles, history>>

LoadSamples(p) ==
  /\ pc[p] = "samples"
  /\ local' = [local EXCEPT ![p].old = M(p).samples]
  /\ Goto(p, "samplesCas")
  /\ UNCHANGED <<jobs, profiles, metrics, history>>

\* The count of a list or a map is recorded next.
CasSamples(p) ==
  /\ pc[p] = "samplesCas"
  /\ IF Swapped(M(p).samples, local[p].old)
     THEN /\ metrics' = [metrics EXCEPT ![local[p].m].samples = local[p].old + 1]
          /\ IF Entry(p)[2] = NoCount THEN Advance(p) ELSE Goto(p, "w") /\ UNCHANGED jobs
     ELSE Goto(p, AfterFailure("samples")) /\ UNCHANGED <<jobs, metrics>>
  /\ UNCHANGED <<local, profiles, history>>

----------------------------------------------------------------------------
(* Median.Record *)

LoadW(p) ==
  /\ pc[p] = "w"
  /\ local' = [local EXCEPT ![p].w = M(p).w]
  /\ Goto(p, "wCas")
  /\ UNCHANGED <<jobs, profiles, metrics, history>>

\* w moves on to the next slot; the slot is the goroutine's.
CasW(p) ==
  /\ pc[p] = "wCas"
  /\ IF Swapped(M(p).w, local[p].w)
     THEN /\ metrics' = [metrics EXCEPT ![local[p].m].w = (local[p].w + 1) % Ring]
          /\ Goto(p, "n")
     ELSE Goto(p, AfterFailure("w")) /\ UNCHANGED metrics
  /\ UNCHANGED <<jobs, local, profiles, history>>

AddN(p) ==
  /\ pc[p] = "n"
  /\ metrics' = [metrics EXCEPT ![local[p].m].n = @ + 1]
  /\ Goto(p, "write")
  /\ UNCHANGED <<jobs, local, profiles, history>>

WriteSample(p) ==
  /\ pc[p] = "write"
  /\ metrics' = [metrics EXCEPT ![local[p].m].ring[local[p].w] = Entry(p)[2]]
  /\ Advance(p)
  /\ UNCHANGED <<local, profiles, history>>

Step(p) ==
  \/ NextMessage(p) \/ LoadProfile(p) \/ StoreProfile(p)
  \/ LoadTotal(p) \/ CasTotal(p) \/ LoadSamples(p) \/ CasSamples(p)
  \/ LoadW(p) \/ CasW(p) \/ AddN(p) \/ WriteSample(p)

Next == \E p \in Procs : Step(p)

\* Every goroutine is scheduled again and again.
Spec == Init /\ [][Next]_vars /\ \A p \in Procs : WF_vars(Step(p))

----------------------------------------------------------------------------
(* ForField, Mean.Get and Median.Get *)

\* Where sorting puts the k-th sample.
Nth(s, k) ==
  Min({v \in {s[i] : i \in DOMAIN s} : Cardinality({i \in DOMAIN s : s[i] <= v}) >= k})

\* Twice the median of samples, so that the mean of the two middle ones is whole.
TwiceMedian(s) ==
  LET n == Cardinality(DOMAIN s)
      k == n \div 2
  IN  IF n = 0 THEN 0 ELSE IF n % 2 = 0 THEN Nth(s, k) + Nth(s, k + 1) ELSE 2 * Nth(s, k + 1)

\* DecodeProbability as <<total, samples>>, and twice ExpectedCount.
ForField(f) ==
  IF f \notin DOMAIN profiles THEN [probability |-> <<0, 0>>, count |-> 0]
  ELSE LET m == metrics[profiles[f]]
       IN  [probability |-> <<m.total, m.samples>>,
            count |-> TwiceMedian([i \in 0 .. Min({m.n, Ring}) - 1 |-> m.ring[i]])]

----------------------------------------------------------------------------
(* Properties *)

Quiet == \A p \in Procs : pc[p] = "record" /\ jobs[p] = <<>>

\* The records that were taken up of the kinds E, and the goroutines with a record of
\* a kind in E that are at one of the labels.
Records(E) == {i \in DOMAIN history : history[i] \in E}
Pending(E, labels) == {p \in Procs : pc[p] \in labels /\ Entry(p) \in E}

\* The kinds of records of field f: all of them, and those of a list or map.
Of(f) == {f} \X (Counts \cup {NoCount})
CountedOf(f) == {f} \X Counts

\* Once all goroutines have returned, every record of every field has been added to
\* both parts of the mean and every count to the median, once; as long as the ring
\* has not wrapped its samples are the counts that were recorded, each as often as it
\* was, and they are always among them (recorder.go Record, mean.go,
\* median.go, atomic.go Add).
SamplesExact ==
  Quiet =>
    \A f \in Names :
      Records(Of(f)) # {} =>
        LET m == metrics[profiles[f]]
        IN  /\ f \in DOMAIN profiles
            /\ m.total = Cardinality(Records(Of(f))) /\ m.samples = m.total
            /\ m.n = Cardinality(Records(CountedOf(f)))
            /\ m.n <= Ring =>
                 \A v \in Counts :
                   Cardinality({i \in 0 .. m.n - 1 : m.ring[i] = v})
                     = Cardinality(Records({<<f, v>>}))
            /\ \A i \in 0 .. Ring - 1 : i < m.n => Records({<<f, m.ring[i]>>}) # {}

\* So ForField answers for all records, in whatever order their steps came: no
\* goroutine's counts are lost to metrics that another one stored first, nor to a
\* concurrent addition, and the expected count is the median of all counts, until
\* the ring wraps.
ProfileComplete ==
  /\ SamplesExact
  /\ Quiet =>
       \A f \in Names :
         Records(Of(f)) # {} =>
           LET n == Cardinality(Records(Of(f)))
               counted == Records(CountedOf(f))
           IN  /\ ForField(f).probability = <<n, n>>
               /\ Cardinality(counted) <= Ring =>
                    ForField(f).count = TwiceMedian([i \in counted |-> history[i][2]])

\* Record returns on every goroutine: a lost CAS means that another one got on
\* (atomic.go "goto retry", median.go "goto again").
RecordsReturn == <>Quiet

----------------------------------------------------------------------------
(* The inductive invariant *)

\* The statements before which a record is not yet in the total, in the number of
\* samples, in n, in the ring.
ToTotal == {"store", "total", "totalCas"}
ToSamples == ToTotal \cup {"samples", "samplesCas"}
ToN == ToSamples \cup {"w", "wCas", "n"}
ToWrite == ToN \cup {"write"}

MetricsType ==
  [total : Nat, samples : Nat, w : 0 .. Ring - 1, n : Nat, ring : [0 .. Ring - 1 -> Nat]]

TypeOK ==
  /\ jobs \in [Procs -> Seq(Messages)] /\ pc \in [Procs -> ToWrite \cup {"record"}]
  /\ local \in [Procs -> [m : Nat, old : Nat, w : 0 .. Ring - 1]]
  /\ metrics \in Seq(MetricsType) /\ history \in Seq(Entries)
  /\ DOMAIN profiles \subseteq Names
  /\ profiles \in [DOMAIN profiles -> 1 .. Len(metrics)]

\* A field has metrics of its own.
MetricsAreOwn == \A f, g \in DOMAIN profiles : profiles[f] = profiles[g] => f = g

\* A goroutine in the middle of a record has that record, which was taken up, adds to
\* the metrics in the map, and goes to the median only with a count.
AtRecord ==
  \A p \in Procs :
    /\ pc[p] # "record" =>
         jobs[p] # <<>> /\ Message(p).fields # <<>> /\ Records({Entry(p)}) # {}
    /\ pc[p] \notin {"record", "store"} =>
         Entry(p)[1] \in DOMAIN profiles /\ local[p].m = profiles[Entry(p)[1]]
    /\ pc[p] \in {"w", "wCas", "n", "write"} => Entry(p)[2] \in Counts

\* The metrics of a field that nobody has recorded yet would be new ones.
MetricsOf(f) == IF f \in DOMAIN profiles THEN metrics[profiles[f]] ELSE NewMetrics

\* Each record was added, or its goroutine is on the way to do so.
Added(f) ==
  /\ Cardinality(Records(Of(f))) = MetricsOf(f).total + Cardinality(Pending(Of(f), ToTotal))
  /\ Cardinality(Records(Of(f))) = MetricsOf(f).samples + Cardinality(Pending(Of(f), ToSamples))
  /\ Cardinality(Records(CountedOf(f))) = MetricsOf(f).n + Cardinality(Pending(CountedOf(f), ToN))
NothingLost == \A f \in Names : Added(f)

\* How many slots of f's ring were taken, and who has not filled in his.
Taken(f) == MetricsOf(f).n + Cardinality(Pending(Of(f), {"n"}))
Holders(f) == Pending(Of(f), {"n", "write"})
Filled(f) ==
  {i \in 0 .. Ring - 1 : i < Taken(f) /\ \A p \in Holders(f) : local[p].w # i}

\* w is the next slot.  A slot that was taken and is held by nobody has a recorded
\* count; until the ring wraps, nobody's slot is another's, and the counts in the
\* slots are those of the records whose goroutines are done.
Slots(f) ==
  /\ MetricsOf(f).w = Taken(f) % Ring
  /\ \A p \in Holders(f) : local[p].w < Taken(f)
  /\ \A i \in Filled(f) : Records({<<f, MetricsOf(f).ring[i]>>}) # {}
  /\ Taken(f) <= Ring =>
       /\ \A p, q \in Holders(f) : local[p].w = local[q].w => p = q
       /\ \A v \in Counts :
            Cardinality(Records({<<f, v>>}))
              = Cardinality({i \in Filled(f) : MetricsOf(f).ring[i] = v})
                  + Cardinality(Pending({<<f, v>>}, ToWrite))
SlotsAreFilled == \A f \in Names : Slots(f)

\* What Record's steps rely on, and leave true, on however many goroutines.
RecorderInv ==
  TypeOK /\ MetricsAreOwn /\ AtRecord /\ NothingLost /\ SlotsAreFilled
=============================================================================
