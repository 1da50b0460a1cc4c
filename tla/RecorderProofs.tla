--------------------------- MODULE RecorderProofs ---------------------------
(***************************************************************************)
(* Proofs about module Recorder, for every number of goroutines, size of   *)
(* the ring and jobs.                                                      *)
(***************************************************************************)
EXTENDS Recorder, Probing

----------------------------------------------------------------------------
(* Sets that a step adds to or takes from *)

\* Records of a kind are finitely many, and so are goroutines.
LEMMA RecordsFinite ==
  ASSUME TypeOK, NEW E
  PROVE  IsFiniteSet(Records(E)) /\ Cardinality(Records(E)) \in Nat
<1>1. IsFiniteSet(1 .. Len(history))
  <2>1. Len(history) \in Int
    BY DEF TypeOK
  <2> QED
    BY <2>1, FS_Interval
<1>2. DOMAIN history = 1 .. Len(history)
  BY DEF TypeOK
<1>3. Records(E) \subseteq 1 .. Len(history)
  BY <1>2 DEF Records
<1> QED
  BY <1>1, <1>3, FS_Subset, FS_CardinalityType

LEMMA PendingFinite ==
  ASSUME NEW E, NEW L
  PROVE  IsFiniteSet(Pending(E, L)) /\ Cardinality(Pending(E, L)) \in Nat
<1>1. Pending(E, L) \subseteq Procs
  BY DEF Pending
<1> QED
  BY <1>1, JobsAssumption, FS_Subset, FS_CardinalityType

LEMMA PendingFinitePrime ==
  ASSUME NEW E, NEW L
  PROVE  IsFiniteSet(Pending(E, L)') /\ Cardinality(Pending(E, L)') \in Nat
<1>1. Pending(E, L)' \subseteq Procs
  BY DEF Pending
<1> QED
  BY <1>1, JobsAssumption, FS_Subset, FS_CardinalityType

\* A step of p leaves the other goroutines where they are.
Others(p) ==
  \A q \in Procs \ {p} : pc'[q] = pc[q] /\ jobs'[q] = jobs[q] /\ local'[q] = local[q]

\* p stays in, or stays out of, the pending ones ...
LEMMA PendingStays ==
  ASSUME NEW E, NEW L, NEW p \in Procs, Others(p),
         pc[p] \in L /\ Entry(p) \in E <=> pc'[p] \in L /\ Entry(p)' \in E
  PROVE  Pending(E, L)' = Pending(E, L)
  BY DEF Others, Pending, Entry, Message

\* ... or joins them ...
LEMMA PendingJoins ==
  ASSUME NEW E, NEW L, NEW p \in Procs, Others(p),
         ~ (pc[p] \in L /\ Entry(p) \in E), pc'[p] \in L /\ Entry(p)' \in E
  PROVE  /\ Pending(E, L)' = Pending(E, L) \cup {p}
         /\ Cardinality(Pending(E, L)') = Cardinality(Pending(E, L)) + 1
<1>1. Pending(E, L)' = Pending(E, L) \cup {p}
  BY DEF Others, Pending, Entry, Message
<1>2. p \notin Pending(E, L)
  BY DEF Pending
<1> QED
  BY <1>1, <1>2, PendingFinite, FS_AddElement

\* ... or leaves them.
LEMMA PendingLeaves ==
  ASSUME NEW E, NEW L, NEW p \in Procs, Others(p),
         pc[p] \in L /\ Entry(p) \in E, ~ (pc'[p] \in L /\ Entry(p)' \in E)
  PROVE  /\ Pending(E, L)' = Pending(E, L) \ {p}
         /\ Cardinality(Pending(E, L)) = Cardinality(Pending(E, L)') + 1
<1>1. Pending(E, L)' = Pending(E, L) \ {p}
  BY DEF Others, Pending, Entry, Message
<1>2. p \in Pending(E, L)
  BY DEF Pending
<1>3. Cardinality(Pending(E, L) \ {p}) = Cardinality(Pending(E, L)) - 1
  BY <1>2, PendingFinite, FS_RemoveElement
<1>4. Cardinality(Pending(E, L)') \in Nat /\ Cardinality(Pending(E, L)) \in Nat
  BY PendingFinite, PendingFinitePrime
<1> QED
  BY <1>1, <1>3, <1>4

----------------------------------------------------------------------------
(* The record a goroutine is at *)

LEMMA EntryIs ==
  ASSUME TypeOK, NEW p \in Procs, jobs[p] # <<>>, Message(p).fields # <<>>
  PROVE  /\ Message(p) \in Messages /\ Entry(p) \in Entries /\ Entry(p)[1] \in Names
         /\ Entry(p) = <<Entry(p)[1], Entry(p)[2]>>
         /\ \A f : Entry(p) \in Of(f) <=> Entry(p)[1] = f
         /\ \A f : Entry(p) \in CountedOf(f) <=> Entry(p)[1] = f /\ Entry(p)[2] \in Counts
         /\ Entry(p)[2] \in Counts \cup {NoCount}
<1>1. jobs[p] \in Seq(Messages)
  BY DEF TypeOK
<1>2. Message(p) \in Messages
  BY <1>1 DEF Message
<1>3. Entry(p) \in Entries
  BY <1>2 DEF Messages, Entry
<1> HIDE DEF Entry
<1>4. Entry(p) \in Names \X (Counts \cup {NoCount})
  BY <1>3 DEF Entries
<1>5. PICK a \in Names, b \in Counts \cup {NoCount} : Entry(p) = <<a, b>>
  BY <1>4
<1>6. Entry(p)[1] = a /\ Entry(p)[2] = b
  BY <1>5
<1> QED
  BY <1>2, <1>3, <1>5, <1>6 DEF Of, CountedOf

\* In a record a goroutine has one, of one of the fields.
LEMMA InRecord ==
  ASSUME TypeOK, AtRecord, NEW p \in Procs, pc[p] # "record"
  PROVE  /\ Message(p) \in Messages /\ Entry(p) \in Entries /\ Entry(p)[1] \in Names
         /\ Entry(p) = <<Entry(p)[1], Entry(p)[2]>>
         /\ \A f : Entry(p) \in Of(f) <=> Entry(p)[1] = f
         /\ \A f : Entry(p) \in CountedOf(f) <=> Entry(p)[1] = f /\ Entry(p)[2] \in Counts
         /\ Entry(p)[2] \in Counts \cup {NoCount}
  BY EntryIs DEF AtRecord

\* Advance goes on to the next field.
LEMMA AdvanceKeepsJobs ==
  ASSUME TypeOK, NEW p \in Procs, jobs[p] # <<>>, Message(p).fields # <<>>, Advance(p)
  PROVE  jobs' \in [Procs -> Seq(Messages)] /\ \A q \in Procs \ {p} : jobs'[q] = jobs[q]
<1>1. jobs \in [Procs -> Seq(Messages)] /\ jobs[p] \in Seq(Messages) /\ 1 \in 1 .. Len(jobs[p])
  BY DEF TypeOK
<1>2. Message(p) \in Messages /\ Message(p) = jobs[p][1]
  BY EntryIs DEF Message
<1>3. Message(p).fields \in Seq(Entries)
  BY <1>2 DEF Messages
<1>4. Tail(Message(p).fields) \in Seq(Entries)
  BY <1>3
<1>5. [Message(p) EXCEPT !.fields = Tail(@)] \in Messages
  BY <1>2, <1>4 DEF Messages
<1>6. [jobs[p] EXCEPT ![1] = [Message(p) EXCEPT !.fields = Tail(@)]] \in Seq(Messages)
  BY <1>1, <1>5
<1>7. jobs' = [jobs EXCEPT ![p] = [jobs[p] EXCEPT ![1] = [Message(p) EXCEPT !.fields = Tail(@)]]]
  BY <1>1, <1>2 DEF Advance
<1> QED
  BY <1>1, <1>6, <1>7

\* The metrics that p adds to are those of its field.
LEMMA MetricsInUse ==
  ASSUME RecorderInv, NEW p \in Procs, pc[p] \notin {"record", "store"}
  PROVE  /\ Entry(p)[1] \in DOMAIN profiles /\ local[p].m = profiles[Entry(p)[1]]
         /\ local[p].m \in 1 .. Len(metrics)
         /\ M(p) = MetricsOf(Entry(p)[1]) /\ M(p) \in MetricsType
         /\ local[p] \in [m : Nat, old : Nat, w : 0 .. Ring - 1]
<1>1. Entry(p)[1] \in DOMAIN profiles /\ local[p].m = profiles[Entry(p)[1]]
  BY DEF RecorderInv, AtRecord
<1>2. local[p].m \in 1 .. Len(metrics) /\ metrics \in Seq(MetricsType)
  BY <1>1 DEF RecorderInv, TypeOK
<1>3. M(p) = MetricsOf(Entry(p)[1]) /\ M(p) \in MetricsType
  BY <1>1, <1>2 DEF M, MetricsOf
<1> QED
  BY <1>1, <1>2, <1>3 DEF RecorderInv, TypeOK

LEMMA MetricsTyped ==
  ASSUME TypeOK, NEW f
  PROVE  MetricsOf(f) \in MetricsType
<1>1. NewMetrics \in MetricsType
  BY RingAssumption DEF NewMetrics, MetricsType
<1> QED
  BY <1>1 DEF TypeOK, MetricsOf

LEMMA FilledFinite ==
  ASSUME NEW f, NEW S, S \subseteq Filled(f)
  PROVE  IsFiniteSet(S) /\ Cardinality(S) \in Nat
<1>1. 0 \in Int /\ Ring - 1 \in Int
  BY RingAssumption
<1>2. IsFiniteSet(0 .. Ring - 1)
  BY <1>1, FS_Interval
<1>3. S \subseteq 0 .. Ring - 1
  BY DEF Filled
<1> QED
  BY <1>2, <1>3, FS_Subset, FS_CardinalityType

\* Updating the metrics that p adds to.
LEMMA OneMetricsChanges ==
  ASSUME RecorderInv, NEW p \in Procs, pc[p] \notin {"record", "store"}, NEW r,
         profiles' = profiles, metrics' = [metrics EXCEPT ![local[p].m] = r]
  PROVE  /\ M(p) = MetricsOf(Entry(p)[1]) /\ M(p) \in MetricsType
         /\ r \in MetricsType =>
              /\ metrics' \in Seq(MetricsType) /\ Len(metrics') = Len(metrics)
         /\ \A f \in Names : (MetricsOf(f))' = IF f = Entry(p)[1] THEN r ELSE MetricsOf(f)
<1> DEFINE e == Entry(p)[1]
<1>1. e \in DOMAIN profiles /\ local[p].m = profiles[e]
  BY DEF RecorderInv, AtRecord
<1>2. local[p].m \in 1 .. Len(metrics) /\ metrics \in Seq(MetricsType)
  BY <1>1 DEF RecorderInv, TypeOK
<1>3. \A k \in 1 .. Len(metrics) : metrics'[k] = IF k = local[p].m THEN r ELSE metrics[k]
  BY <1>2
<1>4. \A f \in DOMAIN profiles :
        profiles[f] \in 1 .. Len(metrics)
          /\ (profiles[f] = local[p].m <=> f = e)
  BY <1>1 DEF RecorderInv, TypeOK, MetricsAreOwn
<1> HIDE DEF e
<1>5. \A f \in Names : (MetricsOf(f))' = IF f = e THEN r ELSE MetricsOf(f)
  BY <1>1, <1>3, <1>4 DEF MetricsOf
<1>6. M(p) = MetricsOf(e) /\ M(p) \in MetricsType
  BY <1>1, <1>2 DEF M, MetricsOf
<1>7. r \in MetricsType => metrics' \in Seq(MetricsType) /\ Len(metrics') = Len(metrics)
  BY <1>2
<1> QED
  BY <1>5, <1>6, <1>7 DEF e

----------------------------------------------------------------------------
(* Types, the map and the places of goroutines *)

LEMMA StepIsOwn ==
  ASSUME RecorderInv, NEW p \in Procs, Step(p)
  PROVE  Others(p)
<1> USE DEF RecorderInv, TypeOK, Goto, Others
<1>1. CASE NextMessage(p)
  BY <1>1 DEF NextMessage
<1>2. CASE LoadProfile(p)
  BY <1>2 DEF LoadProfile
<1>3. CASE StoreProfile(p)
  BY <1>3 DEF StoreProfile
<1>4. CASE LoadTotal(p) \/ LoadSamples(p) \/ LoadW(p)
  BY <1>4 DEF LoadTotal, LoadSamples, LoadW
<1>5. CASE CasTotal(p) \/ CasW(p) \/ AddN(p)
  BY <1>5 DEF CasTotal, CasW, AddN
<1>6. CASE CasSamples(p) \/ WriteSample(p)
  <2>1. pc[p] # "record"
    BY <1>6 DEF CasSamples, WriteSample
  <2>2. Advance(p) => \A q \in Procs \ {p} : jobs'[q] = jobs[q]
    BY <2>1, AdvanceKeepsJobs DEF AtRecord
  <2> QED
    BY <1>6, <2>2 DEF CasSamples, WriteSample, Advance
<1> QED
  BY <1>1, <1>2, <1>3, <1>4, <1>5, <1>6 DEF Step

\* What was recorded stays recorded.
LEMMA HistoryGrows ==
  ASSUME TypeOK, NEW E, history' = history \/ \E e \in Entries : history' = Append(history, e)
  PROVE  Records(E) \subseteq Records(E)'
<1>1. history \in Seq(Entries)
  BY DEF TypeOK
<1>2. CASE history' = history
  BY <1>2 DEF Records
<1>3. ASSUME NEW e \in Entries, history' = Append(history, e)
      PROVE  Records(E) \subseteq Records(E)'
  <2>1. DOMAIN history \subseteq DOMAIN history' /\ \A i \in DOMAIN history : history'[i] = history[i]
    BY <1>1, <1>3
  <2> QED
    BY <2>1 DEF Records
<1> QED
  BY <1>2, <1>3

\* The other goroutines stay at their records, if the map keeps what it has.
LEMMA OthersAtRecord ==
  ASSUME RecorderInv, NEW p \in Procs, Others(p),
         \A e \in Entries : Records({e}) \subseteq Records({e})',
         \A f \in DOMAIN profiles : f \in DOMAIN profiles' /\ profiles'[f] = profiles[f],
         pc'[p] # "record" =>
           jobs'[p] # <<>> /\ (Message(p).fields)' # <<>> /\ (Records({Entry(p)}))' # {},
         pc'[p] \notin {"record", "store"} =>
           Entry(p)'[1] \in DOMAIN profiles' /\ local'[p].m = profiles'[Entry(p)'[1]],
         pc'[p] \in {"w", "wCas", "n", "write"} => Entry(p)'[2] \in Counts
  PROVE  AtRecord'
<1>1. ASSUME NEW q \in Procs, q # p
      PROVE  /\ pc'[q] # "record" =>
                  jobs'[q] # <<>> /\ (Message(q).fields)' # <<>> /\ (Records({Entry(q)}))' # {}
             /\ pc'[q] \notin {"record", "store"} =>
                  Entry(q)'[1] \in DOMAIN profiles' /\ local'[q].m = profiles'[Entry(q)'[1]]
             /\ pc'[q] \in {"w", "wCas", "n", "write"} => Entry(q)'[2] \in Counts
  <2>1. pc'[q] = pc[q] /\ jobs'[q] = jobs[q] /\ local'[q] = local[q]
    BY <1>1 DEF Others
  <2>2. Message(q)' = Message(q) /\ Entry(q)' = Entry(q)
    BY <2>1 DEF Message, Entry
  <2>3. pc[q] # "record" => Records({Entry(q)})' # {}
    <3>1. pc[q] # "record" => Records({Entry(q)}) # {} /\ Entry(q) \in Entries
      BY InRecord DEF RecorderInv, AtRecord
    <3>2. pc[q] # "record" => Records({Entry(q)}) \subseteq (Records({Entry(q)}))'
      BY <2>2, <3>1 DEF Records
    <3> QED
      BY <3>1, <3>2
  <2> QED
    BY <2>1, <2>2, <2>3 DEF RecorderInv, AtRecord
<1> QED
  BY <1>1 DEF AtRecord

\* A goroutine that stays at its record, with the same history and map.
LEMMA StaysAtRecord ==
  ASSUME RecorderInv, NEW p \in Procs, Others(p), history' = history, profiles' = profiles,
         jobs' = jobs, local'[p].m = local[p].m, pc[p] # "record",
         pc'[p] = "store" => pc[p] = "store", pc[p] = "store" => pc'[p] = "store",
         pc'[p] \in {"w", "wCas", "n", "write"} => Entry(p)[2] \in Counts
  PROVE  AtRecord'
<1>1. Message(p)' = Message(p) /\ Entry(p)' = Entry(p)
  BY DEF Message, Entry
<1>2. jobs[p] # <<>> /\ Message(p).fields # <<>> /\ Records({Entry(p)}) # {}
  BY DEF RecorderInv, AtRecord
<1>3. (Records({Entry(p)}))' # {}
  BY <1>1, <1>2 DEF Records
<1>4. \A e \in Entries : Records({e}) \subseteq Records({e})'
  BY DEF Records
<1> QED
  BY <1>1, <1>2, <1>3, <1>4, OthersAtRecord DEF RecorderInv, AtRecord

\* A goroutine that is not in a record when it has moved.
LEMMA LeavesRecord ==
  ASSUME RecorderInv, NEW p \in Procs, Others(p), history' = history, profiles' = profiles,
         pc'[p] = "record"
  PROVE  AtRecord'
<1>1. \A e \in Entries : Records({e}) \subseteq Records({e})'
  BY DEF Records
<1> QED
  BY <1>1, OthersAtRecord

LEMMA LoadsKeepPlaces ==
  ASSUME RecorderInv, NEW p \in Procs, LoadTotal(p) \/ LoadSamples(p) \/ LoadW(p)
  PROVE  TypeOK' /\ MetricsAreOwn' /\ AtRecord'
<1>1. Others(p)
  BY StepIsOwn DEF Step
<1>2. pc[p] \notin {"record", "store"}
  BY DEF LoadTotal, LoadSamples, LoadW
<1>3. M(p) \in MetricsType
  BY <1>2, MetricsInUse
<1>4. UNCHANGED <<jobs, profiles, metrics, history>>
  BY DEF LoadTotal, LoadSamples, LoadW
<1>5. pc' \in [Procs -> ToWrite \cup {"record"}]
  BY DEF LoadTotal, LoadSamples, LoadW, RecorderInv, TypeOK, Goto, ToWrite, ToN, ToSamples, ToTotal
<1>6. M(p).total \in Nat /\ M(p).samples \in Nat /\ M(p).w \in 0 .. Ring - 1
  BY <1>3 DEF MetricsType
<1>7. /\ local' \in [Procs -> [m : Nat, old : Nat, w : 0 .. Ring - 1]]
      /\ local'[p].m = local[p].m
  <2>1. /\ local \in [Procs -> [m : Nat, old : Nat, w : 0 .. Ring - 1]]
        /\ local[p] \in [m : Nat, old : Nat, w : 0 .. Ring - 1]
    BY DEF RecorderInv, TypeOK
  <2>2. \/ \E v \in Nat : local' = [local EXCEPT ![p] = [local[p] EXCEPT !.old = v]]
        \/ \E v \in 0 .. Ring - 1 : local' = [local EXCEPT ![p] = [local[p] EXCEPT !.w = v]]
    BY <1>6, <2>1 DEF LoadTotal, LoadSamples, LoadW
  <2>3. \E r \in [m : Nat, old : Nat, w : 0 .. Ring - 1] :
          r.m = local[p].m /\ local' = [local EXCEPT ![p] = r]
    <3>1. /\ \A v \in Nat : LET r == [local[p] EXCEPT !.old = v]
             IN  r \in [m : Nat, old : Nat, w : 0 .. Ring - 1] /\ r.m = local[p].m
          /\ \A v \in 0 .. Ring - 1 : LET r == [local[p] EXCEPT !.w = v]
             IN  r \in [m : Nat, old : Nat, w : 0 .. Ring - 1] /\ r.m = local[p].m
      BY <2>1
    <3> QED
      BY <2>2, <3>1
  <2> QED
    BY <2>1, <2>3
<1>8. TypeOK' /\ MetricsAreOwn'
  BY <1>4, <1>5, <1>7 DEF RecorderInv, TypeOK, MetricsAreOwn
<1>9. /\ pc'[p] \in {"w", "wCas", "n", "write"} => Entry(p)[2] \in Counts
      /\ pc'[p] # "store"
  BY DEF LoadTotal, LoadSamples, LoadW, RecorderInv, TypeOK, AtRecord, Goto
<1>10. AtRecord'
  BY <1>1, <1>2, <1>4, <1>7, <1>9, StaysAtRecord
<1> QED
  BY <1>8, <1>10

\* A swap, an addition or a write changes one field of the metrics.
LEMMA UpdatesKeepType ==
  ASSUME RecorderInv, NEW p \in Procs,
         CasTotal(p) \/ CasSamples(p) \/ CasW(p) \/ AddN(p) \/ WriteSample(p)
  PROVE  /\ metrics' \in Seq(MetricsType) /\ Len(metrics') = Len(metrics)
         /\ UNCHANGED <<local, profiles, history>>
<1>1. pc[p] \notin {"record", "store"}
  BY DEF CasTotal, CasSamples, CasW, AddN, WriteSample
<1>2. /\ UNCHANGED <<local, profiles, history>>
      /\ metrics \in Seq(MetricsType)
  BY DEF CasTotal, CasSamples, CasW, AddN, WriteSample, RecorderInv, TypeOK
<1>3. /\ M(p) \in MetricsType /\ local[p].m \in DOMAIN metrics
      /\ local[p].old + 1 \in Nat /\ local[p].w \in 0 .. Ring - 1
  <2>1. local[p] \in [m : Nat, old : Nat, w : 0 .. Ring - 1]
    BY <1>1, MetricsInUse
  <2>2. M(p) \in MetricsType /\ local[p].m \in 1 .. Len(metrics)
    BY <1>1, MetricsInUse
  <2> QED
    BY <1>2, <2>1, <2>2
<1>4. ASSUME NEW r, r \in MetricsType, metrics' = [metrics EXCEPT ![local[p].m] = r]
      PROVE  metrics' \in Seq(MetricsType) /\ Len(metrics') = Len(metrics)
  BY <1>1, <1>2, <1>4, OneMetricsChanges
<1>5. CASE metrics' = metrics
  BY <1>2, <1>5
<1>6. CASE CasTotal(p) /\ metrics' # metrics
  <2>1. [M(p) EXCEPT !.total = local[p].old + 1] \in MetricsType
    BY <1>3 DEF MetricsType
  <2>2. metrics' = [metrics EXCEPT ![local[p].m] = [M(p) EXCEPT !.total = local[p].old + 1]]
    BY <1>2, <1>6 DEF CasTotal, M
  <2> QED
    BY <1>2, <1>4, <2>1, <2>2
<1>7. CASE CasSamples(p) /\ metrics' # metrics
  <2>1. [M(p) EXCEPT !.samples = local[p].old + 1] \in MetricsType
    BY <1>3 DEF MetricsType
  <2>2. metrics' = [metrics EXCEPT ![local[p].m] = [M(p) EXCEPT !.samples = local[p].old + 1]]
    BY <1>2, <1>7 DEF CasSamples, M
  <2> QED
    BY <1>2, <1>4, <2>1, <2>2
<1>8. CASE CasW(p) /\ metrics' # metrics
  <2>1. (local[p].w + 1) % Ring \in 0 .. Ring - 1
    BY <1>3, RingAssumption
  <2>2. [M(p) EXCEPT !.w = (local[p].w + 1) % Ring] \in MetricsType
    BY <1>3, <2>1 DEF MetricsType
  <2>3. metrics' = [metrics EXCEPT ![local[p].m] = [M(p) EXCEPT !.w = (local[p].w + 1) % Ring]]
    BY <1>2, <1>8 DEF CasW, M
  <2> QED
    BY <1>2, <1>4, <2>2, <2>3
<1>9. CASE AddN(p)
  <2>1. [M(p) EXCEPT !.n = @ + 1] \in MetricsType
    BY <1>3 DEF MetricsType
  <2>2. metrics' = [metrics EXCEPT ![local[p].m] = [M(p) EXCEPT !.n = @ + 1]]
    BY <1>2, <1>9 DEF AddN, M
  <2> QED
    BY <1>2, <1>4, <2>1, <2>2
<1>10. CASE WriteSample(p)
  <2>1. Entry(p)[2] \in Nat
    BY <1>10, JobsAssumption DEF WriteSample, RecorderInv, AtRecord
  <2>2. [M(p) EXCEPT !.ring[local[p].w] = Entry(p)[2]] \in MetricsType
    <3>1. [M(p).ring EXCEPT ![local[p].w] = Entry(p)[2]] \in [0 .. Ring - 1 -> Nat]
      BY <1>2, <1>3, <2>1 DEF MetricsType
    <3> QED
      BY <1>3, <3>1 DEF MetricsType
  <2>3. metrics' = [metrics EXCEPT ![local[p].m] = [M(p) EXCEPT !.ring[local[p].w] = Entry(p)[2]]]
    BY <1>2, <1>10 DEF WriteSample, M
  <2> QED
    BY <1>2, <1>4, <2>2, <2>3
<1> QED
  BY <1>5, <1>6, <1>7, <1>8, <1>9, <1>10

LEMMA UpdatesKeepPlaces ==
  ASSUME RecorderInv, NEW p \in Procs,
         CasTotal(p) \/ CasSamples(p) \/ CasW(p) \/ AddN(p) \/ WriteSample(p)
  PROVE  TypeOK' /\ MetricsAreOwn' /\ AtRecord'
<1>1. Others(p)
  BY StepIsOwn DEF Step
<1>2. pc[p] \notin {"record", "store"}
  BY DEF CasTotal, CasSamples, CasW, AddN, WriteSample
<1>3. /\ metrics' \in Seq(MetricsType) /\ Len(metrics') = Len(metrics)
      /\ UNCHANGED <<local, profiles, history>>
  BY UpdatesKeepType
<1>4. pc' \in [Procs -> ToWrite \cup {"record"}] /\ pc'[p] # "store"
  BY DEF CasTotal, CasSamples, CasW, AddN, WriteSample, Advance, AfterFailure, RecorderInv, TypeOK,
         Goto, ToWrite, ToN, ToSamples, ToTotal
<1>5. Advance(p) \/ UNCHANGED jobs
  BY DEF CasTotal, CasSamples, CasW, AddN, WriteSample
<1>6. Advance(p) => jobs' \in [Procs -> Seq(Messages)] /\ pc'[p] = "record"
  <2>1. Advance(p) => pc'[p] = "record"
    BY DEF Advance, Goto, RecorderInv, TypeOK
  <2> QED
    BY <1>2, <2>1, AdvanceKeepsJobs DEF RecorderInv, AtRecord
<1>7. TypeOK' /\ MetricsAreOwn'
  BY <1>3, <1>4, <1>5, <1>6 DEF RecorderInv, TypeOK, MetricsAreOwn
<1>8. CASE Advance(p)
  BY <1>1, <1>3, <1>6, <1>7, <1>8, LeavesRecord
<1>9. CASE UNCHANGED jobs /\ pc'[p] # "record"
  <2>1. pc'[p] \in {"w", "wCas", "n", "write"} => Entry(p)[2] \in Counts
    <3>1. CASE CasSamples(p)
      <4>1. Entry(p)[2] \in Counts \cup {NoCount}
        BY <1>2, InRecord DEF RecorderInv
      <4> QED
        BY <1>9, <3>1, <4>1 DEF CasSamples, RecorderInv, TypeOK, Advance, AfterFailure, Goto
    <3>2. CASE CasTotal(p) \/ CasW(p) \/ AddN(p) \/ WriteSample(p)
      BY <1>9, <3>2 DEF CasTotal, CasW, AddN, WriteSample, RecorderInv, TypeOK, AtRecord,
         Advance, AfterFailure, Goto
    <3> QED
      BY <3>1, <3>2
  <2> QED
    BY <1>1, <1>2, <1>3, <1>4, <1>7, <1>9, <2>1, StaysAtRecord
<1> QED
  BY <1>1, <1>3, <1>5, <1>7, <1>8, <1>9, LeavesRecord

LEMMA NextMessageKeepsPlaces ==
  ASSUME RecorderInv, NEW p \in Procs, NextMessage(p)
  PROVE  TypeOK' /\ MetricsAreOwn' /\ AtRecord'
<1>1. Others(p)
  BY StepIsOwn DEF Step
<1>2. jobs \in [Procs -> Seq(Messages)] /\ jobs[p] \in Seq(Messages) /\ jobs[p] # <<>>
  BY DEF NextMessage, RecorderInv, TypeOK
<1>3. Tail(jobs[p]) \in Seq(Messages) /\ <<>> \in Seq(Messages)
  BY <1>2
<1>4. jobs' \in [Procs -> Seq(Messages)]
  BY <1>2, <1>3 DEF NextMessage
<1>5. UNCHANGED <<pc, local, profiles, metrics, history>> /\ pc[p] = "record"
  BY DEF NextMessage
<1>6. TypeOK' /\ MetricsAreOwn'
  BY <1>4, <1>5 DEF RecorderInv, TypeOK, MetricsAreOwn
<1> QED
  BY <1>1, <1>5, <1>6, LeavesRecord

\* The record that LoadProfile takes up.
LEMMA LoadProfileTakes ==
  ASSUME RecorderInv, NEW p \in Procs, LoadProfile(p)
  PROVE  /\ Entry(p) \in Entries /\ Entry(p)' = Entry(p)
         /\ jobs[p] # <<>> /\ Message(p).fields # <<>> /\ UNCHANGED <<jobs, profiles, metrics>>
         /\ history' = Append(history, Entry(p)) /\ history' \in Seq(Entries)
         /\ DOMAIN history' = DOMAIN history \cup {Len(history) + 1}
         /\ Len(history) + 1 \notin DOMAIN history
         /\ history'[Len(history) + 1] = Entry(p)
         /\ \A i \in DOMAIN history : history'[i] = history[i]
<1>1. Entry(p) \in Entries
  BY EntryIs DEF LoadProfile, RecorderInv
<1>2. Entry(p)' = Entry(p)
  BY DEF LoadProfile, Entry, Message
<1>3. history \in Seq(Entries)
  BY DEF RecorderInv, TypeOK
<1>4. history' = Append(history, Entry(p))
  BY DEF LoadProfile
<1> HIDE DEF Entry
<1>5. /\ history' \in Seq(Entries)
      /\ DOMAIN history' = DOMAIN history \cup {Len(history) + 1}
      /\ Len(history) + 1 \notin DOMAIN history
      /\ history'[Len(history) + 1] = Entry(p)
      /\ \A i \in DOMAIN history : history'[i] = history[i]
  BY <1>1, <1>3, <1>4
<1> QED
  BY <1>1, <1>2, <1>4, <1>5 DEF LoadProfile

LEMMA LoadProfileKeepsPlaces ==
  ASSUME RecorderInv, NEW p \in Procs, LoadProfile(p)
  PROVE  TypeOK' /\ MetricsAreOwn' /\ AtRecord'
<1>1. Others(p)
  BY StepIsOwn DEF Step
<1>2. /\ Entry(p) \in Entries /\ Entry(p)' = Entry(p) /\ (Message(p).fields)' # <<>>
      /\ jobs[p] # <<>> /\ UNCHANGED <<jobs, profiles, metrics>>
      /\ history' = Append(history, Entry(p)) /\ history' \in Seq(Entries)
      /\ Len(history) + 1 \in DOMAIN history' /\ history'[Len(history) + 1] = Entry(p)
  BY LoadProfileTakes DEF Message
<1>3. \A e \in Entries : Records({e}) \subseteq Records({e})'
  BY <1>2, HistoryGrows DEF RecorderInv
<1>4. (Records({Entry(p)}))' # {}
  BY <1>2 DEF Records
<1>5. \/ Entry(p)[1] \in DOMAIN profiles /\ local'[p].m = profiles[Entry(p)[1]] /\ pc'[p] = "total"
      \/ pc'[p] = "store"
  BY DEF LoadProfile, RecorderInv, TypeOK, Goto
<1>6. AtRecord'
  BY <1>1, <1>2, <1>3, <1>4, <1>5, OthersAtRecord
<1>7. pc' \in [Procs -> ToWrite \cup {"record"}]
  BY DEF LoadProfile, RecorderInv, TypeOK, Goto, ToWrite, ToN, ToSamples, ToTotal
<1>8. local' \in [Procs -> [m : Nat, old : Nat, w : 0 .. Ring - 1]]
  <2>1. /\ local \in [Procs -> [m : Nat, old : Nat, w : 0 .. Ring - 1]]
        /\ local[p] \in [m : Nat, old : Nat, w : 0 .. Ring - 1]
    BY DEF RecorderInv, TypeOK
  <2>2. CASE local' = local
    BY <2>1, <2>2
  <2>3. CASE local' # local
    <3>1. Entry(p)[1] \in DOMAIN profiles /\ local' = [local EXCEPT ![p].m = profiles[Entry(p)[1]]]
      BY <2>3 DEF LoadProfile
    <3>2. profiles[Entry(p)[1]] \in Nat
      BY <3>1 DEF RecorderInv, TypeOK
    <3>3. [local[p] EXCEPT !.m = profiles[Entry(p)[1]]] \in [m : Nat, old : Nat, w : 0 .. Ring - 1]
      BY <2>1, <3>2
    <3> QED
      BY <2>1, <3>1, <3>3
  <2> QED
    BY <2>2, <2>3
<1> QED
  BY <1>2, <1>6, <1>7, <1>8 DEF RecorderInv, TypeOK, MetricsAreOwn

\* The map after StoreProfile: the field has metrics, new ones if it had none.
LEMMA StoreProfileStores ==
  ASSUME RecorderInv, NEW p \in Procs, StoreProfile(p)
  PROVE  LET e == Entry(p)[1]
             k == Len(metrics) + 1
         IN  /\ e \in Names /\ k \in Nat /\ UNCHANGED <<jobs, history>>
             /\ metrics' \in Seq(MetricsType) /\ Len(metrics') = k
             /\ metrics'[k] = NewMetrics /\ \A i \in 1 .. Len(metrics) : metrics'[i] = metrics[i]
             /\ DOMAIN profiles' = DOMAIN profiles \cup {e}
             /\ \A f \in DOMAIN profiles : profiles'[f] = profiles[f]
             /\ profiles' = [f \in DOMAIN profiles \cup {e} |-> profiles'[f]]
             /\ e \notin DOMAIN profiles => profiles'[e] = k
             /\ local' = [local EXCEPT ![p].m = profiles'[e]]
<1> DEFINE e == Entry(p)[1]
           k == Len(metrics) + 1
<1>1. e \in Names
  BY InRecord DEF StoreProfile, RecorderInv
<1>2. metrics \in Seq(MetricsType)
  BY DEF RecorderInv, TypeOK
<1>3. NewMetrics \in MetricsType
  BY RingAssumption DEF NewMetrics, MetricsType
<1>4. metrics' = Append(metrics, NewMetrics)
  BY DEF StoreProfile
<1>5. /\ metrics' \in Seq(MetricsType) /\ Len(metrics') = k /\ k \in Nat
      /\ metrics'[k] = NewMetrics /\ \A i \in 1 .. Len(metrics) : metrics'[i] = metrics[i]
  BY <1>2, <1>3, <1>4
<1>6. /\ profiles' = [f \in DOMAIN profiles \cup {e} |-> IF f = e THEN Winner(e, k) ELSE profiles[f]]
      /\ local' = [local EXCEPT ![p].m = Winner(e, k)] /\ UNCHANGED <<jobs, history>>
  BY DEF StoreProfile
<1> HIDE DEF e, k
<1>7. profiles'[e] = Winner(e, k)
  BY <1>6
<1>8. /\ e \in DOMAIN profiles => Winner(e, k) = profiles[e]
      /\ e \notin DOMAIN profiles => Winner(e, k) = k
  BY DEF Winner
<1>9. /\ DOMAIN profiles' = DOMAIN profiles \cup {e}
      /\ \A f \in DOMAIN profiles : profiles'[f] = profiles[f]
      /\ profiles' = [f \in DOMAIN profiles \cup {e} |-> profiles'[f]]
      /\ e \notin DOMAIN profiles => profiles'[e] = k
  BY <1>6, <1>7, <1>8
<1> QED
  BY <1>1, <1>5, <1>6, <1>7, <1>9 DEF e, k

LEMMA StoreProfileKeepsPlaces ==
  ASSUME RecorderInv, NEW p \in Procs, StoreProfile(p)
  PROVE  TypeOK' /\ MetricsAreOwn' /\ AtRecord'
<1> DEFINE e == Entry(p)[1]
           k == Len(metrics) + 1
<1>1. /\ e \in Names /\ k \in Nat /\ UNCHANGED <<jobs, history>>
      /\ metrics' \in Seq(MetricsType) /\ Len(metrics') = k
      /\ DOMAIN profiles' = DOMAIN profiles \cup {e}
      /\ \A f \in DOMAIN profiles : profiles'[f] = profiles[f]
      /\ profiles' = [f \in DOMAIN profiles \cup {e} |-> profiles'[f]]
      /\ e \notin DOMAIN profiles => profiles'[e] = k
      /\ local' = [local EXCEPT ![p].m = profiles'[e]]
  BY StoreProfileStores
<1>2. Others(p) /\ pc[p] = "store"
  BY StepIsOwn DEF Step, StoreProfile
<1>3. Entry(p)' = Entry(p) /\ Message(p)' = Message(p)
  BY <1>1 DEF Entry, Message
<1> HIDE DEF e, k
<1>4. \A f \in DOMAIN profiles : profiles[f] \in 1 .. Len(metrics)
  BY DEF RecorderInv, TypeOK
<1>5. k = Len(metrics) + 1 /\ Len(metrics) \in Nat
  BY DEF k, RecorderInv, TypeOK
<1>6. \A f \in DOMAIN profiles' : profiles'[f] \in 1 .. k
  BY <1>1, <1>4, <1>5
<1>7. MetricsAreOwn'
  BY <1>1, <1>4, <1>5 DEF RecorderInv, MetricsAreOwn
<1>8. local' \in [Procs -> [m : Nat, old : Nat, w : 0 .. Ring - 1]] /\ local'[p].m = profiles'[e]
  <2>1. profiles'[e] \in Nat
    BY <1>1, <1>5, <1>6
  <2>2. /\ local \in [Procs -> [m : Nat, old : Nat, w : 0 .. Ring - 1]]
        /\ local[p] \in [m : Nat, old : Nat, w : 0 .. Ring - 1]
    BY DEF RecorderInv, TypeOK
  <2>3. /\ [local[p] EXCEPT !.m = profiles'[e]] \in [m : Nat, old : Nat, w : 0 .. Ring - 1]
        /\ [local[p] EXCEPT !.m = profiles'[e]].m = profiles'[e]
    BY <2>1, <2>2
  <2> QED
    BY <1>1, <2>2, <2>3
<1>9. pc' \in [Procs -> ToWrite \cup {"record"}] /\ pc'[p] = "total"
  BY DEF StoreProfile, RecorderInv, TypeOK, Goto, ToWrite, ToN, ToSamples, ToTotal
<1>10. TypeOK'
  <2>1. profiles' \in [DOMAIN profiles' -> 1 .. Len(metrics')]
    BY <1>1, <1>6
  <2>2. DOMAIN profiles' \subseteq Names
    BY <1>1 DEF RecorderInv, TypeOK
  <2> QED
    BY <1>1, <1>8, <1>9, <2>1, <2>2 DEF RecorderInv, TypeOK
<1>11. AtRecord'
  <2>1. \A x \in Entries : Records({x}) \subseteq Records({x})'
    BY <1>1 DEF Records
  <2>2. jobs[p] # <<>> /\ Message(p).fields # <<>> /\ Records({Entry(p)}) # {}
    BY <1>2 DEF RecorderInv, AtRecord
  <2>3. (Records({Entry(p)}))' # {}
    BY <1>1, <1>3, <2>2 DEF Records
  <2>4. Entry(p)'[1] \in DOMAIN profiles' /\ local'[p].m = profiles'[Entry(p)'[1]]
    BY <1>1, <1>3, <1>8 DEF e
  <2> QED
    BY <1>1, <1>2, <1>3, <1>9, <2>1, <2>2, <2>3, <2>4, OthersAtRecord
<1> QED
  BY <1>7, <1>10, <1>11

LEMMA StepKeepsPlaces ==
  ASSUME RecorderInv, NEW p \in Procs, Step(p)
  PROVE  TypeOK' /\ MetricsAreOwn' /\ AtRecord'
  BY NextMessageKeepsPlaces, LoadProfileKeepsPlaces, StoreProfileKeepsPlaces, LoadsKeepPlaces,
     UpdatesKeepPlaces DEF Step

----------------------------------------------------------------------------
(* Fields that a step does not touch *)

AddStages == {ToTotal, ToSamples, ToN}
SlotStages == {{"n"}, {"n", "write"}, ToWrite}

\* As far as f is concerned p stays where it is.
Steady(p, f, stages) ==
  IF pc[p] # "record" /\ Entry(p) \in Of(f)
  THEN Entry(p)' = Entry(p) /\ \A L \in stages : pc[p] \in L <=> pc'[p] \in L
  ELSE ~ (pc'[p] # "record" /\ Entry(p)' \in Of(f))

LEMMA SteadyPending ==
  ASSUME NEW p \in Procs, Others(p), NEW f, NEW stages, Steady(p, f, stages),
         NEW L \in stages, "record" \notin L, NEW E, E \subseteq Of(f)
  PROVE  Pending(E, L)' = Pending(E, L)
<1>1. pc[p] \in L /\ Entry(p) \in E <=> pc'[p] \in L /\ Entry(p)' \in E
  BY DEF Steady
<1> QED
  BY <1>1, PendingStays

\* Kinds of records of f.
LEMMA KindsOf ==
  ASSUME NEW f
  PROVE  /\ Of(f) \subseteq Of(f) /\ CountedOf(f) \subseteq Of(f)
         /\ \A v \in Counts : {<<f, v>>} \subseteq Of(f)
         /\ \A L \in AddStages \cup SlotStages : "record" \notin L
  BY DEF Of, CountedOf, AddStages, SlotStages, ToTotal, ToSamples, ToN, ToWrite

LEMMA AddedKept ==
  ASSUME NEW p \in Procs, Others(p), NEW f \in Names, Added(f), Steady(p, f, AddStages),
         (Records(Of(f)))' = Records(Of(f)), (Records(CountedOf(f)))' = Records(CountedOf(f)),
         (MetricsOf(f).total)' = MetricsOf(f).total,
         (MetricsOf(f).samples)' = MetricsOf(f).samples, (MetricsOf(f).n)' = MetricsOf(f).n
  PROVE  Added(f)'
<1>1. ToTotal \in AddStages /\ ToSamples \in AddStages /\ ToN \in AddStages
  BY DEF AddStages
<1>2. \A L \in AddStages : "record" \notin L
  BY KindsOf
<1>3. \A L \in AddStages : (Pending(Of(f), L))' = Pending(Of(f), L)
  BY <1>2, KindsOf, SteadyPending
<1>4. \A L \in AddStages : (Pending(CountedOf(f), L))' = Pending(CountedOf(f), L)
  BY <1>2, KindsOf, SteadyPending
<1>5. /\ (Pending(Of(f), ToTotal))' = Pending(Of(f), ToTotal)
      /\ (Pending(Of(f), ToSamples))' = Pending(Of(f), ToSamples)
      /\ (Pending(CountedOf(f), ToN))' = Pending(CountedOf(f), ToN)
  BY <1>1, <1>3, <1>4
<1> QED
  BY <1>5 DEF Added

LEMMA SlotsKept ==
  ASSUME NEW f \in Names, Slots(f),
         (Pending(Of(f), {"n"}))' = Pending(Of(f), {"n"}), Holders(f)' = Holders(f),
         \A q \in Holders(f) : local'[q].w = local[q].w,
         \A v \in Counts : (Pending({<<f, v>>}, ToWrite))' = Pending({<<f, v>>}, ToWrite),
         \A v \in Counts : (Records({<<f, v>>}))' = Records({<<f, v>>}),
         \A v : Records({<<f, v>>}) \subseteq Records({<<f, v>>})',
         (MetricsOf(f).w)' = MetricsOf(f).w, (MetricsOf(f).n)' = MetricsOf(f).n,
         (MetricsOf(f).ring)' = MetricsOf(f).ring
  PROVE  Slots(f)'
<1>1. Taken(f)' = Taken(f)
  BY DEF Taken
<1>2. Filled(f)' = Filled(f)
  BY <1>1 DEF Filled
<1>3. \A i \in Filled(f)' : (Records({<<f, MetricsOf(f).ring[i]>>}))' # {}
  BY <1>2 DEF Slots, Records
<1>4. Taken(f)' <= Ring =>
        /\ \A p, q \in Holders(f)' : local'[p].w = local'[q].w => p = q
        /\ \A v \in Counts :
             Cardinality(Records({<<f, v>>})')
               = Cardinality({i \in Filled(f)' : (MetricsOf(f).ring)'[i] = v})
                   + Cardinality(Pending({<<f, v>>}, ToWrite)')
  BY <1>1, <1>2 DEF Slots
<1>5. (MetricsOf(f).w)' = Taken(f)' % Ring /\ \A p \in Holders(f)' : local'[p].w < Taken(f)'
  BY <1>1 DEF Slots
<1> QED
  BY <1>3, <1>4, <1>5 DEF Slots

LEMMA SlotsKeptBySteady ==
  ASSUME NEW p \in Procs, Others(p), NEW f \in Names, Slots(f), Steady(p, f, SlotStages),
         pc[p] \in {"n", "write"} => local'[p].w = local[p].w,
         \A v \in Counts : (Records({<<f, v>>}))' = Records({<<f, v>>}),
         \A v : Records({<<f, v>>}) \subseteq Records({<<f, v>>})',
         (MetricsOf(f).w)' = MetricsOf(f).w, (MetricsOf(f).n)' = MetricsOf(f).n,
         (MetricsOf(f).ring)' = MetricsOf(f).ring
  PROVE  Slots(f)'
<1>1. {"n"} \in SlotStages /\ {"n", "write"} \in SlotStages /\ ToWrite \in SlotStages
  BY DEF SlotStages
<1>2. (Pending(Of(f), {"n"}))' = Pending(Of(f), {"n"}) /\ Holders(f)' = Holders(f)
  BY <1>1, KindsOf, SteadyPending DEF Holders
<1>3. \A v \in Counts : (Pending({<<f, v>>}, ToWrite))' = Pending({<<f, v>>}, ToWrite)
  BY <1>1, KindsOf, SteadyPending
<1>4. \A q \in Holders(f) : local'[q].w = local[q].w
  BY DEF Holders, Pending, Others
<1> QED
  BY <1>2, <1>3, <1>4, SlotsKept

\* A step that adds nothing and records nothing, and leaves p on its way.
LEMMA NothingMoves ==
  ASSUME RecorderInv, NEW p \in Procs, Others(p), history' = history,
         \A f \in Names : MetricsOf(f)' = MetricsOf(f),
         \A f \in Names : Steady(p, f, AddStages) /\ Steady(p, f, SlotStages),
         pc[p] \in {"n", "write"} => local'[p].w = local[p].w
  PROVE  NothingLost' /\ SlotsAreFilled'
<1>1. \A E : Records(E)' = Records(E)
  BY DEF Records
<1>2. ASSUME NEW f \in Names
      PROVE  Added(f)'
  BY <1>1, AddedKept DEF RecorderInv, NothingLost, Records
<1>3. ASSUME NEW f \in Names
      PROVE  Slots(f)'
  BY <1>1, SlotsKeptBySteady DEF RecorderInv, SlotsAreFilled, Records
<1> QED
  BY <1>2, <1>3 DEF NothingLost, SlotsAreFilled

\* Loading a counter, or failing to swap it and going back to the load.
LEMMA TryingKeepsCounts ==
  ASSUME RecorderInv, NEW p \in Procs, Others(p), UNCHANGED <<jobs, profiles, metrics, history>>,
         \/ pc[p] = "total" /\ pc'[p] = "totalCas"
         \/ pc[p] = "totalCas" /\ pc'[p] = "total"
         \/ pc[p] = "samples" /\ pc'[p] = "samplesCas"
         \/ pc[p] = "samplesCas" /\ pc'[p] = "samples"
         \/ pc[p] = "w" /\ pc'[p] = "wCas"
         \/ pc[p] = "wCas" /\ pc'[p] = "w"
  PROVE  NothingLost' /\ SlotsAreFilled'
<1>1. Entry(p)' = Entry(p)
  BY DEF Entry, Message
<1>2. \A L \in AddStages \cup SlotStages : pc[p] \in L <=> pc'[p] \in L
  BY DEF AddStages, SlotStages, ToTotal, ToSamples, ToN, ToWrite
<1>3. \A f \in Names : Steady(p, f, AddStages) /\ Steady(p, f, SlotStages)
  BY <1>1, <1>2 DEF Steady
<1>4. \A f \in Names : MetricsOf(f)' = MetricsOf(f)
  BY DEF MetricsOf
<1> QED
  BY <1>3, <1>4, NothingMoves

LEMMA LoadsKeepCounts ==
  ASSUME RecorderInv, NEW p \in Procs, LoadTotal(p) \/ LoadSamples(p) \/ LoadW(p)
  PROVE  NothingLost' /\ SlotsAreFilled'
<1>1. Others(p) /\ UNCHANGED <<jobs, profiles, metrics, history>>
  BY StepIsOwn DEF Step, LoadTotal, LoadSamples, LoadW
<1>2. \/ pc[p] = "total" /\ pc'[p] = "totalCas"
      \/ pc[p] = "samples" /\ pc'[p] = "samplesCas"
      \/ pc[p] = "w" /\ pc'[p] = "wCas"
  BY DEF LoadTotal, LoadSamples, LoadW, Goto, RecorderInv, TypeOK
<1>3. CASE pc[p] = "total" /\ pc'[p] = "totalCas"
  BY <1>1, <1>3, TryingKeepsCounts
<1>4. CASE pc[p] = "samples" /\ pc'[p] = "samplesCas"
  BY <1>1, <1>4, TryingKeepsCounts
<1>5. CASE pc[p] = "w" /\ pc'[p] = "wCas"
  BY <1>1, <1>5, TryingKeepsCounts
<1> QED
  BY <1>2, <1>3, <1>4, <1>5

LEMMA NextMessageKeepsCounts ==
  ASSUME RecorderInv, NEW p \in Procs, NextMessage(p)
  PROVE  NothingLost' /\ SlotsAreFilled'
<1>1. /\ Others(p) /\ UNCHANGED <<pc, local, profiles, metrics, history>>
      /\ pc[p] = "record"
  BY StepIsOwn DEF Step, NextMessage
<1>2. \A f \in Names : Steady(p, f, AddStages) /\ Steady(p, f, SlotStages)
  BY <1>1 DEF Steady
<1>3. \A f \in Names : MetricsOf(f)' = MetricsOf(f)
  BY <1>1 DEF MetricsOf
<1> QED
  BY <1>1, <1>2, <1>3, NothingMoves

LEMMA StoreProfileKeepsCounts ==
  ASSUME RecorderInv, NEW p \in Procs, StoreProfile(p)
  PROVE  NothingLost' /\ SlotsAreFilled'
<1> DEFINE e == Entry(p)[1]
           k == Len(metrics) + 1
<1>1. /\ UNCHANGED <<jobs, history>> /\ metrics'[k] = NewMetrics
      /\ \A i \in 1 .. Len(metrics) : metrics'[i] = metrics[i]
      /\ DOMAIN profiles' = DOMAIN profiles \cup {e}
      /\ \A f \in DOMAIN profiles : profiles'[f] = profiles[f]
      /\ e \notin DOMAIN profiles => profiles'[e] = k
  BY StoreProfileStores
<1>2. Others(p) /\ pc[p] = "store" /\ pc'[p] = "total"
  BY StepIsOwn DEF Step, StoreProfile, Goto, RecorderInv, TypeOK
<1>3. Entry(p)' = Entry(p)
  BY <1>1 DEF Entry, Message
<1>4. \A L \in AddStages \cup SlotStages : pc[p] \in L <=> pc'[p] \in L
  BY <1>2 DEF AddStages, SlotStages, ToTotal, ToSamples, ToN, ToWrite
<1>5. \A f \in Names : Steady(p, f, AddStages) /\ Steady(p, f, SlotStages)
  BY <1>2, <1>3, <1>4 DEF Steady
<1> HIDE DEF e, k
<1>6. \A f \in DOMAIN profiles : profiles[f] \in 1 .. Len(metrics)
  BY DEF RecorderInv, TypeOK
<1>7. \A f \in Names : MetricsOf(f)' = MetricsOf(f)
  BY <1>1, <1>6 DEF MetricsOf
<1> QED
  BY <1>1, <1>2, <1>5, <1>7, NothingMoves

----------------------------------------------------------------------------
(* Steps that count *)

\* A record that is taken up is one more, and is on its way.
LEMMA LoadProfileKeepsCounts ==
  ASSUME RecorderInv, NEW p \in Procs, LoadProfile(p)
  PROVE  NothingLost' /\ SlotsAreFilled'
<1> DEFINE x == Entry(p)
           k == Len(history) + 1
<1>1. /\ x \in Entries /\ Entry(p)' = x /\ jobs[p] # <<>> /\ Message(p).fields # <<>>
      /\ UNCHANGED <<jobs, profiles, metrics>>
      /\ DOMAIN history' = DOMAIN history \cup {k} /\ k \notin DOMAIN history
      /\ history'[k] = x /\ \A i \in DOMAIN history : history'[i] = history[i]
  BY LoadProfileTakes
<1>2. /\ \A f : x \in Of(f) <=> x[1] = f
      /\ \A f : x \in CountedOf(f) <=> x[1] = f /\ x[2] \in Counts
      /\ x = <<x[1], x[2]>>
  BY <1>1, EntryIs DEF RecorderInv
<1>3. Others(p) /\ pc[p] = "record" /\ (pc'[p] = "total" \/ pc'[p] = "store")
  BY StepIsOwn DEF Step, LoadProfile, Goto, RecorderInv, TypeOK
<1> HIDE DEF x, k
<1>4. ASSUME NEW E
      PROVE  /\ x \notin E => Records(E)' = Records(E)
             /\ x \in E => /\ Records(E)' = Records(E) \cup {k}
                           /\ Cardinality(Records(E)') = Cardinality(Records(E)) + 1
  <2>1. x \notin E => Records(E)' = Records(E)
    BY <1>1 DEF Records
  <2>2. x \in E => Records(E)' = Records(E) \cup {k} /\ k \notin Records(E)
    BY <1>1 DEF Records
  <2> QED
    BY <2>1, <2>2, RecordsFinite, FS_AddElement DEF RecorderInv
<1>5. ASSUME NEW E, NEW L, {"total", "store"} \subseteq L, "record" \notin L
      PROVE  /\ x \notin E => Pending(E, L)' = Pending(E, L)
             /\ x \in E => Cardinality(Pending(E, L)') = Cardinality(Pending(E, L)) + 1
  <2>1. CASE x \notin E
    BY <1>1, <1>3, <1>5, <2>1, PendingStays
  <2>2. CASE x \in E
    BY <1>1, <1>3, <1>5, <2>2, PendingJoins
  <2> QED
    BY <2>1, <2>2
<1>6. ASSUME NEW E, NEW L, {"total", "store"} \subseteq L, "record" \notin L
      PROVE  \E d \in {0, 1} :
               /\ Cardinality(Records(E)') = Cardinality(Records(E)) + d
               /\ Cardinality(Pending(E, L)') = Cardinality(Pending(E, L)) + d
  <2>1. Cardinality(Records(E)) \in Nat /\ Cardinality(Pending(E, L)) \in Nat
    BY RecordsFinite, PendingFinite DEF RecorderInv
  <2>2. CASE x \in E
    BY <1>4, <1>5, <1>6, <2>2
  <2>3. CASE x \notin E
    <3>1. Records(E)' = Records(E) /\ Pending(E, L)' = Pending(E, L)
      BY <1>4, <1>5, <1>6, <2>3
    <3> QED
      BY <2>1, <3>1
  <2> QED
    BY <2>2, <2>3
<1>7. ASSUME NEW f \in Names
      PROVE  Added(f)'
  <2>1. MetricsOf(f)' = MetricsOf(f)
    BY <1>1 DEF MetricsOf
  <2>2. MetricsOf(f).total \in Nat /\ MetricsOf(f).samples \in Nat /\ MetricsOf(f).n \in Nat
    BY MetricsTyped DEF MetricsType, RecorderInv
  <2>3. \A L \in AddStages : {"total", "store"} \subseteq L /\ "record" \notin L
    BY DEF AddStages, ToTotal, ToSamples, ToN
  <2>4. \A L \in AddStages : Cardinality(Pending(Of(f), L)) \in Nat
    BY PendingFinite
  <2>5. Cardinality(Pending(CountedOf(f), ToN)) \in Nat
    BY PendingFinite
  <2>6. ToTotal \in AddStages /\ ToSamples \in AddStages /\ ToN \in AddStages
    BY DEF AddStages
  <2>7. Cardinality(Records(Of(f))') = (MetricsOf(f).total)' + Cardinality(Pending(Of(f), ToTotal)')
    BY <1>6, <2>1, <2>2, <2>3, <2>4, <2>6 DEF RecorderInv, NothingLost, Added
  <2>8. Cardinality(Records(Of(f))')
          = (MetricsOf(f).samples)' + Cardinality(Pending(Of(f), ToSamples)')
    BY <1>6, <2>1, <2>2, <2>3, <2>4, <2>6 DEF RecorderInv, NothingLost, Added
  <2>9. Cardinality(Records(CountedOf(f))')
          = (MetricsOf(f).n)' + Cardinality(Pending(CountedOf(f), ToN)')
    BY <1>6, <2>1, <2>2, <2>3, <2>5, <2>6 DEF RecorderInv, NothingLost, Added
  <2> QED
    BY <2>7, <2>8, <2>9 DEF Added
<1>8. ASSUME NEW f \in Names
      PROVE  Slots(f)'
  <2>1. MetricsOf(f)' = MetricsOf(f)
    BY <1>1 DEF MetricsOf
  <2>2. (Pending(Of(f), {"n"}))' = Pending(Of(f), {"n"}) /\ Holders(f)' = Holders(f)
    BY <1>3, PendingStays DEF Holders
  <2>3. Taken(f)' = Taken(f)
    BY <2>1, <2>2 DEF Taken
  <2>4. \A q \in Holders(f) : local'[q].w = local[q].w
    BY <1>3 DEF Holders, Pending, Others
  <2>5. Filled(f)' = Filled(f)
    BY <2>2, <2>3, <2>4 DEF Filled
  <2>6. Slots(f)
    BY DEF RecorderInv, SlotsAreFilled
  <2>7. ASSUME NEW i \in Filled(f)'
        PROVE  (Records({<<f, MetricsOf(f).ring[i]>>}))' # {}
    <3>1. Records({<<f, MetricsOf(f).ring[i]>>}) # {}
      BY <2>5, <2>6 DEF Slots
    <3> QED
      BY <1>1, <2>1, <3>1 DEF Records
  <2>8. ASSUME NEW v \in Counts, Taken(f) <= Ring
        PROVE  Cardinality((Records({<<f, v>>}))')
                 = Cardinality({i \in Filled(f)' : (MetricsOf(f).ring)'[i] = v})
                     + Cardinality((Pending({<<f, v>>}, ToWrite))')
    <3>1. Cardinality(Records({<<f, v>>}))
            = Cardinality({i \in Filled(f) : MetricsOf(f).ring[i] = v})
                + Cardinality(Pending({<<f, v>>}, ToWrite))
      BY <2>6, <2>8 DEF Slots
    <3>2. {i \in Filled(f)' : (MetricsOf(f).ring)'[i] = v}
            = {i \in Filled(f) : MetricsOf(f).ring[i] = v}
      BY <2>1, <2>5
    <3>3. {"total", "store"} \subseteq ToWrite /\ "record" \notin ToWrite
      BY DEF ToWrite, ToN, ToSamples, ToTotal
    <3>4. Cardinality(Pending({<<f, v>>}, ToWrite)) \in Nat
      BY PendingFinite
    <3>5. Cardinality({i \in Filled(f) : MetricsOf(f).ring[i] = v}) \in Nat
      <4>1. {i \in Filled(f) : MetricsOf(f).ring[i] = v} \subseteq Filled(f)
        OBVIOUS
      <4> QED
        BY <4>1, FilledFinite
    <3>6. PICK d \in {0, 1} :
            /\ Cardinality((Records({<<f, v>>}))') = Cardinality(Records({<<f, v>>})) + d
            /\ Cardinality((Pending({<<f, v>>}, ToWrite))')
                 = Cardinality(Pending({<<f, v>>}, ToWrite)) + d
      BY <1>6, <3>3
    <3> DEFINE b == Cardinality({i \in Filled(f) : MetricsOf(f).ring[i] = v})
               c == Cardinality(Pending({<<f, v>>}, ToWrite))
    <3>7. b \in Nat /\ c \in Nat /\ Cardinality(Records({<<f, v>>})) = b + c
      BY <3>1, <3>4, <3>5
    <3>8. /\ Cardinality((Records({<<f, v>>}))') = Cardinality(Records({<<f, v>>})) + d
          /\ Cardinality((Pending({<<f, v>>}, ToWrite))') = c + d
      BY <3>6
    <3>9. Cardinality({i \in Filled(f)' : (MetricsOf(f).ring)'[i] = v}) = b
      BY <3>2
    <3> HIDE DEF b, c
    <3> QED
      BY <3>7, <3>8, <3>9
  <2> QED
    BY <2>1, <2>2, <2>3, <2>4, <2>6, <2>7, <2>8 DEF Slots
<1> QED
  BY <1>7, <1>8 DEF NothingLost, SlotsAreFilled

\* Adding to the counters of p's field does not disturb the other fields.
LEMMA OtherFieldsKept ==
  ASSUME RecorderInv, NEW p \in Procs, Others(p), history' = history, local' = local,
         pc[p] # "record", pc'[p] # "record" => Entry(p)' = Entry(p),
         NEW f \in Names, f # Entry(p)[1], MetricsOf(f)' = MetricsOf(f)
  PROVE  Added(f)' /\ Slots(f)'
<1>1. Entry(p) \notin Of(f)
  BY InRecord DEF RecorderInv
<1>2. Steady(p, f, AddStages) /\ Steady(p, f, SlotStages)
  BY <1>1 DEF Steady
<1>3. \A E : Records(E)' = Records(E)
  BY DEF Records
<1>4. Added(f) /\ Slots(f)
  BY DEF RecorderInv, NothingLost, SlotsAreFilled
<1>5. Added(f)'
  BY <1>2, <1>3, <1>4, AddedKept
<1>6. Slots(f)'
  BY <1>2, <1>3, <1>4, SlotsKeptBySteady
<1> QED
  BY <1>5, <1>6

\* One addition to the total for one record on its way there.
LEMMA CasTotalKeepsCounts ==
  ASSUME RecorderInv, NEW p \in Procs, CasTotal(p)
  PROVE  NothingLost' /\ SlotsAreFilled'
<1> DEFINE r == [M(p) EXCEPT !.total = local[p].old + 1]
<1>1. Others(p) /\ UNCHANGED <<jobs, local, profiles, history>> /\ pc[p] = "totalCas"
  BY StepIsOwn DEF Step, CasTotal
<1>2. CASE ~ Swapped(M(p).total, local[p].old)
  <2>1. UNCHANGED metrics /\ pc'[p] = "total"
    BY <1>2 DEF CasTotal, AfterFailure, Goto, RecorderInv, TypeOK
  <2> QED
    BY <1>1, <2>1, TryingKeepsCounts
<1>3. CASE Swapped(M(p).total, local[p].old)
  <2>. PICK e \in Names : e = Entry(p)[1]
    BY <1>1, InRecord DEF RecorderInv
  <2>1. /\ M(p) = MetricsOf(e) /\ M(p) \in MetricsType /\ local[p].m \in 1 .. Len(metrics)
        /\ e \in Names /\ \A f : Entry(p) \in Of(f) <=> e = f
    BY <1>1, MetricsInUse, InRecord DEF RecorderInv
  <2>2. metrics' = [metrics EXCEPT ![local[p].m] = r] /\ pc'[p] = "samples"
    BY <1>3, <2>1 DEF CasTotal, Goto, M, RecorderInv, TypeOK
  <2>3. \A f \in Names : (MetricsOf(f))' = IF f = e THEN r ELSE MetricsOf(f)
    <3> HIDE DEF r
    <3> QED
      BY <1>1, <2>2, OneMetricsChanges
  <2>4. Entry(p)' = Entry(p) /\ \A E : Records(E)' = Records(E)
    BY <1>1 DEF Entry, Message, Records
  <2>5. ASSUME NEW f \in Names, f # e
        PROVE  Added(f)' /\ Slots(f)'
    BY <1>1, <2>3, <2>4, <2>5, OtherFieldsKept
  <2>6. r.total = MetricsOf(e).total + 1 /\ MetricsOf(e).total \in Nat
    BY <1>3, <2>1 DEF Swapped, MetricsType
  <2>7. /\ r.samples = MetricsOf(e).samples /\ r.n = MetricsOf(e).n
        /\ r.w = MetricsOf(e).w /\ r.ring = MetricsOf(e).ring
    BY <2>1 DEF MetricsType
  <2> HIDE DEF r
  <2>8. Added(e) /\ Slots(e)
    BY <2>1 DEF RecorderInv, NothingLost, SlotsAreFilled
  <2>9. Steady(p, e, SlotStages)
    <3>1. \A L \in SlotStages : pc[p] \in L <=> pc'[p] \in L
      BY <1>1, <2>2 DEF SlotStages, ToWrite, ToN, ToSamples, ToTotal
    <3> QED
      BY <1>1, <2>1, <2>4, <3>1 DEF Steady
  <2>10. Slots(e)'
    BY <1>1, <2>1, <2>3, <2>4, <2>7, <2>8, <2>9, SlotsKeptBySteady
  <2>11. Cardinality(Pending(Of(e), ToTotal)) = Cardinality(Pending(Of(e), ToTotal)') + 1
    BY <1>1, <2>1, <2>2, <2>4, PendingLeaves DEF ToTotal
  <2>12. /\ (Pending(Of(e), ToSamples))' = Pending(Of(e), ToSamples)
         /\ (Pending(CountedOf(e), ToN))' = Pending(CountedOf(e), ToN)
    BY <1>1, <2>1, <2>2, <2>4, PendingStays DEF ToSamples, ToTotal, ToN
  <2>13. Added(e)'
    <3>1. /\ Cardinality(Pending(Of(e), ToTotal)') \in Nat
          /\ (MetricsOf(e).total)' = MetricsOf(e).total + 1
          /\ (MetricsOf(e).samples)' = MetricsOf(e).samples /\ (MetricsOf(e).n)' = MetricsOf(e).n
      BY <2>1, <2>3, <2>6, <2>7, PendingFinitePrime
    <3>2. /\ (Records(Of(e)))' = Records(Of(e)) /\ (Records(CountedOf(e)))' = Records(CountedOf(e))
      BY <2>4
    <3>3. Cardinality(Records(Of(e))) = (MetricsOf(e).total)' + Cardinality(Pending(Of(e), ToTotal)')
      BY <2>6, <2>8, <2>11, <3>1 DEF Added
    <3> QED
      BY <2>8, <2>12, <3>1, <3>2, <3>3 DEF Added
  <2> QED
    BY <2>5, <2>10, <2>13 DEF NothingLost, SlotsAreFilled
<1> QED
  BY <1>2, <1>3

\* One to the number of samples; then p goes on to the median, or is done with a record
\* that has no count.
LEMMA CasSamplesKeepsCounts ==
  ASSUME RecorderInv, NEW p \in Procs, CasSamples(p)
  PROVE  NothingLost' /\ SlotsAreFilled'
<1> DEFINE r == [M(p) EXCEPT !.samples = local[p].old + 1]
<1>1. Others(p) /\ UNCHANGED <<local, profiles, history>> /\ pc[p] = "samplesCas"
  BY StepIsOwn DEF Step, CasSamples
<1>2. CASE ~ Swapped(M(p).samples, local[p].old)
  <2>1. UNCHANGED <<jobs, metrics>> /\ pc'[p] = "samples"
    BY <1>2 DEF CasSamples, AfterFailure, Goto, RecorderInv, TypeOK
  <2> QED
    BY <1>1, <2>1, TryingKeepsCounts
<1>3. CASE Swapped(M(p).samples, local[p].old)
  <2>. PICK e \in Names : e = Entry(p)[1]
    BY <1>1, InRecord DEF RecorderInv
  <2>1. /\ M(p) = MetricsOf(e) /\ M(p) \in MetricsType /\ local[p].m \in 1 .. Len(metrics)
        /\ \A f : Entry(p) \in Of(f) <=> e = f
        /\ \A f : Entry(p) \in CountedOf(f) <=> e = f /\ Entry(p)[2] \in Counts
        /\ Entry(p) = <<e, Entry(p)[2]>> /\ Entry(p)[2] \in Counts \cup {NoCount}
    BY <1>1, MetricsInUse, InRecord DEF RecorderInv
  <2>2. /\ metrics' = [metrics EXCEPT ![local[p].m] = r]
        /\ \/ pc'[p] = "w" /\ jobs' = jobs /\ Entry(p)[2] # NoCount
           \/ pc'[p] = "record" /\ Entry(p)[2] = NoCount
    BY <1>3, <2>1 DEF CasSamples, Goto, M, Advance, RecorderInv, TypeOK
  <2>3. \A f \in Names : (MetricsOf(f))' = IF f = e THEN r ELSE MetricsOf(f)
    <3> HIDE DEF r
    <3> QED
      BY <1>1, <2>2, OneMetricsChanges
  <2>4. /\ pc'[p] = "w" => Entry(p)' = Entry(p)
        /\ \A E : Records(E)' = Records(E)
    BY <1>1, <2>2 DEF Entry, Message, Records
  <2>5. ASSUME NEW f \in Names, f # e
        PROVE  Added(f)' /\ Slots(f)'
    BY <1>1, <2>2, <2>3, <2>4, <2>5, OtherFieldsKept
  <2>6. r.samples = MetricsOf(e).samples + 1 /\ MetricsOf(e).samples \in Nat
    BY <1>3, <2>1 DEF Swapped, MetricsType
  <2>7. /\ r.total = MetricsOf(e).total /\ r.n = MetricsOf(e).n
        /\ r.w = MetricsOf(e).w /\ r.ring = MetricsOf(e).ring
    BY <2>1 DEF MetricsType
  <2> HIDE DEF r
  <2>8. Added(e) /\ Slots(e)
    BY DEF RecorderInv, NothingLost, SlotsAreFilled
  <2>9. NoCount \notin Counts
    BY JobsAssumption
  <2>10. Slots(e)'
    <3>1. (Pending(Of(e), {"n"}))' = Pending(Of(e), {"n"}) /\ Holders(e)' = Holders(e)
      BY <1>1, <2>2, PendingStays DEF Holders
    <3>2. \A q \in Holders(e) : local'[q].w = local[q].w
      BY <1>1
    <3>3. ASSUME NEW v \in Counts
          PROVE  (Pending({<<e, v>>}, ToWrite))' = Pending({<<e, v>>}, ToWrite)
      <4>1. CASE pc'[p] = "w"
        BY <1>1, <2>4, <4>1, PendingStays DEF ToWrite, ToN, ToSamples
      <4>2. CASE pc'[p] = "record" /\ Entry(p)[2] = NoCount
        <5>1. Entry(p) \notin {<<e, v>>} /\ "record" \notin ToWrite
          BY <2>9, <4>2 DEF ToWrite, ToN, ToSamples, ToTotal
        <5> QED
          BY <1>1, <4>2, <5>1, PendingStays
      <4> QED
        BY <2>2, <4>1, <4>2
    <3> QED
      BY <2>3, <2>4, <2>7, <2>8, <3>1, <3>2, <3>3, SlotsKept
  <2>11. Cardinality(Pending(Of(e), ToSamples)) = Cardinality(Pending(Of(e), ToSamples)') + 1
    <3>1. pc[p] \in ToSamples /\ pc'[p] \notin ToSamples
      BY <1>1, <2>2 DEF ToSamples, ToTotal
    <3> QED
      BY <1>1, <2>1, <3>1, PendingLeaves
  <2>12. (Pending(Of(e), ToTotal))' = Pending(Of(e), ToTotal)
    BY <1>1, <2>2, PendingStays DEF ToTotal
  <2>13. (Pending(CountedOf(e), ToN))' = Pending(CountedOf(e), ToN)
    <3>1. CASE pc'[p] = "w"
      BY <1>1, <2>4, <3>1, PendingStays DEF ToN, ToSamples
    <3>2. CASE pc'[p] = "record" /\ Entry(p)[2] = NoCount
      <4>1. Entry(p) \notin CountedOf(e) /\ "record" \notin ToN
        BY <2>1, <2>9, <3>2 DEF ToN, ToSamples, ToTotal
      <4> QED
        BY <1>1, <3>2, <4>1, PendingStays
    <3> QED
      BY <2>2, <3>1, <3>2
  <2>14. Added(e)'
    <3>1. /\ Cardinality(Pending(Of(e), ToSamples)') \in Nat
          /\ (MetricsOf(e).samples)' = MetricsOf(e).samples + 1
          /\ (MetricsOf(e).total)' = MetricsOf(e).total /\ (MetricsOf(e).n)' = MetricsOf(e).n
      BY <2>3, <2>6, <2>7, PendingFinitePrime
    <3>2. /\ (Records(Of(e)))' = Records(Of(e)) /\ (Records(CountedOf(e)))' = Records(CountedOf(e))
      BY <2>4
    <3>3. Cardinality(Records(Of(e)))
            = (MetricsOf(e).samples)' + Cardinality(Pending(Of(e), ToSamples)')
      BY <2>6, <2>8, <2>11, <3>1 DEF Added
    <3> QED
      BY <2>8, <2>12, <2>13, <3>1, <3>2, <3>3 DEF Added
  <2> QED
    BY <2>5, <2>10, <2>14 DEF NothingLost, SlotsAreFilled
<1> QED
  BY <1>2, <1>3

\* One to n for a count on its way there; its slot is the goroutine's before and after.
LEMMA AddNKeepsCounts ==
  ASSUME RecorderInv, NEW p \in Procs, AddN(p)
  PROVE  NothingLost' /\ SlotsAreFilled'
<1> DEFINE r == [M(p) EXCEPT !.n = @ + 1]
<1>1. /\ Others(p) /\ UNCHANGED <<jobs, local, profiles, history>>
      /\ pc[p] = "n" /\ pc'[p] = "write"
  BY StepIsOwn DEF Step, AddN, Goto, RecorderInv, TypeOK
<1>. PICK e \in Names : e = Entry(p)[1]
  BY <1>1, InRecord DEF RecorderInv
<1>2. /\ M(p) = MetricsOf(e) /\ M(p) \in MetricsType /\ local[p].m \in 1 .. Len(metrics)
      /\ \A f : Entry(p) \in Of(f) <=> e = f
      /\ Entry(p) \in CountedOf(e)
  BY <1>1, MetricsInUse, InRecord DEF RecorderInv, AtRecord
<1>3. metrics' = [metrics EXCEPT ![local[p].m] = r]
  BY <1>2 DEF AddN, M
<1>4. \A f \in Names : (MetricsOf(f))' = IF f = e THEN r ELSE MetricsOf(f)
  <2> HIDE DEF r
  <2> QED
    BY <1>1, <1>3, OneMetricsChanges
<1>5. Entry(p)' = Entry(p) /\ \A E : Records(E)' = Records(E)
  BY <1>1 DEF Entry, Message, Records
<1>6. ASSUME NEW f \in Names, f # e
      PROVE  Added(f)' /\ Slots(f)'
  BY <1>1, <1>4, <1>5, <1>6, OtherFieldsKept
<1>7. /\ r.total = MetricsOf(e).total /\ r.samples = MetricsOf(e).samples
      /\ r.n = MetricsOf(e).n + 1 /\ MetricsOf(e).n \in Nat
      /\ r.w = MetricsOf(e).w /\ r.ring = MetricsOf(e).ring
  BY <1>2 DEF MetricsType
<1> HIDE DEF r
<1>8. Added(e) /\ Slots(e)
  BY DEF RecorderInv, NothingLost, SlotsAreFilled
<1>9. /\ (Pending(Of(e), ToTotal))' = Pending(Of(e), ToTotal)
      /\ (Pending(Of(e), ToSamples))' = Pending(Of(e), ToSamples)
  BY <1>1, PendingStays DEF ToSamples, ToTotal
<1>10. Cardinality(Pending(CountedOf(e), ToN)) = Cardinality(Pending(CountedOf(e), ToN)') + 1
  <2>1. pc[p] \in ToN /\ pc'[p] \notin ToN
    BY <1>1 DEF ToN, ToSamples, ToTotal
  <2> QED
    BY <1>1, <1>2, <2>1, PendingLeaves
<1>11. Added(e)'
  <2>1. /\ Cardinality(Pending(CountedOf(e), ToN)') \in Nat
        /\ (MetricsOf(e).n)' = MetricsOf(e).n + 1
        /\ (MetricsOf(e).total)' = MetricsOf(e).total
        /\ (MetricsOf(e).samples)' = MetricsOf(e).samples
    BY <1>4, <1>7, PendingFinitePrime
  <2>2. /\ (Records(Of(e)))' = Records(Of(e)) /\ (Records(CountedOf(e)))' = Records(CountedOf(e))
    BY <1>5
  <2>3. Cardinality(Records(CountedOf(e)))
          = (MetricsOf(e).n)' + Cardinality(Pending(CountedOf(e), ToN)')
    BY <1>7, <1>8, <1>10, <2>1 DEF Added
  <2> QED
    BY <1>8, <1>9, <2>1, <2>2, <2>3 DEF Added
<1>12. Taken(e)' = Taken(e)
  <2>1. Cardinality(Pending(Of(e), {"n"})) = Cardinality(Pending(Of(e), {"n"})') + 1
    BY <1>1, <1>2, PendingLeaves
  <2>2. Cardinality(Pending(Of(e), {"n"})') \in Nat
    BY PendingFinitePrime
  <2> QED
    BY <1>4, <1>7, <2>1, <2>2 DEF Taken
<1>13. Holders(e)' = Holders(e)
  BY <1>1, <1>2, <1>5, PendingStays DEF Holders
<1>14. Filled(e)' = Filled(e)
  BY <1>1, <1>12, <1>13 DEF Filled
<1>15. \A v \in Counts : (Pending({<<e, v>>}, ToWrite))' = Pending({<<e, v>>}, ToWrite)
  BY <1>1, <1>5, PendingStays DEF ToWrite, ToN
<1>16. (MetricsOf(e).w)' = MetricsOf(e).w /\ (MetricsOf(e).ring)' = MetricsOf(e).ring
  BY <1>4, <1>7
<1>17. Slots(e)'
  <2>1. (MetricsOf(e).w)' = Taken(e)' % Ring /\ \A q \in Holders(e)' : local'[q].w < Taken(e)'
    BY <1>1, <1>8, <1>12, <1>13, <1>16 DEF Slots
  <2>2. \A i \in Filled(e)' : (Records({<<e, MetricsOf(e).ring[i]>>}))' # {}
    BY <1>1, <1>8, <1>14, <1>16 DEF Slots, Records
  <2>3. Taken(e)' <= Ring =>
          \A q, h \in Holders(e)' : local'[q].w = local'[h].w => q = h
    BY <1>1, <1>8, <1>12, <1>13 DEF Slots
  <2>4. Taken(e)' <= Ring =>
          \A v \in Counts :
             Cardinality(Records({<<e, v>>})')
               = Cardinality({i \in Filled(e)' : (MetricsOf(e).ring)'[i] = v})
                   + Cardinality(Pending({<<e, v>>}, ToWrite)')
    BY <1>5, <1>8, <1>12, <1>14, <1>15, <1>16 DEF Slots
  <2> QED
    BY <2>1, <2>2, <2>3, <2>4 DEF Slots
<1> QED
  BY <1>6, <1>11, <1>17 DEF NothingLost, SlotsAreFilled

\* The next slot is taken for p: nobody holds it unless the ring has wrapped.
LEMMA CasWKeepsCounts ==
  ASSUME RecorderInv, NEW p \in Procs, CasW(p)
  PROVE  NothingLost' /\ SlotsAreFilled'
<1> DEFINE r == [M(p) EXCEPT !.w = (local[p].w + 1) % Ring]
<1>1. Others(p) /\ UNCHANGED <<jobs, local, profiles, history>> /\ pc[p] = "wCas"
  BY StepIsOwn DEF Step, CasW
<1>2. CASE ~ Swapped(M(p).w, local[p].w)
  <2>1. UNCHANGED metrics /\ pc'[p] = "w"
    BY <1>2 DEF CasW, AfterFailure, Goto, RecorderInv, TypeOK
  <2> QED
    BY <1>1, <2>1, TryingKeepsCounts
<1>3. CASE Swapped(M(p).w, local[p].w)
  <2>. PICK e \in Names : e = Entry(p)[1]
    BY <1>1, InRecord DEF RecorderInv
  <2>1. /\ M(p) = MetricsOf(e) /\ M(p) \in MetricsType /\ local[p].m \in 1 .. Len(metrics)
        /\ \A f : Entry(p) \in Of(f) <=> e = f
    BY <1>1, MetricsInUse, InRecord DEF RecorderInv
  <2>2. metrics' = [metrics EXCEPT ![local[p].m] = r] /\ pc'[p] = "n"
    BY <1>3, <2>1 DEF CasW, Goto, M, RecorderInv, TypeOK
  <2>3. \A f \in Names : (MetricsOf(f))' = IF f = e THEN r ELSE MetricsOf(f)
    <3> HIDE DEF r
    <3> QED
      BY <1>1, <2>2, OneMetricsChanges
  <2>4. Entry(p)' = Entry(p) /\ \A E : Records(E)' = Records(E)
    BY <1>1 DEF Entry, Message, Records
  <2>5. ASSUME NEW f \in Names, f # e
        PROVE  Added(f)' /\ Slots(f)'
    BY <1>1, <2>3, <2>4, <2>5, OtherFieldsKept
  <2>6. /\ r.total = MetricsOf(e).total /\ r.samples = MetricsOf(e).samples
        /\ r.n = MetricsOf(e).n /\ MetricsOf(e).n \in Nat
        /\ r.w = (local[p].w + 1) % Ring /\ r.ring = MetricsOf(e).ring
        /\ local[p].w = MetricsOf(e).w
    BY <1>3, <2>1 DEF MetricsType, Swapped
  <2> HIDE DEF r
  <2>7. Added(e) /\ Slots(e)
    BY DEF RecorderInv, NothingLost, SlotsAreFilled
  <2>8. \A L \in AddStages : pc[p] \in L <=> pc'[p] \in L
    BY <1>1, <2>2 DEF AddStages, ToN, ToSamples, ToTotal
  <2>9. Steady(p, e, AddStages)
    BY <1>1, <2>1, <2>4, <2>8 DEF Steady
  <2>10. Added(e)'
    BY <1>1, <2>3, <2>4, <2>6, <2>7, <2>9, AddedKept
  <2>11. /\ Taken(e) \in Nat /\ Taken(e)' = Taken(e) + 1
    <3>1. Cardinality(Pending(Of(e), {"n"})') = Cardinality(Pending(Of(e), {"n"})) + 1
      BY <1>1, <2>1, <2>2, <2>4, PendingJoins
    <3>2. Cardinality(Pending(Of(e), {"n"})) \in Nat
      BY PendingFinite
    <3> QED
      BY <2>3, <2>6, <3>1, <3>2 DEF Taken
  <2>12. Holders(e)' = Holders(e) \cup {p} /\ p \notin Holders(e)
    <3>1. p \notin Holders(e)
      BY <1>1 DEF Holders, Pending
    <3> QED
      BY <1>1, <2>1, <2>2, <2>4, <3>1, PendingJoins DEF Holders
  <2>13. local[p].w = Taken(e) % Ring
    BY <2>6, <2>7 DEF Slots
  <2>14. /\ (Taken(e) + 1) % Ring = (local[p].w + 1) % Ring
         /\ local[p].w \in 0 .. Ring - 1 /\ local[p].w <= Taken(e)
         /\ Taken(e) < Ring => local[p].w = Taken(e)
    <3>1. Ring \in Nat \ {0}
      BY RingAssumption
    <3>2. ((Taken(e) % Ring) + 1) % Ring = (Taken(e) + 1) % Ring
      BY <2>11, <3>1, ModSum
    <3>3. Taken(e) % Ring \in 0 .. Ring - 1
      BY <2>11, <3>1, ModSum
    <3>4. Taken(e) < Ring => Taken(e) % Ring = Taken(e)
      <4>1. Taken(e) < Ring => Taken(e) \in 0 .. Ring - 1 /\ Taken(e) = Ring * 0 + Taken(e)
        BY <2>11, <3>1
      <4> QED
        BY <2>11, <3>1, <4>1, ModUnique
    <3>5. Taken(e) % Ring <= Taken(e)
      BY <2>11, <3>1, <3>3, <3>4
    <3> QED
      BY <2>13, <3>2, <3>3, <3>4, <3>5
  <2>15. (MetricsOf(e).w)' = Taken(e)' % Ring
    BY <2>3, <2>6, <2>11, <2>14
  <2>16. \A q \in Holders(e) : local[q].w < Taken(e) /\ local[q].w \in Nat
    BY <2>7 DEF Slots, Holders, Pending, RecorderInv, TypeOK
  <2>17. \A q \in Holders(e)' : local'[q].w < Taken(e)'
    BY <1>1, <2>11, <2>12, <2>14, <2>16
  <2>18. Filled(e)' \subseteq Filled(e)
    <3> SUFFICES ASSUME NEW i \in Filled(e)' PROVE i \in Filled(e)
      OBVIOUS
    <3>1. i \in 0 .. Ring - 1 /\ i < Taken(e) + 1 /\ \A q \in Holders(e) \cup {p} : local[q].w # i
      BY <1>1, <2>11, <2>12 DEF Filled
    <3>2. i # Taken(e)
      <4>1. i # local[p].w
        BY <3>1
      <4>2. i < Ring
        BY <3>1, RingAssumption
      <4> QED
        BY <2>14, <4>1, <4>2
    <3>3. i < Taken(e)
      BY <2>11, <3>1, <3>2
    <3> QED
      BY <3>1, <3>3 DEF Filled
  <2>19. (MetricsOf(e).ring)' = MetricsOf(e).ring
    BY <2>3, <2>6
  <2>20. \A i \in Filled(e)' : (Records({<<e, MetricsOf(e).ring[i]>>}))' # {}
    BY <1>1, <2>7, <2>18, <2>19 DEF Slots, Records
  <2>21. ASSUME Taken(e)' <= Ring
         PROVE  /\ \A q, h \in Holders(e)' : local'[q].w = local'[h].w => q = h
                /\ \A v \in Counts :
                     Cardinality(Records({<<e, v>>})')
                       = Cardinality({i \in Filled(e)' : (MetricsOf(e).ring)'[i] = v})
                           + Cardinality(Pending({<<e, v>>}, ToWrite)')
    <3>1. Taken(e) < Ring /\ Taken(e) <= Ring /\ local[p].w = Taken(e)
      BY <2>11, <2>14, <2>21, RingAssumption
    <3>2. \A q \in Holders(e) : local[q].w # local[p].w
      BY <2>11, <2>16, <3>1
    <3>3. \A q, h \in Holders(e) : local[q].w = local[h].w => q = h
      BY <2>7, <3>1 DEF Slots
    <3>4. \A q, h \in Holders(e)' : local'[q].w = local'[h].w => q = h
      BY <1>1, <2>12, <3>2, <3>3
    <3>5. Filled(e) \subseteq Filled(e)'
      <4> SUFFICES ASSUME NEW i \in Filled(e) PROVE i \in Filled(e)'
        OBVIOUS
      <4>1. i \in 0 .. Ring - 1 /\ i < Taken(e) /\ \A q \in Holders(e) : local[q].w # i
        BY DEF Filled
      <4>2. i # local[p].w /\ i < Taken(e)'
        BY <2>11, <3>1, <4>1
      <4> QED
        BY <1>1, <2>12, <4>1, <4>2 DEF Filled
    <3>6. Filled(e)' = Filled(e)
      BY <2>18, <3>5
    <3>7. \A v \in Counts : (Pending({<<e, v>>}, ToWrite))' = Pending({<<e, v>>}, ToWrite)
      BY <1>1, <2>2, <2>4, PendingStays DEF ToWrite, ToN
    <3> QED
      BY <2>4, <2>7, <2>19, <3>1, <3>4, <3>6, <3>7 DEF Slots
  <2>22. Slots(e)'
    BY <2>15, <2>17, <2>20, <2>21 DEF Slots
  <2> QED
    BY <2>5, <2>10, <2>22 DEF NothingLost, SlotsAreFilled
<1> QED
  BY <1>2, <1>3

\* The slot is filled with the goroutine's count, and it holds it no more.
LEMMA WriteSampleKeepsCounts ==
  ASSUME RecorderInv, NEW p \in Procs, WriteSample(p)
  PROVE  NothingLost' /\ SlotsAreFilled'
<1> DEFINE r == [M(p) EXCEPT !.ring = [@ EXCEPT ![local[p].w] = Entry(p)[2]]]
<1>1. /\ Others(p) /\ UNCHANGED <<local, profiles, history>>
      /\ pc[p] = "write" /\ pc'[p] = "record"
  BY StepIsOwn DEF Step, WriteSample, Advance, Goto, RecorderInv, TypeOK
<1>. PICK e \in Names, c \in Counts : e = Entry(p)[1] /\ c = Entry(p)[2]
  BY <1>1, InRecord DEF RecorderInv, AtRecord
<1>. PICK s \in 0 .. Ring - 1 : s = local[p].w
  <2>1. local[p] \in [m : Nat, old : Nat, w : 0 .. Ring - 1]
    BY DEF RecorderInv, TypeOK
  <2> QED
    BY <2>1
<1>2. /\ M(p) = MetricsOf(e) /\ M(p) \in MetricsType /\ local[p].m \in 1 .. Len(metrics)
      /\ \A f : Entry(p) \in Of(f) <=> e = f
      /\ Entry(p) = <<e, c>>
  BY <1>1, MetricsInUse, InRecord DEF RecorderInv
<1>3. metrics' = [metrics EXCEPT ![local[p].m] = r]
  BY <1>2 DEF WriteSample, M
<1>4. \A f \in Names : (MetricsOf(f))' = IF f = e THEN r ELSE MetricsOf(f)
  <2> HIDE DEF r
  <2> QED
    BY <1>1, <1>3, OneMetricsChanges
<1>5. \A E : Records(E)' = Records(E)
  BY <1>1 DEF Records
<1>6. ASSUME NEW f \in Names, f # e
      PROVE  Added(f)' /\ Slots(f)'
  BY <1>1, <1>4, <1>6, OtherFieldsKept
<1>7. /\ r.total = MetricsOf(e).total /\ r.samples = MetricsOf(e).samples
      /\ r.n = MetricsOf(e).n /\ r.w = MetricsOf(e).w
      /\ r.ring = [MetricsOf(e).ring EXCEPT ![s] = c]
      /\ MetricsOf(e).ring \in [0 .. Ring - 1 -> Nat]
  BY <1>2 DEF MetricsType
<1> HIDE DEF r
<1>8. Added(e) /\ Slots(e)
  BY DEF RecorderInv, NothingLost, SlotsAreFilled
<1>9. \A L \in {ToTotal, ToSamples, ToN, {"n"}} : pc[p] \notin L /\ pc'[p] \notin L
  BY <1>1 DEF ToN, ToSamples, ToTotal
<1>10. \A L \in {ToTotal, ToSamples, ToN, {"n"}} : \A E : (Pending(E, L))' = Pending(E, L)
  BY <1>1, <1>9, PendingStays
<1>11. Added(e)'
  <2>1. /\ (MetricsOf(e).n)' = MetricsOf(e).n
        /\ (MetricsOf(e).total)' = MetricsOf(e).total
        /\ (MetricsOf(e).samples)' = MetricsOf(e).samples
    BY <1>4, <1>7
  <2>2. /\ (Pending(Of(e), ToTotal))' = Pending(Of(e), ToTotal)
        /\ (Pending(Of(e), ToSamples))' = Pending(Of(e), ToSamples)
        /\ (Pending(CountedOf(e), ToN))' = Pending(CountedOf(e), ToN)
    BY <1>10
  <2>3. /\ (Records(Of(e)))' = Records(Of(e)) /\ (Records(CountedOf(e)))' = Records(CountedOf(e))
    BY <1>5
  <2> QED
    BY <1>8, <2>1, <2>2, <2>3 DEF Added
<1>12. Taken(e)' = Taken(e)
  <2>1. (Pending(Of(e), {"n"}))' = Pending(Of(e), {"n"})
    BY <1>10
  <2> QED
    BY <1>4, <1>7, <2>1 DEF Taken
<1>13. Holders(e)' = Holders(e) \ {p} /\ p \in Holders(e)
  <2>1. p \in Holders(e)
    BY <1>1, <1>2 DEF Holders, Pending
  <2>2. /\ pc[p] \in {"n", "write"} /\ Entry(p) \in Of(e)
        /\ ~ (pc'[p] \in {"n", "write"} /\ Entry(p)' \in Of(e))
    BY <1>1, <1>2
  <2>3. (Pending(Of(e), {"n", "write"}))' = Pending(Of(e), {"n", "write"}) \ {p}
    BY <1>1, <2>2, PendingLeaves
  <2> QED
    BY <2>1, <2>3 DEF Holders
<1>14. (MetricsOf(e).w)' = Taken(e)' % Ring /\ \A q \in Holders(e)' : local'[q].w < Taken(e)'
  BY <1>1, <1>4, <1>7, <1>8, <1>12, <1>13 DEF Slots
<1>15. (MetricsOf(e).ring)' = [MetricsOf(e).ring EXCEPT ![s] = c]
  BY <1>4, <1>7
<1>16. Filled(e)' \subseteq Filled(e) \cup {s} /\ Filled(e) \subseteq Filled(e)' /\ s \notin Filled(e)
  BY <1>1, <1>12, <1>13 DEF Filled
<1>17. ASSUME NEW i \in Filled(e)'
       PROVE  (Records({<<e, MetricsOf(e).ring[i]>>}))' # {}
  <2>1. CASE i = s
    <3>1. Records({Entry(p)}) # {}
      BY <1>1 DEF RecorderInv, AtRecord
    <3>2. Records({<<e, c>>}) # {}
      BY <1>2, <3>1
    <3>3. (MetricsOf(e).ring)'[i] = c
      BY <1>7, <1>15, <2>1
    <3> QED
      BY <1>1, <3>2, <3>3 DEF Records
  <2>2. CASE i # s
    <3>1. i \in Filled(e)
      BY <1>16, <2>2
    <3>2. i \in 0 .. Ring - 1
      BY <3>1 DEF Filled
    <3>3. (MetricsOf(e).ring)'[i] = MetricsOf(e).ring[i]
      BY <1>7, <1>15, <2>2, <3>2
    <3>4. Records({<<e, MetricsOf(e).ring[i]>>}) # {}
      BY <1>8, <3>1 DEF Slots
    <3> QED
      BY <1>1, <3>3, <3>4 DEF Records
  <2> QED
    BY <2>1, <2>2
<1>18. ASSUME Taken(e)' <= Ring
       PROVE  /\ \A q, h \in Holders(e)' : local'[q].w = local'[h].w => q = h
              /\ \A v \in Counts :
                   Cardinality(Records({<<e, v>>})')
                     = Cardinality({i \in Filled(e)' : (MetricsOf(e).ring)'[i] = v})
                         + Cardinality(Pending({<<e, v>>}, ToWrite)')
  <2>1. \A q, h \in Holders(e) : local[q].w = local[h].w => q = h
    BY <1>8, <1>12, <1>18 DEF Slots
  <2>2. \A q, h \in Holders(e)' : local'[q].w = local'[h].w => q = h
    BY <1>1, <1>13, <2>1
  <2>3. \A q \in Holders(e)' : local'[q].w # s
    BY <1>1, <1>13, <2>1
  <2>4. s < Taken(e)
    BY <1>8, <1>13 DEF Slots
  <2>5. Filled(e)' = Filled(e) \cup {s}
    <3>1. s \in Filled(e)'
      BY <1>12, <2>3, <2>4 DEF Filled
    <3> QED
      BY <1>16, <3>1
  <2>6. ASSUME NEW v \in Counts
        PROVE  Cardinality(Records({<<e, v>>})')
                 = Cardinality({i \in Filled(e)' : (MetricsOf(e).ring)'[i] = v})
                     + Cardinality(Pending({<<e, v>>}, ToWrite)')
    <3> DEFINE S == {i \in Filled(e) : MetricsOf(e).ring[i] = v}
               T == {i \in Filled(e)' : (MetricsOf(e).ring)'[i] = v}
    <3>1. Cardinality(Records({<<e, v>>})) = Cardinality(S) + Cardinality(Pending({<<e, v>>}, ToWrite))
      BY <1>8, <1>12, <1>18 DEF Slots
    <3>2. Cardinality(Records({<<e, v>>})') = Cardinality(Records({<<e, v>>}))
      BY <1>5
    <3>3. IsFiniteSet(S) /\ Cardinality(S) \in Nat
      <4>1. S \subseteq Filled(e)
        OBVIOUS
      <4> HIDE DEF S
      <4> QED
        BY <4>1, FilledFinite
    <3>4. \A i \in Filled(e) : i \in 0 .. Ring - 1 /\ (MetricsOf(e).ring)'[i] = MetricsOf(e).ring[i]
      BY <1>7, <1>15, <1>16 DEF Filled
    <3>5. (MetricsOf(e).ring)'[s] = c
      BY <1>7, <1>15
    <3>6. pc[p] \in ToWrite /\ pc'[p] \notin ToWrite
      BY <1>1 DEF ToWrite, ToN, ToSamples, ToTotal
    <3>7. CASE v = c
      <4>1. T = S \cup {s} /\ s \notin S
        BY <1>16, <2>5, <3>4, <3>5, <3>7
      <4>2. Cardinality(T) = Cardinality(S) + 1
        <5> HIDE DEF S, T
        <5> QED
          BY <3>3, <4>1, FS_AddElement
      <4>3. Cardinality(Pending({<<e, v>>}, ToWrite)) = Cardinality(Pending({<<e, v>>}, ToWrite)') + 1
        BY <1>1, <1>2, <3>6, <3>7, PendingLeaves
      <4>4. Cardinality(Pending({<<e, v>>}, ToWrite)') \in Nat
        BY PendingFinitePrime
      <4>5. Cardinality(Records({<<e, v>>})')
              = Cardinality(T) + Cardinality(Pending({<<e, v>>}, ToWrite)')
        <5> HIDE DEF S, T
        <5> QED
          BY <3>1, <3>2, <3>3, <4>2, <4>3, <4>4
      <4> QED
        BY <4>5
    <3>8. CASE v # c
      <4>1. T = S
        BY <1>16, <2>5, <3>4, <3>5, <3>8
      <4>2. Entry(p) \notin {<<e, v>>}
        BY <1>2, <3>8
      <4>3. (Pending({<<e, v>>}, ToWrite))' = Pending({<<e, v>>}, ToWrite)
        BY <1>1, <3>6, <4>2, PendingStays
      <4> QED
        BY <3>1, <3>2, <4>1, <4>3
    <3> QED
      BY <3>7, <3>8
  <2> QED
    BY <2>2, <2>6
<1>19. Slots(e)'
  BY <1>14, <1>17, <1>18 DEF Slots
<1> QED
  BY <1>6, <1>11, <1>19 DEF NothingLost, SlotsAreFilled

LEMMA StepKeepsCounts ==
  ASSUME RecorderInv, NEW p \in Procs, Step(p)
  PROVE  NothingLost' /\ SlotsAreFilled'
  BY NextMessageKeepsCounts, LoadProfileKeepsCounts, StoreProfileKeepsCounts, LoadsKeepCounts,
     CasTotalKeepsCounts, CasSamplesKeepsCounts, CasWKeepsCounts, AddNKeepsCounts,
     WriteSampleKeepsCounts DEF Step

----------------------------------------------------------------------------
(* The invariant *)

\* Before anything was recorded nothing is missing.
LEMMA InitIsExact ==
  ASSUME Init
  PROVE  RecorderInv
<1>1. TypeOK
  <2>1. jobs \in [Procs -> Seq(Messages)]
    BY JobsAssumption DEF Init
  <2>2. local \in [Procs -> [m : Nat, old : Nat, w : 0 .. Ring - 1]]
    BY RingAssumption DEF Init
  <2>3. pc \in [Procs -> ToWrite \cup {"record"}]
    BY DEF Init
  <2>4. metrics \in Seq(MetricsType) /\ history \in Seq(Entries)
    BY DEF Init
  <2>5. DOMAIN profiles = {} /\ profiles \in [DOMAIN profiles -> 1 .. Len(metrics)]
    BY DEF Init
  <2> QED
    BY <2>1, <2>2, <2>3, <2>4, <2>5 DEF TypeOK
<1>2. DOMAIN profiles = {} /\ DOMAIN history = {} /\ \A p \in Procs : pc[p] = "record"
  BY DEF Init
<1>3. MetricsAreOwn /\ AtRecord
  BY <1>2 DEF MetricsAreOwn, AtRecord
<1>4. \A E : Records(E) = {}
  BY <1>2 DEF Records
<1>5. \A L \in AddStages \cup SlotStages : \A E : Pending(E, L) = {}
  BY <1>2, KindsOf DEF Pending
<1>6. Cardinality({}) = 0
  BY FS_EmptySet
<1>7. \A f : MetricsOf(f) = NewMetrics
  BY <1>2 DEF MetricsOf
<1>8. \A L \in {ToTotal, ToSamples, ToN, {"n"}, {"n", "write"}, ToWrite} : \A E : Pending(E, L) = {}
  BY <1>5 DEF AddStages, SlotStages
<1>9. ASSUME NEW f \in Names
      PROVE  Added(f)
  <2>1. MetricsOf(f).total = 0 /\ MetricsOf(f).samples = 0 /\ MetricsOf(f).n = 0
    BY <1>7 DEF NewMetrics
  <2>2. /\ Cardinality(Pending(Of(f), ToTotal)) = 0 /\ Cardinality(Pending(Of(f), ToSamples)) = 0
        /\ Cardinality(Pending(CountedOf(f), ToN)) = 0
    BY <1>6, <1>8
  <2>3. Cardinality(Records(Of(f))) = 0 /\ Cardinality(Records(CountedOf(f))) = 0
    BY <1>4, <1>6
  <2> QED
    BY <2>1, <2>2, <2>3 DEF Added
<1>10. ASSUME NEW f \in Names
       PROVE  Slots(f)
  <2>1. Taken(f) = 0 /\ Holders(f) = {}
    <3>1. MetricsOf(f).n = 0
      BY <1>7 DEF NewMetrics
    <3>2. Pending(Of(f), {"n"}) = {} /\ Pending(Of(f), {"n", "write"}) = {}
      BY <1>8
    <3> QED
      BY <1>6, <3>1, <3>2 DEF Taken, Holders
  <2>2. Filled(f) = {}
    BY <2>1 DEF Filled
  <2>3. 0 % Ring = 0
    BY RingAssumption, ModUnique
  <2>4. \A v \in Counts : {i \in Filled(f) : MetricsOf(f).ring[i] = v} = {}
    BY <2>2
  <2>5. MetricsOf(f).w = 0
    BY <1>7 DEF NewMetrics
  <2>6. \A v \in Counts :
          /\ Cardinality(Records({<<f, v>>})) = 0
          /\ Cardinality(Pending({<<f, v>>}, ToWrite)) = 0
    BY <1>4, <1>6, <1>8
  <2>7. \A v \in Counts : Cardinality({i \in Filled(f) : MetricsOf(f).ring[i] = v}) = 0
    BY <1>6, <2>4
  <2> QED
    BY <2>1, <2>2, <2>3, <2>5, <2>6, <2>7 DEF Slots
<1> QED
  BY <1>1, <1>3, <1>9, <1>10 DEF RecorderInv, NothingLost, SlotsAreFilled

LEMMA StutterKeepsExact ==
  ASSUME RecorderInv, UNCHANGED vars
  PROVE  RecorderInv'
<1> USE DEF vars
<1>1. TypeOK' /\ MetricsAreOwn'
  BY DEF RecorderInv, TypeOK, MetricsAreOwn
<1>2. \A E : Records(E)' = Records(E)
  BY DEF Records
<1>3. \A p \in Procs : Entry(p)' = Entry(p) /\ Message(p)' = Message(p)
  BY DEF Entry, Message
<1>4. \A E, L : Pending(E, L)' = Pending(E, L)
  BY DEF Pending, Entry, Message
<1>5. \A f : MetricsOf(f)' = MetricsOf(f)
  BY DEF MetricsOf
<1>6. AtRecord'
  BY DEF RecorderInv, AtRecord, Records, Entry, Message
<1>7. NothingLost'
  BY <1>2, <1>4, <1>5 DEF RecorderInv, NothingLost, Added
<1>8. \A f : Taken(f)' = Taken(f) /\ Holders(f)' = Holders(f)
  BY <1>4, <1>5 DEF Taken, Holders
<1>9. \A f : Filled(f)' = Filled(f)
  BY <1>8 DEF Filled
<1>10. ASSUME NEW f \in Names
       PROVE  Slots(f)'
  BY <1>2, <1>4, <1>5, <1>8, <1>9, SlotsKept DEF RecorderInv, SlotsAreFilled
<1> QED
  BY <1>1, <1>6, <1>7, <1>10 DEF RecorderInv, SlotsAreFilled

\* On however many goroutines, between any two steps of theirs, every record that was
\* taken up is in the counters of its field or on its way there, and every slot of a
\* ring that was taken has a recorded count or a goroutine about to write one
\* (Recorder.Record, Mean.Record, Median.Record).
THEOREM RecorderInvariance == Spec => []RecorderInv
<1>1. Init => RecorderInv
  BY InitIsExact
<1>2. RecorderInv /\ [Next]_vars => RecorderInv'
  <2>1. ASSUME RecorderInv, NEW p \in Procs, Step(p)
        PROVE  RecorderInv'
    BY <2>1, StepKeepsPlaces, StepKeepsCounts DEF RecorderInv
  <2> QED
    BY <2>1, StutterKeepsExact DEF Next
<1> QED
  BY <1>1, <1>2, PTL DEF Spec

\* When all goroutines have returned, every record was counted once, in both parts of
\* the mean, and the samples that Median.Get sorts are exactly the counts that were
\* recorded until the ring wraps, and recorded counts afterwards.
THEOREM ProfileIsExact == Spec => []SamplesExact
<1>1. RecorderInv => SamplesExact
  <2> SUFFICES ASSUME RecorderInv, Quiet, NEW f \in Names, Records(Of(f)) # {}
               PROVE  LET m == metrics[profiles[f]]
                      IN  /\ f \in DOMAIN profiles
                          /\ m.total = Cardinality(Records(Of(f))) /\ m.samples = m.total
                          /\ m.n = Cardinality(Records(CountedOf(f)))
                          /\ m.n <= Ring =>
                               \A v \in Counts :
                                 Cardinality({i \in 0 .. m.n - 1 : m.ring[i] = v})
                                   = Cardinality(Records({<<f, v>>}))
                          /\ \A i \in 0 .. Ring - 1 : i < m.n => Records({<<f, m.ring[i]>>}) # {}
    BY DEF SamplesExact
  <2> DEFINE m == MetricsOf(f)
  <2>1. m \in MetricsType
    BY MetricsTyped DEF RecorderInv
  <2>2. \A L \in AddStages \cup SlotStages : \A E : Pending(E, L) = {}
    BY KindsOf DEF Pending, Quiet
  <2>3. \A L \in {ToTotal, ToSamples, ToN, {"n"}, {"n", "write"}, ToWrite} : \A E : Pending(E, L) = {}
    BY <2>2 DEF AddStages, SlotStages
  <2>4. Cardinality({}) = 0
    BY FS_EmptySet
  <2>5. m.total \in Nat /\ m.samples \in Nat /\ m.n \in Nat
    BY <2>1 DEF MetricsType
  <2>6. Added(f) /\ Slots(f)
    BY DEF RecorderInv, NothingLost, SlotsAreFilled
  <2>7. /\ m.total = Cardinality(Records(Of(f))) /\ m.samples = m.total
        /\ m.n = Cardinality(Records(CountedOf(f)))
    <3> HIDE DEF m
    <3>1. /\ Cardinality(Records(Of(f))) = m.total + 0 /\ Cardinality(Records(Of(f))) = m.samples + 0
          /\ Cardinality(Records(CountedOf(f))) = m.n + 0
      BY <2>3, <2>4, <2>6 DEF Added, m
    <3> QED
      BY <2>5, <3>1
  <2>8. f \in DOMAIN profiles
    <3>1. Cardinality(Records(Of(f))) # 0
      BY RecordsFinite, FS_EmptySet DEF RecorderInv
    <3> QED
      BY <2>7, <3>1 DEF MetricsOf, NewMetrics
  <2>9. m = metrics[profiles[f]]
    BY <2>8 DEF MetricsOf
  <2>10. Taken(f) = m.n /\ Holders(f) = {}
    <3>1. Taken(f) = m.n + 0
      BY <2>3, <2>4 DEF Taken
    <3> QED
      BY <2>3, <2>5, <3>1 DEF Holders
  <2>11. Filled(f) = {i \in 0 .. Ring - 1 : i < m.n}
    BY <2>10 DEF Filled
  <2> HIDE DEF m
  <2>12. ASSUME m.n <= Ring, NEW v \in Counts
         PROVE  Cardinality({i \in 0 .. m.n - 1 : m.ring[i] = v}) = Cardinality(Records({<<f, v>>}))
    <3>1. Filled(f) = 0 .. m.n - 1
      BY <2>5, <2>11, <2>12, RingAssumption
    <3>2. Cardinality(Records({<<f, v>>})) = Cardinality({i \in Filled(f) : m.ring[i] = v}) + 0
      BY <2>3, <2>4, <2>6, <2>10, <2>12 DEF Slots, m
    <3>3. {i \in Filled(f) : m.ring[i] = v} \subseteq Filled(f)
      OBVIOUS
    <3>4. Cardinality({i \in Filled(f) : m.ring[i] = v}) \in Nat
      BY <3>3, FilledFinite
    <3> QED
      BY <3>1, <3>2, <3>4
  <2>13. ASSUME NEW i \in 0 .. Ring - 1, i < m.n
         PROVE  Records({<<f, m.ring[i]>>}) # {}
    <3>1. i \in Filled(f)
      BY <2>5, <2>11, <2>13, RingAssumption
    <3> QED
      BY <2>6, <3>1 DEF Slots, m
  <2> QED
    BY <2>7, <2>8, <2>9, <2>12, <2>13
<1> QED
  BY <1>1, RecorderInvariance, PTL

----------------------------------------------------------------------------
(* The median *)

\* Samples from V, as many of each value in one as in the other.
SameSamples(V, s, t) ==
  /\ V \subseteq Nat /\ IsFiniteSet(DOMAIN s) /\ IsFiniteSet(DOMAIN t)
  /\ \A i \in DOMAIN s : s[i] \in V
  /\ \A i \in DOMAIN t : t[i] \in V
  /\ \A v \in V : Cardinality({i \in DOMAIN s : s[i] = v}) = Cardinality({i \in DOMAIN t : t[i] = v})

\* How many samples are at most v.
UpTo(s, v) == {i \in DOMAIN s : s[i] <= v}

\* The values are the same.
LEMMA SameValues ==
  ASSUME NEW V, NEW s, NEW t, SameSamples(V, s, t)
  PROVE  {s[i] : i \in DOMAIN s} = {t[i] : i \in DOMAIN t}
<1>1. ASSUME NEW i \in DOMAIN s
      PROVE  \E j \in DOMAIN t : t[j] = s[i]
  <2>v. PICK v : v = s[i]
    OBVIOUS
  <2>A. PICK A : A = {j \in DOMAIN s : s[j] = v}
    OBVIOUS
  <2>B. PICK B : B = {j \in DOMAIN t : t[j] = v}
    OBVIOUS
  <2>1. v \in V /\ i \in A /\ A \subseteq DOMAIN s /\ B \subseteq DOMAIN t
    BY <2>v, <2>A, <2>B DEF SameSamples
  <2>2. IsFiniteSet(A) /\ IsFiniteSet(B) /\ Cardinality(A) = Cardinality(B)
    BY <2>1, <2>A, <2>B, FS_Subset DEF SameSamples
  <2>3. B # {}
    BY <2>1, <2>2, FS_EmptySet
  <2> QED
    BY <2>3, <2>B, <2>v
<1>2. ASSUME NEW i \in DOMAIN t
      PROVE  \E j \in DOMAIN s : s[j] = t[i]
  <2>v. PICK v : v = t[i]
    OBVIOUS
  <2>A. PICK A : A = {j \in DOMAIN s : s[j] = v}
    OBVIOUS
  <2>B. PICK B : B = {j \in DOMAIN t : t[j] = v}
    OBVIOUS
  <2>1. v \in V /\ i \in B /\ A \subseteq DOMAIN s /\ B \subseteq DOMAIN t
    BY <2>v, <2>A, <2>B DEF SameSamples
  <2>2. IsFiniteSet(A) /\ IsFiniteSet(B) /\ Cardinality(A) = Cardinality(B)
    BY <2>1, <2>A, <2>B, FS_Subset DEF SameSamples
  <2>3. A # {}
    BY <2>1, <2>2, FS_EmptySet
  <2> QED
    BY <2>3, <2>A, <2>v
<1> QED
  BY <1>1, <1>2

\* One more value adds the samples that have it.
LEMMA UpToNext ==
  ASSUME NEW V, V \subseteq Nat, NEW s, IsFiniteSet(DOMAIN s), \A i \in DOMAIN s : s[i] \in V,
         NEW k \in Nat
  PROVE  /\ UpTo(s, 0) = {i \in DOMAIN s : s[i] = 0}
         /\ Cardinality(UpTo(s, k + 1))
              = Cardinality(UpTo(s, k)) + Cardinality({i \in DOMAIN s : s[i] = k + 1})
         /\ Cardinality(UpTo(s, k)) \in Nat
<1>A. PICK A : A = UpTo(s, k)
  OBVIOUS
<1>B. PICK B : B = {i \in DOMAIN s : s[i] = k + 1}
  OBVIOUS
<1>1. \A i \in DOMAIN s : s[i] \in Nat
  OBVIOUS
<1>2. UpTo(s, 0) = {i \in DOMAIN s : s[i] = 0}
  BY <1>1 DEF UpTo
<1>3. UpTo(s, k + 1) = A \cup B
  BY <1>1, <1>A, <1>B DEF UpTo
<1>4. A \cap B = {} /\ A \subseteq DOMAIN s /\ B \subseteq DOMAIN s
  BY <1>1, <1>A, <1>B DEF UpTo
<1>5. IsFiniteSet(A) /\ IsFiniteSet(B)
  BY <1>4, FS_Subset
<1>6. Cardinality(A \cup B) = Cardinality(A) + Cardinality(B) - Cardinality(A \cap B)
  BY <1>5, FS_Union
<1>7. Cardinality(A \cap B) = 0 /\ Cardinality(A) \in Nat /\ Cardinality(B) \in Nat
  BY <1>4, <1>5, FS_EmptySet, FS_CardinalityType
<1>8. Cardinality(A \cup B) = Cardinality(A) + Cardinality(B)
  BY <1>6, <1>7
<1> QED
  BY <1>2, <1>3, <1>7, <1>8, <1>A, <1>B

\* So, by induction over the values, every value has equally many at or below it.
LEMMA SameUpTo ==
  ASSUME NEW V, NEW s, NEW t, SameSamples(V, s, t)
  PROVE  \A v \in Nat : Cardinality(UpTo(s, v)) = Cardinality(UpTo(t, v))
<1> DEFINE S == {v \in Nat : Cardinality(UpTo(s, v)) = Cardinality(UpTo(t, v))}
<1>1. /\ V \subseteq Nat /\ IsFiniteSet(DOMAIN s) /\ IsFiniteSet(DOMAIN t)
      /\ \A i \in DOMAIN s : s[i] \in V
      /\ \A i \in DOMAIN t : t[i] \in V
  BY DEF SameSamples
<1>2. ASSUME NEW v \in Nat
      PROVE  Cardinality({i \in DOMAIN s : s[i] = v}) = Cardinality({i \in DOMAIN t : t[i] = v})
  <2>1. CASE v \in V
    BY <2>1 DEF SameSamples
  <2>2. CASE v \notin V
    <3>1. {i \in DOMAIN s : s[i] = v} = {} /\ {i \in DOMAIN t : t[i] = v} = {}
      BY <2>2, <1>1
    <3> QED
      BY <3>1
  <2> QED
    BY <2>1, <2>2
<1>3. 0 \in S
  <2>0. PICK k \in Nat : k = 0
    OBVIOUS
  <2>1. UpTo(s, 0) = {i \in DOMAIN s : s[i] = 0}
    BY <1>1, <2>0, UpToNext
  <2>2. UpTo(t, 0) = {i \in DOMAIN t : t[i] = 0}
    BY <1>1, <2>0, UpToNext
  <2> QED
    BY <2>1, <2>2, <1>2
<1>4. ASSUME NEW k \in Nat, k \in S
      PROVE  k + 1 \in S
  <2>1. Cardinality(UpTo(s, k + 1))
          = Cardinality(UpTo(s, k)) + Cardinality({i \in DOMAIN s : s[i] = k + 1})
    BY <1>1, UpToNext
  <2>2. Cardinality(UpTo(t, k + 1))
          = Cardinality(UpTo(t, k)) + Cardinality({i \in DOMAIN t : t[i] = k + 1})
    BY <1>1, UpToNext
  <2>3. Cardinality({i \in DOMAIN s : s[i] = k + 1}) = Cardinality({i \in DOMAIN t : t[i] = k + 1})
    BY <1>2
  <2> QED
    BY <2>1, <2>2, <2>3, <1>4
<1> HIDE DEF S
<1>5. \A k \in Nat : k \in S
  BY <1>3, <1>4, SetInduction
<1> QED
  BY <1>5 DEF S

\* Equal collections of samples have equal medians.
LEMMA SameMedian ==
  ASSUME NEW V, NEW s, NEW t, SameSamples(V, s, t),
         Cardinality(DOMAIN s) = Cardinality(DOMAIN t)
  PROVE  TwiceMedian(s) = TwiceMedian(t)
<1>1. ASSUME NEW k
      PROVE  Nth(s, k) = Nth(t, k)
  <2>X. PICK X : X = {s[i] : i \in DOMAIN s}
    OBVIOUS
  <2>1. X = {t[i] : i \in DOMAIN t}
    BY <2>X, SameValues
  <2>2. X \subseteq Nat
    BY <2>X DEF SameSamples
  <2>3. \A v \in X : Cardinality(UpTo(s, v)) = Cardinality(UpTo(t, v))
    BY <2>2, SameUpTo
  <2>4. {v \in X : Cardinality(UpTo(s, v)) >= k} = {v \in X : Cardinality(UpTo(t, v)) >= k}
    BY <2>3
  <2>5. Nth(s, k) = Min({v \in X : Cardinality(UpTo(s, v)) >= k})
    BY <2>X DEF Nth, UpTo
  <2>6. Nth(t, k) = Min({v \in X : Cardinality(UpTo(t, v)) >= k})
    BY <2>1 DEF Nth, UpTo
  <2> QED
    BY <2>4, <2>5, <2>6
<1> QED
  BY <1>1 DEF TwiceMedian

\* When all goroutines have returned, ForField says of a field with what probability it
\* occurs, and, until the ring wraps, the median of the counts that were recorded of
\* it, whatever the order of the goroutines' steps (recorder.go ForField, median.go
\* Get).
THEOREM ProfileIsComplete == Spec => []ProfileComplete
<1>1. RecorderInv /\ SamplesExact => ProfileComplete
  <2> SUFFICES ASSUME RecorderInv, SamplesExact, Quiet, NEW f \in Names, Records(Of(f)) # {}
               PROVE  LET n == Cardinality(Records(Of(f)))
                          counted == Records(CountedOf(f))
                      IN  /\ ForField(f).probability = <<n, n>>
                          /\ Cardinality(counted) <= Ring =>
                               ForField(f).count = TwiceMedian([i \in counted |-> history[i][2]])
    BY DEF ProfileComplete
  <2>m. PICK m : m = metrics[profiles[f]]
    OBVIOUS
  <2>A. PICK A : A = Records(CountedOf(f))
    OBVIOUS
  <2>1. /\ f \in DOMAIN profiles
        /\ m.total = Cardinality(Records(Of(f))) /\ m.samples = m.total
        /\ m.n = Cardinality(A)
        /\ m.n <= Ring =>
             \A v \in Counts :
               Cardinality({i \in 0 .. m.n - 1 : m.ring[i] = v}) = Cardinality(Records({<<f, v>>}))
    BY <2>m, <2>A DEF SamplesExact
  <2>r. \A i \in 0 .. Ring - 1 : i < m.n => Records({<<f, m.ring[i]>>}) # {}
    BY <2>m DEF SamplesExact
  <2>2. m \in MetricsType /\ m.n \in Nat
    <3>1. MetricsOf(f) \in MetricsType /\ MetricsOf(f) = m
      BY <2>1, <2>m, MetricsTyped DEF RecorderInv, MetricsOf
    <3> QED
      BY <3>1 DEF MetricsType
  <2>3. ForField(f).probability = <<m.total, m.samples>>
        /\ ForField(f).count = TwiceMedian([i \in 0 .. Min({m.n, Ring}) - 1 |-> m.ring[i]])
    BY <2>1, <2>m DEF ForField
  <2>4. ASSUME m.n <= Ring
        PROVE  ForField(f).count = TwiceMedian([i \in A |-> history[i][2]])
    <3>s. PICK s : s = [i \in 0 .. m.n - 1 |-> m.ring[i]]
      OBVIOUS
    <3>t. PICK t : t = [i \in A |-> history[i][2]]
      OBVIOUS
    <3>1. ForField(f).count = TwiceMedian(s)
      <4>1. Min({m.n, Ring}) = m.n
        BY <2>2, <2>4, RingAssumption DEF Min
      <4> QED
        BY <4>1, <2>3, <3>s
    <3>2. IsFiniteSet(DOMAIN s) /\ Cardinality(DOMAIN s) = m.n /\ DOMAIN s = 0 .. m.n - 1
      BY <3>s, <2>2, FS_Interval
    <3>3. IsFiniteSet(DOMAIN t) /\ Cardinality(DOMAIN t) = m.n /\ DOMAIN t = A
      BY <3>t, <2>A, <2>1, RecordsFinite DEF RecorderInv
    <3>4. \A i \in A : i \in DOMAIN history /\ history[i] \in CountedOf(f)
      BY <2>A DEF Records
    <3>5. \A i \in DOMAIN t : t[i] \in Counts /\ history[i] = <<f, t[i]>>
      BY <3>3, <3>4, <3>t DEF CountedOf
    <3>6. \A v \in Counts : {i \in DOMAIN t : t[i] = v} = Records({<<f, v>>})
      <4>1. ASSUME NEW v \in Counts, NEW i \in Records({<<f, v>>})
            PROVE  i \in DOMAIN t /\ t[i] = v
        <5>1. i \in DOMAIN history /\ history[i] = <<f, v>>
          BY <4>1 DEF Records
        <5>2. i \in A
          BY <5>1, <2>A DEF Records, CountedOf
        <5> QED
          BY <5>1, <5>2, <3>3, <3>t
      <4>2. ASSUME NEW v \in Counts, NEW i \in DOMAIN t, t[i] = v
            PROVE  i \in Records({<<f, v>>})
        BY <4>2, <3>3, <3>4, <3>5 DEF Records
      <4> QED
        BY <4>1, <4>2
    <3>7. \A v \in Counts :
            Cardinality({i \in DOMAIN s : s[i] = v}) = Cardinality({i \in DOMAIN t : t[i] = v})
      <4>1. ASSUME NEW v \in Counts
            PROVE  {i \in DOMAIN s : s[i] = v} = {i \in 0 .. m.n - 1 : m.ring[i] = v}
        BY <3>s
      <4> QED
        BY <4>1, <3>6, <2>1, <2>4
    <3>8. \A i \in DOMAIN s : s[i] \in Counts
      <4> SUFFICES ASSUME NEW i \in DOMAIN s
                   PROVE  s[i] \in Counts
        OBVIOUS
      <4>1. i \in 0 .. Ring - 1 /\ i < m.n /\ s[i] = m.ring[i]
        BY <3>2, <3>s, <2>2, <2>4, RingAssumption
      <4>2. s[i] \in Nat
        BY <4>1, <2>2 DEF MetricsType
      <4>3. PICK j \in DOMAIN history : history[j] = <<f, s[i]>>
        BY <4>1, <2>r DEF Records
      <4>4. <<f, s[i]>> \in Entries
        <5>1. history \in Seq(Entries) /\ DOMAIN history = 1 .. Len(history)
          BY DEF RecorderInv, TypeOK
        <5>2. history[j] \in Entries
          BY <5>1
        <5> QED
          BY <5>2, <4>3
      <4> QED
        BY <4>2, <4>4, JobsAssumption DEF Entries
    <3>9. SameSamples(Counts, s, t)
      BY <3>2, <3>3, <3>5, <3>7, <3>8, JobsAssumption DEF SameSamples
    <3>10. TwiceMedian(s) = TwiceMedian(t)
      BY <3>2, <3>3, <3>9, SameMedian
    <3> QED
      BY <3>1, <3>10, <3>t
  <2>5. ForField(f).probability = <<Cardinality(Records(Of(f))), Cardinality(Records(Of(f)))>>
    BY <2>1, <2>3
  <2>6. Cardinality(A) <= Ring => ForField(f).count = TwiceMedian([i \in A |-> history[i][2]])
    BY <2>1, <2>4
  <2> QED
    BY <2>5, <2>6, <2>A
<1> QED
  BY <1>1, RecorderInvariance, ProfileIsExact, PTL
=============================================================================
