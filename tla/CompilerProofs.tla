--------------------------- MODULE CompilerProofs ---------------------------
(***************************************************************************)
(* Proofs about modules Scc and Compiler: first those about Tarjan's       *)
(* algorithm, for every graph, the infinite ones included, then those      *)
(* about compile, for every schema.                                        *)
(***************************************************************************)
EXTENDS Compiler, Probing, SequenceTheorems


----------------------------------------------------------------------------
(* Reachability *)

\* Dependencies are nodes; graph may be any function from nodes to sequences of nodes.
GraphOK(g) == g.deps \in [DOMAIN g.deps -> Seq(DOMAIN g.deps)]

\* Every node reaches itself ...
LEMMA ReachSelf ==
  ASSUME NEW g, NEW n \in DOMAIN g.deps
  PROVE  n \in Reach(g, n)
BY DEF Reach

\* ... only nodes ...
LEMMA ReachIsNode ==
  ASSUME NEW g, NEW n, NEW m \in Reach(g, n)
  PROVE  m \in DOMAIN g.deps
BY DEF Reach

\* ... the dependencies of what it reaches ...
LEMMA ReachDep ==
  ASSUME NEW g, GraphOK(g), NEW n, NEW m \in Reach(g, n), NEW d \in Deps(g, m)
  PROVE  d \in Reach(g, n)
<1>1. m \in DOMAIN g.deps
  BY DEF Reach
<1>2. d \in DOMAIN g.deps
  BY <1>1 DEF Deps, ToSet, GraphOK
<1> QED
  BY <1>2 DEF Reach, Closed

\* ... and what those reach ...
LEMMA ReachTrans ==
  ASSUME NEW g, NEW l, NEW m \in Reach(g, l), NEW n \in Reach(g, m)
  PROVE  n \in Reach(g, l)
BY DEF Reach

\* ... but nothing outside a closed set that it is in.
LEMMA ReachLeast ==
  ASSUME NEW g, NEW S \in SUBSET DOMAIN g.deps, Closed(g, S), NEW n \in S
  PROVE  Reach(g, n) \subseteq S
BY DEF Reach

----------------------------------------------------------------------------
(* rec is called *)

\* What a call of rec for a node without metadata makes of the state.
LEMMA EnterFacts ==
  ASSUME SccTypes, NEW n \in Nodes, n \notin DOMAIN meta, Enter(n)
  PROVE  /\ index' = index + 1
         /\ stack' \in Seq(Nodes) /\ Len(stack') = Len(stack) + 1
         /\ \A p \in 1 .. Len(stack) : stack'[p] = stack[p]
         /\ stack'[Len(stack) + 1] = n
         /\ ToSet(stack') = ToSet(stack) \cup {n}
         /\ calls' \in Seq([node : Nodes, offset : Nat, next : Nat]) /\ Len(calls') = Len(calls) + 1
         /\ \A i \in 1 .. Len(calls) : calls'[i] = calls[i]
         /\ calls'[Len(calls) + 1] = [node |-> n, offset |-> Len(stack), next |-> 1]
         /\ DOMAIN meta' = DOMAIN meta \cup {n}
         /\ \A m \in DOMAIN meta : meta'[m] = meta[m]
         /\ meta'[n] = [index |-> index, low |-> index, onStack |-> TRUE]
<1>1. stack \in Seq(Nodes) /\ calls \in Seq([node : Nodes, offset : Nat, next : Nat])
  BY DEF SccTypes
<1>2. [node |-> n, offset |-> Len(stack), next |-> 1] \in [node : Nodes, offset : Nat, next : Nat]
  BY <1>1
<1>3. /\ stack' \in Seq(Nodes) /\ Len(stack') = Len(stack) + 1
      /\ \A p \in 1 .. Len(stack) : stack'[p] = stack[p]
      /\ stack'[Len(stack) + 1] = n
  BY <1>1, AppendProperties DEF Enter
<1>4. ToSet(stack') = ToSet(stack) \cup {n}
  <2>1. DOMAIN stack = 1 .. Len(stack) /\ DOMAIN stack' = 1 .. Len(stack) + 1 /\ Len(stack) \in Nat
    BY <1>1, <1>3
  <2>2. \A p \in DOMAIN stack' : p \in DOMAIN stack \/ p = Len(stack) + 1
    BY <2>1
  <2>3. \A p \in DOMAIN stack : p \in DOMAIN stack' /\ stack'[p] = stack[p]
    BY <2>1, <1>3
  <2> QED
    BY <2>1, <2>2, <2>3, <1>3 DEF ToSet
<1>5. /\ calls' \in Seq([node : Nodes, offset : Nat, next : Nat]) /\ Len(calls') = Len(calls) + 1
      /\ \A i \in 1 .. Len(calls) : calls'[i] = calls[i]
      /\ calls'[Len(calls) + 1] = [node |-> n, offset |-> Len(stack), next |-> 1]
  BY <1>1, <1>2, AppendProperties DEF Enter
<1>6. /\ DOMAIN meta' = DOMAIN meta \cup {n}
      /\ \A m \in DOMAIN meta : meta'[m] = meta[m]
      /\ meta'[n] = [index |-> index, low |-> index, onStack |-> TRUE]
  BY DEF Enter
<1> QED
  BY <1>3, <1>4, <1>5, <1>6 DEF Enter

\* The types and the order of the stack, whoever calls rec.
LEMMA EnterOrder ==
  ASSUME SccInv, NEW n \in Nodes, n \notin DOMAIN meta, Enter(n),
         graph.root \in DOMAIN meta \cup {n}, UNCHANGED <<graph, keys, components>>
  PROVE  IsGraph' /\ SccTypes' /\ StackByIndex'
<1>1. IsGraph /\ SccTypes /\ StackByIndex
  BY DEF SccInv
<1>2. Nodes' = Nodes
  BY DEF Nodes
<1>3. index \in Nat /\ DOMAIN meta \subseteq Nodes
      /\ meta \in [DOMAIN meta -> [index : Nat, low : Nat, onStack : BOOLEAN]]
      /\ stack \in Seq(Nodes) /\ DOMAIN stack = 1 .. Len(stack) /\ Len(stack) \in Nat
  BY <1>1 DEF SccTypes
<1>4. \A m \in DOMAIN meta : meta[m] \in [index : Nat, low : Nat, onStack : BOOLEAN]
  BY <1>3
<1>5. IsGraph'
  BY <1>1, <1>2 DEF IsGraph
<1>6. meta' \in [DOMAIN meta' -> [index : Nat, low : Nat, onStack : BOOLEAN]]
  <2>1. \A m \in DOMAIN meta \cup {n} :
          (IF m \in DOMAIN meta THEN meta[m] ELSE [index |-> index, low |-> index, onStack |-> TRUE])
            \in [index : Nat, low : Nat, onStack : BOOLEAN]
    BY <1>3, <1>4
  <2> QED
    BY <2>1 DEF Enter
<1>e. /\ index' = index + 1
      /\ stack' \in Seq(Nodes) /\ Len(stack') = Len(stack) + 1
      /\ ToSet(stack') = ToSet(stack) \cup {n}
      /\ calls' \in Seq([node : Nodes, offset : Nat, next : Nat])
      /\ DOMAIN meta' = DOMAIN meta \cup {n}
  BY <1>1, EnterFacts
<1>f. /\ \A p \in 1 .. Len(stack) : stack'[p] = stack[p]
      /\ stack'[Len(stack) + 1] = n
      /\ \A m \in DOMAIN meta : meta'[m] = meta[m]
      /\ meta'[n] = [index |-> index, low |-> index, onStack |-> TRUE]
  BY <1>1, EnterFacts
<1>7. SccTypes'
  <2>1. keys \in [DOMAIN keys -> Nat] /\ components \in Seq([members : Seq(Nodes), deps : SUBSET Nat])
    BY <1>1 DEF SccTypes
  <2>2. index' \in Nat /\ DOMAIN meta' \subseteq Nodes
    BY <1>3, <1>e
  <2> QED
    BY <1>2, <1>e, <1>6, <2>1, <2>2 DEF SccTypes
<1>8. StackByIndex'
  <2>1. DOMAIN meta' = ToSet(stack') \cup DOMAIN keys' /\ ToSet(stack') \cap DOMAIN keys' = {}
    <3>1. DOMAIN meta = ToSet(stack) \cup DOMAIN keys /\ ToSet(stack) \cap DOMAIN keys = {}
      BY <1>1 DEF StackByIndex
    <3> QED
      BY <3>1, <1>e
  <2>2. ASSUME NEW m \in DOMAIN meta'
        PROVE  meta'[m].index < index' /\ (meta'[m].onStack <=> m \in ToSet(stack'))
    <3>1. CASE m = n
      <4>1. meta'[m].index = index /\ meta'[m].onStack
        BY <3>1, <1>f
      <4> QED
        BY <3>1, <4>1, <1>e, <1>3
    <3>2. CASE m # n
      <4>1. m \in DOMAIN meta /\ meta'[m] = meta[m]
        BY <3>2, <1>e, <1>f
      <4>2. meta[m].index < index /\ (meta[m].onStack <=> m \in ToSet(stack)) /\ meta[m].index \in Nat
        BY <4>1, <1>1, <1>4 DEF StackByIndex
      <4> QED
        BY <4>1, <4>2, <3>2, <1>3, <1>e
    <3> QED
      BY <3>1, <3>2
  <2>3. ASSUME NEW p \in DOMAIN stack', NEW q \in DOMAIN stack', p < q
        PROVE  meta'[stack'[p]].index < meta'[stack'[q]].index
    <3>1. DOMAIN stack' = 1 .. Len(stack) + 1
      BY <1>e, <1>3
    <3>2. \A r \in DOMAIN stack : stack[r] \in DOMAIN meta /\ meta'[stack'[r]] = meta[stack[r]]
      BY <1>1, <1>3, <1>f DEF StackByIndex, ToSet
    <3>3. p \in DOMAIN stack
      BY <3>1, <2>3, <1>3
    <3>4. CASE q = Len(stack) + 1
      <4>1. meta'[stack'[q]].index = index
        BY <3>4, <1>f
      <4> QED
        BY <4>1, <3>2, <3>3, <1>1 DEF StackByIndex
    <3>5. CASE q # Len(stack) + 1
      <4>1. q \in DOMAIN stack
        BY <3>1, <3>5, <1>3
      <4> QED
        BY <4>1, <3>2, <3>3, <2>3, <1>1 DEF StackByIndex
    <3> QED
      BY <3>4, <3>5
  <2>4. graph'.root \in DOMAIN meta'
    BY <1>e
  <2> QED
    BY <2>1, <2>2, <2>3, <2>4 DEF StackByIndex
<1> QED
  BY <1>5, <1>7, <1>8

\* The calls and their segments, when a node of which the topmost call has the turn,
\* or the root, is entered.
LEMMA EnterCalls ==
  ASSUME SccInv, NEW n \in Nodes, n \notin DOMAIN meta, Enter(n),
         (calls = <<>> /\ n = graph.root) \/ (Looping /\ n = Dep),
         UNCHANGED <<graph, keys, components>>
  PROVE  /\ CallsOnStack' /\ StackConnected' /\ LowReached' /\ LowCovers'
         /\ ComponentsClosed'
<1>1. IsGraph /\ SccTypes /\ StackByIndex /\ CallsOnStack /\ StackConnected /\ LowReached /\ LowCovers
      /\ ComponentsClosed
  BY DEF SccInv
<1>l. \E k, l \in Nat : k = Len(calls) /\ l = Len(stack)
  <2>1. Len(calls) \in Nat /\ Len(stack) \in Nat
    BY <1>1 DEF SccTypes
  <2> QED
    BY <2>1
<1>k. PICK k, l \in Nat : k = Len(calls) /\ l = Len(stack)
  BY <1>l
<1>2. /\ index \in Nat /\ DOMAIN meta \subseteq Nodes
      /\ meta \in [DOMAIN meta -> [index : Nat, low : Nat, onStack : BOOLEAN]]
      /\ stack \in Seq(Nodes) /\ DOMAIN stack = 1 .. l /\ l \in Nat
      /\ calls \in Seq([node : Nodes, offset : Nat, next : Nat]) /\ DOMAIN calls = 1 .. k /\ k \in Nat
  BY <1>1, <1>k DEF SccTypes
<1>3. \A i \in 1 .. k : calls[i].node \in Nodes /\ calls[i].offset \in Nat /\ calls[i].next \in Nat
  <2>1. \A i \in 1 .. k : calls[i] \in [node : Nodes, offset : Nat, next : Nat]
    BY <1>2, <1>k, ElementOfSeq
  <2> QED
    BY <2>1
<1>c. /\ k > 0 => calls[1].offset = 0
      /\ \A i \in 1 .. k : calls[i].offset < l /\ stack[calls[i].offset + 1] = calls[i].node
      /\ \A i \in 1 .. k : calls[i].next \in 1 .. Len(graph.deps[calls[i].node]) + 1
  <2>1. k > 0 => calls # <<>>
    BY <1>k, <1>2, EmptySeq
  <2> QED
    BY <2>1, <1>1, <1>2, <1>k DEF CallsOnStack
<1>o. \A i, j \in 1 .. k : i < j => calls[i].offset < calls[j].offset
  BY <1>1, <1>2 DEF CallsOnStack
<1>4. \A p \in 1 .. l : stack[p] \in Nodes /\ stack[p] \in DOMAIN meta /\ stack[p] # n
  BY <1>1, <1>2 DEF StackByIndex, ToSet
<1>e. /\ index' = index + 1
      /\ stack' \in Seq(Nodes) /\ Len(stack') = l + 1 /\ DOMAIN stack' = 1 .. l + 1
      /\ calls' \in Seq([node : Nodes, offset : Nat, next : Nat])
      /\ Len(calls') = k + 1 /\ DOMAIN calls' = 1 .. k + 1
      /\ DOMAIN meta' = DOMAIN meta \cup {n}
  <2>1. /\ index' = index + 1
        /\ stack' \in Seq(Nodes) /\ Len(stack') = Len(stack) + 1
        /\ calls' \in Seq([node : Nodes, offset : Nat, next : Nat]) /\ Len(calls') = Len(calls) + 1
        /\ DOMAIN meta' = DOMAIN meta \cup {n}
    BY <1>1, EnterFacts
  <2> QED
    BY <2>1, <1>k
<1>f. /\ \A p \in 1 .. l : stack'[p] = stack[p]
      /\ stack'[l + 1] = n
      /\ \A m \in DOMAIN meta : meta'[m] = meta[m]
      /\ meta'[n] = [index |-> index, low |-> index, onStack |-> TRUE]
  BY <1>1, <1>k, EnterFacts
<1>g. /\ \A i \in 1 .. k : calls'[i] = calls[i]
      /\ calls'[k + 1] = [node |-> n, offset |-> l, next |-> 1]
  BY <1>1, <1>k, EnterFacts
\* What is below a new call.
<1>5. /\ k = 0 => l = 0 /\ n = graph.root
      /\ k > 0 => /\ calls[k].next \in 1 .. Len(graph.deps[calls[k].node])
                  /\ n = graph.deps[calls[k].node][calls[k].next]
                  /\ n \in Deps(graph, calls[k].node)
  <2>1. CASE calls = <<>>
    <3>1. ~ Looping /\ stack = <<>>
      BY <2>1, <1>1 DEF Looping, CallsOnStack
    <3> QED
      BY <1>k, <3>1, <2>1
  <2>2. CASE calls # <<>>
    <3>1. Looping /\ n = Dep /\ k > 0
      BY <2>2, <1>2, <1>k
    <3>2. calls[k].next \in 1 .. Len(graph.deps[calls[k].node])
          /\ n = graph.deps[calls[k].node][calls[k].next]
      <4>1. k \in 1 .. k /\ calls[k].next \in Nat /\ calls[k].next \in 1 .. Len(graph.deps[calls[k].node]) + 1
        BY <3>1, <1>c, <1>k, <1>3
      <4>2. calls[k].next <= Len(graph.deps[calls[k].node])
            /\ n = graph.deps[calls[k].node][calls[k].next]
        BY <3>1, <1>k DEF Looping, Dep, Call
      <4>3. calls[k].node \in Nodes
        BY <4>1, <1>3
      <4>4. Len(graph.deps[calls[k].node]) \in Nat
        BY <4>3, <1>1 DEF IsGraph
      <4>5. PICK x, y : x = calls[k].next /\ y = Len(graph.deps[calls[k].node])
        OBVIOUS
      <4>6. x \in Nat /\ x \in 1 .. y + 1 /\ x <= y /\ y \in Nat
        BY <4>1, <4>2, <4>4, <4>5
      <4>7. x \in 1 .. y
        BY <4>6
      <4> QED
        BY <4>2, <4>5, <4>7
    <3>3. graph.deps[calls[k].node] \in Seq(Nodes)
      BY <3>1, <1>1, <1>2, <1>3 DEF IsGraph
    <3>4. PICK q, i : q \in Seq(Nodes) /\ q = graph.deps[calls[k].node] /\ i = calls[k].next
      BY <3>3, Zenon
    <3>5. i \in 1 .. Len(q) /\ n = q[i]
      BY <3>2, <3>4, Zenon
    <3>6. n \in ToSet(q)
      BY <3>5 DEF ToSet
    <3>7. n \in Deps(graph, calls[k].node)
      BY <3>4, <3>6, Zenon DEF Deps
    <3>8. k # 0
      BY <3>1
    <3> QED
      BY <3>2, <3>7, <3>8, Zenon
  <2> QED
    BY <2>1, <2>2
<1>6. /\ \A i \in 1 .. k : SegmentEnd(i)' = SegmentEnd(i) /\ SegmentEnd(i) <= l /\ SegmentEnd(i) \in Nat
      /\ SegmentEnd(k + 1)' = l + 1
  <2>1. ASSUME NEW i \in 1 .. k
        PROVE  SegmentEnd(i)' = SegmentEnd(i) /\ SegmentEnd(i) <= l /\ SegmentEnd(i) \in Nat
    <3>1. CASE i = k
      BY <1>k, <3>1, <1>g, <1>e, <1>2 DEF SegmentEnd
    <3>2. CASE i # k
      <4>1. i + 1 \in 1 .. k
        BY <3>2, <1>2
      <4>2. calls'[i + 1] = calls[i + 1] /\ calls[i + 1].offset < l /\ calls[i + 1].offset \in Nat
        BY <4>1, <1>g, <1>c, <1>3
      <4>3. SegmentEnd(i) = calls[i + 1].offset
        BY <1>k, <3>2 DEF SegmentEnd
      <4>4. SegmentEnd(i)' = calls'[i + 1].offset
        <5>1. i # k + 1
          BY <1>k
        <5> QED
          BY <5>1, <1>e DEF SegmentEnd
      <4> QED
        BY <1>k, <4>2, <4>3, <4>4
    <3> QED
      BY <3>1, <3>2
  <2>2. SegmentEnd(k + 1)' = l + 1
    BY <1>e DEF SegmentEnd
  <2> QED
    BY <2>1, <2>2
<1>7. CallsOnStack'
  <2>a. calls' # <<>>
    <3>1. Len(calls') # 0
      BY <1>e, <1>k
    <3> QED
      BY <3>1, <1>e, EmptySeq
  <2>b. calls'[1].offset = 0
    <3>1. CASE k = 0
      BY <3>1, <1>5, <1>g
    <3>2. CASE k # 0
      <4>1. 1 \in 1 .. k /\ k > 0
        BY <3>2, <1>k
      <4>2. calls'[1] = calls[1]
        BY <4>1, <1>g
      <4> QED
        BY <4>1, <4>2, <1>c
    <3> QED
      BY <3>1, <3>2
  <2>1. calls' # <<>> /\ calls'[1].offset = 0
    BY <2>a, <2>b
  <2>2. ASSUME NEW i \in 1 .. k + 1, NEW j \in 1 .. k + 1, i < j
        PROVE  calls'[i].offset < calls'[j].offset
    <3>1. i \in 1 .. k /\ calls'[i] = calls[i] /\ calls[i].offset < l
      BY <1>k, <2>2, <1>2, <1>g, <1>1 DEF CallsOnStack
    <3>2. CASE j = k + 1
      BY <3>1, <3>2, <1>g
    <3>3. CASE j # k + 1
      <4>1. j \in 1 .. k /\ calls'[j] = calls[j]
        BY <3>3, <1>g
      <4> QED
        BY <3>1, <4>1, <2>2, <1>2, <1>1 DEF CallsOnStack
    <3> QED
      BY <3>2, <3>3
  <2>3. ASSUME NEW i \in 1 .. k
        PROVE  /\ calls'[i].offset < Len(stack')
               /\ stack'[calls'[i].offset + 1] = calls'[i].node
               /\ calls'[i].next \in 1 .. Len(graph'.deps[calls'[i].node]) + 1
               /\ i < Len(calls') => /\ calls'[i].next <= Len(graph'.deps[calls'[i].node])
                                     /\ graph'.deps[calls'[i].node][calls'[i].next] = calls'[i + 1].node
    <3>1. /\ calls[i].offset < l /\ stack[calls[i].offset + 1] = calls[i].node
          /\ calls[i].next \in 1 .. Len(graph.deps[calls[i].node]) + 1
      BY <1>c
    <3>a. i < k => /\ calls[i].next <= Len(graph.deps[calls[i].node])
                   /\ graph.deps[calls[i].node][calls[i].next] = calls[i + 1].node
      BY <1>k, <1>1, <1>2 DEF CallsOnStack
    <3>2. calls'[i] = calls[i] /\ calls[i].offset + 1 \in 1 .. l
      <4>1. calls'[i] = calls[i] /\ calls[i].offset \in Nat
        BY <1>g, <1>3
      <4> QED
        BY <4>1, <3>1, <1>2
    <3>3. i = k => n = graph.deps[calls[i].node][calls[i].next]
                   /\ calls[i].next <= Len(graph.deps[calls[i].node])
      BY <1>5, <1>2
    <3>4. i # k => i < k /\ i + 1 \in 1 .. k
      BY <1>2
    <3>5. calls'[i + 1].node = IF i = k THEN n ELSE calls[i + 1].node
      BY <3>4, <1>g
    <3>6. stack'[calls[i].offset + 1] = stack[calls[i].offset + 1]
      BY <3>2, <1>f
    <3>7. i < k \/ i = k
      BY <3>4
    <3>8. calls[i].next <= Len(graph.deps[calls[i].node])
          /\ graph.deps[calls[i].node][calls[i].next] = calls'[i + 1].node
      BY <3>a, <3>3, <3>5, <3>7
    <3>9. calls[i].offset < Len(stack') /\ stack'[calls[i].offset + 1] = calls[i].node
      BY <3>1, <3>6, <1>e, <1>3, <1>k
    <3> QED
      BY <3>1, <3>2, <3>8, <3>9
  <2>4. /\ calls'[k + 1].offset < Len(stack')
        /\ stack'[calls'[k + 1].offset + 1] = calls'[k + 1].node
        /\ calls'[k + 1].next \in 1 .. Len(graph'.deps[calls'[k + 1].node]) + 1
    <3>1. Len(graph.deps[n]) \in Nat
      BY <1>1 DEF IsGraph
    <3>2. calls'[k + 1].node = n /\ calls'[k + 1].offset = l /\ calls'[k + 1].next = 1
      BY <1>g
    <3>3. stack'[l + 1] = n /\ l < Len(stack')
      BY <1>e, <1>f, <1>k
    <3> QED
      BY <3>1, <3>2, <3>3
  <2>5. ASSUME NEW i \in 1 .. k + 1
        PROVE  /\ calls'[i].offset < Len(stack')
               /\ stack'[calls'[i].offset + 1] = calls'[i].node
               /\ calls'[i].next \in 1 .. Len(graph'.deps[calls'[i].node]) + 1
               /\ i < Len(calls') => /\ calls'[i].next <= Len(graph'.deps[calls'[i].node])
                                     /\ graph'.deps[calls'[i].node][calls'[i].next] = calls'[i + 1].node
    <3>1. CASE i = k + 1
      BY <3>1, <2>4, <1>e, <1>2
    <3>2. CASE i # k + 1
      <4>1. i \in 1 .. k
        BY <3>2, <1>2
      <4> QED
        BY <4>1, <2>3
    <3> QED
      BY <3>1, <3>2
  <2> QED
    BY <2>1, <2>2, <2>5, <1>e DEF CallsOnStack
<1>8. StackConnected'
  <2>1. ASSUME NEW i \in 1 .. k + 1, NEW p \in 1 .. l + 1
        PROVE  /\ p > calls'[i].offset => stack'[p] \in Reach(graph, calls'[i].node)
               /\ p <= SegmentEnd(i)' => calls'[i].node \in Reach(graph, stack'[p])
    <3>1. \A j \in 1 .. k, q \in 1 .. l :
            /\ q > calls[j].offset => stack[q] \in Reach(graph, calls[j].node)
            /\ q <= SegmentEnd(j) => calls[j].node \in Reach(graph, stack[q])
      BY <1>1, <1>2 DEF StackConnected
    <3>2. ASSUME NEW j \in 1 .. k
          PROVE  n \in Reach(graph, calls[j].node)
      <4>1. calls[j].offset <= calls[k].offset /\ calls[k].offset + 1 \in 1 .. l
            /\ stack[calls[k].offset + 1] = calls[k].node
        <5>1. k \in 1 .. k /\ (j < k \/ j = k)
          BY <1>2
        <5>2. calls[k].offset \in Nat /\ calls[j].offset \in Nat /\ calls[k].offset < l
              /\ stack[calls[k].offset + 1] = calls[k].node
          BY <5>1, <1>3, <1>c
        <5>3. j < k => calls[j].offset < calls[k].offset
          BY <5>1, <1>o
        <5>4. calls[j].offset <= calls[k].offset
          BY <5>1, <5>2, <5>3
        <5>5. calls[k].offset + 1 \in 1 .. l
          BY <5>2, <1>k
        <5> QED
          BY <5>2, <5>4, <5>5
      <4>2. calls[k].node \in Reach(graph, calls[j].node)
        <5>1. calls[k].offset + 1 > calls[j].offset
          <6>1. calls[j].offset \in Nat /\ calls[k].offset \in Nat
            BY <1>3, <4>1, <1>k
          <6> QED
            BY <6>1, <4>1
        <5> QED
          BY <5>1, <4>1, <3>1
      <4>3. GraphOK(graph) /\ n \in Deps(graph, calls[k].node)
        <5>1. k > 0
          BY <1>2
        <5>2. GraphOK(graph)
          BY <1>1 DEF IsGraph, GraphOK, Nodes
        <5> QED
          BY <5>1, <5>2, <1>5
      <4> QED
        BY <4>2, <4>3, ReachDep
    <3>3. n \in Reach(graph, n)
      BY ReachSelf DEF Nodes
    <3>4. CASE i \in 1 .. k
      <4>1. calls'[i] = calls[i] /\ SegmentEnd(i)' = SegmentEnd(i) /\ SegmentEnd(i) <= l
            /\ SegmentEnd(i) \in Nat
        BY <3>4, <1>6, <1>g
      <4>2. CASE p = l + 1
        <5>1. stack'[p] = n /\ ~ (p <= SegmentEnd(i)')
          BY <4>1, <4>2, <1>f, <1>2
        <5> QED
          BY <5>1, <4>1, <3>2, <3>4
      <4>3. CASE p # l + 1
        <5>1. p \in 1 .. l /\ stack'[p] = stack[p]
          BY <4>3, <1>2, <1>f
        <5> QED
          BY <5>1, <4>1, <3>1, <3>4
      <4> QED
        BY <4>2, <4>3
    <3>5. CASE i = k + 1
      <4>1. calls'[i].node = n /\ calls'[i].offset = l
        BY <3>5, <1>g
      <4>2. CASE p = l + 1
        BY <4>1, <4>2, <3>3, <1>f
      <4>3. CASE p # l + 1
        <5>0. p \in 1 .. l /\ l # 0
          BY <4>3, <1>2
        <5>1. p \in 1 .. l /\ stack'[p] = stack[p] /\ k \in 1 .. k
          BY <5>0, <1>k, <1>f, <1>5
        <5>2. SegmentEnd(k) = l
          BY <1>k DEF SegmentEnd
        <5>3. calls[k].node \in Reach(graph, stack[p]) /\ n \in Reach(graph, calls[k].node)
          BY <5>1, <5>2, <3>1, <3>2
        <5> QED
          BY <5>1, <5>3, <4>1, <1>2, ReachTrans
      <4> QED
        BY <4>2, <4>3
    <3> QED
      BY <3>4, <3>5, <1>2
  <2> QED
    BY <2>1, <1>e DEF StackConnected
<1>9. LowReached'
  <2>1. ASSUME NEW i \in 1 .. k + 1
        PROVE  /\ meta'[calls'[i].node].low <= meta'[calls'[i].node].index
               /\ \E p \in DOMAIN stack' : /\ meta'[stack'[p]].index = meta'[calls'[i].node].low
                                           /\ stack'[p] \in Reach(graph', calls'[i].node)
    <3>1. CASE i \in 1 .. k
      <4>1. calls'[i] = calls[i] /\ meta[calls[i].node].low <= meta[calls[i].node].index
        BY <3>1, <1>g, <1>1, <1>2 DEF LowReached
      <4>2. PICK p \in 1 .. l : meta[stack[p]].index = meta[calls[i].node].low
                                /\ stack[p] \in Reach(graph, calls[i].node)
        BY <3>1, <1>1, <1>2 DEF LowReached
      <4>3. calls[i].node \in DOMAIN meta /\ meta'[calls[i].node] = meta[calls[i].node]
        <5>1. calls[i].offset + 1 \in 1 .. l /\ stack[calls[i].offset + 1] = calls[i].node
          BY <1>k, <3>1, <1>1, <1>2, <1>3 DEF CallsOnStack
        <5> QED
          BY <5>1, <1>4, <1>f
      <4>4. p \in DOMAIN stack' /\ stack'[p] = stack[p] /\ meta'[stack[p]] = meta[stack[p]]
        BY <1>4, <1>e, <1>f, <1>2
      <4> QED
        BY <4>1, <4>2, <4>3, <4>4
    <3>2. CASE i = k + 1
      <4>1. calls'[i].node = n /\ stack'[l + 1] = n /\ l + 1 \in DOMAIN stack'
        BY <3>2, <1>g, <1>e, <1>f, <1>2
      <4>2. n \in Reach(graph, n)
        BY ReachSelf DEF Nodes
      <4>3. meta'[n].low = index /\ meta'[n].index = index
        BY <1>f
      <4> QED
        BY <4>1, <4>2, <4>3, <1>2
    <3> QED
      BY <3>1, <3>2, <1>2
  <2> QED
    BY <2>1, <1>e DEF LowReached
<1>10. LowCovers'
  <2>1. ASSUME NEW i \in 1 .. k + 1, NEW p \in Segment(i)', NEW j \in DOMAIN graph.deps[stack'[p]],
               p = calls'[i].offset + 1 => j < calls'[i].next
        PROVE  /\ graph.deps[stack'[p]][j] \in DOMAIN meta'
               /\ meta'[graph.deps[stack'[p]][j]].onStack =>
                    meta'[calls'[i].node].low <= meta'[graph.deps[stack'[p]][j]].index
    <3>1. CASE i = k + 1
      <4>1. p = l + 1 /\ calls'[i].next = 1 /\ calls'[i].offset = l
        BY <3>1, <1>6, <1>g, <1>2 DEF Segment
      <4>2. graph.deps[stack'[p]] \in Seq(Nodes)
        BY <4>1, <1>f, <1>1 DEF IsGraph
      <4> QED
        BY <4>1, <4>2, <2>1
    <3>2. CASE i # k + 1
      <4>1. i \in 1 .. k /\ calls'[i] = calls[i]
        BY <3>2, <1>2, <1>g
      <4>2. p \in Segment(i) /\ p \in 1 .. l /\ stack'[p] = stack[p]
        <5>1. SegmentEnd(i)' = SegmentEnd(i) /\ SegmentEnd(i) <= l /\ SegmentEnd(i) \in Nat
              /\ calls[i].offset \in Nat
          BY <4>1, <1>6, <1>3
        <5>2. p \in Segment(i)
          BY <5>1, <4>1 DEF Segment
        <5>3. p \in 1 .. l
          BY <5>1, <5>2, <1>2 DEF Segment
        <5> QED
          BY <5>2, <5>3, <1>f
      <4>3. /\ graph.deps[stack[p]][j] \in DOMAIN meta
            /\ meta[graph.deps[stack[p]][j]].onStack =>
                 meta[calls[i].node].low <= meta[graph.deps[stack[p]][j]].index
        BY <4>1, <4>2, <2>1, <1>1, <1>2 DEF LowCovers
      <4>4. calls[i].node \in DOMAIN meta
        <5>1. calls[i].offset + 1 \in 1 .. l /\ stack[calls[i].offset + 1] = calls[i].node
          BY <1>k, <4>1, <1>1, <1>2, <1>3 DEF CallsOnStack
        <5> QED
          BY <5>1, <1>4
      <4>5. PICK e : e = graph.deps[stack[p]][j]
        OBVIOUS
      <4>6. e \in DOMAIN meta' /\ meta'[e] = meta[e] /\ meta'[calls[i].node] = meta[calls[i].node]
        BY <4>3, <4>4, <4>5, <1>e, <1>f
      <4> QED
        BY <4>1, <4>2, <4>3, <4>5, <4>6
    <3> QED
      BY <3>1, <3>2
  <2> QED
    BY <2>1, <1>e DEF LowCovers
<1>11. ComponentsClosed'
  <2>1. \A m \in DOMAIN meta' : m \in Reach(graph, graph.root)
    <3>1. n \in Reach(graph, graph.root)
      <4>1. CASE k = 0
        BY <4>1, <1>5, ReachSelf DEF Nodes
      <4>2. CASE k # 0
        <5>1. k > 0 /\ calls[k].offset + 1 \in 1 .. l /\ stack[calls[k].offset + 1] = calls[k].node
          BY <1>k, <4>2, <1>1, <1>2, <1>3 DEF CallsOnStack
        <5>2. calls[k].node \in Reach(graph, graph.root)
          BY <5>1, <1>4, <1>1 DEF ComponentsClosed
        <5>3. GraphOK(graph) /\ n \in Deps(graph, calls[k].node)
          BY <5>1, <1>1, <1>5 DEF IsGraph, GraphOK, Nodes
        <5> QED
          BY <5>2, <5>3, ReachDep
      <4> QED
        BY <4>1, <4>2
    <3> QED
      BY <3>1, <1>e, <1>1 DEF ComponentsClosed
  <2> QED
    BY <2>1, <1>1 DEF ComponentsClosed
<1> QED
  BY <1>7, <1>8, <1>9, <1>10, <1>11

----------------------------------------------------------------------------
(* Calls *)

\* What Go's min returns.
LEMMA MinOfTwo ==
  ASSUME NEW a \in Nat, NEW b \in Nat
  PROVE  Min({a, b}) = IF a <= b THEN a ELSE b
<1>1. \E x \in {a, b} : \A y \in {a, b} : x <= y
  <2>1. CASE a <= b
    BY <2>1
  <2>2. CASE ~ (a <= b)
    BY <2>2
  <2> QED
    BY <2>1, <2>2
<1>2. Min({a, b}) \in {a, b} /\ \A y \in {a, b} : Min({a, b}) <= y
  BY <1>1, Zenon DEF Min
<1>3. Min({a, b}) = a \/ Min({a, b}) = b
  BY <1>2
<1>4. Min({a, b}) <= a /\ Min({a, b}) <= b
  BY <1>2
<1> QED
  BY <1>3, <1>4

\* Where the nodes of the calls and their segments are.
LEMMA CallFacts ==
  ASSUME SccInv, NEW i \in DOMAIN calls
  PROVE  /\ i \in 1 .. Len(calls) /\ Len(calls) \in Nat /\ Len(stack) \in Nat
         /\ calls[i] \in [node : Nodes, offset : Nat, next : Nat]
         /\ calls[i].node \in Nodes /\ calls[i].offset \in Nat /\ calls[i].next \in Nat
         /\ calls[i].offset + 1 \in DOMAIN stack /\ stack[calls[i].offset + 1] = calls[i].node
         /\ calls[i].node \in DOMAIN meta
         /\ SegmentEnd(i) \in Nat /\ SegmentEnd(i) <= Len(stack)
         /\ \A j \in DOMAIN calls : j # i => calls[j].node # calls[i].node
<1>1. SccTypes /\ StackByIndex /\ CallsOnStack
  BY DEF SccInv
<1>2. /\ stack \in Seq(Nodes) /\ DOMAIN stack = 1 .. Len(stack) /\ Len(stack) \in Nat
      /\ calls \in Seq([node : Nodes, offset : Nat, next : Nat])
      /\ DOMAIN calls = 1 .. Len(calls) /\ Len(calls) \in Nat
  BY <1>1 DEF SccTypes
<1>3. \A j \in DOMAIN calls : calls[j] \in [node : Nodes, offset : Nat, next : Nat]
  BY <1>2, ElementOfSeq
<1>4. \A j \in DOMAIN calls : calls[j].node \in Nodes /\ calls[j].offset \in Nat /\ calls[j].next \in Nat
  BY <1>3
<1>5. \A j \in DOMAIN calls :
        /\ calls[j].offset + 1 \in DOMAIN stack /\ stack[calls[j].offset + 1] = calls[j].node
        /\ calls[j].offset < Len(stack)
  BY <1>1, <1>2, <1>4 DEF CallsOnStack
<1>6. \A p \in DOMAIN stack : stack[p] \in DOMAIN meta /\ meta[stack[p]].index \in Nat
  <2>1. \A p \in DOMAIN stack : stack[p] \in DOMAIN meta
    BY <1>1 DEF StackByIndex, ToSet
  <2>2. \A m \in DOMAIN meta : meta[m] \in [index : Nat, low : Nat, onStack : BOOLEAN]
    BY <1>1 DEF SccTypes
  <2>3. \A m \in DOMAIN meta : meta[m].index \in Nat
    BY <2>2
  <2> QED
    BY <2>1, <2>3
<1>7. calls[i].node \in DOMAIN meta
  BY <1>5, <1>6
<1>8. SegmentEnd(i) \in Nat /\ SegmentEnd(i) <= Len(stack)
  <2>1. CASE i = Len(calls)
    BY <2>1, <1>2 DEF SegmentEnd
  <2>2. CASE i # Len(calls)
    <3>1. i + 1 \in DOMAIN calls
      BY <2>2, <1>2
    <3> QED
      BY <2>2, <3>1, <1>4, <1>5, <1>2 DEF SegmentEnd
  <2> QED
    BY <2>1, <2>2
<1>9. ASSUME NEW j \in DOMAIN calls, j # i
      PROVE  calls[j].node # calls[i].node
  <2>1. calls[j].offset + 1 < calls[i].offset + 1 \/ calls[i].offset + 1 < calls[j].offset + 1
    <3>1. calls[j].offset < calls[i].offset \/ calls[i].offset < calls[j].offset
      <4>1. i < j \/ j < i
        BY <1>9, <1>2
      <4> QED
        BY <4>1, <1>1 DEF CallsOnStack
    <3> QED
      BY <3>1, <1>4
  <2>2. \/ meta[calls[j].node].index < meta[calls[i].node].index
        \/ meta[calls[i].node].index < meta[calls[j].node].index
    BY <2>1, <1>1, <1>5 DEF StackByIndex
  <2>3. meta[calls[i].node].index \in Nat
    BY <1>5, <1>6
  <2> QED
    BY <2>2, <2>3
<1> QED
  BY <1>2, <1>3, <1>4, <1>5, <1>7, <1>8, <1>9

\* Nodes that have metadata.
LEMMA MetaFacts ==
  ASSUME SccInv, NEW n \in DOMAIN meta
  PROVE  /\ n \in Nodes
         /\ meta[n] \in [index : Nat, low : Nat, onStack : BOOLEAN]
         /\ meta[n].index \in Nat /\ meta[n].low \in Nat /\ meta[n].onStack \in BOOLEAN
         /\ meta[n].onStack <=> \E p \in DOMAIN stack : n = stack[p]
<1>1. SccTypes /\ StackByIndex
  BY DEF SccInv
<1>2. n \in Nodes /\ meta[n] \in [index : Nat, low : Nat, onStack : BOOLEAN]
  BY <1>1 DEF SccTypes
<1>3. meta[n].onStack <=> \E p \in DOMAIN stack : n = stack[p]
  BY <1>1 DEF StackByIndex, ToSet
<1> QED
  BY <1>2, <1>3

----------------------------------------------------------------------------
(* rec sees a dependency that was seen before *)

\* A dependency that was seen before lowers low to an index on the stack at most.
LEMMA SeeDepInv ==
  ASSUME SccInv, SeeDep
  PROVE  SccInv'
<1>1. IsGraph /\ SccTypes /\ StackByIndex /\ CallsOnStack /\ StackConnected /\ LowReached /\ LowCovers
      /\ ComponentsClosed
  BY DEF SccInv
<1>l. \E k, l \in Nat : k = Len(calls) /\ l = Len(stack)
  <2>1. Len(calls) \in Nat /\ Len(stack) \in Nat
    BY <1>1 DEF SccTypes
  <2> QED
    BY <2>1
<1>k. PICK k, l \in Nat : k = Len(calls) /\ l = Len(stack)
  BY <1>l
<1>v. PICK v, d : v = Call.node /\ d = Dep
  OBVIOUS
<1>2. /\ calls \in Seq([node : Nodes, offset : Nat, next : Nat]) /\ DOMAIN calls = 1 .. k
      /\ stack \in Seq(Nodes) /\ DOMAIN stack = 1 .. l
      /\ meta \in [DOMAIN meta -> [index : Nat, low : Nat, onStack : BOOLEAN]]
  BY <1>1, <1>k DEF SccTypes
<1>u. UNCHANGED <<graph, index, stack, keys, components>> /\ Nodes' = Nodes
  BY DEF SeeDep, Nodes
\* The topmost call, and what it has the turn for.
<1>3. /\ k \in DOMAIN calls /\ calls[k].node = v /\ v \in DOMAIN meta /\ d \in DOMAIN meta
      /\ calls[k].next \in 1 .. Len(graph.deps[v]) /\ d = graph.deps[v][calls[k].next]
      /\ d \in Deps(graph, v)
  <2>1. calls # <<>> /\ calls[k].node = v /\ d \in DOMAIN meta
        /\ calls[k].next <= Len(graph.deps[v]) /\ d = graph.deps[v][calls[k].next]
    BY <1>k, <1>v DEF SeeDep, Looping, Call, Dep
  <2>2. k \in DOMAIN calls
    BY <2>1, <1>2, <1>k, EmptySeq
  <2>3. v \in DOMAIN meta /\ v \in Nodes
    BY <2>1, <2>2, CallFacts
  <2>4. calls[k].next \in 1 .. Len(graph.deps[v])
    BY <2>1, <2>2, <1>1, CallFacts DEF CallsOnStack
  <2>5. graph.deps[v] \in Seq(Nodes)
    BY <2>3, <1>1 DEF IsGraph
  <2> QED
    BY <2>1, <2>2, <2>3, <2>4, <2>5 DEF Deps, ToSet
<1>4. PICK low \in Nat : /\ low = LowAfter(meta[v].low, meta[d])
                         /\ low <= meta[v].low
                         /\ meta[d].onStack => low <= meta[d].index
                         /\ (low = meta[v].low \/ (meta[d].onStack /\ low = meta[d].index))
  <2>1. meta[v].low \in Nat /\ meta[d].index \in Nat
    BY <1>3, MetaFacts
  <2>2. Min({meta[v].low, meta[d].index}) =
          IF meta[v].low <= meta[d].index THEN meta[v].low ELSE meta[d].index
    BY <2>1, MinOfTwo
  <2>3. CASE meta[d].onStack
    <3>1. LowAfter(meta[v].low, meta[d]) = Min({meta[v].low, meta[d].index})
      BY <2>3 DEF LowAfter
    <3> QED
      BY <2>1, <2>2, <2>3, <3>1
  <2>4. CASE ~ meta[d].onStack
    BY <2>1, <2>4 DEF LowAfter
  <2> QED
    BY <2>3, <2>4
<1>m. /\ DOMAIN meta' = DOMAIN meta
      /\ \A m \in DOMAIN meta : m # v => meta'[m] = meta[m]
      /\ meta'[v] = [index |-> meta[v].index, low |-> low, onStack |-> meta[v].onStack]
  <2>1. meta' = [meta EXCEPT ![v].low = LowAfter(@, meta[d])]
    BY <1>k, <1>v DEF SeeDep
  <2>2. meta'[v] = [meta[v] EXCEPT !.low = LowAfter(meta[v].low, meta[d])]
    BY <2>1, <1>3
  <2>9. LowAfter(meta[v].low, meta[d]) = low
    BY <1>4
  <2>3. meta'[v] = [meta[v] EXCEPT !.low = low]
    BY <2>2, <2>9
  <2>4. meta[v] \in [index : Nat, low : Nat, onStack : BOOLEAN]
    BY <1>3, MetaFacts
  <2>5. DOMAIN meta' = DOMAIN meta /\ \A m \in DOMAIN meta : m # v => meta'[m] = meta[m]
    BY <2>1
  <2> QED
    BY <2>3, <2>4, <2>5
<1>n. \A m \in DOMAIN meta : meta'[m].index = meta[m].index /\ meta'[m].onStack = meta[m].onStack
                             /\ meta'[m].low \in Nat /\ meta'[m].low <= meta[m].low
  <2>1. ASSUME NEW m \in DOMAIN meta
        PROVE  meta'[m].index = meta[m].index /\ meta'[m].onStack = meta[m].onStack
               /\ meta'[m].low \in Nat /\ meta'[m].low <= meta[m].low
    <3>1. CASE m = v
      BY <3>1, <1>m, <1>4
    <3>2. CASE m # v
      <4>1. meta'[m] = meta[m] /\ meta[m].low \in Nat
        BY <3>2, <1>m, MetaFacts
      <4> QED
        BY <4>1
    <3> QED
      BY <3>1, <3>2
  <2> QED
    BY <2>1
<1>c. /\ DOMAIN calls' = 1 .. k /\ Len(calls') = k /\ calls' # <<>>
      /\ \A i \in 1 .. k : i # k => calls'[i] = calls[i]
      /\ \A i \in 1 .. k : calls'[i].node = calls[i].node /\ calls'[i].offset = calls[i].offset
      /\ calls'[k].next = calls[k].next + 1
      /\ calls' \in Seq([node : Nodes, offset : Nat, next : Nat])
  <2>1. calls' = [calls EXCEPT ![k].next = @ + 1]
    BY <1>k, <1>v DEF SeeDep
  <2>2. calls' = [calls EXCEPT ![k] = [calls[k] EXCEPT !.next = @ + 1]]
    BY <2>1, <1>3, <1>2
  <2>3. calls[k] \in [node : Nodes, offset : Nat, next : Nat]
    BY <1>3, CallFacts
  <2>9. PICK f \in [node : Nodes, offset : Nat, next : Nat] : f = calls[k]
    BY <2>3
  <2>8. [f EXCEPT !.next = @ + 1] \in [node : Nodes, offset : Nat, next : Nat]
        /\ [f EXCEPT !.next = @ + 1].node = f.node /\ [f EXCEPT !.next = @ + 1].offset = f.offset
        /\ [f EXCEPT !.next = @ + 1].next = f.next + 1
    BY <2>9
  <2>4. PICK e \in [node : Nodes, offset : Nat, next : Nat] :
          /\ e = [calls[k] EXCEPT !.next = @ + 1]
          /\ e.node = calls[k].node /\ e.offset = calls[k].offset /\ e.next = calls[k].next + 1
    BY <2>8, <2>9
  <2>5. calls' = [calls EXCEPT ![k] = e]
    BY <2>2, <2>4
  <2>6. /\ calls' \in Seq([node : Nodes, offset : Nat, next : Nat]) /\ Len(calls') = k
        /\ \A j \in 1 .. k : calls'[j] = IF j = k THEN e ELSE calls[j]
    BY <2>5, <1>2, <1>3, <1>k, ExceptSeq
  <2>7. DOMAIN calls' = 1 .. k /\ calls' # <<>>
    BY <2>6, <1>3, <1>2, EmptySeq
  <2> QED
    BY <2>4, <2>6, <2>7, <1>3, <1>2
<1>s. \A i \in 1 .. k : SegmentEnd(i)' = SegmentEnd(i) /\ Segment(i)' = Segment(i)
  <2>1. ASSUME NEW i \in 1 .. k
        PROVE  SegmentEnd(i)' = SegmentEnd(i)
    <3>1. i # k => i + 1 \in 1 .. k
      BY <1>k
    <3> QED
      BY <3>1, <1>c, <1>u, <1>k DEF SegmentEnd
  <2> QED
    BY <2>1, <1>c DEF Segment
<1>5. IsGraph' /\ SccTypes'
  <2>1. \A m \in DOMAIN meta : meta'[m] \in [index : Nat, low : Nat, onStack : BOOLEAN]
    <3> TAKE m \in DOMAIN meta
    <3>1. meta[m] \in [index : Nat, low : Nat, onStack : BOOLEAN]
      BY MetaFacts
    <3> QED
      BY <3>1, <1>m, <1>4, <1>3
  <2>2. meta' \in [DOMAIN meta' -> [index : Nat, low : Nat, onStack : BOOLEAN]]
    <3>1. meta' = [m \in DOMAIN meta' |-> meta'[m]]
      BY <1>3, <1>v DEF SeeDep
    <3> QED
      BY <3>1, <2>1, <1>m
  <2> QED
    BY <2>2, <1>1, <1>c, <1>m, <1>u DEF SccTypes, IsGraph
<1>6. StackByIndex'
  <2>1. \A p \in DOMAIN stack : stack[p] \in DOMAIN meta
    BY <1>1 DEF StackByIndex, ToSet
  <2> QED
    BY <2>1, <1>1, <1>m, <1>n, <1>u DEF StackByIndex
<1>7. CallsOnStack'
  <2>1. ASSUME NEW i \in 1 .. k
        PROVE  /\ calls'[i].next \in 1 .. Len(graph.deps[calls[i].node]) + 1
               /\ i < k => /\ calls'[i].next <= Len(graph.deps[calls[i].node])
                           /\ graph.deps[calls[i].node][calls'[i].next] = calls'[i + 1].node
    <3>1. CASE i = k
      <4>1. calls'[i].next = calls[k].next + 1 /\ calls[i].node = v
        BY <3>1, <1>3, <1>c
      <4>2. Len(graph.deps[v]) \in Nat
        BY <1>3, <1>1, CallFacts DEF IsGraph
      <4> QED
        BY <3>1, <4>1, <4>2, <1>3, <1>k
    <3>2. CASE i # k
      <4>1. i + 1 \in 1 .. k /\ i < k
        BY <3>2, <1>k
      <4>2. calls'[i] = calls[i] /\ calls'[i + 1].node = calls[i + 1].node
        BY <3>2, <4>1, <1>c
      <4> QED
        BY <4>1, <4>2, <1>1, <1>2, <1>k DEF CallsOnStack
    <3> QED
      BY <3>1, <3>2
  <2>2. ASSUME NEW i \in 1 .. k
        PROVE  calls[i].offset < Len(stack) /\ stack[calls[i].offset + 1] = calls[i].node
    BY <1>1, <1>2 DEF CallsOnStack
  <2>3. calls'[1].offset = 0 /\ 1 \in 1 .. k
    <3>1. 1 \in 1 .. k /\ calls # <<>>
      BY <1>2, <1>3, <1>k, EmptySeq
    <3>2. calls[1].offset = 0
      BY <3>1, <1>1 DEF CallsOnStack
    <3> QED
      BY <3>1, <3>2, <1>c
  <2>4. \A i, j \in 1 .. k : i < j => calls'[i].offset < calls'[j].offset
    BY <1>1, <1>2, <1>c DEF CallsOnStack
  <2>5. ASSUME NEW i \in 1 .. k
        PROVE  /\ calls'[i].offset < Len(stack')
               /\ stack'[calls'[i].offset + 1] = calls'[i].node
               /\ calls'[i].next \in 1 .. Len(graph'.deps[calls'[i].node]) + 1
               /\ i < Len(calls') => /\ calls'[i].next <= Len(graph'.deps[calls'[i].node])
                                     /\ graph'.deps[calls'[i].node][calls'[i].next] = calls'[i + 1].node
    BY <2>1, <2>2, <1>c, <1>u
  <2> QED
    BY <2>3, <2>4, <2>5, <1>c DEF CallsOnStack
<1>8. StackConnected'
  BY <1>1, <1>2, <1>c, <1>s, <1>u DEF StackConnected
<1>9. LowReached'
  <2>1. ASSUME NEW i \in 1 .. k
        PROVE  /\ meta'[calls[i].node].low <= meta'[calls[i].node].index
               /\ \E p \in DOMAIN stack : /\ meta'[stack[p]].index = meta'[calls[i].node].low
                                          /\ stack[p] \in Reach(graph, calls[i].node)
    <3>1. calls[i].node \in DOMAIN meta /\ i \in DOMAIN calls
      BY <1>2, CallFacts
    <3>2. meta[calls[i].node].low <= meta[calls[i].node].index
      BY <3>1, <1>1 DEF LowReached
    <3>3. PICK p \in DOMAIN stack : /\ meta[stack[p]].index = meta[calls[i].node].low
                                    /\ stack[p] \in Reach(graph, calls[i].node)
      BY <3>1, <1>1 DEF LowReached
    <3>4. \A q \in DOMAIN stack : stack[q] \in DOMAIN meta
      BY <1>1 DEF StackByIndex, ToSet
    <3>5. meta'[calls[i].node].low <= meta'[calls[i].node].index
      BY <3>1, <3>2, <1>n, MetaFacts
    <3>6. CASE meta'[calls[i].node].low = meta[calls[i].node].low
      BY <3>3, <3>4, <3>5, <3>6, <1>n
    <3>7. CASE meta'[calls[i].node].low # meta[calls[i].node].low
      <4>1. calls[i].node = v /\ meta[d].onStack /\ meta'[v].low = meta[d].index
        BY <3>1, <3>7, <1>m, <1>4
      <4>2. PICK q \in DOMAIN stack : d = stack[q]
        BY <4>1, <1>3, MetaFacts
      <4>3. d \in Reach(graph, v)
        BY <1>3, <1>1, CallFacts, ReachSelf, ReachDep DEF IsGraph, GraphOK, Nodes
      <4>4. meta'[stack[q]].index = meta'[calls[i].node].low
        BY <4>1, <4>2, <1>3, <1>n
      <4> QED
        BY <4>1, <4>2, <4>3, <4>4, <3>5
    <3> QED
      BY <3>6, <3>7
  <2> QED
    BY <2>1, <1>c, <1>u DEF LowReached
<1>10. LowCovers'
  <2>1. ASSUME NEW i \in 1 .. k, NEW p \in Segment(i), NEW j \in DOMAIN graph.deps[stack[p]],
               p = calls[i].offset + 1 => j < calls'[i].next
        PROVE  /\ graph.deps[stack[p]][j] \in DOMAIN meta'
               /\ meta'[graph.deps[stack[p]][j]].onStack =>
                    meta'[calls[i].node].low <= meta'[graph.deps[stack[p]][j]].index
    <3>1. calls[i].node \in DOMAIN meta /\ i \in DOMAIN calls
      BY <1>2, CallFacts
    <3>2. CASE p = calls[i].offset + 1 => j < calls[i].next
      <4>1. PICK e : e = graph.deps[stack[p]][j]
        OBVIOUS
      <4>2. e \in DOMAIN meta /\ (meta[e].onStack => meta[calls[i].node].low <= meta[e].index)
        BY <4>1, <3>1, <3>2, <1>1 DEF LowCovers
      <4>3. meta[e].index \in Nat /\ meta[calls[i].node].low \in Nat
        BY <4>2, <3>1, MetaFacts
      <4>4. e \in DOMAIN meta' /\ (meta'[e].onStack => meta'[calls[i].node].low <= meta'[e].index)
        <5>1. e \in DOMAIN meta' /\ meta'[e].index = meta[e].index /\ meta'[e].onStack = meta[e].onStack
          BY <4>2, <1>m, <1>n
        <5>2. /\ meta'[calls[i].node].low \in Nat
              /\ meta'[calls[i].node].low <= meta[calls[i].node].low
          BY <3>1, <1>m, <1>n
        <5> QED
          BY <4>2, <4>3, <5>1, <5>2
      <4> QED
        BY <4>1, <4>4
    <3>3. CASE ~ (p = calls[i].offset + 1 => j < calls[i].next)
      <4>1. p = calls[i].offset + 1 /\ stack[p] = calls[i].node
        BY <3>1, <3>3, CallFacts
      <4>2. i = k
        BY <2>1, <3>3, <1>c
      <4>3. graph.deps[v] \in Seq(Nodes)
        BY <1>3, <1>1, CallFacts DEF IsGraph
      <4>4. j = calls[k].next
        BY <2>1, <3>3, <4>1, <4>2, <4>3, <1>3, <1>c
      <4>5. graph.deps[stack[p]][j] = d
        BY <4>1, <4>2, <4>4, <1>3
      <4>6. calls[i].node = v /\ v \in DOMAIN meta /\ d \in DOMAIN meta
        BY <4>2, <1>3
      <4>7. meta'[v].low = low /\ meta'[d].index = meta[d].index /\ meta'[d].onStack = meta[d].onStack
        BY <4>6, <1>m, <1>n
      <4> QED
        BY <4>5, <4>6, <4>7, <1>4, <1>m
    <3> QED
      BY <3>2, <3>3
  <2>2. ASSUME NEW i \in DOMAIN calls', NEW p \in Segment(i)', NEW j \in DOMAIN graph'.deps[stack'[p]],
               p = calls'[i].offset + 1 => j < calls'[i].next
        PROVE  /\ graph'.deps[stack'[p]][j] \in DOMAIN meta'
               /\ meta'[graph'.deps[stack'[p]][j]].onStack =>
                    meta'[calls'[i].node].low <= meta'[graph'.deps[stack'[p]][j]].index
    <3>1. i \in 1 .. k /\ p \in Segment(i) /\ j \in DOMAIN graph.deps[stack[p]]
          /\ calls'[i].offset = calls[i].offset /\ calls'[i].node = calls[i].node
      BY <2>2, <1>c, <1>s, <1>u
    <3> QED
      BY <3>1, <2>1, <2>2, <1>u
  <2> QED
    BY <2>2 DEF LowCovers
<1>11. ComponentsClosed'
  BY <1>1, <1>m, <1>u DEF ComponentsClosed
<1> QED
  BY <1>5, <1>6, <1>7, <1>8, <1>9, <1>10, <1>11 DEF SccInv

----------------------------------------------------------------------------
(* rec returns *)

\* The topmost call, when it returns.
LEMMA ReturnCall ==
  ASSUME SccInv, Return, NEW k, k = Len(calls)
  PROVE  /\ k \in DOMAIN calls /\ k \in Nat \ {0} /\ Call = calls[k] /\ DOMAIN calls = 1 .. k
         /\ calls[k].next = Len(graph.deps[calls[k].node]) + 1
<1>1. SccTypes /\ CallsOnStack /\ IsGraph
  BY DEF SccInv
<1>2. calls # <<>> /\ ~ Looping /\ Call = calls[k]
  BY DEF Return, Call
<1>3. k \in Nat \ {0} /\ DOMAIN calls = 1 .. k
  BY <1>1, <1>2, EmptySeq DEF SccTypes
<1>4. ~ (calls[k].next <= Len(graph.deps[calls[k].node]))
  BY <1>2 DEF Looping
<1>5. k \in DOMAIN calls
  BY <1>3
<1>6. calls[k].next \in 1 .. Len(graph.deps[calls[k].node]) + 1
  BY <1>1, <1>5 DEF CallsOnStack
<1>7. Len(graph.deps[calls[k].node]) \in Nat
  BY <1>1, <1>5, CallFacts DEF IsGraph
<1> QED
  BY <1>2, <1>3, <1>4, <1>5, <1>6, <1>7

\* The calls that are left.
LEMMA ReturnCalls ==
  ASSUME SccInv, Return, NEW k, k = Len(calls)
  PROVE  /\ calls' \in Seq([node : Nodes, offset : Nat, next : Nat])
         /\ Len(calls') = k - 1 /\ DOMAIN calls' = 1 .. k - 1
         /\ \A i \in 1 .. k - 1 : /\ calls'[i].node = calls[i].node
                                  /\ calls'[i].offset = calls[i].offset
                                  /\ i # k - 1 => calls'[i] = calls[i]
         /\ k > 1 => calls'[k - 1].next = calls[k - 1].next + 1
<1>1. calls \in Seq([node : Nodes, offset : Nat, next : Nat])
  BY DEF SccInv, SccTypes
<1>2. k \in Nat \ {0} /\ DOMAIN calls = 1 .. k
  BY ReturnCall
<1>3. PICK rest : rest = Front(calls)
  OBVIOUS
<1>4. /\ rest \in Seq([node : Nodes, offset : Nat, next : Nat]) /\ Len(rest) = k - 1
      /\ \A i \in 1 .. k - 1 : rest[i] = calls[i]
  <2>1. rest = SubSeq(calls, 1, k - 1)
    BY <1>3 DEF Front
  <2>9. \A i \in 1 .. k - 1 : i \in 1 .. Len(calls)
    BY <1>2
  <2>2. \A i \in 1 .. k - 1 : calls[i] \in [node : Nodes, offset : Nat, next : Nat]
    BY <1>1, <2>9, ElementOfSeq
  <2>3. 1 \in Int /\ k - 1 \in Int
    BY <1>2
  <2>4. /\ SubSeq(calls, 1, k - 1) \in Seq([node : Nodes, offset : Nat, next : Nat])
        /\ Len(SubSeq(calls, 1, k - 1)) = IF 1 <= k - 1 THEN k - 1 - 1 + 1 ELSE 0
        /\ \A i \in 1 .. k - 1 - 1 + 1 : SubSeq(calls, 1, k - 1)[i] = calls[1 + i - 1]
    BY <2>2, <2>3, SubSeqProperties
  <2>5. \A i \in 1 .. k - 1 : rest[i] = calls[i]
    BY <2>1, <2>4, <1>2
  <2> QED
    BY <2>1, <2>4, <2>5, <1>2
<1>5. CASE rest = <<>>
  <2>1. calls' = rest
    BY <1>3, <1>5 DEF Return
  <2>2. k = 1
    BY <1>4, <1>5, <1>2
  <2> QED
    BY <2>1, <2>2, <1>4
<1>6. CASE rest # <<>>
  <2>1. k > 1 /\ k - 1 \in 1 .. Len(rest) /\ Len(rest) = k - 1
    BY <1>4, <1>6, <1>2, EmptySeq
  <2>2. calls' = [rest EXCEPT ![k - 1].next = @ + 1]
    BY <1>3, <1>6, <2>1 DEF Return
  <2>3. PICK f \in [node : Nodes, offset : Nat, next : Nat] : f = rest[k - 1]
    BY <2>1, <1>4, ElementOfSeq
  <2>4. [f EXCEPT !.next = @ + 1] \in [node : Nodes, offset : Nat, next : Nat]
        /\ [f EXCEPT !.next = @ + 1].node = f.node /\ [f EXCEPT !.next = @ + 1].offset = f.offset
        /\ [f EXCEPT !.next = @ + 1].next = f.next + 1
    BY <2>3
  <2>5. PICK e \in [node : Nodes, offset : Nat, next : Nat] :
          /\ e = [f EXCEPT !.next = @ + 1]
          /\ e.node = f.node /\ e.offset = f.offset /\ e.next = f.next + 1
    BY <2>4
  <2>6. calls' = [rest EXCEPT ![k - 1] = e]
    BY <2>1, <2>2, <2>3, <2>5, <1>4
  <2>7. /\ calls' \in Seq([node : Nodes, offset : Nat, next : Nat]) /\ Len(calls') = k - 1
        /\ \A j \in 1 .. k - 1 : calls'[j] = IF j = k - 1 THEN e ELSE rest[j]
    BY <2>6, <2>1, <1>4, ExceptSeq
  <2>8. DOMAIN calls' = 1 .. k - 1
    BY <2>7
  <2>9. f = calls[k - 1] /\ k - 1 \in 1 .. k - 1
    BY <2>1, <2>3, <1>4
  <2> QED
    BY <2>5, <2>7, <2>8, <2>9, <1>4
<1> QED
  BY <1>5, <1>6

\* The nodes that a return takes off the stack.
Popped ==
  ToSet(IF meta[Call.node].index = meta[Call.node].low
        THEN SubSeq(stack, Call.offset + 1, Len(stack)) ELSE <<>>)

\* The metadata after a return.
LEMMA ReturnMeta ==
  ASSUME SccInv, Return, NEW k, k = Len(calls)
  PROVE  /\ DOMAIN meta' = DOMAIN meta
         /\ meta' \in [DOMAIN meta -> [index : Nat, low : Nat, onStack : BOOLEAN]]
         /\ \A n \in DOMAIN meta :
              /\ meta'[n].index = meta[n].index
              /\ meta'[n].onStack <=> meta[n].onStack /\ n \notin Popped
              /\ (k = 1 \/ n # calls[k - 1].node) => meta'[n].low = meta[n].low
         /\ k > 1 => meta'[calls[k - 1].node].low =
                       IF meta[calls[k - 1].node].low <= meta[calls[k].node].low
                       THEN meta[calls[k - 1].node].low ELSE meta[calls[k].node].low
<1>v. PICK v, S : v = calls[k].node /\ S = Popped
  OBVIOUS
<1> SUFFICES /\ DOMAIN meta' = DOMAIN meta
             /\ meta' \in [DOMAIN meta -> [index : Nat, low : Nat, onStack : BOOLEAN]]
             /\ \A n \in DOMAIN meta :
                  /\ meta'[n].index = meta[n].index
                  /\ meta'[n].onStack <=> meta[n].onStack /\ n \notin S
                  /\ (k = 1 \/ n # calls[k - 1].node) => meta'[n].low = meta[n].low
             /\ k > 1 => meta'[calls[k - 1].node].low =
                           IF meta[calls[k - 1].node].low <= meta[v].low
                           THEN meta[calls[k - 1].node].low ELSE meta[v].low
  BY <1>v
<1>1. k \in Nat \ {0} /\ k \in DOMAIN calls /\ Call = calls[k] /\ DOMAIN calls = 1 .. k
  BY ReturnCall
<1>2. calls \in Seq([node : Nodes, offset : Nat, next : Nat])
      /\ meta \in [DOMAIN meta -> [index : Nat, low : Nat, onStack : BOOLEAN]]
  BY DEF SccInv, SccTypes
<1>3. PICK closed : closed = [n \in DOMAIN meta |-> IF n \in S THEN [meta[n] EXCEPT !.onStack = FALSE]
                                                   ELSE meta[n]]
  OBVIOUS
<1>4. ASSUME NEW n \in DOMAIN meta
      PROVE  /\ closed[n] \in [index : Nat, low : Nat, onStack : BOOLEAN]
             /\ closed[n].index = meta[n].index /\ closed[n].low = meta[n].low
             /\ closed[n].onStack <=> meta[n].onStack /\ n \notin S
  <2>1. PICK e \in [index : Nat, low : Nat, onStack : BOOLEAN] : e = meta[n]
    BY MetaFacts
  <2>2. closed[n] = IF n \in S THEN [e EXCEPT !.onStack = FALSE] ELSE e
    BY <1>3, <2>1
  <2>3. CASE n \in S
    BY <2>1, <2>2, <2>3
  <2>4. CASE n \notin S
    BY <2>1, <2>2, <2>4
  <2> QED
    BY <2>3, <2>4
<1>5. PICK rest : rest = Front(calls)
  OBVIOUS
<1>6. rest = SubSeq(calls, 1, k - 1)
  BY <1>5 DEF Front
<1>7. S = ToSet(IF meta[v].index = meta[v].low THEN SubSeq(stack, calls[k].offset + 1, Len(stack))
                ELSE <<>>)
  BY <1>1, <1>v DEF Popped
<1>8. IF rest = <<>> THEN meta' = closed
      ELSE meta' = [closed EXCEPT ![Last(rest).node].low = Min({@, meta[v].low})]
  <2> DEFINE M == IF meta[Call.node].index = meta[Call.node].low
                  THEN SubSeq(stack, Call.offset + 1, Len(stack)) ELSE <<>>
             C == [n \in DOMAIN meta |-> IF n \in ToSet(M) THEN [meta[n] EXCEPT !.onStack = FALSE]
                                         ELSE meta[n]]
  <2>1. IF Front(calls) = <<>> THEN meta' = C
        ELSE meta' = [C EXCEPT ![Last(Front(calls)).node].low = Min({@, meta[Call.node].low})]
    BY Zenon DEF Return
  <2>2. ToSet(M) = S
    BY <1>1, <1>7, <1>v
  <2>3. C = closed
    BY <1>3, <2>2
  <2> HIDE DEF C
  <2> QED
    BY <1>1, <1>5, <1>v, <2>1, <2>3, Zenon
<1>9. CASE k = 1
  <2>1. rest = <<>>
    BY <1>6, <1>9, SubSeqEmpty
  <2> QED
    <3>1. meta' = closed /\ DOMAIN closed = DOMAIN meta
      BY <2>1, <1>3, <1>8
    <3>2. closed \in [DOMAIN meta -> [index : Nat, low : Nat, onStack : BOOLEAN]]
      BY <1>3, <1>4
    <3> QED
      BY <3>1, <3>2, <1>4, <1>9
<1>10. CASE k # 1
  <2>1. rest # <<>> /\ Last(rest) = calls[k - 1]
    <3>5. \A i \in 1 .. k - 1 : i \in 1 .. Len(calls)
      BY <1>1
    <3>1. \A i \in 1 .. k - 1 : calls[i] \in [node : Nodes, offset : Nat, next : Nat]
      BY <1>2, <3>5, ElementOfSeq
    <3>2. 1 \in Int /\ k - 1 \in Int
      BY <1>1
    <3>3. /\ Len(SubSeq(calls, 1, k - 1)) = IF 1 <= k - 1 THEN k - 1 - 1 + 1 ELSE 0
          /\ \A i \in 1 .. k - 1 - 1 + 1 : SubSeq(calls, 1, k - 1)[i] = calls[1 + i - 1]
      BY <3>1, <3>2, SubSeqProperties
    <3>4. Len(rest) = k - 1 /\ k - 1 \in 1 .. k - 1 /\ rest[k - 1] = calls[k - 1] /\ k - 1 > 0
      BY <3>3, <1>1, <1>6, <1>10
    <3> QED
      BY <3>4 DEF Last
  <2>2. PICK w : w = calls[k - 1].node
    OBVIOUS
  <2>3. w \in DOMAIN meta /\ v \in DOMAIN meta
    <3>1. k - 1 \in DOMAIN calls
      BY <1>1, <1>10
    <3> QED
      BY <2>2, <3>1, <1>1, <1>v, CallFacts
  <2>4. meta' = [closed EXCEPT ![w].low = Min({@, meta[v].low})]
    BY <2>1, <2>2, <1>8
  <2>5. PICK e \in [index : Nat, low : Nat, onStack : BOOLEAN] :
          e = closed[w]
    BY <2>3, <1>4
  <2>6. meta[v].low \in Nat /\ e.low \in Nat /\ e.low = meta[w].low
    BY <2>3, <2>5, <1>4, MetaFacts
  <2>7. PICK low \in Nat : low = Min({e.low, meta[v].low})
                           /\ low = IF e.low <= meta[v].low THEN e.low ELSE meta[v].low
    BY <2>6, MinOfTwo
  <2>8. DOMAIN closed = DOMAIN meta
    BY <1>3
  <2>9. DOMAIN meta' = DOMAIN meta /\ \A n \in DOMAIN meta : n # w => meta'[n] = closed[n]
    BY <2>4, <2>8
  <2>10. meta'[w] = [e EXCEPT !.low = Min({e.low, meta[v].low})]
    BY <2>3, <2>4, <2>5, <2>8
  <2>11. meta'[w] = [e EXCEPT !.low = low]
    BY <2>10, <2>7
  <2>12. /\ meta'[w] \in [index : Nat, low : Nat, onStack : BOOLEAN]
         /\ meta'[w].index = e.index /\ meta'[w].onStack = e.onStack /\ meta'[w].low = low
    BY <2>11
  <2>13. \A n \in DOMAIN meta : /\ meta'[n] \in [index : Nat, low : Nat, onStack : BOOLEAN]
                                /\ meta'[n].index = closed[n].index
                                /\ meta'[n].onStack = closed[n].onStack
                                /\ n # w => meta'[n].low = closed[n].low
    BY <2>5, <2>9, <2>12, <1>4
  <2>14. meta' \in [DOMAIN meta -> [index : Nat, low : Nat, onStack : BOOLEAN]]
    <3>1. meta' = [n \in DOMAIN meta |-> meta'[n]]
      BY <2>4, <2>8
    <3> QED
      BY <3>1, <2>13
  <2>15. \A n \in DOMAIN meta :
           /\ meta'[n].index = meta[n].index
           /\ meta'[n].onStack <=> meta[n].onStack /\ n \notin S
           /\ n # w => meta'[n].low = meta[n].low
    BY <2>13, <1>4, Zenon
  <2>16. meta'[w].low = IF meta[w].low <= meta[v].low THEN meta[w].low ELSE meta[v].low
    BY <2>6, <2>7, <2>12, Zenon
  <2> QED
    BY <2>2, <2>9, <2>14, <2>15, <2>16, <1>10, Zenon
<1> QED
  BY <1>9, <1>10, Zenon

\* The node of the call is not the first of its component: its segment is left to the
\* caller.
\* What is left of ReturnMeta where only low matters.
LEMMA ReturnLow ==
  ASSUME SccInv, Return, NEW k, k = Len(calls)
  PROVE  \A n \in DOMAIN meta : (k = 1 \/ n # calls[k - 1].node) => meta'[n].low = meta[n].low
BY ReturnMeta

\* rec returns for a node that does not cut a component off.
LEMMA ReturnOpen ==
  ASSUME SccInv, Return, meta[Call.node].index # meta[Call.node].low
  PROVE  SccInv'
<1>1. IsGraph /\ SccTypes /\ StackByIndex /\ CallsOnStack /\ StackConnected /\ LowReached /\ LowCovers
      /\ ComponentsClosed
  BY DEF SccInv
<1>l. \E k, l \in Nat : k = Len(calls) /\ l = Len(stack)
  <2>1. Len(calls) \in Nat /\ Len(stack) \in Nat
    BY <1>1 DEF SccTypes
  <2> QED
    BY <2>1
<1>k. PICK k, l \in Nat : k = Len(calls) /\ l = Len(stack)
  BY <1>l
<1>2. /\ k \in DOMAIN calls /\ k > 0 /\ Call = calls[k] /\ DOMAIN calls = 1 .. k
      /\ calls[k].next = Len(graph.deps[calls[k].node]) + 1
      /\ DOMAIN stack = 1 .. l
  <2>1. DOMAIN stack = 1 .. l
    BY <1>1, <1>k DEF SccTypes
  <2> QED
    BY <2>1, <1>k, ReturnCall
<1>v. PICK v \in DOMAIN meta, o \in Nat : /\ v = calls[k].node /\ o = calls[k].offset
                                          /\ o + 1 \in 1 .. l /\ stack[o + 1] = v
  BY <1>2, CallFacts
<1>3. meta[v].index # meta[v].low
  BY <1>2, <1>v
<1>u. UNCHANGED <<graph, index, stack, keys, components>> /\ Nodes' = Nodes
  <2>1. UNCHANGED <<graph, index, stack, components>>
    BY DEF Return
  <2>2. keys' = [n \in DOMAIN keys \cup ToSet(<<>>) |->
                   IF n \in DOMAIN keys THEN keys[n] ELSE Len(components) + 1]
    BY Zenon DEF Return
  <2>3. keys' = keys
    <3>1. ToSet(<<>>) = {}
      BY DEF ToSet
    <3>2. keys = [n \in DOMAIN keys |-> keys[n]]
      BY <1>1 DEF SccTypes
    <3>3. DOMAIN keys \cup ToSet(<<>>) = DOMAIN keys
      BY <3>1
    <3> QED
      BY <2>2, <3>2, <3>3
  <2> QED
    BY <2>1, <2>3 DEF Nodes
<1>c. /\ calls' \in Seq([node : Nodes, offset : Nat, next : Nat])
      /\ Len(calls') = k - 1 /\ DOMAIN calls' = 1 .. k - 1
      /\ \A i \in 1 .. k - 1 : /\ calls'[i].node = calls[i].node
                               /\ calls'[i].offset = calls[i].offset
                               /\ i # k - 1 => calls'[i] = calls[i]
      /\ k > 1 => calls'[k - 1].next = calls[k - 1].next + 1
  BY <1>k, ReturnCalls
\* The node of lower index that the node of the call reaches.
<1>q. PICK q \in 1 .. l : /\ meta[stack[q]].index = meta[v].low /\ stack[q] \in Reach(graph, v)
                          /\ q <= o
  <2>1. meta[v].low <= meta[v].index
    BY <1>1, <1>2, <1>v DEF LowReached
  <2>2. PICK q \in 1 .. l : meta[stack[q]].index = meta[v].low /\ stack[q] \in Reach(graph, v)
    BY <1>1, <1>2, <1>v DEF LowReached
  <2>3. meta[v].low \in Nat /\ meta[v].index \in Nat
    BY <1>v, MetaFacts
  <2>4. ~ (o + 1 < q) /\ o + 1 # q
    BY <2>1, <2>2, <2>3, <1>1, <1>2, <1>3, <1>v DEF StackByIndex
  <2>5. q <= o
    BY <2>4, <1>v
  <2> QED
    BY <2>2, <2>5
<1>4. k > 1
  <2>1. k = 1 => o = 0
    BY <1>1, <1>2, <1>v, EmptySeq DEF CallsOnStack
  <2> QED
    BY <2>1, <1>2, <1>q
<1>w. PICK w \in DOMAIN meta, b \in Nat :
        /\ w = calls[k - 1].node /\ b = calls[k - 1].offset /\ k - 1 \in DOMAIN calls
        /\ b + 1 \in 1 .. l /\ stack[b + 1] = w /\ b < o
  <2>1. k - 1 \in DOMAIN calls
    BY <1>2, <1>4
  <2>2. calls[k - 1].offset < calls[k].offset
    BY <2>1, <1>1, <1>2 DEF CallsOnStack
  <2> QED
    BY <2>1, <2>2, <1>2, <1>v, CallFacts
<1>m. /\ DOMAIN meta' = DOMAIN meta
      /\ meta' \in [DOMAIN meta -> [index : Nat, low : Nat, onStack : BOOLEAN]]
      /\ \A n \in DOMAIN meta : /\ meta'[n].index = meta[n].index
                                /\ meta'[n].onStack <=> meta[n].onStack
                                /\ n # w => meta'[n].low = meta[n].low
      /\ meta'[w].low = IF meta[w].low <= meta[v].low THEN meta[w].low ELSE meta[v].low
  <2>1. Popped = {}
    BY <1>2, <1>3, <1>v DEF Popped, ToSet
  <2>2. DOMAIN meta' = DOMAIN meta
        /\ meta' \in [DOMAIN meta -> [index : Nat, low : Nat, onStack : BOOLEAN]]
    BY <1>k, ReturnMeta
  <2>3. \A n \in DOMAIN meta :
          /\ meta'[n].index = meta[n].index
          /\ meta'[n].onStack <=> meta[n].onStack /\ n \notin Popped
    BY <1>k, ReturnMeta
  <2>4. \A n \in DOMAIN meta : (k = 1 \/ n # calls[k - 1].node) => meta'[n].low = meta[n].low
    BY <1>k, ReturnLow
  <2>5. k > 1 => meta'[calls[k - 1].node].low =
                   IF meta[calls[k - 1].node].low <= meta[calls[k].node].low
                   THEN meta[calls[k - 1].node].low ELSE meta[calls[k].node].low
    BY <1>k, ReturnMeta
  <2>6. \A n \in DOMAIN meta : n # w => meta'[n].low = meta[n].low
    BY <2>4, <1>w
  <2>7. meta'[w].low = IF meta[w].low <= meta[v].low THEN meta[w].low ELSE meta[v].low
    BY <2>5, <1>v, <1>w, <1>4
  <2> QED
    BY <2>1, <2>2, <2>3, <2>6, <2>7
<1>n. /\ \A n \in DOMAIN meta : meta'[n].low \in Nat /\ meta'[n].low <= meta[n].low
                                /\ meta[n].low \in Nat /\ meta[n].index \in Nat
      /\ meta'[w].low <= meta[v].low
  <2>1. \A n \in DOMAIN meta : meta[n].low \in Nat /\ meta[n].index \in Nat
    BY MetaFacts
  <2> QED
    BY <2>1, <1>m, <1>v, <1>w
<1>s. /\ \A i \in 1 .. k - 1 : i # k - 1 => SegmentEnd(i)' = SegmentEnd(i) /\ Segment(i)' = Segment(i)
      /\ SegmentEnd(k - 1)' = l /\ SegmentEnd(k - 1) = o /\ SegmentEnd(k) = l
      /\ Segment(k - 1)' = b + 1 .. l /\ Segment(k - 1) = b + 1 .. o /\ Segment(k) = o + 1 .. l
  <2>1. ASSUME NEW i \in 1 .. k - 1, i # k - 1
        PROVE  SegmentEnd(i)' = SegmentEnd(i)
    <3>1. i + 1 \in 1 .. k - 1 /\ i # k
      BY <2>1, <1>k
    <3> QED
      BY <3>1, <2>1, <1>c, <1>k DEF SegmentEnd
  <2>2. SegmentEnd(k - 1)' = l
    BY <1>c, <1>u, <1>k DEF SegmentEnd
  <2>3. SegmentEnd(k - 1) = o /\ SegmentEnd(k) = l
    BY <1>k, <1>v DEF SegmentEnd
  <2>4. k - 1 \in 1 .. k - 1
    BY <1>4, <1>k
  <2> QED
    BY <2>1, <2>2, <2>3, <2>4, <1>c, <1>v, <1>w DEF Segment
<1>5. IsGraph' /\ SccTypes'
  BY <1>1, <1>c, <1>m, <1>u DEF SccTypes, IsGraph
<1>6. StackByIndex'
  <2>1. \A p \in DOMAIN stack : stack[p] \in DOMAIN meta
    BY <1>1 DEF StackByIndex, ToSet
  <2> QED
    BY <2>1, <1>1, <1>m, <1>u DEF StackByIndex
<1>7. CallsOnStack'
  <2>1. ASSUME NEW i \in 1 .. k - 1
        PROVE  /\ calls'[i].offset < Len(stack')
               /\ stack'[calls'[i].offset + 1] = calls'[i].node
               /\ calls'[i].next \in 1 .. Len(graph'.deps[calls'[i].node]) + 1
               /\ i < Len(calls') => /\ calls'[i].next <= Len(graph'.deps[calls'[i].node])
                                     /\ graph'.deps[calls'[i].node][calls'[i].next] = calls'[i + 1].node
    <3>1. i \in DOMAIN calls /\ i < k
      BY <1>2, <1>k
    <3>2. calls[i].offset < Len(stack) /\ stack[calls[i].offset + 1] = calls[i].node
      BY <3>1, <1>1 DEF CallsOnStack
    <3>3. calls[i].next \in 1 .. Len(graph.deps[calls[i].node])
          /\ graph.deps[calls[i].node][calls[i].next] = calls[i + 1].node
      BY <3>1, <1>1, <1>k, CallFacts DEF CallsOnStack
    <3>4. calls'[i].next \in 1 .. Len(graph.deps[calls[i].node]) + 1
      <4>1. calls'[i].next = calls[i].next \/ calls'[i].next = calls[i].next + 1
        BY <1>c, <1>4
      <4>2. calls[i].next \in Nat /\ Len(graph.deps[calls[i].node]) \in Nat
        <5>1. calls[i].next \in Nat /\ calls[i].node \in Nodes
          BY <3>1, CallFacts
        <5> QED
          BY <5>1, <1>1 DEF IsGraph
      <4>3. PICK x \in Nat, n \in Nat : x = calls[i].next /\ n = Len(graph.deps[calls[i].node])
        BY <4>2
      <4>4. x + 1 \in 1 .. n + 1 /\ x \in 1 .. n + 1
        BY <3>3, <4>3
      <4> QED
        BY <4>1, <4>3, <4>4
    <3>5. i < k - 1 => calls'[i] = calls[i] /\ calls'[i + 1].node = calls[i + 1].node
      <4>1. i < k - 1 => i + 1 \in 1 .. k - 1 /\ i # k - 1
        BY <1>k
      <4> QED
        BY <4>1, <1>c
    <3>6. calls'[i].node = calls[i].node /\ calls'[i].offset = calls[i].offset
      BY <1>c
    <3>7. i < k - 1 => /\ calls'[i].next <= Len(graph.deps[calls[i].node])
                       /\ graph.deps[calls[i].node][calls'[i].next] = calls'[i + 1].node
      BY <3>3, <3>5
    <3> QED
      BY <3>2, <3>4, <3>6, <3>7, <1>c, <1>u
  <2>2. calls' # <<>> /\ calls'[1].offset = 0
    BY <1>1, <1>2, <1>4, <1>c, EmptySeq DEF CallsOnStack
  <2>3. \A i, j \in 1 .. k - 1 : i < j => calls'[i].offset < calls'[j].offset
    <3>1. \A i \in 1 .. k - 1 : i \in DOMAIN calls
      BY <1>2, <1>k
    <3> QED
      BY <3>1, <1>1, <1>c DEF CallsOnStack
  <2> QED
    BY <2>1, <2>2, <2>3, <1>c DEF CallsOnStack
<1>8. StackConnected'
  <2>1. ASSUME NEW i \in 1 .. k - 1, NEW p \in 1 .. l
        PROVE  /\ p > calls[i].offset => stack[p] \in Reach(graph, calls[i].node)
               /\ p <= SegmentEnd(i)' => calls[i].node \in Reach(graph, stack[p])
    <3>1. \A j \in 1 .. k, r \in 1 .. l :
            /\ r > calls[j].offset => stack[r] \in Reach(graph, calls[j].node)
            /\ r <= SegmentEnd(j) => calls[j].node \in Reach(graph, stack[r])
      BY <1>1, <1>2 DEF StackConnected
    <3>2. i \in 1 .. k
      BY <1>k
    <3>3. CASE i = k - 1 /\ p > o
      <4>1. v \in Reach(graph, stack[p])
        BY <3>1, <1>2, <1>s, <1>v
      <4>2. w \in Reach(graph, stack[q])
        BY <3>1, <1>q, <1>s, <1>v, <1>w, <1>2
      <4>3. w \in Reach(graph, stack[p])
        BY <4>1, <4>2, <1>q, ReachTrans
      <4> QED
        BY <3>1, <3>2, <3>3, <4>3, <1>w
    <3>4. CASE ~ (i = k - 1 /\ p > o)
      <4>1. p <= SegmentEnd(i)' => p <= SegmentEnd(i)
        BY <3>4, <1>s, <1>v
      <4> QED
        BY <4>1, <3>1, <3>2
    <3> QED
      BY <3>3, <3>4
  <2> QED
    BY <2>1, <1>2, <1>c, <1>u DEF StackConnected
<1>9. LowReached'
  <2>1. ASSUME NEW i \in 1 .. k - 1
        PROVE  /\ meta'[calls[i].node].low <= meta'[calls[i].node].index
               /\ \E p \in DOMAIN stack : /\ meta'[stack[p]].index = meta'[calls[i].node].low
                                          /\ stack[p] \in Reach(graph, calls[i].node)
    <3>1. i \in DOMAIN calls
      BY <1>2, <1>k
    <3>2. PICK n \in DOMAIN meta : n = calls[i].node
      BY <3>1, CallFacts
    <3>3. meta[n].low <= meta[n].index
      BY <3>1, <3>2, <1>1 DEF LowReached
    <3>4. PICK p \in DOMAIN stack : meta[stack[p]].index = meta[n].low /\ stack[p] \in Reach(graph, n)
      BY <3>1, <3>2, <1>1 DEF LowReached
    <3>5. \A r \in DOMAIN stack : stack[r] \in DOMAIN meta
      BY <1>1 DEF StackByIndex, ToSet
    <3>6. meta'[n].low <= meta'[n].index
      BY <3>3, <1>m, <1>n
    <3>7. CASE meta'[n].low = meta[n].low
      BY <3>2, <3>4, <3>5, <3>6, <3>7, <1>m
    <3>8. CASE meta'[n].low # meta[n].low
      <4>1. n = w /\ meta'[n].low = meta[v].low
        BY <3>8, <1>m
      <4>2. v \in Reach(graph, w)
        <5>1. \A x \in DOMAIN stack : x > calls[k - 1].offset => stack[x] \in Reach(graph, w)
          BY <1>1, <1>w DEF StackConnected
        <5> QED
          BY <5>1, <1>2, <1>v, <1>w
      <4>3. stack[q] \in Reach(graph, n) /\ q \in DOMAIN stack
        BY <4>1, <4>2, <1>2, <1>q, ReachTrans
      <4>4. meta'[stack[q]].index = meta'[n].low
        BY <4>1, <4>3, <3>5, <1>q, <1>m
      <4> QED
        BY <3>2, <3>6, <4>3, <4>4
    <3> QED
      BY <3>7, <3>8
  <2> QED
    BY <2>1, <1>c, <1>u DEF LowReached
<1>10. LowCovers'
  <2>1. ASSUME NEW i \in 1 .. k - 1, NEW p \in Segment(i)', NEW j \in DOMAIN graph.deps[stack[p]],
               p = calls[i].offset + 1 => j < calls'[i].next
        PROVE  /\ graph.deps[stack[p]][j] \in DOMAIN meta'
               /\ meta'[graph.deps[stack[p]][j]].onStack =>
                    meta'[calls[i].node].low <= meta'[graph.deps[stack[p]][j]].index
    <3>1. i \in DOMAIN calls
      BY <1>2, <1>k
    <3>2. PICK n \in DOMAIN meta : n = calls[i].node
      BY <3>1, CallFacts
    <3>3. PICK e : e = graph.deps[stack[p]][j]
      OBVIOUS
    <3>4. SUFFICES e \in DOMAIN meta /\ (meta[e].onStack => meta'[n].low <= meta[e].index)
      BY <3>2, <3>3, <1>m
    <3>5. CASE p \in Segment(i) /\ (p = calls[i].offset + 1 => j < calls[i].next)
      <4>1. e \in DOMAIN meta /\ (meta[e].onStack => meta[n].low <= meta[e].index)
        BY <3>1, <3>2, <3>3, <3>5, <1>1 DEF LowCovers
      <4> QED
        BY <4>1, <1>n
    <3>6. CASE p \notin Segment(i)
      <4>1. i = k - 1 /\ p \in Segment(k)
        BY <2>1, <3>6, <1>s, <1>v
      <4>2. p = calls[k].offset + 1 => j < calls[k].next
        <5>1. v \in Nodes
          BY <1>v, MetaFacts
        <5>2. graph.deps[v] \in Seq(Nodes)
          BY <5>1, <1>1 DEF IsGraph
        <5> QED
          BY <5>2, <1>2, <1>v
      <4>3. e \in DOMAIN meta /\ (meta[e].onStack => meta[v].low <= meta[e].index)
        BY <4>1, <4>2, <3>3, <1>1, <1>2, <1>v DEF LowCovers
      <4>4. n = w
        BY <4>1, <3>2, <1>w
      <4> QED
        BY <4>3, <4>4, <1>n, <1>v
    <3>7. CASE p = calls[i].offset + 1 /\ ~ (j < calls[i].next)
      <4>1. i = k - 1 /\ p = b + 1 /\ stack[p] = w
        BY <2>1, <3>7, <1>c, <1>w
      <4>2. graph.deps[w] \in Seq(Nodes)
        BY <1>1, <1>w, MetaFacts DEF IsGraph
      <4>3. calls[i].next \in Nat /\ calls'[i].next = calls[i].next + 1
        BY <4>1, <3>1, <1>c, <1>4, CallFacts
      <4>4. j = calls[i].next
        BY <2>1, <3>7, <4>1, <4>2, <4>3
      <4>5. graph.deps[w][calls[i].next] = v
        <5>1. k - 1 \in DOMAIN calls /\ k - 1 < Len(calls) /\ (k - 1) + 1 = k
          BY <1>k, <1>w
        <5> QED
          BY <4>1, <5>1, <1>1, <1>v, <1>w DEF CallsOnStack
      <4>6. e = v /\ n = w
        BY <4>1, <4>4, <4>5, <3>2, <3>3, <1>w
      <4>7. meta[v].low <= meta[v].index
        BY <1>1, <1>2, <1>v DEF LowReached
      <4> QED
        BY <4>6, <4>7, <1>n, <1>v
    <3> QED
      BY <3>5, <3>6, <3>7
  <2>2. ASSUME NEW i \in DOMAIN calls', NEW p \in Segment(i)', NEW j \in DOMAIN graph'.deps[stack'[p]],
               p = calls'[i].offset + 1 => j < calls'[i].next
        PROVE  /\ graph'.deps[stack'[p]][j] \in DOMAIN meta'
               /\ meta'[graph'.deps[stack'[p]][j]].onStack =>
                    meta'[calls'[i].node].low <= meta'[graph'.deps[stack'[p]][j]].index
    <3>1. i \in 1 .. k - 1 /\ j \in DOMAIN graph.deps[stack[p]]
          /\ calls'[i].offset = calls[i].offset /\ calls'[i].node = calls[i].node
      BY <2>2, <1>c, <1>u
    <3> QED
      BY <3>1, <2>1, <2>2, <1>u
  <2> QED
    BY <2>2 DEF LowCovers
<1>11. ComponentsClosed'
  BY <1>1, <1>m, <1>u DEF ComponentsClosed
<1> QED
  BY <1>5, <1>6, <1>7, <1>8, <1>9, <1>10, <1>11 DEF SccInv

\* The node of the call is the first of its component: its segment becomes one.
LEMMA ReturnRoot ==
  ASSUME SccInv, Return, meta[Call.node].index = meta[Call.node].low
  PROVE  SccInv'
<1>1. IsGraph /\ SccTypes /\ StackByIndex /\ CallsOnStack /\ StackConnected /\ LowReached /\ LowCovers
      /\ ComponentsClosed
  BY DEF SccInv
<1>l. \E k, l, c \in Nat : k = Len(calls) /\ l = Len(stack) /\ c = Len(components) + 1
  <2>1. Len(calls) \in Nat /\ Len(stack) \in Nat /\ Len(components) + 1 \in Nat
    BY <1>1 DEF SccTypes
  <2> QED
    BY <2>1
<1>k. PICK k, l, c \in Nat : k = Len(calls) /\ l = Len(stack) /\ c = Len(components) + 1
  BY <1>l
<1>2. /\ k \in DOMAIN calls /\ k > 0 /\ Call = calls[k] /\ DOMAIN calls = 1 .. k
      /\ calls[k].next = Len(graph.deps[calls[k].node]) + 1
      /\ stack \in Seq(Nodes) /\ DOMAIN stack = 1 .. l
      /\ components \in Seq([members : Seq(Nodes), deps : SUBSET Nat]) /\ DOMAIN components = 1 .. c - 1
  <2>1. /\ stack \in Seq(Nodes) /\ DOMAIN stack = 1 .. l
        /\ components \in Seq([members : Seq(Nodes), deps : SUBSET Nat])
        /\ DOMAIN components = 1 .. c - 1
    BY <1>1, <1>k DEF SccTypes
  <2> QED
    BY <2>1, <1>k, ReturnCall
<1>v. PICK v \in DOMAIN meta, o \in Nat : /\ v = calls[k].node /\ o = calls[k].offset
                                          /\ o + 1 \in 1 .. l /\ stack[o + 1] = v
  BY <1>2, CallFacts
<1>i. /\ \A i \in 1 .. k - 1 : i \in DOMAIN calls /\ k \in DOMAIN calls /\ i < k /\ i # k
      /\ \A p \in o + 1 .. l : p \in DOMAIN stack /\ p > o
      /\ \A p \in 1 .. o : p \in DOMAIN stack /\ ~ (p > o)
  <2>1. \A i \in 1 .. k - 1 : i \in 1 .. k /\ i < k /\ i # k
    BY <1>k
  <2>2. \A p \in o + 1 .. l : p \in 1 .. l /\ p > o
    BY <1>k, <1>v
  <2>3. \A p \in 1 .. o : p \in 1 .. l /\ ~ (p > o)
    BY <1>k, <1>v
  <2> QED
    BY <2>1, <2>2, <2>3, <1>2
<1>3. meta[v].index = meta[v].low
  BY <1>2, <1>v
<1>4. \A p \in 1 .. l : stack[p] \in DOMAIN meta /\ stack[p] \in Nodes /\ meta[stack[p]].index \in Nat
  <2>1. \A p \in 1 .. l : stack[p] \in DOMAIN meta
    BY <1>1, <1>2 DEF StackByIndex, ToSet
  <2> QED
    BY <2>1, MetaFacts
\* What is cut off.
<1>M. PICK M, S : M = SubSeq(stack, o + 1, l) /\ S = ToSet(M)
  OBVIOUS
<1>5. /\ M \in Seq(Nodes) /\ Len(M) = l - o /\ M # <<>> /\ DOMAIN M = 1 .. l - o
      /\ \A i \in 1 .. l - o : M[i] = stack[o + i]
  <2>1. \A i \in o + 1 .. l : stack[i] \in Nodes
    BY <1>4, <1>v
  <2>2. o + 1 \in Int /\ l \in Int
    BY <1>v, <1>k
  <2>3. /\ SubSeq(stack, o + 1, l) \in Seq(Nodes)
        /\ Len(SubSeq(stack, o + 1, l)) = IF o + 1 <= l THEN l - (o + 1) + 1 ELSE 0
        /\ \A i \in 1 .. l - (o + 1) + 1 : SubSeq(stack, o + 1, l)[i] = stack[o + 1 + i - 1]
    BY <2>1, <2>2, SubSeqProperties
  <2>4. Len(M) = l - o /\ M \in Seq(Nodes) /\ l - o > 0
    <3>1. l \in Int /\ o \in Int /\ o + 1 <= l
      BY <1>v, <1>k
    <3>2. l - (o + 1) + 1 = l - o /\ l - o > 0
      BY <3>1
    <3>3. M = SubSeq(stack, o + 1, l)
      BY <1>M
    <3> QED
      BY <2>3, <3>1, <3>2, <3>3
  <2>5. ASSUME NEW i \in 1 .. l - o
        PROVE  M[i] = stack[o + i]
    <3>1. l \in Int /\ o \in Int
      OBVIOUS
    <3>2. l - (o + 1) + 1 = l - o
      BY <3>1
    <3>3. i \in Int
      BY <3>1
    <3>4. o + 1 + i - 1 = o + i
      BY <3>1, <3>3
    <3> QED
      BY <3>2, <3>4, <2>3, <1>M
  <2>6. DOMAIN M = 1 .. l - o /\ M # <<>>
    BY <2>4, EmptySeq
  <2> QED
    BY <2>4, <2>5, <2>6
<1>6. S = {stack[p] : p \in o + 1 .. l}
  <2>1. S = {M[i] : i \in 1 .. l - o}
    BY <1>M, <1>5 DEF ToSet
  <2>2. \A i \in 1 .. l - o : o + i \in o + 1 .. l
    BY <1>v
  <2>3. \A p \in o + 1 .. l : p - o \in 1 .. l - o /\ o + (p - o) = p
    BY <1>v
  <2>4. ASSUME NEW i \in 1 .. l - o
        PROVE  M[i] \in {stack[p] : p \in o + 1 .. l}
    <3>1. M[i] = stack[o + i] /\ o + i \in o + 1 .. l
      BY <2>2, <1>5
    <3> QED
      BY <3>1
  <2>5. ASSUME NEW p \in o + 1 .. l
        PROVE  stack[p] \in {M[i] : i \in 1 .. l - o}
    <3>1. PICK i \in 1 .. l - o : o + i = p
      BY <2>3
    <3>2. M[i] = stack[p]
      BY <3>1, <1>5
    <3> QED
      BY <3>2
  <2> QED
    BY <2>1, <2>4, <2>5
<1>7. \A p, q \in 1 .. l : p # q => stack[p] # stack[q]
  <2>1. SUFFICES ASSUME NEW p \in 1 .. l, NEW q \in 1 .. l, p # q
                 PROVE  stack[p] # stack[q]
    OBVIOUS
  <2>2. p < q \/ q < p
    BY <2>1
  <2>3. meta[stack[p]].index < meta[stack[q]].index \/ meta[stack[q]].index < meta[stack[p]].index
    BY <2>2, <1>1, <1>2 DEF StackByIndex
  <2> QED
    BY <2>3, <1>4
<1>8. \A p \in 1 .. l : stack[p] \in S <=> p > o
  BY <1>6, <1>7, <1>v
<1>9. v \in S
  BY <1>8, <1>v
<1>p. Popped = S
  BY <1>2, <1>3, <1>k, <1>v, <1>M DEF Popped
\* The state after the return.
<1>u. UNCHANGED <<graph, index>> /\ Nodes' = Nodes
  BY DEF Return, Nodes
<1>s. /\ stack' \in Seq(Nodes) /\ Len(stack') = o /\ DOMAIN stack' = 1 .. o
      /\ \A p \in 1 .. o : p \in 1 .. l /\ stack'[p] = stack[p]
  <2>1. stack' = SubSeq(stack, 1, o)
    BY <1>2, <1>3, <1>v DEF Return
  <2>2. \A i \in 1 .. o : stack[i] \in Nodes
    BY <1>4, <1>v
  <2>3. /\ SubSeq(stack, 1, o) \in Seq(Nodes)
        /\ Len(SubSeq(stack, 1, o)) = IF 1 <= o THEN o - 1 + 1 ELSE 0
        /\ \A i \in 1 .. o - 1 + 1 : SubSeq(stack, 1, o)[i] = stack[1 + i - 1]
    BY <2>2, SubSeqProperties
  <2>4. stack' \in Seq(Nodes) /\ Len(stack') = o
    BY <2>1, <2>3
  <2>5. \A p \in 1 .. o : p \in 1 .. l /\ stack'[p] = stack[p]
    BY <2>1, <2>3, <1>v
  <2> QED
    BY <2>4, <2>5
<1>c. /\ calls' \in Seq([node : Nodes, offset : Nat, next : Nat])
      /\ Len(calls') = k - 1 /\ DOMAIN calls' = 1 .. k - 1
      /\ \A i \in 1 .. k - 1 : /\ calls'[i].node = calls[i].node
                               /\ calls'[i].offset = calls[i].offset
                               /\ i # k - 1 => calls'[i] = calls[i]
      /\ k > 1 => calls'[k - 1].next = calls[k - 1].next + 1
  BY <1>k, ReturnCalls
<1>m. /\ DOMAIN meta' = DOMAIN meta
      /\ meta' \in [DOMAIN meta -> [index : Nat, low : Nat, onStack : BOOLEAN]]
      /\ \A n \in DOMAIN meta : /\ meta'[n].index = meta[n].index
                                /\ meta'[n].onStack <=> meta[n].onStack /\ n \notin S
  <2>1. /\ DOMAIN meta' = DOMAIN meta
        /\ meta' \in [DOMAIN meta -> [index : Nat, low : Nat, onStack : BOOLEAN]]
    BY <1>k, ReturnMeta
  <2>2. \A n \in DOMAIN meta :
          /\ meta'[n].index = meta[n].index
          /\ meta'[n].onStack <=> meta[n].onStack /\ n \notin Popped
    BY <1>k, ReturnMeta
  <2> QED
    BY <2>1, <2>2, <1>p
<1>a. /\ DOMAIN keys' = DOMAIN keys \cup S
      /\ \A n \in DOMAIN keys : keys'[n] = keys[n]
      /\ \A n \in S : n \notin DOMAIN keys /\ keys'[n] = c
  <2>1. keys' = [n \in DOMAIN keys \cup S |-> IF n \in DOMAIN keys THEN keys[n] ELSE c]
    <3>1. keys' = [n \in DOMAIN keys \cup ToSet(IF meta[Call.node].index = meta[Call.node].low
                                                 THEN SubSeq(stack, Call.offset + 1, Len(stack))
                                                 ELSE <<>>)
                     |-> IF n \in DOMAIN keys THEN keys[n] ELSE Len(components) + 1]
      BY Zenon DEF Return
    <3> QED
      BY <3>1, <1>k, <1>p DEF Popped
  <2>2. \A n \in S : n \notin DOMAIN keys
    <3>1. \A n \in S : n \in ToSet(stack)
      BY <1>6, <1>i DEF ToSet
    <3> QED
      BY <3>1, <1>1 DEF StackByIndex
  <2> QED
    BY <2>1, <2>2
<1>d. /\ components' \in Seq([members : Seq(Nodes), deps : SUBSET Nat])
      /\ Len(components') = c /\ DOMAIN components' = 1 .. c
      /\ \A i \in 1 .. c - 1 : components'[i] = components[i]
      /\ components'[c] = [members |-> M, deps |-> DepsOf(Last(M), keys')]
  <2>1. components' = Append(components, [members |-> M, deps |-> DepsOf(Last(M), keys')])
    <3>1. components' = Append(components, [members |-> SubSeq(stack, Call.offset + 1, Len(stack)),
                                            deps |-> ComponentDeps(SubSeq(stack, Call.offset + 1, Len(stack)), keys')])
      BY <1>2, <1>3, <1>v DEF Return
    <3> QED
      BY <3>1, <1>2, <1>k, <1>v, <1>M DEF ComponentDeps
  <2>2. PICK D : D = DepsOf(Last(M), keys')
    OBVIOUS
  <2>3. D \subseteq Nat
    <3>1. \A n \in DOMAIN keys' : keys'[n] \in Nat
      BY <1>a, <1>1 DEF SccTypes
    <3> QED
      BY <2>2, <3>1 DEF DepsOf
  <2>4. [members |-> M, deps |-> D] \in [members : Seq(Nodes), deps : SUBSET Nat]
    BY <2>3, <1>5
  <2>5. /\ components' \in Seq([members : Seq(Nodes), deps : SUBSET Nat])
        /\ Len(components') = Len(components) + 1
        /\ \A i \in 1 .. Len(components) : components'[i] = components[i]
        /\ components'[Len(components) + 1] = [members |-> M, deps |-> D]
    BY <2>1, <2>2, <2>4, <1>2, AppendProperties
  <2> QED
    BY <2>2, <2>5, <1>k
<1>w. ASSUME k > 1
      PROVE  /\ SegmentEnd(k - 1)' = o /\ SegmentEnd(k - 1) = o
             /\ k - 1 \in DOMAIN calls /\ calls[k - 1].offset < o
             /\ graph.deps[calls[k - 1].node][calls[k - 1].next] = v
  <2>1. k - 1 \in DOMAIN calls /\ k - 1 < Len(calls) /\ (k - 1) + 1 = k
    BY <1>w, <1>2, <1>k
  <2>2. SegmentEnd(k - 1)' = o /\ SegmentEnd(k - 1) = o
    <3>1. SegmentEnd(k - 1)' = o
      BY <1>c, <1>s DEF SegmentEnd
    <3>2. SegmentEnd(k - 1) = o
      BY <2>1, <1>v DEF SegmentEnd
    <3> QED
      BY <3>1, <3>2
  <2>3. calls[k - 1].offset < o
    BY <2>1, <1>1, <1>2, <1>k, <1>v DEF CallsOnStack
  <2>4. graph.deps[calls[k - 1].node][calls[k - 1].next] = v
    BY <2>1, <1>1, <1>v DEF CallsOnStack
  <2> QED
    BY <2>1, <2>2, <2>3, <2>4
<1>e. \A i \in 1 .. k - 1 : /\ i \in DOMAIN calls /\ calls[i].offset < o
                            /\ SegmentEnd(i)' = SegmentEnd(i) /\ Segment(i)' = Segment(i)
                            /\ SegmentEnd(i) <= o
  <2>1. SUFFICES ASSUME NEW i \in 1 .. k - 1
                 PROVE  /\ i \in DOMAIN calls /\ calls[i].offset < o
                        /\ SegmentEnd(i)' = SegmentEnd(i) /\ SegmentEnd(i) <= o
    BY <1>c DEF Segment
  <2>2. i \in DOMAIN calls /\ calls[i].offset < o
    BY <1>1, <1>i, <1>v DEF CallsOnStack
  <2>3. CASE i = k - 1
    BY <2>2, <2>3, <1>w, <1>k
  <2>4. CASE i # k - 1
    <3>1. i + 1 \in 1 .. k - 1 /\ i # k /\ i + 1 \in DOMAIN calls
      <4>1. i + 1 \in 1 .. k - 1 /\ i # k /\ i + 1 \in 1 .. k
        BY <2>4, <1>k
      <4> QED
        BY <4>1, <1>2
    <3>2. calls[i + 1].offset < o
      BY <3>1, <1>1, <1>i, <1>v DEF CallsOnStack
    <3>3. calls[i + 1].offset \in Nat
      BY <3>1, CallFacts
    <3>4. SegmentEnd(i) = calls[i + 1].offset
      BY <3>1, <1>k DEF SegmentEnd
    <3>5. SegmentEnd(i)' = calls'[i + 1].offset
      BY <2>4, <1>c DEF SegmentEnd
    <3>6. calls'[i + 1].offset = calls[i + 1].offset
      BY <3>1, <1>c
    <3> QED
      BY <2>2, <3>2, <3>3, <3>4, <3>5, <3>6, <1>v
  <2> QED
    BY <2>3, <2>4
<1>n. \A i \in 1 .. k - 1 : /\ calls[i].node \in DOMAIN meta
                            /\ meta'[calls[i].node].low = meta[calls[i].node].low
                            /\ meta[calls[i].node].index < meta[v].index
  <2>1. ASSUME NEW i \in 1 .. k - 1
        PROVE  /\ calls[i].node \in DOMAIN meta
               /\ meta'[calls[i].node].low = meta[calls[i].node].low
               /\ meta[calls[i].node].index < meta[v].index
    <3>1. i \in DOMAIN calls /\ calls[i].offset < o
      BY <1>e
    <3>2. PICK n \in DOMAIN meta : n = calls[i].node
      BY <3>1, CallFacts
    <3>3. calls[i].offset + 1 \in 1 .. l /\ stack[calls[i].offset + 1] = n /\ calls[i].offset + 1 < o + 1
      BY <3>1, <3>2, <1>2, <1>v, CallFacts
    <3>4. meta[n].index < meta[v].index
      BY <3>3, <1>1, <1>2, <1>v DEF StackByIndex
    <3>5. CASE i # k - 1
      <4>1. k - 1 \in DOMAIN calls /\ i # k - 1
        <5>1. k - 1 \in 1 .. k
          BY <1>k
        <5> QED
          BY <3>5, <5>1, <1>2
      <4>2. n # calls[k - 1].node
        BY <3>1, <3>2, <4>1, CallFacts
      <4>3. meta'[n].low = meta[n].low
        <5>1. \A x \in DOMAIN meta : (k = 1 \/ x # calls[k - 1].node) => meta'[x].low = meta[x].low
          BY <1>k, ReturnLow
        <5> QED
          BY <5>1, <4>2
      <4> QED
        BY <3>2, <3>4, <4>3
    <3>6. CASE i = k - 1
      <4>1. k > 1 /\ n = calls[k - 1].node
        BY <3>2, <3>6, <1>k
      <4>2. meta'[calls[k - 1].node].low =
              IF meta[calls[k - 1].node].low <= meta[calls[k].node].low
              THEN meta[calls[k - 1].node].low ELSE meta[calls[k].node].low
        BY <4>1, <1>k, ReturnMeta
      <4>3. meta[n].low <= meta[n].index
        BY <3>1, <3>2, <1>1 DEF LowReached
      <4>4. meta[n].low \in Nat /\ meta[n].index \in Nat /\ meta[v].low \in Nat
        BY <1>v, MetaFacts
      <4>5. meta[n].low <= meta[v].low
        BY <3>4, <4>3, <4>4, <1>3
      <4> QED
        BY <3>2, <3>4, <4>1, <4>2, <4>5, <1>v
    <3> QED
      BY <3>5, <3>6
  <2> QED
    BY <2>1
\* What the component depends on is in it or in one before.
<1>f. ASSUME NEW n \in S, NEW e \in Deps(graph, n)
      PROVE  e \in DOMAIN keys' /\ keys'[e] <= c
  <2>1. PICK p \in o + 1 .. l : n = stack[p]
    BY <1>6
  <2>2. n \in Nodes /\ p \in 1 .. l
    BY <2>1, <1>4, <1>v
  <2>3. graph.deps[n] \in Seq(Nodes)
    BY <2>2, <1>1 DEF IsGraph
  <2>4. PICK j \in DOMAIN graph.deps[n] : e = graph.deps[n][j]
    BY DEF Deps, ToSet
  <2>5. p = calls[k].offset + 1 => j < calls[k].next
    BY <2>1, <2>3, <1>2, <1>v
  <2>6. p \in Segment(k)
    BY <2>1, <1>k, <1>v DEF Segment, SegmentEnd
  <2>7. e \in DOMAIN meta /\ (meta[e].onStack => meta[v].low <= meta[e].index)
    BY <2>1, <2>4, <2>5, <2>6, <1>1, <1>2, <1>v DEF LowCovers
  <2>8. CASE meta[e].onStack
    <3>1. PICK r \in 1 .. l : e = stack[r]
      BY <2>7, <2>8, <1>2, MetaFacts
    <3>2. ~ (r < o + 1)
      <4>1. r < o + 1 => meta[e].index < meta[v].index
        BY <3>1, <1>1, <1>2, <1>v DEF StackByIndex
      <4>2. meta[e].index \in Nat /\ meta[v].index \in Nat
        BY <2>7, <1>v, MetaFacts
      <4> QED
        BY <4>1, <4>2, <2>7, <2>8, <1>3
    <3>3. e \in S
      BY <3>1, <3>2, <1>8, <1>v
    <3> QED
      BY <3>3, <1>a, <1>k
  <2>9. CASE ~ meta[e].onStack
    <3>1. e \in DOMAIN keys
      BY <2>7, <2>9, <1>1 DEF StackByIndex
    <3>2. keys[e] \in 1 .. c - 1
      BY <3>1, <1>1, <1>2 DEF ComponentsClosed
    <3> QED
      BY <3>1, <3>2, <1>a
  <2> QED
    BY <2>8, <2>9
<1>10. IsGraph' /\ SccTypes'
  <2>1. keys' \in [DOMAIN keys' -> Nat]
    <3>1. keys' = [n \in DOMAIN keys' |-> keys'[n]]
      <4>1. keys' = [n \in DOMAIN keys \cup ToSet(IF meta[Call.node].index = meta[Call.node].low
                                                   THEN SubSeq(stack, Call.offset + 1, Len(stack))
                                                   ELSE <<>>)
                       |-> IF n \in DOMAIN keys THEN keys[n] ELSE Len(components) + 1]
        BY Zenon DEF Return
      <4> QED
        BY <4>1
    <3>2. \A n \in DOMAIN keys' : keys'[n] \in Nat
      BY <1>a, <1>1 DEF SccTypes
    <3> QED
      BY <3>1, <3>2
  <2> QED
    BY <2>1, <1>1, <1>c, <1>d, <1>m, <1>s, <1>u DEF SccTypes, IsGraph
<1>11. StackByIndex'
  <2>1. ToSet(stack') = ToSet(stack) \ S
    <3>1. \A p \in 1 .. l : p \in 1 .. o <=> ~ (p > o)
      BY <1>k, <1>v
    <3>2. ToSet(stack) = {stack[p] : p \in 1 .. l}
      BY <1>2 DEF ToSet
    <3>3. ToSet(stack') = {stack[p] : p \in 1 .. o}
      BY <1>s DEF ToSet
    <3>4. \A p \in 1 .. o : p \in 1 .. l
      BY <1>s
    <3>5. \A p \in 1 .. l : stack[p] \in S <=> p \notin 1 .. o
      BY <3>1, <1>8
    <3> QED
      BY <3>2, <3>3, <3>4, <3>5
  <2>2. S \subseteq ToSet(stack)
    BY <1>6, <1>i DEF ToSet
  <2>3. DOMAIN meta' = ToSet(stack') \cup DOMAIN keys' /\ ToSet(stack') \cap DOMAIN keys' = {}
    BY <2>1, <2>2, <1>1, <1>a, <1>m DEF StackByIndex
  <2>4. \A n \in DOMAIN meta : /\ meta'[n].index < index'
                               /\ meta'[n].onStack <=> n \in ToSet(stack')
    BY <2>1, <1>1, <1>m, <1>u DEF StackByIndex
  <2>5. \A p, q \in 1 .. o : p < q => meta'[stack'[p]].index < meta'[stack'[q]].index
    <3>1. \A p \in 1 .. o : p \in DOMAIN stack /\ meta'[stack'[p]].index = meta[stack[p]].index
      BY <1>4, <1>i, <1>m, <1>s
    <3> QED
      BY <3>1, <1>1 DEF StackByIndex
  <2>6. index' > 0 => graph'.root \in DOMAIN meta'
    BY <1>1, <1>m, <1>u DEF StackByIndex
  <2> QED
    BY <2>3, <2>4, <2>5, <2>6, <1>m, <1>s DEF StackByIndex
<1>12. CallsOnStack'
  <2>1. ASSUME NEW i \in 1 .. k - 1
        PROVE  /\ calls'[i].offset < Len(stack')
               /\ stack'[calls'[i].offset + 1] = calls'[i].node
               /\ calls'[i].next \in 1 .. Len(graph'.deps[calls'[i].node]) + 1
               /\ i < Len(calls') => /\ calls'[i].next <= Len(graph'.deps[calls'[i].node])
                                     /\ graph'.deps[calls'[i].node][calls'[i].next] = calls'[i + 1].node
    <3>1. i \in DOMAIN calls /\ i < k /\ calls[i].offset < o
      BY <1>e, <1>k
    <3>2. stack'[calls[i].offset + 1] = calls[i].node
      <4>a. calls[i].offset \in Nat
        BY <3>1, CallFacts
      <4>1. calls[i].offset + 1 \in 1 .. o
        BY <3>1, <4>a, <1>v
      <4> QED
        BY <3>1, <4>1, <1>s, <1>1 DEF CallsOnStack
    <3>3. calls[i].next \in 1 .. Len(graph.deps[calls[i].node])
          /\ graph.deps[calls[i].node][calls[i].next] = calls[i + 1].node
      BY <3>1, <1>1, <1>k, CallFacts DEF CallsOnStack
    <3>4. calls'[i].next \in 1 .. Len(graph.deps[calls[i].node]) + 1
      <4>1. calls'[i].next = calls[i].next \/ calls'[i].next = calls[i].next + 1
        <5>1. k > 1 /\ (i = k - 1 \/ i # k - 1)
          BY <1>k
        <5> QED
          BY <5>1, <1>c
      <4>2. calls[i].next \in Nat /\ Len(graph.deps[calls[i].node]) \in Nat
        <5>1. calls[i].next \in Nat /\ calls[i].node \in Nodes
          BY <3>1, CallFacts
        <5> QED
          BY <5>1, <1>1 DEF IsGraph
      <4>3. PICK x \in Nat, n \in Nat : x = calls[i].next /\ n = Len(graph.deps[calls[i].node])
        BY <4>2
      <4>4. x + 1 \in 1 .. n + 1 /\ x \in 1 .. n + 1
        BY <3>3, <4>3
      <4> QED
        BY <4>1, <4>3, <4>4
    <3>5. i < k - 1 => calls'[i] = calls[i] /\ calls'[i + 1].node = calls[i + 1].node
      <4>1. i < k - 1 => i + 1 \in 1 .. k - 1 /\ i # k - 1
        BY <1>k
      <4> QED
        BY <4>1, <1>c
    <3>6. calls'[i].node = calls[i].node /\ calls'[i].offset = calls[i].offset
      BY <1>c
    <3>7. i < k - 1 => /\ calls'[i].next <= Len(graph.deps[calls[i].node])
                       /\ graph.deps[calls[i].node][calls'[i].next] = calls'[i + 1].node
      BY <3>3, <3>5
    <3> QED
      BY <3>1, <3>2, <3>4, <3>6, <3>7, <1>c, <1>s, <1>u
  <2>2. calls' = <<>> => stack' = <<>>
    <3>1. calls' = <<>> => k = 1
      BY <1>2, <1>c
    <3>2. k = 1 => o = 0
      BY <1>1, <1>2, <1>v, EmptySeq DEF CallsOnStack
    <3> QED
      BY <3>1, <3>2, <1>s, EmptySeq
  <2>3. calls' # <<>> => calls'[1].offset = 0
    <3>1. calls' # <<>> => k > 1
      <4>1. calls' # <<>> => Len(calls') \in Nat \ {0}
        BY <1>c, EmptySeq
      <4> QED
        BY <4>1, <1>c, <1>k
    <3>2. k > 1 => calls[1].offset = 0 /\ calls'[1].offset = calls[1].offset
      BY <1>1, <1>2, <1>c, EmptySeq DEF CallsOnStack
    <3> QED
      BY <3>1, <3>2
  <2>4. \A i, j \in 1 .. k - 1 : i < j => calls'[i].offset < calls'[j].offset
    BY <1>1, <1>e, <1>c DEF CallsOnStack
  <2> QED
    BY <2>1, <2>2, <2>3, <2>4, <1>c DEF CallsOnStack
<1>13. StackConnected'
  <2>1. ASSUME NEW i \in 1 .. k - 1, NEW p \in 1 .. o
        PROVE  /\ p > calls[i].offset => stack[p] \in Reach(graph, calls[i].node)
               /\ p <= SegmentEnd(i) => calls[i].node \in Reach(graph, stack[p])
    BY <1>1, <1>2, <1>e, <1>s DEF StackConnected
  <2> QED
    BY <2>1, <1>c, <1>e, <1>s, <1>u DEF StackConnected
<1>14. LowReached'
  <2>1. ASSUME NEW i \in 1 .. k - 1
        PROVE  /\ meta'[calls[i].node].low <= meta'[calls[i].node].index
               /\ \E p \in 1 .. o : /\ meta'[stack'[p]].index = meta'[calls[i].node].low
                                    /\ stack'[p] \in Reach(graph, calls[i].node)
    <3>1. i \in DOMAIN calls
      BY <1>e
    <3>2. PICK n \in DOMAIN meta : n = calls[i].node
      BY <1>n
    <3>3. meta[n].low <= meta[n].index
      BY <3>1, <3>2, <1>1 DEF LowReached
    <3>4. PICK p \in 1 .. l : meta[stack[p]].index = meta[n].low /\ stack[p] \in Reach(graph, n)
      BY <3>1, <3>2, <1>1, <1>2 DEF LowReached
    <3>5. meta[n].low \in Nat /\ meta[n].index \in Nat /\ meta[v].index \in Nat
      BY <1>v, MetaFacts
    <3>6. ~ (o + 1 < p) /\ o + 1 # p
      <4>1. meta[stack[p]].index < meta[v].index
        BY <3>2, <3>3, <3>4, <3>5, <1>n
      <4>2. o + 1 < p => meta[v].index < meta[stack[p]].index
        BY <1>1, <1>2, <1>v DEF StackByIndex
      <4> QED
        BY <4>1, <4>2, <3>4, <3>5, <1>v
    <3>7. p \in 1 .. o
      BY <3>6, <1>v
    <3>8. meta'[stack'[p]].index = meta[stack[p]].index /\ stack'[p] = stack[p]
      BY <3>7, <1>4, <1>m, <1>s
    <3>9. meta'[n].low = meta[n].low /\ meta'[n].index = meta[n].index
      BY <3>2, <1>m, <1>n
    <3> QED
      BY <3>2, <3>3, <3>4, <3>7, <3>8, <3>9
  <2> QED
    BY <2>1, <1>c, <1>s, <1>u DEF LowReached
<1>15. LowCovers'
  <2>1. ASSUME NEW i \in 1 .. k - 1, NEW p \in Segment(i), NEW j \in DOMAIN graph.deps[stack[p]],
               p = calls[i].offset + 1 => j < calls'[i].next
        PROVE  /\ graph.deps[stack[p]][j] \in DOMAIN meta'
               /\ meta'[graph.deps[stack[p]][j]].onStack =>
                    meta'[calls[i].node].low <= meta'[graph.deps[stack[p]][j]].index
    <3>1. i \in DOMAIN calls
      BY <1>e
    <3>2. PICK e : e = graph.deps[stack[p]][j]
      OBVIOUS
    <3>3. CASE p = calls[i].offset + 1 => j < calls[i].next
      <4>1. e \in DOMAIN meta /\ (meta[e].onStack => meta[calls[i].node].low <= meta[e].index)
        BY <3>1, <3>2, <3>3, <1>1 DEF LowCovers
      <4> QED
        BY <3>2, <4>1, <1>m, <1>n
    <3>4. CASE ~ (p = calls[i].offset + 1 => j < calls[i].next)
      <4>1. i = k - 1 /\ k > 1 /\ stack[p] = calls[i].node
        <5>1. p = calls[i].offset + 1 /\ ~ (j < calls[i].next) /\ j < calls'[i].next
          BY <2>1, <3>4
        <5>2. i = k - 1
          BY <5>1, <1>c
        <5>3. stack[p] = calls[i].node
          BY <5>1, <3>1, CallFacts
        <5> QED
          BY <5>2, <5>3, <1>k
      <4>2. graph.deps[calls[i].node] \in Seq(Nodes) /\ calls[i].next \in Nat
        BY <3>1, <1>1, CallFacts DEF IsGraph
      <4>3. j = calls[i].next
        <5>1. ~ (j < calls[i].next) /\ j < calls'[i].next
          BY <2>1, <3>4
        <5>2. calls'[i].next = calls[i].next + 1
          BY <4>1, <1>c
        <5>3. j \in Nat
          BY <4>1, <4>2
        <5> QED
          BY <5>1, <5>2, <5>3, <4>2
      <4>4. e = v
        BY <3>2, <4>1, <4>3, <1>w
      <4>5. ~ meta'[v].onStack /\ v \in DOMAIN meta'
        BY <1>9, <1>m, <1>v
      <4> QED
        BY <3>2, <4>4, <4>5
    <3> QED
      BY <3>3, <3>4
  <2>2. ASSUME NEW i \in DOMAIN calls', NEW p \in Segment(i)', NEW j \in DOMAIN graph'.deps[stack'[p]],
               p = calls'[i].offset + 1 => j < calls'[i].next
        PROVE  /\ graph'.deps[stack'[p]][j] \in DOMAIN meta'
               /\ meta'[graph'.deps[stack'[p]][j]].onStack =>
                    meta'[calls'[i].node].low <= meta'[graph'.deps[stack'[p]][j]].index
    <3>1. i \in 1 .. k - 1 /\ p \in Segment(i)
          /\ calls'[i].offset = calls[i].offset /\ calls'[i].node = calls[i].node
      BY <2>2, <1>c, <1>e
    <3>2. stack'[p] = stack[p]
      <4>1. i \in DOMAIN calls /\ SegmentEnd(i) <= o /\ SegmentEnd(i) \in Nat /\ calls[i].offset \in Nat
        BY <3>1, <1>e, CallFacts
      <4>2. p \in 1 .. o
        BY <3>1, <4>1, <1>v DEF Segment
      <4> QED
        BY <4>2, <1>s
    <3> QED
      BY <3>1, <3>2, <2>1, <2>2, <1>u
  <2> QED
    BY <2>2 DEF LowCovers
<1>16. ComponentsClosed'
  <2>1. \A n \in DOMAIN keys : keys[n] \in 1 .. c - 1 /\ keys'[n] \in 1 .. c - 1
                               /\ \A d \in Deps(graph, n) : d \in DOMAIN keys /\ keys[d] <= keys[n]
    BY <1>1, <1>2, <1>a DEF ComponentsClosed
  <2>2. ASSUME NEW n \in DOMAIN keys'
        PROVE  /\ keys'[n] \in 1 .. c
               /\ \A d \in Deps(graph, n) : d \in DOMAIN keys' /\ keys'[d] <= keys'[n]
    <3>1. CASE n \in DOMAIN keys
      BY <3>1, <2>1, <1>a, <1>k
    <3>2. CASE n \in S
      BY <3>2, <1>a, <1>f, <1>k
    <3> QED
      BY <3>1, <3>2, <1>a
  <2>3. ASSUME NEW m \in DOMAIN keys', NEW n \in DOMAIN keys', keys'[m] = keys'[n]
        PROVE  m \in Reach(graph, n)
    <3>1. CASE m \in DOMAIN keys /\ n \in DOMAIN keys
      BY <3>1, <2>3, <1>1, <1>a DEF ComponentsClosed
    <3>2. CASE m \in S /\ n \in S
      <4>1. PICK p \in o + 1 .. l, q \in o + 1 .. l : m = stack[p] /\ n = stack[q]
        BY <3>2, <1>6
      <4>2. p \in 1 .. l /\ q \in 1 .. l /\ p > o /\ SegmentEnd(k) = l
        BY <1>k, <1>v DEF SegmentEnd
      <4>0. \A x \in DOMAIN stack : /\ x > o => stack[x] \in Reach(graph, v)
                                    /\ x <= SegmentEnd(k) => v \in Reach(graph, stack[x])
        BY <1>1, <1>2, <1>v DEF StackConnected
      <4>3. m \in Reach(graph, v)
        <5>1. p \in DOMAIN stack /\ p > o
          BY <4>2, <1>2
        <5> QED
          BY <5>1, <4>0, <4>1
      <4>4. v \in Reach(graph, n)
        <5>1. q \in DOMAIN stack
          BY <4>2, <1>2
        <5>2. q <= SegmentEnd(k)
          BY <4>2, <1>k
        <5> QED
          BY <5>1, <5>2, <4>0, <4>1
      <4> QED
        BY <4>3, <4>4, ReachTrans
    <3>3. CASE ~ (m \in DOMAIN keys <=> n \in DOMAIN keys)
      <4>1. c \notin 1 .. c - 1
        BY <1>k
      <4> QED
        BY <3>3, <4>1, <2>1, <2>3, <1>a
    <3> QED
      BY <3>1, <3>2, <3>3, <1>a
  <2>4. \A n \in DOMAIN meta' : n \in Reach(graph, graph.root)
    BY <1>1, <1>m DEF ComponentsClosed
  <2>5. ASSUME NEW i \in 1 .. c
        PROVE  /\ components'[i].members # <<>>
               /\ ToSet(components'[i].members) = {n \in DOMAIN keys' : keys'[n] = i}
               /\ \A p, q \in DOMAIN components'[i].members :
                    p # q => components'[i].members[p] # components'[i].members[q]
               /\ components'[i].deps =
                    {keys'[d] : d \in {d \in Deps(graph, Last(components'[i].members)) : keys'[d] < i}}
    <3>1. CASE i # c
      <4>1. i \in 1 .. c - 1 /\ i \in DOMAIN components /\ components'[i] = components[i]
        BY <3>1, <1>2, <1>d
      <4>2. /\ components[i].members # <<>>
            /\ ToSet(components[i].members) = {n \in DOMAIN keys : keys[n] = i}
            /\ \A p, q \in DOMAIN components[i].members :
                 p # q => components[i].members[p] # components[i].members[q]
            /\ components[i].deps =
                 {keys[d] : d \in {d \in Deps(graph, Last(components[i].members)) : keys[d] < i}}
        BY <4>1, <1>1 DEF ComponentsClosed
      <4>3. {n \in DOMAIN keys' : keys'[n] = i} = {n \in DOMAIN keys : keys[n] = i}
        BY <4>1, <3>1, <1>a
      <4>4. PICK n : n = Last(components[i].members)
        OBVIOUS
      <4>5. n \in DOMAIN keys
        <5>1. components[i] \in [members : Seq(Nodes), deps : SUBSET Nat]
          <6>1. i \in 1 .. Len(components)
            BY <4>1, <1>k, <1>2
          <6> QED
            BY <6>1, <1>2, ElementOfSeq
        <5>2. components[i].members \in Seq(Nodes)
          BY <5>1
        <5>3. Len(components[i].members) \in DOMAIN components[i].members
          BY <5>2, <4>2, EmptySeq
        <5>4. n \in ToSet(components[i].members)
          BY <5>3, <4>4 DEF Last, ToSet
        <5> QED
          BY <5>4, <4>2
      <4>6. \A d \in Deps(graph, n) : d \in DOMAIN keys /\ keys'[d] = keys[d]
        BY <4>5, <2>1, <1>a
      <4>7. {d \in Deps(graph, n) : keys'[d] < i} = {d \in Deps(graph, n) : keys[d] < i}
        BY <4>6
      <4>8. {keys'[d] : d \in {d \in Deps(graph, n) : keys'[d] < i}}
              = {keys[d] : d \in {d \in Deps(graph, n) : keys[d] < i}}
        BY <4>6, <4>7
      <4> QED
        BY <4>1, <4>2, <4>3, <4>4, <4>8
    <3>2. CASE i = c
      <4>1. components'[i].members = M /\ components'[i].deps = DepsOf(Last(M), keys')
        BY <3>2, <1>d
      <4>2. S = {n \in DOMAIN keys' : keys'[n] = c}
        <5>1. c \notin 1 .. c - 1
          BY <1>k
        <5> QED
          BY <5>1, <2>1, <1>a
      <4>3. \A p, q \in DOMAIN M : p # q => M[p] # M[q]
        <5>1. \A p \in 1 .. l - o : o + p \in 1 .. l
          BY <1>v
        <5>2. \A p, q \in 1 .. l - o : p # q => o + p # o + q
          BY <1>v
        <5> QED
          BY <5>1, <5>2, <1>5, <1>7
      <4>4. PICK n : n = Last(M)
        OBVIOUS
      <4>5. n \in S
        <5>1. Len(M) \in DOMAIN M
          BY <1>5, EmptySeq
        <5> QED
          BY <5>1, <4>4, <1>M DEF Last, ToSet
      <4>6. \A d \in Deps(graph, n) : d \in DOMAIN keys' /\ (keys'[d] < c <=> keys'[d] <= Len(components))
        <5>1. \A d \in Deps(graph, n) : d \in DOMAIN keys'
          BY <4>5, <1>f
        <5>2. \A d \in DOMAIN keys' : keys'[d] \in 1 .. c
          BY <2>2
        <5>3. c = Len(components) + 1 /\ Len(components) \in Nat
          BY <1>2, <1>k
        <5> QED
          BY <5>1, <5>2, <5>3
      <4>7. {d \in {d \in Deps(graph, n) : d \in DOMAIN keys' /\ keys'[d] <= Len(components)} : TRUE}
              = {d \in Deps(graph, n) : keys'[d] < c}
        BY <4>6
      <4>8. DepsOf(n, keys') = {keys'[d] : d \in {d \in Deps(graph, n) : keys'[d] < c}}
        BY <4>7 DEF DepsOf, Deps
      <4> QED
        BY <3>2, <4>1, <4>2, <4>3, <4>4, <4>8, <1>5, <1>M
    <3> QED
      BY <3>1, <3>2
  <2> QED
    BY <2>2, <2>3, <2>4, <2>5, <1>d, <1>u DEF ComponentsClosed
<1> QED
  BY <1>10, <1>11, <1>12, <1>13, <1>14, <1>15, <1>16 DEF SccInv

----------------------------------------------------------------------------
(* The algorithm *)

\* Sort calls rec for the root of a graph of which nothing was seen.
LEMMA SortInv ==
  ASSUME SccInv, Sort
  PROVE  SccInv'
<1>1. IsGraph /\ SccTypes /\ StackByIndex /\ index = 0 /\ Enter(graph.root)
      /\ UNCHANGED <<graph, keys, components>>
  BY DEF SccInv, Sort
<1>2. \A n \in DOMAIN meta : meta[n].index < 0 /\ meta[n].index \in Nat
  BY <1>1, MetaFacts DEF StackByIndex
<1>3. DOMAIN meta = {}
  BY <1>2
<1>4. calls = <<>>
  <2>1. \A i \in DOMAIN calls : FALSE
    BY <1>3, CallFacts
  <2>2. DOMAIN calls = 1 .. Len(calls) /\ Len(calls) \in Nat
    BY <1>1 DEF SccTypes
  <2>3. Len(calls) = 0
    BY <2>1, <2>2
  <2> QED
    BY <2>3, <1>1, EmptySeq DEF SccTypes
<1>5. graph.root \in Nodes /\ graph.root \notin DOMAIN meta
  BY <1>1, <1>3 DEF IsGraph
<1>6. PICK n \in Nodes : n = graph.root
  BY <1>5
<1>7. n \notin DOMAIN meta /\ Enter(n) /\ graph.root \in DOMAIN meta \cup {n}
      /\ (calls = <<>> /\ n = graph.root)
  BY <1>1, <1>4, <1>5, <1>6
<1>8. IsGraph' /\ SccTypes' /\ StackByIndex'
  BY <1>1, <1>7, EnterOrder
<1>9. CallsOnStack' /\ StackConnected' /\ LowReached' /\ LowCovers' /\ ComponentsClosed'
  BY <1>1, <1>7, EnterCalls
<1> QED
  BY <1>8, <1>9 DEF SccInv

\* rec calls itself for a dependency without metadata.
LEMMA DescendInv ==
  ASSUME SccInv, Descend
  PROVE  SccInv'
<1>1. IsGraph /\ SccTypes /\ StackByIndex /\ CallsOnStack /\ Looping /\ Dep \notin DOMAIN meta
      /\ Enter(Dep) /\ UNCHANGED <<graph, keys, components>>
  BY DEF SccInv, Descend
<1>2. PICK k \in Nat : k = Len(calls)
  <2>1. Len(calls) \in Nat
    BY <1>1 DEF SccTypes
  <2> QED
    BY <2>1
<1>3. k \in DOMAIN calls /\ Dep = graph.deps[calls[k].node][calls[k].next]
      /\ calls[k].next <= Len(graph.deps[calls[k].node])
  <2>1. calls # <<>>
    BY <1>1 DEF Looping
  <2>2. k \in DOMAIN calls
    BY <2>1, <1>1, <1>2, EmptySeq DEF SccTypes
  <2> QED
    BY <2>2, <1>1, <1>2 DEF Looping, Dep, Call
<1>4. Dep \in Nodes
  <2>1. graph.deps[calls[k].node] \in Seq(Nodes)
    BY <1>1, <1>3, CallFacts DEF IsGraph
  <2>2. calls[k].next \in 1 .. Len(graph.deps[calls[k].node])
    BY <2>1, <1>1, <1>3 DEF CallsOnStack
  <2> QED
    BY <2>1, <2>2, <1>3
<1>5. graph.root \in DOMAIN meta
  <2>1. calls[k].node \in DOMAIN meta
    BY <1>3, CallFacts
  <2>2. index > 0
    BY <2>1, <1>1, MetaFacts DEF StackByIndex, SccTypes
  <2> QED
    BY <2>2, <1>1 DEF StackByIndex
<1>6. PICK n \in Nodes : n = Dep
  BY <1>4
<1>7. n \notin DOMAIN meta /\ Enter(n) /\ graph.root \in DOMAIN meta \cup {n}
      /\ (Looping /\ n = Dep)
  BY <1>1, <1>5, <1>6
<1>8. IsGraph' /\ SccTypes' /\ StackByIndex'
  BY <1>1, <1>7, EnterOrder
<1>9. CallsOnStack' /\ StackConnected' /\ LowReached' /\ LowCovers' /\ ComponentsClosed'
  BY <1>1, <1>7, EnterCalls
<1> QED
  BY <1>8, <1>9 DEF SccInv

\* The invariant is preserved by every step of the algorithm, and by every step that
\* leaves its state alone.
LEMMA SccStep ==
  ASSUME SccInv, [SccNext]_sccVars
  PROVE  SccInv'
<1>1. CASE UNCHANGED sccVars
  <2>1. /\ graph' = graph /\ calls' = calls /\ index' = index /\ stack' = stack
        /\ meta' = meta /\ keys' = keys /\ components' = components
    BY <1>1 DEF sccVars
  <2>2. IsGraph' /\ SccTypes' /\ StackByIndex' /\ CallsOnStack'
    BY <2>1 DEF SccInv, IsGraph, SccTypes, StackByIndex, CallsOnStack, Nodes
  <2>3. \A i : SegmentEnd(i)' = SegmentEnd(i) /\ Segment(i)' = Segment(i)
    BY <2>1 DEF SegmentEnd, Segment
  <2>4. StackConnected'
    BY <2>1, <2>3 DEF SccInv, StackConnected
  <2>5. LowReached'
    BY <2>1 DEF SccInv, LowReached
  <2>6. LowCovers'
    BY <2>1, <2>3 DEF SccInv, LowCovers
  <2>7. ComponentsClosed'
    BY <2>1 DEF SccInv, ComponentsClosed
  <2> QED
    BY <2>2, <2>4, <2>5, <2>6, <2>7 DEF SccInv
<1>2. CASE Return
  BY <1>2, ReturnOpen, ReturnRoot
<1> QED
  BY <1>1, <1>2, SortInv, DescendInv, SeeDepInv DEF SccNext

\* Before Sort, nothing was seen.
LEMMA SccStart ==
  ASSUME IsGraph, SccInit
  PROVE  SccInv
<1>1. /\ calls = <<>> /\ stack = <<>> /\ components = <<>> /\ meta = <<>> /\ keys = <<>> /\ index = 0
      /\ IsGraph
  BY DEF SccInit
<1>2. DOMAIN calls = {} /\ DOMAIN stack = {} /\ DOMAIN components = {} /\ DOMAIN meta = {}
      /\ DOMAIN keys = {} /\ ToSet(stack) = {}
  BY <1>1 DEF ToSet
<1>3. SccTypes
  <2>1. meta \in [DOMAIN meta -> [index : Nat, low : Nat, onStack : BOOLEAN]]
    BY <1>1, <1>2
  <2>2. keys \in [DOMAIN keys -> Nat]
    BY <1>1, <1>2
  <2> QED
    BY <2>1, <2>2, <1>1, <1>2, EmptySeq DEF SccTypes
<1>4. StackByIndex /\ CallsOnStack /\ StackConnected /\ LowReached /\ LowCovers /\ ComponentsClosed
  BY <1>1, <1>2 DEF StackByIndex, CallsOnStack, StackConnected, LowReached, LowCovers, ComponentsClosed
<1> QED
  BY <1>1, <1>3, <1>4 DEF SccInv

\* A sequence without repetition has as many elements as its length.
LEMMA CardinalityOfRange ==
  ASSUME NEW T, NEW s \in Seq(T), \A p, q \in DOMAIN s : p # q => s[p] # s[q]
  PROVE  Cardinality(ToSet(s)) = Len(s)
<1>1. Len(s) \in Nat /\ DOMAIN s = 1 .. Len(s)
  OBVIOUS
<1>2. IsFiniteSet(1 .. Len(s)) /\ Cardinality(1 .. Len(s)) = Len(s)
  BY <1>1, FS_Interval
<1> DEFINE f == [p \in 1 .. Len(s) |-> s[p]]
<1>3. f \in Bijection(1 .. Len(s), ToSet(s))
  BY <1>1 DEF ToSet, Bijection, Injection, Surjection, IsInjective
<1>4. ExistsBijection(1 .. Len(s), ToSet(s))
  BY <1>3 DEF ExistsBijection
<1> QED
  BY <1>2, <1>4, FS_Bijection

\* When Sort is done, the invariant says that its result is right.
LEMMA SccDone ==
  ASSUME SccInv
  PROVE  ComponentsSorted
<1> SUFFICES ASSUME Sorted
             PROVE  /\ DOMAIN keys = ReachFrom(graph.root)
                    /\ \A c \in DOMAIN components :
                         /\ ToSet(components[c].members) = {n \in DOMAIN keys : keys[n] = c}
                         /\ Cardinality(ToSet(components[c].members)) = Len(components[c].members)
                    /\ \A m, n \in DOMAIN keys :
                         /\ keys[m] = keys[n] <=> m \in ReachFrom(n) /\ n \in ReachFrom(m)
                         /\ n \in ReachFrom(m) => keys[n] <= keys[m]
  BY DEF ComponentsSorted
<1>1. IsGraph /\ SccTypes /\ StackByIndex /\ CallsOnStack /\ ComponentsClosed
  BY DEF SccInv
<1>2. DOMAIN meta = DOMAIN keys /\ graph.root \in DOMAIN keys
  BY <1>1 DEF Sorted, StackByIndex, CallsOnStack, ToSet
<1>3. DOMAIN keys \subseteq DOMAIN graph.deps
  BY <1>1, <1>2 DEF SccTypes, Nodes
<1>4. DOMAIN keys = ReachFrom(graph.root)
  <2>1. Closed(graph, DOMAIN keys)
    BY <1>1 DEF Closed, ComponentsClosed
  <2>2. Reach(graph, graph.root) \subseteq DOMAIN keys
    BY <2>1, <1>2, <1>3, ReachLeast
  <2>3. DOMAIN keys \subseteq Reach(graph, graph.root)
    BY <1>1, <1>2 DEF ComponentsClosed
  <2> QED
    BY <2>2, <2>3 DEF ReachFrom
<1>5. ASSUME NEW c \in DOMAIN components
      PROVE  /\ ToSet(components[c].members) = {n \in DOMAIN keys : keys[n] = c}
             /\ Cardinality(ToSet(components[c].members)) = Len(components[c].members)
  <2>1. components[c] \in [members : Seq(Nodes), deps : SUBSET Nat]
    <3>1. components \in Seq([members : Seq(Nodes), deps : SUBSET Nat]) /\ c \in 1 .. Len(components)
      BY <1>1 DEF SccTypes
    <3> QED
      BY <3>1, ElementOfSeq
  <2>2. components[c].members \in Seq(Nodes)
    BY <2>1
  <2>3. \A p, q \in DOMAIN components[c].members :
          p # q => components[c].members[p] # components[c].members[q]
    BY <1>1 DEF ComponentsClosed
  <2>4. PICK s \in Seq(Nodes) : s = components[c].members
    BY <2>2
  <2>5. Cardinality(ToSet(s)) = Len(s)
    BY <2>3, <2>4, CardinalityOfRange
  <2> QED
    BY <2>4, <2>5, <1>1 DEF ComponentsClosed
<1>6. ASSUME NEW m \in DOMAIN keys, NEW n \in Reach(graph, m)
      PROVE  n \in DOMAIN keys /\ keys[n] <= keys[m]
  <2> DEFINE S == {x \in DOMAIN keys : keys[x] <= keys[m]}
  <2>1. \A x \in DOMAIN keys : keys[x] \in Nat
    BY <1>1 DEF SccTypes
  <2>2. Closed(graph, S)
    <3>1. ASSUME NEW x \in S, NEW d \in Deps(graph, x)
          PROVE  d \in S
      <4>1. d \in DOMAIN keys /\ keys[d] <= keys[x]
        BY <1>1 DEF ComponentsClosed
      <4> QED
        BY <4>1, <2>1
    <3> QED
      BY <3>1 DEF Closed
  <2>3. S \in SUBSET DOMAIN graph.deps /\ m \in S
    BY <2>1, <1>3
  <2> HIDE DEF S
  <2>4. n \in S
    BY <2>2, <2>3, ReachLeast
  <2> QED
    BY <2>4 DEF S
<1>7. ASSUME NEW m \in DOMAIN keys, NEW n \in DOMAIN keys
      PROVE  /\ keys[m] = keys[n] <=> m \in ReachFrom(n) /\ n \in ReachFrom(m)
             /\ n \in ReachFrom(m) => keys[n] <= keys[m]
  <2>1. keys[m] = keys[n] => m \in Reach(graph, n) /\ n \in Reach(graph, m)
    BY <1>1 DEF ComponentsClosed
  <2>2. n \in Reach(graph, m) => keys[n] <= keys[m]
    BY <1>6
  <2>3. m \in Reach(graph, n) => keys[m] <= keys[n]
    BY <1>6
  <2>4. keys[m] \in Nat /\ keys[n] \in Nat
    BY <1>1 DEF SccTypes
  <2> QED
    BY <2>1, <2>2, <2>3, <2>4 DEF ReachFrom
<1> QED
  BY <1>4, <1>5, <1>7

\* The invariant of the algorithm (scc.go rec), for every graph, with every order of
\* dependencies, and at every depth of the recursion.
THEOREM SccInvariant == SccSpec => []SccInv
<1>1. IsGraph /\ SccInit => SccInv
  BY SccStart
<1>2. SccInv /\ [SccNext]_sccVars => SccInv'
  BY SccStep
<1> QED
  BY <1>1, <1>2, PTL DEF SccSpec

\* Tarjan's algorithm as rec runs it is right (scc.go Sort, rec): every message that
\* the root contains is found once, two are in one component exactly when each
\* contains the other, and components come behind what they depend on.
THEOREM SccCorrect == SccSpec => []ComponentsSorted
<1>1. SccInv => ComponentsSorted
  BY SccDone
<1> QED
  BY <1>1, SccInvariant, PTL


----------------------------------------------------------------------------
(* Edges *)

\* What Append adds.
LEMMA ToSetAppend ==
  ASSUME NEW T, NEW s \in Seq(T), NEW m \in T
  PROVE  Append(s, m) \in Seq(T) /\ ToSet(Append(s, m)) = ToSet(s) \cup {m}
<1>1. Append(s, m) \in Seq(T) /\ Len(Append(s, m)) = Len(s) + 1 /\ Len(s) \in Nat
      /\ \A i \in 1 .. Len(s) : Append(s, m)[i] = s[i]
  OBVIOUS
<1>2. Append(s, m)[Len(s) + 1] = m
  OBVIOUS
<1>3. DOMAIN Append(s, m) = 1 .. Len(s) + 1 /\ DOMAIN s = 1 .. Len(s)
  BY <1>1
<1>4. \A j : j \in 1 .. Len(s) + 1 <=> j \in 1 .. Len(s) \/ j = Len(s) + 1
  BY <1>1
<1> QED
  BY <1>1, <1>2, <1>3, <1>4 DEF ToSet

\* What Edges yields: the messages of the fields that have one, in order.
LEMMA EdgesFacts ==
  ASSUME NEW T, NEW fds, Len(fds) \in Nat, DOMAIN fds = 1 .. Len(fds),
         \A i \in DOMAIN fds : fds[i].msg \in T \cup {None}
  PROVE  /\ Edges(fds) \in Seq(T)
         /\ ToSet(Edges(fds)) = {fds[i].msg : i \in DOMAIN fds} \ {None}
<1>n. PICK n \in Nat : n = Len(fds)
  OBVIOUS
<1> DEFINE Value(e, i) == IF i = 0 THEN <<>>
                          ELSE IF fds[i].msg = None THEN e[i - 1] ELSE Append(e[i - 1], fds[i].msg)
           step == [x \in (1 .. n) \X Seq(T) |->
                      IF fds[x[1]].msg = None THEN x[2] ELSE Append(x[2], fds[x[1]].msg)]
<1>1. step \in [(1 .. n) \X Seq(T) -> Seq(T)]
  <2>1. ASSUME NEW x \in (1 .. n) \X Seq(T)
        PROVE  (IF fds[x[1]].msg = None THEN x[2] ELSE Append(x[2], fds[x[1]].msg)) \in Seq(T)
    <3>1. x[1] \in 1 .. n /\ x[2] \in Seq(T)
      BY <2>1
    <3>2. fds[x[1]].msg \in T \cup {None}
      BY <3>1, <1>n
    <3> QED
      BY <3>1, <3>2
  <2> QED
    BY <2>1
<1>2. <<>> \in Seq(T)
  OBVIOUS
<1>3. PICK f \in [0 .. n -> Seq(T)] :
        f[0] = <<>> /\ \A i \in 1 .. n : f[i] = step[<<i, f[i - 1]>>]
  <2> HIDE DEF step
  <2>1. IsStep(Seq(T), <<>>, n, step)
    BY <1>1, <1>2 DEF IsStep
  <2>2. HasFunction(Seq(T), <<>>, n, step)
    BY <2>1, RecursiveFunction
  <2> QED
    BY <2>2 DEF HasFunction
<1>4. \A i \in 0 .. n : f[i] = Value(f, i)
  <2>1. ASSUME NEW i \in 1 .. n
        PROVE  f[i] = Value(f, i)
    <3>1. i - 1 \in 0 .. n /\ f[i - 1] \in Seq(T)
      BY <1>3
    <3>2. <<i, f[i - 1]>> \in (1 .. n) \X Seq(T)
      BY <3>1
    <3> QED
      BY <3>2, <1>3
  <2>2. f[0] = Value(f, 0)
    BY <1>3
  <2>3. \A i \in 0 .. n : i = 0 \/ i \in 1 .. n
    OBVIOUS
  <2> HIDE DEF Value
  <2> QED
    BY <2>1, <2>2, <2>3
<1>5. f = [i \in 0 .. n |-> Value(f, i)]
  BY <1>3, <1>4
<1>6. \E e : e = [i \in 0 .. Len(fds) |-> Value(e, i)]
  BY <1>5, <1>n
<1>7. PICK e : e = [i \in 0 .. n |-> Value(e, i)] /\ Edges(fds) = e[n]
  BY <1>6, <1>n DEF Edges
<1> HIDE DEF step
\* By induction, e[i] are the messages of the first i fields.
<1> DEFINE Right(i) == /\ e[i] \in Seq(T)
                       /\ ToSet(e[i]) = {fds[j].msg : j \in 1 .. i} \ {None}
           S == {i \in Nat : i <= n => Right(i)}
<1>8. \A i \in 0 .. n : e[i] = Value(e, i)
  BY <1>7
<1> HIDE DEF Right
<1>9. 0 \in S
  <2>1. e[0] = <<>>
    BY <1>8
  <2>2. ToSet(<<>>) = {}
    BY DEF ToSet
  <2>3. Right(0)
    BY <2>1, <2>2 DEF Right
  <2> QED
    BY <2>3
<1>10. ASSUME NEW k \in Nat, k \in S
       PROVE  k + 1 \in S
  <2> SUFFICES ASSUME k + 1 <= n
               PROVE  Right(k + 1)
    OBVIOUS
  <2>1. k + 1 \in DOMAIN fds /\ k + 1 \in 0 .. n /\ k + 1 # 0 /\ (k + 1) - 1 = k
    BY <1>n
  <2>2. e[k + 1] = IF fds[k + 1].msg = None THEN e[k] ELSE Append(e[k], fds[k + 1].msg)
    BY <2>1, <1>8
  <2>3. e[k] \in Seq(T) /\ ToSet(e[k]) = {fds[j].msg : j \in 1 .. k} \ {None}
    <3>1. k <= n
      OBVIOUS
    <3>2. Right(k)
      BY <3>1, <1>10
    <3> QED
      BY <3>2 DEF Right
  <2>4. {fds[j].msg : j \in 1 .. k + 1} = {fds[j].msg : j \in 1 .. k} \cup {fds[k + 1].msg}
    <3>1. \A j : j \in 1 .. k + 1 <=> j \in 1 .. k \/ j = k + 1
      OBVIOUS
    <3> QED
      BY <3>1
  <2>5. CASE fds[k + 1].msg = None
    BY <2>2, <2>3, <2>4, <2>5 DEF Right
  <2>6. CASE fds[k + 1].msg # None
    <3>1. fds[k + 1].msg \in T /\ e[k + 1] = Append(e[k], fds[k + 1].msg)
      BY <2>1, <2>2, <2>6
    <3>2. PICK s \in Seq(T), m \in T : s = e[k] /\ m = fds[k + 1].msg
      BY <2>3, <3>1
    <3>3. Append(s, m) \in Seq(T) /\ ToSet(Append(s, m)) = ToSet(s) \cup {m}
      BY ToSetAppend
    <3> QED
      BY <3>1, <3>2, <3>3, <2>3, <2>4, <2>6 DEF Right
  <2> QED
    BY <2>5, <2>6
<1> HIDE DEF S
<1>11. n \in S
  BY <1>9, <1>10, SetInduction
<1>12. Right(n)
  BY <1>11 DEF S
<1> QED
  BY <1>12, <1>7, <1>n DEF Right

\* The edges of the graph that is sorted, of every message that is described.
LEMMA GraphEdges ==
  ASSUME IsInput(input), graph = MessageGraph
  PROVE  /\ IsGraph
         /\ DOMAIN graph.deps = DOMAIN input.fields
         /\ \A m \in DOMAIN input.fields :
              Deps(graph, m) = {Fields(m)[i].msg : i \in DOMAIN Fields(m)} \ {None}
<1>1. graph.root = input.root /\ graph.deps = [m \in DOMAIN input.fields |-> Edges(Fields(m))]
  BY DEF MessageGraph
<1>2. ASSUME NEW m \in DOMAIN input.fields
      PROVE  /\ Edges(Fields(m)) \in Seq(DOMAIN input.fields)
             /\ ToSet(Edges(Fields(m))) = {Fields(m)[i].msg : i \in DOMAIN Fields(m)} \ {None}
  <2>1. PICK T, fds, D : T = DOMAIN input.fields /\ fds = Fields(m) /\ D = Descriptors(T)
    OBVIOUS
  <2>2. fds \in Seq(D)
    BY <2>1 DEF IsInput, Fields
  <2>3. Len(fds) \in Nat /\ DOMAIN fds = 1 .. Len(fds)
    BY <2>2
  <2>4. \A i \in DOMAIN fds : fds[i] \in D
    BY <2>2, <2>3, ElementOfSeq
  <2>5. \A i \in DOMAIN fds : fds[i].msg \in T \cup {None}
    BY <2>1, <2>4 DEF Descriptors
  <2>6. /\ Edges(fds) \in Seq(T)
        /\ ToSet(Edges(fds)) = {fds[i].msg : i \in DOMAIN fds} \ {None}
    BY <2>3, <2>5, EdgesFacts
  <2> QED
    BY <2>1, <2>6
<1>3. DOMAIN graph.deps = DOMAIN input.fields
  BY <1>1
<1>4. input.root \in DOMAIN input.fields
  BY DEF IsInput
<1> QED
  BY <1>1, <1>2, <1>3, <1>4 DEF IsGraph, Nodes, Deps

----------------------------------------------------------------------------
(* compile sorts *)

\* The variables of Scc take the steps of Scc, from a graph.
LEMMA CompilerSorts ==
  ASSUME [Next]_vars
  PROVE  [SccNext]_sccVars
<1>1. CASE SortComponents
  BY <1>1 DEF SortComponents
<1>2. CASE CompileComponent
  BY <1>2 DEF CompileComponent, sccVars
<1>3. CASE Link
  BY <1>3 DEF Link, sccVars
<1>4. CASE PopulateTypes
  BY <1>4 DEF PopulateTypes, sccVars
<1>5. CASE UNCHANGED vars
  BY <1>5 DEF vars, sccVars
<1> QED
  BY <1>1, <1>2, <1>3, <1>4, <1>5 DEF Next

\* compile starts with a graph of the descriptors, of which nothing was seen.
LEMMA CompilerStarts ==
  ASSUME Init
  PROVE  IsInput(input) /\ graph = MessageGraph /\ IsGraph /\ SccInit
<1>1. input \in Inputs /\ graph = MessageGraph /\ SccInit
  BY DEF Init
<1>2. IsInput(input)
  BY <1>1, InputsAssumption
<1> QED
  BY <1>1, <1>2, GraphEdges

\* compile calls scc.Sort and does with its result nothing else: in the variables of
\* Scc it is an execution of Tarjan's algorithm (compile.go compile, scc.go Sort).
THEOREM CompileSorts == Spec => SccSpec
<1>1. Init => IsGraph /\ SccInit
  BY CompilerStarts
<1>2. [Next]_vars => [SccNext]_sccVars
  BY CompilerSorts
<1> QED
  BY <1>1, <1>2, PTL DEF Spec, SccSpec

\* So the components that compile goes through are right, for every schema (compile.go
\* "for cycle := range c.dag.Topological()").
THEOREM CompileComponentsSorted == Spec => []ComponentsSorted
  BY CompileSorts, SccCorrect, PTL

----------------------------------------------------------------------------
(* newSCCInfo *)

\* A node reaches itself and what its dependencies reach.
LEMMA ReachStep ==
  ASSUME NEW g, GraphOK(g), NEW n \in DOMAIN g.deps
  PROVE  /\ Deps(g, n) \subseteq DOMAIN g.deps
         /\ \A m : m \in Reach(g, n) <=> m = n \/ \E d \in Deps(g, n) : m \in Reach(g, d)
<1>1. Deps(g, n) \subseteq DOMAIN g.deps
  BY DEF Deps, ToSet, GraphOK
<1>2. n \in Reach(g, n)
  BY ReachSelf
<1>3. ASSUME NEW d \in Deps(g, n), NEW m \in Reach(g, d)
      PROVE  m \in Reach(g, n)
  <2>1. d \in Reach(g, n)
    BY <1>2, ReachDep
  <2> QED
    BY <2>1, ReachTrans
<1> DEFINE S == {m \in DOMAIN g.deps : m = n \/ \E d \in Deps(g, n) : m \in Reach(g, d)}
<1>4. Closed(g, S)
  <2>1. ASSUME NEW x \in S, NEW e \in Deps(g, x)
        PROVE  e \in S
    <3>1. e \in DOMAIN g.deps
      <4>1. x \in DOMAIN g.deps
        OBVIOUS
      <4> QED
        BY <4>1 DEF Deps, ToSet, GraphOK
    <3>2. CASE x = n
      BY <3>1, <3>2, ReachSelf
    <3>3. CASE x # n
      <4>1. PICK d \in Deps(g, n) : x \in Reach(g, d)
        BY <3>3
      <4>2. e \in Reach(g, d)
        BY <4>1, ReachDep
      <4> QED
        BY <3>1, <4>2
    <3> QED
      BY <3>2, <3>3
  <2> HIDE DEF S
  <2> QED
    BY <2>1 DEF Closed
<1>5. S \in SUBSET DOMAIN g.deps /\ n \in S
  OBVIOUS
<1>6. Reach(g, n) \subseteq S
  <2> HIDE DEF S
  <2> QED
    BY <1>4, <1>5, ReachLeast
<1> QED
  BY <1>1, <1>2, <1>3, <1>6

\* What a message contains that contains no recursive one.
LEMMA NotRecursive ==
  ASSUME GraphOK(graph), NEW m \in DOMAIN graph.deps, ~Recursive(m), NEW d \in Deps(graph, m)
  PROVE  ~Recursive(d) /\ m \notin Reach(graph, d)
<1>1. \A n \in Reach(graph, m) : n \notin UNION {Reach(graph, e) : e \in Deps(graph, n)}
  BY DEF Recursive, ReachFrom, Deps
<1>2. m \in Reach(graph, m) /\ Reach(graph, d) \subseteq Reach(graph, m)
  BY ReachStep
<1>3. m \notin Reach(graph, d)
  BY <1>1, <1>2
<1>4. \A n \in Reach(graph, d) : n \notin UNION {Reach(graph, e) : e \in Deps(graph, n)}
  BY <1>1, <1>2
<1> QED
  BY <1>3, <1>4 DEF Recursive, ReachFrom, Deps

\* A message may lack a required field of its own, or one of a message it contains.
LEMMA MayLackStep ==
  ASSUME GraphOK(graph), NEW m \in DOMAIN graph.deps
  PROVE  MayLack(m) <=> \/ \E f \in ToSet(Fields(m)) : f.required
                        \/ \E d \in Deps(graph, m) : MayLack(d)
<1> DEFINE Own(n) == \E f \in ToSet(Fields(n)) : f.required
<1>1. \A n : MayLack(n) <=> \E x \in Reach(graph, n) : Own(x)
  BY DEF MayLack, ReachFrom
<1> HIDE DEF Own
<1>2. MayLack(m) <=> Own(m) \/ \E d \in Deps(graph, m) : MayLack(d)
  BY <1>1, ReachStep
<1> QED
  BY <1>2 DEF Own

\* A message that contains no recursive one is a component by itself, and Deps yields
\* the components of all messages it contains, which come first.
LEMMA AloneInComponent ==
  ASSUME SccInv, NEW m \in DOMAIN keys, ~Recursive(m)
  PROVE  /\ keys[m] \in DOMAIN components
         /\ ToSet(components[keys[m]].members) = {m}
         /\ \A d \in Deps(graph, m) : d \in DOMAIN keys /\ keys[d] < keys[m]
         /\ components[keys[m]].deps = {keys[d] : d \in Deps(graph, m)}
<1>1. IsGraph /\ SccTypes /\ StackByIndex /\ ComponentsClosed
  BY DEF SccInv
<1>2. GraphOK(graph) /\ m \in DOMAIN graph.deps
  BY <1>1 DEF IsGraph, GraphOK, Nodes, SccTypes, StackByIndex
<1>3. ASSUME NEW n \in DOMAIN keys, keys[n] = keys[m]
      PROVE  n = m
  <2>1. n \in Reach(graph, m) /\ m \in Reach(graph, n)
    BY <1>1, <1>3 DEF ComponentsClosed
  <2> SUFFICES ASSUME n # m
               PROVE  FALSE
    OBVIOUS
  <2>2. PICK d \in Deps(graph, m) : n \in Reach(graph, d)
    BY <2>1, <1>2, ReachStep
  <2>3. m \in Reach(graph, d)
    BY <2>1, <2>2, ReachTrans
  <2> QED
    BY <2>2, <2>3, <1>2, NotRecursive
<1>4. PICK c : c = keys[m]
  OBVIOUS
<1>5. /\ c \in DOMAIN components /\ components[c].members # <<>>
      /\ ToSet(components[c].members) = {n \in DOMAIN keys : keys[n] = c}
      /\ components[c].deps =
           {keys[d] : d \in {d \in Deps(graph, Last(components[c].members)) : keys[d] < c}}
  BY <1>1, <1>4 DEF ComponentsClosed
<1>6. ToSet(components[c].members) = {m}
  BY <1>5, <1>3, <1>4
<1>7. Last(components[c].members) = m
  <2>1. components[c] \in [members : Seq(Nodes), deps : SUBSET Nat]
    <3>1. components \in Seq([members : Seq(Nodes), deps : SUBSET Nat]) /\ c \in 1 .. Len(components)
      BY <1>1, <1>5 DEF SccTypes
    <3> QED
      BY <3>1, ElementOfSeq
  <2>2. components[c].members \in Seq(Nodes)
    BY <2>1
  <2>3. Len(components[c].members) \in DOMAIN components[c].members
    BY <2>2, <1>5, EmptySeq
  <2> QED
    BY <2>3, <1>6 DEF Last, ToSet
<1>8. ASSUME NEW d \in Deps(graph, m)
      PROVE  d \in DOMAIN keys /\ keys[d] < keys[m]
  <2>1. d \in DOMAIN keys /\ keys[d] <= keys[m] /\ keys[d] \in Nat /\ keys[m] \in Nat
    BY <1>1 DEF ComponentsClosed, SccTypes
  <2>2. d # m
    <3>1. m \in Reach(graph, m)
      BY <1>2, ReachSelf
    <3> QED
      BY <3>1, <1>2, NotRecursive
  <2>3. keys[d] # keys[m]
    BY <2>1, <2>2, <1>3
  <2> QED
    BY <2>1, <2>3
<1>9. {d \in Deps(graph, m) : keys[d] < c} = Deps(graph, m)
  BY <1>8, <1>4
<1> QED
  BY <1>4, <1>5, <1>6, <1>7, <1>8, <1>9

\* newSCCInfo is right about a message that contains no recursive one, if it was
\* right about the components before.
LEMMA NewInfoExact ==
  ASSUME CompilerInv, NEW m \in DOMAIN keys, ~Recursive(m), keys[m] = Len(info) + 1
  PROVE  HasRequired(Len(info) + 1) <=> MayLack(m)
<1>1. SccInv /\ IsGraph /\ SccTypes /\ StackByIndex /\ InfoExact
  BY DEF CompilerInv, SccInv
<1>2. GraphOK(graph) /\ m \in DOMAIN graph.deps
  BY <1>1 DEF IsGraph, GraphOK, Nodes, SccTypes, StackByIndex
<1>3. /\ ToSet(components[keys[m]].members) = {m}
      /\ \A d \in Deps(graph, m) : d \in DOMAIN keys /\ keys[d] < keys[m]
      /\ components[keys[m]].deps = {keys[d] : d \in Deps(graph, m)}
  BY <1>1, AloneInComponent
<1>4. ASSUME NEW d \in Deps(graph, m)
      PROVE  info[keys[d]] <=> MayLack(d)
  <2>1. d \in DOMAIN keys /\ ~Recursive(d) /\ keys[d] < keys[m]
    BY <1>2, <1>3, NotRecursive
  <2>2. keys[d] \in Nat /\ Len(info) \in Nat
    BY <2>1, <1>1 DEF SccTypes, CompilerInv
  <2>3. keys[d] <= Len(info)
    BY <2>1, <2>2
  <2> QED
    BY <2>1, <2>3, <1>1 DEF InfoExact
<1> DEFINE Own == \E f \in ToSet(Fields(m)) : f.required
<1>5. HasRequired(keys[m]) <=> (\E d \in Deps(graph, m) : info[keys[d]]) \/ Own
  BY <1>3 DEF HasRequired
<1>6. MayLack(m) <=> Own \/ \E d \in Deps(graph, m) : MayLack(d)
  BY <1>2, MayLackStep
<1> HIDE DEF Own
<1> QED
  BY <1>4, <1>5, <1>6

----------------------------------------------------------------------------
(* The parsers that are generated, and their symbols *)

\* What FlattenSeq puts together: every sequence lies in one piece, and different
\* places come from different places.
IsFlat(F, seqs) ==
  /\ \A k \in DOMAIN seqs :
       \E b \in 0 .. Len(F) - Len(seqs[k]) : \A i \in DOMAIN seqs[k] : F[b + i] = seqs[k][i]
  /\ \A x \in DOMAIN F : \E k \in DOMAIN seqs : \E i \in DOMAIN seqs[k] : F[x] = seqs[k][i]
  /\ \A x, y \in DOMAIN F :
       x # y => \E j, k \in DOMAIN seqs : \E i \in DOMAIN seqs[j], h \in DOMAIN seqs[k] :
                  (j # k \/ i # h) /\ F[x] = seqs[j][i] /\ F[y] = seqs[k][h]

LEMMA FlatStep ==
  ASSUME NEW T, NEW n \in Nat, NEW s \in [1 .. n -> Seq(T)], NEW t \in [1 .. n + 1 -> Seq(T)],
         \A k \in 1 .. n : t[k] = s[k], NEW F \in Seq(T), IsFlat(F, s)
  PROVE  F \o t[n + 1] \in Seq(T) /\ IsFlat(F \o t[n + 1], t)
<1>1. PICK u \in Seq(T) : u = t[n + 1]
  BY n + 1 \in 1 .. n + 1
<1>2. PICK l, m \in Nat : l = Len(F) /\ m = Len(u)
  OBVIOUS
<1>3. PICK G : G = F \o u
  OBVIOUS
<1>4. /\ G \in Seq(T) /\ Len(G) = l + m /\ DOMAIN G = 1 .. l + m
      /\ DOMAIN F = 1 .. l /\ DOMAIN u = 1 .. m
      /\ \A x \in 1 .. l : G[x] = F[x]
      /\ \A i \in 1 .. m : G[l + i] = u[i]
  BY <1>2, <1>3
<1>5. DOMAIN s = 1 .. n /\ DOMAIN t = 1 .. n + 1 /\ 1 .. n \subseteq 1 .. n + 1 /\ n + 1 \in 1 .. n + 1
      /\ \A k \in 1 .. n + 1 : k \in 1 .. n \/ k = n + 1
  OBVIOUS
<1>6. ASSUME NEW k \in 1 .. n + 1
      PROVE  \E b \in 0 .. Len(G) - Len(t[k]) : \A i \in DOMAIN t[k] : G[b + i] = t[k][i]
  <2>1. CASE k = n + 1
    <3>1. l \in 0 .. (l + m) - m
      BY <1>2
    <3>2. t[k] = u /\ Len(t[k]) = m /\ DOMAIN t[k] = 1 .. m /\ Len(G) = l + m
      BY <2>1, <1>1, <1>2, <1>4
    <3>3. \A i \in DOMAIN t[k] : G[l + i] = t[k][i]
      BY <3>2, <1>4
    <3>4. l \in 0 .. Len(G) - Len(t[k])
      BY <3>1, <3>2
    <3> QED
      BY <3>3, <3>4
  <2>2. CASE k \in 1 .. n
    <3>1. PICK v \in Seq(T) : v = t[k] /\ v = s[k]
      BY <2>2
    <3>2. PICK b \in 0 .. l - Len(v) : \A i \in DOMAIN v : F[b + i] = v[i]
      <4>1. k \in DOMAIN s /\ s[k] = v /\ Len(F) = l
        BY <3>1, <2>2, <1>2, <1>5
      <4>2. \E b \in 0 .. Len(F) - Len(s[k]) : \A i \in DOMAIN s[k] : F[b + i] = s[k][i]
        BY <4>1 DEF IsFlat
      <4> QED
        BY <4>1, <4>2
    <3>3. Len(v) \in Nat /\ DOMAIN v = 1 .. Len(v)
      OBVIOUS
    <3>4. \A i \in DOMAIN v : G[b + i] = v[i]
      <4>1. \A i \in DOMAIN v : b + i \in 1 .. l
        BY <3>2, <3>3
      <4> QED
        BY <4>1, <3>2, <1>4
    <3>5. b \in 0 .. (l + m) - Len(v)
      BY <3>2, <3>3, <1>2
    <3>6. t[k] = v /\ Len(G) = l + m
      BY <3>1, <1>4
    <3>7. \A i \in DOMAIN t[k] : G[b + i] = t[k][i]
      BY <3>4, <3>6
    <3>8. b \in 0 .. Len(G) - Len(t[k])
      BY <3>5, <3>6
    <3> QED
      BY <3>7, <3>8
  <2> QED
    BY <2>1, <2>2, <1>5
\* Where a place of G comes from.
<1>7. \A x \in DOMAIN G : (x \in DOMAIN F /\ G[x] = F[x])
                          \/ \E i \in DOMAIN u : x = l + i /\ G[x] = u[i]
  <2> SUFFICES ASSUME NEW x \in DOMAIN G, ~(x \in DOMAIN F)
               PROVE  \E i \in DOMAIN u : x = l + i /\ G[x] = u[i]
    BY <1>4
  <2>1. x - l \in 1 .. m /\ x = l + (x - l)
    BY <1>4, <1>2
  <2> QED
    BY <2>1, <1>4
<1>8. ASSUME NEW x \in DOMAIN G
      PROVE  \E k \in DOMAIN t : \E i \in DOMAIN t[k] : G[x] = t[k][i]
  <2>1. CASE x \in DOMAIN F /\ G[x] = F[x]
    <3>1. PICK k \in DOMAIN s : \E i \in DOMAIN s[k] : F[x] = s[k][i]
      BY <2>1 DEF IsFlat
    <3>2. k \in DOMAIN t /\ t[k] = s[k]
      BY <1>5
    <3> QED
      BY <3>1, <3>2, <2>1
  <2>2. CASE \E i \in DOMAIN u : x = l + i /\ G[x] = u[i]
    BY <2>2, <1>1, <1>5
  <2> QED
    BY <2>1, <2>2, <1>7
<1>9. ASSUME NEW x \in DOMAIN G, NEW y \in DOMAIN G, x # y
      PROVE  \E j, k \in DOMAIN t : \E i \in DOMAIN t[j], h \in DOMAIN t[k] :
               (j # k \/ i # h) /\ G[x] = t[j][i] /\ G[y] = t[k][h]
  <2>1. \A k \in DOMAIN s : k \in DOMAIN t /\ t[k] = s[k] /\ k # n + 1
    BY <1>5
  <2>2. n + 1 \in DOMAIN t /\ t[n + 1] = u
    BY <1>1, <1>5
  <2>3. CASE x \in DOMAIN F /\ G[x] = F[x] /\ y \in DOMAIN F /\ G[y] = F[y]
    <3>1. PICK j \in DOMAIN s, k \in DOMAIN s : \E i \in DOMAIN s[j], h \in DOMAIN s[k] :
            (j # k \/ i # h) /\ F[x] = s[j][i] /\ F[y] = s[k][h]
      BY <2>3, <1>9 DEF IsFlat
    <3> QED
      BY <3>1, <2>1, <2>3
  <2>4. CASE x \in DOMAIN F /\ G[x] = F[x] /\ \E h \in DOMAIN u : y = l + h /\ G[y] = u[h]
    <3>1. PICK j \in DOMAIN s : \E i \in DOMAIN s[j] : F[x] = s[j][i]
      BY <2>4 DEF IsFlat
    <3>2. PICK i \in DOMAIN t[j] : G[x] = t[j][i]
      BY <3>1, <2>1, <2>4
    <3>3. PICK h \in DOMAIN t[n + 1] : G[y] = t[n + 1][h]
      BY <2>2, <2>4
    <3>4. j \in DOMAIN t /\ n + 1 \in DOMAIN t /\ j # n + 1
      BY <3>1, <2>1, <2>2
    <3> QED
      BY <3>2, <3>3, <3>4
  <2>5. CASE y \in DOMAIN F /\ G[y] = F[y] /\ \E i \in DOMAIN u : x = l + i /\ G[x] = u[i]
    <3>1. PICK k \in DOMAIN s : \E h \in DOMAIN s[k] : F[y] = s[k][h]
      BY <2>5 DEF IsFlat
    <3>2. PICK h \in DOMAIN t[k] : G[y] = t[k][h]
      BY <3>1, <2>1, <2>5
    <3>3. PICK i \in DOMAIN t[n + 1] : G[x] = t[n + 1][i]
      BY <2>2, <2>5
    <3>4. k \in DOMAIN t /\ n + 1 \in DOMAIN t /\ k # n + 1
      BY <3>1, <2>1, <2>2
    <3> QED
      BY <3>2, <3>3, <3>4
  <2>6. CASE (\E i \in DOMAIN u : x = l + i /\ G[x] = u[i]) /\ (\E h \in DOMAIN u : y = l + h /\ G[y] = u[h])
    BY <2>2, <2>6, <1>9
  <2> QED
    BY <2>3, <2>4, <2>5, <2>6, <1>7
<1>10. IsFlat(G, t)
  BY <1>5, <1>6, <1>8, <1>9 DEF IsFlat
<1> QED
  BY <1>1, <1>3, <1>4, <1>10

LEMMA FlattenFacts ==
  ASSUME NEW T, NEW n \in Nat, NEW seqs \in [1 .. n -> Seq(T)]
  PROVE  FlattenSeq(seqs) \in Seq(T) /\ IsFlat(FlattenSeq(seqs), seqs)
<1>1. seqs \in Seq(Seq(T)) /\ Len(seqs) = n /\ DOMAIN seqs = 1 .. n
  <2>1. seqs \in Seq(Seq(T))
    BY SeqDef
  <2> QED
    BY <2>1
<1>2. CASE n = 0
  <2>1. seqs = <<>> /\ FlattenSeq(seqs) = seqs
    BY <1>1, <1>2 DEF FlattenSeq
  <2>2. <<>> \in Seq(T) /\ DOMAIN <<>> = {}
    OBVIOUS
  <2> QED
    BY <2>1, <2>2 DEF IsFlat
<1>3. CASE n # 0
  <2> DEFINE Value(e, i) == IF i = 1 THEN seqs[i] ELSE e[i - 1] \o seqs[i]
             step == [x \in (1 .. n) \X Seq(T) |-> x[2] \o seqs[x[1]]]
  <2>1. PICK f \in [0 .. n -> Seq(T)] :
          f[0] = <<>> /\ \A i \in 1 .. n : f[i] = step[<<i, f[i - 1]>>]
    <3>1. step \in [(1 .. n) \X Seq(T) -> Seq(T)]
      OBVIOUS
    <3>2. <<>> \in Seq(T)
      OBVIOUS
    <3> HIDE DEF step
    <3>3. IsStep(Seq(T), <<>>, n, step)
      BY <3>1, <3>2 DEF IsStep
    <3>4. HasFunction(Seq(T), <<>>, n, step)
      BY <3>3, RecursiveFunction
    <3> QED
      BY <3>4 DEF HasFunction
  <2>2. \A i \in 1 .. n : f[i] = f[i - 1] \o seqs[i]
    <3> TAKE i \in 1 .. n
    <3>1. f[i - 1] \in Seq(T)
      OBVIOUS
    <3>2. <<i, f[i - 1]>> \in (1 .. n) \X Seq(T)
      BY <3>1
    <3> QED
      BY <3>2, <2>1
  <2> HIDE DEF step
  <2>3. [i \in 1 .. n |-> f[i]] = [i \in 1 .. n |-> Value([j \in 1 .. n |-> f[j]], i)]
    <3>1. ASSUME NEW i \in 1 .. n
          PROVE  f[i] = Value([j \in 1 .. n |-> f[j]], i)
      <4>1. CASE i = 1
        <5>1. f[1] = f[0] \o seqs[1] /\ f[0] = <<>> /\ seqs[1] \in Seq(T)
          <6>1. 1 \in 1 .. n /\ 1 - 1 = 0
            BY <4>1
          <6> QED
            BY <6>1, <2>1, <2>2
        <5>2. f[1] = seqs[1]
          BY <5>1
        <5> QED
          BY <5>2, <4>1
      <4>2. CASE i # 1
        <5>1. i - 1 \in 1 .. n
          BY <4>2
        <5> QED
          BY <5>1, <4>2, <2>2
      <4> QED
        BY <4>1, <4>2
    <3> QED
      BY <3>1
  <2>4. PICK e : e = [i \in 1 .. n |-> Value(e, i)] /\ FlattenSeq(seqs) = e[n]
    <3>1. \E e : e = [i \in 1 .. Len(seqs) |-> Value(e, i)]
      BY <2>3, <1>1
    <3> QED
      BY <3>1, <1>1, <1>3 DEF FlattenSeq
  <2>5. \A i \in 1 .. n : e[i] = Value(e, i)
    BY <2>4
  \* e[k] is the first k sequences put together.
  <2> DEFINE First(k) == [i \in 1 .. k |-> seqs[i]]
             S == {k \in Nat : k + 1 <= n => e[k + 1] \in Seq(T) /\ IsFlat(e[k + 1], First(k + 1))}
  <2>6. \A k \in 0 .. n : First(k) \in [1 .. k -> Seq(T)]
    OBVIOUS
  <2>7. 0 \in S
    <3>1. 0 \in Nat /\ 0 + 1 = 1 /\ 0 \in 0 .. n /\ 1 \in 1 .. n /\ 1 \in 0 .. n
      BY <1>3
    <3>2. <<>> \in Seq(T) /\ IsFlat(<<>>, First(0))
      <4>1. DOMAIN First(0) = {} /\ DOMAIN <<>> = {}
        OBVIOUS
      <4> HIDE DEF First
      <4> QED
        BY <4>1 DEF IsFlat
    <3>3. First(0) \in [1 .. 0 -> Seq(T)] /\ First(0 + 1) \in [1 .. 0 + 1 -> Seq(T)]
          /\ (\A i \in 1 .. 0 : First(0 + 1)[i] = First(0)[i]) /\ First(0 + 1)[0 + 1] = seqs[1]
      BY <3>1, <2>6
    <3> HIDE DEF First
    <3>4. <<>> \o seqs[1] \in Seq(T) /\ IsFlat(<<>> \o seqs[1], First(0 + 1))
      BY <3>1, <3>2, <3>3, FlatStep
    <3>5. e[1] = seqs[1] /\ <<>> \o seqs[1] = seqs[1]
      BY <2>5, <3>1
    <3> QED
      BY <3>1, <3>4, <3>5
  <2>8. ASSUME NEW k \in Nat, k \in S
        PROVE  k + 1 \in S
    <3> SUFFICES ASSUME (k + 1) + 1 <= n
                 PROVE  e[(k + 1) + 1] \in Seq(T) /\ IsFlat(e[(k + 1) + 1], First((k + 1) + 1))
      OBVIOUS
    <3> DEFINE l == k + 1
    <3>1. l \in Nat /\ l \in 0 .. n /\ l + 1 \in 0 .. n /\ l + 1 \in 1 .. n /\ l + 1 # 1 /\ (l + 1) - 1 = l
      OBVIOUS
    <3>2. e[l] \in Seq(T) /\ IsFlat(e[l], First(l))
      BY <2>8, <3>1
    <3>3. e[l + 1] = e[l] \o seqs[l + 1]
      BY <2>5, <3>1
    <3>4. First(l) \in [1 .. l -> Seq(T)] /\ First(l + 1) \in [1 .. l + 1 -> Seq(T)]
          /\ (\A i \in 1 .. l : First(l + 1)[i] = First(l)[i]) /\ First(l + 1)[l + 1] = seqs[l + 1]
      BY <3>1, <2>6
    <3> HIDE DEF First, l
    <3> QED
      <4>1. e[l] \o First(l + 1)[l + 1] \in Seq(T) /\ IsFlat(e[l] \o First(l + 1)[l + 1], First(l + 1))
        BY <3>1, <3>2, <3>4, FlatStep
      <4> QED
        BY <4>1, <3>3, <3>4 DEF l
  <2>9. n - 1 \in S /\ (n - 1) + 1 = n
    <3>1. n - 1 \in Nat /\ (n - 1) + 1 = n
      BY <1>3
    <3> HIDE DEF S
    <3>2. \A k \in Nat : k \in S => k + 1 \in S
      BY <2>8
    <3>3. n - 1 \in S
      BY <3>1, <3>2, <2>7, SetInduction
    <3> QED
      BY <3>1, <3>3
  <2>10. First(n) = seqs
    OBVIOUS
  <2>11. e[(n - 1) + 1] \in Seq(T) /\ IsFlat(e[(n - 1) + 1], First((n - 1) + 1))
    BY <2>9
  <2> HIDE DEF First
  <2> QED
    BY <2>4, <2>9, <2>10, <2>11
<1> QED
  BY <1>2, <1>3

\* Elements of the first i places of ps that are hot, or that are not, from different places.
IsSelection(s, ps, i, hot) ==
  /\ \A x \in DOMAIN s : \E y \in 1 .. i : s[x] = ps[y] /\ ps[y].hot = hot
  /\ \A x, y \in DOMAIN s : x # y => \E j, k \in 1 .. i : j # k /\ s[x] = ps[j] /\ s[y] = ps[k]

LEMMA SelectionStep ==
  ASSUME NEW T, NEW ps, NEW i \in Nat, NEW hot, NEW s \in Seq(T), IsSelection(s, ps, i, hot),
         ps[i + 1] \in T, NEW r,
         r = IF ps[i + 1].hot = hot THEN Append(s, ps[i + 1]) ELSE s
  PROVE  r \in Seq(T) /\ IsSelection(r, ps, i + 1, hot)
<1>1. 1 .. i \subseteq 1 .. i + 1 /\ i + 1 \in 1 .. i + 1 /\ i + 1 \notin 1 .. i
  OBVIOUS
<1>2. CASE ps[i + 1].hot = hot
  <2>1. PICK p \in T : p = ps[i + 1]
    OBVIOUS
  <2>2. PICK l \in Nat : l = Len(s)
    OBVIOUS
  <2>3. /\ r = Append(s, p) /\ r \in Seq(T) /\ DOMAIN r = 1 .. l + 1 /\ DOMAIN s = 1 .. l
        /\ r[l + 1] = p /\ \A x \in 1 .. l : r[x] = s[x]
    BY <1>2, <2>1, <2>2
  <2>4. \A x \in DOMAIN r : x = l + 1 \/ x \in DOMAIN s
    BY <2>3
  <2>5. ASSUME NEW x \in DOMAIN r
        PROVE  \E y \in 1 .. i + 1 : r[x] = ps[y] /\ ps[y].hot = hot
    <3>1. CASE x = l + 1
      BY <3>1, <2>1, <2>3, <1>1, <1>2
    <3>2. CASE x \in DOMAIN s
      BY <3>2, <2>3, <1>1 DEF IsSelection
    <3> QED
      BY <3>1, <3>2, <2>4
  <2>6. ASSUME NEW x \in DOMAIN r, NEW y \in DOMAIN r, x # y
        PROVE  \E j, k \in 1 .. i + 1 : j # k /\ r[x] = ps[j] /\ r[y] = ps[k]
    <3>1. CASE x \in DOMAIN s /\ y \in DOMAIN s
      <4>1. PICK j, k \in 1 .. i : j # k /\ s[x] = ps[j] /\ s[y] = ps[k]
        BY <3>1, <2>6 DEF IsSelection
      <4> QED
        BY <4>1, <3>1, <2>3, <1>1
    <3>2. CASE x \in DOMAIN s /\ y = l + 1
      <4>1. PICK j \in 1 .. i : s[x] = ps[j]
        BY <3>2 DEF IsSelection
      <4>2. j # i + 1 /\ r[x] = ps[j] /\ r[y] = ps[i + 1]
        BY <4>1, <3>2, <2>1, <2>3
      <4> QED
        BY <4>2, <1>1
    <3>3. CASE x = l + 1 /\ y \in DOMAIN s
      <4>1. PICK j \in 1 .. i : s[y] = ps[j]
        BY <3>3 DEF IsSelection
      <4>2. j # i + 1 /\ r[y] = ps[j] /\ r[x] = ps[i + 1]
        BY <4>1, <3>3, <2>1, <2>3
      <4> QED
        BY <4>2, <1>1
    <3> QED
      BY <3>1, <3>2, <3>3, <2>4, <2>6
  <2> QED
    BY <2>3, <2>5, <2>6 DEF IsSelection
<1>3. CASE ps[i + 1].hot # hot
  BY <1>1, <1>3 DEF IsSelection
<1> QED
  BY <1>2, <1>3

\* What Selected yields.
LEMMA SelectedFacts ==
  ASSUME NEW T, NEW n \in Nat, NEW ps \in [1 .. n -> T], Len(ps) = n, NEW hot
  PROVE  Selected(ps, hot) \in Seq(T) /\ IsSelection(Selected(ps, hot), ps, n, hot)
<1> DEFINE Value(e, i) == IF i = 0 THEN <<>>
                          ELSE IF ps[i].hot = hot THEN Append(e[i - 1], ps[i]) ELSE e[i - 1]
           step == [x \in (1 .. n) \X Seq(T) |->
                      IF ps[x[1]].hot = hot THEN Append(x[2], ps[x[1]]) ELSE x[2]]
<1>1. step \in [(1 .. n) \X Seq(T) -> Seq(T)]
  <2>1. ASSUME NEW x \in (1 .. n) \X Seq(T)
        PROVE  (IF ps[x[1]].hot = hot THEN Append(x[2], ps[x[1]]) ELSE x[2]) \in Seq(T)
    <3>1. x[2] \in Seq(T) /\ ps[x[1]] \in T
      BY <2>1
    <3> QED
      BY <3>1
  <2> QED
    BY <2>1
<1>2. <<>> \in Seq(T)
  OBVIOUS
<1>3. PICK f \in [0 .. n -> Seq(T)] :
        f[0] = <<>> /\ \A i \in 1 .. n : f[i] = step[<<i, f[i - 1]>>]
  <2> HIDE DEF step
  <2>1. IsStep(Seq(T), <<>>, n, step)
    BY <1>1, <1>2 DEF IsStep
  <2>2. HasFunction(Seq(T), <<>>, n, step)
    BY <2>1, RecursiveFunction
  <2> QED
    BY <2>2 DEF HasFunction
<1>4. \A i \in 0 .. n : f[i] = Value(f, i)
  <2>1. ASSUME NEW i \in 1 .. n
        PROVE  f[i] = Value(f, i)
    <3>1. i - 1 \in 0 .. n /\ f[i - 1] \in Seq(T)
      BY <1>3
    <3>2. <<i, f[i - 1]>> \in (1 .. n) \X Seq(T)
      BY <3>1
    <3> QED
      BY <3>2, <1>3
  <2>2. f[0] = Value(f, 0)
    BY <1>3
  <2>3. \A i \in 0 .. n : i = 0 \/ i \in 1 .. n
    OBVIOUS
  <2> HIDE DEF Value
  <2> QED
    BY <2>1, <2>2, <2>3
<1>5. f = [i \in 0 .. n |-> Value(f, i)]
  BY <1>3, <1>4
<1>6. \E e : e = [i \in 0 .. Len(ps) |-> Value(e, i)]
  BY <1>5
<1>7. PICK e : e = [i \in 0 .. n |-> Value(e, i)] /\ Selected(ps, hot) = e[n]
  BY <1>6 DEF Selected
<1> HIDE DEF step
<1>8. \A i \in 0 .. n : e[i] = Value(e, i)
  BY <1>7
<1> DEFINE Right(i) == e[i] \in Seq(T) /\ IsSelection(e[i], ps, i, hot)
           S == {i \in Nat : i <= n => Right(i)}
<1> HIDE DEF Right
<1>9. 0 \in S
  <2>1. e[0] = <<>> /\ DOMAIN <<>> = {}
    BY <1>8
  <2>2. Right(0)
    BY <2>1, <1>2 DEF Right, IsSelection
  <2> QED
    BY <2>2
<1>10. ASSUME NEW k \in Nat, k \in S
       PROVE  k + 1 \in S
  <2> SUFFICES ASSUME k + 1 <= n
               PROVE  Right(k + 1)
    OBVIOUS
  <2>1. k + 1 \in 0 .. n /\ k + 1 # 0 /\ (k + 1) - 1 = k /\ k <= n /\ ps[k + 1] \in T
    OBVIOUS
  <2>2. e[k + 1] = IF ps[k + 1].hot = hot THEN Append(e[k], ps[k + 1]) ELSE e[k]
    BY <2>1, <1>8
  <2>3. e[k] \in Seq(T) /\ IsSelection(e[k], ps, k, hot)
    BY <2>1, <1>10 DEF Right
  <2>4. e[k + 1] \in Seq(T) /\ IsSelection(e[k + 1], ps, k + 1, hot)
    <3>1. PICK s, r : s = e[k] /\ r = e[k + 1]
      OBVIOUS
    <3>2. s \in Seq(T) /\ IsSelection(s, ps, k, hot)
      BY <2>3, <3>1
    <3>3. r = IF ps[k + 1].hot = hot THEN Append(s, ps[k + 1]) ELSE s
      BY <2>2, <3>1
    <3>4. r \in Seq(T) /\ IsSelection(r, ps, k + 1, hot)
      BY <2>1, <3>2, <3>3, SelectionStep
    <3> QED
      BY <3>1, <3>4
  <2> QED
    BY <2>4 DEF Right
<1> HIDE DEF S
<1>11. n \in S
  BY <1>9, <1>10, SetInduction
<1>12. Right(n)
  BY <1>11 DEF S
<1> QED
  BY <1>12, <1>7 DEF Right

\* What a parser is.
ParserSet(fds) == [t : DOMAIN fds, kind : 0 .. 7, retry : BOOLEAN, hot : BOOLEAN]

\* What the schedule relies on: fields and parsers that are told apart by their tags.
Scheduled(fds) ==
  /\ Len(fds) \in Nat /\ DOMAIN fds = 1 .. Len(fds)
  /\ \A i \in DOMAIN fds : /\ fds[i].num \in Nat /\ fds[i].hot \in BOOLEAN
                           /\ Len(fds[i].arch.parsers) \in Nat
                           /\ fds[i].arch.parsers \in Seq([kind : 0 .. 7, retry : BOOLEAN])
  /\ TagsDiffer(fds)

\* The parsers of all fields before they are sorted have different tags.
LEMMA AllParsersFacts ==
  ASSUME NEW fds, Scheduled(fds)
  PROVE  /\ AllParsers(fds) \in Seq(ParserSet(fds))
         /\ \A x, y \in DOMAIN AllParsers(fds) :
              x # y => Tag(fds, AllParsers(fds)[x]) # Tag(fds, AllParsers(fds)[y])
<1>1. PICK n \in Nat : n = Len(fds) /\ DOMAIN fds = 1 .. n
  BY DEF Scheduled
<1> DEFINE T == ParserSet(fds)
           own(i) == [j \in DOMAIN fds[i].arch.parsers |->
                        [t |-> i, kind |-> fds[i].arch.parsers[j].kind,
                         retry |-> fds[i].arch.parsers[j].retry, hot |-> j = 1 /\ fds[i].hot]]
           seqs == [i \in DOMAIN fds |-> own(i)]
<1>2. ASSUME NEW i \in DOMAIN fds
      PROVE  own(i) \in Seq(T)
  <2>1. PICK ps \in Seq([kind : 0 .. 7, retry : BOOLEAN]) : ps = fds[i].arch.parsers
    BY DEF Scheduled
  <2>2. DOMAIN ps = 1 .. Len(ps) /\ Len(ps) \in Nat
        /\ \A j \in DOMAIN ps : ps[j].kind \in 0 .. 7 /\ ps[j].retry \in BOOLEAN
    <3>1. DOMAIN ps = 1 .. Len(ps) /\ Len(ps) \in Nat
      OBVIOUS
    <3>2. \A j \in DOMAIN ps : ps[j] \in [kind : 0 .. 7, retry : BOOLEAN]
      BY <3>1, ElementOfSeq
    <3> QED
      BY <3>1, <3>2
  <2> DEFINE q(j) == [t |-> i, kind |-> ps[j].kind, retry |-> ps[j].retry, hot |-> j = 1 /\ fds[i].hot]
  <2>3. \A j \in DOMAIN ps : q(j) \in T
    <3> TAKE j \in DOMAIN ps
    <3>1. (j = 1 /\ fds[i].hot) \in BOOLEAN
      BY DEF Scheduled
    <3> QED
      BY <3>1, <2>2 DEF ParserSet
  <2>4. own(i) = [j \in 1 .. Len(ps) |-> q(j)]
    BY <2>1, <2>2
  <2> HIDE DEF own, T, q
  <2>5. own(i) \in [1 .. Len(ps) -> T]
    BY <2>2, <2>3, <2>4
  <2> QED
    BY <2>2, <2>5, SeqDef
<1>3. AllParsers(fds) = FlattenSeq(seqs)
  BY DEF AllParsers
<1>4. \A i \in 1 .. n : seqs[i] = own(i)
  BY <1>1
<1>5. \A i \in 1 .. n : DOMAIN own(i) = DOMAIN fds[i].arch.parsers
                        /\ \A j \in DOMAIN own(i) : own(i)[j].t = i /\ own(i)[j].kind = fds[i].arch.parsers[j].kind
  OBVIOUS
<1>6. seqs \in [1 .. n -> Seq(T)] /\ DOMAIN seqs = 1 .. n
  <2> HIDE DEF own, T
  <2> QED
    BY <1>1, <1>2
<1> HIDE DEF T, seqs, own
<1>7. AllParsers(fds) \in Seq(T) /\ IsFlat(AllParsers(fds), seqs)
  BY <1>3, <1>6, FlattenFacts
<1>8. PICK all \in Seq(T) : all = AllParsers(fds)
  BY <1>7
<1>9. ASSUME NEW x \in DOMAIN all, NEW y \in DOMAIN all, x # y
      PROVE  Tag(fds, all[x]) # Tag(fds, all[y])
  <2>1. PICK j, k \in 1 .. n : \E i \in DOMAIN own(j), h \in DOMAIN own(k) :
          (j # k \/ i # h) /\ all[x] = own(j)[i] /\ all[y] = own(k)[h]
    <3>1. IsFlat(all, seqs)
      BY <1>7, <1>8
    <3>2. PICK j, k \in DOMAIN seqs : \E i \in DOMAIN seqs[j], h \in DOMAIN seqs[k] :
            (j # k \/ i # h) /\ all[x] = seqs[j][i] /\ all[y] = seqs[k][h]
      BY <3>1, <1>9, Zenon DEF IsFlat
    <3> QED
      BY <3>2, <1>4, <1>6
  <2>2. PICK i \in DOMAIN own(j), h \in DOMAIN own(k) :
          (j # k \/ i # h) /\ all[x] = own(j)[i] /\ all[y] = own(k)[h]
    BY <2>1
  <2>3. /\ all[x].t = j /\ all[y].t = k
        /\ all[x].kind = fds[j].arch.parsers[i].kind /\ all[y].kind = fds[k].arch.parsers[h].kind
        /\ i \in DOMAIN fds[j].arch.parsers /\ h \in DOMAIN fds[k].arch.parsers
    BY <2>2, <1>5
  <2>4. all[x] \in T /\ all[y] \in T
    BY <1>8
  <2>5. PICK c, d \in 0 .. 7 : c = all[x].kind /\ d = all[y].kind
    BY <2>4 DEF T, ParserSet
  <2>6. PICK a, b \in Nat : a = fds[j].num /\ b = fds[k].num
    BY <1>1 DEF Scheduled
  <2>7. a # b \/ c # d
    <3>1. CASE j # k
      BY <3>1, <2>6, <1>1 DEF Scheduled, TagsDiffer
    <3>2. CASE j = k
      BY <3>2, <2>2, <2>3, <2>5, <1>1 DEF Scheduled, TagsDiffer
    <3> QED
      BY <3>1, <3>2
  <2>8. 8 * a + c # 8 * b + d
    BY <2>7
  <2> QED
    BY <2>3, <2>5, <2>6, <2>8 DEF Tag
<1> QED
  BY <1>7, <1>8, <1>9 DEF T

\* The parsers of a message: what they are, and that their tags differ.
LEMMA ParsersFacts ==
  ASSUME NEW fds, Scheduled(fds)
  PROVE  /\ Parsers(fds) \in Seq(ParserSet(fds))
         /\ \A x, y \in DOMAIN Parsers(fds) :
              x # y => Tag(fds, Parsers(fds)[x]) # Tag(fds, Parsers(fds)[y])
<1> DEFINE T == ParserSet(fds)
<1>1. PICK all \in Seq(T) : /\ all = AllParsers(fds)
                            /\ \A x, y \in DOMAIN all : x # y => Tag(fds, all[x]) # Tag(fds, all[y])
  BY AllParsersFacts
<1> HIDE DEF T
<1>2. PICK n \in Nat : n = Len(all) /\ all \in [1 .. n -> T] /\ DOMAIN all = 1 .. n
  BY <1>1
<1>3. /\ Selected(all, TRUE) \in Seq(T) /\ IsSelection(Selected(all, TRUE), all, n, TRUE)
      /\ Selected(all, FALSE) \in Seq(T) /\ IsSelection(Selected(all, FALSE), all, n, FALSE)
  BY <1>2, SelectedFacts
<1>4. PICK A, B \in Seq(T) : /\ A = Selected(all, TRUE) /\ IsSelection(A, all, n, TRUE)
                             /\ B = Selected(all, FALSE) /\ IsSelection(B, all, n, FALSE)
  BY <1>3
<1>5. PICK p : p = A \o B
  OBVIOUS
<1>6. p = Parsers(fds)
  BY <1>1, <1>4, <1>5 DEF Parsers
<1>7. PICK l, m \in Nat : l = Len(A) /\ m = Len(B)
  OBVIOUS
<1>8. /\ p \in Seq(T) /\ DOMAIN p = 1 .. l + m /\ DOMAIN A = 1 .. l /\ DOMAIN B = 1 .. m
      /\ \A x \in 1 .. l : p[x] = A[x]
      /\ \A x \in 1 .. m : p[l + x] = B[x]
  BY <1>5, <1>7
<1>9. \A x \in DOMAIN p : (x \in DOMAIN A /\ p[x] = A[x]) \/ \E i \in DOMAIN B : x = l + i /\ p[x] = B[i]
  <2> SUFFICES ASSUME NEW x \in DOMAIN p, ~(x \in DOMAIN A)
               PROVE  \E i \in DOMAIN B : x = l + i /\ p[x] = B[i]
    BY <1>8
  <2>1. x - l \in 1 .. m /\ x = l + (x - l)
    BY <1>8
  <2> QED
    BY <2>1, <1>8
<1>10. ASSUME NEW x \in DOMAIN p, NEW y \in DOMAIN p, x # y
       PROVE  \E j, k \in 1 .. n : j # k /\ p[x] = all[j] /\ p[y] = all[k]
  <2>a. \A i, h \in DOMAIN A : i # h => \E j, k \in 1 .. n : j # k /\ A[i] = all[j] /\ A[h] = all[k]
    BY <1>4, Zenon DEF IsSelection
  <2>b. \A i, h \in DOMAIN B : i # h => \E j, k \in 1 .. n : j # k /\ B[i] = all[j] /\ B[h] = all[k]
    BY <1>4, Zenon DEF IsSelection
  <2>1. \A i \in DOMAIN A : \E j \in 1 .. n : A[i] = all[j] /\ all[j].hot = TRUE
    BY <1>4 DEF IsSelection
  <2>2. \A i \in DOMAIN B : \E j \in 1 .. n : B[i] = all[j] /\ all[j].hot = FALSE
    BY <1>4 DEF IsSelection
  <2>3. CASE x \in DOMAIN A /\ p[x] = A[x] /\ y \in DOMAIN A /\ p[y] = A[y]
    <3>1. \E j, k \in 1 .. n : j # k /\ A[x] = all[j] /\ A[y] = all[k]
      BY <2>3, <2>a, <1>10
    <3> QED
      BY <3>1, <2>3
  <2>4. CASE x \in DOMAIN A /\ p[x] = A[x] /\ \E i \in DOMAIN B : y = l + i /\ p[y] = B[i]
    <3>1. PICK j \in 1 .. n : p[x] = all[j] /\ all[j].hot = TRUE
      <4>1. x \in DOMAIN A /\ p[x] = A[x]
        BY <2>4
      <4>2. \E j \in 1 .. n : A[x] = all[j] /\ all[j].hot = TRUE
        BY <4>1, <2>1
      <4> QED
        BY <4>1, <4>2
    <3>2. PICK k \in 1 .. n : p[y] = all[k] /\ all[k].hot = FALSE
      <4>1. PICK i \in DOMAIN B : p[y] = B[i]
        BY <2>4
      <4>2. \E k \in 1 .. n : B[i] = all[k] /\ all[k].hot = FALSE
        BY <2>2
      <4> QED
        BY <4>1, <4>2
    <3>3. j # k
      BY <3>1, <3>2
    <3> QED
      BY <3>1, <3>2, <3>3
  <2>5. CASE y \in DOMAIN A /\ p[y] = A[y] /\ \E i \in DOMAIN B : x = l + i /\ p[x] = B[i]
    <3>1. PICK j \in 1 .. n : p[y] = all[j] /\ all[j].hot = TRUE
      <4>1. y \in DOMAIN A /\ p[y] = A[y]
        BY <2>5
      <4>2. \E j \in 1 .. n : A[y] = all[j] /\ all[j].hot = TRUE
        BY <4>1, <2>1
      <4> QED
        BY <4>1, <4>2
    <3>2. PICK k \in 1 .. n : p[x] = all[k] /\ all[k].hot = FALSE
      <4>1. PICK i \in DOMAIN B : p[x] = B[i]
        BY <2>5
      <4>2. \E k \in 1 .. n : B[i] = all[k] /\ all[k].hot = FALSE
        BY <2>2
      <4> QED
        BY <4>1, <4>2
    <3>3. j # k
      BY <3>1, <3>2
    <3> QED
      BY <3>1, <3>2, <3>3
  <2>6. CASE (\E i \in DOMAIN B : x = l + i /\ p[x] = B[i]) /\ (\E i \in DOMAIN B : y = l + i /\ p[y] = B[i])
    <3>1. PICK i \in DOMAIN B : x = l + i /\ p[x] = B[i]
      BY <2>6
    <3>2. PICK h \in DOMAIN B : y = l + h /\ p[y] = B[h]
      BY <2>6
    <3>3. i # h
      BY <3>1, <3>2, <1>10
    <3>4. \E j, k \in 1 .. n : j # k /\ B[i] = all[j] /\ B[h] = all[k]
      BY <3>3, <2>b
    <3> QED
      BY <3>1, <3>2, <3>4
  <2> QED
    BY <2>3, <2>4, <2>5, <2>6, <1>9
<1>11. \A x, y \in DOMAIN p : x # y => Tag(fds, p[x]) # Tag(fds, p[y])
  BY <1>1, <1>2, <1>10
<1> QED
  BY <1>6, <1>8, <1>11 DEF T

\* Every parser is followed by a parser of the message.
LEMMA NextOkFacts ==
  ASSUME NEW fds, NEW p, p # <<>>, Len(p) \in Nat, DOMAIN p = 1 .. Len(p), NEW i \in DOMAIN p
  PROVE  NextOk(fds, p, i) \in DOMAIN p
<1> DEFINE hot(t) == {k \in DOMAIN p : p[k].hot /\ Idx(fds, p[k].t) = Idx(fds, t)}
           from == {t \in DOMAIN fds : t >= p[i].t /\ hot(t) # {}}
           ahead == {k \in DOMAIN p : /\ p[k].hot /\ k >= Min(hot(Min(from)))
                                      /\ Idx(fds, p[k].t) # Idx(fds, p[i].t)}
<1>1. NextOk(fds, p, i) = IF p[i].retry THEN i ELSE IF from = {} \/ ahead = {} THEN 1 ELSE Min(ahead)
  BY DEF NextOk
<1>2. 1 \in DOMAIN p /\ DOMAIN p \subseteq Nat
  OBVIOUS
<1>3. ahead \subseteq DOMAIN p
  OBVIOUS
<1> HIDE DEF from, ahead
<1>4. ASSUME ahead # {}
      PROVE  Min(ahead) \in ahead
  <2>1. ahead \subseteq Nat
    BY <1>2, <1>3
  <2>2. \E x \in ahead : \A y \in ahead : x <= y
    BY <2>1, <1>4, LeastOfNats
  <2> QED
    BY <2>2 DEF Min
<1> QED
  BY <1>1, <1>2, <1>3, <1>4

\* Where codegen puts the symbols of a message: n are its field parsers.
Counts(own, p, n) ==
  /\ n \in Nat \ {0} /\ (p = <<>> => n = 1) /\ (p # <<>> => n = Len(p))
  /\ own \in Seq(ToSet(own)) /\ Len(own) = n + 7
Placed(own, m, fds, p, n) ==
  /\ Counts(own, p, n)
  /\ own[1] = TypeSymbol(m, fds)
  /\ own[2] = Symbol(Name("numbers", m, 0), SizeofTable(Len(fds)), {})
  /\ own[3] = Symbol(Name("parser", m, 0), SizeofTypeParser,
                     {Rel("MapEntry", Name("entry", m, 0), "Address")}
                       \cup ParserRels(m, Name("tags", m, 0), Name("field", m, 1)))
  /\ \A i \in 1 .. n : own[3 + i] = FieldSymbols(m, fds, p)[i]
  /\ own[n + 4] = Symbol(Name("tags", m, 0), SizeofTable(Len(p)), {})
  /\ \A i \in 1 .. 3 : own[n + 4 + i] = EntrySymbols(m)[i]

\* How many there are.
LEMMA PlacedCount ==
  ASSUME NEW own, NEW m, NEW fds, NEW p, NEW n, Placed(own, m, fds, p, n)
  PROVE  /\ n \in Nat \ {0} /\ (p = <<>> => n = 1) /\ (p # <<>> => n = Len(p))
         /\ Len(own) = n + 7 /\ DOMAIN own = 1 .. n + 7 /\ own \in Seq(ToSet(own))
<1>1. Counts(own, p, n)
  BY DEF Placed
<1> QED
  BY <1>1 DEF Counts

\* Two sequences put together.
LEMMA Concatenation ==
  ASSUME NEW T, NEW s \in Seq(T), NEW t \in Seq(T)
  PROVE  /\ s \o t \in Seq(T) /\ Len(s \o t) = Len(s) + Len(t)
         /\ \A x \in 1 .. Len(s) : (s \o t)[x] = s[x]
         /\ \A x \in 1 .. Len(t) : (s \o t)[Len(s) + x] = t[x]
  OBVIOUS

\* A sequence is one of what it holds.
LEMMA SeqOfValues ==
  ASSUME NEW T, NEW s \in Seq(T)
  PROVE  s \in Seq(ToSet(s))
<1>1. PICK n \in Nat : n = Len(s) /\ DOMAIN s = 1 .. n /\ s = [i \in 1 .. n |-> s[i]]
  OBVIOUS
<1>2. \A i \in 1 .. n : s[i] \in ToSet(s)
  BY <1>1 DEF ToSet
<1>3. s \in [1 .. n -> ToSet(s)]
  BY <1>1, <1>2
<1> QED
  BY <1>3, SeqDef

LEMMA SymbolsPlaced ==
  ASSUME NEW m, NEW T, Parsers(Fields(m)) \in Seq(T)
  PROVE  \E n : Placed(SymbolsOf(m), m, Fields(m), Parsers(Fields(m)), n)
<1>1. PICK fds, p : fds = Fields(m) /\ p = Parsers(fds) /\ p \in Seq(T)
  OBVIOUS
<1>2. PICK s1, s2, s3, s4 :
        /\ s1 = TypeSymbol(m, fds)
        /\ s2 = Symbol(Name("numbers", m, 0), SizeofTable(Len(fds)), {})
        /\ s3 = Symbol(Name("parser", m, 0), SizeofTypeParser,
                     {Rel("MapEntry", Name("entry", m, 0), "Address")}
                       \cup ParserRels(m, Name("tags", m, 0), Name("field", m, 1)))
        /\ s4 = Symbol(Name("tags", m, 0), SizeofTable(Len(p)), {})
  OBVIOUS
<1>3. PICK e1, e2, e3 : EntrySymbols(m) = <<e1, e2, e3>>
  BY DEF EntrySymbols
<1>4. PICK F, n : /\ F = FieldSymbols(m, fds, p) /\ n \in Nat \ {0} /\ (p = <<>> => n = 1) /\ (p # <<>> => n = Len(p))
                  /\ DOMAIN F = 1 .. n /\ F = [i \in 1 .. n |-> F[i]]
  <2>1. CASE p = <<>>
    <3>1. PICK a : FieldSymbols(m, fds, p) = <<a>>
      BY <2>1 DEF FieldSymbols
    <3>2. PICK F : F = <<a>> /\ DOMAIN F = 1 .. 1 /\ F = [i \in 1 .. 1 |-> F[i]]
      <4>1. PICK F : F = <<a>>
        OBVIOUS
      <4>2. F \in Seq({a}) /\ Len(F) = 1
        BY <4>1
      <4>3. DOMAIN F = 1 .. 1 /\ F = [i \in 1 .. Len(F) |-> F[i]]
        BY <4>2
      <4> QED
        BY <4>1, <4>2, <4>3
    <3>3. 1 \in Nat \ {0} /\ (p = <<>> => 1 = 1) /\ (p # <<>> => 1 = Len(p)) /\ F = FieldSymbols(m, fds, p)
      BY <3>1, <3>2, <2>1
    <3> QED
      BY <3>2, <3>3, Zenon
  <2>2. CASE p # <<>>
    <3>1. Len(p) \in Nat \ {0} /\ DOMAIN p = 1 .. Len(p)
      BY <1>1, <2>2
    <3> DEFINE field(i) == Name("field", m, i)
               rels(i) ==
                 {Rel("NextOk", field(NextOk(fds, p, i)), "Address"),
                  Rel("NextErr", field(IF i = Len(p) THEN 1 ELSE i + 1), "Address")}
                    \cup {Rel("Message", Name("parser", fds[t].msg, 0), "Address") :
                            t \in {t \in {p[i].t} : fds[t].msg # None}}
    <3>2. FieldSymbols(m, fds, p) = [i \in DOMAIN p |-> Symbol(field(i), SizeofFieldParser, rels(i))]
      BY <2>2 DEF FieldSymbols
    <3> HIDE DEF rels, field
    <3> QED
      BY <3>1, <3>2, <2>2
  <2> QED
    BY <2>1, <2>2
<1>5. PICK S : S = {s1, s2, s3, s4, e1, e2, e3} \cup ToSet(F)
  OBVIOUS
<1>6. F \in Seq(S) /\ Len(F) = n
  <2>1. \A i \in 1 .. n : F[i] \in S
    BY <1>4, <1>5 DEF ToSet
  <2>2. F \in [1 .. n -> S]
    BY <2>1, <1>4
  <2>3. F \in Seq(S)
    BY <2>2, <1>4, SeqDef
  <2> QED
    BY <2>3, <1>4
<1>7. PICK A, B, C : A = <<s1, s2, s3>> /\ B = <<s4>> /\ C = <<e1, e2, e3>>
  OBVIOUS
<1>8. SymbolsOf(m) = A \o F \o B \o C
  BY <1>1, <1>2, <1>3, <1>4, <1>7 DEF SymbolsOf
<1>9. /\ A \in Seq(S) /\ Len(A) = 3 /\ A[1] = s1 /\ A[2] = s2 /\ A[3] = s3
      /\ B \in Seq(S) /\ Len(B) = 1 /\ B[1] = s4
      /\ C \in Seq(S) /\ Len(C) = 3
  BY <1>5, <1>7
<1>10. PICK G : G = A \o F
  OBVIOUS
<1>11. /\ G \in Seq(S) /\ Len(G) = n + 3 /\ G[1] = s1 /\ G[2] = s2 /\ G[3] = s3
       /\ \A i \in 1 .. n : G[3 + i] = F[i]
  <2>1. 3 \in Nat /\ n \in Nat /\ 3 + n = n + 3
    BY <1>4
  <2>2. /\ A \o F \in Seq(S) /\ Len(A \o F) = Len(A) + Len(F)
        /\ \A x \in 1 .. Len(A) : (A \o F)[x] = A[x]
        /\ \A x \in 1 .. Len(F) : (A \o F)[Len(A) + x] = F[x]
    <3>1. A \in Seq(S) /\ F \in Seq(S)
      BY <1>6, <1>9
    <3> QED
      BY <3>1, Concatenation
  <2>3. 1 \in 1 .. 3 /\ 2 \in 1 .. 3 /\ 3 \in 1 .. 3
    OBVIOUS
  <2> QED
    BY <2>1, <2>2, <2>3, <1>6, <1>9, <1>10
<1>12. PICK H : H = G \o B
  OBVIOUS
<1>13. /\ H \in Seq(S) /\ Len(H) = n + 4 /\ H[n + 4] = s4
       /\ \A i \in 1 .. n + 3 : H[i] = G[i]
  <2>1. n + 3 \in Nat /\ 1 \in Nat /\ (n + 3) + 1 = n + 4 /\ 1 \in 1 .. 1
    BY <1>4
  <2>2. /\ G \o B \in Seq(S) /\ Len(G \o B) = Len(G) + Len(B)
        /\ \A x \in 1 .. Len(G) : (G \o B)[x] = G[x]
        /\ \A x \in 1 .. Len(B) : (G \o B)[Len(G) + x] = B[x]
    <3>1. G \in Seq(S) /\ B \in Seq(S)
      BY <1>9, <1>11
    <3> QED
      BY <3>1, Concatenation
  <2> QED
    BY <2>1, <2>2, <1>9, <1>11, <1>12
<1>14. PICK own : own = H \o C
  OBVIOUS
<1>15. /\ own \in Seq(S) /\ Len(own) = n + 7
       /\ \A i \in 1 .. n + 4 : own[i] = H[i]
       /\ \A i \in 1 .. 3 : own[n + 4 + i] = C[i]
  <2>1. n + 4 \in Nat /\ 3 \in Nat /\ (n + 4) + 3 = n + 7
    BY <1>4
  <2>2. /\ H \o C \in Seq(S) /\ Len(H \o C) = Len(H) + Len(C)
        /\ \A x \in 1 .. Len(H) : (H \o C)[x] = H[x]
        /\ \A x \in 1 .. Len(C) : (H \o C)[Len(H) + x] = C[x]
    <3>1. H \in Seq(S) /\ C \in Seq(S)
      BY <1>9, <1>13
    <3> QED
      BY <3>1, Concatenation
  <2> QED
    BY <2>1, <2>2, <1>9, <1>13, <1>14
<1>16. /\ own[1] = s1 /\ own[2] = s2 /\ own[3] = s3 /\ own[n + 4] = s4
       /\ \A i \in 1 .. n : own[3 + i] = F[i]
  <2>1. 1 \in 1 .. n + 3 /\ 2 \in 1 .. n + 3 /\ 3 \in 1 .. n + 3 /\ n + 4 \in 1 .. n + 4
        /\ 1 .. n + 3 \subseteq 1 .. n + 4 /\ \A i \in 1 .. n : 3 + i \in 1 .. n + 3
    BY <1>4
  <2>2. own[1] = s1 /\ own[2] = s2 /\ own[3] = s3 /\ own[n + 4] = s4
    <3>1. own[1] = H[1] /\ own[2] = H[2] /\ own[3] = H[3] /\ own[n + 4] = H[n + 4]
      BY <2>1, <1>15
    <3>2. H[1] = G[1] /\ H[2] = G[2] /\ H[3] = G[3]
      BY <2>1, <1>13
    <3> QED
      BY <3>1, <3>2, <1>11, <1>13
  <2>3. \A i \in 1 .. n : own[3 + i] = F[i]
    <3> TAKE i \in 1 .. n
    <3>1. 3 + i \in 1 .. n + 3 /\ 3 + i \in 1 .. n + 4
      BY <2>1
    <3>2. own[3 + i] = H[3 + i]
      BY <3>1, <1>15
    <3>3. H[3 + i] = G[3 + i]
      BY <3>1, <1>13
    <3> QED
      BY <3>2, <3>3, <1>11
  <2> QED
    BY <2>2, <2>3
<1>17. Counts(own, p, n)
  BY <1>4, <1>15, SeqOfValues DEF Counts
<1>18. own = SymbolsOf(m)
  BY <1>8, <1>10, <1>12, <1>14
<1> QED
  <2>1. own[1] = TypeSymbol(m, fds) /\ own[2] = Symbol(Name("numbers", m, 0), SizeofTable(Len(fds)), {})
        /\ own[n + 4] = Symbol(Name("tags", m, 0), SizeofTable(Len(p)), {})
    BY <1>2, <1>16
  <2>2. own[3] = Symbol(Name("parser", m, 0), SizeofTypeParser,
                        {Rel("MapEntry", Name("entry", m, 0), "Address")}
                          \cup ParserRels(m, Name("tags", m, 0), Name("field", m, 1)))
    BY <1>2, <1>16
  <2>3. \A i \in 1 .. n : own[3 + i] = FieldSymbols(m, fds, p)[i]
    BY <1>4, <1>16
  <2>4. \A i \in 1 .. 3 : own[n + 4 + i] = EntrySymbols(m)[i]
    BY <1>3, <1>7, <1>15
  <2>5. Placed(own, m, fds, p, n)
    BY <1>17, <2>1, <2>2, <2>3, <2>4 DEF Placed
  <2> QED
    BY <1>1, <1>18, <2>5

\* The name of a symbol tells its place.
LEMMA SymbolNames ==
  ASSUME NEW own, NEW m, NEW fds, NEW p, NEW n, Placed(own, m, fds, p, n), Len(fds) \in Nat, Len(p) \in Nat
  PROVE  /\ \A k \in DOMAIN own : own[k].name.ty = m /\ own[k].size \in Nat \ {0}
         /\ \A k, l \in DOMAIN own : k # l => own[k].name # own[l].name
<1>1. n \in Nat \ {0} /\ DOMAIN own = 1 .. n + 7 /\ (p = <<>> => n = 1) /\ (p # <<>> => n = Len(p))
  BY PlacedCount
<1>2. PICK at : at = [type |-> 1, numbers |-> 2, parser |-> 3, tags |-> n + 4, entry |-> n + 5,
                      entryField |-> n + 6, entryTags |-> n + 7]
  OBVIOUS
<1>e. /\ EntrySymbols(m)[1].name = Name("entry", m, 0) /\ EntrySymbols(m)[1].size = SizeofTypeParser
      /\ EntrySymbols(m)[2].name = Name("entryField", m, 1) /\ EntrySymbols(m)[2].size = SizeofFieldParser
      /\ EntrySymbols(m)[3].name = Name("entryTags", m, 0) /\ EntrySymbols(m)[3].size = SizeofTable(1)
  BY DEF EntrySymbols, Symbol
<1> DEFINE Place(nm) == IF nm.sym = "field" THEN 3 + nm.at ELSE at[nm.sym]
<1>3. ASSUME NEW k \in DOMAIN own
      PROVE  own[k].name.ty = m /\ own[k].size \in Nat \ {0} /\ Place(own[k].name) = k
  <2> USE DEF Symbol, Name
  <2>1. CASE k = 1
    <3>1. SizeofType + SizeofField * (Len(fds) + 1) \in Nat \ {0}
      BY DEF SizeofType, SizeofField
    <3> QED
      BY <3>1, <2>1, <1>2 DEF Placed, TypeSymbol
  <2>2. CASE k = 2
    <3>1. SizeofTable(Len(fds)) \in Nat \ {0}
      BY DEF SizeofTable
    <3> QED
      BY <3>1, <2>2, <1>2 DEF Placed
  <2>3. CASE k = 3
    <3>1. SizeofTypeParser \in Nat \ {0}
      BY DEF SizeofTypeParser
    <3> QED
      BY <3>1, <2>3, <1>2 DEF Placed
  <2>4. CASE k \in 4 .. n + 3
    <3>1. PICK i \in 1 .. n : i = k - 3 /\ k = 3 + i
      BY <2>4, <1>1
    <3>2. own[k] = FieldSymbols(m, fds, p)[i]
      BY <3>1 DEF Placed
    <3>3. FieldSymbols(m, fds, p)[i].name = Name("field", m, i) /\ FieldSymbols(m, fds, p)[i].size = SizeofFieldParser
      <4>1. CASE p = <<>>
        <5>1. i = 1
          BY <4>1, <1>1
        <5> QED
          BY <5>1, <4>1 DEF FieldSymbols
      <4>2. CASE p # <<>>
        BY <4>2, <1>1 DEF FieldSymbols
      <4> QED
        BY <4>1, <4>2
    <3> QED
      BY <3>1, <3>2, <3>3 DEF SizeofFieldParser
  <2>5. CASE k = n + 4
    <3>1. SizeofTable(Len(p)) \in Nat \ {0}
      BY DEF SizeofTable
    <3> QED
      BY <3>1, <2>5, <1>2 DEF Placed
  <2>6. CASE k \in n + 5 .. n + 7
    <3>1. SizeofTable(1) \in Nat \ {0} /\ SizeofFieldParser \in Nat \ {0} /\ SizeofTypeParser \in Nat \ {0}
      BY DEF SizeofTable, SizeofFieldParser, SizeofTypeParser
    <3>2. PICK i \in 1 .. 3 : k = n + 4 + i /\ own[k] = EntrySymbols(m)[i]
      <4>1. k - (n + 4) \in 1 .. 3 /\ k = n + 4 + (k - (n + 4))
        BY <2>6, <1>1
      <4> QED
        BY <4>1 DEF Placed
    <3>3. CASE i = 1
      BY <3>1, <3>2, <3>3, <1>1, <1>2, <1>e
    <3>4. CASE i = 2
      BY <3>1, <3>2, <3>4, <1>1, <1>2, <1>e
    <3>5. CASE i = 3
      BY <3>1, <3>2, <3>5, <1>1, <1>2, <1>e
    <3> QED
      BY <3>2, <3>3, <3>4, <3>5
  <2> QED
    BY <2>1, <2>2, <2>3, <2>4, <2>5, <2>6, <1>1
<1> QED
  BY <1>3

\* The symbols of one message.
LEMMA OwnSymbols ==
  ASSUME NEW m, Scheduled(Fields(m))
  PROVE  /\ SymbolsOf(m) \in Seq(ToSet(SymbolsOf(m)))
         /\ \A k \in DOMAIN SymbolsOf(m) : SymbolsOf(m)[k].name.ty = m /\ SymbolsOf(m)[k].size \in Nat \ {0}
         /\ \A k, l \in DOMAIN SymbolsOf(m) : k # l => SymbolsOf(m)[k].name # SymbolsOf(m)[l].name
<1>1. Parsers(Fields(m)) \in Seq(ParserSet(Fields(m))) /\ Len(Fields(m)) \in Nat
  BY ParsersFacts DEF Scheduled
<1>2. Len(Parsers(Fields(m))) \in Nat
  BY <1>1
<1>3. PICK n : Placed(SymbolsOf(m), m, Fields(m), Parsers(Fields(m)), n)
  BY <1>1, SymbolsPlaced
<1> QED
  BY <1>1, <1>2, <1>3, PlacedCount, SymbolNames

\* The symbols of the messages of one component more.
LEMMA MoreSymbols ==
  ASSUME NEW old, NEW D, Generated(old, D), NEW n \in Nat, NEW mem, DOMAIN mem = 1 .. n,
         \A k \in 1 .. n : Scheduled(Fields(mem[k])) /\ mem[k] \notin D,
         \A m \in D : Scheduled(Fields(m)),
         \A j, k \in 1 .. n : j # k => mem[j] # mem[k]
  PROVE  Generated(old \o FlattenSeq([k \in DOMAIN mem |-> SymbolsOf(mem[k])]), D \cup ToSet(mem))
<1>1. \A k \in 1 .. n :
        /\ SymbolsOf(mem[k]) \in Seq(ToSet(SymbolsOf(mem[k])))
        /\ \A i \in DOMAIN SymbolsOf(mem[k]) :
             SymbolsOf(mem[k])[i].name.ty = mem[k] /\ SymbolsOf(mem[k])[i].size \in Nat \ {0}
        /\ \A i, j \in DOMAIN SymbolsOf(mem[k]) :
             i # j => SymbolsOf(mem[k])[i].name # SymbolsOf(mem[k])[j].name
  BY OwnSymbols
<1>s. PICK seqs : seqs = [k \in 1 .. n |-> SymbolsOf(mem[k])]
  OBVIOUS
<1>t. PICK T : T = UNION {ToSet(SymbolsOf(mem[k])) : k \in 1 .. n}
  OBVIOUS
<1>2. /\ DOMAIN seqs = 1 .. n /\ seqs \in [1 .. n -> Seq(T)]
      /\ \A k \in 1 .. n : /\ seqs[k] = SymbolsOf(mem[k]) /\ seqs[k] \in Seq(T)
                           /\ \A i \in DOMAIN seqs[k] :
                                seqs[k][i].name.ty = mem[k] /\ seqs[k][i].size \in Nat \ {0}
                           /\ \A i, j \in DOMAIN seqs[k] : i # j => seqs[k][i].name # seqs[k][j].name
  <2>1. ASSUME NEW k \in 1 .. n
        PROVE  SymbolsOf(mem[k]) \in Seq(T)
    <3>1. ToSet(SymbolsOf(mem[k])) \subseteq T
      BY <1>t
    <3> QED
      BY <3>1, <1>1
  <2> QED
    BY <2>1, <1>1, <1>s
<1>F. PICK F : F = FlattenSeq(seqs)
  OBVIOUS
<1>3. F \in Seq(T) /\ IsFlat(F, seqs)
  BY <1>2, <1>F, FlattenFacts
<1>U. PICK U : U = ToSet(old) \cup T
  OBVIOUS
<1>o. /\ old \in Seq(ToSet(old))
      /\ \A k \in DOMAIN old : old[k].name.ty \in D /\ old[k].size \in Nat \ {0}
      /\ \A k, l \in DOMAIN old : k # l => old[k].name # old[l].name
      /\ \A m \in D : \E b \in 0 .. Len(old) - Len(SymbolsOf(m)) :
           \A k \in DOMAIN SymbolsOf(m) : old[b + k] = SymbolsOf(m)[k]
  BY DEF Generated
<1>4. old \in Seq(U) /\ F \in Seq(U)
  BY <1>o, <1>3, <1>U
<1>g. PICK g : g = old \o F
  OBVIOUS
<1>l. PICK lo, lf \in Nat : lo = Len(old) /\ lf = Len(F)
  BY <1>4
<1>d. DOMAIN old = 1 .. lo /\ DOMAIN F = 1 .. lf
  BY <1>4, <1>l
<1>5. /\ g \in Seq(U) /\ Len(g) = lo + lf
      /\ \A x \in 1 .. lo : g[x] = old[x]
      /\ \A x \in 1 .. lf : g[lo + x] = F[x]
  BY <1>4, <1>g, <1>l, Concatenation
<1>6. g \in Seq(ToSet(g)) /\ DOMAIN g = 1 .. lo + lf
  BY <1>5, SeqOfValues
\* Where a place of g comes from.
<1>7. \A x \in DOMAIN g : x \notin 1 .. lo => \E y \in DOMAIN F : x = lo + y /\ g[x] = F[y]
  <2>1. ASSUME NEW x \in DOMAIN g, x \notin 1 .. lo
        PROVE  x - lo \in DOMAIN F /\ x = lo + (x - lo)
    BY <2>1, <1>6, <1>d
  <2> QED
    BY <2>1, <1>5, <1>d
<1>8. \A y \in DOMAIN F : \E k \in 1 .. n : \E i \in DOMAIN seqs[k] : F[y] = seqs[k][i]
  BY <1>3, <1>2 DEF IsFlat
<1>9. \A y \in DOMAIN F : \E k \in 1 .. n : F[y].name.ty = mem[k] /\ F[y].size \in Nat \ {0}
  BY <1>8, <1>2
<1>10. \A k \in DOMAIN g : g[k].name.ty \in D \cup ToSet(mem) /\ g[k].size \in Nat \ {0}
  <2>1. ASSUME NEW x \in DOMAIN g
        PROVE  g[x].name.ty \in D \cup ToSet(mem) /\ g[x].size \in Nat \ {0}
    <3>1. CASE x \in 1 .. lo
      BY <3>1, <1>5, <1>o, <1>d
    <3>2. CASE x \notin 1 .. lo
      <4>1. PICK y \in DOMAIN F : g[x] = F[y]
        BY <3>2, <1>7
      <4>2. PICK k \in 1 .. n : F[y].name.ty = mem[k] /\ F[y].size \in Nat \ {0}
        BY <1>9
      <4>3. mem[k] \in ToSet(mem)
        BY DEF ToSet
      <4> QED
        BY <4>1, <4>2, <4>3
    <3> QED
      BY <3>1, <3>2
  <2> QED
    BY <2>1
<1>11. \A x, y \in DOMAIN F : x # y => F[x].name # F[y].name
  <2>1. ASSUME NEW x \in DOMAIN F, NEW y \in DOMAIN F, x # y
        PROVE  F[x].name # F[y].name
    <3>0. \A v, w \in DOMAIN F : v # w => \E j, k \in DOMAIN seqs : \E i \in DOMAIN seqs[j], h \in DOMAIN seqs[k] :
                (j # k \/ i # h) /\ F[v] = seqs[j][i] /\ F[w] = seqs[k][h]
      BY <1>3, Zenon DEF IsFlat
    <3>1. PICK j, k \in 1 .. n : \E i \in DOMAIN seqs[j], h \in DOMAIN seqs[k] :
                (j # k \/ i # h) /\ F[x] = seqs[j][i] /\ F[y] = seqs[k][h]
      BY <3>0, <2>1, <1>2
    <3>2. PICK i \in DOMAIN seqs[j] : \E h \in DOMAIN seqs[k] :
                (j # k \/ i # h) /\ F[x] = seqs[j][i] /\ F[y] = seqs[k][h]
      BY <3>1
    <3>3. PICK h \in DOMAIN seqs[k] : (j # k \/ i # h) /\ F[x] = seqs[j][i] /\ F[y] = seqs[k][h]
      BY <3>2
    <3>4. CASE j # k
      <4>1. F[x].name.ty = mem[j] /\ F[y].name.ty = mem[k] /\ mem[j] # mem[k]
        BY <3>3, <3>4, <1>2
      <4> QED
        BY <4>1
    <3>5. CASE j = k
      BY <3>3, <3>5, <1>2
    <3> QED
      BY <3>4, <3>5
  <2> QED
    BY <2>1
<1>12. \A x \in DOMAIN old, y \in DOMAIN F : old[x].name # F[y].name
  <2>1. ASSUME NEW x \in DOMAIN old, NEW y \in DOMAIN F
        PROVE  old[x].name # F[y].name
    <3>1. PICK k \in 1 .. n : F[y].name.ty = mem[k]
      BY <1>9
    <3> QED
      BY <3>1, <1>o
  <2> QED
    BY <2>1
<1>13. \A k, l \in DOMAIN g : k # l => g[k].name # g[l].name
  <2>1. ASSUME NEW x \in DOMAIN g, NEW z \in DOMAIN g, x # z
        PROVE  g[x].name # g[z].name
    <3>1. CASE x \in 1 .. lo /\ z \in 1 .. lo
      BY <3>1, <2>1, <1>5, <1>o, <1>d
    <3>2. CASE x \in 1 .. lo /\ z \notin 1 .. lo
      <4>1. PICK y \in DOMAIN F : g[z] = F[y]
        BY <3>2, <1>7
      <4> QED
        BY <4>1, <3>2, <1>5, <1>12, <1>d
    <3>3. CASE x \notin 1 .. lo /\ z \in 1 .. lo
      <4>1. PICK y \in DOMAIN F : g[x] = F[y]
        BY <3>3, <1>7
      <4> QED
        BY <4>1, <3>3, <1>5, <1>12, <1>d
    <3>4. CASE x \notin 1 .. lo /\ z \notin 1 .. lo
      <4>1. PICK y \in DOMAIN F : x = lo + y /\ g[x] = F[y]
        BY <3>4, <1>7
      <4>2. PICK w \in DOMAIN F : z = lo + w /\ g[z] = F[w]
        BY <3>4, <1>7
      <4> QED
        BY <4>1, <4>2, <2>1, <1>11
    <3> QED
      BY <3>1, <3>2, <3>3, <3>4
  <2> QED
    BY <2>1
<1>14. ASSUME NEW m \in D
       PROVE  \E b \in 0 .. Len(g) - Len(SymbolsOf(m)) : \A k \in DOMAIN SymbolsOf(m) : g[b + k] = SymbolsOf(m)[k]
  <2>0. Len(SymbolsOf(m)) \in Nat /\ DOMAIN SymbolsOf(m) = 1 .. Len(SymbolsOf(m))
    BY OwnSymbols
  <2>1. PICK b \in 0 .. lo - Len(SymbolsOf(m)) : \A k \in DOMAIN SymbolsOf(m) : old[b + k] = SymbolsOf(m)[k]
    BY <1>o, <1>l
  <2>2. b \in 0 .. Len(g) - Len(SymbolsOf(m))
    BY <2>0, <1>5
  <2>3. \A k \in DOMAIN SymbolsOf(m) : b + k \in 1 .. lo
    BY <2>0
  <2> QED
    BY <2>1, <2>2, <2>3, <1>5
<1>15. ASSUME NEW q \in 1 .. n
       PROVE  \E b \in 0 .. Len(g) - Len(SymbolsOf(mem[q])) :
                \A k \in DOMAIN SymbolsOf(mem[q]) : g[b + k] = SymbolsOf(mem[q])[k]
  <2>1. PICK b \in 0 .. Len(F) - Len(seqs[q]) : \A i \in DOMAIN seqs[q] : F[b + i] = seqs[q][i]
    BY <1>3, <1>2 DEF IsFlat
  <2>2. seqs[q] = SymbolsOf(mem[q]) /\ Len(seqs[q]) \in Nat /\ DOMAIN seqs[q] = 1 .. Len(seqs[q])
    BY <1>2
  <2>3. lo + b \in 0 .. Len(g) - Len(seqs[q])
    BY <2>2, <1>5, <1>l
  <2>4. \A k \in DOMAIN seqs[q] : b + k \in 1 .. lf /\ (lo + b) + k = lo + (b + k)
    <3>1. b \in 0 .. lf - Len(seqs[q])
      BY <1>l
    <3> QED
      BY <3>1, <2>2
  <2>5. \A k \in DOMAIN seqs[q] : g[(lo + b) + k] = seqs[q][k]
    BY <2>1, <2>4, <1>5
  <2> QED
    BY <2>2, <2>3, <2>5
<1>16. \A m \in D \cup ToSet(mem) : \E b \in 0 .. Len(g) - Len(SymbolsOf(m)) :
         \A k \in DOMAIN SymbolsOf(m) : g[b + k] = SymbolsOf(m)[k]
  <2>1. \A m \in ToSet(mem) : \E q \in 1 .. n : m = mem[q]
    BY DEF ToSet
  <2>2. ASSUME NEW m \in ToSet(mem)
        PROVE  \E b \in 0 .. Len(g) - Len(SymbolsOf(m)) :
                 \A k \in DOMAIN SymbolsOf(m) : g[b + k] = SymbolsOf(m)[k]
    <3>1. PICK q \in 1 .. n : m = mem[q]
      BY <2>1
    <3>2. \E b \in 0 .. Len(g) - Len(SymbolsOf(mem[q])) :
            \A k \in DOMAIN SymbolsOf(mem[q]) : g[b + k] = SymbolsOf(mem[q])[k]
      BY <1>15
    <3> QED
      BY <3>1, <3>2, Zenon
  <2> QED
    BY <2>2, <1>14, Zenon
<1>17. Generated(g, D \cup ToSet(mem))
  BY <1>6, <1>10, <1>13, <1>16 DEF Generated
<1>18. [k \in DOMAIN mem |-> SymbolsOf(mem[k])] = seqs
  BY <1>s
<1> QED
  BY <1>17, <1>18, <1>g, <1>F


\* The fields of a message that is compiled.
LEMMA FieldsScheduled ==
  ASSUME IsInput(input), NEW m \in DOMAIN input.fields
  PROVE  Scheduled(Fields(m))
<1>f. PICK fds : fds = Fields(m)
  OBVIOUS
<1>T. PICK T : T = DOMAIN input.fields
  OBVIOUS
<1>1. fds \in Seq(Descriptors(T)) /\ TagsDiffer(fds)
  BY <1>f, <1>T DEF IsInput, Fields
<1>2. Len(fds) \in Nat /\ DOMAIN fds = 1 .. Len(fds)
  BY <1>1
<1>3. \A i \in DOMAIN fds : fds[i] \in Descriptors(T)
  BY <1>1, <1>2, ElementOfSeq
<1>4. \A d \in Descriptors(T) : /\ d.num \in Nat /\ d.hot \in BOOLEAN
                                /\ d.arch.parsers \in Seq([kind : 0 .. 7, retry : BOOLEAN])
  BY DEF Descriptors
<1>5. \A s \in Seq([kind : 0 .. 7, retry : BOOLEAN]) : Len(s) \in Nat
  OBVIOUS
<1> QED
  BY <1>1, <1>2, <1>3, <1>4, <1>5, <1>f, Zenon DEF Scheduled

----------------------------------------------------------------------------
(* The invariant *)

\* Once the components are sorted, Sort takes no further step.
LEMMA SortedStops ==
  ASSUME SccInv, Sorted, SccNext
  PROVE  FALSE
<1>1. calls = <<>> /\ index > 0 /\ index \in Nat
  BY DEF Sorted, SccInv, SccTypes
<1>2. ~Looping
  BY <1>1 DEF Looping
<1> QED
  BY <1>1, <1>2 DEF SccNext, Sort, Descend, SeeDep, Return

\* compile starts with no information, no layout and no program.
LEMMA CompilerInit ==
  ASSUME Init
  PROVE  CompilerInv
<1>1. IsInput(input) /\ graph = MessageGraph /\ SccInv
  BY CompilerStarts, SccStart
<1>2. info = <<>> /\ irs = <<>> /\ program = <<>> /\ required = <<>> /\ keys = <<>> /\ components = <<>>
  BY DEF Init, SccInit
<1>3. InfoExact
  BY <1>2 DEF InfoExact
<1>4. info \in Seq(BOOLEAN) /\ Len(info) <= Len(components)
  BY <1>2
<1>5. DOMAIN irs = {} /\ DOMAIN keys = {} /\ symbols = <<>>
  BY <1>2 DEF Init
<1>6. Generated(symbols, DOMAIN irs)
  BY <1>5 DEF Generated
<1> QED
  BY <1>1, <1>2, <1>3, <1>4, <1>5, <1>6 DEF CompilerInv

\* While Sort is running, compile has done nothing else.
LEMMA SortComponentsInv ==
  ASSUME CompilerInv, SortComponents
  PROVE  CompilerInv'
<1>1. SccNext /\ UNCHANGED <<input, info, irs, symbols, program, required>>
  BY DEF SortComponents
<1>2. SccInv' /\ graph' = graph
  <2>1. SccInv
    BY DEF CompilerInv
  <2>2. graph' = graph
    BY <1>1 DEF SccNext, Sort, Descend, SeeDep, Return
  <2> QED
    BY <2>1, <2>2, <1>1, SccStep
<1>3. ~Sorted
  BY <1>1, SortedStops DEF CompilerInv
<1>4. info = <<>> /\ program = <<>> /\ required = <<>>
  BY <1>3 DEF CompilerInv
<1>5. IsInput(input)' /\ (graph = MessageGraph)'
  BY <1>1, <1>2 DEF CompilerInv, MessageGraph, Fields
<1>6. info' \in Seq(BOOLEAN) /\ Len(info') <= Len(components')
  <2>1. Len(components') \in Nat
    BY <1>2 DEF SccInv, SccTypes
  <2> QED
    BY <2>1, <1>1, <1>4
<1>7. InfoExact'
  <2>1. \A m \in DOMAIN keys' : ~ (keys'[m] <= Len(info'))
    <3>1. \A m \in DOMAIN keys' : keys'[m] \in DOMAIN components'
      BY <1>2 DEF SccInv, ComponentsClosed
    <3>2. DOMAIN components' = 1 .. Len(components') /\ Len(components') \in Nat
      BY <1>2 DEF SccInv, SccTypes
    <3> QED
      BY <3>1, <3>2, <1>1, <1>4
  <2> QED
    BY <2>1 DEF InfoExact
<1>8. DOMAIN irs' = {m \in DOMAIN keys' : keys'[m] <= Len(info')} /\ \A m \in DOMAIN irs' : irs'[m] = IR(m)'
  <2>1. \A m \in DOMAIN keys : ~ (keys[m] <= Len(info))
    <3>1. \A m \in DOMAIN keys : keys[m] \in DOMAIN components
      BY DEF CompilerInv, SccInv, ComponentsClosed
    <3>2. DOMAIN components = 1 .. Len(components) /\ Len(components) \in Nat
      BY DEF CompilerInv, SccInv, SccTypes
    <3> QED
      BY <3>1, <3>2, <1>4
  <2>2. \A m \in DOMAIN keys' : ~ (keys'[m] <= Len(info'))
    <3>1. \A m \in DOMAIN keys' : keys'[m] \in DOMAIN components'
      BY <1>2 DEF SccInv, ComponentsClosed
    <3>2. DOMAIN components' = 1 .. Len(components') /\ Len(components') \in Nat
      BY <1>2 DEF SccInv, SccTypes
    <3> QED
      BY <3>1, <3>2, <1>1, <1>4
  <2>3. DOMAIN irs = {}
    BY <2>1 DEF CompilerInv
  <2> QED
    BY <2>2, <2>3, <1>1
<1>9. Generated(symbols, DOMAIN irs)'
  <2>1. \A m : SymbolsOf(m)' = SymbolsOf(m)
    BY <1>1 DEF SymbolsOf, Fields
  <2>2. Generated(symbols, DOMAIN irs)
    BY DEF CompilerInv
  <2> QED
    BY <2>1, <2>2, <1>1 DEF Generated
<1> QED
  BY <1>1, <1>2, <1>4, <1>5, <1>6, <1>7, <1>8, <1>9 DEF CompilerInv

\* What compile does after Sort leaves what was sorted alone.
LEMMA SortedSame ==
  ASSUME CompilerInv, UNCHANGED <<graph, calls, index, stack, meta, keys, components, input>>
  PROVE  /\ SccInv' /\ IsInput(input)' /\ (graph = MessageGraph)'
         /\ Sorted' = Sorted
         /\ \A m : /\ Recursive(m)' <=> Recursive(m)
                   /\ MayLack(m)' <=> MayLack(m)
                   /\ IR(m)' = IR(m) /\ Fields(m)' = Fields(m)
<1>1. SccInv'
  BY SccStep DEF CompilerInv, sccVars
<1>2. IsInput(input)' /\ (graph = MessageGraph)'
  BY DEF CompilerInv, MessageGraph, Fields
<1>3. \A m : /\ Recursive(m)' <=> Recursive(m)
             /\ MayLack(m)' <=> MayLack(m)
             /\ IR(m)' = IR(m) /\ Fields(m)' = Fields(m)
  BY DEF Recursive, MayLack, ReachFrom, IR, Fields
<1>4. Sorted' = Sorted
  BY DEF Sorted
<1> QED
  BY <1>1, <1>2, <1>3, <1>4

\* One component more is compiled.
LEMMA CompileComponentInv ==
  ASSUME CompilerInv, CompileComponent
  PROVE  CompilerInv'
<1>1. /\ Sorted /\ Len(info) < Len(components)
      /\ info' = Append(info, HasRequired(Len(info) + 1))
      /\ UNCHANGED <<graph, calls, index, stack, meta, keys, components, input>>
      /\ UNCHANGED <<program, required>>
  BY Zenon DEF CompileComponent
<1>2. /\ SccInv' /\ IsInput(input)' /\ (graph = MessageGraph)' /\ Sorted'
      /\ \A m : /\ Recursive(m)' <=> Recursive(m)
                /\ MayLack(m)' <=> MayLack(m)
                /\ IR(m)' = IR(m) /\ Fields(m)' = Fields(m)
  BY <1>1, SortedSame
<1>b. PICK b : b = HasRequired(Len(info) + 1)
  OBVIOUS
<1>3. PICK c \in Nat, n \in Nat : c = Len(info) + 1 /\ n = Len(components)
  <2>1. Len(info) + 1 \in Nat /\ Len(components) \in Nat
    BY DEF CompilerInv, SccInv, SccTypes
  <2> QED
    BY <2>1
<1>4. b \in BOOLEAN
  BY <1>b DEF HasRequired
<1>5. info \in Seq(BOOLEAN) /\ Len(info) = c - 1
  <2>1. info \in Seq(BOOLEAN)
    BY DEF CompilerInv
  <2> QED
    BY <2>1, <1>3
<1>6. /\ info' \in Seq(BOOLEAN) /\ Len(info') = c /\ info'[c] = b /\ c <= n
      /\ \A k \in 1 .. c - 1 : info'[k] = info[k]
  BY <1>1, <1>b, <1>3, <1>4, <1>5
<1>7. InfoExact'
  <2>1. ASSUME NEW m \in DOMAIN keys, keys[m] <= c, ~Recursive(m)
        PROVE  info'[keys[m]] <=> MayLack(m)
    <3>1. keys[m] \in Nat /\ keys[m] >= 1
      <4>1. keys[m] \in DOMAIN components /\ DOMAIN components = 1 .. Len(components)
        BY DEF CompilerInv, SccInv, ComponentsClosed, SccTypes
      <4> QED
        BY <4>1
    <3>2. CASE keys[m] = c
      <4>1. b <=> MayLack(m)
        BY <2>1, <3>2, <1>b, <1>3, NewInfoExact
      <4> QED
        BY <4>1, <3>2, <1>6
    <3>3. CASE keys[m] # c
      <4>1. keys[m] \in 1 .. c - 1 /\ keys[m] <= Len(info)
        BY <3>1, <3>3, <2>1, <1>5
      <4>2. info[keys[m]] <=> MayLack(m)
        BY <4>1, <2>1 DEF CompilerInv, InfoExact
      <4> QED
        BY <4>1, <4>2, <1>6
    <3> QED
      BY <3>2, <3>3
  <2> QED
    BY <2>1, <1>1, <1>2, <1>6 DEF InfoExact
<1>S. PICK mem : mem = components[c].members
  OBVIOUS
<1>s. /\ irs' = [m \in DOMAIN irs \cup ToSet(mem) |-> IF m \in DOMAIN irs THEN irs[m] ELSE IR(m)]
      /\ symbols' = symbols \o FlattenSeq([k \in DOMAIN mem |-> SymbolsOf(mem[k])])
  BY <1>3, <1>S, Zenon DEF CompileComponent
<1>c. c \in DOMAIN components
  <2>1. c \in 1 .. n /\ DOMAIN components = 1 .. Len(components)
    BY <1>3, <1>6 DEF CompilerInv, SccInv, SccTypes
  <2> QED
    BY <2>1, <1>3
<1>m. /\ ToSet(mem) = {m \in DOMAIN keys : keys[m] = c}
      /\ \A p, q \in DOMAIN mem : p # q => mem[p] # mem[q]
  BY <1>c, <1>S DEF CompilerInv, SccInv, ComponentsClosed
<1>k. DOMAIN keys \subseteq DOMAIN input.fields /\ \A m \in DOMAIN keys : keys[m] \in Nat
  <2>1. DOMAIN keys \subseteq DOMAIN graph.deps /\ \A m \in DOMAIN keys : keys[m] \in Nat
    BY DEF CompilerInv, SccInv, SccTypes, StackByIndex, Nodes
  <2>2. DOMAIN graph.deps = DOMAIN input.fields
    BY GraphEdges DEF CompilerInv
  <2> QED
    BY <2>1, <2>2
<1>i. DOMAIN irs = {m \in DOMAIN keys : keys[m] <= c - 1} /\ \A m \in DOMAIN irs : irs[m] = IR(m)
  BY <1>5 DEF CompilerInv
<1>8. DOMAIN irs' = {m \in DOMAIN keys' : keys'[m] <= Len(info')} /\ \A m \in DOMAIN irs' : irs'[m] = IR(m)'
  <2>1. DOMAIN irs' = DOMAIN irs \cup ToSet(mem) /\ \A m \in DOMAIN irs' : irs'[m] = IR(m)
    BY <1>s, <1>i
  <2>2. DOMAIN irs' = {m \in DOMAIN keys : keys[m] <= c}
    BY <2>1, <1>i, <1>m, <1>k
  <2> QED
    BY <2>1, <2>2, <1>1, <1>2, <1>6
<1>g. Generated(symbols, DOMAIN irs)'
  <2>1. PICK k \in Nat : DOMAIN mem = 1 .. k
    <3>1. components \in Seq([members : Seq(Nodes), deps : SUBSET Nat]) /\ DOMAIN components = 1 .. Len(components)
      BY DEF CompilerInv, SccInv, SccTypes
    <3>2. components[c] \in [members : Seq(Nodes), deps : SUBSET Nat]
      BY <3>1, <1>c, ElementOfSeq
    <3>3. mem \in Seq(Nodes)
      BY <3>2, <1>S
    <3> QED
      BY <3>3
  <2>2. \A m \in DOMAIN keys : Scheduled(Fields(m))
    BY <1>k, FieldsScheduled DEF CompilerInv
  <2>3. \A i \in 1 .. k : mem[i] \in DOMAIN keys /\ keys[mem[i]] = c
    BY <2>1, <1>m DEF ToSet
  <2>4. \A i \in 1 .. k : Scheduled(Fields(mem[i])) /\ mem[i] \notin DOMAIN irs
    BY <2>2, <2>3, <1>i
  <2>5. \A m \in DOMAIN irs : Scheduled(Fields(m))
    BY <2>2, <1>i
  <2>6. Generated(symbols, DOMAIN irs)
    BY DEF CompilerInv
  <2>7. Generated(symbols', DOMAIN irs \cup ToSet(mem))
    BY <2>1, <2>4, <2>5, <2>6, <1>m, <1>s, MoreSymbols
  <2>8. DOMAIN irs' = DOMAIN irs \cup ToSet(mem)
    BY <1>s
  <2>9. \A m : SymbolsOf(m)' = SymbolsOf(m)
    BY <1>1 DEF SymbolsOf, Fields
  <2> QED
    BY <2>7, <2>8, <2>9 DEF Generated
<1>9. program' # <<>> \/ required' # <<>> => FALSE
  <2>1. program # <<>> \/ required # <<>> => Len(info) = Len(components)
    BY DEF CompilerInv
  <2>2. Len(info) \in Nat /\ Len(components) \in Nat
    BY DEF CompilerInv, SccInv, SccTypes
  <2> QED
    BY <2>1, <2>2, <1>1
<1>10. Len(info') <= Len(components')
  BY <1>1, <1>3, <1>6
<1> QED
  BY <1>2, <1>6, <1>7, <1>8, <1>9, <1>10, <1>g DEF CompilerInv

\* Linking, and filling in what refers to types.
LEMMA LinkInv ==
  ASSUME CompilerInv, Link \/ PopulateTypes \/ UNCHANGED vars
  PROVE  CompilerInv'
<1>1. UNCHANGED <<graph, calls, index, stack, meta, keys, components, input, info, irs>>
  BY DEF Link, PopulateTypes, vars
<1>2. /\ SccInv' /\ IsInput(input)' /\ (graph = MessageGraph)' /\ Sorted' = Sorted
      /\ \A m : /\ Recursive(m)' <=> Recursive(m)
                /\ MayLack(m)' <=> MayLack(m)
                /\ IR(m)' = IR(m) /\ Fields(m)' = Fields(m)
  BY <1>1, SortedSame
<1>3. InfoExact' /\ info' \in Seq(BOOLEAN) /\ Len(info') <= Len(components')
      /\ DOMAIN irs' = {m \in DOMAIN keys' : keys'[m] <= Len(info')} /\ \A m \in DOMAIN irs' : irs'[m] = IR(m)'
      /\ (info' # <<>> => Sorted')
  BY <1>1, <1>2 DEF CompilerInv, InfoExact
<1>7. Generated(symbols, DOMAIN irs)' /\ (program' # <<>> => program' = LinkedAt(symbols)')
  <2>1. symbols' = symbols /\ (program # <<>> => program = LinkedAt(symbols))
    BY DEF CompilerInv, Link, PopulateTypes, vars
  <2>2. program' = program \/ program' = LinkedAt(symbols)
    BY DEF Link, PopulateTypes, vars
  <2>3. \A m : SymbolsOf(m)' = SymbolsOf(m)
    BY <1>1 DEF SymbolsOf, Fields
  <2>4. Generated(symbols, DOMAIN irs)
    BY DEF CompilerInv
  <2>5. Generated(symbols', DOMAIN irs')
    BY <2>1, <2>4, <1>1
  <2>6. Generated(symbols, DOMAIN irs)' <=> Generated(symbols', DOMAIN irs')
    <3>1. ASSUME NEW m
          PROVE  (\E b \in 0 .. Len(symbols') - Len(SymbolsOf(m)') :
                    \A k \in DOMAIN SymbolsOf(m)' : symbols'[b + k] = SymbolsOf(m)'[k])
                 <=> (\E b \in 0 .. Len(symbols') - Len(SymbolsOf(m)) :
                        \A k \in DOMAIN SymbolsOf(m) : symbols'[b + k] = SymbolsOf(m)[k])
      BY <2>3, Zenon
    <3> QED
      BY <3>1 DEF Generated
  <2>7. LinkedAt(symbols)' = LinkedAt(symbols')
    BY DEF LinkedAt, Ends
  <2> QED
    BY <2>1, <2>2, <2>5, <2>6, <2>7
<1>4. program' # <<>> \/ required' # <<>> => Sorted /\ Len(info) = Len(components)
  BY DEF CompilerInv, Link, PopulateTypes, vars
<1>5. \A fds : RequiredOf(fds)' = RequiredOf(fds)
  BY <1>1 DEF RequiredOf
<1>6. required' # <<>> => required' = [m \in DOMAIN keys' |-> RequiredOf(Fields(m))']
  <2>1. CASE required' = required
    <3>1. required # <<>> => required = [m \in DOMAIN keys |-> RequiredOf(Fields(m))]
      BY DEF CompilerInv
    <3> QED
      BY <3>1, <2>1, <1>1 DEF RequiredOf, Fields
  <2>2. CASE PopulateTypes
    <3>1. required' = [m \in DOMAIN keys |-> RequiredOf(Fields(m))]
      BY <2>2 DEF PopulateTypes
    <3> QED
      BY <3>1, <1>1 DEF RequiredOf, Fields
  <2> QED
    BY <2>1, <2>2 DEF Link, vars
<1> QED
  BY <1>1, <1>2, <1>3, <1>4, <1>6, <1>7 DEF CompilerInv

\* What is compiled is a message of the input.
LEMMA CompiledMessages ==
  ASSUME CompilerInv
  PROVE  DOMAIN keys \subseteq DOMAIN input.fields /\ DOMAIN irs \subseteq DOMAIN input.fields
<1>1. DOMAIN keys \subseteq DOMAIN graph.deps
  BY DEF CompilerInv, SccInv, SccTypes, StackByIndex, Nodes
<1>2. DOMAIN graph.deps = DOMAIN input.fields
  BY GraphEdges DEF CompilerInv
<1>3. DOMAIN irs \subseteq DOMAIN keys
  BY DEF CompilerInv
<1> QED
  BY <1>1, <1>2, <1>3

\* The invariant of compile, for every schema: what it relies on from Sort, and that
\* info and irs say of every compiled component what they should (compile.go compile).
THEOREM CompilerInvariant == Spec => []CompilerInv
<1>1. Init => CompilerInv
  BY CompilerInit
<1>2. CompilerInv /\ [Next]_vars => CompilerInv'
  BY SortComponentsInv, CompileComponentInv, LinkInv DEF Next
<1> QED
  BY <1>1, <1>2, PTL DEF Spec

\* Initialized looks into exactly the submessages that may lack a required field, at
\* whatever depth and through whichever component (ir.go newSCCInfo, compile.go
\* compile), of every message that contains no recursive one.
THEOREM RequiredIsExact == Spec => []RequiredExact
<1>1. CompilerInv => RequiredExact
  <2> SUFFICES ASSUME CompilerInv, NEW m \in DOMAIN required, NEW i \in DOMAIN Fields(m),
                      \A j \in 1 .. i : ~Fields(m)[j].ext, ~Recursive(m)
               PROVE  -i \in required[m] <=> Fields(m)[i].msg # None /\ MayLack(Fields(m)[i].msg)
    BY DEF RequiredExact
  <2>1. /\ SccInv /\ IsInput(input) /\ graph = MessageGraph /\ InfoExact
        /\ required = [n \in DOMAIN keys |-> RequiredOf(Fields(n))]
        /\ Len(info) = Len(components)
    <3>1. required # <<>>
      OBVIOUS
    <3> QED
      BY <3>1 DEF CompilerInv
  <2>2. m \in DOMAIN keys /\ m \in DOMAIN input.fields /\ required[m] = RequiredOf(Fields(m))
    <3>1. DOMAIN keys \subseteq DOMAIN graph.deps
      BY <2>1 DEF SccInv, SccTypes, StackByIndex, Nodes
    <3> QED
      BY <2>1, <3>1, GraphEdges
  <2>f. PICK fds : fds = Fields(m)
    OBVIOUS
  <2>n. PICK n : n = Len(fds)
    OBVIOUS
  <2>3. fds = Fields(m) /\ n \in Nat /\ DOMAIN fds = 1 .. n /\ i \in 1 .. n
    <3>1. fds \in Seq(Descriptors(DOMAIN input.fields)) /\ i \in DOMAIN fds
      BY <2>1, <2>2, <2>f DEF IsInput, Fields
    <3>2. Len(fds) \in Nat /\ DOMAIN fds = 1 .. Len(fds)
      BY <3>1
    <3> QED
      BY <3>1, <3>2, <2>n, <2>f
  <2> DEFINE own == {k \in DOMAIN fds : \A j \in 1 .. k : ~fds[j].ext}
  <2>4. i \in own /\ own \subseteq 1 .. n
    BY <2>3
  <2>5. required[m] = {k \in own : fds[k].required}
                        \cup {-k : k \in {k \in own : fds[k].msg # None /\ info[keys[fds[k].msg]]}}
    BY <2>2, <2>3 DEF RequiredOf
  <2> HIDE DEF own
  <2>6. -i \in required[m] <=> fds[i].msg # None /\ info[keys[fds[i].msg]]
    <3>1. -i \notin own
      BY <2>3, <2>4
    <3>2. \A k \in own : -k = -i => k = i
      BY <2>3, <2>4
    <3> QED
      BY <2>4, <2>5, <3>1, <3>2
  <2>7. ASSUME fds[i].msg # None
        PROVE  info[keys[fds[i].msg]] <=> MayLack(fds[i].msg)
    <3>1. PICK d : d = fds[i].msg
      OBVIOUS
    <3>2. d \in Deps(graph, m)
      BY <2>1, <2>2, <2>3, <2>7, <3>1, GraphEdges
    <3>3. GraphOK(graph) /\ m \in DOMAIN graph.deps
      BY <2>1, <2>2, GraphEdges DEF IsGraph, GraphOK, Nodes
    <3>4. ~Recursive(d)
      BY <3>2, <3>3, NotRecursive
    <3>5. d \in DOMAIN keys /\ keys[d] \in DOMAIN components
      BY <3>2, <2>1, <2>2 DEF SccInv, ComponentsClosed
    <3>6. keys[d] <= Len(info)
      BY <3>5, <2>1 DEF SccInv, SccTypes
    <3> QED
      BY <3>1, <3>4, <3>5, <3>6, <2>1 DEF InfoExact
  <2> QED
    BY <2>3, <2>6, <2>7
<1> QED
  BY <1>1, CompilerInvariant, PTL

----------------------------------------------------------------------------
(* doLayout *)

\* What of the fields of a message the layout depends on.
Described(fds) ==
  /\ Len(fds) \in Nat /\ DOMAIN fds = 1 .. Len(fds)
  /\ \A i \in DOMAIN fds : /\ fds[i].num \in Nat /\ fds[i].oneof \in Nat
                           /\ fds[i].arch.size \in Nat /\ fds[i].arch.bits \in Nat
                           /\ fds[i].arch.align \in {1, 2, 4, 8}
  /\ OneofsContiguous(fds)

\* Max is what its name says, of a set of naturals with a bound.
LEMMA MaxOfNats ==
  ASSUME NEW S, S \subseteq Nat, S # {}, NEW b \in Nat, \A k \in S : k <= b
  PROVE  Max(S) \in S /\ \A k \in S : k <= Max(S)
<1> DEFINE Below == {b - k : k \in S}
<1>1. Below \subseteq Nat /\ Below # {}
  <2>1. \A k \in S : b - k \in Nat
    OBVIOUS
  <2> QED
    BY <2>1
<1>2. PICK l \in Below : \A k \in Below : l <= k
  BY <1>1, LeastOfNats
<1>3. PICK m \in S : l = b - m
  BY <1>2
<1>4. ASSUME NEW k \in S
      PROVE  m >= k
  <2>1. b - k \in Below
    OBVIOUS
  <2>2. b - m <= b - k /\ m \in Nat /\ k \in Nat
    BY <2>1, <1>2, <1>3
  <2> QED
    BY <2>2
<1>5. \E x \in S : \A y \in S : x >= y
  BY <1>3, <1>4
<1>6. PICK x : x = Max(S)
  OBVIOUS
<1>7. x \in S /\ \A y \in S : x >= y
  BY <1>5, <1>6 DEF Max
<1>8. \A y \in S : y <= x
  BY <1>7
<1> QED
  BY <1>6, <1>7, <1>8

\* Finitely many naturals have a bound.
LEMMA BoundOfValues ==
  ASSUME NEW f, NEW n \in Nat, \A i \in 1 .. n : f[i] \in Nat
  PROVE  \E b \in Nat : \A i \in 1 .. n : f[i] <= b
<1> DEFINE S == {k \in Nat : k <= n => \E b \in Nat : \A i \in 1 .. k : f[i] <= b}
<1>1. 0 \in S
  OBVIOUS
<1>2. ASSUME NEW k \in Nat, k \in S
      PROVE  k + 1 \in S
  <2> SUFFICES ASSUME k + 1 <= n
               PROVE  \E b \in Nat : \A i \in 1 .. k + 1 : f[i] <= b
    OBVIOUS
  <2>1. PICK b \in Nat : \A i \in 1 .. k : f[i] <= b
    BY <1>2
  <2>2. f[k + 1] \in Nat
    OBVIOUS
  <2>3. b + f[k + 1] \in Nat
    BY <2>2
  <2>4. ASSUME NEW i \in 1 .. k + 1
        PROVE  f[i] <= b + f[k + 1]
    <3>1. CASE i = k + 1
      BY <3>1, <2>2
    <3>2. CASE i # k + 1
      <4>1. i \in 1 .. k /\ f[i] \in Nat
        BY <3>2
      <4> QED
        BY <4>1, <2>1, <2>2
    <3> QED
      BY <3>1, <3>2
  <2> QED
    BY <2>3, <2>4
<1> HIDE DEF S
<1>3. n \in S
  BY <1>1, <1>2, SetInduction
<1> QED
  BY <1>3 DEF S

\* The largest of the values that finitely many fields have.
LEMMA MaxOfValues ==
  ASSUME NEW f, NEW n \in Nat, \A i \in 1 .. n : f[i] \in Nat,
         NEW M, M \subseteq 1 .. n, M # {}, NEW S, S = {f[i] : i \in M}
  PROVE  Max(S) \in S /\ Max(S) \in Nat /\ \A i \in M : f[i] <= Max(S)
<1>1. PICK b \in Nat : \A i \in 1 .. n : f[i] <= b
  BY BoundOfValues
<1>2. S \subseteq Nat /\ S # {} /\ \A k \in S : k <= b
  BY <1>1
<1>3. \A i \in M : f[i] \in S
  OBVIOUS
<1>4. Max(S) \in S /\ \A k \in S : k <= Max(S)
  BY <1>2, MaxOfNats
<1> QED
  BY <1>2, <1>3, <1>4

\* A multiple of an alignment, and so of every smaller one.
Aligned(r, a) ==
  r % 1 = 0 /\ (a >= 2 => r % 2 = 0) /\ (a >= 4 => r % 4 = 0) /\ (a >= 8 => r % 8 = 0)

\* RoundUp yields the next multiple of an alignment.
LEMMA RoundUpFacts ==
  ASSUME NEW v \in Nat, NEW a \in {1, 2, 4, 8}
  PROVE  /\ RoundUp(v, a) \in Nat /\ v <= RoundUp(v, a)
         /\ Aligned(RoundUp(v, a), a)
<1> USE DEF Aligned
<1>1. CASE a = 1
  <2>1. RoundUp(v, a) = v
    BY <1>1 DEF RoundUp
  <2>2. v % 1 = 0
    OBVIOUS
  <2> QED
    BY <1>1, <2>1, <2>2
<1>2. CASE a = 2
  <2>1. PICK q \in Nat : q = (v + 1) \div 2 /\ v <= q * 2
    OBVIOUS
  <2>2. RoundUp(v, a) = q * 2
    BY <1>2, <2>1 DEF RoundUp
  <2>3. (q * 2) % 1 = 0 /\ (q * 2) % 2 = 0
    BY <2>1
  <2> QED
    BY <1>2, <2>1, <2>2, <2>3
<1>3. CASE a = 4
  <2>1. PICK q \in Nat : q = (v + 3) \div 4 /\ v <= q * 4
    OBVIOUS
  <2>2. RoundUp(v, a) = q * 4
    BY <1>3, <2>1 DEF RoundUp
  <2>3. (q * 4) % 1 = 0 /\ (q * 4) % 2 = 0 /\ (q * 4) % 4 = 0
    BY <2>1
  <2> QED
    BY <1>3, <2>1, <2>2, <2>3
<1>4. CASE a = 8
  <2>1. PICK q \in Nat : q = (v + 7) \div 8 /\ v <= q * 8
    OBVIOUS
  <2>2. RoundUp(v, a) = q * 8
    BY <1>4, <2>1 DEF RoundUp
  <2>3. (q * 8) % 1 = 0 /\ (q * 8) % 2 = 0 /\ (q * 8) % 4 = 0 /\ (q * 8) % 8 = 0
    BY <2>1
  <2> QED
    BY <1>4, <2>1, <2>2, <2>3
<1> QED
  BY <1>1, <1>2, <1>3, <1>4

\* The slot of a field is that of the first member of its oneof, or its own.
LEMMA HeadFacts ==
  ASSUME NEW fds, Described(fds), NEW i \in DOMAIN fds
  PROVE  /\ HeadOf(fds, i) \in Heads(fds) /\ HeadOf(fds, i) <= i
         /\ fds[HeadOf(fds, i)].oneof = fds[i].oneof
         /\ i \in Heads(fds) => HeadOf(fds, i) = i
<1> DEFINE S == {h \in Heads(fds) : h <= i}
<1>n. PICK n : n = Len(fds)
  OBVIOUS
<1>1. n \in Nat /\ DOMAIN fds = 1 .. n /\ i \in 1 .. n /\ i \in Nat
      /\ Heads(fds) \subseteq 1 .. n
  BY <1>n DEF Described, Heads
<1>2. 1 \in S
  <2>1. \A j \in 1 .. 1 - 1 : fds[j].oneof # fds[1].oneof
    OBVIOUS
  <2> QED
    BY <1>1, <2>1 DEF Heads
<1>3. S \subseteq Nat /\ \A k \in S : k <= i
  BY <1>1
<1> HIDE DEF S
<1>4. Max(S) \in S /\ \A k \in S : k <= Max(S)
  BY <1>1, <1>2, <1>3, MaxOfNats
<1>5. PICK h : h = HeadOf(fds, i)
  OBVIOUS
<1>6. h \in Heads(fds) /\ h <= i /\ \A k \in Heads(fds) : k <= i => k <= h
  BY <1>4, <1>5 DEF HeadOf, S
<1>7. i \in Heads(fds) => h = i
  BY <1>1, <1>6
<1>8. ASSUME i \notin Heads(fds)
      PROVE  fds[h].oneof = fds[i].oneof
  <2>1. fds[i].oneof # 0
    BY <1>1, <1>8 DEF Heads
  <2> DEFINE J == {j \in 1 .. i : fds[j].oneof = fds[i].oneof}
  <2>2. J \subseteq Nat /\ i \in J
    BY <1>1
  <2>3. PICK j \in J : \A k \in J : j <= k
    BY <2>2, LeastOfNats
  <2>4. j \in 1 .. n /\ j <= i /\ fds[j].oneof = fds[i].oneof
    BY <2>3, <1>1
  <2>5. \A k \in 1 .. j - 1 : fds[k].oneof # fds[j].oneof
    <3>1. ASSUME NEW k \in 1 .. j - 1, fds[k].oneof = fds[j].oneof
          PROVE  FALSE
      <4>1. k \in J
        BY <3>1, <2>4, <1>1
      <4> QED
        BY <4>1, <2>3, <2>4, <1>1
    <3> QED
      BY <3>1
  <2>6. j \in Heads(fds)
    BY <2>4, <2>5, <1>1 DEF Heads
  <2>7. j <= h /\ j # i
    BY <2>6, <2>4, <1>6, <1>8
  <2>8. fds[h].oneof = fds[i].oneof
    <3>1. j < i /\ h \in j .. i
      BY <2>4, <2>7, <1>1, <1>6
    <3> QED
      BY <3>1, <2>1, <2>4, <1>1 DEF Described, OneofsContiguous
  <2> QED
    BY <2>8
<1> QED
  BY <1>5, <1>6, <1>7, <1>8

\* Two fields share a slot when they are members of one oneof, and only then.
LEMMA SharedSlot ==
  ASSUME NEW fds, Described(fds), NEW i \in DOMAIN fds, NEW j \in DOMAIN fds, i # j
  PROVE  HeadOf(fds, i) = HeadOf(fds, j) <=> fds[i].oneof # 0 /\ fds[i].oneof = fds[j].oneof
<1>n. PICK n : n = Len(fds)
  OBVIOUS
<1>g. PICK g : g = HeadOf(fds, i)
  OBVIOUS
<1>h. PICK h : h = HeadOf(fds, j)
  OBVIOUS
<1>1. n \in Nat /\ DOMAIN fds = 1 .. n /\ i \in 1 .. n /\ j \in 1 .. n
      /\ Heads(fds) \subseteq 1 .. n
  BY <1>n DEF Described, Heads
<1>2. /\ g \in Heads(fds) /\ g <= i /\ fds[g].oneof = fds[i].oneof /\ (i \in Heads(fds) => g = i)
      /\ h \in Heads(fds) /\ h <= j /\ fds[h].oneof = fds[j].oneof /\ (j \in Heads(fds) => h = j)
  BY HeadFacts, <1>g, <1>h
<1>3. ASSUME g = h
      PROVE  fds[i].oneof # 0 /\ fds[i].oneof = fds[j].oneof
  <2>1. i \notin Heads(fds) \/ j \notin Heads(fds)
    BY <1>2, <1>3
  <2>2. fds[i].oneof # 0 \/ fds[j].oneof # 0
    BY <2>1, <1>1 DEF Heads
  <2> QED
    BY <2>2, <1>2, <1>3
<1>4. ASSUME fds[i].oneof # 0, fds[i].oneof = fds[j].oneof
      PROVE  g = h
  <2>1. ~(g < h) /\ ~(h < g)
    <3>1. g \in 1 .. n /\ h \in 1 .. n /\ fds[g].oneof = fds[h].oneof /\ fds[g].oneof # 0
      BY <1>1, <1>2, <1>4
    <3>2. (\A k \in 1 .. g - 1 : fds[k].oneof # fds[g].oneof)
          /\ (\A k \in 1 .. h - 1 : fds[k].oneof # fds[h].oneof)
      BY <1>2, <3>1 DEF Heads
    <3>3. ASSUME g < h PROVE FALSE
      <4>1. g \in 1 .. h - 1
        BY <3>1, <3>3
      <4> QED
        BY <4>1, <3>1, <3>2
    <3>4. ASSUME h < g PROVE FALSE
      <4>1. h \in 1 .. g - 1
        BY <3>1, <3>4
      <4> QED
        BY <4>1, <3>1, <3>2
    <3> QED
      BY <3>3, <3>4
  <2> QED
    BY <2>1, <1>1, <1>2
<1> QED
  BY <1>3, <1>4, <1>g, <1>h

\* The slots hold their members: they are as large, as aligned and have as many
\* hasbits as the members with the most, and all of them do.
LEMMA SlotFacts ==
  ASSUME NEW fds, Described(fds), NEW h \in Heads(fds)
  PROVE  /\ SlotSize(fds, h) \in Nat /\ SlotBits(fds, h) \in Nat
         /\ SlotAlign(fds, h) \in {1, 2, 4, 8}
         /\ \A i \in Members(fds, h) : /\ fds[i].arch.size <= SlotSize(fds, h)
                                       /\ fds[i].arch.bits <= SlotBits(fds, h)
                                       /\ fds[i].arch.align <= SlotAlign(fds, h)
<1>n. PICK n : n = Len(fds)
  OBVIOUS
<1>1. n \in Nat /\ DOMAIN fds = 1 .. n
  BY <1>n DEF Described
<1>2. h \in DOMAIN fds
  BY DEF Heads
<1>3. HeadOf(fds, h) = h
  BY <1>2, HeadFacts
<1>M. PICK M : M = Members(fds, h)
  OBVIOUS
<1>4. M \subseteq 1 .. n /\ M # {}
  BY <1>1, <1>2, <1>3, <1>M DEF Members
<1> DEFINE sizes == [i \in 1 .. n |-> fds[i].arch.size]
           bits == [i \in 1 .. n |-> fds[i].arch.bits]
           aligns == [i \in 1 .. n |-> fds[i].arch.align]
<1>5. \A i \in 1 .. n : /\ sizes[i] \in Nat /\ bits[i] \in Nat /\ aligns[i] \in Nat
                        /\ aligns[i] \in {1, 2, 4, 8}
                        /\ fds[i].arch.size = sizes[i] /\ fds[i].arch.bits = bits[i]
                        /\ fds[i].arch.align = aligns[i]
  BY <1>1 DEF Described
<1> HIDE DEF sizes, bits, aligns
<1>6. SlotSize(fds, h) \in Nat /\ \A i \in M : sizes[i] <= SlotSize(fds, h)
  <2>S. PICK S : S = {sizes[i] : i \in M}
    OBVIOUS
  <2>0. \A i \in 1 .. n : sizes[i] \in Nat
    BY <1>5
  <2>3. Max(S) \in S /\ Max(S) \in Nat /\ \A i \in M : sizes[i] <= Max(S)
    BY <1>1, <1>4, <2>0, <2>S, MaxOfValues
  <2>1. S = {fds[i].arch.size : i \in M}
    BY <1>4, <1>5, <2>S
  <2>2. Max(S) = SlotSize(fds, h)
    BY <2>1, <1>M DEF SlotSize
  <2> QED
    BY <2>2, <2>3, <2>S
<1>7. SlotBits(fds, h) \in Nat /\ \A i \in M : bits[i] <= SlotBits(fds, h)
  <2>S. PICK S : S = {bits[i] : i \in M}
    OBVIOUS
  <2>0. \A i \in 1 .. n : bits[i] \in Nat
    BY <1>5
  <2>3. Max(S) \in S /\ Max(S) \in Nat /\ \A i \in M : bits[i] <= Max(S)
    BY <1>1, <1>4, <2>0, <2>S, MaxOfValues
  <2>1. S = {fds[i].arch.bits : i \in M}
    BY <1>4, <1>5, <2>S
  <2>2. Max(S) = SlotBits(fds, h)
    BY <2>1, <1>M DEF SlotBits
  <2> QED
    BY <2>2, <2>3, <2>S
<1>8. SlotAlign(fds, h) \in {aligns[i] : i \in M} /\ \A i \in M : aligns[i] <= SlotAlign(fds, h)
  <2>S. PICK S : S = {aligns[i] : i \in M}
    OBVIOUS
  <2>0. \A i \in 1 .. n : aligns[i] \in Nat
    BY <1>5
  <2>3. Max(S) \in S /\ Max(S) \in Nat /\ \A i \in M : aligns[i] <= Max(S)
    BY <1>1, <1>4, <2>0, <2>S, MaxOfValues
  <2>1. S = {fds[i].arch.align : i \in M}
    <3>1. \A i \in M : fds[i].arch.align = aligns[i]
      BY <1>4, <1>5
    <3> QED
      BY <3>1, <2>S
  <2>2. Max(S) = SlotAlign(fds, h)
    BY <2>1, <1>M DEF SlotAlign
  <2> QED
    BY <2>2, <2>3, <2>S
<1>9. SlotAlign(fds, h) \in {1, 2, 4, 8}
  BY <1>4, <1>5, <1>8
<1> QED
  BY <1>4, <1>5, <1>6, <1>7, <1>8, <1>9, <1>M

\* Sorting puts every two slots in one order.
LEMMA BeforeOrder ==
  ASSUME NEW fds, Described(fds), NEW a \in Heads(fds), NEW b \in Heads(fds), NEW c \in Heads(fds)
  PROVE  /\ ~Before(fds, a, a)
         /\ Before(fds, a, b) /\ Before(fds, b, c) => Before(fds, a, c)
         /\ a # b => Before(fds, a, b) \/ Before(fds, b, a)
<1>1. a \in Nat /\ b \in Nat /\ c \in Nat
  BY DEF Heads, Described
<1>2. SlotAlign(fds, a) \in Nat /\ SlotAlign(fds, b) \in Nat /\ SlotAlign(fds, c) \in Nat
  <2>1. \A h \in Heads(fds) : SlotAlign(fds, h) \in {1, 2, 4, 8}
    BY SlotFacts
  <2> QED
    BY <2>1
<1> QED
  BY <1>1, <1>2 DEF Before

\* What is before a slot stays before what comes after it.
LEMMA EarlierFacts ==
  ASSUME NEW fds, Described(fds), NEW g \in Heads(fds), NEW h \in Heads(fds), Before(fds, g, h)
  PROVE  Earlier(fds, g) \cup {g} \subseteq Earlier(fds, h) /\ g \notin Earlier(fds, g)
<1>1. ASSUME NEW e \in Earlier(fds, g)
      PROVE  e \in Earlier(fds, h)
  <2>1. e \in Heads(fds) /\ Before(fds, e, g)
    BY DEF Earlier
  <2>2. Before(fds, e, h)
    BY <2>1, BeforeOrder
  <2> QED
    BY <2>1, <2>2 DEF Earlier
<1>2. g \in Earlier(fds, h)
  BY DEF Earlier
<1>3. ~Before(fds, g, g)
  BY BeforeOrder
<1> QED
  BY <1>1, <1>2, <1>3 DEF Earlier

\* The slots, and what is earlier than one, are finitely many.
LEMMA SlotsFinite ==
  ASSUME NEW fds, Described(fds)
  PROVE  /\ IsFiniteSet(Heads(fds)) /\ Cardinality(Heads(fds)) \in Nat
         /\ \A S \in SUBSET Heads(fds) :
              /\ IsFiniteSet(S) /\ Cardinality(S) \in Nat
              /\ Cardinality(S) <= Cardinality(Heads(fds))
<1>n. PICK n : n = Len(fds)
  OBVIOUS
<1>1. n \in Nat /\ Heads(fds) \subseteq 1 .. n
  BY <1>n DEF Described, Heads
<1>2. IsFiniteSet(1 .. n)
  BY <1>1, FS_Interval
<1>3. IsFiniteSet(Heads(fds))
  BY <1>1, <1>2, FS_Subset
<1>4. Cardinality(Heads(fds)) \in Nat
  BY <1>3, FS_CardinalityType
<1>5. ASSUME NEW S \in SUBSET Heads(fds)
      PROVE  IsFiniteSet(S) /\ Cardinality(S) \in Nat /\ Cardinality(S) <= Cardinality(Heads(fds))
  <2>1. IsFiniteSet(S) /\ Cardinality(S) <= Cardinality(Heads(fds))
    BY <1>3, FS_Subset
  <2> QED
    BY <2>1, FS_CardinalityType
<1> QED
  BY <1>3, <1>4, <1>5

\* How many slots are earlier tells where a slot is in the order.
LEMMA RankOrder ==
  ASSUME NEW fds, Described(fds), NEW g \in Heads(fds), NEW h \in Heads(fds), Before(fds, g, h)
  PROVE  Cardinality(Earlier(fds, g)) + 1 <= Cardinality(Earlier(fds, h))
<1>G. PICK G : G = Earlier(fds, g)
  OBVIOUS
<1>H. PICK H : H = Earlier(fds, h)
  OBVIOUS
<1>1. G \cup {g} \subseteq H /\ g \notin G
  BY EarlierFacts, <1>G, <1>H
<1>2. G \in SUBSET Heads(fds) /\ H \in SUBSET Heads(fds)
  BY <1>G, <1>H DEF Earlier
<1>3. IsFiniteSet(G) /\ IsFiniteSet(H)
  BY <1>2, SlotsFinite
<1>4. Cardinality(G \cup {g}) = Cardinality(G) + 1
  BY <1>1, <1>3, FS_AddElement
<1>5. Cardinality(G \cup {g}) <= Cardinality(H)
  BY <1>1, <1>3, FS_Subset
<1> QED
  BY <1>4, <1>5, <1>G, <1>H

\* There is one slot at every place of the order.
LEMMA SlotAtFacts ==
  ASSUME NEW fds, Described(fds)
  PROVE  /\ \A h \in Heads(fds) : /\ Cardinality(Earlier(fds, h)) \in Nat
                                  /\ Cardinality(Earlier(fds, h)) + 1 \in 1 .. Cardinality(Heads(fds))
                                  /\ SlotAt(fds, Cardinality(Earlier(fds, h)) + 1) = h
         /\ \A k \in 1 .. Cardinality(Heads(fds)) : SlotAt(fds, k) \in Heads(fds)
<1> DEFINE rank == [h \in Heads(fds) |-> Cardinality(Earlier(fds, h))]
<1>n. PICK n : n = Cardinality(Heads(fds))
  OBVIOUS
<1>1. n \in Nat /\ IsFiniteSet(Heads(fds))
  BY SlotsFinite, <1>n
<1>2. ASSUME NEW h \in Heads(fds)
      PROVE  Cardinality(Earlier(fds, h)) \in 0 .. n - 1
  <2>E. PICK E : E = Earlier(fds, h)
    OBVIOUS
  <2>1. E \in SUBSET Heads(fds) /\ h \notin E
    BY BeforeOrder, <2>E DEF Earlier
  <2>2. IsFiniteSet(E) /\ Cardinality(E) \in Nat /\ Cardinality(E) <= n
    BY <2>1, SlotsFinite, <1>n
  <2>3. Cardinality(E) # n
    <3>1. E # Heads(fds)
      BY <2>1
    <3> QED
      BY <3>1, <2>1, <1>1, <1>n, FS_Subset
  <2> QED
    BY <2>2, <2>3, <1>1, <2>E
<1>3. rank \in [Heads(fds) -> 0 .. n - 1]
  BY <1>2
<1>4. ASSUME NEW g \in Heads(fds), NEW h \in Heads(fds),
             Cardinality(Earlier(fds, g)) = Cardinality(Earlier(fds, h))
      PROVE  g = h
  <2>1. Cardinality(Earlier(fds, g)) \in Nat /\ Cardinality(Earlier(fds, h)) \in Nat
    BY <1>2, <1>1
  <2>2. ~Before(fds, g, h)
    <3>1. ASSUME Before(fds, g, h) PROVE FALSE
      <4>1. Cardinality(Earlier(fds, g)) + 1 <= Cardinality(Earlier(fds, h))
        BY <3>1, RankOrder
      <4> QED
        BY <4>1, <2>1, <1>4
    <3> QED
      BY <3>1
  <2>3. ~Before(fds, h, g)
    <3>1. ASSUME Before(fds, h, g) PROVE FALSE
      <4>1. Cardinality(Earlier(fds, h)) + 1 <= Cardinality(Earlier(fds, g))
        BY <3>1, RankOrder
      <4> QED
        BY <4>1, <2>1, <1>4
    <3> QED
      BY <3>1
  <2> QED
    BY <2>2, <2>3, BeforeOrder
<1>5. rank \in Injection(Heads(fds), 0 .. n - 1)
  BY <1>3, <1>4 DEF Injection, IsInjective
<1>6. IsFiniteSet(0 .. n - 1) /\ Cardinality(0 .. n - 1) = n
  BY <1>1, FS_Interval
<1>7. rank \in Surjection(Heads(fds), 0 .. n - 1)
  BY <1>5, <1>6, <1>n, FS_Injection
<1>8. ASSUME NEW k \in 1 .. n
      PROVE  /\ SlotAt(fds, k) \in Heads(fds)
             /\ Cardinality(Earlier(fds, SlotAt(fds, k))) = k - 1
  <2>1. k - 1 \in 0 .. n - 1
    BY <1>1
  <2>2. PICK h \in Heads(fds) : rank[h] = k - 1
    BY <2>1, <1>7 DEF Surjection
  <2>3. Cardinality(Earlier(fds, h)) = k - 1
    BY <2>2
  <2> QED
    BY <2>3 DEF SlotAt
<1>9. ASSUME NEW h \in Heads(fds)
      PROVE  /\ Cardinality(Earlier(fds, h)) \in Nat
             /\ Cardinality(Earlier(fds, h)) + 1 \in 1 .. n
             /\ SlotAt(fds, Cardinality(Earlier(fds, h)) + 1) = h
  <2>k. PICK k : k = Cardinality(Earlier(fds, h)) + 1
    OBVIOUS
  <2>1. Cardinality(Earlier(fds, h)) \in Nat /\ k \in 1 .. n /\ k - 1 = Cardinality(Earlier(fds, h))
    BY <1>1, <1>2, <2>k
  <2>2. SlotAt(fds, k) \in Heads(fds) /\ Cardinality(Earlier(fds, SlotAt(fds, k))) = k - 1
    BY <2>1, <1>8
  <2>3. SlotAt(fds, k) = h
    BY <2>1, <2>2, <1>4
  <2> QED
    BY <2>1, <2>3, <2>k
<1> QED
  BY <1>8, <1>9, <1>n

\* The hasbits of slots are finitely many.
LEMMA BitsFinite ==
  ASSUME NEW fds, Described(fds), NEW S \in SUBSET Heads(fds)
  PROVE  IsFiniteSet(BitsOf(fds, S)) /\ Cardinality(BitsOf(fds, S)) \in Nat
<1>n. PICK n : n = Len(fds)
  OBVIOUS
<1>1. n \in Nat /\ Heads(fds) \subseteq 1 .. n
  BY <1>n DEF Described, Heads
<1> DEFINE f == [h \in 1 .. n |-> IF h \in Heads(fds) THEN SlotBits(fds, h) ELSE 0]
<1>2. /\ \A h \in 1 .. n : f[h] \in Nat
      /\ \A h \in Heads(fds) : f[h] = SlotBits(fds, h)
  <2>1. \A h \in Heads(fds) : SlotBits(fds, h) \in Nat
    BY SlotFacts
  <2> QED
    BY <2>1, <1>1
<1> HIDE DEF f
<1>3. PICK b \in Nat : \A h \in 1 .. n : f[h] <= b
  BY <1>1, <1>2, BoundOfValues
<1>4. IsFiniteSet(1 .. n) /\ IsFiniteSet(1 .. b)
  BY <1>1, FS_Interval
<1>5. IsFiniteSet((1 .. n) \X (1 .. b))
  BY <1>4, FS_Product
<1>6. BitsOf(fds, S) \subseteq (1 .. n) \X (1 .. b)
  <2>1. ASSUME NEW h \in S
        PROVE  {h} \X (1 .. SlotBits(fds, h)) \subseteq (1 .. n) \X (1 .. b)
    <3>1. h \in 1 .. n /\ SlotBits(fds, h) = f[h] /\ f[h] \in Nat /\ f[h] <= b
      BY <1>1, <1>2, <1>3
    <3>2. 1 .. SlotBits(fds, h) \subseteq 1 .. b
      BY <3>1
    <3> QED
      BY <3>1, <3>2
  <2> QED
    BY <2>1 DEF BitsOf
<1>7. IsFiniteSet(BitsOf(fds, S))
  BY <1>5, <1>6, FS_Subset
<1> QED
  BY <1>7, FS_CardinalityType

\* A slot adds its hasbits to those of other slots.
LEMMA BitsAdded ==
  ASSUME NEW fds, Described(fds), NEW S \in SUBSET Heads(fds), NEW h \in Heads(fds), h \notin S,
         NEW T \in SUBSET Heads(fds), S \cup {h} \subseteq T
  PROVE  Cardinality(BitsOf(fds, S)) + SlotBits(fds, h) <= Cardinality(BitsOf(fds, T))
<1> DEFINE own == {h} \X (1 .. SlotBits(fds, h))
<1>b. PICK b : b = SlotBits(fds, h)
  OBVIOUS
<1>B. PICK B : B = BitsOf(fds, S)
  OBVIOUS
<1>C. PICK C : C = BitsOf(fds, T)
  OBVIOUS
<1>1. b \in Nat
  BY SlotFacts, <1>b
<1>2. IsFiniteSet(B) /\ Cardinality(B) \in Nat /\ IsFiniteSet(C)
  BY BitsFinite, <1>B, <1>C
<1>3. IsFiniteSet(own) /\ Cardinality(own) = b
  <2>A. PICK A : A = {h}
    OBVIOUS
  <2>C. PICK D : D = 1 .. b
    OBVIOUS
  <2>1. IsFiniteSet(A) /\ Cardinality(A) = 1
    BY <2>A, FS_Singleton
  <2>2. IsFiniteSet(D) /\ Cardinality(D) = b
    BY <1>1, <2>C, FS_Interval
  <2>3. IsFiniteSet(A \X D) /\ Cardinality(A \X D) = Cardinality(A) * Cardinality(D)
    BY <2>1, <2>2, FS_Product
  <2>4. own = A \X D
    BY <2>A, <2>C, <1>b
  <2> HIDE DEF own
  <2>5. IsFiniteSet(own) /\ Cardinality(own) = 1 * b
    BY <2>1, <2>2, <2>3, <2>4
  <2> QED
    BY <2>5, <1>1
<1>4. B \cup own \subseteq C
  BY <1>B, <1>C DEF BitsOf
<1>5. B \cap own = {}
  <2>1. \A x \in B : x[1] \in S
    BY <1>B DEF BitsOf
  <2>2. \A x \in own : x[1] = h
    OBVIOUS
  <2> QED
    BY <2>1, <2>2
<1> HIDE DEF own
<1>6. Cardinality(B \cup own) = Cardinality(B) + b
  <2>1. Cardinality(B \cup own) = Cardinality(B) + Cardinality(own) - Cardinality(B \cap own)
    BY <1>2, <1>3, FS_Union
  <2>2. Cardinality(B \cap own) = 0
    BY <1>5, FS_EmptySet
  <2> QED
    BY <2>1, <2>2, <1>1, <1>2, <1>3
<1>7. Cardinality(B \cup own) <= Cardinality(C)
  BY <1>2, <1>4, FS_Subset
<1> QED
  BY <1>6, <1>7, <1>b, <1>B, <1>C

\* A oneof adds its which word to those of other slots.
LEMMA WhichAdded ==
  ASSUME NEW fds, Described(fds), NEW S \in SUBSET Heads(fds), NEW h \in Heads(fds), h \notin S,
         NEW T \in SUBSET Heads(fds), S \cup {h} \subseteq T, IsOneof(fds, h)
  PROVE  /\ Cardinality(OneofsOf(fds, S)) \in Nat /\ Cardinality(OneofsOf(fds, T)) \in Nat
         /\ Cardinality(OneofsOf(fds, S)) + 1 <= Cardinality(OneofsOf(fds, T))
<1>A. PICK A : A = OneofsOf(fds, S)
  OBVIOUS
<1>B. PICK B : B = OneofsOf(fds, T)
  OBVIOUS
<1>1. A \in SUBSET Heads(fds) /\ B \in SUBSET Heads(fds) /\ h \notin A /\ A \cup {h} \subseteq B
  BY <1>A, <1>B DEF OneofsOf
<1>2. IsFiniteSet(A) /\ IsFiniteSet(B) /\ Cardinality(A) \in Nat /\ Cardinality(B) \in Nat
  BY <1>1, SlotsFinite
<1>3. Cardinality(A \cup {h}) = Cardinality(A) + 1
  BY <1>1, <1>2, FS_AddElement
<1>4. Cardinality(A \cup {h}) <= Cardinality(B)
  BY <1>1, <1>2, FS_Subset
<1> QED
  BY <1>2, <1>3, <1>4, <1>A, <1>B

\* Division with a remainder.
LEMMA Remainder ==
  ASSUME NEW m \in Nat \ {0}, NEW x \in Int
  PROVE  x \div m \in Int /\ x % m \in 0 .. m - 1 /\ x = m * (x \div m) + (x % m)
OBVIOUS

\* The words in front of the fields: there is a hasbit for every one asked for, and
\* the which words are between the hasbits and the fields.
LEMMA WordFacts ==
  ASSUME NEW fds, Described(fds)
  PROVE  /\ BitWords(fds) \in Nat /\ WhichWords(fds) \in Nat /\ DataStart(fds) \in Nat
         /\ WordBits * BitWords(fds) \in Nat
         /\ Cardinality(BitsOf(fds, Heads(fds))) <= WordBits * BitWords(fds)
         /\ WhichStart(fds) = MessageSize + 4 * BitWords(fds)
         /\ DataStart(fds) = WhichStart(fds) + 4 * WhichWords(fds)
<1>b. PICK b : b = Cardinality(BitsOf(fds, Heads(fds)))
  OBVIOUS
<1>w. PICK w : w = WordBits
  OBVIOUS
<1>q. PICK q : q = BitWords(fds)
  OBVIOUS
<1>o. PICK o : o = WhichWords(fds)
  OBVIOUS
<1>1. b \in Nat /\ w \in Nat \ {0} /\ q = (b + w - 1) \div w
  <2>1. Heads(fds) \in SUBSET Heads(fds)
    OBVIOUS
  <2> QED
    BY <2>1, BitsFinite, WordAssumption, <1>b, <1>w, <1>q DEF BitWords
<1>2. o \in Nat
  <2>1. OneofsOf(fds, Heads(fds)) \in SUBSET Heads(fds)
    BY DEF OneofsOf
  <2> QED
    BY <2>1, SlotsFinite, <1>o DEF WhichWords
<1>3. q \in Nat /\ w * q \in Nat /\ b <= w * q
  <2>x. PICK x : x = b + w - 1
    OBVIOUS
  <2>1. x \in Nat /\ q = x \div w
    BY <1>1, <2>x
  <2>2. q \in Int /\ x % w \in 0 .. w - 1 /\ x = w * q + (x % w)
    <3>1. x \in Int /\ w \in Nat \ {0}
      BY <2>1, <1>1
    <3> QED
      BY <3>1, <2>1, Remainder
  <2>r. PICK r : r = x % w
    OBVIOUS
  <2>p. PICK p : p = w * q
    OBVIOUS
  <2>3. r \in 0 .. w - 1 /\ x = p + r /\ p \in Int
    <3>1. p \in Int
      BY <2>2, <2>p, <1>1
    <3> QED
      BY <3>1, <2>2, <2>r, <2>p
  <2>4. b <= p
    BY <2>3, <2>x, <1>1
  <2>5. q \in Nat
    <3>1. CASE q < 0
      <4>1. q <= -1
        BY <3>1, <2>2
      <4>2. w * q <= w * (-1)
        BY <4>1, <1>1, <2>2
      <4>3. p < 0
        BY <4>2, <2>p, <1>1, <2>3
      <4> QED
        BY <4>3, <2>4, <1>1, <2>3
    <3> QED
      BY <3>1, <2>2
  <2> QED
    BY <2>3, <2>4, <2>5, <2>p, <1>1
<1>4. DataStart(fds) = 16 + 4 * (q + o) /\ WhichStart(fds) = DataStart(fds) - 4 * o
  BY <1>q, <1>o DEF DataStart, WhichStart, MessageSize
<1>5. /\ DataStart(fds) \in Nat /\ WhichStart(fds) = 16 + 4 * q
      /\ DataStart(fds) = WhichStart(fds) + 4 * o
  BY <1>2, <1>3, <1>4
<1> QED
  BY <1>2, <1>3, <1>5, <1>b, <1>w, <1>q, <1>o DEF MessageSize

\* Where the slots begin and end, in order.
LEMMA HotFacts ==
  ASSUME NEW fds, Described(fds)
  PROVE  LET n == Cardinality(Heads(fds))
             hot == Hot(fds)
         IN  /\ hot \in [0 .. n -> Nat] /\ hot[0] = DataStart(fds)
             /\ \A k \in 1 .. n :
                  LET h == SlotAt(fds, k)
                  IN  hot[k] = RoundUp(hot[k - 1], SlotAlign(fds, h)) + SlotSize(fds, h)
<1>n. PICK n : n = Cardinality(Heads(fds))
  OBVIOUS
<1> DEFINE Grown(v, k) == RoundUp(v, SlotAlign(fds, SlotAt(fds, k))) + SlotSize(fds, SlotAt(fds, k))
           Value(e, k) == IF k = 0 THEN DataStart(fds) ELSE Grown(e[k - 1], k)
           step == [x \in (1 .. n) \X Nat |-> Grown(x[2], x[1])]
<1>1. n \in Nat /\ DataStart(fds) \in Nat
  BY SlotsFinite, WordFacts, <1>n
<1>2. ASSUME NEW v \in Nat, NEW k \in 1 .. n
      PROVE  Grown(v, k) \in Nat
  <2>h. PICK h : h = SlotAt(fds, k)
    OBVIOUS
  <2>1. h \in Heads(fds)
    BY SlotAtFacts, <2>h, <1>n
  <2>2. SlotSize(fds, h) \in Nat /\ SlotAlign(fds, h) \in {1, 2, 4, 8}
    BY <2>1, SlotFacts
  <2>3. RoundUp(v, SlotAlign(fds, h)) \in Nat
    BY <2>2, RoundUpFacts
  <2> QED
    BY <2>2, <2>3, <2>h
<1> HIDE DEF Grown
<1>3. step \in [(1 .. n) \X Nat -> Nat]
  <2>1. ASSUME NEW x \in (1 .. n) \X Nat
        PROVE  Grown(x[2], x[1]) \in Nat
    <3>1. x[1] \in 1 .. n /\ x[2] \in Nat
      OBVIOUS
    <3> QED
      BY <3>1, <1>2
  <2> QED
    BY <2>1
<1>4. PICK f \in [0 .. n -> Nat] :
        f[0] = DataStart(fds) /\ \A k \in 1 .. n : f[k] = step[<<k, f[k - 1]>>]
  <2> HIDE DEF step
  <2>1. IsStep(Nat, DataStart(fds), n, step)
    BY <1>1, <1>3 DEF IsStep
  <2>2. HasFunction(Nat, DataStart(fds), n, step)
    BY <2>1, RecursiveFunction
  <2> QED
    BY <2>2 DEF HasFunction
<1>5. \A k \in 0 .. n : f[k] = Value(f, k)
  <2>1. ASSUME NEW k \in 1 .. n
        PROVE  f[k] = Grown(f[k - 1], k)
    <3>1. k - 1 \in 0 .. n /\ f[k - 1] \in Nat
      BY <1>1, <1>4
    <3>2. <<k, f[k - 1]>> \in (1 .. n) \X Nat
      BY <3>1
    <3>3. step[<<k, f[k - 1]>>] = Grown(f[k - 1], k)
      BY <3>2
    <3> QED
      BY <3>3, <1>4
  <2> QED
    BY <2>1, <1>4
<1>6. f = [k \in 0 .. n |-> Value(f, k)]
  BY <1>4, <1>5
<1>7. PICK e : e = [k \in 0 .. n |-> Value(e, k)] /\ Hot(fds) = e
  <2> DEFINE g == CHOOSE g : g = [k \in 0 .. n |-> Value(g, k)]
  <2>1. g = [k \in 0 .. n |-> Value(g, k)]
    <3> HIDE DEF Value
    <3> QED
      BY <1>6
  <2>2. Hot(fds) = g
    BY <1>n DEF Hot, Value, Grown
  <2> HIDE DEF g
  <2> QED
    BY <2>1, <2>2
<1>8. \A k \in 0 .. n : e[k] = Value(e, k)
  <2> HIDE DEF Value
  <2> QED
    BY <1>7
<1> DEFINE S == {k \in Nat : k <= n => e[k] \in Nat}
<1>9. n \in S /\ \A k \in 0 .. n : k \in S
  <2>1. 0 \in S
    BY <1>1, <1>8
  <2>2. ASSUME NEW k \in Nat, k \in S
        PROVE  k + 1 \in S
    <3>1. CASE k + 1 <= n
      <4>1. k + 1 \in 1 .. n /\ k + 1 \in 0 .. n /\ (k + 1) - 1 = k /\ e[k] \in Nat
        BY <3>1, <1>1, <2>2
      <4>2. e[k + 1] = Grown(e[k], k + 1)
        BY <4>1, <1>8
      <4> QED
        BY <4>1, <4>2, <1>2
    <3>2. CASE ~(k + 1 <= n)
      BY <3>2
    <3> QED
      BY <3>1, <3>2
  <2> HIDE DEF S
  <2>3. \A k \in Nat : k \in S
    BY <2>1, <2>2, SetInduction
  <2> QED
    BY <2>3, <1>1
<1>10. e \in [0 .. n -> Nat]
  <2>1. e = [k \in 0 .. n |-> e[k]]
    <3> HIDE DEF Value
    <3> QED
      BY <1>7
  <2>2. \A k \in 0 .. n : e[k] \in Nat
    BY <1>9, <1>1
  <2> QED
    BY <2>1, <2>2
<1>11. \A k \in 1 .. n : e[k] = Grown(e[k - 1], k)
  BY <1>1, <1>8
<1>12. e[0] = DataStart(fds)
  BY <1>1, <1>8
<1> QED
  BY <1>7, <1>10, <1>11, <1>12, <1>n DEF Grown

\* The slots are laid out one behind the other.
LEMMA HotGrows ==
  ASSUME NEW fds, Described(fds), NEW i \in 0 .. Cardinality(Heads(fds)),
         NEW j \in i .. Cardinality(Heads(fds))
  PROVE  Hot(fds)[i] <= Hot(fds)[j]
<1>n. PICK n : n = Cardinality(Heads(fds))
  OBVIOUS
<1>e. PICK e : e = Hot(fds)
  OBVIOUS
<1>1. n \in Nat /\ e \in [0 .. n -> Nat] /\ i \in 0 .. n /\ j \in i .. n
  BY SlotsFinite, HotFacts, <1>n, <1>e
<1>2. ASSUME NEW k \in 1 .. n
      PROVE  e[k - 1] <= e[k]
  <2>h. PICK h : h = SlotAt(fds, k)
    OBVIOUS
  <2>1. h \in Heads(fds) /\ e[k] = RoundUp(e[k - 1], SlotAlign(fds, h)) + SlotSize(fds, h)
    BY SlotAtFacts, HotFacts, <2>h, <1>n, <1>e
  <2>2. SlotSize(fds, h) \in Nat /\ SlotAlign(fds, h) \in {1, 2, 4, 8}
    BY <2>1, SlotFacts
  <2>3. e[k - 1] \in Nat
    <3>1. k - 1 \in 0 .. n
      BY <1>1
    <3> QED
      BY <3>1, <1>1
  <2>4. RoundUp(e[k - 1], SlotAlign(fds, h)) \in Nat
        /\ e[k - 1] <= RoundUp(e[k - 1], SlotAlign(fds, h))
    BY <2>2, <2>3, RoundUpFacts
  <2> QED
    BY <2>1, <2>2, <2>3, <2>4
<1> DEFINE S == {d \in Nat : i + d <= n => e[i] <= e[i + d]}
<1>3. 0 \in S
  BY <1>1
<1>4. ASSUME NEW d \in Nat, d \in S
      PROVE  d + 1 \in S
  <2> SUFFICES ASSUME i + (d + 1) <= n
               PROVE  e[i] <= e[i + (d + 1)]
    OBVIOUS
  <2>k. PICK k : k = i + (d + 1)
    OBVIOUS
  <2>1. k \in 1 .. n /\ k - 1 = i + d /\ i + d \in 0 .. n /\ k \in 0 .. n /\ i + d <= n
    BY <1>1, <2>k
  <2>2. e[i] <= e[i + d]
    BY <2>1, <1>4
  <2>3. e[i + d] <= e[k]
    BY <2>1, <1>2
  <2>4. e[i] \in Nat /\ e[i + d] \in Nat /\ e[k] \in Nat
    BY <2>1, <1>1
  <2> QED
    BY <2>2, <2>3, <2>4, <2>k
<1> HIDE DEF S
<1>5. j - i \in S
  <2>1. \A d \in Nat : d \in S
    BY <1>3, <1>4, SetInduction
  <2> QED
    BY <2>1, <1>1
<1>6. e[i] <= e[i + (j - i)]
  BY <1>5, <1>1 DEF S
<1>7. i + (j - i) = j
  BY <1>1
<1> QED
  BY <1>6, <1>7, <1>e

\* A slot lies behind the words and within the size, and is aligned.
LEMMA SlotPlace ==
  ASSUME NEW fds, Described(fds), NEW h \in Heads(fds)
  PROVE  /\ SlotData(fds, h) \in Nat /\ TypeSize(fds) \in Nat
         /\ DataStart(fds) <= SlotData(fds, h)
         /\ SlotData(fds, h) + SlotSize(fds, h)
              = Hot(fds)[Cardinality(Earlier(fds, h)) + 1]
         /\ Hot(fds)[Cardinality(Earlier(fds, h))] <= SlotData(fds, h)
         /\ SlotData(fds, h) + SlotSize(fds, h) <= TypeSize(fds)
         /\ Aligned(SlotData(fds, h), SlotAlign(fds, h))
<1>n. PICK n : n = Cardinality(Heads(fds))
  OBVIOUS
<1>e. PICK e : e = Hot(fds)
  OBVIOUS
<1>k. PICK k : k = Cardinality(Earlier(fds, h)) + 1
  OBVIOUS
<1>a. PICK a : a = SlotAlign(fds, h)
  OBVIOUS
<1>s. PICK s : s = SlotSize(fds, h)
  OBVIOUS
<1>d. PICK d : d = SlotData(fds, h)
  OBVIOUS
<1>1. /\ n \in Nat /\ k \in 1 .. n /\ k - 1 = Cardinality(Earlier(fds, h))
      /\ SlotAt(fds, k) = h
  BY SlotsFinite, SlotAtFacts, <1>n, <1>k
<1>2. e \in [0 .. n -> Nat] /\ e[0] = DataStart(fds) /\ e[k] = RoundUp(e[k - 1], a) + s
  BY HotFacts, <1>1, <1>n, <1>e, <1>a, <1>s
<1>3. s \in Nat /\ a \in {1, 2, 4, 8}
  BY SlotFacts, <1>a, <1>s
<1>4. k - 1 \in 0 .. n /\ k \in 0 .. n /\ 0 \in 0 .. n /\ n \in 0 .. n
      /\ k - 1 \in 0 .. n /\ n \in k .. n /\ k - 1 \in 0 .. n
  BY <1>1
<1>5. e[0] <= e[k - 1] /\ e[k] <= e[n]
  BY <1>4, <1>n, <1>e, HotGrows
<1>6. e[0] \in Nat /\ e[k - 1] \in Nat /\ e[k] \in Nat /\ e[n] \in Nat
  BY <1>2, <1>4
<1>7. d = RoundUp(e[k - 1], a)
  BY <1>1, <1>e, <1>a, <1>d DEF SlotData
<1>8. /\ d \in Nat /\ e[k - 1] <= d
      /\ Aligned(d, a)
  <2>1. PICK v \in Nat : v = e[k - 1]
    BY <1>6
  <2> QED
    BY <2>1, <1>3, <1>7, RoundUpFacts
<1>9. TypeSize(fds) \in Nat /\ e[n] <= TypeSize(fds)
  <2>1. TypeSize(fds) = RoundUp(e[n], 8)
    BY <1>n, <1>e DEF TypeSize
  <2>2. 8 \in {1, 2, 4, 8}
    OBVIOUS
  <2> QED
    BY <2>1, <2>2, <1>6, RoundUpFacts
<1>10. DataStart(fds) <= d /\ d + s = e[k] /\ d + s <= TypeSize(fds)
  BY <1>2, <1>3, <1>5, <1>6, <1>7, <1>8, <1>9
<1> QED
  BY <1>1, <1>8, <1>9, <1>10, <1>e, <1>k, <1>a, <1>s, <1>d

\* Slots do not share bytes.
LEMMA SlotsApart ==
  ASSUME NEW fds, Described(fds), NEW g \in Heads(fds), NEW h \in Heads(fds), Before(fds, g, h)
  PROVE  SlotData(fds, g) + SlotSize(fds, g) <= SlotData(fds, h)
<1>i. PICK i : i = Cardinality(Earlier(fds, g)) + 1
  OBVIOUS
<1>j. PICK j : j = Cardinality(Earlier(fds, h))
  OBVIOUS
<1>n. PICK n : n = Cardinality(Heads(fds))
  OBVIOUS
<1>1. n \in Nat /\ i \in 0 .. n /\ j \in 0 .. n /\ j \in i .. n
  <2>1. n \in Nat /\ i \in 1 .. n /\ j \in Nat /\ j + 1 \in 1 .. n
    BY SlotsFinite, SlotAtFacts, <1>i, <1>j, <1>n
  <2>2. i <= j
    BY RankOrder, <1>i, <1>j
  <2> QED
    BY <2>1, <2>2
<1>2. Hot(fds)[i] <= Hot(fds)[j]
  BY <1>1, <1>n, HotGrows
<1>3. SlotData(fds, g) + SlotSize(fds, g) = Hot(fds)[i]
  BY SlotPlace, <1>i
<1>4. Hot(fds)[j] <= SlotData(fds, h) /\ SlotData(fds, h) \in Nat
  BY SlotPlace, <1>j
<1>5. Hot(fds)[i] \in Nat /\ Hot(fds)[j] \in Nat
  <2>1. Hot(fds) \in [0 .. n -> Nat]
    BY HotFacts, <1>n
  <2> QED
    BY <2>1, <1>1
<1> QED
  BY <1>2, <1>3, <1>4, <1>5

\* Slots do not share hasbits, and there is a word for all of them.
LEMMA BitsApart ==
  ASSUME NEW fds, Described(fds), NEW h \in Heads(fds)
  PROVE  /\ Cardinality(BitsOf(fds, Earlier(fds, h))) \in Nat
         /\ Cardinality(BitsOf(fds, Earlier(fds, h))) + SlotBits(fds, h) <= WordBits * BitWords(fds)
         /\ \A g \in Heads(fds) : Before(fds, g, h) =>
              Cardinality(BitsOf(fds, Earlier(fds, g))) + SlotBits(fds, g)
                <= Cardinality(BitsOf(fds, Earlier(fds, h)))
<1>1. \A g \in Heads(fds) : Earlier(fds, g) \in SUBSET Heads(fds) /\ g \notin Earlier(fds, g)
  BY BeforeOrder DEF Earlier
<1>2. Cardinality(BitsOf(fds, Earlier(fds, h))) \in Nat
  BY <1>1, BitsFinite
<1>3. Cardinality(BitsOf(fds, Earlier(fds, h))) + SlotBits(fds, h)
        <= Cardinality(BitsOf(fds, Heads(fds)))
  <2>1. Heads(fds) \in SUBSET Heads(fds) /\ Earlier(fds, h) \cup {h} \subseteq Heads(fds)
    BY <1>1
  <2> QED
    BY <2>1, <1>1, BitsAdded
<1>4. Cardinality(BitsOf(fds, Heads(fds))) \in Nat
      /\ Cardinality(BitsOf(fds, Heads(fds))) <= WordBits * BitWords(fds)
      /\ WordBits * BitWords(fds) \in Nat
  <2>1. Heads(fds) \in SUBSET Heads(fds)
    OBVIOUS
  <2> QED
    BY <2>1, BitsFinite, WordFacts
<1>5. ASSUME NEW g \in Heads(fds), Before(fds, g, h)
      PROVE  Cardinality(BitsOf(fds, Earlier(fds, g))) + SlotBits(fds, g)
               <= Cardinality(BitsOf(fds, Earlier(fds, h)))
  <2>1. Earlier(fds, g) \cup {g} \subseteq Earlier(fds, h)
    BY <1>5, EarlierFacts
  <2> QED
    BY <2>1, <1>1, BitsAdded
<1>6. SlotBits(fds, h) \in Nat
  BY SlotFacts
<1> QED
  BY <1>2, <1>3, <1>4, <1>5, <1>6

\* Oneofs do not share which words, and there is one for each.
LEMMA WhichApart ==
  ASSUME NEW fds, Described(fds), NEW h \in Heads(fds), IsOneof(fds, h)
  PROVE  /\ Cardinality(OneofsOf(fds, Earlier(fds, h))) \in Nat
         /\ Cardinality(OneofsOf(fds, Earlier(fds, h))) + 1 <= WhichWords(fds)
         /\ \A g \in Heads(fds) : Before(fds, g, h) /\ IsOneof(fds, g) =>
              Cardinality(OneofsOf(fds, Earlier(fds, g))) + 1
                <= Cardinality(OneofsOf(fds, Earlier(fds, h)))
<1>1. \A g \in Heads(fds) : Earlier(fds, g) \in SUBSET Heads(fds) /\ g \notin Earlier(fds, g)
  BY BeforeOrder DEF Earlier
<1>2. /\ Cardinality(OneofsOf(fds, Earlier(fds, h))) \in Nat
      /\ Cardinality(OneofsOf(fds, Earlier(fds, h))) + 1 <= Cardinality(OneofsOf(fds, Heads(fds)))
  <2>1. Heads(fds) \in SUBSET Heads(fds) /\ Earlier(fds, h) \cup {h} \subseteq Heads(fds)
    BY <1>1
  <2> QED
    BY <2>1, <1>1, WhichAdded
<1>3. ASSUME NEW g \in Heads(fds), Before(fds, g, h), IsOneof(fds, g)
      PROVE  Cardinality(OneofsOf(fds, Earlier(fds, g))) + 1
               <= Cardinality(OneofsOf(fds, Earlier(fds, h)))
  <2>1. Earlier(fds, g) \cup {g} \subseteq Earlier(fds, h)
    BY <1>3, EarlierFacts
  <2> QED
    BY <2>1, <1>1, <1>3, WhichAdded
<1> QED
  BY <1>2, <1>3 DEF WhichWords

\* What doLayout says of a field is where its slot is.
LEMMA OffsetFacts ==
  ASSUME NEW fds, Described(fds), NEW i \in DOMAIN fds, NEW h, h = HeadOf(fds, i)
  PROVE  /\ h \in Heads(fds) /\ i \in Members(fds, h)
         /\ IsOneof(fds, h) = IsOneof(fds, i)
         /\ Offsets(fds)[i].data = SlotData(fds, h)
         /\ Offsets(fds)[i].bit = SlotBit(fds, h)
         /\ IsOneof(fds, i) => Offsets(fds)[i].number = fds[i].num
<1>1. h \in Heads(fds) /\ fds[h].oneof = fds[i].oneof
  BY HeadFacts
<1>2. IsOneof(fds, h) = IsOneof(fds, i)
  BY <1>1 DEF IsOneof
<1>3. i \in Members(fds, h)
  BY DEF Members
<1> QED
  BY <1>1, <1>2, <1>3 DEF Offsets

\* A field lies behind the words and within the size, aligned, and its bits within the
\* words.
LEMMA FieldPlace ==
  ASSUME NEW fds, Described(fds), NEW i \in DOMAIN fds, NEW o, o = Offsets(fds)[i],
         NEW size, size = TypeSize(fds)
  PROVE  /\ o.data % fds[i].arch.align = 0
         /\ o.data .. o.data + fds[i].arch.size - 1 \subseteq DataStart(fds) .. size - 1
         /\ ~IsOneof(fds, i) =>
              o.bit .. o.bit + fds[i].arch.bits - 1 \subseteq 0 .. WordBits * BitWords(fds) - 1
         /\ IsOneof(fds, i) =>
              o.bit .. o.bit + 3 \subseteq MessageSize + 4 * BitWords(fds) .. DataStart(fds) - 1
<1>h. PICK h : h = HeadOf(fds, i)
  OBVIOUS
<1>1. /\ h \in Heads(fds) /\ i \in Members(fds, h) /\ IsOneof(fds, h) = IsOneof(fds, i)
      /\ o.data = SlotData(fds, h) /\ o.bit = SlotBit(fds, h)
  BY OffsetFacts, <1>h
<1>2. /\ fds[i].arch.size \in Nat /\ fds[i].arch.bits \in Nat
      /\ fds[i].arch.align \in {1, 2, 4, 8}
  BY DEF Described
<1>3. /\ SlotSize(fds, h) \in Nat /\ SlotBits(fds, h) \in Nat
      /\ fds[i].arch.size <= SlotSize(fds, h) /\ fds[i].arch.bits <= SlotBits(fds, h)
      /\ fds[i].arch.align <= SlotAlign(fds, h)
  BY <1>1, SlotFacts
<1>4. /\ o.data \in Nat /\ size \in Nat /\ DataStart(fds) <= o.data
      /\ o.data + SlotSize(fds, h) <= size
      /\ Aligned(o.data, SlotAlign(fds, h))
  BY <1>1, SlotPlace
<1>a. o.data % fds[i].arch.align = 0
  <2>1. SlotAlign(fds, h) \in Nat
    BY <1>1, SlotFacts
  <2> QED
    BY <2>1, <1>2, <1>3, <1>4 DEF Aligned
<1>5. DataStart(fds) \in Nat /\ WordBits * BitWords(fds) \in Nat
  BY WordFacts
<1>6. o.data .. o.data + fds[i].arch.size - 1 \subseteq DataStart(fds) .. size - 1
  BY <1>2, <1>3, <1>4, <1>5
<1>7. ASSUME ~IsOneof(fds, i)
      PROVE  o.bit .. o.bit + fds[i].arch.bits - 1 \subseteq 0 .. WordBits * BitWords(fds) - 1
  <2>1. CASE SlotBits(fds, h) = 0
    <3>1. o.bit = 0 /\ fds[i].arch.bits = 0
      BY <2>1, <1>1, <1>2, <1>3, <1>7 DEF SlotBit
    <3> QED
      BY <3>1
  <2>2. CASE SlotBits(fds, h) # 0
    <3>b. PICK b : b = Cardinality(BitsOf(fds, Earlier(fds, h)))
      OBVIOUS
    <3>1. o.bit = b
      BY <2>2, <1>1, <1>3, <1>7, <3>b DEF SlotBit
    <3>2. b \in Nat /\ b + SlotBits(fds, h) <= WordBits * BitWords(fds)
      BY <1>1, <3>b, BitsApart
    <3> QED
      BY <3>1, <3>2, <1>2, <1>3, <1>5
  <2> QED
    BY <2>1, <2>2
<1>8. ASSUME IsOneof(fds, i)
      PROVE  o.bit .. o.bit + 3 \subseteq MessageSize + 4 * BitWords(fds) .. DataStart(fds) - 1
  <2>b. PICK b : b = Cardinality(OneofsOf(fds, Earlier(fds, h)))
    OBVIOUS
  <2>1. o.bit = WhichStart(fds) + 4 * b
    BY <1>1, <1>8, <2>b DEF SlotBit
  <2>2. b \in Nat /\ b + 1 <= WhichWords(fds)
    BY <1>1, <1>8, <2>b, WhichApart
  <2>3. /\ BitWords(fds) \in Nat /\ WhichWords(fds) \in Nat
        /\ WhichStart(fds) = 16 + 4 * BitWords(fds)
        /\ DataStart(fds) = WhichStart(fds) + 4 * WhichWords(fds)
    BY WordFacts DEF MessageSize
  <2> QED
    BY <2>1, <2>2, <2>3 DEF MessageSize
<1> QED
  BY <1>a, <1>6, <1>7, <1>8

\* Fields of different slots share nothing.
LEMMA FieldsApart ==
  ASSUME NEW fds, Described(fds), NEW i \in DOMAIN fds, NEW j \in DOMAIN fds,
         NEW o, o = Offsets(fds)[i], NEW p, p = Offsets(fds)[j],
         Before(fds, HeadOf(fds, i), HeadOf(fds, j))
  PROVE  /\ (o.data .. o.data + fds[i].arch.size - 1) \cap (p.data .. p.data + fds[j].arch.size - 1) = {}
         /\ ~IsOneof(fds, i) /\ ~IsOneof(fds, j) =>
              (o.bit .. o.bit + fds[i].arch.bits - 1) \cap (p.bit .. p.bit + fds[j].arch.bits - 1) = {}
         /\ IsOneof(fds, i) /\ IsOneof(fds, j) =>
              (o.bit .. o.bit + 3) \cap (p.bit .. p.bit + 3) = {}
<1>g. PICK g : g = HeadOf(fds, i)
  OBVIOUS
<1>h. PICK h : h = HeadOf(fds, j)
  OBVIOUS
<1>0. Before(fds, g, h)
  BY <1>g, <1>h
<1>1. /\ g \in Heads(fds) /\ i \in Members(fds, g) /\ IsOneof(fds, g) = IsOneof(fds, i)
      /\ o.data = SlotData(fds, g) /\ o.bit = SlotBit(fds, g)
  BY OffsetFacts, <1>g
<1>2. /\ h \in Heads(fds) /\ j \in Members(fds, h) /\ IsOneof(fds, h) = IsOneof(fds, j)
      /\ p.data = SlotData(fds, h) /\ p.bit = SlotBit(fds, h)
  BY OffsetFacts, <1>h
<1>3. /\ fds[i].arch.size \in Nat /\ fds[i].arch.bits \in Nat
      /\ fds[j].arch.size \in Nat /\ fds[j].arch.bits \in Nat
  BY DEF Described
<1>4. /\ SlotSize(fds, g) \in Nat /\ SlotBits(fds, g) \in Nat
      /\ fds[i].arch.size <= SlotSize(fds, g) /\ fds[i].arch.bits <= SlotBits(fds, g)
  BY <1>1, SlotFacts
<1>5. SlotBits(fds, h) \in Nat /\ fds[j].arch.bits <= SlotBits(fds, h)
  BY <1>2, SlotFacts
<1>6. (o.data .. o.data + fds[i].arch.size - 1) \cap (p.data .. p.data + fds[j].arch.size - 1) = {}
  <2>1. o.data \in Nat /\ p.data \in Nat
    BY <1>1, <1>2, SlotPlace
  <2>2. o.data + SlotSize(fds, g) <= p.data
    BY <1>0, <1>1, <1>2, SlotsApart
  <2>3. o.data + fds[i].arch.size - 1 < p.data
    BY <2>1, <2>2, <1>3, <1>4
  <2> QED
    BY <2>1, <2>3, <1>3
<1>7. ASSUME ~IsOneof(fds, i), ~IsOneof(fds, j)
      PROVE  (o.bit .. o.bit + fds[i].arch.bits - 1) \cap (p.bit .. p.bit + fds[j].arch.bits - 1) = {}
  <2>b. PICK b : b = Cardinality(BitsOf(fds, Earlier(fds, g)))
    OBVIOUS
  <2>c. PICK c : c = Cardinality(BitsOf(fds, Earlier(fds, h)))
    OBVIOUS
  <2>1. b \in Nat /\ c \in Nat /\ b + SlotBits(fds, g) <= c
    BY <1>0, <1>1, <1>2, <2>b, <2>c, BitsApart
  <2>2. o.bit = (IF SlotBits(fds, g) > 0 THEN b ELSE 0) /\ p.bit = (IF SlotBits(fds, h) > 0 THEN c ELSE 0)
    BY <1>1, <1>2, <1>7, <2>b, <2>c DEF SlotBit
  <2>3. CASE fds[i].arch.bits = 0 \/ fds[j].arch.bits = 0
    <3>1. o.bit \in Nat /\ p.bit \in Nat
      BY <2>1, <2>2
    <3>2. o.bit .. o.bit + fds[i].arch.bits - 1 = {} \/ p.bit .. p.bit + fds[j].arch.bits - 1 = {}
      BY <3>1, <2>3
    <3> QED
      BY <3>2
  <2>4. CASE fds[i].arch.bits # 0 /\ fds[j].arch.bits # 0
    <3>1. SlotBits(fds, g) > 0 /\ SlotBits(fds, h) > 0
      BY <2>4, <1>3, <1>4, <1>5
    <3>2. o.bit = b /\ p.bit = c
      BY <3>1, <2>2
    <3>3. o.bit + fds[i].arch.bits - 1 < p.bit /\ o.bit \in Nat /\ p.bit \in Nat
      BY <3>2, <2>1, <1>3, <1>4
    <3> QED
      BY <3>3, <1>3
  <2> QED
    BY <2>3, <2>4
<1>8. ASSUME IsOneof(fds, i), IsOneof(fds, j)
      PROVE  (o.bit .. o.bit + 3) \cap (p.bit .. p.bit + 3) = {}
  <2>b. PICK b : b = Cardinality(OneofsOf(fds, Earlier(fds, g)))
    OBVIOUS
  <2>c. PICK c : c = Cardinality(OneofsOf(fds, Earlier(fds, h)))
    OBVIOUS
  <2>1. b \in Nat /\ c \in Nat /\ b + 1 <= c
    BY <1>0, <1>1, <1>2, <1>8, <2>b, <2>c, WhichApart
  <2>w. PICK w : w = WhichStart(fds)
    OBVIOUS
  <2>2. o.bit = w + 4 * b /\ p.bit = w + 4 * c
    BY <1>1, <1>2, <1>8, <2>b, <2>c, <2>w DEF SlotBit
  <2>3. w \in Nat
    BY WordFacts, <2>w DEF MessageSize
  <2> QED
    BY <2>1, <2>2, <2>3
<1> QED
  BY <1>6, <1>7, <1>8

\* doLayout lays out the fields of a message so that they share nothing.
LEMMA LayoutFacts ==
  ASSUME NEW fds, Described(fds)
  PROVE  LaidOut(fds, Offsets(fds), TypeSize(fds))
<1>o. PICK off : off = Offsets(fds)
  OBVIOUS
<1>s. PICK size : size = TypeSize(fds)
  OBVIOUS
<1> DEFINE words == MessageSize + 4 * BitWords(fds)
           data(i) == off[i].data .. off[i].data + fds[i].arch.size - 1
           bits(i) == IF IsOneof(fds, i) THEN {} ELSE off[i].bit .. off[i].bit + fds[i].arch.bits - 1
           which(i) == IF IsOneof(fds, i) THEN off[i].bit .. off[i].bit + 3 ELSE {}
           shared(i, j) == IsOneof(fds, i) /\ fds[i].oneof = fds[j].oneof
           Apart(i, j) == /\ data(i) \cap data(j) = {} /\ bits(i) \cap bits(j) = {}
                          /\ which(i) \cap which(j) = {}
<1>1. size % 8 = 0
  <2>1. PICK v : v = Hot(fds)[Cardinality(Heads(fds))]
    OBVIOUS
  <2>2. v \in Nat
    BY <2>1, HotFacts, SlotsFinite
  <2>3. Aligned(RoundUp(v, 8), 8)
    BY <2>2, RoundUpFacts
  <2>4. size = RoundUp(v, 8)
    BY <2>1, <1>s DEF TypeSize
  <2> QED
    BY <2>3, <2>4 DEF Aligned
<1>2. ASSUME NEW i \in DOMAIN fds
      PROVE  /\ off[i].data % fds[i].arch.align = 0
             /\ data(i) \subseteq DataStart(fds) .. size - 1
             /\ bits(i) \subseteq 0 .. WordBits * BitWords(fds) - 1
             /\ which(i) \subseteq words .. DataStart(fds) - 1
  BY <1>o, <1>s, FieldPlace
<1>3. ASSUME NEW i \in DOMAIN fds, NEW j \in DOMAIN fds,
             Before(fds, HeadOf(fds, i), HeadOf(fds, j))
      PROVE  Apart(i, j) /\ Apart(j, i)
  <2>1. PICK o, p : o = off[i] /\ p = off[j]
    OBVIOUS
  <2>2. /\ (o.data .. o.data + fds[i].arch.size - 1) \cap (p.data .. p.data + fds[j].arch.size - 1) = {}
        /\ ~IsOneof(fds, i) /\ ~IsOneof(fds, j) =>
             (o.bit .. o.bit + fds[i].arch.bits - 1) \cap (p.bit .. p.bit + fds[j].arch.bits - 1) = {}
        /\ IsOneof(fds, i) /\ IsOneof(fds, j) =>
             (o.bit .. o.bit + 3) \cap (p.bit .. p.bit + 3) = {}
    BY <2>1, <1>o, <1>3, FieldsApart
  <2>3. data(i) \cap data(j) = {} /\ data(j) \cap data(i) = {}
    BY <2>1, <2>2
  <2>4. bits(i) \cap bits(j) = {} /\ bits(j) \cap bits(i) = {}
    BY <2>1, <2>2
  <2>5. which(i) \cap which(j) = {} /\ which(j) \cap which(i) = {}
    BY <2>1, <2>2
  <2> QED
    BY <2>3, <2>4, <2>5
<1> HIDE DEF Apart
<1>4. ASSUME NEW i \in DOMAIN fds, NEW j \in DOMAIN fds, i # j, ~shared(i, j)
      PROVE  Apart(i, j)
  <2>1. PICK g, h : g = HeadOf(fds, i) /\ h = HeadOf(fds, j)
    OBVIOUS
  <2>2. g # h /\ g \in Heads(fds) /\ h \in Heads(fds)
    BY <2>1, <1>4, SharedSlot, HeadFacts DEF IsOneof
  <2>3. Before(fds, g, h) \/ Before(fds, h, g)
    BY <2>2, BeforeOrder
  <2> QED
    BY <2>1, <2>3, <1>3
<1>5. ASSUME NEW i \in DOMAIN fds, NEW j \in DOMAIN fds, i # j, shared(i, j)
      PROVE  off[i].number # off[j].number /\ which(i) = which(j)
  <2>1. HeadOf(fds, i) = HeadOf(fds, j)
    BY <1>5, SharedSlot DEF IsOneof
  <2>2. IsOneof(fds, i) /\ IsOneof(fds, j)
    BY <1>5 DEF IsOneof
  <2>3. fds[i].num # fds[j].num
    <3>1. i \in Nat /\ j \in Nat
      BY DEF Described
    <3>2. i < j \/ j < i
      BY <3>1, <1>5
    <3> QED
      BY <3>2, <1>5 DEF Described, OneofsContiguous, IsOneof
  <2>h. PICK h : h = HeadOf(fds, i)
    OBVIOUS
  <2>4. off[i].bit = SlotBit(fds, h) /\ off[i].number = fds[i].num
    BY <2>2, <2>h, <1>o, OffsetFacts
  <2>5. off[j].bit = SlotBit(fds, h) /\ off[j].number = fds[j].num
    BY <2>1, <2>2, <2>h, <1>o, OffsetFacts
  <2> QED
    BY <2>2, <2>3, <2>4, <2>5
<1> QED
  BY <1>1, <1>2, <1>4, <1>5, <1>o, <1>s DEF LaidOut, Apart

\* No two fields of any message share storage unless they are members of one oneof,
\* and all lie aligned within the message (ir.go doLayout).
THEOREM LayoutIsDisjoint == Spec => []SlotsDisjoint
<1>1. CompilerInv => SlotsDisjoint
  <2> SUFFICES ASSUME CompilerInv, NEW m \in DOMAIN irs
               PROVE  LaidOut(Fields(m), irs[m].offsets, irs[m].hot)
    BY DEF SlotsDisjoint
  <2>f. PICK fds : fds = Fields(m)
    OBVIOUS
  <2>1. m \in DOMAIN input.fields /\ irs[m] = IR(m) /\ IsInput(input)
    BY CompiledMessages DEF CompilerInv
  <2>2. irs[m].offsets = Offsets(fds) /\ irs[m].hot = TypeSize(fds)
    BY <2>1, <2>f DEF IR
  <2>T. PICK T : T = DOMAIN input.fields
    OBVIOUS
  <2>3. fds \in Seq(Descriptors(T)) /\ OneofsContiguous(fds)
    BY <2>1, <2>f, <2>T DEF IsInput, Fields
  <2>4. Described(fds)
    <3>1. Len(fds) \in Nat /\ DOMAIN fds = 1 .. Len(fds)
      BY <2>3
    <3>2. \A i \in DOMAIN fds : fds[i] \in Descriptors(T)
      BY <2>3, <3>1, ElementOfSeq
    <3> HIDE <2>3
    <3>3. \A d \in Descriptors(T) :
            d.num \in Nat /\ d.oneof \in Nat /\ d.arch.size \in Nat /\ d.arch.bits \in Nat
            /\ d.arch.align \in {1, 2, 4, 8}
      BY DEF Descriptors
    <3> QED
      BY <3>1, <3>2, <3>3, <2>3 DEF Described
  <2> QED
    BY <2>2, <2>4, <2>f, LayoutFacts
<1> QED
  BY <1>1, CompilerInvariant, PTL

----------------------------------------------------------------------------
(* The linked program *)

\* Addresses of symbols are multiples of 8.
LEMMA RoundUpToEight ==
  ASSUME NEW v \in Nat
  PROVE  /\ RoundUp(v, 8) \in Nat /\ v <= RoundUp(v, 8) /\ RoundUp(v, 8) % 8 = 0
         /\ v % 8 = 0 => RoundUp(v, 8) = v
<1>1. PICK q \in Nat : q = (v + 7) \div 8 /\ v <= q * 8
  OBVIOUS
<1>2. RoundUp(v, 8) = q * 8
  BY <1>1 DEF RoundUp
<1>3. (q * 8) % 8 = 0
  OBVIOUS
<1>4. v % 8 = 0 => q * 8 = v
  BY <1>1
<1> QED
  BY <1>1, <1>2, <1>3, <1>4

\* What the linker may be given: symbols with a size, of different names.
Sized(syms) ==
  /\ syms \in Seq(ToSet(syms))
  /\ \A k \in DOMAIN syms : syms[k].size \in Nat \ {0}
  /\ \A k, l \in DOMAIN syms : k # l => syms[k].name # syms[l].name

\* Where symbol k begins.
PlacedAt(syms, k) == RoundUp(Ends(syms)[k - 1], 8)

LEMMA EndsFacts ==
  ASSUME NEW syms, NEW n \in Nat, n = Len(syms), \A k \in 1 .. n : syms[k].size \in Nat \ {0}
  PROVE  \A k \in 0 .. n : /\ Ends(syms)[k] \in Nat
                           /\ k > 0 => Ends(syms)[k] = PlacedAt(syms, k) + syms[k].size
<1> DEFINE Value(e, i) == IF i = 0 THEN 0 ELSE RoundUp(e[i - 1], 8) + syms[i].size
           step == [x \in (1 .. n) \X Nat |-> RoundUp(x[2], 8) + syms[x[1]].size]
<1>1. step \in [(1 .. n) \X Nat -> Nat]
  <2>1. ASSUME NEW x \in (1 .. n) \X Nat
        PROVE  RoundUp(x[2], 8) + syms[x[1]].size \in Nat
    <3>1. x[2] \in Nat /\ x[1] \in 1 .. n
      BY <2>1
    <3>2. RoundUp(x[2], 8) \in Nat /\ syms[x[1]].size \in Nat
      BY <3>1, RoundUpToEight
    <3> QED
      BY <3>2
  <2> QED
    BY <2>1
<1>2. PICK f \in [0 .. n -> Nat] :
        f[0] = 0 /\ \A i \in 1 .. n : f[i] = step[<<i, f[i - 1]>>]
  <2> HIDE DEF step
  <2>1. IsStep(Nat, 0, n, step)
    BY <1>1 DEF IsStep
  <2>2. HasFunction(Nat, 0, n, step)
    BY <2>1, RecursiveFunction
  <2> QED
    BY <2>2 DEF HasFunction
<1>3. \A i \in 0 .. n : f[i] = Value(f, i)
  <2>1. ASSUME NEW i \in 1 .. n
        PROVE  f[i] = Value(f, i)
    <3>1. i - 1 \in 0 .. n /\ f[i - 1] \in Nat /\ i # 0
      BY <1>2
    <3>2. <<i, f[i - 1]>> \in (1 .. n) \X Nat
      BY <3>1
    <3> QED
      BY <3>1, <3>2, <1>2
  <2>2. f[0] = Value(f, 0)
    BY <1>2
  <2>3. \A i \in 0 .. n : i = 0 \/ i \in 1 .. n
    OBVIOUS
  <2> HIDE DEF Value
  <2> QED
    BY <2>1, <2>2, <2>3
<1>4. f = [i \in 0 .. n |-> Value(f, i)]
  BY <1>2, <1>3
<1>5. \E e : e = [i \in 0 .. Len(syms) |-> Value(e, i)]
  BY <1>4
<1>6. PICK e : e = [i \in 0 .. n |-> Value(e, i)] /\ Ends(syms) = e
  BY <1>5 DEF Ends
<1> HIDE DEF step
<1>7. \A i \in 0 .. n : e[i] = Value(e, i)
  BY <1>6
<1> DEFINE S == {i \in Nat : i <= n => e[i] \in Nat}
<1>8. 0 \in S
  BY <1>7
<1>9. ASSUME NEW k \in Nat, k \in S
      PROVE  k + 1 \in S
  <2> SUFFICES ASSUME k + 1 <= n
               PROVE  e[k + 1] \in Nat
    OBVIOUS
  <2>1. k + 1 \in 0 .. n /\ k + 1 # 0 /\ (k + 1) - 1 = k /\ e[k] \in Nat /\ syms[k + 1].size \in Nat
    BY <1>9
  <2>2. e[k + 1] = RoundUp(e[k], 8) + syms[k + 1].size
    BY <2>1, <1>7
  <2>3. RoundUp(e[k], 8) \in Nat
    BY <2>1, RoundUpToEight
  <2> QED
    BY <2>1, <2>2, <2>3
<1> HIDE DEF S
<1>10. \A k \in Nat : k \in S
  <2>1. \A k \in Nat : k \in S => k + 1 \in S
    BY <1>9
  <2> QED
    BY <2>1, <1>8, SetInduction
<1>11. \A k \in 0 .. n : e[k] \in Nat
  BY <1>10 DEF S
<1> QED
  BY <1>6, <1>7, <1>11 DEF PlacedAt

\* The linker places symbols behind each other, those of a size that is a multiple of
\* 8 without a gap.
LEMMA PlaceFacts ==
  ASSUME NEW syms, Sized(syms)
  PROVE  /\ \A k \in DOMAIN syms : PlacedAt(syms, k) \in Nat
         /\ \A k \in DOMAIN syms : k + 1 \in DOMAIN syms =>
              /\ PlacedAt(syms, k) < PlacedAt(syms, k + 1)
              /\ syms[k].size % 8 = 0 => PlacedAt(syms, k + 1) = PlacedAt(syms, k) + syms[k].size
<1>1. PICK n \in Nat : n = Len(syms) /\ DOMAIN syms = 1 .. n /\ \A k \in 1 .. n : syms[k].size \in Nat \ {0}
  BY DEF Sized
<1>2. \A k \in 0 .. n : /\ Ends(syms)[k] \in Nat
                        /\ k > 0 => Ends(syms)[k] = PlacedAt(syms, k) + syms[k].size
  BY <1>1, EndsFacts
<1>3. ASSUME NEW k \in 1 .. n
      PROVE  /\ PlacedAt(syms, k) \in Nat /\ PlacedAt(syms, k) % 8 = 0
             /\ Ends(syms)[k] = PlacedAt(syms, k) + syms[k].size
  <2>1. k - 1 \in 0 .. n /\ k \in 0 .. n /\ k > 0
    OBVIOUS
  <2>2. Ends(syms)[k - 1] \in Nat
    BY <2>1, <1>2
  <2> QED
    BY <2>1, <2>2, <1>2, RoundUpToEight DEF PlacedAt
<1>4. ASSUME NEW k \in 1 .. n, k + 1 \in 1 .. n
      PROVE  /\ PlacedAt(syms, k) < PlacedAt(syms, k + 1)
             /\ syms[k].size % 8 = 0 => PlacedAt(syms, k + 1) = PlacedAt(syms, k) + syms[k].size
  <2>1. PICK a, s \in Nat : a = PlacedAt(syms, k) /\ s = syms[k].size /\ s # 0
    BY <1>1, <1>3
  <2>2. a % 8 = 0 /\ Ends(syms)[k] = a + s
    BY <2>1, <1>3
  <2>3. PlacedAt(syms, k + 1) = RoundUp(a + s, 8)
    <3>1. (k + 1) - 1 = k
      OBVIOUS
    <3> QED
      BY <3>1, <2>2 DEF PlacedAt
  <2>4. RoundUp(a + s, 8) \in Nat /\ a + s <= RoundUp(a + s, 8)
        /\ ((a + s) % 8 = 0 => RoundUp(a + s, 8) = a + s)
    <3>1. a + s \in Nat
      OBVIOUS
    <3> QED
      BY <3>1, RoundUpToEight
  <2>5. s % 8 = 0 => (a + s) % 8 = 0
    BY <2>2
  <2> QED
    BY <2>1, <2>3, <2>4, <2>5
<1> QED
  BY <1>1, <1>3, <1>4

\* Symbols further on have higher addresses.
LEMMA PlacesGrow ==
  ASSUME NEW syms, Sized(syms), NEW k \in DOMAIN syms, NEW l \in DOMAIN syms, k < l
  PROVE  PlacedAt(syms, k) < PlacedAt(syms, l)
<1>1. PICK n \in Nat : DOMAIN syms = 1 .. n
  BY DEF Sized
<1>2. /\ \A j \in 1 .. n : PlacedAt(syms, j) \in Nat
      /\ \A j \in 1 .. n : j + 1 \in 1 .. n => PlacedAt(syms, j) < PlacedAt(syms, j + 1)
  BY <1>1, PlaceFacts
<1> DEFINE S == {d \in Nat : k + d + 1 <= n => PlacedAt(syms, k) < PlacedAt(syms, k + d + 1)}
<1>3. 0 \in S
  <2>1. k + 0 + 1 = k + 1 /\ k \in 1 .. n /\ (k + 1 <= n => k + 1 \in 1 .. n)
    BY <1>1
  <2> QED
    BY <2>1, <1>2
<1>4. ASSUME NEW d \in Nat, d \in S
      PROVE  d + 1 \in S
  <2> SUFFICES ASSUME k + (d + 1) + 1 <= n
               PROVE  PlacedAt(syms, k) < PlacedAt(syms, k + (d + 1) + 1)
    OBVIOUS
  <2>1. PICK j \in 1 .. n : j = k + d + 1 /\ j + 1 = k + (d + 1) + 1 /\ j + 1 \in 1 .. n
    <3>1. k \in 1 .. n
      BY <1>1
    <3>2. k + d + 1 \in 1 .. n /\ (k + d + 1) + 1 = k + (d + 1) + 1 /\ (k + d + 1) + 1 \in 1 .. n
      BY <3>1
    <3> QED
      BY <3>2
  <2>2. PlacedAt(syms, k) < PlacedAt(syms, j)
    <3>1. k + d + 1 <= n
      BY <2>1
    <3> QED
      BY <3>1, <2>1, <1>4
  <2>3. PlacedAt(syms, j) < PlacedAt(syms, j + 1)
    BY <2>1, <1>2
  <2>4. PlacedAt(syms, k) \in Nat /\ PlacedAt(syms, j) \in Nat /\ PlacedAt(syms, j + 1) \in Nat
    BY <2>1, <1>1, <1>2
  <2> QED
    BY <2>1, <2>2, <2>3, <2>4
<1> HIDE DEF S
<1>5. PICK d \in Nat : k + d + 1 = l
  <2>1. l - k - 1 \in Nat /\ k + (l - k - 1) + 1 = l
    BY <1>1
  <2> QED
    BY <2>1
<1>6. d \in S
  <2>1. \A j \in Nat : j \in S => j + 1 \in S
    BY <1>4
  <2> QED
    BY <2>1, <1>3, <1>5, SetInduction
<1> QED
  BY <1>1, <1>5, <1>6 DEF S

\* The linked program has every symbol at its place, and at an address at most one.
LEMMA LinkFacts ==
  ASSUME NEW syms, Sized(syms)
  PROVE  /\ \A k \in DOMAIN syms : LinkedAt(syms)[syms[k].name] = PlacedAt(syms, k)
         /\ \A k, l \in DOMAIN syms : PlacedAt(syms, k) = PlacedAt(syms, l) => k = l
<1>1. ASSUME NEW k \in DOMAIN syms
      PROVE  LinkedAt(syms)[syms[k].name] = PlacedAt(syms, k)
  <2>1. PICK nm : nm = syms[k].name
    OBVIOUS
  <2>2. nm \in {s.name : s \in ToSet(syms)}
    BY <2>1 DEF ToSet
  <2>3. (CHOOSE j \in DOMAIN syms : syms[j].name = nm) = k
    BY <2>1 DEF Sized
  <2>4. LinkedAt(syms)[nm] = RoundUp(Ends(syms)[(CHOOSE j \in DOMAIN syms : syms[j].name = nm) - 1], 8)
    BY <2>2 DEF LinkedAt
  <2> QED
    BY <2>1, <2>3, <2>4 DEF PlacedAt
<1>2. ASSUME NEW k \in DOMAIN syms, NEW l \in DOMAIN syms, PlacedAt(syms, k) = PlacedAt(syms, l)
      PROVE  k = l
  <2>1. k \in Nat /\ l \in Nat
    BY DEF Sized
  <2>2. PlacedAt(syms, k) \in Nat /\ PlacedAt(syms, l) \in Nat
    BY PlaceFacts
  <2>3. ~(k < l) /\ ~(l < k)
    BY <2>2, <1>2, PlacesGrow
  <2> QED
    BY <2>1, <2>3
<1> QED
  BY <1>1, <1>2

\* In the linked program, the symbols of a message are at addresses of their own, its
\* field parsers behind its TypeParser, in order.
LinkedIn(own, m, fds, p, n) ==
  /\ Placed(own, m, fds, p, n)
  /\ \A k \in DOMAIN own : SymbolAt(Base + program[own[k].name]) = {own[k]}
  /\ \A i \in 1 .. n : Base + program[Name("field", m, i)] = FieldAt(Base + program[Name("parser", m, 0)], i - 1)

\* The name of a field parser.
LEMMA FieldNames ==
  ASSUME NEW own, NEW m, NEW fds, NEW p, NEW n, Placed(own, m, fds, p, n),
         p # <<>> => DOMAIN p = 1 .. Len(p), NEW i \in 1 .. n
  PROVE  /\ 3 + i \in DOMAIN own
         /\ own[3 + i].name = Name("field", m, i) /\ own[3 + i].size = SizeofFieldParser
<1>1. n \in Nat \ {0} /\ DOMAIN own = 1 .. n + 7 /\ (p = <<>> => n = 1) /\ (p # <<>> => n = Len(p))
  BY PlacedCount
<1>2. 3 + i \in 1 .. n + 7
  BY <1>1
<1>3. own[3 + i] = FieldSymbols(m, fds, p)[i]
  BY DEF Placed
<1>4. CASE p = <<>>
  <2>1. FieldSymbols(m, fds, p)[1].name = Name("field", m, 1) /\ FieldSymbols(m, fds, p)[1].size = SizeofFieldParser
    BY <1>4 DEF FieldSymbols, Symbol
  <2>2. i = 1
    BY <1>1, <1>4
  <2> QED
    BY <2>1, <2>2, <1>1, <1>2, <1>3
<1>5. CASE p # <<>>
  BY <1>1, <1>2, <1>3, <1>5 DEF FieldSymbols, Symbol
<1> QED
  BY <1>4, <1>5

\* The symbol of the TypeParser.
LEMMA ParserSymbol ==
  ASSUME NEW own, NEW m, NEW fds, NEW p, NEW n, Placed(own, m, fds, p, n)
  PROVE  /\ own[3].name = Name("parser", m, 0) /\ own[3].size = SizeofTypeParser
         /\ own[3].rels = {Rel("MapEntry", Name("entry", m, 0), "Address")}
                             \cup ParserRels(m, Name("tags", m, 0), Name("field", m, 1))
<1>1. PICK nm, rels : nm = Name("parser", m, 0)
          /\ rels = {Rel("MapEntry", Name("entry", m, 0), "Address")}
                       \cup ParserRels(m, Name("tags", m, 0), Name("field", m, 1))
  OBVIOUS
<1>2. own[3] = Symbol(nm, SizeofTypeParser, rels)
  BY <1>1 DEF Placed
<1> QED
  BY <1>1, <1>2 DEF Symbol

LEMMA LinkedFacts ==
  ASSUME NEW own, NEW m, NEW fds, NEW p, NEW n, Placed(own, m, fds, p, n),
         DOMAIN p = 1 .. Len(p), Sized(symbols), program = LinkedAt(symbols),
         NEW b \in 0 .. Len(symbols) - Len(own), \A k \in DOMAIN own : symbols[b + k] = own[k]
  PROVE  LinkedIn(own, m, fds, p, n)
<1>1. n \in Nat \ {0} /\ DOMAIN own = 1 .. n + 7 /\ Len(own) = n + 7
  BY PlacedCount
<1>2. Len(symbols) \in Nat /\ DOMAIN symbols = 1 .. Len(symbols) /\ ToSet(symbols) = {symbols[j] : j \in DOMAIN symbols}
  BY DEF Sized, ToSet
<1>3. ASSUME NEW k \in DOMAIN own
      PROVE  /\ b + k \in DOMAIN symbols /\ symbols[b + k] = own[k]
             /\ program[own[k].name] = PlacedAt(symbols, b + k)
  <2>1. b + k \in DOMAIN symbols
    BY <1>1, <1>2
  <2> QED
    BY <2>1, LinkFacts
<1>4. \A j \in DOMAIN symbols : PlacedAt(symbols, j) \in Nat /\ program[symbols[j].name] = PlacedAt(symbols, j)
  BY LinkFacts, PlaceFacts
<1>5. ASSUME NEW k \in DOMAIN own
      PROVE  SymbolAt(Base + program[own[k].name]) = {own[k]}
  <2>1. PICK a \in Nat : a = PlacedAt(symbols, b + k) /\ a = program[own[k].name]
    BY <1>3, <1>4
  <2>2. own[k] \in ToSet(symbols)
    BY <1>2, <1>3
  <2>3. ASSUME NEW s \in ToSet(symbols), Base + program[s.name] = Base + a
        PROVE  s = own[k]
    <3>1. PICK j \in DOMAIN symbols : s = symbols[j]
      BY <1>2
    <3>2. PICK c \in Nat : c = PlacedAt(symbols, j) /\ c = program[s.name]
      BY <3>1, <1>4
    <3>3. Base \in Nat
      BY TableAssumption
    <3>4. c = a
      BY <3>2, <3>3, <2>3
    <3>5. j = b + k
      BY <3>2, <3>4, <2>1, <1>3, LinkFacts
    <3> QED
      BY <3>1, <3>5, <1>3
  <2> QED
    BY <2>1, <2>2, <2>3 DEF SymbolAt
\* The places, counted from the TypeParser's.
<1>6. PICK c \in Nat : c = PlacedAt(symbols, b + 3) /\ c = program[Name("parser", m, 0)]
  <2>1. 3 \in DOMAIN own
    BY <1>1
  <2>2. own[3].name = Name("parser", m, 0)
    BY ParserSymbol
  <2> QED
    BY <2>1, <2>2, <1>3, <1>4
<1> DEFINE S == {d \in Nat : d + 1 <= n => PlacedAt(symbols, b + 4 + d) = c + SizeofTypeParser + SizeofFieldParser * d}
<1>7. 0 \in S
  <2>1. own[3].size = SizeofTypeParser /\ SizeofTypeParser % 8 = 0 /\ SizeofTypeParser \in Nat
    <3>1. own[3].size = SizeofTypeParser
      BY ParserSymbol
    <3> QED
      BY <3>1 DEF SizeofTypeParser
  <2>2. 3 \in DOMAIN own /\ 4 \in DOMAIN own
    BY <1>1
  <2>3. b + 3 \in DOMAIN symbols /\ (b + 3) + 1 \in DOMAIN symbols /\ symbols[b + 3] = own[3]
        /\ (b + 3) + 1 = b + 4 + 0
    <3>1. b + 3 \in DOMAIN symbols /\ b + 4 \in DOMAIN symbols /\ symbols[b + 3] = own[3]
      BY <2>2, <1>3
    <3> QED
      BY <3>1
  <2>4. PlacedAt(symbols, b + 4 + 0) = c + SizeofTypeParser
    <3>1. PICK k : k = b + 3 /\ k \in DOMAIN symbols /\ k + 1 \in DOMAIN symbols
                   /\ symbols[k] = own[3] /\ k + 1 = b + 4 + 0
      BY <2>3
    <3>2. symbols[k].size % 8 = 0 /\ symbols[k].size = SizeofTypeParser
      BY <2>1, <3>1
    <3>3. PlacedAt(symbols, k + 1) = PlacedAt(symbols, k) + symbols[k].size
      BY <3>1, <3>2, PlaceFacts
    <3> QED
      BY <3>1, <3>2, <3>3, <1>6
  <2>5. c + SizeofTypeParser + SizeofFieldParser * 0 = c + SizeofTypeParser
    BY <2>1 DEF SizeofFieldParser
  <2> QED
    BY <2>4, <2>5
<1>8. ASSUME NEW d \in Nat, d \in S
      PROVE  d + 1 \in S
  <2> SUFFICES ASSUME (d + 1) + 1 <= n
               PROVE  PlacedAt(symbols, b + 4 + (d + 1)) = c + SizeofTypeParser + SizeofFieldParser * (d + 1)
    OBVIOUS
  <2>1. d + 1 \in 1 .. n /\ d + 2 \in 1 .. n
    BY <1>1
  <2>2. /\ 3 + (d + 1) \in DOMAIN own /\ own[3 + (d + 1)].size = SizeofFieldParser
        /\ 3 + (d + 2) \in DOMAIN own
    BY <2>1, FieldNames
  <2>3. PICK k : k = b + 4 + d
    OBVIOUS
  <2>4. /\ k \in DOMAIN symbols /\ k + 1 \in DOMAIN symbols /\ symbols[k].size = SizeofFieldParser
        /\ k + 1 = b + 4 + (d + 1)
    <3>1. b + (3 + (d + 1)) = k /\ b + (3 + (d + 2)) = k + 1 /\ k + 1 = b + 4 + (d + 1)
      BY <2>3
    <3> QED
      BY <3>1, <2>2, <1>3
  <2>5. SizeofFieldParser % 8 = 0 /\ SizeofFieldParser \in Nat /\ SizeofTypeParser \in Nat
        /\ SizeofFieldParser * (d + 1) = SizeofFieldParser * d + SizeofFieldParser
    BY DEF SizeofFieldParser, SizeofTypeParser
  <2>6. PlacedAt(symbols, k + 1) = PlacedAt(symbols, k) + SizeofFieldParser
    BY <2>4, <2>5, PlaceFacts
  <2>7. PlacedAt(symbols, k) = c + SizeofTypeParser + SizeofFieldParser * d
    BY <1>8, <2>1, <2>3
  <2> QED
    <3>1. SizeofFieldParser * d \in Nat
      BY <2>5
    <3> QED
      BY <3>1, <2>4, <2>5, <2>6, <2>7
<1> HIDE DEF S
<1>9. \A d \in Nat : d \in S
  <2>1. \A d \in Nat : d \in S => d + 1 \in S
    BY <1>8
  <2> QED
    BY <2>1, <1>7, SetInduction
<1>10. ASSUME NEW i \in 1 .. n
       PROVE  Base + program[Name("field", m, i)] = FieldAt(Base + program[Name("parser", m, 0)], i - 1)
  <2>1. i - 1 \in Nat /\ (i - 1) + 1 <= n /\ b + 4 + (i - 1) = b + (3 + i)
    BY <1>1
  <2>2. PlacedAt(symbols, b + (3 + i)) = c + SizeofTypeParser + SizeofFieldParser * (i - 1)
    BY <2>1, <1>9 DEF S
  <2>3. program[Name("field", m, i)] = PlacedAt(symbols, b + (3 + i))
    BY FieldNames, <1>3
  <2>4. Base \in Nat
    BY TableAssumption
  <2> QED
    BY <2>1, <2>2, <2>3, <2>4, <1>6 DEF FieldAt, SizeofTypeParser, SizeofFieldParser
<1> QED
  BY <1>5, <1>10 DEF LinkedIn

\* What the relocations of the symbol at an address lead to.
LEMMA FollowFacts ==
  ASSUME NEW addr, NEW s, SymbolAt(addr) = {s}, NEW slot
  PROVE  Follow(addr, slot) = {Resolve(r) : r \in {r \in s.rels : r.slot = slot}}
<1>1. UNION {{r \in q.rels : r.slot = slot} : q \in {s}} = {r \in s.rels : r.slot = slot}
  OBVIOUS
<1> QED
  BY <1>1 DEF Follow

\* Every field parser is followed by field parsers of the message.
LEMMA FieldFollow ==
  ASSUME NEW own, NEW m, NEW fds, NEW p, NEW n, LinkedIn(own, m, fds, p, n), p # <<>>,
         DOMAIN p = 1 .. Len(p), NEW i \in 1 .. n, NEW next, next = IF i = n THEN 1 ELSE i + 1
  PROVE  /\ Follow(Base + program[Name("field", m, i)], "NextOk")
              = {Base + program[Name("field", m, NextOk(fds, p, i))]}
         /\ Follow(Base + program[Name("field", m, i)], "NextErr")
              = {Base + program[Name("field", m, next)]}
<1>1. Placed(own, m, fds, p, n) /\ n = Len(p) /\ n \in Nat \ {0}
  BY PlacedCount DEF LinkedIn
<1>2. 3 + i \in DOMAIN own /\ own[3 + i].name = Name("field", m, i)
  BY <1>1, FieldNames
<1>3. PICK ok, err, msgs :
        /\ ok = Rel("NextOk", Name("field", m, NextOk(fds, p, i)), "Address")
        /\ err = Rel("NextErr", Name("field", m, IF i = Len(p) THEN 1 ELSE i + 1), "Address")
        /\ msgs = {Rel("Message", Name("parser", fds[t].msg, 0), "Address") :
                     t \in {t \in {p[i].t} : fds[t].msg # None}}
  OBVIOUS
<1>d. i \in DOMAIN p
  BY <1>1
<1>4. own[3 + i].rels = {ok, err} \cup msgs
  <2>1. own[3 + i] = FieldSymbols(m, fds, p)[i]
    BY <1>1 DEF Placed
  <2>2. FieldSymbols(m, fds, p)[i].rels = {ok, err} \cup msgs
    BY <1>1, <1>3, <1>d DEF FieldSymbols, Symbol
  <2> QED
    BY <2>1, <2>2
<1>5. \A r \in msgs : r.slot = "Message"
  BY <1>3 DEF Rel
<1>6. ok.slot = "NextOk" /\ err.slot = "NextErr"
  BY <1>3 DEF Rel
<1>7. {r \in {ok, err} \cup msgs : r.slot = "NextOk"} = {ok}
  BY <1>5, <1>6
<1>8. {r \in {ok, err} \cup msgs : r.slot = "NextErr"} = {err}
  BY <1>5, <1>6
<1>9. /\ Resolve(ok) = Base + program[Name("field", m, NextOk(fds, p, i))]
      /\ Resolve(err) = Base + program[Name("field", m, next)]
  BY <1>1, <1>3 DEF Resolve, Rel
<1>10. /\ Follow(Base + program[own[3 + i].name], "NextOk") = {Resolve(ok)}
       /\ Follow(Base + program[own[3 + i].name], "NextErr") = {Resolve(err)}
  <2>0. SymbolAt(Base + program[own[3 + i].name]) = {own[3 + i]}
    BY <1>2 DEF LinkedIn
  <2>1. \A slot : Follow(Base + program[own[3 + i].name], slot)
                    = {Resolve(r) : r \in {r \in own[3 + i].rels : r.slot = slot}}
    BY <2>0, FollowFacts
  <2> QED
    BY <2>1, <1>4, <1>7, <1>8
<1> QED
  BY <1>2, <1>9, <1>10

\* The parsers of a message, its own and as a map entry, refer to its own symbols.
LEMMA ParserFollow ==
  ASSUME NEW own, NEW m, NEW fds, NEW p, NEW n, LinkedIn(own, m, fds, p, n),
         p # <<>> => DOMAIN p = 1 .. Len(p), Len(p) \in Nat, Len(fds) \in Nat
  PROVE  /\ \A slot \in {"Tags", "MapEntry", "NextOk"} :
              \A x \in Follow(Base + program[Name("parser", m, 0)], slot) : \E s \in SymbolAt(x) : s.name.ty = m
         /\ \A sym \in {"parser", "entry"} :
              Follow(Base + program[Name(sym, m, 0)], "TypeOffset") = {program[Name("type", m, 0)]}
<1>1. Placed(own, m, fds, p, n) /\ n \in Nat \ {0} /\ DOMAIN own = 1 .. n + 7
  BY PlacedCount DEF LinkedIn
<1>2. /\ 3 \in DOMAIN own /\ n + 4 \in DOMAIN own /\ n + 5 \in DOMAIN own /\ 1 \in 1 .. n /\ n + 5 = n + 4 + 1
  BY <1>1
<1>3. PICK entry, type, tags, first, etags, efirst :
        /\ entry = Name("entry", m, 0) /\ type = Name("type", m, 0) /\ tags = Name("tags", m, 0)
        /\ first = Name("field", m, 1) /\ etags = Name("entryTags", m, 0) /\ efirst = Name("entryField", m, 1)
  OBVIOUS
<1>4. PICK re, rt, rg, rf :
        /\ re = Rel("MapEntry", entry, "Address") /\ rt = Rel("TypeOffset", type, "Abs32")
        /\ rg = Rel("Tags", tags, "Address") /\ rf = Rel("NextOk", first, "Address")
  OBVIOUS
<1>5. PICK rg2, rf2 : rg2 = Rel("Tags", etags, "Address") /\ rf2 = Rel("NextOk", efirst, "Address")
  OBVIOUS
<1>6. own[3].name = Name("parser", m, 0) /\ own[3].rels = {re} \cup {rt, rg, rf}
  <2>1. ParserRels(m, tags, first) = {rt, rg, rf}
    BY <1>3, <1>4 DEF ParserRels
  <2> QED
    BY <2>1, <1>1, <1>3, <1>4, ParserSymbol
<1>7. own[n + 5].name = entry /\ own[n + 5].rels = {rt, rg2, rf2}
  <2>1. ParserRels(m, etags, efirst) = {rt, rg2, rf2}
    BY <1>3, <1>4, <1>5 DEF ParserRels
  <2>2. own[n + 5] = EntrySymbols(m)[1]
    BY <1>1, <1>2 DEF Placed
  <2>3. EntrySymbols(m)[1] = Symbol(entry, SizeofTypeParser, ParserRels(m, etags, efirst))
    BY <1>3 DEF EntrySymbols
  <2> QED
    BY <2>1, <2>2, <2>3 DEF Symbol
<1>8. own[1].name = type /\ own[n + 4].name = tags /\ own[4].name = first /\ 1 \in DOMAIN own /\ 4 \in DOMAIN own
  <2>1. own[1].name = type
    <3>1. own[1] = TypeSymbol(m, fds)
      BY <1>1 DEF Placed
    <3>2. TypeSymbol(m, fds).name = Name("type", m, 0)
      BY DEF TypeSymbol, Symbol
    <3> QED
      BY <3>1, <3>2, <1>3
  <2>2. own[n + 4].name = tags
    BY <1>1, <1>3 DEF Placed, Symbol
  <2>3. own[3 + 1].name = first
    BY <1>1, <1>2, <1>3, FieldNames
  <2> QED
    BY <2>1, <2>2, <2>3, <1>1
<1>9. /\ re.slot = "MapEntry" /\ rt.slot = "TypeOffset" /\ rg.slot = "Tags" /\ rf.slot = "NextOk"
      /\ rg2.slot = "Tags" /\ rf2.slot = "NextOk"
  BY <1>4, <1>5 DEF Rel
<1>10. /\ Resolve(re) = Base + program[own[n + 5].name]
       /\ Resolve(rg) = Base + program[own[n + 4].name]
       /\ Resolve(rf) = Base + program[own[4].name]
       /\ Resolve(rt) = program[type]
  BY <1>4, <1>7, <1>8 DEF Resolve, Rel
<1>11. \A slot : /\ Follow(Base + program[Name("parser", m, 0)], slot)
                      = {Resolve(r) : r \in {r \in {re} \cup {rt, rg, rf} : r.slot = slot}}
                 /\ Follow(Base + program[entry], slot)
                      = {Resolve(r) : r \in {r \in {rt, rg2, rf2} : r.slot = slot}}
  <2> TAKE slot
  <2>0. \A k \in DOMAIN own :
          Follow(Base + program[own[k].name], slot) = {Resolve(r) : r \in {r \in own[k].rels : r.slot = slot}}
    <3> TAKE k \in DOMAIN own
    <3>1. SymbolAt(Base + program[own[k].name]) = {own[k]}
      BY DEF LinkedIn
    <3> QED
      BY <3>1, FollowFacts
  <2>1. Follow(Base + program[own[3].name], slot) = {Resolve(r) : r \in {r \in own[3].rels : r.slot = slot}}
    BY <2>0, <1>2
  <2>2. Follow(Base + program[own[n + 5].name], slot) = {Resolve(r) : r \in {r \in own[n + 5].rels : r.slot = slot}}
    BY <2>0, <1>2
  <2> QED
    BY <2>1, <2>2, <1>6, <1>7
<1>12. \A k \in DOMAIN own : SymbolAt(Base + program[own[k].name]) = {own[k]} /\ own[k].name.ty = m
  <2>1. \A k \in DOMAIN own : SymbolAt(Base + program[own[k].name]) = {own[k]}
    BY DEF LinkedIn
  <2>2. \A k \in DOMAIN own : own[k].name.ty = m
    BY <1>1, SymbolNames
  <2> QED
    BY <2>1, <2>2
<1>13. ASSUME NEW slot \in {"Tags", "MapEntry", "NextOk"},
              NEW x \in Follow(Base + program[Name("parser", m, 0)], slot)
       PROVE  \E s \in SymbolAt(x) : s.name.ty = m
  <2>1. PICK r \in {re} \cup {rt, rg, rf} : r.slot = slot /\ x = Resolve(r)
    BY <1>11
  <2>2. r # rt
    BY <2>1, <1>9
  <2>3. x \in {Base + program[own[k].name] : k \in DOMAIN own}
    BY <2>1, <2>2, <1>2, <1>8, <1>10
  <2>4. PICK k \in DOMAIN own : x = Base + program[own[k].name]
    BY <2>3
  <2> QED
    BY <2>4, <1>12
<1>14. /\ {r \in {re} \cup {rt, rg, rf} : r.slot = "TypeOffset"} = {rt}
       /\ {r \in {rt, rg2, rf2} : r.slot = "TypeOffset"} = {rt}
  BY <1>9
<1>15. /\ Follow(Base + program[Name("parser", m, 0)], "TypeOffset") = {Resolve(rt)}
       /\ Follow(Base + program[entry], "TypeOffset") = {Resolve(rt)}
  <2>1. {Resolve(r) : r \in {rt}} = {Resolve(rt)}
    OBVIOUS
  <2> QED
    BY <2>1, <1>11, <1>14
<1> QED
  BY <1>3, <1>10, <1>13, <1>15

\* What the lookup of a tag relies on.
Dispatchable(own, m, fds, p, n) ==
  /\ LinkedIn(own, m, fds, p, n)
  /\ p # <<>> /\ Len(p) \in Nat /\ DOMAIN p = 1 .. Len(p)
  /\ \A i \in DOMAIN p : Tag(fds, p[i]) \in Nat
  /\ \A i, j \in DOMAIN p : i # j => Tag(fds, p[i]) # Tag(fds, p[j])


LEMMA TagAtFacts ==
  ASSUME NEW own, NEW m, NEW fds, NEW p, NEW n, Dispatchable(own, m, fds, p, n), NEW i \in DOMAIN p
  PROVE  TagAt(fds, p, FieldAddr(m, i)) = {Tag(fds, p[i])}
<1>1. Placed(own, m, fds, p, n) /\ n = Len(p) /\ i \in 1 .. n
  <2>1. LinkedIn(own, m, fds, p, n) /\ p # <<>> /\ Len(p) \in Nat /\ DOMAIN p = 1 .. Len(p)
    BY DEF Dispatchable
  <2>2. Placed(own, m, fds, p, n)
    BY <2>1 DEF LinkedIn
  <2> QED
    BY <2>1, <2>2, PlacedCount
<1>2. 3 + i \in DOMAIN own /\ own[3 + i].name = Name("field", m, i)
  BY <1>1, FieldNames DEF Dispatchable
<1>3. SymbolAt(FieldAddr(m, i)) = {own[3 + i]}
  BY <1>2 DEF Dispatchable, LinkedIn, FieldAddr
<1>4. own[3 + i].name.at = i
  BY <1>2 DEF Name
<1>5. {i} \cap DOMAIN p = {i}
  OBVIOUS
<1>6. TagAt(fds, p, FieldAddr(m, i)) = UNION {{Tag(fds, p[j]) : j \in {s.name.at} \cap DOMAIN p} : s \in {own[3 + i]}}
  BY <1>3 DEF TagAt
<1>7. UNION {{Tag(fds, p[j]) : j \in {s.name.at} \cap DOMAIN p} : s \in {own[3 + i]}} = {Tag(fds, p[j]) : j \in {i}}
  BY <1>4, <1>5
<1>8. {Tag(fds, p[j]) : j \in {i}} = {Tag(fds, p[i])}
  OBVIOUS
<1> QED
  BY <1>6, <1>7, <1>8

\* From a parser of the message the relocations lead to one.
LEMMA FollowStays ==
  ASSUME NEW own, NEW m, NEW fds, NEW p, NEW n, Dispatchable(own, m, fds, p, n), NEW i \in DOMAIN p
  PROVE  \A slot \in {"NextOk", "NextErr"} :
           \E j \in DOMAIN p : Follow(FieldAddr(m, i), slot) = {FieldAddr(m, j)}
<1>1. LinkedIn(own, m, fds, p, n) /\ p # <<>> /\ DOMAIN p = 1 .. Len(p) /\ Len(p) \in Nat
  BY DEF Dispatchable
<1>2. n \in Nat /\ n = Len(p) /\ i \in 1 .. n /\ DOMAIN p = 1 .. n
  BY <1>1, PlacedCount DEF LinkedIn
<1>n. PICK next : next = IF i = n THEN 1 ELSE i + 1
  OBVIOUS
<1>f. /\ Follow(Base + program[Name("field", m, i)], "NextOk")
            = {Base + program[Name("field", m, NextOk(fds, p, i))]}
      /\ Follow(Base + program[Name("field", m, i)], "NextErr")
            = {Base + program[Name("field", m, next)]}
  <2>1. /\ LinkedIn(own, m, fds, p, n) /\ p # <<>> /\ DOMAIN p = 1 .. Len(p) /\ i \in 1 .. n
    BY <1>1, <1>2
  <2>2. \A nx : nx = (IF i = n THEN 1 ELSE i + 1) => Follow(Base + program[Name("field", m, i)], "NextErr") = {Base + program[Name("field", m, nx)]}
    BY <2>1, FieldFollow
  <2>3. Follow(Base + program[Name("field", m, i)], "NextOk")
            = {Base + program[Name("field", m, NextOk(fds, p, i))]}
    BY <2>1, FieldFollow
  <2> QED BY <2>2, <2>3, <1>n
<1>3. /\ Follow(FieldAddr(m, i), "NextOk") = {FieldAddr(m, NextOk(fds, p, i))}
      /\ Follow(FieldAddr(m, i), "NextErr") = {FieldAddr(m, next)}
  BY <1>f DEF FieldAddr
<1>4. NextOk(fds, p, i) \in DOMAIN p
  BY <1>1, NextOkFacts
<1>5. next \in DOMAIN p
  BY <1>2, <1>n
<1> QED
  BY <1>3, <1>4, <1>5

\* The entry of TagLUT for a tag, if there is one, is the index of the parser with the tag.
LEMMA LutFacts ==
  ASSUME NEW own, NEW m, NEW fds, NEW p, NEW n, Dispatchable(own, m, fds, p, n),
         NEW tag \in Nat, tag < LutTags, Lut(fds, p)[tag] # LutAbsent
  PROVE  \E j \in DOMAIN p : Tag(fds, p[j]) = tag /\ Lut(fds, p)[tag] = j - 1
<1> DEFINE is == {i \in DOMAIN p : Tag(fds, p[i]) = tag}
<1>1. tag \in 0 .. LutTags - 1
  BY TableAssumption
<1>2. Lut(fds, p)[tag] = IF is = {} THEN LutAbsent ELSE LutEntry(Max(is))
  BY <1>1 DEF Lut
<1>3. PICK j \in DOMAIN p : j \in is
  BY <1>2
<1>4. is = {j}
  BY <1>3 DEF Dispatchable
<1>5. j \in Nat
  BY DEF Dispatchable
<1>6. Max({j}) = j
  BY <1>5 DEF Max
<1>7. Lut(fds, p)[tag] = j - 1
  <2>1. is # {}
    BY <1>3
  <2>2. Lut(fds, p)[tag] = LutEntry(j)
    BY <2>1, <1>2, <1>4, <1>6
  <2> QED
    BY <2>2 DEF LutEntry
<1> QED
  BY <1>3, <1>7

\* From any parser of a message the loop finds the parser with the tag, if there is
\* one, and none otherwise.
LEMMA FoundFacts ==
  ASSUME NEW own, NEW m, NEW fds, NEW p, NEW n, Dispatchable(own, m, fds, p, n),
         fds = Fields(m), p = irs[m].p, NEW i0 \in DOMAIN p, NEW tag \in Nat
  PROVE  Found(m, FieldAddr(m, i0), tag) = AddrsOf(m, fds, p, tag)
<1> DEFINE A == {FieldAddr(m, i) : i \in DOMAIN p}
           at == FieldAddr(m, i0)
           parser == Base + program[Name("parser", m, 0)]
           tagAt(addr) == TagAt(fds, p, addr)
           Value(w, k) == IF k = 0 THEN at
                          ELSE IF tagAt(w[k - 1]) = {tag} THEN w[k - 1]
                          ELSE CHOOSE a \in Follow(w[k - 1], "NextErr") : TRUE
           tries(w) == {k \in 0 .. MaxMisses - 1 : tagAt(w[k]) = {tag}}
           step == [x \in (1 .. MaxMisses) \X A |->
                      IF tagAt(x[2]) = {tag} THEN x[2] ELSE CHOOSE a \in Follow(x[2], "NextErr") : TRUE]
           Right == {FieldAddr(m, i) : i \in {i \in DOMAIN p : Tag(fds, p[i]) = tag}}
<1> SUFFICES Found(m, FieldAddr(m, i0), tag) = Right
  BY DEF AddrsOf
<1>1. MaxMisses \in Nat /\ at \in A
  BY TableAssumption
<1>2. /\ n = Len(p) /\ DOMAIN p = 1 .. n /\ n \in Nat /\ Placed(own, m, fds, p, n)
      /\ LinkedIn(own, m, fds, p, n) /\ p # <<>>
  <2>1. LinkedIn(own, m, fds, p, n) /\ p # <<>> /\ Len(p) \in Nat /\ DOMAIN p = 1 .. Len(p)
    BY DEF Dispatchable
  <2>2. Placed(own, m, fds, p, n)
    BY <2>1 DEF LinkedIn
  <2> QED
    BY <2>1, <2>2, PlacedCount
<1>3. \A i \in DOMAIN p : FieldAddr(m, i) = FieldAt(parser, i - 1)
  BY <1>2 DEF LinkedIn, FieldAddr
<1>4. \A i \in DOMAIN p : tagAt(FieldAddr(m, i)) = {Tag(fds, p[i])}
  BY TagAtFacts
<1>5. ASSUME NEW a \in A
      PROVE  (CHOOSE x \in Follow(a, "NextErr") : TRUE) \in A
  <2>1. PICK i \in DOMAIN p : a = FieldAddr(m, i)
    OBVIOUS
  <2>2. PICK j \in DOMAIN p : Follow(FieldAddr(m, i), "NextErr") = {FieldAddr(m, j)}
    BY FollowStays
  <2>5. (CHOOSE x \in {FieldAddr(m, j)} : TRUE) = FieldAddr(m, j)
    OBVIOUS
  <2> QED
    BY <2>1, <2>2, <2>5
<1>6. step \in [(1 .. MaxMisses) \X A -> A]
  <2> HIDE DEF A, tagAt
  <2>1. ASSUME NEW x \in (1 .. MaxMisses) \X A
        PROVE  (IF tagAt(x[2]) = {tag} THEN x[2] ELSE CHOOSE a \in Follow(x[2], "NextErr") : TRUE) \in A
    <3>1. x[2] \in A
      OBVIOUS
    <3> QED
      BY <3>1, <1>5
  <2> QED
    BY <2>1
<1>7. PICK f \in [0 .. MaxMisses -> A] :
        f[0] = at /\ \A i \in 1 .. MaxMisses : f[i] = step[<<i, f[i - 1]>>]
  <2> HIDE DEF step, A, at
  <2>1. IsStep(A, at, MaxMisses, step)
    BY <1>1, <1>6 DEF IsStep
  <2>2. HasFunction(A, at, MaxMisses, step)
    BY <2>1, RecursiveFunction
  <2> QED
    BY <2>2 DEF HasFunction
<1> HIDE DEF A, at, tagAt
<1>8. \A i \in 0 .. MaxMisses : f[i] = Value(f, i)
  <2>1. ASSUME NEW i \in 1 .. MaxMisses
        PROVE  f[i] = Value(f, i)
    <3>1. i - 1 \in 0 .. MaxMisses /\ f[i - 1] \in A /\ i # 0
      BY <1>1, <1>7
    <3>2. <<i, f[i - 1]>> \in (1 .. MaxMisses) \X A
      BY <3>1
    <3> QED
      BY <3>1, <3>2, <1>7
  <2>2. f[0] = Value(f, 0)
    BY <1>7
  <2>3. \A i \in 0 .. MaxMisses : i = 0 \/ i \in 1 .. MaxMisses
    BY <1>1
  <2> HIDE DEF Value
  <2> QED
    BY <2>1, <2>2, <2>3
<1>9. \E w : w = [k \in 0 .. MaxMisses |-> Value(w, k)]
  <2>1. f = [k \in 0 .. MaxMisses |-> Value(f, k)]
    BY <1>7, <1>8
  <2> QED
    BY <2>1
<1>10. PICK w : w = [k \in 0 .. MaxMisses |-> Value(w, k)] /\ Walk(fds, p, at, tag) = w
  BY <1>9 DEF Walk, tagAt
<1>f. Found(m, at, tag) =
        IF tag < LutTags /\ Lut(fds, p)[tag] # LutAbsent
        THEN {FieldAt(parser, Lut(fds, p)[tag])}
        ELSE IF tries(w) # {} THEN {w[Min(tries(w))]}
        ELSE {FieldAt(parser, i - 1) : i \in {i \in DOMAIN p : Tag(fds, p[i]) = tag}}
  BY <1>10 DEF Found, tagAt
<1> HIDE DEF step
<1>11. \A k \in 0 .. MaxMisses : w[k] = Value(w, k)
  BY <1>10
<1> DEFINE S == {k \in Nat : k <= MaxMisses => w[k] \in A}
<1>12. 0 \in S
  <2>1. 0 \in 0 .. MaxMisses
    BY <1>1
  <2>2. w[0] = at
    BY <2>1, <1>11
  <2> QED
    BY <2>2, <1>1
<1>13. ASSUME NEW k \in Nat, k \in S
       PROVE  k + 1 \in S
  <2> SUFFICES ASSUME k + 1 <= MaxMisses
               PROVE  w[k + 1] \in A
    OBVIOUS
  <2>1. k + 1 \in 0 .. MaxMisses /\ k + 1 # 0 /\ (k + 1) - 1 = k /\ w[k] \in A
    BY <1>1, <1>13
  <2>2. w[k + 1] = IF tagAt(w[k]) = {tag} THEN w[k] ELSE CHOOSE a \in Follow(w[k], "NextErr") : TRUE
    BY <2>1, <1>11
  <2> QED
    BY <2>1, <2>2, <1>5
<1> HIDE DEF S
<1>14. \A k \in 0 .. MaxMisses : w[k] \in A
  <2>1. \A k \in Nat : k \in S => k + 1 \in S
    BY <1>13
  <2>2. \A k \in Nat : k \in S
    BY <2>1, <1>12, SetInduction
  <2> QED
    BY <2>2, <1>1 DEF S
<1>15. ASSUME NEW j \in DOMAIN p, Tag(fds, p[j]) = tag
       PROVE  Right = {FieldAddr(m, j)}
  <2>1. {i \in DOMAIN p : Tag(fds, p[i]) = tag} = {j}
    BY <1>15 DEF Dispatchable
  <2> QED
    BY <2>1
<1>16. CASE tag < LutTags /\ Lut(fds, p)[tag] # LutAbsent
  <2>1. PICK j \in DOMAIN p : Tag(fds, p[j]) = tag /\ Lut(fds, p)[tag] = j - 1
    BY <1>16, LutFacts
  <2>2. Found(m, at, tag) = {FieldAt(parser, j - 1)}
    BY <2>1, <1>f, <1>16
  <2> QED
    BY <2>1, <2>2, <1>3, <1>15 DEF at
<1>17. CASE ~(tag < LutTags /\ Lut(fds, p)[tag] # LutAbsent) /\ tries(w) # {}
  <2>1. Found(m, at, tag) = {w[Min(tries(w))]}
    BY <1>f, <1>17
  <2>2. PICK T : T = tries(w)
    OBVIOUS
  <2>3. T \subseteq Nat /\ T # {}
    BY <2>2, <1>1, <1>17
  <2>4. \E x \in T : \A y \in T : x <= y
    BY <2>3, LeastOfNats
  <2>5. Min(T) \in T
    BY <2>4 DEF Min
  <2>6. PICK k \in 0 .. MaxMisses : k = Min(T) /\ tagAt(w[k]) = {tag}
    <3>1. Min(T) \in 0 .. MaxMisses - 1 /\ tagAt(w[Min(T)]) = {tag}
      BY <2>2, <2>5
    <3>2. Min(T) \in 0 .. MaxMisses
      BY <3>1, <1>1
    <3> QED
      BY <3>1, <3>2
  <2>7. PICK j \in DOMAIN p : w[k] = FieldAddr(m, j)
    BY <1>14 DEF A
  <2>8. Tag(fds, p[j]) = tag
    BY <2>6, <2>7, <1>4
  <2> QED
    BY <2>1, <2>2, <2>6, <2>7, <2>8, <1>15 DEF at
<1>18. CASE ~(tag < LutTags /\ Lut(fds, p)[tag] # LutAbsent) /\ tries(w) = {}
  <2>1. Found(m, at, tag) = {FieldAt(parser, i - 1) : i \in {i \in DOMAIN p : Tag(fds, p[i]) = tag}}
    BY <1>f, <1>18
  <2> QED
    BY <2>1, <1>3 DEF at
<1> QED
  BY <1>16, <1>17, <1>18

\* In the linked program the loop finds, from any field parser of a message and for
\* every tag, the field parser that was generated for it and no other, and NextOk,
\* NextErr, Tags, MapEntry and TypeOffset lead to what is the message's own (compile.go
\* codegen, writeLUT; linker.go Link; run.go loop).
THEOREM ProgramAlwaysDispatches == Spec => []ProgramDispatches
<1>1. CompilerInv => ProgramDispatches
  <2> SUFFICES ASSUME CompilerInv, program # <<>>, NEW m \in DOMAIN keys, NEW fds, NEW p,
                      fds = Fields(m), p = irs[m].p
               PROVE  /\ p # <<>> =>
                           \A a \in FieldAddrs(m, p) :
                             /\ \A slot \in {"NextOk", "NextErr"} :
                                  Follow(a, slot) # {} /\ Follow(a, slot) \subseteq FieldAddrs(m, p)
                             /\ \A t \in TagsOf(fds) : Found(m, a, t) = AddrsOf(m, fds, p, t)
                      /\ \A slot \in {"Tags", "MapEntry", "NextOk"} :
                           \A x \in Follow(Base + program[Name("parser", m, 0)], slot) :
                             \E s \in SymbolAt(x) : s.name.ty = m
                      /\ \A sym \in {"parser", "entry"} :
                           Follow(Base + program[Name(sym, m, 0)], "TypeOffset") = {program[Name("type", m, 0)]}
    BY DEF ProgramDispatches
  <2>1. m \in DOMAIN irs
    <3>1. Sorted /\ Len(info) = Len(components)
      BY DEF CompilerInv
    <3>2. keys[m] \in DOMAIN components /\ DOMAIN components = 1 .. Len(components) /\ Len(components) \in Nat
      BY DEF CompilerInv, SccInv, ComponentsClosed, SccTypes
    <3> QED
      BY <3>1, <3>2 DEF CompilerInv
  <2>2. m \in DOMAIN input.fields /\ irs[m] = IR(m) /\ IsInput(input)
    BY <2>1, CompiledMessages DEF CompilerInv
  <2>3. p = Parsers(fds) /\ Scheduled(fds)
    BY <2>2, FieldsScheduled DEF IR
  <2>4. /\ p \in Seq(ParserSet(fds))
        /\ \A x, y \in DOMAIN p : x # y => Tag(fds, p[x]) # Tag(fds, p[y])
    BY <2>3, ParsersFacts
  <2>5. Len(p) \in Nat /\ DOMAIN p = 1 .. Len(p) /\ Len(fds) \in Nat
    BY <2>4, <2>3 DEF Scheduled
  <2>6. PICK n : Placed(SymbolsOf(m), m, fds, p, n)
    BY <2>3, <2>4, SymbolsPlaced
  <2>7. Generated(symbols, DOMAIN irs) /\ program = LinkedAt(symbols)
    BY DEF CompilerInv
  <2>8. Sized(symbols)
    BY <2>7 DEF Generated, Sized
  <2>9. PICK b \in 0 .. Len(symbols) - Len(SymbolsOf(m)) :
          \A k \in DOMAIN SymbolsOf(m) : symbols[b + k] = SymbolsOf(m)[k]
    BY <2>7, <2>1 DEF Generated
  <2>o. PICK own : own = SymbolsOf(m)
    OBVIOUS
  <2>10. LinkedIn(own, m, fds, p, n)
    BY <2>5, <2>6, <2>7, <2>8, <2>9, <2>o, LinkedFacts
  <2>11. \A i \in DOMAIN p : Tag(fds, p[i]) \in Nat
    <3>1. \A i \in DOMAIN p : p[i] \in ParserSet(fds)
      BY <2>4, <2>5, ElementOfSeq
    <3>2. \A q \in ParserSet(fds) : q.t \in DOMAIN fds /\ q.kind \in Nat
      BY DEF ParserSet
    <3>3. \A t \in DOMAIN fds : fds[t].num \in Nat
      BY <2>3 DEF Scheduled
    <3> QED
      BY <3>1, <3>2, <3>3 DEF Tag
  <2>12. ASSUME p # <<>>
         PROVE  Dispatchable(own, m, fds, p, n)
    BY <2>12, <2>4, <2>5, <2>10, <2>11 DEF Dispatchable
  <2>13. TagsOf(fds) \subseteq Nat
    <3>1. \A f \in ToSet(fds) : f.num \in Nat
      BY <2>3 DEF Scheduled, ToSet
    <3> QED
      BY <3>1 DEF TagsOf
  <2>14. ASSUME p # <<>>, NEW a \in FieldAddrs(m, p)
         PROVE  /\ \A slot \in {"NextOk", "NextErr"} :
                     Follow(a, slot) # {} /\ Follow(a, slot) \subseteq FieldAddrs(m, p)
                /\ \A t \in TagsOf(fds) : Found(m, a, t) = AddrsOf(m, fds, p, t)
    <3>1. Dispatchable(own, m, fds, p, n)
      BY <2>12, <2>14
    <3>2. PICK i \in DOMAIN p : a = FieldAddr(m, i)
      BY DEF FieldAddrs
    <3>3. \A slot \in {"NextOk", "NextErr"} :
            \E j \in DOMAIN p : Follow(FieldAddr(m, i), slot) = {FieldAddr(m, j)}
      BY <3>1, FollowStays
    <3>4. \A t \in Nat : Found(m, FieldAddr(m, i), t) = AddrsOf(m, fds, p, t)
      BY <3>1, FoundFacts
    <3>5. \A slot \in {"NextOk", "NextErr"} :
            Follow(a, slot) # {} /\ Follow(a, slot) \subseteq FieldAddrs(m, p)
      BY <3>2, <3>3 DEF FieldAddrs
    <3> QED
      BY <3>2, <3>4, <3>5, <2>13
  <2>15. /\ \A slot \in {"Tags", "MapEntry", "NextOk"} :
              \A x \in Follow(Base + program[Name("parser", m, 0)], slot) : \E s \in SymbolAt(x) : s.name.ty = m
         /\ \A sym \in {"parser", "entry"} :
              Follow(Base + program[Name(sym, m, 0)], "TypeOffset") = {program[Name("type", m, 0)]}
    BY <2>10, <2>5, ParserFollow
  <2> QED
    BY <2>14, <2>15
<1> QED
  BY <1>1, CompilerInvariant, PTL
=============================================================================
