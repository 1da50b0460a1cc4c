--------------------------------- MODULE Scc ---------------------------------
(***************************************************************************)
(* Package scc: Tarjan's algorithm over the messages that a root message   *)
(* contains.  The recursion of rec is a stack of calls, so that its steps  *)
(* are the steps of the specification.                                     *)
(***************************************************************************)
EXTENDS Integers, FiniteSetsExt, SequencesExt, TLC

VARIABLES
  graph,      \* [root, deps]: deps[n] are the nodes that n yields, in order
  calls,      \* the calls of rec: [node, offset, next]
  index,      \* tarjan.index
  stack,      \* tarjan.stack
  meta,       \* tarjan.metadata: [index, low, onStack] of the nodes seen so far
  keys,       \* DAG.keys: the component of a node
  components  \* DAG.components: [members, deps], topologically sorted

sccVars == <<graph, calls, index, stack, meta, keys, components>>

\* The first lines of rec, for a node that is called.
Enter(n) ==
  /\ meta' = [m \in DOMAIN meta \cup {n} |->
                IF m \in DOMAIN meta THEN meta[m]
                ELSE [index |-> index, low |-> index, onStack |-> TRUE]]
  /\ index' = index + 1
  /\ stack' = Append(stack, n)
  /\ calls' = Append(calls, [node |-> n, offset |-> Len(stack), next |-> 1])

SccInit ==
  /\ calls = <<>> /\ index = 0 /\ stack = <<>> /\ components = <<>>
  /\ meta = <<>> /\ keys = <<>>

\* Sort
Sort ==
  /\ index = 0
  /\ Enter(graph.root)
  /\ UNCHANGED <<graph, keys, components>>

Call == calls[Len(calls)]
Dep == graph.deps[Call.node][Call.next]
Looping == calls # <<>> /\ Call.next <= Len(graph.deps[Call.node])

\* A dependency without metadata: rec calls itself.
Descend ==
  /\ Looping /\ Dep \notin DOMAIN meta
  /\ Enter(Dep)
  /\ UNCHANGED <<graph, keys, components>>

\* Mutant of LowAfter: what was known of low is forgotten.
LowAfterLast(low, m) == IF m.onStack THEN m.index ELSE low

\* Mutant of LowAfter: nodes of finished components count too.
LowAfterAlways(low, m) == Min({low, m.index})

\* What a dependency that was seen before makes of low.
LowAfter(low, m) == IF m.onStack THEN Min({low, m.index}) ELSE low

SeeDep ==
  /\ Looping /\ Dep \in DOMAIN meta
  /\ meta' = [meta EXCEPT ![Call.node].low = LowAfter(@, meta[Dep])]
  /\ calls' = [calls EXCEPT ![Len(calls)].next = @ + 1]
  /\ UNCHANGED <<graph, index, stack, keys, components>>

\* The dependencies of one member: components that are already there.
DepsOf(n, k) ==
  {k[d] : d \in {d \in ToSet(graph.deps[n]) : d \in DOMAIN k /\ k[d] <= Len(components)}}

\* deps is made anew, and the set cleared, for every member: the last one's remain.
ComponentDeps(members, k) == DepsOf(Last(members), k)

\* rec returns; the node that is the first of its component on the stack cuts the
\* component off.  The caller takes the low of its callee over.
Return ==
  /\ calls # <<>> /\ ~Looping
  /\ LET m == meta[Call.node]
         root == m.index = m.low
         members == IF root THEN SubSeq(stack, Call.offset + 1, Len(stack)) ELSE <<>>
         closed == [n \in DOMAIN meta |->
                      IF n \in ToSet(members) THEN [meta[n] EXCEPT !.onStack = FALSE] ELSE meta[n]]
         rest == Front(calls)
     IN  /\ stack' = IF root THEN SubSeq(stack, 1, Call.offset) ELSE stack
         /\ keys' = [n \in DOMAIN keys \cup ToSet(members) |->
                       IF n \in DOMAIN keys THEN keys[n] ELSE Len(components) + 1]
         /\ components' = IF ~root THEN components
                          ELSE Append(components, [members |-> members,
                                                   deps |-> ComponentDeps(members, keys')])
         /\ IF rest = <<>> THEN meta' = closed /\ calls' = rest
            ELSE /\ meta' = [closed EXCEPT ![Last(rest).node].low = Min({@, m.low})]
                 /\ calls' = [rest EXCEPT ![Len(rest)].next = @ + 1]
  /\ UNCHANGED <<graph, index>>

SccNext == Sort \/ Descend \/ SeeDep \/ Return
Sorted == index > 0 /\ calls = <<>>

----------------------------------------------------------------------------
Nodes == DOMAIN graph.deps
IsGraph == graph.root \in Nodes /\ graph.deps \in [Nodes -> Seq(Nodes)]

SccSpec == IsGraph /\ SccInit /\ [][SccNext]_sccVars

Deps(g, n) == ToSet(g.deps[n])
Closed(g, S) == \A n \in S : Deps(g, n) \subseteq S

\* The nodes of g that can be reached from n, n included: they are in every set that
\* has n and is closed.
Reach(g, n) ==
  {m \in DOMAIN g.deps : \A S \in SUBSET DOMAIN g.deps : n \in S /\ Closed(g, S) => m \in S}
ReachFrom(n) == Reach(graph, n)

\* Sort finds every message once, puts two into one component exactly when each
\* contains the other, and puts every component behind the ones it contains, so
\* that newSCCInfo finds the information of its dependencies (scc.go rec,
\* compile.go "for cycle := range c.dag.Topological()").
ComponentsSorted ==
  Sorted =>
    /\ DOMAIN keys = ReachFrom(graph.root)
    /\ \A c \in DOMAIN components :
         /\ ToSet(components[c].members) = {n \in DOMAIN keys : keys[n] = c}
         /\ Cardinality(ToSet(components[c].members)) = Len(components[c].members)
    /\ \A m, n \in DOMAIN keys :
         /\ keys[m] = keys[n] <=> m \in ReachFrom(n) /\ n \in ReachFrom(m)
         /\ n \in ReachFrom(m) => keys[n] <= keys[m]

----------------------------------------------------------------------------
(* The inductive invariant *)

SccTypes ==
  /\ index \in Nat
  /\ stack \in Seq(Nodes)
  /\ calls \in Seq([node : Nodes, offset : Nat, next : Nat])
  /\ DOMAIN meta \subseteq Nodes
  /\ meta \in [DOMAIN meta -> [index : Nat, low : Nat, onStack : BOOLEAN]]
  /\ keys \in [DOMAIN keys -> Nat]
  /\ components \in Seq([members : Seq(Nodes), deps : SUBSET Nat])

\* The nodes seen so far are on the stack, by index, or in a component.
StackByIndex ==
  /\ DOMAIN meta = ToSet(stack) \cup DOMAIN keys
  /\ ToSet(stack) \cap DOMAIN keys = {}
  /\ \A n \in DOMAIN meta : /\ meta[n].index < index
                            /\ meta[n].onStack <=> n \in ToSet(stack)
  /\ \A p, q \in DOMAIN stack : p < q => meta[stack[p]].index < meta[stack[q]].index
  /\ index > 0 => graph.root \in DOMAIN meta

\* The part of the stack that call i put there, and not a call that it waits for.
SegmentEnd(i) == IF i = Len(calls) THEN Len(stack) ELSE calls[i + 1].offset
Segment(i) == calls[i].offset + 1 .. SegmentEnd(i)

\* Every call waits for the one above it, and its node begins its segment.
CallsOnStack ==
  /\ calls = <<>> => stack = <<>>
  /\ calls # <<>> => calls[1].offset = 0
  /\ \A i, j \in DOMAIN calls : i < j => calls[i].offset < calls[j].offset
  /\ \A i \in DOMAIN calls :
       /\ calls[i].offset < Len(stack)
       /\ stack[calls[i].offset + 1] = calls[i].node
       /\ calls[i].next \in 1 .. Len(graph.deps[calls[i].node]) + 1
       /\ i < Len(calls) => /\ calls[i].next <= Len(graph.deps[calls[i].node])
                            /\ graph.deps[calls[i].node][calls[i].next] = calls[i + 1].node

\* The node of a call reaches what is above it, and what is below the end of its
\* segment reaches the node.
StackConnected ==
  \A i \in DOMAIN calls, p \in DOMAIN stack :
    /\ p > calls[i].offset => stack[p] \in Reach(graph, calls[i].node)
    /\ p <= SegmentEnd(i) => calls[i].node \in Reach(graph, stack[p])

\* low is the index of a node on the stack that the node of the call reaches.
LowReached ==
  \A i \in DOMAIN calls :
    LET m == meta[calls[i].node]
    IN  /\ m.low <= m.index
        /\ \E p \in DOMAIN stack : /\ meta[stack[p]].index = m.low
                                   /\ stack[p] \in Reach(graph, calls[i].node)

\* Every dependency that a segment is done with was seen, and is not below low.
LowCovers ==
  \A i \in DOMAIN calls : \A p \in Segment(i) : \A j \in DOMAIN graph.deps[stack[p]] :
    (p = calls[i].offset + 1 => j < calls[i].next) =>
      LET d == graph.deps[stack[p]][j]
      IN  /\ d \in DOMAIN meta
          /\ meta[d].onStack => meta[calls[i].node].low <= meta[d].index

\* Components are closed, connected and numbered by keys.
ComponentsClosed ==
  /\ \A n \in DOMAIN keys :
       /\ keys[n] \in DOMAIN components
       /\ \A d \in Deps(graph, n) : d \in DOMAIN keys /\ keys[d] <= keys[n]
  /\ \A m, n \in DOMAIN keys : keys[m] = keys[n] => m \in Reach(graph, n)
  /\ \A n \in DOMAIN meta : n \in Reach(graph, graph.root)
  /\ \A c \in DOMAIN components :
       /\ components[c].members # <<>>
       /\ ToSet(components[c].members) = {n \in DOMAIN keys : keys[n] = c}
       /\ \A p, q \in DOMAIN components[c].members :
            p # q => components[c].members[p] # components[c].members[q]
       /\ components[c].deps = {keys[d] : d \in {d \in Deps(graph, Last(components[c].members)) : keys[d] < c}}

SccInv ==
  /\ IsGraph /\ SccTypes /\ StackByIndex /\ CallsOnStack /\ StackConnected
  /\ LowReached /\ LowCovers /\ ComponentsClosed
=============================================================================
