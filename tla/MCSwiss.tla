------------------------------ MODULE MCSwiss -------------------------------
(* Instances of Swiss for TLC. *)
EXTENDS Swiss, TLC

\* Keys 0 .. N-1, and for each a second raw key with the same content (another
\* range of the input that holds the same bytes).
N == 16
MCContent == [k \in 0 .. 2 * N - 1 |-> k % N]

\* Hashes: all keys alike; all start at the last slot of every table, tags in
\* pairs that differ in the lowest bit; two crowds, tags as they come.
MCHash ==
  [same    |-> [c \in 0 .. N - 1 |-> 128 * 5 + 127],
   wrap    |-> [c \in 0 .. N - 1 |-> 128 * 63 + 126 + (c % 2)],
   crowds  |-> [c \in 0 .. N - 1 |-> 128 * (c % 2) * 13 + (c % 3)]]

\* Distinct keys, except that the positions of `again` repeat an earlier one
\* under its second raw key.
Entries(n, again) ==
  [p \in 1 .. n |-> [key   |-> IF p \in DOMAIN again THEN N + again[p] - 1 ELSE p - 1,
                     value |-> p]]
Repeats(n) ==
  UNION {{g \in [d -> 1 .. n] : \A p \in d : g[p] < p /\ g[p] \notin d} :
          d \in {d \in SUBSET (2 .. n) : Cardinality(d) <= 2}}

MCInputs ==
  {[op |-> "map", preload |-> 0, entries |-> Entries(9, g)] : g \in Repeats(9)}
    \cup {[op |-> "map", preload |-> q, entries |-> Entries(16, g)] :
            q \in {7, 14}, g \in {<<>>, 15 :> 3, 8 :> 1}}
    \cup {[op |-> "new", preload |-> 0, entries |-> Entries(n, g)] :
            n \in {0, 1, 7, 8, 14, 15, 16}, g \in {<<>>, 7 :> 2}}
=============================================================================
