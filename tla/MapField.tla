------------------------------ MODULE MapField ------------------------------
(***************************************************************************)
(* What a map field promises: reading a message's entries one after the    *)
(* other, the last entry of a key decides its value.  Swiss implements it. *)
(***************************************************************************)
EXTENDS Naturals, Sequences

CONSTANTS
  Content  \* Content[k]: what the raw key k stands for

VARIABLES
  entries, \* the entries of the input, in order: [key, value]
  next,    \* how many of them were read
  map      \* the map so far: for each content the set of its value, or none

Init == next = 0 /\ map = [c \in {Content[k] : k \in DOMAIN Content} |-> {}]

ReadEntry ==
  /\ next < Len(entries)
  /\ next' = next + 1
  /\ LET e == entries[next + 1]
     IN  map' = [map EXCEPT ![Content[e.key]] = {e.value}]
  /\ UNCHANGED entries

Spec == Init /\ [][ReadEntry]_<<entries, next, map>>
=============================================================================
