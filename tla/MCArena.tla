------------------------------ MODULE MCArena ------------------------------
(***************************************************************************)
(* Arena at a scale TLC exhausts: alignment 2, blocks of 4, 8 and 16       *)
(* cells, two slices whose three-cell elements do not divide a block.      *)
(***************************************************************************)
EXTENDS Arena, TLC

\* The slices are interchangeable: no property tells them apart.
SlotSymmetry == Permutations(Slots)
=============================================================================
