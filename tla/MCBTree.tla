------------------------------ MODULE MCBTree ------------------------------
(***************************************************************************)
(* Instances of BTree with small pages: a leaf splits at its third or      *)
(* fourth row, after its header.                                           *)
(***************************************************************************)
EXTENDS BTree, TLC

MCKeys == {1, 2}
MCAnyKey == {0, 1, 2}
\* Two whole keys, and one of so few bytes that both begin with it.
MCAsked == {[first |-> 1, last |-> 1], [first |-> 2, last |-> 2], [first |-> 1, last |-> 2]}
\* Pages are chosen and compared for equality, never ordered.
MCSymmetry == Permutations(Pages)
=============================================================================
