---------------------------- MODULE MCRadixTree ----------------------------
(***************************************************************************)
(* Small instances of RadixTree.  The pages are chosen for the paths they  *)
(* share: 1 and 2 part at the last digit, 1 and 16 at the third, 4096 and  *)
(* 4353 at the second, 65535 has a path of its own.                        *)
(***************************************************************************)
EXTENDS RadixTree

MCPages     == {1, 2, 16, 4096, 4353, 65535}
MCFreelists == {<<>>, <<16, 2, 16>>, <<0, 4353, 1>>}
MCLimits    == {0, 2, 32}
=============================================================================
