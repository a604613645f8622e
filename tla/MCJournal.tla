----------------------------- MODULE MCJournal -----------------------------
(***************************************************************************)
(* Small instances of Journal: of three transaction ids the last is the    *)
(* highest there is, three entries let two transactions share the journal. *)
(***************************************************************************)
EXTENDS Journal

MCTxnIds    == {1, 2, 3}
MCPageNos   == {5, 9}
MCAlignedAt == {2}
=============================================================================
