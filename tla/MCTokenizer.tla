---------------------------- MODULE MCTokenizer ----------------------------
(***************************************************************************)
(* An instance of Tokenizer: every text of up to five characters over one  *)
(* character of each class, with II the only keyword.                      *)
(***************************************************************************)
EXTENDS Tokenizer

MCKeywords == {<<"I", "I">>}
MCExitWord == <<"I">>
=============================================================================
