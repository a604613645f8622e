---------------------------- MODULE MCFreeSpace ----------------------------
(***************************************************************************)
(* Small instances of FreeSpace.  Eight page numbers leave four pages next *)
(* to the header and the catalog: enough for more free pages than a list   *)
(* of two entries holds, and for a counter modulo four to wrap.            *)
(***************************************************************************)
EXTENDS FreeSpace

MCDataOnly == {"data"}
MCBothKinds == {"data", "index"}
=============================================================================
