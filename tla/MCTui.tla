------------------------------- MODULE MCTui -------------------------------
(***************************************************************************)
(* Two attempts to send or receive, so that results of the first one reach *)
(* the second.                                                             *)
(***************************************************************************)
EXTENDS Tui
=============================================================================
