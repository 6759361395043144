----------------------------- MODULE MCInterop -----------------------------
(***************************************************************************)
(* A file of two units and an empty one between every pair of ends; reads  *)
(* of up to two units, so that a browser pauses between them.              *)
(***************************************************************************)
EXTENDS Interop

MCNames     == {<<"a">>}
MCName      == [id \in 0..1 |-> <<"a">>]
MCSize      == [id \in 0..1 |-> IF id = 0 THEN 2 ELSE 0]
MCOtherSize == [id \in 0..1 |-> IF id = 0 THEN 3 ELSE 0]
MCBefore    == [p \in {<<"a">>, <<"a", 1>>} |-> NoFile]
=============================================================================
