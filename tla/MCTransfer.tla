----------------------------- MODULE MCTransfer -----------------------------
(***************************************************************************)
(* Two files of two units and one unit under one name, into a directory    *)
(* that already holds a file of that name.                                 *)
(***************************************************************************)
EXTENDS Transfer

MCNames     == {<<"a">>}
MCName      == [id \in 0..1 |-> <<"a">>]
MCSize      == [id \in 0..1 |-> IF id = 0 THEN 2 ELSE 1]
MCOtherSize == [id \in 0..1 |-> IF id = 0 THEN 3 ELSE 1]
MCBefore    == [p \in {<<"a">>, <<"a", 1>>, <<"a", 2>>} |->
                  IF p = <<"a">> THEN <<>> ELSE NoFile]
=============================================================================
