--------------------------- MODULE MCTransferLive ---------------------------
(***************************************************************************)
(* One file of two units, for the properties about what must happen.       *)
(***************************************************************************)
EXTENDS Transfer

MCNames     == {<<"a">>}
MCName      == [id \in {0} |-> <<"a">>]
MCSize      == [id \in {0} |-> 2]
MCOtherSize == [id \in {0} |-> 3]
MCBefore    == [p \in MCNames |-> NoFile]
=============================================================================
