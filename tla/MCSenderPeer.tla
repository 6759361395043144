---------------------------- MODULE MCSenderPeer ----------------------------
(***************************************************************************)
(* Two files; the peer says everything that Send treats differently.       *)
(***************************************************************************)
EXTENDS SenderPeer

MCNames     == {<<"a">>}
MCName      == [id \in 0..1 |-> <<"a">>]
MCSize      == [id \in 0..1 |-> IF id = 0 THEN 1 ELSE 2]
MCOtherSize == [id \in 0..1 |-> IF id = 0 THEN 2 ELSE 2]
MCPeerMsgs  ==
  {Hello(1), Hello(2), Accept({}), Accept({1}), Accept({0, 2}), Reject,
   FileAck(0, "ok"), FileAck(1, "ok"), FileAck(1, "hash-mismatch"),
   FileAck(1, "other"), Cancel, ErrorMsg("protocol"), Unknown, Malformed,
   Chunk(<<<<0, 1>>>>)}
=============================================================================
