--------------------------- MODULE MCReceiverPeer ---------------------------
(***************************************************************************)
(* A peer that announces two files of one name under sparse ids, or one of *)
(* three manifests Receive must refuse, and says everything that Receive   *)
(* treats differently.  The directory already holds a file of that name.   *)
(***************************************************************************)
EXTENDS ReceiverPeer

MCNames  == {<<"a">>}
MCBefore == [p \in {<<"a">>, <<"a", 1>>, <<"a", 2>>} |->
               IF p = <<"a">> THEN <<>> ELSE NoFile]

Entry(id, name, size) == [id |-> id, name |-> name, size |-> size]
Short == <<<<0, 1>>>>
Long  == <<<<0, 1>>, <<0, 2>>>>

MCPeerMsgs ==
  {Hello(1), Hello(2),
   Manifest(<<Entry(0, <<"a">>, 2), Entry(2, <<"a">>, 1)>>),
   Manifest(<<Entry(1, <<"a">>, 1), Entry(1, <<"a">>, 1)>>),
   Manifest(<<Entry(0, BadName, 1)>>),
   Manifest(<<Entry(0, <<"a">>, 4)>>),
   FileStart(0), FileStart(2), Chunk(Short), Chunk(Long),
   FileEnd(0, Long), FileEnd(0, Short), FileEnd(2, Short), FileEnd(2, Long),
   Done, Cancel, ErrorMsg("protocol"), Unknown, Malformed}
=============================================================================
