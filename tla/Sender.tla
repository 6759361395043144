------------------------------- MODULE Sender -------------------------------
(***************************************************************************)
(* transfer.Send: hello, manifest, wait for the reply, then per accepted   *)
(* file in ascending id order file-start, chunks, file-end and the wait    *)
(* for its ack, and finally done.                                          *)
(*                                                                         *)
(* Files are 0..NumFiles-1, the indices of the send list.  A chunk is at   *)
(* most ChunkSize units; WriteFlow's pause is a bound on the messages      *)
(* still buffered towards the peer (FlowControl has its byte counts).      *)
(***************************************************************************)
EXTENDS Session

CONSTANTS
  NumFiles,   \* length of the send list
  Size,       \* declared sizes, from FilesFromPaths
  Name,       \* wire names, from FilesFromPaths
  OtherSize,  \* what a file's length may become after it was declared
  ChunkSize,  \* protocol.ChunkSize
  HighWater   \* WriteFlow pauses at this many buffered messages

Files == 0..NumFiles-1

\* Send refuses an empty or oversized list and sizes or names out of range
\* before it opens a session; these are the lists it accepts.
ASSUME SenderAssumption ==
  /\ NumFiles \in 1..MaxFiles
  /\ Size \in [Files -> 0..MaxFileSize]
  /\ Name \in [Files -> Names]
  /\ OtherSize \in [Files -> Nat]
  /\ ChunkSize \in Nat \ {0}
  /\ HighWater \in Nat \ {0}

VARIABLES
  accepted,  \* ids the reply accepted
  todo,      \* of these, the ones not yet acknowledged
  cur,       \* the file being sent
  sent,      \* units of it read and written
  buf,       \* units just read and not yet written
  disk       \* current length of each file

sndVars == <<accepted, todo, cur, sent, buf, disk>>

SenderTypeOK ==
  /\ accepted \in SUBSET Files
  /\ todo \in SUBSET accepted
  /\ cur \in Files
  /\ sent \in Nat
  /\ buf \in 0..ChunkSize
  /\ disk \in [Files -> Nat]

SenderInit ==
  /\ accepted = {} /\ todo = {}
  /\ cur = 0 /\ sent = 0 /\ buf = 0
  /\ disk = Size

\* The manifest Send announces.
Metas == [i \in 1..NumFiles |->
            [id |-> i - 1, name |-> Name[i - 1], size |-> Size[i - 1]]]

Buffered == Len(wire["rcv"])

-----------------------------------------------------------------------------
SendManifest ==
  /\ At("snd", "manifest")
  /\ Control("snd", Manifest(Metas), "waitReply")
  /\ NoInput /\ NoEvent
  /\ UNCHANGED <<linkVars, sndVars, signaled>>

\* Mutant: the loop runs over the send list, not over the accepted ids.
TakeAcceptSendsAll ==
  /\ Take("snd", {"accept"})
  /\ ValidAccept(NextMsg("snd").ids, NumFiles)
  /\ accepted' = ResolveAccept(NextMsg("snd").ids, NumFiles)
  /\ todo' = Files
  /\ GoTo("snd", "nextFile")
  /\ UNCHANGED <<wire, signaled>>

\* Mutant: an accept without ids is taken for a refusal.
TakeAcceptEmptyRefuses ==
  /\ Take("snd", {"accept"})
  /\ LET ids == NextMsg("snd").ids IN
       IF ids # {}
       THEN accepted' = ids /\ todo' = ids /\ GoTo("snd", "nextFile")
       ELSE FailWith("snd", "rejected") /\ UNCHANGED <<accepted, todo>>
  /\ UNCHANGED <<wire, signaled>>

TakeAccept ==
  /\ Take("snd", {"accept"})
  /\ LET ids == NextMsg("snd").ids IN
       IF ValidAccept(ids, NumFiles)
       THEN /\ accepted' = ResolveAccept(ids, NumFiles)
            /\ todo' = accepted'
            /\ GoTo("snd", "nextFile")
            /\ UNCHANGED <<wire, signaled>>
       ELSE ProtocolError("snd") /\ UNCHANGED <<accepted, todo>>

TakeReject ==
  /\ Take("snd", {"reject"})
  /\ FailWith("snd", "rejected")
  /\ UNCHANGED <<wire, signaled, accepted, todo>>

WaitReply ==
  /\ At("snd", "waitReply")
  /\ \/ TakeAccept
     \/ TakeReject
     \/ WaitOther("snd", {"accept", "reject"}) /\ UNCHANGED <<accepted, todo>>
  /\ NoEvent
  /\ UNCHANGED <<linkVars, cur, sent, buf, disk>>

\* The loop over the accepted ids, up to sendFile's file-start.
StartFile ==
  /\ At("snd", "nextFile")
  /\ \E id \in todo :
       /\ IsNext(id, todo)
       /\ Control("snd", FileStart(id), "open")
       /\ IF CanSend("snd") THEN Emit("snd", <<"start", id>>) ELSE NoEvent
       /\ cur' = id
  /\ sent' = 0
  /\ NoInput
  /\ UNCHANGED <<linkVars, signaled, accepted, todo, buf, disk>>

OpenFile ==
  /\ At("snd", "open")
  /\ GoTo("snd", "loop") \/ FailWith("snd", "local")
  /\ NoInput /\ NoEvent
  /\ UNCHANGED <<linkVars, sndVars, wire, signaled>>

\* midSendCheck of the message poll dequeued: neither terminal nor unknown
\* text is put back for the wait loop; a binary message is a violation.
MidSendCheck ==
  \/ TakeTerminal("snd")
  \/ Take("snd", {"unknown"}) /\ GoTo("snd", "read") /\ UNCHANGED <<wire, signaled>>
  \/ Take("snd", {"chunk", "malformed"}) /\ ProtocolError("snd")
  \/ /\ NextMsg("snd").t \notin {"cancel", "error", "unknown", "chunk", "malformed"}
     /\ Defer("snd")
     /\ GoTo("snd", "read")
     /\ UNCHANGED <<wire, signaled>>

\* Top of the chunk loop: the context check, then one poll of the inbox.
Poll ==
  /\ At("snd", "loop")
  /\ \/ ctx["snd"] /\ FailWith("snd", "ctx") /\ NoInput /\ UNCHANGED <<wire, signaled>>
     \/ ~ctx["snd"] /\ HasNext("snd") /\ MidSendCheck
     \/ /\ ~ctx["snd"] /\ ~HasNext("snd")
        /\ GoTo("snd", "read")
        /\ NoInput /\ UNCHANGED <<wire, signaled>>
  /\ NoEvent
  /\ UNCHANGED <<linkVars, sndVars>>

\* Mutant: the end of a file is not compared with its declared size.
ReadFileAnySize ==
  /\ At("snd", "read")
  /\ IF sent < disk[cur]
     THEN /\ buf' = IF disk[cur] - sent < ChunkSize THEN disk[cur] - sent ELSE ChunkSize
          /\ GoTo("snd", "write")
     ELSE GoTo("snd", "fileEnd") /\ UNCHANGED buf
  /\ NoInput /\ NoEvent
  /\ UNCHANGED <<linkVars, wire, signaled, accepted, todo, cur, sent, disk>>

\* One Read: more units, for which WriteFlow is called and first checks the
\* context; the end of the file, where the units sent must be the ones
\* declared; or an I/O error.
ReadFile ==
  /\ At("snd", "read")
  /\ \/ /\ sent < disk[cur]
        /\ buf' = IF disk[cur] - sent < ChunkSize THEN disk[cur] - sent ELSE ChunkSize
        /\ IF ctx["snd"] THEN FailWith("snd", "ctx") ELSE GoTo("snd", "write")
     \/ /\ sent >= disk[cur]
        /\ IF sent = Size[cur] THEN GoTo("snd", "fileEnd")
                               ELSE FailWith("snd", "changed")
        /\ UNCHANGED buf
     \/ FailWith("snd", "local") /\ UNCHANGED buf
  /\ NoInput /\ NoEvent
  /\ UNCHANGED <<linkVars, wire, signaled, accepted, todo, cur, sent, disk>>

\* The rest of WriteFlow: wait while too much is buffered, or until the
\* context is done; then send.
WriteChunk ==
  /\ At("snd", "write")
  /\ \/ /\ Buffered < HighWater
        /\ Control("snd", Chunk(Slice(cur, sent, buf)), "loop")
        /\ sent' = IF CanSend("snd") THEN sent + buf ELSE sent
     \/ /\ ctx["snd"]
        /\ FailWith("snd", "ctx")
        /\ UNCHANGED <<wire, sent>>
  /\ buf' = 0
  /\ NoInput /\ NoEvent
  /\ UNCHANGED <<linkVars, signaled, accepted, todo, cur, disk>>

EndFile ==
  /\ At("snd", "fileEnd")
  /\ Control("snd", FileEnd(cur, FileData(cur, sent)), "waitAck")
  /\ NoInput /\ NoEvent
  /\ UNCHANGED <<linkVars, sndVars, signaled>>

\* The ack of the file just sent: ok, hash mismatch, or a protocol error
\* for another id or status.
TakeAck ==
  /\ Take("snd", {"file-ack"})
  /\ LET ack == NextMsg("snd") IN
       \/ /\ ack.id = cur /\ ack.status = "ok"
          /\ todo' = todo \ {cur}
          /\ Emit("snd", <<"ok", cur>>)
          /\ GoTo("snd", "nextFile")
          /\ UNCHANGED <<wire, signaled>>
       \/ /\ ack.id = cur /\ ack.status = "hash-mismatch"
          /\ Emit("snd", <<"bad", cur>>)
          /\ FailWith("snd", "hash-mismatch")
          /\ UNCHANGED <<wire, signaled, todo>>
       \/ /\ ack.id # cur \/ ack.status = "other"
          /\ ProtocolError("snd")
          /\ NoEvent
          /\ UNCHANGED todo

WaitAck ==
  /\ At("snd", "waitAck")
  /\ \/ TakeAck
     \/ WaitOther("snd", {"file-ack"}) /\ NoEvent /\ UNCHANGED todo
  /\ UNCHANGED <<linkVars, accepted, cur, sent, buf, disk>>

\* Every accepted file is acknowledged: done, and Send returns nil.
SendDone ==
  /\ At("snd", "nextFile")
  /\ todo = {}
  /\ IF CanSend("snd")
     THEN Post("snd", Done) /\ Succeed("snd")
     ELSE FailWith("snd", "send") /\ NoEvent /\ UNCHANGED <<wire, pump>>
  /\ NoInput
  /\ UNCHANGED <<sndVars, signaled, chan, closed, ctx>>

\* Another process changes the length of a file that was declared.
ChangeFile ==
  /\ \E id \in Files : /\ disk[id] = Size[id]
                       /\ OtherSize[id] # Size[id]
                       /\ disk' = [disk EXCEPT ![id] = OtherSize[id]]
  /\ UNCHANGED <<linkVars, sessionVars, accepted, todo, cur, sent, buf>>

SenderNext ==
  \/ BothSides("snd") /\ UNCHANGED sndVars
  \/ SendManifest \/ WaitReply
  \/ StartFile \/ OpenFile \/ Poll \/ ReadFile \/ WriteChunk
  \/ EndFile \/ WaitAck \/ SendDone
=============================================================================
