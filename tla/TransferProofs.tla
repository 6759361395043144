--------------------------- MODULE TransferProofs ---------------------------
(***************************************************************************)
(* What holds of a transfer between two jsi programs for all constants:    *)
(* any number of files of any sizes and names, any chunk size, inbox, high *)
(* watermark and directory content, and any changes of the files.          *)
(*                                                                         *)
(* First, Inductive is an invariant: what is kept is what was declared.    *)
(* Then, what the outcomes say, whatever is lost, cancelled or fails:      *)
(* Transfer implements Delivery; what a failed side says of the other is   *)
(* true; the events tell each front end how its call and its files ended;  *)
(* and two honest programs never accuse each other of breaking TP/1.       *)
(***************************************************************************)
EXTENDS Transfer, SessionProofs

\* The messages that may be under way to each side, by side.
Kind(ids) == [s \in Side |-> Sound(s, ids)]

-----------------------------------------------------------------------------
(* Files, manifest and messages.                                           *)

LEMMA FilesAreInts == Files \subseteq Nat /\ 0 \in Files /\ NumFiles \in Nat
<1>1. NumFiles \in Nat /\ NumFiles >= 1
  BY LimitsAssumption, SenderAssumption
<1>2. QED
  BY <1>1 DEF Files

LEMMA SizesAreNat == \A id \in Files : Size[id] \in Nat
BY LimitsAssumption, SenderAssumption

LEMMA FileDataTyped ==
  \A id \in Files : FileData(id, Size[id]) \in Content
BY SliceTyped, SizesAreNat, FilesAreInts DEF FileData

LEMMA MetasTyped ==
  /\ Metas \in Seq(FileMeta) /\ Len(Metas) = NumFiles
  /\ \A i \in 1..NumFiles :
       Metas[i] = [id |-> i - 1, name |-> Name[i - 1], size |-> Size[i - 1]]
<1>1. NumFiles \in Nat
  BY FilesAreInts
<1>2. ASSUME NEW i \in 1..NumFiles
      PROVE  [id |-> i - 1, name |-> Name[i - 1], size |-> Size[i - 1]] \in FileMeta
  <2>1. i - 1 \in Files
    BY <1>1 DEF Files
  <2>2. Name[i - 1] \in Names /\ Size[i - 1] \in Int /\ i - 1 \in Int
    BY <2>1, <1>1, SizesAreNat, SenderAssumption
  <2>3. QED
    BY <2>2 DEF FileMeta
<1>3. Metas \in [1..NumFiles -> FileMeta]
  BY <1>2 DEF Metas
<1>4. Metas \in Seq(FileMeta)
  BY <1>1, <1>3, SeqDef
<1>5. Len(Metas) = NumFiles
  BY <1>1, <1>3, <1>4, LenProperties
<1>6. QED
  BY <1>4, <1>5 DEF Metas

LEMMA MetasById ==
  /\ DOMAIN ById(Metas) = Files
  /\ \A id \in Files : /\ ById(Metas)[id] \in FileMeta
                       /\ ById(Metas)[id].name = Name[id]
                       /\ ById(Metas)[id].size = Size[id]
<1>1. \A i \in 1..NumFiles : Metas[i].id = i - 1
  BY MetasTyped
<1>2. {Metas[i].id : i \in 1..Len(Metas)} = Files
  <2>1. \A i \in 1..NumFiles : Metas[i].id \in Files
    BY <1>1, FilesAreInts DEF Files
  <2>2. \A id \in Files : id + 1 \in 1..NumFiles /\ Metas[id + 1].id = id
    BY <1>1, FilesAreInts DEF Files
  <2>3. QED
    BY <2>1, <2>2, MetasTyped
<1>3. ASSUME NEW id \in Files
      PROVE  ById(Metas)[id] = Metas[id + 1]
  <2>1. id + 1 \in 1..Len(Metas) /\ Metas[id + 1].id = id
    BY <1>1, MetasTyped, FilesAreInts DEF Files
  <2>2. \A i \in 1..Len(Metas) : Metas[i].id = id => i = id + 1
    BY <1>1, MetasTyped, FilesAreInts DEF Files
  <2>3. (CHOOSE i \in 1..Len(Metas) : Metas[i].id = id) = id + 1
    BY <2>1, <2>2
  <2>4. QED
    BY <1>2, <2>3 DEF ById
<1>4. ASSUME NEW id \in Files
      PROVE  /\ Metas[id + 1] \in FileMeta
             /\ Metas[id + 1].name = Name[id] /\ Metas[id + 1].size = Size[id]
  <2>1. id + 1 \in 1..NumFiles /\ (id + 1) - 1 = id
    BY FilesAreInts DEF Files
  <2>2. Metas[id + 1] \in FileMeta
    BY <2>1, MetasTyped, ElementOfSeq
  <2>3. Metas[id + 1] = [id |-> (id + 1) - 1, name |-> Name[(id + 1) - 1],
                         size |-> Size[(id + 1) - 1]]
    BY <2>1, MetasTyped
  <2>4. QED
    BY <2>1, <2>2, <2>3
<1>5. QED
  BY <1>2, <1>3, <1>4 DEF ById

LEMMA KindIsKinds == \A ids : Kinds(Kind(ids))
<1> SUFFICES ASSUME NEW ids PROVE Kinds(Kind(ids))
  OBVIOUS
<1>1. Kind(ids) \in [Side -> SUBSET Message]
  BY DEF Kind, Sound
<1>2. ASSUME NEW s \in Side, NEW m \in Common PROVE m \in Sound(s, ids)
  BY CommonMessages DEF Common, Sound, Hello, Cancel, ErrorMsg
<1>3. QED
  BY <1>1, <1>2 DEF Kinds, Kind, Typed

\* More saved files allow no fewer messages.
LEMMA KindGrows ==
  ASSUME NEW ids, NEW more, ids \subseteq more, NEW q, Holds(q, Kind(ids))
  PROVE  Holds(q, Kind(more))
<1>1. ASSUME NEW s \in Side PROVE q[s] \in Seq(Kind(more)[s])
  <2>1. q[s] \in Seq(Sound(s, ids))
    BY <1>1 DEF Holds, Kind
  <2>2. Sound(s, ids) \subseteq Sound(s, more)
    BY DEF Sound
  <2>3. q[s] \in Seq(Sound(s, more))
    BY <2>1, <2>2, SeqMonotonic
  <2>4. QED
    BY <1>1, <2>3 DEF Kind
<1>2. QED
  BY <1>1 DEF Holds

\* The messages Send and Receive send, besides the common ones.
LEMMA SenderMessages ==
  ASSUME NEW ids
  PROVE  /\ Manifest(Metas) \in Sound("rcv", ids) /\ Done \in Sound("rcv", ids)
         /\ \A id \in Files : /\ FileStart(id) \in Sound("rcv", ids)
                              /\ FileEnd(id, FileData(id, Size[id])) \in Sound("rcv", ids)
         /\ \A data \in Content : Chunk(data) \in Sound("rcv", ids)
<1>1. Manifest(Metas) \in Sound("rcv", ids) /\ Done \in Sound("rcv", ids)
  BY MetasTyped DEF Sound, Manifest, Done, Message
<1>2. ASSUME NEW id \in Files
      PROVE  /\ FileStart(id) \in Sound("rcv", ids)
             /\ FileEnd(id, FileData(id, Size[id])) \in Sound("rcv", ids)
  BY FileDataTyped, FilesAreInts DEF Sound, FileStart, FileEnd, Message
<1>3. ASSUME NEW data \in Content PROVE Chunk(data) \in Sound("rcv", ids)
  BY DEF Sound, Chunk, Message
<1>4. QED
  BY <1>1, <1>2, <1>3

LEMMA ReceiverMessages ==
  ASSUME NEW ids
  PROVE  /\ \A S \in SUBSET Files : Accept(S) \in Sound("snd", ids)
         /\ Reject \in Sound("snd", ids)
         /\ \A id \in Files : /\ FileAck(id, "hash-mismatch") \in Sound("snd", ids)
                              /\ id \in ids => FileAck(id, "ok") \in Sound("snd", ids)
BY FilesAreInts DEF Sound, Accept, Reject, FileAck, Message

-----------------------------------------------------------------------------
(* The sender's steps.                                                     *)

SenderReady(G) ==
  /\ G = Kind(SavedIds)
  /\ Queues(G) /\ Core /\ Link /\ Events
  /\ SenderTypeOK /\ SenderSound /\ AckedIsSaved

SenderResult(G) ==
  /\ Queues(G)' /\ Core' /\ Link' /\ Events'
  /\ SenderTypeOK' /\ SenderSound' /\ AckedIsSaved'
  /\ pc'["rcv"] = pc["rcv"]

\* A step that reports nothing and moves no file from todo to acknowledged.
LEMMA QuietSender ==
  ASSUME NEW G, SenderReady(G), UNCHANGED rcvVars,
         Queues(G)', Core', UNCHANGED <<shown, final>>, Link',
         NEW L, Moved("snd", L),
         SenderTypeOK', SenderSound',
         UNCHANGED <<accepted, todo>> \/ accepted' = todo'
  PROVE  SenderResult(G)
<1>1. Events' /\ SavedIds' = SavedIds
  BY DEF SenderReady, Events, rcvVars, SavedIds
<1>2. AckedIsSaved'
  <2>1. Acked' \subseteq Acked
    BY DEF Acked
  <2>2. QED
    BY <1>1, <2>1 DEF SenderReady, AckedIsSaved, Emitted
<1>3. pc'["rcv"] = pc["rcv"]
  BY DEF Moved, Side
<1>4. QED
  BY <1>1, <1>2, <1>3 DEF SenderResult

LEMMA SendManifestSound ==
  ASSUME NEW G, SenderReady(G), UNCHANGED rcvVars, SendManifest
  PROVE  SenderResult(G)
<1>1. Kinds(G) /\ Manifest(Metas) \in G[Peer("snd")]
  BY KindIsKinds, SenderMessages DEF SenderReady, Kind, Peer, Side
<1>2. Control("snd", Manifest(Metas), "waitReply") /\ "waitReply" \in Labels
  BY DEF SendManifest, Labels
<1>3. UNCHANGED <<inbox, pending, signaled, shown, final, linkVars, sndVars>>
  BY DEF SendManifest, NoInput, NoEvent
<1>4. /\ Holds(wire', G) /\ pc' \in [Side -> Labels] /\ err' \in [Side -> Errors]
      /\ Moved("snd", {"waitReply", "failed"})
  BY <1>1, <1>2, ControlMoves DEF SenderReady, Side
<1>5. Queues(G)' /\ Core' /\ Link'
  BY <1>3, <1>4 DEF SenderReady, Queues, Core, Link, linkVars
<1>6. SenderTypeOK' /\ SenderSound'
  BY <1>3, <1>4 DEF SenderReady, SenderTypeOK, SenderSound, sndVars, Moved, At
<1>7. QED
  BY <1>3, <1>4, <1>5, <1>6, QuietSender DEF sndVars

LEMMA WaitReplySound ==
  ASSUME NEW G, SenderReady(G), UNCHANGED rcvVars, WaitReply
  PROVE  SenderResult(G)
<1>1. Kinds(G) /\ "snd" \in Side
  BY KindIsKinds DEF SenderReady, Side
<1>2. UNCHANGED <<shown, final, linkVars, cur, sent, buf, disk>>
  BY DEF WaitReply, NoEvent
<1>3. Link'
  BY <1>2 DEF SenderReady, Link, linkVars
<1> DEFINE Out == /\ Queues(G)' /\ Core'
                  /\ Moved("snd", {"nextFile", "failed", "waitReply"})
                  /\ accepted' \in SUBSET Files /\ todo' \in SUBSET accepted'
                  /\ UNCHANGED <<accepted, todo>> \/ accepted' = todo'
<1>4. ASSUME TakeAccept PROVE Out
  <2>1. Consume("snd")
    BY <1>4 DEF TakeAccept, Take
  <2>2. Holds(inbox', G) /\ Holds(pending', G)
    BY <1>1, <2>1, ConsumeHolds DEF SenderReady, Kinds
  <2> DEFINE ids == NextMsg("snd").ids
  <2>3. CASE ValidAccept(ids, NumFiles)
    <3>1. /\ accepted' = ResolveAccept(ids, NumFiles) /\ todo' = accepted'
          /\ GoTo("snd", "nextFile") /\ UNCHANGED <<wire, signaled>>
      BY <1>4, <2>3 DEF TakeAccept
    <3>2. accepted' \in SUBSET Files
      BY <2>3, <3>1 DEF ResolveAccept, ValidAccept, Files
    <3>3. "nextFile" \in Labels
      BY DEF Labels
    <3>4. /\ pc' \in [Side -> Labels] /\ err' \in [Side -> Errors]
          /\ Moved("snd", {"nextFile"})
      BY <1>1, <3>1, <3>3, GoToMoves DEF SenderReady
    <3>5. QED
      BY <2>2, <3>1, <3>2, <3>4 DEF SenderReady, Queues, Core, Moved
  <2>4. CASE ~ValidAccept(ids, NumFiles)
    <3>1. ProtocolError("snd") /\ UNCHANGED <<accepted, todo>>
      BY <1>4, <2>4 DEF TakeAccept
    <3>2. Holds(wire', G) /\ Core' /\ Moved("snd", {"failed"})
      BY <1>1, <3>1, ProtocolErrorMoves DEF SenderReady
    <3>3. QED
      BY <2>2, <3>1, <3>2 DEF SenderReady, SenderTypeOK, Queues, Moved
  <2>5. QED
    BY <2>3, <2>4
<1>5. ASSUME TakeReject PROVE Out
  <2>1. Consume("snd") /\ FailWith("snd", "rejected") /\ "rejected" \in Errors
    BY <1>5 DEF TakeReject, Take, Errors
  <2>2. UNCHANGED <<wire, signaled, accepted, todo>>
    BY <1>5 DEF TakeReject
  <2>3. Holds(inbox', G) /\ Holds(pending', G)
    BY <1>1, <2>1, ConsumeHolds DEF SenderReady, Kinds
  <2>4. /\ pc' \in [Side -> Labels] /\ err' \in [Side -> Errors]
        /\ Moved("snd", {"failed"})
    BY <1>1, <2>1, FailMoves DEF SenderReady
  <2>5. QED
    BY <2>2, <2>3, <2>4 DEF SenderReady, SenderTypeOK, Queues, Core, Moved
<1>6. ASSUME WaitOther("snd", {"accept", "reject"}), UNCHANGED <<accepted, todo>>
      PROVE  Out
  <2>1. Queues(G)' /\ Core' /\ Moved("snd", {pc["snd"], "failed"})
    BY <1>1, <1>6, WaitOtherMoves DEF SenderReady
  <2>2. pc["snd"] = "waitReply"
    BY DEF WaitReply, At
  <2>3. QED
    BY <1>6, <2>1, <2>2 DEF SenderReady, SenderTypeOK, Moved
<1>7. Out
  BY <1>4, <1>5, <1>6 DEF WaitReply
<1>8. SenderTypeOK' /\ SenderSound'
  BY <1>2, <1>7 DEF SenderReady, SenderTypeOK, SenderSound, Moved, At
<1>9. QED
  BY <1>2, <1>3, <1>7, <1>8, QuietSender

LEMMA BusySender ==
  ASSUME NEW G, SenderReady(G), UNCHANGED rcvVars,
         Queues(G)', Core', Link', Events', NEW L, Moved("snd", L),
         SenderTypeOK', SenderSound',
         accepted' \ todo' \subseteq Acked \cup SavedIds,
         \A id \in Files : <<"ok", id>> \in Emitted("snd")' =>
                            <<"ok", id>> \in Emitted("snd") \/ id \in SavedIds
  PROVE  SenderResult(G)
<1>1. SavedIds' = SavedIds
  BY DEF rcvVars, SavedIds
<1>2. AckedIsSaved'
  BY <1>1 DEF SenderReady, AckedIsSaved, Emitted, Acked
<1>3. pc'["rcv"] = pc["rcv"]
  BY DEF Moved, Side
<1>4. QED
  BY <1>2, <1>3 DEF SenderResult

LEMMA StartFileSound ==
  ASSUME NEW G, SenderReady(G), UNCHANGED rcvVars, StartFile
  PROVE  SenderResult(G)
<1>1. PICK id \in todo :
        /\ Control("snd", FileStart(id), "open") /\ cur' = id
        /\ IF CanSend("snd") THEN Emit("snd", <<"start", id>>) ELSE NoEvent
  BY DEF StartFile
<1>2. /\ sent' = 0
      /\ UNCHANGED <<inbox, pending, linkVars, signaled, accepted, todo, buf, disk>>
  BY DEF StartFile, NoInput
<1>3. id \in Files /\ id \in Int
  BY FilesAreInts DEF SenderReady, SenderTypeOK
<1>4. Kinds(G) /\ FileStart(id) \in G[Peer("snd")]
  BY <1>3, KindIsKinds, SenderMessages DEF SenderReady, Kind, Peer, Side
<1>5. /\ Holds(wire', G) /\ pc' \in [Side -> Labels] /\ err' \in [Side -> Errors]
      /\ Moved("snd", {"open", "failed"})
  <2>1. "open" \in Labels /\ "snd" \in Side
    BY DEF Labels, Side
  <2>2. QED
    BY <1>1, <1>4, <2>1, ControlMoves DEF SenderReady
<1>6. Queues(G)' /\ Core' /\ Link'
  BY <1>2, <1>5 DEF SenderReady, Queues, Core, Link, linkVars
<1>7. SenderTypeOK' /\ SenderSound'
  BY <1>1, <1>2, <1>3, <1>5 DEF SenderReady, SenderTypeOK, SenderSound, Moved, At
<1>8. Events' /\ \A t \in Side : Emitted(t)' \subseteq Emitted(t) \cup {<<"start", id>>}
  <2>1. CASE CanSend("snd")
    BY <1>1, <1>3, <2>1, EmitTyped DEF SenderReady, Side
  <2>2. CASE ~CanSend("snd")
    BY <1>1, <2>2 DEF NoEvent, SenderReady, Events, Emitted
  <2>3. QED
    BY <2>1, <2>2
<1>9. ASSUME NEW f, <<"ok", f>> \in Emitted("snd")'
      PROVE  <<"ok", f>> \in Emitted("snd")
  <2>1. <<"ok", f>> # <<"start", id>>
    OBVIOUS
  <2>2. QED
    BY <1>8, <1>9, <2>1 DEF Side
<1>10. accepted' \ todo' = Acked
  BY <1>2 DEF Acked
<1>11. QED
  BY <1>5, <1>6, <1>7, <1>8, <1>9, <1>10, BusySender

LEMMA OpenFileSound ==
  ASSUME NEW G, SenderReady(G), UNCHANGED rcvVars, OpenFile
  PROVE  SenderResult(G)
<1>1. GoTo("snd", "loop") \/ FailWith("snd", "local")
  BY DEF OpenFile
<1>2. UNCHANGED <<inbox, pending, shown, final, linkVars, sndVars, wire, signaled>>
  BY DEF OpenFile, NoInput, NoEvent
<1>3. /\ pc' \in [Side -> Labels] /\ err' \in [Side -> Errors]
      /\ Moved("snd", {"loop", "failed"})
  <2>1. "loop" \in Labels /\ "local" \in Errors /\ "snd" \in Side
    BY DEF Labels, Errors, Side
  <2>2. QED
    BY <1>1, <2>1, GoToMoves, FailMoves DEF SenderReady, Moved
<1>4. Queues(G)' /\ Core' /\ Link'
  BY <1>2, <1>3 DEF SenderReady, Queues, Holds, Core, Link, linkVars
<1>5. SenderTypeOK' /\ SenderSound'
  BY <1>2, <1>3 DEF SenderReady, SenderTypeOK, SenderSound, sndVars, Moved, At
<1>6. QED
  BY <1>2, <1>3, <1>4, <1>5, QuietSender DEF sndVars

LEMMA PollSound ==
  ASSUME NEW G, SenderReady(G), UNCHANGED rcvVars, Poll
  PROVE  SenderResult(G)
<1>1. Kinds(G) /\ "snd" \in Side /\ "read" \in Labels /\ "ctx" \in Errors
  BY KindIsKinds DEF SenderReady, Side, Labels, Errors
<1>2. UNCHANGED <<shown, final, linkVars, sndVars>>
  BY DEF Poll, NoEvent
<1> DEFINE Out == Queues(G)' /\ Core' /\ Moved("snd", {"read", "failed"})
<1>3. ASSUME FailWith("snd", "ctx") \/ GoTo("snd", "read"),
             UNCHANGED <<wire, inbox, pending, signaled>>
      PROVE  Out
  <2>1. /\ pc' \in [Side -> Labels] /\ err' \in [Side -> Errors]
        /\ Moved("snd", {"read", "failed"})
    BY <1>1, <1>3, GoToMoves, FailMoves DEF SenderReady, Moved
  <2>2. QED
    BY <1>3, <2>1 DEF SenderReady, Queues, Holds, Core
<1>4. ASSUME TakeTerminal("snd") PROVE Out
  BY <1>1, <1>4, TakeTerminalMoves DEF SenderReady, Moved
<1>5. ASSUME Consume("snd") \/ Defer("snd"), GoTo("snd", "read"),
             UNCHANGED <<wire, signaled>>
      PROVE  Out
  <2>1. Holds(inbox', G) /\ Holds(pending', G)
    BY <1>1, <1>5, ConsumeHolds, DeferHolds DEF SenderReady, Kinds
  <2>2. /\ pc' \in [Side -> Labels] /\ err' \in [Side -> Errors]
        /\ Moved("snd", {"read"})
    BY <1>1, <1>5, GoToMoves DEF SenderReady
  <2>3. QED
    BY <1>5, <2>1, <2>2 DEF SenderReady, Queues, Core, Moved
<1>6. ASSUME Consume("snd"), ProtocolError("snd") PROVE Out
  <2>1. Holds(inbox', G) /\ Holds(pending', G)
    BY <1>1, <1>6, ConsumeHolds DEF SenderReady, Kinds
  <2>2. Holds(wire', G) /\ Core' /\ Moved("snd", {"failed"})
    BY <1>1, <1>6, ProtocolErrorMoves DEF SenderReady
  <2>3. QED
    BY <2>1, <2>2 DEF Queues, Moved
<1>7. Out
  BY <1>3, <1>4, <1>5, <1>6 DEF Poll, MidSendCheck, NoInput, Take
<1>8. Link' /\ SenderTypeOK' /\ SenderSound'
  BY <1>2, <1>7 DEF SenderReady, Link, linkVars, SenderTypeOK, SenderSound, sndVars, Moved, At
<1>9. QED
  BY <1>2, <1>7, <1>8, QuietSender DEF sndVars

LEMMA ReadFileSound ==
  ASSUME NEW G, SenderReady(G), UNCHANGED rcvVars, ReadFile
  PROVE  SenderResult(G)
<1>1. UNCHANGED <<inbox, pending, shown, final, linkVars, wire, signaled,
                  accepted, todo, cur, sent, disk>>
  BY DEF ReadFile, NoInput, NoEvent
<1>2. \/ GoTo("snd", "write") /\ buf' \in 0..ChunkSize
      \/ GoTo("snd", "fileEnd") /\ sent = Size[cur] /\ buf' = buf
      \/ (\E e \in Errors : FailWith("snd", e)) /\ buf' \in 0..ChunkSize
  <2>1. {"ctx", "changed", "local"} \subseteq Errors
    BY DEF Errors
  <2>2. ChunkSize \in Nat /\ disk[cur] \in Nat /\ sent \in Nat /\ buf \in 0..ChunkSize
    BY SenderAssumption DEF SenderReady, SenderTypeOK
  <2>3. QED
    BY <2>1, <2>2 DEF ReadFile
<1>3. /\ pc' \in [Side -> Labels] /\ err' \in [Side -> Errors]
      /\ Moved("snd", {"write", "fileEnd", "failed"})
      /\ pc'["snd"] = "fileEnd" => sent = Size[cur]
  <2>1. {"write", "fileEnd"} \subseteq Labels /\ "snd" \in Side
    BY DEF Labels, Side
  <2>2. QED
    BY <1>2, <2>1, GoToMoves, FailMoves DEF SenderReady, Moved
<1>4. Queues(G)' /\ Core' /\ Link'
  BY <1>1, <1>3 DEF SenderReady, Queues, Holds, Core, Link, linkVars
<1>5. SenderTypeOK' /\ SenderSound'
  BY <1>1, <1>2, <1>3 DEF SenderReady, SenderTypeOK, SenderSound, At
<1>6. QED
  BY <1>1, <1>3, <1>4, <1>5, QuietSender

LEMMA WriteChunkSound ==
  ASSUME NEW G, SenderReady(G), UNCHANGED rcvVars, WriteChunk
  PROVE  SenderResult(G)
<1>1. /\ buf' = 0
      /\ UNCHANGED <<inbox, pending, shown, final, linkVars, signaled,
                     accepted, todo, cur, disk>>
  BY DEF WriteChunk, NoInput, NoEvent
<1>2. /\ cur \in Files /\ cur \in Int /\ sent \in Nat
      /\ buf \in Nat /\ ChunkSize \in Nat
  BY FilesAreInts, SenderAssumption DEF SenderReady, SenderTypeOK
<1>3. Kinds(G) /\ Chunk(Slice(cur, sent, buf)) \in G[Peer("snd")]
  <2>1. Slice(cur, sent, buf) \in Content
    BY <1>2, SliceTyped
  <2>2. QED
    BY <2>1, KindIsKinds, SenderMessages DEF SenderReady, Kind, Peer, Side
<1>4. "loop" \in Labels /\ "ctx" \in Errors /\ "snd" \in Side
  BY DEF Labels, Errors, Side
<1>5. /\ Holds(wire', G) /\ pc' \in [Side -> Labels] /\ err' \in [Side -> Errors]
      /\ Moved("snd", {"loop", "failed"}) /\ sent' \in Nat
  <2>1. CASE Control("snd", Chunk(Slice(cur, sent, buf)), "loop")
             /\ sent' = IF CanSend("snd") THEN sent + buf ELSE sent
    BY <1>2, <1>3, <1>4, <2>1, ControlMoves DEF SenderReady
  <2>2. CASE FailWith("snd", "ctx") /\ UNCHANGED <<wire, sent>>
    BY <1>2, <1>4, <2>2, FailMoves DEF SenderReady, Moved, Queues
  <2>3. QED
    BY <2>1, <2>2 DEF WriteChunk
<1>6. Queues(G)' /\ Core' /\ Link'
  BY <1>1, <1>5 DEF SenderReady, Queues, Core, Link, linkVars
<1>7. SenderTypeOK' /\ SenderSound'
  BY <1>1, <1>2, <1>5 DEF SenderReady, SenderTypeOK, SenderSound, Moved, At
<1>8. QED
  BY <1>1, <1>5, <1>6, <1>7, QuietSender

\* The digest of a file-end is that of the declared file.
LEMMA EndFileSound ==
  ASSUME NEW G, SenderReady(G), UNCHANGED rcvVars, EndFile
  PROVE  SenderResult(G)
<1>1. UNCHANGED <<inbox, pending, shown, final, linkVars, sndVars, signaled>>
  BY DEF EndFile, NoInput, NoEvent
<1>2. sent = Size[cur] /\ cur \in Files
  BY DEF EndFile, SenderReady, SenderSound, SenderTypeOK
<1>3. Control("snd", FileEnd(cur, FileData(cur, Size[cur])), "waitAck")
  BY <1>2 DEF EndFile
<1>4. Kinds(G) /\ FileEnd(cur, FileData(cur, Size[cur])) \in G[Peer("snd")]
  BY <1>2, KindIsKinds, SenderMessages DEF SenderReady, Kind, Peer, Side
<1>5. "waitAck" \in Labels /\ "snd" \in Side
  BY DEF Labels, Side
<1>6. /\ Holds(wire', G) /\ pc' \in [Side -> Labels] /\ err' \in [Side -> Errors]
      /\ Moved("snd", {"waitAck", "failed"})
  BY <1>3, <1>4, <1>5, ControlMoves DEF SenderReady
<1>7. Queues(G)' /\ Core' /\ Link'
  BY <1>1, <1>6 DEF SenderReady, Queues, Core, Link, linkVars
<1>8. SenderTypeOK' /\ SenderSound'
  BY <1>1, <1>6 DEF SenderReady, SenderTypeOK, SenderSound, sndVars, Moved, At
<1>9. QED
  BY <1>1, <1>6, <1>7, <1>8, QuietSender DEF sndVars

\* An ok ack on its way is for a saved file, so counting it is right.
LEMMA WaitAckSound ==
  ASSUME NEW G, SenderReady(G), UNCHANGED rcvVars, WaitAck
  PROVE  SenderResult(G)
<1>1. Kinds(G) /\ "snd" \in Side /\ cur \in Files /\ cur \in Int
  BY KindIsKinds, FilesAreInts DEF SenderReady, SenderTypeOK, Side
<1>2. UNCHANGED <<linkVars, accepted, cur, sent, buf, disk>>
  BY DEF WaitAck
<1>3. pc["snd"] = "waitAck"
  BY DEF WaitAck, At
<1> DEFINE Out == /\ Queues(G)' /\ Core' /\ Events'
                  /\ Moved("snd", {"waitAck", "nextFile", "failed"})
                  /\ todo' = todo \/ (todo' = todo \ {cur} /\ cur \in SavedIds)
                  /\ \A id \in Files : <<"ok", id>> \in Emitted("snd")' =>
                       <<"ok", id>> \in Emitted("snd") \/ id \in SavedIds
<1>4. ASSUME TakeAck PROVE Out
  <2>1. Consume("snd") /\ NextMsg("snd").t = "file-ack"
    BY <1>4 DEF TakeAck, Take
  <2>2. /\ Holds(inbox', G) /\ Holds(pending', G)
        /\ NextMsg("snd") \in Sound("snd", SavedIds)
    BY <1>1, <2>1, ConsumeHolds DEF SenderReady, Kind, Kinds
  <2>3. CASE /\ NextMsg("snd").id = cur /\ NextMsg("snd").status = "ok"
             /\ todo' = todo \ {cur} /\ Emit("snd", <<"ok", cur>>)
             /\ GoTo("snd", "nextFile") /\ UNCHANGED <<wire, signaled>>
    <3>1. cur \in SavedIds
      BY <2>1, <2>2, <2>3 DEF Sound
    <3>2. "nextFile" \in Labels
      BY DEF Labels
    <3>3. /\ pc' \in [Side -> Labels] /\ err' \in [Side -> Errors]
          /\ Moved("snd", {"nextFile"})
      BY <1>1, <2>3, <3>2, GoToMoves DEF SenderReady
    <3>4. Events' /\ \A t \in Side : Emitted(t)' \subseteq Emitted(t) \cup {<<"ok", cur>>}
      BY <1>1, <2>3, EmitTyped DEF SenderReady
    <3>5. ASSUME NEW id \in Files, <<"ok", id>> \in Emitted("snd")'
          PROVE  <<"ok", id>> \in Emitted("snd") \/ id \in SavedIds
      BY <1>1, <3>1, <3>4, <3>5
    <3>6. QED
      BY <2>2, <2>3, <3>1, <3>3, <3>4, <3>5 DEF SenderReady, Queues, Core, Moved
  <2>4. CASE /\ Emit("snd", <<"bad", cur>>) /\ FailWith("snd", "hash-mismatch")
             /\ UNCHANGED <<wire, signaled, todo>>
    <3>1. "hash-mismatch" \in Errors
      BY DEF Errors
    <3>2. /\ pc' \in [Side -> Labels] /\ err' \in [Side -> Errors]
          /\ Moved("snd", {"failed"})
      BY <1>1, <2>4, <3>1, FailMoves DEF SenderReady
    <3>3. Events' /\ \A t \in Side : Emitted(t)' \subseteq Emitted(t) \cup {<<"bad", cur>>}
      BY <1>1, <2>4, EmitTyped DEF SenderReady
    <3>4. ASSUME NEW id \in Files, <<"ok", id>> \in Emitted("snd")'
          PROVE  <<"ok", id>> \in Emitted("snd")
      BY <1>1, <3>3, <3>4
    <3>5. QED
      BY <2>2, <2>4, <3>2, <3>3, <3>4 DEF SenderReady, Queues, Core, Moved
  <2>5. CASE ProtocolError("snd") /\ NoEvent /\ UNCHANGED todo
    <3>1. Holds(wire', G) /\ Core' /\ Moved("snd", {"failed"})
      BY <1>1, <2>5, ProtocolErrorMoves DEF SenderReady
    <3>2. QED
      BY <2>2, <2>5, <3>1 DEF SenderReady, Queues, NoEvent, Events, Moved, Emitted
  <2>6. QED
    BY <1>4, <2>3, <2>4, <2>5 DEF TakeAck
<1>5. ASSUME WaitOther("snd", {"file-ack"}), NoEvent, UNCHANGED todo PROVE Out
  <2>1. Queues(G)' /\ Core' /\ Moved("snd", {pc["snd"], "failed"})
    BY <1>1, <1>5, WaitOtherMoves DEF SenderReady
  <2>2. QED
    BY <1>3, <1>5, <2>1 DEF SenderReady, NoEvent, Events, Moved, Emitted
<1>6. Out
  BY <1>4, <1>5 DEF WaitAck
<1>7. Link' /\ SenderTypeOK' /\ SenderSound'
  BY <1>2, <1>6 DEF SenderReady, Link, linkVars, SenderTypeOK, SenderSound, Moved, At
<1>8. accepted' \ todo' \subseteq Acked \cup SavedIds
  BY <1>2, <1>6 DEF Acked
<1>9. QED
  BY <1>6, <1>7, <1>8, BusySender

LEMMA SendDoneSound ==
  ASSUME NEW G, SenderReady(G), UNCHANGED rcvVars, SendDone
  PROVE  SenderResult(G)
<1>1. UNCHANGED <<inbox, pending, sndVars, signaled, chan, closed, ctx>>
  BY DEF SendDone, NoInput
<1>2. /\ Kinds(G) /\ Done \in G[Peer("snd")] /\ "snd" \in Side
      /\ "returned" \in Labels /\ {"nil", "send"} \subseteq Errors
  BY KindIsKinds, SenderMessages DEF SenderReady, Kind, Peer, Side, Labels, Errors
<1>3. /\ Holds(wire', G) /\ pc' \in [Side -> Labels] /\ err' \in [Side -> Errors]
      /\ Moved("snd", {"returned", "failed"})
      /\ Events' /\ shown' = shown
      /\ pump' \in [Side -> {"none", "on", "off"}]
  <2>1. CASE Post("snd", Done) /\ Succeed("snd")
    <3>1. Holds(wire', G)
      BY <1>2, <2>1, PostHolds DEF SenderReady, Kinds
    <3>2. Events' /\ shown' = shown
      BY <2>1 DEF Succeed, EmitFinal, SenderReady, Events
    <3>3. QED
      BY <1>2, <2>1, <3>1, <3>2 DEF Succeed, SenderReady, Core, Link, Moved
  <2>2. CASE FailWith("snd", "send") /\ NoEvent /\ UNCHANGED <<wire, pump>>
    <3>1. /\ pc' \in [Side -> Labels] /\ err' \in [Side -> Errors]
          /\ Moved("snd", {"failed"})
      BY <1>2, <2>2, FailMoves DEF SenderReady
    <3>2. QED
      BY <2>2, <3>1 DEF NoEvent, SenderReady, Queues, Events, Link, Moved
  <2>3. QED
    BY <2>1, <2>2 DEF SendDone
<1>4. Queues(G)' /\ Core' /\ Link'
  BY <1>1, <1>3 DEF SenderReady, Queues, Core, Link
<1>5. SenderTypeOK' /\ SenderSound'
  BY <1>1, <1>3 DEF SenderReady, SenderTypeOK, SenderSound, sndVars, Moved, At
<1>6. accepted' \ todo' = Acked
  BY <1>1 DEF sndVars, Acked
<1>7. QED
  BY <1>3, <1>4, <1>5, <1>6, BusySender DEF Emitted

LEMMA SenderBothSidesSound ==
  ASSUME NEW G, SenderReady(G), UNCHANGED rcvVars,
         BothSides("snd"), UNCHANGED sndVars
  PROVE  SenderResult(G)
<1>1. Kinds(G) /\ "snd" \in Side
  BY KindIsKinds DEF SenderReady, Side
<1>2. /\ Queues(G)' /\ Core' /\ Link' /\ Events' /\ shown' = shown
      /\ Moved("snd", {"hello", "waitHello", "manifest", "failed", "returned", "closed"})
  BY <1>1, BothSidesMoves DEF SenderReady, AfterHello
<1>3. SenderTypeOK' /\ SenderSound'
  BY <1>2 DEF SenderReady, SenderTypeOK, SenderSound, sndVars, Moved, At
<1>4. accepted' \ todo' = Acked
  BY DEF sndVars, Acked
<1>5. QED
  BY <1>2, <1>3, <1>4, BusySender DEF Emitted

LEMMA SenderNextSound ==
  ASSUME NEW G, SenderReady(G), UNCHANGED rcvVars, SenderNext
  PROVE  SenderResult(G)
BY SenderBothSidesSound, SendManifestSound, WaitReplySound, StartFileSound,
   OpenFileSound, PollSound, ReadFileSound, WriteChunkSound, EndFileSound,
   WaitAckSound, SendDoneSound
   DEF SenderNext

-----------------------------------------------------------------------------
(* The receiver's steps.                                                   *)

\* A kept file stays where and what it is.
Kept == \A id \in SavedIds : /\ id \in DOMAIN saved'
                             /\ saved'[id] = saved[id]
                             /\ dir'[saved[id]] = dir[saved[id]]

ReceiverReady(G) ==
  /\ G = Kind(SavedIds)
  /\ Queues(G) /\ Core /\ Link /\ Events
  /\ ReceiverTypeOK /\ ReceiverSound /\ SavedIntact

ReceiverResult ==
  /\ Queues(Kind(SavedIds))' /\ Core' /\ Link' /\ Events'
  /\ ReceiverTypeOK' /\ ReceiverSound' /\ SavedIntact'
  /\ Kept
  /\ pc'["snd"] = pc["snd"] /\ shown'["snd"] = shown["snd"]

\* A step that saves no file.
LEMMA NothingSaved ==
  ASSUME NEW G, ReceiverReady(G), saved' = saved,
         Queues(G)', Core', Link', Events', NEW L, Moved("rcv", L),
         shown'["snd"] = shown["snd"],
         ReceiverTypeOK', ReceiverSound',
         \A id \in SavedIds : dir'[saved[id]] = dir[saved[id]]
  PROVE  ReceiverResult
<1>1. SavedIds' = SavedIds
  BY DEF SavedIds
<1>2. Queues(Kind(SavedIds))'
  BY <1>1 DEF ReceiverReady, Queues
<1>3. SavedIntact'
  BY <1>1 DEF ReceiverReady, SavedIntact
<1>4. pc'["snd"] = pc["snd"]
  BY DEF Moved, Side
<1>5. Kept
  BY DEF Kept, SavedIds
<1>6. QED
  BY <1>2, <1>3, <1>4, <1>5 DEF ReceiverResult

\* A step that leaves the directory alone and starts no file.
LEMMA DirectoryUntouched ==
  ASSUME NEW G, ReceiverReady(G), UNCHANGED <<meta, dest, dir, saved>>,
         want' = want \/ want' \in SUBSET DOMAIN meta,
         Queues(G)', Core', Link', Events', NEW L, Moved("rcv", L),
         shown'["snd"] = shown["snd"],
         pc'["rcv"] # "chunks",
         pc'["rcv"] = "waitStart" => want' \cap SavedIds = {},
         pc'["rcv"] \in {"init", "hello", "waitHello", "waitManifest", "decide"}
           => SavedIds = {}
  PROVE  ReceiverResult
<1>1. ReceiverTypeOK'
  BY DEF ReceiverReady, ReceiverTypeOK
<1>2. SavedIds' = SavedIds
  BY DEF SavedIds
<1>3. ReceiverSound'
  BY <1>2 DEF ReceiverReady, ReceiverSound, At
<1>4. QED
  BY <1>1, <1>3, NothingSaved

LEMMA NoDestinationSound ==
  ASSUME NEW G, ReceiverReady(G), NoDestination
  PROVE  ReceiverResult
<1>1. /\ UNCHANGED <<inbox, pending, wire, signaled, linkVars, rcvVars>>
      /\ pc' = [pc EXCEPT !["rcv"] = "returned"]
      /\ err' = [err EXCEPT !["rcv"] = "local"]
      /\ EmitFinal("rcv", "error")
  BY DEF NoDestination, NoInput
<1>2. "returned" \in Labels /\ "local" \in Errors /\ "rcv" \in Side
  BY DEF Labels, Errors, Side
<1>3. Events' /\ shown' = shown
  BY <1>1 DEF ReceiverReady, Events, EmitFinal
<1>4. Core' /\ Moved("rcv", {"returned"})
  BY <1>1, <1>2 DEF ReceiverReady, Core, Moved
<1>5. Queues(G)' /\ Link'
  BY <1>1 DEF ReceiverReady, Queues, Holds, Link, linkVars
<1>6. pc'["rcv"] = "returned"
  BY <1>4 DEF Moved
<1>7. QED
  BY <1>1, <1>3, <1>4, <1>5, <1>6, DirectoryUntouched DEF rcvVars

\* The manifest that arrives is the sender's.
LEMMA WaitManifestSound ==
  ASSUME NEW G, ReceiverReady(G), WaitManifest
  PROVE  ReceiverResult
<1>1. Kinds(G) /\ "rcv" \in Side
  BY KindIsKinds DEF ReceiverReady, Side
<1>2. UNCHANGED <<linkVars, want, shown, final, dest, dir, saved>>
  BY DEF WaitManifest, NoEvent, KeepFiles
<1>3. pc["rcv"] = "waitManifest" /\ SavedIds = {}
  BY DEF WaitManifest, At, ReceiverReady, ReceiverSound
<1> DEFINE Out == /\ Queues(G)' /\ Core'
                  /\ Moved("rcv", {"waitManifest", "decide", "failed"})
                  /\ meta' = meta \/ meta' = ById(Metas)
<1>4. ASSUME TakeManifest PROVE Out
  <2>1. Consume("rcv") /\ NextMsg("rcv").t = "manifest"
    BY <1>4 DEF TakeManifest, Take
  <2>2. /\ Holds(inbox', G) /\ Holds(pending', G)
        /\ NextMsg("rcv") \in Sound("rcv", SavedIds)
    BY <1>1, <2>1, ConsumeHolds DEF ReceiverReady, Kind, Kinds
  <2>3. NextMsg("rcv").files = Metas
    BY <2>1, <2>2 DEF Sound
  <2>4. CASE /\ meta' = ById(NextMsg("rcv").files) /\ GoTo("rcv", "decide")
             /\ UNCHANGED <<wire, signaled>>
    <3>1. "decide" \in Labels
      BY DEF Labels
    <3>2. /\ pc' \in [Side -> Labels] /\ err' \in [Side -> Errors]
          /\ Moved("rcv", {"decide"})
      BY <1>1, <2>4, <3>1, GoToMoves DEF ReceiverReady
    <3>3. QED
      BY <2>2, <2>3, <2>4, <3>2 DEF ReceiverReady, Queues, Core, Moved
  <2>5. CASE ProtocolError("rcv") /\ UNCHANGED meta
    <3>1. Holds(wire', G) /\ Core' /\ Moved("rcv", {"failed"})
      BY <1>1, <2>5, ProtocolErrorMoves DEF ReceiverReady
    <3>2. QED
      BY <2>2, <2>5, <3>1 DEF Queues, Moved
  <2>6. QED
    BY <1>4, <2>4, <2>5 DEF TakeManifest
<1>5. ASSUME WaitOther("rcv", {"manifest"}), UNCHANGED meta PROVE Out
  <2>1. Queues(G)' /\ Core' /\ Moved("rcv", {pc["rcv"], "failed"})
    BY <1>1, <1>5, WaitOtherMoves DEF ReceiverReady
  <2>2. QED
    BY <1>3, <1>5, <2>1 DEF Moved
<1>6. Out
  BY <1>4, <1>5 DEF WaitManifest
<1>7. Link' /\ Events'
  BY <1>2 DEF ReceiverReady, Link, linkVars, Events
<1>8. ReceiverTypeOK'
  <2>1. DOMAIN saved' = {} /\ want' = want
    BY <1>2, <1>3 DEF SavedIds
  <2>2. DOMAIN meta \subseteq DOMAIN meta'
    <3>1. meta = NoEntries => DOMAIN meta = {}
      BY DEF NoEntries
    <3>2. QED
      BY <1>6, <3>1 DEF ReceiverReady, ReceiverSound
  <2>3. DOMAIN meta' \subseteq Nat /\ \A id \in DOMAIN meta' : meta'[id] \in FileMeta
    BY <1>6, MetasById, FilesAreInts DEF ReceiverReady, ReceiverTypeOK
  <2>4. QED
    BY <1>2, <2>1, <2>2, <2>3 DEF ReceiverReady, ReceiverTypeOK
<1>9. ReceiverSound'
  BY <1>2, <1>3, <1>6 DEF ReceiverReady, ReceiverSound, SavedIds, Moved, At
<1>10. QED
  BY <1>2, <1>6, <1>7, <1>8, <1>9, NothingSaved

LEMMA DecideSound ==
  ASSUME NEW G, ReceiverReady(G), Decide
  PROVE  ReceiverResult
<1>1. Kinds(G) /\ "rcv" \in Side /\ "waitStart" \in Labels
  BY KindIsKinds DEF ReceiverReady, Side, Labels
<1>2. UNCHANGED <<inbox, pending, shown, final, dest, dir, saved, linkVars, meta>>
  BY DEF Decide, NoInput, NoEvent, KeepFiles
<1>3. SavedIds = {}
  BY DEF Decide, At, ReceiverReady, ReceiverSound
<1>4. DOMAIN meta \subseteq Files
  BY MetasById DEF ReceiverReady, ReceiverSound, NoEntries
<1> DEFINE Out == /\ Holds(wire', G) /\ Core'
                  /\ Moved("rcv", {"waitStart", "failed"})
                  /\ want' = want \/ want' \in SUBSET DOMAIN meta
<1>5. ASSUME NEW e \in {"decide", "declined"},
             LastWord("rcv", Reject, e), UNCHANGED want
      PROVE  Out
  <2>1. e \in Errors /\ Reject \in G[Peer("rcv")]
    BY ReceiverMessages DEF Errors, ReceiverReady, Kind, Peer, Side
  <2>2. Holds(wire', G) /\ Core' /\ Moved("rcv", {"failed"})
    BY <1>1, <1>5, <2>1, LastWordMoves DEF ReceiverReady
  <2>3. QED
    BY <1>5, <2>2 DEF Moved
<1>6. ASSUME NEW ids \in SUBSET DOMAIN meta, UNCHANGED signaled,
             Control("rcv", Accept(IF ids = DOMAIN meta THEN {} ELSE ids), "waitStart"),
             want' = IF CanSend("rcv") THEN ids ELSE want
      PROVE  Out
  <2>1. Accept(IF ids = DOMAIN meta THEN {} ELSE ids) \in G[Peer("rcv")]
    <3>1. (IF ids = DOMAIN meta THEN {} ELSE ids) \in SUBSET Files
      BY <1>4
    <3>2. QED
      BY <3>1, ReceiverMessages DEF ReceiverReady, Kind, Peer, Side
  <2>2. /\ Holds(wire', G) /\ pc' \in [Side -> Labels] /\ err' \in [Side -> Errors]
        /\ Moved("rcv", {"waitStart", "failed"})
    BY <1>1, <1>6, <2>1, ControlMoves DEF ReceiverReady
  <2>3. QED
    BY <1>6, <2>2 DEF ReceiverReady, Core
<1>7. Out
  BY <1>5, <1>6 DEF Decide
<1>8. Queues(G)' /\ Link' /\ Events'
  BY <1>2, <1>7 DEF ReceiverReady, Queues, Link, linkVars, Events
<1>9. QED
  BY <1>2, <1>3, <1>7, <1>8, DirectoryUntouched DEF Moved

\* Where a started file goes: a path that was free, so none of the saved
\* files is there.
LEMMA CreateDestSound ==
  ASSUME NEW G, ReceiverReady(G), NEW id \in want, CreateDest(id)
  PROVE  /\ pc' \in [Side -> Labels] /\ err' \in [Side -> Errors]
         /\ Moved("rcv", {"chunks", "failed"})
         /\ Events' /\ shown'["snd"] = shown["snd"]
         /\ dest' \in Paths \cup {NoPath}
         /\ dir' \in [Paths -> Content \cup {NoFile}]
         /\ \A i \in SavedIds : dir'[saved[i]] = dir[saved[i]]
         /\ pc'["rcv"] = "chunks" => /\ dest' \in Paths /\ dir'[dest'] \in Content
                                     /\ \A i \in SavedIds : saved[i] # dest'
<1>1. /\ "rcv" \in Side /\ "snd" \in Side \ {"rcv"} /\ id \in Int
      /\ {"chunks", "failed"} \subseteq Labels /\ "local" \in Errors
  BY DEF Side, ReceiverReady, ReceiverTypeOK, Labels, Errors
<1>2. CASE \E i \in 0..MaxAttempts-1 :
             /\ Fresh(meta[id].name, i)
             /\ dest' = Candidate(meta[id].name, i)
             /\ dir' = [dir EXCEPT ![Candidate(meta[id].name, i)] = <<>>]
             /\ Emit("rcv", <<"start", id>>) /\ GoTo("rcv", "chunks")
  <2>1. PICK i \in 0..MaxAttempts-1 :
             /\ Fresh(meta[id].name, i)
             /\ dest' = Candidate(meta[id].name, i)
             /\ dir' = [dir EXCEPT ![Candidate(meta[id].name, i)] = <<>>]
             /\ Emit("rcv", <<"start", id>>) /\ GoTo("rcv", "chunks")
    BY <1>2
  <2>2. dest' \in Paths /\ dir[dest'] = NoFile
    <3>1. meta[id].name \in Names
      BY MetasById, SenderAssumption
         DEF ReceiverReady, ReceiverTypeOK, ReceiverSound, NoEntries
    <3>2. QED
      BY <2>1, <3>1 DEF Paths, Fresh
  <2>3. <<>> \in Content
    BY DEF Content
  <2>4. \A j \in SavedIds : saved[j] \in Paths /\ saved[j] # dest'
    <3>1. \A j \in SavedIds : saved[j] \in Paths /\ dir[saved[j]] \in Content
      BY FileDataTyped DEF ReceiverReady, ReceiverTypeOK, SavedIntact, SavedIds
    <3>2. QED
      BY <2>2, <3>1, ReceiverAssumption
  <2>5. /\ dir' \in [Paths -> Content \cup {NoFile}] /\ dir'[dest'] = <<>>
        /\ \A j \in SavedIds : dir'[saved[j]] = dir[saved[j]]
    BY <2>1, <2>2, <2>3, <2>4 DEF ReceiverReady, ReceiverTypeOK
  <2>6. /\ pc' \in [Side -> Labels] /\ err' \in [Side -> Errors]
        /\ Moved("rcv", {"chunks"})
    BY <1>1, <2>1, GoToMoves DEF ReceiverReady
  <2>7. Events' /\ shown'["snd"] = shown["snd"]
    BY <1>1, <2>1, EmitTyped DEF ReceiverReady
  <2>8. QED
    BY <2>2, <2>3, <2>4, <2>5, <2>6, <2>7 DEF Moved
<1>3. CASE FailWith("rcv", "local") /\ NoEvent /\ UNCHANGED <<dest, dir>>
  <2>1. /\ pc' \in [Side -> Labels] /\ err' \in [Side -> Errors]
        /\ Moved("rcv", {"failed"})
    BY <1>1, <1>3, FailMoves DEF ReceiverReady
  <2>2. Events' /\ shown' = shown
    BY <1>3 DEF NoEvent, ReceiverReady, Events
  <2>3. QED
    BY <1>3, <2>1, <2>2 DEF ReceiverReady, ReceiverTypeOK, Moved
<1>4. QED
  BY <1>2, <1>3 DEF CreateDest

LEMMA WaitFileStartSound ==
  ASSUME NEW G, ReceiverReady(G), WaitFileStart
  PROVE  ReceiverResult
<1>1. Kinds(G) /\ "rcv" \in Side
  BY KindIsKinds DEF ReceiverReady, Side
<1>2. UNCHANGED <<linkVars, meta, want, saved>> /\ pc["rcv"] = "waitStart"
  BY DEF WaitFileStart, At
<1> DEFINE Out == /\ Queues(G)' /\ Core' /\ Events' /\ shown'["snd"] = shown["snd"]
                  /\ Moved("rcv", {"waitStart", "chunks", "failed"})
                  /\ dest' \in Paths \cup {NoPath}
                  /\ dir' \in [Paths -> Content \cup {NoFile}]
                  /\ \A i \in SavedIds : dir'[saved[i]] = dir[saved[i]]
                  /\ pc'["rcv"] = "chunks" =>
                       /\ dest' \in Paths /\ dir'[dest'] \in Content
                       /\ \A i \in SavedIds : saved[i] # dest'
<1>3. ASSUME NEW id \in want, TakeFileStart(id) PROVE Out
  <2>1. Consume("rcv")
    BY <1>3 DEF TakeFileStart, Take
  <2>2. Holds(inbox', G) /\ Holds(pending', G)
    BY <1>1, <2>1, ConsumeHolds DEF ReceiverReady, Kinds
  <2>3. CASE CreateDest(id) /\ UNCHANGED <<wire, signaled>>
    <3>1. Queues(G)' /\ signaled' \in [Side -> BOOLEAN]
      BY <2>2, <2>3 DEF ReceiverReady, Queues, Core
    <3>2. QED
      BY <2>3, <3>1, CreateDestSound DEF Core, Moved
  <2>4. CASE ProtocolError("rcv") /\ NoEvent /\ UNCHANGED <<dest, dir>>
    <3>1. Holds(wire', G) /\ Core' /\ Moved("rcv", {"failed"})
      BY <1>1, <2>4, ProtocolErrorMoves DEF ReceiverReady
    <3>2. Events' /\ shown' = shown
      BY <2>4 DEF NoEvent, ReceiverReady, Events
    <3>3. QED
      BY <2>2, <2>4, <3>1, <3>2 DEF ReceiverReady, ReceiverTypeOK, Queues, Moved
  <2>5. QED
    BY <1>3, <2>3, <2>4 DEF TakeFileStart
<1>4. ASSUME WaitOther("rcv", {"file-start"}), NoEvent, UNCHANGED <<dest, dir>>
      PROVE  Out
  <2>1. Queues(G)' /\ Core' /\ Moved("rcv", {pc["rcv"], "failed"})
    BY <1>1, <1>4, WaitOtherMoves DEF ReceiverReady
  <2>2. Events' /\ shown' = shown
    BY <1>4 DEF NoEvent, ReceiverReady, Events
  <2>3. QED
    BY <1>2, <1>4, <2>1, <2>2 DEF ReceiverReady, ReceiverTypeOK, Moved
<1>5. Out
  BY <1>3, <1>4 DEF WaitFileStart
<1>6. Link' /\ SavedIds' = SavedIds
  BY <1>2 DEF ReceiverReady, Link, linkVars, SavedIds
<1>7. ReceiverTypeOK'
  BY <1>2, <1>5 DEF ReceiverReady, ReceiverTypeOK
<1>8. ReceiverSound'
  BY <1>2, <1>5, <1>6 DEF ReceiverReady, ReceiverSound, Moved, At
<1>9. QED
  BY <1>2, <1>5, <1>6, <1>7, <1>8, NothingSaved

\* Removing the partial file leaves the saved ones.
LEMMA RemovePartialSound ==
  ASSUME ReceiverTypeOK, ReceiverSound, At("rcv", "chunks"), RemovePartial
  PROVE  /\ dest' \in Paths \cup {NoPath}
         /\ dir' \in [Paths -> Content \cup {NoFile}]
         /\ \A id \in SavedIds : dir'[saved[id]] = dir[saved[id]]
BY DEF RemovePartial, ReceiverTypeOK, ReceiverSound, SavedIds

\* The outcomes of a step at the chunk loop that save no file.
ChunkOut(G) ==
  /\ Queues(G)' /\ Core' /\ Events' /\ shown'["snd"] = shown["snd"]
  /\ Moved("rcv", {"chunks", "failed"})
  /\ UNCHANGED <<want, saved>>
  /\ dest' \in Paths \cup {NoPath}
  /\ dir' \in [Paths -> Content \cup {NoFile}]
  /\ \A i \in SavedIds : dir'[saved[i]] = dir[saved[i]]
  /\ pc'["rcv"] = "chunks" => dest' = dest /\ dir'[dest] \in Content

\* A step that ends the session, removes the partial file and is quiet.
LEMMA ChunkFailure ==
  ASSUME NEW G, ReceiverReady(G), At("rcv", "chunks"),
         Queues(G)', Core', Moved("rcv", {"failed"}), RemovePartial,
         Events', shown'["snd"] = shown["snd"], UNCHANGED <<want, saved>>
  PROVE  ChunkOut(G)
<1>1. /\ dest' \in Paths \cup {NoPath}
      /\ dir' \in [Paths -> Content \cup {NoFile}]
      /\ \A id \in SavedIds : dir'[saved[id]] = dir[saved[id]]
  BY RemovePartialSound DEF ReceiverReady
<1>2. QED
  BY <1>1 DEF ChunkOut, Moved

LEMMA TakeChunkSound ==
  ASSUME NEW G, ReceiverReady(G), At("rcv", "chunks"),
         NEW id \in want, TakeChunk(id)
  PROVE  ChunkOut(G)
<1>1. Kinds(G) /\ "rcv" \in Side /\ "local" \in Errors
  BY KindIsKinds DEF ReceiverReady, Side, Errors
<1>2. Consume("rcv") /\ NextMsg("rcv").t = "chunk" /\ UNCHANGED <<want, saved>>
  BY DEF TakeChunk, Take
<1>3. /\ Holds(inbox', G) /\ Holds(pending', G)
      /\ NextMsg("rcv").data \in Content
  BY <1>1, <1>2, ConsumeHolds, MessageFields DEF ReceiverReady, Kinds
<1>4. Events' /\ shown' = shown
  BY DEF TakeChunk, NoEvent, ReceiverReady, Events
<1>5. CASE ProtocolError("rcv") /\ RemovePartial
  <2>1. Holds(wire', G) /\ Core' /\ Moved("rcv", {"failed"})
    BY <1>1, <1>5, ProtocolErrorMoves DEF ReceiverReady
  <2>2. QED
    BY <1>2, <1>3, <1>4, <1>5, <2>1, ChunkFailure DEF Queues
<1>6. CASE FailWith("rcv", "local") /\ RemovePartial /\ UNCHANGED <<wire, signaled>>
  <2>1. /\ pc' \in [Side -> Labels] /\ err' \in [Side -> Errors]
        /\ Moved("rcv", {"failed"})
    BY <1>1, <1>6, FailMoves DEF ReceiverReady
  <2>2. Queues(G)' /\ Core'
    BY <1>3, <1>6, <2>1 DEF ReceiverReady, Queues, Core
  <2>3. QED
    BY <1>2, <1>4, <1>6, <2>1, <2>2, ChunkFailure
<1>7. CASE /\ dir' = [dir EXCEPT ![dest] = dir[dest] \o NextMsg("rcv").data]
           /\ UNCHANGED <<pc, err, dest, wire, signaled>>
  <2>1. dest \in Paths /\ dir[dest] \in Content /\ \A i \in SavedIds : saved[i] # dest
    BY DEF ReceiverReady, ReceiverSound
  <2>2. dir[dest] \o NextMsg("rcv").data \in Content
    BY <1>3, <2>1, ConcatProperties DEF Content
  <2>3. /\ dir' \in [Paths -> Content \cup {NoFile}] /\ dir'[dest] \in Content
        /\ \A i \in SavedIds : dir'[saved[i]] = dir[saved[i]]
    BY <1>7, <2>1, <2>2 DEF ReceiverReady, ReceiverTypeOK, SavedIds
  <2>4. Queues(G)' /\ Core' /\ Moved("rcv", {"chunks", "failed"})
    BY <1>3, <1>7 DEF ReceiverReady, Queues, Core, Moved, At
  <2>5. QED
    BY <1>2, <1>4, <1>7, <2>1, <2>3, <2>4 DEF ChunkOut
<1>8. QED
  BY <1>5, <1>6, <1>7 DEF TakeChunk

\* The file is saved with the content its file-end claims, which is the
\* sender's; the ack that goes out is true.
LEMMA KeepSound ==
  ASSUME NEW G, ReceiverReady(G), At("rcv", "chunks"), NEW id \in want,
         Consume("rcv"), Keep(id), UNCHANGED <<linkVars, meta>>,
         dir[dest] = FileData(id, Size[id])
  PROVE  ReceiverResult
<1>1. /\ Kinds(G) /\ "rcv" \in Side /\ "snd" \in Side \ {"rcv"}
      /\ {"waitDone", "waitStart"} \subseteq Labels
  BY KindIsKinds DEF ReceiverReady, Side, Labels
<1>2. id \in Files /\ id \in Int /\ id \notin SavedIds
  BY MetasById, FilesAreInts
     DEF ReceiverReady, ReceiverTypeOK, ReceiverSound, NoEntries, At
<1>3. /\ saved' = [i \in DOMAIN saved \cup {id} |-> IF i = id THEN dest ELSE saved[i]]
      /\ dest' = NoPath /\ UNCHANGED <<dir, signaled>>
      /\ want' = want \/ want' = want \ {id}
      /\ CanSend("rcv") => want' = want \ {id}
  BY DEF Keep
<1>4. SavedIds' = SavedIds \cup {id}
  BY <1>3 DEF SavedIds
<1>5. PICK H : H = Kind(SavedIds \cup {id})
  OBVIOUS
<1>6. Kinds(H) /\ Queues(H)
  <2>1. SavedIds \subseteq SavedIds \cup {id}
    OBVIOUS
  <2>2. Holds(wire, H) /\ Holds(inbox, H) /\ Holds(pending, H)
    BY <1>5, <2>1, KindGrows DEF ReceiverReady, Queues
  <2>3. QED
    BY <1>5, <2>2, KindIsKinds DEF Queues
<1>7. FileAck(id, "ok") \in H[Peer("rcv")]
  BY <1>2, <1>5, ReceiverMessages DEF Kind, Peer, Side
<1>8. /\ Holds(wire', H) /\ pc' \in [Side -> Labels] /\ err' \in [Side -> Errors]
      /\ Moved("rcv", {"waitDone", "waitStart", "failed"})
      /\ ~CanSend("rcv") => pc'["rcv"] = "failed"
  <2>1. CASE want = {id}
    <3>1. Control("rcv", FileAck(id, "ok"), "waitDone")
      BY <2>1 DEF Keep
    <3>2. QED
      BY <1>1, <1>6, <1>7, <3>1, ControlMoves DEF ReceiverReady, Moved
  <2>2. CASE want # {id}
    <3>1. Control("rcv", FileAck(id, "ok"), "waitStart")
      BY <2>2 DEF Keep
    <3>2. QED
      BY <1>1, <1>6, <1>7, <3>1, ControlMoves DEF ReceiverReady, Moved
  <2>3. QED
    BY <2>1, <2>2
<1>9. Queues(H)' /\ Core' /\ Link'
  BY <1>1, <1>3, <1>6, <1>8, ConsumeHolds DEF ReceiverReady, Queues, Core, Link, linkVars, Kinds
<1>10. Events' /\ shown'["snd"] = shown["snd"]
  <2>1. CASE CanSend("rcv")
    BY <1>1, <1>2, <2>1, EmitTyped DEF Keep, ReceiverReady
  <2>2. CASE ~CanSend("rcv")
    BY <2>2 DEF Keep, NoEvent, ReceiverReady, Events
  <2>3. QED
    BY <2>1, <2>2
<1>11. Queues(Kind(SavedIds))'
  BY <1>4, <1>5, <1>9 DEF Queues
<1>12. dest \in Paths /\ \A i \in SavedIds : i \in DOMAIN saved'
                                             /\ saved'[i] = saved[i]
       /\ id \in DOMAIN saved' /\ saved'[id] = dest
  BY <1>2, <1>3 DEF ReceiverReady, ReceiverSound, SavedIds
<1>13. SavedIntact' /\ Kept
  BY <1>2, <1>3, <1>4, <1>12 DEF ReceiverReady, SavedIntact, Kept
<1>14. ReceiverTypeOK'
  BY <1>3, <1>4, <1>12 DEF ReceiverReady, ReceiverTypeOK, SavedIds
<1>15. ReceiverSound'
  <2>1. meta' = meta /\ pc'["rcv"] \in {"waitDone", "waitStart", "failed"}
    BY <1>8 DEF Moved
  <2>2. want \cap SavedIds = {}
    BY DEF ReceiverReady, ReceiverSound, At
  <2>3. pc'["rcv"] = "waitStart" => want' \cap SavedIds' = {}
    BY <1>3, <1>4, <1>8, <2>2
  <2>4. QED
    BY <2>1, <2>3 DEF ReceiverReady, ReceiverSound, At
<1>16. QED
  BY <1>8, <1>9, <1>10, <1>11, <1>13, <1>14, <1>15 DEF ReceiverResult, Moved, Side

LEMMA ChunkOutSound ==
  ASSUME NEW G, ReceiverReady(G), At("rcv", "chunks"), ChunkOut(G),
         UNCHANGED <<linkVars, meta>>
  PROVE  ReceiverResult
<1>1. Link' /\ SavedIds' = SavedIds
  BY DEF ReceiverReady, Link, linkVars, ChunkOut, SavedIds
<1>2. ReceiverTypeOK'
  BY DEF ReceiverReady, ReceiverTypeOK, ChunkOut
<1>3. ReceiverSound'
  BY <1>1 DEF ReceiverReady, ReceiverSound, ChunkOut, Moved, At
<1>4. QED
  BY <1>1, <1>2, <1>3, NothingSaved DEF ChunkOut

LEMMA TakeFileEndSound ==
  ASSUME NEW G, ReceiverReady(G), At("rcv", "chunks"), NEW id \in want,
         TakeFileEnd(id), UNCHANGED <<linkVars, meta>>
  PROVE  ReceiverResult
<1>1. /\ Kinds(G) /\ "rcv" \in Side /\ "snd" \in Side \ {"rcv"}
      /\ {"local", "hash-mismatch"} \subseteq Errors
  BY KindIsKinds DEF ReceiverReady, Side, Errors
<1>2. Consume("rcv") /\ NextMsg("rcv").t = "file-end"
  BY DEF TakeFileEnd, Take
<1>3. /\ Holds(inbox', G) /\ Holds(pending', G)
      /\ NextMsg("rcv") \in Sound("rcv", SavedIds)
  BY <1>1, <1>2, ConsumeHolds DEF ReceiverReady, Kind, Kinds
<1>4. id \in Files /\ id \in Int
  BY MetasById, FilesAreInts DEF ReceiverReady, ReceiverTypeOK, ReceiverSound, NoEntries
<1>5. CASE /\ ProtocolError("rcv") /\ RemovePartial
           /\ NoEvent /\ UNCHANGED <<want, saved>>
  <2>1. Holds(wire', G) /\ Core' /\ Moved("rcv", {"failed"})
    BY <1>1, <1>5, ProtocolErrorMoves DEF ReceiverReady
  <2>2. Events' /\ shown' = shown
    BY <1>5 DEF NoEvent, ReceiverReady, Events
  <2>3. Queues(G)'
    BY <1>3, <2>1 DEF Queues
  <2>4. QED
    BY <1>5, <2>1, <2>2, <2>3, ChunkFailure, ChunkOutSound
<1>6. CASE Mismatch(id)
  <2>1. FailWith("rcv", "hash-mismatch") /\ RemovePartial /\ UNCHANGED <<signaled, want, saved>>
    BY <1>6 DEF Mismatch
  <2>2. FileAck(id, "hash-mismatch") \in G[Peer("rcv")]
    BY <1>4, ReceiverMessages DEF ReceiverReady, Kind, Peer, Side
  <2>3. Holds(wire', G)
    <3>1. CASE CanSend("rcv")
      BY <1>1, <1>6, <2>2, <3>1, PostHolds DEF Mismatch, ReceiverReady, Kinds
    <3>2. CASE ~CanSend("rcv")
      BY <1>6, <3>2 DEF Mismatch, ReceiverReady, Queues
    <3>3. QED
      BY <3>1, <3>2
  <2>4. /\ pc' \in [Side -> Labels] /\ err' \in [Side -> Errors]
        /\ Moved("rcv", {"failed"})
    BY <1>1, <2>1, FailMoves DEF ReceiverReady
  <2>5. Queues(G)' /\ Core'
    BY <1>3, <2>1, <2>3, <2>4 DEF ReceiverReady, Queues, Core
  <2>6. Events' /\ shown'["snd"] = shown["snd"]
    BY <1>1, <1>4, <1>6, EmitTyped DEF Mismatch, ReceiverReady
  <2>7. QED
    BY <2>1, <2>4, <2>5, <2>6, ChunkFailure, ChunkOutSound
<1>7. CASE NextMsg("rcv").id = id /\ NextMsg("rcv").sha256 = dir[dest] /\ Keep(id)
  <2>1. dir[dest] = FileData(id, Size[id])
    BY <1>2, <1>3, <1>7 DEF Sound
  <2>2. QED
    BY <1>2, <1>7, <2>1, KeepSound
<1>8. CASE /\ FailWith("rcv", "local") /\ RemovePartial
           /\ NoEvent /\ UNCHANGED <<wire, signaled, want, saved>>
  <2>1. /\ pc' \in [Side -> Labels] /\ err' \in [Side -> Errors]
        /\ Moved("rcv", {"failed"})
    BY <1>1, <1>8, FailMoves DEF ReceiverReady
  <2>2. Queues(G)' /\ Core' /\ Events' /\ shown' = shown
    BY <1>3, <1>8, <2>1 DEF NoEvent, ReceiverReady, Queues, Core, Events
  <2>3. QED
    BY <1>8, <2>1, <2>2, ChunkFailure, ChunkOutSound
<1>9. QED
  BY <1>5, <1>6, <1>7, <1>8 DEF TakeFileEnd

LEMMA ReceiveChunksSound ==
  ASSUME NEW G, ReceiverReady(G), ReceiveChunks
  PROVE  ReceiverResult
<1>1. At("rcv", "chunks") /\ UNCHANGED <<linkVars, meta>>
  BY DEF ReceiveChunks
<1>2. ASSUME NEW id \in want, TakeChunk(id) PROVE ReceiverResult
  BY <1>1, <1>2, TakeChunkSound, ChunkOutSound
<1>3. ASSUME NEW id \in want, TakeFileEnd(id) PROVE ReceiverResult
  BY <1>1, <1>3, TakeFileEndSound
<1>4. CASE NoChunk
  <2>1. Kinds(G) /\ "rcv" \in Side
    BY KindIsKinds DEF ReceiverReady, Side
  <2>2. Queues(G)' /\ Core' /\ Moved("rcv", {pc["rcv"], "failed"})
    BY <1>4, <2>1, WaitOtherMoves DEF NoChunk, ReceiverReady
  <2>3. /\ UNCHANGED <<want, saved>> /\ shown' = shown /\ Events'
    BY <1>4 DEF NoChunk, NoEvent, ReceiverReady, Events
  <2>4. CASE pc'["rcv"] = "chunks"
    <3>1. UNCHANGED <<dest, dir>>
      BY <1>4, <2>4 DEF NoChunk, At
    <3>2. ChunkOut(G)
      BY <1>1, <2>2, <2>3, <2>4, <3>1
         DEF ChunkOut, ReceiverReady, ReceiverTypeOK, ReceiverSound, Moved, At
    <3>3. QED
      BY <1>1, <3>2, ChunkOutSound
  <2>5. CASE pc'["rcv"] # "chunks"
    <3>1. RemovePartial /\ Moved("rcv", {"failed"})
      BY <1>1, <1>4, <2>2, <2>5 DEF NoChunk, At, Moved
    <3>2. QED
      BY <1>1, <2>2, <2>3, <3>1, ChunkFailure, ChunkOutSound
  <2>6. QED
    BY <2>4, <2>5
<1>5. QED
  BY <1>2, <1>3, <1>4 DEF ReceiveChunks

LEMMA WaitDoneSound ==
  ASSUME NEW G, ReceiverReady(G), WaitDone
  PROVE  ReceiverResult
<1>1. /\ Kinds(G) /\ "rcv" \in Side /\ "nil" \in Errors /\ "returned" \in Labels
      /\ pc["rcv"] = "waitDone" /\ UNCHANGED <<rcvVars, chan, closed, ctx>>
  BY KindIsKinds DEF ReceiverReady, Side, Errors, Labels, WaitDone, At
<1> DEFINE Out == /\ Queues(G)' /\ Core' /\ Link' /\ Events' /\ shown' = shown
                  /\ Moved("rcv", {"waitDone", "failed", "returned"})
<1>2. ASSUME Take("rcv", {"done"}), Succeed("rcv"), UNCHANGED <<wire, signaled>>
      PROVE  Out
  <2>1. Holds(inbox', G) /\ Holds(pending', G)
    BY <1>1, <1>2, ConsumeHolds DEF Take, ReceiverReady, Kinds
  <2>2. Events' /\ shown' = shown
    BY <1>2 DEF Succeed, EmitFinal, ReceiverReady, Events
  <2>3. Core' /\ Moved("rcv", {"returned"})
    BY <1>1, <1>2 DEF Succeed, ReceiverReady, Core, Moved
  <2>4. Link'
    BY <1>1, <1>2 DEF Succeed, ReceiverReady, Link
  <2>5. QED
    BY <1>2, <2>1, <2>2, <2>3, <2>4 DEF ReceiverReady, Queues, Moved
<1>3. ASSUME WaitOther("rcv", {"done"}), NoEvent, UNCHANGED pump PROVE Out
  <2>1. Queues(G)' /\ Core' /\ Moved("rcv", {"waitDone", "failed"})
    BY <1>1, <1>3, WaitOtherMoves DEF ReceiverReady
  <2>2. Events' /\ shown' = shown
    BY <1>3 DEF NoEvent, ReceiverReady, Events
  <2>3. Link'
    BY <1>1, <1>3 DEF ReceiverReady, Link
  <2>4. QED
    BY <2>1, <2>2, <2>3 DEF Moved
<1>4. Out
  BY <1>2, <1>3 DEF WaitDone
<1>5. pc'["rcv"] \in {"waitDone", "failed", "returned"}
  BY <1>4 DEF Moved
<1>6. QED
  BY <1>1, <1>4, <1>5, DirectoryUntouched DEF rcvVars

LEMMA ReceiverBothSidesSound ==
  ASSUME NEW G, ReceiverReady(G), BothSides("rcv"), UNCHANGED rcvVars
  PROVE  ReceiverResult
<1>1. Kinds(G) /\ "rcv" \in Side
  BY KindIsKinds DEF ReceiverReady, Side
<1>2. /\ Queues(G)' /\ Core' /\ Link' /\ Events' /\ shown' = shown
      /\ Moved("rcv", {"hello", "waitHello", "waitManifest", "failed", "returned", "closed"})
  BY <1>1, BothSidesMoves DEF ReceiverReady, AfterHello
<1>3. pc'["rcv"] \in {"hello", "waitHello", "waitManifest"} => SavedIds = {}
  <2>1. pc'["rcv"] \in {"hello", "waitHello", "waitManifest"} =>
          pc["rcv"] \in {"init", "hello", "waitHello"}
    <3>1. pc \in [Side -> Labels] /\ AfterHello("rcv") = "waitManifest"
      BY DEF ReceiverReady, Core, AfterHello
    <3>2. CASE NewSession("rcv") \/ SendHello("rcv") \/ WaitHello("rcv")
      BY <3>2 DEF NewSession, SendHello, WaitHello, At
    <3>3. CASE Abort("rcv") \/ CloseConn("rcv")
      BY <1>1, <3>1, <3>3 DEF Abort, CloseConn, GoTo
    <3>4. QED
      BY <3>2, <3>3 DEF BothSides
  <2>2. QED
    BY <2>1 DEF ReceiverReady, ReceiverSound
<1>4. pc'["rcv"] \in {"hello", "waitHello", "waitManifest", "failed", "returned", "closed"}
  BY <1>2 DEF Moved
<1>5. QED
  BY <1>2, <1>3, <1>4, DirectoryUntouched DEF rcvVars

LEMMA ReceiverNextSound ==
  ASSUME NEW G, ReceiverReady(G), ReceiverNext
  PROVE  ReceiverResult
BY ReceiverBothSidesSound, NoDestinationSound, WaitManifestSound, DecideSound,
   WaitFileStartSound, ReceiveChunksSound, WaitDoneSound
   DEF ReceiverNext

-----------------------------------------------------------------------------
(* The whole system.                                                       *)

\* MessagesSound in the words of SessionProofs.
LEMMA QueuesAreSound ==
  ASSUME SessionTypeOK
  PROVE  MessagesSound <=> Queues(Kind(SavedIds))
<1>1. \A s \in Side : Kind(SavedIds)[s] = Sound(s, SavedIds)
  BY DEF Kind
<1>2. QED
  BY <1>1 DEF MessagesSound, Flying, Queues, Holds, SessionTypeOK

\* The parts of Inductive the two sides' lemmas work on.
Parts ==
  /\ Queues(Kind(SavedIds)) /\ Core /\ Link /\ Events
  /\ SenderTypeOK /\ SenderSound
  /\ ReceiverTypeOK /\ ReceiverSound
  /\ SavedIntact /\ AckedIsSaved

LEMMA InductiveParts == Inductive <=> Parts
<1>1. ASSUME Inductive PROVE Parts
  <2>1. Queues(Kind(SavedIds))
    BY <1>1, QueuesAreSound DEF Inductive, TypeOK
  <2>2. QED
    BY <1>1, <2>1 DEF Inductive, TypeOK, SessionTypeOK, Parts, Core, Link, Events
<1>2. ASSUME Parts PROVE Inductive
  <2>1. SessionTypeOK
    BY <1>2, SessionTyped DEF Parts
  <2>2. MessagesSound
    BY <1>2, <2>1, QueuesAreSound DEF Parts
  <2>3. QED
    BY <1>2, <2>1, <2>2 DEF Inductive, TypeOK, Parts
<1>3. QED
  BY <1>1, <1>2

LEMMA InitParts == Init => Parts
<1> SUFFICES ASSUME Init PROVE Parts
  OBVIOUS
<1>1. Queues(Kind(SavedIds))
  <2>1. \A s \in Side : <<>> \in Seq(Kind(SavedIds)[s]) /\ <<>> \in Seq(Message)
    BY EmptySeq
  <2>2. QED
    BY <2>1 DEF Init, SessionInit, Queues, Holds
<1>2. Core /\ Link /\ Events
  BY DEF Init, SessionInit, Core, Link, Events, Labels, Errors
<1>3. SenderTypeOK /\ SenderSound
  <2>1. disk \in [Files -> Nat]
    BY SizesAreNat, SenderAssumption DEF Init, SenderInit
  <2>2. 0 \in Files /\ 0 \in 0..ChunkSize
    BY FilesAreInts, SenderAssumption
  <2>3. QED
    BY <2>1, <2>2 DEF Init, SenderInit, SessionInit, SenderTypeOK, SenderSound, At, Side
<1>4. DOMAIN meta = {} /\ DOMAIN saved = {} /\ SavedIds = {}
  BY DEF Init, ReceiverInit, NoEntries, SavedIds
<1>5. ReceiverTypeOK
  BY <1>4, ReceiverAssumption DEF Init, ReceiverInit, ReceiverTypeOK
<1>6. ReceiverSound
  BY <1>4 DEF Init, ReceiverInit, SessionInit, ReceiverSound, At, Side
<1>7. SavedIntact /\ AckedIsSaved
  BY <1>4 DEF Init, SenderInit, SessionInit, SavedIntact, AckedIsSaved, Emitted, Acked, Side
<1>8. QED
  BY <1>1, <1>2, <1>3, <1>5, <1>6, <1>7 DEF Parts

\* Steps of the network and the users touch neither side's account.
LEMMA OutsideKeeps ==
  ASSUME Parts, UNCHANGED <<sndVars, rcvVars>>,
         Queues(Kind(SavedIds)) => Queues(Kind(SavedIds))',
         Core', Link', Events', UNCHANGED <<pc, shown>>
  PROVE  Parts' /\ Kept
<1>1. SavedIds' = SavedIds /\ Acked' = Acked
  BY DEF rcvVars, sndVars, SavedIds, Acked
<1>2. SenderTypeOK' /\ SenderSound'
  BY DEF Parts, sndVars, SenderTypeOK, SenderSound, At
<1>3. ReceiverTypeOK' /\ ReceiverSound'
  BY <1>1 DEF Parts, rcvVars, ReceiverTypeOK, ReceiverSound, At
<1>4. SavedIntact' /\ AckedIsSaved' /\ Kept
  BY <1>1 DEF Parts, rcvVars, SavedIntact, AckedIsSaved, Emitted, Kept, SavedIds
<1>5. QED
  BY <1>1, <1>2, <1>3, <1>4 DEF Parts

LEMMA NextParts == Parts /\ [Next]_vars => Parts' /\ Kept
<1> SUFFICES ASSUME Parts, [Next]_vars PROVE Parts' /\ Kept
  OBVIOUS
<1>1. PICK G : G = Kind(SavedIds)
  OBVIOUS
<1>2. Kinds(G) /\ Queues(G)
  BY <1>1, KindIsKinds DEF Parts
<1>3. CASE SenderStep
  <2>1. SenderReady(G)
    BY <1>1 DEF Parts, SenderReady
  <2>2. SenderResult(G)
    BY <1>3, <2>1, SenderNextSound DEF SenderStep
  <2>3. UNCHANGED rcvVars /\ SavedIds' = SavedIds
    BY <1>3 DEF SenderStep, rcvVars, SavedIds
  <2>4. Queues(Kind(SavedIds))'
    BY <1>1, <2>2, <2>3 DEF SenderResult, Queues
  <2>5. ReceiverTypeOK' /\ ReceiverSound'
    BY <2>2, <2>3 DEF Parts, SenderResult, rcvVars, ReceiverTypeOK, ReceiverSound, At
  <2>6. SavedIntact' /\ Kept
    BY <2>3 DEF Parts, rcvVars, SavedIntact, Kept, SavedIds
  <2>7. QED
    BY <2>2, <2>4, <2>5, <2>6 DEF SenderResult, Parts
<1>4. CASE ReceiverStep
  <2>1. ReceiverReady(G)
    BY <1>1 DEF Parts, ReceiverReady
  <2>2. ReceiverResult
    BY <1>4, <2>1, ReceiverNextSound DEF ReceiverStep
  <2>3. UNCHANGED sndVars /\ Acked' = Acked
    BY <1>4 DEF ReceiverStep, sndVars, Acked
  <2>4. SenderTypeOK' /\ SenderSound'
    BY <2>2, <2>3 DEF Parts, ReceiverResult, sndVars, SenderTypeOK, SenderSound, At
  <2>5. SavedIds \subseteq SavedIds'
    BY <2>2 DEF ReceiverResult, Kept, SavedIds
  <2>6. AckedIsSaved'
    BY <2>2, <2>3, <2>5 DEF Parts, ReceiverResult, AckedIsSaved, Emitted
  <2>7. QED
    BY <2>2, <2>4, <2>6 DEF ReceiverResult, Parts
<1>5. CASE NetworkStep
  <2>1. PICK s \in Side : Network(s) /\ UNCHANGED <<sndVars, rcvVars>>
    BY <1>5 DEF NetworkStep
  <2>2. Queues(G)' /\ Core' /\ Link' /\ Events' /\ UNCHANGED <<pc, shown>>
    BY <1>2, <2>1, NetworkMoves DEF Parts, Kinds
  <2>3. SavedIds' = SavedIds
    BY <2>1 DEF rcvVars, SavedIds
  <2>4. Queues(Kind(SavedIds))'
    BY <1>1, <2>2, <2>3 DEF Queues
  <2>5. QED
    BY <2>1, <2>2, <2>4, OutsideKeeps
<1>6. CASE UserStep
  <2>1. CASE \E s \in Side : CancelCtx(s) /\ UNCHANGED <<sndVars, rcvVars>>
    <3>1. PICK s \in Side : CancelCtx(s) /\ UNCHANGED <<sndVars, rcvVars>>
      BY <2>1
    <3>2. Queues(G)' /\ Core' /\ Link' /\ Events' /\ UNCHANGED <<pc, shown>>
      BY <1>2, <3>1, CancelCtxMoves DEF Parts
    <3>3. SavedIds' = SavedIds
      BY <3>1 DEF rcvVars, SavedIds
    <3>4. Queues(Kind(SavedIds))'
      BY <1>1, <3>2, <3>3 DEF Queues
    <3>5. QED
      BY <3>1, <3>2, <3>4, OutsideKeeps
  <2>2. CASE ChangeFile /\ UNCHANGED rcvVars
    <3>1. /\ UNCHANGED <<linkVars, sessionVars, rcvVars, accepted, todo, cur, sent, buf>>
          /\ SavedIds' = SavedIds /\ Acked' = Acked
      BY <2>2 DEF ChangeFile, rcvVars, SavedIds, Acked
    <3>2. disk' \in [Files -> Nat]
      BY <2>2, SenderAssumption DEF ChangeFile, Parts, SenderTypeOK
    <3>3. Queues(Kind(SavedIds))' /\ Core' /\ Link' /\ Events'
      BY <3>1 DEF Parts, Queues, Holds, Core, Link, Events, linkVars, sessionVars
    <3>4. SenderTypeOK' /\ SenderSound'
      BY <3>1, <3>2 DEF Parts, sessionVars, SenderTypeOK, SenderSound, At
    <3>5. ReceiverTypeOK' /\ ReceiverSound'
      BY <3>1 DEF Parts, sessionVars, rcvVars, ReceiverTypeOK, ReceiverSound, At
    <3>6. SavedIntact' /\ AckedIsSaved' /\ Kept
      BY <3>1 DEF Parts, sessionVars, rcvVars, SavedIntact, AckedIsSaved, Emitted, Kept, SavedIds
    <3>7. QED
      BY <3>3, <3>4, <3>5, <3>6 DEF Parts
  <2>3. QED
    BY <1>6, <2>1, <2>2 DEF UserStep
<1>7. CASE UNCHANGED vars
  <2>1. UNCHANGED <<linkVars, sessionVars, sndVars, rcvVars>>
    BY <1>7 DEF vars
  <2>2. SavedIds' = SavedIds /\ UNCHANGED <<pc, shown, wire, inbox, pending>>
    BY <2>1 DEF rcvVars, sessionVars, SavedIds
  <2>3. Queues(Kind(SavedIds))' /\ Core' /\ Link' /\ Events'
    BY <2>1, <2>2 DEF Parts, Queues, Holds, Core, Link, Events, linkVars, sessionVars
  <2>4. QED
    BY <2>1, <2>2, <2>3, OutsideKeeps
<1>8. QED
  BY <1>3, <1>4, <1>5, <1>6, <1>7 DEF Next

\* Every step of either program, the channel and the users preserves the
\* conjunction of the types, the truth of the messages under way, and what
\* each side believes.
THEOREM InductiveInvariant == Spec => []Inductive
<1>1. Init => Inductive
  BY InitParts, InductiveParts
<1>2. Inductive /\ [Next]_vars => Inductive'
  <2>1. Inductive' <=> Parts'
    BY InductiveParts, PTL
  <2>2. QED
    BY <2>1, InductiveParts, NextParts
<1>3. QED
  BY <1>1, <1>2, PTL DEF Spec

\* The variables have their types, in particular no length or id ever
\* leaves its range, for all constants.
THEOREM TypeCorrect == Spec => []TypeOK
BY InductiveInvariant, PTL DEF Inductive

\* A file Receive keeps is the file Send declared, however the two sides,
\* the channel, cancellations, failures and changes of the file interleave.
THEOREM SavedFilesAreIntact == Spec => []SavedIntact
BY InductiveInvariant, PTL DEF Inductive

\* Send never counts, or reports, a file that Receive has not kept.
THEOREM AcksAreTrue == Spec => []AckedIsSaved
BY InductiveInvariant, PTL DEF Inductive

\* What Receive has kept no later step of the transfer moves, changes or
\* removes.
THEOREM SavedFilesStay == Spec => SavedForever
<1>1. Inductive /\ [Next]_vars =>
        [\A id \in SavedIds : /\ id \in DOMAIN saved'
                              /\ saved'[id] = saved[id]
                              /\ dir'[saved[id]] = dir[saved[id]]]_vars
  BY InductiveParts, NextParts DEF Kept
<1>2. QED
  BY <1>1, InductiveInvariant, PTL DEF Spec, SavedForever

-----------------------------------------------------------------------------
(* The inductive invariant.                                                *)

Early      == {"init", "hello", "waitHello", "waitManifest", "decide"}
Unanswered == {"init", "hello", "waitHello", "manifest", "waitReply"}
Busy       == {"open", "loop", "read", "write", "fileEnd", "waitAck"}

Chosen   == want \cup SavedIds
SenderOk == err["snd"] = "nil"

\* An accept on its way names what the receiver chose; a done is on its way
\* only from a sender that has succeeded.
Said(s, ids, ok) ==
  {m \in Message :
     IF s = "snd" THEN m.t = "accept" => ids # {} /\ ResolveAccept(m.ids, NumFiles) = ids
                  ELSE m.t = "done" => ok}
Word(ids, ok) == [s \in Side |-> Said(s, ids, ok)]

\* Nobody has an outcome before its call is over.
Outcomes == \A s \in Side : pc[s] \notin Ended => err[s] = "none"

\* Both sides agree on what was chosen, as soon as both know.
Choices ==
  /\ pc["rcv"] \in Early => want = {}
  /\ pc["snd"] \in Unanswered => accepted = {}
  /\ pc["snd"] \in Busy \cup {"nextFile"} => accepted # {} /\ accepted = Chosen
  /\ pc["snd"] \in Busy => IsNext(cur, todo)

Ledger == Outcomes /\ Choices /\ Queues(Word(Chosen, SenderOk))

-----------------------------------------------------------------------------
(* Messages.                                                               *)

LEMMA WordIsKinds ==
  ASSUME NEW ids, NEW ok
  PROVE  /\ Kinds(Word(ids, ok))
         /\ \A s \in Side : Plain \subseteq Word(ids, ok)[s]
<1>1. Common \subseteq Plain
  BY CommonMessages DEF Common, Plain, Hello, Cancel, ErrorMsg
<1>2. \A s \in Side : Plain \subseteq Said(s, ids, ok) /\ Said(s, ids, ok) \subseteq Message
  BY DEF Plain, Said
<1>3. QED
  BY <1>1, <1>2 DEF Kinds, Word, Typed

\* What was true of what is under way stays true once files are chosen or
\* the sender has succeeded.
LEMMA WordGrows ==
  ASSUME NEW ids, NEW ok, NEW more, NEW then, ids = {} \/ more = ids, ok => then,
         NEW q, Holds(q, Word(ids, ok))
  PROVE  Holds(q, Word(more, then))
<1>1. ASSUME NEW s \in Side PROVE q[s] \in Seq(Word(more, then)[s])
  <2>1. Said(s, ids, ok) \subseteq Said(s, more, then)
    BY DEF Said
  <2>2. QED
    BY <2>1, SeqMonotonic DEF Holds, Word
<1>2. QED
  BY <1>1 DEF Holds

-----------------------------------------------------------------------------
(* The sender.                                                             *)

\* One step of Delivery, or none.
DStep == [Promise!DNext]_(Promise!dvars)

\* A step of the sender that tells it of no file: at most it fails.
LEMMA SenderAside ==
  ASSUME Ledger, Core, UNCHANGED rcvVars, UNCHANGED <<accepted, todo>>,
         NEW L, Plays("snd", L),
         pc'["snd"] \in Unanswered => pc["snd"] \in Unanswered,
         pc'["snd"] \in Busy \cup {"nextFile"} => pc["snd"] \in Busy \cup {"nextFile"},
         pc'["snd"] \in Busy => IsNext(cur', todo)
  PROVE  Ledger' /\ DStep
<1>1. PICK W : W = Word(Chosen, SenderOk)
  OBVIOUS
<1>2. Queues(W)'
  <2>1. Kinds(W) /\ Plain \subseteq W[Peer("snd")] /\ "snd" \in Side
    BY <1>1, WordIsKinds, PeerSide DEF Side
  <2>2. QED
    BY <1>1, <2>1, SpeaksHolds DEF Ledger, Plays
<1>3. Chosen' = Chosen /\ SavedIds' = SavedIds /\ Acked' = Acked
  BY DEF rcvVars, Chosen, SavedIds, Acked
<1>4. /\ pc'["rcv"] = pc["rcv"] /\ err'["rcv"] = err["rcv"]
      /\ SenderOk' = SenderOk
  BY DEF Plays, Fares, Side, SenderOk, Ledger, Outcomes
<1>5. Queues(Word(Chosen, SenderOk))'
  BY <1>1, <1>2, <1>3, <1>4 DEF Queues
<1>6. Outcomes' /\ Choices'
  BY <1>3, <1>4 DEF Ledger, Outcomes, Choices, Plays, Fares, Side, rcvVars
<1>7. DStep
  BY <1>3, <1>4 DEF DStep, Promise!DNext, Promise!dvars, Promise!SenderFails,
                    Outcome, Plays, Fares, Ledger, Outcomes, Side, Chosen
<1>8. QED
  BY <1>5, <1>6, <1>7 DEF Ledger

\* While it works on a file the sender's account stands still.
LEMMA SenderWorks ==
  ASSUME Ledger, Core, UNCHANGED rcvVars, UNCHANGED <<accepted, todo, cur>>,
         pc["snd"] \in Busy, Plays("snd", Busy \cup {"failed"})
  PROVE  Ledger' /\ DStep
<1>1. pc'["snd"] \notin Unanswered
  BY DEF Plays, Busy, Unanswered
<1>2. IsNext(cur', todo)
  BY DEF Ledger, Choices
<1>3. QED
  BY <1>1, <1>2, SenderAside

LEMMA SendManifestKeeps ==
  ASSUME Parts, Ledger, UNCHANGED rcvVars, SendManifest
  PROVE  Ledger' /\ DStep
<1>1. Manifest(Metas) \in Plain
  BY MetasTyped DEF Manifest, Plain, Message
<1>2. /\ pc["snd"] = "manifest" /\ Control("snd", Manifest(Metas), "waitReply")
      /\ NoInput /\ UNCHANGED sndVars
  BY DEF SendManifest, At
<1>3. Plays("snd", {"waitReply", "failed"})
  BY <1>1, <1>2, ControlFares DEF Parts, Side, Ended, Plays, Speaks
<1>4. UNCHANGED <<accepted, todo>>
  BY <1>2 DEF sndVars
<1>5. pc["snd"] \in Unanswered /\ pc'["snd"] \notin Busy \cup {"nextFile"}
  BY <1>2, <1>3 DEF Unanswered, Busy, Plays
<1>6. QED
  BY <1>3, <1>4, <1>5, SenderAside DEF Parts

LEMMA SenderBothSidesKeeps ==
  ASSUME Parts, Ledger, UNCHANGED rcvVars, BothSides("snd"), UNCHANGED sndVars
  PROVE  Ledger' /\ DStep
<1>1. /\ Plays("snd", {"hello", "waitHello", "manifest"} \cup Ended)
      /\ pc'["snd"] \notin Ended => pc["snd"] \in {"init", "hello", "waitHello"}
  BY BothSidesFares DEF Parts, Side, AfterHello
<1>2. /\ pc'["snd"] \in Unanswered => pc["snd"] \in Unanswered
      /\ pc'["snd"] \notin Busy \cup {"nextFile"}
  BY <1>1 DEF Plays, Ended, Unanswered, Busy
<1>3. UNCHANGED <<accepted, todo>>
  BY DEF sndVars
<1>4. QED
  BY <1>1, <1>2, <1>3, SenderAside DEF Parts

\* The reply names what the receiver chose.
LEMMA WaitReplyKeeps ==
  ASSUME Parts, Ledger, UNCHANGED rcvVars, WaitReply
  PROVE  Ledger' /\ DStep
<1>1. pc["snd"] = "waitReply" /\ "snd" \in Side /\ pc["snd"] \notin Ended
  BY DEF WaitReply, At, Side, Ended
<1>2. pc["snd"] \in Unanswered
  BY <1>1 DEF Unanswered
<1>3. ASSUME Plays("snd", {"waitReply", "failed"}), UNCHANGED <<accepted, todo>>
      PROVE  Ledger' /\ DStep
  <2>1. pc'["snd"] \notin Busy \cup {"nextFile"}
    BY <1>3 DEF Plays, Busy
  <2>2. QED
    BY <1>2, <1>3, <2>1, SenderAside DEF Parts
<1>4. CASE TakeAccept /\ ValidAccept(NextMsg("snd").ids, NumFiles)
  <2>1. /\ Consume("snd") /\ NextMsg("snd").t = "accept"
        /\ accepted' = ResolveAccept(NextMsg("snd").ids, NumFiles) /\ todo' = accepted'
        /\ GoTo("snd", "nextFile") /\ UNCHANGED wire
    BY <1>4 DEF TakeAccept, Take
  <2>2. Kinds(Word(Chosen, SenderOk)) /\ Plain \subseteq Word(Chosen, SenderOk)[Peer("snd")]
    BY WordIsKinds, PeerSide, <1>1
  <2>3. NextMsg("snd") \in Word(Chosen, SenderOk)["snd"]
    BY <1>1, <2>1, <2>2, ConsumeHolds DEF Ledger, Queues, Kinds
  <2>4. Chosen # {} /\ accepted' = Chosen
    BY <1>1, <2>1, <2>3 DEF Word, Said
  <2>5. Fares("snd") /\ pc'["snd"] = "nextFile"
    BY <1>1, <2>1, GoToFares DEF Parts, Ended
  <2>6. Chosen' = Chosen /\ SavedIds' = SavedIds /\ SenderOk' = SenderOk /\ err' = err
    BY <2>1 DEF rcvVars, Chosen, SavedIds, GoTo, SenderOk
  <2>7. Acked = {} /\ Acked' = {}
    BY <1>2, <2>1 DEF Ledger, Choices, Acked
  <2>8. PICK W : W = Word(Chosen, SenderOk)
    OBVIOUS
  <2>9. Queues(W)'
    <3>1. Speaks("snd", Plain)
      BY <2>1 DEF Speaks
    <3>2. QED
      BY <1>1, <2>2, <2>8, <3>1, SpeaksHolds DEF Ledger
  <2>10. Queues(Word(Chosen, SenderOk))'
    BY <2>6, <2>8, <2>9 DEF Queues
  <2>11. Outcomes' /\ Choices'
    BY <1>1, <2>4, <2>5, <2>6 DEF Ledger, Outcomes, Choices, Fares, Side, rcvVars,
                                 Ended, Early, Unanswered, Busy
  <2>12. DStep
    BY <2>6, <2>7 DEF DStep, Promise!dvars, Outcome, Chosen
  <2>13. QED
    BY <2>10, <2>11, <2>12 DEF Ledger
<1>5. CASE TakeAccept /\ ~ValidAccept(NextMsg("snd").ids, NumFiles)
  <2>1. Consume("snd") /\ ProtocolError("snd") /\ UNCHANGED <<accepted, todo>>
    BY <1>5 DEF TakeAccept, Take
  <2>2. QED
    BY <1>1, <1>3, <2>1, ProtocolErrorFares DEF Parts, Plays, Speaks
<1>6. CASE TakeReject
  <2>1. /\ Consume("snd") /\ FailWith("snd", "rejected") /\ UNCHANGED wire
        /\ UNCHANGED <<accepted, todo>>
    BY <1>6 DEF TakeReject, Take
  <2>2. QED
    BY <1>1, <1>3, <2>1, FailFares DEF Parts, Plays, Speaks
<1>7. CASE WaitOther("snd", {"accept", "reject"}) /\ UNCHANGED <<accepted, todo>>
  BY <1>1, <1>3, <1>7, WaitOtherFares DEF Parts
<1>8. QED
  BY <1>4, <1>5, <1>6, <1>7 DEF WaitReply

LEMMA StartFileKeeps ==
  ASSUME Parts, Ledger, UNCHANGED rcvVars, StartFile
  PROVE  Ledger' /\ DStep
<1>1. /\ pc["snd"] = "nextFile" /\ NoInput /\ UNCHANGED <<accepted, todo>>
      /\ pc["snd"] \notin Ended /\ "snd" \in Side
  BY DEF StartFile, At, Ended, Side
<1>2. PICK id \in todo : /\ IsNext(id, todo) /\ cur' = id
                         /\ Control("snd", FileStart(id), "open")
  BY DEF StartFile
<1>3. FileStart(id) \in Plain
  <2>1. id \in Int
    BY <1>2, FilesAreInts DEF Parts, SenderTypeOK
  <2>2. QED
    BY <2>1 DEF FileStart, Plain, Message
<1>4. Plays("snd", {"open", "failed"})
  BY <1>1, <1>2, <1>3, ControlFares DEF Parts, Ended, Plays, Speaks
<1>5. pc'["snd"] \notin Unanswered
  BY <1>4 DEF Plays, Unanswered
<1>6. QED
  BY <1>1, <1>2, <1>4, <1>5, SenderAside DEF Parts

LEMMA OpenFileKeeps ==
  ASSUME Parts, Ledger, UNCHANGED rcvVars, OpenFile
  PROVE  Ledger' /\ DStep
<1>1. /\ pc["snd"] = "open" /\ NoInput /\ UNCHANGED wire
      /\ UNCHANGED <<accepted, todo, cur>> /\ "snd" \in Side
      /\ pc["snd"] \in Busy /\ "loop" \in Busy
  BY DEF OpenFile, At, sndVars, Busy, Side
<1>2. Fares("snd") /\ pc'["snd"] \in Busy \cup {"failed"}
  BY <1>1, GoToFares, FailFares DEF OpenFile, Parts, Ended
<1>3. QED
  BY <1>1, <1>2, SenderWorks DEF Plays, Speaks, Parts

LEMMA PollKeeps ==
  ASSUME Parts, Ledger, UNCHANGED rcvVars, Poll
  PROVE  Ledger' /\ DStep
<1>1. /\ pc["snd"] = "loop" /\ UNCHANGED <<accepted, todo, cur>> /\ "snd" \in Side
      /\ pc["snd"] \in Busy /\ "read" \in Busy
      /\ pc["snd"] \notin Ended /\ "read" \notin Ended
  BY DEF Poll, At, sndVars, Busy, Side, Ended
<1> DEFINE Out == Plays("snd", Busy \cup {"failed"})
<1>2. ASSUME FailWith("snd", "ctx"), NoInput, UNCHANGED wire PROVE Out
  BY <1>1, <1>2, FailFares DEF Parts, Plays, Speaks
<1>3. ASSUME GoTo("snd", "read"), NoInput, UNCHANGED wire PROVE Out
  BY <1>1, <1>3, GoToFares DEF Parts, Plays, Speaks
<1>4. ASSUME MidSendCheck PROVE Out
  <2>1. CASE TakeTerminal("snd")
    BY <1>1, <2>1, TakeTerminalFares DEF Parts, Plays
  <2>2. CASE Take("snd", {"unknown"}) /\ GoTo("snd", "read") /\ UNCHANGED wire
    BY <1>1, <2>2, GoToFares DEF Parts, Take, Plays, Speaks
  <2>3. CASE Take("snd", {"chunk", "malformed"}) /\ ProtocolError("snd")
    BY <1>1, <2>3, ProtocolErrorFares DEF Parts, Take, Plays, Speaks
  <2>4. CASE Defer("snd") /\ GoTo("snd", "read") /\ UNCHANGED wire
    BY <1>1, <2>4, GoToFares DEF Parts, Plays, Speaks
  <2>5. QED
    BY <1>4, <2>1, <2>2, <2>3, <2>4 DEF MidSendCheck
<1>5. Out
  BY <1>2, <1>3, <1>4 DEF Poll
<1>6. QED
  BY <1>1, <1>5, SenderWorks DEF Parts

LEMMA ReadFileKeeps ==
  ASSUME Parts, Ledger, UNCHANGED rcvVars, ReadFile
  PROVE  Ledger' /\ DStep
<1>1. /\ pc["snd"] = "read" /\ NoInput /\ UNCHANGED wire
      /\ UNCHANGED <<accepted, todo, cur>> /\ "snd" \in Side
      /\ pc["snd"] \in Busy /\ {"write", "fileEnd"} \subseteq Busy
  BY DEF ReadFile, At, Busy, Side
<1>2. Fares("snd") /\ pc'["snd"] \in Busy \cup {"failed"}
  <2>1. /\ pc["snd"] \notin Ended
        /\ "write" \notin Ended /\ "fileEnd" \notin Ended
    BY <1>1 DEF Ended
  <2>2. \/ GoTo("snd", "write") \/ GoTo("snd", "fileEnd")
        \/ \E e \in {"ctx", "changed", "local"} : FailWith("snd", e)
    BY DEF ReadFile
  <2>3. QED
    BY <1>1, <2>1, <2>2, GoToFares, FailFares DEF Parts
<1>3. QED
  BY <1>1, <1>2, SenderWorks DEF Plays, Speaks, Parts

LEMMA WriteChunkKeeps ==
  ASSUME Parts, Ledger, UNCHANGED rcvVars, WriteChunk
  PROVE  Ledger' /\ DStep
<1>1. /\ pc["snd"] = "write" /\ NoInput
      /\ UNCHANGED <<accepted, todo, cur>> /\ "snd" \in Side
      /\ pc["snd"] \in Busy /\ "loop" \in Busy
      /\ pc["snd"] \notin Ended /\ "loop" \notin Ended
  BY DEF WriteChunk, At, Busy, Side, Ended
<1> DEFINE m == Chunk(Slice(cur, sent, buf))
<1>2. m \in Plain
  <2>1. cur \in Int /\ sent \in Nat /\ buf \in Nat
    BY FilesAreInts, SenderAssumption DEF Parts, SenderTypeOK
  <2>2. QED
    BY <2>1, SliceTyped DEF Chunk, Plain, Message
<1>3. CASE Control("snd", m, "loop")
  BY <1>1, <1>2, <1>3, ControlFares, SenderWorks DEF Parts, Plays, Speaks
<1>4. CASE FailWith("snd", "ctx") /\ UNCHANGED wire
  BY <1>1, <1>4, FailFares, SenderWorks DEF Parts, Plays, Speaks
<1>5. QED
  BY <1>3, <1>4 DEF WriteChunk

LEMMA EndFileKeeps ==
  ASSUME Parts, Ledger, UNCHANGED rcvVars, EndFile
  PROVE  Ledger' /\ DStep
<1>1. /\ pc["snd"] = "fileEnd" /\ NoInput
      /\ UNCHANGED <<accepted, todo, cur>> /\ "snd" \in Side
      /\ pc["snd"] \in Busy /\ "waitAck" \in Busy
      /\ pc["snd"] \notin Ended /\ "waitAck" \notin Ended
  BY DEF EndFile, At, Busy, Side, Ended, sndVars
<1> DEFINE m == FileEnd(cur, FileData(cur, sent))
<1>2. m \in Plain
  <2>1. cur \in Int /\ sent \in Nat /\ 0 \in Nat
    BY FilesAreInts DEF Parts, SenderTypeOK
  <2>2. QED
    BY <2>1, SliceTyped DEF FileData, FileEnd, Plain, Message
<1>3. Control("snd", m, "waitAck")
  BY DEF EndFile
<1>4. QED
  BY <1>1, <1>2, <1>3, ControlFares, SenderWorks DEF Parts, Plays, Speaks

\* An ok tells the sender of the file it is waiting for, which is saved.
LEMMA WaitAckKeeps ==
  ASSUME Parts, AckedIsSaved', Ledger, UNCHANGED rcvVars, WaitAck
  PROVE  Ledger' /\ DStep
<1>1. /\ pc["snd"] = "waitAck" /\ UNCHANGED <<accepted, cur>> /\ "snd" \in Side
      /\ pc["snd"] \in Busy /\ pc["snd"] \notin Ended
  BY DEF WaitAck, At, Busy, Side, Ended
<1>2. ASSUME Plays("snd", {"waitAck", "failed"}), UNCHANGED todo
      PROVE  Ledger' /\ DStep
  BY <1>1, <1>2, SenderWorks DEF Parts, Plays
<1>3. CASE /\ Consume("snd") /\ GoTo("snd", "nextFile") /\ UNCHANGED wire
           /\ todo' = todo \ {cur}
  <2>1. Fares("snd") /\ pc'["snd"] = "nextFile"
    BY <1>1, <1>3, GoToFares DEF Parts, Ended
  <2>2. Chosen' = Chosen /\ SavedIds' = SavedIds /\ SenderOk' = SenderOk /\ err' = err
    BY <1>3 DEF rcvVars, Chosen, SavedIds, GoTo, SenderOk
  <2>3. accepted = Chosen /\ accepted # {} /\ IsNext(cur, todo) /\ err["snd"] = "none"
    BY <1>1 DEF Ledger, Choices, Outcomes
  <2>4. PICK W : W = Word(Chosen, SenderOk)
    OBVIOUS
  <2>5. Queues(W)'
    <3>1. Kinds(W) /\ Plain \subseteq W[Peer("snd")]
      BY <1>1, <2>4, WordIsKinds, PeerSide
    <3>2. Speaks("snd", Plain)
      BY <1>3 DEF Speaks
    <3>3. QED
      BY <1>1, <2>4, <3>1, <3>2, SpeaksHolds DEF Ledger
  <2>6. Queues(Word(Chosen, SenderOk))'
    BY <2>2, <2>4, <2>5 DEF Queues
  <2>7. Outcomes' /\ Choices'
    BY <1>1, <2>1, <2>2, <2>3 DEF Ledger, Outcomes, Choices, Fares, Side, rcvVars,
                                 Ended, Early, Unanswered, Busy
  <2>8. cur \in accepted /\ todo \subseteq accepted
    BY <2>3 DEF Parts, SenderTypeOK, IsNext
  <2>9. Acked' = Acked \cup {cur} /\ cur \in SavedIds
    BY <1>1, <1>3, <2>2, <2>8 DEF Acked, AckedIsSaved, Emitted
  <2>10. Promise!Least(cur, accepted \ Acked)
    BY <2>3, <2>8 DEF Promise!Least, IsNext, Acked
  <2>11. Promise!Learn
    BY <2>2, <2>3, <2>9, <2>10 DEF Promise!Learn, Outcome, Chosen
  <2>12. QED
    BY <2>6, <2>7, <2>11 DEF Ledger, DStep, Promise!DNext
<1>4. CASE /\ Consume("snd") /\ FailWith("snd", "hash-mismatch") /\ UNCHANGED wire
           /\ UNCHANGED todo
  BY <1>1, <1>2, <1>4, FailFares DEF Parts, Plays, Speaks
<1>5. CASE Consume("snd") /\ ProtocolError("snd") /\ UNCHANGED todo
  BY <1>1, <1>2, <1>5, ProtocolErrorFares DEF Parts, Plays, Speaks
<1>6. CASE WaitOther("snd", {"file-ack"}) /\ UNCHANGED todo
  BY <1>1, <1>2, <1>6, WaitOtherFares DEF Parts
<1>7. QED
  BY <1>3, <1>4, <1>5, <1>6 DEF WaitAck, TakeAck, Take

\* The sender succeeds knowing of every chosen file, and says so.
LEMMA SendDoneKeeps ==
  ASSUME Parts, Ledger, UNCHANGED rcvVars, SendDone
  PROVE  Ledger' /\ DStep
<1>1. /\ pc["snd"] = "nextFile" /\ todo = {} /\ NoInput
      /\ UNCHANGED <<accepted, todo>> /\ "snd" \in Side /\ pc["snd"] \notin Ended
  BY DEF SendDone, At, Side, Ended, sndVars
<1>2. CASE Post("snd", Done) /\ Succeed("snd")
  <2>1. /\ pc'["snd"] = "returned" /\ err'["snd"] = "nil"
        /\ pc'["rcv"] = pc["rcv"] /\ err'["rcv"] = err["rcv"]
    BY <1>2 DEF Succeed, Parts, Core, Side
  <2>2. Chosen' = Chosen /\ SavedIds' = SavedIds /\ SenderOk' /\ Acked' = Acked
    BY <1>1, <2>1 DEF rcvVars, Chosen, SavedIds, SenderOk, Acked
  <2>3. accepted = Chosen /\ accepted # {} /\ err["snd"] = "none" /\ ~SenderOk
    BY <1>1 DEF Ledger, Choices, Outcomes, SenderOk
  <2>4. PICK W : W = Word(Chosen, TRUE)
    OBVIOUS
  <2>5. Kinds(W) /\ Queues(W)
    BY <2>4, WordIsKinds, WordGrows DEF Ledger, Queues
  <2>6. Done \in W[Peer("snd")]
    BY <2>4 DEF Done, Word, Said, Peer, Side, Message
  <2>7. Holds(wire', W) /\ Holds(inbox', W) /\ Holds(pending', W)
    BY <1>1, <1>2, <2>5, <2>6, PostHolds DEF Queues, NoInput, Kinds
  <2>8. Queues(Word(Chosen, SenderOk))'
    BY <2>2, <2>4, <2>7 DEF Queues, Word, Said
  <2>9. Outcomes' /\ Choices'
    BY <2>1, <2>2 DEF Ledger, Outcomes, Choices, Side, rcvVars,
                      Ended, Early, Unanswered, Busy
  <2>10. Promise!SenderSucceeds
    BY <1>1, <2>1, <2>2, <2>3 DEF Promise!SenderSucceeds, Outcome, Chosen, Acked
  <2>11. QED
    BY <2>8, <2>9, <2>10 DEF Ledger, DStep, Promise!DNext
<1>3. CASE FailWith("snd", "send") /\ UNCHANGED wire
  <2>1. Plays("snd", {"failed"})
    BY <1>1, <1>3, FailFares DEF Parts, Plays, Speaks
  <2>2. pc'["snd"] \notin Unanswered \cup Busy \cup {"nextFile"}
    BY <2>1 DEF Plays, Unanswered, Busy
  <2>3. QED
    BY <1>1, <2>1, <2>2, SenderAside DEF Parts
<1>4. QED
  BY <1>2, <1>3 DEF SendDone

LEMMA SenderKeeps ==
  ASSUME Parts, AckedIsSaved', Ledger, SenderStep
  PROVE  Ledger' /\ DStep
BY SenderBothSidesKeeps, SendManifestKeeps, WaitReplyKeeps, StartFileKeeps,
   OpenFileKeeps, PollKeeps, ReadFileKeeps, WriteChunkKeeps, EndFileKeeps,
   WaitAckKeeps, SendDoneKeeps
   DEF SenderStep, SenderNext

-----------------------------------------------------------------------------
(* The receiver.                                                           *)

\* A step of the receiver that stores and chooses nothing: at most it fails.
LEMMA ReceiverAside ==
  ASSUME Ledger, Core, UNCHANGED sndVars, UNCHANGED <<want, saved>>,
         NEW L, Plays("rcv", L),
         pc'["rcv"] \in Early => pc["rcv"] \in Early
  PROVE  Ledger' /\ DStep
<1>1. PICK W : W = Word(Chosen, SenderOk)
  OBVIOUS
<1>2. Queues(W)'
  <2>1. Kinds(W) /\ Plain \subseteq W[Peer("rcv")] /\ "rcv" \in Side
    BY <1>1, WordIsKinds, PeerSide DEF Side
  <2>2. QED
    BY <1>1, <2>1, SpeaksHolds DEF Ledger, Plays
<1>3. Chosen' = Chosen /\ SavedIds' = SavedIds /\ Acked' = Acked
  BY DEF sndVars, Chosen, SavedIds, Acked
<1>4. /\ pc'["snd"] = pc["snd"] /\ err'["snd"] = err["snd"]
      /\ SenderOk' = SenderOk
  BY DEF Plays, Fares, Side, SenderOk
<1>5. Queues(Word(Chosen, SenderOk))'
  BY <1>1, <1>2, <1>3, <1>4 DEF Queues
<1>6. Outcomes' /\ Choices'
  BY <1>3, <1>4 DEF Ledger, Outcomes, Choices, Plays, Fares, Side, sndVars
<1>7. DStep
  BY <1>3, <1>4 DEF DStep, Promise!DNext, Promise!dvars, Promise!ReceiverFails,
                    Outcome, Plays, Fares, Ledger, Outcomes, Side, Chosen
<1>8. QED
  BY <1>5, <1>6, <1>7 DEF Ledger

LEMMA ReceiverBothSidesKeeps ==
  ASSUME Parts, Ledger, UNCHANGED sndVars, BothSides("rcv"), UNCHANGED rcvVars
  PROVE  Ledger' /\ DStep
<1>1. /\ Plays("rcv", {"hello", "waitHello", "waitManifest"} \cup Ended)
      /\ pc'["rcv"] \notin Ended => pc["rcv"] \in {"init", "hello", "waitHello"}
  BY BothSidesFares DEF Parts, Side, AfterHello
<1>2. pc'["rcv"] \in Early => pc["rcv"] \in Early
  BY <1>1 DEF Ended, Early
<1>3. UNCHANGED <<want, saved>>
  BY DEF rcvVars
<1>4. QED
  BY <1>1, <1>2, <1>3, ReceiverAside DEF Parts

LEMMA NoDestinationKeeps ==
  ASSUME Parts, Ledger, UNCHANGED sndVars, NoDestination
  PROVE  Ledger' /\ DStep
<1>1. Plays("rcv", {"returned"})
  BY DEF NoDestination, At, Parts, Core, Plays, Fares, Speaks, Ended, Side
<1>2. pc'["rcv"] \notin Early
  BY <1>1 DEF Plays, Early
<1>3. UNCHANGED <<want, saved>>
  BY DEF NoDestination, rcvVars
<1>4. QED
  BY <1>1, <1>2, <1>3, ReceiverAside DEF Parts

LEMMA WaitManifestKeeps ==
  ASSUME Parts, Ledger, UNCHANGED sndVars, WaitManifest
  PROVE  Ledger' /\ DStep
<1>1. /\ pc["rcv"] = "waitManifest" /\ pc["rcv"] \notin Ended /\ pc["rcv"] \in Early
      /\ "decide" \notin Ended /\ UNCHANGED <<want, saved>> /\ "rcv" \in Side
  BY DEF WaitManifest, KeepFiles, At, Ended, Early, Side
<1> DEFINE Out == Plays("rcv", {"waitManifest", "decide", "failed"})
<1>2. ASSUME Consume("rcv"), GoTo("rcv", "decide"), UNCHANGED wire PROVE Out
  BY <1>1, <1>2, GoToFares DEF Parts, Plays, Speaks
<1>3. ASSUME Consume("rcv"), ProtocolError("rcv") PROVE Out
  BY <1>1, <1>3, ProtocolErrorFares DEF Parts, Plays, Speaks
<1>4. ASSUME WaitOther("rcv", {"manifest"}) PROVE Out
  BY <1>1, <1>4, WaitOtherFares DEF Parts, Plays
<1>5. Out
  BY <1>2, <1>3, <1>4 DEF WaitManifest, TakeManifest, Take
<1>6. QED
  BY <1>1, <1>5, ReceiverAside DEF Parts

\* The receiver chooses once, and its accept says what.
LEMMA DecideKeeps ==
  ASSUME Parts, Ledger, UNCHANGED sndVars, Decide
  PROVE  Ledger' /\ DStep
<1>1. /\ pc["rcv"] = "decide" /\ pc["rcv"] \notin Ended /\ pc["rcv"] \in Early
      /\ NoInput /\ UNCHANGED saved /\ "rcv" \in Side
  BY DEF Decide, KeepFiles, At, Ended, Early, Side
<1>2. ASSUME Plays("rcv", {"failed"}), UNCHANGED want PROVE Ledger' /\ DStep
  BY <1>1, <1>2, ReceiverAside DEF Parts
<1>3. CASE \E e \in {"decide", "declined"} : LastWord("rcv", Reject, e) /\ UNCHANGED want
  <2>1. Reject \in Plain
    BY DEF Reject, Plain, Message
  <2>2. QED
    BY <1>1, <1>2, <1>3, <2>1, LastWordFares DEF Parts, Plays, Speaks
<1>4. ASSUME NEW ids \in SUBSET DOMAIN meta, ids # {}
      PROVE  LET m == Accept(IF ids = DOMAIN meta THEN {} ELSE ids)
             IN  /\ Control("rcv", m, "waitStart")
                 /\ want' = IF CanSend("rcv") THEN ids ELSE want
                 => Ledger' /\ DStep
  <2> DEFINE m == Accept(IF ids = DOMAIN meta THEN {} ELSE ids)
  <2> SUFFICES ASSUME Control("rcv", m, "waitStart"),
                      want' = IF CanSend("rcv") THEN ids ELSE want
               PROVE  Ledger' /\ DStep
    OBVIOUS
  <2>1. CASE ~CanSend("rcv")
    <3>1. FailWith("rcv", "send") /\ UNCHANGED wire /\ UNCHANGED want
      BY <2>1 DEF Control
    <3>2. QED
      BY <1>1, <1>2, <3>1, FailFares DEF Parts, Plays, Speaks
  <2>2. CASE CanSend("rcv")
    <3>1. Post("rcv", m) /\ GoTo("rcv", "waitStart") /\ want' = ids
      BY <2>2 DEF Control
    <3>2. DOMAIN meta = Files
      <4>1. meta # NoEntries
        BY <1>4 DEF NoEntries
      <4>2. QED
        BY <4>1, MetasById DEF Parts, ReceiverSound
    <3>3. Chosen = {} /\ SavedIds = {} /\ Chosen' = ids /\ SavedIds' = {}
      BY <1>1, <3>1 DEF Parts, ReceiverSound, Ledger, Choices, Chosen, SavedIds, Early
    <3>4. SenderOk' = SenderOk /\ err' = err /\ err["rcv"] = "none"
      BY <1>1, <3>1 DEF GoTo, SenderOk, Ledger, Outcomes
    <3>5. Fares("rcv") /\ pc'["rcv"] = "waitStart"
      BY <1>1, <3>1, GoToFares DEF Parts, Ended
    <3>6. PICK W : W = Word(ids, SenderOk)
      OBVIOUS
    <3>7. Kinds(W) /\ Queues(W)
      BY <3>3, <3>6, WordIsKinds, WordGrows DEF Ledger, Queues
    <3>8. m \in W[Peer("rcv")]
      <4>1. m \in Message /\ m.t = "accept"
        <5>1. (IF ids = DOMAIN meta THEN {} ELSE ids) \in SUBSET Files
          BY <3>2
        <5>2. \A S \in SUBSET Files : Accept(S) \in Message /\ Accept(S).t = "accept"
          BY ReceiverMessages DEF Accept, Sound
        <5>3. QED
          BY <5>1, <5>2
      <4>2. ResolveAccept(m.ids, NumFiles) = ids
        BY <1>4, <3>2 DEF Accept, ResolveAccept, Files
      <4>3. QED
        BY <1>4, <3>6, <4>1, <4>2 DEF Word, Said, Peer, Side
    <3>9. Holds(wire', W) /\ Holds(inbox', W) /\ Holds(pending', W)
      BY <1>1, <3>1, <3>7, <3>8, PostHolds DEF Queues, NoInput, Kinds
    <3>10. Queues(Word(Chosen, SenderOk))'
      BY <3>3, <3>4, <3>6, <3>9 DEF Queues
    <3>11. pc["snd"] \notin Busy \cup {"nextFile"} /\ pc'["snd"] = pc["snd"]
      BY <3>3, <3>5 DEF Ledger, Choices, Fares, Side
    <3>12. Outcomes' /\ Choices'
      BY <1>1, <3>3, <3>4, <3>5, <3>11 DEF Ledger, Outcomes, Choices, Fares, Side,
                                           sndVars, Ended, Early
    <3>13. Promise!Choose
      BY <1>4, <3>2, <3>3, <3>4 DEF Promise!Choose, Outcome, Chosen, Acked, sndVars
    <3>14. QED
      BY <3>10, <3>12, <3>13 DEF Ledger, DStep, Promise!DNext
  <2>3. QED
    BY <2>1, <2>2
<1>5. QED
  BY <1>3, <1>4 DEF Decide

LEMMA WaitFileStartKeeps ==
  ASSUME Parts, Ledger, UNCHANGED sndVars, WaitFileStart
  PROVE  Ledger' /\ DStep
<1>1. /\ pc["rcv"] = "waitStart" /\ pc["rcv"] \notin Ended /\ "chunks" \notin Ended
      /\ UNCHANGED <<want, saved>> /\ "rcv" \in Side
  BY DEF WaitFileStart, At, Ended, Side
<1> DEFINE Out == Plays("rcv", {"waitStart", "chunks", "failed"})
<1>2. ASSUME NEW id \in want, TakeFileStart(id) PROVE Out
  <2>1. Consume("rcv")
    BY <1>2 DEF TakeFileStart, Take
  <2>2. CASE ProtocolError("rcv")
    BY <1>1, <2>1, <2>2, ProtocolErrorFares DEF Parts, Plays, Speaks
  <2>3. CASE CreateDest(id) /\ UNCHANGED wire
    <3>1. GoTo("rcv", "chunks") \/ FailWith("rcv", "local")
      BY <2>3 DEF CreateDest
    <3>2. QED
      BY <1>1, <2>1, <2>3, <3>1, GoToFares, FailFares DEF Parts, Plays, Speaks
  <2>4. QED
    BY <1>2, <2>2, <2>3 DEF TakeFileStart
<1>3. ASSUME WaitOther("rcv", {"file-start"}) PROVE Out
  BY <1>1, <1>3, WaitOtherFares DEF Parts, Plays
<1>4. Out
  BY <1>2, <1>3 DEF WaitFileStart
<1>5. pc'["rcv"] \notin Early
  BY <1>4 DEF Plays, Early
<1>6. QED
  BY <1>1, <1>4, <1>5, ReceiverAside DEF Parts

\* A file is stored whether or not the ack goes out.
LEMMA KeepKeeps ==
  ASSUME Parts, Ledger, UNCHANGED sndVars, pc["rcv"] = "chunks", Consume("rcv"),
         NEW id \in want, IsNext(id, want), Keep(id)
  PROVE  Ledger' /\ DStep
<1>1. "rcv" \in Side /\ pc["rcv"] \notin Ended
  BY DEF Side, Ended
<1>2. id \in Files /\ want \subseteq Files
  <2>1. want \subseteq DOMAIN meta /\ meta # NoEntries
    BY DEF Parts, ReceiverTypeOK, NoEntries
  <2>2. QED
    BY <2>1, MetasById DEF Parts, ReceiverSound
<1>3. SavedIds' = SavedIds \cup {id} /\ want \cap SavedIds = {}
  BY DEF Keep, SavedIds, Parts, ReceiverSound
<1>4. want' \in {want, want \ {id}}
  BY DEF Keep
<1>5. Chosen' = Chosen
  BY <1>3, <1>4 DEF Chosen
<1> DEFINE label == IF want = {id} THEN "waitDone" ELSE "waitStart"
<1>6. Plays("rcv", {"waitDone", "waitStart", "failed"})
  <2>1. FileAck(id, "ok") \in Plain
    BY <1>2, FilesAreInts DEF FileAck, Plain, Message
  <2>2. Control("rcv", FileAck(id, "ok"), label) /\ label \notin Ended
    BY DEF Keep, Ended
  <2>3. QED
    BY <1>1, <2>1, <2>2, ControlFares DEF Parts, Plays, Speaks
<1>7. SenderOk' = SenderOk /\ pc'["snd"] = pc["snd"] /\ err["rcv"] = "none"
  BY <1>1, <1>6 DEF Plays, Fares, Side, SenderOk, Ledger, Outcomes
<1>8. Queues(Word(Chosen, SenderOk))'
  <2>1. PICK W : W = Word(Chosen, SenderOk)
    OBVIOUS
  <2>2. Kinds(W) /\ Plain \subseteq W[Peer("rcv")]
    BY <1>1, <2>1, WordIsKinds, PeerSide
  <2>3. Queues(W)'
    BY <1>1, <1>6, <2>1, <2>2, SpeaksHolds DEF Ledger, Plays
  <2>4. QED
    BY <1>5, <1>7, <2>1, <2>3 DEF Queues
<1>9. Outcomes' /\ Choices'
  BY <1>1, <1>5, <1>6, <1>7 DEF Ledger, Outcomes, Choices, Plays, Fares, Side, sndVars, Early
<1>10. Promise!Store
  <2>1. Chosen \ SavedIds = want
    BY <1>3 DEF Chosen
  <2>2. Promise!Least(id, Chosen \ SavedIds)
    BY <2>1 DEF Promise!Least, IsNext
  <2>3. Outcome("rcv") = "running" /\ Outcome("rcv")' \in {"running", "failed"}
    BY <1>1, <1>6, <1>7 DEF Outcome, Plays, Fares
  <2>4. Outcome("snd")' = Outcome("snd") /\ Acked' = Acked
    BY <1>6 DEF Outcome, Plays, Fares, Side, sndVars, Acked
  <2>5. QED
    BY <1>2, <1>3, <1>5, <2>2, <2>3, <2>4 DEF Promise!Store, Chosen
<1>11. QED
  BY <1>8, <1>9, <1>10 DEF Ledger, DStep, Promise!DNext

LEMMA ReceiveChunksKeeps ==
  ASSUME Parts, Ledger, UNCHANGED sndVars, ReceiveChunks
  PROVE  Ledger' /\ DStep
<1>1. pc["rcv"] = "chunks" /\ pc["rcv"] \notin Ended /\ "rcv" \in Side
  BY DEF ReceiveChunks, At, Ended, Side
<1>2. ASSUME Plays("rcv", {"chunks", "failed"}), UNCHANGED <<want, saved>>
      PROVE  Ledger' /\ DStep
  <2>1. pc'["rcv"] \notin Early
    BY <1>2 DEF Plays, Early
  <2>2. QED
    BY <1>2, <2>1, ReceiverAside DEF Parts
<1>3. ASSUME Consume("rcv"), UNCHANGED <<want, saved>>,
             \/ ProtocolError("rcv")
             \/ \E e \in {"local", "hash-mismatch"} : FailWith("rcv", e) /\ UNCHANGED wire
             \/ UNCHANGED <<pc, err, wire>>
      PROVE  Ledger' /\ DStep
  <2>1. CASE ProtocolError("rcv")
    BY <1>1, <1>2, <1>3, <2>1, ProtocolErrorFares DEF Parts, Plays, Speaks
  <2>2. CASE \E e \in {"local", "hash-mismatch"} : FailWith("rcv", e) /\ UNCHANGED wire
    BY <1>1, <1>2, <1>3, <2>2, FailFares DEF Parts, Plays, Speaks
  <2>3. CASE UNCHANGED <<pc, err, wire>>
    BY <1>1, <1>2, <1>3, <2>3 DEF Plays, Fares, Speaks
  <2>4. QED
    BY <1>3, <2>1, <2>2, <2>3
<1>4. ASSUME NEW id \in want, TakeChunk(id) PROVE Ledger' /\ DStep
  BY <1>3, <1>4 DEF TakeChunk, Take
<1>5. ASSUME NEW id \in want, IsNext(id, want), TakeFileEnd(id) PROVE Ledger' /\ DStep
  <2>1. Consume("rcv")
    BY <1>5 DEF TakeFileEnd, Take
  <2>2. CASE Keep(id)
    BY <1>1, <1>5, <2>1, <2>2, KeepKeeps
  <2>3. CASE ProtocolError("rcv") /\ UNCHANGED <<want, saved>>
    BY <1>3, <2>1, <2>3
  <2>4. CASE FailWith("rcv", "local") /\ UNCHANGED <<wire, want, saved>>
    BY <1>3, <2>1, <2>4
  <2>5. CASE Mismatch(id)
    <3>1. FileAck(id, "hash-mismatch") \in Plain
      <4>1. id \in Int
        BY <1>5, FilesAreInts, MetasById DEF Parts, ReceiverTypeOK, ReceiverSound, NoEntries
      <4>2. QED
        BY <4>1 DEF FileAck, Plain, Message
    <3>2. /\ UNCHANGED wire \/ \E m \in Plain : Post("rcv", m)
          /\ FailWith("rcv", "hash-mismatch") /\ UNCHANGED <<want, saved>>
      BY <2>5, <3>1 DEF Mismatch
    <3>3. QED
      BY <1>1, <1>2, <2>1, <3>2, FailFares DEF Parts, Plays, Speaks
  <2>6. QED
    BY <1>5, <2>2, <2>3, <2>4, <2>5 DEF TakeFileEnd
<1>6. CASE NoChunk
  BY <1>1, <1>2, <1>6, WaitOtherFares DEF NoChunk, Parts
<1>7. QED
  BY <1>4, <1>5, <1>6 DEF ReceiveChunks

\* A done is believed: the sender has said it only on success.
LEMMA WaitDoneKeeps ==
  ASSUME Parts, Ledger, UNCHANGED sndVars, WaitDone
  PROVE  Ledger' /\ DStep
<1>1. /\ pc["rcv"] = "waitDone" /\ pc["rcv"] \notin Ended /\ "rcv" \in Side
      /\ UNCHANGED <<want, saved>> /\ err["rcv"] = "none"
  BY DEF WaitDone, At, Ended, Side, rcvVars, Ledger, Outcomes
<1>2. CASE Take("rcv", {"done"}) /\ Succeed("rcv") /\ UNCHANGED wire
  <2>1. Kinds(Word(Chosen, SenderOk))
    BY WordIsKinds
  <2>2. /\ NextMsg("rcv") \in Word(Chosen, SenderOk)["rcv"]
        /\ NextMsg("rcv").t = "done"
    BY <1>1, <1>2, <2>1, ConsumeHolds DEF Take, Ledger, Queues, Kinds
  <2>3. SenderOk
    BY <1>1, <2>2 DEF Word, Said
  <2>4. /\ pc'["rcv"] = "returned" /\ err'["rcv"] = "nil"
        /\ pc'["snd"] = pc["snd"] /\ err'["snd"] = err["snd"]
    BY <1>2 DEF Succeed, Parts, Core, Side
  <2>5. Chosen' = Chosen /\ SavedIds' = SavedIds /\ Acked' = Acked /\ SenderOk' = SenderOk
    BY <1>1, <2>4 DEF sndVars, Chosen, SavedIds, Acked, SenderOk
  <2>6. Queues(Word(Chosen, SenderOk))'
    <3>1. PICK W : W = Word(Chosen, SenderOk)
      OBVIOUS
    <3>2. Kinds(W) /\ Plain \subseteq W[Peer("rcv")] /\ Speaks("rcv", Plain)
      BY <1>1, <1>2, <3>1, WordIsKinds, PeerSide DEF Take, Speaks
    <3>3. Queues(W)'
      BY <1>1, <3>1, <3>2, SpeaksHolds DEF Ledger
    <3>4. QED
      BY <2>5, <3>1, <3>3 DEF Queues
  <2>7. Outcomes' /\ Choices'
    BY <2>4, <2>5 DEF Ledger, Outcomes, Choices, Side, sndVars, Ended, Early
  <2>8. Promise!ReceiverSucceeds
    BY <1>1, <2>3, <2>4, <2>5 DEF Promise!ReceiverSucceeds, Outcome, SenderOk, Chosen
  <2>9. QED
    BY <2>6, <2>7, <2>8 DEF Ledger, DStep, Promise!DNext
<1>3. CASE WaitOther("rcv", {"done"})
  <2>1. Plays("rcv", {"waitDone", "failed"})
    BY <1>1, <1>3, WaitOtherFares DEF Parts
  <2>2. pc'["rcv"] \notin Early
    BY <2>1 DEF Plays, Early
  <2>3. QED
    BY <1>1, <2>1, <2>2, ReceiverAside DEF Parts
<1>4. QED
  BY <1>2, <1>3 DEF WaitDone

LEMMA ReceiverKeeps ==
  ASSUME Parts, Ledger, ReceiverStep
  PROVE  Ledger' /\ DStep
BY ReceiverBothSidesKeeps, NoDestinationKeeps, WaitManifestKeeps, DecideKeeps,
   WaitFileStartKeeps, ReceiveChunksKeeps, WaitDoneKeeps
   DEF ReceiverStep, ReceiverNext

-----------------------------------------------------------------------------
(* The whole system.                                                       *)

\* A step of neither program changes neither side's account.
LEMMA OutsideStandsStill ==
  ASSUME Ledger, UNCHANGED <<accepted, todo, cur>>, UNCHANGED rcvVars, UNCHANGED <<pc, err>>,
         Queues(Word(Chosen, SenderOk)) => Queues(Word(Chosen, SenderOk))'
  PROVE  Ledger' /\ DStep
<1>1. Outcomes' /\ Choices'
  BY DEF Ledger, Outcomes, Choices, Chosen, SavedIds, rcvVars
<1>2. UNCHANGED Promise!dvars
  BY DEF Promise!dvars, Acked, Outcome, SavedIds, rcvVars
<1>3. QED
  BY <1>1, <1>2 DEF Ledger, DStep

LEMMA NextKeeps ==
  ASSUME Parts, Parts', Ledger, [Next]_vars
  PROVE  Ledger' /\ DStep
<1>1. PICK W : W = Word(Chosen, SenderOk)
  OBVIOUS
<1>2. Kinds(W) /\ Queues(W)
  BY <1>1, WordIsKinds DEF Ledger
<1>3. CASE SenderStep
  BY <1>3, SenderKeeps DEF Parts
<1>4. CASE ReceiverStep
  BY <1>4, ReceiverKeeps
<1>5. ASSUME UNCHANGED <<sndVars, rcvVars>>, UNCHANGED <<pc, err>>, Queues(W)'
      PROVE  Ledger' /\ DStep
  <2>1. Chosen' = Chosen /\ SenderOk' = SenderOk
    BY <1>5 DEF rcvVars, Chosen, SavedIds, SenderOk
  <2>2. Queues(Word(Chosen, SenderOk))'
    BY <1>1, <1>5, <2>1 DEF Queues
  <2>3. QED
    BY <1>5, <2>2, OutsideStandsStill DEF sndVars
<1>6. CASE NetworkStep
  <2>1. PICK s \in Side : Network(s) /\ UNCHANGED <<sndVars, rcvVars>>
    BY <1>6 DEF NetworkStep
  <2>2. Queues(W)'
    BY <1>2, <2>1, NetworkMoves DEF Parts, Kinds
  <2>3. UNCHANGED <<pc, err>>
    BY <2>1 DEF Network, Deliver, LoseTail, SeeClose, RunOnClose, quiet
  <2>4. QED
    BY <1>5, <2>1, <2>2, <2>3
<1>7. CASE \E s \in Side : CancelCtx(s) /\ UNCHANGED <<sndVars, rcvVars>>
  <2>1. PICK s \in Side : CancelCtx(s) /\ UNCHANGED <<sndVars, rcvVars>>
    BY <1>7
  <2>2. UNCHANGED sessionVars /\ UNCHANGED <<pc, err>>
    BY <2>1 DEF CancelCtx, sessionVars
  <2>3. Queues(W)'
    BY <1>2, <2>2 DEF sessionVars, Queues, Holds
  <2>4. QED
    BY <1>5, <2>1, <2>2, <2>3
<1>8. CASE ChangeFile /\ UNCHANGED rcvVars
  <2>1. /\ UNCHANGED sessionVars /\ UNCHANGED <<pc, err>>
        /\ UNCHANGED <<accepted, todo, cur>>
    BY <1>8 DEF ChangeFile, sessionVars
  <2>2. Chosen' = Chosen /\ SenderOk' = SenderOk /\ Queues(W)'
    BY <1>2, <1>8, <2>1 DEF sessionVars, Queues, Holds, rcvVars, Chosen, SavedIds, SenderOk
  <2>3. Queues(Word(Chosen, SenderOk))'
    BY <1>1, <2>2 DEF Queues
  <2>4. QED
    BY <1>8, <2>1, <2>3, OutsideStandsStill
<1>9. CASE UNCHANGED vars
  <2>1. UNCHANGED <<sessionVars, sndVars, rcvVars>> /\ UNCHANGED <<pc, err>>
    BY <1>9 DEF vars, sessionVars
  <2>2. Queues(W)'
    BY <1>2, <2>1 DEF sessionVars, Queues, Holds
  <2>3. QED
    BY <1>5, <2>1, <2>2
<1>10. QED
  BY <1>3, <1>4, <1>6, <1>7, <1>8, <1>9 DEF Next, UserStep

LEMMA InitLedger == Init => Ledger /\ Promise!DInit
<1> SUFFICES ASSUME Init PROVE Ledger /\ Promise!DInit
  OBVIOUS
<1>1. want = {} /\ SavedIds = {} /\ accepted = {} /\ Acked = {}
  BY DEF Init, ReceiverInit, SenderInit, NoEntries, SavedIds, Acked
<1>2. \A s \in Side : pc[s] = "init" /\ err[s] = "none"
  BY DEF Init, SessionInit
<1>3. Outcomes /\ Choices
  BY <1>1, <1>2 DEF Outcomes, Choices, Side, Busy
<1>4. Queues(Word(Chosen, SenderOk))
  <2>1. \A s \in Side : <<>> \in Seq(Word(Chosen, SenderOk)[s])
    BY EmptySeq
  <2>2. QED
    BY <2>1, EmptySeq DEF Init, SessionInit, Queues, Holds
<1>5. Promise!DInit
  BY <1>1, <1>2 DEF Promise!DInit, Outcome, Side
<1>6. QED
  BY <1>3, <1>4, <1>5 DEF Ledger

\* Every step of a transfer is a step of Delivery or none of its business:
\* the sender learns of a file only once it is stored, succeeds only knowing
\* of every chosen one, and the receiver succeeds only after the sender.
THEOREM TransferKeepsPromise == Spec => KeepsPromise
<1>1. Init => Parts /\ Ledger /\ Promise!DInit
  BY InitParts, InitLedger
<1>2. Parts /\ Ledger /\ [Next]_vars => Parts' /\ Ledger' /\ [Promise!DNext]_(Promise!dvars)
  BY NextParts, NextKeeps DEF DStep
<1>3. QED
  BY <1>1, <1>2, PTL DEF Spec, KeepsPromise, Promise!DSpec

-----------------------------------------------------------------------------
(* What a failed side says of the other.                                   *)

Warns   == {"cancel", "error"}
Gone(e) == e \notin {"none", "nil"}

\* A session warns its peer only of its own failure, and rejects only what
\* it has declined.
Frank(m, e) == /\ m \in Message
               /\ m.t \in Warns => Gone(e)
               /\ m.t = "reject" => e \in {"declined", "decide"}

Told(errs) == [s \in Side |-> {m \in Message : Frank(m, errs[Peer(s)])}]

\* Calls that are over have an outcome, a close comes from a call that is
\* over, and every message under way is frank.
Candor ==
  /\ \A s \in Side : /\ pc[s] \notin Ended <=> err[s] = "none"
                     /\ pc[s] = "failed" => Gone(err[s])
                     /\ closed[s] \/ chan[s] = "hook" => pc[Peer(s)] = "closed"
  /\ Queues(Told(err))
  /\ BlameIsTrue

\* What a session may blame on its peer, and on what grounds.
Grounds(s, e) ==
  /\ e = "rejected" => Consume(s) /\ NextMsg(s).t = "reject"
  /\ e \in {"peer-cancel", "peer-error"} => Consume(s) /\ NextMsg(s).t \in Warns
  /\ e = "peer-closed" => closed[s]

\* Side s carries on, or ends with an outcome it has grounds for; it is
\* frank, takes or defers a message at most and closes its own end at most.
Carries(s) == /\ err'[s] = err[s]
              /\ pc'[s] \in Ended <=> pc[s] \in Ended
              /\ pc'[s] = "failed" => pc[s] = "failed"
Ends(s) == /\ pc[s] \notin Ended /\ pc'[s] \in Ended
           /\ err'[s] # "none"
           /\ pc'[s] = "failed" => Gone(err'[s])
           /\ Grounds(s, err'[s])
Acts(s) ==
  /\ \A t \in Side \ {s} : pc'[t] = pc[t] /\ err'[t] = err[t]
  /\ pc[s] # "closed" /\ (Carries(s) \/ Ends(s))
  /\ UNCHANGED wire \/ \E m \in Message : Frank(m, err'[s]) /\ Post(s, m)
  /\ NoInput \/ Consume(s) \/ Defer(s)
  /\ closed' = closed /\ \A t \in Side : chan'[t] \in {chan[t], "closed"}

LEMMA ActsKeepCandor ==
  ASSUME Parts, Core', Candor, NEW s \in Side, Acts(s)
  PROVE  Candor'
<1>1. PICK G : G = Told(err')
  OBVIOUS
<1>2. Typed(G) /\ Typed(Told(err))
  BY <1>1 DEF Typed, Told
<1>3. \A t \in Side : Told(err)[t] \subseteq G[t]
  <2>1. ASSUME NEW t \in Side, err[Peer(t)] # err'[Peer(t)]
        PROVE  err[Peer(t)] = "none"
    BY <2>1, PeerSide DEF Acts, Carries, Ends, Candor
  <2>2. QED
    BY <1>1, <2>1 DEF Told, Frank, Gone
<1>4. Queues(G)
  <2>1. \A q : Holds(q, Told(err)) => Holds(q, G)
    BY <1>3, SeqMonotonic DEF Holds
  <2>2. QED
    BY <2>1 DEF Candor, Queues
<1>5. Queues(Told(err))'
  <2>1. Holds(wire', G)
    <3>1. ASSUME NEW m \in Message, Frank(m, err'[s]), Post(s, m) PROVE Holds(wire', G)
      <4>1. m \in G[Peer(s)]
        BY <1>1, <3>1, PeerSide DEF Told, Peer, Side
      <4>2. QED
        BY <1>2, <1>4, <3>1, <4>1, PostHolds
    <3>2. QED
      BY <1>4, <3>1 DEF Acts, Queues
  <2>2. Holds(inbox', G) /\ Holds(pending', G)
    BY <1>2, <1>4, ConsumeHolds, DeferHolds DEF Acts, NoInput, Queues
  <2>3. QED
    BY <1>1, <2>1, <2>2 DEF Queues
<1>6. \A t \in Side : /\ pc'[t] \notin Ended <=> err'[t] = "none"
                      /\ pc'[t] = "failed" => Gone(err'[t])
  BY DEF Acts, Carries, Ends, Candor
<1>7. \A t \in Side : pc[t] = "closed" => pc'[t] = "closed"
  BY DEF Acts
<1>8. \A t \in Side : closed'[t] \/ chan'[t] = "hook" => pc'[Peer(t)] = "closed"
  BY <1>7, PeerSide DEF Acts, Candor
<1>9. BlameIsTrue'
  <2> SUFFICES ASSUME NEW t \in Side
               PROVE  /\ err'[t] = "rejected" => err'[Peer(t)] \in {"declined", "decide"}
                      /\ err'[t] \in {"peer-cancel", "peer-error"} => Gone(err'[Peer(t)])
                      /\ err'[t] = "peer-closed" => pc'[Peer(t)] = "closed"
    BY DEF BlameIsTrue, Gone
  <2>1. err[Peer(t)] # "none" => err'[Peer(t)] = err[Peer(t)]
    BY PeerSide DEF Acts, Carries, Ends, Candor
  <2>2. CASE err'[t] = err[t]
    BY <1>7, <2>1, <2>2, PeerSide DEF Candor, BlameIsTrue, Gone
  <2>3. CASE err'[t] # err[t]
    <3>1. t = s /\ Grounds(s, err'[s])
      BY <2>3 DEF Acts, Carries, Ends
    <3>2. Consume(s) => Frank(NextMsg(s), err[Peer(s)])
      BY <1>2, ConsumeHolds DEF Candor, Told
    <3>3. QED
      BY <1>7, <2>1, <3>1, <3>2, PeerSide DEF Grounds, Frank, Gone, Candor
  <2>4. QED
    BY <2>2, <2>3
<1>10. QED
  BY <1>5, <1>6, <1>8, <1>9 DEF Candor

\* Frank words.
LEMMA FrankWords ==
  /\ \A e \in Errors : Frank(Hello(Version), e)
  /\ \A e : Gone(e) => /\ Frank(Cancel, e) /\ Frank(ErrorMsg("protocol"), e)
                       /\ Frank(ErrorMsg("version"), e)
  /\ \A e \in {"declined", "decide"} : Frank(Reject, e)
BY DEF Frank, Gone, Warns, Hello, Version, Cancel, ErrorMsg, Reject, Message

\* How a wait loop treats whatever it does not wait for.
LEMMA WaitOtherActs ==
  ASSUME Core, NEW s \in Side, pc[s] \notin Ended,
         NEW expected, WaitOther(s, expected), UNCHANGED <<chan, closed>>
  PROVE  Acts(s)
<1>1. CASE WaitFails(s)
  BY <1>1 DEF WaitFails, FailWith, Acts, Ends, Ended, Gone, Grounds, Core
<1>2. CASE TakeTerminal(s)
  BY <1>2 DEF TakeTerminal, Take, FailWith, Acts, Ends, Ended, Gone, Grounds, Warns, Core
<1>3. CASE TakeUnknown(s)
  BY <1>3 DEF TakeUnknown, Take, Acts, Carries, Ended
<1>4. CASE TakeUnexpected(s, expected)
  BY <1>4, FrankWords DEF TakeUnexpected, ProtocolError, LastWord, FailWith, Acts, Ends,
                          Ended, Gone, Grounds, Core, Frank
<1>5. QED
  BY <1>1, <1>2, <1>3, <1>4 DEF WaitOther

LEMMA BothSidesActs ==
  ASSUME Core, Candor, NEW s \in Side, BothSides(s)
  PROVE  Acts(s)
<1>1. CASE NewSession(s)
  BY <1>1 DEF NewSession, At, GoTo, Acts, Carries, Ended, Core
<1>2. CASE SendHello(s)
  BY <1>2, FrankWords DEF SendHello, At, Control, GoTo, FailWith, Acts, Carries, Ends,
                          Ended, Gone, Grounds, linkVars, Core, Frank
<1>3. CASE WaitHello(s)
  <2>1. pc[s] = "waitHello" /\ UNCHANGED <<chan, closed>>
    BY <1>3 DEF WaitHello, At, linkVars
  <2>2. CASE WaitFails(s) \/ TakeTerminal(s)
    BY <2>1, <2>2, WaitOtherActs DEF WaitOther, Ended
  <2>3. CASE TakeHello(s)
    BY <2>1, <2>3, FrankWords DEF TakeHello, Take, LastWord, GoTo, FailWith, AfterHello,
                                  Acts, Carries, Ends, Ended, Gone, Grounds, Core, Frank
  <2>4. CASE TakeNotHello(s)
    BY <2>1, <2>4, FrankWords DEF TakeNotHello, ProtocolError, LastWord, FailWith,
                                  Acts, Ends, Ended, Gone, Grounds, Core, Frank
  <2>5. QED
    BY <1>3, <2>2, <2>3, <2>4 DEF WaitHello
<1>4. CASE Abort(s)
  BY <1>4, FrankWords DEF Abort, At, GoTo, Acts, Carries, Ended, Core, Candor, Frank
<1>5. CASE CloseConn(s)
  BY <1>5 DEF CloseConn, At, GoTo, Acts, Carries, Ended, Core
<1>6. QED
  BY <1>1, <1>2, <1>3, <1>4, <1>5 DEF BothSides

Innocuous(m) == \A e : Frank(m, e)

LEMMA InnocuousTexts ==
  /\ Innocuous(Manifest(Metas)) /\ Innocuous(Done)
  /\ \A id \in Files : /\ Innocuous(FileStart(id))
                       /\ Innocuous(FileAck(id, "ok"))
                       /\ Innocuous(FileAck(id, "hash-mismatch"))
                       /\ \A data \in Content : Innocuous(FileEnd(id, data))
  /\ \A S \in SUBSET Files : Innocuous(Accept(S))
  /\ \A data \in Content : Innocuous(Chunk(data))
<1>1. Files \subseteq Int
  BY FilesAreInts
<1>2. Innocuous(Manifest(Metas)) /\ Innocuous(Done)
  BY MetasTyped DEF Innocuous, Frank, Warns, Message, Manifest, Done
<1>3. ASSUME NEW id \in Files
      PROVE  /\ Innocuous(FileStart(id))
             /\ Innocuous(FileAck(id, "ok")) /\ Innocuous(FileAck(id, "hash-mismatch"))
  BY <1>1 DEF Innocuous, Frank, Warns, Message, FileStart, FileAck
<1>4. ASSUME NEW id \in Files, NEW data \in Content PROVE Innocuous(FileEnd(id, data))
  BY <1>1 DEF Innocuous, Frank, Warns, Message, FileEnd
<1>5. ASSUME NEW S \in SUBSET Files PROVE Innocuous(Accept(S))
  <2>1. S \in SUBSET Int
    BY <1>1
  <2>2. QED
    BY <2>1 DEF Innocuous, Frank, Warns, Message, Accept
<1>6. ASSUME NEW data \in Content PROVE Innocuous(Chunk(data))
  BY DEF Innocuous, Frank, Warns, Message, Chunk
<1>7. QED
  BY <1>2, <1>3, <1>4, <1>5, <1>6

LEMMA ControlActs ==
  ASSUME Core, NEW s \in Side, pc[s] \notin Ended, NEW m, Innocuous(m),
         NEW label, label \notin Ended, Control(s, m, label),
         NoInput \/ Consume(s), UNCHANGED <<chan, closed>>
  PROVE  Acts(s)
<1>1. m \in Message /\ Frank(m, err'[s])
  BY DEF Innocuous, Frank
<1>2. CASE CanSend(s)
  BY <1>1, <1>2 DEF Control, GoTo, Acts, Carries, Ended, Core
<1>3. CASE ~CanSend(s)
  BY <1>3 DEF Control, FailWith, Acts, Ends, Ended, Gone, Grounds, Core
<1>4. QED
  BY <1>2, <1>3

LEMMA SenderActs ==
  ASSUME Parts, Candor, SenderNext
  PROVE  Acts("snd")
<1>1. Core /\ SenderTypeOK /\ "snd" \in Side
  BY DEF Parts, Side
<1>2. CASE BothSides("snd")
  BY <1>1, <1>2, BothSidesActs
<1>3. CASE SendManifest
  BY <1>1, <1>3, InnocuousTexts, ControlActs DEF SendManifest, At, linkVars, Ended
<1>4. CASE WaitReply
  <2>1. pc["snd"] = "waitReply" /\ UNCHANGED <<chan, closed>>
    BY <1>4 DEF WaitReply, At, linkVars
  <2>2. CASE TakeAccept
    BY <1>1, <2>1, <2>2, FrankWords
       DEF TakeAccept, Take, GoTo, ProtocolError, LastWord, FailWith,
           Acts, Carries, Ends, Ended, Gone, Grounds, Core, Frank
  <2>3. CASE TakeReject
    BY <1>1, <2>1, <2>3
       DEF TakeReject, Take, FailWith, Acts, Ends, Ended, Gone, Grounds, Core
  <2>4. CASE WaitOther("snd", {"accept", "reject"})
    BY <1>1, <2>1, <2>4, WaitOtherActs DEF Ended
  <2>5. QED
    BY <1>4, <2>2, <2>3, <2>4 DEF WaitReply
<1>5. CASE StartFile
  <2>1. PICK id \in Files : Control("snd", FileStart(id), "open")
    BY <1>1, <1>5 DEF StartFile, SenderTypeOK
  <2>2. QED
    BY <1>1, <1>5, <2>1, InnocuousTexts, ControlActs DEF StartFile, At, linkVars, Ended
<1>6. CASE OpenFile
  BY <1>1, <1>6 DEF OpenFile, At, GoTo, FailWith, linkVars,
                    Acts, Carries, Ends, Ended, Gone, Grounds, Core
<1>7. CASE Poll
  <2>1. pc["snd"] = "loop" /\ UNCHANGED <<chan, closed>>
    BY <1>7 DEF Poll, At, linkVars
  <2>2. CASE TakeTerminal("snd")
    BY <1>1, <2>1, <2>2, WaitOtherActs DEF WaitOther, Ended
  <2>3. CASE ProtocolError("snd") /\ Consume("snd")
    BY <1>1, <2>1, <2>3, FrankWords
       DEF ProtocolError, LastWord, FailWith, Acts, Ends, Ended, Gone, Grounds, Core, Frank
  <2>4. CASE /\ GoTo("snd", "read") /\ UNCHANGED wire
             /\ NoInput \/ Consume("snd") \/ Defer("snd")
    BY <1>1, <2>1, <2>4 DEF GoTo, Acts, Carries, Ended, Core
  <2>5. CASE FailWith("snd", "ctx") /\ NoInput /\ UNCHANGED wire
    BY <1>1, <2>1, <2>5 DEF FailWith, Acts, Ends, Ended, Gone, Grounds, Core
  <2>6. QED
    BY <1>7, <2>2, <2>3, <2>4, <2>5 DEF Poll, MidSendCheck, Take
<1>8. CASE ReadFile
  BY <1>1, <1>8 DEF ReadFile, At, GoTo, FailWith, linkVars,
                    Acts, Carries, Ends, Ended, Gone, Grounds, Core
<1>9. CASE WriteChunk
  <2>1. Slice(cur, sent, buf) \in Content
    BY <1>1, SliceTyped, FilesAreInts, SenderAssumption DEF SenderTypeOK
  <2>2. CASE Control("snd", Chunk(Slice(cur, sent, buf)), "loop")
    BY <1>1, <1>9, <2>1, <2>2, InnocuousTexts, ControlActs
       DEF WriteChunk, At, linkVars, Ended
  <2>3. CASE FailWith("snd", "ctx") /\ UNCHANGED wire
    BY <1>1, <1>9, <2>3 DEF WriteChunk, At, FailWith, linkVars,
                            Acts, Ends, Ended, Gone, Grounds, Core
  <2>4. QED
    BY <1>9, <2>2, <2>3 DEF WriteChunk
<1>10. CASE EndFile
  <2>1. FileData(cur, sent) \in Content /\ cur \in Files
    BY <1>1, SliceTyped, FilesAreInts DEF SenderTypeOK, FileData
  <2>2. QED
    BY <1>1, <1>10, <2>1, InnocuousTexts, ControlActs DEF EndFile, At, linkVars, Ended
<1>11. CASE WaitAck
  <2>1. pc["snd"] = "waitAck" /\ UNCHANGED <<chan, closed>>
    BY <1>11 DEF WaitAck, At, linkVars
  <2>2. CASE TakeAck
    BY <1>1, <2>1, <2>2, FrankWords
       DEF TakeAck, Take, GoTo, ProtocolError, LastWord, FailWith,
           Acts, Carries, Ends, Ended, Gone, Grounds, Core, Frank
  <2>3. CASE WaitOther("snd", {"file-ack"})
    BY <1>1, <2>1, <2>3, WaitOtherActs DEF Ended
  <2>4. QED
    BY <1>11, <2>2, <2>3 DEF WaitAck
<1>12. CASE SendDone
  BY <1>1, <1>12, InnocuousTexts
     DEF SendDone, At, Succeed, FailWith, Innocuous, Frank,
         Acts, Ends, Ended, Gone, Grounds, Core
<1>13. QED
  BY <1>2, <1>3, <1>4, <1>5, <1>6, <1>7, <1>8, <1>9, <1>10, <1>11, <1>12 DEF SenderNext

LEMMA ReceiverActs ==
  ASSUME Parts, Candor, ReceiverNext
  PROVE  Acts("rcv")
<1>1. Core /\ ReceiverTypeOK /\ "rcv" \in Side
  BY DEF Parts, Side
<1>2. DOMAIN meta \subseteq Files
  BY MetasById DEF Parts, ReceiverSound, NoEntries
<1>3. CASE BothSides("rcv")
  BY <1>1, <1>3, BothSidesActs
<1>4. CASE NoDestination
  BY <1>1, <1>4 DEF NoDestination, At, linkVars,
                    Acts, Ends, Ended, Gone, Grounds, Core
<1>5. CASE WaitManifest
  <2>1. pc["rcv"] = "waitManifest" /\ UNCHANGED <<chan, closed>>
    BY <1>5 DEF WaitManifest, At, linkVars
  <2>2. CASE TakeManifest
    BY <1>1, <2>1, <2>2, FrankWords
       DEF TakeManifest, Take, GoTo, ProtocolError, LastWord, FailWith,
           Acts, Carries, Ends, Ended, Gone, Grounds, Core, Frank
  <2>3. CASE WaitOther("rcv", {"manifest"})
    BY <1>1, <2>1, <2>3, WaitOtherActs DEF Ended
  <2>4. QED
    BY <1>5, <2>2, <2>3 DEF WaitManifest
<1>6. CASE Decide
  <2>1. /\ pc["rcv"] = "decide" /\ UNCHANGED <<chan, closed>> /\ NoInput
    BY <1>6 DEF Decide, At, linkVars
  <2>2. ASSUME NEW e \in {"decide", "declined"}, LastWord("rcv", Reject, e)
        PROVE  Acts("rcv")
    BY <1>1, <2>1, <2>2, FrankWords
       DEF LastWord, FailWith, Acts, Ends, Ended, Gone, Grounds, Core, Frank
  <2>3. ASSUME NEW S \in SUBSET Files, Control("rcv", Accept(S), "waitStart")
        PROVE  Acts("rcv")
    BY <1>1, <2>1, <2>3, InnocuousTexts, ControlActs DEF Ended
  <2>4. QED
    BY <1>2, <1>6, <2>2, <2>3 DEF Decide
<1>7. CASE WaitFileStart
  <2>1. pc["rcv"] = "waitStart" /\ UNCHANGED <<chan, closed>>
    BY <1>7 DEF WaitFileStart, At, linkVars
  <2>2. ASSUME NEW id \in want, TakeFileStart(id) PROVE Acts("rcv")
    BY <1>1, <2>1, <2>2, FrankWords
       DEF TakeFileStart, CreateDest, Take, GoTo, ProtocolError, LastWord, FailWith,
           Acts, Carries, Ends, Ended, Gone, Grounds, Core, Frank
  <2>3. CASE WaitOther("rcv", {"file-start"})
    BY <1>1, <2>1, <2>3, WaitOtherActs DEF Ended
  <2>4. QED
    BY <1>7, <2>2, <2>3 DEF WaitFileStart
<1>8. CASE ReceiveChunks
  <2>1. pc["rcv"] = "chunks" /\ UNCHANGED <<chan, closed>>
    BY <1>8 DEF ReceiveChunks, At, linkVars
  <2>2. ASSUME NEW id \in want, TakeChunk(id) PROVE Acts("rcv")
    BY <1>1, <2>1, <2>2, FrankWords
       DEF TakeChunk, Take, ProtocolError, LastWord, FailWith,
           Acts, Carries, Ends, Ended, Gone, Grounds, Core, Frank
  <2>3. ASSUME NEW id \in want, TakeFileEnd(id) PROVE Acts("rcv")
    <3>1. id \in Files /\ Consume("rcv")
      BY <1>1, <1>2, <2>3 DEF ReceiverTypeOK, TakeFileEnd, Take
    <3>2. CASE Keep(id)
      BY <1>1, <2>1, <3>1, <3>2, InnocuousTexts, ControlActs DEF Keep, Ended
    <3>3. CASE Mismatch(id)
      <4>1. Innocuous(FileAck(id, "hash-mismatch"))
        BY <3>1, InnocuousTexts
      <4>2. UNCHANGED wire \/ \E m \in Message : Frank(m, err'["rcv"]) /\ Post("rcv", m)
        BY <3>3, <4>1 DEF Mismatch, Innocuous, Frank
      <4>3. FailWith("rcv", "hash-mismatch")
        BY <3>3 DEF Mismatch
      <4>4. QED
        BY <1>1, <2>1, <3>1, <4>2, <4>3
           DEF FailWith, Acts, Ends, Ended, Gone, Grounds, Core
    <3>4. CASE ProtocolError("rcv")
      BY <1>1, <2>1, <3>1, <3>4, FrankWords
         DEF ProtocolError, LastWord, FailWith, Acts, Ends, Ended, Gone, Grounds, Core, Frank
    <3>5. CASE FailWith("rcv", "local") /\ UNCHANGED wire
      BY <1>1, <2>1, <3>1, <3>5 DEF FailWith, Acts, Ends, Ended, Gone, Grounds, Core
    <3>6. QED
      BY <2>3, <3>2, <3>3, <3>4, <3>5 DEF TakeFileEnd
  <2>4. CASE NoChunk
    BY <1>1, <2>1, <2>4, WaitOtherActs DEF NoChunk, Ended
  <2>5. QED
    BY <1>8, <2>2, <2>3, <2>4 DEF ReceiveChunks
<1>9. CASE WaitDone
  <2>1. pc["rcv"] = "waitDone" /\ UNCHANGED <<chan, closed>>
    BY <1>9 DEF WaitDone, At
  <2>2. CASE Take("rcv", {"done"}) /\ Succeed("rcv") /\ UNCHANGED wire
    BY <1>1, <2>1, <2>2 DEF Take, Succeed, Acts, Ends, Ended, Gone, Grounds, Core
  <2>3. CASE WaitOther("rcv", {"done"})
    BY <1>1, <2>1, <2>3, WaitOtherActs DEF Ended
  <2>4. QED
    BY <1>9, <2>2, <2>3 DEF WaitDone
<1>10. QED
  BY <1>3, <1>4, <1>5, <1>6, <1>7, <1>8, <1>9 DEF ReceiverNext

LEMMA NextCandor ==
  ASSUME Parts, Parts', Candor, [Next]_vars
  PROVE  Candor'
<1>1. PICK G : G = Told(err)
  OBVIOUS
<1>2. Typed(G) /\ Queues(G)
  BY <1>1 DEF Candor, Typed, Told
<1>3. CASE SenderStep \/ ReceiverStep
  BY <1>3, SenderActs, ReceiverActs, ActsKeepCandor DEF SenderStep, ReceiverStep, Parts, Side
<1>4. ASSUME Queues(G)', UNCHANGED <<pc, err>>,
             \A s \in Side : closed'[s] \/ chan'[s] = "hook" => pc[Peer(s)] = "closed"
      PROVE  Candor'
  BY <1>1, <1>4 DEF Candor, Queues, BlameIsTrue
<1>5. CASE NetworkStep
  <2>1. PICK s \in Side : Network(s)
    BY <1>5 DEF NetworkStep
  <2>2. Queues(G)'
    BY <1>2, <2>1, NetworkMoves DEF Parts
  <2>3. UNCHANGED <<pc, err>>
    BY <2>1 DEF Network, Deliver, LoseTail, SeeClose, RunOnClose, quiet
  <2>4. \A t \in Side : closed'[t] \/ chan'[t] = "hook" => pc[Peer(t)] = "closed"
    BY <2>1 DEF Network, Deliver, LoseTail, SeeClose, RunOnClose, linkVars, At,
                Candor, Parts, Link
  <2>5. QED
    BY <1>4, <2>2, <2>3, <2>4
<1>6. CASE UserStep \/ UNCHANGED vars
  <2>1. UNCHANGED <<sessionVars, chan, closed>>
    BY <1>6 DEF UserStep, CancelCtx, ChangeFile, linkVars, vars
  <2>2. QED
    BY <1>2, <1>4, <2>1 DEF sessionVars, Queues, Holds, Candor
<1>7. QED
  BY <1>3, <1>5, <1>6 DEF Next

LEMMA InitCandor == Init => Candor
<1> SUFFICES ASSUME Init PROVE Candor
  OBVIOUS
<1>1. \A s \in Side : <<>> \in Seq(Told(err)[s]) /\ <<>> \in Seq(Message)
  BY EmptySeq
<1>2. Queues(Told(err))
  BY <1>1 DEF Init, SessionInit, Queues, Holds
<1>3. QED
  BY <1>2, PeerSide DEF Init, SessionInit, Candor, Ended, BlameIsTrue

\* Whatever side failed, and however its failure crossed the other's: a
\* refusal, a failure or a close it reports has happened over there.
THEOREM BlameIsAlwaysTrue == Spec => []BlameIsTrue
<1>1. Init => Parts /\ Candor
  BY InitParts, InitCandor
<1>2. Parts /\ Candor /\ [Next]_vars => Parts' /\ Candor'
  BY NextParts, NextCandor
<1>3. Candor => BlameIsTrue
  BY DEF Candor
<1>4. QED
  BY <1>1, <1>2, <1>3, PTL DEF Spec

-----------------------------------------------------------------------------
(* What the front ends are told.                                           *)

\* A side has reported the start of the file it is at.
Working(s) == IF s = "snd" THEN pc["snd"] \in Busy ELSE pc["rcv"] = "chunks"
Returned   == {"returned", "closed"}

Each(s)        == {"start", "ok"} \X Completed(s)
With(s, kinds) == Each(s) \cup (kinds \X Upcoming(s))

\* The events there may have been by now: while the call goes on, after a
\* digest mismatch, after a change of the length, and after any other end.
Logs(s) ==
  IF err[s] = "none" THEN {IF Working(s) THEN With(s, {"start"}) ELSE Each(s)}
  ELSE IF err[s] = "hash-mismatch" THEN {With(s, {"start", "bad"})}
  ELSE IF err[s] = "changed" THEN {With(s, {"start"})}
  ELSE {Each(s), With(s, {"start"})}

Closing(s) == final[s] = IF err[s] = "nil" THEN "done" ELSE "error"

\* The files of an accept are settled in order, and what the event channel of
\* s has said, unless its context is done, is what was settled.
Report(s) ==
  /\ \A x \in Completed(s), y \in Left(s) : x < y
  /\ err[s] = "nil" => Left(s) = {}
  /\ err[s] \in {"hash-mismatch", "changed"} => Upcoming(s) # {}
  /\ ~ctx[s] => /\ pc[s] \in Returned => Closing(s)
                /\ Ascending(shown[s])
                /\ Emitted(s) \in Logs(s)

Reports == /\ \A s \in Side : Report(s)
           /\ pc["rcv"] = "waitDone" => want = {}

Unmoved(s) == ctx'[s] = ctx[s] /\ Left(s)' = Left(s) /\ Completed(s)' = Completed(s)

LEMMA UnmovedSets ==
  ASSUME NEW s \in Side, Unmoved(s)
  PROVE  /\ Upcoming(s)' = Upcoming(s) /\ Each(s)' = Each(s)
         /\ \A kinds : With(s, kinds)' = With(s, kinds)
<1>1. Upcoming(s)' = Upcoming(s)
  BY DEF Unmoved, Upcoming
<1>2. Each(s)' = Each(s)
  BY DEF Unmoved, Each
<1>3. QED
  BY <1>1, <1>2 DEF With

\* A step that says nothing and settles nothing: at most the call ends.
LEMMA SilentReport ==
  ASSUME NEW s \in Side, Report(s), Unmoved(s), shown'[s] = shown[s],
         \/ err'[s] = err[s] /\ (err[s] # "none" \/ Working(s)' = Working(s))
         \/ /\ err[s] = "none" /\ err'[s] \notin {"none", "hash-mismatch"}
            /\ err'[s] = "changed" => Working(s) /\ Upcoming(s) # {},
         err'[s] = "nil" => Left(s) = {},
         ~ctx[s] /\ pc'[s] \in Returned => Closing(s)'
  PROVE  Report(s)'
<1>1. /\ Each(s)' = Each(s)
      /\ With(s, {"start"})' = With(s, {"start"})
      /\ With(s, {"start", "bad"})' = With(s, {"start", "bad"})
      /\ Upcoming(s)' = Upcoming(s)
  BY UnmovedSets
<1>2. Emitted(s)' = Emitted(s) /\ Ascending(shown[s])' = Ascending(shown[s])
  BY DEF Emitted, Ascending
<1>3. Emitted(s) \in Logs(s) => Emitted(s)' \in Logs(s)'
  <2>1. CASE err'[s] = err[s] /\ (err[s] # "none" \/ Working(s)' = Working(s))
    <3>1. Logs(s)' = Logs(s)
      BY <1>1, <2>1 DEF Logs
    <3>2. QED
      BY <1>2, <3>1
  <2>2. CASE /\ err[s] = "none" /\ err'[s] \notin {"none", "hash-mismatch"}
             /\ err'[s] = "changed" => Working(s)
    <3>1. Logs(s)' = IF err'[s] = "changed" THEN {With(s, {"start"})}
                                            ELSE {Each(s), With(s, {"start"})}
      BY <1>1, <2>2 DEF Logs
    <3>2. Logs(s) \subseteq Logs(s)'
      BY <2>2, <3>1 DEF Logs
    <3>3. QED
      BY <1>2, <3>1, <3>2
  <2>3. QED
    BY <2>1, <2>2
<1>4. err'[s] \in {"hash-mismatch", "changed"} => Upcoming(s)' # {}
  BY <1>1 DEF Report
<1>5. QED
  BY <1>2, <1>3, <1>4 DEF Report, Unmoved, Closing

\* The other side is told nothing and stays where it is.
LEMMA OtherReport ==
  ASSUME NEW s \in Side, Report(s), Unmoved(s), shown'[s] = shown[s],
         final'[s] = final[s], pc'[s] = pc[s], err'[s] = err[s], Working(s)' = Working(s)
  PROVE  Report(s)'
<1>1. Closing(s)' = Closing(s)
  BY DEF Closing
<1>2. err'[s] = "nil" => Left(s) = {}
  BY DEF Report
<1>3. ~ctx[s] /\ pc'[s] \in Returned => Closing(s)'
  BY <1>1 DEF Report
<1>4. QED
  BY <1>2, <1>3, SilentReport

\* The files are chosen.
LEMMA ChosenReport ==
  ASSUME NEW s \in Side, Report(s), ctx'[s] = ctx[s], shown'[s] = shown[s],
         Completed(s) = {}, Completed(s)' = {}, ~Working(s), ~Working(s)',
         err[s] = "none", err'[s] = "none", pc'[s] \notin Returned
  PROVE  Report(s)'
<1>1. Each(s) = {} /\ Each(s)' = {}
  BY DEF Each
<1>2. Logs(s) = {{}} /\ Logs(s)' = {{}}
  BY <1>1 DEF Logs
<1>3. Emitted(s)' = Emitted(s) /\ Ascending(shown[s])' = Ascending(shown[s])
  BY DEF Emitted, Ascending
<1>4. QED
  BY <1>2, <1>3 DEF Report

LEMMA AscendingAppend ==
  ASSUME Events, NEW s \in Side, NEW kind \in {"start", "ok", "bad"}, NEW id \in Int,
         shown'[s] = Append(shown[s], <<kind, id>>), Ascending(shown[s]),
         \A e \in Emitted(s) : Precedes(e, <<kind, id>>)
  PROVE  Ascending(shown[s])'
<1>1. shown[s] \in Seq({"start", "ok", "bad"} \X Int) /\ <<kind, id>> \in {"start", "ok", "bad"} \X Int
  BY DEF Events
<1>2. /\ DOMAIN shown[s] = 1..Len(shown[s]) /\ Len(shown[s]) \in Nat
      /\ DOMAIN shown'[s] = 1..Len(shown[s]) + 1
      /\ shown'[s][Len(shown[s]) + 1] = <<kind, id>>
      /\ \A i \in 1..Len(shown[s]) : shown'[s][i] = shown[s][i]
  BY <1>1
<1>3. SUFFICES ASSUME NEW i \in DOMAIN shown'[s], NEW j \in DOMAIN shown'[s], i < j
               PROVE  Precedes(shown'[s][i], shown'[s][j])
  BY DEF Ascending
<1>4. i \in DOMAIN shown[s] /\ shown'[s][i] = shown[s][i]
  BY <1>2, <1>3
<1>5. CASE j \in DOMAIN shown[s]
  BY <1>2, <1>3, <1>4, <1>5 DEF Ascending
<1>6. CASE j = Len(shown[s]) + 1
  BY <1>2, <1>4, <1>6 DEF Emitted
<1>7. QED
  BY <1>2, <1>5, <1>6

\* There is one least file.
LEMMA OneUpcoming ==
  ASSUME NEW s \in Side, NEW id \in Upcoming(s), Left(s) \subseteq Int
  PROVE  Upcoming(s) = {id} /\ id \in Left(s) /\ id \in Int
BY DEF Upcoming, IsNext

LEMMA StartReport ==
  ASSUME Events, NEW s \in Side, Report(s), Unmoved(s), Left(s) \subseteq Int,
         Completed(s) \subseteq Int,
         NEW id \in Upcoming(s), Emit(s, <<"start", id>>),
         ~Working(s), Working(s)', err[s] = "none", err'[s] = "none", pc'[s] \notin Returned
  PROVE  Report(s)'
<1>1. Upcoming(s) = {id} /\ id \in Left(s) /\ id \in Int
  BY OneUpcoming
<1>2. Each(s)' = Each(s) /\ With(s, {"start"})' = With(s, {"start"})
  BY UnmovedSets
<1>3. With(s, {"start"}) = Each(s) \cup {<<"start", id>>}
  BY <1>1 DEF With
<1>4. ASSUME ~ctx[s]
      PROVE  Ascending(shown[s])' /\ Emitted(s)' \in Logs(s)'
  <2>1. Emitted(s) = Each(s) /\ Ascending(shown[s])
    BY <1>4 DEF Report, Logs
  <2>2. Emitted(s)' = Emitted(s) \cup {<<"start", id>>}
    BY <1>1, <1>4, EmitTyped
  <2>3. Logs(s)' = {With(s, {"start"})}
    BY <1>2 DEF Logs
  <2>4. \A e \in Emitted(s) : Precedes(e, <<"start", id>>)
    BY <1>1, <2>1 DEF Each, Precedes, Report
  <2>5. shown'[s] = Append(shown[s], <<"start", id>>)
    BY <1>1, <1>4, EmitAppends
  <2>6. QED
    BY <1>1, <1>3, <2>1, <2>2, <2>3, <2>4, <2>5, AscendingAppend
<1>5. QED
  BY <1>4 DEF Report, Unmoved

\* The done of the file at hand, verified or not.
LEMMA DoneEvent ==
  ASSUME Events, NEW s \in Side, Report(s), ~ctx[s], Left(s) \subseteq Int,
         Completed(s) \subseteq Int, Working(s), err[s] = "none",
         NEW id \in Upcoming(s), NEW kind \in {"ok", "bad"}, Emit(s, <<kind, id>>)
  PROVE  /\ Ascending(shown[s])'
         /\ Emitted(s)' = Each(s) \cup {<<"start", id>>, <<kind, id>>}
<1>1. Upcoming(s) = {id} /\ id \in Left(s) /\ id \in Int
  BY OneUpcoming
<1>2. Emitted(s) = Each(s) \cup {<<"start", id>>} /\ Ascending(shown[s])
  BY <1>1 DEF Report, Logs, With
<1>3. \A e \in Emitted(s) : Precedes(e, <<kind, id>>)
  BY <1>1, <1>2 DEF Each, Precedes, Report
<1>4. shown'[s] = Append(shown[s], <<kind, id>>)
  BY <1>1, EmitAppends
<1>5. Ascending(shown[s])'
  BY <1>1, <1>2, <1>3, <1>4, AscendingAppend
<1>6. Emitted(s)' = Emitted(s) \cup {<<kind, id>>}
  BY <1>1, EmitTyped
<1>7. QED
  BY <1>2, <1>5, <1>6

LEMMA OkReport ==
  ASSUME Events, NEW s \in Side, Report(s), Left(s) \subseteq Int, Completed(s) \subseteq Int,
         ctx'[s] = ctx[s], NEW id \in Upcoming(s), Emit(s, <<"ok", id>>),
         Left(s)' = Left(s) \ {id}, Completed(s)' = Completed(s) \cup {id},
         Working(s), ~Working(s)', err[s] = "none", err'[s] = "none", pc'[s] \notin Returned
  PROVE  Report(s)'
<1>1. id \in Left(s) /\ \A j \in Left(s) : id <= j
  BY DEF Upcoming, IsNext
<1>2. \A x \in Completed(s)', y \in Left(s)' : x < y
  BY <1>1 DEF Report
<1>3. Each(s)' = Each(s) \cup {<<"start", id>>, <<"ok", id>>}
  BY DEF Each
<1>4. Logs(s)' = {Each(s)'}
  BY DEF Logs
<1>5. ~ctx[s] => Ascending(shown[s])' /\ Emitted(s)' = Each(s)'
  BY <1>3, DoneEvent
<1>6. QED
  BY <1>2, <1>4, <1>5 DEF Report

LEMMA BadReport ==
  ASSUME Events, NEW s \in Side, Report(s), Unmoved(s), Left(s) \subseteq Int,
         Completed(s) \subseteq Int,
         NEW id \in Upcoming(s), Emit(s, <<"bad", id>>),
         Working(s), err[s] = "none", err'[s] = "hash-mismatch", pc'[s] \notin Returned
  PROVE  Report(s)'
<1>1. Upcoming(s) = {id}
  BY OneUpcoming
<1>2. With(s, {"start", "bad"})' = Each(s) \cup {<<"start", id>>, <<"bad", id>>}
  BY <1>1, UnmovedSets DEF With
<1>3. Logs(s)' = {With(s, {"start", "bad"})'}
  BY DEF Logs
<1>4. ~ctx[s] => Ascending(shown[s])' /\ Emitted(s)' = With(s, {"start", "bad"})'
  BY <1>2, DoneEvent
<1>5. Upcoming(s)' # {}
  BY <1>1, UnmovedSets
<1>6. QED
  BY <1>3, <1>4, <1>5 DEF Report, Unmoved

LEMMA SidesInts ==
  ASSUME Parts, NEW s \in Side
  PROVE  Left(s) \subseteq Int /\ Completed(s) \subseteq Int
<1>1. todo \subseteq Int /\ Acked \subseteq Int
  BY FilesAreInts DEF Parts, SenderTypeOK, Acked
<1>2. want \subseteq Int /\ SavedIds \subseteq Int
  BY DEF Parts, ReceiverTypeOK, SavedIds
<1>3. QED
  BY <1>1, <1>2 DEF Left, Completed

\* A step of s that carries on or fails, saying nothing.
LEMMA QuietReport ==
  ASSUME Candor, Reports, NEW s \in Side, Acts(s), NoEvent, Unmoved(s),
         pc'[s] \notin Returned, err'[s] \notin {"nil", "hash-mismatch"},
         err'[s] = "changed" => err'[s] = err[s] \/ (Working(s) /\ Upcoming(s) # {}),
         err'[s] = err[s] => Working(s)' = Working(s)
  PROVE  Report(s)'
<1>1. Report(s) /\ shown'[s] = shown[s]
  BY DEF Reports, NoEvent
<1>2. err'[s] = err[s] \/ (err[s] = "none" /\ err'[s] # "none")
  BY DEF Acts, Carries, Ends, Candor
<1>3. QED
  BY <1>1, <1>2, SilentReport

\* What a wait loop does never makes a call succeed or a digest differ.
LEMMA WaitOtherPlain ==
  ASSUME Core, NEW s \in Side, NEW expected, WaitOther(s, expected), err[s] = "none"
  PROVE  err'[s] \notin {"nil", "hash-mismatch", "changed"}
BY DEF WaitOther, WaitFails, TakeTerminal, TakeUnknown, TakeUnexpected, ProtocolError,
       LastWord, FailWith, Core

LEMMA BothSidesReport ==
  ASSUME Parts, Candor, Reports, NEW s \in Side, BothSides(s),
         UNCHANGED <<sndVars, rcvVars>>
  PROVE  Reports'
<1>1. /\ Core /\ Link /\ Events /\ Acts(s) /\ Report(s)
      /\ \A t \in Side : Unmoved(t)
      /\ \A t \in Side \ {s} : final'[t] = final[t] /\ pc'[t] = pc[t] /\ err'[t] = err[t]
      /\ shown' = shown
  BY BothSidesActs DEF Parts, Reports, BothSides, NewSession, SendHello, WaitHello, Abort,
     CloseConn, linkVars, NoEvent, EmitFinal, sndVars, rcvVars, Unmoved, Left, Completed,
     Acked, SavedIds, Events, Acts
<1>2. /\ pc[s] \in {"init", "hello", "waitHello", "failed", "returned"}
      /\ pc'[s] \in {"hello", "waitHello", AfterHello(s)} \cup Ended
  BY <1>1, BothSidesFares DEF BothSides, NewSession, SendHello, WaitHello, Abort, CloseConn,
                              At, Plays
<1>3. Working(s)' = Working(s) /\ pc'[s] # "waitDone"
  <2>1. ~Working(s) /\ ~Working(s)' /\ pc'[s] # "waitDone"
    BY <1>2 DEF Working, Busy, AfterHello, Ended, Side
  <2>2. QED
    BY <2>1 DEF Working
<1>4. Report(s)'
  <2>1. CASE Abort(s)
    <3>1. pc[s] = "failed" /\ err' = err /\ (ctx[s] \/ final'[s] = "error")
      BY <1>1, <2>1 DEF Abort, At, GoTo, EmitFinal, Events
    <3>2. err[s] \notin {"none", "nil"}
      BY <1>1, <3>1 DEF Candor, Gone
    <3>3. ~ctx[s] => Closing(s)'
      BY <3>1, <3>2 DEF Closing
    <3>4. /\ Unmoved(s) /\ shown'[s] = shown[s] /\ err'[s] = err[s] /\ err[s] # "none"
          /\ err'[s] # "nil"
      BY <1>1, <3>1, <3>2
    <3>5. QED
      BY <1>1, <3>3, <3>4, SilentReport
  <2>2. CASE CloseConn(s)
    <3>1. pc[s] = "returned" /\ err' = err /\ final' = final
      BY <2>2 DEF CloseConn, At, GoTo, NoEvent
    <3>2. ~ctx[s] => Closing(s)'
      BY <1>1, <3>1 DEF Report, Returned, Closing
    <3>3. err'[s] = "nil" => Left(s) = {}
      BY <1>1, <3>1 DEF Report
    <3>4. /\ Unmoved(s) /\ shown'[s] = shown[s] /\ err'[s] = err[s]
      BY <1>1, <3>1
    <3>5. QED
      BY <1>1, <1>3, <3>2, <3>3, <3>4, SilentReport
  <2>3. CASE NewSession(s) \/ SendHello(s) \/ WaitHello(s)
    <3>1. err[s] = "none" /\ NoEvent
      BY <1>1, <2>3 DEF NewSession, SendHello, WaitHello, At, Candor, Ended
    <3>2. err'[s] \notin {"nil", "hash-mismatch", "changed"} /\ pc'[s] \notin Returned
      BY <1>1, <2>3, <3>1 DEF NewSession, SendHello, WaitHello, Control, GoTo, WaitFails,
         TakeTerminal, TakeHello, TakeNotHello, ProtocolError, LastWord, FailWith,
         AfterHello, Core, Returned, At
    <3>3. Unmoved(s)
      BY <1>1
    <3>4. QED
      BY <1>1, <1>3, <3>1, <3>2, <3>3, QuietReport
  <2>4. QED
    BY <2>1, <2>2, <2>3 DEF BothSides
<1>5. ASSUME NEW t \in Side \ {s} PROVE Report(t)'
  <2>1. Working(t)' = Working(t)
    BY <1>1 DEF Working, Side
  <2>2. QED
    BY <1>1, <2>1, OtherReport DEF Reports
<1>6. pc'["rcv"] = "waitDone" => want' = {}
  BY <1>1, <1>3 DEF Reports, rcvVars, Side
<1>7. QED
  BY <1>4, <1>5, <1>6 DEF Reports

LEMMA SenderReport ==
  ASSUME Reports, Acts("snd"), UNCHANGED <<rcvVars, ctx>>,
         shown'["rcv"] = shown["rcv"], final'["rcv"] = final["rcv"], Report("snd")'
  PROVE  Reports'
<1>1. pc'["rcv"] = pc["rcv"] /\ err'["rcv"] = err["rcv"]
  BY DEF Acts, Side
<1>2. Unmoved("rcv") /\ Working("rcv")' = Working("rcv")
  BY <1>1 DEF Unmoved, Left, Completed, Working, SavedIds, rcvVars
<1>3. Report("rcv")'
  BY <1>1, <1>2, OtherReport DEF Reports, Side
<1>4. QED
  BY <1>1, <1>3 DEF Reports, Side, rcvVars

\* A quiet step of the sender.
LEMMA QuietSenderReport ==
  ASSUME Candor, Reports, Acts("snd"), UNCHANGED <<rcvVars, ctx, accepted, todo>>, NoEvent,
         err'["snd"] \notin {"nil", "hash-mismatch"}, pc'["snd"] \notin Returned,
         err'["snd"] = "changed" => pc["snd"] \in Busy /\ Upcoming("snd") # {},
         pc'["snd"] \in Busy <=> pc["snd"] \in Busy /\ pc'["snd"] # "failed"
  PROVE  Reports'
<1>1. Unmoved("snd")
  BY DEF Unmoved, Left, Completed, Acked
<1>2. err'["snd"] = err["snd"] => Working("snd")' = Working("snd")
  BY DEF Acts, Carries, Ends, Candor, Working, Busy, Side
<1>3. err'["snd"] = "changed" => Working("snd") /\ Upcoming("snd") # {}
  BY DEF Working
<1>4. Report("snd")'
  BY <1>1, <1>2, <1>3, QuietReport DEF Side
<1>5. QED
  BY <1>4, SenderReport DEF NoEvent

LEMMA StartFileReports ==
  ASSUME Parts, Ledger, Candor, Reports, SenderStep, StartFile
  PROVE  Reports'
<1>1. /\ Core /\ Events /\ Acts("snd") /\ UNCHANGED rcvVars /\ "snd" \in Side
      /\ Report("snd")
  BY SenderActs DEF Parts, SenderStep, Reports, Side
<1>2. pc["snd"] = "nextFile" /\ UNCHANGED <<ctx, accepted, todo>> /\ err["snd"] = "none"
  BY <1>1 DEF StartFile, At, linkVars, Candor, Ended
<1>3. PICK id \in todo : /\ IsNext(id, todo)
                         /\ Control("snd", FileStart(id), "open")
                         /\ IF CanSend("snd") THEN Emit("snd", <<"start", id>>) ELSE NoEvent
  BY DEF StartFile
<1>4. CASE ~CanSend("snd")
  <2>1. err'["snd"] = "send" /\ pc'["snd"] = "failed" /\ NoEvent
    BY <1>1, <1>3, <1>4 DEF Control, FailWith, Core
  <2>2. QED
    BY <1>1, <1>2, <2>1, QuietSenderReport DEF Returned, Busy
<1>5. CASE CanSend("snd")
  <2>1. Emit("snd", <<"start", id>>) /\ pc'["snd"] = "open" /\ err' = err
    BY <1>1, <1>3, <1>5 DEF Control, GoTo, Core
  <2>2. Unmoved("snd") /\ id \in Upcoming("snd")
    BY <1>2, <1>3 DEF Unmoved, Left, Completed, Acked, Upcoming
  <2>3. ~Working("snd") /\ Working("snd")'
    BY <1>2, <2>1 DEF Working, Busy
  <2>4. Report("snd")'
    BY <1>1, <1>2, <2>1, <2>2, <2>3, SidesInts, StartReport DEF Returned
  <2>5. id \in Int
    BY <1>3, FilesAreInts DEF Parts, SenderTypeOK
  <2>6. shown'["rcv"] = shown["rcv"] /\ final' = final
    BY <1>1, <2>1, <2>5, EmitAppends DEF Side
  <2>7. QED
    BY <1>1, <1>2, <2>4, <2>6, SenderReport
<1>6. QED
  BY <1>4, <1>5

LEMMA WaitReplyReports ==
  ASSUME Parts, Ledger, Candor, Reports, SenderStep, WaitReply
  PROVE  Reports'
<1>1. /\ Core /\ Events /\ Acts("snd") /\ UNCHANGED rcvVars /\ "snd" \in Side
      /\ Report("snd")
  BY SenderActs DEF Parts, SenderStep, Reports, Side
<1>2. /\ pc["snd"] = "waitReply" /\ UNCHANGED ctx /\ NoEvent /\ err["snd"] = "none"
      /\ accepted = {}
  BY <1>1 DEF WaitReply, At, linkVars, Candor, Ended, Ledger, Choices, Unanswered
<1>3. ASSUME UNCHANGED <<accepted, todo>>, pc'["snd"] \in {"waitReply", "failed"},
             err'["snd"] \notin {"nil", "hash-mismatch", "changed"}
      PROVE  Reports'
  BY <1>1, <1>2, <1>3, QuietSenderReport DEF Returned, Busy
<1>4. CASE WaitOther("snd", {"accept", "reject"}) /\ UNCHANGED <<accepted, todo>>
  <2>1. pc'["snd"] \in {"waitReply", "failed"}
    BY <1>1, <1>2, <1>4, WaitOtherFares DEF Plays, Ended
  <2>2. QED
    BY <1>1, <1>2, <1>3, <1>4, <2>1, WaitOtherPlain
<1>5. CASE TakeReject
  BY <1>1, <1>2, <1>3, <1>5 DEF TakeReject, FailWith, Core
<1>6. CASE ProtocolError("snd") /\ UNCHANGED <<accepted, todo>>
  BY <1>1, <1>2, <1>3, <1>6 DEF ProtocolError, LastWord, FailWith, Core
<1>7. CASE GoTo("snd", "nextFile") /\ accepted' = todo'
  <2>1. Completed("snd") = {} /\ Completed("snd")' = {}
    BY <1>2, <1>7 DEF Completed, Acked
  <2>2. pc'["snd"] = "nextFile" /\ err' = err
    BY <1>1, <1>7 DEF GoTo, Core
  <2>3. ~Working("snd") /\ ~Working("snd")'
    BY <1>2, <2>2 DEF Working, Busy
  <2>4. Report("snd")'
    BY <1>1, <1>2, <2>1, <2>2, <2>3, ChosenReport DEF NoEvent, Returned
  <2>5. QED
    BY <1>1, <1>2, <2>4, SenderReport DEF NoEvent
<1>8. QED
  BY <1>4, <1>5, <1>6, <1>7 DEF WaitReply, TakeAccept

LEMMA WaitAckReports ==
  ASSUME Parts, Ledger, Candor, Reports, SenderStep, WaitAck
  PROVE  Reports'
<1>1. /\ Core /\ Events /\ Acts("snd") /\ UNCHANGED rcvVars /\ "snd" \in Side
      /\ Report("snd") /\ cur \in Int /\ todo \subseteq accepted
  BY SenderActs, FilesAreInts DEF Parts, SenderStep, Reports, Side, SenderTypeOK
<1>2. /\ pc["snd"] = "waitAck" /\ UNCHANGED <<ctx, accepted>> /\ err["snd"] = "none"
      /\ cur \in Upcoming("snd") /\ Working("snd") /\ IsNext(cur, todo)
  BY <1>1 DEF WaitAck, At, linkVars, Candor, Ended, Ledger, Choices, Busy, Upcoming, Left,
              IsNext, Working
<1>3. CASE WaitOther("snd", {"file-ack"}) /\ NoEvent /\ UNCHANGED todo
  <2>1. pc'["snd"] \in {"waitAck", "failed"}
    BY <1>1, <1>2, <1>3, WaitOtherFares DEF Plays, Ended
  <2>2. QED
    BY <1>1, <1>2, <1>3, <2>1, WaitOtherPlain, QuietSenderReport DEF Returned, Busy
<1>4. CASE ProtocolError("snd") /\ NoEvent /\ UNCHANGED todo
  <2>1. pc'["snd"] = "failed" /\ err'["snd"] = "protocol"
    BY <1>1, <1>4 DEF ProtocolError, LastWord, FailWith, Core
  <2>2. QED
    BY <1>1, <1>2, <1>4, <2>1, QuietSenderReport DEF Returned, Busy
<1>5. CASE /\ Emit("snd", <<"bad", cur>>) /\ FailWith("snd", "hash-mismatch")
           /\ UNCHANGED todo
  <2>1. pc'["snd"] = "failed" /\ err'["snd"] = "hash-mismatch"
    BY <1>1, <1>5 DEF FailWith, Core
  <2>2. Unmoved("snd")
    BY <1>2, <1>5 DEF Unmoved, Left, Completed, Acked
  <2>3. Report("snd")'
    BY <1>1, <1>2, <1>5, <2>1, <2>2, SidesInts, BadReport DEF Returned
  <2>4. shown'["rcv"] = shown["rcv"] /\ final' = final
    BY <1>1, <1>5, EmitAppends DEF Side
  <2>5. QED
    BY <1>1, <1>2, <2>3, <2>4, SenderReport
<1>6. CASE /\ Emit("snd", <<"ok", cur>>) /\ GoTo("snd", "nextFile")
           /\ todo' = todo \ {cur}
  <2>1. pc'["snd"] = "nextFile" /\ err' = err
    BY <1>1, <1>6 DEF GoTo, Core
  <2>2. Left("snd")' = Left("snd") \ {cur} /\ Completed("snd")' = Completed("snd") \cup {cur}
    BY <1>1, <1>2, <1>6 DEF Left, Completed, Acked, IsNext
  <2>3. ~Working("snd")'
    BY <2>1 DEF Working, Busy
  <2>4. Report("snd")'
    BY <1>1, <1>2, <1>6, <2>1, <2>2, <2>3, SidesInts, OkReport DEF Returned
  <2>5. shown'["rcv"] = shown["rcv"] /\ final' = final
    BY <1>1, <1>6, EmitAppends DEF Side
  <2>6. QED
    BY <1>1, <1>2, <2>4, <2>5, SenderReport
<1>7. QED
  BY <1>3, <1>4, <1>5, <1>6 DEF WaitAck, TakeAck

LEMMA SendDoneReports ==
  ASSUME Parts, Ledger, Candor, Reports, SenderStep, SendDone
  PROVE  Reports'
<1>1. /\ Core /\ Events /\ Acts("snd") /\ UNCHANGED rcvVars /\ "snd" \in Side
      /\ Report("snd")
  BY SenderActs DEF Parts, SenderStep, Reports, Side
<1>2. /\ pc["snd"] = "nextFile" /\ UNCHANGED <<ctx, accepted, todo>> /\ err["snd"] = "none"
      /\ todo = {}
  BY <1>1 DEF SendDone, At, sndVars, Candor, Ended
<1>3. Unmoved("snd")
  BY <1>2 DEF Unmoved, Left, Completed, Acked
<1>4. CASE Succeed("snd")
  <2>1. /\ pc'["snd"] = "returned" /\ err'["snd"] = "nil" /\ shown' = shown
        /\ final'["rcv"] = final["rcv"] /\ (ctx["snd"] \/ final'["snd"] = "done")
    BY <1>1, <1>4 DEF Succeed, EmitFinal, Core, Events, Side
  <2>2. Left("snd") = {} /\ (~ctx["snd"] => Closing("snd")')
    BY <1>2, <2>1 DEF Left, Closing
  <2>3. Report("snd")'
    BY <1>1, <1>2, <1>3, <2>1, <2>2, SilentReport
  <2>4. QED
    BY <1>1, <1>2, <2>1, <2>3, SenderReport
<1>5. CASE FailWith("snd", "send") /\ NoEvent
  <2>1. pc'["snd"] = "failed" /\ err'["snd"] = "send"
    BY <1>1, <1>5 DEF FailWith, Core
  <2>2. QED
    BY <1>1, <1>2, <1>5, <2>1, QuietSenderReport DEF Returned, Busy
<1>6. QED
  BY <1>4, <1>5 DEF SendDone

LEMMA SenderReports ==
  ASSUME Parts, Ledger, Candor, Reports, SenderStep
  PROVE  Reports'
<1>1. /\ Core /\ Acts("snd") /\ UNCHANGED rcvVars /\ "snd" \in Side
      /\ pc["snd"] \notin Ended => err["snd"] = "none"
  BY SenderActs DEF Parts, SenderStep, Side, Candor
<1>2. CASE BothSides("snd") /\ UNCHANGED sndVars
  BY <1>1, <1>2, BothSidesReport
<1>3. CASE SendManifest
  <2>1. /\ pc["snd"] = "manifest" /\ UNCHANGED <<ctx, accepted, todo>> /\ NoEvent
        /\ Control("snd", Manifest(Metas), "waitReply")
    BY <1>3 DEF SendManifest, At, linkVars, sndVars
  <2>2. /\ pc'["snd"] \in {"waitReply", "failed"}
        /\ err'["snd"] \notin {"nil", "hash-mismatch", "changed"}
    BY <1>1, <2>1 DEF Control, GoTo, FailWith, Core, Ended
  <2>3. QED
    BY <1>1, <2>1, <2>2, QuietSenderReport DEF Returned, Busy
<1>4. ASSUME pc["snd"] \in Busy, pc'["snd"] \in Busy \cup {"failed"},
             UNCHANGED <<ctx, accepted, todo>>, NoEvent,
             err'["snd"] \notin {"nil", "hash-mismatch"}
      PROVE  Reports'
  <2>1. cur \in Upcoming("snd")
    BY <1>4 DEF Ledger, Choices, Upcoming, Left, IsNext, Busy
  <2>2. QED
    BY <1>1, <1>4, <2>1, QuietSenderReport DEF Returned, Busy
<1>5. CASE OpenFile
  <2>1. /\ pc["snd"] = "open" /\ UNCHANGED <<ctx, accepted, todo>> /\ NoEvent
    BY <1>5 DEF OpenFile, At, linkVars, sndVars
  <2>2. /\ pc'["snd"] \in {"loop", "failed"} /\ err'["snd"] \notin {"nil", "hash-mismatch"}
    BY <1>1, <1>5, <2>1 DEF OpenFile, GoTo, FailWith, Core, Ended
  <2>3. QED
    BY <1>4, <2>1, <2>2 DEF Busy
<1>6. CASE Poll
  <2>1. /\ pc["snd"] = "loop" /\ UNCHANGED <<ctx, accepted, todo>> /\ NoEvent
    BY <1>6 DEF Poll, At, linkVars, sndVars
  <2>2. /\ pc'["snd"] \in {"read", "failed"} /\ err'["snd"] \notin {"nil", "hash-mismatch"}
    BY <1>1, <1>6, <2>1 DEF Poll, MidSendCheck, TakeTerminal, ProtocolError, LastWord, GoTo,
                            FailWith, Core, Ended
  <2>3. QED
    BY <1>4, <2>1, <2>2 DEF Busy
<1>7. CASE ReadFile
  <2>1. /\ pc["snd"] = "read" /\ UNCHANGED <<ctx, accepted, todo>> /\ NoEvent
    BY <1>7 DEF ReadFile, At, linkVars
  <2>2. /\ pc'["snd"] \in {"write", "fileEnd", "failed"}
        /\ err'["snd"] \notin {"nil", "hash-mismatch"}
    BY <1>1, <1>7, <2>1 DEF ReadFile, GoTo, FailWith, Core, Ended
  <2>3. QED
    BY <1>4, <2>1, <2>2 DEF Busy
<1>8. CASE WriteChunk
  <2>1. /\ pc["snd"] = "write" /\ UNCHANGED <<ctx, accepted, todo>> /\ NoEvent
    BY <1>8 DEF WriteChunk, At, linkVars
  <2>2. /\ pc'["snd"] \in {"loop", "failed"} /\ err'["snd"] \notin {"nil", "hash-mismatch"}
    BY <1>1, <1>8, <2>1 DEF WriteChunk, Control, GoTo, FailWith, Core, Ended
  <2>3. QED
    BY <1>4, <2>1, <2>2 DEF Busy
<1>9. CASE EndFile
  <2>1. /\ pc["snd"] = "fileEnd" /\ UNCHANGED <<ctx, accepted, todo>> /\ NoEvent
    BY <1>9 DEF EndFile, At, linkVars, sndVars
  <2>2. /\ pc'["snd"] \in {"waitAck", "failed"} /\ err'["snd"] \notin {"nil", "hash-mismatch"}
    BY <1>1, <1>9, <2>1 DEF EndFile, Control, GoTo, FailWith, Core, Ended
  <2>3. QED
    BY <1>4, <2>1, <2>2 DEF Busy
<1>10. QED
  BY <1>1, <1>2, <1>3, <1>5, <1>6, <1>7, <1>8, <1>9, WaitReplyReports, StartFileReports,
     WaitAckReports, SendDoneReports DEF SenderStep, SenderNext

LEMMA ReceiverReport ==
  ASSUME Reports, Acts("rcv"), UNCHANGED <<sndVars, ctx>>,
         shown'["snd"] = shown["snd"], final'["snd"] = final["snd"], Report("rcv")',
         pc'["rcv"] = "waitDone" => want' = {}
  PROVE  Reports'
<1>1. pc'["snd"] = pc["snd"] /\ err'["snd"] = err["snd"]
  BY DEF Acts, Side
<1>2. Unmoved("snd") /\ Working("snd")' = Working("snd")
  BY <1>1 DEF Unmoved, Left, Completed, Working, Acked, sndVars
<1>3. Report("snd")'
  BY <1>1, <1>2, OtherReport DEF Reports, Side
<1>4. QED
  BY <1>3 DEF Reports, Side

\* A quiet step of the receiver.
LEMMA QuietReceiverReport ==
  ASSUME Candor, Reports, Acts("rcv"), UNCHANGED <<sndVars, ctx>>, NoEvent, want' = want,
         SavedIds' \ want = SavedIds \ want,
         err'["rcv"] \notin {"nil", "hash-mismatch", "changed"}, pc["rcv"] \notin Ended,
         \/ pc'["rcv"] \in {pc["rcv"], "failed"}
         \/ pc["rcv"] = "waitManifest" /\ pc'["rcv"] = "decide"
  PROVE  Reports'
<1>1. Unmoved("rcv")
  BY DEF Unmoved, Left, Completed
<1>2. err'["rcv"] = err["rcv"] => Working("rcv")' = Working("rcv")
  BY DEF Acts, Carries, Ends, Candor, Working, Side, Ended
<1>3. Report("rcv")'
  BY <1>1, <1>2, QuietReport DEF Side, Returned, Ended
<1>4. QED
  BY <1>3, ReceiverReport DEF NoEvent, Reports, Ended

LEMMA WaitFileStartReports ==
  ASSUME Parts, Candor, Reports, ReceiverStep, WaitFileStart
  PROVE  Reports'
<1>1. /\ Core /\ Events /\ Acts("rcv") /\ UNCHANGED sndVars /\ "rcv" \in Side
      /\ Report("rcv") /\ want \subseteq Int
  BY ReceiverActs DEF Parts, ReceiverStep, Reports, Side, ReceiverTypeOK
<1>2. pc["rcv"] = "waitStart" /\ UNCHANGED <<ctx, want, saved>> /\ err["rcv"] = "none"
  BY <1>1 DEF WaitFileStart, At, linkVars, Candor, Ended
<1>3. ASSUME NoEvent, pc'["rcv"] \in {"waitStart", "failed"},
             err'["rcv"] \notin {"nil", "hash-mismatch", "changed"}
      PROVE  Reports'
  BY <1>1, <1>2, <1>3, QuietReceiverReport DEF SavedIds, Ended
<1>4. CASE WaitOther("rcv", {"file-start"}) /\ NoEvent
  <2>1. pc'["rcv"] \in {"waitStart", "failed"}
    BY <1>1, <1>2, <1>4, WaitOtherFares DEF Plays, Ended
  <2>2. QED
    BY <1>1, <1>2, <1>3, <1>4, <2>1, WaitOtherPlain
<1>5. CASE ProtocolError("rcv") /\ NoEvent
  BY <1>1, <1>3, <1>5 DEF ProtocolError, LastWord, FailWith, Core
<1>6. CASE FailWith("rcv", "local") /\ NoEvent
  BY <1>1, <1>3, <1>6 DEF FailWith, Core
<1>7. ASSUME NEW id \in want, IsNext(id, want),
             Emit("rcv", <<"start", id>>), GoTo("rcv", "chunks")
      PROVE  Reports'
  <2>1. Unmoved("rcv") /\ id \in Upcoming("rcv") /\ id \in Int
    BY <1>1, <1>2, <1>7 DEF Unmoved, Left, Completed, SavedIds, Upcoming
  <2>2. pc'["rcv"] = "chunks" /\ err' = err
    BY <1>1, <1>7 DEF GoTo, Core
  <2>3. ~Working("rcv") /\ Working("rcv")'
    BY <1>2, <2>2 DEF Working
  <2>4. Report("rcv")'
    BY <1>1, <1>2, <1>7, <2>1, <2>2, <2>3, SidesInts, StartReport DEF Returned
  <2>5. shown'["snd"] = shown["snd"] /\ final' = final
    BY <1>1, <1>7, <2>1, EmitAppends DEF Side
  <2>6. QED
    BY <1>1, <1>2, <2>2, <2>4, <2>5, ReceiverReport
<1>8. QED
  BY <1>4, <1>5, <1>6, <1>7 DEF WaitFileStart, TakeFileStart, CreateDest

LEMMA ChunksReports ==
  ASSUME Parts, Candor, Reports, ReceiverStep, ReceiveChunks
  PROVE  Reports'
<1>1. /\ Core /\ Events /\ Acts("rcv") /\ UNCHANGED sndVars /\ "rcv" \in Side
      /\ Report("rcv") /\ want \subseteq Int
  BY ReceiverActs DEF Parts, ReceiverStep, Reports, Side, ReceiverTypeOK
<1>2. pc["rcv"] = "chunks" /\ UNCHANGED ctx /\ err["rcv"] = "none" /\ Working("rcv")
  BY <1>1 DEF ReceiveChunks, At, linkVars, Candor, Ended, Working
<1>3. ASSUME NoEvent, pc'["rcv"] \in {"chunks", "failed"}, UNCHANGED <<want, saved>>,
             err'["rcv"] \notin {"nil", "hash-mismatch", "changed"}
      PROVE  Reports'
  BY <1>1, <1>2, <1>3, QuietReceiverReport DEF SavedIds, Ended
<1>4. CASE NoChunk
  <2>1. WaitOther("rcv", {"chunk", "file-end"}) /\ NoEvent /\ UNCHANGED <<want, saved>>
    BY <1>4 DEF NoChunk
  <2>2. pc'["rcv"] \in {"chunks", "failed"}
    BY <1>1, <1>2, <2>1, WaitOtherFares DEF Plays, Ended
  <2>3. QED
    BY <1>1, <1>2, <1>3, <2>1, <2>2, WaitOtherPlain
<1>5. ASSUME NEW id \in want, TakeChunk(id) PROVE Reports'
  <2>1. /\ pc'["rcv"] \in {"chunks", "failed"} /\ NoEvent /\ UNCHANGED <<want, saved>>
        /\ err'["rcv"] \notin {"nil", "hash-mismatch", "changed"}
    BY <1>1, <1>2, <1>5 DEF TakeChunk, ProtocolError, LastWord, FailWith, Core
  <2>2. QED
    BY <1>3, <2>1
<1>6. CASE ProtocolError("rcv") /\ NoEvent /\ UNCHANGED <<want, saved>>
  BY <1>1, <1>3, <1>6 DEF ProtocolError, LastWord, FailWith, Core
<1>7. CASE FailWith("rcv", "local") /\ NoEvent /\ UNCHANGED <<want, saved>>
  BY <1>1, <1>3, <1>7 DEF FailWith, Core
<1>8. ASSUME NEW id \in want, IsNext(id, want) PROVE id \in Upcoming("rcv") /\ id \in Int
  BY <1>1, <1>8 DEF Upcoming, Left
<1>9. ASSUME NEW id \in want, IsNext(id, want), Mismatch(id) PROVE Reports'
  <2>1. /\ Emit("rcv", <<"bad", id>>) /\ UNCHANGED <<want, saved>>
        /\ pc'["rcv"] = "failed" /\ err'["rcv"] = "hash-mismatch"
    BY <1>1, <1>9 DEF Mismatch, FailWith, Core
  <2>2. Unmoved("rcv")
    BY <1>2, <2>1 DEF Unmoved, Left, Completed, SavedIds
  <2>3. Report("rcv")'
    BY <1>1, <1>2, <1>8, <1>9, <2>1, <2>2, SidesInts, BadReport DEF Returned
  <2>4. shown'["snd"] = shown["snd"] /\ final' = final
    BY <1>1, <1>8, <1>9, <2>1, EmitAppends DEF Side
  <2>5. QED
    BY <1>1, <1>2, <2>1, <2>3, <2>4, ReceiverReport
<1>10. ASSUME NEW id \in want, IsNext(id, want), Keep(id) PROVE Reports'
  <2>1. SavedIds' = SavedIds \cup {id}
    BY <1>10 DEF Keep, SavedIds
  <2>2. CASE CanSend("rcv")
    <3>1. /\ Emit("rcv", <<"ok", id>>) /\ want' = want \ {id} /\ err' = err
          /\ pc'["rcv"] = IF want = {id} THEN "waitDone" ELSE "waitStart"
      BY <1>1, <1>10, <2>2 DEF Keep, Control, GoTo, Core
    <3>2. Left("rcv")' = Left("rcv") \ {id} /\ Completed("rcv")' = Completed("rcv") \cup {id}
      BY <1>10, <2>1, <3>1 DEF Left, Completed
    <3>3. ~Working("rcv")'
      BY <3>1 DEF Working
    <3>4. Report("rcv")'
      BY <1>1, <1>2, <1>8, <1>10, <3>1, <3>2, <3>3, SidesInts, OkReport DEF Returned
    <3>5. shown'["snd"] = shown["snd"] /\ final' = final
      BY <1>1, <1>8, <1>10, <3>1, EmitAppends DEF Side
    <3>6. pc'["rcv"] = "waitDone" => want' = {}
      BY <3>1
    <3>7. QED
      BY <1>1, <1>2, <3>4, <3>5, <3>6, ReceiverReport
  <2>3. CASE ~CanSend("rcv")
    <3>1. /\ NoEvent /\ want' = want /\ err'["rcv"] = "send" /\ pc'["rcv"] = "failed"
      BY <1>1, <1>10, <2>3 DEF Keep, Control, FailWith, Core
    <3>2. SavedIds' \ want = SavedIds \ want
      BY <1>10, <2>1
    <3>3. QED
      BY <1>1, <1>2, <3>1, <3>2, QuietReceiverReport DEF Ended
  <2>4. QED
    BY <2>2, <2>3
<1>11. ASSUME NEW id \in want, IsNext(id, want), TakeFileEnd(id) PROVE Reports'
  BY <1>6, <1>7, <1>9, <1>10, <1>11 DEF TakeFileEnd
<1>12. QED
  BY <1>4, <1>5, <1>11 DEF ReceiveChunks

LEMMA ReceiverReports ==
  ASSUME Parts, Ledger, Candor, Reports, ReceiverStep
  PROVE  Reports'
<1>1. /\ Core /\ Events /\ Acts("rcv") /\ UNCHANGED sndVars /\ "rcv" \in Side
      /\ Report("rcv") /\ (pc["rcv"] \notin Ended => err["rcv"] = "none")
  BY ReceiverActs DEF Parts, ReceiverStep, Reports, Side, Candor
<1>2. CASE BothSides("rcv") /\ UNCHANGED rcvVars
  BY <1>1, <1>2, BothSidesReport
<1>3. CASE NoDestination
  <2>1. /\ pc'["rcv"] = "returned" /\ err'["rcv"] = "local" /\ err["rcv"] = "none"
        /\ UNCHANGED <<ctx, want, saved>> /\ shown' = shown
        /\ final'["snd"] = final["snd"]
        /\ ctx["rcv"] \/ final'["rcv"] = "error"
    BY <1>1, <1>3 DEF NoDestination, At, linkVars, rcvVars, EmitFinal, Core, Events,
                      Ended, Side
  <2>2. Unmoved("rcv") /\ (~ctx["rcv"] => Closing("rcv")')
    BY <2>1 DEF Unmoved, Left, Completed, SavedIds, Closing
  <2>3. Report("rcv")'
    BY <1>1, <2>1, <2>2, SilentReport
  <2>4. QED
    BY <1>1, <2>1, <2>3, ReceiverReport
<1>4. CASE WaitManifest
  <2>1. /\ pc["rcv"] = "waitManifest" /\ UNCHANGED <<ctx, want, saved>> /\ NoEvent
    BY <1>4 DEF WaitManifest, At, linkVars, KeepFiles
  <2>2. CASE WaitOther("rcv", {"manifest"})
    <3>1. pc'["rcv"] \in {"waitManifest", "failed"}
      BY <1>1, <2>1, <2>2, WaitOtherFares DEF Plays, Ended
    <3>2. err'["rcv"] \notin {"nil", "hash-mismatch", "changed"}
      BY <1>1, <2>1, <2>2, WaitOtherPlain DEF Ended
    <3>3. QED
      BY <1>1, <2>1, <3>1, <3>2, QuietReceiverReport DEF SavedIds, Ended
  <2>3. CASE TakeManifest
    <3>1. /\ pc'["rcv"] \in {"decide", "failed"}
          /\ err'["rcv"] \notin {"nil", "hash-mismatch", "changed"}
      BY <1>1, <2>1, <2>3 DEF TakeManifest, GoTo, ProtocolError, LastWord, FailWith, Core,
                              Ended
    <3>2. QED
      BY <1>1, <2>1, <3>1, QuietReceiverReport DEF SavedIds, Ended
  <2>4. QED
    BY <1>4, <2>2, <2>3 DEF WaitManifest
<1>5. CASE Decide
  <2>1. /\ pc["rcv"] = "decide" /\ UNCHANGED <<ctx, saved>> /\ NoEvent /\ SavedIds = {}
        /\ err["rcv"] = "none"
    BY <1>1, <1>5 DEF Decide, At, linkVars, KeepFiles, Parts, ReceiverSound, Ended
  <2>2. ASSUME pc'["rcv"] = "failed", err'["rcv"] \notin {"nil", "hash-mismatch", "changed"},
               UNCHANGED want
        PROVE  Reports'
    BY <1>1, <2>1, <2>2, QuietReceiverReport DEF SavedIds, Ended
  <2>3. CASE \/ LastWord("rcv", Reject, "decide") /\ UNCHANGED want
             \/ LastWord("rcv", Reject, "declined") /\ UNCHANGED want
    BY <1>1, <2>2, <2>3 DEF LastWord, FailWith, Core
  <2>4. ASSUME NEW m, Control("rcv", m, "waitStart"), ~CanSend("rcv"), UNCHANGED want
        PROVE  Reports'
    BY <1>1, <2>2, <2>4 DEF Control, FailWith, Core
  <2>5. ASSUME NEW m, Control("rcv", m, "waitStart"), CanSend("rcv")
        PROVE  Reports'
    <3>1. pc'["rcv"] = "waitStart" /\ err' = err
      BY <1>1, <2>5 DEF Control, GoTo, Core
    <3>2. Completed("rcv") = {} /\ Completed("rcv")' = {}
      BY <2>1 DEF Completed, SavedIds
    <3>3. ~Working("rcv") /\ ~Working("rcv")'
      BY <2>1, <3>1 DEF Working
    <3>4. Report("rcv")'
      BY <1>1, <2>1, <3>1, <3>2, <3>3, ChosenReport DEF NoEvent, Returned
    <3>5. QED
      BY <1>1, <2>1, <3>1, <3>4, ReceiverReport DEF NoEvent
  <2>6. QED
    BY <1>5, <2>3, <2>4, <2>5 DEF Decide
<1>6. CASE WaitDone
  <2>1. /\ pc["rcv"] = "waitDone" /\ UNCHANGED <<ctx, want, saved>> /\ err["rcv"] = "none"
        /\ want = {}
    BY <1>1, <1>6 DEF WaitDone, At, rcvVars, Reports, Ended
  <2>2. CASE WaitOther("rcv", {"done"}) /\ NoEvent
    <3>1. pc'["rcv"] \in {"waitDone", "failed"}
      BY <1>1, <2>1, <2>2, WaitOtherFares DEF Plays, Ended
    <3>2. err'["rcv"] \notin {"nil", "hash-mismatch", "changed"}
      BY <1>1, <2>1, <2>2, WaitOtherPlain
    <3>3. QED
      BY <1>1, <2>1, <2>2, <3>1, <3>2, QuietReceiverReport DEF SavedIds, Ended
  <2>3. CASE Succeed("rcv")
    <3>1. /\ pc'["rcv"] = "returned" /\ err'["rcv"] = "nil"
          /\ shown' = shown /\ final'["snd"] = final["snd"]
          /\ ctx["rcv"] \/ final'["rcv"] = "done"
      BY <1>1, <2>3 DEF Succeed, EmitFinal, Core, Events, Side
    <3>2. /\ Unmoved("rcv") /\ Left("rcv") = {}
          /\ ~ctx["rcv"] => Closing("rcv")'
      BY <2>1, <3>1 DEF Unmoved, Left, Completed, SavedIds, Closing
    <3>3. Report("rcv")'
      BY <1>1, <2>1, <3>1, <3>2, SilentReport
    <3>4. QED
      BY <1>1, <2>1, <3>1, <3>3, ReceiverReport
  <2>4. QED
    BY <1>6, <2>2, <2>3 DEF WaitDone
<1>7. QED
  BY <1>2, <1>3, <1>4, <1>5, <1>6, WaitFileStartReports, ChunksReports
     DEF ReceiverStep, ReceiverNext

LEMMA NextReports ==
  ASSUME Parts, Ledger, Candor, Reports, [Next]_vars
  PROVE  Reports'
<1>1. CASE SenderStep \/ ReceiverStep
  BY <1>1, SenderReports, ReceiverReports
<1>2. ASSUME UNCHANGED <<pc, err, shown, final, accepted, todo, rcvVars>>,
             \A s \in Side : ctx[s] => ctx'[s]
      PROVE  Reports'
  <2>1. \A s \in Side : /\ Left(s)' = Left(s) /\ Completed(s)' = Completed(s)
                        /\ Working(s)' = Working(s)
    BY <1>2 DEF Left, Completed, Working, Acked, SavedIds, rcvVars
  <2>2. ASSUME NEW s \in Side PROVE Report(s)'
    <3>0. Upcoming(s)' = Upcoming(s)
      BY <2>1 DEF Upcoming
    <3>1. Logs(s)' = Logs(s) /\ Closing(s)' = Closing(s)
      <4>1. Each(s)' = Each(s)
        BY <2>1 DEF Each
      <4>2. /\ With(s, {"start"})' = With(s, {"start"})
            /\ With(s, {"start", "bad"})' = With(s, {"start", "bad"})
        BY <3>0, <4>1 DEF With
      <4>3. Working(s)' = Working(s)
        BY <2>1
      <4>4. QED
        BY <1>2, <4>1, <4>2, <4>3 DEF Logs, Closing
    <3>2. Emitted(s)' = Emitted(s) /\ Ascending(shown[s])' = Ascending(shown[s])
      BY <1>2 DEF Emitted, Ascending
    <3>3. Left(s)' = Left(s) /\ Completed(s)' = Completed(s) /\ Report(s)
      BY <2>1 DEF Reports
    <3>4. pc'[s] = pc[s] /\ err'[s] = err[s] /\ (ctx[s] => ctx'[s])
      BY <1>2
    <3>5. QED
      BY <3>0, <3>1, <3>2, <3>3, <3>4 DEF Report
  <2>3. QED
    BY <1>2, <2>2 DEF Reports, rcvVars
<1>3. CASE NetworkStep
  BY <1>2, <1>3 DEF NetworkStep, Network, Deliver, LoseTail, SeeClose, RunOnClose, quiet,
                    linkVars, sndVars
<1>4. CASE UserStep \/ UNCHANGED vars
  BY <1>2, <1>4 DEF UserStep, CancelCtx, ChangeFile, vars, linkVars, sessionVars, sndVars,
                    Parts, Link
<1>5. QED
  BY <1>1, <1>3, <1>4 DEF Next

LEMMA InitReports == Init => Reports
<1> SUFFICES ASSUME Init PROVE Reports
  OBVIOUS
<1>1. /\ Acked = {} /\ SavedIds = {} /\ want = {}
      /\ \A s \in Side : pc[s] = "init" /\ err[s] = "none" /\ shown[s] = <<>>
  BY DEF Init, SessionInit, SenderInit, ReceiverInit, NoEntries, Acked, SavedIds
<1>2. ASSUME NEW s \in Side PROVE Report(s)
  <2>1. Completed(s) = {} /\ ~Working(s)
    BY <1>1 DEF Completed, Working, Busy, Side
  <2>2. Logs(s) = {{}}
    BY <1>1, <2>1 DEF Logs, Each
  <2>3. DOMAIN shown[s] = {}
    BY <1>1
  <2>4. Emitted(s) = {} /\ Ascending(shown[s])
    BY <2>3 DEF Emitted, Ascending
  <2>5. QED
    BY <1>1, <2>1, <2>2, <2>4 DEF Report, Returned
<1>3. QED
  BY <1>1, <1>2 DEF Reports, Side

\* However it went, a front end that has not cancelled has been told by emit, in
\* order, of every file its call settled, of no other but the one it failed at
\* (its done only after a digest mismatch), and how the call ended.
THEOREM FrontEndsAreTold == Spec => []FrontEndTold
<1>1. Init => Parts /\ Ledger /\ Candor /\ Reports
  BY InitParts, InitLedger, InitCandor, InitReports
<1>2. Parts /\ Ledger /\ Candor /\ Reports /\ [Next]_vars
        => Parts' /\ Ledger' /\ Candor' /\ Reports'
  BY NextParts, NextKeeps, NextCandor, NextReports
<1>3. Candor /\ Reports => FrontEndTold
  <2> SUFFICES ASSUME Candor, Reports, NEW s \in Side, pc[s] \in Returned, ~ctx[s]
               PROVE  /\ Closing(s) /\ (err[s] = "nil" => Left(s) = {})
                      /\ Ascending(shown[s])
                      /\ err[s] \in {"hash-mismatch", "changed"} => Upcoming(s) # {}
                      /\ Emitted(s) \in
                           CASE err[s] = "hash-mismatch" -> {With(s, {"start", "bad"})}
                             [] err[s] = "changed"       -> {With(s, {"start"})}
                             [] OTHER                    -> {Each(s), With(s, {"start"})}
    BY DEF FrontEndTold, Closing, With, Each, Returned
  <2>1. err[s] # "none"
    BY DEF Candor, Ended, Returned
  <2>2. QED
    BY <2>1 DEF Reports, Report, Logs
<1>4. QED
  BY <1>1, <1>2, <1>3, PTL DEF Spec

-----------------------------------------------------------------------------
(* Why honest peers agree.                                                 *)

\* Nobody has changed the length of a file after it was declared.
Honest == \A id \in Files : disk[id] = Size[id]

Alive(s)    == pc[s] \notin Ended
Accusations == {"protocol", "version", "hash-mismatch", "peer-error"}

\* What is under way to s, in its order, when nothing has been put back.
Coming(s) == inbox[s] \o wire[s]

\* The conversation seen from the sender, as a line of points: before its
\* hello, before the manifest, before the reply, before a file, after each
\* unit of the file, after its file-end, and at the end of everything.
Over == MaxFileSize + 2

\* Message m leads from point p to point r, when the receiver still wants
\* the files in W and c is the one being sent.
Leads(c, W, p, m, r) ==
  \/ p = -4 /\ m = Hello(Version) /\ r = -3
  \/ p = -3 /\ m = Manifest(Metas) /\ r = -2
  \/ p = -1 /\ IsNext(c, W) /\ m = FileStart(c) /\ r = 0
  \/ p = -1 /\ W = {} /\ m = Done /\ r = Over
  \/ p \in 0..Size[c] /\ r \in p+1..Size[c] /\ m = Chunk(Slice(c, p, r - p))
  \/ p = Size[c] /\ m = FileEnd(c, FileData(c, p)) /\ r = p + 1
  \/ p < Over /\ m = Cancel /\ r = Over

\* The messages of Q lead from p to q.
Runs(c, W, p, q, Q) ==
  \E w \in [0..Len(Q) -> Int] :
    /\ w[0] = p /\ w[Len(Q)] = q
    /\ \A k \in 1..Len(Q) : Leads(c, W, w[k-1], Q[k], w[k])
    /\ \A i, j \in 0..Len(Q) : i < j => w[i] < w[j]

LEMMA RunsEmpty ==
  ASSUME NEW c, NEW W, NEW p \in Int, NEW q \in Int
  PROVE  Runs(c, W, p, q, <<>>) <=> p = q
<1>1. Len(<<>>) = 0
  BY EmptySeq
<1>2. ASSUME p = q PROVE Runs(c, W, p, q, <<>>)
  <2> DEFINE w == [k \in 0..0 |-> p]
  <2>1. w \in [0..Len(<<>>) -> Int] /\ w[0] = p /\ w[Len(<<>>)] = q
    BY <1>1, <1>2
  <2>2. 1..Len(<<>>) = {} /\ \A i, j \in 0..Len(<<>>) : ~(i < j)
    BY <1>1
  <2>3. QED
    BY <2>1, <2>2 DEF Runs
<1>3. ASSUME Runs(c, W, p, q, <<>>) PROVE p = q
  BY <1>1, <1>3 DEF Runs
<1>4. QED
  BY <1>2, <1>3

LEMMA RunsOrder ==
  ASSUME NEW c, NEW W, NEW p \in Int, NEW q \in Int, NEW Q \in Seq(Message),
         Runs(c, W, p, q, Q)
  PROVE  p <= q /\ (Q # <<>> => p < q)
<1>1. Len(Q) \in Nat /\ (Len(Q) = 0 <=> Q = <<>>)
  BY LenProperties, EmptySeq
<1>2. PICK w \in [0..Len(Q) -> Int] :
        /\ w[0] = p /\ w[Len(Q)] = q
        /\ \A i, j \in 0..Len(Q) : i < j => w[i] < w[j]
  BY DEF Runs
<1>3. CASE Len(Q) = 0
  BY <1>1, <1>2, <1>3
<1>4. CASE Len(Q) > 0
  BY <1>1, <1>2, <1>4
<1>5. QED
  BY <1>1, <1>3, <1>4

LEMMA RunsAppend ==
  ASSUME NEW c, NEW W, NEW p \in Int, NEW q \in Int, NEW r \in Int,
         NEW Q \in Seq(Message), NEW m \in Message,
         Runs(c, W, p, q, Q), Leads(c, W, q, m, r), q < r
  PROVE  Runs(c, W, p, r, Append(Q, m))
<1> DEFINE n == Len(Q)
           A == Append(Q, m)
<1>1. n \in Nat
  BY LenProperties
<1>2. Len(A) = n + 1 /\ A[n + 1] = m /\ \A k \in 1..n : A[k] = Q[k]
  BY AppendProperties
<1>3. PICK w \in [0..n -> Int] :
        /\ w[0] = p /\ w[n] = q
        /\ \A k \in 1..n : Leads(c, W, w[k-1], Q[k], w[k])
        /\ \A i, j \in 0..n : i < j => w[i] < w[j]
  BY DEF Runs
<1> DEFINE v == [k \in 0..n+1 |-> IF k <= n THEN w[k] ELSE r]
<1>4. v \in [0..n+1 -> Int] /\ v[0] = p /\ v[n+1] = r /\ \A k \in 0..n : v[k] = w[k]
  BY <1>1, <1>3
<1> HIDE DEF v, n, A
<1>5. ASSUME NEW k \in 1..n+1 PROVE Leads(c, W, v[k-1], A[k], v[k])
  <2>1. CASE k \in 1..n
    <3>1. k - 1 \in 0..n /\ k \in 0..n
      BY <1>1, <2>1
    <3>2. v[k-1] = w[k-1] /\ v[k] = w[k] /\ A[k] = Q[k]
      BY <1>2, <1>4, <2>1, <3>1
    <3>3. QED
      BY <1>3, <2>1, <3>2
  <2>2. CASE k = n + 1
    <3>1. v[k-1] = q /\ v[k] = r /\ A[k] = m
      BY <1>1, <1>2, <1>3, <1>4, <2>2
    <3>2. QED
      BY <3>1
  <2>3. QED
    BY <1>1, <2>1, <2>2
<1>6. ASSUME NEW i \in 0..n+1, NEW j \in 0..n+1, i < j PROVE v[i] < v[j]
  <2>1. CASE j <= n
    <3>1. i \in 0..n /\ j \in 0..n
      BY <1>1, <1>6, <2>1
    <3>2. v[i] = w[i] /\ v[j] = w[j]
      BY <1>4, <3>1
    <3>3. w[i] < w[j]
      BY <1>3, <1>6, <3>1
    <3>4. QED
      BY <3>2, <3>3
  <2>2. CASE j = n + 1
    <3>1. i \in 0..n /\ v[j] = r /\ v[i] = w[i]
      BY <1>1, <1>4, <1>6, <2>2
    <3>2. w[i] <= q
      <4>1. CASE i = n
        BY <1>1, <1>3, <4>1
      <4>2. CASE i < n
        BY <1>1, <1>3, <3>1, <4>2
      <4>3. QED
        BY <1>1, <3>1, <4>1, <4>2
    <3>3. QED
      BY <1>3, <3>1, <3>2
  <2>3. QED
    BY <1>1, <2>1, <2>2
<1>7. QED
  BY <1>2, <1>4, <1>5, <1>6, Zenon DEF Runs, A

LEMMA RunsHead ==
  ASSUME NEW c, NEW W, NEW p \in Int, NEW q \in Int,
         NEW Q \in Seq(Message), Q # <<>>, Runs(c, W, p, q, Q)
  PROVE  /\ Head(Q) \in Message /\ Tail(Q) \in Seq(Message)
         /\ \E r \in Int : Leads(c, W, p, Head(Q), r) /\ p < r /\ Runs(c, W, r, q, Tail(Q))
<1> DEFINE n == Len(Q) - 1
           T == Tail(Q)
<1>1. Len(Q) \in Nat \ {0} /\ n \in Nat
  BY LenProperties, EmptySeq
<1>2. /\ Head(Q) = Q[1] /\ Q[1] \in Message /\ T \in Seq(Message) /\ Len(T) = n
      /\ \A k \in 1..n : T[k] = Q[k + 1]
  BY <1>1, HeadTailProperties, ElementOfSeq
<1>3. PICK w \in [0..n+1 -> Int] :
        /\ w[0] = p /\ w[n+1] = q
        /\ \A k \in 1..n+1 : Leads(c, W, w[k-1], Q[k], w[k])
        /\ \A i, j \in 0..n+1 : i < j => w[i] < w[j]
  <2>1. Len(Q) = n + 1
    BY <1>1
  <2> QED BY <2>1, Zenon DEF Runs
<1> DEFINE v == [k \in 0..n |-> w[k+1]]
<1>4. v \in [0..n -> Int] /\ v[0] = w[1] /\ v[n] = q /\ \A k \in 0..n : v[k] = w[k+1]
  BY <1>1, <1>3
<1> HIDE DEF v, n, T
<1>5. ASSUME NEW k \in 1..n PROVE Leads(c, W, v[k-1], T[k], v[k])
  <2>1. k - 1 \in 0..n /\ k \in 0..n /\ k + 1 \in 1..n+1 /\ (k + 1) - 1 = k /\ (k - 1) + 1 = k
    BY <1>1
  <2>2. Leads(c, W, w[(k+1)-1], Q[k+1], w[k+1])
    BY <1>3, <2>1
  <2>3. v[k-1] = w[(k+1)-1] /\ v[k] = w[k+1] /\ T[k] = Q[k+1]
    BY <1>2, <1>4, <2>1
  <2>4. QED
    BY <2>2, <2>3
<1>6. \A i, j \in 0..n : i < j => v[i] < v[j]
  BY <1>1, <1>3, <1>4
<1>7. Leads(c, W, p, Head(Q), w[1]) /\ w[1] \in Int /\ p < w[1]
  <2>1. 1 \in 1..n+1 /\ 0 \in 0..n+1 /\ 1 \in 0..n+1 /\ 1 - 1 = 0
    BY <1>1
  <2>2. Leads(c, W, w[1-1], Q[1], w[1])
    BY <1>3, <2>1
  <2>3. w[1-1] = p
    BY <1>3, <2>1
  <2>4. QED
    BY <1>2, <1>3, <2>1, <2>2, <2>3
<1>8. Runs(c, W, w[1], q, T)
  BY <1>2, <1>4, <1>5, <1>6, Zenon DEF Runs
<1>9. QED
  BY <1>2, <1>7, <1>8 DEF T

LEMMA RunsPrefix ==
  ASSUME NEW c, NEW W, NEW p \in Int, NEW q \in Int,
         NEW Q \in Seq(Message), Runs(c, W, p, q, Q), NEW n \in 0..Len(Q),
         NEW P \in Seq(Message), Len(P) = n, \A k \in 1..n : P[k] = Q[k]
  PROVE  \E r \in Int : Runs(c, W, p, r, P)
<1>1. Len(Q) \in Nat /\ n \in Nat /\ n <= Len(Q)
  BY LenProperties
<1>2. PICK w \in [0..Len(Q) -> Int] :
        /\ w[0] = p
        /\ \A k \in 1..Len(Q) : Leads(c, W, w[k-1], Q[k], w[k])
        /\ \A i, j \in 0..Len(Q) : i < j => w[i] < w[j]
  BY DEF Runs
<1> DEFINE v == [k \in 0..n |-> w[k]]
<1>a. 0 \in 0..n /\ n \in 0..n /\ \A k \in 0..n : w[k] \in Int
  BY <1>1, <1>2
<1>3. v \in [0..n -> Int] /\ v[0] = p /\ v[n] \in Int /\ \A k \in 0..n : v[k] = w[k]
  BY <1>a, <1>2
<1> HIDE DEF v
<1>4. ASSUME NEW k \in 1..n PROVE Leads(c, W, v[k-1], P[k], v[k])
  <2>1. k \in 1..Len(Q) /\ k - 1 \in 0..n /\ k \in 0..n
    BY <1>1
  <2>2. Leads(c, W, w[k-1], Q[k], w[k])
    BY <1>2, <2>1
  <2>3. QED
    BY <1>3, <2>1, <2>2
<1>5. \A i, j \in 0..n : i < j => v[i] < v[j]
  BY <1>1, <1>2, <1>3
<1>6. Runs(c, W, p, v[n], P)
  BY <1>3, <1>4, <1>5, Zenon DEF Runs
<1>7. QED
  BY <1>3, <1>6

LEMMA OverLast ==
  /\ Over \in Int
  /\ \A c \in Files : Size[c] \in Nat /\ Size[c] + 1 \in Int /\ Size[c] + 1 < Over
BY LimitsAssumption, SenderAssumption DEF Over

LEMMA CancelTyped == Cancel \in Message /\ Cancel.t = "cancel" /\ <<Cancel>> \in Seq(Message)
BY DEF Cancel, Message

\* A session that gives up says cancel last.
LEMMA RunsCancel ==
  ASSUME NEW c, NEW W, NEW p \in Int, p < Over
  PROVE  Runs(c, W, p, Over, <<Cancel>>)
<1>1. Runs(c, W, p, p, <<>>)
  BY RunsEmpty
<1>2. Leads(c, W, p, Cancel, Over)
  BY DEF Leads
<1>3. Runs(c, W, p, Over, Append(<<>>, Cancel))
  BY <1>1, <1>2, RunsAppend, CancelTyped, OverLast, EmptySeq
<1>4. Append(<<>>, Cancel) = <<Cancel>>
  OBVIOUS
<1>5. QED
  BY <1>3, <1>4

\* What leads away from each point.
LEMMA LeadsAway ==
  ASSUME NEW c \in Files, NEW W, NEW p \in Int, NEW r \in Int, NEW m,
         Leads(c, W, p, m, r), m # Cancel
  PROVE  /\ p < Over
         /\ p # -2 /\ p # Size[c] + 1
         /\ p = -4 => m = Hello(Version) /\ r = -3
         /\ p = -3 => m = Manifest(Metas) /\ r = -2
         /\ p = -1 => \/ IsNext(c, W) /\ m = FileStart(c) /\ r = 0
                      \/ W = {} /\ m = Done
         /\ p >= 0 => \/ p < Size[c] /\ r \in p+1..Size[c] /\ m = Chunk(Slice(c, p, r - p))
                      \/ p = Size[c] /\ m = FileEnd(c, FileData(c, p)) /\ r = p + 1
BY OverLast DEF Leads

LEMMA CancelLeads ==
  ASSUME NEW c \in Files, NEW W, NEW p \in Int, NEW r \in Int, Leads(c, W, p, Cancel, r)
  PROVE  p < Over /\ r = Over
BY OverLast DEF Leads, Cancel, Hello, Manifest, FileStart, Done, Chunk, FileEnd

LEMMA NothingOver ==
  ASSUME NEW c \in Files, NEW W, NEW q \in Int, NEW Q \in Seq(Message), Runs(c, W, Over, q, Q)
  PROVE  Q = <<>> /\ q = Over
<1>1. Q = <<>>
  <2> SUFFICES ASSUME Q # <<>> PROVE FALSE
    OBVIOUS
  <2>1. PICK r \in Int : Leads(c, W, Over, Head(Q), r)
    BY RunsHead, OverLast
  <2>2. QED
    BY <2>1, LeadsAway, CancelLeads, OverLast
<1>2. QED
  BY <1>1, RunsEmpty, OverLast

\* While the receiver has the turn, nothing but a cancel can be coming.
LEMMA RestRuns ==
  ASSUME NEW c \in Files, NEW W, NEW p \in Int, p = -2 \/ p = Size[c] + 1,
         NEW q \in Int, NEW Q \in Seq(Message), Runs(c, W, p, q, Q)
  PROVE  (Q = <<>> /\ q = p) \/ (Q = <<Cancel>> /\ q = Over)
<1>1. CASE Q = <<>>
  BY <1>1, RunsEmpty
<1>2. CASE Q # <<>>
  <2>1. PICK r \in Int : Leads(c, W, p, Head(Q), r) /\ Runs(c, W, r, q, Tail(Q))
    BY <1>2, RunsHead
  <2>2. Tail(Q) \in Seq(Message)
    BY <1>2, RunsHead
  <2>3. Head(Q) = Cancel
    BY <2>1, LeadsAway
  <2>4. r = Over
    BY <2>1, <2>3, CancelLeads
  <2>5. Tail(Q) = <<>> /\ q = Over
    BY <2>1, <2>2, <2>4, NothingOver
  <2>6. Q = <<Cancel>>
    <3>1. Q = <<Head(Q)>> \o Tail(Q)
      BY <1>2
    <3>2. Cancel \in Message
      BY DEF Cancel, Message
    <3>3. <<Cancel>> \in Seq(Message)
      BY <3>2
    <3>4. <<Cancel>> \o <<>> = <<Cancel>>
      BY <3>3, ConcatEmptySeq
    <3>5. QED
      BY <2>3, <2>5, <3>1, <3>4
  <2>7. QED
    BY <2>5, <2>6
<1>3. QED
  BY <1>1, <1>2

-----------------------------------------------------------------------------
Greeting == {"init", "hello", "waitHello"}
Filing   == {"open", "loop", "read", "write", "fileEnd"}

\* Where a sender stands that is at label l, hears Q, and has sent n units of c.
SenderPoint(l, Q, n, c) ==
  CASE l \in {"init", "hello"}         -> -4
    [] l \in {"waitHello", "manifest"} -> -3
    [] l = "waitReply" -> IF Q = <<>> THEN -2 ELSE -1
    [] l \in Filing    -> n
    [] l = "waitAck"   -> IF Q = <<>> THEN Size[c] + 1 ELSE -1
    [] OTHER           -> -1

\* Where a receiver stands that is at label l and has written n units.
ReceiverPoint(l, n) ==
  CASE l \in Greeting     -> -4
    [] l = "waitManifest" -> -3
    [] l = "decide"       -> -2
    [] l = "chunks"       -> n
    [] OTHER              -> -1

\* What a sender at label l that sends c may be waiting for.
Answers(l, c) ==
  CASE l \in Greeting  -> {Hello(Version)}
    [] l = "waitReply" -> {Reject} \cup {Accept(ids) : ids \in SUBSET Files}
    [] l = "waitAck"   -> {FileAck(c, "ok")}
    [] OTHER           -> {}

\* A sender at label l hears at most the one answer it waits for, and a cancel
\* from a receiver that has returned.
Heard(l, c, k, Q) ==
  \/ Q = <<>> \/ \E m \in Answers(l, c) : Q = <<m>>
  \/ /\ k \in {"returned", "closed"}
     /\ Q = <<Cancel>> \/ \E m \in Answers(l, c) : Q = <<m, Cancel>>

\* Which labels of the two go together: l of a sender that hears Q, sends c
\* and has T to do, and k of a receiver that wants W.
Together(l, k, Q, c, T, W) ==
  /\ k \in {"init", "hello"} => l \in Greeting /\ Q = <<>>
  /\ k \in {"waitHello", "waitManifest"} =>
       \/ l \in Greeting /\ Q = <<Hello(Version)>>
       \/ l \in {"manifest", "waitReply"} /\ Q = <<>>
  /\ k = "decide" => l = "waitReply" /\ Q = <<>>
  /\ k \in {"waitStart", "chunks", "waitDone"} =>
       \/ /\ l = "waitReply" /\ k = "waitStart"
          /\ \E ids \in SUBSET Files : Q = <<Accept(ids)>> /\ W = ResolveAccept(ids, NumFiles)
       \/ l = "waitAck" /\ k # "chunks" /\ Q = <<FileAck(c, "ok")>> /\ W = T \ {c}
       \/ l \in Filing \cup {"nextFile", "waitAck"} /\ Q = <<>> /\ W = T

SenderAt   == SenderPoint(pc["snd"], Coming("snd"), sent, cur)
ReceiverAt == ReceiverPoint(pc["rcv"], Len(dir[dest]))

Forward ==
  Alive("rcv") =>
    \E q \in Int : /\ Runs(cur, want, ReceiverAt, q, Coming("rcv"))
                   /\ Alive("snd") => q = SenderAt
                   /\ pc["snd"] = "failed" => q < Over
Backward == Alive("snd") => Heard(pc["snd"], cur, pc["rcv"], Coming("snd"))
InTurn   == Alive("snd") /\ Alive("rcv") =>
              Together(pc["snd"], pc["rcv"], Coming("snd"), cur, todo, want)

SenderTrue ==
  Alive("snd") =>
    /\ pc["snd"] \in Filing => sent \in 0..Size[cur]
    /\ pc["snd"] = "open" => sent = 0
    /\ pc["snd"] = "write" => buf \in 1..(Size[cur] - sent)
    /\ pc["snd"] = "fileEnd" => sent = Size[cur]
ReceiverTrue ==
  Alive("rcv") =>
    /\ pc["rcv"] \in {"decide", "waitStart", "chunks", "waitDone"} => meta = ById(Metas)
    /\ pc["rcv"] \in {"waitStart", "chunks"} => want # {}
    /\ pc["rcv"] = "waitDone" => want = {}
    /\ pc["rcv"] = "chunks" => /\ IsNext(cur, want)
                               /\ Len(dir[dest]) <= Size[cur]
                               /\ dir[dest] = FileData(cur, Len(dir[dest]))

SenderLabels   == Greeting \cup Filing \cup {"manifest", "waitReply", "nextFile", "waitAck"}
ReceiverLabels == Greeting \cup {"waitManifest", "decide", "waitStart", "chunks", "waitDone"}

InPlace == /\ pc["snd"] \in SenderLabels \cup Ended
           /\ pc["rcv"] \in ReceiverLabels \cup Ended

NoneAccuses == \A s \in Side : pending[s] = <<>> /\ err[s] \notin Accusations

Agree == InPlace /\ NoneAccuses /\ Forward /\ Backward /\ InTurn /\ SenderTrue /\ ReceiverTrue

PumpOff == \A s \in Side : pump[s] = "off" => pc[s] \in {"returned", "closed"}

Concord == PumpOff /\ (Honest => Agree)

-----------------------------------------------------------------------------
(* Points, answers and labels.                                             *)

LEMMA SenderPoints ==
  ASSUME NEW l, NEW Q, NEW n, NEW c
  PROVE  /\ l \in {"init", "hello"} => SenderPoint(l, Q, n, c) = -4
         /\ l \in {"waitHello", "manifest"} => SenderPoint(l, Q, n, c) = -3
         /\ l = "waitReply" => SenderPoint(l, Q, n, c) = IF Q = <<>> THEN -2 ELSE -1
         /\ l \in Filing => SenderPoint(l, Q, n, c) = n
         /\ l = "waitAck" => SenderPoint(l, Q, n, c) = IF Q = <<>> THEN Size[c] + 1 ELSE -1
         /\ l = "nextFile" => SenderPoint(l, Q, n, c) = -1
BY DEF SenderPoint, Filing

LEMMA SenderPointTyped ==
  ASSUME NEW l, NEW Q, NEW n \in Nat, NEW c \in Files
  PROVE  SenderPoint(l, Q, n, c) \in Int
BY OverLast DEF SenderPoint

LEMMA ReceiverPoints ==
  ASSUME NEW l, NEW n
  PROVE  /\ l \in Greeting => ReceiverPoint(l, n) = -4
         /\ l = "waitManifest" => ReceiverPoint(l, n) = -3
         /\ l = "decide" => ReceiverPoint(l, n) = -2
         /\ l = "chunks" => ReceiverPoint(l, n) = n
         /\ l \in {"waitStart", "waitDone"} => ReceiverPoint(l, n) = -1
BY DEF ReceiverPoint, Greeting

LEMMA WhatAnswers ==
  ASSUME NEW l, NEW c
  PROVE  /\ l \in Greeting => Answers(l, c) = {Hello(Version)}
         /\ l = "waitReply" => Answers(l, c) = {Reject} \cup {Accept(ids) : ids \in SUBSET Files}
         /\ l = "waitAck" => Answers(l, c) = {FileAck(c, "ok")}
         /\ l \in Filing \cup {"manifest", "nextFile"} => Answers(l, c) = {}
BY DEF Answers, Greeting, Filing

\* The first message a sender hears, and what is left after it.
LEMMA HeardHead ==
  ASSUME NEW l, NEW c, NEW k, NEW Q, Heard(l, c, k, Q), Q # <<>>
  PROVE  /\ Tail(Q) = <<>> \/ (k \in {"returned", "closed"} /\ Tail(Q) = <<Cancel>>)
         /\ \/ Head(Q) \in Answers(l, c)
            \/ k \in {"returned", "closed"} /\ Head(Q) = Cancel
<1>1. CASE \E m \in Answers(l, c) : Q = <<m>>
  BY <1>1
<1>2. CASE k \in {"returned", "closed"} /\ Q = <<Cancel>>
  BY <1>2
<1>3. CASE k \in {"returned", "closed"} /\ \E m \in Answers(l, c) : Q = <<m, Cancel>>
  <2>1. PICK m \in Answers(l, c) : Q = <<m, Cancel>>
    BY <1>3
  <2>2. Head(Q) = m /\ Tail(Q) = <<Cancel>>
    BY <2>1
  <2>3. QED
    BY <1>3, <2>2
<1>4. QED
  BY <1>1, <1>2, <1>3 DEF Heard

LEMMA RestHeard ==
  ASSUME NEW l, NEW c, NEW k, NEW Q,
         Q = <<>> \/ (k \in {"returned", "closed"} /\ Q = <<Cancel>>)
  PROVE  Heard(l, c, k, Q)
BY DEF Heard

\* The labels of calls that run.
LEMMA RunningLabels ==
  ASSUME Agree
  PROVE  /\ Alive("snd") <=> pc["snd"] \in SenderLabels
         /\ Alive("rcv") <=> pc["rcv"] \in ReceiverLabels
BY DEF Agree, InPlace, Alive, Ended, SenderLabels, ReceiverLabels, Greeting, Filing

LEMMA FileDataGrows ==
  ASSUME NEW c \in Files, NEW p \in Nat, NEW n \in Nat
  PROVE  FileData(c, p) \o Slice(c, p, n) = FileData(c, p + n)
<1> DEFINE A == FileData(c, p)
           B == Slice(c, p, n)
           C == FileData(c, p + n)
<1>1. /\ A \in Seq(Unit) /\ Len(A) = p /\ B \in Seq(Unit) /\ Len(B) = n
      /\ C \in Seq(Unit) /\ Len(C) = p + n
  <2>1. c \in Int /\ 0 \in Nat /\ p + n \in Nat
    BY FilesAreInts
  <2>2. A \in Content /\ Len(A) = p /\ C \in Content /\ Len(C) = p + n
    BY <2>1, SliceTyped DEF FileData
  <2>3. B \in Content /\ Len(B) = n
    BY <2>1, SliceTyped
  <2>4. QED
    BY <2>2, <2>3 DEF Content
<1>2. /\ \A k \in 1..p : A[k] = <<c, 0 + k>>
      /\ \A k \in 1..n : B[k] = <<c, p + k>>
      /\ \A k \in 1..p+n : C[k] = <<c, 0 + k>>
  BY DEF FileData, Slice
<1> HIDE DEF A, B, C
<1>3. /\ A \o B \in Seq(Unit) /\ Len(A \o B) = p + n
      /\ \A k \in 1..p+n : (A \o B)[k] = IF k <= p THEN A[k] ELSE B[k - p]
  BY <1>1, ConcatProperties
<1>4. ASSUME NEW k \in 1..p+n PROVE (A \o B)[k] = C[k]
  <2>1. CASE k <= p
    <3>1. k \in 1..p /\ A[k] = C[k]
      BY <1>2, <2>1
    <3>2. (A \o B)[k] = A[k]
      BY <1>3, <2>1
    <3>3. QED
      BY <3>1, <3>2
  <2>2. CASE ~(k <= p)
    <3>1. k - p \in 1..n /\ p + (k - p) = 0 + k
      BY <2>2
    <3>2. B[k - p] = <<c, p + (k - p)>>
      BY <1>2, <3>1
    <3>3. (A \o B)[k] = B[k - p]
      BY <1>3, <2>2
    <3>4. QED
      BY <1>2, <3>1, <3>2, <3>3
  <2>3. QED
    BY <2>1, <2>2
<1>5. A \o B = C
  BY <1>1, <1>3, <1>4, SeqEqual
<1>6. QED
  BY <1>5 DEF A, B, C

\* The manifest of a sender passes the receiver's checks.
LEMMA ManifestValid == ValidManifest(Metas)
<1>1. Len(Metas) = NumFiles /\ NumFiles \in 1..MaxFiles
  BY MetasTyped, SenderAssumption
<1>2. ASSUME NEW i \in 1..NumFiles
      PROVE  /\ Metas[i].id = i - 1 /\ Metas[i].id >= 0
             /\ Metas[i].name \in Names /\ Metas[i].size \in 0..MaxFileSize
  <2>1. i - 1 \in Files
    BY FilesAreInts DEF Files
  <2>2. Metas[i] = [id |-> i - 1, name |-> Name[i - 1], size |-> Size[i - 1]]
    BY MetasTyped
  <2>3. Name[i - 1] \in Names /\ Size[i - 1] \in 0..MaxFileSize
    BY <2>1, SenderAssumption
  <2>4. QED
    BY <2>1, <2>2, <2>3, FilesAreInts
<1>3. QED
  BY <1>1, <1>2, LimitsAssumption DEF ValidManifest, Validate

-----------------------------------------------------------------------------
(* What is coming.                                                         *)

LEMMA HeadTailConcat ==
  ASSUME NEW s \in Seq(Message), NEW t \in Seq(Message), s # <<>>
  PROVE  s \o t # <<>> /\ Head(s \o t) = Head(s) /\ Tail(s \o t) = Tail(s) \o t
<1> DEFINE h == <<Head(s)>>
           r == Tail(s)
<1>1. s = h \o r
  OBVIOUS
<1>2. Head(s) \in Message /\ h \in Seq(Message) /\ r \in Seq(Message)
  BY HeadTailProperties
<1>3. r \o t \in Seq(Message)
  BY <1>2, ConcatProperties
<1>4. s \o t = h \o (r \o t)
  BY <1>1, <1>2, ConcatAssociative
<1>5. \A u \in Seq(Message) : h \o u # <<>> /\ Head(h \o u) = Head(s) /\ Tail(h \o u) = u
  <2> SUFFICES ASSUME NEW u \in Seq(Message)
               PROVE  h \o u # <<>> /\ Head(h \o u) = Head(s) /\ Tail(h \o u) = u
    OBVIOUS
  <2>1. Len(u) \in Nat /\ Len(h) = 1 /\ h[1] = Head(s)
    BY LenProperties
  <2>2. /\ h \o u \in Seq(Message) /\ Len(h \o u) = 1 + Len(u)
        /\ \A i \in 1..1+Len(u) : (h \o u)[i] = IF i <= 1 THEN h[i] ELSE u[i - 1]
    BY <1>2, <2>1, ConcatProperties
  <2>3. h \o u # <<>>
    BY <2>1, <2>2, EmptySeq
  <2>4. /\ Tail(h \o u) \in Seq(Message) /\ Len(Tail(h \o u)) = Len(u)
        /\ \A i \in 1..Len(u) : Tail(h \o u)[i] = (h \o u)[i + 1]
    BY <2>1, <2>2, <2>3, HeadTailProperties
  <2>5. \A i \in 1..Len(u) : Tail(h \o u)[i] = u[i]
    <3> SUFFICES ASSUME NEW i \in 1..Len(u) PROVE Tail(h \o u)[i] = u[i]
      OBVIOUS
    <3>1. i + 1 \in 1..1+Len(u) /\ ~(i + 1 <= 1) /\ (i + 1) - 1 = i
      BY <2>1
    <3>2. (h \o u)[i + 1] = u[(i + 1) - 1]
      BY <2>2, <3>1
    <3>3. QED
      BY <2>4, <3>1, <3>2
  <2>6. Tail(h \o u) = u
    BY <2>4, <2>5, SeqEqual
  <2>7. Head(h \o u) = (h \o u)[1]
    BY <2>2, <2>3
  <2>8. 1 \in 1..1+Len(u)
    BY <2>1
  <2>9. (h \o u)[1] = h[1]
    BY <2>2, <2>8
  <2>10. QED
    BY <2>1, <2>3, <2>6, <2>7, <2>9
<1>6. QED
  BY <1>3, <1>4, <1>5

LEMMA HeadMoves ==
  ASSUME NEW s \in Seq(Message), NEW t \in Seq(Message), t # <<>>
  PROVE  Append(s, Head(t)) \o Tail(t) = s \o t
<1> DEFINE h == <<Head(t)>>
           r == Tail(t)
<1>1. t = h \o r
  OBVIOUS
<1>2. Head(t) \in Message /\ h \in Seq(Message) /\ r \in Seq(Message)
  BY HeadTailProperties
<1>3. Append(s, Head(t)) = s \o h
  BY <1>2, AppendIsConcat
<1>4. (s \o h) \o r = s \o (h \o r)
  BY <1>2, ConcatAssociative
<1>5. QED
  BY <1>1, <1>3, <1>4

Lines == /\ wire \in [Side -> Seq(Message)] /\ inbox \in [Side -> Seq(Message)]
         /\ pending \in [Side -> Seq(Message)]

LEMMA LinesTyped == TypeOK => Lines
BY DEF TypeOK, SessionTypeOK, Lines

LEMMA ComingTyped ==
  ASSUME Lines, NEW s \in Side
  PROVE  Coming(s) \in Seq(Message)
BY ConcatProperties DEF Lines, Coming

LEMMA ComingPosted ==
  ASSUME Lines, NEW s \in Side, NEW m \in Message, Post(s, m),
         inbox'[Peer(s)] = inbox[Peer(s)]
  PROVE  /\ Coming(Peer(s))' = Append(Coming(Peer(s)), m)
         /\ wire'[s] = wire[s]
<1>1. Peer(s) \in Side /\ Peer(s) # s
  BY PeerSide
<1> DEFINE p == Peer(s)
<1>2. wire'[p] = Append(wire[p], m) /\ wire'[s] = wire[s]
  BY <1>1 DEF Lines, Post
<1>3. inbox[p] \o Append(wire[p], m) = Append(inbox[p] \o wire[p], m)
  <2>1. inbox[p] \in Seq(Message) /\ wire[p] \in Seq(Message)
    BY <1>1 DEF Lines
  <2>2. QED
    BY <2>1, ConcatAppend
<1>4. QED
  BY <1>2, <1>3 DEF Coming

LEMMA ComingConsumed ==
  ASSUME Lines, NEW s \in Side, Consume(s), pending[s] = <<>>, wire'[s] = wire[s]
  PROVE  /\ Coming(s) # <<>> /\ NextMsg(s) = Head(Coming(s))
         /\ Coming(s)' = Tail(Coming(s))
         /\ inbox'[Peer(s)] = inbox[Peer(s)] /\ pending' = pending
<1>1. /\ inbox[s] # <<>> /\ inbox' = [inbox EXCEPT ![s] = Tail(inbox[s])]
      /\ pending' = pending /\ NextMsg(s) = Head(inbox[s])
  BY DEF Consume, HasNext, NextMsg
<1>2. inbox[s] \in Seq(Message) /\ wire[s] \in Seq(Message)
  BY DEF Lines
<1>3. inbox'[s] = Tail(inbox[s]) /\ inbox'[Peer(s)] = inbox[Peer(s)]
  BY <1>1, PeerSide DEF Lines
<1>4. /\ inbox[s] \o wire[s] # <<>>
      /\ Head(inbox[s] \o wire[s]) = Head(inbox[s])
      /\ Tail(inbox[s] \o wire[s]) = Tail(inbox[s]) \o wire[s]
  BY <1>1, <1>2, HeadTailConcat
<1>5. QED
  BY <1>1, <1>3, <1>4 DEF Coming

LEMMA ComingDelivered ==
  ASSUME Lines, NEW s \in Side, wire[s] # <<>>,
         inbox' = [inbox EXCEPT ![s] = Append(@, Head(wire[s]))],
         wire' = [wire EXCEPT ![s] = Tail(@)]
  PROVE  Coming(s)' = Coming(s)
<1>1. inbox[s] \in Seq(Message) /\ wire[s] \in Seq(Message)
  BY DEF Lines
<1>2. wire'[s] = Tail(wire[s]) /\ inbox'[s] = Append(inbox[s], Head(wire[s]))
  BY DEF Lines
<1>3. Append(inbox[s], Head(wire[s])) \o Tail(wire[s]) = inbox[s] \o wire[s]
  BY <1>1, HeadMoves
<1>4. QED
  BY <1>2, <1>3 DEF Coming

LEMMA ComingCut ==
  ASSUME Lines, NEW s \in Side, NEW n \in 0..Len(wire[s])-1,
         inbox'[s] = inbox[s], wire' = [wire EXCEPT ![s] = SubSeq(@, 1, n)]
  PROVE  /\ Coming(s)' \in Seq(Message)
         /\ Len(Coming(s)') \in 0..Len(Coming(s))
         /\ \A k \in 1..Len(Coming(s)') : Coming(s)'[k] = Coming(s)[k]
<1>1. inbox[s] \in Seq(Message) /\ wire[s] \in Seq(Message)
  BY DEF Lines
<1>2. wire'[s] = SubSeq(wire[s], 1, n)
  BY DEF Lines
<1>3. /\ Len(wire[s]) \in Nat /\ n <= Len(wire[s]) /\ Len(inbox[s]) \in Nat
      /\ \A i \in 1..Len(wire[s]) : wire[s][i] \in Message
  BY <1>1, LenProperties, ElementOfSeq
<1>4. /\ SubSeq(wire[s], 1, n) \in Seq(Message) /\ Len(SubSeq(wire[s], 1, n)) = n
      /\ \A i \in 1..n : SubSeq(wire[s], 1, n)[i] = wire[s][i]
  BY <1>3, SubSeqProperties
<1> DEFINE A == inbox[s]
           B == wire[s]
           D == SubSeq(wire[s], 1, n)
<1>5. Coming(s)' = A \o D /\ Coming(s) = A \o B
  BY <1>2 DEF Coming
<1>6. /\ A \in Seq(Message) /\ B \in Seq(Message) /\ D \in Seq(Message) /\ Len(D) = n
      /\ Len(A) \in Nat /\ Len(B) \in Nat /\ n \in Nat /\ n <= Len(B)
      /\ \A i \in 1..n : D[i] = B[i]
  BY <1>1, <1>3, <1>4
<1> HIDE DEF A, B, D
<1>7. /\ A \o D \in Seq(Message) /\ Len(A \o D) = Len(A) + n
      /\ \A k \in 1..Len(A) + n : (A \o D)[k] = IF k <= Len(A) THEN A[k] ELSE D[k - Len(A)]
  BY <1>6, ConcatProperties
<1>8. /\ Len(A \o B) = Len(A) + Len(B)
      /\ \A k \in 1..Len(A) + Len(B) : (A \o B)[k] = IF k <= Len(A) THEN A[k] ELSE B[k - Len(A)]
  BY <1>6, ConcatProperties
<1>9. ASSUME NEW k \in 1..Len(A) + n PROVE (A \o D)[k] = (A \o B)[k]
  <2>1. k \in 1..Len(A) + Len(B)
    BY <1>6
  <2>2. CASE k <= Len(A)
    BY <1>7, <1>8, <2>1, <2>2
  <2>3. CASE ~(k <= Len(A))
    <3>1. k - Len(A) \in 1..n
      BY <1>6, <2>3
    <3>2. (A \o D)[k] = D[k - Len(A)] /\ (A \o B)[k] = B[k - Len(A)]
      BY <1>7, <1>8, <2>1, <2>3
    <3>3. QED
      BY <1>6, <3>1, <3>2
  <2>4. QED
    BY <2>2, <2>3
<1>10. QED
  BY <1>5, <1>6, <1>7, <1>8, <1>9

-----------------------------------------------------------------------------
(* Steps of an honest pair.                                                *)

\* What is known of the state besides.
Footing == TypeOK /\ (At("rcv", "chunks") => dest \in Paths /\ dir[dest] \in Content)

LEMMA GroundFacts ==
  ASSUME Footing
  PROVE  /\ Lines /\ Core /\ cur \in Files /\ sent \in Nat /\ buf \in 0..ChunkSize
         /\ Coming("snd") \in Seq(Message) /\ Coming("rcv") \in Seq(Message)
         /\ SenderAt \in Int
         /\ Alive("rcv") => ReceiverAt \in Int
<1>1. Lines /\ cur \in Files /\ sent \in Nat /\ buf \in 0..ChunkSize
  BY LinesTyped DEF Footing, TypeOK, SenderTypeOK
<1>2. Core
  BY DEF Footing, TypeOK, SessionTypeOK, Core
<1>3. Coming("snd") \in Seq(Message) /\ Coming("rcv") \in Seq(Message)
  BY <1>1, ComingTyped DEF Side
<1>4. SenderAt \in Int
  BY <1>1, SenderPointTyped DEF SenderAt
<1>5. ReceiverAt \in Int
  <2>1. CASE At("rcv", "chunks")
    <3>1. dir[dest] \in Seq(Unit)
      BY <2>1 DEF Footing, Content
    <3>2. Len(dir[dest]) \in Int
      BY <3>1, LenProperties
    <3>3. QED
      BY <2>1, <3>2 DEF ReceiverAt, ReceiverPoint, At
  <2>2. CASE ~At("rcv", "chunks")
    BY <2>2 DEF ReceiverAt, ReceiverPoint, At
  <2>3. QED
    BY <2>1, <2>2
<1>6. QED
  BY <1>1, <1>2, <1>3, <1>4, <1>5

LEMMA HeardOn ==
  ASSUME NEW l, NEW c, NEW k, NEW Q, Heard(l, c, k, Q), k \notin {"returned", "closed"}, NEW k2
  PROVE  Heard(l, c, k2, Q)
BY DEF Heard

\* s fails, without an accusation and without a word.
Quits(s) ==
  /\ pc' = [pc EXCEPT ![s] = "failed"]
  /\ err'[s] \notin Accusations /\ err'[Peer(s)] = err[Peer(s)]
  /\ wire' = wire /\ inbox'[Peer(s)] = inbox[Peer(s)] /\ pending' = pending

LEMMA FailQuits ==
  ASSUME Core, NEW s \in Side, NEW e, e \notin Accusations, FailWith(s, e),
         wire' = wire, inbox'[Peer(s)] = inbox[Peer(s)], pending' = pending
  PROVE  Quits(s)
BY PeerSide DEF Core, FailWith, Quits

LEMMA SenderNotOver ==
  ASSUME Footing, Agree, Alive("snd")
  PROVE  SenderAt < Over
<1>1. pc["snd"] \in SenderLabels
  BY RunningLabels
<1>2. cur \in Files /\ sent \in Nat
  BY GroundFacts
<1>3. pc["snd"] \in Filing => sent <= Size[cur]
  BY OverLast, <1>2 DEF Agree, SenderTrue
<1>4. QED
  BY <1>2, <1>3, OverLast DEF SenderAt, SenderPoint, Filing

\* A sender about to go on to a file has said everything the receiver waits
\* for, and knows what it wants.
LEMMA BetweenFiles ==
  ASSUME Footing, Agree, pc["snd"] = "nextFile", Alive("rcv")
  PROVE  /\ pc["rcv"] \in {"waitStart", "waitDone"} /\ ReceiverAt = -1
         /\ Coming("rcv") = <<>> /\ Coming("snd") = <<>> /\ want = todo
<1>1. Alive("snd") /\ SenderAt = -1
  BY SenderPoints DEF Alive, Ended, SenderAt
<1>2. Together("nextFile", pc["rcv"], Coming("snd"), cur, todo, want)
  BY <1>1 DEF Agree, InTurn
<1>3. pc["rcv"] \in ReceiverLabels
  BY RunningLabels
<1>4. PICK q \in Int : Runs(cur, want, ReceiverAt, q, Coming("rcv")) /\ q = -1
  BY <1>1 DEF Agree, Forward
<1>5. ReceiverAt <= -1 /\ (Coming("rcv") # <<>> => ReceiverAt < -1)
  BY <1>4, RunsOrder, GroundFacts
<1>6. pc["rcv"] # "chunks"
  <2> SUFFICES ASSUME pc["rcv"] = "chunks" PROVE FALSE
    OBVIOUS
  <2>1. dir[dest] \in Seq(Unit)
    BY DEF Footing, Content, At
  <2>2. Len(dir[dest]) >= 0
    BY <2>1, LenProperties
  <2>3. QED
    BY <1>5, <2>2, ReceiverPoints DEF ReceiverAt
<1>7. pc["rcv"] \in {"waitStart", "waitDone"} /\ Coming("snd") = <<>> /\ want = todo
  <2>1. pc["rcv"] \in {"waitStart", "waitDone"}
    BY <1>2, <1>3, <1>6 DEF Together, ReceiverLabels, Greeting
  <2>2. QED
    BY <1>2, <2>1 DEF Together
<1>8. ReceiverAt = -1
  BY <1>7, ReceiverPoints DEF ReceiverAt
<1>9. QED
  BY <1>5, <1>7, <1>8

LEMMA SenderQuits ==
  ASSUME Footing, Agree, Alive("snd"), Quits("snd"), UNCHANGED rcvVars,
         cur' = cur \/ pc["snd"] = "nextFile"
  PROVE  Agree'
<1>1. /\ pc'["snd"] = "failed" /\ pc'["rcv"] = pc["rcv"] /\ Coming("rcv")' = Coming("rcv")
      /\ ~Alive("snd")' /\ Alive("rcv")' = Alive("rcv")
  BY GroundFacts DEF Quits, Core, Coming, Peer, Alive, Ended, Side
<1>2. InPlace' /\ NoneAccuses'
  BY <1>1 DEF Agree, InPlace, Ended, NoneAccuses, Quits, Side, Peer
<1>3. ReceiverAt' = ReceiverAt /\ want' = want
  BY <1>1 DEF rcvVars, ReceiverAt
<1>4. Forward'
  <2> SUFFICES ASSUME Alive("rcv")
               PROVE  \E q \in Int : Runs(cur', want, ReceiverAt, q, Coming("rcv")) /\ q < Over
    BY <1>1, <1>3 DEF Forward
  <2>1. PICK q \in Int : Runs(cur, want, ReceiverAt, q, Coming("rcv")) /\ q = SenderAt
    BY DEF Agree, Forward
  <2>2. q < Over
    BY <2>1, SenderNotOver
  <2>3. CASE cur' = cur
    BY <2>1, <2>2, <2>3
  <2>4. CASE pc["snd"] = "nextFile"
    <3>1. Coming("rcv") = <<>>
      BY <2>4, BetweenFiles
    <3>2. ReceiverAt = q /\ ReceiverAt \in Int
      BY <2>1, <3>1, RunsEmpty, GroundFacts
    <3>3. Runs(cur', want, ReceiverAt, q, <<>>)
      BY <3>2, RunsEmpty
    <3>4. QED
      BY <2>2, <3>1, <3>3
  <2>5. QED
    BY <2>3, <2>4
<1>5. Backward' /\ InTurn' /\ SenderTrue'
  BY <1>1 DEF Backward, InTurn, SenderTrue
<1>6. ReceiverTrue'
  <2> SUFFICES ASSUME Alive("rcv") PROVE ReceiverTrue'
    BY <1>1 DEF ReceiverTrue
  <2>1. CASE pc["rcv"] # "chunks"
    BY <1>1, <2>1 DEF Agree, ReceiverTrue, rcvVars
  <2>2. CASE pc["rcv"] = "chunks"
    <3>1. cur' = cur
      BY <2>2, BetweenFiles
    <3>2. QED
      BY <1>1, <3>1 DEF Agree, ReceiverTrue, rcvVars
  <2>3. QED
    BY <2>1, <2>2
<1>7. QED
  BY <1>2, <1>4, <1>5, <1>6 DEF Agree

\* s goes on to label l.
Proceeds(s, l) ==
  /\ pc' = [pc EXCEPT ![s] = l] /\ err' = err
  /\ pending' = pending /\ inbox'[Peer(s)] = inbox[Peer(s)]

\* The sender goes on where it was, without a word.
LEMMA SenderMoves ==
  ASSUME Footing, Agree, Alive("snd"), UNCHANGED <<rcvVars, cur, wire>>,
         NEW l \in SenderLabels, Proceeds("snd", l),
         SenderPoint(l, Coming("snd")', sent', cur) = SenderAt,
         Heard(l, cur, pc["rcv"], Coming("snd")'),
         Alive("rcv") => Together(l, pc["rcv"], Coming("snd")', cur, todo', want),
         SenderTrue'
  PROVE  Agree'
<1>1. /\ pc'["snd"] = l /\ pc'["rcv"] = pc["rcv"] /\ Coming("rcv")' = Coming("rcv")
      /\ Alive("rcv")' = Alive("rcv")
  BY GroundFacts DEF Proceeds, Core, Coming, Peer, Alive, Side
<1>2. InPlace' /\ NoneAccuses'
  BY <1>1 DEF Agree, InPlace, Ended, NoneAccuses, Proceeds
<1>3. ReceiverAt' = ReceiverAt /\ want' = want /\ SenderAt' = SenderAt
  BY <1>1 DEF rcvVars, ReceiverAt, SenderAt
<1>4. Forward'
  BY <1>1, <1>3 DEF Agree, Forward, Ended, SenderLabels, Greeting, Filing
<1>5. Backward' /\ InTurn'
  BY <1>1, <1>3 DEF Backward, InTurn
<1>6. ReceiverTrue'
  BY <1>1 DEF Agree, ReceiverTrue, rcvVars
<1>7. QED
  BY <1>2, <1>4, <1>5, <1>6 DEF Agree

\* The sender says m and goes on to the point to which m leads.
LEMMA SenderSays ==
  ASSUME Footing, Agree, Alive("snd"), UNCHANGED <<rcvVars, inbox>>,
         cur' = cur \/ pc["snd"] = "nextFile",
         NEW m \in Message, Post("snd", m),
         NEW l \in SenderLabels, Proceeds("snd", l),
         NEW r \in Int, SenderPoint(l, Coming("snd"), sent', cur') = r, SenderAt < r,
         Alive("rcv") => Leads(cur', want, SenderAt, m, r),
         Heard(l, cur', pc["rcv"], Coming("snd")),
         Alive("rcv") => Together(l, pc["rcv"], Coming("snd"), cur', todo', want),
         SenderTrue'
  PROVE  Agree'
<1>1. /\ pc'["snd"] = l /\ pc'["rcv"] = pc["rcv"]
      /\ Alive("rcv")' = Alive("rcv")
  BY GroundFacts DEF Proceeds, Core, Alive, Side
<1>2. Coming("snd")' = Coming("snd") /\ Coming("rcv")' = Append(Coming("rcv"), m)
  <2>1. "snd" \in Side /\ Peer("snd") = "rcv" /\ Lines
    BY GroundFacts DEF Side, Peer
  <2>2. Coming("rcv")' = Append(Coming("rcv"), m) /\ wire'["snd"] = wire["snd"]
    BY <2>1, ComingPosted
  <2>3. QED
    BY <2>2 DEF Coming
<1>3. ReceiverAt' = ReceiverAt /\ want' = want /\ SenderAt' = r
  BY <1>1, <1>2 DEF rcvVars, ReceiverAt, SenderAt
<1>4. InPlace' /\ NoneAccuses'
  BY <1>1 DEF Agree, InPlace, Ended, NoneAccuses, Proceeds
<1>5. Forward'
  <2> SUFFICES ASSUME Alive("rcv")
               PROVE  Runs(cur', want, ReceiverAt, r, Append(Coming("rcv"), m))
    BY <1>1, <1>2, <1>3 DEF Forward, Ended, SenderLabels, Greeting, Filing
  <2>1. Runs(cur, want, ReceiverAt, SenderAt, Coming("rcv"))
    BY DEF Agree, Forward
  <2>2. Runs(cur', want, ReceiverAt, SenderAt, Coming("rcv"))
    <3>1. CASE cur' = cur
      BY <2>1, <3>1
    <3>2. CASE pc["snd"] = "nextFile"
      BY <2>1, <3>2, BetweenFiles, RunsEmpty, GroundFacts
    <3>3. QED
      BY <3>1, <3>2
  <2>3. QED
    BY <2>2, RunsAppend, GroundFacts
<1>6. Backward' /\ InTurn'
  BY <1>1, <1>2, <1>3 DEF Backward, InTurn
<1>7. ReceiverTrue'
  <2>1. CASE pc["rcv"] # "chunks"
    BY <1>1, <2>1 DEF Agree, ReceiverTrue, rcvVars
  <2>2. CASE pc["rcv"] = "chunks"
    <3>1. cur' = cur
      BY <2>2, BetweenFiles DEF Alive, Ended
    <3>2. QED
      BY <1>1, <3>1 DEF Agree, ReceiverTrue, rcvVars
  <2>3. QED
    BY <2>1, <2>2
<1>8. QED
  BY <1>4, <1>5, <1>6, <1>7 DEF Agree

\* What the sender takes: an answer it waits for, or the cancel of a receiver
\* that has returned.
LEMMA SenderHears ==
  ASSUME Footing, Agree, Alive("snd"), Consume("snd"), wire'["snd"] = wire["snd"]
  PROVE  /\ Coming("snd") # <<>> /\ Coming("snd")' = Tail(Coming("snd"))
         /\ NextMsg("snd") = Head(Coming("snd"))
         /\ pending' = pending /\ inbox'["rcv"] = inbox["rcv"]
         /\ \/ Coming("snd")' = <<>>
            \/ pc["rcv"] \in {"returned", "closed"} /\ Coming("snd")' = <<Cancel>>
         /\ \/ NextMsg("snd") \in Answers(pc["snd"], cur)
            \/ pc["rcv"] \in {"returned", "closed"} /\ NextMsg("snd") = Cancel
<1>1. "snd" \in Side /\ Peer("snd") = "rcv" /\ Lines /\ pending["snd"] = <<>>
  BY GroundFacts DEF Side, Peer, Agree, NoneAccuses
<1>2. /\ Coming("snd") # <<>> /\ Coming("snd")' = Tail(Coming("snd"))
      /\ NextMsg("snd") = Head(Coming("snd"))
      /\ pending' = pending /\ inbox'["rcv"] = inbox["rcv"]
  BY <1>1, ComingConsumed
<1>3. Heard(pc["snd"], cur, pc["rcv"], Coming("snd"))
  BY DEF Agree, Backward
<1>4. /\ \/ Tail(Coming("snd")) = <<>>
         \/ pc["rcv"] \in {"returned", "closed"} /\ Tail(Coming("snd")) = <<Cancel>>
      /\ \/ Head(Coming("snd")) \in Answers(pc["snd"], cur)
         \/ pc["rcv"] \in {"returned", "closed"} /\ Head(Coming("snd")) = Cancel
  BY <1>2, <1>3, HeardHead
<1>5. QED
  BY <1>2, <1>4

-----------------------------------------------------------------------------
(* The steps of the sender.                                                *)

LEMMA AnswersTyped ==
  ASSUME NEW l, NEW c
  PROVE  /\ \A m \in Answers(l, c) : m.t \notin {"cancel", "error", "unknown", "malformed"}
         /\ l \in Greeting => \A m \in Answers(l, c) : m = Hello(Version) /\ m.t = "hello" /\ m.v = Version
         /\ l = "waitReply" => \A m \in Answers(l, c) : m.t \in {"accept", "reject"}
         /\ l = "waitAck" => \A m \in Answers(l, c) : m.t = "file-ack" /\ m = FileAck(c, "ok")
BY DEF Answers, Greeting, Hello, Reject, Accept, FileAck

LEMMA SenderTerminal ==
  ASSUME Footing, Agree, Alive("snd"), TakeTerminal("snd")
  PROVE  Quits("snd")
<1>1. /\ Consume("snd") /\ wire' = wire /\ NextMsg("snd").t \in {"cancel", "error"}
      /\ FailWith("snd", IF NextMsg("snd").t = "cancel" THEN "peer-cancel" ELSE "peer-error")
  BY DEF TakeTerminal, Take
<1>2. /\ pending' = pending /\ inbox'["rcv"] = inbox["rcv"]
      /\ NextMsg("snd") \in Answers(pc["snd"], cur) \/ NextMsg("snd") = Cancel
  BY <1>1, SenderHears
<1>3. NextMsg("snd").t = "cancel"
  BY <1>1, <1>2, AnswersTyped DEF Cancel
<1>4. FailWith("snd", "peer-cancel") /\ "peer-cancel" \notin Accusations
  BY <1>1, <1>3 DEF Accusations
<1>5. "snd" \in Side /\ Peer("snd") = "rcv" /\ Core
  BY GroundFacts DEF Side, Peer
<1>6. QED
  BY <1>1, <1>2, <1>4, <1>5, FailQuits

LEMMA SaysToPeer ==
  ASSUME Footing, NEW s \in Side, ProtocolError(s)
  PROVE  wire'[s] = wire[s]
BY GroundFacts, PeerSide DEF ProtocolError, LastWord, Post, Lines

LEMMA WaitFailsQuits ==
  ASSUME Core, NEW s \in Side, WaitFails(s)
  PROVE  Quits(s)
<1>1. wire' = wire /\ inbox' = inbox /\ pending' = pending
  BY DEF WaitFails, NoInput
<1>2. PICK e \in {"ctx", "peer-closed"} : FailWith(s, e)
  BY DEF WaitFails
<1>3. QED
  BY <1>1, <1>2, FailQuits DEF Accusations

LEMMA SenderWaits ==
  ASSUME Footing, Agree, Alive("snd"), NEW expected, WaitOther("snd", expected),
         \A m \in Answers(pc["snd"], cur) : m.t \in expected
  PROVE  Quits("snd")
<1>1. "snd" \in Side /\ Core
  BY GroundFacts DEF Side
<1>2. CASE WaitFails("snd")
  BY <1>1, <1>2, WaitFailsQuits
<1>3. CASE TakeTerminal("snd")
  BY <1>3, SenderTerminal
<1>4. ASSUME TakeUnknown("snd") PROVE FALSE
  <2>1. Consume("snd") /\ wire' = wire /\ NextMsg("snd").t = "unknown"
    BY <1>4 DEF TakeUnknown, Take
  <2>2. NextMsg("snd") \in Answers(pc["snd"], cur) \/ NextMsg("snd") = Cancel
    BY <2>1, SenderHears
  <2>3. QED
    BY <2>1, <2>2, AnswersTyped DEF Cancel
<1>5. ASSUME TakeUnexpected("snd", expected) PROVE FALSE
  <2>1. /\ Consume("snd") /\ NextMsg("snd").t \notin expected \cup {"cancel", "error", "unknown"}
        /\ wire'["snd"] = wire["snd"]
    BY <1>1, <1>5, SaysToPeer DEF TakeUnexpected
  <2>2. NextMsg("snd") \in Answers(pc["snd"], cur) \/ NextMsg("snd") = Cancel
    BY <2>1, SenderHears
  <2>3. QED
    BY <2>1, <2>2 DEF Cancel
<1>6. QED
  BY <1>2, <1>3, <1>4, <1>5 DEF WaitOther

\* The labels of the greeting are all one to the other side.
LEMMA GreetingAlike ==
  ASSUME NEW l \in Greeting, NEW l2 \in Greeting, NEW k, NEW Q, NEW c, NEW T, NEW W
  PROVE  /\ Heard(l, c, k, Q) => Heard(l2, c, k, Q)
         /\ Together(l, k, Q, c, T, W) => Together(l2, k, Q, c, T, W)
<1>1. Answers(l, c) = Answers(l2, c)
  BY WhatAnswers
<1>2. QED
  BY <1>1 DEF Heard, Together, Greeting, Filing

LEMMA SenderBegins ==
  ASSUME Footing, Agree, NewSession("snd"), UNCHANGED <<sndVars, rcvVars>>
  PROVE  Agree'
<1>1. /\ pc["snd"] = "init" /\ Proceeds("snd", "hello")
      /\ UNCHANGED <<wire, inbox, cur, sent, todo>> /\ Coming("snd")' = Coming("snd")
  BY DEF NewSession, At, GoTo, Proceeds, NoInput, sndVars, Coming
<1>2. Alive("snd") /\ "hello" \in SenderLabels /\ "init" \in Greeting /\ "hello" \in Greeting
  BY <1>1 DEF Alive, Ended, SenderLabels, Greeting
<1>3. SenderPoint("hello", Coming("snd")', sent', cur) = SenderAt
  BY <1>1, SenderPoints DEF SenderAt
<1>4. /\ Heard("hello", cur, pc["rcv"], Coming("snd"))
      /\ Alive("rcv") => Together("hello", pc["rcv"], Coming("snd"), cur, todo, want)
  BY <1>1, <1>2, GreetingAlike DEF Agree, Backward, InTurn
<1>5. SenderTrue'
  BY <1>1, GroundFacts DEF SenderTrue, Proceeds, Core, Side, Filing
<1>6. QED
  BY <1>1, <1>2, <1>3, <1>4, <1>5, SenderMoves

\* A control message that cannot be sent ends the call.
LEMMA SendFails ==
  ASSUME Footing, NEW s \in Side, ~CanSend(s), NEW m, NEW l, Control(s, m, l), NoInput
  PROVE  Quits(s)
<1>1. FailWith(s, "send") /\ wire' = wire /\ inbox' = inbox /\ pending' = pending
  BY DEF Control, NoInput
<1>2. QED
  BY <1>1, FailQuits, GroundFacts DEF Accusations

LEMMA SendSucceeds ==
  ASSUME NEW s \in Side, CanSend(s), NEW m, NEW l, Control(s, m, l), NoInput
  PROVE  Post(s, m) /\ Proceeds(s, l) /\ inbox' = inbox
BY DEF Control, GoTo, NoInput, Proceeds

LEMMA SenderGreets ==
  ASSUME Footing, Agree, SendHello("snd"), UNCHANGED <<sndVars, rcvVars>>
  PROVE  Agree'
<1>1. /\ pc["snd"] = "hello" /\ Control("snd", Hello(Version), "waitHello") /\ NoInput
      /\ UNCHANGED <<cur, sent, todo>> /\ "snd" \in Side /\ Alive("snd")
  BY DEF SendHello, At, sndVars, Side, Alive, Ended
<1>2. CASE ~CanSend("snd")
  BY <1>1, <1>2, SendFails, SenderQuits
<1>3. CASE CanSend("snd")
  <2>1. Post("snd", Hello(Version)) /\ Proceeds("snd", "waitHello") /\ inbox' = inbox
    BY <1>1, <1>3, SendSucceeds
  <2>2. /\ Hello(Version) \in Message
        /\ "waitHello" \in SenderLabels /\ "hello" \in Greeting /\ "waitHello" \in Greeting
    BY DEF Hello, Version, Message, SenderLabels, Greeting
  <2>3. SenderAt = -4 /\ SenderPoint("waitHello", Coming("snd"), sent', cur') = -3
    BY <1>1, SenderPoints DEF SenderAt
  <2>4. Leads(cur', want, -4, Hello(Version), -3)
    BY DEF Leads
  <2>5. /\ Heard("waitHello", cur, pc["rcv"], Coming("snd"))
        /\ Alive("rcv") => Together("waitHello", pc["rcv"], Coming("snd"), cur, todo, want)
    BY <1>1, <2>2, GreetingAlike DEF Agree, Backward, InTurn
  <2>6. SenderTrue'
    BY <2>1, GroundFacts DEF SenderTrue, Proceeds, Core, Side, Filing
  <2>7. QED
    BY <1>1, <2>1, <2>2, <2>3, <2>4, <2>5, <2>6, SenderSays
<1>4. QED
  BY <1>2, <1>3

LEMMA SenderIsGreeted ==
  ASSUME Footing, Agree, WaitHello("snd"), UNCHANGED <<sndVars, rcvVars>>
  PROVE  Agree'
<1>1. /\ pc["snd"] = "waitHello" /\ "snd" \in Side /\ Alive("snd") /\ Core
      /\ "waitHello" \in Greeting /\ UNCHANGED <<cur, sent, todo>>
  BY GroundFacts DEF WaitHello, At, Side, Alive, Ended, Greeting, sndVars
<1>2. CASE WaitFails("snd")
  BY <1>1, <1>2, WaitFailsQuits, SenderQuits
<1>3. CASE TakeTerminal("snd")
  BY <1>1, <1>3, SenderTerminal, SenderQuits
<1>4. ASSUME TakeNotHello("snd") PROVE FALSE
  <2>1. /\ Consume("snd") /\ NextMsg("snd").t \notin {"hello", "cancel", "error"}
        /\ wire'["snd"] = wire["snd"]
    BY <1>1, <1>4, SaysToPeer DEF TakeNotHello
  <2>2. NextMsg("snd") \in Answers("waitHello", cur) \/ NextMsg("snd") = Cancel
    BY <1>1, <2>1, SenderHears
  <2>3. QED
    BY <1>1, <2>1, <2>2, AnswersTyped DEF Cancel
<1>5. CASE TakeHello("snd")
  <2>1. Consume("snd") /\ NextMsg("snd").t = "hello"
    BY <1>5 DEF TakeHello, Take
  <2>2. wire'["snd"] = wire["snd"]
    BY <1>5, GroundFacts, PeerSide DEF TakeHello, LastWord, Post, Lines, Side
  <2>3. NextMsg("snd").v = Version
    BY <1>1, <2>1, <2>2, SenderHears, AnswersTyped DEF Cancel
  <2>4. GoTo("snd", "manifest") /\ wire' = wire
    BY <1>5, <2>3 DEF TakeHello, AfterHello
  <2>5. /\ Coming("snd") # <<>> /\ pending' = pending /\ inbox'["rcv"] = inbox["rcv"]
        /\ \/ Coming("snd")' = <<>>
           \/ pc["rcv"] \in {"returned", "closed"} /\ Coming("snd")' = <<Cancel>>
    BY <1>1, <2>1, <2>2, SenderHears
  <2>6. Proceeds("snd", "manifest") /\ "manifest" \in SenderLabels
    BY <2>4, <2>5 DEF GoTo, Proceeds, Peer, SenderLabels
  <2>7. SenderPoint("manifest", Coming("snd")', sent', cur) = SenderAt
    BY <1>1, SenderPoints DEF SenderAt
  <2>8. Heard("manifest", cur, pc["rcv"], Coming("snd")')
    BY <2>5, RestHeard
  <2>9. ASSUME Alive("rcv")
        PROVE  Together("manifest", pc["rcv"], Coming("snd")', cur, todo, want)
    <3>1. Coming("snd")' = <<>>
      BY <2>5, <2>9 DEF Alive, Ended
    <3>2. Together("waitHello", pc["rcv"], Coming("snd"), cur, todo, want)
      BY <1>1, <2>9 DEF Agree, InTurn
    <3>3. QED
      BY <2>5, <3>1, <3>2 DEF Together, Greeting, Filing
  <2>10. SenderTrue'
    BY <2>6, GroundFacts DEF SenderTrue, Proceeds, Core, Side, Filing
  <2>11. QED
    BY <1>1, <2>4, <2>6, <2>7, <2>8, <2>9, <2>10, SenderMoves
<1>6. QED
  BY <1>2, <1>3, <1>4, <1>5 DEF WaitHello

LEMMA SendManifestAgrees ==
  ASSUME Footing, Agree, SendManifest, UNCHANGED rcvVars
  PROVE  Agree'
<1>1. /\ pc["snd"] = "manifest" /\ Control("snd", Manifest(Metas), "waitReply") /\ NoInput
      /\ UNCHANGED <<cur, sent, todo>> /\ "snd" \in Side /\ Alive("snd")
  BY DEF SendManifest, At, sndVars, Side, Alive, Ended
<1>2. CASE ~CanSend("snd")
  BY <1>1, <1>2, SendFails, SenderQuits
<1>3. CASE CanSend("snd")
  <2>1. Post("snd", Manifest(Metas)) /\ Proceeds("snd", "waitReply") /\ inbox' = inbox
    BY <1>1, <1>3, SendSucceeds
  <2>2. Manifest(Metas) \in Message /\ "waitReply" \in SenderLabels
    BY MetasTyped DEF Manifest, Message, SenderLabels
  <2>3. Heard("manifest", cur, pc["rcv"], Coming("snd")) /\ Answers("manifest", cur) = {}
    BY <1>1, WhatAnswers DEF Agree, Backward
  <2>4. Coming("snd") = <<>> \/ (pc["rcv"] \in {"returned", "closed"} /\ Coming("snd") = <<Cancel>>)
    BY <2>3 DEF Heard
  <2>5. /\ SenderAt = -3
        /\ SenderPoint("waitReply", Coming("snd"), sent', cur') =
             IF Coming("snd") = <<>> THEN -2 ELSE -1
    BY <1>1, SenderPoints DEF SenderAt
  <2>6. ASSUME Alive("rcv") PROVE Coming("snd") = <<>>
    BY <2>4, <2>6 DEF Alive, Ended
  <2>7. Leads(cur', want, -3, Manifest(Metas), -2)
    BY DEF Leads
  <2>8. Heard("waitReply", cur, pc["rcv"], Coming("snd"))
    BY <2>4, RestHeard
  <2>9. ASSUME Alive("rcv")
        PROVE  Together("waitReply", pc["rcv"], Coming("snd"), cur, todo, want)
    <3>1. Together("manifest", pc["rcv"], Coming("snd"), cur, todo, want)
      BY <1>1, <2>9 DEF Agree, InTurn
    <3>2. QED
      BY <2>6, <2>9, <3>1 DEF Together, Greeting, Filing
  <2>10. SenderTrue'
    BY <2>1, GroundFacts DEF SenderTrue, Proceeds, Core, Side, Filing
  <2>11. PICK r \in Int : /\ r = SenderPoint("waitReply", Coming("snd"), sent', cur')
                          /\ r \in {-2, -1} /\ (Coming("snd") = <<>> => r = -2)
    BY <2>5
  <2>12. QED
    BY <1>1, <2>1, <2>2, <2>5, <2>6, <2>7, <2>8, <2>9, <2>10, <2>11, SenderSays
<1>4. QED
  BY <1>2, <1>3

LEMMA SenderIsAnswered ==
  ASSUME Footing, Agree, WaitReply, UNCHANGED rcvVars
  PROVE  Agree'
<1>1. /\ pc["snd"] = "waitReply" /\ "snd" \in Side /\ Alive("snd") /\ Core
      /\ UNCHANGED <<cur, sent>>
  BY GroundFacts DEF WaitReply, At, Side, Alive, Ended
<1>2. CASE WaitOther("snd", {"accept", "reject"})
  BY <1>1, <1>2, SenderWaits, AnswersTyped, SenderQuits
<1>3. CASE TakeReject
  <2>1. /\ Consume("snd") /\ wire' = wire /\ FailWith("snd", "rejected")
        /\ "rejected" \notin Accusations /\ Peer("snd") = "rcv"
    BY <1>3 DEF TakeReject, Take, Accusations, Peer
  <2>2. pending' = pending /\ inbox'["rcv"] = inbox["rcv"]
    BY <1>1, <2>1, SenderHears
  <2>3. QED
    BY <1>1, <2>1, <2>2, FailQuits, SenderQuits
<1>4. CASE TakeAccept
  <2>1. Consume("snd") /\ NextMsg("snd").t = "accept"
    BY <1>4 DEF TakeAccept, Take
  <2>2. wire'["snd"] = wire["snd"]
    BY <1>1, <1>4, SaysToPeer DEF TakeAccept
  <2>3. /\ NextMsg("snd") \in Answers("waitReply", cur) \/ NextMsg("snd") = Cancel
        /\ NextMsg("snd") = Head(Coming("snd"))
    BY <1>1, <2>1, <2>2, SenderHears
  <2>4. PICK ids \in SUBSET Files : NextMsg("snd") = Accept(ids)
    BY <2>1, <2>3, WhatAnswers DEF Cancel, Reject
  <2>5. NextMsg("snd").ids = ids /\ ValidAccept(ids, NumFiles)
    BY <2>4 DEF Accept, ValidAccept, Files
  <2>6. /\ todo' = ResolveAccept(ids, NumFiles) /\ GoTo("snd", "nextFile") /\ wire' = wire
    BY <1>4, <2>5 DEF TakeAccept
  <2>7. /\ Coming("snd") # <<>> /\ pending' = pending /\ inbox'["rcv"] = inbox["rcv"]
        /\ \/ Coming("snd")' = <<>>
           \/ pc["rcv"] \in {"returned", "closed"} /\ Coming("snd")' = <<Cancel>>
    BY <1>1, <2>1, <2>2, SenderHears
  <2>8. Proceeds("snd", "nextFile") /\ "nextFile" \in SenderLabels
    BY <2>6, <2>7 DEF GoTo, Proceeds, Peer, SenderLabels
  <2>9. SenderPoint("nextFile", Coming("snd")', sent', cur) = SenderAt
    BY <1>1, <2>7, SenderPoints DEF SenderAt
  <2>10. Heard("nextFile", cur, pc["rcv"], Coming("snd")')
    BY <2>7, RestHeard
  <2>11. ASSUME Alive("rcv")
         PROVE  Together("nextFile", pc["rcv"], Coming("snd")', cur, todo', want)
    <3>1. Coming("snd")' = <<>>
      BY <2>7, <2>11 DEF Alive, Ended
    <3>2. Together("waitReply", pc["rcv"], Coming("snd"), cur, todo, want)
      BY <1>1, <2>11 DEF Agree, InTurn
    <3>3. pc["rcv"] \in ReceiverLabels
      BY <2>11, RunningLabels
    <3>4. PICK other \in SUBSET Files : /\ Coming("snd") = <<Accept(other)>>
                                         /\ want = ResolveAccept(other, NumFiles)
      BY <2>7, <3>2, <3>3 DEF Together, ReceiverLabels, Greeting, Filing
    <3>5. Accept(other) = Accept(ids)
      BY <2>3, <2>4, <3>4
    <3>6. other = ids
      BY <3>5 DEF Accept
    <3>7. pc["rcv"] = "waitStart"
      BY <2>7, <3>2, <3>3 DEF Together, ReceiverLabels, Greeting, Filing
    <3>8. QED
      BY <2>6, <3>1, <3>4, <3>6, <3>7 DEF Together
  <2>12. SenderTrue'
    BY <2>8, GroundFacts DEF SenderTrue, Proceeds, Core, Side, Filing
  <2>13. QED
    BY <1>1, <2>6, <2>8, <2>9, <2>10, <2>11, <2>12, SenderMoves
<1>5. QED
  BY <1>2, <1>3, <1>4 DEF WaitReply

LEMMA StartFileAgrees ==
  ASSUME Footing, Agree, StartFile, UNCHANGED rcvVars
  PROVE  Agree'
<1>1. /\ pc["snd"] = "nextFile" /\ "snd" \in Side /\ Alive("snd") /\ NoInput
      /\ sent' = 0 /\ UNCHANGED <<todo>>
  BY DEF StartFile, At, Side, Alive, Ended
<1>2. PICK id \in todo : /\ IsNext(id, todo) /\ cur' = id
                         /\ Control("snd", FileStart(id), "open")
  BY DEF StartFile
<1>3. id \in Files
  BY DEF Footing, TypeOK, SenderTypeOK
<1>4. CASE ~CanSend("snd")
  BY <1>1, <1>2, <1>4, SendFails, SenderQuits
<1>5. CASE CanSend("snd")
  <2>1. Post("snd", FileStart(id)) /\ Proceeds("snd", "open") /\ inbox' = inbox
    BY <1>1, <1>2, <1>5, SendSucceeds
  <2>2. FileStart(id) \in Message /\ "open" \in SenderLabels
    BY <1>3, FilesAreInts DEF FileStart, Message, SenderLabels, Filing
  <2>3. SenderAt = -1 /\ SenderPoint("open", Coming("snd"), sent', cur') = 0
    BY <1>1, SenderPoints DEF SenderAt, Filing
  <2>4. ASSUME Alive("rcv") PROVE Leads(cur', want, -1, FileStart(id), 0)
    BY <1>1, <1>2, <2>4, BetweenFiles DEF Leads
  <2>5. Heard("open", cur', pc["rcv"], Coming("snd"))
    <3>1. Heard("nextFile", cur, pc["rcv"], Coming("snd")) /\ Answers("nextFile", cur) = {}
      BY <1>1, WhatAnswers DEF Agree, Backward
    <3>2. QED
      BY <3>1 DEF Heard
  <2>6. ASSUME Alive("rcv")
        PROVE  Together("open", pc["rcv"], Coming("snd"), cur', todo', want)
    BY <1>1, <2>6, BetweenFiles DEF Together, Filing
  <2>7. SenderTrue'
    <3>1. cur' \in Files
      BY <1>2, <1>3
    <3>2. pc'["snd"] = "open" /\ sent' = 0 /\ Size[cur'] \in Nat
      BY <1>1, <2>1, <3>1, GroundFacts, SizesAreNat DEF Proceeds, Core, Side
    <3>3. QED
      BY <3>2 DEF SenderTrue
  <2>8. QED
    BY <1>1, <2>1, <2>2, <2>3, <2>4, <2>5, <2>6, <2>7, SenderSays
<1>6. QED
  BY <1>4, <1>5

\* Going on within a file, the sender hears nothing it could answer.
LEMMA WithinFile ==
  ASSUME NEW l \in Filing, NEW l2 \in Filing, NEW k, NEW Q, NEW c, NEW T, NEW W
  PROVE  /\ Heard(l, c, k, Q) => Heard(l2, c, k, Q)
         /\ Together(l, k, Q, c, T, W) => Together(l2, k, Q, c, T, W)
<1>1. Answers(l, c) = {}
  BY WhatAnswers
<1>2. QED
  BY <1>1 DEF Heard, Together, Greeting, Filing

LEMMA SenderWorksOn ==
  ASSUME Footing, Agree, pc["snd"] \in Filing, UNCHANGED <<rcvVars, cur, todo, sent, wire, inbox>>,
         NEW l \in Filing, Proceeds("snd", l), SenderTrue'
  PROVE  Agree'
<1>1. Alive("snd") /\ l \in SenderLabels /\ Coming("snd")' = Coming("snd")
  BY DEF Alive, Ended, Filing, SenderLabels, Coming
<1>2. SenderPoint(l, Coming("snd")', sent', cur) = SenderAt
  BY SenderPoints DEF SenderAt
<1>3. /\ Heard(l, cur, pc["rcv"], Coming("snd"))
      /\ Alive("rcv") => Together(l, pc["rcv"], Coming("snd"), cur, todo, want)
  BY <1>1, WithinFile DEF Agree, Backward, InTurn
<1>4. QED
  BY <1>1, <1>2, <1>3, SenderMoves

LEMMA OpenFileAgrees ==
  ASSUME Footing, Agree, OpenFile, UNCHANGED rcvVars
  PROVE  Agree'
<1>1. /\ pc["snd"] = "open" /\ "snd" \in Side /\ Alive("snd") /\ Core
      /\ UNCHANGED <<wire, inbox, pending, cur, todo, sent, buf>>
  BY GroundFacts DEF OpenFile, At, NoInput, sndVars, Side, Alive, Ended
<1>2. CASE FailWith("snd", "local")
  BY <1>1, <1>2, FailQuits, SenderQuits DEF Accusations
<1>3. CASE GoTo("snd", "loop")
  <2>1. Proceeds("snd", "loop")
    BY <1>1, <1>3 DEF GoTo, Proceeds
  <2>2. SenderTrue'
    BY <1>1, <2>1 DEF Agree, SenderTrue, Proceeds, Core, Filing, Alive, Ended
  <2>3. QED
    BY <1>1, <2>1, <2>2, SenderWorksOn DEF Filing
<1>4. QED
  BY <1>2, <1>3 DEF OpenFile

LEMMA PollAgrees ==
  ASSUME Footing, Agree, Poll, UNCHANGED rcvVars
  PROVE  Agree'
<1>1. /\ pc["snd"] = "loop" /\ "snd" \in Side /\ Alive("snd") /\ Core
      /\ UNCHANGED <<cur, todo, sent, buf>>
  BY GroundFacts DEF Poll, At, sndVars, Side, Alive, Ended
<1>2. CASE FailWith("snd", "ctx") /\ NoInput /\ UNCHANGED wire
  BY <1>1, <1>2, FailQuits, SenderQuits DEF Accusations, NoInput
<1>3. CASE GoTo("snd", "read") /\ NoInput /\ UNCHANGED wire
  <2>1. Proceeds("snd", "read") /\ UNCHANGED <<wire, inbox>>
    BY <1>3 DEF GoTo, Proceeds, NoInput
  <2>2. SenderTrue'
    BY <1>1, <2>1 DEF Agree, SenderTrue, Proceeds, Core, Filing, Alive, Ended
  <2>3. QED
    BY <1>1, <2>1, <2>2, SenderWorksOn DEF Filing
<1>4. CASE TakeTerminal("snd")
  BY <1>1, <1>4, SenderTerminal, SenderQuits
<1>5. ASSUME HasNext("snd"), NextMsg("snd").t # "cancel" PROVE FALSE
  <2>1. pending["snd"] = <<>>
    BY <1>1 DEF Agree, NoneAccuses
  <2>2. inbox["snd"] # <<>> /\ NextMsg("snd") = Head(inbox["snd"])
    BY <1>5, <2>1 DEF HasNext, NextMsg
  <2>3. Coming("snd") # <<>> /\ Head(Coming("snd")) = NextMsg("snd")
    BY <1>1, <2>2, HeadTailConcat, GroundFacts DEF Coming, Lines
  <2>4. Heard("loop", cur, pc["rcv"], Coming("snd")) /\ Answers("loop", cur) = {}
    BY <1>1, WhatAnswers DEF Agree, Backward, Filing
  <2>5. NextMsg("snd") = Cancel
    BY <2>3, <2>4, HeardHead
  <2>6. QED
    BY <1>5, <2>5 DEF Cancel
<1>6. MidSendCheck /\ HasNext("snd") => TakeTerminal("snd")
  BY <1>5 DEF MidSendCheck, Take
<1>7. QED
  BY <1>2, <1>3, <1>4, <1>6 DEF Poll

LEMMA ReadFileAgrees ==
  ASSUME Footing, Agree, Honest, ReadFile, UNCHANGED rcvVars
  PROVE  Agree'
<1>1. /\ pc["snd"] = "read" /\ "snd" \in Side /\ Alive("snd") /\ Core
      /\ UNCHANGED <<wire, inbox, pending, cur, todo, sent>>
      /\ cur \in Files /\ sent \in Nat /\ Size[cur] \in Nat /\ disk[cur] = Size[cur]
  BY GroundFacts, SizesAreNat DEF ReadFile, At, NoInput, Side, Alive, Ended, Honest
<1>2. sent \in 0..Size[cur]
  BY <1>1 DEF Agree, SenderTrue, Filing
<1>3. CASE \E e \in {"ctx", "local"} : FailWith("snd", e)
  BY <1>1, <1>3, FailQuits, SenderQuits DEF Accusations
<1>4. CASE sent < disk[cur] /\ GoTo("snd", "write") /\
           buf' = IF disk[cur] - sent < ChunkSize THEN disk[cur] - sent ELSE ChunkSize
  <2>1. Proceeds("snd", "write") /\ pc'["snd"] = "write"
    BY <1>1, <1>4 DEF GoTo, Proceeds, Core
  <2>2. buf' \in 1..(Size[cur] - sent)
    BY <1>1, <1>2, <1>4, SenderAssumption
  <2>3. SenderTrue'
    BY <1>1, <1>2, <2>1, <2>2 DEF SenderTrue
  <2>4. QED
    BY <1>1, <2>1, <2>3, SenderWorksOn DEF Filing
<1>5. CASE sent >= disk[cur] /\ GoTo("snd", "fileEnd")
  <2>1. Proceeds("snd", "fileEnd") /\ pc'["snd"] = "fileEnd"
    BY <1>1, <1>5 DEF GoTo, Proceeds, Core
  <2>2. sent = Size[cur]
    BY <1>1, <1>2, <1>5
  <2>3. SenderTrue'
    BY <1>1, <1>2, <2>1, <2>2 DEF SenderTrue
  <2>4. QED
    BY <1>1, <2>1, <2>3, SenderWorksOn DEF Filing
<1>6. ASSUME sent >= disk[cur], sent # Size[cur] PROVE FALSE
  BY <1>1, <1>2, <1>6
<1>7. QED
  BY <1>3, <1>4, <1>5, <1>6 DEF ReadFile

LEMMA WriteChunkAgrees ==
  ASSUME Footing, Agree, WriteChunk, UNCHANGED rcvVars
  PROVE  Agree'
<1>1. /\ pc["snd"] = "write" /\ "snd" \in Side /\ Alive("snd") /\ Core /\ NoInput
      /\ UNCHANGED <<inbox, pending, cur, todo>> /\ "write" \in Filing /\ "loop" \in Filing
      /\ cur \in Files /\ sent \in Nat /\ Size[cur] \in Nat /\ buf \in Nat
  BY GroundFacts, SizesAreNat, SenderAssumption DEF WriteChunk, At, NoInput, Side, Alive, Ended, Filing
<1>2. sent \in 0..Size[cur] /\ buf \in 1..(Size[cur] - sent)
  BY <1>1 DEF Agree, SenderTrue
<1>3. CASE FailWith("snd", "ctx") /\ UNCHANGED wire
  BY <1>1, <1>3, FailQuits, SenderQuits DEF Accusations
<1>4. CASE /\ Control("snd", Chunk(Slice(cur, sent, buf)), "loop") /\ ~CanSend("snd")
  BY <1>1, <1>4, SendFails, SenderQuits
<1>5. CASE /\ Control("snd", Chunk(Slice(cur, sent, buf)), "loop") /\ CanSend("snd")
           /\ sent' = sent + buf
  <2> DEFINE m == Chunk(Slice(cur, sent, buf))
  <2>1. Post("snd", m) /\ Proceeds("snd", "loop") /\ inbox' = inbox
    BY <1>1, <1>5, SendSucceeds
  <2>2. m \in Message /\ "loop" \in SenderLabels
    <3>1. Slice(cur, sent, buf) \in Content
      BY <1>1, SliceTyped, FilesAreInts
    <3>2. QED
      BY <3>1 DEF Chunk, Message, SenderLabels, Filing
  <2>3. SenderAt = sent /\ SenderPoint("loop", Coming("snd"), sent', cur') = sent + buf
    BY <1>1, <1>5, SenderPoints DEF SenderAt
  <2>4. Leads(cur, want, sent, m, sent + buf)
    <3>1. sent + buf \in sent+1..Size[cur] /\ (sent + buf) - sent = buf
      BY <1>1, <1>2
    <3>2. QED
      BY <1>2, <3>1 DEF Leads
  <2>5. /\ Heard("loop", cur, pc["rcv"], Coming("snd"))
        /\ Alive("rcv") => Together("loop", pc["rcv"], Coming("snd"), cur, todo, want)
    BY <1>1, WithinFile DEF Agree, Backward, InTurn
  <2>6. SenderTrue'
    <3>1. pc'["snd"] = "loop" /\ sent' \in 0..Size[cur]
      BY <1>1, <1>2, <1>5, <2>1 DEF Proceeds, Core
    <3>2. QED
      BY <1>1, <3>1 DEF SenderTrue
  <2>7. sent + buf \in Int /\ sent < sent + buf
    BY <1>1, <1>2
  <2>8. QED
    BY <1>1, <2>1, <2>2, <2>3, <2>4, <2>5, <2>6, <2>7, SenderSays
<1>6. QED
  BY <1>3, <1>4, <1>5 DEF WriteChunk

LEMMA EndFileAgrees ==
  ASSUME Footing, Agree, EndFile, UNCHANGED rcvVars
  PROVE  Agree'
<1> DEFINE m == FileEnd(cur, FileData(cur, sent))
<1>1. /\ pc["snd"] = "fileEnd" /\ "snd" \in Side /\ Alive("snd") /\ NoInput
      /\ Control("snd", m, "waitAck") /\ "fileEnd" \in Filing
      /\ UNCHANGED <<cur, todo, sent>> /\ cur \in Files /\ Size[cur] \in Nat
  BY GroundFacts, SizesAreNat DEF EndFile, At, sndVars, Side, Alive, Ended, Filing
<1>2. sent = Size[cur]
  BY <1>1 DEF Agree, SenderTrue
<1>3. CASE ~CanSend("snd")
  BY <1>1, <1>3, SendFails, SenderQuits
<1>4. CASE CanSend("snd")
  <2>1. Post("snd", m) /\ Proceeds("snd", "waitAck") /\ inbox' = inbox
    BY <1>1, <1>4, SendSucceeds
  <2>2. m \in Message /\ "waitAck" \in SenderLabels
    <3>1. FileData(cur, sent) \in Content /\ cur \in Int
      BY <1>1, <1>2, FileDataTyped, FilesAreInts
    <3>2. QED
      BY <3>1 DEF FileEnd, Message, SenderLabels
  <2>3. Heard("fileEnd", cur, pc["rcv"], Coming("snd")) /\ Answers("fileEnd", cur) = {}
    BY <1>1, WhatAnswers DEF Agree, Backward
  <2>4. Coming("snd") = <<>> \/ (pc["rcv"] \in {"returned", "closed"} /\ Coming("snd") = <<Cancel>>)
    BY <2>3 DEF Heard
  <2>5. /\ SenderAt = Size[cur]
        /\ Coming("snd") = <<>> => SenderPoint("waitAck", Coming("snd"), sent', cur') = Size[cur] + 1
    BY <1>1, <1>2, SenderPoints DEF SenderAt
  <2>6. Heard("waitAck", cur, pc["rcv"], Coming("snd"))
    BY <2>4, RestHeard
  <2>7. SenderTrue'
    BY <2>1, GroundFacts DEF SenderTrue, Proceeds, Core, Side, Filing
  <2>8. CASE Coming("snd") = <<>>
    <3>1. Leads(cur, want, Size[cur], m, Size[cur] + 1)
      BY <1>2 DEF Leads
    <3>2. ASSUME Alive("rcv")
          PROVE  Together("waitAck", pc["rcv"], Coming("snd"), cur, todo, want)
      <4>1. Together("fileEnd", pc["rcv"], Coming("snd"), cur, todo, want)
        BY <1>1, <3>2 DEF Agree, InTurn
      <4>2. QED
        BY <2>8, <4>1 DEF Together, Greeting, Filing
    <3>3. Size[cur] + 1 \in Int /\ Size[cur] < Size[cur] + 1
      BY <1>1
    <3>4. QED
      BY <1>1, <2>1, <2>2, <2>5, <2>6, <2>7, <2>8, <3>1, <3>2, <3>3, SenderSays
  <2>9. CASE Coming("snd") # <<>>
    <3>1. ~Alive("rcv") /\ ~Alive("rcv")'
      BY <1>1, <2>1, <2>4, <2>9, GroundFacts DEF Alive, Ended, Proceeds, Core, Side
    <3>2. InPlace' /\ NoneAccuses' /\ Forward' /\ InTurn' /\ ReceiverTrue'
      BY <1>1, <2>1, <2>2, <3>1, GroundFacts
         DEF Agree, InPlace, NoneAccuses, Forward, InTurn, ReceiverTrue, Proceeds, Core
    <3>3. Backward'
      <4>1. Coming("snd")' = Coming("snd")
        <5>1. wire \in [Side -> Seq(Message)] /\ wire' = [wire EXCEPT !["rcv"] = Append(@, m)]
          BY <2>1, GroundFacts DEF Post, Peer, Lines
        <5>2. wire'["snd"] = wire["snd"]
          BY <5>1
        <5>3. QED
          BY <2>1, <5>2 DEF Coming
      <4>2. pc'["snd"] = "waitAck" /\ pc'["rcv"] = pc["rcv"]
        BY <1>1, <2>1, GroundFacts DEF Proceeds, Core, Side
      <4>3. QED
        BY <1>1, <2>6, <4>1, <4>2 DEF Backward
    <3>4. QED
      BY <2>7, <3>2, <3>3 DEF Agree
  <2>10. QED
    BY <2>8, <2>9
<1>5. QED
  BY <1>3, <1>4

LEMMA SenderIsAcked ==
  ASSUME Footing, Agree, WaitAck, UNCHANGED rcvVars
  PROVE  Agree'
<1>1. /\ pc["snd"] = "waitAck" /\ "snd" \in Side /\ Alive("snd") /\ Core
      /\ UNCHANGED <<cur, sent>>
  BY GroundFacts DEF WaitAck, At, Side, Alive, Ended
<1>2. CASE WaitOther("snd", {"file-ack"})
  BY <1>1, <1>2, SenderWaits, AnswersTyped, SenderQuits
<1>3. CASE TakeAck
  <2>1. Consume("snd") /\ NextMsg("snd").t = "file-ack"
    BY <1>3 DEF TakeAck, Take
  <2>2. wire'["snd"] = wire["snd"]
    BY <1>1, <1>3, SaysToPeer DEF TakeAck
  <2>3. /\ NextMsg("snd") \in Answers("waitAck", cur) \/ NextMsg("snd") = Cancel
        /\ NextMsg("snd") = Head(Coming("snd"))
    BY <1>1, <2>1, <2>2, SenderHears
  <2>4. NextMsg("snd") = FileAck(cur, "ok")
    BY <2>1, <2>3, WhatAnswers DEF Cancel
  <2>5. NextMsg("snd").id = cur /\ NextMsg("snd").status = "ok"
    BY <2>4 DEF FileAck
  <2>6. todo' = todo \ {cur} /\ GoTo("snd", "nextFile") /\ wire' = wire
    BY <1>3, <2>5 DEF TakeAck
  <2>7. /\ Coming("snd") # <<>> /\ pending' = pending /\ inbox'["rcv"] = inbox["rcv"]
        /\ \/ Coming("snd")' = <<>>
           \/ pc["rcv"] \in {"returned", "closed"} /\ Coming("snd")' = <<Cancel>>
    BY <1>1, <2>1, <2>2, SenderHears
  <2>8. Proceeds("snd", "nextFile") /\ "nextFile" \in SenderLabels
    BY <2>6, <2>7 DEF GoTo, Proceeds, Peer, SenderLabels
  <2>9. SenderPoint("nextFile", Coming("snd")', sent', cur) = SenderAt
    BY <1>1, <2>7, SenderPoints DEF SenderAt
  <2>10. Heard("nextFile", cur, pc["rcv"], Coming("snd")')
    BY <2>7, RestHeard
  <2>11. ASSUME Alive("rcv")
         PROVE  Together("nextFile", pc["rcv"], Coming("snd")', cur, todo', want)
    <3>1. Coming("snd")' = <<>>
      BY <2>7, <2>11 DEF Alive, Ended
    <3>2. Together("waitAck", pc["rcv"], Coming("snd"), cur, todo, want)
      BY <1>1, <2>11 DEF Agree, InTurn
    <3>3. pc["rcv"] \in ReceiverLabels
      BY <2>11, RunningLabels
    <3>4. want = todo' /\ pc["rcv"] \in {"waitStart", "waitDone"}
      BY <2>6, <2>7, <3>2, <3>3 DEF Together, ReceiverLabels, Greeting, Filing
    <3>5. QED
      BY <3>1, <3>4 DEF Together
  <2>12. SenderTrue'
    BY <2>8, GroundFacts DEF SenderTrue, Proceeds, Core, Side, Filing
  <2>13. QED
    BY <1>1, <2>6, <2>8, <2>9, <2>10, <2>11, <2>12, SenderMoves
<1>4. QED
  BY <1>2, <1>3 DEF WaitAck

\* The sender's call is over, whatever it has said last.
LEMMA SenderLeaves ==
  ASSUME Footing, Agree, UNCHANGED <<rcvVars, cur>>,
         NEW l \in {"returned", "closed"}, pc' = [pc EXCEPT !["snd"] = l],
         err'["rcv"] = err["rcv"], err'["snd"] \notin Accusations, pending' = pending,
         Alive("rcv") => \E q \in Int : Runs(cur, want, ReceiverAt, q, Coming("rcv")')
  PROVE  Agree'
<1>1. /\ pc'["snd"] = l /\ pc'["rcv"] = pc["rcv"]
      /\ ~Alive("snd")' /\ Alive("rcv")' = Alive("rcv")
  BY GroundFacts DEF Core, Alive, Ended, Side
<1>2. InPlace' /\ NoneAccuses'
  BY <1>1 DEF Agree, InPlace, NoneAccuses, Side, Ended
<1>3. ReceiverAt' = ReceiverAt /\ want' = want
  BY <1>1 DEF rcvVars, ReceiverAt
<1>4. Forward' /\ Backward' /\ InTurn' /\ SenderTrue'
  BY <1>1, <1>3 DEF Forward, Backward, InTurn, SenderTrue
<1>5. ReceiverTrue'
  BY <1>1 DEF Agree, ReceiverTrue, rcvVars
<1>6. QED
  BY <1>2, <1>4, <1>5 DEF Agree

LEMMA SenderClosing ==
  ASSUME Footing, Agree, UNCHANGED <<sndVars, rcvVars>>, Abort("snd") \/ CloseConn("snd")
  PROVE  Agree'
<1>1. ~Alive("snd") /\ err' = err /\ inbox' = inbox /\ pending' = pending /\ cur' = cur
  BY DEF Abort, CloseConn, At, Alive, Ended, GoTo, NoInput, sndVars
<1>2. \E l \in {"returned", "closed"} : pc' = [pc EXCEPT !["snd"] = l]
  BY DEF Abort, CloseConn, GoTo
<1>3. ASSUME Alive("rcv") PROVE \E q \in Int : Runs(cur, want, ReceiverAt, q, Coming("rcv")')
  <2>1. PICK q \in Int : /\ Runs(cur, want, ReceiverAt, q, Coming("rcv"))
                         /\ pc["snd"] = "failed" => q < Over
    BY <1>3 DEF Agree, Forward
  <2>2. CASE wire' = wire
    <3>1. Coming("rcv")' = Coming("rcv")
      BY <1>1, <2>2 DEF Coming
    <3>2. QED
      BY <2>1, <3>1
  <2>3. CASE Post("snd", Cancel) /\ pc["snd"] = "failed"
    <3>1. Coming("rcv")' = Append(Coming("rcv"), Cancel)
      BY <1>1, <2>3, ComingPosted, GroundFacts, CancelTyped DEF Side, Peer
    <3>2. Leads(cur, want, q, Cancel, Over) /\ q < Over
      BY <2>1, <2>3 DEF Leads
    <3>3. Runs(cur, want, ReceiverAt, Over, Append(Coming("rcv"), Cancel))
      BY <1>3, <2>1, <3>2, RunsAppend, GroundFacts, CancelTyped, OverLast
    <3>4. QED
      BY <3>1, <3>3, OverLast
  <2>4. QED
    BY <2>2, <2>3 DEF Abort, CloseConn, At
<1>4. err["rcv"] \notin Accusations /\ err["snd"] \notin Accusations
  BY DEF Agree, NoneAccuses, Side
<1>5. QED
  BY <1>1, <1>2, <1>3, <1>4, SenderLeaves

LEMMA SendDoneAgrees ==
  ASSUME Footing, Agree, SendDone, UNCHANGED rcvVars
  PROVE  Agree'
<1>1. /\ pc["snd"] = "nextFile" /\ "snd" \in Side /\ Alive("snd") /\ Core /\ todo = {}
      /\ UNCHANGED <<cur, inbox, pending>>
  BY GroundFacts DEF SendDone, At, sndVars, NoInput, Side, Alive, Ended
<1>2. CASE FailWith("snd", "send") /\ UNCHANGED wire
  BY <1>1, <1>2, FailQuits, SenderQuits DEF Accusations
<1>3. CASE Post("snd", Done) /\ Succeed("snd")
  <2>1. pc' = [pc EXCEPT !["snd"] = "returned"] /\ err' = [err EXCEPT !["snd"] = "nil"]
    BY <1>3 DEF Succeed
  <2>2. err'["rcv"] = err["rcv"] /\ err'["snd"] \notin Accusations
    BY <1>1, <2>1 DEF Core, Side, Accusations
  <2>3. ASSUME Alive("rcv") PROVE \E q \in Int : Runs(cur, want, ReceiverAt, q, Coming("rcv")')
    <3>1. Done \in Message
      BY DEF Done, Message
    <3>2. ReceiverAt = -1 /\ Coming("rcv") = <<>> /\ want = {}
      BY <1>1, <2>3, BetweenFiles
    <3>3. Coming("rcv")' = Append(<<>>, Done)
      BY <1>1, <1>3, <3>1, <3>2, ComingPosted, GroundFacts DEF Side, Peer
    <3>4. PICK p \in Int : p = -1
      OBVIOUS
    <3>5. Leads(cur, want, p, Done, Over)
      BY <3>2, <3>4 DEF Leads
    <3>6. Runs(cur, want, p, p, <<>>)
      BY RunsEmpty
    <3>7. p < Over /\ <<>> \in Seq(Message) /\ Over \in Int
      <4>1. cur \in Files
        BY GroundFacts
      <4>2. QED
        BY <3>4, <4>1, OverLast, EmptySeq
    <3>8. Runs(cur, want, p, Over, Append(<<>>, Done))
      BY <3>1, <3>5, <3>6, <3>7, RunsAppend
    <3>9. QED
      BY <3>2, <3>3, <3>4, <3>7, <3>8
  <2>4. QED
    BY <1>1, <2>1, <2>2, <2>3, SenderLeaves
<1>4. QED
  BY <1>2, <1>3 DEF SendDone

LEMMA SenderAgrees ==
  ASSUME Footing, Agree, Honest, SenderStep
  PROVE  Agree'
<1>1. UNCHANGED rcvVars
  BY DEF SenderStep
<1>2. CASE BothSides("snd") /\ UNCHANGED sndVars
  BY <1>1, <1>2, SenderBegins, SenderGreets, SenderIsGreeted, SenderClosing DEF BothSides
<1>3. QED
  BY <1>1, <1>2, SendManifestAgrees, SenderIsAnswered, StartFileAgrees, OpenFileAgrees,
     PollAgrees, ReadFileAgrees, WriteChunkAgrees, EndFileAgrees, SenderIsAcked,
     SendDoneAgrees DEF SenderStep, SenderNext

-----------------------------------------------------------------------------
(* The steps of the receiver.                                              *)

LEMMA LeadsTyped ==
  ASSUME NEW c \in Files, NEW W, NEW p \in Int, NEW m, NEW r \in Int, Leads(c, W, p, m, r)
  PROVE  /\ m.t \notin {"error", "unknown", "malformed"}
         /\ m.t = "cancel" <=> m = Cancel
BY DEF Leads, Cancel, Hello, Manifest, FileStart, Done, Chunk, FileEnd

\* What the receiver takes leads on from where it stands, and what is left
\* leads on to where the sender stands.
LEMMA ReceiverHears ==
  ASSUME Footing, Agree, Alive("rcv"), Consume("rcv"), wire'["rcv"] = wire["rcv"]
  PROVE  /\ pending' = pending /\ inbox'["snd"] = inbox["snd"]
         /\ NextMsg("rcv") \in Message /\ Coming("rcv")' \in Seq(Message)
         /\ \E r, q \in Int : /\ Leads(cur, want, ReceiverAt, NextMsg("rcv"), r)
                              /\ Runs(cur, want, r, q, Coming("rcv")')
                              /\ Alive("snd") => q = SenderAt
                              /\ pc["snd"] = "failed" => q < Over
<1>1. "rcv" \in Side /\ Peer("rcv") = "snd" /\ Lines /\ pending["rcv"] = <<>>
  BY GroundFacts DEF Side, Peer, Agree, NoneAccuses
<1>2. /\ Coming("rcv") # <<>> /\ Coming("rcv")' = Tail(Coming("rcv"))
      /\ NextMsg("rcv") = Head(Coming("rcv"))
      /\ pending' = pending /\ inbox'["snd"] = inbox["snd"]
  BY <1>1, ComingConsumed
<1>3. PICK q \in Int : /\ Runs(cur, want, ReceiverAt, q, Coming("rcv"))
                       /\ Alive("snd") => q = SenderAt
                       /\ pc["snd"] = "failed" => q < Over
  BY DEF Agree, Forward
<1>4. /\ Head(Coming("rcv")) \in Message /\ Tail(Coming("rcv")) \in Seq(Message)
      /\ \E r \in Int : /\ Leads(cur, want, ReceiverAt, Head(Coming("rcv")), r)
                        /\ Runs(cur, want, r, q, Tail(Coming("rcv")))
  BY <1>2, <1>3, RunsHead, GroundFacts
<1>5. QED
  BY <1>2, <1>3, <1>4

\* The receiver's call is over.
LEMMA ReceiverLeaves ==
  ASSUME Footing, Agree, UNCHANGED sndVars,
         NEW l \in Ended, pc' = [pc EXCEPT !["rcv"] = l],
         err'["snd"] = err["snd"], err'["rcv"] \notin Accusations, pending' = pending,
         Alive("snd") => Heard(pc["snd"], cur, l, Coming("snd")')
  PROVE  Agree'
<1>1. /\ pc'["rcv"] = l /\ pc'["snd"] = pc["snd"]
      /\ ~Alive("rcv")' /\ Alive("snd")' = Alive("snd")
  BY GroundFacts DEF Core, Alive, Side
<1>2. InPlace' /\ NoneAccuses'
  BY <1>1 DEF Agree, InPlace, NoneAccuses, Side
<1>3. Forward' /\ InTurn' /\ ReceiverTrue'
  BY <1>1 DEF Forward, InTurn, ReceiverTrue
<1>4. Backward' /\ SenderTrue'
  BY <1>1 DEF Agree, Backward, SenderTrue, sndVars
<1>5. QED
  BY <1>2, <1>3, <1>4 DEF Agree

LEMMA ReceiverQuits ==
  ASSUME Footing, Agree, Alive("rcv"), Quits("rcv"), UNCHANGED sndVars
  PROVE  Agree'
<1>1. Coming("snd")' = Coming("snd") /\ "failed" \in Ended
  BY DEF Quits, Peer, Coming, Ended
<1>2. ASSUME Alive("snd") PROVE Heard(pc["snd"], cur, "failed", Coming("snd"))
  BY <1>2, HeardOn DEF Agree, Backward, Alive, Ended
<1>3. QED
  BY <1>1, <1>2, ReceiverLeaves DEF Quits, Peer

\* The receiver goes on to label l.
LEMMA ReceiverMoves ==
  ASSUME Footing, Agree, Alive("rcv"), UNCHANGED sndVars,
         NEW l \in ReceiverLabels,
         pc' = [pc EXCEPT !["rcv"] = l], err' = err, pending' = pending,
         \E q \in Int :
           /\ Runs(cur, want', ReceiverPoint(l, Len(dir'[dest'])), q, Coming("rcv")')
           /\ Alive("snd") => q = SenderPoint(pc["snd"], Coming("snd")', sent, cur)
           /\ pc["snd"] = "failed" => q < Over,
         Alive("snd") => /\ Heard(pc["snd"], cur, l, Coming("snd")')
                         /\ Together(pc["snd"], l, Coming("snd")', cur, todo, want'),
         ReceiverTrue'
  PROVE  Agree'
<1>1. /\ pc'["rcv"] = l /\ pc'["snd"] = pc["snd"]
      /\ Alive("snd")' = Alive("snd") /\ UNCHANGED <<cur, sent, todo, buf>>
  BY GroundFacts DEF Core, Alive, Side, sndVars
<1>2. InPlace' /\ NoneAccuses'
  BY <1>1 DEF Agree, InPlace, NoneAccuses, Side
<1>3. /\ ReceiverAt' = ReceiverPoint(l, Len(dir'[dest']))
      /\ SenderAt' = SenderPoint(pc["snd"], Coming("snd")', sent, cur)
  BY <1>1 DEF ReceiverAt, SenderAt
<1>4. Forward'
  BY <1>1, <1>3 DEF Forward
<1>5. Backward' /\ InTurn' /\ SenderTrue'
  BY <1>1 DEF Agree, Backward, InTurn, SenderTrue
<1>6. QED
  BY <1>2, <1>4, <1>5 DEF Agree

\* What is coming to the sender when the receiver says nothing: it stands
\* where it stood.
LEMMA SenderUndisturbed ==
  ASSUME Footing, Agree, Alive("rcv"), wire'["snd"] = wire["snd"], inbox'["snd"] = inbox["snd"]
  PROVE  /\ Coming("snd")' = Coming("snd")
         /\ SenderPoint(pc["snd"], Coming("snd")', sent, cur) = SenderAt
         /\ Alive("snd") => \A l : Heard(pc["snd"], cur, l, Coming("snd")')
<1>1. Coming("snd")' = Coming("snd")
  BY DEF Coming
<1>2. ASSUME Alive("snd"), NEW l PROVE Heard(pc["snd"], cur, l, Coming("snd"))
  BY <1>2, HeardOn DEF Agree, Backward, Alive, Ended
<1>3. QED
  BY <1>1, <1>2 DEF SenderAt

LEMMA ReceiverTerminal ==
  ASSUME Footing, Agree, Alive("rcv"), TakeTerminal("rcv")
  PROVE  Quits("rcv")
<1>1. /\ Consume("rcv") /\ wire' = wire /\ NextMsg("rcv").t \in {"cancel", "error"}
      /\ FailWith("rcv", IF NextMsg("rcv").t = "cancel" THEN "peer-cancel" ELSE "peer-error")
  BY DEF TakeTerminal, Take
<1>2. /\ pending' = pending /\ inbox'["snd"] = inbox["snd"]
      /\ \E r \in Int : Leads(cur, want, ReceiverAt, NextMsg("rcv"), r)
  BY <1>1, ReceiverHears
<1>3. NextMsg("rcv").t = "cancel"
  BY <1>1, <1>2, LeadsTyped, GroundFacts
<1>4. FailWith("rcv", "peer-cancel") /\ "peer-cancel" \notin Accusations
  BY <1>1, <1>3 DEF Accusations
<1>5. "rcv" \in Side /\ Peer("rcv") = "snd" /\ Core
  BY GroundFacts DEF Side, Peer
<1>6. QED
  BY <1>1, <1>2, <1>4, <1>5, FailQuits

LEMMA ReceiverWaits ==
  ASSUME Footing, Agree, Alive("rcv"), NEW expected, WaitOther("rcv", expected),
         \A m \in Message, r \in Int :
           Leads(cur, want, ReceiverAt, m, r) => m = Cancel \/ m.t \in expected
  PROVE  Quits("rcv")
<1>1. "rcv" \in Side /\ Core /\ cur \in Files /\ ReceiverAt \in Int
  BY GroundFacts DEF Side
<1>2. CASE WaitFails("rcv")
  BY <1>1, <1>2, WaitFailsQuits
<1>3. CASE TakeTerminal("rcv")
  BY <1>3, ReceiverTerminal
<1>4. ASSUME TakeUnknown("rcv") PROVE FALSE
  <2>1. Consume("rcv") /\ wire' = wire /\ NextMsg("rcv").t = "unknown"
    BY <1>4 DEF TakeUnknown, Take
  <2>2. \E r \in Int : Leads(cur, want, ReceiverAt, NextMsg("rcv"), r)
    BY <2>1, ReceiverHears
  <2>3. QED
    BY <1>1, <2>1, <2>2, LeadsTyped
<1>5. ASSUME TakeUnexpected("rcv", expected) PROVE FALSE
  <2>1. /\ Consume("rcv") /\ NextMsg("rcv").t \notin expected \cup {"cancel", "error", "unknown"}
        /\ wire'["rcv"] = wire["rcv"]
    BY <1>1, <1>5, SaysToPeer DEF TakeUnexpected
  <2>2. NextMsg("rcv") \in Message /\ \E r \in Int : Leads(cur, want, ReceiverAt, NextMsg("rcv"), r)
    BY <2>1, ReceiverHears
  <2>3. QED
    BY <2>1, <2>2 DEF Cancel
<1>6. QED
  BY <1>2, <1>3, <1>4, <1>5 DEF WaitOther

LEMMA FirstAnswer == \A m : Append(<<>>, m) = <<m>>
OBVIOUS

\* The receiver answers.
LEMMA ReceiverSays ==
  ASSUME Footing, NEW m \in Message, Post("rcv", m), inbox'["snd"] = inbox["snd"]
  PROVE  Coming("snd")' = Append(Coming("snd"), m) /\ wire'["rcv"] = wire["rcv"]
<1>1. "rcv" \in Side /\ Peer("rcv") = "snd" /\ Lines
  BY GroundFacts DEF Side, Peer
<1>2. QED
  BY <1>1, ComingPosted

\* A sender that stands where the receiver has the turn waits for it.
LEMMA SenderWaitsHere ==
  ASSUME Footing, Agree, Alive("snd")
  PROVE  /\ SenderAt = -2 => pc["snd"] = "waitReply" /\ Coming("snd") = <<>>
         /\ SenderAt = Size[cur] + 1 => pc["snd"] = "waitAck" /\ Coming("snd") = <<>>
         /\ SenderAt >= 0 => \/ pc["snd"] \in Filing
                             \/ pc["snd"] = "waitAck" /\ Coming("snd") = <<>>
<1>1. pc["snd"] \in SenderLabels /\ cur \in Files /\ sent \in Nat
  BY RunningLabels, GroundFacts
<1>2. Size[cur] \in Nat /\ (pc["snd"] \in Filing => sent <= Size[cur])
  BY <1>1, OverLast DEF Agree, SenderTrue
<1>3. CASE pc["snd"] \in Filing
  <2>1. SenderAt = sent
    BY <1>3, SenderPoints DEF SenderAt
  <2>2. QED
    BY <1>1, <1>2, <1>3, <2>1
<1>4. CASE pc["snd"] = "waitReply"
  <2>1. SenderAt = IF Coming("snd") = <<>> THEN -2 ELSE -1
    BY <1>4, SenderPoints DEF SenderAt
  <2>2. QED
    BY <1>2, <1>4, <2>1
<1>5. CASE pc["snd"] = "waitAck"
  <2>1. SenderAt = IF Coming("snd") = <<>> THEN Size[cur] + 1 ELSE -1
    BY <1>5, SenderPoints DEF SenderAt
  <2>2. QED
    BY <1>2, <1>5, <2>1
<1>6. CASE pc["snd"] \in Greeting \cup {"manifest", "nextFile"}
  <2>1. SenderAt \in {-4, -3, -1}
    BY <1>6, SenderPoints DEF SenderAt, Greeting
  <2>2. QED
    BY <1>2, <2>1
<1>7. QED
  BY <1>1, <1>3, <1>4, <1>5, <1>6 DEF SenderLabels

LEMMA ReceiverBegins ==
  ASSUME Footing, Agree, NewSession("rcv"), UNCHANGED <<sndVars, rcvVars>>
  PROVE  Agree'
<1>1. /\ pc["rcv"] = "init" /\ pc' = [pc EXCEPT !["rcv"] = "hello"] /\ err' = err
      /\ UNCHANGED <<wire, inbox, pending, want, sndVars>>
      /\ Coming("rcv")' = Coming("rcv")
  BY DEF NewSession, At, GoTo, NoInput, Coming, rcvVars
<1>2. /\ Alive("rcv") /\ "hello" \in ReceiverLabels
      /\ "init" \in Greeting /\ "hello" \in Greeting
  BY <1>1 DEF Alive, Ended, ReceiverLabels, Greeting
<1>3. ReceiverAt = -4 /\ ReceiverPoint("hello", Len(dir'[dest'])) = -4
  BY <1>1, <1>2, ReceiverPoints DEF ReceiverAt
<1>4. /\ Coming("snd")' = Coming("snd")
      /\ SenderPoint(pc["snd"], Coming("snd")', sent, cur) = SenderAt
      /\ Alive("snd") => Heard(pc["snd"], cur, "hello", Coming("snd")')
  BY <1>1, <1>2, SenderUndisturbed
<1>5. Alive("snd") => Together(pc["snd"], "hello", Coming("snd"), cur, todo, want)
  BY <1>1, <1>2 DEF Agree, InTurn, Together
<1>6. \E q \in Int :
        /\ Runs(cur, want', ReceiverPoint("hello", Len(dir'[dest'])), q, Coming("rcv")')
        /\ Alive("snd") => q = SenderPoint(pc["snd"], Coming("snd")', sent, cur)
        /\ pc["snd"] = "failed" => q < Over
  BY <1>1, <1>2, <1>3, <1>4 DEF Agree, Forward
<1>7. ReceiverTrue'
  BY <1>1, GroundFacts DEF ReceiverTrue, Core, Side
<1>8. QED
  BY <1>1, <1>2, <1>4, <1>5, <1>6, <1>7, ReceiverMoves

LEMMA ReceiverGreets ==
  ASSUME Footing, Agree, SendHello("rcv"), UNCHANGED <<sndVars, rcvVars>>
  PROVE  Agree'
<1>1. /\ pc["rcv"] = "hello" /\ Control("rcv", Hello(Version), "waitHello") /\ NoInput
      /\ UNCHANGED <<want, sndVars>> /\ "rcv" \in Side /\ Alive("rcv")
  BY DEF SendHello, At, rcvVars, Side, Alive, Ended
<1>2. CASE ~CanSend("rcv")
  BY <1>1, <1>2, SendFails, ReceiverQuits
<1>3. CASE CanSend("rcv")
  <2>1. Post("rcv", Hello(Version)) /\ Proceeds("rcv", "waitHello") /\ inbox' = inbox
    BY <1>1, <1>3, SendSucceeds
  <2>2. /\ Hello(Version) \in Message
        /\ "waitHello" \in ReceiverLabels /\ "hello" \in Greeting /\ "waitHello" \in Greeting
    BY DEF Hello, Version, Message, ReceiverLabels, Greeting
  <2>3. Coming("snd")' = Append(Coming("snd"), Hello(Version)) /\ wire'["rcv"] = wire["rcv"]
    BY <2>1, <2>2, ReceiverSays
  <2>4. Coming("rcv")' = Coming("rcv")
    BY <2>1, <2>3 DEF Coming
  <2>5. ReceiverAt = -4 /\ ReceiverPoint("waitHello", Len(dir'[dest'])) = -4
    BY <1>1, <2>2, ReceiverPoints DEF ReceiverAt
  <2>6. ASSUME Alive("snd")
        PROVE  /\ pc["snd"] \in Greeting /\ Coming("snd")' = <<Hello(Version)>>
               /\ SenderPoint(pc["snd"], Coming("snd")', sent, cur) = SenderAt
               /\ Heard(pc["snd"], cur, "waitHello", Coming("snd")')
               /\ Together(pc["snd"], "waitHello", Coming("snd")', cur, todo, want)
    <3>1. pc["snd"] \in Greeting /\ Coming("snd") = <<>>
      BY <1>1, <2>6 DEF Agree, InTurn, Together
    <3>2. Coming("snd")' = <<Hello(Version)>>
      BY <2>3, <3>1, FirstAnswer
    <3>3. SenderPoint(pc["snd"], Coming("snd")', sent, cur) = SenderAt
      BY <3>1 DEF SenderAt, SenderPoint, Greeting
    <3>4. Heard(pc["snd"], cur, "waitHello", Coming("snd")')
      BY <3>1, <3>2, WhatAnswers DEF Heard
    <3>5. Together(pc["snd"], "waitHello", Coming("snd")', cur, todo, want)
      BY <3>1, <3>2 DEF Together
    <3>6. QED
      BY <3>1, <3>2, <3>3, <3>4, <3>5
  <2>7. \E q \in Int :
          /\ Runs(cur, want', ReceiverPoint("waitHello", Len(dir'[dest'])), q, Coming("rcv")')
          /\ Alive("snd") => q = SenderPoint(pc["snd"], Coming("snd")', sent, cur)
          /\ pc["snd"] = "failed" => q < Over
    BY <1>1, <2>4, <2>5, <2>6 DEF Agree, Forward
  <2>8. ReceiverTrue'
    BY <2>1, GroundFacts DEF ReceiverTrue, Proceeds, Core, Side
  <2>9. QED
    BY <1>1, <2>1, <2>2, <2>6, <2>7, <2>8, ReceiverMoves DEF Proceeds
<1>4. QED
  BY <1>2, <1>3

LEMMA ReceiverIsGreeted ==
  ASSUME Footing, Agree, WaitHello("rcv"), UNCHANGED <<sndVars, rcvVars>>
  PROVE  Agree'
<1>1. /\ pc["rcv"] = "waitHello" /\ "rcv" \in Side /\ Alive("rcv") /\ Core
      /\ "waitHello" \in Greeting /\ UNCHANGED <<want, sndVars>> /\ cur \in Files
  BY GroundFacts DEF WaitHello, At, Side, Alive, Ended, Greeting, rcvVars
<1>2. ReceiverAt = -4
  BY <1>1, ReceiverPoints DEF ReceiverAt
<1>3. ASSUME NEW m, NEW r \in Int, Leads(cur, want, ReceiverAt, m, r)
      PROVE  m = Cancel \/ (m = Hello(Version) /\ r = -3)
  <2>1. PICK p \in Int : p = -4 /\ p = ReceiverAt
    BY <1>2
  <2>2. QED
    BY <1>1, <1>3, <2>1, LeadsAway
<1>4. CASE WaitFails("rcv")
  BY <1>1, <1>4, WaitFailsQuits, ReceiverQuits
<1>5. CASE TakeTerminal("rcv")
  BY <1>1, <1>5, ReceiverTerminal, ReceiverQuits
<1>6. ASSUME TakeNotHello("rcv") PROVE FALSE
  <2>1. /\ Consume("rcv") /\ NextMsg("rcv").t \notin {"hello", "cancel", "error"}
        /\ wire'["rcv"] = wire["rcv"]
    BY <1>1, <1>6, SaysToPeer DEF TakeNotHello
  <2>2. \E r \in Int : Leads(cur, want, ReceiverAt, NextMsg("rcv"), r)
    BY <1>1, <2>1, ReceiverHears
  <2>3. QED
    BY <1>3, <2>1, <2>2 DEF Cancel, Hello
<1>7. CASE TakeHello("rcv")
  <2>1. Consume("rcv") /\ NextMsg("rcv").t = "hello"
    BY <1>7 DEF TakeHello, Take
  <2>2. wire'["rcv"] = wire["rcv"]
    BY <1>7, GroundFacts, PeerSide DEF TakeHello, LastWord, Post, Lines, Side
  <2>3. /\ pending' = pending /\ inbox'["snd"] = inbox["snd"]
        /\ \E r, q \in Int : /\ Leads(cur, want, ReceiverAt, NextMsg("rcv"), r)
                             /\ Runs(cur, want, r, q, Coming("rcv")')
                             /\ Alive("snd") => q = SenderAt
                             /\ pc["snd"] = "failed" => q < Over
    BY <1>1, <2>1, <2>2, ReceiverHears
  <2>4. PICK r \in Int, q \in Int :
          /\ Leads(cur, want, ReceiverAt, NextMsg("rcv"), r)
          /\ Runs(cur, want, r, q, Coming("rcv")')
          /\ Alive("snd") => q = SenderAt
          /\ pc["snd"] = "failed" => q < Over
    BY <2>3
  <2>5. NextMsg("rcv") = Hello(Version) /\ r = -3
    BY <1>3, <2>1, <2>4 DEF Cancel
  <2>6. GoTo("rcv", "waitManifest") /\ wire' = wire
    BY <1>7, <2>5 DEF TakeHello, AfterHello, Hello
  <2>7. pc' = [pc EXCEPT !["rcv"] = "waitManifest"] /\ err' = err
    BY <2>6 DEF GoTo
  <2>8. /\ Coming("snd")' = Coming("snd")
        /\ SenderPoint(pc["snd"], Coming("snd")', sent, cur) = SenderAt
        /\ Alive("snd") => Heard(pc["snd"], cur, "waitManifest", Coming("snd")')
    BY <1>1, <2>3, <2>6, SenderUndisturbed
  <2>9. Alive("snd") => Together(pc["snd"], "waitManifest", Coming("snd"), cur, todo, want)
    BY <1>1 DEF Agree, InTurn, Together
  <2>10. \E q2 \in Int :
          /\ Runs(cur, want', ReceiverPoint("waitManifest", Len(dir'[dest'])), q2, Coming("rcv")')
          /\ Alive("snd") => q2 = SenderPoint(pc["snd"], Coming("snd")', sent, cur)
          /\ pc["snd"] = "failed" => q2 < Over
    <3>1. ReceiverPoint("waitManifest", Len(dir'[dest'])) = r
      BY <2>5, ReceiverPoints
    <3>2. QED
      BY <1>1, <2>4, <2>8, <3>1
  <2>11. ReceiverTrue'
    BY <2>7, GroundFacts DEF ReceiverTrue, Core, Side
  <2>12. "waitManifest" \in ReceiverLabels
    BY DEF ReceiverLabels
  <2>13. QED
    BY <1>1, <2>3, <2>7, <2>8, <2>9, <2>10, <2>11, <2>12, ReceiverMoves
<1>8. QED
  BY <1>4, <1>5, <1>6, <1>7 DEF WaitHello

LEMMA NoDestinationAgrees ==
  ASSUME Footing, Agree, NoDestination, UNCHANGED sndVars
  PROVE  Agree'
<1>1. /\ pc["rcv"] = "init" /\ pc' = [pc EXCEPT !["rcv"] = "returned"]
      /\ err' = [err EXCEPT !["rcv"] = "local"]
      /\ UNCHANGED <<wire, inbox, pending>> /\ Alive("rcv") /\ "returned" \in Ended
  BY DEF NoDestination, At, NoInput, Alive, Ended
<1>2. err'["snd"] = err["snd"] /\ err'["rcv"] \notin Accusations
  BY <1>1, GroundFacts DEF Core, Side, Accusations
<1>3. Alive("snd") => Heard(pc["snd"], cur, "returned", Coming("snd")')
  BY <1>1, SenderUndisturbed
<1>4. QED
  BY <1>1, <1>2, <1>3, ReceiverLeaves

LEMMA WaitManifestAgrees ==
  ASSUME Footing, Agree, WaitManifest, UNCHANGED sndVars
  PROVE  Agree'
<1>1. /\ pc["rcv"] = "waitManifest" /\ Alive("rcv") /\ cur \in Files
      /\ UNCHANGED <<want>>
  BY GroundFacts DEF WaitManifest, At, Alive, Ended
<1>2. ReceiverAt = -3
  BY <1>1, ReceiverPoints DEF ReceiverAt
<1>3. ASSUME NEW m, NEW r \in Int, Leads(cur, want, ReceiverAt, m, r)
      PROVE  m = Cancel \/ (m = Manifest(Metas) /\ r = -2)
  <2>1. PICK p \in Int : p = -3 /\ p = ReceiverAt
    BY <1>2
  <2>2. QED
    BY <1>1, <1>3, <2>1, LeadsAway
<1>4. CASE WaitOther("rcv", {"manifest"})
  <2>1. \A m \in Message, r \in Int :
          Leads(cur, want, ReceiverAt, m, r) => m = Cancel \/ m.t \in {"manifest"}
    BY <1>3 DEF Manifest
  <2>2. QED
    BY <1>1, <1>4, <2>1, ReceiverWaits, ReceiverQuits
<1>5. CASE TakeManifest
  <2>1. Consume("rcv") /\ NextMsg("rcv").t = "manifest"
    BY <1>5 DEF TakeManifest, Take
  <2>2. wire'["rcv"] = wire["rcv"]
    BY <1>5, SaysToPeer DEF TakeManifest, Side
  <2>3. /\ pending' = pending /\ inbox'["snd"] = inbox["snd"] /\ Coming("rcv")' \in Seq(Message)
        /\ \E r, q \in Int : /\ Leads(cur, want, ReceiverAt, NextMsg("rcv"), r)
                             /\ Runs(cur, want, r, q, Coming("rcv")')
                             /\ Alive("snd") => q = SenderAt
                             /\ pc["snd"] = "failed" => q < Over
    BY <1>1, <2>1, <2>2, ReceiverHears
  <2>4. PICK r \in Int, q \in Int :
          /\ Leads(cur, want, ReceiverAt, NextMsg("rcv"), r)
          /\ Runs(cur, want, r, q, Coming("rcv")')
          /\ Alive("snd") => q = SenderAt
          /\ pc["snd"] = "failed" => q < Over
    BY <2>3
  <2>5. NextMsg("rcv") = Manifest(Metas) /\ r = -2
    BY <1>3, <2>1, <2>4 DEF Cancel
  <2>6. NextMsg("rcv").files = Metas
    BY <2>5 DEF Manifest
  <2>7. /\ meta' = ById(Metas) /\ pc' = [pc EXCEPT !["rcv"] = "decide"]
        /\ err' = err /\ wire' = wire
    BY <1>5, <2>6, ManifestValid DEF TakeManifest, GoTo
  <2>8. /\ Coming("snd")' = Coming("snd")
        /\ SenderPoint(pc["snd"], Coming("snd")', sent, cur) = SenderAt
        /\ Alive("snd") => Heard(pc["snd"], cur, "decide", Coming("snd")')
    BY <1>1, <2>3, <2>7, SenderUndisturbed
  <2>9. ASSUME Alive("snd")
        PROVE  Together(pc["snd"], "decide", Coming("snd"), cur, todo, want)
    <3>1. q = SenderAt /\ q < Over
      BY <2>4, <2>9, SenderNotOver
    <3>2. q = r
      BY <1>1, <2>3, <2>4, <2>5, <3>1, RestRuns, OverLast
    <3>3. pc["snd"] = "waitReply" /\ Coming("snd") = <<>>
      BY <2>5, <2>9, <3>1, <3>2, SenderWaitsHere
    <3>4. QED
      BY <3>3 DEF Together
  <2>10. \E q2 \in Int :
          /\ Runs(cur, want', ReceiverPoint("decide", Len(dir'[dest'])), q2, Coming("rcv")')
          /\ Alive("snd") => q2 = SenderPoint(pc["snd"], Coming("snd")', sent, cur)
          /\ pc["snd"] = "failed" => q2 < Over
    <3>1. ReceiverPoint("decide", Len(dir'[dest'])) = r
      BY <2>5, ReceiverPoints
    <3>2. QED
      BY <1>1, <2>4, <2>8, <3>1
  <2>11. ReceiverTrue'
    BY <2>7, GroundFacts DEF ReceiverTrue, Core, Side
  <2>12. "decide" \in ReceiverLabels
    BY DEF ReceiverLabels
  <2>13. QED
    BY <1>1, <2>3, <2>7, <2>8, <2>9, <2>10, <2>11, <2>12, ReceiverMoves
<1>6. QED
  BY <1>4, <1>5 DEF WaitManifest

\* The user refuses, or the callback fails.
LEMMA RefusalAgrees ==
  ASSUME Footing, Agree, At("rcv", "decide"), UNCHANGED sndVars,
         NEW e \in {"decide", "declined"}, LastWord("rcv", Reject, e), NoInput
  PROVE  Agree'
<1>1. /\ pc["rcv"] = "decide" /\ Alive("rcv") /\ "rcv" \in Side /\ Core
      /\ UNCHANGED <<inbox, pending>> /\ "failed" \in Ended
  BY GroundFacts DEF At, Alive, Ended, Side, NoInput
<1>2. /\ pc' = [pc EXCEPT !["rcv"] = "failed"] /\ err'["snd"] = err["snd"]
      /\ err'["rcv"] \notin Accusations
  BY <1>1 DEF LastWord, FailWith, Core, Side, Accusations
<1>3. ASSUME Alive("snd") PROVE Heard(pc["snd"], cur, "failed", Coming("snd")')
  <2>1. pc["snd"] = "waitReply" /\ Coming("snd") = <<>>
    BY <1>1, <1>3 DEF Agree, InTurn, Together
  <2>2. CASE Post("rcv", Reject)
    <3>1. Reject \in Message
      BY DEF Reject, Message
    <3>2. Coming("snd")' = <<Reject>>
      BY <1>1, <2>1, <2>2, <3>1, ReceiverSays, FirstAnswer
    <3>3. Reject \in Answers("waitReply", cur)
      BY WhatAnswers
    <3>4. QED
      BY <2>1, <3>2, <3>3 DEF Heard
  <2>3. CASE wire' = wire
    BY <1>1, <1>3, <2>3, SenderUndisturbed
  <2>4. QED
    BY <2>2, <2>3 DEF LastWord
<1>4. QED
  BY <1>1, <1>2, <1>3, ReceiverLeaves

\* The user accepts some of the files.
LEMMA AcceptanceAgrees ==
  ASSUME Footing, Agree, At("rcv", "decide"), UNCHANGED <<sndVars, meta>>, NoInput,
         NEW ids \in SUBSET DOMAIN meta, ids # {},
         Control("rcv", Accept(IF ids = DOMAIN meta THEN {} ELSE ids), "waitStart"),
         want' = IF CanSend("rcv") THEN ids ELSE want
  PROVE  Agree'
<1> DEFINE x == IF ids = DOMAIN meta THEN {} ELSE ids
<1>1. /\ pc["rcv"] = "decide" /\ Alive("rcv") /\ "rcv" \in Side
      /\ UNCHANGED <<inbox, pending>>
  BY DEF At, Alive, Ended, Side, NoInput
<1>2. meta = ById(Metas) /\ DOMAIN meta = Files
  BY <1>1, MetasById DEF Agree, ReceiverTrue
<1>3. x \in SUBSET Files /\ ResolveAccept(x, NumFiles) = ids
  BY <1>2 DEF ResolveAccept, Files
<1>4. Accept(x) \in Message
  <2>1. x \in SUBSET Int
    <3>1. ASSUME NEW i \in x PROVE i \in Int
      <4>1. i \in Files
        BY <1>3
      <4>2. QED
        BY <4>1, FilesAreInts
    <3>2. QED
      BY <3>1
  <2>2. QED
    BY <2>1 DEF Accept, Message
<1>5. Control("rcv", Accept(x), "waitStart")
  OBVIOUS
<1> HIDE DEF x
<1>6. CASE ~CanSend("rcv")
  BY <1>1, <1>5, <1>6, SendFails, ReceiverQuits
<1>7. CASE CanSend("rcv")
  <2>1. /\ Post("rcv", Accept(x)) /\ want' = ids
        /\ pc' = [pc EXCEPT !["rcv"] = "waitStart"] /\ err' = err
    BY <1>1, <1>5, <1>7, SendSucceeds DEF Proceeds
  <2>2. Coming("snd")' = Append(Coming("snd"), Accept(x)) /\ wire'["rcv"] = wire["rcv"]
    BY <1>1, <1>4, <2>1, ReceiverSays
  <2>3. Coming("rcv")' = Coming("rcv")
    BY <1>1, <2>2 DEF Coming
  <2>4. ASSUME Alive("snd")
        PROVE  /\ SenderAt = -2
               /\ SenderPoint(pc["snd"], Coming("snd")', sent, cur) = -1
               /\ Heard(pc["snd"], cur, "waitStart", Coming("snd")')
               /\ Together(pc["snd"], "waitStart", Coming("snd")', cur, todo, want')
    <3>1. pc["snd"] = "waitReply" /\ Coming("snd") = <<>>
      BY <1>1, <2>4 DEF Agree, InTurn, Together
    <3>2. Coming("snd")' = <<Accept(x)>>
      BY <2>2, <3>1, FirstAnswer
    <3>3. /\ SenderAt = -2
          /\ SenderPoint(pc["snd"], Coming("snd")', sent, cur) = -1
      BY <3>1, <3>2, SenderPoints DEF SenderAt
    <3>4. Accept(x) \in Answers("waitReply", cur)
      BY <1>3, WhatAnswers
    <3>5. Heard(pc["snd"], cur, "waitStart", Coming("snd")')
      BY <3>1, <3>2, <3>4 DEF Heard
    <3>6. Together(pc["snd"], "waitStart", Coming("snd")', cur, todo, want')
      BY <1>3, <2>1, <3>1, <3>2 DEF Together
    <3>7. QED
      BY <3>3, <3>5, <3>6
  <2>5. \E q \in Int :
          /\ Runs(cur, want', ReceiverPoint("waitStart", Len(dir'[dest'])), q, Coming("rcv")')
          /\ Alive("snd") => q = SenderPoint(pc["snd"], Coming("snd")', sent, cur)
          /\ pc["snd"] = "failed" => q < Over
    <3>1. PICK q \in Int : /\ Runs(cur, want, ReceiverAt, q, Coming("rcv"))
                           /\ Alive("snd") => q = SenderAt
                           /\ pc["snd"] = "failed" => q < Over
      BY <1>1 DEF Agree, Forward
    <3>2. PICK p \in Int : p = -2 /\ p = ReceiverAt
      BY <1>1, ReceiverPoints DEF ReceiverAt
    <3>3. cur \in Files /\ Coming("rcv") \in Seq(Message)
      BY GroundFacts
    <3>4. (Coming("rcv") = <<>> /\ q = p) \/ (Coming("rcv") = <<Cancel>> /\ q = Over)
      BY <3>1, <3>2, <3>3, RestRuns
    <3>5. PICK o \in Int : o = -1
      OBVIOUS
    <3>6. ReceiverPoint("waitStart", Len(dir'[dest'])) = o
      BY <3>5, ReceiverPoints
    <3>7. o < Over /\ Over \in Int
      BY <3>3, <3>5, OverLast
    <3>8. CASE Coming("rcv") = <<>> /\ q = p
      <4>1. Runs(cur, want', o, o, <<>>)
        BY RunsEmpty
      <4>2. QED
        BY <2>3, <2>4, <3>5, <3>6, <3>7, <3>8, <4>1
    <3>9. CASE Coming("rcv") = <<Cancel>> /\ q = Over
      <4>1. Runs(cur, want', o, Over, <<Cancel>>)
        BY <3>7, RunsCancel
      <4>2. ~Alive("snd") /\ pc["snd"] # "failed"
        BY <2>4, <3>1, <3>5, <3>7, <3>9
      <4>3. QED
        BY <2>3, <3>6, <3>7, <3>9, <4>1, <4>2
    <3>10. QED
      BY <3>4, <3>8, <3>9
  <2>6. ReceiverTrue'
    BY <1>2, <2>1, GroundFacts DEF ReceiverTrue, Core, Side
  <2>7. "waitStart" \in ReceiverLabels
    BY DEF ReceiverLabels
  <2>8. QED
    BY <1>1, <2>1, <2>4, <2>5, <2>6, <2>7, ReceiverMoves
<1>8. QED
  BY <1>6, <1>7

LEMMA DecideAgrees ==
  ASSUME Footing, Agree, Decide, UNCHANGED sndVars
  PROVE  Agree'
<1>1. At("rcv", "decide") /\ NoInput /\ UNCHANGED <<meta>>
  BY DEF Decide
<1>2. CASE LastWord("rcv", Reject, "decide") \/ LastWord("rcv", Reject, "declined")
  BY <1>1, <1>2, RefusalAgrees
<1>3. CASE \E ids \in SUBSET DOMAIN meta :
             /\ ids # {}
             /\ Control("rcv", Accept(IF ids = DOMAIN meta THEN {} ELSE ids), "waitStart")
             /\ want' = IF CanSend("rcv") THEN ids ELSE want
  BY <1>1, <1>3, AcceptanceAgrees
<1>4. QED
  BY <1>2, <1>3 DEF Decide

LEMMA WaitFileStartAgrees ==
  ASSUME Footing, Footing', Agree, WaitFileStart, UNCHANGED sndVars
  PROVE  Agree'
<1>1. /\ pc["rcv"] = "waitStart" /\ Alive("rcv") /\ cur \in Files /\ "rcv" \in Side
      /\ UNCHANGED <<meta, want>> /\ meta = ById(Metas) /\ want # {} /\ Core
  BY GroundFacts DEF WaitFileStart, At, Alive, Ended, Side, Agree, ReceiverTrue
<1>2. ReceiverAt = -1
  BY <1>1, ReceiverPoints DEF ReceiverAt
<1>3. ASSUME NEW m, NEW r \in Int, Leads(cur, want, ReceiverAt, m, r)
      PROVE  m = Cancel \/ (IsNext(cur, want) /\ m = FileStart(cur) /\ r = 0)
  <2>1. PICK p \in Int : p = -1 /\ p = ReceiverAt
    BY <1>2
  <2>2. QED
    BY <1>1, <1>3, <2>1, LeadsAway
<1>4. CASE WaitOther("rcv", {"file-start"})
  <2>1. \A m \in Message, r \in Int :
          Leads(cur, want, ReceiverAt, m, r) => m = Cancel \/ m.t \in {"file-start"}
    BY <1>3 DEF FileStart
  <2>2. QED
    BY <1>1, <1>4, <2>1, ReceiverWaits, ReceiverQuits
<1>5. ASSUME NEW id \in want, IsNext(id, want), TakeFileStart(id) PROVE Agree'
  <2>1. Consume("rcv") /\ NextMsg("rcv").t = "file-start"
    BY <1>5 DEF TakeFileStart, Take
  <2>2. wire'["rcv"] = wire["rcv"]
    BY <1>5, SaysToPeer DEF TakeFileStart, Side
  <2>3. /\ pending' = pending /\ inbox'["snd"] = inbox["snd"] /\ Coming("rcv")' \in Seq(Message)
        /\ \E r, q \in Int : /\ Leads(cur, want, ReceiverAt, NextMsg("rcv"), r)
                             /\ Runs(cur, want, r, q, Coming("rcv")')
                             /\ Alive("snd") => q = SenderAt
                             /\ pc["snd"] = "failed" => q < Over
    BY <1>1, <2>1, <2>2, ReceiverHears
  <2>4. PICK r \in Int, q \in Int :
          /\ Leads(cur, want, ReceiverAt, NextMsg("rcv"), r)
          /\ Runs(cur, want, r, q, Coming("rcv")')
          /\ Alive("snd") => q = SenderAt
          /\ pc["snd"] = "failed" => q < Over
    BY <2>3
  <2>5. IsNext(cur, want) /\ NextMsg("rcv") = FileStart(cur) /\ r = 0
    BY <1>3, <2>1, <2>4 DEF Cancel
  <2>6. id = cur
    <3>1. id \in Int /\ cur \in Int
      <4>1. want \in SUBSET DOMAIN meta
        BY DEF Footing, TypeOK, ReceiverTypeOK
      <4>2. id \in Files
        BY <1>1, <1>5, <4>1, MetasById
      <4>3. QED
        BY <1>1, <4>2, FilesAreInts
    <3>2. id <= cur /\ cur <= id
      BY <1>5, <2>5 DEF IsNext
    <3>3. QED
      BY <3>1, <3>2
  <2>7. CreateDest(cur) /\ wire' = wire
    BY <1>5, <2>5, <2>6 DEF TakeFileStart, FileStart
  <2>8. CASE FailWith("rcv", "local")
    BY <1>1, <2>3, <2>7, <2>8, FailQuits, ReceiverQuits DEF Accusations, Peer
  <2>9. CASE \E i \in 0..MaxAttempts-1 :
               /\ dest' = Candidate(meta[cur].name, i)
               /\ dir' = [dir EXCEPT ![Candidate(meta[cur].name, i)] = <<>>]
               /\ GoTo("rcv", "chunks")
    <3>1. PICK i \in 0..MaxAttempts-1 :
               /\ dest' = Candidate(meta[cur].name, i)
               /\ dir' = [dir EXCEPT ![Candidate(meta[cur].name, i)] = <<>>]
               /\ GoTo("rcv", "chunks")
      BY <2>9
    <3>2. meta[cur].name \in Names
      BY <1>1, MetasById, SenderAssumption
    <3>3. dest' \in Paths /\ dir \in [Paths -> Content \cup {NoFile}]
      BY <3>1, <3>2 DEF Paths, Footing, TypeOK, ReceiverTypeOK
    <3>4. dir'[dest'] = <<>> /\ Len(dir'[dest']) = 0
      BY <3>1, <3>3, EmptySeq
    <3>5. pc' = [pc EXCEPT !["rcv"] = "chunks"] /\ err' = err
      BY <3>1 DEF GoTo
    <3>6. /\ Coming("snd")' = Coming("snd")
          /\ SenderPoint(pc["snd"], Coming("snd")', sent, cur) = SenderAt
          /\ Alive("snd") => Heard(pc["snd"], cur, "chunks", Coming("snd")')
      BY <1>1, <2>3, <2>7, SenderUndisturbed
    <3>7. ReceiverPoint("chunks", Len(dir'[dest'])) = r
      BY <2>5, <3>4, ReceiverPoints
    <3>8. ASSUME Alive("snd")
          PROVE  Together(pc["snd"], "chunks", Coming("snd"), cur, todo, want)
      <4>1. SenderAt >= 0
        <5>1. q = SenderAt /\ r = 0
          BY <2>4, <2>5, <3>8
        <5>2. r <= q
          BY <2>3, <2>4, RunsOrder
        <5>3. QED
          BY <5>1, <5>2
      <4>2. \/ pc["snd"] \in Filing
            \/ pc["snd"] = "waitAck" /\ Coming("snd") = <<>>
        BY <3>8, <4>1, SenderWaitsHere
      <4>3. Together(pc["snd"], "waitStart", Coming("snd"), cur, todo, want)
        BY <1>1, <3>8 DEF Agree, InTurn
      <4>4. pc["snd"] \in Filing \cup {"waitAck"} /\ Coming("snd") = <<>> /\ want = todo
        <5>1. \/ pc["snd"] # "waitReply" /\ Coming("snd") # <<FileAck(cur, "ok")>>
              \/ pc["snd"] \in Filing
          BY <4>2 DEF Filing
        <5>2. \/ pc["snd"] = "waitReply"
              \/ pc["snd"] = "waitAck" /\ Coming("snd") = <<FileAck(cur, "ok")>>
              \/ Coming("snd") = <<>> /\ want = todo
          BY <4>3 DEF Together
        <5>3. Coming("snd") = <<>> /\ want = todo
          BY <5>1, <5>2 DEF Filing
        <5>4. QED
          BY <4>2, <5>3
      <4>5. QED
        BY <4>4 DEF Together
    <3>9. \E q2 \in Int :
            /\ Runs(cur, want', ReceiverPoint("chunks", Len(dir'[dest'])), q2, Coming("rcv")')
            /\ Alive("snd") => q2 = SenderPoint(pc["snd"], Coming("snd")', sent, cur)
            /\ pc["snd"] = "failed" => q2 < Over
      BY <1>1, <2>4, <3>6, <3>7
    <3>10. ReceiverTrue'
      <4>1. FileData(cur, 0) = <<>>
        <5>1. cur \in Int /\ 0 \in Nat
          BY <1>1, FilesAreInts
        <5>2. FileData(cur, 0) \in Content /\ Len(FileData(cur, 0)) = 0
          BY <5>1, SliceTyped DEF FileData
        <5>3. QED
          BY <5>2, EmptySeq DEF Content
      <4>2. pc'["rcv"] = "chunks" /\ Size[cur] \in Nat /\ cur' = cur
        BY <1>1, <3>5, SizesAreNat DEF Core, sndVars
      <4>3. QED
        BY <1>1, <2>5, <3>4, <4>1, <4>2 DEF ReceiverTrue
    <3>11. "chunks" \in ReceiverLabels
      BY DEF ReceiverLabels
    <3>12. QED
      BY <1>1, <2>3, <3>5, <3>6, <3>8, <3>9, <3>10, <3>11, ReceiverMoves
  <2>10. QED
    BY <2>7, <2>8, <2>9 DEF CreateDest
<1>6. QED
  BY <1>4, <1>5 DEF WaitFileStart

LEMMA SecondAnswer == \A m, n : Append(<<m>>, n) = <<m, n>>
<1> SUFFICES ASSUME NEW m, NEW n PROVE Append(<<m>>, n) = <<m, n>>
  OBVIOUS
<1>1. <<m>> \in Seq({m, n}) /\ n \in {m, n}
  OBVIOUS
<1>2. /\ Append(<<m>>, n) \in Seq({m, n}) /\ Len(Append(<<m>>, n)) = 2
      /\ Append(<<m>>, n)[1] = m /\ Append(<<m>>, n)[2] = n
  BY <1>1, AppendProperties
<1>3. /\ <<m, n>> \in Seq({m, n}) /\ Len(<<m, n>>) = 2
      /\ <<m, n>>[1] = m /\ <<m, n>>[2] = n
  OBVIOUS
<1> DEFINE A == Append(<<m>>, n)
           B == <<m, n>>
<1>4. A \in Seq({m, n}) /\ B \in Seq({m, n}) /\ Len(A) = Len(B) /\ 1..Len(A) = {1, 2}
  BY <1>2, <1>3
<1>5. A[1] = B[1] /\ A[2] = B[2]
  BY <1>2, <1>3
<1> HIDE DEF A, B
<1>6. A = B
  BY <1>4, <1>5, SeqEqual
<1>7. QED
  BY <1>6 DEF A, B

\* A chunk continues the file where it stands, and never exceeds it.
LEMMA ChunkAgrees ==
  ASSUME Footing, Agree, At("rcv", "chunks"), UNCHANGED <<sndVars, meta>>,
         NEW id \in want, IsNext(id, want), id = cur, TakeChunk(id)
  PROVE  Agree'
<1>1. /\ pc["rcv"] = "chunks" /\ Alive("rcv") /\ cur \in Files /\ "rcv" \in Side
      /\ want' = want /\ meta = ById(Metas) /\ Core
      /\ Len(dir[dest]) <= Size[cur] /\ dir[dest] = FileData(cur, Len(dir[dest]))
      /\ dest \in Paths /\ dir[dest] \in Content
  BY GroundFacts DEF TakeChunk, At, Alive, Ended, Side, Agree, ReceiverTrue, Footing
<1>2. PICK p \in Nat : p = Len(dir[dest]) /\ p = ReceiverAt
  <2>1. Len(dir[dest]) \in Nat
    BY <1>1, LenProperties DEF Content
  <2>2. QED
    BY <1>1, <2>1, ReceiverPoints DEF ReceiverAt
<1>3. Consume("rcv") /\ NextMsg("rcv").t = "chunk"
  BY DEF TakeChunk, Take
<1>4. wire'["rcv"] = wire["rcv"]
  BY SaysToPeer DEF TakeChunk, Side
<1>5. /\ pending' = pending /\ inbox'["snd"] = inbox["snd"] /\ Coming("rcv")' \in Seq(Message)
      /\ \E r, q \in Int : /\ Leads(cur, want, ReceiverAt, NextMsg("rcv"), r)
                           /\ Runs(cur, want, r, q, Coming("rcv")')
                           /\ Alive("snd") => q = SenderAt
                           /\ pc["snd"] = "failed" => q < Over
  BY <1>1, <1>3, <1>4, ReceiverHears
<1>6. PICK r \in Int, q \in Int :
        /\ Leads(cur, want, ReceiverAt, NextMsg("rcv"), r)
        /\ Runs(cur, want, r, q, Coming("rcv")')
        /\ Alive("snd") => q = SenderAt
        /\ pc["snd"] = "failed" => q < Over
  BY <1>5
<1>7. r \in p+1..Size[cur] /\ NextMsg("rcv") = Chunk(Slice(cur, p, r - p))
  <2>1. NextMsg("rcv") # Cancel
    BY <1>3 DEF Cancel
  <2>2. Leads(cur, want, p, NextMsg("rcv"), r) /\ p \in Int /\ p >= 0
    BY <1>2, <1>6
  <2>3. \/ r \in p+1..Size[cur] /\ NextMsg("rcv") = Chunk(Slice(cur, p, r - p))
        \/ NextMsg("rcv") = FileEnd(cur, FileData(cur, p))
    BY <1>1, <2>1, <2>2, LeadsAway
  <2>4. QED
    BY <1>3, <2>3 DEF FileEnd
<1>8. PICK n \in Nat : n = r - p /\ p + n = r /\ r \in Nat /\ r <= Size[cur] /\ Size[cur] \in Nat
  BY <1>1, <1>7, SizesAreNat
<1>9. NextMsg("rcv").data = Slice(cur, p, n) /\ Len(Slice(cur, p, n)) = n
  <2>1. cur \in Int
    BY <1>1, FilesAreInts
  <2>2. NextMsg("rcv").data = Slice(cur, p, n)
    BY <1>7, <1>8 DEF Chunk
  <2>3. QED
    BY <2>1, <2>2, SliceTyped
<1>10. ~(Len(dir[dest]) + Len(NextMsg("rcv").data) > meta[id].size)
  <2>1. meta[id].size = Size[cur]
    BY <1>1, MetasById
  <2>2. Len(dir[dest]) + Len(NextMsg("rcv").data) = r
    BY <1>2, <1>8, <1>9
  <2>3. ~(r > Size[cur])
    BY <1>8
  <2>4. QED
    BY <2>1, <2>2, <2>3
<1>11. /\ wire' = wire
       /\ \/ dir' = [dir EXCEPT ![dest] = @ \o NextMsg("rcv").data] /\ UNCHANGED <<pc, err, dest>>
          \/ FailWith("rcv", "local")
  BY <1>10 DEF TakeChunk
<1>12. CASE FailWith("rcv", "local")
  BY <1>1, <1>5, <1>11, <1>12, FailQuits, ReceiverQuits DEF Accusations, Peer
<1>13. CASE dir' = [dir EXCEPT ![dest] = @ \o NextMsg("rcv").data] /\ UNCHANGED <<pc, err, dest>>
  <2>1. dir'[dest'] = FileData(cur, r)
    <3>1. dir \in [Paths -> Content \cup {NoFile}]
      BY DEF Footing, TypeOK, ReceiverTypeOK
    <3>2. dir'[dest'] = dir[dest] \o NextMsg("rcv").data
      BY <1>1, <1>13, <3>1
    <3>3. dir'[dest'] = FileData(cur, p) \o Slice(cur, p, n)
      BY <1>1, <1>2, <1>9, <3>2
    <3>4. FileData(cur, p) \o Slice(cur, p, n) = FileData(cur, p + n)
      BY <1>1, FileDataGrows
    <3>5. p + n = r
      BY <1>8
    <3>6. QED
      BY <3>3, <3>4, <3>5
  <2>2. Len(dir'[dest']) = r
    <3>1. cur \in Int /\ 0 \in Nat
      BY <1>1, FilesAreInts
    <3>2. Len(FileData(cur, r)) = r
      BY <1>8, <3>1, SliceTyped DEF FileData
    <3>3. QED
      BY <2>1, <3>2
  <2>3. pc' = [pc EXCEPT !["rcv"] = "chunks"] /\ err' = err /\ "chunks" \in ReceiverLabels
    BY <1>1, <1>13 DEF Core, ReceiverLabels
  <2>4. /\ Coming("snd")' = Coming("snd")
        /\ SenderPoint(pc["snd"], Coming("snd")', sent, cur) = SenderAt
        /\ Alive("snd") => Heard(pc["snd"], cur, "chunks", Coming("snd")')
    BY <1>1, <1>5, <1>11, SenderUndisturbed
  <2>5. ReceiverPoint("chunks", Len(dir'[dest'])) = r
    BY <2>2, ReceiverPoints
  <2>6. Alive("snd") => Together(pc["snd"], "chunks", Coming("snd"), cur, todo, want)
    BY <1>1 DEF Agree, InTurn
  <2>7. \E q2 \in Int :
          /\ Runs(cur, want', ReceiverPoint("chunks", Len(dir'[dest'])), q2, Coming("rcv")')
          /\ Alive("snd") => q2 = SenderPoint(pc["snd"], Coming("snd")', sent, cur)
          /\ pc["snd"] = "failed" => q2 < Over
    BY <1>1, <1>6, <2>4, <2>5
  <2>8. ReceiverTrue'
    <3>1. cur' = cur /\ meta' = meta /\ want' = want /\ want # {} /\ IsNext(cur, want)
      BY <1>1 DEF sndVars, Agree, ReceiverTrue
    <3>2. pc'["rcv"] = "chunks"
      BY <1>1, <1>13
    <3>3. QED
      BY <1>1, <1>8, <2>1, <2>2, <3>1, <3>2 DEF ReceiverTrue
  <2>9. QED
    BY <1>1, <1>5, <2>3, <2>4, <2>6, <2>7, <2>8, ReceiverMoves
<1>14. QED
  BY <1>11, <1>12, <1>13

\* A file-end closes the whole file, with its digest.
LEMMA FileEndAgrees ==
  ASSUME Footing, Agree, At("rcv", "chunks"), UNCHANGED <<sndVars, meta>>,
         NEW id \in want, IsNext(id, want), id = cur, TakeFileEnd(id)
  PROVE  Agree'
<1>1. /\ pc["rcv"] = "chunks" /\ Alive("rcv") /\ cur \in Files /\ "rcv" \in Side
      /\ meta = ById(Metas) /\ Core /\ dir[dest] = FileData(cur, Len(dir[dest]))
      /\ dest \in Paths /\ dir[dest] \in Content
  BY GroundFacts DEF At, Alive, Ended, Side, Agree, ReceiverTrue, Footing
<1>2. PICK p \in Nat : p = Len(dir[dest]) /\ p = ReceiverAt
  <2>1. Len(dir[dest]) \in Nat
    BY <1>1, LenProperties DEF Content
  <2>2. QED
    BY <1>1, <2>1, ReceiverPoints DEF ReceiverAt
<1>3. Consume("rcv") /\ NextMsg("rcv").t = "file-end"
  BY DEF TakeFileEnd, Take
<1>4. wire'["rcv"] = wire["rcv"]
  <2>1. /\ Lines /\ "rcv" \in Side /\ Peer("rcv") = "snd"
    BY GroundFacts DEF Side, Peer
  <2>2. \A m : Post("rcv", m) => wire'["rcv"] = wire["rcv"]
    BY <2>1 DEF Post, Lines
  <2>3. QED
    BY <2>2, SaysToPeer, <1>1 DEF TakeFileEnd, Keep, Control, Mismatch
<1>5. /\ pending' = pending /\ inbox'["snd"] = inbox["snd"] /\ Coming("rcv")' \in Seq(Message)
      /\ \E r, q \in Int : /\ Leads(cur, want, ReceiverAt, NextMsg("rcv"), r)
                           /\ Runs(cur, want, r, q, Coming("rcv")')
                           /\ Alive("snd") => q = SenderAt
                           /\ pc["snd"] = "failed" => q < Over
  BY <1>1, <1>3, <1>4, ReceiverHears
<1>6. PICK r \in Int, q \in Int :
        /\ Leads(cur, want, ReceiverAt, NextMsg("rcv"), r)
        /\ Runs(cur, want, r, q, Coming("rcv")')
        /\ Alive("snd") => q = SenderAt
        /\ pc["snd"] = "failed" => q < Over
  BY <1>5
<1>7. p = Size[cur] /\ NextMsg("rcv") = FileEnd(cur, FileData(cur, p)) /\ r = Size[cur] + 1
  <2>1. NextMsg("rcv") # Cancel
    BY <1>3 DEF Cancel
  <2>2. Leads(cur, want, p, NextMsg("rcv"), r) /\ p \in Int /\ p >= 0
    BY <1>2, <1>6
  <2>3. \/ NextMsg("rcv") = Chunk(Slice(cur, p, r - p))
        \/ p = Size[cur] /\ NextMsg("rcv") = FileEnd(cur, FileData(cur, p)) /\ r = p + 1
    BY <1>1, <2>1, <2>2, LeadsAway
  <2>4. QED
    BY <1>3, <2>3 DEF Chunk
<1>8. /\ NextMsg("rcv").id = id /\ NextMsg("rcv").sha256 = dir[dest]
      /\ Len(dir[dest]) = meta[id].size
  BY <1>1, <1>2, <1>7, MetasById DEF FileEnd
<1>9. Keep(id) \/ (FailWith("rcv", "local") /\ wire' = wire)
  BY <1>8 DEF TakeFileEnd
<1>10. CASE FailWith("rcv", "local") /\ wire' = wire
  BY <1>1, <1>5, <1>10, FailQuits, ReceiverQuits DEF Accusations, Peer
<1>11. CASE Keep(id) /\ ~CanSend("rcv")
  <2>1. FailWith("rcv", "send") /\ wire' = wire
    BY <1>11 DEF Keep, Control
  <2>2. QED
    BY <1>1, <1>5, <2>1, FailQuits, ReceiverQuits DEF Accusations, Peer
<1>12. CASE Keep(id) /\ CanSend("rcv")
  <2> DEFINE l == IF want = {cur} THEN "waitDone" ELSE "waitStart"
             ack == FileAck(cur, "ok")
  <2>1. /\ Post("rcv", ack) /\ want' = want \ {cur}
        /\ pc' = [pc EXCEPT !["rcv"] = l] /\ err' = err
    BY <1>12 DEF Keep, Control, GoTo
  <2>2. ack \in Message
    BY <1>1, FilesAreInts DEF FileAck, Message
  <2>3. Coming("snd")' = Append(Coming("snd"), ack)
    BY <1>5, <2>1, <2>2, ReceiverSays
  <2> HIDE DEF ack
  <2>4. l \in {"waitStart", "waitDone"} /\ l \in ReceiverLabels
    BY DEF ReceiverLabels
  <2>5. /\ Alive("snd") => q < Over
        /\ \/ Coming("rcv")' = <<>> /\ q = r
           \/ Coming("rcv")' = <<Cancel>> /\ q = Over
    <3>1. Alive("snd") => q < Over
      BY <1>6, SenderNotOver
    <3>2. QED
      BY <1>1, <1>5, <1>6, <1>7, <3>1, RestRuns
  <2>6. ASSUME Alive("snd")
        PROVE  /\ q = r
               /\ SenderPoint(pc["snd"], Coming("snd")', sent, cur) = -1
               /\ Heard(pc["snd"], cur, l, Coming("snd")')
               /\ Together(pc["snd"], l, Coming("snd")', cur, todo, want')
    <3>1. q = r /\ q = SenderAt
      BY <1>1, <1>6, <2>5, <2>6, OverLast
    <3>2. pc["snd"] = "waitAck" /\ Coming("snd") = <<>>
      BY <1>7, <2>6, <3>1, SenderWaitsHere
    <3>3. Coming("snd")' = <<ack>>
      BY <2>3, <3>2, FirstAnswer
    <3>4. SenderPoint(pc["snd"], Coming("snd")', sent, cur) = -1
      BY <3>2, <3>3, SenderPoints
    <3>5. ack \in Answers("waitAck", cur)
      BY WhatAnswers DEF ack
    <3>6. Heard(pc["snd"], cur, l, Coming("snd")')
      BY <3>2, <3>3, <3>5 DEF Heard
    <3>7. Together(pc["snd"], "chunks", Coming("snd"), cur, todo, want)
      BY <1>1, <2>6 DEF Agree, InTurn
    <3>8. want = todo
      BY <3>2, <3>7 DEF Together
    <3>9. Together(pc["snd"], l, Coming("snd")', cur, todo, want')
      BY <2>1, <2>4, <3>2, <3>3, <3>8 DEF Together, ack
    <3>10. QED
      BY <3>1, <3>4, <3>6, <3>9
  <2>7. \E q2 \in Int :
          /\ Runs(cur, want', ReceiverPoint(l, Len(dir'[dest'])), q2, Coming("rcv")')
          /\ Alive("snd") => q2 = SenderPoint(pc["snd"], Coming("snd")', sent, cur)
          /\ pc["snd"] = "failed" => q2 < Over
    <3>1. PICK o \in Int : o = -1
      OBVIOUS
    <3>2. ReceiverPoint(l, Len(dir'[dest'])) = o
      BY <2>4, <3>1, ReceiverPoints
    <3>3. o < Over /\ Over \in Int /\ r # Over
      BY <1>1, <1>7, <3>1, OverLast
    <3>4. CASE Coming("rcv")' = <<>> /\ q = r
      <4>1. Runs(cur, want', o, o, <<>>)
        BY RunsEmpty
      <4>2. QED
        BY <2>6, <3>1, <3>2, <3>3, <3>4, <4>1
    <3>5. CASE Coming("rcv")' = <<Cancel>> /\ q = Over
      <4>1. Runs(cur, want', o, Over, <<Cancel>>)
        BY <3>3, RunsCancel
      <4>2. ~Alive("snd") /\ pc["snd"] # "failed"
        BY <1>6, <2>5, <3>3, <3>5
      <4>3. QED
        BY <3>2, <3>3, <3>5, <4>1, <4>2
    <3>6. QED
      BY <2>5, <3>4, <3>5
  <2>8. ReceiverTrue'
    <3>1. pc'["rcv"] = l
      BY <1>1, <2>1 DEF Core
    <3>2. l = "waitStart" => want' # {}
      BY <2>1
    <3>3. l = "waitDone" => want' = {}
      BY <2>1
    <3>4. meta' = ById(Metas)
      BY <1>1
    <3>5. QED
      BY <2>4, <3>1, <3>2, <3>3, <3>4 DEF ReceiverTrue
  <2>9. QED
    BY <1>1, <1>5, <2>1, <2>4, <2>6, <2>7, <2>8, ReceiverMoves
<1>13. QED
  BY <1>9, <1>10, <1>11, <1>12

LEMMA ReceiveChunksAgrees ==
  ASSUME Footing, Agree, ReceiveChunks, UNCHANGED sndVars
  PROVE  Agree'
<1>1. /\ At("rcv", "chunks") /\ Alive("rcv") /\ cur \in Files /\ IsNext(cur, want)
      /\ meta = ById(Metas) /\ UNCHANGED <<meta>>
  BY GroundFacts DEF ReceiveChunks, At, Alive, Ended, Agree, ReceiverTrue
<1>2. ASSUME NEW id \in want, IsNext(id, want) PROVE id = cur
  <2>1. want \in SUBSET DOMAIN meta
    BY DEF Footing, TypeOK, ReceiverTypeOK
  <2>2. id \in Files
    BY <1>1, <2>1, MetasById
  <2>3. id \in Int /\ cur \in Int
    BY <1>1, <2>2, FilesAreInts
  <2>4. id <= cur /\ cur <= id
    BY <1>1, <1>2 DEF IsNext
  <2>5. QED
    BY <2>3, <2>4
<1>3. ASSUME NEW id \in want, IsNext(id, want), TakeChunk(id) \/ TakeFileEnd(id) PROVE Agree'
  BY <1>1, <1>2, <1>3, ChunkAgrees, FileEndAgrees
<1>4. CASE NoChunk
  <2>1. WaitOther("rcv", {"chunk", "file-end"})
    BY <1>4 DEF NoChunk
  <2>2. PICK p \in Int : p = ReceiverAt /\ p >= 0
    <3>1. dir[dest] \in Seq(Unit)
      BY <1>1 DEF Footing, Content
    <3>2. Len(dir[dest]) \in Nat
      BY <3>1, LenProperties
    <3>3. QED
      BY <1>1, <3>2, ReceiverPoints DEF ReceiverAt, At
  <2>3. ASSUME NEW m \in Message, NEW r \in Int, Leads(cur, want, ReceiverAt, m, r)
        PROVE  m = Cancel \/ m.t \in {"chunk", "file-end"}
    <3>1. \/ m = Cancel
          \/ m = Chunk(Slice(cur, p, r - p))
          \/ m = FileEnd(cur, FileData(cur, p))
      BY <1>1, <2>2, <2>3, LeadsAway
    <3>2. QED
      BY <3>1 DEF Chunk, FileEnd
  <2>4. QED
    BY <1>1, <2>1, <2>3, ReceiverWaits, ReceiverQuits
<1>5. QED
  BY <1>3, <1>4 DEF ReceiveChunks

LEMMA WaitDoneAgrees ==
  ASSUME Footing, Agree, WaitDone, UNCHANGED sndVars
  PROVE  Agree'
<1>1. /\ pc["rcv"] = "waitDone" /\ Alive("rcv") /\ cur \in Files /\ want = {} /\ Core
      /\ "returned" \in Ended
  BY GroundFacts DEF WaitDone, At, Alive, Ended, Agree, ReceiverTrue
<1>2. CASE WaitOther("rcv", {"done"})
  <2>1. PICK p \in Int : p = -1 /\ p = ReceiverAt
    BY <1>1, ReceiverPoints DEF ReceiverAt
  <2>2. ASSUME NEW m \in Message, NEW r \in Int, Leads(cur, want, ReceiverAt, m, r)
        PROVE  m = Cancel \/ m.t \in {"done"}
    <3>1. m = Cancel \/ m = Done
      BY <1>1, <2>1, <2>2, LeadsAway DEF IsNext
    <3>2. QED
      BY <3>1 DEF Done
  <2>3. QED
    BY <1>1, <1>2, <2>2, ReceiverWaits, ReceiverQuits
<1>3. CASE Take("rcv", {"done"}) /\ Succeed("rcv") /\ UNCHANGED <<wire, signaled>>
  <2>1. /\ Consume("rcv") /\ wire' = wire
        /\ pc' = [pc EXCEPT !["rcv"] = "returned"] /\ err' = [err EXCEPT !["rcv"] = "nil"]
    BY <1>3 DEF Take, Succeed
  <2>2. pending' = pending /\ inbox'["snd"] = inbox["snd"]
    BY <1>1, <2>1, ReceiverHears
  <2>3. err'["snd"] = err["snd"] /\ err'["rcv"] \notin Accusations
    BY <1>1, <2>1 DEF Core, Side, Accusations
  <2>4. Alive("snd") => Heard(pc["snd"], cur, "returned", Coming("snd")')
    BY <1>1, <2>1, <2>2, SenderUndisturbed
  <2>5. QED
    BY <1>1, <2>1, <2>2, <2>3, <2>4, ReceiverLeaves
<1>4. QED
  BY <1>2, <1>3 DEF WaitDone

LEMMA ReceiverClosing ==
  ASSUME Footing, Agree, UNCHANGED <<sndVars, rcvVars>>, Abort("rcv") \/ CloseConn("rcv")
  PROVE  Agree'
<1>1. /\ err' = err /\ inbox' = inbox /\ pending' = pending
      /\ err["snd"] = err["snd"] /\ err["rcv"] \notin Accusations
  BY DEF Abort, CloseConn, GoTo, NoInput, Agree, NoneAccuses, Side
<1>2. CASE CloseConn("rcv")
  <2>1. /\ pc["rcv"] = "returned" /\ pc' = [pc EXCEPT !["rcv"] = "closed"] /\ wire' = wire
        /\ "closed" \in Ended
    BY <1>2 DEF CloseConn, At, GoTo, Ended
  <2>2. Coming("snd")' = Coming("snd")
    BY <1>1, <2>1 DEF Coming
  <2>3. ASSUME Alive("snd") PROVE Heard(pc["snd"], cur, "closed", Coming("snd")')
    BY <2>1, <2>2, <2>3 DEF Agree, Backward, Heard
  <2>4. QED
    BY <1>1, <2>1, <2>3, ReceiverLeaves
<1>3. CASE Abort("rcv")
  <2>a. wire' = wire \/ Post("rcv", Cancel)
    BY <1>3 DEF Abort
  <2>1. /\ pc["rcv"] = "failed" /\ pc' = [pc EXCEPT !["rcv"] = "returned"]
        /\ "returned" \in Ended
    BY <1>3 DEF Abort, At, GoTo, Ended
  <2>2. ASSUME Alive("snd") PROVE Heard(pc["snd"], cur, "returned", Coming("snd")')
    <3>1. Heard(pc["snd"], cur, "failed", Coming("snd"))
      BY <2>1, <2>2 DEF Agree, Backward
    <3>2. CASE wire' = wire
      <4>1. Coming("snd")' = Coming("snd")
        BY <1>1, <3>2 DEF Coming
      <4>2. QED
        BY <3>1, <4>1, HeardOn
    <3>3. CASE Post("rcv", Cancel)
      <4>1. Coming("snd")' = Append(Coming("snd"), Cancel)
        BY <1>1, <3>3, ReceiverSays, CancelTyped
      <4>2. CASE Coming("snd") = <<>>
        BY <4>1, <4>2, FirstAnswer DEF Heard
      <4>3. ASSUME NEW m \in Answers(pc["snd"], cur), Coming("snd") = <<m>>
            PROVE  Heard(pc["snd"], cur, "returned", Coming("snd")')
        <5>1. Coming("snd")' = <<m, Cancel>>
          BY <4>1, <4>3, SecondAnswer
        <5>2. QED
          BY <5>1 DEF Heard
      <4>4. QED
        BY <3>1, <4>2, <4>3 DEF Heard
    <3>4. QED
      BY <2>a, <3>2, <3>3
  <2>3. QED
    BY <1>1, <2>1, <2>2, ReceiverLeaves
<1>4. QED
  BY <1>2, <1>3

LEMMA ReceiverAgrees ==
  ASSUME Footing, Footing', Agree, ReceiverStep
  PROVE  Agree'
<1>1. UNCHANGED sndVars
  BY DEF ReceiverStep
<1>2. CASE BothSides("rcv") /\ UNCHANGED rcvVars
  BY <1>1, <1>2, ReceiverBegins, ReceiverGreets, ReceiverIsGreeted, ReceiverClosing DEF BothSides
<1>3. QED
  BY <1>1, <1>2, NoDestinationAgrees, WaitManifestAgrees, DecideAgrees, WaitFileStartAgrees,
     ReceiveChunksAgrees, WaitDoneAgrees DEF ReceiverStep, ReceiverNext

-----------------------------------------------------------------------------
(* The steps of the network and of the users.                              *)

LEMMA PartsFooting == Parts => Footing
BY InductiveParts DEF Inductive, Footing, ReceiverSound

\* Neither side moves, and what is coming to each leads where it led.
LEMMA LinkAside ==
  ASSUME Footing, Agree, UNCHANGED <<pc, err, pending, sndVars, rcvVars>>,
         Alive("rcv") =>
           \E q \in Int : /\ Runs(cur, want, ReceiverAt, q, Coming("rcv")')
                          /\ Alive("snd") => q = SenderAt
                          /\ pc["snd"] = "failed" => q < Over,
         Alive("snd") => Heard(pc["snd"], cur, pc["rcv"], Coming("snd")'),
         Alive("snd") /\ Alive("rcv") => Coming("snd")' = Coming("snd")
  PROVE  Agree'
<1>1. /\ pc' = pc /\ err' = err /\ pending' = pending
      /\ UNCHANGED <<cur, sent, todo, buf, meta, want, dest, dir>>
      /\ Alive("snd")' = Alive("snd") /\ Alive("rcv")' = Alive("rcv")
  BY DEF sndVars, rcvVars, Alive
<1>2. InPlace' /\ NoneAccuses'
  BY <1>1 DEF Agree, InPlace, NoneAccuses
<1>3. /\ ReceiverAt' = ReceiverAt
      /\ Alive("snd") /\ Alive("rcv") => SenderAt' = SenderAt
  BY <1>1 DEF ReceiverAt, SenderAt
<1>4. Forward'
  BY <1>1, <1>3 DEF Forward
<1>5. Backward'
  BY <1>1 DEF Backward
<1>6. InTurn'
  BY <1>1 DEF Agree, InTurn
<1>7. SenderTrue' /\ ReceiverTrue'
  BY <1>1 DEF Agree, SenderTrue, ReceiverTrue
<1>8. QED
  BY <1>2, <1>4, <1>5, <1>6, <1>7 DEF Agree

LEMMA AllStays ==
  ASSUME Footing, Agree, UNCHANGED <<pc, err, pending, sndVars, rcvVars>>,
         Coming("snd")' = Coming("snd") \/ ~Alive("snd"),
         Coming("rcv")' = Coming("rcv") \/ ~Alive("rcv")
  PROVE  Agree'
BY LinkAside DEF Agree, Forward, Backward

\* Whatever is lost of what a receiver that is gone has said, the sender
\* hears the beginning of it.
LEMMA HeardPrefix ==
  ASSUME NEW l, NEW c, NEW Q \in Seq(Message), Heard(l, c, "closed", Q),
         NEW P \in Seq(Message), Len(P) \in 0..Len(Q),
         \A k \in 1..Len(P) : P[k] = Q[k]
  PROVE  Heard(l, c, "closed", P)
<1>1. CASE Len(P) = 0
  <2>1. P = <<>>
    BY <1>1, EmptySeq
  <2>2. QED
    BY <2>1 DEF Heard
<1>2. CASE Len(P) = Len(Q)
  <2>1. P = Q
    BY <1>2, SeqEqual
  <2>2. QED
    BY <2>1
<1>3. CASE Len(P) # 0 /\ Len(P) # Len(Q)
  <2>1. Len(Q) \in Nat /\ Len(P) \in Nat /\ Len(P) < Len(Q) /\ Len(P) >= 1
    BY <1>3, LenProperties
  <2>2. Q # <<>> /\ (\A m : Q # <<m>>)
    BY <2>1
  <2>3. PICK m \in Answers(l, c) : Q = <<m, Cancel>>
    BY <2>2 DEF Heard
  <2>4. Len(Q) = 2 /\ Q[1] = m
    BY <2>3
  <2>5. Len(P) = 1 /\ P[1] = m
    BY <2>1, <2>4
  <2>6. m \in Message
    <3>1. 1 \in 1..Len(P)
      BY <2>5
    <3>2. P[1] \in Message
      BY <3>1, ElementOfSeq
    <3>3. QED
      BY <2>5, <3>2
  <2>7. P = <<m>>
    <3> DEFINE B == <<m>>
    <3>1. B \in Seq(Message) /\ Len(B) = 1 /\ B[1] = m
      BY <2>6
    <3> HIDE DEF B
    <3>2. Len(P) = Len(B) /\ \A i \in 1..Len(P) : P[i] = B[i]
      BY <2>5, <3>1
    <3>3. P = B
      BY <3>1, <3>2, SeqEqual
    <3>4. QED
      BY <3>3 DEF B
  <2>8. QED
    BY <2>7 DEF Heard
<1>4. QED
  BY <1>1, <1>2, <1>3

LEMMA DeliverAgrees ==
  ASSUME Footing, Agree, PumpOff, NEW s \in Side, Deliver(s), UNCHANGED <<sndVars, rcvVars>>
  PROVE  Agree'
<1>1. /\ UNCHANGED <<pc, err, pending>> /\ wire[s] # <<>> /\ Lines
      /\ wire' = [wire EXCEPT ![s] = Tail(@)] /\ pump[s] \in {"on", "off"}
  BY GroundFacts DEF Deliver, quiet
<1>2. wire'[Peer(s)] = wire[Peer(s)]
  BY <1>1, PeerSide DEF Lines
<1>3. CASE inbox' = [inbox EXCEPT ![s] = Append(@, Head(wire[s]))]
  <2>1. Coming(s)' = Coming(s)
    BY <1>1, <1>3, ComingDelivered
  <2>2. Coming(Peer(s))' = Coming(Peer(s))
    BY <1>1, <1>2, <1>3, PeerSide DEF Coming, Lines
  <2>3. Coming("snd")' = Coming("snd") /\ Coming("rcv")' = Coming("rcv")
    BY <2>1, <2>2 DEF Side, Peer
  <2>4. QED
    BY <1>1, <2>3, AllStays
<1>4. CASE pump[s] = "off" /\ inbox' = inbox
  <2>1. Coming(Peer(s))' = Coming(Peer(s))
    BY <1>2, <1>4 DEF Coming
  <2>2. ~Alive(s)
    BY <1>4 DEF PumpOff, Alive, Ended
  <2>3. /\ Coming("snd")' = Coming("snd") \/ ~Alive("snd")
        /\ Coming("rcv")' = Coming("rcv") \/ ~Alive("rcv")
    BY <2>1, <2>2 DEF Side, Peer
  <2>4. QED
    BY <1>1, <2>3, AllStays
<1>5. QED
  BY <1>3, <1>4 DEF Deliver

LEMMA LoseTailAgrees ==
  ASSUME Footing, Agree, NEW s \in Side, LoseTail(s), UNCHANGED <<sndVars, rcvVars>>
  PROVE  Agree'
<1>1. /\ UNCHANGED <<pc, err, pending, inbox>> /\ pc[Peer(s)] = "closed" /\ Lines
  BY GroundFacts DEF LoseTail, quiet, At
<1>2. PICK n \in 0..Len(wire[s])-1 : wire' = [wire EXCEPT ![s] = SubSeq(@, 1, n)]
  BY DEF LoseTail
<1>3. /\ Coming(s)' \in Seq(Message)
      /\ Len(Coming(s)') \in 0..Len(Coming(s))
      /\ \A k \in 1..Len(Coming(s)') : Coming(s)'[k] = Coming(s)[k]
  BY <1>1, <1>2, ComingCut
<1>4. Coming(Peer(s))' = Coming(Peer(s))
  <2>1. wire'[Peer(s)] = wire[Peer(s)]
    BY <1>1, <1>2, PeerSide DEF Lines
  <2>2. QED
    BY <1>1, <2>1 DEF Coming
<1>5. ~Alive(Peer(s)) /\ pc[Peer(s)] # "failed"
  BY <1>1 DEF Alive, Ended
<1>6. CASE s = "rcv"
  <2>1. ~Alive("snd") /\ pc["snd"] # "failed"
    BY <1>5, <1>6 DEF Peer
  <2>2. ASSUME Alive("rcv") PROVE \E q \in Int : Runs(cur, want, ReceiverAt, q, Coming("rcv")')
    <3>1. PICK q \in Int : Runs(cur, want, ReceiverAt, q, Coming("rcv"))
      BY <2>2 DEF Agree, Forward
    <3>2. Coming("rcv") \in Seq(Message) /\ ReceiverAt \in Int
      BY <2>2, GroundFacts
    <3>3. QED
      BY <1>3, <1>6, <3>1, <3>2, RunsPrefix
  <2>3. QED
    BY <1>1, <2>1, <2>2, LinkAside
<1>7. CASE s = "snd"
  <2>1. ~Alive("rcv") /\ pc["rcv"] = "closed"
    BY <1>1, <1>5, <1>7 DEF Peer
  <2>2. ASSUME Alive("snd") PROVE Heard(pc["snd"], cur, pc["rcv"], Coming("snd")')
    <3>1. Heard(pc["snd"], cur, "closed", Coming("snd"))
      BY <2>1, <2>2 DEF Agree, Backward
    <3>2. Coming("snd") \in Seq(Message)
      BY GroundFacts
    <3>3. QED
      BY <1>3, <1>7, <2>1, <3>1, <3>2, HeardPrefix
  <2>3. QED
    BY <1>1, <2>1, <2>2, LinkAside
<1>8. QED
  BY <1>6, <1>7 DEF Side

LEMMA OutsideAgrees ==
  ASSUME Footing, Agree, PumpOff, NetworkStep \/ UserStep \/ UNCHANGED vars
  PROVE  Agree'
<1>1. CASE NetworkStep
  <2>1. PICK s \in Side : Network(s) /\ UNCHANGED <<sndVars, rcvVars>>
    BY <1>1 DEF NetworkStep
  <2>2. CASE Deliver(s) \/ LoseTail(s)
    BY <2>1, <2>2, DeliverAgrees, LoseTailAgrees
  <2>3. CASE SeeClose(s) \/ RunOnClose(s)
    <3>1. UNCHANGED <<wire, inbox, pc, err, pending>>
      BY <2>3 DEF SeeClose, RunOnClose, quiet
    <3>2. QED
      BY <2>1, <3>1, AllStays DEF Coming
  <2>4. QED
    BY <2>1, <2>2, <2>3 DEF Network
<1>2. CASE \/ \E s \in Side : CancelCtx(s) /\ UNCHANGED <<sndVars, rcvVars>>
           \/ UNCHANGED vars
  <2>1. UNCHANGED <<wire, inbox, pc, err, pending, sndVars, rcvVars>>
    BY <1>2 DEF CancelCtx, vars, sessionVars
  <2>2. QED
    BY <2>1, AllStays DEF Coming
<1>3. CASE ChangeFile /\ UNCHANGED rcvVars
  <2>1. UNCHANGED <<wire, inbox, pc, err, pending, cur, sent, todo, buf, meta, want, dest, dir>>
    BY <1>3 DEF ChangeFile, sessionVars, rcvVars
  <2>2. /\ UNCHANGED <<Alive("snd"), Alive("rcv"), Coming("snd"), Coming("rcv")>>
        /\ UNCHANGED <<SenderAt, ReceiverAt>>
    BY <2>1 DEF Alive, Coming, SenderAt, ReceiverAt
  <2>3. UNCHANGED <<InPlace, NoneAccuses, SenderTrue, ReceiverTrue>>
    BY <2>1, <2>2 DEF InPlace, NoneAccuses, SenderTrue, ReceiverTrue
  <2>4. UNCHANGED <<Forward, Backward, InTurn>>
    BY <2>1, <2>2 DEF Forward, Backward, InTurn
  <2>5. QED
    BY <2>3, <2>4 DEF Agree
<1>4. QED
  BY <1>1, <1>2, <1>3 DEF UserStep

-----------------------------------------------------------------------------
(* The pumps, and honesty.                                                 *)

LEMMA SenderHonesty == SenderNext => disk' = disk
<1>1. BothSides("snd") /\ UNCHANGED sndVars => disk' = disk
  BY DEF sndVars
<1>2. SendManifest \/ WaitReply \/ StartFile \/ OpenFile \/ Poll => disk' = disk
  BY DEF SendManifest, WaitReply, StartFile, OpenFile, Poll, sndVars
<1>3. ReadFile \/ WriteChunk \/ EndFile \/ WaitAck \/ SendDone => disk' = disk
  BY DEF ReadFile, WriteChunk, EndFile, WaitAck, SendDone, sndVars
<1>4. QED
  BY <1>1, <1>2, <1>3 DEF SenderNext

\* A file whose length has changed keeps its new length.
LEMMA HonestyIsLost ==
  ASSUME TypeOK, [Next]_vars, Honest'
  PROVE  Honest
<1>1. CASE disk' = disk
  BY <1>1 DEF Honest
<1>2. CASE ChangeFile
  BY <1>2 DEF ChangeFile, Honest, TypeOK, SenderTypeOK
<1>3. QED
  BY <1>1, <1>2, SenderHonesty
     DEF Next, SenderStep, ReceiverStep, NetworkStep, UserStep, sndVars, vars

\* s stops its pump only on its way out.
Pumps(s) ==
  /\ \A t \in Side \ {s} : pump'[t] = pump[t]
  /\ pump'[s] = "off" => \/ pump[s] = "off" /\ pc[s] \notin {"returned", "closed"}
                         \/ pc'[s] \in {"returned", "closed"}

LEMMA BothSidesPump ==
  ASSUME Core, Link, NEW s \in Side, BothSides(s)
  PROVE  Pumps(s)
<1>1. CASE NewSession(s)
  BY <1>1 DEF NewSession, Link, Pumps
<1>2. CASE SendHello(s)
  BY <1>2 DEF SendHello, At, linkVars, Pumps
<1>3. CASE WaitHello(s)
  BY <1>3 DEF WaitHello, At, linkVars, Pumps
<1>4. CASE Abort(s) \/ CloseConn(s)
  <2>1. pc'[s] \in {"returned", "closed"}
    BY <1>4 DEF Abort, CloseConn, GoTo, Core
  <2>2. \A t \in Side \ {s} : pump'[t] = pump[t]
    BY <1>4 DEF Abort, CloseConn, Link
  <2>3. QED
    BY <2>1, <2>2 DEF Pumps
<1>5. QED
  BY <1>1, <1>2, <1>3, <1>4 DEF BothSides

LEMMA SucceedPumps ==
  ASSUME Core, Link, NEW s \in Side, Succeed(s)
  PROVE  Pumps(s)
BY DEF Succeed, Core, Link, Pumps

LEMMA SenderPumps ==
  ASSUME Core, Link, SenderNext
  PROVE  Pumps("snd")
<1>1. "snd" \in Side
  BY DEF Side
<1>2. CASE BothSides("snd")
  BY <1>1, <1>2, BothSidesPump
<1>3. CASE SendManifest \/ WaitReply \/ StartFile \/ OpenFile \/ Poll
  BY <1>3 DEF SendManifest, WaitReply, StartFile, OpenFile, Poll, At, linkVars, Pumps
<1>4. CASE ReadFile \/ WriteChunk \/ EndFile \/ WaitAck
  BY <1>4 DEF ReadFile, WriteChunk, EndFile, WaitAck, At, linkVars, Pumps
<1>5. CASE SendDone
  <2>1. Succeed("snd") \/ (pc["snd"] = "nextFile" /\ pump' = pump)
    BY <1>5 DEF SendDone, At
  <2>2. QED
    BY <1>1, <2>1, SucceedPumps DEF Pumps
<1>6. QED
  BY <1>2, <1>3, <1>4, <1>5 DEF SenderNext

LEMMA ReceiverPumps ==
  ASSUME Core, Link, ReceiverNext
  PROVE  Pumps("rcv")
<1>1. "rcv" \in Side
  BY DEF Side
<1>2. CASE BothSides("rcv")
  BY <1>1, <1>2, BothSidesPump
<1>3. CASE NoDestination \/ WaitManifest \/ Decide
  BY <1>3 DEF NoDestination, WaitManifest, Decide, At, linkVars, Pumps
<1>4. CASE WaitFileStart \/ ReceiveChunks
  BY <1>4 DEF WaitFileStart, ReceiveChunks, At, linkVars, Pumps
<1>5. CASE WaitDone
  <2>1. Succeed("rcv") \/ (pc["rcv"] = "waitDone" /\ pump' = pump)
    BY <1>5 DEF WaitDone, At
  <2>2. QED
    BY <1>1, <2>1, SucceedPumps DEF Pumps
<1>6. QED
  BY <1>2, <1>3, <1>4, <1>5 DEF ReceiverNext

LEMMA PumpsOff ==
  ASSUME Parts, Candor, PumpOff, [Next]_vars
  PROVE  PumpOff'
<1>1. Core /\ Link
  BY DEF Parts
<1>2. ASSUME NEW s \in Side, Acts(s), Pumps(s) PROVE PumpOff'
  <2>1. \A t \in Side \ {s} : pc'[t] = pc[t] /\ pump'[t] = pump[t]
    BY <1>2 DEF Acts, Pumps
  <2>2. pump'[s] = "off" => pc'[s] \in {"returned", "closed"}
    BY <1>2 DEF Pumps, PumpOff
  <2>3. QED
    BY <2>1, <2>2 DEF PumpOff
<1>3. CASE SenderStep
  BY <1>1, <1>2, <1>3, SenderActs, SenderPumps DEF SenderStep, Side
<1>4. CASE ReceiverStep
  BY <1>1, <1>2, <1>4, ReceiverActs, ReceiverPumps DEF ReceiverStep, Side
<1>5. CASE NetworkStep
  <2>1. pc' = pc /\ pump' = pump
    BY <1>5 DEF NetworkStep, Network, Deliver, LoseTail, SeeClose, RunOnClose, quiet, linkVars
  <2>2. QED
    BY <2>1 DEF PumpOff
<1>6. CASE UserStep \/ UNCHANGED vars
  <2>1. pc' = pc /\ pump' = pump
    BY <1>6 DEF UserStep, CancelCtx, ChangeFile, sessionVars, linkVars, vars
  <2>2. QED
    BY <2>1 DEF PumpOff
<1>7. QED
  BY <1>3, <1>4, <1>5, <1>6 DEF Next

LEMMA NextConcord ==
  ASSUME Parts, Parts', Candor, Concord, [Next]_vars
  PROVE  Concord'
<1>1. Footing /\ Footing' /\ TypeOK
  <2>1. Footing
    BY PartsFooting
  <2>2. Footing'
    BY PartsFooting, PTL
  <2>3. QED
    BY <2>1, <2>2 DEF Footing
<1>2. PumpOff'
  BY PumpsOff DEF Concord
<1>3. ASSUME Honest' PROVE Agree'
  <2>1. Honest /\ Agree /\ PumpOff
    BY <1>1, <1>3, HonestyIsLost DEF Concord
  <2>2. QED
    BY <1>1, <2>1, SenderAgrees, ReceiverAgrees, OutsideAgrees DEF Next
<1>4. QED
  BY <1>2, <1>3 DEF Concord

LEMMA InitConcord == Init => Concord
<1> SUFFICES ASSUME Init PROVE Concord
  OBVIOUS
<1>1. /\ pc["snd"] = "init" /\ pc["rcv"] = "init"
      /\ \A s \in Side : /\ pc[s] = "init" /\ err[s] = "none" /\ pump[s] = "none"
                         /\ pending[s] = <<>> /\ wire[s] = <<>> /\ inbox[s] = <<>>
  BY DEF Init, SessionInit, Side
<1>2. PumpOff
  BY <1>1 DEF PumpOff
<1>3. Coming("snd") = <<>> /\ Coming("rcv") = <<>>
  <2>1. \A t \in Seq(Message) : <<>> \o t = t
    BY ConcatEmptySeq
  <2>2. <<>> \o <<>> = <<>>
    BY <2>1, EmptySeq
  <2>3. QED
    BY <1>1, <2>2 DEF Coming, Side
<1>4. InPlace /\ NoneAccuses /\ SenderTrue /\ ReceiverTrue
  BY <1>1 DEF InPlace, NoneAccuses, SenderTrue, ReceiverTrue, Accusations, Filing,
              SenderLabels, ReceiverLabels, Greeting
<1>5. SenderAt = -4 /\ ReceiverAt = -4
  BY <1>1, SenderPoints, ReceiverPoints DEF SenderAt, ReceiverAt, Greeting
<1>6. Forward
  <2>1. PICK p \in Int : p = -4
    OBVIOUS
  <2>2. Runs(cur, want, p, p, <<>>)
    BY RunsEmpty
  <2>3. QED
    BY <1>1, <1>3, <1>5, <2>1, <2>2 DEF Forward
<1>7. Backward /\ InTurn
  BY <1>1, <1>3 DEF Backward, InTurn, Heard, Together, Greeting
<1>8. QED
  BY <1>2, <1>4, <1>6, <1>7 DEF Concord, Agree

\* Two jsi programs never accuse each other of breaking TP/1, whatever is
\* cancelled, lost, closed or failing: only a changed file can do it.
THEOREM HonestPeersNeverAccuse == Spec => []HonestPeersAgree
<1>1. Init => Parts /\ Candor /\ Concord
  BY InitParts, InitCandor, InitConcord
<1>2. Parts /\ Candor /\ Concord /\ [Next]_vars => Parts' /\ Candor' /\ Concord'
  BY NextParts, NextCandor, NextConcord
<1>3. Concord => HonestPeersAgree
  BY DEF Concord, Honest, Agree, NoneAccuses, Accusations, HonestPeersAgree
<1>4. QED
  BY <1>1, <1>2, <1>3, PTL DEF Spec
=============================================================================
