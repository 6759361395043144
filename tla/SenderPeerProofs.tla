-------------------------- MODULE SenderPeerProofs ---------------------------
(***************************************************************************)
(* Whatever its peer sends, and when, Send speaks TP/1, sends only what    *)
(* was accepted, and tells its peer how the call ended: for any files, any *)
(* messages of the peer, and any chunk size, inbox and watermark.          *)
(***************************************************************************)
EXTENDS SenderPeer, SessionProofs

-----------------------------------------------------------------------------
(* The inductive invariant.                                                *)

Unanswered == {"init", "hello", "waitHello", "manifest", "waitReply"}
InFile     == {"open", "loop", "read", "write", "fileEnd"}
Busy       == InFile \cup {"waitAck"}
SendOk     == err["snd"] = "nil"

\* What Send keeps about its files, by where it stands.
Shape ==
  /\ Core /\ chan \in [Side -> {"open", "hook", "closed"}]
  /\ pc["snd"] \in Unanswered \cup Busy \cup {"nextFile"} \cup Ended
  /\ accepted \subseteq Files /\ todo \subseteq accepted
  /\ cur \in Files /\ sent \in Nat /\ buf \in 0..ChunkSize
  /\ disk \in [Files -> Nat]
  /\ pc["snd"] \in Unanswered => accepted = {}
  /\ pc["snd"] \in Busy \cup {"nextFile"} => accepted # {}
  /\ pc["snd"] \in Busy => IsNext(cur, todo)
  /\ pc["snd"] = "open" => sent = 0
  /\ pc["snd"] = "write" => buf > 0
  /\ pc["snd"] = "fileEnd" => sent = Size[cur]
  /\ pc["snd"] \notin Ended => err["snd"] = "none"
  /\ SendOk => /\ pc["snd"] \in {"returned", "closed"}
               /\ todo = {} /\ accepted # {}

\* What Send may have said when the files in ids are accepted, and when it
\* has succeeded or not.
Allowed(ids, ok) ==
  {m \in Message :
     /\ m.t = "chunk" => \A k \in 1..Len(m.data) : m.data[k][1] \in ids
     /\ m.t = "done" => ok}
Given(ids, ok) == [s \in Side |-> IF s = "rcv" THEN Allowed(ids, ok) ELSE Message]

\* Where the reader stands when Send stands there.
Script ==
  /\ reader \in [at   : {"start", "greeted", "idle", "file", "over"},
                 file : Int, got : Content]
  /\ pc["snd"] \in {"init", "hello"} => reader.at = "start"
  /\ pc["snd"] \in {"waitHello", "manifest"} => reader.at = "greeted"
  /\ pc["snd"] \in {"waitReply", "nextFile", "waitAck"} => reader.at = "idle"
  /\ pc["snd"] \in Unanswered => reader.file = -1
  /\ pc["snd"] = "nextFile" => /\ \A id \in todo : reader.file < id
                               /\ todo # {} \/ reader.file >= 0
  /\ pc["snd"] \in Busy => reader.file = cur
  /\ pc["snd"] \in InFile => reader.at = "file" /\ reader.got = FileData(cur, sent)

\* The last word is said once.
Ending ==
  LET told == \/ reader.at = "over"
              \/ chan["snd"] # "open"
              \/ err["snd"] \in {"peer-cancel", "peer-error"}
  IN  /\ pc["snd"] \notin Ended => ~signaled["snd"]
      /\ pc["snd"] = "failed" /\ signaled["snd"] => told
      /\ pc["snd"] = "failed" /\ ~signaled["snd"] => reader.at # "over"
      /\ pc["snd"] = "returned" => told

PeerInductive ==
  /\ Shape /\ Script /\ Ending
  /\ Queues(Given(accepted, SendOk))

-----------------------------------------------------------------------------
(* Files.                                                                  *)

LEMMA FilesAreNat == Files \subseteq Nat /\ 0 \in Files /\ NumFiles \in Nat \ {0}
<1>1. NumFiles \in Nat /\ NumFiles >= 1
  BY LimitsAssumption, SenderAssumption
<1> QED BY <1>1 DEF Files

LEMMA MetasAreTyped == Manifest(Metas) \in Message
<1>1. ASSUME NEW i \in 1..NumFiles
      PROVE  [id |-> i - 1, name |-> Name[i - 1], size |-> Size[i - 1]] \in FileMeta
  <2>1. i - 1 \in Files
    BY <1>1, FilesAreNat DEF Files
  <2>2. Name[i - 1] \in Names /\ Size[i - 1] \in Int /\ i - 1 \in Int
    BY <2>1, FilesAreNat, LimitsAssumption, SenderAssumption
  <2> QED BY <2>2 DEF FileMeta
<1>2. Metas \in [1..NumFiles -> FileMeta]
  BY <1>1 DEF Metas
<1>3. Metas \in Seq(FileMeta)
  BY <1>2, FilesAreNat, SeqDef
<1> QED BY <1>3 DEF Manifest, Message

\* Reading on where one left off.
LEMMA DataContinues ==
  ASSUME NEW file \in Int, NEW n \in Nat, NEW k \in Nat
  PROVE  FileData(file, n) \o Slice(file, n, k) = FileData(file, n + k)
<1> DEFINE a == FileData(file, n)
           b == Slice(file, n, k)
           c == FileData(file, n + k)
<1>1. a \in Seq(Unit) /\ Len(a) = n /\ b \in Seq(Unit) /\ Len(b) = k
  BY SliceTyped DEF FileData, Content
<1>2. c \in Seq(Unit) /\ Len(c) = n + k
  BY SliceTyped DEF FileData, Content
<1>3. \A i \in 1..n : a[i] = <<file, 0 + i>>
  BY DEF FileData, Slice
<1>4. \A i \in 1..k : b[i] = <<file, n + i>>
  BY DEF Slice
<1>5. \A i \in 1..(n + k) : c[i] = <<file, 0 + i>>
  BY DEF FileData, Slice
<1> HIDE DEF a, b, c
<1>6. PICK d : d = a \o b
  OBVIOUS
<1>7. /\ d \in Seq(Unit) /\ Len(d) = n + k
      /\ \A i \in 1..(n + k) : d[i] = IF i <= n THEN a[i] ELSE b[i - n]
  BY <1>1, <1>6, ConcatProperties
<1>8. ASSUME NEW i \in 1..(n + k) PROVE d[i] = c[i]
  <2>1. c[i] = <<file, 0 + i>> /\ d[i] = IF i <= n THEN a[i] ELSE b[i - n]
    BY <1>5, <1>7
  <2>2. CASE i <= n
    BY <2>1, <2>2, <1>3
  <2>3. CASE i > n
    <3>1. i - n \in 1..k /\ n + (i - n) = 0 + i
      BY <2>3
    <3> QED BY <2>1, <2>3, <3>1, <1>4
  <2> QED BY <2>2, <2>3
<1>9. d = c
  BY <1>2, <1>7, <1>8, SeqEqual
<1> QED BY <1>6, <1>9 DEF a, b, c

-----------------------------------------------------------------------------
(* Messages.                                                               *)

LEMMA GivenIsKinds ==
  ASSUME NEW ids, NEW ok
  PROVE  /\ Kinds(Given(ids, ok)) /\ Given(ids, ok)[Peer("snd")] = Allowed(ids, ok)
         /\ Common \subseteq Allowed(ids, ok)
<1>1. Common \subseteq Allowed(ids, ok)
  BY CommonMessages DEF Common, Allowed, Hello, Cancel, ErrorMsg
<1>2. Given(ids, ok) \in [Side -> SUBSET Message]
  BY DEF Given, Allowed
<1> QED BY <1>1, <1>2, CommonMessages DEF Kinds, Typed, Given, Peer, Side

\* What Send said stays allowed when files are accepted or it succeeds.
LEMMA GivenGrows ==
  ASSUME NEW ids, NEW ok, NEW more, NEW then, ids \subseteq more, ok => then,
         Queues(Given(ids, ok))
  PROVE  Queues(Given(more, then))
<1>1. \A s \in Side : Given(ids, ok)[s] \subseteq Given(more, then)[s]
  BY DEF Given, Allowed
<1> QED BY <1>1, SeqMonotonic DEF Queues, Holds

LEMMA QueuesKept ==
  ASSUME PeerInductive, accepted \subseteq accepted', SendOk => SendOk',
         Speaks("snd", Allowed(accepted', SendOk'))
  PROVE  Queues(Given(accepted, SendOk))'
<1> PICK G : G = Given(accepted', SendOk')
  OBVIOUS
<1>1. Queues(G)
  BY GivenGrows DEF PeerInductive
<1>2. Queues(G)'
  BY <1>1, GivenIsKinds, SpeaksHolds DEF Side
<1> QED BY <1>2 DEF Queues

LEMMA ReaderHears ==
  ASSUME PeerInductive, SendStep, NEW m, Post("snd", m)
  PROVE  reader' = Follow(reader, m)
<1>1. wire["rcv"] \in Seq(Message)
  BY DEF PeerInductive, Queues, Holds, Side
<1>2. wire["rcv"]' = Append(wire["rcv"], m)
  BY DEF Post, Peer, PeerInductive, Queues, Holds, Side
<1>3. /\ Len(wire["rcv"]') = Len(wire["rcv"]) + 1 /\ Len(wire["rcv"]) \in Nat
      /\ wire["rcv"]'[Len(wire["rcv"]')] = m
  BY <1>1, <1>2
<1> QED BY <1>3 DEF SendStep, Last

LEMMA ReaderWaits ==
  ASSUME SendStep, UNCHANGED wire
  PROVE  reader' = reader
BY DEF SendStep

LEMMA ReadsLastWord ==
  ASSUME NEW r, r.at \notin {"over", "wrong"}, NEW m, m.t \in {"cancel", "error"}
  PROVE  Follow(r, m) = [r EXCEPT !.at = "over"]
BY DEF Follow, Hello, Manifest, FileEnd, Done

-----------------------------------------------------------------------------
(* The steps of Send.                                                      *)

\* A step in which the call fails.
LEMMA FailureKeeps ==
  ASSUME PeerInductive, SendStep, pc["snd"] \notin Ended, Core',
         Concludes("snd"), NoInput \/ Consume("snd"),
         UNCHANGED <<chan, accepted, todo, disk>>,
         cur' \in Files, sent' \in Nat, buf' \in 0..ChunkSize
  PROVE  PeerInductive'
<1> USE DEF PeerInductive
<1>1. Shape' /\ SendOk = FALSE /\ SendOk' = FALSE
  BY DEF Shape, Concludes, SendOk, Ended, Unanswered, Busy, InFile
<1>2. LastWords \subseteq Allowed(accepted, SendOk)
  BY GivenIsKinds DEF LastWords, Common
<1>3. Speaks("snd", Allowed(accepted', SendOk'))
  BY <1>1, <1>2 DEF Concludes, Speaks
<1>4. Queues(Given(accepted, SendOk))'
  BY <1>1, <1>3, QueuesKept
<1>5. reader.at \notin {"over", "wrong"} /\ ~signaled["snd"]
  BY DEF Shape, Script, Ending, Unanswered, Busy, InFile
<1>6. ASSUME UNCHANGED wire,
             UNCHANGED signaled \/ err'["snd"] \in {"peer-cancel", "peer-error"}
      PROVE  PeerInductive'
  <2>1. reader' = reader
    BY <1>6, ReaderWaits
  <2>2. Script' /\ Ending'
    BY <1>5, <1>6, <2>1 DEF Concludes, Script, Ending, Ended, Unanswered, Busy, InFile
  <2> QED BY <1>1, <1>4, <2>2
<1>7. ASSUME NEW m \in LastWords, Post("snd", m), signaled'["snd"]
      PROVE  PeerInductive'
  <2>1. reader' = [reader EXCEPT !.at = "over"]
    BY <1>5, <1>7, ReaderHears, ReadsLastWord DEF LastWords, ErrorMsg
  <2> QED BY <1>1, <1>4, <1>5, <1>7, <2>1
          DEF Concludes, Script, Ending, Ended, Unanswered, Busy, InFile
<1> QED BY <1>6, <1>7 DEF Concludes

\* A step that says nothing and after which Send runs on.
LEMMA SilentStepKeeps ==
  ASSUME PeerInductive, SendStep, Shape', pc'["snd"] \notin Ended,
         pc["snd"] \notin Ended, UNCHANGED <<wire, signaled, chan>>,
         NoInput \/ Consume("snd") \/ Defer("snd"),
         accepted \subseteq accepted', Script'
  PROVE  PeerInductive'
<1> USE DEF PeerInductive
<1>1. SendOk = FALSE /\ SendOk' = FALSE
  BY DEF Shape, SendOk, Ended
<1>2. Queues(Given(accepted, SendOk))'
  BY <1>1, QueuesKept DEF Speaks
<1>3. Ending'
  BY DEF Ending, Ended
<1> QED BY <1>2, <1>3

\* A message Send cannot send any more ends its call.
LEMMA UnsentKeeps ==
  ASSUME PeerInductive, SendStep, pc["snd"] \notin Ended, ~CanSend("snd"),
         NEW m, NEW label, Control("snd", m, label), NoInput,
         UNCHANGED <<signaled, chan, accepted, todo, disk>>,
         cur' \in Files, sent' \in Nat, buf' \in 0..ChunkSize
  PROVE  PeerInductive'
<1>1. FailWith("snd", "send") /\ UNCHANGED wire
  BY DEF Control
<1>2. Concludes("snd") /\ Core'
  BY <1>1, FailConcludes, FailMoves DEF Errors, Core, PeerInductive, Shape, Side
<1> QED BY <1>2, FailureKeeps

\* A message after which Send runs on.
LEMMA SpokenKeeps ==
  ASSUME PeerInductive, SendStep, Shape', Script',
         pc["snd"] \notin Ended, pc'["snd"] \notin Ended,
         NEW m \in Allowed(accepted, FALSE), Post("snd", m), NoInput,
         UNCHANGED <<signaled, chan, accepted>>
  PROVE  PeerInductive'
<1> USE DEF PeerInductive
<1>1. SendOk = FALSE /\ SendOk' = FALSE
  BY DEF Shape, SendOk, Ended
<1>2. Queues(Given(accepted, SendOk))'
  BY <1>1, QueuesKept DEF Speaks
<1>3. Ending'
  BY DEF Ending, Ended
<1> QED BY <1>2, <1>3

LEMMA BothSidesKeep ==
  ASSUME PeerInductive, SendStep, BothSides("snd"), UNCHANGED sndVars
  PROVE  PeerInductive'
<1> USE DEF PeerInductive
<1>0. /\ UNCHANGED <<accepted, todo, cur, sent, buf, disk>>
      /\ Core /\ "snd" \in Side
  BY DEF sndVars, Shape, Side
<1>1. CASE NewSession("snd")
  <2>1. /\ pc["snd"] = "init" /\ pc' = [pc EXCEPT !["snd"] = "hello"]
        /\ UNCHANGED <<wire, signaled, chan, err>> /\ NoInput /\ reader' = reader
    BY <1>1, ReaderWaits DEF NewSession, At, GoTo
  <2>2. Shape' /\ Script'
    BY <1>0, <2>1 DEF Shape, Script, Core, Labels, SendOk, Ended, Unanswered, Busy, InFile
  <2> QED BY <1>0, <2>1, <2>2, SilentStepKeeps DEF Ended, Core
<1>2. CASE SendHello("snd")
  <2>1. /\ pc["snd"] = "hello" /\ NoInput /\ UNCHANGED <<signaled, chan>>
        /\ Control("snd", Hello(Version), "waitHello")
    BY <1>2 DEF SendHello, At, linkVars
  <2>2. CASE CanSend("snd")
    <3>1. /\ Post("snd", Hello(Version)) /\ err' = err
          /\ pc' = [pc EXCEPT !["snd"] = "waitHello"]
      BY <2>1, <2>2 DEF Control, GoTo
    <3>2. reader' = [reader EXCEPT !.at = "greeted"]
      BY <2>1, <3>1, ReaderHears DEF Follow, Hello, Script
    <3>3. Shape' /\ Script' /\ pc'["snd"] \notin Ended
      BY <1>0, <2>1, <3>1, <3>2
         DEF Shape, Script, Core, Labels, SendOk, Ended, Unanswered, Busy, InFile
    <3>4. Hello(Version) \in Allowed(accepted, FALSE)
      BY GivenIsKinds DEF Common
    <3> QED BY <1>0, <2>1, <3>1, <3>3, <3>4, SpokenKeeps DEF Ended
  <2>3. CASE ~CanSend("snd")
    BY <1>0, <2>1, <2>3, UnsentKeeps DEF Shape, Ended
  <2> QED BY <2>2, <2>3
<1>3. CASE WaitHello("snd")
  <2>1. /\ pc["snd"] = "waitHello" /\ UNCHANGED chan
        /\ NoInput \/ Consume("snd")
    BY <1>3 DEF WaitHello, At, linkVars, WaitFails, TakeTerminal, TakeHello, TakeNotHello, Take
  <2>2. Core'
    BY <1>0, <1>3, WaitHelloMoves, GivenIsKinds DEF Shape
  <2>3. CASE Concludes("snd")
    BY <1>0, <2>1, <2>2, <2>3, FailureKeeps DEF Shape, Ended
  <2>4. CASE GoTo("snd", "manifest") /\ UNCHANGED <<wire, signaled>>
    <3>1. reader' = reader
      BY <2>4, ReaderWaits
    <3>2. Shape' /\ Script' /\ pc'["snd"] \notin Ended
      BY <1>0, <2>1, <2>2, <2>4, <3>1
         DEF Shape, Script, Core, GoTo, SendOk, Ended, Unanswered, Busy, InFile
    <3> QED BY <1>0, <2>1, <2>4, <3>2, SilentStepKeeps DEF Ended
  <2> QED BY <1>0, <1>3, <2>3, <2>4, WaitHelloConcludes DEF AfterHello
<1>4. CASE Abort("snd")
  <2>1. /\ pc["snd"] = "failed" /\ pc' = [pc EXCEPT !["snd"] = "returned"]
        /\ UNCHANGED <<err, signaled, chan>> /\ NoInput
        /\ IF ~signaled["snd"] /\ CanSend("snd") THEN Post("snd", Cancel) ELSE UNCHANGED wire
    BY <1>4 DEF Abort, At, GoTo
  <2>2. Shape' /\ SendOk' = SendOk
    BY <1>0, <2>1 DEF Shape, Core, Labels, SendOk, Ended, Unanswered, Busy, InFile
  <2>3. Speaks("snd", Allowed(accepted', SendOk'))
    BY <1>0, <2>1, GivenIsKinds DEF Speaks, Common
  <2>4. CASE ~signaled["snd"] /\ CanSend("snd")
    <3>1. reader.at \notin {"over", "wrong"}
      BY <2>1, <2>4 DEF Ending, Script
    <3>2. reader' = [reader EXCEPT !.at = "over"]
      BY <2>1, <2>4, <3>1, ReaderHears, ReadsLastWord DEF Cancel
    <3>3. Script' /\ Ending'
      BY <2>1, <3>2, <1>0 DEF Script, Ending, Shape, Core, Ended, Unanswered, Busy, InFile
    <3> QED BY <1>0, <2>2, <2>3, <3>3, QueuesKept
  <2>5. CASE ~(~signaled["snd"] /\ CanSend("snd"))
    <3>1. reader' = reader
      BY <2>1, <2>5, ReaderWaits
    <3>2. Script' /\ Ending'
      BY <2>1, <2>5, <3>1, <1>0
         DEF Script, Ending, CanSend, Shape, Core, Ended, Unanswered, Busy, InFile
    <3> QED BY <1>0, <2>2, <2>3, <3>2, QueuesKept
  <2> QED BY <2>4, <2>5
<1>5. CASE CloseConn("snd")
  <2>1. /\ pc["snd"] = "returned" /\ pc' = [pc EXCEPT !["snd"] = "closed"]
        /\ UNCHANGED <<err, signaled, wire>> /\ NoInput /\ reader' = reader
        /\ chan' = [chan EXCEPT !["snd"] = "closed"]
    BY <1>5, ReaderWaits DEF CloseConn, At, GoTo
  <2>2. Shape' /\ Script' /\ Ending' /\ SendOk' = SendOk
    BY <1>0, <2>1
       DEF Shape, Script, Ending, Core, Labels, SendOk, Ended, Unanswered, Busy, InFile
  <2> QED BY <1>0, <2>1, <2>2, QueuesKept DEF Speaks
<1> QED BY <1>1, <1>2, <1>3, <1>4, <1>5 DEF BothSides

LEMMA SendManifestKeeps ==
  ASSUME PeerInductive, SendStep, SendManifest
  PROVE  PeerInductive'
<1> USE DEF PeerInductive
<1>1. /\ pc["snd"] = "manifest" /\ NoInput
      /\ UNCHANGED <<signaled, chan, accepted, todo, cur, sent, buf, disk>>
      /\ Control("snd", Manifest(Metas), "waitReply")
  BY DEF SendManifest, At, linkVars, sndVars
<1>2. CASE CanSend("snd")
  <2>1. /\ Post("snd", Manifest(Metas)) /\ err' = err
        /\ pc' = [pc EXCEPT !["snd"] = "waitReply"]
    BY <1>1, <1>2 DEF Control, GoTo
  <2>2. reader' = [reader EXCEPT !.at = "idle"]
    BY <1>1, <2>1, ReaderHears DEF Follow, Hello, Manifest, FileEnd, Done, Script
  <2>3. Shape' /\ pc'["snd"] \notin Ended
    BY <1>1, <2>1
       DEF Shape, Core, Side, Labels, SendOk, Ended, Unanswered, Busy, InFile
  <2>4. Script'
    BY <1>1, <2>1, <2>2
       DEF Script, Shape, Core, Side, Ended, Unanswered, Busy, InFile
  <2>5. Manifest(Metas) \in Allowed(accepted, FALSE)
    BY MetasAreTyped DEF Manifest, Allowed
  <2> QED BY <1>1, <2>1, <2>3, <2>4, <2>5, SpokenKeeps DEF Ended
<1>3. CASE ~CanSend("snd")
  BY <1>1, <1>3, UnsentKeeps DEF Shape, Ended
<1> QED BY <1>2, <1>3

\* The waits for a reply and for an ack, when nothing they wait for comes.
LEMMA WaitOtherKeeps ==
  ASSUME PeerInductive, SendStep, pc["snd"] \notin Ended,
         NEW expected, WaitOther("snd", expected),
         UNCHANGED <<chan, accepted, todo, cur, sent, buf, disk>>
  PROVE  PeerInductive'
<1> USE DEF PeerInductive
<1>1. NoInput \/ Consume("snd")
  BY DEF WaitOther, WaitFails, TakeTerminal, TakeUnknown, TakeUnexpected, Take
<1>2. Core'
  BY WaitOtherMoves, GivenIsKinds DEF Shape, Side
<1>3. CASE Concludes("snd")
  BY <1>1, <1>2, <1>3, FailureKeeps DEF Shape
<1>4. CASE UNCHANGED <<wire, signaled, pc, err>>
  <2>1. reader' = reader
    BY <1>4, ReaderWaits
  <2>2. Shape' /\ Script'
    BY <1>2, <1>4, <2>1 DEF Shape, Script, SendOk
  <2> QED BY <1>1, <1>4, <2>2, SilentStepKeeps
<1> QED BY <1>3, <1>4, WaitOtherConcludes DEF Shape, Side

LEMMA ProtocolErrorKeeps ==
  ASSUME PeerInductive, SendStep, pc["snd"] \notin Ended,
         ProtocolError("snd"), Consume("snd"),
         UNCHANGED <<chan, accepted, todo, cur, sent, buf, disk>>
  PROVE  PeerInductive'
<1>1. Concludes("snd") /\ Core'
  BY ProtocolErrorConcludes, ProtocolErrorMoves, GivenIsKinds DEF PeerInductive, Shape, Side
<1> QED BY <1>1, FailureKeeps DEF PeerInductive, Shape

\* A failure of its own, or one a message tells of.
LEMMA FailKeeps ==
  ASSUME PeerInductive, SendStep, pc["snd"] \notin Ended,
         NEW e \in Errors \ {"none", "nil"}, FailWith("snd", e), UNCHANGED <<wire, signaled>>,
         NoInput \/ Consume("snd"),
         UNCHANGED <<chan, accepted, todo, cur, disk>>,
         sent' \in Nat, buf' \in 0..ChunkSize
  PROVE  PeerInductive'
<1>1. Concludes("snd") /\ Core'
  BY FailConcludes, FailMoves DEF PeerInductive, Shape, Core, Side
<1> QED BY <1>1, FailureKeeps DEF PeerInductive, Shape

LEMMA WaitReplyKeeps ==
  ASSUME PeerInductive, SendStep, WaitReply
  PROVE  PeerInductive'
<1> USE DEF PeerInductive
<1>1. /\ pc["snd"] = "waitReply" /\ pc["snd"] \notin Ended
      /\ UNCHANGED <<chan, cur, sent, buf, disk>>
  BY DEF WaitReply, At, linkVars, Ended
<1>2. CASE TakeAccept /\ ValidAccept(NextMsg("snd").ids, NumFiles)
  <2>1. /\ Consume("snd") /\ UNCHANGED <<wire, signaled, err>> /\ reader' = reader
        /\ accepted' = ResolveAccept(NextMsg("snd").ids, NumFiles) /\ todo' = accepted'
        /\ pc' = [pc EXCEPT !["snd"] = "nextFile"]
    BY <1>2, ReaderWaits DEF TakeAccept, Take, GoTo
  <2>2. accepted' \subseteq Files /\ accepted' # {} /\ accepted = {}
    BY <1>1, <1>2, <2>1, FilesAreNat DEF ValidAccept, ResolveAccept, Files, Shape, Unanswered
  <2>3. Shape'
    BY <1>1, <2>1, <2>2 DEF Shape, Core, Side, Labels, SendOk, Ended, Unanswered, Busy, InFile
  <2>4. Script'
    BY <1>1, <2>1, <2>2, FilesAreNat DEF Shape, Core, Script, Ended, Unanswered, Busy, InFile
  <2> QED BY <1>1, <2>1, <2>2, <2>3, <2>4, SilentStepKeeps DEF Shape, Core, Ended
<1>3. CASE TakeAccept /\ ~ValidAccept(NextMsg("snd").ids, NumFiles)
  BY <1>1, <1>3, ProtocolErrorKeeps DEF TakeAccept, Take
<1>4. CASE TakeReject
  BY <1>1, <1>4, FailKeeps DEF TakeReject, Take, Errors, Shape
<1>5. CASE WaitOther("snd", {"accept", "reject"}) /\ UNCHANGED <<accepted, todo>>
  BY <1>1, <1>5, WaitOtherKeeps
<1> QED BY <1>2, <1>3, <1>4, <1>5 DEF WaitReply

LEMMA NothingRead == \A file \in Int : FileData(file, 0) = <<>>
<1>1. ASSUME NEW file \in Int PROVE FileData(file, 0) = <<>>
  <2>1. FileData(file, 0) \in Seq(Unit) /\ Len(FileData(file, 0)) = 0
    BY SliceTyped DEF FileData, Content
  <2> QED BY <2>1, EmptySeq
<1> QED BY <1>1

LEMMA StartFileKeeps ==
  ASSUME PeerInductive, SendStep, StartFile
  PROVE  PeerInductive'
<1> USE DEF PeerInductive
<1>1. PICK id \in todo : IsNext(id, todo) /\ Control("snd", FileStart(id), "open")
                         /\ cur' = id
  BY DEF StartFile
<1>2. /\ pc["snd"] = "nextFile" /\ NoInput /\ sent' = 0
      /\ UNCHANGED <<signaled, chan, accepted, todo, buf, disk>>
      /\ id \in Files /\ id \in Nat
  BY FilesAreNat DEF StartFile, At, linkVars, Shape
<1>3. CASE CanSend("snd")
  <2>1. /\ Post("snd", FileStart(id)) /\ err' = err
        /\ pc' = [pc EXCEPT !["snd"] = "open"]
    BY <1>1, <1>3 DEF Control, GoTo
  <2>2. reader.at = "idle" /\ reader.file < id
    BY <1>2 DEF Script
  <2>3. reader' = Follow(reader, FileStart(id))
    BY <2>1, ReaderHears
  <2>4. reader' = [at |-> "file", file |-> id, got |-> <<>>]
    BY <1>2, <2>2, <2>3 DEF Follow, FileStart, Hello, Manifest, FileEnd, Done
  <2>5. <<>> \in Content /\ FileData(id, 0) = <<>>
    BY <1>2, NothingRead DEF Content
  <2>6. Shape' /\ pc'["snd"] \notin Ended
    BY <1>1, <1>2, <2>1
       DEF Shape, Core, Side, Labels, SendOk, Ended, Unanswered, Busy, InFile
  <2>7. Script'
    BY <1>1, <1>2, <2>1, <2>4, <2>5
       DEF Script, Shape, Core, Side, Unanswered, Busy, InFile
  <2>8. FileStart(id) \in Allowed(accepted, FALSE)
    BY <1>2 DEF FileStart, Allowed, Message
  <2> QED BY <1>2, <2>1, <2>6, <2>7, <2>8, SpokenKeeps DEF Ended
<1>4. CASE ~CanSend("snd")
  BY <1>1, <1>2, <1>4, UnsentKeeps DEF Shape, Ended
<1> QED BY <1>3, <1>4

LEMMA OpenFileKeeps ==
  ASSUME PeerInductive, SendStep, OpenFile
  PROVE  PeerInductive'
<1> USE DEF PeerInductive
<1>1. /\ pc["snd"] = "open" /\ NoInput
      /\ UNCHANGED <<wire, signaled, chan, accepted, todo, cur, sent, buf, disk>>
  BY DEF OpenFile, At, linkVars, sndVars
<1>2. CASE GoTo("snd", "loop")
  <2>1. reader' = reader
    BY <1>1, ReaderWaits
  <2>2. Shape' /\ pc'["snd"] \notin Ended
    BY <1>1, <1>2
       DEF GoTo, Shape, Core, Side, Labels, SendOk, Ended, Unanswered, Busy, InFile
  <2>3. Script'
    BY <1>1, <1>2, <2>1 DEF GoTo, Script, Shape, Core, Side, Unanswered, Busy, InFile
  <2> QED BY <1>1, <2>2, <2>3, SilentStepKeeps DEF Ended
<1>3. CASE FailWith("snd", "local")
  BY <1>1, <1>3, FailKeeps DEF Errors, Ended, Shape
<1> QED BY <1>2, <1>3 DEF OpenFile

\* Send reads on, whatever became of a message polled.
LEMMA ReadsOnKeeps ==
  ASSUME PeerInductive, SendStep, pc["snd"] = "loop", GoTo("snd", "read"),
         NoInput \/ Consume("snd") \/ Defer("snd"),
         UNCHANGED <<wire, signaled, chan, accepted, todo, cur, sent, buf, disk>>
  PROVE  PeerInductive'
<1>1. reader' = reader
  BY ReaderWaits
<1>2. Shape' /\ pc'["snd"] \notin Ended
  BY DEF PeerInductive, GoTo, Shape, Core, Side, Labels, SendOk, Ended, Unanswered, Busy, InFile
<1>3. Script'
  BY <1>1 DEF PeerInductive, GoTo, Script, Shape, Core, Side, Unanswered, Busy, InFile
<1> QED BY <1>2, <1>3, SilentStepKeeps DEF Ended

LEMMA PollKeeps ==
  ASSUME PeerInductive, SendStep, Poll
  PROVE  PeerInductive'
<1>1. /\ pc["snd"] = "loop" /\ pc["snd"] \notin Ended
      /\ UNCHANGED <<chan, accepted, todo, cur, sent, buf, disk>>
      /\ sent' \in Nat /\ buf' \in 0..ChunkSize
  BY DEF Poll, At, linkVars, sndVars, Ended, PeerInductive, Shape
<1>2. CASE FailWith("snd", "ctx") /\ NoInput /\ UNCHANGED <<wire, signaled>>
  BY <1>1, <1>2, FailKeeps DEF Errors
<1>3. CASE GoTo("snd", "read") /\ NoInput /\ UNCHANGED <<wire, signaled>>
  BY <1>1, <1>3, ReadsOnKeeps
<1>4. CASE MidSendCheck
  <2>1. CASE TakeTerminal("snd")
    BY <1>1, <2>1, WaitOtherKeeps DEF WaitOther
  <2>2. CASE Take("snd", {"unknown"}) /\ GoTo("snd", "read") /\ UNCHANGED <<wire, signaled>>
    BY <1>1, <2>2, ReadsOnKeeps DEF Take
  <2>3. CASE Take("snd", {"chunk", "malformed"}) /\ ProtocolError("snd")
    BY <1>1, <2>3, ProtocolErrorKeeps DEF Take
  <2>4. CASE Defer("snd") /\ GoTo("snd", "read") /\ UNCHANGED <<wire, signaled>>
    BY <1>1, <2>4, ReadsOnKeeps
  <2> QED BY <1>4, <2>1, <2>2, <2>3, <2>4 DEF MidSendCheck
<1> QED BY <1>2, <1>3, <1>4 DEF Poll

LEMMA ReadFileKeeps ==
  ASSUME PeerInductive, SendStep, ReadFile
  PROVE  PeerInductive'
<1> USE DEF PeerInductive
<1>1. /\ pc["snd"] = "read" /\ pc["snd"] \notin Ended /\ NoInput
      /\ UNCHANGED <<wire, signaled, chan, accepted, todo, cur, sent, disk>>
      /\ cur \in Files /\ sent \in Nat /\ disk[cur] \in Nat /\ ChunkSize \in Nat \ {0}
  BY SenderAssumption DEF ReadFile, At, linkVars, Ended, Shape
<1>2. CASE FailWith("snd", "local") /\ UNCHANGED buf
  BY <1>1, <1>2, FailKeeps DEF Errors, Shape
<1>3. reader' = reader
  BY <1>1, ReaderWaits
<1>4. CASE /\ sent < disk[cur]
           /\ buf' = IF disk[cur] - sent < ChunkSize THEN disk[cur] - sent ELSE ChunkSize
           /\ IF ctx["snd"] THEN FailWith("snd", "ctx") ELSE GoTo("snd", "write")
  <2>1. buf' \in 0..ChunkSize /\ buf' > 0
    BY <1>1, <1>4
  <2>2. CASE FailWith("snd", "ctx")
    BY <1>1, <2>1, <2>2, FailKeeps DEF Errors
  <2>3. CASE GoTo("snd", "write")
    <3>1. Shape' /\ pc'["snd"] \notin Ended
      BY <1>1, <2>1, <2>3
         DEF GoTo, Shape, Core, Side, Labels, SendOk, Ended, Unanswered, Busy, InFile
    <3>2. Script'
      BY <1>1, <1>3, <2>3 DEF GoTo, Script, Shape, Core, Side, Unanswered, Busy, InFile
    <3> QED BY <1>1, <3>1, <3>2, SilentStepKeeps
  <2> QED BY <1>4, <2>2, <2>3
<1>5. CASE /\ sent >= disk[cur] /\ UNCHANGED buf
           /\ IF sent = Size[cur] THEN GoTo("snd", "fileEnd") ELSE FailWith("snd", "changed")
  <2>1. CASE sent # Size[cur]
    BY <1>1, <1>5, <2>1, FailKeeps DEF Errors, Shape
  <2>2. CASE sent = Size[cur]
    <3>1. Shape' /\ pc'["snd"] \notin Ended
      BY <1>1, <1>5, <2>2
         DEF GoTo, Shape, Core, Side, Labels, SendOk, Ended, Unanswered, Busy, InFile
    <3>2. Script'
      BY <1>1, <1>3, <1>5, <2>2 DEF GoTo, Script, Shape, Core, Side, Unanswered, Busy, InFile
    <3> QED BY <1>1, <3>1, <3>2, SilentStepKeeps
  <2> QED BY <2>1, <2>2
<1> QED BY <1>2, <1>4, <1>5 DEF ReadFile

LEMMA WriteChunkKeeps ==
  ASSUME PeerInductive, SendStep, WriteChunk
  PROVE  PeerInductive'
<1> USE DEF PeerInductive
<1> DEFINE data == Slice(cur, sent, buf)
<1>1. /\ pc["snd"] = "write" /\ pc["snd"] \notin Ended /\ NoInput /\ buf' = 0
      /\ UNCHANGED <<signaled, chan, accepted, todo, cur, disk>>
      /\ cur \in Files /\ cur \in Int /\ sent \in Nat /\ buf \in 1..ChunkSize
      /\ cur \in accepted /\ ChunkSize \in Nat
  BY FilesAreNat, SenderAssumption
     DEF WriteChunk, At, linkVars, Ended, Shape, Busy, InFile, IsNext
<1>2. CASE FailWith("snd", "ctx") /\ UNCHANGED <<wire, sent>>
  BY <1>1, <1>2, FailKeeps DEF Errors
<1>3. CASE /\ Control("snd", Chunk(data), "loop")
           /\ sent' = IF CanSend("snd") THEN sent + buf ELSE sent
  <2>1. CASE ~CanSend("snd")
    BY <1>1, <1>3, <2>1, UnsentKeeps DEF Shape
  <2>2. CASE CanSend("snd")
    <3>1. /\ Post("snd", Chunk(data)) /\ err' = err /\ sent' = sent + buf
          /\ pc' = [pc EXCEPT !["snd"] = "loop"]
      BY <1>3, <2>2 DEF Control, GoTo
    <3>2. /\ data \in Content /\ Len(data) = buf /\ buf \in Nat
          /\ \A k \in 1..Len(data) : data[k][1] = cur
      <4>1. data \in Content /\ Len(data) = buf /\ buf \in Nat
        BY <1>1, SliceTyped
      <4>2. \A k \in 1..buf : data[k] = <<cur, sent + k>>
        BY DEF Slice
      <4> QED BY <4>1, <4>2
    <3> HIDE DEF data
    <3>3. Chunk(data) \in Allowed(accepted, FALSE)
      BY <1>1, <3>2 DEF Chunk, Allowed, Message
    <3>4. reader.at = "file" /\ reader.got = FileData(cur, sent) /\ reader.file = cur
      BY <1>1 DEF Script, Busy, InFile
    <3>5. FileData(cur, sent) \o data = FileData(cur, sent + buf)
      BY <1>1, <3>2, DataContinues DEF data
    <3>6. reader' = Follow(reader, Chunk(data))
      BY <3>1, ReaderHears
    <3>7. reader' = [reader EXCEPT !.got = reader.got \o data]
      BY <1>1, <3>2, <3>4, <3>6 DEF Follow, Chunk, Hello, Manifest, FileEnd, Done
    <3>8. FileData(cur, sent + buf) \in Content /\ sent + buf \in Nat
      BY <1>1, <3>2, SliceTyped DEF FileData
    <3>9. reader' = [reader EXCEPT !.got = FileData(cur, sent + buf)]
      BY <3>4, <3>5, <3>7
    <3>10. Shape' /\ pc'["snd"] \notin Ended
      BY <1>1, <3>1, <3>8
         DEF Shape, Core, Side, Labels, SendOk, Ended, Unanswered, Busy, InFile
    <3>11. Script'
      BY <1>1, <3>1, <3>4, <3>8, <3>9
         DEF Script, Shape, Core, Side, Unanswered, Busy, InFile
    <3> QED BY <1>1, <3>1, <3>3, <3>10, <3>11, SpokenKeeps
  <2> QED BY <2>1, <2>2
<1> QED BY <1>2, <1>3 DEF WriteChunk

LEMMA EndFileKeeps ==
  ASSUME PeerInductive, SendStep, EndFile
  PROVE  PeerInductive'
<1> USE DEF PeerInductive
<1> DEFINE last == FileEnd(cur, FileData(cur, sent))
<1>1. /\ pc["snd"] = "fileEnd" /\ pc["snd"] \notin Ended /\ NoInput
      /\ UNCHANGED <<signaled, chan, accepted, todo, cur, sent, buf, disk>>
      /\ Control("snd", last, "waitAck")
      /\ cur \in Files /\ cur \in Int /\ sent \in Nat /\ sent = Size[cur]
  BY FilesAreNat DEF EndFile, At, linkVars, sndVars, Ended, Shape
<1>2. FileData(cur, sent) \in Content /\ Len(FileData(cur, sent)) = sent
  BY <1>1, SliceTyped DEF FileData
<1>3. CASE CanSend("snd")
  <2>1. Post("snd", last) /\ err' = err /\ pc' = [pc EXCEPT !["snd"] = "waitAck"]
    BY <1>1, <1>3 DEF Control, GoTo
  <2>2. reader.at = "file" /\ reader.got = FileData(cur, sent) /\ reader.file = cur
    BY <1>1 DEF Script, Busy, InFile
  <2>3. reader' = Follow(reader, last)
    BY <2>1, ReaderHears
  <2>4. reader' = [reader EXCEPT !.at = "idle"]
    BY <1>1, <1>2, <2>2, <2>3 DEF Follow, Hello, Manifest, FileEnd, Done
  <2>5. last \in Allowed(accepted, FALSE)
    BY <1>1, <1>2 DEF FileEnd, Allowed, Message
  <2>6. Shape' /\ pc'["snd"] \notin Ended
    BY <1>1, <2>1
       DEF Shape, Core, Side, Labels, SendOk, Ended, Unanswered, Busy, InFile
  <2>7. Script'
    BY <1>1, <2>1, <2>2, <2>4 DEF Script, Shape, Core, Side, Unanswered, Busy, InFile
  <2> QED BY <1>1, <2>1, <2>5, <2>6, <2>7, SpokenKeeps
<1>4. CASE ~CanSend("snd")
  BY <1>1, <1>4, UnsentKeeps DEF Shape
<1> QED BY <1>3, <1>4

LEMMA WaitAckKeeps ==
  ASSUME PeerInductive, SendStep, WaitAck
  PROVE  PeerInductive'
<1> USE DEF PeerInductive
<1>1. /\ pc["snd"] = "waitAck" /\ pc["snd"] \notin Ended
      /\ UNCHANGED <<chan, accepted, cur, sent, buf, disk>>
      /\ sent' \in Nat /\ buf' \in 0..ChunkSize
  BY DEF WaitAck, At, linkVars, Ended, Shape
<1>2. CASE WaitOther("snd", {"file-ack"}) /\ UNCHANGED todo
  BY <1>1, <1>2, WaitOtherKeeps
<1>3. CASE ProtocolError("snd") /\ Consume("snd") /\ UNCHANGED todo
  BY <1>1, <1>3, ProtocolErrorKeeps
<1>4. CASE /\ FailWith("snd", "hash-mismatch") /\ Consume("snd")
           /\ UNCHANGED <<wire, signaled, todo>>
  BY <1>1, <1>4, FailKeeps DEF Errors
<1>5. CASE /\ todo' = todo \ {cur} /\ Consume("snd") /\ GoTo("snd", "nextFile")
           /\ UNCHANGED <<wire, signaled>>
  <2>1. reader' = reader
    BY <1>5, ReaderWaits
  <2>2. cur \in Nat /\ IsNext(cur, todo) /\ accepted \subseteq Nat
    BY <1>1, FilesAreNat DEF Shape, Busy
  <2>3. \A id \in todo' : cur < id
    <3>1. \A id \in todo : id \in Nat /\ cur <= id
      BY <2>2 DEF IsNext, Shape
    <3> QED BY <1>5, <2>2, <3>1
  <2>4. Shape' /\ pc'["snd"] \notin Ended
    BY <1>1, <1>5
       DEF GoTo, Shape, Core, Side, Labels, SendOk, Ended, Unanswered, Busy, InFile
  <2>5. Script'
    BY <1>1, <1>5, <2>1, <2>2, <2>3
       DEF GoTo, Script, Shape, Core, Side, Unanswered, Busy, InFile
  <2> QED BY <1>1, <1>5, <2>4, <2>5, SilentStepKeeps
<1> QED BY <1>2, <1>3, <1>4, <1>5 DEF WaitAck, TakeAck, Take

LEMMA SendDoneKeeps ==
  ASSUME PeerInductive, SendStep, SendDone
  PROVE  PeerInductive'
<1> USE DEF PeerInductive
<1>1. /\ pc["snd"] = "nextFile" /\ pc["snd"] \notin Ended /\ NoInput /\ todo = {}
      /\ UNCHANGED <<signaled, chan, accepted, todo, cur, sent, buf, disk>>
      /\ sent' \in Nat /\ buf' \in 0..ChunkSize
  BY DEF SendDone, At, sndVars, Ended, Shape
<1>2. CASE CanSend("snd")
  <2>1. /\ Post("snd", Done) /\ pc' = [pc EXCEPT !["snd"] = "returned"]
        /\ err' = [err EXCEPT !["snd"] = "nil"]
    BY <1>2 DEF SendDone, Succeed
  <2>2. reader.at = "idle" /\ reader.file >= 0
    BY <1>1 DEF Script
  <2>3. reader' = Follow(reader, Done)
    BY <2>1, ReaderHears
  <2>4. reader' = [reader EXCEPT !.at = "over"]
    BY <2>2, <2>3 DEF Follow, Hello, Manifest, FileEnd, Done
  <2>5. Shape' /\ SendOk'
    BY <1>1, <2>1
       DEF Shape, Core, Side, Labels, Errors, SendOk, Ended, Unanswered, Busy, InFile
  <2>6. Script' /\ Ending'
    BY <1>1, <2>1, <2>4
       DEF Script, Ending, Shape, Core, Side, Ended, Unanswered, Busy, InFile
  <2>7. Done \in Allowed(accepted', SendOk')
    BY <2>5 DEF Done, Allowed, Message
  <2>8. Queues(Given(accepted, SendOk))'
    BY <1>1, <2>1, <2>5, <2>7, QueuesKept DEF Speaks
  <2> QED BY <2>5, <2>6, <2>8
<1>3. CASE ~CanSend("snd")
  <2>1. FailWith("snd", "send") /\ UNCHANGED wire
    BY <1>3 DEF SendDone
  <2> QED BY <1>1, <2>1, FailKeeps DEF Errors
<1> QED BY <1>2, <1>3

-----------------------------------------------------------------------------
(* The steps around it.                                                    *)

LEMMA OutsideKeeps ==
  ASSUME PeerInductive, UNCHANGED <<sndVars, reader>>,
         Network("snd") \/ CancelCtx("snd")
  PROVE  PeerInductive'
<1> USE DEF PeerInductive
<1>1. /\ UNCHANGED <<pc, err, signaled>>
      /\ chan'["snd"] = "open" => chan["snd"] = "open"
  BY DEF Network, Deliver, LoseTail, SeeClose, RunOnClose, CancelCtx, linkVars,
         sessionVars, quiet, Shape, Side
<1>2. chan' \in [Side -> {"open", "hook", "closed"}]
  BY DEF Network, Deliver, LoseTail, SeeClose, RunOnClose, CancelCtx, linkVars, Shape
<1>3. Shape' /\ Script' /\ Ending' /\ SendOk' = SendOk
  BY <1>2, <1>1 DEF sndVars, Shape, Script, Ending, Core, SendOk
<1>4. "snd" \in Side /\ Typed(Given(accepted, SendOk))
  BY GivenIsKinds DEF Side, Kinds
<1>5. PICK G : G = Given(accepted, SendOk)
  OBVIOUS
<1>6. Queues(G)'
  BY <1>4, <1>5, NetworkQueues DEF CancelCtx, sessionVars, Queues, Holds
<1> QED BY <1>3, <1>5, <1>6 DEF sndVars, Queues

LEMMA PeerActs ==
  ASSUME PeerInductive, PeerSends \/ PeerCloses
  PROVE  PeerInductive'
<1> USE DEF PeerInductive
<1>1. PICK G : G = Given(accepted, SendOk)
  OBVIOUS
<1>2. /\ UNCHANGED <<linkVars, sndVars, signaled, err, inbox, pending>>
      /\ pc'["snd"] = pc["snd"] /\ pc' \in [Side -> Labels]
  BY DEF PeerSends, PeerCloses, quiet, GoTo, NoInput, Shape, Core, Side, Labels
<1>3. reader' = reader
  BY DEF PeerSends, PeerCloses
<1>4. Shape' /\ Script' /\ Ending' /\ SendOk' = SendOk
  BY <1>2, <1>3 DEF linkVars, sndVars, Shape, Script, Ending, Core, SendOk
<1>5. Holds(wire, G)'
  <2>1. CASE PeerCloses
    BY <1>1, <2>1 DEF PeerCloses, Queues, Holds
  <2>2. CASE PeerSends
    <3>1. PICK m \in PeerMsgs : wire' = [wire EXCEPT !["snd"] = Append(@, m)]
      BY <2>2 DEF PeerSends
    <3>2. m \in Message /\ G["snd"] = Message /\ wire["snd"] \in Seq(Message) /\ "snd" \in Side
      BY <1>1, PeerAssumption DEF Given, Side, Queues, Holds
    <3>3. Append(wire["snd"], m) \in Seq(G["snd"])
      BY <3>2
    <3> QED BY <1>1, <3>1, <3>2, <3>3, GivenIsKinds, HoldsExcept DEF Kinds, Queues
  <2> QED BY <2>1, <2>2
<1> QED BY <1>1, <1>2, <1>4, <1>5 DEF sndVars, Queues, Holds

LEMMA ChangeFileKeeps ==
  ASSUME PeerInductive, ChangeFile, UNCHANGED reader
  PROVE  PeerInductive'
<1> USE DEF PeerInductive
<1>1. /\ UNCHANGED <<wire, inbox, pending, signaled, pc, err, chan>>
      /\ UNCHANGED <<accepted, todo, cur, sent, buf>>
  BY DEF ChangeFile, linkVars, sessionVars
<1>2. disk' \in [Files -> Nat]
  BY SenderAssumption DEF ChangeFile, Shape
<1>3. Shape' /\ Script' /\ Ending' /\ SendOk' = SendOk
  BY <1>1, <1>2 DEF Shape, Script, Ending, Core, SendOk
<1> QED BY <1>1, <1>3 DEF Queues, Holds

-----------------------------------------------------------------------------

LEMMA PeerInit == Init => PeerInductive
<1> SUFFICES ASSUME Init PROVE PeerInductive
  OBVIOUS
<1>1. Shape
  BY FilesAreNat, SenderAssumption
     DEF Init, SessionInit, SenderInit, Shape, Core, Side, Labels, Errors, SendOk,
         Ended, Unanswered, Busy, InFile
<1>2. Script
  BY DEF Init, SessionInit, Script, Side, Content, Unanswered, Busy, InFile
<1>3. Ending
  BY DEF Init, SessionInit, Ending, Side, Ended
<1>4. Queues(Given(accepted, SendOk))
  BY DEF Init, SessionInit, Queues, Holds
<1> QED BY <1>1, <1>2, <1>3, <1>4 DEF PeerInductive

LEMMA PeerStep == PeerInductive /\ [Next]_vars => PeerInductive'
<1> SUFFICES ASSUME PeerInductive, [Next]_vars PROVE PeerInductive'
  OBVIOUS
<1>1. CASE SendStep
  BY <1>1, BothSidesKeep, SendManifestKeeps, WaitReplyKeeps, StartFileKeeps,
     OpenFileKeeps, PollKeeps, ReadFileKeeps, WriteChunkKeeps, EndFileKeeps,
     WaitAckKeeps, SendDoneKeeps
     DEF SendStep, SenderNext
<1>2. CASE Outside /\ UNCHANGED <<sndVars, given, reader>>
  BY <1>2, OutsideKeeps DEF Outside
<1>3. CASE PeerSends \/ PeerCloses
  BY <1>3, PeerActs
<1>4. CASE ChangeFile /\ UNCHANGED <<given, reader>>
  BY <1>4, ChangeFileKeeps
<1>5. CASE UNCHANGED vars
  BY <1>5 DEF vars, linkVars, sessionVars, sndVars, PeerInductive, Shape, Script,
              Ending, Core, Queues, Holds, SendOk
<1> QED BY <1>1, <1>2, <1>3, <1>4, <1>5 DEF Next

\* The inductive invariant holds in every reachable state, for any files and
\* any messages of the peer.
THEOREM SenderPeerInvariant == Spec => []PeerInductive
BY PeerInit, PeerStep, PTL DEF Spec

\* Whatever the peer sends and whenever it closes, what Send says is a run
\* of TP/1: the reader is never lost.
THEOREM SendSpeaksTP1 == Spec => []SpeaksTP1
<1>1. PeerInductive => SpeaksTP1
  BY DEF PeerInductive, Script, SpeaksTP1
<1> QED BY <1>1, SenderPeerInvariant, PTL

\* No byte of a file the peer has not accepted is ever sent, and done only
\* when every accepted file is acknowledged.
THEOREM SendsOnlyAccepted == Spec => []OnlyAccepted
<1>1. PeerInductive => OnlyAccepted
  <2> SUFFICES ASSUME PeerInductive, NEW i \in 1..Len(wire["rcv"])
               PROVE  LET m == wire["rcv"][i] IN
                        /\ m.t = "chunk" => \A k \in 1..Len(m.data) : m.data[k][1] \in accepted
                        /\ m.t = "done" => todo = {} /\ accepted # {}
    BY DEF OnlyAccepted
  <2>1. wire["rcv"] \in Seq(Allowed(accepted, SendOk))
    BY DEF PeerInductive, Queues, Holds, Given, Side
  <2>2. wire["rcv"][i] \in Allowed(accepted, SendOk)
    BY <2>1, ElementOfSeq
  <2>3. SendOk => todo = {} /\ accepted # {}
    BY DEF PeerInductive, Shape
  <2> QED BY <2>2, <2>3 DEF Allowed
<1> QED BY <1>1, SenderPeerInvariant, PTL

\* Unless the channel is gone or the peer ended the transfer itself, the
\* last thing Send says ends it.
THEOREM SendTellsItsPeer == Spec => []PeerIsTold
<1>1. PeerInductive => PeerIsTold
  BY DEF PeerInductive, Ending, PeerIsTold, At
<1> QED BY <1>1, SenderPeerInvariant, PTL
-----------------------------------------------------------------------------
(* What is deferred.                                                       *)

\* At most one message is deferred at a time: poll takes it up again before
\* it looks into the inbox.
Deferred == pending["snd"] = <<>> \/ \E m \in Message : pending["snd"] = <<m>>

\* How a step of Send treats what is queued for it.
Reads == NoInput \/ Consume("snd") \/ Defer("snd")

LEMMA OneMessage ==
  ASSUME NEW m \in Message, NEW t \in Seq(Message)
  PROVE  /\ <<m>> # <<>> /\ Head(<<m>>) = m /\ Tail(<<m>>) = <<>>
         /\ Append(Tail(<<m>>), m) = <<m>>
         /\ <<m>> \o t # <<>> /\ Head(<<m>> \o t) = m /\ Tail(<<m>> \o t) = t
         /\ <<>> \o t = t
<1>1. <<m>> \in Seq(Message) /\ <<>> \in Seq(Message)
  OBVIOUS
<1>2. /\ <<m>> # <<>> /\ Head(<<m>>) = m /\ Tail(<<m>>) = <<>>
      /\ Append(Tail(<<m>>), m) = <<m>>
  OBVIOUS
<1>3. <<>> \o t = t
  BY ConcatEmptySeq
<1>4. <<m>> \o t # <<>> /\ Head(<<m>> \o t) = m
  BY <1>1, ConcatProperties
<1>5. Tail(<<m>> \o t) = t
  <2>1. <<m>> \o t \in Seq(Message) /\ Len(<<m>> \o t) = 1 + Len(t)
    BY <1>1, ConcatProperties
  <2>2. \A i \in 1..1 + Len(t) : (<<m>> \o t)[i] = IF i <= 1 THEN m ELSE t[i - 1]
    BY <1>1, ConcatProperties
  <2>3. /\ Tail(<<m>> \o t) \in Seq(Message) /\ Len(Tail(<<m>> \o t)) = Len(t)
        /\ \A i \in 1..Len(t) : Tail(<<m>> \o t)[i] = (<<m>> \o t)[i + 1]
    BY <1>4, <2>1, HeadTailProperties
  <2>4. \A i \in 1..Len(t) : Tail(<<m>> \o t)[i] = t[i]
    BY <2>2, <2>3
  <2>5. QED
    BY <2>3, <2>4, SeqEqual
<1>6. QED
  BY <1>2, <1>3, <1>4, <1>5

LEMMA HeadTailAgain ==
  ASSUME NEW q \in Seq(Message), q # <<>>
  PROVE  Head(q) \in Message /\ Tail(q) \in Seq(Message) /\ q = <<Head(q)>> \o Tail(q)
<1>1. Head(q) \in Message /\ Tail(q) \in Seq(Message) /\ Len(Tail(q)) = Len(q) - 1
  BY HeadTailProperties
<1>2. PICK r : r = <<Head(q)>> \o Tail(q)
  OBVIOUS
<1>3. /\ r \in Seq(Message) /\ Len(r) = 1 + Len(Tail(q))
      /\ \A i \in 1..1 + Len(Tail(q)) : r[i] = IF i <= 1 THEN Head(q) ELSE Tail(q)[i - 1]
  <2>1. <<Head(q)>> \in Seq(Message)
    BY <1>1
  <2>2. QED
    BY <1>1, <1>2, <2>1, ConcatProperties
<1>4. \A i \in 1..Len(q) : r[i] = q[i]
  BY <1>1, <1>3
<1>5. QED
  BY <1>1, <1>2, <1>3, <1>4, SeqEqual

LEMMA ReadsInOrder ==
  ASSUME PeerInductive, Deferred, Reads
  PROVE  /\ Deferred'
         /\ NoInput \/ Defer("snd") => Queued' = Queued
         /\ Consume("snd") => Queued # <<>> /\ Queued' = Tail(Queued)
                              /\ NextMsg("snd") = Head(Queued)
<1>1. /\ inbox \in [Side -> Seq(Message)] /\ pending \in [Side -> Seq(Message)]
      /\ "snd" \in Side
  BY DEF PeerInductive, Queues, Holds, Side
<1>2. inbox["snd"] \in Seq(Message)
  BY <1>1
<1>3. CASE NoInput
  <2>1. Deferred' /\ Queued' = Queued
    BY <1>3 DEF NoInput, Deferred, Queued
  <2>2. ~Consume("snd")
    <3>1. SUFFICES ASSUME Consume("snd") PROVE FALSE
      OBVIOUS
    <3>2. CASE pending["snd"] # <<>>
      <4>1. pending'["snd"] = Tail(pending["snd"]) /\ pending' = pending
        BY <1>1, <1>3, <3>1, <3>2 DEF Consume, NoInput
      <4>2. QED
        BY <1>2, <3>2, <4>1, OneMessage DEF Deferred
    <3>3. CASE pending["snd"] = <<>>
      <4>1. inbox["snd"] # <<>> /\ inbox'["snd"] = Tail(inbox["snd"]) /\ inbox' = inbox
        BY <1>1, <1>3, <3>1, <3>3 DEF Consume, HasNext, NoInput
      <4>2. Len(Tail(inbox["snd"])) = Len(inbox["snd"]) - 1 /\ Len(inbox["snd"]) \in Nat
        BY <1>2, <4>1, HeadTailProperties
      <4>3. Tail(inbox["snd"]) = inbox["snd"]
        BY <4>1
      <4>4. Len(inbox["snd"]) = Len(inbox["snd"]) - 1
        BY <4>2, <4>3
      <4>5. QED
        BY <4>2, <4>4
    <3>4. QED
      BY <3>2, <3>3
  <2>3. QED
    BY <2>1, <2>2
<1>4. CASE pending["snd"] # <<>> /\ ~NoInput
  <2>1. PICK m \in Message : pending["snd"] = <<m>>
    BY <1>4 DEF Deferred
  <2>2. Queued = <<m>> \o inbox["snd"]
    BY <2>1 DEF Queued
  <2>3. /\ Queued # <<>> /\ Head(Queued) = m /\ Tail(Queued) = inbox["snd"]
        /\ Head(<<m>>) = m /\ Tail(<<m>>) = <<>> /\ Append(Tail(<<m>>), m) = <<m>>
        /\ <<>> \o inbox["snd"] = inbox["snd"]
    BY <1>2, <2>2, OneMessage
  <2>4. CASE Consume("snd")
    <3>1. pending'["snd"] = <<>> /\ inbox' = inbox /\ NextMsg("snd") = m
      BY <1>1, <1>4, <2>1, <2>3, <2>4 DEF Consume, NextMsg
    <3>2. Queued' = Tail(Queued)
      BY <2>3, <3>1 DEF Queued
    <3>3. ~Defer("snd")
      BY <1>1, <1>4, <2>1, <2>3, <3>1 DEF Defer
    <3>4. QED
      BY <1>4, <2>3, <3>1, <3>2, <3>3 DEF Deferred
  <2>5. CASE Defer("snd")
    <3>1. pending' = pending /\ inbox' = inbox
      BY <1>1, <1>4, <2>1, <2>3, <2>5 DEF Defer
    <3>2. QED
      BY <1>4, <3>1 DEF NoInput
  <2>6. QED
    BY <1>4, <2>4, <2>5 DEF Reads
<1>5. CASE pending["snd"] = <<>> /\ ~NoInput
  <2>1. inbox["snd"] # <<>>
    BY <1>5 DEF Reads, Consume, Defer, HasNext
  <2>2. PICK m \in Message, t \in Seq(Message) :
          /\ m = Head(inbox["snd"]) /\ t = Tail(inbox["snd"])
          /\ inbox["snd"] = <<m>> \o t
    BY <1>2, <2>1, HeadTailAgain
  <2>3. Queued = inbox["snd"]
    BY <1>2, <1>5, ConcatEmptySeq DEF Queued
  <2>4. Queued # <<>> /\ <<>> \o t = t /\ <<m>> # <<>>
    BY <2>1, <2>2, <2>3, OneMessage
  <2>5. CASE Consume("snd")
    <3>1. pending' = pending /\ inbox'["snd"] = t /\ NextMsg("snd") = m
      BY <1>1, <1>5, <2>2, <2>5 DEF Consume, NextMsg
    <3>2. Queued' = t
      BY <1>5, <2>4, <3>1 DEF Queued
    <3>3. ~Defer("snd")
      BY <1>1, <1>5, <2>2, <2>4, <3>1 DEF Defer
    <3>4. QED
      BY <1>5, <2>2, <2>3, <2>4, <3>1, <3>2, <3>3 DEF Deferred
  <2>6. CASE Defer("snd")
    <3>1. pending'["snd"] = <<m>> /\ inbox'["snd"] = t
      BY <1>1, <1>5, <2>2, <2>6 DEF Defer
    <3>2. Queued' = Queued
      BY <2>2, <2>3, <3>1 DEF Queued
    <3>3. ~Consume("snd")
      BY <1>5, <2>4, <3>1 DEF Consume
    <3>4. QED
      BY <1>5, <3>1, <3>2, <3>3 DEF Deferred
  <2>7. QED
    BY <1>5, <2>5, <2>6 DEF Reads
<1>6. QED
  BY <1>3, <1>4, <1>5

LEMMA SenderReads == SenderNext => Reads
<1> SUFFICES ASSUME SenderNext PROVE Reads
  OBVIOUS
<1>1. \A expected : WaitOther("snd", expected) => Reads
  BY DEF WaitOther, WaitFails, TakeTerminal, TakeUnknown, TakeUnexpected, Take, Reads
<1>2. CASE BothSides("snd")
  BY <1>2 DEF BothSides, NewSession, SendHello, WaitHello, Abort, CloseConn, WaitFails,
              TakeTerminal, TakeHello, TakeNotHello, Take, Reads
<1>3. CASE SendManifest \/ StartFile \/ OpenFile \/ ReadFile \/ WriteChunk \/ EndFile \/ SendDone
  BY <1>3 DEF SendManifest, StartFile, OpenFile, ReadFile, WriteChunk, EndFile, SendDone, Reads
<1>4. CASE WaitReply
  BY <1>1, <1>4 DEF WaitReply, TakeAccept, TakeReject, Take, Reads
<1>5. CASE Poll
  BY <1>5 DEF Poll, MidSendCheck, TakeTerminal, Take, Reads
<1>6. CASE WaitAck
  BY <1>1, <1>6 DEF WaitAck, TakeAck, Take, Reads
<1>7. QED
  BY <1>2, <1>3, <1>4, <1>5, <1>6 DEF SenderNext

\* One step, whoever takes it.
Honours ==
  /\ \/ Queued' = Queued
     \/ Queued # <<>> /\ Queued' = Tail(Queued)
     \/ wire["snd"] # <<>> /\ Queued' = Append(Queued, Head(wire["snd"]))
  /\ At("snd", "loop") /\ At("snd", "read")' /\ Queued' # Queued
       => Head(Queued).t = "unknown"

LEMMA SendHonours ==
  ASSUME PeerInductive, Deferred, SendStep
  PROVE  Deferred' /\ Honours
<1>1. SenderNext /\ Reads
  BY SenderReads DEF SendStep
<1>2. /\ Deferred'
      /\ Queued' = Queued \/ (Queued # <<>> /\ Queued' = Tail(Queued))
      /\ NoInput \/ Defer("snd") => Queued' = Queued
      /\ Consume("snd") => NextMsg("snd") = Head(Queued)
  BY <1>1, ReadsInOrder DEF Reads
<1>3. ASSUME At("snd", "loop"), At("snd", "read")', Queued' # Queued
      PROVE  Head(Queued).t = "unknown"
  <2>1. Poll
    <3>1. ~BothSides("snd")
      BY <1>3 DEF At, BothSides, NewSession, SendHello, WaitHello, Abort, CloseConn
    <3>2. QED
      BY <1>1, <1>3, <3>1 DEF SenderNext, At, SendManifest, WaitReply, StartFile, OpenFile,
                              ReadFile, WriteChunk, EndFile, WaitAck, SendDone
  <2>2. pc' # [pc EXCEPT !["snd"] = "failed"]
    BY <1>3 DEF At, PeerInductive, Shape, Core, Side
  <2>3. MidSendCheck
    BY <1>2, <1>3, <2>1, <2>2 DEF Poll, FailWith
  <2>4. Take("snd", {"unknown"})
    BY <1>2, <1>3, <2>2, <2>3 DEF MidSendCheck, TakeTerminal, ProtocolError, LastWord, FailWith
  <2>5. QED
    BY <1>2, <2>4 DEF Take
<1>4. QED
  BY <1>2, <1>3 DEF Honours

LEMMA RestHonours ==
  ASSUME PeerInductive, Deferred, [Next]_vars, ~SendStep
  PROVE  Deferred' /\ Honours
<1>1. ASSUME UNCHANGED <<inbox, pending>> PROVE Deferred' /\ Honours
  BY <1>1 DEF Deferred, Honours, Queued
<1>2. CASE Deliver("snd")
  <2>1. /\ inbox \in [Side -> Seq(Message)] /\ wire \in [Side -> Seq(Message)]
        /\ pending \in [Side -> Seq(Message)] /\ "snd" \in Side
    BY DEF PeerInductive, Queues, Holds, Side
  <2>2. /\ pending' = pending /\ pc' = pc /\ wire["snd"] # <<>>
        /\ \/ inbox' = [inbox EXCEPT !["snd"] = Append(@, Head(wire["snd"]))]
           \/ inbox' = inbox
    BY <1>2 DEF Deliver, quiet
  <2>3. CASE inbox' = inbox
    BY <1>1, <2>2, <2>3
  <2>4. CASE inbox' = [inbox EXCEPT !["snd"] = Append(@, Head(wire["snd"]))]
    <3>1. PICK m \in Message : m = Head(wire["snd"])
      BY <2>1, <2>2, HeadTailProperties
    <3>2. inbox["snd"] \in Seq(Message) /\ pending["snd"] \in Seq(Message)
          /\ <<m>> \in Seq(Message) /\ inbox'["snd"] = Append(inbox["snd"], m)
      BY <2>1, <2>4, <3>1
    <3>3. PICK p \in Seq(Message), q \in Seq(Message) : p = pending["snd"] /\ q = inbox["snd"]
      BY <3>2
    <3>4. p \o Append(q, m) = Append(p \o q, m)
      BY ConcatAppend
    <3>5. Queued' = Append(Queued, m)
      BY <2>2, <3>2, <3>3, <3>4 DEF Queued
    <3>6. QED
      BY <2>2, <3>1, <3>5 DEF Deferred, Honours, At
  <2>5. QED
    BY <2>2, <2>3, <2>4
<1>3. CASE LoseTail("snd") \/ SeeClose("snd") \/ RunOnClose("snd") \/ CancelCtx("snd")
  BY <1>1, <1>3 DEF LoseTail, SeeClose, RunOnClose, CancelCtx, sessionVars, quiet
<1>4. CASE PeerSends \/ PeerCloses \/ ChangeFile \/ UNCHANGED vars
  BY <1>1, <1>4 DEF PeerSends, PeerCloses, ChangeFile, NoInput, sessionVars, quiet, vars
<1>5. QED
  BY <1>2, <1>3, <1>4 DEF Next, Outside, Network

\* Whatever the peer sends and however often it is looked at and put back,
\* Send reads every message once and in its order, and on its way through a
\* file drops only what rule 5 of TP/1 makes it ignore.
THEOREM DeferralKeepsOrder == Spec => DeferralKeeps
<1>1. Init => PeerInductive /\ Deferred
  BY PeerInit DEF Init, SessionInit, Deferred, Side
<1>2. PeerInductive /\ Deferred /\ [Next]_vars => PeerInductive' /\ Deferred' /\ Honours
  BY PeerStep, SendHonours, RestHonours
<1>3. QED
  BY <1>1, <1>2, PTL DEF Spec, DeferralKeeps, Honours
=============================================================================
