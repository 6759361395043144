------------------------- MODULE ReceiverPeerProofs --------------------------
(***************************************************************************)
(* Whatever its peer sends, and when, Receive touches no file it did not   *)
(* create, keeps only what was claimed, speaks TP/1, and tells its peer    *)
(* how the call ended: for any directory, any messages of the peer, and    *)
(* any limits.                                                             *)
(***************************************************************************)
EXTENDS ReceiverPeer, SessionProofs

-----------------------------------------------------------------------------
(* The inductive invariant.                                                *)

Early   == {"init", "hello", "waitHello", "waitManifest", "decide"}
Running == {"waitStart", "chunks", "waitDone"}

\* How the session stands, by where Receive stands.
Shape ==
  /\ Core /\ chan \in [Side -> {"open", "hook", "closed"}]
  /\ pump \in [Side -> {"none", "on", "off"}]
  /\ pc["rcv"] \in Early \cup Running \cup Ended
  /\ pc["rcv"] = "init" => pump["rcv"] = "none"
  /\ pc["rcv"] \in Early => want = {} /\ SavedIds = {}
  /\ pc["rcv"] = "waitDone" => want = {} /\ SavedIds # {}
  /\ pc["rcv"] \notin Ended => err["rcv"] = "none"
  /\ err["rcv"] = "nil" => pc["rcv"] \in {"returned", "closed"}
  /\ dest # NoPath <=> pc["rcv"] = "chunks"

\* A path that may hold a new file of entry id.
IsCandidate(path, id) == \E i \in 0..MaxAttempts-1 : path = Candidate(meta[id].name, i)
NewFile(path) == path \in Paths /\ dir[path] \in Content /\ Before[path] = NoFile

\* The manifest, and the types of what is kept about its files.
Entries ==
  /\ DOMAIN meta \subseteq Nat
  /\ \A id \in DOMAIN meta : meta[id].name \in Names /\ meta[id].size \in Nat
  /\ want \subseteq DOMAIN meta /\ SavedIds \subseteq DOMAIN meta
  /\ dir \in [Paths -> Content \cup {NoFile}]

\* The file being written.
Partial ==
  dest # NoPath =>
    /\ NewFile(dest)
    /\ \A id \in SavedIds : saved[id] # dest
    /\ \A id \in want : IsNext(id, want) => IsCandidate(dest, id)

\* The files that are kept.
Kept ==
  \A id \in SavedIds :
    /\ NewFile(saved[id]) /\ IsCandidate(saved[id], id)
    /\ Len(dir[saved[id]]) = meta[id].size
    /\ FileEnd(id, dir[saved[id]]) \in claims
    /\ \A other \in SavedIds \ {id} : saved[other] # saved[id]

\* All others.
Untouched ==
  \A p \in Paths : dir[p] = Before[p] \/ p = dest \/ \E id \in SavedIds : p = saved[id]

Directory == Entries /\ Partial /\ Kept /\ Untouched

\* What may be on its way to Receive when the peer has sent the file-ends cs.
Carried(cs) == {m \in Message : m.t = "file-end" => m \in cs}
Given(cs)   == [s \in Side |-> IF s = "rcv" THEN Carried(cs) ELSE Message]

\* Where the reader stands when Receive stands there.
Script ==
  /\ reader \in [at : {"start", "greeted", "files", "mismatch", "over"}, file : Int]
  /\ pc["rcv"] \in {"init", "hello"} => reader.at = "start"
  /\ pc["rcv"] \in {"waitHello", "waitManifest", "decide"} => reader.at = "greeted"
  /\ pc["rcv"] \in Early => reader.file = -1
  /\ pc["rcv"] \in Running \/ err["rcv"] = "nil" =>
       /\ reader.at = "files"
       /\ \A id \in want : reader.file < id
       /\ \A id \in SavedIds : id <= reader.file
  /\ err["rcv"] = "nil" => want = {} /\ SavedIds # {}
  /\ reader.at = "mismatch" => pc["rcv"] \in Ended /\ reader.file \notin SavedIds

\* The last word is said once.
Ending ==
  LET told == \/ reader.at = "over"
              \/ chan["rcv"] # "open"
              \/ err["rcv"] \in {"peer-cancel", "peer-error"}
  IN  /\ pc["rcv"] \notin Ended => ~signaled["rcv"]
      /\ pc["rcv"] = "failed" /\ signaled["rcv"] => told
      /\ pc["rcv"] = "failed" /\ ~signaled["rcv"] => reader.at # "over"
      /\ pc["rcv"] = "returned" /\ err["rcv"] # "nil" => told \/ pump["rcv"] = "none"

PeerInductive ==
  /\ Shape /\ Directory /\ Script /\ Ending
  /\ Queues(Given(claims))

-----------------------------------------------------------------------------
(* The manifest and the directory.                                         *)

\* The entries of a valid manifest, keyed by id.
LEMMA ManifestEntries ==
  ASSUME NEW files \in Seq(FileMeta), ValidManifest(files)
  PROVE  /\ DOMAIN ById(files) \subseteq Nat
         /\ \A id \in DOMAIN ById(files) :
              ById(files)[id].name \in Names /\ ById(files)[id].size \in Nat
<1>1. \A i \in 1..Len(files) : /\ files[i].id \in Nat /\ files[i].name \in Names
                               /\ files[i].size \in Nat
  <2> SUFFICES ASSUME NEW i \in 1..Len(files)
               PROVE  /\ files[i].id \in Nat /\ files[i].name \in Names
                      /\ files[i].size \in Nat
    OBVIOUS
  <2>1. files[i] \in FileMeta
    BY ElementOfSeq
  <2> QED BY <2>1, LimitsAssumption DEF FileMeta, ValidManifest, Validate
<1>2. ASSUME NEW id \in DOMAIN ById(files)
      PROVE  /\ id \in Nat
             /\ ById(files)[id].name \in Names /\ ById(files)[id].size \in Nat
  <2> DEFINE at == CHOOSE i \in 1..Len(files) : files[i].id = id
  <2>1. \E i \in 1..Len(files) : files[i].id = id
    BY DEF ById
  <2>2. at \in 1..Len(files) /\ files[at].id = id
    BY <2>1
  <2>3. ById(files)[id] = files[at]
    BY DEF ById
  <2> QED BY <1>1, <2>2, <2>3
<1> QED BY <1>2

LEMMA DirectoryKept ==
  ASSUME Directory, UNCHANGED <<meta, want, dest, dir, saved, claims>>
  PROVE  Directory'
<1>1. Entries' /\ Untouched'
  BY DEF Directory, Entries, Untouched, SavedIds
<1>2. Partial' /\ Kept'
  BY DEF Directory, Partial, Kept, NewFile, IsCandidate, SavedIds
<1> QED BY <1>1, <1>2 DEF Directory

LEMMA KeptStay ==
  ASSUME Kept, UNCHANGED <<meta, saved, claims>>,
         \A id \in SavedIds : dir'[saved[id]] = dir[saved[id]]
  PROVE  Kept'
BY DEF Kept, NewFile, IsCandidate, SavedIds

\* The partial file is the only one its removal touches.
LEMMA RemovalKeeps ==
  ASSUME Directory, RemovePartial, UNCHANGED <<meta, want, saved, claims>>
  PROVE  Directory' /\ dest' = NoPath
<1> USE DEF Directory
<1>1. CASE dest = NoPath
  BY <1>1, DirectoryKept DEF RemovePartial
<1>2. CASE dest # NoPath
  <2>1. dest' = NoPath /\ dir' = [dir EXCEPT ![dest] = NoFile] /\ NewFile(dest)
    BY <1>2 DEF RemovePartial, Partial
  <2>2. \A id \in SavedIds : dir'[saved[id]] = dir[saved[id]]
    BY <1>2, <2>1 DEF Entries, Partial, Kept, NewFile
  <2>3. Entries' /\ Untouched'
    BY <1>2, <2>1 DEF Entries, Untouched, NewFile, SavedIds
  <2>4. Kept'
    BY <2>2, KeptStay
  <2>5. Partial'
    BY <2>1 DEF Partial
  <2> QED BY <2>1, <2>3, <2>4, <2>5
<1> QED BY <1>1, <1>2

\* A fresh file is one that was not there before, and not one that is kept.
LEMMA CreationKeeps ==
  ASSUME Directory, dest = NoPath, UNCHANGED <<meta, want, saved, claims>>,
         NEW id \in want, IsNext(id, want),
         NEW i \in 0..MaxAttempts-1, Fresh(meta[id].name, i),
         dest' = Candidate(meta[id].name, i),
         dir' = [dir EXCEPT ![Candidate(meta[id].name, i)] = <<>>]
  PROVE  Directory' /\ dest' # NoPath
<1> USE DEF Directory
<1> DEFINE path == Candidate(meta[id].name, i)
<1>1. path \in Paths /\ path # NoPath /\ dir[path] = NoFile /\ IsCandidate(path, id)
  BY ReceiverAssumption DEF Entries, Paths, Fresh, IsCandidate
<1>2. \A k \in want : IsNext(k, want) => k = id
  BY DEF IsNext, Entries
<1> HIDE DEF path
<1>3. dest' = path /\ dir' = [dir EXCEPT ![path] = <<>>] /\ <<>> \in Content
  BY DEF path, Content
<1>4. \A k \in SavedIds : saved[k] # path
  BY <1>1, ReceiverAssumption DEF Kept, NewFile
<1>5. Before[path] = NoFile
  BY <1>1, <1>4 DEF Untouched
<1>6. \A k \in SavedIds : dir'[saved[k]] = dir[saved[k]]
  BY <1>3, <1>4 DEF Entries, Kept, NewFile
<1>7. Entries' /\ Untouched'
  <2>1. Entries'
    BY <1>1, <1>3 DEF Entries, SavedIds
  <2>2. \A p \in Paths : dir'[p] = dir[p] \/ p = dest'
    BY <1>3 DEF Entries
  <2>3. NoPath \notin Paths
    BY ReceiverAssumption
  <2>4. Untouched'
    BY <2>2, <2>3 DEF Untouched, SavedIds
  <2> QED BY <2>1, <2>4
<1>8. Kept'
  BY <1>6, KeptStay
<1>9. Partial'
  <2>1. NewFile(dest)'
    BY <1>1, <1>3, <1>5 DEF NewFile, Entries
  <2>2. \A k \in want' : IsNext(k, want)' => IsCandidate(dest, k)'
    BY <1>1, <1>2, <1>3 DEF IsCandidate, IsNext
  <2>3. \A k \in SavedIds' : saved'[k] # dest'
    BY <1>3, <1>4 DEF SavedIds
  <2> QED BY <2>1, <2>2, <2>3 DEF Partial
<1> QED BY <1>1, <1>3, <1>7, <1>8, <1>9

\* A chunk goes to the end of the partial file.
LEMMA WritingKeeps ==
  ASSUME Directory, dest # NoPath, NEW data \in Content,
         dir' = [dir EXCEPT ![dest] = @ \o data],
         UNCHANGED <<meta, want, dest, saved, claims>>
  PROVE  Directory'
<1> USE DEF Directory
<1>1. NewFile(dest) /\ dir[dest] \o data \in Content
  BY DEF Partial, NewFile, Content
<1>2. PICK new : new = dir[dest] \o data
  OBVIOUS
<1>3. dir' = [dir EXCEPT ![dest] = new] /\ new \in Content
  BY <1>1, <1>2
<1>4. \A id \in SavedIds : dir'[saved[id]] = dir[saved[id]]
  BY <1>3 DEF Entries, Partial, Kept, NewFile
<1>5. Entries' /\ Untouched'
  BY <1>1, <1>3 DEF Entries, Untouched, SavedIds
<1>6. Kept'
  BY <1>4, KeptStay
<1>7. Partial'
  BY <1>1, <1>3 DEF Entries, Partial, NewFile, IsCandidate, SavedIds
<1> QED BY <1>5, <1>6, <1>7

\* The partial file becomes a kept one when it is as long as declared and
\* its digest as claimed.
LEMMA KeepingKeeps ==
  ASSUME Directory, dest # NoPath, NEW id \in want, IsNext(id, want),
         Len(dir[dest]) = meta[id].size, FileEnd(id, dir[dest]) \in claims,
         id \notin SavedIds,
         saved' = [i \in DOMAIN saved \cup {id} |-> IF i = id THEN dest ELSE saved[i]],
         dest' = NoPath, want' \subseteq want, UNCHANGED <<meta, dir, claims>>
  PROVE  Directory' /\ SavedIds' = SavedIds \cup {id}
<1> USE DEF Directory
<1>1. SavedIds' = SavedIds \cup {id} /\ saved'[id] = dest
  BY DEF SavedIds
<1>2. \A k \in SavedIds : k # id /\ saved'[k] = saved[k]
  BY DEF SavedIds
<1>3. NewFile(dest) /\ IsCandidate(dest, id) /\ \A k \in SavedIds : saved[k] # dest
  BY DEF Partial
<1>4. Entries'
  BY <1>1 DEF Entries
<1>5. Untouched'
  <2> SUFFICES ASSUME NEW p \in Paths, dir'[p] # Before[p]
               PROVE  \E k \in SavedIds' : p = saved'[k]
    BY DEF Untouched
  <2>1. p = dest \/ \E k \in SavedIds : p = saved[k]
    BY DEF Untouched
  <2> QED BY <1>1, <1>2, <2>1
<1>6. ASSUME NEW k \in SavedIds'
      PROVE  /\ NewFile(saved[k])' /\ IsCandidate(saved[k], k)'
             /\ Len(dir[saved[k]])' = meta'[k].size
             /\ FileEnd(k, dir[saved[k]])' \in claims'
             /\ \A other \in SavedIds' \ {k} : saved'[other] # saved'[k]
  <2>1. CASE k = id
    BY <1>1, <1>2, <1>3, <2>1 DEF NewFile, IsCandidate, FileEnd
  <2>2. CASE k \in SavedIds
    BY <1>1, <1>2, <1>3, <2>2 DEF Kept, NewFile, IsCandidate, FileEnd
  <2> QED BY <1>1, <2>1, <2>2
<1>7. Kept'
  BY <1>6 DEF Kept
<1>8. Partial'
  BY DEF Partial
<1> QED BY <1>1, <1>4, <1>5, <1>7, <1>8

-----------------------------------------------------------------------------
(* Messages.                                                               *)

LEMMA GivenIsKinds ==
  ASSUME NEW cs
  PROVE  Kinds(Given(cs)) /\ Given(cs)[Peer("rcv")] = Message
<1>1. Common \subseteq Carried(cs)
  BY CommonMessages DEF Common, Carried, Hello, Cancel, ErrorMsg
<1>2. Given(cs) \in [Side -> SUBSET Message]
  BY DEF Given, Carried
<1> QED BY <1>1, <1>2, CommonMessages DEF Kinds, Typed, Given, Peer, Side

LEMMA QueuesKept ==
  ASSUME PeerInductive, UNCHANGED claims, Speaks("rcv", Message)
  PROVE  Queues(Given(claims))'
<1>1. PICK G : G = Given(claims)
  OBVIOUS
<1>2. Queues(G)'
  BY <1>1, GivenIsKinds, SpeaksHolds DEF Side, PeerInductive
<1> QED BY <1>1, <1>2 DEF Queues

\* What Receive takes is a message, and a file-end is one of the claims.
LEMMA Taken ==
  ASSUME PeerInductive, Consume("rcv")
  PROVE  NextMsg("rcv") \in Carried(claims) /\ NextMsg("rcv") \in Message
BY GivenIsKinds, ConsumeHolds DEF PeerInductive, Kinds, Given, Side

LEMMA ReaderHears ==
  ASSUME PeerInductive, ReceiveStep, NEW m, Post("rcv", m)
  PROVE  reader' = Follow(reader, m, SavedIds')
<1>1. wire["snd"] \in Seq(Message)
  BY DEF PeerInductive, Queues, Holds, Side
<1>2. wire["snd"]' = Append(wire["snd"], m)
  BY DEF Post, Peer, PeerInductive, Queues, Holds, Side
<1>3. /\ Len(wire["snd"]') = Len(wire["snd"]) + 1 /\ Len(wire["snd"]) \in Nat
      /\ wire["snd"]'[Len(wire["snd"]')] = m
  BY <1>1, <1>2
<1> QED BY <1>3 DEF ReceiveStep, Last

LEMMA ReaderWaits ==
  ASSUME ReceiveStep, UNCHANGED wire
  PROVE  reader' = reader
BY DEF ReceiveStep

LEMMA ReadsLastWord ==
  ASSUME NEW r, r.at \notin {"over", "wrong"}, NEW m, m.t \in {"cancel", "error"}, NEW kept
  PROVE  Follow(r, m, kept) = [r EXCEPT !.at = "over"]
BY DEF Follow, Hello

-----------------------------------------------------------------------------
(* The steps of Receive.                                                   *)

\* A step in which the call fails, leaving no partial file.
LEMMA FailureKeeps ==
  ASSUME PeerInductive, ReceiveStep, pc["rcv"] \notin Ended, Core',
         Concludes("rcv"), NoInput \/ Consume("rcv"),
         UNCHANGED <<chan, pump>>, Directory', dest' = NoPath
  PROVE  PeerInductive'
<1> USE DEF PeerInductive
<1>1. Shape' /\ err'["rcv"] # "nil"
  BY DEF Shape, Concludes, Ended, Early, Running
<1>2. Queues(Given(claims))'
  <2>1. LastWords \subseteq Message
    BY CommonMessages DEF LastWords, Common
  <2> QED BY <2>1, QueuesKept DEF Concludes, Speaks, ReceiveStep
<1>3. reader.at \in {"start", "greeted", "files"} /\ ~signaled["rcv"]
  BY DEF Shape, Script, Ending, Early, Running
<1>4. ASSUME UNCHANGED wire,
             UNCHANGED signaled \/ err'["rcv"] \in {"peer-cancel", "peer-error"}
      PROVE  PeerInductive'
  <2>1. reader' = reader
    BY <1>4, ReaderWaits
  <2>2. Script' /\ Ending'
    BY <1>1, <1>3, <1>4, <2>1 DEF Concludes, Script, Ending, Ended, Early, Running
  <2> QED BY <1>1, <1>2, <2>2
<1>5. ASSUME NEW m \in LastWords, Post("rcv", m), signaled'["rcv"]
      PROVE  PeerInductive'
  <2>1. reader' = [reader EXCEPT !.at = "over"]
    BY <1>3, <1>5, ReaderHears, ReadsLastWord DEF LastWords, ErrorMsg
  <2>2. Script' /\ Ending'
    BY <1>1, <1>3, <1>5, <2>1 DEF Concludes, Script, Ending, Ended, Early, Running
  <2> QED BY <1>1, <1>2, <2>2
<1> QED BY <1>4, <1>5 DEF Concludes

\* A step that says nothing and after which Receive runs on.
LEMMA SilentStepKeeps ==
  ASSUME PeerInductive, ReceiveStep, Shape', Directory', Script',
         pc'["rcv"] \notin Ended, pc["rcv"] \notin Ended,
         UNCHANGED <<wire, signaled>>, NoInput \/ Consume("rcv")
  PROVE  PeerInductive'
<1>1. Queues(Given(claims))'
  BY QueuesKept DEF Speaks, ReceiveStep
<1>2. Ending'
  BY DEF PeerInductive, Ending, Ended
<1> QED BY <1>1, <1>2 DEF PeerInductive

\* A message after which Receive runs on.
LEMMA SpokenKeeps ==
  ASSUME PeerInductive, ReceiveStep, Shape', Directory', Script',
         pc["rcv"] \notin Ended, pc'["rcv"] \notin Ended,
         NEW m \in Message, Post("rcv", m), NoInput \/ Consume("rcv"),
         UNCHANGED signaled
  PROVE  PeerInductive'
<1>1. Queues(Given(claims))'
  BY QueuesKept DEF Speaks, ReceiveStep
<1>2. Ending'
  BY DEF PeerInductive, Ending, Ended
<1> QED BY <1>1, <1>2 DEF PeerInductive

\* A failure of its own.
LEMMA FailKeeps ==
  ASSUME PeerInductive, ReceiveStep, pc["rcv"] \notin Ended,
         NEW e \in Errors \ {"none", "nil"}, FailWith("rcv", e), UNCHANGED <<wire, signaled>>,
         NoInput \/ Consume("rcv"),
         UNCHANGED <<chan, pump>>, Directory', dest' = NoPath
  PROVE  PeerInductive'
<1>1. Concludes("rcv") /\ Core'
  BY FailConcludes, FailMoves DEF PeerInductive, Shape, Core, Side
<1> QED BY <1>1, FailureKeeps

LEMMA ProtocolErrorKeeps ==
  ASSUME PeerInductive, ReceiveStep, pc["rcv"] \notin Ended,
         ProtocolError("rcv"), Consume("rcv"),
         UNCHANGED <<chan, pump>>, Directory', dest' = NoPath
  PROVE  PeerInductive'
<1>1. Concludes("rcv") /\ Core'
  BY ProtocolErrorConcludes, ProtocolErrorMoves, GivenIsKinds DEF PeerInductive, Shape, Side
<1> QED BY <1>1, FailureKeeps

\* Where a wait is not for chunks, it leaves the directory alone.
LEMMA WaitOtherKeeps ==
  ASSUME PeerInductive, ReceiveStep, pc["rcv"] \notin Ended,
         NEW expected, WaitOther("rcv", expected),
         UNCHANGED <<chan, pump, meta, want, saved>>,
         \/ pc'["rcv"] = pc["rcv"] /\ UNCHANGED <<dest, dir>>
         \/ pc'["rcv"] # pc["rcv"] /\ Directory' /\ dest' = NoPath
  PROVE  PeerInductive'
<1> USE DEF PeerInductive
<1>1. NoInput \/ Consume("rcv")
  BY DEF WaitOther, WaitFails, TakeTerminal, TakeUnknown, TakeUnexpected, Take
<1>2. Core'
  BY WaitOtherMoves, GivenIsKinds DEF Shape, Side
<1>3. CASE Concludes("rcv")
  BY <1>1, <1>2, <1>3, FailureKeeps DEF Concludes, Ended
<1>4. CASE UNCHANGED <<wire, signaled, pc, err>>
  <2>1. reader' = reader /\ claims' = claims
    BY <1>4, ReaderWaits DEF ReceiveStep
  <2>2. Shape' /\ Script'
    BY <1>2, <1>4, <2>1 DEF Shape, Script, SavedIds
  <2>3. Directory'
    BY <1>4, <2>1, DirectoryKept
  <2> QED BY <1>1, <1>4, <2>2, <2>3, SilentStepKeeps
<1> QED BY <1>3, <1>4, WaitOtherConcludes DEF Shape, Side

LEMMA BothSidesKeep ==
  ASSUME PeerInductive, ReceiveStep, BothSides("rcv"), UNCHANGED rcvVars
  PROVE  PeerInductive'
<1> USE DEF PeerInductive
<1>0. /\ UNCHANGED <<meta, want, dest, dir, saved, claims>>
      /\ Core /\ "rcv" \in Side /\ Directory'
  BY DirectoryKept DEF rcvVars, Shape, Side, ReceiveStep
<1>1. CASE NewSession("rcv")
  <2>1. /\ pc["rcv"] = "init" /\ pc' = [pc EXCEPT !["rcv"] = "hello"]
        /\ UNCHANGED <<wire, signaled, chan, err>> /\ NoInput /\ reader' = reader
        /\ pump' = [pump EXCEPT !["rcv"] = "on"]
    BY <1>1, ReaderWaits DEF NewSession, At, GoTo
  <2>2. Shape' /\ Script'
    BY <1>0, <2>1 DEF Shape, Script, Core, Side, Labels, Ended, Early, Running, SavedIds
  <2> QED BY <1>0, <2>1, <2>2, SilentStepKeeps DEF Ended, Core
<1>2. CASE SendHello("rcv")
  <2>1. /\ pc["rcv"] = "hello" /\ NoInput /\ UNCHANGED <<signaled, chan, pump>>
        /\ Control("rcv", Hello(Version), "waitHello")
    BY <1>2 DEF SendHello, At, linkVars
  <2>2. CASE CanSend("rcv")
    <3>1. /\ Post("rcv", Hello(Version)) /\ err' = err
          /\ pc' = [pc EXCEPT !["rcv"] = "waitHello"]
      BY <2>1, <2>2 DEF Control, GoTo
    <3>2. reader' = [reader EXCEPT !.at = "greeted"]
      BY <2>1, <3>1, ReaderHears DEF Follow, Hello, Script
    <3>3. Shape' /\ pc'["rcv"] \notin Ended
      BY <1>0, <2>1, <3>1 DEF Shape, Core, Side, Labels, Ended, Early, Running, SavedIds
    <3>4. Script'
      BY <1>0, <2>1, <3>1, <3>2
         DEF Shape, Script, Core, Side, Ended, Early, Running, SavedIds
    <3>5. Hello(Version) \in Message
      BY CommonMessages DEF Common
    <3> QED BY <1>0, <2>1, <3>1, <3>3, <3>4, <3>5, SpokenKeeps DEF Ended
  <2>3. CASE ~CanSend("rcv")
    <3>1. FailWith("rcv", "send") /\ UNCHANGED wire /\ dest' = NoPath
      BY <1>0, <2>1, <2>3 DEF Control, Shape
    <3> QED BY <1>0, <2>1, <3>1, FailKeeps DEF Ended, Errors
  <2> QED BY <2>2, <2>3
<1>3. CASE WaitHello("rcv")
  <2>1. /\ pc["rcv"] = "waitHello" /\ UNCHANGED <<chan, pump>> /\ dest' = NoPath
        /\ NoInput \/ Consume("rcv")
    BY <1>0, <1>3
       DEF WaitHello, At, linkVars, WaitFails, TakeTerminal, TakeHello, TakeNotHello, Take, Shape
  <2>2. Core'
    BY <1>0, <1>3, WaitHelloMoves, GivenIsKinds DEF Shape
  <2>3. CASE Concludes("rcv")
    BY <1>0, <2>1, <2>2, <2>3, FailureKeeps DEF Ended
  <2>4. CASE GoTo("rcv", "waitManifest") /\ UNCHANGED <<wire, signaled>>
    <3>1. reader' = reader
      BY <2>4, ReaderWaits
    <3>2. Shape' /\ Script' /\ pc'["rcv"] \notin Ended
      BY <1>0, <2>1, <2>2, <2>4, <3>1
         DEF Shape, Script, Core, GoTo, Ended, Early, Running, SavedIds
    <3> QED BY <1>0, <2>1, <2>4, <3>2, SilentStepKeeps DEF Ended
  <2> QED BY <1>0, <1>3, <2>3, <2>4, WaitHelloConcludes DEF AfterHello
<1>4. CASE Abort("rcv")
  <2>1. /\ pc["rcv"] = "failed" /\ pc' = [pc EXCEPT !["rcv"] = "returned"]
        /\ UNCHANGED <<err, signaled, chan>> /\ NoInput
        /\ pump' = [pump EXCEPT !["rcv"] = "off"]
        /\ IF ~signaled["rcv"] /\ CanSend("rcv") THEN Post("rcv", Cancel) ELSE UNCHANGED wire
    BY <1>4 DEF Abort, At, GoTo
  <2>2. Shape' /\ err["rcv"] # "nil"
    BY <1>0, <2>1 DEF Shape, Core, Side, Labels, Ended, Early, Running, SavedIds
  <2>3. Queues(Given(claims))'
    <3>1. Cancel \in Message
      BY CommonMessages DEF Common
    <3> QED BY <1>0, <2>1, <3>1, QueuesKept DEF Speaks
  <2>4. CASE ~signaled["rcv"] /\ CanSend("rcv")
    <3>1. reader.at \notin {"over", "wrong"}
      BY <2>1, <2>4 DEF Ending, Script
    <3>2. reader' = [reader EXCEPT !.at = "over"]
      BY <2>1, <2>4, <3>1, ReaderHears, ReadsLastWord DEF Cancel
    <3>3. Script' /\ Ending'
      BY <2>1, <2>2, <3>2, <1>0
         DEF Script, Ending, Shape, Core, Ended, Early, Running, SavedIds
    <3> QED BY <1>0, <2>2, <2>3, <3>3
  <2>5. CASE ~(~signaled["rcv"] /\ CanSend("rcv"))
    <3>1. reader' = reader
      BY <2>1, <2>5, ReaderWaits
    <3>2. Script' /\ Ending'
      BY <2>1, <2>2, <2>5, <3>1, <1>0
         DEF Script, Ending, CanSend, Shape, Core, Ended, Early, Running, SavedIds
    <3> QED BY <1>0, <2>2, <2>3, <3>2
  <2> QED BY <2>4, <2>5
<1>5. CASE CloseConn("rcv")
  <2>1. /\ pc["rcv"] = "returned" /\ pc' = [pc EXCEPT !["rcv"] = "closed"]
        /\ UNCHANGED <<err, signaled, wire, pump>> /\ NoInput /\ reader' = reader
        /\ chan' = [chan EXCEPT !["rcv"] = "closed"]
    BY <1>5, ReaderWaits DEF CloseConn, At, GoTo
  <2>2. Shape' /\ Script' /\ Ending'
    BY <1>0, <2>1
       DEF Shape, Script, Ending, Core, Side, Labels, Ended, Early, Running, SavedIds
  <2> QED BY <1>0, <2>1, <2>2, QueuesKept DEF Speaks
<1> QED BY <1>1, <1>2, <1>3, <1>4, <1>5 DEF BothSides

LEMMA NoDestinationKeeps ==
  ASSUME PeerInductive, ReceiveStep, NoDestination
  PROVE  PeerInductive'
<1> USE DEF PeerInductive
<1>1. /\ pc["rcv"] = "init" /\ pc' = [pc EXCEPT !["rcv"] = "returned"]
      /\ err' = [err EXCEPT !["rcv"] = "local"] /\ NoInput
      /\ UNCHANGED <<meta, want, dest, dir, saved, claims, wire, signaled, chan, pump>>
      /\ reader' = reader
  BY ReaderWaits DEF NoDestination, At, linkVars, rcvVars, ReceiveStep
<1>2. Shape'
  BY <1>1 DEF Shape, Core, Side, Labels, Errors, Ended, Early, Running, SavedIds
<1>3. Script' /\ Ending'
  BY <1>1 DEF Shape, Script, Ending, Core, Side, Ended, Early, Running, SavedIds
<1> QED BY <1>1, <1>2, <1>3, DirectoryKept, QueuesKept DEF Speaks

LEMMA WaitManifestKeeps ==
  ASSUME PeerInductive, ReceiveStep, WaitManifest
  PROVE  PeerInductive'
<1> USE DEF PeerInductive
<1>1. /\ pc["rcv"] = "waitManifest" /\ pc["rcv"] \notin Ended
      /\ UNCHANGED <<chan, pump, want, dest, dir, saved, claims>>
      /\ dest = NoPath /\ want = {} /\ SavedIds = {}
  BY DEF WaitManifest, At, linkVars, KeepFiles, ReceiveStep, Ended, Shape, Early
<1>2. CASE TakeManifest /\ ValidManifest(NextMsg("rcv").files)
  <2> DEFINE files == NextMsg("rcv").files
  <2>1. /\ Consume("rcv") /\ meta' = ById(files) /\ UNCHANGED <<wire, signaled, err>>
        /\ pc' = [pc EXCEPT !["rcv"] = "decide"] /\ reader' = reader
        /\ NextMsg("rcv").t = "manifest"
    BY <1>2, ReaderWaits DEF TakeManifest, Take, GoTo
  <2>2. files \in Seq(FileMeta)
    BY <2>1, Taken, MessageFields
  <2>3. /\ DOMAIN meta' \subseteq Nat
        /\ \A id \in DOMAIN meta' : meta'[id].name \in Names /\ meta'[id].size \in Nat
    BY <1>2, <2>1, <2>2, ManifestEntries
  <2> HIDE DEF files
  <2>4. Directory'
    BY <1>1, <2>3 DEF Directory, Entries, Partial, Kept, Untouched, SavedIds
  <2>5. Shape' /\ pc'["rcv"] \notin Ended
    BY <1>1, <2>1 DEF Shape, Core, Side, Labels, Ended, Early, Running, SavedIds
  <2>6. Script'
    BY <1>1, <2>1 DEF Script, Shape, Core, Side, Ended, Early, Running, SavedIds
  <2> QED BY <1>1, <2>1, <2>4, <2>5, <2>6, SilentStepKeeps
<1>3. CASE TakeManifest /\ ~ValidManifest(NextMsg("rcv").files)
  <2>1. ProtocolError("rcv") /\ Consume("rcv") /\ UNCHANGED meta
    BY <1>3 DEF TakeManifest, Take
  <2> QED BY <1>1, <2>1, ProtocolErrorKeeps, DirectoryKept
<1>4. CASE WaitOther("rcv", {"manifest"}) /\ UNCHANGED meta
  BY <1>1, <1>4, WaitOtherKeeps, DirectoryKept
<1> QED BY <1>2, <1>3, <1>4 DEF WaitManifest

\* A refusal is a last word too.
LEMMA RefusalKeeps ==
  ASSUME PeerInductive, ReceiveStep, pc["rcv"] = "decide",
         NEW e \in {"decide", "declined"}, LastWord("rcv", Reject, e), NoInput,
         UNCHANGED <<chan, pump, meta, want, dest, dir, saved>>
  PROVE  PeerInductive'
<1> USE DEF PeerInductive
<1>1. /\ pc' = [pc EXCEPT !["rcv"] = "failed"] /\ err' = [err EXCEPT !["rcv"] = e]
      /\ claims' = claims
  BY DEF LastWord, FailWith, ReceiveStep
<1>2. Directory'
  BY <1>1, DirectoryKept
<1>3. CASE CanSend("rcv")
  <2>1. Post("rcv", Reject) /\ signaled' = [signaled EXCEPT !["rcv"] = TRUE]
    BY <1>3 DEF LastWord, Signal
  <2>2. reader.at = "greeted"
    BY DEF Script
  <2>3. reader' = Follow(reader, Reject, SavedIds')
    BY <2>1, ReaderHears
  <2>4. reader' = [reader EXCEPT !.at = "over"]
    BY <2>2, <2>3 DEF Follow, Reject, Hello
  <2>5. Shape'
    BY <1>1, <2>1 DEF Shape, Core, Side, Labels, Errors, Ended, Early, Running, SavedIds
  <2>6. Script' /\ Ending'
    BY <1>1, <2>1, <2>4 DEF Script, Ending, Shape, Core, Side, Ended, Early, Running, SavedIds
  <2>7. Reject \in Message
    BY DEF Reject, Message
  <2> QED BY <1>1, <1>2, <2>1, <2>5, <2>6, <2>7, QueuesKept DEF Speaks
<1>4. CASE ~CanSend("rcv")
  BY <1>2, <1>4, FailKeeps DEF LastWord, Errors, Ended, Shape
<1> QED BY <1>3, <1>4

LEMMA DecideKeeps ==
  ASSUME PeerInductive, ReceiveStep, Decide
  PROVE  PeerInductive'
<1> USE DEF PeerInductive
<1>1. /\ pc["rcv"] = "decide" /\ pc["rcv"] \notin Ended /\ NoInput
      /\ UNCHANGED <<chan, pump, meta, dest, dir, saved, claims>>
      /\ dest = NoPath /\ want = {} /\ SavedIds = {}
  BY DEF Decide, At, linkVars, KeepFiles, ReceiveStep, Ended, Shape, Early
<1>2. CASE LastWord("rcv", Reject, "decide") /\ UNCHANGED want
  BY <1>1, <1>2, RefusalKeeps
<1>3. CASE LastWord("rcv", Reject, "declined") /\ UNCHANGED want
  BY <1>1, <1>3, RefusalKeeps
<1>4. ASSUME NEW ids \in SUBSET DOMAIN meta, ids # {}, UNCHANGED signaled,
             Control("rcv", Accept(IF ids = DOMAIN meta THEN {} ELSE ids), "waitStart"),
             want' = IF CanSend("rcv") THEN ids ELSE want
      PROVE  PeerInductive'
  <2> DEFINE named == IF ids = DOMAIN meta THEN {} ELSE ids
  <2>1. named \subseteq DOMAIN meta /\ DOMAIN meta \subseteq Nat /\ ids \subseteq Nat
    BY DEF Directory, Entries
  <2>2. CASE CanSend("rcv")
    <3>1. /\ Post("rcv", Accept(named)) /\ err' = err /\ want' = ids
          /\ pc' = [pc EXCEPT !["rcv"] = "waitStart"]
      BY <1>4, <2>2 DEF Control, GoTo
    <3> HIDE DEF named
    <3>2. reader.at = "greeted" /\ reader.file = -1
      BY <1>1 DEF Script, Early
    <3>3. reader' = Follow(reader, Accept(named), SavedIds')
      BY <3>1, ReaderHears
    <3>4. reader' = [reader EXCEPT !.at = "files"]
      BY <2>1, <3>2, <3>3 DEF Follow, Accept, Hello
    <3>5. Accept(named) \in Message
      <4>1. named \in SUBSET Int
        BY <2>1
      <4> QED BY <4>1 DEF Accept, Message
    <3>6. Shape' /\ pc'["rcv"] \notin Ended
      <4>1. pc'["rcv"] = "waitStart" /\ pc' \in [Side -> Labels]
        BY <3>1 DEF Shape, Core, Side, Labels
      <4>2. Core'
        BY <1>4, <3>1, <4>1 DEF Shape, Core
      <4> QED BY <1>1, <3>1, <4>1, <4>2 DEF Shape, Ended, Early, Running
    <3>7. Script'
      BY <1>1, <2>1, <3>1, <3>2, <3>4
         DEF Script, Shape, Core, Side, Ended, Early, Running, SavedIds
    <3>8. Directory'
      BY <1>1, <3>1 DEF Directory, Entries, Partial, Kept, Untouched, SavedIds
    <3> QED BY <1>1, <1>4, <3>1, <3>5, <3>6, <3>7, <3>8, SpokenKeeps
  <2>3. CASE ~CanSend("rcv")
    <3>1. FailWith("rcv", "send") /\ UNCHANGED <<wire, want>>
      BY <1>4, <2>3 DEF Control
    <3> QED BY <1>1, <1>4, <3>1, FailKeeps, DirectoryKept DEF Errors
  <2> QED BY <2>2, <2>3
<1> QED BY <1>2, <1>3, <1>4 DEF Decide

LEMMA WaitFileStartKeeps ==
  ASSUME PeerInductive, ReceiveStep, WaitFileStart
  PROVE  PeerInductive'
<1> USE DEF PeerInductive
<1>1. /\ pc["rcv"] = "waitStart" /\ pc["rcv"] \notin Ended
      /\ UNCHANGED <<chan, pump, meta, want, saved, claims>>
      /\ dest = NoPath
  BY DEF WaitFileStart, At, linkVars, ReceiveStep, Ended, Shape
<1>2. CASE WaitOther("rcv", {"file-start"}) /\ UNCHANGED <<dest, dir>>
  BY <1>1, <1>2, WaitOtherKeeps, DirectoryKept
<1>3. CASE ProtocolError("rcv") /\ Consume("rcv") /\ UNCHANGED <<dest, dir>>
  BY <1>1, <1>3, ProtocolErrorKeeps, DirectoryKept
<1>4. ASSUME NEW id \in want, IsNext(id, want), CreateDest(id), Consume("rcv"),
             UNCHANGED <<wire, signaled>>
      PROVE  PeerInductive'
  <2>1. CASE FailWith("rcv", "local") /\ UNCHANGED <<dest, dir>>
    BY <1>1, <1>4, <2>1, FailKeeps, DirectoryKept DEF Errors
  <2>2. CASE GoTo("rcv", "chunks")
             /\ \E i \in 0..MaxAttempts-1 :
                  /\ Fresh(meta[id].name, i)
                  /\ dest' = Candidate(meta[id].name, i)
                  /\ dir' = [dir EXCEPT ![Candidate(meta[id].name, i)] = <<>>]
    <3>1. Directory' /\ dest' # NoPath
      BY <1>1, <1>4, <2>2, CreationKeeps
    <3>2. reader' = reader
      BY <1>4, ReaderWaits
    <3>3. Shape' /\ pc'["rcv"] \notin Ended
      BY <1>1, <1>4, <2>2, <3>1
         DEF GoTo, Shape, Core, Side, Labels, Ended, Early, Running, SavedIds
    <3>4. Script'
      BY <1>1, <2>2, <3>2
         DEF GoTo, Script, Shape, Core, Side, Ended, Early, Running, SavedIds
    <3> QED BY <1>1, <1>4, <3>1, <3>3, <3>4, SilentStepKeeps
  <2> QED BY <1>4, <2>1, <2>2 DEF CreateDest
<1> QED BY <1>2, <1>3, <1>4 DEF WaitFileStart, TakeFileStart, Take

LEMMA TakeChunkKeeps ==
  ASSUME PeerInductive, ReceiveStep, pc["rcv"] = "chunks", NEW id \in want, TakeChunk(id),
         UNCHANGED <<chan, pump, meta>>
  PROVE  PeerInductive'
<1> USE DEF PeerInductive
<1>1. /\ Consume("rcv") /\ NextMsg("rcv").data \in Content
      /\ UNCHANGED <<want, saved, claims>> /\ pc["rcv"] \notin Ended /\ dest # NoPath
  BY Taken, MessageFields DEF TakeChunk, Take, ReceiveStep, Ended, Shape
<1>2. CASE ProtocolError("rcv") /\ RemovePartial
  BY <1>1, <1>2, ProtocolErrorKeeps, RemovalKeeps
<1>3. CASE FailWith("rcv", "local") /\ RemovePartial /\ UNCHANGED <<wire, signaled>>
  BY <1>1, <1>3, FailKeeps, RemovalKeeps DEF Errors
<1>4. CASE /\ dir' = [dir EXCEPT ![dest] = @ \o NextMsg("rcv").data]
           /\ UNCHANGED <<pc, err, dest, wire, signaled>>
  <2>1. Directory'
    BY <1>1, <1>4, WritingKeeps
  <2>2. reader' = reader
    BY <1>4, ReaderWaits
  <2>3. Shape' /\ Script'
    BY <1>1, <1>4, <2>2 DEF Shape, Script, Core, SavedIds
  <2> QED BY <1>1, <1>4, <2>1, <2>3, SilentStepKeeps
<1> QED BY <1>2, <1>3, <1>4 DEF TakeChunk

\* A file is verified: it is as claimed, under a name of its own.
LEMMA KeepKeeps ==
  ASSUME PeerInductive, ReceiveStep, pc["rcv"] = "chunks", NEW id \in want,
         IsNext(id, want), Consume("rcv"), NextMsg("rcv").t = "file-end",
         NextMsg("rcv").id = id, NextMsg("rcv").sha256 = dir[dest],
         Len(dir[dest]) = meta[id].size, Keep(id), UNCHANGED <<chan, pump, meta>>
  PROVE  PeerInductive'
<1> USE DEF PeerInductive
<1>1. /\ pc["rcv"] \notin Ended /\ dest # NoPath /\ dest' = NoPath
      /\ UNCHANGED <<claims, dir, signaled>> /\ want' \subseteq want
      /\ Control("rcv", FileAck(id, "ok"), IF want = {id} THEN "waitDone" ELSE "waitStart")
  BY DEF Keep, ReceiveStep, Ended, Shape
<1>2. FileEnd(id, dir[dest]) \in claims
  <2>1. NextMsg("rcv") \in claims /\ NextMsg("rcv") \in Message
    BY Taken DEF Carried
  <2>2. NextMsg("rcv") = [t |-> "file-end", id |-> NextMsg("rcv").id,
                          sha256 |-> NextMsg("rcv").sha256]
    BY <2>1 DEF Message
  <2> QED BY <2>1, <2>2 DEF FileEnd
<1>3. /\ reader.at = "files" /\ reader.file < id /\ reader.file \in Int
      /\ \A k \in SavedIds : k <= reader.file
      /\ \A k \in want : k \in Nat /\ id <= k
  BY DEF Script, Running, IsNext, Directory, Entries
<1>4. id \in Nat /\ id \notin SavedIds /\ SavedIds \subseteq Nat
  BY <1>3 DEF Directory, Entries
<1>5. Directory' /\ SavedIds' = SavedIds \cup {id}
  BY <1>1, <1>2, <1>4, KeepingKeeps DEF Keep
<1>6. CASE ~CanSend("rcv")
  <2>1. FailWith("rcv", "send") /\ UNCHANGED wire
    BY <1>1, <1>6 DEF Control
  <2> QED BY <1>1, <1>5, <2>1, FailKeeps DEF Errors
<1>7. CASE CanSend("rcv")
  <2>1. /\ Post("rcv", FileAck(id, "ok")) /\ err' = err /\ want' = want \ {id}
        /\ pc' = [pc EXCEPT !["rcv"] = IF want = {id} THEN "waitDone" ELSE "waitStart"]
    BY <1>1, <1>7 DEF Control, GoTo, Keep
  <2>2. reader' = Follow(reader, FileAck(id, "ok"), SavedIds')
    BY <2>1, ReaderHears
  <2>3. reader' = [reader EXCEPT !.file = id]
    BY <1>3, <1>5, <2>2 DEF Follow, FileAck, Hello
  <2>4. FileAck(id, "ok") \in Message
    BY <1>4 DEF FileAck, Message
  <2>5. Shape' /\ pc'["rcv"] \notin Ended
    BY <1>1, <1>5, <2>1 DEF Shape, Core, Side, Labels, Ended, Early, Running
  <2>6. ASSUME NEW k \in want' PROVE id < k
    <3>1. k \in want /\ k # id
      BY <2>1, <2>6
    <3> QED BY <1>3, <1>4, <3>1
  <2>7. ASSUME NEW k \in SavedIds' PROVE k <= id
    <3>1. k \in SavedIds \/ k = id
      BY <1>5
    <3>2. CASE k \in SavedIds
      <4>1. k <= reader.file /\ reader.file < id
        BY <1>3, <3>2
      <4>2. k \in Int /\ reader.file \in Int /\ id \in Int
        BY <1>3, <1>4, <3>2
      <4> QED BY <4>1, <4>2
    <3>3. CASE k = id
      BY <1>4, <3>3
    <3> QED BY <3>1, <3>2, <3>3
  <2>8. Script'
    BY <1>3, <1>4, <2>1, <2>3, <2>5, <2>6, <2>7
       DEF Script, Shape, Core, Side, Ended, Early, Running
  <2> QED BY <1>1, <1>5, <2>1, <2>4, <2>5, <2>8, SpokenKeeps
<1> QED BY <1>6, <1>7

\* The ack of a file that is not as claimed is the truth: it goes.
LEMMA MismatchKeeps ==
  ASSUME PeerInductive, ReceiveStep, pc["rcv"] = "chunks", NEW id \in want,
         Consume("rcv"), Mismatch(id), UNCHANGED <<chan, pump, meta>>
  PROVE  PeerInductive'
<1> USE DEF PeerInductive
<1>1. /\ pc["rcv"] \notin Ended /\ UNCHANGED <<claims, want, saved, signaled>>
      /\ FailWith("rcv", "hash-mismatch")
  BY DEF Mismatch, ReceiveStep, Ended
<1>2. Directory' /\ dest' = NoPath
  BY <1>1, RemovalKeeps DEF Mismatch
<1>3. CASE ~CanSend("rcv")
  BY <1>1, <1>2, <1>3, FailKeeps DEF Mismatch, Errors
<1>4. CASE CanSend("rcv")
  <2>1. /\ Post("rcv", FileAck(id, "hash-mismatch"))
        /\ pc' = [pc EXCEPT !["rcv"] = "failed"]
        /\ err' = [err EXCEPT !["rcv"] = "hash-mismatch"]
    BY <1>1, <1>4 DEF Mismatch, FailWith
  <2>2. /\ reader.at = "files" /\ reader.file < id /\ reader.file \in Int
        /\ \A k \in SavedIds : k <= reader.file
        /\ id \in Nat /\ SavedIds \subseteq Nat
    BY DEF Script, Running, Directory, Entries
  <2>3. id \notin SavedIds'
    BY <1>1, <2>2 DEF SavedIds
  <2>4. reader' = Follow(reader, FileAck(id, "hash-mismatch"), SavedIds')
    BY <2>1, ReaderHears
  <2>5. reader' = [at |-> "mismatch", file |-> id]
    BY <2>2, <2>3, <2>4 DEF Follow, FileAck, Hello
  <2>6. Shape'
    BY <1>1, <1>2, <2>1 DEF Shape, Core, Side, Labels, Errors, Ended, Early, Running
  <2>7. Script' /\ Ending'
    BY <1>1, <2>1, <2>2, <2>3, <2>5
       DEF Script, Ending, Shape, Core, Side, Ended, Early, Running
  <2>8. FileAck(id, "hash-mismatch") \in Message
    BY <2>2 DEF FileAck, Message
  <2> QED BY <1>1, <1>2, <2>1, <2>6, <2>7, <2>8, QueuesKept DEF Speaks
<1> QED BY <1>3, <1>4

LEMMA ReceiveChunksKeeps ==
  ASSUME PeerInductive, ReceiveStep, ReceiveChunks
  PROVE  PeerInductive'
<1> USE DEF PeerInductive
<1>1. /\ pc["rcv"] = "chunks" /\ pc["rcv"] \notin Ended
      /\ UNCHANGED <<chan, pump, meta, claims>>
  BY DEF ReceiveChunks, At, linkVars, ReceiveStep, Ended
<1>2. ASSUME NEW id \in want, TakeChunk(id)
      PROVE  PeerInductive'
  BY <1>1, <1>2, TakeChunkKeeps
<1>3. ASSUME NEW id \in want, IsNext(id, want), TakeFileEnd(id)
      PROVE  PeerInductive'
  <2>1. Consume("rcv") /\ NextMsg("rcv").t = "file-end"
    BY <1>3 DEF TakeFileEnd, Take
  <2>2. CASE ProtocolError("rcv") /\ RemovePartial /\ UNCHANGED <<want, saved>>
    BY <1>1, <2>1, <2>2, ProtocolErrorKeeps, RemovalKeeps
  <2>3. CASE Mismatch(id)
    BY <1>1, <2>1, <2>3, MismatchKeeps
  <2>4. CASE /\ NextMsg("rcv").id = id /\ Len(dir[dest]) = meta[id].size
             /\ NextMsg("rcv").sha256 = dir[dest] /\ Keep(id)
    BY <1>1, <1>3, <2>1, <2>4, KeepKeeps
  <2>5. CASE /\ FailWith("rcv", "local") /\ RemovePartial
             /\ UNCHANGED <<wire, signaled, want, saved>>
    BY <1>1, <2>1, <2>5, FailKeeps, RemovalKeeps DEF Errors
  <2> QED BY <1>3, <2>2, <2>3, <2>4, <2>5 DEF TakeFileEnd
<1>4. CASE NoChunk
  <2>1. WaitOther("rcv", {"chunk", "file-end"}) /\ UNCHANGED <<want, saved>>
    BY <1>4 DEF NoChunk
  <2>2. \/ pc'["rcv"] = pc["rcv"] /\ UNCHANGED <<dest, dir>>
        \/ pc'["rcv"] # pc["rcv"] /\ RemovePartial
    BY <1>1, <1>4 DEF NoChunk, At
  <2> QED BY <1>1, <2>1, <2>2, RemovalKeeps, WaitOtherKeeps
<1> QED BY <1>2, <1>3, <1>4 DEF ReceiveChunks

LEMMA WaitDoneKeeps ==
  ASSUME PeerInductive, ReceiveStep, WaitDone
  PROVE  PeerInductive'
<1> USE DEF PeerInductive
<1>1. /\ pc["rcv"] = "waitDone" /\ pc["rcv"] \notin Ended /\ dest = NoPath
      /\ UNCHANGED <<chan, meta, want, dest, dir, saved, claims>>
  BY DEF WaitDone, At, rcvVars, ReceiveStep, Ended, Shape
<1>2. CASE WaitOther("rcv", {"done"}) /\ UNCHANGED pump
  BY <1>1, <1>2, WaitOtherKeeps, DirectoryKept
<1>3. CASE Take("rcv", {"done"}) /\ Succeed("rcv") /\ UNCHANGED <<wire, signaled>>
  <2>1. /\ pc' = [pc EXCEPT !["rcv"] = "returned"] /\ err' = [err EXCEPT !["rcv"] = "nil"]
        /\ pump' = [pump EXCEPT !["rcv"] = "off"] /\ Consume("rcv") /\ reader' = reader
    BY <1>3, ReaderWaits DEF Succeed, Take
  <2>2. Shape'
    BY <1>1, <1>3, <2>1 DEF Shape, Core, Side, Labels, Errors, Ended, Early, Running, SavedIds
  <2>3. Script' /\ Ending'
    BY <1>1, <1>3, <2>1
       DEF Script, Ending, Shape, Core, Side, Ended, Early, Running, SavedIds
  <2> QED BY <1>1, <1>3, <2>1, <2>2, <2>3, DirectoryKept, QueuesKept DEF Speaks
<1> QED BY <1>2, <1>3 DEF WaitDone

-----------------------------------------------------------------------------
(* The steps around it.                                                    *)

LEMMA OutsideKeeps ==
  ASSUME PeerInductive, UNCHANGED <<rcvVars, claims, reader>>,
         Network("rcv") \/ CancelCtx("rcv")
  PROVE  PeerInductive'
<1> USE DEF PeerInductive
<1>1. /\ UNCHANGED <<pc, err, signaled, pump, meta, want, dest, dir, saved>>
      /\ chan'["rcv"] = "open" => chan["rcv"] = "open"
  BY DEF Network, Deliver, LoseTail, SeeClose, RunOnClose, CancelCtx, linkVars,
         sessionVars, quiet, rcvVars, Shape, Side
<1>2. chan' \in [Side -> {"open", "hook", "closed"}]
  BY DEF Network, Deliver, LoseTail, SeeClose, RunOnClose, CancelCtx, linkVars, Shape
<1>3. Shape' /\ Script' /\ Ending'
  BY <1>1, <1>2 DEF Shape, Script, Ending, Core, SavedIds
<1>4. "rcv" \in Side /\ Typed(Given(claims))
  BY GivenIsKinds DEF Side, Kinds
<1>5. PICK G : G = Given(claims)
  OBVIOUS
<1>6. Queues(G)'
  BY <1>4, <1>5, NetworkQueues DEF CancelCtx, sessionVars, Queues, Holds
<1> QED BY <1>1, <1>3, <1>5, <1>6, DirectoryKept DEF Queues

\* The peer claims what it sends, and takes nothing back.
LEMMA PeerActs ==
  ASSUME PeerInductive, PeerSends \/ PeerCloses
  PROVE  PeerInductive'
<1> USE DEF PeerInductive
<1>1. /\ UNCHANGED <<linkVars, signaled, err, inbox, pending, reader>>
      /\ UNCHANGED <<meta, want, dest, dir, saved>>
      /\ pc'["rcv"] = pc["rcv"] /\ pc' \in [Side -> Labels]
      /\ claims \subseteq claims'
  BY DEF PeerSends, PeerCloses, quiet, GoTo, NoInput, rcvVars, Shape, Core, Side, Labels
<1>2. Shape' /\ Script' /\ Ending'
  BY <1>1 DEF linkVars, Shape, Script, Ending, Core, SavedIds
<1>3. Directory'
  <2>1. Entries' /\ Untouched'
    BY <1>1 DEF Directory, Entries, Untouched, SavedIds
  <2>2. Partial' /\ Kept'
    BY <1>1 DEF Directory, Partial, Kept, NewFile, IsCandidate, SavedIds
  <2> QED BY <2>1, <2>2 DEF Directory
<1>4. PICK G : G = Given(claims')
  OBVIOUS
<1>5. Queues(G)
  <2>1. \A s \in Side : Given(claims)[s] \subseteq Given(claims')[s]
    BY <1>1 DEF Given, Carried
  <2> QED BY <1>4, <2>1, SeqMonotonic DEF Queues, Holds
<1>6. Holds(wire', G)
  <2>1. CASE PeerCloses
    BY <1>5, <2>1 DEF PeerCloses, Queues
  <2>2. CASE PeerSends
    <3>1. PICK m \in PeerMsgs :
            /\ wire' = [wire EXCEPT !["rcv"] = Append(@, m)]
            /\ claims' = IF m.t = "file-end" THEN claims \cup {m} ELSE claims
      BY <2>2 DEF PeerSends
    <3>2. m \in Message /\ m \in G["rcv"] /\ wire["rcv"] \in Seq(G["rcv"]) /\ "rcv" \in Side
      BY <1>4, <1>5, <3>1, PeerAssumption DEF Given, Carried, Side, Queues, Holds
    <3>3. Append(wire["rcv"], m) \in Seq(G["rcv"])
      BY <3>2, AppendProperties
    <3> QED BY <1>4, <1>5, <3>1, <3>2, <3>3, GivenIsKinds, HoldsExcept DEF Kinds, Queues
  <2> QED BY <2>1, <2>2
<1> QED BY <1>1, <1>2, <1>3, <1>4, <1>5, <1>6 DEF Queues, Holds

-----------------------------------------------------------------------------

LEMMA PeerInit == Init => PeerInductive
<1> SUFFICES ASSUME Init PROVE PeerInductive
  OBVIOUS
<1>1. /\ want = {} /\ SavedIds = {} /\ DOMAIN meta = {} /\ dest = NoPath /\ dir = Before
      /\ pc["rcv"] = "init" /\ err["rcv"] = "none" /\ signaled["rcv"] = FALSE
      /\ pump["rcv"] = "none" /\ reader = [at |-> "start", file |-> -1]
  BY DEF Init, SessionInit, ReceiverInit, Side, SavedIds, NoEntries
<1>2. Shape
  <2>1. Core
    BY DEF Init, SessionInit, Core, Side, Labels, Errors
  <2>2. chan \in [Side -> {"open", "hook", "closed"}] /\ pump \in [Side -> {"none", "on", "off"}]
    BY DEF Init, SessionInit
  <2> QED BY <1>1, <2>1, <2>2 DEF Shape, Ended, Early, Running
<1>3. Directory
  BY <1>1, ReceiverAssumption DEF Directory, Entries, Partial, Kept, Untouched
<1>4. Script /\ Ending
  BY <1>1 DEF Script, Ending, Ended, Early, Running
<1>5. Queues(Given(claims))
  BY DEF Init, SessionInit, Queues, Holds
<1> QED BY <1>2, <1>3, <1>4, <1>5 DEF PeerInductive

LEMMA PeerStep == PeerInductive /\ [Next]_vars => PeerInductive'
<1> SUFFICES ASSUME PeerInductive, [Next]_vars PROVE PeerInductive'
  OBVIOUS
<1>1. CASE ReceiveStep
  BY <1>1, BothSidesKeep, NoDestinationKeeps, WaitManifestKeeps, DecideKeeps,
     WaitFileStartKeeps, ReceiveChunksKeeps, WaitDoneKeeps
     DEF ReceiveStep, ReceiverNext
<1>2. CASE Outside /\ UNCHANGED <<rcvVars, claims, reader>>
  BY <1>2, OutsideKeeps DEF Outside
<1>3. CASE PeerSends \/ PeerCloses
  BY <1>3, PeerActs
<1>4. CASE UNCHANGED vars
  <2>1. /\ UNCHANGED <<wire, inbox, pending, signaled, pc, err, chan, pump>>
        /\ UNCHANGED <<meta, want, dest, dir, saved, claims, reader>>
    BY <1>4 DEF vars, linkVars, sessionVars, rcvVars
  <2>2. Shape' /\ Script' /\ Ending'
    BY <2>1 DEF PeerInductive, Shape, Script, Ending, Core, SavedIds
  <2> QED BY <2>1, <2>2, DirectoryKept DEF PeerInductive, Queues, Holds
<1> QED BY <1>1, <1>2, <1>3, <1>4 DEF Next

\* The inductive invariant holds in every reachable state, for any directory
\* and any messages of the peer.
THEOREM ReceiverPeerInvariant == Spec => []PeerInductive
BY PeerInit, PeerStep, PTL DEF Spec

\* Whatever the peer sends and however the call ends, no file that was there
\* is touched, and what is new is kept files and the one under way.
THEOREM ReceiveLeavesNothingBehind == Spec => []NothingLeftBehind
<1>1. PeerInductive => NothingLeftBehind
  <2> SUFFICES ASSUME PeerInductive, NEW p \in Paths, dir[p] # Before[p]
               PROVE  /\ Before[p] = NoFile
                      /\ \/ \E id \in SavedIds : saved[id] = p
                         \/ p = dest /\ At("rcv", "chunks")
    BY DEF NothingLeftBehind
  <2>1. p # NoPath
    BY ReceiverAssumption
  <2>2. CASE p = dest
    BY <2>1, <2>2 DEF PeerInductive, Directory, Partial, Shape, NewFile, At
  <2>3. CASE \E id \in SavedIds : p = saved[id]
    BY <2>3 DEF PeerInductive, Directory, Kept, NewFile
  <2> QED BY <2>2, <2>3 DEF PeerInductive, Directory, Untouched
<1> QED BY <1>1, ReceiverPeerInvariant, PTL

\* Every kept file has the size its entry declares and the digest the peer
\* claimed for it, under a candidate of its name and a path of its own.
THEOREM ReceiveSavesAsClaimed == Spec => []SavedAsClaimed
<1>1. PeerInductive => SavedAsClaimed
  BY DEF PeerInductive, Directory, Kept, IsCandidate, SavedAsClaimed
<1> QED BY <1>1, ReceiverPeerInvariant, PTL

\* Whatever the peer sends and whenever it closes, what Receive says is a
\* run of TP/1, and its acks tell the truth about the files kept.
THEOREM ReceiveSpeaksTP1 == Spec => []SpeaksTP1
<1>1. PeerInductive => SpeaksTP1
  BY DEF PeerInductive, Script, SpeaksTP1
<1> QED BY <1>1, ReceiverPeerInvariant, PTL

\* Receive succeeds with every accepted file kept and acknowledged; when it
\* fails, the last thing it says tells its peer, unless the channel is gone
\* or the peer ended the transfer itself.
THEOREM ReceiveTellsItsPeer == Spec => []PeerIsTold
<1>1. PeerInductive => PeerIsTold
  BY DEF PeerInductive, Script, Ending, PeerIsTold, At
<1> QED BY <1>1, ReceiverPeerInvariant, PTL
=============================================================================
