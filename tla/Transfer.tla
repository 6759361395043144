------------------------------ MODULE Transfer ------------------------------
(***************************************************************************)
(* One transfer between two jsi programs: transfer.Send at one end and     *)
(* transfer.Receive at the other, the data channel between them, their     *)
(* users, and the callers that close the connection when the call returns. *)
(***************************************************************************)
EXTENDS Sender, Receiver

vars == <<linkVars, sessionVars, sndVars, rcvVars>>

Init == SessionInit /\ SenderInit /\ ReceiverInit

SenderStep   == SenderNext /\ UNCHANGED rcvVars
ReceiverStep == ReceiverNext /\ UNCHANGED sndVars
NetworkStep  == \E s \in Side : Network(s) /\ UNCHANGED <<sndVars, rcvVars>>
UserStep     == \/ \E s \in Side : CancelCtx(s) /\ UNCHANGED <<sndVars, rcvVars>>
                \/ ChangeFile /\ UNCHANGED rcvVars

Next == SenderStep \/ ReceiverStep \/ NetworkStep \/ UserStep

Spec == Init /\ [][Next]_vars

\* The goroutines run, the network delivers and reports closes, the callers
\* close, and a user asked to decide answers.  Nobody has to press Ctrl-C.
FairSpec ==
  /\ Spec
  /\ WF_vars(SenderStep)
  /\ WF_vars(ReceiverStep)
  /\ \A s \in Side : WF_vars(Deliver(s) /\ UNCHANGED <<sndVars, rcvVars>>)
  /\ \A s \in Side : WF_vars(SeeClose(s) /\ UNCHANGED <<sndVars, rcvVars>>)
  /\ \A s \in Side : WF_vars(RunOnClose(s) /\ UNCHANGED <<sndVars, rcvVars>>)

-----------------------------------------------------------------------------
(* Properties.                                                             *)

TypeOK == SessionTypeOK /\ SenderTypeOK /\ ReceiverTypeOK

Acked == accepted \ todo

\* A file Receive keeps is the whole file the sender declared, byte for
\* byte, still under its own path: later files, collisions and clean-ups of
\* other files never touch it.
SavedIntact ==
  \A id \in SavedIds :
    /\ id \in Files
    /\ dir[saved[id]] = FileData(id, Size[id])

\* Send counts a file as delivered (and reports it done) only when Receive
\* has verified and kept it.
AckedIsSaved ==
  /\ Acked \subseteq SavedIds
  /\ \A id \in Files : <<"ok", id>> \in Emitted("snd") => id \in SavedIds

\* Two jsi programs never accuse each other of breaking TP/1, never meet a
\* version or digest mismatch, whatever is cancelled, closed, lost or
\* failing on either side: only a file that changed its length can do it.
HonestPeersAgree ==
  (\E s \in Side : err[s] \in {"protocol", "version", "hash-mismatch", "peer-error"})
    => \E id \in Files : disk[id] # Size[id]

\* What a failed side says of its peer is true: a reject was a refusal, a
\* cancel or an error came from a peer that failed, and a closed channel
\* from a peer whose call is over.
BlameIsTrue ==
  \A s \in Side :
    LET peer == Peer(s) IN
      /\ err[s] = "rejected" => err[peer] \in {"declined", "decide"}
      /\ err[s] \in {"peer-cancel", "peer-error"} => err[peer] \notin {"none", "nil"}
      /\ err[s] = "peer-closed" => pc[peer] = "closed"

\* The files of an accept a side is through with, and those it is not.
Left(s)      == IF s = "snd" THEN todo ELSE want
Completed(s) == IF s = "snd" THEN Acked ELSE SavedIds \ want
Upcoming(s)  == {id \in Left(s) : IsNext(id, Left(s))}

\* A log in the order of the files, each event once, a start before its done.
Precedes(e, f) == e[2] < f[2] \/ (e[2] = f[2] /\ e[1] = "start" /\ f[1] # "start")
Ascending(log) == \A i, j \in DOMAIN log : i < j => Precedes(log[i], log[j])

\* What a front end that was not cancelled has been told when its call has
\* returned.  The terminal event says whether the call succeeded, which it
\* does only with no file left.  The log has, in the order of the files and
\* once each, a start and a done for every file acknowledged, and of all others
\* only ever the one at which the call failed: its done exactly if the digest
\* differed.  So a file that changed its length has a start and never a done,
\* which is less than the contract at Event promises.
FrontEndTold ==
  \A s \in Side :
    pc[s] \in {"returned", "closed"} /\ ~ctx[s] =>
      LET each == {"start", "ok"} \X Completed(s)
          with(kinds) == each \cup (kinds \X Upcoming(s))
      IN
      /\ final[s] = IF err[s] = "nil" THEN "done" ELSE "error"
      /\ err[s] = "nil" => Left(s) = {}
      /\ err[s] \in {"hash-mismatch", "changed"} => Upcoming(s) # {}
      /\ Ascending(shown[s])
      /\ Emitted(s) \in CASE err[s] = "hash-mismatch" -> {with({"start", "bad"})}
                          [] err[s] = "changed"       -> {with({"start"})}
                          [] OTHER                    -> {each, with({"start"})}

\* A kept file stays kept, under the same path, with the same content.
SavedForever ==
  [][\A id \in SavedIds : /\ id \in DOMAIN saved'
                          /\ saved'[id] = saved[id]
                          /\ dir'[saved[id]] = dir[saved[id]]]_vars

\* WriteFlow paused on a channel that has closed: nothing drains the buffer
\* any more and nothing wakes it but the context.
StuckWriting ==
  /\ At("snd", "write")
  /\ Buffered >= HighWater
  /\ At("rcv", "closed")

\* TRANSFER.md: a cancel, at any time, is acknowledged by closing the
\* channel.  Whoever gives up because of its context, the other side's call
\* ends and its connection is closed.
CancelClosesPeer == \A s \in Side : err[s] = "ctx" ~> At(Peer(s), "closed")

-----------------------------------------------------------------------------
(* The inductive invariant behind TypeOK, SavedIntact and AckedIsSaved.    *)

\* The messages that may be on their way to side s when the files in ids
\* are saved.  Only these three kinds matter for what is stored.
Sound(s, ids) ==
  {m \in Message :
     IF s = "rcv"
     THEN /\ m.t = "manifest" => m.files = Metas
          /\ m.t = "file-end" => /\ m.id \in Files
                                 /\ m.sha256 = FileData(m.id, Size[m.id])
     ELSE m.t = "file-ack" /\ m.status = "ok" => m.id \in ids}

Flying(s) == {wire[s], inbox[s], pending[s]}

MessagesSound == \A s \in Side : Flying(s) \subseteq Seq(Sound(s, SavedIds))

\* The file being written is none of the saved ones; a file is not received
\* twice; the manifest is the sender's.
ReceiverSound ==
  /\ meta = NoEntries \/ meta = ById(Metas)
  /\ At("rcv", "chunks") => /\ dest \in Paths
                            /\ dir[dest] \in Content
                            /\ \A id \in SavedIds : saved[id] # dest
  /\ pc["rcv"] \in {"waitStart", "chunks"} => want \cap SavedIds = {}
  /\ pc["rcv"] \in {"init", "hello", "waitHello", "waitManifest", "decide"}
       => SavedIds = {}

SenderSound == At("snd", "fileEnd") => sent = Size[cur]

\* Together they are preserved by every step: the digest a file was saved
\* under is the one of the declared file only because every file-end on its
\* way carries it, and an ack tells the truth from the moment it is sent.
Inductive == /\ TypeOK /\ MessagesSound /\ SenderSound /\ ReceiverSound
             /\ SavedIntact /\ AckedIsSaved

-----------------------------------------------------------------------------
(* The promise of Delivery.                                                *)

Outcome(s) == IF err[s] = "none" THEN "running"
              ELSE IF err[s] = "nil" THEN "ok" ELSE "failed"

Promise == INSTANCE Delivery WITH
  chosen   <- want \cup SavedIds,
  stored   <- SavedIds,
  known    <- Acked,
  sender   <- Outcome("snd"),
  receiver <- Outcome("rcv")

\* The transfer keeps the promise.
KeepsPromise == Promise!DSpec
=============================================================================
