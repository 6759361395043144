------------------------------ MODULE Interop ------------------------------
(***************************************************************************)
(* The browser client on the data channel (pwa/src/rtc/transfer.ts), with  *)
(* a jsi program or another browser at the far end: each side is one or    *)
(* the other.  A jsi side is that of Transfer.                             *)
(*                                                                         *)
(* In a browser one task runs at a time: what send or receive does between *)
(* two awaits is one step, and a side that waits for a message handles it  *)
(* before the next event.  Its calls never get an AbortSignal.  Nothing it *)
(* meets here is malformed or unknown, which it would skip.                *)
(***************************************************************************)
EXTENDS Transfer

CONSTANTS
  LowWater,  \* messages at which bufferedamountlow fires
  MaxRead    \* units one reader.read() returns at most

ASSUME InteropAssumption ==
  /\ LowWater \in Nat /\ LowWater < HighWater
  /\ MaxRead \in Nat \ {0}

VARIABLES
  kind,     \* what each side is: "jsi" or "browser"
  part,     \* bytes of the file being received by a browser
  results   \* files received by a browser, in memory until receive returns

ivars == <<vars, kind, part, results>>

\* Where a browser waits for a message, and where else it may be.
Waits  == {"b-reply", "b-ack", "b-manifest", "b-start", "b-chunks", "b-done"}
Others == {"b-next", "b-loop", "b-low", "b-read", "b-error", "b-over"}

InteropTypeOK ==
  /\ kind \in [Side -> {"jsi", "browser"}]
  /\ pc \in [Side -> Labels \cup Waits \cup Others]
  /\ part \in Content
  /\ \A id \in DOMAIN results : id \in Files /\ results[id] \in Content

InteropInit ==
  /\ Init
  /\ kind \in [Side -> {"jsi", "browser"}]
  /\ part = <<>> /\ results = NoEntries

Browser(s) == kind[s] = "browser"

-----------------------------------------------------------------------------
(* Building blocks of a browser's step.                                    *)

\* The promise is rejected and the screen shows the error.  The peer is not
\* told, the channel stays, and received files are gone.
Throw(s, e) ==
  /\ pc' = [pc EXCEPT ![s] = "b-error"]
  /\ err' = [err EXCEPT ![s] = e]
  /\ pump' = [pump EXCEPT ![s] = "off"]
  /\ results' = IF s = "rcv" THEN NoEntries ELSE results

Resume(s, label) == GoTo(s, label) /\ UNCHANGED <<pump, results>>

\* The promise is resolved; inbox.close.
Resolve(s) ==
  /\ pc' = [pc EXCEPT ![s] = "b-over"]
  /\ err' = [err EXCEPT ![s] = "nil"]
  /\ pump' = [pump EXCEPT ![s] = "off"]

\* channel.send of several messages: it throws unless the channel is open.
SendAll(s, msgs, label) ==
  IF CanSend(s)
  THEN wire' = [wire EXCEPT ![Peer(s)] = @ \o msgs] /\ Resume(s, label)
  ELSE Throw(s, "send") /\ UNCHANGED wire

\* A message that is not the one waited for.
TakeOther(s, types) ==
  /\ Consume(s) /\ NextMsg(s).t \notin types
  /\ Throw(s, "protocol")
  /\ UNCHANGED wire

SkipHello(s) == Take(s, {"hello"}) /\ UNCHANGED <<pc, err, pump, results, wire>>

browserRest == <<signaled, pending, shown, final, chan, closed, ctx, disk, kind,
                 dest, dir, saved>>

\* setupInbox takes over the messages kept by Peer; hello follows, and from
\* a sender the manifest.
Start(s) ==
  /\ At(s, "init")
  /\ LET hello == <<Hello(Version)>> IN
       IF CanSend(s)
       THEN /\ wire' = [wire EXCEPT ![Peer(s)] =
                          @ \o IF s = "snd" THEN hello \o <<Manifest(Metas)>> ELSE hello]
            /\ GoTo(s, IF s = "snd" THEN "b-reply" ELSE "b-manifest")
            /\ pump' = [pump EXCEPT ![s] = "on"]
            /\ UNCHANGED results
       ELSE Throw(s, "send") /\ UNCHANGED wire
  /\ UNCHANGED <<browserRest, inbox, accepted, todo, cur, sent, buf, meta, want, part>>

-----------------------------------------------------------------------------
(* send.                                                                   *)

\* Mutant: the receiver's hello is taken for its reply.
ReplyNotHello ==
  /\ At("snd", "b-reply")
  /\ \/ /\ Take("snd", {"accept"})
        /\ accepted' = ResolveAccept(NextMsg("snd").ids, NumFiles)
        /\ todo' = accepted'
        /\ Resume("snd", "b-next") /\ UNCHANGED wire
     \/ TakeOther("snd", {"accept"}) /\ UNCHANGED <<accepted, todo>>
  /\ UNCHANGED <<browserRest, cur, sent, buf, meta, want, part>>

Reply ==
  /\ At("snd", "b-reply")
  /\ \/ /\ Take("snd", {"accept"})
        /\ accepted' = ResolveAccept(NextMsg("snd").ids, NumFiles)
        /\ todo' = accepted'
        /\ Resume("snd", "b-next") /\ UNCHANGED wire
     \/ /\ \/ SkipHello("snd")
           \/ Take("snd", {"reject"}) /\ Throw("snd", "rejected") /\ UNCHANGED wire
           \/ TakeOther("snd", {"accept", "hello", "reject"})
        /\ UNCHANGED <<accepted, todo>>
  /\ UNCHANGED <<browserRest, cur, sent, buf, meta, want, part>>

\* The next accepted file, or done.
NextFile ==
  /\ At("snd", "b-next")
  /\ \/ /\ \E id \in todo : /\ IsNext(id, todo)
                            /\ SendAll("snd", <<FileStart(id)>>, "b-loop")
                            /\ cur' = id
        /\ sent' = 0
     \/ /\ todo = {}
        /\ IF CanSend("snd")
           THEN Post("snd", Done) /\ Resolve("snd") /\ UNCHANGED results
           ELSE Throw("snd", "send") /\ UNCHANGED wire
        /\ UNCHANGED <<cur, sent>>
  /\ UNCHANGED <<browserRest, inbox, accepted, todo, buf, meta, want, part>>

\* Too much buffered: waitForBufferLow, for the event alone.
Pace ==
  /\ At("snd", "b-loop")
  /\ Resume("snd", IF Buffered >= HighWater THEN "b-low" ELSE "b-read")
  /\ UNCHANGED <<browserRest, wire, inbox, sndVars, meta, want, part>>

BufferedAmountLow ==
  /\ At("snd", "b-low") /\ Buffered <= LowWater
  /\ Resume("snd", "b-read")
  /\ UNCHANGED <<browserRest, wire, inbox, sndVars, meta, want, part>>

\* reader.read returns bytes, all of which are sent at once in chunks, or
\* the end of the file, or fails.
Pieces(n) == [k \in 1..(n + ChunkSize - 1) \div ChunkSize |->
                LET from == (k - 1) * ChunkSize IN
                  Chunk(Slice(cur, sent + from, IF n - from < ChunkSize THEN n - from ELSE ChunkSize))]

ReadBlob ==
  /\ At("snd", "b-read")
  /\ \/ /\ sent < Size[cur]
        /\ \E n \in 1..MaxRead : /\ sent + n <= Size[cur]
                                 /\ SendAll("snd", Pieces(n), "b-loop")
                                 /\ sent' = sent + n
     \/ /\ sent = Size[cur]
        /\ SendAll("snd", <<FileEnd(cur, FileData(cur, sent))>>, "b-ack")
        /\ UNCHANGED sent
     \/ Throw("snd", "local") /\ UNCHANGED <<wire, sent>>
  /\ UNCHANGED <<browserRest, inbox, accepted, todo, cur, buf, meta, want, part>>

\* Any ack but a mismatch will do.  next rejects when the channel had closed
\* before it was called.
AwaitAck ==
  /\ At("snd", "b-ack")
  /\ \/ /\ Take("snd", {"file-ack"}) /\ NextMsg("snd").status # "hash-mismatch"
        /\ todo' = todo \ {cur}
        /\ Resume("snd", "b-next") /\ UNCHANGED wire
     \/ /\ \/ /\ Take("snd", {"file-ack"}) /\ NextMsg("snd").status = "hash-mismatch"
              /\ Throw("snd", "hash-mismatch") /\ UNCHANGED wire
           \/ TakeOther("snd", {"file-ack"})
           \/ /\ closed["snd"] /\ inbox["snd"] = <<>>
              /\ Throw("snd", "peer-cancel") /\ UNCHANGED <<wire, inbox>>
        /\ UNCHANGED todo
  /\ UNCHANGED <<browserRest, accepted, cur, sent, buf, meta, want, part>>

BrowserSends == Reply \/ NextFile \/ Pace \/ ReadBlob \/ AwaitAck

-----------------------------------------------------------------------------
(* receive.                                                                *)

\* The manifest is accepted as it is.
AwaitManifest ==
  /\ At("rcv", "b-manifest")
  /\ \/ /\ Take("rcv", {"manifest"})
        /\ meta' = ById(NextMsg("rcv").files) /\ want' = DOMAIN meta'
        /\ SendAll("rcv", <<Accept({})>>, "b-start")
     \/ SkipHello("rcv") /\ UNCHANGED <<meta, want>>
     \/ TakeOther("rcv", {"manifest", "hello"}) /\ UNCHANGED <<meta, want>>
  /\ UNCHANGED <<browserRest, accepted, todo, cur, sent, buf, part>>

\* A file-start, whatever it names, starts the next file of the manifest.
AwaitStart ==
  /\ At("rcv", "b-start")
  /\ \/ /\ Take("rcv", {"file-start"})
        /\ part' = <<>>
        /\ Resume("rcv", "b-chunks") /\ UNCHANGED wire
     \/ TakeOther("rcv", {"file-start"}) /\ UNCHANGED part
  /\ UNCHANGED <<browserRest, accepted, todo, cur, sent, buf, meta, want>>

\* Mutant: the results are numbered from one.
EndOfFileFromOne(id) ==
  /\ Len(part) = meta[id].size /\ part = NextMsg("rcv").sha256 /\ CanSend("rcv")
  /\ Post("rcv", FileAck(id, "ok"))
  /\ results' = [i \in DOMAIN results \cup {id + 1} |-> part]
  /\ want' = want \ {id}
  /\ GoTo("rcv", IF want = {id} THEN "b-done" ELSE "b-start") /\ UNCHANGED pump

\* file-end of file id: size, digest, ack, and the file is one of results.
EndOfFile(id) ==
  LET digest == NextMsg("rcv").sha256
      label  == IF want = {id} THEN "b-done" ELSE "b-start" IN
    \/ /\ Len(part) # meta[id].size
       /\ Throw("rcv", "protocol") /\ UNCHANGED <<wire, want>>
    \/ /\ Len(part) = meta[id].size /\ part = digest /\ CanSend("rcv")
       /\ Post("rcv", FileAck(id, "ok"))
       /\ results' = [i \in DOMAIN results \cup {id} |-> IF i = id THEN part ELSE results[i]]
       /\ want' = want \ {id}
       /\ GoTo("rcv", label) /\ UNCHANGED pump
    \/ /\ Len(part) = meta[id].size /\ part # digest /\ CanSend("rcv")
       /\ Post("rcv", FileAck(id, "hash-mismatch"))
       /\ Throw("rcv", "hash-mismatch") /\ UNCHANGED want
    \/ /\ Len(part) = meta[id].size /\ ~CanSend("rcv")
       /\ Throw("rcv", "send") /\ UNCHANGED <<wire, want>>

AwaitChunks ==
  /\ At("rcv", "b-chunks")
  /\ \/ /\ Take("rcv", {"chunk"})
        /\ part' = part \o NextMsg("rcv").data
        /\ UNCHANGED <<pc, err, pump, results, wire, want>>
     \/ /\ Take("rcv", {"file-end"})
        /\ \E id \in want : IsNext(id, want) /\ EndOfFile(id)
        /\ UNCHANGED part
     \/ /\ \/ Take("rcv", {"cancel"}) /\ Throw("rcv", "peer-cancel") /\ UNCHANGED wire
           \/ TakeOther("rcv", {"chunk", "file-end", "cancel"})
        /\ UNCHANGED <<part, want>>
  /\ UNCHANGED <<browserRest, accepted, todo, cur, sent, buf, meta>>

\* Mutant: receive returns after the last file.
AwaitNothing ==
  /\ At("rcv", "b-done")
  /\ Resolve("rcv") /\ UNCHANGED <<wire, inbox, results>>
  /\ UNCHANGED <<browserRest, sndVars, meta, want, part>>

AwaitDone ==
  /\ At("rcv", "b-done")
  /\ \/ Take("rcv", {"done"}) /\ Resolve("rcv") /\ UNCHANGED <<wire, results>>
     \/ TakeOther("rcv", {"done"})
  /\ UNCHANGED <<browserRest, sndVars, meta, want, part>>

BrowserReceives == AwaitManifest \/ AwaitStart \/ AwaitChunks \/ AwaitDone

-----------------------------------------------------------------------------
(* The channel and the user of a browser.                                  *)

Settled(s) == pc[s] \in Waits => inbox[s] = <<>>
sides == <<sndVars, rcvVars, kind, part, results>>

\* onmessage: the queue has no bound.
BrowserDeliver(s) ==
  /\ wire[s] # <<>> /\ ~At(s, "closed")
  /\ \/ pump[s] = "on" /\ Settled(s) /\ inbox' = [inbox EXCEPT ![s] = Append(@, Head(wire[s]))]
     \/ pump[s] = "off" /\ UNCHANGED inbox
  /\ wire' = [wire EXCEPT ![s] = Tail(@)]
  /\ UNCHANGED <<linkVars, quiet, sides>>

\* Mutant: onclose leaves the waiter alone.
BrowserOnCloseQuiet(s) ==
  /\ chan[s] = "hook" /\ Settled(s)
  /\ chan' = [chan EXCEPT ![s] = "closed"]
  /\ closed' = [closed EXCEPT ![s] = TRUE]
  /\ UNCHANGED <<wire, inbox, quiet, pump, ctx, sides>>

\* onclose: to a side that waits it is a cancel.
BrowserOnClose(s) ==
  /\ chan[s] = "hook" /\ Settled(s)
  /\ chan' = [chan EXCEPT ![s] = "closed"]
  /\ closed' = [closed EXCEPT ![s] = TRUE]
  /\ inbox' = IF pc[s] \in Waits THEN [inbox EXCEPT ![s] = <<Cancel>>] ELSE inbox
  /\ UNCHANGED <<wire, quiet, pump, ctx, sides>>

\* The Back button: nothing else closes the connection.
Back(s) ==
  /\ Browser(s) /\ ~At(s, "closed")
  /\ chan' = [chan EXCEPT ![s] = "closed"]
  /\ pc' = [pc EXCEPT ![s] = "closed"]
  /\ err' = [err EXCEPT ![s] = IF @ = "none" THEN "left" ELSE @]
  /\ pump' = [pump EXCEPT ![s] = "off"]
  /\ results' = IF s = "rcv" /\ err[s] # "nil" THEN NoEntries ELSE results
  /\ UNCHANGED <<wire, inbox, pending, signaled, shown, final, closed, ctx,
                 sndVars, rcvVars, kind, part>>

Run(s) ==
  IF Browser(s)
  THEN Start(s) \/ (IF s = "snd" THEN BrowserSends ELSE BrowserReceives)
  ELSE /\ IF s = "snd" THEN SenderStep ELSE ReceiverStep
       /\ UNCHANGED <<kind, part, results>>

Reach(s) == IF Browser(s) THEN BrowserDeliver(s)
                          ELSE Deliver(s) /\ UNCHANGED sides
NoticeClose(s) == SeeClose(s) /\ UNCHANGED sides
OnClose(s) == IF Browser(s) THEN BrowserOnClose(s)
                            ELSE RunOnClose(s) /\ UNCHANGED sides

InteropNext ==
  \/ BufferedAmountLow
  \/ \E s \in Side :
       \/ Run(s) \/ Reach(s) \/ NoticeClose(s) \/ OnClose(s) \/ Back(s)
       \/ LoseTail(s) /\ UNCHANGED sides
       \/ ~Browser(s) /\ CancelCtx(s) /\ UNCHANGED sides
  \/ ~Browser("snd") /\ ChangeFile /\ UNCHANGED <<rcvVars, kind, part, results>>

InteropSpec == InteropInit /\ [][InteropNext]_ivars

\* As in Transfer; the event comes from a buffer that a peer drains; and the
\* user of a browser leaves a screen that says the transfer is over.
InteropFairSpec ==
  /\ InteropSpec
  /\ \A s \in Side : /\ WF_ivars(Run(s)) /\ WF_ivars(Reach(s))
                     /\ WF_ivars(NoticeClose(s)) /\ WF_ivars(OnClose(s))
                     /\ WF_ivars(Back(s) /\ pc[s] \in {"b-error", "b-over"})
  /\ WF_ivars(BufferedAmountLow /\ ~At("rcv", "closed"))

-----------------------------------------------------------------------------
(* Properties.                                                             *)

Held(id) == IF Browser("rcv") THEN id \in DOMAIN results ELSE id \in SavedIds
Bytes(id) == IF Browser("rcv") THEN results[id] ELSE dir[saved[id]]

\* Whatever the two ends are, a receiver that succeeds has every file that
\* was accepted, whole, and its sender has succeeded.  A sender that
\* succeeds had every file acknowledged, but a browser that does not get to
\* see the done keeps none of them, and only because somebody closed or
\* cancelled in between.
SuccessIsShared ==
  /\ err["rcv"] = "nil" =>
       /\ err["snd"] = "nil"
       /\ \A id \in accepted : Held(id) /\ Bytes(id) = FileData(id, Size[id])
  /\ err["snd"] = "nil" =>
       \/ \A id \in accepted : Held(id)
       \/ Browser("rcv") /\ (err["rcv"] = "left" \/ At("snd", "closed"))

\* A jsi program never takes a browser for a peer that breaks TP/1, nor the
\* other way round: a browser that speaks of a violation has a peer that
\* failed, left or closed, which it takes for one.
NobodyIsAccused ==
  (\A id \in Files : disk[id] = Size[id]) =>
    \A s \in Side :
      /\ err[s] \notin {"version", "hash-mismatch"}
      /\ err[s] \in {"protocol", "peer-error"} =>
           Browser(s) /\ (err[Peer(s)] \notin {"none", "nil"} \/ At(Peer(s), "closed"))

\* A sender caught in a pause that nothing ends any more.
StuckSending == StuckWriting \/ (At("snd", "b-low") /\ At("rcv", "closed"))

\* Both ends come to their end, whatever they are, unless the sender is
\* caught in that pause.
BothSidesEnd == <>(At("rcv", "closed") /\ (At("snd", "closed") \/ StuckSending))
=============================================================================
