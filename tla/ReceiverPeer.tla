---------------------------- MODULE ReceiverPeer ----------------------------
(***************************************************************************)
(* transfer.Receive against any peer: the other end of the channel may     *)
(* send any message at any time, and may close.  The peer reads nothing    *)
(* here, so that wire["snd"] is everything Receive has said; reader is a   *)
(* reader of TP/1 that follows it word by word.                            *)
(***************************************************************************)
EXTENDS Receiver, SequencesExt

CONSTANTS
  PeerMsgs,   \* the messages the peer may send
  MaxFlying   \* how many of them may be unread at once

ASSUME PeerAssumption == PeerMsgs \subseteq Message

VARIABLES
  claims,  \* the file-end messages the peer has sent
  reader   \* where a reader of the receiver's half of the TP/1 flow stands

vars == <<linkVars, sessionVars, rcvVars, claims, reader>>

\* One step of that reader, when the files in kept are saved: at is where it
\* stands, file the file of the last ack.
Follow(r, m, kept) ==
  CASE r.at \in {"over", "wrong"} -> [r EXCEPT !.at = "wrong"]
    [] r.at \notin {"over", "wrong"} /\ m.t \in {"cancel", "error"} ->
         [r EXCEPT !.at = "over"]
    [] r.at = "start" /\ m = Hello(Version) -> [r EXCEPT !.at = "greeted"]
    [] r.at = "greeted" /\ m.t = "accept" /\ m.ids \subseteq DOMAIN meta ->
         [r EXCEPT !.at = "files"]
    [] r.at = "greeted" /\ m.t = "reject" -> [r EXCEPT !.at = "over"]
    [] r.at = "files" /\ m.t = "file-ack" /\ m.id > r.file
         /\ m.status = "ok" /\ m.id \in kept -> [r EXCEPT !.file = m.id]
    [] r.at = "files" /\ m.t = "file-ack" /\ m.id > r.file
         /\ m.status = "hash-mismatch" /\ m.id \notin kept ->
         [at |-> "mismatch", file |-> m.id]
    [] OTHER -> [r EXCEPT !.at = "wrong"]

Init == /\ SessionInit /\ ReceiverInit
        /\ claims = {}
        /\ reader = [at |-> "start", file |-> -1]

\* What is sent to a connection already closed goes nowhere.
PeerSends ==
  /\ ~At("snd", "closed") /\ ~At("rcv", "closed")
  /\ Len(wire["rcv"]) + Len(inbox["rcv"]) < MaxFlying
  /\ \E m \in PeerMsgs :
       /\ wire' = [wire EXCEPT !["rcv"] = Append(@, m)]
       /\ claims' = IF m.t = "file-end" THEN claims \cup {m} ELSE claims
  /\ UNCHANGED <<linkVars, rcvVars, reader, inbox, quiet>>

PeerCloses ==
  /\ ~At("snd", "closed")
  /\ GoTo("snd", "closed")
  /\ NoInput /\ NoEvent
  /\ UNCHANGED <<linkVars, rcvVars, wire, signaled, claims, reader>>

\* Messages and the close reach Receive, and its user may give up.
Outside == Network("rcv") \/ CancelCtx("rcv")

\* A step of Receive, with the reader at its heels.
ReceiveStep ==
  /\ ReceiverNext
  /\ reader' = IF wire["snd"]' = wire["snd"] THEN reader
                ELSE Follow(reader, Last(wire["snd"]'), SavedIds')
  /\ UNCHANGED claims

Next ==
  \/ ReceiveStep
  \/ Outside /\ UNCHANGED <<rcvVars, claims, reader>>
  \/ PeerSends
  \/ PeerCloses

Spec == Init /\ [][Next]_vars

FairSpec == /\ Spec
            /\ WF_vars(ReceiveStep)
            /\ WF_vars(Network("rcv") /\ UNCHANGED <<rcvVars, claims, reader>>)

-----------------------------------------------------------------------------
(* Properties.                                                             *)

\* Whatever the peer sends and however the session ends, nothing that was
\* in the directory is touched, and all that is new in it is verified files
\* and, while its chunks come in, the one file being received.
NothingLeftBehind ==
  \A p \in Paths :
    dir[p] # Before[p] =>
      /\ Before[p] = NoFile
      /\ \/ \E id \in SavedIds : saved[id] = p
         \/ p = dest /\ At("rcv", "chunks")

\* A kept file has the size its manifest entry declares and the digest the
\* peer claimed for that id, under a candidate path of its declared name,
\* and no two share a path.
SavedAsClaimed ==
  \A id \in SavedIds :
    /\ Len(dir[saved[id]]) = meta[id].size
    /\ FileEnd(id, dir[saved[id]]) \in claims
    /\ \E i \in 0..MaxAttempts-1 : saved[id] = Candidate(meta[id].name, i)
    /\ \A other \in SavedIds \ {id} : saved[other] # saved[id]

\* Whatever the peer does, what Receive says is a run of TP/1: hello first,
\* one accept or reject, acks in ascending order that tell the truth about
\* the files kept (a file whose ack says mismatch is never kept later on),
\* and nothing after the message that ends it.
SpeaksTP1 ==
  /\ reader.at # "wrong"
  /\ reader.at = "mismatch" => reader.file \notin SavedIds

\* Receive succeeds only with every accepted file kept and acknowledged.
\* When it fails while the channel is open, and the peer did not end the
\* transfer itself, the last thing it says tells the peer so.
PeerIsTold ==
  At("rcv", "returned") =>
    /\ err["rcv"] = "nil" =>
         /\ want = {} /\ SavedIds # {} /\ reader.at = "files"
         /\ \A id \in SavedIds : id <= reader.file
    /\ err["rcv"] \notin {"nil", "peer-cancel", "peer-error"}
         /\ chan["rcv"] = "open" /\ pump["rcv"] # "none" => reader.at = "over"

\* When the peer has closed the channel, Receive ends, and with it the
\* partial file.
PeerCloseEndsReceive == At("snd", "closed") ~> At("rcv", "closed")
=============================================================================
