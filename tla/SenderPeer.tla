----------------------------- MODULE SenderPeer -----------------------------
(***************************************************************************)
(* transfer.Send against any peer: whatever speaks on the other end of the *)
(* channel may send any message at any time, and may close.  The peer      *)
(* reads nothing here, so that wire["rcv"] is everything Send has said;    *)
(* reader is a reader of TP/1 that follows it word by word.                *)
(***************************************************************************)
EXTENDS Sender, SequencesExt

CONSTANTS
  PeerMsgs,   \* the messages the peer may send
  MaxGiven,   \* how many it sends at most
  MaxFlying   \* how many of them may be unread at once

ASSUME PeerAssumption == PeerMsgs \subseteq Message

VARIABLES
  given,  \* how many it has sent
  reader  \* where a reader of the sender's half of the TP/1 flow stands

vars == <<linkVars, sessionVars, sndVars, given, reader>>

\* One step of that reader: at is where it stands, file the current or last
\* file, got the units of it seen so far.
Follow(r, m) ==
  CASE r.at \in {"over", "wrong"} -> [r EXCEPT !.at = "wrong"]
    [] r.at \notin {"over", "wrong"} /\ m.t \in {"cancel", "error"} ->
         [r EXCEPT !.at = "over"]
    [] r.at = "start" /\ m = Hello(Version) -> [r EXCEPT !.at = "greeted"]
    [] r.at = "greeted" /\ m = Manifest(Metas) -> [r EXCEPT !.at = "idle"]
    [] r.at = "idle" /\ m.t = "file-start" /\ m.id > r.file ->
         [at |-> "file", file |-> m.id, got |-> <<>>]
    [] r.at = "file" /\ m.t = "chunk" /\ Len(m.data) \in 1..ChunkSize ->
         [r EXCEPT !.got = @ \o m.data]
    [] r.at = "file" /\ m = FileEnd(r.file, r.got) /\ Len(r.got) = Size[r.file] ->
         [r EXCEPT !.at = "idle"]
    [] r.at = "idle" /\ m = Done /\ r.file >= 0 -> [r EXCEPT !.at = "over"]
    [] OTHER -> [r EXCEPT !.at = "wrong"]

Init == /\ SessionInit /\ SenderInit
        /\ given = 0
        /\ reader = [at |-> "start", file |-> -1, got |-> <<>>]

\* What is sent to a connection already closed goes nowhere.
PeerSends ==
  /\ ~At("rcv", "closed") /\ ~At("snd", "closed")
  /\ given < MaxGiven
  /\ Len(wire["snd"]) + Len(inbox["snd"]) < MaxFlying
  /\ \E m \in PeerMsgs : wire' = [wire EXCEPT !["snd"] = Append(@, m)]
  /\ given' = given + 1
  /\ UNCHANGED <<linkVars, sndVars, reader, inbox, quiet>>

PeerCloses ==
  /\ ~At("rcv", "closed")
  /\ GoTo("rcv", "closed")
  /\ NoInput /\ NoEvent
  /\ UNCHANGED <<linkVars, sndVars, wire, signaled, given, reader>>

\* Messages and the close reach Send, and its user may give up.
Outside == Network("snd") \/ CancelCtx("snd")

\* A step of Send, with the reader at its heels.
SendStep ==
  /\ SenderNext
  /\ reader' = IF wire["rcv"]' = wire["rcv"] THEN reader
                                            ELSE Follow(reader, Last(wire["rcv"]'))
  /\ UNCHANGED given

Next ==
  \/ SendStep
  \/ Outside /\ UNCHANGED <<sndVars, given, reader>>
  \/ PeerSends
  \/ PeerCloses
  \/ ChangeFile /\ UNCHANGED <<given, reader>>

Spec == Init /\ [][Next]_vars

FairSpec == /\ Spec
            /\ WF_vars(SendStep)
            /\ WF_vars(Network("snd") /\ UNCHANGED <<sndVars, given, reader>>)

-----------------------------------------------------------------------------
(* Properties.                                                             *)

\* Whatever the peer does, what Send says is a run of TP/1: hello first,
\* one manifest, files in ascending order each framed by its start and an
\* end with its own digest and size, and nothing at all after the one done,
\* cancel or error that ends it.
SpeaksTP1 == reader.at # "wrong"

\* Send never sends a byte of a file the peer has not accepted, and says
\* done only when every file it accepted is acknowledged, whatever messages
\* came before, between and after.
OnlyAccepted ==
  \A i \in 1..Len(wire["rcv"]) :
    LET m == wire["rcv"][i] IN
      /\ m.t = "chunk" => \A k \in 1..Len(m.data) : m.data[k][1] \in accepted
      /\ m.t = "done" => todo = {} /\ accepted # {}

\* When Send returns while the channel is open, and the peer did not end the
\* transfer itself, the last thing it says (a cancel or an error, done when
\* it succeeds) tells the peer so.
PeerIsTold ==
  At("snd", "returned") /\ chan["snd"] = "open"
    /\ err["snd"] \notin {"peer-cancel", "peer-error"} => reader.at = "over"

\* Every message of the peer is read once and in its order, however often the
\* chunk loop has looked at it and put it back: a step leaves what is queued,
\* adds the next arrival or takes the first, and a chunk loop that carries on
\* has taken nothing but a message of an unknown type.
Queued == pending["snd"] \o inbox["snd"]

DeferralKeeps ==
  [][/\ \/ Queued' = Queued
        \/ Queued # <<>> /\ Queued' = Tail(Queued)
        \/ wire["snd"] # <<>> /\ Queued' = Append(Queued, Head(wire["snd"]))
     /\ At("snd", "loop") /\ At("snd", "read")' /\ Queued' # Queued
          => Head(Queued).t = "unknown"]_vars

\* When the peer has closed the channel, Send ends, whatever was deferred,
\* queued or half sent.  (The channel has room for everything here: what a
\* pause in WriteFlow does to this is a question for Transfer.)
PeerCloseEndsSend == At("rcv", "closed") ~> At("snd", "closed")
=============================================================================
