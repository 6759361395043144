-------------------------------- MODULE Conn --------------------------------
(***************************************************************************)
(* One peer.Conn from Offer or Answer to Close (internal/peer/peer.go),    *)
(* and the session transfer runs on it: gathering, the channel's callbacks *)
(* in Pion's goroutines, the open signal, the messages that come before    *)
(* anyone handles them, the inbox, and the writes of FlowControl.          *)
(*                                                                         *)
(* Messages are numbered as they arrive.  A peer sends at most MaxEarly of *)
(* them before it hears from this side, whose session says hello first.    *)
(* FlowControl's `open` is TRUE from the start: it says "not yet closed".  *)
(***************************************************************************)
EXTENDS FlowControl, Sequences

CONSTANTS
  InboxCap,  \* capacity of session.inbox
  MaxEarly,  \* messages a peer sends unanswered
  MaxMsgs    \* bound of the messages it sends at all

ASSUME ConnAssumption ==
  /\ InboxCap \in Nat \ {0} /\ MaxMsgs \in Nat
  /\ MaxEarly \in Nat /\ MaxEarly <= InboxCap /\ MaxEarly <= MaxMsgs

VARIABLES
  stage,     \* where the caller's goroutine stands
  dc,        \* setChannel has run
  remote,    \* the peer's description has been applied
  reading,   \* the channel has opened and Pion reads it
  announced, \* Pion has run the OnOpen handler
  openCh,    \* openCh holds a token
  msgBuf, msgFlushed,
  batch,     \* messages OnMessage has taken to replay
  routed,    \* the message routeMessage is handing to the handler
  inbox,     \* session.inbox
  arrived,   \* messages that have arrived
  taken      \* messages the session has taken

setup == <<dc, remote, reading, announced, openCh>>
queues == <<msgBuf, msgFlushed, batch, routed, inbox, arrived, taken>>
connVars == <<stage, setup, queues, flowVars>>

Stages == {"gather", "signal", "wait", "register", "session", "ended", "closed"}

ConnTypeOK ==
  /\ FlowTypeOK
  /\ stage \in Stages
  /\ {dc, remote, reading, announced, openCh, msgFlushed} \subseteq BOOLEAN
  /\ msgBuf \in Seq(Nat) /\ batch \in Seq(Nat) /\ inbox \in Seq(Nat)
  /\ routed \in Seq(Nat) /\ Len(routed) <= 1
  /\ Len(inbox) <= InboxCap
  /\ arrived \in 0..MaxMsgs /\ taken \in 0..MaxMsgs

\* Offer has made its channel and Answer applied the offer before they
\* gather.
ConnInit ==
  /\ FlowInit
  /\ stage = "gather"
  /\ dc \in BOOLEAN /\ remote = ~dc
  /\ reading = FALSE /\ announced = FALSE /\ openCh = FALSE
  /\ msgBuf = <<>> /\ msgFlushed = FALSE /\ batch = <<>> /\ routed = <<>>
  /\ inbox = <<>> /\ arrived = 0 /\ taken = 0

-----------------------------------------------------------------------------
(* The caller.                                                             *)

\* waitGather: complete, or cut short by its timer, which is as good; a done
\* context, or a call that fails, makes Offer or Answer close and fail.
Gather ==
  /\ stage = "gather"
  /\ \/ stage' = "signal" /\ UNCHANGED open
     \/ stage' = "closed" /\ open' = FALSE
  /\ UNCHANGED <<setup, queues, buffered, callback, lowCh, at, size, burst, ctx>>

\* The descriptions are exchanged: SetRemote on the offerer.
SetRemote ==
  /\ stage = "signal"
  /\ remote' = TRUE
  /\ stage' = "wait"
  /\ UNCHANGED <<dc, reading, announced, openCh, queues, flowVars>>

WaitOpen ==
  /\ stage = "wait" /\ openCh
  /\ openCh' = FALSE
  /\ stage' = "register"
  /\ UNCHANGED <<dc, remote, reading, announced, queues, flowVars>>

\* Mutant: messages bypass the buffer from the moment a handler is set.
OnMessageFlushedFirst ==
  /\ stage = "register" /\ batch = <<>>
  /\ batch' = msgBuf /\ msgBuf' = <<>>
  /\ msgFlushed' = TRUE
  /\ stage' = IF msgBuf = <<>> THEN "session" ELSE stage
  /\ UNCHANGED <<setup, routed, inbox, arrived, taken, flowVars>>

\* One turn of OnMessage's loop: what has been buffered is taken, or there
\* is nothing left and the handler is on its own from here.
OnMessage ==
  /\ stage = "register" /\ batch = <<>>
  /\ batch' = msgBuf /\ msgBuf' = <<>>
  /\ msgFlushed' = (msgBuf = <<>>)
  /\ stage' = IF msgBuf = <<>> THEN "session" ELSE stage
  /\ UNCHANGED <<setup, routed, inbox, arrived, taken, flowVars>>

\* The pump of newSession, called with each of them: it waits for room.
Replay ==
  /\ batch # <<>> /\ Len(inbox) < InboxCap
  /\ inbox' = Append(inbox, Head(batch))
  /\ batch' = Tail(batch)
  /\ UNCHANGED <<stage, setup, msgBuf, msgFlushed, routed, arrived, taken, flowVars>>

\* next or poll.
Next1 ==
  /\ stage = "session" /\ inbox # <<>>
  /\ inbox' = Tail(inbox)
  /\ taken' = taken + 1
  /\ UNCHANGED <<stage, setup, msgBuf, msgFlushed, batch, routed, arrived, flowVars>>

\* Send or Receive returns, then session.end.
EndSession ==
  /\ stage = "session" /\ at \in {"idle", "stopped"}
  /\ stage' = "ended"
  /\ UNCHANGED <<setup, queues, flowVars>>

\* The caller's deferred Close, also when the exchange of descriptions or
\* SetRemote failed, or the context is done in WaitOpen.
Close ==
  /\ stage \in {"ended", "signal"} \/ (stage = "wait" /\ ctx)
  /\ stage' = "closed"
  /\ open' = FALSE
  /\ UNCHANGED <<setup, queues, buffered, callback, lowCh, at, size, burst, ctx>>

Write ==
  /\ stage = "session"
  /\ \/ \E n \in 1..MaxBurst : SendText(n)
     \/ \E n \in 1..MaxChunk : WriteFlow(n)
     \/ Check \/ Block \/ Wake \/ SendChunk
  /\ UNCHANGED <<stage, setup, queues>>

-----------------------------------------------------------------------------
(* Pion's goroutines, and the user.                                        *)

\* The answerer's OnDataChannel handler, which Pion lets finish before it
\* opens the channel.
OnDataChannel ==
  /\ ~dc /\ open /\ remote /\ stage # "gather"
  /\ dc' = TRUE
  /\ UNCHANGED <<stage, remote, reading, announced, openCh, queues, flowVars>>

Opens ==
  /\ dc /\ remote /\ open /\ ~reading /\ stage # "gather"
  /\ reading' = TRUE
  /\ UNCHANGED <<stage, dc, remote, announced, openCh, queues, flowVars>>

\* Mutant: the signal finds nobody waiting and is lost.
OnOpenUnbuffered ==
  /\ reading /\ ~announced
  /\ announced' = TRUE
  /\ openCh' = (stage = "wait")
  /\ UNCHANGED <<stage, dc, remote, reading, queues, flowVars>>

\* The OnOpen handler: signal leaves a token.
OnOpen ==
  /\ reading /\ ~announced
  /\ announced' = TRUE
  /\ openCh' = TRUE
  /\ UNCHANGED <<stage, dc, remote, reading, queues, flowVars>>

\* routeMessage, up to the end of its critical section.
RouteMessage ==
  /\ reading /\ open /\ routed = <<>>
  /\ arrived < IF stage = "session" THEN MaxMsgs ELSE MaxEarly
  /\ arrived' = arrived + 1
  /\ IF msgFlushed THEN routed' = <<arrived'>> /\ UNCHANGED msgBuf
                   ELSE msgBuf' = Append(msgBuf, arrived') /\ UNCHANGED routed
  /\ UNCHANGED <<stage, setup, msgFlushed, batch, inbox, taken, flowVars>>

\* The handler it then calls is the pump: the message waits for room, and is
\* dropped once the session has ended.
Pump ==
  /\ routed # <<>>
  /\ \/ Len(inbox) < InboxCap /\ inbox' = inbox \o routed
     \/ stage \in {"ended", "closed"} /\ UNCHANGED inbox
  /\ routed' = <<>>
  /\ UNCHANGED <<stage, setup, msgBuf, msgFlushed, batch, arrived, taken, flowVars>>

Acknowledged == (\E n \in 1..buffered : Drain(n)) /\ UNCHANGED <<stage, setup, queues>>
LowCallback == OnBufferedAmountLow /\ UNCHANGED <<stage, setup, queues>>

Environment ==
  \/ Acknowledged \/ LowCallback
  \/ (CloseChannel \/ FlowCancel) /\ UNCHANGED <<stage, setup, queues>>

Caller == Gather \/ SetRemote \/ WaitOpen \/ OnMessage \/ Replay \/ Next1 \/ Write

ConnNext ==
  \/ Caller \/ EndSession \/ Close
  \/ OnDataChannel \/ Opens \/ OnOpen \/ RouteMessage \/ Pump \/ Environment

ConnSpec == ConnInit /\ [][ConnNext]_connVars

\* The goroutines run, Pion runs the handlers it owes, and an open channel
\* drains; nobody has to signal, to send, to read or to end.
ConnFairSpec ==
  /\ ConnSpec
  /\ WF_connVars(Gather \/ WaitOpen \/ OnMessage \/ Replay)
  /\ WF_connVars(Check /\ UNCHANGED <<stage, setup, queues>>)
  /\ WF_connVars(Block /\ UNCHANGED <<stage, setup, queues>>)
  /\ WF_connVars(Wake /\ UNCHANGED <<stage, setup, queues>>)
  /\ WF_connVars(SendChunk /\ UNCHANGED <<stage, setup, queues>>)
  /\ WF_connVars(OnOpen) /\ WF_connVars(Acknowledged) /\ WF_connVars(LowCallback)

-----------------------------------------------------------------------------
(* Properties.                                                             *)

Upto(n) == [k \in 1..n |-> k]

\* What has arrived and has not been taken, first to last.
Pending == inbox \o (batch \o (msgBuf \o routed))

\* No message is lost, doubled or overtaken between the channel and the
\* session, whenever it comes: before the handler, during the replay, or
\* just as the replay ends in another goroutine.
InOrder ==
  stage \notin {"ended", "closed"} => Upto(taken) \o Pending = Upto(arrived)

\* An open, however early, is not missed, and the session that follows gets
\* through the early messages although nobody reads its inbox yet: a caller
\* that waits for its open channel comes to run its session.
Connects == stage \in {"wait", "register"} /\ reading ~> stage \notin {"wait", "register"}
=============================================================================
