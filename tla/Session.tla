------------------------------ MODULE Session ------------------------------
(***************************************************************************)
(* The two ends of one "jsi" data channel and the `session` each of        *)
(* transfer.Send and transfer.Receive runs on it: the inbox filled by the  *)
(* OnMessage pump, the messages deferred by pushback, close tracking, and  *)
(* the sending of control messages (internal/transfer/transfer.go).        *)
(* Sender and Receiver add the two state machines.                         *)
(*                                                                         *)
(* wire[s] holds, in order, what was sent towards s and has not reached    *)
(* its session: the peer's send buffer, the network, and, before the       *)
(* session starts, the early messages peer.Conn keeps for it.              *)
(***************************************************************************)
EXTENDS TP1

CONSTANT InboxCap  \* capacity of session.inbox

ASSUME InboxAssumption == InboxCap \in Nat \ {0}

Side    == {"snd", "rcv"}
Peer(s) == IF s = "snd" THEN "rcv" ELSE "snd"

VARIABLES
  wire,      \* messages on their way to each side
  inbox,     \* session.inbox
  pending,   \* session.pending: messages put back by poll
  signaled,  \* session.signaled: a terminal control was sent or received
  chan,      \* readyState: "open", "hook" (closed, OnClose not yet run), "closed"
  closed,    \* session.closed has been closed by OnClose
  pump,      \* "none" before newSession, "on", "off" after session.end
  ctx,       \* the context is done
  pc,        \* where Send or Receive stands
  err,       \* what it returns: "none" while running, "nil" on success
  shown,     \* the per-file events the event channel has carried, in order
  final      \* the terminal event it has carried, "none" so far

linkVars    == <<chan, closed, pump, ctx>>
sessionVars == <<wire, inbox, pending, signaled, pc, err, shown, final>>

Errors == {"none", "nil", "ctx", "peer-closed", "peer-cancel", "peer-error",
           "protocol", "version", "send", "local", "changed", "rejected",
           "declined", "decide", "hash-mismatch"}

Labels == {"init", "hello", "waitHello", "failed", "returned", "closed",
           "manifest", "waitReply", "nextFile", "open", "loop", "read",
           "write", "fileEnd", "waitAck",
           "waitManifest", "decide", "waitStart", "chunks", "waitDone"}

SessionTypeOK ==
  /\ wire \in [Side -> Seq(Message)]
  /\ inbox \in [Side -> Seq(Message)]
  /\ pending \in [Side -> Seq(Message)]
  /\ signaled \in [Side -> BOOLEAN]
  /\ chan \in [Side -> {"open", "hook", "closed"}]
  /\ closed \in [Side -> BOOLEAN]
  /\ pump \in [Side -> {"none", "on", "off"}]
  /\ ctx \in [Side -> BOOLEAN]
  /\ pc \in [Side -> Labels]
  /\ err \in [Side -> Errors]
  /\ shown \in [Side -> Seq({"start", "ok", "bad"} \X Int)]
  /\ final \in [Side -> {"none", "done", "error"}]

SessionInit ==
  /\ wire = [s \in Side |-> <<>>]
  /\ inbox = [s \in Side |-> <<>>]
  /\ pending = [s \in Side |-> <<>>]
  /\ signaled = [s \in Side |-> FALSE]
  /\ chan = [s \in Side |-> "open"]
  /\ closed = [s \in Side |-> FALSE]
  /\ pump = [s \in Side |-> "none"]
  /\ ctx = [s \in Side |-> FALSE]
  /\ pc = [s \in Side |-> "init"]
  /\ err = [s \in Side |-> "none"]
  /\ shown = [s \in Side |-> <<>>]
  /\ final = [s \in Side |-> "none"]

-----------------------------------------------------------------------------
(* Building blocks of a step of side s.                                    *)

At(s, label)       == pc[s] = label
GoTo(s, label)     == pc' = [pc EXCEPT ![s] = label] /\ UNCHANGED err
FailWith(s, e)     == /\ pc' = [pc EXCEPT ![s] = "failed"]
                      /\ err' = [err EXCEPT ![s] = e]
Signal(s)          == signaled' = [signaled EXCEPT ![s] = TRUE]
NoInput            == UNCHANGED <<inbox, pending>>
NoEvent            == UNCHANGED <<shown, final>>

\* SendText and Send succeed exactly while the channel's state is open.
CanSend(s)         == chan[s] = "open"
Post(s, m)         == wire' = [wire EXCEPT ![Peer(s)] = Append(@, m)]

\* emit: the consumer drains the event channel until it is closed, so an
\* event is delivered; once ctx is done the select may drop it instead.
Emit(s, e)         == /\ \/ shown' = [shown EXCEPT ![s] = Append(@, e)]
                         \/ ctx[s] /\ UNCHANGED shown
                      /\ UNCHANGED final
Emitted(s)         == {shown[s][i] : i \in DOMAIN shown[s]}

EmitFinal(s, kind) == /\ \/ final' = [final EXCEPT ![s] = kind]
                         \/ ctx[s] /\ UNCHANGED final
                      /\ UNCHANGED shown

\* next and poll: deferred messages first, then the inbox.
HasNext(s)         == pending[s] # <<>> \/ inbox[s] # <<>>
NextMsg(s)         == IF pending[s] # <<>> THEN Head(pending[s])
                                           ELSE Head(inbox[s])
Consume(s) ==
  /\ HasNext(s)
  /\ IF pending[s] # <<>>
     THEN pending' = [pending EXCEPT ![s] = Tail(@)] /\ UNCHANGED inbox
     ELSE inbox' = [inbox EXCEPT ![s] = Tail(@)] /\ UNCHANGED pending

\* Consuming the next message, provided its type is one of `types`.
Take(s, types)     == Consume(s) /\ NextMsg(s).t \in types

\* Mutant: there is one place for a deferred message, and poll looks into the
\* inbox first.
DeferOneSlot(s) ==
  /\ HasNext(s)
  /\ IF inbox[s] # <<>>
     THEN /\ pending' = [pending EXCEPT ![s] = <<Head(inbox[s])>>]
          /\ inbox' = [inbox EXCEPT ![s] = Tail(@)]
     ELSE NoInput

\* poll followed by pushback: the message goes behind the deferred ones.
Defer(s) ==
  /\ HasNext(s)
  /\ IF pending[s] # <<>>
     THEN /\ pending' = [pending EXCEPT ![s] = Append(Tail(@), Head(@))]
          /\ UNCHANGED inbox
     ELSE /\ pending' = [pending EXCEPT ![s] = <<Head(inbox[s])>>]
          /\ inbox' = [inbox EXCEPT ![s] = Tail(@)]

\* sendControl and what follows: carry on at `label`, or fail.
Control(s, m, label) ==
  IF CanSend(s) THEN Post(s, m) /\ GoTo(s, label)
                ELSE UNCHANGED wire /\ FailWith(s, "send")

\* Mutant: the session does not remember that it has said its last word.
LastWordForgotten(s, m, e) ==
  /\ IF CanSend(s) THEN Post(s, m) ELSE UNCHANGED wire
  /\ UNCHANGED signaled
  /\ FailWith(s, e)

\* A last control message sent best effort before failing with e; the
\* session counts as signaled if it went out.
LastWord(s, m, e) ==
  /\ IF CanSend(s) THEN Post(s, m) /\ Signal(s) ELSE UNCHANGED <<wire, signaled>>
  /\ FailWith(s, e)

\* protocolError
ProtocolError(s) == LastWord(s, ErrorMsg("protocol"), "protocol")

-----------------------------------------------------------------------------
(* What every wait loop does about anything but the message it is for.     *)

\* Mutant: a wait loop that does not watch for the close of the channel.
WaitIgnoresClose(s) ==
  /\ pending[s] = <<>>
  /\ ctx[s] /\ FailWith(s, "ctx")
  /\ NoInput /\ UNCHANGED <<wire, signaled>>

\* next fails: the context is done, or the channel closed and is drained.
WaitFails(s) ==
  /\ pending[s] = <<>>
  /\ \/ ctx[s] /\ FailWith(s, "ctx")
     \/ closed[s] /\ inbox[s] = <<>> /\ FailWith(s, "peer-closed")
  /\ NoInput /\ UNCHANGED <<wire, signaled>>

\* terminal: cancel or error from the peer ends the session.
TakeTerminal(s) ==
  /\ Take(s, {"cancel", "error"})
  /\ Signal(s)
  /\ FailWith(s, IF NextMsg(s).t = "cancel" THEN "peer-cancel" ELSE "peer-error")
  /\ UNCHANGED wire

TakeUnknown(s) ==
  /\ Take(s, {"unknown"})
  /\ UNCHANGED <<wire, signaled, pc, err>>

TakeUnexpected(s, expected) ==
  /\ Consume(s)
  /\ NextMsg(s).t \notin expected \cup {"cancel", "error", "unknown"}
  /\ ProtocolError(s)

WaitOther(s, expected) ==
  \/ WaitFails(s)
  \/ TakeTerminal(s)
  \/ TakeUnknown(s)
  \/ TakeUnexpected(s, expected)

-----------------------------------------------------------------------------
(* Steps both sides take.                                                  *)

\* newSession: the pump and the close handler are installed.
NewSession(s) ==
  /\ At(s, "init")
  /\ pump' = [pump EXCEPT ![s] = "on"]
  /\ GoTo(s, "hello")
  /\ NoInput /\ NoEvent
  /\ UNCHANGED <<wire, signaled, chan, closed, ctx>>

\* handshake, first half.
SendHello(s) ==
  /\ At(s, "hello")
  /\ Control(s, Hello(Version), "waitHello")
  /\ NoInput /\ NoEvent
  /\ UNCHANGED <<linkVars, signaled>>

AfterHello(s) == IF s = "snd" THEN "manifest" ELSE "waitManifest"

TakeHello(s) ==
  /\ Take(s, {"hello"})
  /\ IF NextMsg(s).v = Version
     THEN GoTo(s, AfterHello(s)) /\ UNCHANGED <<wire, signaled>>
     ELSE LastWord(s, ErrorMsg("version"), "version")

\* Nothing is ignored before hello, not even a type TP/1 does not name.
TakeNotHello(s) ==
  /\ Consume(s)
  /\ NextMsg(s).t \notin {"hello", "cancel", "error"}
  /\ ProtocolError(s)

\* handshake, second half.
WaitHello(s) ==
  /\ At(s, "waitHello")
  /\ \/ WaitFails(s)
     \/ TakeTerminal(s)
     \/ TakeHello(s)
     \/ TakeNotHello(s)
  /\ NoEvent
  /\ UNCHANGED linkVars

\* Mutant: a failing call leaves without a cancel.
AbortSilently(s) ==
  /\ At(s, "failed")
  /\ EmitFinal(s, "error")
  /\ pump' = [pump EXCEPT ![s] = "off"]
  /\ GoTo(s, "returned")
  /\ NoInput
  /\ UNCHANGED <<wire, signaled, chan, closed, ctx>>

\* A failing call: fail emits the terminal event, the deferred abort sends
\* a cancel unless the session is signaled, end stops the pump.
Abort(s) ==
  /\ At(s, "failed")
  /\ EmitFinal(s, "error")
  /\ IF ~signaled[s] /\ CanSend(s) THEN Post(s, Cancel) ELSE UNCHANGED wire
  /\ pump' = [pump EXCEPT ![s] = "off"]
  /\ GoTo(s, "returned")
  /\ NoInput
  /\ UNCHANGED <<signaled, chan, closed, ctx>>

\* A successful call: the terminal event, then end.
Succeed(s) ==
  /\ pc' = [pc EXCEPT ![s] = "returned"]
  /\ err' = [err EXCEPT ![s] = "nil"]
  /\ EmitFinal(s, "done")
  /\ pump' = [pump EXCEPT ![s] = "off"]

\* The caller's deferred Conn.Close, once Send or Receive has returned.
CloseConn(s) ==
  /\ At(s, "returned")
  /\ chan' = [chan EXCEPT ![s] = "closed"]
  /\ GoTo(s, "closed")
  /\ NoInput /\ NoEvent
  /\ UNCHANGED <<wire, signaled, closed, pump, ctx>>

-----------------------------------------------------------------------------
(* The environment: the data channel and the user.                         *)

quiet == <<signaled, pc, err, shown, final, pending>>

\* The pump: a message enters the inbox while there is room, or is dropped
\* once the session has ended.
Deliver(s) ==
  /\ wire[s] # <<>>
  /\ pump[s] # "none" /\ ~At(s, "closed")
  /\ \/ /\ pump[s] = "on" /\ Len(inbox[s]) < InboxCap
        /\ inbox' = [inbox EXCEPT ![s] = Append(@, Head(wire[s]))]
     \/ pump[s] = "off" /\ UNCHANGED inbox
  /\ wire' = [wire EXCEPT ![s] = Tail(@)]
  /\ UNCHANGED <<linkVars, quiet>>

\* The peer closed its connection: what was still under way may be lost.
LoseTail(s) ==
  /\ At(Peer(s), "closed")
  /\ chan[s] = "open" /\ wire[s] # <<>>
  /\ \E n \in 0..Len(wire[s])-1 : wire' = [wire EXCEPT ![s] = SubSeq(@, 1, n)]
  /\ UNCHANGED <<linkVars, quiet, inbox>>

\* The close reaches s behind everything delivered.  OnClose runs later and
\* only if newSession has registered it by then.
SeeClose(s) ==
  /\ At(Peer(s), "closed")
  /\ chan[s] = "open"
  /\ wire[s] = <<>> \/ pump[s] = "none"
  /\ chan' = [chan EXCEPT ![s] = IF pump[s] = "none" THEN "closed" ELSE "hook"]
  /\ UNCHANGED <<wire, inbox, quiet, closed, pump, ctx>>

RunOnClose(s) ==
  /\ chan[s] = "hook"
  /\ chan' = [chan EXCEPT ![s] = "closed"]
  /\ closed' = [closed EXCEPT ![s] = TRUE]
  /\ UNCHANGED <<wire, inbox, quiet, pump, ctx>>

\* Ctrl-C, or the caller's deadline.
CancelCtx(s) ==
  /\ ~ctx[s]
  /\ ctx' = [ctx EXCEPT ![s] = TRUE]
  /\ UNCHANGED <<sessionVars, chan, closed, pump>>

Network(s) == Deliver(s) \/ LoseTail(s) \/ SeeClose(s) \/ RunOnClose(s)

BothSides(s) == \/ NewSession(s) \/ SendHello(s) \/ WaitHello(s)
                \/ Abort(s) \/ CloseConn(s)
=============================================================================
