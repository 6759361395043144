---------------------------- MODULE SessionProofs ----------------------------
(***************************************************************************)
(* What the steps of a session have in common, whichever state machine     *)
(* takes them: they keep the queues within a given kind of messages and    *)
(* the variables of the session within their types, say at most one thing, *)
(* and end a call with at most one last word.  G[s] is the set of messages *)
(* that may be on their way to s; the proofs that use it choose it.        *)
(***************************************************************************)
EXTENDS Session, SequenceTheorems, TLAPS

\* Every session may say hello, cancel and report an error.
Common == {Hello(Version), Cancel, ErrorMsg("protocol"), ErrorMsg("version")}

Typed(G) == G \in [Side -> SUBSET Message]
Kinds(G) == Typed(G) /\ \A s \in Side : Common \subseteq G[s]

Holds(q, G) == /\ q \in [Side -> Seq(Message)]
               /\ \A s \in Side : q[s] \in Seq(G[s])

Queues(G) == Holds(wire, G) /\ Holds(inbox, G) /\ Holds(pending, G)

Core == /\ signaled \in [Side -> BOOLEAN]
        /\ pc \in [Side -> Labels]
        /\ err \in [Side -> Errors]

Link == /\ chan \in [Side -> {"open", "hook", "closed"}]
        /\ closed \in [Side -> BOOLEAN]
        /\ pump \in [Side -> {"none", "on", "off"}]
        /\ ctx \in [Side -> BOOLEAN]

Events == /\ shown \in [Side -> Seq({"start", "ok", "bad"} \X Int)]
          /\ final \in [Side -> {"none", "done", "error"}]

\* A step moved s, and only s, to one of the labels in L.
Moved(s, L) == /\ pc'[s] \in L
               /\ \A t \in Side \ {s} : pc'[t] = pc[t]

-----------------------------------------------------------------------------

LEMMA PeerSide == \A s \in Side : Peer(s) \in Side /\ Peer(s) # s
BY DEF Peer, Side

LEMMA CommonMessages == Common \subseteq Message
BY DEF Common, Hello, Cancel, ErrorMsg, Version, Message

LEMMA SessionTyped ==
  ASSUME NEW G, Queues(G), Core, Link, Events
  PROVE  SessionTypeOK
BY DEF Queues, Holds, Core, Link, Events, SessionTypeOK

\* Replacing one side's queue by one that is as good.
LEMMA HoldsExcept ==
  ASSUME NEW G, Typed(G), NEW q, NEW r, Holds(q, G),
         NEW s \in Side, NEW new \in Seq(G[s]), r = [q EXCEPT ![s] = new]
  PROVE  Holds(r, G)
<1>1. new \in Seq(Message)
  BY SeqMonotonic DEF Typed
<1>2. QED
  BY <1>1 DEF Holds

LEMMA PostHolds ==
  ASSUME NEW G, Typed(G), Queues(G), NEW s \in Side,
         NEW m \in G[Peer(s)], Post(s, m)
  PROVE  Holds(wire', G)
<1>1. Peer(s) \in Side /\ wire[Peer(s)] \in Seq(G[Peer(s)])
  BY PeerSide DEF Queues, Holds
<1>2. Append(wire[Peer(s)], m) \in Seq(G[Peer(s)])
  BY <1>1, AppendProperties
<1>3. wire' = [wire EXCEPT ![Peer(s)] = Append(wire[Peer(s)], m)]
  BY DEF Post
<1>4. QED
  BY <1>1, <1>2, <1>3, HoldsExcept DEF Queues

LEMMA ConsumeHolds ==
  ASSUME NEW G, Typed(G), Queues(G), NEW s \in Side, Consume(s)
  PROVE  /\ Holds(inbox', G) /\ Holds(pending', G)
         /\ NextMsg(s) \in G[s] /\ NextMsg(s) \in Message
<1>1. pending[s] \in Seq(G[s]) /\ inbox[s] \in Seq(G[s]) /\ G[s] \subseteq Message
  BY DEF Queues, Holds, Typed
<1>2. CASE pending[s] # <<>>
  <2>1. Tail(pending[s]) \in Seq(G[s]) /\ Head(pending[s]) \in G[s]
    BY <1>1, <1>2, HeadTailProperties
  <2>2. pending' = [pending EXCEPT ![s] = Tail(pending[s])] /\ inbox' = inbox
    BY <1>2 DEF Consume
  <2>3. QED
    BY <1>1, <1>2, <2>1, <2>2, HoldsExcept DEF Queues, NextMsg
<1>3. CASE pending[s] = <<>>
  <2>1. inbox[s] # <<>>
    BY <1>3 DEF Consume, HasNext
  <2>2. Tail(inbox[s]) \in Seq(G[s]) /\ Head(inbox[s]) \in G[s]
    BY <1>1, <2>1, HeadTailProperties
  <2>3. inbox' = [inbox EXCEPT ![s] = Tail(inbox[s])] /\ pending' = pending
    BY <1>3 DEF Consume
  <2>4. QED
    BY <1>1, <1>3, <2>2, <2>3, HoldsExcept DEF Queues, NextMsg
<1>4. QED
  BY <1>2, <1>3

LEMMA DeferHolds ==
  ASSUME NEW G, Typed(G), Queues(G), NEW s \in Side, Defer(s)
  PROVE  Holds(inbox', G) /\ Holds(pending', G)
<1>1. pending[s] \in Seq(G[s]) /\ inbox[s] \in Seq(G[s])
  BY DEF Queues, Holds
<1>2. CASE pending[s] # <<>>
  <2>1. Tail(pending[s]) \in Seq(G[s]) /\ Head(pending[s]) \in G[s]
    BY <1>1, <1>2, HeadTailProperties
  <2>2. Append(Tail(pending[s]), Head(pending[s])) \in Seq(G[s])
    BY <2>1, AppendProperties
  <2>3. /\ pending' = [pending EXCEPT ![s] = Append(Tail(pending[s]), Head(pending[s]))]
        /\ inbox' = inbox
    BY <1>2 DEF Defer
  <2>4. QED
    BY <2>2, <2>3, HoldsExcept DEF Queues
<1>3. CASE pending[s] = <<>>
  <2>1. inbox[s] # <<>>
    BY <1>3 DEF Defer, HasNext
  <2>2. Tail(inbox[s]) \in Seq(G[s]) /\ Head(inbox[s]) \in G[s]
    BY <1>1, <2>1, HeadTailProperties
  <2>3. <<Head(inbox[s])>> \in Seq(G[s])
    BY <2>2
  <2>4. /\ inbox' = [inbox EXCEPT ![s] = Tail(inbox[s])]
        /\ pending' = [pending EXCEPT ![s] = <<Head(inbox[s])>>]
    BY <1>3 DEF Defer
  <2>5. QED
    BY <2>2, <2>3, <2>4, HoldsExcept DEF Queues
<1>4. QED
  BY <1>2, <1>3

-----------------------------------------------------------------------------

\* Core and Moved, after going to a label or failing.
LEMMA GoToMoves ==
  ASSUME Core, NEW s \in Side, NEW label \in Labels, GoTo(s, label)
  PROVE  /\ pc' \in [Side -> Labels] /\ err' \in [Side -> Errors]
         /\ Moved(s, {label})
BY DEF Core, GoTo, Moved

LEMMA FailMoves ==
  ASSUME Core, NEW s \in Side, NEW e \in Errors, FailWith(s, e)
  PROVE  /\ pc' \in [Side -> Labels] /\ err' \in [Side -> Errors]
         /\ Moved(s, {"failed"})
<1>1. "failed" \in Labels
  BY DEF Labels
<1>2. QED
  BY <1>1 DEF Core, FailWith, Moved

LEMMA ControlMoves ==
  ASSUME NEW G, Kinds(G), Queues(G), Core, NEW s \in Side,
         NEW m \in G[Peer(s)], NEW label \in Labels, Control(s, m, label)
  PROVE  /\ Holds(wire', G)
         /\ pc' \in [Side -> Labels] /\ err' \in [Side -> Errors]
         /\ Moved(s, {label, "failed"})
         /\ CanSend(s) => pc'[s] = label
         /\ ~CanSend(s) => pc'[s] = "failed"
<1>1. CASE CanSend(s)
  <2>1. Post(s, m) /\ GoTo(s, label)
    BY <1>1 DEF Control
  <2>2. QED
    BY <1>1, <2>1, PostHolds, GoToMoves DEF Moved, Kinds
<1>2. CASE ~CanSend(s)
  <2>1. wire' = wire /\ FailWith(s, "send") /\ "send" \in Errors
    BY <1>2 DEF Control, Errors
  <2>2. QED
    BY <1>2, <2>1, FailMoves DEF Moved, Queues
<1>3. QED
  BY <1>1, <1>2

LEMMA LastWordMoves ==
  ASSUME NEW G, Kinds(G), Queues(G), Core, NEW s \in Side,
         NEW m \in G[Peer(s)], NEW e \in Errors, LastWord(s, m, e)
  PROVE  /\ Holds(wire', G) /\ Core' /\ Moved(s, {"failed"})
<1>1. FailWith(s, e)
  BY DEF LastWord
<1>2. signaled' \in [Side -> BOOLEAN]
  BY DEF LastWord, Signal, Core
<1>3. Holds(wire', G)
  <2>1. CASE CanSend(s)
    BY <2>1, PostHolds DEF LastWord, Kinds
  <2>2. CASE ~CanSend(s)
    BY <2>2 DEF LastWord, Queues
  <2>3. QED
    BY <2>1, <2>2
<1>4. QED
  BY <1>1, <1>2, <1>3, FailMoves DEF Core

LEMMA ProtocolErrorMoves ==
  ASSUME NEW G, Kinds(G), Queues(G), Core, NEW s \in Side, ProtocolError(s)
  PROVE  /\ Holds(wire', G) /\ Core' /\ Moved(s, {"failed"})
<1>1. ErrorMsg("protocol") \in G[Peer(s)] /\ "protocol" \in Errors
  BY PeerSide DEF Kinds, Common, Errors
<1>2. QED
  BY <1>1, LastWordMoves DEF ProtocolError

\* The branches every wait loop shares leave the session where it was or
\* end it.
LEMMA WaitFailsMoves ==
  ASSUME NEW G, Kinds(G), Queues(G), Core, NEW s \in Side, WaitFails(s)
  PROVE  Queues(G)' /\ Core' /\ Moved(s, {"failed"})
<1>1. \E e \in Errors : FailWith(s, e)
  BY DEF WaitFails, Errors
<1>2. UNCHANGED <<wire, inbox, pending, signaled>>
  BY DEF WaitFails, NoInput
<1>3. QED
  BY <1>1, <1>2, FailMoves DEF Core, Queues, Holds

LEMMA TakeTerminalMoves ==
  ASSUME NEW G, Kinds(G), Queues(G), Core, NEW s \in Side, TakeTerminal(s)
  PROVE  Queues(G)' /\ Core' /\ Moved(s, {"failed"})
<1>1. Consume(s) /\ wire' = wire
  BY DEF TakeTerminal, Take
<1>2. \E e \in Errors : FailWith(s, e)
  BY DEF TakeTerminal, Errors
<1>3. signaled' \in [Side -> BOOLEAN]
  BY DEF TakeTerminal, Signal, Core
<1>4. QED
  BY <1>1, <1>2, <1>3, FailMoves, ConsumeHolds DEF Core, Queues, Holds, Kinds

LEMMA TakeUnknownMoves ==
  ASSUME NEW G, Kinds(G), Queues(G), Core, NEW s \in Side, TakeUnknown(s)
  PROVE  Queues(G)' /\ Core' /\ Moved(s, {pc[s]})
<1>1. Consume(s) /\ UNCHANGED <<wire, signaled, pc, err>>
  BY DEF TakeUnknown, Take
<1>2. QED
  BY <1>1, ConsumeHolds DEF Core, Queues, Holds, Moved, Kinds

LEMMA WaitOtherMoves ==
  ASSUME NEW G, Kinds(G), Queues(G), Core, NEW s \in Side, NEW expected,
         WaitOther(s, expected)
  PROVE  Queues(G)' /\ Core' /\ Moved(s, {pc[s], "failed"})
<1>1. CASE WaitFails(s)
  BY <1>1, WaitFailsMoves DEF Moved
<1>2. CASE TakeTerminal(s)
  BY <1>2, TakeTerminalMoves DEF Moved
<1>3. CASE TakeUnknown(s)
  BY <1>3, TakeUnknownMoves DEF Moved
<1>4. CASE TakeUnexpected(s, expected)
  <2>1. Consume(s) /\ ProtocolError(s)
    BY <1>4 DEF TakeUnexpected
  <2>2. QED
    BY <2>1, ConsumeHolds, ProtocolErrorMoves DEF Queues, Holds, Moved, Kinds
<1>5. QED
  BY <1>1, <1>2, <1>3, <1>4 DEF WaitOther

-----------------------------------------------------------------------------

LEMMA WaitHelloMoves ==
  ASSUME NEW G, Kinds(G), Queues(G), Core, NEW s \in Side, WaitHello(s)
  PROVE  Queues(G)' /\ Core' /\ Moved(s, {AfterHello(s), "failed"})
<1>1. CASE WaitFails(s)
  BY <1>1, WaitFailsMoves DEF Moved
<1>2. CASE TakeTerminal(s)
  BY <1>2, TakeTerminalMoves DEF Moved
<1>3. CASE TakeHello(s)
  <2>1. Consume(s)
    BY <1>3 DEF TakeHello, Take
  <2>2. Holds(inbox', G) /\ Holds(pending', G)
    BY <2>1, ConsumeHolds DEF Kinds
  <2>3. CASE NextMsg(s).v = Version
    <3>1. GoTo(s, AfterHello(s)) /\ UNCHANGED <<wire, signaled>>
      BY <1>3, <2>3 DEF TakeHello
    <3>2. AfterHello(s) \in Labels
      BY DEF AfterHello, Labels
    <3>3. QED
      BY <2>2, <3>1, <3>2, GoToMoves DEF Queues, Holds, Core, Moved
  <2>4. CASE NextMsg(s).v # Version
    <3>1. LastWord(s, ErrorMsg("version"), "version")
      BY <1>3, <2>4 DEF TakeHello
    <3>2. ErrorMsg("version") \in G[Peer(s)] /\ "version" \in Errors
      BY PeerSide DEF Kinds, Common, Errors
    <3>3. QED
      BY <2>2, <3>1, <3>2, LastWordMoves DEF Queues, Holds, Moved
  <2>5. QED
    BY <2>3, <2>4
<1>4. CASE TakeNotHello(s)
  <2>1. Consume(s) /\ ProtocolError(s)
    BY <1>4 DEF TakeNotHello
  <2>2. QED
    BY <2>1, ConsumeHolds, ProtocolErrorMoves DEF Queues, Holds, Moved, Kinds
<1>5. QED
  BY <1>1, <1>2, <1>3, <1>4 DEF WaitHello

\* The steps both state machines share.
LEMMA BothSidesMoves ==
  ASSUME NEW G, Kinds(G), Queues(G), Core, Link, Events,
         NEW s \in Side, BothSides(s)
  PROVE  /\ Queues(G)' /\ Core' /\ Link' /\ Events'
         /\ Moved(s, {"hello", "waitHello", AfterHello(s), "failed",
                      "returned", "closed"})
         /\ shown' = shown
<1> USE DEF Queues, Holds
<1>1. CASE NewSession(s)
  <2>1. GoTo(s, "hello") /\ "hello" \in Labels
    BY <1>1 DEF NewSession, Labels
  <2>2. /\ pump' = [pump EXCEPT ![s] = "on"]
        /\ UNCHANGED <<wire, inbox, pending, signaled, shown, final, chan, closed, ctx>>
    BY <1>1 DEF NewSession, NoInput, NoEvent
  <2>3. QED
    BY <2>1, <2>2, GoToMoves DEF Core, Link, Events, Moved
<1>2. CASE SendHello(s)
  <2>1. Control(s, Hello(Version), "waitHello") /\ "waitHello" \in Labels
    BY <1>2 DEF SendHello, Labels
  <2>2. UNCHANGED <<inbox, pending, signaled, shown, final, chan, closed, pump, ctx>>
    BY <1>2 DEF SendHello, NoInput, NoEvent, linkVars
  <2>3. Hello(Version) \in G[Peer(s)]
    BY PeerSide DEF Kinds, Common
  <2>4. /\ Holds(wire', G) /\ Moved(s, {"waitHello", "failed"})
        /\ pc' \in [Side -> Labels] /\ err' \in [Side -> Errors]
    BY <2>1, <2>3, ControlMoves
  <2>5. QED
    BY <2>2, <2>4 DEF Core, Link, Events, Moved
<1>3. CASE WaitHello(s)
  <2>1. UNCHANGED <<shown, final, chan, closed, pump, ctx>>
    BY <1>3 DEF WaitHello, NoEvent, linkVars
  <2>2. QED
    BY <1>3, <2>1, WaitHelloMoves DEF Link, Events, Moved
<1>4. CASE Abort(s)
  <2>1. GoTo(s, "returned") /\ "returned" \in Labels
    BY <1>4 DEF Abort, Labels
  <2>2. /\ pump' = [pump EXCEPT ![s] = "off"]
        /\ EmitFinal(s, "error")
        /\ UNCHANGED <<inbox, pending, signaled, chan, closed, ctx>>
    BY <1>4 DEF Abort, NoInput
  <2>3. Cancel \in G[Peer(s)]
    BY PeerSide DEF Kinds, Common
  <2>4. Holds(wire', G)
    BY <1>4, <2>3, PostHolds DEF Abort, Kinds
  <2>5. Events' /\ shown' = shown
    BY <2>2 DEF EmitFinal, Events
  <2>6. QED
    BY <2>1, <2>2, <2>4, <2>5, GoToMoves DEF Core, Link, Moved
<1>5. CASE CloseConn(s)
  <2>1. GoTo(s, "closed") /\ "closed" \in Labels
    BY <1>5 DEF CloseConn, Labels
  <2>2. /\ chan' = [chan EXCEPT ![s] = "closed"]
        /\ UNCHANGED <<wire, inbox, pending, signaled, shown, final, closed, pump, ctx>>
    BY <1>5 DEF CloseConn, NoInput, NoEvent
  <2>3. QED
    BY <2>1, <2>2, GoToMoves DEF Core, Link, Events, Moved
<1>6. QED
  BY <1>1, <1>2, <1>3, <1>4, <1>5 DEF BothSides

\* Delivery, loss and closing move messages along or drop them.
LEMMA NetworkQueues ==
  ASSUME NEW G, Typed(G), Queues(G), NEW s \in Side, Network(s)
  PROVE  Queues(G)' /\ UNCHANGED <<signaled, pc, err, shown, final>>
<1>1. wire[s] \in Seq(G[s]) /\ inbox[s] \in Seq(G[s])
  BY DEF Queues, Holds
<1>2. CASE Deliver(s)
  <2>1. Head(wire[s]) \in G[s] /\ Tail(wire[s]) \in Seq(G[s])
    BY <1>1, <1>2, HeadTailProperties DEF Deliver
  <2>2. UNCHANGED quiet /\ wire' = [wire EXCEPT ![s] = Tail(wire[s])]
    BY <1>2 DEF Deliver
  <2>3. Holds(wire', G)
    BY <2>1, <2>2, HoldsExcept DEF Queues
  <2>4. Append(inbox[s], Head(wire[s])) \in Seq(G[s])
    BY <1>1, <2>1, AppendProperties
  <2>5. inbox' = inbox \/ inbox' = [inbox EXCEPT ![s] = Append(inbox[s], Head(wire[s]))]
    BY <1>2 DEF Deliver
  <2>6. Holds(inbox', G)
    BY <2>4, <2>5, HoldsExcept DEF Queues
  <2>7. Holds(pending', G)
    BY <2>2 DEF quiet, Queues
  <2>8. QED
    BY <2>2, <2>3, <2>6, <2>7 DEF quiet, Queues
<1>3. CASE LoseTail(s)
  <2>1. PICK n \in 0..Len(wire[s])-1 : wire' = [wire EXCEPT ![s] = SubSeq(wire[s], 1, n)]
    BY <1>3 DEF LoseTail
  <2>2. Len(wire[s]) \in Nat /\ \A i \in 1..Len(wire[s]) : wire[s][i] \in G[s]
    BY <1>1, LenProperties, ElementOfSeq
  <2>3. n \in Int /\ 1 \in Int /\ \A i \in 1..n : wire[s][i] \in G[s]
    BY <2>1, <2>2
  <2>4. SubSeq(wire[s], 1, n) \in Seq(G[s])
    BY <2>3, SubSeqProperties
  <2>5. Holds(wire', G)
    BY <2>1, <2>4, HoldsExcept DEF Queues
  <2>6. QED
    BY <1>3, <2>5 DEF LoseTail, quiet, Queues, Holds
<1>4. CASE SeeClose(s)
  BY <1>4 DEF SeeClose, quiet, Queues, Holds
<1>5. CASE RunOnClose(s)
  BY <1>5 DEF RunOnClose, quiet, Queues, Holds
<1>6. QED
  BY <1>2, <1>3, <1>4, <1>5 DEF Network

LEMMA NetworkMoves ==
  ASSUME NEW G, Typed(G), Queues(G), Core, Link, Events,
         NEW s \in Side, Network(s)
  PROVE  /\ Queues(G)' /\ Core' /\ Link' /\ Events'
         /\ UNCHANGED <<pc, shown>>
<1>1. Queues(G)' /\ UNCHANGED <<signaled, pc, err, shown, final>>
  BY NetworkQueues
<1>2. Link'
  BY DEF Network, Deliver, LoseTail, SeeClose, RunOnClose, linkVars, Link
<1>3. QED
  BY <1>1, <1>2 DEF Core, Events

LEMMA CancelCtxMoves ==
  ASSUME NEW G, Queues(G), Core, Link, Events, NEW s \in Side, CancelCtx(s)
  PROVE  /\ Queues(G)' /\ Core' /\ Link' /\ Events'
         /\ UNCHANGED <<pc, shown>>
BY DEF CancelCtx, sessionVars, Queues, Holds, Core, Link, Events

\* emit keeps the events typed, and adds one, if any, at the end.
LEMMA EmitAppends ==
  ASSUME Events, NEW s \in Side, NEW kind \in {"start", "ok", "bad"},
         NEW id \in Int, Emit(s, <<kind, id>>)
  PROVE  /\ Events' /\ final' = final
         /\ \A t \in Side \ {s} : shown'[t] = shown[t]
         /\ \/ shown'[s] = Append(shown[s], <<kind, id>>)
            \/ ctx[s] /\ shown'[s] = shown[s]
<1>1. <<kind, id>> \in {"start", "ok", "bad"} \X Int
  OBVIOUS
<1>2. Append(shown[s], <<kind, id>>) \in Seq({"start", "ok", "bad"} \X Int)
  BY <1>1 DEF Events
<1>3. QED
  BY <1>2 DEF Emit, Events

LEMMA EmitTyped ==
  ASSUME Events, NEW s \in Side, NEW kind \in {"start", "ok", "bad"},
         NEW id \in Int, Emit(s, <<kind, id>>)
  PROVE  /\ Events'
         /\ \A t \in Side : Emitted(t)' \subseteq Emitted(t) \cup {<<kind, id>>}
         /\ \A t \in Side \ {s} : shown'[t] = shown[t] /\ Emitted(t)' = Emitted(t)
         /\ ctx[s] \/ Emitted(s)' = Emitted(s) \cup {<<kind, id>>}
<1>1. <<kind, id>> \in {"start", "ok", "bad"} \X Int
  OBVIOUS
<1>2. shown'[s] = Append(shown[s], <<kind, id>>) => Emitted(s)' = Emitted(s) \cup {<<kind, id>>}
  <2> SUFFICES ASSUME shown'[s] = Append(shown[s], <<kind, id>>)
               PROVE  Emitted(s)' = Emitted(s) \cup {<<kind, id>>}
    OBVIOUS
  <2>1. shown[s] \in Seq({"start", "ok", "bad"} \X Int)
    BY DEF Events
  <2>2. /\ DOMAIN shown[s] = 1..Len(shown[s]) /\ Len(shown[s]) \in Nat
        /\ DOMAIN shown'[s] = 1..Len(shown[s]) + 1
        /\ shown'[s][Len(shown[s]) + 1] = <<kind, id>>
        /\ \A i \in 1..Len(shown[s]) : shown'[s][i] = shown[s][i]
    BY <1>1, <2>1
  <2>3. \A i \in DOMAIN shown'[s] : i \in DOMAIN shown[s] \/ i = Len(shown[s]) + 1
    BY <2>2
  <2>4. ASSUME NEW x PROVE x \in Emitted(s)' <=> x \in Emitted(s) \cup {<<kind, id>>}
    BY <2>2, <2>3 DEF Emitted
  <2>5. QED
    BY <2>4
<1>3. \A t \in Side : shown'[t] = shown[t] => Emitted(t)' = Emitted(t)
  BY DEF Emitted
<1>4. QED
  BY <1>2, <1>3, EmitAppends

-----------------------------------------------------------------------------
(* Messages.                                                               *)

LEMMA SliceTyped ==
  ASSUME NEW file \in Int, NEW from \in Nat, NEW n \in Nat
  PROVE  Slice(file, from, n) \in Content /\ Len(Slice(file, from, n)) = n
<1>1. \A k \in 1..n : <<file, from + k>> \in Unit
  BY DEF Unit
<1>2. Slice(file, from, n) \in [1..n -> Unit]
  BY <1>1 DEF Slice
<1>3. QED
  BY <1>2, SeqDef DEF Content

\* What the type of a message says of its other fields.
LEMMA MessageFields ==
  ASSUME NEW m \in Message
  PROVE  /\ m.t = "manifest" => m.files \in Seq(FileMeta)
         /\ m.t = "accept" => m.ids \in SUBSET Int
         /\ m.t = "chunk" => m.data \in Content
         /\ m.t = "file-start" => m.id \in Int
         /\ m.t = "file-end" => m.id \in Int /\ m.sha256 \in Content
         /\ m.t = "file-ack" => m.id \in Int
BY DEF Message

-----------------------------------------------------------------------------
(* What a step says, and how it leaves its side.                           *)

Ended == {"failed", "returned", "closed"}

\* All messages that promise nothing.
Plain == {m \in Message : m.t \notin {"accept", "done"}}

\* A step of s that says one of M at most and takes or defers a message at
\* most.
Speaks(s, M) == /\ UNCHANGED wire \/ \E m \in M : Post(s, m)
                /\ NoInput \/ Consume(s) \/ Defer(s)

LEMMA SpeaksHolds ==
  ASSUME NEW G, Kinds(G), Queues(G), NEW s \in Side,
         NEW M, M \subseteq G[Peer(s)], Speaks(s, M)
  PROVE  Queues(G)'
<1>1. Holds(wire', G)
  BY PostHolds DEF Speaks, Queues, Kinds
<1>2. Holds(inbox', G) /\ Holds(pending', G)
  BY ConsumeHolds, DeferHolds DEF Speaks, NoInput, Queues, Kinds
<1>3. QED
  BY <1>1, <1>2 DEF Queues

\* A step of s after which it still runs, or has failed.
Fares(s) ==
  /\ \A t \in Side \ {s} : pc'[t] = pc[t] /\ err'[t] = err[t]
  /\ \/ err'[s] = err[s] /\ (pc'[s] \in Ended <=> pc[s] \in Ended)
     \/ /\ pc[s] \notin Ended /\ pc'[s] \in Ended
        /\ err'[s] \notin {"none", "nil"}

\* It goes to a label in L and makes no promise.
Plays(s, L) == Fares(s) /\ pc'[s] \in L /\ Speaks(s, Plain)

LEMMA GoToFares ==
  ASSUME Core, NEW s \in Side, NEW label, GoTo(s, label),
         label \in Ended <=> pc[s] \in Ended
  PROVE  Fares(s) /\ pc'[s] = label
BY DEF Core, GoTo, Fares

LEMMA FailFares ==
  ASSUME Core, NEW s \in Side, pc[s] \notin Ended,
         NEW e, e \notin {"none", "nil"}, FailWith(s, e)
  PROVE  Fares(s) /\ pc'[s] = "failed"
BY DEF Core, FailWith, Fares, Ended

LEMMA ControlFares ==
  ASSUME Core, NEW s \in Side, pc[s] \notin Ended,
         NEW m, NEW label, label \notin Ended, Control(s, m, label)
  PROVE  /\ Fares(s) /\ pc'[s] \in {label, "failed"}
         /\ UNCHANGED wire \/ Post(s, m)
<1>1. CASE CanSend(s)
  BY <1>1, GoToFares DEF Control
<1>2. CASE ~CanSend(s)
  BY <1>2, FailFares DEF Control
<1>3. QED
  BY <1>1, <1>2

LEMMA LastWordFares ==
  ASSUME Core, NEW s \in Side, pc[s] \notin Ended,
         NEW m, NEW e, e \notin {"none", "nil"}, LastWord(s, m, e)
  PROVE  /\ Fares(s) /\ pc'[s] = "failed"
         /\ UNCHANGED wire \/ Post(s, m)
BY FailFares DEF LastWord

LEMMA ProtocolErrorFares ==
  ASSUME Core, NEW s \in Side, pc[s] \notin Ended, ProtocolError(s)
  PROVE  /\ Fares(s) /\ pc'[s] = "failed"
         /\ UNCHANGED wire \/ \E m \in Plain : Post(s, m)
<1>1. ErrorMsg("protocol") \in Plain
  BY DEF ErrorMsg, Plain, Message
<1>2. QED
  BY <1>1, LastWordFares DEF ProtocolError

LEMMA WaitFailsFares ==
  ASSUME Core, NEW s \in Side, pc[s] \notin Ended, WaitFails(s)
  PROVE  Plays(s, {"failed"})
BY FailFares DEF WaitFails, Plays, Speaks

LEMMA TakeTerminalFares ==
  ASSUME Core, NEW s \in Side, pc[s] \notin Ended, TakeTerminal(s)
  PROVE  Plays(s, {"failed"})
BY FailFares DEF TakeTerminal, Take, Plays, Speaks

LEMMA WaitOtherFares ==
  ASSUME Core, NEW s \in Side, pc[s] \notin Ended, NEW expected, WaitOther(s, expected)
  PROVE  Plays(s, {pc[s], "failed"})
<1>1. CASE WaitFails(s)
  BY <1>1, WaitFailsFares DEF Plays
<1>2. CASE TakeTerminal(s)
  BY <1>2, TakeTerminalFares DEF Plays
<1>3. CASE TakeUnknown(s)
  BY <1>3 DEF TakeUnknown, Take, Plays, Fares, Speaks
<1>4. CASE TakeUnexpected(s, expected)
  BY <1>4, ProtocolErrorFares DEF TakeUnexpected, Plays, Speaks
<1>5. QED
  BY <1>1, <1>2, <1>3, <1>4 DEF WaitOther

LEMMA WaitHelloFares ==
  ASSUME Core, NEW s \in Side, WaitHello(s)
  PROVE  Plays(s, {AfterHello(s), "failed"})
<1>1. pc[s] \notin Ended /\ AfterHello(s) \notin Ended
  BY DEF WaitHello, At, Ended, AfterHello
<1>2. CASE WaitFails(s)
  BY <1>1, <1>2, WaitFailsFares DEF Plays
<1>3. CASE TakeTerminal(s)
  BY <1>1, <1>3, TakeTerminalFares DEF Plays
<1>4. CASE TakeHello(s)
  <2>1. ErrorMsg("version") \in Plain
    BY DEF ErrorMsg, Plain, Message
  <2>2. CASE NextMsg(s).v = Version
    BY <1>1, <1>4, <2>2, GoToFares DEF TakeHello, Take, Plays, Speaks
  <2>3. CASE NextMsg(s).v # Version
    <3>1. LastWord(s, ErrorMsg("version"), "version") /\ Consume(s)
      BY <1>4, <2>3 DEF TakeHello, Take
    <3>2. QED
      BY <1>1, <2>1, <3>1, LastWordFares DEF Plays, Speaks
  <2>4. QED
    BY <2>2, <2>3
<1>5. CASE TakeNotHello(s)
  BY <1>1, <1>5, ProtocolErrorFares DEF TakeNotHello, Plays, Speaks
<1>6. QED
  BY <1>2, <1>3, <1>4, <1>5 DEF WaitHello

\* A session does not go back to its start.
LEMMA BothSidesFares ==
  ASSUME Core, NEW s \in Side, BothSides(s)
  PROVE  /\ Plays(s, {"hello", "waitHello", AfterHello(s)} \cup Ended)
         /\ pc'[s] \notin Ended => pc[s] \in {"init", "hello", "waitHello"}
<1>1. CASE NewSession(s)
  BY <1>1, GoToFares DEF NewSession, At, Ended, Plays, Speaks
<1>2. CASE SendHello(s)
  <2>1. Hello(Version) \in Plain
    BY DEF Hello, Version, Plain, Message
  <2>2. Control(s, Hello(Version), "waitHello") /\ NoInput /\ pc[s] = "hello"
    BY <1>2 DEF SendHello, At
  <2>3. QED
    BY <2>1, <2>2, ControlFares DEF Ended, Plays, Speaks
<1>3. CASE WaitHello(s)
  BY <1>3, WaitHelloFares DEF Plays, WaitHello, At, Ended
<1>4. CASE Abort(s)
  <2>1. Cancel \in Plain
    BY DEF Cancel, Plain, Message
  <2>2. /\ GoTo(s, "returned") /\ NoInput /\ pc[s] = "failed"
        /\ UNCHANGED wire \/ Post(s, Cancel)
    BY <1>4 DEF Abort, At
  <2>3. QED
    BY <2>1, <2>2, GoToFares DEF Ended, Plays, Speaks
<1>5. CASE CloseConn(s)
  BY <1>5, GoToFares DEF CloseConn, At, Ended, Plays, Speaks
<1>6. QED
  BY <1>1, <1>2, <1>3, <1>4, <1>5 DEF BothSides

-----------------------------------------------------------------------------
(* How a call ends.                                                        *)

LastWords == {ErrorMsg("protocol"), ErrorMsg("version")}

\* The call of s fails: it has been told that the peer gave up, or says an
\* error as its last word, or leaves the last word to Abort.
Concludes(s) ==
  /\ pc'[s] = "failed" /\ err'[s] \in Errors \ {"none", "nil"}
  /\ \/ UNCHANGED <<wire, signaled>>
     \/ /\ UNCHANGED wire /\ signaled'[s]
        /\ err'[s] \in {"peer-cancel", "peer-error"}
     \/ /\ signaled'[s]
        /\ CanSend(s) /\ \E m \in LastWords : Post(s, m)

LEMMA FailConcludes ==
  ASSUME Core, NEW s \in Side, NEW e \in Errors \ {"none", "nil"},
         FailWith(s, e), UNCHANGED <<wire, signaled>>
  PROVE  Concludes(s)
BY DEF Core, FailWith, Concludes

LEMMA LastWordConcludes ==
  ASSUME Core, NEW s \in Side, NEW e \in Errors \ {"none", "nil"},
         NEW m \in LastWords, LastWord(s, m, e)
  PROVE  Concludes(s)
BY DEF Core, FailWith, LastWord, Signal, Concludes

LEMMA ProtocolErrorConcludes ==
  ASSUME Core, NEW s \in Side, ProtocolError(s)
  PROVE  Concludes(s)
BY LastWordConcludes DEF ProtocolError, LastWords, Errors

LEMMA WaitFailsConcludes ==
  ASSUME Core, NEW s \in Side, WaitFails(s)
  PROVE  Concludes(s)
BY FailConcludes DEF WaitFails, Errors

LEMMA TakeTerminalConcludes ==
  ASSUME Core, NEW s \in Side, TakeTerminal(s)
  PROVE  Concludes(s)
BY DEF TakeTerminal, Core, FailWith, Signal, Concludes, Errors

LEMMA WaitOtherConcludes ==
  ASSUME Core, NEW s \in Side, NEW expected, WaitOther(s, expected)
  PROVE  Concludes(s) \/ UNCHANGED <<wire, signaled, pc, err>>
BY WaitFailsConcludes, TakeTerminalConcludes, ProtocolErrorConcludes
   DEF WaitOther, TakeUnknown, TakeUnexpected

LEMMA WaitHelloConcludes ==
  ASSUME Core, NEW s \in Side, WaitHello(s)
  PROVE  \/ Concludes(s)
         \/ GoTo(s, AfterHello(s)) /\ UNCHANGED <<wire, signaled>>
<1>1. CASE TakeHello(s)
  BY <1>1, LastWordConcludes DEF TakeHello, LastWords, Errors
<1>2. QED
  BY <1>1, WaitFailsConcludes, TakeTerminalConcludes, ProtocolErrorConcludes
     DEF WaitHello, TakeNotHello

\* What arrives goes behind everything.
LEMMA ConcatAppend ==
  ASSUME NEW s \in Seq(Message), NEW t \in Seq(Message), NEW m \in Message
  PROVE  s \o Append(t, m) = Append(s \o t, m)
<1>1. s \o t \in Seq(Message) /\ <<m>> \in Seq(Message)
  BY ConcatProperties
<1>2. Append(t, m) = t \o <<m>> /\ Append(s \o t, m) = (s \o t) \o <<m>>
  BY <1>1, AppendIsConcat
<1>3. (s \o t) \o <<m>> = s \o (t \o <<m>>)
  BY <1>1, ConcatAssociative
<1>4. QED
  BY <1>2, <1>3
=============================================================================
