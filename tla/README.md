# jsi in TLA+

jsi sends files from one machine to another over a WebRTC data channel. Two
parties meet through a signaling worker (or by pasting or scanning each
other's session description), open one ordered, reliable data channel called
"jsi", and run the transfer protocol TP/1 on it. This directory holds TLA+
models of that program, TLC configurations that check them on small instances,
and proofs, checked by TLAPS, of what holds for every instance. File and line
numbers below refer to `src/`.

Contents

1. The system
2. The modules
3. How the state and the actions correspond to the code
4. The runs: what each checks, its bounds, its fairness
5. What is proved
6. What the models leave out
7. Disagreements found
8. Plan

## 1. The system

| component | code | state it keeps | operations | talks to |
|---|---|---|---|---|
| TP/1 messages | `internal/protocol/protocol.go` | none | marshal, unmarshal, validate, sanitize names | transfer |
| transfer session | `internal/transfer/transfer.go` 194-442 | inbox, deferred messages, closed flag, `signaled`, event channel | handshake, `next`, `poll`, `pushback`, control sends, `terminal`, `abort`, `end` | peer connection, front end (events) |
| transfer sender | `transfer.go` 433-674 | accepted ids, current file, units sent | `Send`, `sendFile`, `midSendCheck`, `waitAck` | session, the files on disk |
| transfer receiver | `transfer.go` 697-985 | manifest, accepted ids, partial file, directory | `Receive`, `receiveFile`, `resolveAccept`, `createDest` | session, the directory, the `decide` callback |
| peer connection | `internal/peer/peer.go` | data channel, early messages, low-water token | `Offer`, `Answer`, `WaitOpen`, `OnMessage`, `WriteFlow`, `Close` | Pion |
| signaling worker | `worker/src/sessions.ts`, `sessiondo.ts` | per token: offer, answer, alarm | create, get offer, put answer, wait for answer, alarm | SP/1 clients over HTTP |
| SP/1 client | `internal/signal/worker.go` | token, `expiresAt` | `Announce`, wait, `Join`, respond | worker |
| paste and QR signaling | `internal/signal/paste.go`, `qr.go`, `qrframe.go` | buffered stdin, frames collected | encode, decode, read a line, reassemble | front end |
| policy | `internal/policy/policy.go` | none | which channel to try, and for how long | front end |
| command line | `cmd/jsi/internal/cli` | the root context, prompts, exit code | `send`, `receive`, escalation to the worker | all of the above |
| terminal UI | `cmd/jsi-tui/internal/tui` | screen, connection, token, pending commands | `Update` on keys and command results | all of the above |
| browser client | `pwa/src` | its own inbox and buffers, received files in memory | TP/1 and SP/1 a second time: send, receive, scan | worker, a Go peer or another browser |

How they interact. `Send` and `Receive` each run in one goroutine. Messages
reach them from a Pion goroutine through a bounded inbox; the close of the
channel and the low-water callback come from other Pion goroutines; the user's
cancel comes through the context; events go out on a channel that the front end
drains. The front end closes the connection as soon as the call returns, with
whatever is still buffered in it. The worker runs one method of a session
object at a time, but each HTTP handler makes several of these calls, and the
long poll sleeps between its reads.

What is hard here, and what has to be right:

- **the session** - a cancel, a failure, a close and a message can be ready
  together and in any order on both sides at once; each side must say one last
  word at most and never mistake the other's for something else;
- **the sender** - what arrives while it streams is deferred and must still
  count; the file may change under it; it must not claim a delivery that did
  not happen;
- **the receiver** - several files, files already there and names that look
  like collision candidates share the candidate paths; a file is kept before
  its ack is sent, and anything unverified must go, and nothing else;
- **the close** - the last messages of a side may be lost with the tail of
  the channel, so the two sides may learn different things, but never
  contradictory ones;
- **flow control** - the buffer limit, with control messages that ignore the
  watermark, and no lost wakeup between check, pause and callback;
- **rendezvous** - expiry, collisions, two receivers, clients gone: one
  answer, the right one, and nothing remembered;
- **connection** - Pion's callbacks race the caller: the channel may open
  before anyone waits for it and messages may come before anyone handles them;
- **command line** - both sides escalate on their own clocks, several readers
  share one stdin, Ctrl-C meets calls that do not look at it; the exit code has
  to be true all the same, and `--externals none` has to mean none;
- **terminal UI** - results of abandoned attempts arrive during the next one;
- **browser client** - a second implementation of TP/1 that differs from the
  first in what it ignores, keeps and tells, and must agree with it.

`PROJECT.json` lists these as hazards, each at its line and with the
properties that cover it.

## 2. The modules

```
TP1                       messages, manifest and acceptance rules
  Session                 two ends of a channel, a transfer session at each
    Sender                transfer.Send          Receiver    transfer.Receive
      SenderPeer            against any peer       ReceiverPeer  against any peer
      +------- Transfer = Sender + Receiver + users + network -------+
               implements Delivery, the promise of a transfer
        Interop           Transfer, with a browser at either end or at both
FlowControl               WriteFlow byte by byte
  Conn                    a peer.Conn from Offer or Answer to Close, writing
                          as FlowControl does: implements it
Rendezvous                the worker and its SP/1 clients
  Handshake               both commands, flags to exit code, with the steps
                          of Rendezvous: implements it
Tui                       the terminal UI: keys and results of commands

SessionProofs, TransferProofs, InteropProofs, SenderPeerProofs,
ReceiverPeerProofs, ConnProofs, HandshakeProofs, TuiProofs  the theorems
MCTransfer, MCTransferLive, MCInterop, MCSenderPeer, MCReceiverPeer,
MCConn, MCRendezvous, MCHandshake, MCTui                instances for TLC
```

The state machines are compositional: `Session` has the state of both ends as
functions of the side (`snd`, `rcv`), and its actions take the side as a
parameter; `Sender` and `Receiver` add what only one of them has. `Transfer`
puts the two together, and `SenderPeer` and `ReceiverPeer` each put one of them
opposite a peer that may say anything at all. `Interop` takes the actions of
`Transfer` for the sides that are jsi programs and has its own for browsers;
`Conn` takes those of `FlowControl` for what it writes, and `Handshake` those of
`Rendezvous` for what it asks of the worker.

Every definition that models code is listed in `PROJECT.json` with the lines
it stands for. Definitions marked "Mutant" in a comment are deliberately wrong
variants of the definition after them. No specification uses them: substituting
one for its neighbour must make the property named beside it in `PROJECT.json`
fail, which shows that the property depends on the code it is about.

## 3. State and actions

**Session.** `wire[s]` is everything sent towards side `s` that has not reached
its session: the peer's send buffer, the network, and the early messages
`peer.Conn` keeps. `inbox`, `pending`, `signaled` and `closed` are the fields
of the Go struct. `pc[s]` says where `Send` or `Receive` stands, `err[s]` is
the kind of error it returns, `shown` the per-file events its event channel has
carried, in order, and `final` the terminal one.
`chan[s]` is the ready state of the data channel, with "hook" for the moment at
which it is closed and `OnClose` has not run: sends fail already, while `next`
does not know yet. A channel that closes before `newSession` has registered
`OnClose` never sets `closed`; that session fails at its first send.

One iteration of a wait loop is one action: it takes one message, or learns
that the context is done, or that the channel is closed, and does everything
the loop body does, sends included. `WaitFails`, `TakeTerminal`, `TakeUnknown`
and `TakeUnexpected` are what all loops share; `WaitReply`, `WaitAck`,
`WaitManifest`, `WaitFileStart`, `ReceiveChunks` and `WaitDone` add the messages
each is for. Go's `select` takes any ready case, so the alternatives are
disjuncts without priority, except for the order `next` imposes (deferred
messages before anything, queued messages before the close). A failing call goes
through `Abort` (the terminal event, a cancel unless `signaled`, end of the
pump), then `CloseConn`, the caller's deferred `Close`. `LoseTail` and `SeeClose`
are what a close does to the other end: any suffix of what was under way is
lost, then the channel closes there.

**Sender.** Files are indices of the send list. `StartFile` to `WaitAck` is
`sendFile`, with one action for each of its blocking steps; `Poll` is the
non-blocking look into the inbox that each turn of the chunk loop begins with,
including what `pushback` does to the order. `disk` is the current length of
each file and `ChangeFile` another process changing it. `WriteChunk` is the
second half of `WriteFlow`: its pause counts messages here, bytes in
`FlowControl`.

**Receiver.** The directory `dir` maps paths to contents, and a candidate path
is a name with suffix -1, -2, and so on. Names are sequences so that a file may
be called what another file's candidate is called. `dest` is the file that the
deferred clean-up of `receiveFile` would remove, `saved` the verified files.
`Decide` is the callback's answer followed by the accept or reject.

**Contents and digests.** A file is a sequence of units `<<file, k>>`; a digest
is the sequence hashed. Equal digests therefore mean equal contents, which is
the assumption SHA-256 is used under.

**Interop.** A side is a jsi program or a browser (`kind`). The labels of `pc`
that begin with "b-" are the awaits of `rtc/transfer.ts`, and a step of a browser
is what runs between two of them, since nothing else runs meanwhile. A browser
that waits handles a message before the next event of the channel (`Settled`);
its inbox has no bound; a close becomes a cancel if it is waiting and otherwise
is noticed when it waits the next time (`BrowserOnClose`, `AwaitAck`). `Throw`
is a rejected promise: the peer is told nothing, the channel stays open, and the
received files, which are in memory (`results`), are gone. Only the Back button
(`Back`) closes. `Pace` and `BufferedAmountLow` are its flow control, in
messages, as in `WriteChunk` of the other kind of sender.

**FlowControl.** `buffered` is `BufferedAmount`, `lowCh` the token of the
channel of capacity one, `callback` the moment at which the buffer has crossed
the low watermark and `OnBufferedAmountLow` has not run. The check, the arrival
at the `select`, the wakeup and the send are separate actions, since the buffer
drains and callbacks run between any two of them.

**Conn.** `stage` is where the caller's goroutine stands: gathering, exchanging
descriptions, in `WaitOpen`, in `OnMessage` (which `newSession` calls), running its
session, back, closed. `dc`, `remote`, `reading`, `announced` and `openCh` are
the steps by which a channel comes to be open, each taken by Pion or by the
caller in its own time; an offerer makes its channel itself, an answerer gets it
through `OnDataChannel`. `msgBuf` and `msgFlushed` are the fields of `Conn`,
`batch` the messages a turn of `OnMessage`'s loop has taken to replay and
`routed` the one that `routeMessage` hands to the handler after its critical
section. Messages are numbered as they arrive. The writer is `FlowControl`'s.

**Rendezvous.** Per token the stored offer, answer and alarm; per client what
the worker is doing for it (`req`), a response it has not read (`reply`), and
where it stands (`pc`). Each call to a session object is one action. So
`createSession` is `CreateSession` (once per attempt) and `StampExpiry`, which
reads the clock again; `getSessionAnswer` is `LookUp` and `WaitAnswer`;
`getSessionOffer` is `FindSession` and `GetOffer`. `GiveUp` is a client whose
context is cancelled or whose connection fails: the worker may still carry out
what it was asked. Offers and answers are named after their makers.

**Handshake.** Both commands run: `flags` says how each was called, `stage` what it
is doing, `exit` what it returned. `ResolvePolicy` and `ExitCode` are the Go
functions. stdin is modelled by what reads it: `held` is the app's own
`bufio.Reader`, `reader` the goroutine of the paste channel, which is "parked"
once the channel has timed out and its read goes on; `typed` counts the lines
read, `lost` those read and dropped. A Read at a terminal returns one line, of a
pipe as many as there are; which lines is chosen when it returns, out of what
the users can copy by then (`screen`) and stale or meaningless ones. In stage
"worker" a command takes the steps of `Rendezvous`, whose `pc`, `req` and
`reply` are its own there. `SendReturns` and `ReceiveReturns` take what `Send` and
`Receive` may return together from what `Transfer` shows of them: a receiver
succeeds only after `Send` has sent done, `Send` only if the files were accepted
(`fate`). `jsi send` is not through then: `SendSummary` opens and hashes every
file once more, and its error is the command's. So the receiver may exit 0 while
the sender still hashes, or before it fails at that.
Ctrl-C (`Interrupt`) marks the root context; `ContextEnds` and `RequestFails` are
the calls that look at it. The prompts do not.

**Tui.** `screen`, `conn`, `waiting` and `respond` are the fields `state`,
`conn`, `wait` (with `token`) and `respond` of `Model`; `cmds` is the bag of
commands running in goroutines of Bubble Tea. A command is its kind, the
connection it was given and the offer it is about. Each action is one call of
`Update`: a key on a screen, or the result of a running command, whichever
screen is shown by then. The actions test the screen only where the code does,
so results of an abandoned attempt do to the next one what they do in the
program. `mode` is the signaling axis of the settings, read when the code reads
it; QR differs from paste only in what is drawn. Esc closes the connection and
keeps it, with `wait` and `respond`. `abandoned` is not in the code: it records
that the user left, or pasted an answer over the announcement, while a
command was running. `FirstEvent` is the goroutine that pumps transfer events.

## 4. The runs

| run | states | checks |
|---|---|---|
| `transfer` | 899,110 | safety of a transfer between two jsi programs, and its refinement of Delivery |
| `interop` | 774,762 | jsi programs and browsers in all four pairings, and that both ends end |
| `cancel` | violation | a cancel closes the peer |
| `sender_peer` | 464,116 | `Send` against any peer |
| `receiver_peer` | 506,538 | `Receive` against any peer |
| `conn` | 361,538 | a connection: open, early messages, `WriteFlow` and its callback |
| `rendezvous` | 881,304 | the worker and four clients |
| `timeout` | violation | a sender nobody answers times out |
| `tui` | 7,467 | the terminal UI over two attempts |
| `tui_crash` | violation | the terminal UI does not crash |
| `handshake` | 171,457 | both commands under eight pairs of flags |
| `stranded` | violation | a pasted blob takes no other line with it |

**transfer.** Two files of two units and one unit, both named "a", go into a
directory that has an "a" already, with chunks of one unit, an inbox of two
messages and a pause at two buffered messages. Either context may be cancelled,
either side may fail at every I/O step, the receiver may accept any subset or
refuse, the first file may grow at any time, and either end may close with any
tail lost. So the run has collisions between the two files and with the old
one, a full inbox, a pause, and every race of last words. (Nothing is
deferred in this run: `sender_peer` is about that.) Checked:

- `SavedIntact` - what `Receive` keeps is the whole file declared, for good;
- `AckedIsSaved` - what `Send` counts as delivered has been verified and kept;
- `HonestPeersAgree` - two jsi programs never accuse each other of breaking
  TP/1, nor meet a digest mismatch, unless a file changed its length;
- `BlameIsTrue` - a failed side's account of the other is right: a reject was
  a refusal, a cancel came from a side that failed, a close from a call that
  is over;
- `FrontEndTold` - what the events tell a front end that did not cancel, once the
  call has returned: the start and the done of every file acknowledged, in the
  order of the files and once each; of all others at most the start of the one
  the call failed at, and its done exactly if the digest differed; and one
  terminal event, which says done only with no file left. A file that changed
  its length has a start and no done for good: the Event contract promises more
  (section 7);
- `SavedForever` - a kept file stays where it is, as it is;
- `KeepsPromise` - the transfer implements `Delivery`;
- `Inductive` - the invariant of the proofs, types included.

**Delivery** is the abstract promise: the receiver chooses some files and
stores them in order; the sender learns of a file only after it is stored, and
succeeds only when it knows of every chosen one; the receiver succeeds only
after the sender. `chosen` maps to `want \cup SavedIds`, `stored` to the saved
ids, `known` to the acknowledged ones. The "ok" of the receiver after the "ok"
of the sender is the order the code gives: the sender returns when it has sent
`done`, the receiver when it has read it.

**interop.** A file of two units and an empty one, reads of up to two units, high
watermark 2 and low watermark 1, so that a browser pauses between reads and
within one has a chunk and a remainder; both kinds at both ends, with everything
`transfer` has of cancels, closes, lost tails and changing files, and the Back
button at any time. `SuccessIsShared` relates the two results: a receiver that
succeeds has every accepted file whole, and its sender has succeeded; a sender
that succeeds has delivered everything, except that a browser that does not see
the done throws away what it has acknowledged, and only because somebody closed
in between. `NobodyIsAccused`: unless a file changed, no side meets a version or
digest mismatch, and only a browser ever speaks of a broken protocol or of the
peer's error, when its peer failed or left - it tells a cancel or an error it
meets in the wrong place from nothing else. `BothSidesEnd`: both come to their
end, or the sender is in the pause of section 7 (a browser has the same one,
`transfer.ts` 363). Fairness is weak fairness of each side's next step (a
goroutine or task that can run does), of delivery, of the notice of a close and
of `OnClose`; that a buffer whose peer still reads drains; and that the user of
a browser leaves a screen that says the transfer is over or failed, for nothing
else closes the connection. `decide` is part of the receiver's step, so the user
is assumed to answer the prompt. Nobody is assumed to cancel. Changes of a file,
cancels, other uses of the Back button and the loss of a tail are not fair.

**cancel** takes `Transfer` with one file under the same fairness and is about
section 7.

**sender_peer.** The peer sends up to `MaxGiven` messages out of a set with one
representative of everything `Send` treats differently - right and wrong
versions, accepts in and out of range, acks of the right and of other files,
binary data, malformed and unknown text - and closes at any time. For `SpeaksTP1`
a reader of the sender's half of TRANSFER.md (`reader`, which nothing else
depends on) follows every message `Send` posts, and is never astonished;
`OnlyAccepted` says no byte goes out that was not accepted; `DeferralKeeps`, a
property of steps, that every message is read once and in its order, however
often the chunk loop has looked at it and put it back, and that a loop that
carries on with a file has passed only messages of an unknown type;
`PeerIsTold` that an ending by `Send` is announced while the channel is open;
`PeerCloseEndsSend`, under the same fairness, that a close by the peer ends the
call whatever is queued or deferred. The high watermark is out of reach here, so
that the last property is about the message handling; the pause is the
subject of `interop` and `conn`.

**receiver_peer.** The peer's messages are a manifest of two files with sparse
ids and one name, three invalid manifests, chunks of two lengths and file-ends
that claim right and wrong digests under either id, at any time, with a bound
on those unread at once but none on their number: what the directory bounds
is what can be written. `NothingLeftBehind`: however it ends,
nothing that was in the directory is touched and nothing unverified stays.
`SavedAsClaimed`: a kept file has the declared size, the claimed digest, a
candidate path of its own name and of nobody else's. `SpeaksTP1`, `PeerIsTold`
and `PeerCloseEndsReceive` as above.

**conn.** Either role. Two early messages, which fill an inbox of two, and two
more; watermarks 2 and 6, chunks of one to three bytes, three control bytes
between chunks, hard limit 11 (the least the assumption allows). The real
numbers (512 KiB, 1 MiB, 16 KiB, 4 MiB; inbox 256) are in the same relation; the
proofs do not depend on them. `InOrder`: whatever has arrived is taken or queued
in order, once, also while `OnMessage` replays in one goroutine and
`routeMessage` runs in another. `Connects`: an open that comes before anyone
waits for it is not missed, and the replay gets through although nobody reads
the inbox yet. That needs `MaxEarly <= InboxCap`, which the protocol gives: a
peer sends a hello and a manifest before it hears anything, and the inbox has
256 places. A peer that sends more than 256 messages early, and a second
registration of a handler, are assumed away. `NeverOverHard`, `NoLostWakeup` and `WakesUp` are about `WriteFlow`.
Fairness: the goroutines, the handlers Pion owes, and an open channel drains;
nobody has to signal, to send, to read or to end.

**rendezvous.** Two senders, two receivers and a single token, time to live 1,
two attempts, clock up to 2: both senders collide on the token, and it is drawn
again after its wipe; two receivers answer one session; a receiver comes too
early or too late; everyone may be gone at any moment with its request still
under way; the alarm may be late by any amount. One token makes all of these
meet; with more of them clients only miss each other. `RightAnswer` and
`OneExchange` as named, under the assumption on draws of section 6 (`MayDraw`).

**handshake.** One command of each kind, called in eight ways that between them
have every preset, paste and worker, a terminal and a pipe, and calls that are
refused (`MCHandshake`). The sender's stdin holds one line, the receiver's two: an
offer or a token and then an answer to the accept prompt, or any two others. Time
to live 1, clock up to 1: a session may expire before, while and after the other
side comes. `NoneStaysOffline` and `TerminalKeepsLines` as section 3 and their
comments say. `ExitIsTrue`: 0 of either command comes with a `Send` that has sent
done, and leaves the other a success or a failure of its own after that (the
summary of the sender, the wait for done of the receiver); 4, 3 and 2 come with
a digest that differs, a refusal and a description that never came, and agree
with the other's code; of all failures exactly those of an interrupted command
are 130. `CtrlCEnds`: an interrupted command ends, unless it waits at a prompt.
`SearchEnds`: a sender that looks for an answer connects or ends. Fairness: goroutines, the worker and its clock, alarms (which the platform
retries), the timer of the paste, and that a done context ends requests. No user
has to do anything, and no request has to be answered otherwise.

**tui.** Two attempts, in either direction, with Esc, settings and results of
the first one during the second. `SpinnerWaits`: a screen that waits for a
result, which no key but Ctrl-C leaves, has a command running that leaves it, however
stale results have moved the screens about. `InStep`: as long as the user
waits, one command runs, answers go to the connection they answer and transfers
to an open one. (Once the user moves on this fails, as hazards say: the two
attempts share `conn`.) `GatheringEnds`: the two gathering screens are left.
Fairness is that of `offer`, `join`, `answer` and `respond` commands: gathering
has a timeout of 3 s (`peer.go` 57), and a request to the worker is assumed to
be answered or to fail, since the HTTP client has no timeout of its own.
Connecting, waiting for the other party and transferring are not fair: nothing
in the code bounds them. With three attempts (143,892 states) the invariants hold
as well.

Why the bounds are enough. Every loop of the code runs zero, one and two times
in some run; every capacity (inbox, watermark, attempts, candidate paths) is
both reached and not reached; and each property has a mutant of the code that
breaks it under the same configuration. What holds for larger instances is
the subject of the proofs. `CHECK_DEADLOCK FALSE` is set everywhere
because the modelled programs really stop: both calls return and the
connections are closed, the writer stops, the clients are done, the user quits.

## 5. What is proved

`TransferProofs` shows for all constants - any number of files, sizes and
names, any chunk size, inbox capacity, high watermark, number of candidate
paths and previous content of the directory, and any change of length -

- `InductiveInvariant`, `TypeCorrect`: `Spec => []Inductive`, `[]TypeOK`;
- `SavedFilesAreIntact`: `Spec => []SavedIntact`;
- `AcksAreTrue`: `Spec => []AckedIsSaved`;
- `SavedFilesStay`: `Spec => SavedForever`,

from the assumptions the modules state about their constants: limits are
natural numbers, the special values differ from ordinary ones, and the send
list is one that `Send` does not refuse at once.

The argument. `SavedIntact` alone is not inductive: `Receive` compares what it
wrote with the digest in a message, so one must know that every digest under way
is the declared file's; and `AckedIsSaved` needs that an ack under way tells
the truth. Hence `MessagesSound`: every message in `wire`, `inbox` and `pending`
on the way to the receiver carries, if it is a manifest, the sender's manifest,
and if it is a file-end, the declared content of its file; on the way to the
sender, if it is an ok ack, the id of a saved file. For the first half
`SenderSound` is needed (`Send` sends a file-end only for as many units as
were declared, which is what the size check at the end of the file is for); for
the second, that saved files are never unsaved, so that a true ack remains true.
`ReceiverSound` says that the file being written is none of the saved ones,
which is why clean-up and chunks of later files leave them alone - it rests on
`createDest` creating only paths no file has - and that no file is saved
twice.

`SessionProofs` proves once, for any set of allowed messages, that every action
of the session keeps the queues within it when it sends only allowed ones, and
where it can move `pc`. `TransferProofs` has a lemma per action of the sender
and of the receiver, then one for the whole next-state relation.

Its second half goes on from `Inductive` to what the outcomes say, for the same
constants:

- `TransferKeepsPromise` (`KeepsPromise`): `Transfer` implements `Delivery`. The
  states of the two programs must agree on more than what is stored (`Ledger`):
  nobody has an outcome before its call is over; once the sender has its answer,
  what it was told to send is what the receiver chose; an accept under way names
  just these files, whether listed or not, and a done is under way only from a
  sender that has succeeded. Each action is then shown to be one step of `Delivery`
  or to change none of its variables.
- `BlameIsAlwaysTrue` (`BlameIsTrue`): a cancel or an error under way comes from
  a side that has failed, a reject from one that declined, and the close handler
  runs only when the peer has closed (`Candor`). The interesting case is a side
  that fails for two reasons at once; every action is shown to end its session
  only on grounds it has (`Acts`).
- `FrontEndsAreTold` (`FrontEndTold`): as long as its context is not done, the
  log of a side is the start and done of every file it is through with, of the
  one it is at the start, and nothing else (`Reports`). That the log is in the
  order of the files needs that every file it is through with comes before every
  one that is left; each action then reports nothing (`SilentReport`), the start
  or the done of the next file, or ends the call.
- `HonestPeersNeverAccuse` (`HonestPeersAgree`): as long as no file has changed
  its length, nobody fails on a broken protocol, a version, a digest or the
  other's error report. This needs the order of what is under way, not just its
  kinds. The conversation is a line of points: before the hello, before the
  manifest, before the reply, and for each file before its start, after each of
  its units and after its end. `Leads` says from which point to which a message
  leads, `Runs` the same of a queue. The invariant (`Agree`) is that what is on
  its way to the receiver leads from where the receiver stands to where the
  sender stands (`Forward`), or ends in the cancel or the break of a sender that
  has given up; that what is on its way to the sender is the one answer it
  waits for, if any, and a cancel after it (`Backward`, `Heard`); and that the two
  programs stand at labels that go together (`InTurn`, `Together`). A receiver
  may be a whole file behind, but never at another file: that is what the ack
  after each one is for. Each action then moves one end of the line by one
  message. The network drops messages only when a side has ended (`PumpOff`), and
  what a close loses is a tail, which leaves a shorter line.

`InteropProofs` shows the invariants of `Interop` for the same constants, any read
size and low watermark, and all four pairings of ends:

- `InteropIsTyped` (`InteropTypeOK`), `EndsShareSuccess` (`SuccessIsShared`),
  `EndsAccuseNobody` (`NobodyIsAccused`), all from `EndsInterlock`.

The invariant of `Transfer` does not hold here: a browser says hello and manifest
in one breath, takes a hello where it waits for something else, sends a file-end
and waits without a pause between, and tells nobody that it has failed. So there is
an invariant of its own (`Interlock`), over the labels of both programs at either
end. Its heart is `Dialogue`, a predicate on plain values: the labels of the two,
the queues of messages between them, how far each is, and which files the
receiver wants. While both run, they are in one of four phases (`Turn`: `Opened`,
`Answered`, `Filed`, `Confirmed`), and what is on its way to the receiver is a path
along the line of points from where the receiver stands to where the sender
stands (`Trail`). When the receiver has stopped, the sender hears at most what it
still waits for and then farewells (`Echo`); when the sender has stopped, the
receiver hears a part of the path, which ends in a done only if the sender
succeeded, and in a cancel only if it failed or closed (`Outstanding`). The steps of
either end are few as steps of a dialogue - stand up and say something, take what
leads to the next point, stop - so the lemmas about those come first, on values;
each action of either program, and of the network, is then shown to be one of them
(`Move`, `Calm`). A browser that waits takes a close for a cancel: the dialogue allows for
one from a side that has closed. Around it, `Stores` says that what either kind of
receiver holds is whole and that an ack under way is true unless a browser has
lost everything (`Lost`), and `Verdicts` what each outcome says of the other side,
which is what the two properties are read off from.

`SenderPeerProofs` and `ReceiverPeerProofs` are about one program and any peer:
any messages, in any order and number, any directory, any limits. The invariant
(`PeerInductive`) types the queues by what the peer may send (`Given`), says what
the program keeps at each label (`Shape`), where the reader of TP/1 stands when
the program stands there (`Script`), and that a call that has ended has told its
peer, was told by it, or could not tell (`Ending`). From it follow

- `SendSpeaksTP1` and `ReceiveSpeaksTP1` (`SpeaksTP1`), `SendTellsItsPeer` and
  `ReceiveTellsItsPeer` (`PeerIsTold`), each with its program's meaning;
- `DeferralKeepsOrder` (`DeferralKeeps`): what `poll` defers stays at the head of
  what is queued, and nothing overtakes it;
- `SendsOnlyAccepted` (`OnlyAccepted`): chunks under way carry units of accepted
  files, and a done is under way only from a `Send` that succeeds (`Given`);
- `ReceiveLeavesNothingBehind` (`NothingLeftBehind`) and `ReceiveSavesAsClaimed`
  (`SavedAsClaimed`), from what is true of each path of the directory
  (`Directory`): it is as it was before, or it is a candidate of exactly one file
  and saved, or it is the one being written.

`ConnProofs` first shows of `FlowControl` `BufferStaysUnderLimit` and
`NoWakeupIsLost`, for all watermarks, chunk sizes and bursts with
`High + MaxChunk + MaxBurst <= Hard + 1` and `Low < High`. The strengthening is
`BufferBound`, which bounds the buffer by what the check left plus what has been
sent since. Then it shows `ConnRefinesFlow`: what a connection does around its
writer - gathering, handlers, queues - leaves the variables of `FlowControl` alone,
and its `Close` is a close of the channel. So both theorems carry over
(`ConnStaysUnderLimit`, `ConnLosesNoWakeup`). `MessagesStayInOrder` shows
`InOrder` for any number of messages and any inbox. `InOrder` alone is not
inductive: one must know that nothing is left to replay once `msgFlushed` is set
and that the handler is called directly only then (`FlushedLast`); so `inbox`,
`batch`, `msgBuf` and `routed` follow each other in the order of arrival.
`ConnTypes` (`ConnTypeOK`) bounds each of these queues; and `ReplayNeverBlocks` is
the safety half of `Connects`: while `OnMessage` replays, holding the lock, the
inbox has room, because nothing takes a place in it before and there are no
more early messages than places (`ConnAssumption`).

`HandshakeProofs` first shows of `Rendezvous` `AnswersReachTheirOffer`
(`RightAnswer`) and `SessionsServeOnePair` (`OneExchange`), for any clients,
tokens, time to live and number of attempts, as long as no token is drawn again
while a client of its wiped session still uses it (`MayDraw`). What clients remember outlives the
session it is about, so the invariant (`ExchangeInvariant`) ties memory to the
store while the session lasts: who uses a token finds its own offer under it or
none (`OffersKnown`, where `MayDraw` is needed); an answer is stored only next to the
offer it was made for (`AnswersFit`); and whoever has been told of an exchange was
told of the one that is settled (`Settlements`). Then it shows
`HandshakeKeepsProtocol`, that both commands together implement `Rendezvous`, so
that its theorems hold of them; and `NoneMakesNoContact`, `TerminalsKeepLines` and
`ExitCodesAreTrue`, which are `NoneStaysOffline`, `TerminalKeepsLines` and
`ExitIsTrue` for any set of calls and any number of lines. The invariant
(`HandshakeInvariant`) says who stays away from the worker and from which stages;
that a terminal's line is lost only by a reader that was parked, and that there
is no second one; and, for each stage and code, what the other side, the prompt
and the context must have done (`Telling`). A success says that `Send` has sent
done, not that the other command succeeds. `HandshakeTypes`
(`HandshakeTypeOK`) adds the types.

`TuiProofs` shows `SpinnerNeverStranded` (`SpinnerWaits`) and
`ScreenAndCommandAgree` (`InStep`) for any number of attempts. For the first,
a receiver that gathers for a worker attempt before it has anything to respond
with must still be joining (`Spinner`); for the second, as long as
nothing was abandoned, either no command runs or exactly one, which fits the
screen (`Steady`). `CommandsDoNotPileUp` (`TuiTypeOK`) has the types and the bound
on commands and transfers, two of each for every attempt. The bound is not
inductive: a stale announcement brings a screen back on which an answer may be
pasted. `Quota` counts a command that makes an offer twice, and counts a screen
on which one more command can be started; every result then replaces what it
ends.

Only model-checked: everything temporal under fairness (`BothSidesEnd`,
`WakesUp`, `Connects`, `PeerCloseEndsSend`, `PeerCloseEndsReceive`, `CtrlCEnds`,
`SearchEnds`, `GatheringEnds`), which the prover does not reach. Every
invariant, refinement and step property that a passing run checks has a theorem.

## 6. What the models leave out

- JSON: a text is a known message, one of unknown type, or malformed.
- Names: a name is one `SanitizeName` makes safe, or one it refuses.
- Progress events, logging, the wording of errors. Errors are kinds.
- ICE and DTLS, and how Pion is set up. In `Transfer` and `Interop` a transfer
  begins with an open channel, and what `Conn` shows of early messages is part of
  `wire`. `ConnectionPath` reads statistics and is left out.
- What `Send` checks before it opens a session: it is the assumption on the
  send list.
- The contents of a changing file: a change alters its length. A change that
  keeps the length is caught by nothing in the sender and hashed as read; the
  kept file then is what was read.
- SP/1: validation of tokens and bodies, which answers at once, and the ICE
  request. A token that was wiped while a client of its session still uses it
  is assumed not to be drawn meanwhile, one draw in 2^30 (`MayDraw`). No session
  is asked for so late that its expiry passes the bound of the clock.
- Terminal UI: drawing, text editing, progress numbers, the QR animation. A
  pasted blob is an answer; one that answers another offer is a connection that
  never opens.
- Commands: flag syntax, messages, progress bars, what the summaries print (the
  error of the sender's is modelled) and the parsing of tokens. In `Handshake` a blob or token of this run is one the users can see, and
  what `Send` and `Receive` do in between is the promise `Transfer` shows. QR frames are
  shown like a blob; the reassembly of scanned frames is a pure function that no
  Go program calls.
- Browser client: its SP/1 client, connection set-up, scanner and pages. In
  `Interop` it never meets malformed or unknown messages, which it would skip.
- Tokens, QR drawing, rate limits, ICE servers, service worker and settings
  screens: pure or stateless code or plain I/O.

## 7. Disagreements found

**A cancel does not reach a paused sender** (`cancel`). TRANSFER.md says that a
cancel, at any time, is acknowledged by closing the channel, and the chunk
loop's comment that it reacts promptly. `WriteFlow` (`peer.go` 348) waits only
for the low-water token and its own context. A receiver that gives up while the
sender is paused closes, the buffer never drains, and `Send` never returns.
`BothSidesEnd` makes exactly this exception (`StuckSending`).

**A sender nobody answers may not time out** (`timeout`). The comment at
`ErrTimeout` and SIGNALING.md promise a signaling timeout. The worker wipes the
session at the very expiry the client waits for, so the poll that would notice
the expiry may find the session gone, and the client then returns
session_not_found, a generic failure, instead (`worker.go` 166).

**A file that fails is never done** (`transfer`). The Event contract
(`transfer.go` 104-110) promises exactly one FileStart and one FileDone for each
accepted file. A file that cannot be opened, read, written or closed, that
changes its size, or whose transfer the peer ends, has a start and no done
(`transfer.go` 565-601, 911-956), nor has one that was kept and could not be
acknowledged (956); files the call did not come to have neither. Only a digest
that differs is reported as done with an error. `FrontEndTold` states what the
code does instead, and holds: for a file that changed its size, say, a call that
nobody has cancelled has reported exactly the start.

**The terminal UI offers a key it ignores** (`tui`). The screens that gather,
connect and transfer read "esc to cancel" (`model.go` 641, 663); Esc is handled
on other screens only (242-255). `SpinnerWaits` says what leaves these: the result
of a command that runs.

**The terminal UI crashes when a transfer starts** (`tui_crash`). `main` hands
Bubble Tea a copy of the model and stores the program in its own
(`cmd/jsi-tui/main.go` 17-18). The model that runs has none, and the goroutine
that is to pass the first transfer event on calls `Send` on nil. `model.go` 85
and the package comment say that events flow back through `p.Send`.

**A pasted blob takes other lines with it** (`stranded`). `cli.go` 191-193 says that
input is never stranded between the prompts' reader and the paste channel's. The
paste channel wraps the shared reader in a larger one for a single line
(`paste.go` 231); of a pipe, its Read may return several lines, and all but the
first are dropped with it. `TerminalKeepsLines` shows that a terminal, which
returns one line at a time, loses none this way.

## 8. Plan

What is left, in this order:

1. The browser's SP/1 client and connection set-up, in `Handshake` and `Conn`.
2. Name rules: pure operators against reference definitions over bounded inputs.
