----------------------------- MODULE Handshake -----------------------------
(***************************************************************************)
(* `jsi send` and `jsi receive` from their flags to their exit codes       *)
(* (cmd/jsi/internal/cli, internal/policy, internal/signal/paste.go and    *)
(* qr.go): the externals policy, the exchange of offer and answer over     *)
(* pasted blobs or over the worker (Rendezvous), the fallback from one to  *)
(* the other that each side makes on its own clock, the prompts, Ctrl-C,   *)
(* and whoever types at, or pipes into, each command's stdin.              *)
(*                                                                         *)
(* stdin is read through a bufio.Reader of the app by the prompts, and by  *)
(* a goroutine of the paste channel through one more reader around it,     *)
(* used for a single line and then dropped.  A line is what it contains:   *)
(* an offer or answer of this run, a stale one, a token, consent, or junk. *)
(* What a Read returns is chosen when it returns: unread input is no state.*)
(***************************************************************************)
EXTENDS Rendezvous, Sequences

CONSTANTS
  Calls,     \* the ways the two commands may be called
  MaxLines   \* bound of the lines each command's stdin holds

Cmds == {"send", "receive"}
Other(c) == IF c = "send" THEN "receive" ELSE "send"

\* --externals, --signal and --relay; receive's token and --yes; whether
\* stdin is a terminal or a pipe.
Flags == [choice : {"none", "fallback", "full"} \X {"", "paste", "qr", "worker"}
                     \X {"unset", "on", "off"},
          token : BOOLEAN, yes : BOOLEAN, terminal : BOOLEAN]

ASSUME HandshakeAssumption ==
  /\ Senders = {"send"} /\ Receivers = {"receive"}
  /\ Calls \subseteq [Cmds -> Flags]
  /\ \A call \in Calls : ~call["send"].token /\ ~call["send"].yes
  /\ MaxLines \in [Cmds -> Nat]

VARIABLES
  flags,        \* how each command was called
  stage,        \* what it is doing
  typed,        \* how many lines have been read from its stdin
  reader,       \* the paste channel's read: "none", "reading", "parked"
  held,         \* lines in the app's own reader
  lost,         \* how many lines have been read and dropped unseen
  screen,       \* what the users can copy
  got,          \* the peer's description: "none", "fresh" or "stale"
  opened,       \* the data channel has opened
  fate,         \* what became of the offered files
  interrupted,  \* Ctrl-C: the root context is done
  exit          \* exit code

hvars == <<flags, stage, typed, reader, held, lost, screen, got, opened,
           fate, interrupted, exit>>
stdin == <<typed, reader, held, lost>>
peers == <<screen, got, opened, fate>>

Running == -1
Stages == {"start", "ice", "offer", "wait", "worker", "connect", "transfer",
           "join", "prompt", "answer", "accept", "moving", "summary", "exited"}
Lines == {"offer", "answer", "stale", "token", "yes", "junk"}

HandshakeTypeOK ==
  /\ RendezvousTypeOK
  /\ stage \in [Cmds -> Stages]
  /\ held \in [Cmds -> Seq(Lines)]
  /\ typed \in [Cmds -> Nat] /\ lost \in [Cmds -> Nat]
  /\ \A c \in Cmds : typed[c] <= MaxLines[c]
  /\ interrupted \in [Cmds -> BOOLEAN]
  /\ reader \in [Cmds -> {"none", "reading", "parked"}]
  /\ screen \subseteq {"offer", "answer", "token"}
  /\ got \in [Cmds -> {"none", "fresh", "stale"}]
  /\ opened \in BOOLEAN
  /\ fate \in {"none", "accepted", "declined", "failed", "corrupt", "sent"}
  /\ exit \in [Cmds -> {Running, 0, 1, 2, 3, 4, 130}]

-----------------------------------------------------------------------------
(* Pure functions of the code.                                             *)

\* Mutant: the preset's escalation survives whatever it was combined with.
ResolvePolicyEager(preset, override, relay) ==
  [signal |-> IF override # "" THEN override
              ELSE IF preset = "full" THEN "worker" ELSE "paste",
   escalate |-> TRUE,
   fetchICE |-> preset # "none" \/ relay = "on"]

\* ResolvePolicy: the preset with its overrides.
ResolvePolicy(preset, override, relay) ==
  LET signal == IF override # "" THEN override
                ELSE IF preset = "full" THEN "worker" ELSE "paste" IN
    [signal |-> signal,
     escalate |-> preset = "fallback" /\ signal # "worker",
     fetchICE |-> preset # "none" \/ relay = "on"]

Policy(c) == LET f == flags[c].choice IN ResolvePolicy(f[1], f[2], f[3])
Offline(c) == Policy(c).signal # "worker"

\* Mutant: an interrupted run is reported by the error it happened to return.
ExitCodeByError(error, ctxDone) ==
  CASE error = "nil"                      -> 0
    [] error = "timeout"                  -> 2
    [] error \in {"rejected", "declined"} -> 3
    [] error = "hash-mismatch"            -> 4
    [] OTHER                              -> 1

ExitCode(error, ctxDone) ==
  CASE error = "nil"                      -> 0
    [] error # "nil" /\ ctxDone           -> 130
    [] error = "timeout" /\ ~ctxDone      -> 2
    [] error \in {"rejected", "declined"} /\ ~ctxDone -> 3
    [] error = "hash-mismatch" /\ ~ctxDone -> 4
    [] OTHER                              -> 1

HandshakeInit ==
  /\ RendezvousInit
  /\ flags \in Calls
  /\ stage = [c \in Cmds |-> "start"]
  /\ held = [c \in Cmds |-> <<>>]
  /\ typed = [c \in Cmds |-> 0] /\ lost = [c \in Cmds |-> 0]
  /\ interrupted = [c \in Cmds |-> FALSE]
  /\ reader = [c \in Cmds |-> "none"]
  /\ screen = {}
  /\ got = [c \in Cmds |-> "none"]
  /\ opened = FALSE /\ fate = "none"
  /\ exit = [c \in Cmds |-> Running]

-----------------------------------------------------------------------------
(* Building blocks.                                                        *)

GoOnTo(c, s) == stage' = [stage EXCEPT ![c] = s] /\ UNCHANGED exit

\* The command returns: deferred closes run, Main maps the error.
Return(c, error) ==
  /\ stage' = [stage EXCEPT ![c] = "exited"]
  /\ exit' = [exit EXCEPT ![c] = ExitCode(error, interrupted[c])]

\* Mutant: the receiver goes where --signal says, though qr joins as paste.
SignalingNamed(c) ==
  IF c = "send" THEN "offer"
  ELSE IF Policy(c).signal = "paste" THEN "join" ELSE Policy(c).signal

\* Where a command goes to exchange descriptions.
Signaling(c) == IF c = "send" THEN "offer"
                ELSE IF Offline(c) THEN "join" ELSE "worker"

-----------------------------------------------------------------------------
(* Setting up.                                                             *)

\* send and receive up to the first external contact.  A token is needed
\* for the worker and refused for paste.
Begin(c) ==
  /\ stage[c] = "start"
  /\ IF c = "receive" /\ \/ Policy(c).signal = "worker" /\ ~flags[c].token
                         \/ Policy(c).signal = "paste" /\ flags[c].token
     THEN Return(c, "other")
     ELSE GoOnTo(c, IF Policy(c).fetchICE THEN "ice" ELSE Signaling(c))
  /\ UNCHANGED <<rvars, flags, stdin, peers, interrupted>>

\* iceServers: GET /v1/ice answers or fails.
FetchICE(c) ==
  /\ stage[c] = "ice"
  /\ GoOnTo(c, Signaling(c)) \/ Return(c, "other")
  /\ UNCHANGED <<rvars, flags, stdin, peers, interrupted>>

\* peer.Offer gathers, for a limited time, or fails; senderHandshake then
\* asks the worker, or shows the blob (as QR frames as well) and starts to
\* read the answer.
MakeOffer ==
  /\ stage["send"] = "offer"
  /\ \/ /\ Offline("send")
        /\ screen' = screen \cup {"offer"}
        /\ reader' = [reader EXCEPT !["send"] = "reading"]
        /\ GoOnTo("send", "wait")
     \/ ~Offline("send") /\ GoOnTo("send", "worker") /\ UNCHANGED <<screen, reader>>
     \/ Return("send", "other") /\ UNCHANGED <<screen, reader>>
  /\ UNCHANGED <<rvars, flags, typed, held, lost, got, opened,
                 fate, interrupted>>

\* receiverOffer: the paste channel starts to read the offer.
JoinPaste ==
  /\ stage["receive"] = "join" /\ reader["receive"] = "none"
  /\ reader' = [reader EXCEPT !["receive"] = "reading"]
  /\ UNCHANGED <<rvars, flags, stage, typed, held, lost, peers,
                 interrupted, exit>>

-----------------------------------------------------------------------------
(* Reading stdin.                                                          *)

\* One Read returns a line of a terminal, or as many as a pipe holds, of
\* what the users can copy; or the end of the input.
Given(c) == (Lines \ {"offer", "answer", "token"}) \cup screen
AtMost(c, n) == IF flags[c].terminal /\ n > 1 THEN 1 ELSE n
Chunk(c) == 1..AtMost(c, MaxLines[c] - typed[c])
Typed(c, n) == typed' = [typed EXCEPT ![c] = @ + n]
NoMore(c) == typed' = [typed EXCEPT ![c] = IF flags[c].terminal THEN @ ELSE MaxLines[c]]

\* Mutant: escalation does not look at the context first.
OfflineFailsDeaf(c, error) ==
  IF Policy(c).escalate
  THEN GoOnTo(c, IF c = "send" THEN "worker" ELSE "prompt")
  ELSE Return(c, error)

\* senderHandshake and receiverOffer after the paste channel failed: out on
\* Ctrl-C, over to the worker under fallback, out otherwise.
OfflineFails(c, error) ==
  IF ~interrupted[c] /\ Policy(c).escalate
  THEN GoOnTo(c, IF c = "send" THEN "worker" ELSE "prompt")
  ELSE Return(c, error)

AtPaste(c) == stage[c] \in {"wait", "join"} /\ reader[c] = "reading"

\* The blob each side waits for; it can decode a stale one as well.
Wanted(c) == IF c = "send" THEN "answer" ELSE "offer"
TakeBlob(c, line) ==
  IF line \in {Wanted(c), "stale"}
  THEN /\ got' = [got EXCEPT ![c] = IF line = "stale" THEN "stale" ELSE "fresh"]
       /\ GoOnTo(c, IF c = "send" THEN "connect" ELSE "answer")
  ELSE OfflineFails(c, "other") /\ UNCHANGED got

\* Mutant: the reader made for one line fills its buffer first.
PasteReadGreedy(c) ==
  /\ AtPaste(c)
  /\ \E n \in 1..MaxLines[c] - typed[c], line \in Given(c) :
       /\ Typed(c, n)
       /\ lost' = [lost EXCEPT ![c] = @ + n - 1]
       /\ TakeBlob(c, line)
  /\ reader' = [reader EXCEPT ![c] = "none"]
  /\ UNCHANGED <<rvars, flags, held, screen, opened, fate, interrupted>>

\* readPayload reads through a reader of its own and keeps one line; what
\* the same Read returned beyond it goes with that reader.
PasteRead(c) ==
  /\ AtPaste(c)
  /\ \E n \in Chunk(c), line \in Given(c) :
       /\ Typed(c, n)
       /\ lost' = [lost EXCEPT ![c] = @ + n - 1]
       /\ TakeBlob(c, line)
  /\ reader' = [reader EXCEPT ![c] = "none"]
  /\ UNCHANGED <<rvars, flags, held, screen, opened, fate, interrupted>>

PasteEof(c) ==
  /\ AtPaste(c)
  /\ NoMore(c)
  /\ OfflineFails(c, "other")
  /\ reader' = [reader EXCEPT ![c] = "none"]
  /\ UNCHANGED <<rvars, flags, held, lost, peers, interrupted>>

\* Mutant: a paste that has timed out is left waiting.
PasteTimeoutWaits(c) ==
  /\ AtPaste(c)
  /\ reader' = [reader EXCEPT ![c] = "parked"]
  /\ UNCHANGED <<rvars, flags, stage, typed, held, lost, peers, interrupted, exit>>

\* policy.PasteTimeout, 120 seconds: the read stays behind.
PasteTimeout(c) ==
  /\ AtPaste(c)
  /\ OfflineFails(c, "timeout")
  /\ reader' = [reader EXCEPT ![c] = "parked"]
  /\ UNCHANGED <<rvars, flags, typed, held, lost, peers, interrupted>>

\* The read that stayed behind gets its input, and drops it.
ParkedRead(c) ==
  /\ reader[c] = "parked" /\ stage[c] # "exited"
  /\ \/ \E n \in Chunk(c) : Typed(c, n) /\ lost' = [lost EXCEPT ![c] = @ + n]
     \/ NoMore(c) /\ UNCHANGED lost
  /\ reader' = [reader EXCEPT ![c] = "none"]
  /\ UNCHANGED <<rvars, flags, stage, held, peers, interrupted, exit>>

\* app.readLine of the receiver: held lines first, then a Read, which comes
\* after the one that stayed behind; of what it returns, the rest is held.
Answers(line) ==
  LET c == "receive" IN
  \/ /\ held[c] # <<>> /\ line = Head(held[c])
     /\ held' = [held EXCEPT ![c] = Tail(@)]
     /\ UNCHANGED typed
  \/ /\ held[c] = <<>> /\ reader[c] # "parked"
     /\ line \in Given(c)
     /\ \E n \in Chunk(c) :
          /\ Typed(c, n)
          /\ \E rest \in [1..n-1 -> Given(c)] : held' = [held EXCEPT ![c] = rest]
NoAnswer == /\ held["receive"] = <<>> /\ reader["receive"] # "parked"
            /\ NoMore("receive") /\ UNCHANGED held

\* "enter the sender's token:".  What is no token fails in Worker.Join
\* before anything is sent.
TokenPrompt ==
  /\ stage["receive"] = "prompt"
  /\ \/ Answers("token") /\ GoOnTo("receive", "worker")
     \/ \E line \in Lines \ {"token"} : Answers(line) /\ Return("receive", "other")
     \/ NoAnswer /\ Return("receive", "other")
  /\ UNCHANGED <<rvars, flags, reader, lost, peers, interrupted>>

-----------------------------------------------------------------------------
(* Over the worker, with the steps of Rendezvous.                          *)

Worker(c, step) == step /\ stage[c] = "worker" /\ UNCHANGED hvars

\* senderWorker prints the token once the session exists.
ShowToken ==
  /\ stage["send"] = "worker"
  /\ Announced("send")
  /\ screen' = IF pc'["send"] = "poll" THEN screen \cup {"token"} ELSE screen
  /\ UNCHANGED <<flags, stage, stdin, got, opened, fate, interrupted, exit>>

\* senderWorker, or respond, returns.
WorkerEnds(c) ==
  /\ stage[c] = "worker" /\ pc[c] = "done"
  /\ IF result[c] = "ok"
     THEN GoOnTo(c, "connect") /\ got' = [got EXCEPT ![c] = "fresh"]
     ELSE /\ Return(c, IF result[c] = "timeout" THEN "timeout" ELSE "other")
          /\ UNCHANGED got
  /\ UNCHANGED <<rvars, flags, stdin, screen, opened, fate, interrupted>>

\* The worker carries on with what it was asked, whatever became of the
\* client.  The clock starts with the session: nothing before depends on it.
WorkerStep ==
  /\ \/ WorkForSender("send") \/ WorkForReceiver("receive")
     \/ \E t \in Tokens : Alarm(t)
     \/ Tick /\ pc["send"] # "start"
  /\ UNCHANGED hvars

-----------------------------------------------------------------------------
(* Connecting and transferring.                                            *)

\* peer.Answer for a pasted offer, then respond writes the blob.
MakeAnswer ==
  /\ stage["receive"] = "answer"
  /\ \/ GoOnTo("receive", "connect") /\ screen' = screen \cup {"answer"}
     \/ Return("receive", "other") /\ UNCHANGED screen
  /\ UNCHANGED <<rvars, flags, stdin, got, opened, fate, interrupted>>

\* ICE finds a path, if each has the other's description of this run.
Open ==
  /\ ~opened
  /\ \A c \in Cmds : stage[c] = "connect" /\ got[c] = "fresh"
  /\ opened' = TRUE
  /\ UNCHANGED <<rvars, flags, stage, stdin, screen, got, fate, interrupted, exit>>

\* WaitOpen returns on the open alone: not on a close, nor on a failure.
WaitOpen(c) ==
  /\ stage[c] = "connect" /\ opened
  /\ GoOnTo(c, IF c = "send" THEN "transfer" ELSE "accept")
  /\ UNCHANGED <<rvars, flags, stdin, peers, interrupted>>

\* makeDecide: --yes, or a line at "accept? [Y/n]"; a failing read rejects.
Accept ==
  /\ stage["receive"] = "accept" /\ stage["send"] \in {"transfer", "exited"}
  /\ \/ /\ \/ flags["receive"].yes /\ UNCHANGED <<held, typed>>
           \/ ~flags["receive"].yes /\ Answers("yes")
        /\ fate' = "accepted" /\ GoOnTo("receive", "moving")
     \/ /\ ~flags["receive"].yes
        /\ \E line \in Lines \ {"yes"} : Answers(line)
        /\ fate' = "declined" /\ Return("receive", "declined")
     \/ /\ ~flags["receive"].yes
        /\ NoAnswer
        /\ fate' = "failed" /\ Return("receive", "other")
  /\ UNCHANGED <<rvars, flags, reader, lost, screen, got, opened, interrupted>>

\* Send returns: what it may return is what Transfer shows of it.  It has
\* succeeded once it has sent done, which every ok ack precedes.
SendReturns ==
  /\ stage["send"] = "transfer"
  /\ \/ fate = "accepted" /\ fate' = "sent" /\ GoOnTo("send", "summary")
     \/ /\ \/ fate = "corrupt" /\ Return("send", "hash-mismatch")
           \/ fate \in {"declined", "failed"} /\ Return("send", "rejected")
           \/ Return("send", "other")
        /\ UNCHANGED fate
  /\ UNCHANGED <<rvars, flags, stdin, screen, got, opened, interrupted>>

\* sendSummary opens and hashes every file once more.  Its error is the
\* command's, although the transfer has succeeded; no context ends it.
SendSummary ==
  /\ stage["send"] = "summary"
  /\ Return("send", "nil") \/ Return("send", "other")
  /\ UNCHANGED <<rvars, flags, stdin, peers, interrupted>>

\* Receive returns: with success once it has read done, whatever jsi send
\* does after sending it; or after a file whose digest differs, which it
\* reports to Send.
ReceiveReturns ==
  /\ stage["receive"] = "moving"
  /\ \/ fate = "sent" /\ Return("receive", "nil") /\ UNCHANGED fate
     \/ fate = "accepted" /\ fate' = "corrupt" /\ Return("receive", "hash-mismatch")
     \/ Return("receive", "other") /\ UNCHANGED fate
  /\ UNCHANGED <<rvars, flags, stdin, screen, got, opened, interrupted>>

-----------------------------------------------------------------------------
(* Ctrl-C.                                                                 *)

Interrupt(c) ==
  /\ ~interrupted[c] /\ stage[c] # "exited"
  /\ interrupted' = [interrupted EXCEPT ![c] = TRUE]
  /\ UNCHANGED <<rvars, flags, stage, stdin, peers, exit>>

\* The context ends whatever takes it: requests, gathering, the paste
\* channel, WaitOpen, Send and Receive, but not the two prompts.
ContextEnds(c) ==
  /\ interrupted[c]
  /\ stage[c] \in {"ice", "offer", "wait", "join", "answer", "connect", "transfer", "moving"}
  /\ Return(c, "other")
  /\ UNCHANGED <<rvars, flags, stdin, peers, interrupted>>

\* A request fails, or the context ends it.
RequestFails(c) == GiveUp(c) /\ stage[c] = "worker" /\ UNCHANGED hvars

\* What needs a line is no step that has to happen.
SendStep == \/ MakeOffer \/ ShowToken \/ SendReturns \/ SendSummary
            \/ Worker("send", Announce("send"))
            \/ Worker("send", Poll("send") \/ Polled("send"))
ReceiveStep == \/ JoinPaste \/ MakeAnswer \/ ReceiveReturns
               \/ Worker("receive", Join("receive"))
               \/ Worker("receive", ReceiverRun("receive"))
EitherStep(c) == \/ Begin(c) \/ FetchICE(c) \/ PasteRead(c) \/ PasteEof(c)
                 \/ PasteTimeout(c) \/ WorkerEnds(c) \/ WaitOpen(c) \/ ContextEnds(c)
User(c) == ParkedRead(c) \/ Interrupt(c)

HandshakeNext ==
  \/ SendStep \/ ReceiveStep \/ TokenPrompt \/ Accept \/ WorkerStep \/ Open
  \/ \E c \in Cmds : EitherStep(c) \/ RequestFails(c) \/ User(c)

handshakeVars == <<rvars, hvars>>
HandshakeSpec == HandshakeInit /\ [][HandshakeNext]_handshakeVars

\* The goroutines, the worker and its clock run, timers go off, and the
\* context ends requests; no user has to do anything.
HandshakeFairSpec ==
  /\ HandshakeSpec
  /\ WF_handshakeVars(SendStep) /\ WF_handshakeVars(ReceiveStep)
  /\ \A c \in Cmds : /\ WF_handshakeVars(EitherStep(c))
                     /\ WF_handshakeVars(RequestFails(c) /\ interrupted[c])
  /\ WF_handshakeVars(WorkForSender("send") /\ UNCHANGED hvars)
  /\ WF_handshakeVars(WorkForReceiver("receive") /\ UNCHANGED hvars)
  /\ \A t \in Tokens : WF_handshakeVars(Alarm(t) /\ UNCHANGED hvars)
  /\ WF_handshakeVars(Tick /\ pc["send"] # "start" /\ UNCHANGED hvars)

-----------------------------------------------------------------------------
(* Properties.                                                             *)

\* `--externals none` means zero contact with the worker, however the paste
\* ends, unless --signal worker or --relay asked for it.
NoneStaysOffline ==
  \A c \in Cmds :
    flags[c].choice[1] = "none" /\ flags[c].choice[2] # "worker" /\ flags[c].choice[3] # "on"
      => pc[c] = "start" /\ stage[c] # "ice"

\* A terminal loses at most one line: the one typed for a paste that had
\* timed out.
TerminalKeepsLines ==
  \A c \in Cmds : flags[c].terminal /\ lost[c] # 0
    => lost[c] = 1 /\ stage[c] \notin {"join", "wait", "answer"}

\* What an exit code says of both ends is true.  Success of either command
\* leaves the other a success, or a failure of its own after the last file:
\* the summary of the sender, the wait for done of the receiver.  4 means that
\* a digest differed, 3 that the receiver's user refused or could not be
\* asked, 2 that the peer's description never came, and 130, rather than any
\* other code of failure, that the user pressed Ctrl-C.
ExitIsTrue ==
  \A c \in Cmds :
    /\ exit[c] = 0 => fate = "sent" /\ exit[Other(c)] \in {Running, 0, 1, 130}
    /\ exit[c] = 4 => fate = "corrupt" /\ exit[Other(c)] \notin {0, 2, 3}
    /\ exit[c] = 3 => /\ fate = "declined" \/ (c = "send" /\ fate = "failed")
                      /\ exit[Other(c)] \notin {0, 2, 4}
    /\ exit[c] = 2 => got[c] = "none" /\ exit[Other(c)] \notin {0, 3, 4}
    /\ exit[c] # Running => (exit[c] = 130 <=> interrupted[c] /\ exit[c] # 0)

\* Ctrl-C ends a command, whatever it is doing and however it would have
\* gone on, unless it waits for a line at the token prompt or comes to wait
\* for one at the accept prompt: nothing but input ends these.
CtrlCEnds ==
  \A c \in Cmds :
    interrupted[c] /\ stage[c] # "prompt" ~> stage[c] \in {"exited", "accept"}

\* A sender in search of an answer stops searching: it connects or ends,
\* whatever its user and the receiver do.
SearchEnds ==
  stage["send"] \in {"wait", "worker"} ~> stage["send"] \in {"connect", "exited"}

\* cli.go on app.readLine: "buffered input is never stranded between the two
\* readers".  A blob that was pasted in time takes no other line with it.
NothingStranded ==
  \A c \in Cmds : got[c] = "fresh" /\ pc[c] = "start" => lost[c] = 0
=============================================================================
