-------------------------------- MODULE Tui --------------------------------
(***************************************************************************)
(* The terminal UI (cmd/jsi-tui): Update handles one key or one result of  *)
(* an asynchronous command at a time; commands run in goroutines and their *)
(* results arrive in any order, whatever the user did meanwhile.  Nothing  *)
(* ties a result to the attempt that asked for it.                         *)
(*                                                                         *)
(* A connection is a number, in order of creation; 0 is nil.  An offer is  *)
(* named after the connection it was made for.                             *)
(***************************************************************************)
EXTENDS Integers, FiniteSets, Bags

CONSTANT MaxAttempts  \* bound on the attempts to send or receive

ASSUME TuiAssumption == MaxAttempts \in Nat \ {0}

VARIABLES
  screen,     \* Model.state
  mode,       \* the signaling axis the settings resolve to
  conn,       \* Model.conn
  waiting,    \* Model.wait is set, and with it Model.token
  respond,    \* Model.respond is set
  cmds,       \* the bag of commands that are running
  made,       \* connections created so far
  opened,     \* of these, the ones whose channel has opened
  closed,     \* and the ones Esc has closed
  attempts,   \* attempts begun so far
  pumps,      \* transfers whose first event has not been passed on yet
  abandoned,  \* the user has moved on while a command was running
  fate        \* of the program: "running", "quit" or "crashed"

tuiVars == <<screen, mode, conn, waiting, respond, cmds, made, opened, closed,
             attempts, pumps, abandoned, fate>>

Screens == {"home", "settings", "help",
            "send:pick", "send:gather-offer", "send:show-offer", "send:connect",
            "send:transfer", "send:done", "send:error",
            "recv:input", "recv:gather-answer", "recv:show-answer",
            "recv:connect", "recv:transfer", "recv:done", "recv:error"}

Kinds == {"offer", "announce", "wait", "connect", "send",
          "join", "answer", "respond", "open", "receive"}
Conns == 0..MaxAttempts

\* A command: what it does, with which connection, about whose offer.
Cmd == [kind : Kinds, on : Conns, of : Conns]
Command(kind, on, of) == [kind |-> kind, on |-> on, of |-> of]

\* QR signaling differs from paste signaling in what is drawn only.
Modes == {"offline", "worker"}

\* The commands that are running; and each as many times as it is.
Running   == BagToSet(cmds)
Instances == UNION {{c} \X (1..cmds[c]) : c \in Running}

\* Types; and commands do not accumulate: an attempt runs one, or two when an
\* answer was pasted while its offer was being announced.
TuiTypeOK ==
  /\ screen \in Screens /\ mode \in Modes
  /\ conn \in Conns
  /\ waiting \in BOOLEAN /\ respond \in BOOLEAN /\ abandoned \in BOOLEAN
  /\ IsABag(cmds) /\ BagToSet(cmds) \subseteq Cmd
  /\ Cardinality(Instances) <= 2 * attempts
  /\ made \in Conns /\ opened \in SUBSET (1..made) /\ closed \in SUBSET (1..made)
  /\ attempts \in 0..MaxAttempts
  /\ pumps \in 0..2 * attempts
  /\ fate \in {"running", "quit", "crashed"}

TuiInit ==
  /\ screen = "home" /\ mode = "offline"
  /\ conn = 0 /\ waiting = FALSE /\ respond = FALSE
  /\ cmds = EmptyBag
  /\ made = 0 /\ opened = {} /\ closed = {}
  /\ attempts = 0 /\ pumps = 0
  /\ abandoned = FALSE
  /\ fate = "running"

-----------------------------------------------------------------------------
(* Building blocks.                                                        *)

Show(s)           == screen' = s
Start(c)          == cmds' = cmds (+) SetToBag({c})
End(c)            == cmds' = cmds (-) SetToBag({c})
EndStart(c, next) == cmds' = (cmds (-) SetToBag({c})) (+) SetToBag({next})

\* A result is handled: of a command of this kind that has been running.
Result(c, kind) == fate = "running" /\ c.kind = kind /\ c \in Running
Key(s)          == fate = "running" /\ screen = s

SameSettings == UNCHANGED <<mode, abandoned, attempts>>
SameConns    == UNCHANGED <<conn, made, opened, closed>>

\* A connection made for the attempt.
NewConn == /\ made < MaxAttempts
           /\ made' = made + 1
           /\ conn' = made + 1
           /\ UNCHANGED <<opened, closed>>

-----------------------------------------------------------------------------
(* Keys.                                                                   *)

\* Home, settings and help.
Navigate ==
  /\ \/ /\ Key("home")
        /\ screen' \in {"send:pick", "recv:input", "settings", "help"}
        /\ UNCHANGED mode
     \/ /\ Key("settings")
        /\ mode' \in Modes \ {mode}
        /\ UNCHANGED screen
  /\ SameConns
  /\ UNCHANGED <<waiting, respond, cmds, attempts, pumps, abandoned, fate>>

\* Esc: back, from an attempt with its connection closed but not forgotten;
\* ignored on every other screen.
Esc ==
  /\ \/ /\ Key("settings") \/ Key("help")
        /\ UNCHANGED closed
     \/ /\ \E s \in {"send:pick", "send:show-offer", "recv:input", "recv:show-answer"} : Key(s)
        /\ closed' = closed \cup ({conn} \ {0})
  /\ Show("home")
  /\ abandoned' = (abandoned \/ Running # {})
  /\ UNCHANGED <<mode, conn, made, opened, waiting, respond, cmds, attempts, pumps, fate>>

\* Enter on a path: the files exist, or not.
PickFile ==
  /\ Key("send:pick")
  /\ \/ /\ attempts < MaxAttempts
        /\ attempts' = attempts + 1
        /\ Show("send:gather-offer")
        /\ Start(Command("offer", 0, 0))
     \/ Show("send:error") /\ UNCHANGED <<attempts, cmds>>
  /\ SameConns
  /\ UNCHANGED <<mode, waiting, respond, pumps, abandoned, fate>>

\* Mutant: Enter is taken although the worker's answer is awaited.
PasteAnswerAlways ==
  /\ Key("send:show-offer")
  /\ Show("send:connect")
  /\ Start(Command("connect", conn, conn))
  /\ abandoned' = (abandoned \/ \E c \in Running : c.kind = "announce")
  /\ SameConns
  /\ UNCHANGED <<mode, attempts, waiting, respond, pumps, fate>>

\* Enter on the receiver's answer, unless the worker's is awaited; while the
\* offer is being announced nothing is awaited yet.
PasteAnswer ==
  /\ Key("send:show-offer")
  /\ ~waiting
  /\ Show("send:connect")
  /\ Start(Command("connect", conn, conn))
  /\ abandoned' = (abandoned \/ \E c \in Running : c.kind = "announce")
  /\ SameConns
  /\ UNCHANGED <<mode, attempts, waiting, respond, pumps, fate>>

\* Enter on a token, on the sender's offer, or on something that is none.
EnterOffer ==
  /\ Key("recv:input")
  /\ \/ /\ attempts < MaxAttempts
        /\ attempts' = attempts + 1
        /\ Show("recv:gather-answer")
        /\ Start(Command(IF mode = "worker" THEN "join" ELSE "answer", 0, 0))
     \/ /\ mode = "offline"
        /\ Show("recv:error") /\ UNCHANGED <<attempts, cmds>>
  /\ SameConns
  /\ UNCHANGED <<mode, waiting, respond, pumps, abandoned, fate>>

AnswerHandedOver ==
  /\ Key("recv:show-answer")
  /\ Show("recv:connect")
  /\ Start(Command("open", conn, 0))
  /\ SameSettings /\ SameConns
  /\ UNCHANGED <<waiting, respond, pumps, fate>>

\* q where it is offered, Ctrl-C everywhere.
Quit ==
  /\ fate = "running" /\ fate' = "quit"
  /\ UNCHANGED <<screen, mode, conn, waiting, respond, cmds, made, opened, closed,
                 attempts, pumps, abandoned>>

-----------------------------------------------------------------------------
(* Results.                                                                *)

\* A command failed: its error is shown on screen s.
Fails(c, s) == Show(s) /\ End(c) /\ SameConns /\ UNCHANGED <<waiting, respond, pumps, fate>>

\* onOfferCreated
OfferCreated(c) ==
  /\ Result(c, "offer")
  /\ \/ Fails(c, "send:error")
     \/ /\ NewConn
        /\ Show("send:show-offer")
        /\ IF mode = "worker" THEN EndStart(c, Command("announce", 0, conn')) ELSE End(c)
        /\ UNCHANGED <<waiting, respond, pumps, fate>>
  /\ SameSettings

AnnounceResult(c) ==
  /\ Result(c, "announce")
  /\ \/ Fails(c, "send:error")
     \/ /\ waiting' = TRUE
        /\ Show("send:show-offer")
        /\ EndStart(c, Command("wait", 0, c.of))
        /\ SameConns
        /\ UNCHANGED <<respond, pumps, fate>>
  /\ SameSettings

\* Mutant: polling goes on after the answer.
AnswerReadyPollsOn(c) ==
  /\ Result(c, "wait")
  /\ \/ Fails(c, "send:error")
     \/ /\ Show("send:connect")
        /\ Start(Command("connect", conn, c.of))
        /\ SameConns
        /\ UNCHANGED <<waiting, respond, pumps, fate>>
  /\ SameSettings

AnswerReady(c) ==
  /\ Result(c, "wait")
  /\ \/ Fails(c, "send:error")
     \/ /\ Show("send:connect")
        /\ EndStart(c, Command("connect", conn, c.of))
        /\ SameConns
        /\ UNCHANGED <<waiting, respond, pumps, fate>>
  /\ SameSettings

\* Mutant: the offer is stored and nobody answers it.
JoinResultStops(c) ==
  /\ Result(c, "join")
  /\ \/ Fails(c, "recv:error")
     \/ /\ respond' = TRUE
        /\ End(c)
        /\ SameConns
        /\ UNCHANGED <<screen, waiting, pumps, fate>>
  /\ SameSettings

JoinResult(c) ==
  /\ Result(c, "join")
  /\ \/ Fails(c, "recv:error")
     \/ /\ respond' = TRUE
        /\ EndStart(c, Command("answer", 0, 0))
        /\ SameConns
        /\ UNCHANGED <<screen, waiting, pumps, fate>>
  /\ SameSettings

\* onAnswerCreated.  The command that calls a respond nobody set panics.
AnswerCreated(c) ==
  /\ Result(c, "answer")
  /\ \/ Fails(c, "recv:error")
     \/ /\ NewConn
        /\ \/ /\ mode = "offline"
              /\ Show("recv:show-answer") /\ End(c) /\ UNCHANGED fate
           \/ /\ mode = "worker"
              /\ UNCHANGED screen
              /\ IF respond THEN EndStart(c, Command("respond", conn', 0)) /\ UNCHANGED fate
                            ELSE End(c) /\ fate' = "crashed"
        /\ UNCHANGED <<waiting, respond, pumps>>
  /\ SameSettings

\* Mutant: the next command is not returned.
RespondResultStops(c) ==
  /\ Result(c, "respond")
  /\ \/ Fails(c, "recv:error")
     \/ /\ Show("recv:connect")
        /\ End(c)
        /\ SameConns
        /\ UNCHANGED <<waiting, respond, pumps, fate>>
  /\ SameSettings

RespondResult(c) ==
  /\ Result(c, "respond")
  /\ \/ Fails(c, "recv:error")
     \/ /\ Show("recv:connect")
        /\ EndStart(c, Command("open", conn, 0))
        /\ SameConns
        /\ UNCHANGED <<waiting, respond, pumps, fate>>
  /\ SameSettings

\* The channel opens, for an answer to the connection's own offer only, or
\* the connection fails.  The transfer that starts is the one the screen
\* suggests, on the connection the model holds by then.
ConnectResult(c) ==
  /\ Result(c, "connect") \/ Result(c, "open")
  /\ \/ Fails(c, IF screen = "send:connect" THEN "send:error" ELSE "recv:error")
     \/ /\ c.on \notin closed
        /\ c.kind = "connect" => c.of = c.on
        /\ opened' = opened \cup {c.on}
        /\ LET sending == screen = "send:connect" IN
             /\ Show(IF sending THEN "send:transfer" ELSE "recv:transfer")
             /\ EndStart(c, Command(IF sending THEN "send" ELSE "receive", conn, 0))
        /\ pumps' = pumps + 1
        /\ UNCHANGED <<conn, made, closed, waiting, respond, fate>>
  /\ SameSettings

\* The transfer is over, well or not: its screen says so.
TransferDone(c) ==
  /\ Result(c, "send") \/ Result(c, "receive")
  /\ Show(IF screen = "send:transfer" THEN "send:done" ELSE "recv:done")
  /\ End(c)
  /\ SameSettings /\ SameConns
  /\ UNCHANGED <<waiting, respond, pumps, fate>>

\* The goroutine that passes transfer events on has one.  main calls
\* SetProgram on its own copy of the model after NewProgram has taken
\* another: the program it sends to is nil, and it panics.
FirstEvent ==
  /\ fate = "running" /\ pumps > 0
  /\ fate' = "crashed"
  /\ UNCHANGED <<screen, mode, conn, waiting, respond, cmds, made, opened, closed,
                 attempts, pumps, abandoned>>

Keys == \/ Navigate \/ Esc \/ PickFile \/ PasteAnswer
        \/ EnterOffer \/ AnswerHandedOver \/ Quit

Gathered(c) == OfferCreated(c) \/ JoinResult(c) \/ AnswerCreated(c) \/ RespondResult(c)

TuiNext ==
  \/ Keys
  \/ \E c \in Running : \/ Gathered(c) \/ AnnounceResult(c) \/ AnswerReady(c)
                        \/ ConnectResult(c) \/ TransferDone(c)
  \/ FirstEvent

TuiSpec == TuiInit /\ [][TuiNext]_tuiVars

\* Gathering is bounded by a timeout, and requests to the worker are
\* answered.  Nothing bounds a connection attempt, the wait for the other
\* party or a transfer.
TuiFairSpec == /\ TuiSpec
               /\ \A c \in Cmd : WF_tuiVars(Gathered(c))

-----------------------------------------------------------------------------
(* Properties.                                                             *)

\* The commands that each waiting screen is left by.
Leaves(s) ==
  CASE s = "send:gather-offer"  -> {"offer"}
    [] s = "send:connect"       -> {"connect"}
    [] s = "send:transfer"      -> {"send"}
    [] s = "recv:gather-answer" -> {"join", "answer", "respond"}
    [] s = "recv:connect"       -> {"open"}
    [] s = "recv:transfer"      -> {"receive"}
    [] OTHER                    -> {}

\* However stale results have moved it about, a screen that waits for a
\* command has one running that will leave it.  No key but Ctrl-C does:
\* these screens read "esc to cancel" (model.go 641, 663), but updateKey does
\* not handle Esc on them.
SpinnerWaits ==
  Leaves(screen) # {} => \E c \in Running : c.kind \in Leaves(screen)

\* As long as the user has not moved on from a running command, at most one
\* command runs, the one the screen waits for; an answer is applied to the
\* connection whose offer it answers, and a transfer starts on a connection
\* that is open.
InStep ==
  ~abandoned =>
    \A c \in Running :
      /\ \A d \in Running : d = c
      /\ cmds[c] = 1
      /\ \/ c.kind \in Leaves(screen)
         \/ c.kind \in {"announce", "wait"} /\ screen = "send:show-offer"
      /\ c.kind = "connect" => c.on = c.of
      /\ c.kind \in {"send", "receive"} => c.on \in opened

\* Gathering, which no key interrupts either, ends.
GatheringEnds ==
  \A s \in {"send:gather-offer", "recv:gather-answer"} :
    (screen = s /\ fate = "running") ~> (screen # s \/ fate # "running")

\* The package comment: the transfer runs in a goroutine and its status
\* flows back through p.Send.
NeverCrashes == fate # "crashed"
=============================================================================
