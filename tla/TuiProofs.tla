------------------------------- MODULE TuiProofs -------------------------------
(***************************************************************************)
(* Proofs about Tui, for any number of attempts: the commands that run are *)
(* those the screen waits for, a screen never waits for none, and no       *)
(* attempt leaves more than two behind.                                    *)
(***************************************************************************)
EXTENDS Tui, FiniteSetTheorems, TLAPS

-----------------------------------------------------------------------------
(* The bag of commands.                                                    *)

\* A command starts.
LEMMA StartRunning ==
  ASSUME IsABag(cmds), NEW c, Start(c)
  PROVE  IsABag(cmds') /\ Running' = Running \cup {c}
BY DEF Start, Running, IsABag, BagToSet, SetToBag, \oplus

\* A command ends; another one like it may still run.
LEMMA EndRunning ==
  ASSUME IsABag(cmds), NEW c, End(c)
  PROVE  /\ IsABag(cmds')
         /\ Running \ {c} \subseteq Running' /\ Running' \subseteq Running
BY DEF End, Running, IsABag, BagToSet, SetToBag, \ominus

\* A command ends and is followed by the next.
LEMMA EndStartRunning ==
  ASSUME IsABag(cmds), NEW c, NEW next, EndStart(c, next)
  PROVE  IsABag(cmds') /\ (Running \ {c}) \cup {next} \subseteq Running'
<1> DEFINE B == cmds (-) SetToBag({c})
<1>1. IsABag(B) /\ BagToSet(cmds) \ {c} \subseteq BagToSet(B)
  BY DEF IsABag, BagToSet, SetToBag, \ominus
<1>2. cmds' = B (+) SetToBag({next})
  BY DEF EndStart
<1> HIDE DEF B
<1>3. IsABag(cmds') /\ BagToSet(cmds') = BagToSet(B) \cup {next}
  BY <1>1, <1>2 DEF IsABag, BagToSet, SetToBag, \oplus
<1> QED BY <1>1, <1>3 DEF Running

\* No command runs; this one only.
Idle     == cmds = EmptyBag
Alone(c) == cmds = SetToBag({c})

\* What runs then.
LEMMA WhoRuns ==
  /\ Idle => Running = {}
  /\ \A c : Alone(c) => Running = {c} /\ cmds[c] = 1
BY DEF Idle, Alone, Running, EmptyBag, SetToBag, BagToSet

\* A command starts when none runs.
LEMMA StartIdle ==
  ASSUME NEW c, Idle, Start(c)
  PROVE  Alone(c)'
BY DEF Idle, Alone, Start, EmptyBag, SetToBag, \oplus

\* The only command ends.
LEMMA EndAlone ==
  ASSUME NEW c, Alone(c), End(c)
  PROVE  Idle'
BY DEF Idle, Alone, End, EmptyBag, SetToBag, \ominus

\* The only command is followed by the next.
LEMMA EndStartAlone ==
  ASSUME NEW c, NEW next, Alone(c), EndStart(c, next)
  PROVE  Alone(next)'
<1>1. SetToBag({c}) (-) SetToBag({c}) = EmptyBag
  BY DEF EmptyBag, SetToBag, \ominus
<1>2. EmptyBag (+) SetToBag({next}) = SetToBag({next})
  BY DEF EmptyBag, SetToBag, \oplus
<1> QED BY <1>1, <1>2 DEF Alone, EndStart

-----------------------------------------------------------------------------
(* The spinner.                                                            *)

\* Inductive: a receiver that gathers in worker mode before any respond is
\* set is still being joined, so that the answer to come has one to call.
Spinner ==
  /\ IsABag(cmds)
  /\ mode \in Modes
  /\ SpinnerWaits
  /\ screen = "recv:gather-answer" /\ mode = "worker" /\ ~respond =>
       \E c \in Running : c.kind = "join"

\* No key leaves a screen that waits, and one that leads to it starts what
\* it waits for.
LEMMA SpinnerKeys ==
  ASSUME Spinner, Keys
  PROVE  Spinner'
<1> USE DEF Spinner, SpinnerWaits, Leaves, Key, Show, SameSettings, SameConns, Command
<1>1. CASE Navigate
  BY <1>1 DEF Navigate, Running, Modes
<1>2. CASE Esc
  BY <1>2 DEF Esc, Running
<1>3. CASE PickFile
  <2>1. CASE Start(Command("offer", 0, 0)) /\ screen' = "send:gather-offer"
    BY <1>3, <2>1, StartRunning DEF PickFile
  <2>2. CASE screen' = "send:error" /\ UNCHANGED cmds
    BY <1>3, <2>2 DEF PickFile, Running
  <2> QED BY <1>3, <2>1, <2>2 DEF PickFile
<1>4. CASE PasteAnswer
  BY <1>4, StartRunning DEF PasteAnswer
<1>5. CASE EnterOffer
  <2>1. CASE /\ Start(Command(IF mode = "worker" THEN "join" ELSE "answer", 0, 0))
             /\ screen' = "recv:gather-answer"
    BY <1>5, <2>1, StartRunning DEF EnterOffer
  <2>2. CASE screen' = "recv:error" /\ UNCHANGED cmds
    BY <1>5, <2>2 DEF EnterOffer, Running
  <2> QED BY <1>5, <2>1, <2>2 DEF EnterOffer
<1>6. CASE AnswerHandedOver
  BY <1>6, StartRunning DEF AnswerHandedOver
<1>7. CASE Quit
  BY <1>7 DEF Quit, Running
<1> QED BY <1>1, <1>2, <1>3, <1>4, <1>5, <1>6, <1>7 DEF Keys

\* A failure leads to a screen that waits for nothing.
LEMMA SpinnerFails ==
  ASSUME Spinner, SameSettings, NEW c, NEW s \in {"send:error", "recv:error"}, Fails(c, s)
  PROVE  Spinner'
BY EndRunning DEF Spinner, SpinnerWaits, Leaves, Fails, Show, SameSettings

\* A result, stale or not, leads to a screen whose command it starts, or
\* leaves the screen with the next command it waits for.
LEMMA SpinnerResults ==
  ASSUME Spinner, NEW c \in Running,
         \/ Gathered(c) \/ AnnounceResult(c) \/ AnswerReady(c)
         \/ ConnectResult(c) \/ TransferDone(c)
  PROVE  Spinner'
<1> USE DEF Spinner, SpinnerWaits, Leaves, Show, SameSettings, SameConns, Command, Result
<1>1. CASE OfferCreated(c)
  <2>1. CASE Fails(c, "send:error")
    BY <1>1, <2>1, SpinnerFails DEF OfferCreated
  <2>2. CASE /\ screen' = "send:show-offer" /\ UNCHANGED respond
             /\ EndStart(c, Command("announce", 0, conn'))
    BY <1>1, <2>2, EndStartRunning DEF OfferCreated
  <2>3. CASE screen' = "send:show-offer" /\ UNCHANGED respond /\ End(c)
    BY <1>1, <2>3, EndRunning DEF OfferCreated
  <2> QED BY <1>1, <2>1, <2>2, <2>3 DEF OfferCreated
<1>2. CASE AnnounceResult(c)
  <2>1. CASE Fails(c, "send:error")
    BY <1>2, <2>1, SpinnerFails DEF AnnounceResult
  <2>2. CASE screen' = "send:show-offer" /\ EndStart(c, Command("wait", 0, c.of))
    BY <1>2, <2>2, EndStartRunning DEF AnnounceResult
  <2> QED BY <1>2, <2>1, <2>2 DEF AnnounceResult
<1>3. CASE AnswerReady(c)
  <2>1. CASE Fails(c, "send:error")
    BY <1>3, <2>1, SpinnerFails DEF AnswerReady
  <2>2. CASE screen' = "send:connect" /\ EndStart(c, Command("connect", conn, c.of))
    BY <1>3, <2>2, EndStartRunning DEF AnswerReady
  <2> QED BY <1>3, <2>1, <2>2 DEF AnswerReady
<1>4. CASE JoinResult(c)
  <2>1. CASE Fails(c, "recv:error")
    BY <1>4, <2>1, SpinnerFails DEF JoinResult
  <2>2. CASE respond' = TRUE /\ EndStart(c, Command("answer", 0, 0)) /\ UNCHANGED screen
    BY <1>4, <2>2, EndStartRunning DEF JoinResult
  <2> QED BY <1>4, <2>1, <2>2 DEF JoinResult
<1>5. CASE AnswerCreated(c)
  <2>1. CASE Fails(c, "recv:error")
    BY <1>5, <2>1, SpinnerFails DEF AnswerCreated
  <2>2. CASE screen' = "recv:show-answer" /\ End(c) /\ UNCHANGED respond
    BY <1>5, <2>2, EndRunning DEF AnswerCreated
  <2>3. CASE /\ mode = "worker" /\ respond /\ UNCHANGED <<screen, respond>>
             /\ EndStart(c, Command("respond", conn', 0))
    BY <1>5, <2>3, EndStartRunning DEF AnswerCreated
  <2>4. CASE mode = "worker" /\ ~respond /\ UNCHANGED <<screen, respond>> /\ End(c)
    BY <1>5, <2>4, EndRunning DEF AnswerCreated
  <2> QED BY <1>5, <2>1, <2>2, <2>3, <2>4 DEF AnswerCreated
<1>6. CASE RespondResult(c)
  <2>1. CASE Fails(c, "recv:error")
    BY <1>6, <2>1, SpinnerFails DEF RespondResult
  <2>2. CASE screen' = "recv:connect" /\ EndStart(c, Command("open", conn, 0))
    BY <1>6, <2>2, EndStartRunning DEF RespondResult
  <2> QED BY <1>6, <2>1, <2>2 DEF RespondResult
<1>7. CASE ConnectResult(c)
  <2>1. CASE Fails(c, "send:error") \/ Fails(c, "recv:error")
    BY <1>7, <2>1, SpinnerFails DEF ConnectResult
  <2>2. CASE screen' = "send:transfer" /\ EndStart(c, Command("send", conn, 0))
    BY <1>7, <2>2, EndStartRunning DEF ConnectResult
  <2>3. CASE screen' = "recv:transfer" /\ EndStart(c, Command("receive", conn, 0))
    BY <1>7, <2>3, EndStartRunning DEF ConnectResult
  <2> QED BY <1>7, <2>1, <2>2, <2>3 DEF ConnectResult
<1>8. CASE TransferDone(c)
  BY <1>8, EndRunning DEF TransferDone
<1> QED BY <1>1, <1>2, <1>3, <1>4, <1>5, <1>6, <1>7, <1>8 DEF Gathered

\* A screen that waits, and that no key leaves, waits for a command that
\* runs: no spinner of Update's turns for ever for nothing.
THEOREM SpinnerNeverStranded == TuiSpec => []SpinnerWaits
<1>1. TuiInit => Spinner
  BY DEF TuiInit, Spinner, SpinnerWaits, Leaves, Modes, EmptyBag, SetToBag, IsABag
<1>2. Spinner /\ [TuiNext]_tuiVars => Spinner'
  <2>1. Spinner /\ FirstEvent => Spinner'
    BY DEF FirstEvent, Spinner, SpinnerWaits, Running, Leaves
  <2>2. Spinner /\ UNCHANGED tuiVars => Spinner'
    BY DEF tuiVars, Spinner, SpinnerWaits, Running, Leaves
  <2> QED BY <2>1, <2>2, SpinnerKeys, SpinnerResults DEF TuiNext
<1>3. Spinner => SpinnerWaits
  BY DEF Spinner
<1> QED BY <1>1, <1>2, <1>3, PTL DEF TuiSpec

-----------------------------------------------------------------------------
(* Keeping in step.                                                        *)

\* The one command that runs is what the screen says, and about the
\* connection the model holds.
Fits(c) ==
  /\ \/ c.kind \in Leaves(screen)
     \/ c.kind \in {"announce", "wait"} /\ screen = "send:show-offer"
  /\ c.kind = "wait" => waiting
  /\ c.kind \in {"connect", "respond", "open"} => c.on = conn
  /\ c.kind \in {"announce", "wait", "connect"} => c.of = conn
  /\ c.kind \in {"send", "receive"} => c.on \in opened

\* Inductive: as long as the user has not moved on from a running command.
Steady == ~abandoned => Idle \/ \E c : Alone(c) /\ Fits(c)

\* A key that starts a command is offered where none runs.
LEMMA SteadyKeys ==
  ASSUME Steady, Keys
  PROVE  Steady'
<1> USE DEF Steady, Key, Show, SameSettings, SameConns
<1> SUFFICES ASSUME ~abandoned' PROVE Idle' \/ \E c : Alone(c)' /\ Fits(c)'
  OBVIOUS
<1>0. ~abandoned => Idle \/ \E c : Alone(c) /\ Fits(c) /\ Running = {c}
  BY WhoRuns
<1>1. CASE Navigate
  BY <1>0, <1>1 DEF Navigate, Idle, Fits, Leaves
<1>2. CASE Esc
  BY <1>0, <1>2 DEF Esc, Idle
<1>3. CASE PickFile
  <2>1. Idle
    BY <1>0, <1>3 DEF PickFile, Fits, Leaves
  <2>2. CASE Start(Command("offer", 0, 0)) /\ screen' = "send:gather-offer"
    BY <2>1, <2>2, StartIdle DEF Fits, Leaves, Command
  <2>3. CASE UNCHANGED cmds
    BY <2>1, <2>3 DEF Idle
  <2> QED BY <1>3, <2>2, <2>3 DEF PickFile
<1>4. CASE PasteAnswer
  <2>1. Idle
    BY <1>0, <1>4 DEF PasteAnswer, Fits, Leaves
  <2> QED BY <1>4, <2>1, StartIdle DEF PasteAnswer, Fits, Leaves, Command
<1>5. CASE EnterOffer
  <2>1. Idle
    BY <1>0, <1>5 DEF EnterOffer, Fits, Leaves
  <2>2. CASE /\ Start(Command(IF mode = "worker" THEN "join" ELSE "answer", 0, 0))
             /\ screen' = "recv:gather-answer"
    BY <2>1, <2>2, StartIdle DEF Fits, Leaves, Command
  <2>3. CASE UNCHANGED cmds
    BY <2>1, <2>3 DEF Idle
  <2> QED BY <1>5, <2>2, <2>3 DEF EnterOffer
<1>6. CASE AnswerHandedOver
  <2>1. Idle
    BY <1>0, <1>6 DEF AnswerHandedOver, Fits, Leaves
  <2> QED BY <1>6, <2>1, StartIdle DEF AnswerHandedOver, Fits, Leaves, Command
<1>7. CASE Quit
  BY <1>7 DEF Quit, Idle, Alone, Fits, Leaves
<1> QED BY <1>1, <1>2, <1>3, <1>4, <1>5, <1>6, <1>7 DEF Keys

\* The result is that of the one command, and starts the next at most.
LEMMA SteadyResults ==
  ASSUME Steady, NEW c \in Running,
         \/ Gathered(c) \/ AnnounceResult(c) \/ AnswerReady(c)
         \/ ConnectResult(c) \/ TransferDone(c)
  PROVE  Steady'
<1> USE DEF Show, SameSettings, SameConns, Result
<1> SUFFICES ASSUME ~abandoned' PROVE Idle' \/ \E d : Alone(d)' /\ Fits(d)'
  BY DEF Steady
<1>0. Alone(c) /\ Fits(c)
  <2>1. ~abandoned
    BY DEF Gathered, OfferCreated, JoinResult, AnswerCreated, RespondResult, AnnounceResult,
           AnswerReady, ConnectResult, TransferDone
  <2> QED BY <2>1, WhoRuns DEF Steady
<1>a. End(c) => Idle'
  BY <1>0, EndAlone
<1>b. \A next : EndStart(c, next) => Alone(next)'
  BY <1>0, EndStartAlone
<1>1. CASE OfferCreated(c)
  BY <1>1, <1>a, <1>b DEF OfferCreated, Fails, Fits, Command
<1>2. CASE AnnounceResult(c)
  BY <1>0, <1>2, <1>a, <1>b DEF AnnounceResult, Fails, Fits, Command
<1>3. CASE AnswerReady(c)
  <2>1. CASE Fails(c, "send:error")
    BY <2>1, <1>a DEF Fails
  <2>2. CASE screen' = "send:connect" /\ EndStart(c, Command("connect", conn, c.of))
    <3> DEFINE d == Command("connect", conn, c.of)
    <3>1. c.of = conn /\ UNCHANGED conn
      BY <1>0, <1>3, <2>2 DEF AnswerReady, Fits, Fails
    <3>2. Alone(d)'
      BY <1>b, <2>2, <3>1 DEF Alone, Command
    <3>3. Fits(d)'
      BY <2>2, <3>1 DEF Fits, Leaves, Command
    <3> QED BY <3>2, <3>3
  <2> QED BY <1>3, <2>1, <2>2 DEF AnswerReady
<1>4. CASE JoinResult(c)
  BY <1>0, <1>4, <1>a, <1>b DEF JoinResult, Fails, Fits, Leaves, Command
<1>5. CASE AnswerCreated(c)
  BY <1>0, <1>5, <1>a, <1>b DEF AnswerCreated, Fails, Fits, Leaves, Command
<1>6. CASE RespondResult(c)
  BY <1>6, <1>a, <1>b DEF RespondResult, Fails, Fits, Leaves, Command
<1>7. CASE ConnectResult(c)
  BY <1>0, <1>7, <1>a, <1>b DEF ConnectResult, Fails, Fits, Leaves, Command
<1>8. CASE TransferDone(c)
  BY <1>8, <1>a DEF TransferDone
<1> QED BY <1>1, <1>2, <1>3, <1>4, <1>5, <1>6, <1>7, <1>8 DEF Gathered

\* Until the user moves on from a running command, Update gets only the
\* result its screen expects, about the connection it holds.
THEOREM ScreenAndCommandAgree == TuiSpec => []InStep
<1>1. TuiInit => Steady
  BY DEF TuiInit, Steady, Idle
<1>2. Steady /\ [TuiNext]_tuiVars => Steady'
  <2>1. Steady /\ FirstEvent => Steady'
    BY DEF FirstEvent, Steady, Idle, Alone, Fits, Leaves
  <2>2. Steady /\ UNCHANGED tuiVars => Steady'
    BY DEF tuiVars, Steady, Idle, Alone, Fits
  <2> QED BY <2>1, <2>2, SteadyKeys, SteadyResults DEF TuiNext
<1>3. Steady => InStep
  BY WhoRuns DEF Steady, Fits, InStep
<1> QED BY <1>1, <1>2, <1>3, PTL DEF TuiSpec

-----------------------------------------------------------------------------
(* How many commands run.                                                  *)

\* Instances, of any bag of commands, and those of certain kinds.
Copies(B) == UNION {{c} \X (1..B[c]) : c \in BagToSet(B)}
Of(K, B)  == {x \in Copies(B) : x[1].kind \in K}

LEMMA CopiesMember ==
  ASSUME NEW B, NEW x
  PROVE  x \in Copies(B) <=> \E c \in DOMAIN B : \E i \in 1..B[c] : x = <<c, i>>
BY DEF Copies, BagToSet

\* One more of c.
LEMMA CopiesAdd ==
  ASSUME NEW B, IsABag(B), NEW c
  PROVE  /\ IsABag(B (+) SetToBag({c}))
         /\ \E n \in Nat : /\ <<c, n>> \notin Copies(B)
                           /\ Copies(B (+) SetToBag({c})) = Copies(B) \cup {<<c, n>>}
<1> DEFINE A == B (+) SetToBag({c})
           n == IF c \in DOMAIN B THEN B[c] + 1 ELSE 1
<1>1. /\ DOMAIN A = DOMAIN B \cup {c} /\ A[c] = n
      /\ \A d \in DOMAIN B \ {c} : A[d] = B[d]
  BY DEF IsABag, SetToBag, \oplus
<1>2. n \in Nat /\ n > 0 /\ (c \in DOMAIN B => n = B[c] + 1 /\ B[c] \in Nat)
      /\ (c \notin DOMAIN B => n = 1) /\ \A d \in DOMAIN B : B[d] \in Nat /\ B[d] > 0
  BY DEF IsABag
<1>3. IsABag(A)
  BY <1>2 DEF IsABag, SetToBag, \oplus
<1> HIDE DEF A, n
<1>4. <<c, n>> \notin Copies(B)
  BY <1>2, CopiesMember
<1>5. ASSUME NEW x \in Copies(A) PROVE x \in Copies(B) \cup {<<c, n>>}
  <2> PICK d \in DOMAIN A : \E i \in 1..A[d] : x = <<d, i>>
    BY CopiesMember
  <2>1. PICK i \in 1..A[d] : x = <<d, i>>
    OBVIOUS
  <2>2. CASE d # c
    BY <1>1, <2>1, <2>2, CopiesMember
  <2>3. CASE d = c /\ i = n
    BY <2>1, <2>3
  <2>4. CASE d = c /\ i # n
    <3>1. c \in DOMAIN B /\ i \in 1..B[c]
      BY <1>1, <1>2, <2>4
    <3>2. QED
      BY <2>1, <2>4, <3>1, CopiesMember
  <2>5. QED
    BY <2>2, <2>3, <2>4
<1>6. ASSUME NEW x \in Copies(B) PROVE x \in Copies(A)
  <2> PICK d \in DOMAIN B : \E i \in 1..B[d] : x = <<d, i>>
    BY CopiesMember
  <2>1. PICK i \in 1..B[d] : x = <<d, i>>
    OBVIOUS
  <2>2. d \in DOMAIN A /\ i \in 1..A[d]
    BY <1>1, <1>2
  <2>3. QED
    BY <2>1, <2>2, CopiesMember
<1>7. <<c, n>> \in Copies(A)
  BY <1>1, <1>2, CopiesMember
<1>8. QED
  BY <1>2, <1>3, <1>4, <1>5, <1>6, <1>7 DEF A

\* One less.
LEMMA CopiesRemove ==
  ASSUME NEW B, IsABag(B), NEW c \in DOMAIN B
  PROVE  /\ IsABag(B (-) SetToBag({c}))
         /\ BagToSet(B (-) SetToBag({c})) \subseteq BagToSet(B)
         /\ \E n \in Nat : /\ <<c, n>> \in Copies(B)
                           /\ Copies(B (-) SetToBag({c})) = Copies(B) \ {<<c, n>>}
<1> DEFINE A == B (-) SetToBag({c})
           n == B[c]
<1>1. /\ DOMAIN A = {d \in DOMAIN B : d # c \/ n > 1}
      /\ c \in DOMAIN A => A[c] = n - 1
      /\ \A d \in DOMAIN A \ {c} : A[d] = B[d]
  BY DEF IsABag, SetToBag, \ominus
<1>2. \A d \in DOMAIN B : B[d] \in Nat /\ B[d] > 0
  BY DEF IsABag
<1>3. IsABag(A) /\ DOMAIN A \subseteq DOMAIN B
  BY <1>1, <1>2 DEF IsABag, SetToBag, \ominus
<1> HIDE DEF A
<1>4. <<c, n>> \in Copies(B)
  BY <1>2, CopiesMember
<1>5. ASSUME NEW x \in Copies(A) PROVE x \in Copies(B) /\ x # <<c, n>>
  <2> PICK d \in DOMAIN A : \E i \in 1..A[d] : x = <<d, i>>
    BY CopiesMember
  <2>1. PICK i \in 1..A[d] : x = <<d, i>>
    OBVIOUS
  <2>2. d \in DOMAIN B /\ i \in 1..B[d] /\ (d = c => i # n)
    BY <1>1, <1>2
  <2>3. QED
    BY <2>1, <2>2, CopiesMember
<1>6. ASSUME NEW x \in Copies(B), x # <<c, n>> PROVE x \in Copies(A)
  <2> PICK d \in DOMAIN B : \E i \in 1..B[d] : x = <<d, i>>
    BY CopiesMember
  <2>1. PICK i \in 1..B[d] : x = <<d, i>>
    OBVIOUS
  <2>2. d \in DOMAIN A /\ i \in 1..A[d]
    BY <1>1, <1>2, <1>6, <2>1
  <2>3. QED
    BY <2>1, <2>2, CopiesMember
<1>7. Copies(A) = Copies(B) \ {<<c, n>>}
  BY <1>5, <1>6
<1>8. n \in Nat
  BY <1>2
<1>9. QED
  BY <1>3, <1>4, <1>7, <1>8 DEF A, BagToSet

\* Of the commands that run, those of certain kinds; Counted says that there
\* are finitely many.
Count(K) == Cardinality(Of(K, cmds))
Counted  == IsABag(cmds) /\ IsFiniteSet(Copies(cmds))
One(c, K) == IF c.kind \in K THEN 1 ELSE 0

LEMMA CountType ==
  ASSUME Counted, NEW K
  PROVE  IsFiniteSet(Of(K, cmds)) /\ Count(K) \in Nat
<1>1. Of(K, cmds) \subseteq Copies(cmds)
  BY DEF Of
<1>2. IsFiniteSet(Of(K, cmds))
  BY <1>1, FS_Subset DEF Counted
<1>3. QED
  BY <1>2, FS_CardinalityType DEF Count

\* A bag with one more or one less of c.
LEMMA OfAdd ==
  ASSUME NEW B, IsABag(B), IsFiniteSet(Copies(B)), NEW c, NEW K
  PROVE  LET A == B (+) SetToBag({c})
         IN  /\ IsABag(A) /\ IsFiniteSet(Copies(A))
             /\ Cardinality(Of(K, A)) = Cardinality(Of(K, B)) + One(c, K)
             /\ Cardinality(Of(K, B)) \in Nat
<1> DEFINE A == B (+) SetToBag({c})
<1>1. PICK n \in Nat : <<c, n>> \notin Copies(B) /\ Copies(A) = Copies(B) \cup {<<c, n>>}
  BY CopiesAdd
<1>2. IsABag(A)
  BY CopiesAdd
<1> HIDE DEF A
<1>3. IsFiniteSet(Copies(A))
  BY <1>1, FS_AddElement
<1>4. IsFiniteSet(Of(K, B)) /\ Cardinality(Of(K, B)) \in Nat
  <2>1. Of(K, B) \subseteq Copies(B)
    BY DEF Of
  <2>2. QED
    BY <2>1, FS_Subset, FS_CardinalityType
<1>5. CASE c.kind \in K
  <2>1. Of(K, A) = Of(K, B) \cup {<<c, n>>} /\ <<c, n>> \notin Of(K, B)
    BY <1>1, <1>5 DEF Of
  <2>2. QED
    BY <1>2, <1>3, <1>4, <1>5, <2>1, FS_AddElement DEF A, One
<1>6. CASE c.kind \notin K
  <2>1. Of(K, A) = Of(K, B)
    BY <1>1, <1>6 DEF Of
  <2>2. QED
    BY <1>2, <1>3, <1>4, <1>6, <2>1 DEF A, One
<1>7. QED
  BY <1>5, <1>6

LEMMA OfRemove ==
  ASSUME NEW B, IsABag(B), IsFiniteSet(Copies(B)), NEW c \in BagToSet(B), NEW K
  PROVE  LET A == B (-) SetToBag({c})
         IN  /\ IsABag(A) /\ IsFiniteSet(Copies(A)) /\ BagToSet(A) \subseteq BagToSet(B)
             /\ Cardinality(Of(K, B)) = Cardinality(Of(K, A)) + One(c, K)
             /\ Cardinality(Of(K, A)) \in Nat
<1> DEFINE A == B (-) SetToBag({c})
<1>0. c \in DOMAIN B
  BY DEF BagToSet
<1>1. PICK n \in Nat : <<c, n>> \in Copies(B) /\ Copies(A) = Copies(B) \ {<<c, n>>}
  BY <1>0, CopiesRemove
<1>2. IsABag(A) /\ BagToSet(A) \subseteq BagToSet(B)
  BY <1>0, CopiesRemove
<1> HIDE DEF A
<1>3. IsFiniteSet(Copies(A))
  BY <1>1, FS_RemoveElement
<1>4. IsFiniteSet(Of(K, A)) /\ Cardinality(Of(K, A)) \in Nat
  <2>1. Of(K, A) \subseteq Copies(A)
    BY DEF Of
  <2>2. QED
    BY <1>3, <2>1, FS_Subset, FS_CardinalityType
<1>5. CASE c.kind \in K
  <2>1. Of(K, B) = Of(K, A) \cup {<<c, n>>} /\ <<c, n>> \notin Of(K, A)
    BY <1>1, <1>5 DEF Of
  <2>2. QED
    BY <1>2, <1>3, <1>4, <1>5, <2>1, FS_AddElement DEF A, One
<1>6. CASE c.kind \notin K
  <2>1. Of(K, A) = Of(K, B)
    BY <1>1, <1>6 DEF Of
  <2>2. One(c, K) = 0
    BY <1>6 DEF One
  <2>3. Cardinality(Of(K, B)) = Cardinality(Of(K, A)) + One(c, K)
    BY <1>4, <2>1, <2>2
  <2>4. QED
    BY <1>2, <1>3, <1>4, <2>3 DEF A
<1>7. QED
  BY <1>5, <1>6

LEMMA StartCounts ==
  ASSUME Counted, NEW c, Start(c)
  PROVE  /\ Counted' /\ Running' = Running \cup {c}
         /\ \A K : Count(K)' = Count(K) + One(c, K)
<1>1. cmds' = cmds (+) SetToBag({c})
  BY DEF Start
<1>2. Running' = Running \cup {c}
  BY StartRunning DEF Counted
<1>3. QED
  BY <1>1, <1>2, OfAdd DEF Counted, Count

LEMMA EndCounts ==
  ASSUME Counted, NEW c \in Running, End(c)
  PROVE  /\ Counted' /\ Running' \subseteq Running
         /\ \A K : Count(K) = Count(K)' + One(c, K) /\ Count(K)' \in Nat
<1>1. cmds' = cmds (-) SetToBag({c})
  BY DEF End
<1>2. QED
  BY <1>1, OfRemove DEF Counted, Count, Running

LEMMA EndStartCounts ==
  ASSUME Counted, NEW c \in Running, NEW next, EndStart(c, next)
  PROVE  /\ Counted' /\ Running' \subseteq Running \cup {next}
         /\ \A K : Count(K)' = Count(K) + One(next, K) - One(c, K)
<1> DEFINE B == cmds (-) SetToBag({c})
<1>1. cmds' = B (+) SetToBag({next})
  BY DEF EndStart
<1>2. /\ IsABag(B) /\ IsFiniteSet(Copies(B)) /\ BagToSet(B) \subseteq Running
      /\ \A K : /\ Count(K) = Cardinality(Of(K, B)) + One(c, K)
                /\ Cardinality(Of(K, B)) \in Nat
  BY OfRemove DEF Counted, Count, Running
<1> HIDE DEF B
<1>3. BagToSet(cmds') \subseteq BagToSet(B) \cup {next}
  BY <1>1 DEF BagToSet, SetToBag, \oplus
<1>4. /\ IsABag(cmds') /\ IsFiniteSet(Copies(cmds'))
      /\ \A K : Cardinality(Of(K, cmds')) = Cardinality(Of(K, B)) + One(next, K)
  BY <1>1, <1>2, OfAdd
<1>5. \A K : One(c, K) \in Int /\ One(next, K) \in Int
  BY DEF One
<1>6. ASSUME NEW K PROVE Count(K)' = Count(K) + One(next, K) - One(c, K)
  <2>1. Count(K)' = Cardinality(Of(K, B)) + One(next, K)
    BY <1>4 DEF Count
  <2>2. Count(K) = Cardinality(Of(K, B)) + One(c, K) /\ Cardinality(Of(K, B)) \in Nat
    BY <1>2
  <2>3. QED
    BY <1>5, <2>1, <2>2
<1>7. QED
  BY <1>2, <1>3, <1>4, <1>6 DEF Counted, Running

-----------------------------------------------------------------------------
(* Types.                                                                  *)

Transfers == {"send", "receive"}
Tasks     == Kinds \ Transfers

\* A command still to be started: a pasted answer's, or the one that waits
\* until the answer has been handed over.
Due == IF screen = "recv:show-answer" \/ (screen = "send:show-offer" /\ ~waiting)
       THEN 1 ELSE 0

\* Inductive: an attempt gives rise to two transfers at most.  Either it has
\* had its connection opened twice, or commands that run or may be started
\* make up for it; one that makes an offer may yet be followed by two.
Quota ==
  /\ Counted
  /\ Count(Transfers) <= pumps
  /\ pumps + Count(Tasks) + Count({"offer"}) + Due <= 2 * attempts

\* Inductive: types; and a screen or command that has or makes use of a
\* connection is never without one.
Types ==
  /\ screen \in Screens /\ mode \in Modes
  /\ waiting \in BOOLEAN /\ respond \in BOOLEAN /\ abandoned \in BOOLEAN
  /\ Running \subseteq Cmd
  /\ made \in Conns /\ opened \in SUBSET (1..made) /\ closed \in SUBSET (1..made)
  /\ conn \in 0..made
  /\ attempts \in 0..MaxAttempts /\ pumps \in Nat
  /\ fate \in {"running", "quit", "crashed"}
  /\ screen \in {"send:show-offer", "recv:show-answer"} => conn > 0
  /\ \A c \in Running : /\ c.kind \in {"announce", "wait", "respond"} => conn > 0
                        /\ c.kind \in {"connect", "open"} => c.on \in 1..made

LEMMA CommandTyped ==
  ASSUME NEW kind \in Kinds, NEW on \in Conns, NEW of \in Conns
  PROVE  /\ Command(kind, on, of) \in Cmd
         /\ Command(kind, on, of).kind = kind
         /\ Command(kind, on, of).on = on
         /\ Command(kind, on, of).of = of
BY DEF Command, Cmd

LEMMA TypesKeys ==
  ASSUME Types, Counted, Keys
  PROVE  Types'
<1> USE DEF Key, Show, SameSettings, SameConns
<1>0. 0 \in Conns /\ conn \in Conns /\ MaxAttempts \in Nat
  BY TuiAssumption DEF Types, Conns
<1>1. CASE Navigate
  BY <1>1 DEF Navigate, Types, Running, Screens
<1>2. CASE Esc
  <2>1. conn \in 0..made /\ made \in Nat
    BY <1>0 DEF Types, Conns
  <2>2. closed' \in SUBSET (1..made)
    <3>1. closed \in SUBSET (1..made) /\ {conn} \ {0} \subseteq 1..made
      BY <2>1 DEF Types
    <3>2. closed' = closed \/ closed' = closed \cup ({conn} \ {0})
      BY <1>2 DEF Esc
    <3>3. QED
      BY <3>1, <3>2
  <2>3. abandoned' \in BOOLEAN
    BY <1>2 DEF Esc
  <2>4. QED
    BY <1>2, <2>2, <2>3 DEF Esc, Types, Running, Screens
<1>3. CASE PickFile
  <2>1. CASE /\ attempts < MaxAttempts /\ attempts' = attempts + 1
             /\ screen' = "send:gather-offer" /\ Start(Command("offer", 0, 0))
    <3> DEFINE d == Command("offer", 0, 0)
    <3>1. d \in Cmd /\ d.kind = "offer"
      BY <1>0, CommandTyped DEF Kinds
    <3> HIDE DEF d
    <3>2. Running' = Running \cup {d}
      BY <2>1, StartCounts DEF d
    <3>3. QED
      BY <1>0, <1>3, <2>1, <3>1, <3>2 DEF PickFile, Types, Screens
  <2>2. CASE screen' = "send:error" /\ UNCHANGED <<attempts, cmds>>
    BY <1>3, <2>2 DEF PickFile, Types, Running, Screens
  <2> QED BY <1>3, <2>1, <2>2 DEF PickFile
<1>4. CASE PasteAnswer
  <2> DEFINE d == Command("connect", conn, conn)
  <2>1. d \in Cmd /\ d.kind = "connect" /\ d.on = conn
    BY <1>0, CommandTyped DEF Kinds
  <2> HIDE DEF d
  <2>2. Running' = Running \cup {d}
    BY <1>4, StartCounts DEF PasteAnswer, d
  <2>3. conn \in 1..made
    BY <1>0, <1>4 DEF PasteAnswer, Types, Conns
  <2>4. abandoned' \in BOOLEAN
    BY <1>4 DEF PasteAnswer
  <2>5. QED
    BY <1>0, <1>4, <2>1, <2>2, <2>3, <2>4 DEF PasteAnswer, Types, Screens
<1>5. CASE EnterOffer
  <2>1. CASE /\ attempts < MaxAttempts /\ attempts' = attempts + 1
             /\ screen' = "recv:gather-answer"
             /\ Start(Command(IF mode = "worker" THEN "join" ELSE "answer", 0, 0))
    <3> DEFINE kind == IF mode = "worker" THEN "join" ELSE "answer"
               d == Command(kind, 0, 0)
    <3>1. kind \in {"join", "answer"}
      OBVIOUS
    <3>2. d \in Cmd /\ d.kind = kind
      BY <1>0, <3>1, CommandTyped DEF Kinds
    <3> HIDE DEF d
    <3>3. Running' = Running \cup {d}
      BY <2>1, StartCounts DEF d
    <3> HIDE DEF kind
    <3>4. QED
      BY <1>0, <1>5, <2>1, <3>1, <3>2, <3>3 DEF EnterOffer, Types, Screens
  <2>2. CASE screen' = "recv:error" /\ UNCHANGED <<attempts, cmds>>
    BY <1>5, <2>2 DEF EnterOffer, Types, Running, Screens
  <2> QED BY <1>5, <2>1, <2>2 DEF EnterOffer
<1>6. CASE AnswerHandedOver
  <2> DEFINE d == Command("open", conn, 0)
  <2>1. d \in Cmd /\ d.kind = "open" /\ d.on = conn
    BY <1>0, CommandTyped DEF Kinds
  <2> HIDE DEF d
  <2>2. Running' = Running \cup {d}
    BY <1>6, StartCounts DEF AnswerHandedOver, d
  <2>3. conn \in 1..made
    BY <1>0, <1>6 DEF AnswerHandedOver, Types, Conns
  <2>4. QED
    BY <1>0, <1>6, <2>1, <2>2, <2>3 DEF AnswerHandedOver, Types, Screens
<1>7. CASE Quit
  BY <1>7 DEF Quit, Types, Running
<1> QED BY <1>1, <1>2, <1>3, <1>4, <1>5, <1>6, <1>7 DEF Keys

\* How a result changes them: its command ends and may be followed by one,
\* about a connection there is.
LEMMA TypesMore ==
  ASSUME Types, Counted, NEW c \in Running,
         made' \in Conns, made <= made', conn' \in 0..made', conn > 0 => conn' > 0,
         NEW s \in Screens, Show(s),
         s \in {"send:show-offer", "recv:show-answer"} => conn' > 0,
         \/ End(c)
         \/ \E d \in Cmd : /\ EndStart(c, d)
                           /\ d.kind \in {"announce", "wait", "respond"} => conn' > 0
                           /\ d.kind \in {"connect", "open"} => d.on \in 1..made',
         SameSettings, waiting' \in BOOLEAN, respond' \in BOOLEAN, pumps' \in Nat,
         opened' \in SUBSET (1..made'), closed' = closed,
         fate' \in {"running", "quit", "crashed"}
  PROVE  Types'
<1>1. made \in Nat /\ made' \in Nat /\ 1..made \subseteq 1..made'
  BY TuiAssumption DEF Types, Conns
<1>2. closed' \in SUBSET (1..made')
  BY <1>1 DEF Types
<1>3. CASE End(c)
  <2>1. Running' \subseteq Running
    BY <1>3, EndCounts
  <2>2. QED
    BY <1>1, <1>2, <2>1 DEF Types, Show, SameSettings
<1>4. ASSUME NEW d \in Cmd, EndStart(c, d),
             d.kind \in {"announce", "wait", "respond"} => conn' > 0,
             d.kind \in {"connect", "open"} => d.on \in 1..made'
      PROVE  Types'
  <2>1. Running' \subseteq Running \cup {d}
    BY <1>4, EndStartCounts
  <2>2. QED
    BY <1>1, <1>2, <1>4, <2>1 DEF Types, Show, SameSettings
<1>5. QED
  BY <1>3, <1>4

LEMMA TypesFails ==
  ASSUME Types, Counted, NEW c \in Running, NEW s \in {"send:error", "recv:error"},
         Fails(c, s), SameSettings
  PROVE  Types'
<1>1. s \in Screens /\ s \notin {"send:show-offer", "recv:show-answer"}
  BY DEF Screens
<1>2. /\ made' \in Conns /\ made <= made' /\ conn' \in 0..made' /\ (conn > 0 => conn' > 0)
      /\ pumps' \in Nat /\ opened' \in SUBSET (1..made') /\ closed' = closed
      /\ waiting' \in BOOLEAN /\ respond' \in BOOLEAN
      /\ fate' \in {"running", "quit", "crashed"}
  BY TuiAssumption DEF Fails, SameConns, Types, Conns
<1>3. QED
  BY <1>1, <1>2, TypesMore DEF Fails

LEMMA TypesResults ==
  ASSUME Types, Counted, NEW c \in Running,
         \/ Gathered(c) \/ AnnounceResult(c) \/ AnswerReady(c)
         \/ ConnectResult(c) \/ TransferDone(c)
  PROVE  Types'
<1> USE DEF Result
<1>0. /\ c \in Cmd /\ c.on \in Conns /\ c.of \in Conns /\ 0 \in Conns /\ Conns \subseteq Nat
      /\ made \in Conns /\ conn \in Conns /\ conn \in 0..made /\ made <= made
  BY TuiAssumption DEF Types, Conns, Cmd
<1>a. SameConns => /\ made' \in Conns /\ made <= made' /\ conn' \in 0..made'
                   /\ conn' = conn /\ opened' \in SUBSET (1..made') /\ closed' = closed
  BY <1>0 DEF SameConns, Types
<1>b. NewConn => /\ made' \in Conns /\ made <= made' /\ conn' \in 0..made' /\ conn' \in Conns
                 /\ conn' > 0 /\ opened' \in SUBSET (1..made') /\ closed' = closed
  BY <1>0, TuiAssumption DEF NewConn, Types, Conns
<1>c. UNCHANGED <<waiting, respond, pumps, fate>> =>
        /\ waiting' \in BOOLEAN /\ respond' \in BOOLEAN /\ pumps' \in Nat
        /\ fate' \in {"running", "quit", "crashed"}
  BY DEF Types
<1>1. CASE OfferCreated(c)
  <2>1. CASE Fails(c, "send:error")
    BY <1>1, <2>1, TypesFails DEF OfferCreated
  <2>2. CASE /\ NewConn /\ Show("send:show-offer")
             /\ IF mode = "worker" THEN EndStart(c, Command("announce", 0, conn')) ELSE End(c)
             /\ UNCHANGED <<waiting, respond, pumps, fate>>
    <3> DEFINE d == Command("announce", 0, conn')
    <3>1. d \in Cmd /\ d.kind = "announce"
      BY <1>0, <1>b, <2>2, CommandTyped DEF Kinds
    <3> HIDE DEF d
    <3>2. End(c) \/ EndStart(c, d)
      BY <2>2 DEF d
    <3>3. "send:show-offer" \in Screens /\ SameSettings
      BY <1>1 DEF OfferCreated, Screens
    <3>4. QED
      BY <1>b, <1>c, <2>2, <3>1, <3>2, <3>3, TypesMore
  <2> QED BY <1>1, <2>1, <2>2 DEF OfferCreated
<1>2. CASE AnnounceResult(c)
  <2>1. CASE Fails(c, "send:error")
    BY <1>2, <2>1, TypesFails DEF AnnounceResult
  <2>2. CASE /\ waiting' = TRUE /\ Show("send:show-offer")
             /\ EndStart(c, Command("wait", 0, c.of)) /\ SameConns
             /\ UNCHANGED <<respond, pumps, fate>>
    <3> DEFINE o == c.of
               d == Command("wait", 0, o)
    <3>0. o \in Conns
      BY <1>0
    <3> HIDE DEF o
    <3>1. d \in Cmd /\ d.kind = "wait"
      BY <1>0, <3>0, CommandTyped DEF Kinds
    <3> HIDE DEF d
    <3>2. EndStart(c, d)
      BY <2>2 DEF d, o
    <3>3. "send:show-offer" \in Screens /\ SameSettings /\ c.kind = "announce"
      BY <1>2 DEF AnnounceResult, Screens
    <3>4. conn > 0
      BY <3>3 DEF Types
    <3>5. waiting' \in BOOLEAN /\ respond' \in BOOLEAN /\ pumps' \in Nat
          /\ fate' \in {"running", "quit", "crashed"}
      BY <2>2 DEF Types
    <3>6. QED
      BY <1>a, <2>2, <3>1, <3>2, <3>3, <3>4, <3>5, TypesMore
  <2> QED BY <1>2, <2>1, <2>2 DEF AnnounceResult
<1>3. CASE AnswerReady(c)
  <2>1. CASE Fails(c, "send:error")
    BY <1>3, <2>1, TypesFails DEF AnswerReady
  <2>2. CASE /\ Show("send:connect") /\ EndStart(c, Command("connect", conn, c.of))
             /\ SameConns /\ UNCHANGED <<waiting, respond, pumps, fate>>
    <3> DEFINE o == c.of
               d == Command("connect", conn, o)
    <3>0. o \in Conns
      BY <1>0
    <3> HIDE DEF o
    <3>1. d \in Cmd /\ d.kind = "connect" /\ d.on = conn
      BY <1>0, <3>0, CommandTyped DEF Kinds
    <3> HIDE DEF d
    <3>2. EndStart(c, d)
      BY <2>2 DEF d, o
    <3>3. "send:connect" \in Screens /\ SameSettings /\ c.kind = "wait"
      BY <1>3 DEF AnswerReady, Screens
    <3>4. conn > 0 /\ conn \in 1..made /\ made' = made
      BY <1>0, <2>2, <3>3 DEF Types, SameConns
    <3>5. QED
      BY <1>a, <1>c, <2>2, <3>1, <3>2, <3>3, <3>4, TypesMore
  <2> QED BY <1>3, <2>1, <2>2 DEF AnswerReady
<1>4. CASE JoinResult(c)
  <2>1. CASE Fails(c, "recv:error")
    BY <1>4, <2>1, TypesFails DEF JoinResult
  <2>2. CASE /\ respond' = TRUE /\ EndStart(c, Command("answer", 0, 0))
             /\ SameConns /\ UNCHANGED <<screen, waiting, pumps, fate>>
    <3> DEFINE d == Command("answer", 0, 0)
    <3>1. d \in Cmd /\ d.kind = "answer"
      BY <1>0, CommandTyped DEF Kinds
    <3> HIDE DEF d
    <3>2. EndStart(c, d)
      BY <2>2 DEF d
    <3>3. screen \in Screens /\ Show(screen) /\ SameSettings
          /\ (screen \in {"send:show-offer", "recv:show-answer"} => conn > 0)
      BY <1>4, <2>2 DEF JoinResult, Types, Show
    <3>4. waiting' \in BOOLEAN /\ respond' \in BOOLEAN /\ pumps' \in Nat
          /\ fate' \in {"running", "quit", "crashed"}
      BY <2>2 DEF Types
    <3>5. QED
      BY <1>a, <2>2, <3>1, <3>2, <3>3, <3>4, TypesMore
  <2> QED BY <1>4, <2>1, <2>2 DEF JoinResult
<1>5. CASE AnswerCreated(c)
  <2>1. CASE Fails(c, "recv:error")
    BY <1>5, <2>1, TypesFails DEF AnswerCreated
  <2>2. CASE /\ NewConn /\ Show("recv:show-answer") /\ End(c)
             /\ UNCHANGED <<fate, waiting, respond, pumps>>
    <3>1. "recv:show-answer" \in Screens /\ SameSettings
      BY <1>5 DEF AnswerCreated, Screens
    <3>2. QED
      BY <1>b, <1>c, <2>2, <3>1, TypesMore
  <2>3. CASE /\ NewConn /\ UNCHANGED <<screen, waiting, respond, pumps>>
             /\ IF respond THEN EndStart(c, Command("respond", conn', 0)) /\ UNCHANGED fate
                           ELSE End(c) /\ fate' = "crashed"
    <3> DEFINE d == Command("respond", conn', 0)
    <3>1. d \in Cmd /\ d.kind = "respond"
      BY <1>0, <1>b, <2>3, CommandTyped DEF Kinds
    <3> HIDE DEF d
    <3>2. End(c) \/ EndStart(c, d)
      BY <2>3 DEF d
    <3>3. screen \in Screens /\ Show(screen) /\ SameSettings
      BY <1>5, <2>3 DEF AnswerCreated, Types, Show
    <3>4. waiting' \in BOOLEAN /\ respond' \in BOOLEAN /\ pumps' \in Nat
          /\ fate' \in {"running", "quit", "crashed"}
      BY <2>3 DEF Types
    <3>5. QED
      BY <1>b, <2>3, <3>1, <3>2, <3>3, <3>4, TypesMore
  <2> QED BY <1>5, <2>1, <2>2, <2>3 DEF AnswerCreated
<1>6. CASE RespondResult(c)
  <2>1. CASE Fails(c, "recv:error")
    BY <1>6, <2>1, TypesFails DEF RespondResult
  <2>2. CASE /\ Show("recv:connect") /\ EndStart(c, Command("open", conn, 0))
             /\ SameConns /\ UNCHANGED <<waiting, respond, pumps, fate>>
    <3> DEFINE d == Command("open", conn, 0)
    <3>1. d \in Cmd /\ d.kind = "open" /\ d.on = conn
      BY <1>0, CommandTyped DEF Kinds
    <3> HIDE DEF d
    <3>2. EndStart(c, d)
      BY <2>2 DEF d
    <3>3. "recv:connect" \in Screens /\ SameSettings /\ c.kind = "respond"
      BY <1>6 DEF RespondResult, Screens
    <3>4. conn > 0 /\ conn \in 1..made /\ made' = made
      BY <1>0, <2>2, <3>3 DEF Types, SameConns
    <3>5. QED
      BY <1>a, <1>c, <2>2, <3>1, <3>2, <3>3, <3>4, TypesMore
  <2> QED BY <1>6, <2>1, <2>2 DEF RespondResult
<1>7. CASE ConnectResult(c)
  <2>1. CASE Fails(c, "send:error") \/ Fails(c, "recv:error")
    BY <1>7, <2>1, TypesFails DEF ConnectResult
  <2>2. ASSUME NEW s \in {"send:transfer", "recv:transfer"}, Show(s),
               NEW kind \in {"send", "receive"}, EndStart(c, Command(kind, conn, 0)),
               opened' = opened \cup {c.on}, pumps' = pumps + 1,
               UNCHANGED <<conn, made, closed, waiting, respond, fate>>
        PROVE  Types'
    <3> DEFINE d == Command(kind, conn, 0)
    <3>1. d \in Cmd /\ d.kind \in {"send", "receive"}
      BY <1>0, CommandTyped DEF Kinds
    <3> HIDE DEF d
    <3>2. EndStart(c, d)
      BY <2>2 DEF d
    <3>3. s \in Screens /\ s \notin {"send:show-offer", "recv:show-answer"} /\ SameSettings
          /\ c.kind \in {"connect", "open"}
      BY <1>7 DEF ConnectResult, Screens
    <3>4. c.on \in 1..made
      BY <3>3 DEF Types
    <3>5. /\ waiting' \in BOOLEAN /\ respond' \in BOOLEAN /\ pumps' \in Nat
          /\ fate' \in {"running", "quit", "crashed"}
      BY <2>2 DEF Types
    <3>6. opened' \in SUBSET (1..made')
      <4>1. opened \in SUBSET (1..made)
        BY DEF Types
      <4>2. QED
        BY <2>2, <3>4, <4>1
    <3>7. QED
      BY <1>0, <2>2, <3>1, <3>2, <3>3, <3>5, <3>6, TypesMore
  <2> QED BY <1>7, <2>1, <2>2 DEF ConnectResult
<1>8. CASE TransferDone(c)
  <2>1. \E s \in {"send:done", "recv:done"} : Show(s)
    BY <1>8 DEF TransferDone
  <2>2. \E s \in Screens : Show(s) /\ s \notin {"send:show-offer", "recv:show-answer"}
    BY <2>1 DEF Screens
  <2>3. QED
    BY <1>a, <1>c, <1>8, <2>2, TypesMore DEF TransferDone
<1> QED BY <1>1, <1>2, <1>3, <1>4, <1>5, <1>6, <1>7, <1>8 DEF Gathered

\* A command counts as a transfer or as a task, and one that makes an offer
\* counts twice.
LEMMA Ones ==
  ASSUME NEW c, c.kind \in Kinds
  PROVE  /\ c.kind \in Transfers => One(c, Transfers) = 1 /\ One(c, Tasks) = 0
         /\ c.kind \notin Transfers => One(c, Transfers) = 0 /\ One(c, Tasks) = 1
         /\ c.kind = "offer" => One(c, {"offer"}) = 1 /\ c.kind \notin Transfers
         /\ c.kind # "offer" => One(c, {"offer"}) = 0
BY DEF One, Tasks, Transfers

LEMMA Numbers ==
  ASSUME Types, Quota
  PROVE  /\ Count(Transfers) \in Nat /\ Count(Tasks) \in Nat /\ Count({"offer"}) \in Nat
         /\ Due \in {0, 1} /\ attempts \in Nat /\ pumps \in Nat
BY CountType, TuiAssumption DEF Types, Quota, Due

\* A step that leaves the commands alone.
LEMMA QuotaSame ==
  ASSUME Types, Quota, UNCHANGED <<cmds, pumps>>,
         attempts' \in Nat, attempts <= attempts', Due' = 0 \/ Due' = Due
  PROVE  Quota'
<1>1. Counted' /\ Count(Transfers)' = Count(Transfers) /\ Count(Tasks)' = Count(Tasks)
      /\ Count({"offer"})' = Count({"offer"})
  BY DEF Quota, Counted, Count
<1>2. QED
  BY <1>1, Numbers DEF Quota

LEMMA QuotaKeys ==
  ASSUME Types, Quota, Keys
  PROVE  Quota'
<1> USE DEF Key, Show, SameSettings, SameConns
<1>0. /\ attempts \in Nat /\ Counted
  BY Numbers DEF Quota
<1>1. CASE Navigate
  <2>1. Due' = 0 /\ UNCHANGED <<cmds, attempts, pumps>>
    BY <1>1 DEF Navigate, Due
  <2>2. QED
    BY <1>0, <2>1, QuotaSame
<1>2. CASE Esc
  <2>1. Due' = 0 /\ UNCHANGED <<cmds, attempts, pumps>>
    BY <1>2 DEF Esc, Due
  <2>2. QED
    BY <1>0, <2>1, QuotaSame
<1>3. CASE PickFile
  <2>1. CASE /\ attempts' = attempts + 1 /\ screen' = "send:gather-offer"
             /\ Start(Command("offer", 0, 0))
    <3> DEFINE d == Command("offer", 0, 0)
    <3>1. d.kind = "offer" /\ d.kind \in Kinds /\ Due' = 0
      BY <2>1 DEF Command, Kinds, Due
    <3> HIDE DEF d
    <3>2. Counted' /\ \A K : Count(K)' = Count(K) + One(d, K)
      BY <1>0, <2>1, StartCounts DEF d
    <3>3. QED
      BY <1>3, <2>1, <3>1, <3>2, Ones, Numbers DEF PickFile, Quota
  <2>2. CASE screen' = "send:error" /\ UNCHANGED <<attempts, cmds>>
    <3>1. Due' = 0 /\ UNCHANGED pumps
      BY <1>3, <2>2 DEF PickFile, Due
    <3>2. QED
      BY <1>0, <2>2, <3>1, QuotaSame
  <2> QED BY <1>3, <2>1, <2>2 DEF PickFile
<1>4. CASE PasteAnswer
  <2> DEFINE d == Command("connect", conn, conn)
  <2>1. d.kind = "connect" /\ d.kind \in Kinds \ Transfers /\ Due' = 0 /\ Due = 1
    BY <1>4 DEF PasteAnswer, Command, Kinds, Transfers, Due
  <2> HIDE DEF d
  <2>2. Counted' /\ \A K : Count(K)' = Count(K) + One(d, K)
    BY <1>0, <1>4, StartCounts DEF PasteAnswer, d
  <2>3. UNCHANGED <<pumps, attempts>>
    BY <1>4 DEF PasteAnswer
  <2>4. QED
    BY <2>1, <2>2, <2>3, Ones, Numbers DEF Quota
<1>5. CASE EnterOffer
  <2>1. CASE /\ attempts' = attempts + 1 /\ screen' = "recv:gather-answer"
             /\ Start(Command(IF mode = "worker" THEN "join" ELSE "answer", 0, 0))
    <3> DEFINE d == Command(IF mode = "worker" THEN "join" ELSE "answer", 0, 0)
    <3>1. d.kind \in Kinds \ Transfers /\ d.kind # "offer" /\ Due' = 0
      BY <2>1 DEF Command, Kinds, Transfers, Due
    <3> HIDE DEF d
    <3>2. Counted' /\ \A K : Count(K)' = Count(K) + One(d, K)
      BY <1>0, <2>1, StartCounts DEF d
    <3>3. UNCHANGED pumps
      BY <1>5 DEF EnterOffer
    <3>4. QED
      BY <2>1, <3>1, <3>2, <3>3, Ones, Numbers DEF Quota
  <2>2. CASE screen' = "recv:error" /\ UNCHANGED <<attempts, cmds>>
    <3>1. Due' = 0 /\ UNCHANGED pumps
      BY <1>5, <2>2 DEF EnterOffer, Due
    <3>2. QED
      BY <1>0, <2>2, <3>1, QuotaSame
  <2> QED BY <1>5, <2>1, <2>2 DEF EnterOffer
<1>6. CASE AnswerHandedOver
  <2> DEFINE d == Command("open", conn, 0)
  <2>1. d.kind = "open" /\ d.kind \in Kinds \ Transfers /\ Due' = 0 /\ Due = 1
    BY <1>6 DEF AnswerHandedOver, Command, Kinds, Transfers, Due
  <2> HIDE DEF d
  <2>2. Counted' /\ \A K : Count(K)' = Count(K) + One(d, K)
    BY <1>0, <1>6, StartCounts DEF AnswerHandedOver, d
  <2>3. UNCHANGED <<pumps, attempts>>
    BY <1>6 DEF AnswerHandedOver
  <2>4. QED
    BY <2>1, <2>2, <2>3, Ones, Numbers DEF Quota
<1>7. CASE Quit
  <2>1. Due' = Due /\ UNCHANGED <<cmds, attempts, pumps>>
    BY <1>7 DEF Quit, Due
  <2>2. QED
    BY <1>0, <2>1, QuotaSame
<1> QED BY <1>1, <1>2, <1>3, <1>4, <1>5, <1>6, <1>7 DEF Keys

\* A task that ends has its place taken by another or by the wait for one,
\* by both if it made an offer, or by a transfer.
LEMMA QuotaResults ==
  ASSUME Types, Quota, NEW c \in Running,
         \/ Gathered(c) \/ AnnounceResult(c) \/ AnswerReady(c)
         \/ ConnectResult(c) \/ TransferDone(c)
  PROVE  Quota'
<1> USE DEF Result, Show
<1>0. Counted /\ c.kind \in Kinds /\ UNCHANGED attempts /\ Due' \in {0, 1}
  <2>1. c.kind \in Kinds
    BY DEF Types, Cmd
  <2>2. UNCHANGED attempts
    BY DEF Gathered, OfferCreated, JoinResult, AnswerCreated, RespondResult, AnnounceResult,
           AnswerReady, ConnectResult, TransferDone, SameSettings
  <2>3. QED
    BY <2>1, <2>2 DEF Quota, Due
<1>a. ASSUME End(c), UNCHANGED pumps, Due' = 0 \/ c.kind \in {"offer", "answer"}
      PROVE  Quota'
  <2>1. Counted' /\ \A K : Count(K) = Count(K)' + One(c, K) /\ Count(K)' \in Nat
    BY <1>0, <1>a, EndCounts
  <2>2. CASE c.kind \in {"offer", "answer"}
    <3>1. c.kind \notin Transfers
      BY <2>2 DEF Transfers
    <3>2. QED
      BY <1>0, <1>a, <2>1, <3>1, Ones, Numbers DEF Quota
  <2>3. CASE Due' = 0
    BY <1>0, <1>a, <2>1, <2>3, Ones, Numbers DEF Quota
  <2>4. QED
    BY <1>a, <2>2, <2>3
<1>b. ASSUME NEW d, EndStart(c, d), d.kind \in Tasks \ {"offer"}, c.kind \in Tasks,
             UNCHANGED pumps, Due' = 0 \/ Due' = Due \/ c.kind = "offer"
      PROVE  Quota'
  <2>1. Counted' /\ \A K : Count(K)' = Count(K) + One(d, K) - One(c, K)
    BY <1>0, <1>b, EndStartCounts
  <2>2. d.kind \in Kinds /\ d.kind \notin Transfers /\ c.kind \notin Transfers
    BY <1>b DEF Tasks
  <2>3. QED
    BY <1>0, <1>b, <2>1, <2>2, Ones, Numbers DEF Quota
<1>c. ASSUME NEW s \in {"send:error", "recv:error"}, Fails(c, s)
      PROVE  Quota'
  <2>1. End(c) /\ UNCHANGED pumps /\ Due' = 0
    BY <1>c DEF Fails, Due
  <2>2. QED
    BY <1>a, <2>1
<1>1. CASE OfferCreated(c)
  <2>1. CASE /\ IF mode = "worker" THEN EndStart(c, Command("announce", 0, conn')) ELSE End(c)
             /\ UNCHANGED pumps
    <3>1. c.kind = "offer" /\ c.kind \in Tasks
      BY <1>0, <1>1 DEF OfferCreated, Tasks, Transfers
    <3>2. \A d : d = Command("announce", 0, conn') => d.kind \in Tasks \ {"offer"}
      BY DEF Command, Tasks, Transfers, Kinds
    <3>3. QED
      BY <1>a, <1>b, <2>1, <3>1, <3>2
  <2> QED BY <1>1, <1>c, <2>1 DEF OfferCreated
<1>2. CASE AnnounceResult(c)
  <2>1. CASE /\ waiting' = TRUE /\ screen' = "send:show-offer"
             /\ EndStart(c, Command("wait", 0, c.of)) /\ UNCHANGED pumps
    <3>1. c.kind \in Tasks /\ Due' = 0
      BY <1>0, <1>2, <2>1 DEF AnnounceResult, Tasks, Transfers, Due
    <3>2. \A d : d = Command("wait", 0, c.of) => d.kind \in Tasks \ {"offer"}
      BY DEF Command, Tasks, Transfers, Kinds
    <3>3. QED
      BY <1>b, <2>1, <3>1, <3>2
  <2> QED BY <1>2, <1>c, <2>1 DEF AnnounceResult
<1>3. CASE AnswerReady(c)
  <2>1. CASE /\ screen' = "send:connect"
             /\ EndStart(c, Command("connect", conn, c.of)) /\ UNCHANGED pumps
    <3>1. c.kind \in Tasks /\ Due' = 0
      BY <1>0, <1>3, <2>1 DEF AnswerReady, Tasks, Transfers, Due
    <3>2. \A d : d = Command("connect", conn, c.of) => d.kind \in Tasks \ {"offer"}
      BY DEF Command, Tasks, Transfers, Kinds
    <3>3. QED
      BY <1>b, <2>1, <3>1, <3>2
  <2> QED BY <1>3, <1>c, <2>1 DEF AnswerReady
<1>4. CASE JoinResult(c)
  <2>1. CASE /\ UNCHANGED <<screen, waiting, pumps>> /\ EndStart(c, Command("answer", 0, 0))
    <3>1. c.kind \in Tasks /\ Due' = Due
      BY <1>0, <1>4, <2>1 DEF JoinResult, Tasks, Transfers, Due
    <3>2. \A d : d = Command("answer", 0, 0) => d.kind \in Tasks \ {"offer"}
      BY DEF Command, Tasks, Transfers, Kinds
    <3>3. QED
      BY <1>b, <2>1, <3>1, <3>2
  <2> QED BY <1>4, <1>c, <2>1 DEF JoinResult
<1>5. CASE AnswerCreated(c)
  <2>1. CASE End(c) /\ UNCHANGED pumps
    BY <1>5, <1>a, <2>1 DEF AnswerCreated
  <2>2. CASE /\ UNCHANGED <<screen, waiting, pumps>>
             /\ EndStart(c, Command("respond", conn', 0))
    <3>1. c.kind \in Tasks /\ Due' = Due
      BY <1>0, <1>5, <2>2 DEF AnswerCreated, Tasks, Transfers, Due
    <3>2. \A d : d = Command("respond", conn', 0) => d.kind \in Tasks \ {"offer"}
      BY DEF Command, Tasks, Transfers, Kinds
    <3>3. QED
      BY <1>b, <2>2, <3>1, <3>2
  <2> QED BY <1>5, <1>c, <2>1, <2>2 DEF AnswerCreated
<1>6. CASE RespondResult(c)
  <2>1. CASE /\ screen' = "recv:connect" /\ UNCHANGED pumps
             /\ EndStart(c, Command("open", conn, 0))
    <3>1. c.kind \in Tasks /\ Due' = 0
      BY <1>0, <1>6, <2>1 DEF RespondResult, Tasks, Transfers, Due
    <3>2. \A d : d = Command("open", conn, 0) => d.kind \in Tasks \ {"offer"}
      BY DEF Command, Tasks, Transfers, Kinds
    <3>3. QED
      BY <1>b, <2>1, <3>1, <3>2
  <2> QED BY <1>6, <1>c, <2>1 DEF RespondResult
<1>7. CASE ConnectResult(c)
  <2>1. CASE Fails(c, "send:error") \/ Fails(c, "recv:error")
    BY <1>c, <2>1
  <2>2. ASSUME NEW kind \in Transfers, EndStart(c, Command(kind, conn, 0)),
               screen' \in {"send:transfer", "recv:transfer"}, pumps' = pumps + 1
        PROVE  Quota'
    <3> DEFINE d == Command(kind, conn, 0)
    <3>1. d.kind \in Transfers /\ d.kind \in Kinds /\ d.kind # "offer"
      BY DEF Command, Transfers, Kinds
    <3> HIDE DEF d
    <3>2. Counted' /\ \A K : Count(K)' = Count(K) + One(d, K) - One(c, K)
      BY <1>0, <2>2, EndStartCounts DEF d
    <3>3. c.kind \notin Transfers /\ c.kind # "offer" /\ Due' = 0
      BY <1>7, <2>2 DEF ConnectResult, Transfers, Due
    <3>4. QED
      BY <1>0, <2>2, <3>1, <3>2, <3>3, Ones, Numbers DEF Quota
  <2> QED BY <1>7, <2>1, <2>2 DEF ConnectResult, Transfers
<1>8. CASE TransferDone(c)
  <2>1. End(c) /\ UNCHANGED pumps /\ Due' = 0
    BY <1>8 DEF TransferDone, Due
  <2>2. QED
    BY <1>a, <2>1
<1> QED BY <1>1, <1>2, <1>3, <1>4, <1>5, <1>6, <1>7, <1>8 DEF Gathered

\* The model keeps its types; and however the user pastes, leaves and begins
\* anew, Update runs at most two commands, and starts at most two transfers,
\* for each attempt that has been begun.
THEOREM CommandsDoNotPileUp == TuiSpec => []TuiTypeOK
<1> DEFINE Inv == Types /\ Quota
<1>1. TuiInit => Inv
  <2> SUFFICES ASSUME TuiInit PROVE Inv
    OBVIOUS
  <2>1. Running = {} /\ IsABag(cmds) /\ Copies(cmds) = {}
    BY DEF TuiInit, Running, Copies, EmptyBag, SetToBag, BagToSet, IsABag
  <2>2. \A K : Of(K, cmds) = {}
    BY <2>1 DEF Of
  <2>3. Counted /\ \A K : Count(K) = 0
    BY <2>1, <2>2, FS_EmptySet DEF Counted, Count
  <2>4. Types
    <3>1. made \in Conns /\ conn \in 0..made /\ attempts \in 0..MaxAttempts
      BY TuiAssumption DEF TuiInit, Conns
    <3>2. opened \in SUBSET (1..made) /\ closed \in SUBSET (1..made)
      BY DEF TuiInit
    <3>3. QED
      BY <2>1, <3>1, <3>2 DEF TuiInit, Types, Screens, Modes
  <2>5. Quota
    BY <2>3 DEF TuiInit, Quota, Due
  <2>6. QED
    BY <2>4, <2>5
<1>2. Inv /\ [TuiNext]_tuiVars => Inv'
  <2> SUFFICES ASSUME Inv, [TuiNext]_tuiVars PROVE Inv'
    OBVIOUS
  <2>0. Counted
    BY DEF Quota
  <2>1. CASE Keys
    BY <2>0, <2>1, TypesKeys, QuotaKeys
  <2>2. CASE \E c \in Running : \/ Gathered(c) \/ AnnounceResult(c) \/ AnswerReady(c)
                                \/ ConnectResult(c) \/ TransferDone(c)
    BY <2>0, <2>2, TypesResults, QuotaResults
  <2>3. CASE FirstEvent \/ UNCHANGED tuiVars
    <3>1. /\ UNCHANGED <<screen, mode, conn, waiting, respond, cmds, made, opened, closed,
                         attempts, pumps, abandoned>>
          /\ fate' \in {"crashed", fate}
      BY <2>3 DEF FirstEvent, tuiVars
    <3>2. Types'
      BY <3>1 DEF Types, Running
    <3>3. Due' = Due /\ attempts \in Nat
      BY <3>1, Numbers DEF Due
    <3>4. QED
      BY <3>1, <3>2, <3>3, QuotaSame
  <2>4. QED
    BY <2>1, <2>2, <2>3 DEF TuiNext
<1>3. Inv => TuiTypeOK
  <2> SUFFICES ASSUME Inv PROVE TuiTypeOK
    OBVIOUS
  <2>1. Instances = Copies(cmds)
    BY DEF Instances, Copies, Running
  <2>2. Copies(cmds) = Of(Transfers, cmds) \cup Of(Tasks, cmds)
        /\ Of(Transfers, cmds) \cap Of(Tasks, cmds) = {}
    <3>1. \A x \in Copies(cmds) : x[1].kind \in Kinds
      BY DEF Types, Copies, Running, Cmd
    <3>2. QED
      BY <3>1 DEF Of, Tasks
  <2>3. Cardinality(Copies(cmds)) = Count(Transfers) + Count(Tasks)
    <3>1. IsFiniteSet(Of(Transfers, cmds)) /\ IsFiniteSet(Of(Tasks, cmds))
          /\ Count(Transfers) \in Nat /\ Count(Tasks) \in Nat
      BY CountType DEF Quota
    <3>2. QED
      BY <2>2, <3>1, FS_Union, FS_EmptySet DEF Count
  <2>4. Cardinality(Instances) <= 2 * attempts /\ pumps \in 0..2 * attempts
    BY <2>1, <2>3, Numbers DEF Quota
  <2>5. conn \in Conns
    BY TuiAssumption DEF Types, Conns
  <2>6. QED
    BY <2>4, <2>5 DEF Types, Quota, Counted, Running, TuiTypeOK
<1>4. QED
  BY <1>1, <1>2, <1>3, PTL DEF TuiSpec
=============================================================================
