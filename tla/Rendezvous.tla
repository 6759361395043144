----------------------------- MODULE Rendezvous -----------------------------
(***************************************************************************)
(* SP/1, the signaling worker and its clients: a sender posts an offer     *)
(* under a token the worker draws, a receiver given the token fetches the  *)
(* offer and posts an answer, the sender polls for it, and an alarm wipes  *)
(* the session (worker/src/sessions.ts, sessiondo.ts, internal/signal/     *)
(* worker.go).                                                             *)
(*                                                                         *)
(* A session object runs one method at a time, but a handler makes several *)
(* calls to it and waitAnswer sleeps between its reads.  Offers and        *)
(* answers are named after the client that made them.                      *)
(***************************************************************************)
EXTENDS Integers, FiniteSets

CONSTANTS
  Senders, Receivers,
  Tokens,
  None,
  Ttl,       \* SESSION_TTL_SECONDS
  Attempts,  \* TOKEN_ATTEMPTS
  MaxTime    \* bound of the clock

Clients == Senders \cup Receivers

ASSUME RendezvousAssumption ==
  /\ Senders \cap Receivers = {}
  /\ None \notin Clients \cup Tokens
  /\ Ttl \in Nat \ {0} /\ Attempts \in Nat \ {0} /\ MaxTime \in Nat

VARIABLES
  now,      \* the time, at the worker and at the clients
  offer,    \* per token, the stored offer
  answer,   \* per token, the stored answer
  alarmAt,  \* per token, when its alarm is due
  req,      \* per client, what the worker is doing for it
  reply,    \* per client, the response it has not read
  pc,       \* per client, what it is doing
  token,    \* per client, the session it uses
  expires,  \* per sender, the expiresAt of its session
  tries,    \* per sender, the tokens drawn in vain
  joined,   \* per receiver, the offer it got
  heard,    \* per sender, the answer it got
  result    \* per client, how its part of the exchange ended

store   == <<offer, answer, alarmAt>>
clients == <<pc, token, expires, tries, joined, heard, result>>
rvars   == <<now, store, req, reply, clients>>

Responses == {"none", "created", "offer", "answer", "not_ready", "not_found",
              "exists", "internal"}
Results   == {"none", "ok", "gave-up", "timeout", "not_found", "exists", "internal"}

RendezvousTypeOK ==
  /\ now \in 0..MaxTime
  /\ offer \in [Tokens -> Senders \cup {None}]
  /\ answer \in [Tokens -> Receivers \cup {None}]
  /\ alarmAt \in [Tokens -> Nat \cup {None}]
  /\ req \in [Clients -> {"none", "create", "stamp", "lookup", "wait", "find", "fetch", "put"}]
  /\ reply \in [Clients -> [code : Responses, from : Clients \cup {None}]]
  /\ pc \in [Clients -> {"start", "waiting", "poll", "answering", "done"}]
  /\ token \in [Clients -> Tokens \cup {None}]
  /\ expires \in [Senders -> Nat]
  /\ tries \in [Senders -> 0..Attempts]
  /\ joined \in [Receivers -> Senders \cup {None}]
  /\ heard \in [Senders -> Receivers \cup {None}]
  /\ result \in [Clients -> Results]

Response(code, from) == [code |-> code, from |-> from]
NoReply == Response("none", None)

RendezvousInit ==
  /\ now = 0
  /\ offer = [t \in Tokens |-> None]
  /\ answer = [t \in Tokens |-> None]
  /\ alarmAt = [t \in Tokens |-> None]
  /\ req = [c \in Clients |-> "none"]
  /\ reply = [c \in Clients |-> NoReply]
  /\ pc = [c \in Clients |-> "start"]
  /\ token = [c \in Clients |-> None]
  /\ expires = [s \in Senders |-> 0]
  /\ tries = [s \in Senders |-> 0]
  /\ joined = [r \in Receivers |-> None]
  /\ heard = [s \in Senders |-> None]
  /\ result = [c \in Clients |-> "none"]

-----------------------------------------------------------------------------
(* Building blocks.                                                        *)

\* The worker responds to c, unless c is gone, or carries on with another
\* call for it.
Respond(c, code, from) ==
  /\ reply' = [reply EXCEPT ![c] = IF pc[c] = "done" THEN NoReply ELSE Response(code, from)]
  /\ req' = [req EXCEPT ![c] = "none"]
GoOn(c, step) == req' = [req EXCEPT ![c] = step] /\ UNCHANGED reply

\* c sends a request, and reads the response to it.
Ask(c, step) ==
  /\ req' = [req EXCEPT ![c] = step]
  /\ pc' = [pc EXCEPT ![c] = "waiting"]
  /\ UNCHANGED reply
Read(c, codes) ==
  /\ pc[c] = "waiting" /\ reply[c].code \in codes
  /\ reply' = [reply EXCEPT ![c] = NoReply]
  /\ UNCHANGED req

End(c, r) ==
  /\ pc' = [pc EXCEPT ![c] = "done"]
  /\ result' = [result EXCEPT ![c] = r]

\* newToken draws one of 2^30 tokens.  A token still held by a client of a
\* session that was wiped is taken not to come up again meanwhile.
Held(t) == \E c \in Clients : token[c] = t /\ (pc[c] # "done" \/ req[c] # "none")
MayDraw(t) == offer[t] # None \/ ~Held(t)

-----------------------------------------------------------------------------
(* The sender: Announce, then waitForAnswer.                               *)

\* POST /v1/sessions.  (No session starts too late for the clock's bound.)
Announce(s) ==
  /\ pc[s] = "start" /\ now + Ttl <= MaxTime
  /\ Ask(s, "create")
  /\ UNCHANGED <<now, store, token, expires, tries, joined, heard, result>>

\* createSession draws a token; SessionDO.create stores the offer and arms
\* the alarm in one step unless the token has one.
CreateSession(s) ==
  /\ req[s] = "create" /\ now + Ttl <= MaxTime
  /\ \E t \in Tokens :
       /\ MayDraw(t)
       /\ IF offer[t] = None
          THEN /\ offer' = [offer EXCEPT ![t] = s]
               /\ alarmAt' = [alarmAt EXCEPT ![t] = now + Ttl]
               /\ token' = [token EXCEPT ![s] = t]
               /\ GoOn(s, "stamp")
               /\ UNCHANGED tries
          ELSE /\ tries' = [tries EXCEPT ![s] = @ + 1]
               /\ IF tries'[s] = Attempts THEN Respond(s, "internal", None)
                                          ELSE UNCHANGED <<req, reply>>
               /\ UNCHANGED <<offer, alarmAt, token>>
  /\ UNCHANGED <<now, answer, pc, expires, joined, heard, result>>

\* The expiry is taken from the clock once more, after create has returned.
StampExpiry(s) ==
  /\ req[s] = "stamp"
  /\ expires' = [expires EXCEPT ![s] = now + Ttl]
  /\ Respond(s, "created", None)
  /\ UNCHANGED <<now, store, pc, token, tries, joined, heard, result>>

Announced(s) ==
  /\ Read(s, {"created", "internal"})
  /\ IF reply[s].code = "created"
     THEN pc' = [pc EXCEPT ![s] = "poll"] /\ UNCHANGED result
     ELSE End(s, "internal")
  /\ UNCHANGED <<now, store, token, expires, tries, joined, heard>>

\* GET /v1/sessions/{token}/answer
Poll(s) ==
  /\ pc[s] = "poll"
  /\ Ask(s, "lookup")
  /\ UNCHANGED <<now, store, token, expires, tries, joined, heard, result>>

\* getSessionAnswer asks hasSession first.
LookUp(s) ==
  /\ req[s] = "lookup"
  /\ IF offer[token[s]] = None THEN Respond(s, "not_found", None) ELSE GoOn(s, "wait")
  /\ UNCHANGED <<now, store, clients>>

\* waitAnswer: the answer as soon as a read finds it, or nothing once the
\* last read before its deadline has found none.
WaitAnswer(s) ==
  /\ req[s] = "wait"
  /\ IF answer[token[s]] # None THEN Respond(s, "answer", answer[token[s]])
                                ELSE Respond(s, "not_ready", None)
  /\ UNCHANGED <<now, store, clients>>

\* waitForAnswer after one poll: an answer, another poll, ErrTimeout once
\* expiresAt has passed, or whatever other error the worker returned.
Polled(s) ==
  /\ Read(s, {"answer", "not_ready", "not_found"})
  /\ \/ /\ reply[s].code = "answer"
        /\ heard' = [heard EXCEPT ![s] = reply[s].from]
        /\ End(s, "ok")
     \/ /\ reply[s].code = "not_ready" /\ now < expires[s]
        /\ pc' = [pc EXCEPT ![s] = "poll"]
        /\ UNCHANGED <<heard, result>>
     \/ /\ reply[s].code = "not_ready" /\ now >= expires[s]
        /\ End(s, "timeout") /\ UNCHANGED heard
     \/ /\ reply[s].code = "not_found"
        /\ End(s, "not_found") /\ UNCHANGED heard
  /\ UNCHANGED <<now, store, token, expires, tries, joined>>

-----------------------------------------------------------------------------
(* The receiver: Join, then respond.                                       *)

\* GET /v1/sessions/{token}/offer, with a token from the sender or mistyped.
Join(r) ==
  /\ pc[r] = "start"
  /\ \E t \in Tokens : token' = [token EXCEPT ![r] = t]
  /\ Ask(r, "find")
  /\ UNCHANGED <<now, store, expires, tries, joined, heard, result>>

\* getSessionOffer asks hasSession, then getOffer.
FindSession(r) ==
  /\ req[r] = "find"
  /\ IF offer[token[r]] = None THEN Respond(r, "not_found", None) ELSE GoOn(r, "fetch")
  /\ UNCHANGED <<now, store, clients>>

GetOffer(r) ==
  /\ req[r] = "fetch"
  /\ IF offer[token[r]] = None THEN Respond(r, "not_found", None)
                               ELSE Respond(r, "offer", offer[token[r]])
  /\ UNCHANGED <<now, store, clients>>

\* The offer is answered: gathering takes its time before respond posts.
Joined(r) ==
  /\ Read(r, {"offer"})
  /\ joined' = [joined EXCEPT ![r] = reply[r].from]
  /\ pc' = [pc EXCEPT ![r] = "answering"]
  /\ UNCHANGED <<now, store, token, expires, tries, heard, result>>

\* POST /v1/sessions/{token}/answer
PostAnswer(r) ==
  /\ pc[r] = "answering"
  /\ Ask(r, "put")
  /\ UNCHANGED <<now, store, token, expires, tries, joined, heard, result>>

\* Mutant: the answer already stored is overwritten.
PutAnswerLastWins(r) ==
  /\ req[r] = "put"
  /\ IF offer[token[r]] = None
     THEN Respond(r, "not_found", None) /\ UNCHANGED answer
     ELSE Respond(r, "created", None) /\ answer' = [answer EXCEPT ![token[r]] = r]
  /\ UNCHANGED <<now, offer, alarmAt, clients>>

\* SessionDO.putAnswer: one answer per session.
PutAnswer(r) ==
  /\ req[r] = "put"
  /\ \/ /\ offer[token[r]] = None
        /\ Respond(r, "not_found", None) /\ UNCHANGED answer
     \/ /\ offer[token[r]] # None /\ answer[token[r]] # None
        /\ Respond(r, "exists", None) /\ UNCHANGED answer
     \/ /\ offer[token[r]] # None /\ answer[token[r]] = None
        /\ Respond(r, "created", None)
        /\ answer' = [answer EXCEPT ![token[r]] = r]
  /\ UNCHANGED <<now, offer, alarmAt, clients>>

\* The response to the fetch or the post that ends the receiver's part.
Answered(r) ==
  /\ Read(r, {"created", "exists", "not_found"})
  /\ End(r, IF reply[r].code = "created" THEN "ok" ELSE reply[r].code)
  /\ UNCHANGED <<now, store, token, expires, tries, joined, heard>>

-----------------------------------------------------------------------------
\* The context is cancelled or the connection fails, at any moment: what the
\* worker has been asked to do it still may do.
GiveUp(c) ==
  /\ pc[c] \notin {"start", "done"}
  /\ End(c, "gave-up")
  /\ reply' = [reply EXCEPT ![c] = NoReply]
  /\ UNCHANGED <<now, store, req, token, expires, tries, joined, heard>>

\* Mutant: the alarm forgets the offer and leaves the answer.
AlarmOfferOnly(t) ==
  /\ alarmAt[t] # None /\ now >= alarmAt[t]
  /\ offer' = [offer EXCEPT ![t] = None]
  /\ alarmAt' = [alarmAt EXCEPT ![t] = None]
  /\ UNCHANGED <<now, answer, req, reply, clients>>

\* The session's alarm wipes everything, some time after it is due.
Alarm(t) ==
  /\ alarmAt[t] # None /\ now >= alarmAt[t]
  /\ offer' = [offer EXCEPT ![t] = None]
  /\ answer' = [answer EXCEPT ![t] = None]
  /\ alarmAt' = [alarmAt EXCEPT ![t] = None]
  /\ UNCHANGED <<now, req, reply, clients>>

\* Time passes.  (A session asked for in time for the bound is created in
\* time for it.)
Tick ==
  /\ now < MaxTime
  /\ now + Ttl = MaxTime => \A s \in Senders : req[s] # "create"
  /\ now' = now + 1
  /\ UNCHANGED <<store, req, reply, clients>>

SenderRun(s) == \/ Announced(s) \/ Poll(s) \/ Polled(s)
ReceiverRun(r) == Joined(r) \/ PostAnswer(r) \/ Answered(r)
WorkForSender(s) == CreateSession(s) \/ StampExpiry(s) \/ LookUp(s) \/ WaitAnswer(s)
WorkForReceiver(r) == FindSession(r) \/ GetOffer(r) \/ PutAnswer(r)

RendezvousNext ==
  \/ \E s \in Senders : Announce(s) \/ SenderRun(s) \/ WorkForSender(s)
  \/ \E r \in Receivers : Join(r) \/ ReceiverRun(r) \/ WorkForReceiver(r)
  \/ \E c \in Clients : GiveUp(c)
  \/ \E t \in Tokens : Alarm(t)
  \/ Tick

RendezvousSpec == RendezvousInit /\ [][RendezvousNext]_rvars

-----------------------------------------------------------------------------
(* Properties.                                                             *)

\* The answer a sender gets answers its own offer, whatever was wiped,
\* mistyped or given up in between, as long as no token is drawn again while
\* a client of its old session still uses it (MayDraw).
RightAnswer ==
  \A s \in Senders : heard[s] # None => joined[heard[s]] = s

\* One exchange per session: at most one receiver is told that its answer
\* was taken, and the sender hears that one or none.
OneExchange ==
  \A r \in Receivers : result[r] = "ok" =>
    /\ heard[joined[r]] \in {r, None}
    /\ \A other \in Receivers \ {r} :
         result[other] = "ok" => joined[other] # joined[r]

\* ErrTimeout's comment: wait returns it when the session's expiresAt passes
\* without an answer being posted.
TimeoutIsTyped ==
  \A s \in Senders :
    pc[s] = "done" /\ result[s] \notin {"gave-up", "internal"}
      /\ (\A r \in Receivers : joined[r] # s)
      => result[s] = "timeout"
=============================================================================
