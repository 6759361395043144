--------------------------- MODULE HandshakeProofs -----------------------------
(***************************************************************************)
(* First, about Rendezvous, for any senders, receivers, tokens, time to    *)
(* live and number of attempts.  RightAnswer and OneExchange relate what   *)
(* clients remember long after their session is gone; Inductive adds what  *)
(* links them to the store while it lasts.                                 *)
(*                                                                         *)
(* Then, about Handshake, for any set of calls, any number of lines on     *)
(* either stdin, and any worker: the exchange over the worker is that of   *)
(* Rendezvous, --externals none stays away from it, a terminal loses one   *)
(* line at most, and exit codes tell the truth.                            *)
(***************************************************************************)
EXTENDS Handshake, TLAPS

-----------------------------------------------------------------------------
(* The inductive invariant.                                                *)

\* c may still make use of its token; while it may, nobody draws it anew.
Busy(c) == pc[c] # "done" \/ req[c] # "none"

\* Where a sender is, and that it has a token once its session is created.
SenderShape ==
  \A s \in Senders :
    /\ req[s] \in {"none", "create", "stamp", "lookup", "wait"}
    /\ pc[s] = "start" => req[s] = "none" /\ token[s] = None /\ tries[s] = 0
    /\ req[s] = "create" => token[s] = None /\ tries[s] < Attempts
    /\ \/ req[s] \in {"stamp", "lookup", "wait"}
       \/ pc[s] = "poll"
       \/ reply[s].code \in {"created", "not_ready", "answer"}
       => token[s] # None

\* Where a receiver is: it fetches one offer, and posts only afterwards.
ReceiverShape ==
  \A r \in Receivers :
    /\ req[r] \in {"none", "find", "fetch", "put"}
    /\ pc[r] = "start" => req[r] = "none" /\ joined[r] = None
    /\ pc[r] # "start" => token[r] # None
    /\ reply[r].code # "none" => pc[r] = "waiting" /\ req[r] = "none"
    /\ req[r] # "none" => pc[r] \in {"waiting", "done"}
    /\ joined[r] # None => req[r] \in {"none", "put"} /\ reply[r].code # "offer"
    /\ req[r] = "put" \/ pc[r] = "answering" => joined[r] # None

\* Who uses a token finds under it the offer it means, or none.
OffersKnown ==
  /\ \A t \in Tokens, s \in Senders : offer[t] = s => token[s] = t
  /\ \A s \in Senders :
       token[s] # None /\ Busy(s) => offer[token[s]] \in {None, s}
  /\ \A r \in Receivers :
       /\ joined[r] # None /\ Busy(r) => offer[token[r]] \in {None, joined[r]}
       /\ reply[r].code = "offer" =>
            /\ reply[r].from \in Senders
            /\ offer[token[r]] \in {None, reply[r].from}

\* An answer is stored only next to the offer it was made for.
AnswersFit ==
  \A t \in Tokens :
    answer[t] # None => offer[t] # None /\ joined[answer[t]] = offer[t]

\* The exchange of s is settled in favour of r: unless the session has been
\* wiped meanwhile, r's answer is in it.
Settled(s, r) ==
  /\ s \in Senders /\ joined[r] = s /\ token[s] # None
  /\ offer[token[s]] = s => answer[token[s]] = r

\* r has been told that its answer was taken; s has been told r's answer.
Took(r)     == result[r] = "ok" \/ reply[r].code = "created"
Knows(s, r) == heard[s] = r \/ (reply[s].code = "answer" /\ reply[s].from = r)

\* Whoever is told of an exchange is told of a settled one, and all are told
\* of the same.
Settlements ==
  /\ \A s \in Senders : reply[s].code = "answer" => reply[s].from \in Receivers
  /\ \A r \in Receivers : Took(r) => Settled(joined[r], r)
  /\ \A s \in Senders, r \in Receivers : Knows(s, r) => Settled(s, r)
  /\ \A r, q \in Receivers : Took(r) /\ Took(q) /\ joined[r] = joined[q] => r = q
  /\ \A r, q \in Receivers : Took(r) /\ Knows(joined[r], q) => r = q

Inductive == /\ RendezvousTypeOK /\ SenderShape /\ ReceiverShape
             /\ OffersKnown /\ AnswersFit /\ Settlements

-----------------------------------------------------------------------------
(* Lemmas.                                                                 *)

Reqs == {"none", "create", "stamp", "lookup", "wait", "find", "fetch", "put"}
Replies == [code : Responses, from : Clients \cup {None}]

\* A response reaches c alone, and c only if it still listens.
LEMMA RespondFrame ==
  ASSUME RendezvousTypeOK, NEW c \in Clients, NEW code \in Responses \ {"none"},
         NEW from \in Clients \cup {None}, Respond(c, code, from)
  PROVE  /\ reply' \in [Clients -> Replies] /\ req' \in [Clients -> Reqs]
         /\ \A d \in Clients \ {c} : reply'[d] = reply[d] /\ req'[d] = req[d]
         /\ req'[c] = "none"
         /\ \/ reply'[c].code = "none" /\ pc[c] = "done"
            \/ reply'[c].code = code /\ reply'[c].from = from /\ pc[c] # "done"
<1>1. Response(code, from) \in Replies /\ NoReply \in Replies
  BY DEF Response, NoReply, Replies, Responses
<1>2. reply \in [Clients -> Replies] /\ req \in [Clients -> Reqs]
  BY DEF RendezvousTypeOK, Replies, Reqs
<1>3. reply' \in [Clients -> Replies]
  BY <1>1, <1>2 DEF Respond
<1>4. req' \in [Clients -> Reqs]
  BY <1>2 DEF Respond, Reqs
<1> QED BY <1>2, <1>3, <1>4 DEF Respond, Response, NoReply

\* Settlements survive a step that tells nobody anything new and unsettles
\* no exchange.
LEMMA SettlementsKept ==
  ASSUME Settlements,
         \A s \in Senders : reply'[s].code = "answer" =>
            reply[s].code = "answer" /\ reply'[s].from = reply[s].from,
         \A r \in Receivers : Took(r)' => Took(r),
         \A r \in Receivers : Took(r) => joined'[r] = joined[r],
         \A s \in Senders, r \in Receivers : Knows(s, r)' => Knows(s, r),
         \A s \in Senders, r \in Receivers : Settled(s, r) => Settled(s, r)'
  PROVE  Settlements'
<1>1. \A r \in Receivers : Took(r) => joined[r] \in Senders
  BY DEF Settlements, Settled
<1> QED BY <1>1 DEF Settlements

\* A response that is no answer, no offer and no taken post.
Quiet(c, code) ==
  /\ code \in Responses \ {"none", "answer", "offer"}
  /\ c \in Receivers => code # "created" /\ pc[c] # "start" /\ req[c] # "none"
  /\ c \in Senders /\ code \in {"created", "not_ready"} => token[c] # None

\* Such a response keeps the invariant.
LEMMA QuietResponse ==
  ASSUME Inductive, NEW c \in Clients, NEW code, Quiet(c, code), Respond(c, code, None),
         UNCHANGED <<now, store, pc, token, expires, joined, heard, result>>,
         tries' \in [Senders -> 0..Attempts],
         \A s \in Senders \ {c} : tries'[s] = tries[s],
         pc[c] # "start"
  PROVE  Inductive'
<1> USE RendezvousAssumption DEF Inductive, Clients, store
<1>a. /\ reply' \in [Clients -> Replies] /\ req' \in [Clients -> Reqs]
      /\ \A d \in Clients \ {c} : reply'[d] = reply[d] /\ req'[d] = req[d]
      /\ req'[c] = "none"
      /\ \/ reply'[c].code = "none" /\ pc[c] = "done"
         \/ reply'[c].code = code /\ reply'[c].from = None /\ pc[c] # "done"
  BY RespondFrame DEF Quiet
<1>b. code \notin {"none", "answer", "offer"} /\ (c \in Receivers => code # "created")
  BY DEF Quiet
<1>1. RendezvousTypeOK'  BY <1>a DEF RendezvousTypeOK, Replies, Reqs
<1>2. SenderShape'       BY <1>a, <1>b DEF SenderShape, Quiet
<1>3. ReceiverShape'     BY <1>a, <1>b DEF ReceiverShape, Quiet
<1>4. OffersKnown'       BY <1>a, <1>b DEF OffersKnown, Busy
<1>5. AnswersFit'        BY DEF AnswersFit
<1>6. Settlements'
  <2>1. \A s \in Senders, r \in Receivers : Settled(s, r) => Settled(s, r)'
    BY DEF Settled
  <2>2. \A r \in Receivers : Took(r)' => Took(r)
    BY <1>a, <1>b DEF Took
  <2>3. \A s \in Senders, r \in Receivers : Knows(s, r)' => Knows(s, r)
    BY <1>a, <1>b DEF Knows
  <2> QED BY <1>a, <1>b, <2>1, <2>2, <2>3, SettlementsKept
<1> QED BY <1>1, <1>2, <1>3, <1>4, <1>5, <1>6

\* So does a handler that goes on to its second call.
LEMMA GoOnKeeps ==
  ASSUME Inductive, NEW c \in Clients, NEW step, GoOn(c, step), UNCHANGED <<now, store, clients>>,
         \/ c \in Senders /\ req[c] = "lookup" /\ step = "wait"
         \/ c \in Receivers /\ req[c] = "find" /\ step = "fetch"
  PROVE  Inductive'
<1> USE RendezvousAssumption DEF Inductive, Clients, store, clients, GoOn
<1>1. RendezvousTypeOK'  BY DEF RendezvousTypeOK
<1>2. SenderShape'       BY DEF SenderShape
<1>3. ReceiverShape'     BY DEF ReceiverShape
<1>4. OffersKnown'       BY DEF OffersKnown, Busy
<1>5. AnswersFit'        BY DEF AnswersFit
<1>6. Settlements'       BY DEF Settlements, Settled, Took, Knows
<1> QED BY <1>1, <1>2, <1>3, <1>4, <1>5, <1>6

\* The first call of a poll.
LEMMA LookUpKeeps ==
  ASSUME Inductive, NEW s \in Senders, LookUp(s)
  PROVE  Inductive'
<1> USE RendezvousAssumption DEF Inductive, Clients
<1>1. pc[s] # "start" /\ tries \in [Senders -> 0..Attempts]
  BY DEF SenderShape, LookUp, RendezvousTypeOK
<1>2. CASE Respond(s, "not_found", None)
  BY <1>1, <1>2, QuietResponse DEF LookUp, Quiet, Responses, clients
<1>3. CASE GoOn(s, "wait")
  BY <1>3, GoOnKeeps DEF LookUp
<1> QED BY <1>2, <1>3 DEF LookUp

\* The second: the only step that tells a sender an answer, which is the one
\* stored next to its own offer.
LEMMA WaitAnswerKeeps ==
  ASSUME Inductive, NEW s \in Senders, WaitAnswer(s)
  PROVE  Inductive'
<1> USE RendezvousAssumption DEF Inductive, Clients
<1>1. pc[s] # "start" /\ tries \in [Senders -> 0..Attempts] /\ token[s] \in Tokens
  BY DEF SenderShape, WaitAnswer, RendezvousTypeOK
<1>2. CASE answer[token[s]] = None
  BY <1>1, <1>2, QuietResponse DEF WaitAnswer, Quiet, Responses, SenderShape, clients
<1>3. CASE answer[token[s]] # None
  <2> DEFINE r == answer[token[s]]
  <2>1. /\ r \in Receivers /\ Respond(s, "answer", r)
        /\ UNCHANGED <<now, store, clients>>
    BY <1>1, <1>3 DEF WaitAnswer, RendezvousTypeOK
  <2>2. joined[r] = s /\ Settled(s, r)
    BY <1>1, <1>3, <2>1 DEF WaitAnswer, OffersKnown, AnswersFit, Busy, Settled
  <2> HIDE DEF r
  <2>a. /\ reply' \in [Clients -> Replies] /\ req' \in [Clients -> Reqs]
        /\ \A d \in Clients \ {s} : reply'[d] = reply[d] /\ req'[d] = req[d]
        /\ req'[s] = "none"
        /\ \/ reply'[s].code = "none" /\ pc[s] = "done"
           \/ reply'[s].code = "answer" /\ reply'[s].from = r /\ pc[s] # "done"
    BY <2>1, RespondFrame DEF Responses
  <2>3. RendezvousTypeOK'
    BY <2>1, <2>a DEF RendezvousTypeOK, Replies, Reqs, store, clients
  <2>4. SenderShape'
    BY <1>1, <2>1, <2>a DEF SenderShape, clients
  <2>5. ReceiverShape'
    BY <2>1, <2>a DEF ReceiverShape, clients
  <2>6. OffersKnown'
    BY <2>1, <2>a DEF OffersKnown, Busy, store, clients
  <2>7. AnswersFit'
    BY <2>1 DEF AnswersFit, store, clients
  <2>8. Settlements'
    <3>1. \A q \in Receivers : Took(q)' <=> Took(q)
      BY <2>1, <2>a DEF Took, clients
    <3>2. \A u \in Senders, q \in Receivers : Knows(u, q)' => Knows(u, q) \/ (u = s /\ q = r)
      BY <2>1, <2>a DEF Knows, clients
    <3>3. \A u \in Senders, q \in Receivers : Settled(u, q)' <=> Settled(u, q)
      BY <2>1 DEF Settled, store, clients
    <3>4. \A q \in Receivers : Took(q) /\ joined[q] = s => q = r
      BY <1>1, <1>3, <2>1, <2>2 DEF Settlements, Settled, AnswersFit, r
    <3>5. \A q \in Receivers : Took(q) => joined[q] \in Senders
      BY DEF Settlements, Settled
    <3>6. \A u \in Senders : reply'[u].code = "answer" => reply'[u].from \in Receivers
      BY <2>1, <2>a DEF Settlements
    <3> QED BY <2>1, <2>2, <3>1, <3>2, <3>3, <3>4, <3>5, <3>6 DEF Settlements, clients
  <2> QED BY <2>3, <2>4, <2>5, <2>6, <2>7, <2>8
<1> QED BY <1>2, <1>3

\* The first call of a fetch.
LEMMA FindSessionKeeps ==
  ASSUME Inductive, NEW r \in Receivers, FindSession(r)
  PROVE  Inductive'
<1> USE RendezvousAssumption DEF Inductive, Clients
<1>1. pc[r] # "start" /\ tries \in [Senders -> 0..Attempts]
  BY DEF ReceiverShape, FindSession, RendezvousTypeOK
<1>2. CASE Respond(r, "not_found", None)
  BY <1>1, <1>2, QuietResponse DEF FindSession, Quiet, Responses, clients
<1>3. CASE GoOn(r, "fetch")
  BY <1>3, GoOnKeeps DEF FindSession
<1> QED BY <1>2, <1>3 DEF FindSession

\* The second: the only step that tells a receiver an offer.
LEMMA GetOfferKeeps ==
  ASSUME Inductive, NEW r \in Receivers, GetOffer(r)
  PROVE  Inductive'
<1> USE RendezvousAssumption DEF Inductive, Clients
<1>1. pc[r] # "start" /\ tries \in [Senders -> 0..Attempts] /\ token[r] \in Tokens
  BY DEF ReceiverShape, GetOffer, RendezvousTypeOK
<1>2. CASE offer[token[r]] = None
  BY <1>1, <1>2, QuietResponse DEF GetOffer, Quiet, Responses, clients
<1>3. CASE offer[token[r]] # None
  <2> DEFINE s == offer[token[r]]
  <2>1. /\ s \in Senders /\ Respond(r, "offer", s) /\ joined[r] = None
        /\ UNCHANGED <<now, store, clients>>
    BY <1>1, <1>3 DEF GetOffer, RendezvousTypeOK, ReceiverShape
  <2>2. s = offer[token[r]]
    OBVIOUS
  <2> HIDE DEF s
  <2>a. /\ reply' \in [Clients -> Replies] /\ req' \in [Clients -> Reqs]
        /\ \A d \in Clients \ {r} : reply'[d] = reply[d] /\ req'[d] = req[d]
        /\ req'[r] = "none"
        /\ \/ reply'[r].code = "none" /\ pc[r] = "done"
           \/ reply'[r].code = "offer" /\ reply'[r].from = s /\ pc[r] # "done"
    BY <2>1, RespondFrame DEF Responses
  <2>3. RendezvousTypeOK'
    BY <2>1, <2>a DEF RendezvousTypeOK, Replies, Reqs, store, clients
  <2>4. SenderShape'
    BY <2>1, <2>a DEF SenderShape, clients
  <2>5. ReceiverShape'
    BY <2>1, <2>a DEF ReceiverShape, GetOffer, clients
  <2>6. OffersKnown'
    BY <2>1, <2>2, <2>a DEF OffersKnown, Busy, store, clients
  <2>7. AnswersFit'
    BY <2>1 DEF AnswersFit, store, clients
  <2>8. Settlements'
    <3>1. \A q \in Receivers : Took(q)' => Took(q)
      BY <2>1, <2>a DEF Took, clients
    <3>2. \A u \in Senders, q \in Receivers : Knows(u, q)' => Knows(u, q)
      BY <2>1, <2>a DEF Knows, clients
    <3>3. \A u \in Senders, q \in Receivers : Settled(u, q) => Settled(u, q)'
      BY <2>1 DEF Settled, store, clients
    <3> QED BY <2>1, <2>a, <3>1, <3>2, <3>3, SettlementsKept DEF clients
  <2> QED BY <2>3, <2>4, <2>5, <2>6, <2>7, <2>8
<1> QED BY <1>2, <1>3

\* The only step that settles an exchange, and none is settled twice.
LEMMA PutAnswerKeeps ==
  ASSUME Inductive, NEW r \in Receivers, PutAnswer(r)
  PROVE  Inductive'
<1> USE RendezvousAssumption DEF Inductive, Clients
<1>1. /\ pc[r] # "start" /\ tries \in [Senders -> 0..Attempts] /\ token[r] \in Tokens
      /\ joined[r] \in Senders
  BY DEF ReceiverShape, PutAnswer, RendezvousTypeOK
<1>2. CASE Respond(r, "not_found", None) /\ UNCHANGED answer
  BY <1>1, <1>2, QuietResponse DEF PutAnswer, Quiet, Responses, store, clients
<1>3. CASE Respond(r, "exists", None) /\ UNCHANGED answer
  BY <1>1, <1>3, QuietResponse DEF PutAnswer, Quiet, Responses, store, clients
<1>4. CASE /\ offer[token[r]] # None /\ answer[token[r]] = None
           /\ Respond(r, "created", None)
           /\ answer' = [answer EXCEPT ![token[r]] = r]
  <2> DEFINE s == joined[r]
             t == token[r]
  <2>1. s \in Senders /\ offer[t] = s /\ token[s] = t /\ t \in Tokens
    BY <1>1, <1>4 DEF PutAnswer, OffersKnown, Busy
  <2>2. /\ answer' = [answer EXCEPT ![t] = r] /\ answer[t] = None
        /\ answer \in [Tokens -> Receivers \cup {None}] /\ r # None
        /\ UNCHANGED <<now, offer, alarmAt, pc, token, expires, tries, joined, heard, result>>
    BY <1>4 DEF PutAnswer, RendezvousTypeOK, clients
  <2> HIDE DEF t
  <2>a. /\ reply' \in [Clients -> Replies] /\ req' \in [Clients -> Reqs]
        /\ \A d \in Clients \ {r} : reply'[d] = reply[d] /\ req'[d] = req[d]
        /\ req'[r] = "none"
        /\ \/ reply'[r].code = "none" /\ pc[r] = "done"
           \/ reply'[r].code = "created" /\ reply'[r].from = None /\ pc[r] # "done"
    BY <1>4, RespondFrame DEF Responses
  <2>3. RendezvousTypeOK'
    BY <2>1, <2>2, <2>a DEF RendezvousTypeOK, Replies, Reqs
  <2>4. SenderShape'
    BY <2>2, <2>a DEF SenderShape
  <2>5. ReceiverShape'
    BY <2>2, <2>a DEF ReceiverShape, PutAnswer
  <2>6. OffersKnown'
    BY <2>2, <2>a DEF OffersKnown, Busy
  <2>7. AnswersFit'
    BY <2>1, <2>2 DEF AnswersFit
  <2>8. Settlements'
    <3>1. \A q \in Receivers : Took(q)' => Took(q) \/ q = r
      BY <2>2, <2>a DEF Took
    <3>2. \A u \in Senders, q \in Receivers : Knows(u, q)' => Knows(u, q)
      BY <2>2, <2>a DEF Knows
    <3>3. \A u \in Senders, q \in Receivers : Settled(u, q) => u # s
      BY <2>1, <2>2 DEF Settled
    <3>4. \A u \in Senders, q \in Receivers : Settled(u, q) => Settled(u, q)'
      BY <2>1, <2>2, <3>3 DEF Settled, OffersKnown
    <3>5. Settled(s, r)'
      BY <2>1, <2>2 DEF Settled
    <3>6. \A q \in Receivers : Took(q) => joined[q] \in Senders \ {s}
      BY <3>3 DEF Settlements, Settled
    <3>7. \A u \in Senders : reply'[u].code = "answer" => reply'[u].from \in Receivers
      BY <2>a DEF Settlements
    <3> QED BY <2>1, <2>2, <3>1, <3>2, <3>3, <3>4, <3>5, <3>6, <3>7 DEF Settlements
  <2> QED BY <2>3, <2>4, <2>5, <2>6, <2>7, <2>8
<1> QED BY <1>2, <1>3, <1>4 DEF PutAnswer

\* A token drawn for s is nobody's, so s's offer is not taken for another.
LEMMA CreateSessionKeeps ==
  ASSUME Inductive, NEW s \in Senders, CreateSession(s)
  PROVE  Inductive'
<1> USE RendezvousAssumption DEF Inductive, Clients
<1>1. /\ pc[s] # "start" /\ token[s] = None /\ tries[s] < Attempts
      /\ tries \in [Senders -> 0..Attempts]
  BY DEF SenderShape, CreateSession, RendezvousTypeOK
<1>2. PICK t \in Tokens :
        /\ MayDraw(t)
        /\ \/ /\ offer[t] = None
              /\ offer' = [offer EXCEPT ![t] = s]
              /\ alarmAt' = [alarmAt EXCEPT ![t] = now + Ttl]
              /\ token' = [token EXCEPT ![s] = t]
              /\ GoOn(s, "stamp")
              /\ UNCHANGED tries
           \/ /\ tries' = [tries EXCEPT ![s] = @ + 1]
              /\ \/ Respond(s, "internal", None)
                 \/ tries'[s] # Attempts /\ UNCHANGED <<req, reply>>
              /\ UNCHANGED <<offer, alarmAt, token>>
  BY DEF CreateSession
<1>3. UNCHANGED <<now, answer, pc, expires, joined, heard, result>>
  BY DEF CreateSession
<1>4. CASE /\ tries' = [tries EXCEPT ![s] = @ + 1]
           /\ UNCHANGED <<offer, alarmAt, token>>
  <2>1. tries' \in [Senders -> 0..Attempts] /\ \A u \in Senders \ {s} : tries'[u] = tries[u]
    BY <1>1, <1>4
  <2>2. CASE Respond(s, "internal", None)
    BY <1>1, <1>3, <1>4, <2>1, <2>2, QuietResponse DEF Quiet, Responses, store
  <2>3. CASE tries'[s] # Attempts /\ UNCHANGED <<req, reply>>
    <3>1. RendezvousTypeOK'  BY <1>3, <1>4, <2>1, <2>3 DEF RendezvousTypeOK
    <3>2. SenderShape'       BY <1>1, <1>3, <1>4, <2>1, <2>3 DEF SenderShape
    <3>3. ReceiverShape'     BY <1>3, <1>4, <2>3 DEF ReceiverShape
    <3>4. OffersKnown'       BY <1>3, <1>4, <2>3 DEF OffersKnown, Busy
    <3>5. AnswersFit'        BY <1>3, <1>4 DEF AnswersFit
    <3>6. Settlements'       BY <1>3, <1>4, <2>3 DEF Settlements, Settled, Took, Knows
    <3> QED BY <3>1, <3>2, <3>3, <3>4, <3>5, <3>6
  <2>4. Respond(s, "internal", None) \/ (tries'[s] # Attempts /\ UNCHANGED <<req, reply>>)
    BY <1>1, <1>2, <1>4 DEF RendezvousTypeOK
  <2> QED BY <2>2, <2>3, <2>4
<1>5. CASE /\ offer[t] = None
           /\ offer' = [offer EXCEPT ![t] = s]
           /\ alarmAt' = [alarmAt EXCEPT ![t] = now + Ttl]
           /\ token' = [token EXCEPT ![s] = t]
           /\ GoOn(s, "stamp")
           /\ UNCHANGED tries
  <2> USE <1>1, <1>3, <1>5
  <2>1. \A c \in Clients : token[c] = t => ~Busy(c)
    BY <1>2 DEF MayDraw, Held, Busy
  <2>2. /\ offer \in [Tokens -> Senders \cup {None}] /\ token \in [Clients -> Tokens \cup {None}]
        /\ req' = [req EXCEPT ![s] = "stamp"] /\ UNCHANGED reply /\ req[s] = "create"
        /\ req \in [Clients -> Reqs]
    BY DEF GoOn, RendezvousTypeOK, CreateSession, Reqs
  <2>3. answer[t] = None
    BY DEF AnswersFit
  <2>4. \A u \in Senders, r \in Receivers : Settled(u, r) => u # s
    BY DEF Settled
  <2>5. RendezvousTypeOK'  BY <2>2 DEF RendezvousTypeOK, Reqs
  <2>6. SenderShape'       BY <2>2 DEF SenderShape, RendezvousTypeOK
  <2>7. ReceiverShape'     BY <2>2 DEF ReceiverShape
  <2>8. OffersKnown'
    <3>1. \A u \in Tokens, v \in Senders : offer'[u] = v => token'[v] = u
      BY <2>2 DEF OffersKnown
    <3>2. \A v \in Senders : token'[v] # None /\ Busy(v)' => offer'[token'[v]] \in {None, v}
      BY <2>1, <2>2 DEF OffersKnown, Busy
    <3>3. \A r \in Receivers :
            token[r] \in Tokens /\ Busy(r) => offer'[token'[r]] = offer[token[r]]
      BY <2>1, <2>2
    <3>4. \A r \in Receivers :
            /\ joined[r] # None \/ reply[r].code = "offer" => token[r] \in Tokens
            /\ reply[r].code = "offer" => Busy(r)
            /\ Busy(r)' <=> Busy(r)
            /\ token'[r] = token[r]
      BY <2>2 DEF ReceiverShape, Busy
    <3> QED BY <2>2, <3>1, <3>2, <3>3, <3>4 DEF OffersKnown
  <2>9. AnswersFit'        BY <2>2, <2>3 DEF AnswersFit
  <2>10. Settlements'
    <3>1. \A r \in Receivers : Took(r)' => Took(r)
      BY <2>2 DEF Took
    <3>2. \A u \in Senders, r \in Receivers : Knows(u, r)' => Knows(u, r)
      BY <2>2 DEF Knows
    <3>3. \A u \in Senders, r \in Receivers : Settled(u, r) => Settled(u, r)'
      BY <2>2, <2>4 DEF Settled
    <3> QED BY <2>2, <3>1, <3>2, <3>3, SettlementsKept
  <2> QED BY <2>5, <2>6, <2>7, <2>8, <2>9, <2>10
<1> QED BY <1>2, <1>4, <1>5

\* What a client that reads a response leaves.
LEMMA ReadType ==
  ASSUME RendezvousTypeOK, NEW c \in Clients, NEW codes, Read(c, codes)
  PROVE  reply' \in [Clients -> Replies] /\ req' \in [Clients -> Reqs]
<1>1. NoReply \in Replies
  BY DEF Response, NoReply, Replies, Responses
<1> QED BY <1>1 DEF Read, RendezvousTypeOK, Replies, Reqs

\* What a client that ends leaves.
LEMMA EndType ==
  ASSUME RendezvousTypeOK, NEW c \in Clients, NEW r \in Results, End(c, r)
  PROVE  /\ pc' \in [Clients -> {"start", "waiting", "poll", "answering", "done"}]
         /\ result' \in [Clients -> Results]
BY DEF End, RendezvousTypeOK, Results

\* A sender starts.
LEMMA AnnounceKeeps ==
  ASSUME Inductive, NEW s \in Senders, Announce(s)
  PROVE  Inductive'
<1> USE RendezvousAssumption DEF Inductive, Clients, store, clients
<1>1. RendezvousTypeOK'  BY DEF RendezvousTypeOK, Announce, Ask
<1> USE DEF Ask
<1>2. SenderShape'       BY DEF RendezvousTypeOK, Announce, SenderShape
<1>3. ReceiverShape'     BY DEF Announce, ReceiverShape
<1>4. OffersKnown'       BY DEF Announce, OffersKnown, Busy
<1>5. AnswersFit'        BY DEF Announce, AnswersFit
<1>6. Settlements'       BY DEF Announce, Settlements, Settled, Took, Knows
<1> QED BY <1>1, <1>2, <1>3, <1>4, <1>5, <1>6

\* The worker takes the expiry.
LEMMA StampExpiryKeeps ==
  ASSUME Inductive, NEW s \in Senders, StampExpiry(s)
  PROVE  Inductive'
<1> USE RendezvousAssumption DEF Inductive, Clients, store, clients
<1>1. RendezvousTypeOK'
  <2>1. reply' \in [Clients -> Replies] /\ req' \in [Clients -> Reqs]
    BY RespondFrame DEF StampExpiry, Responses
  <2>2. expires' \in [Senders -> Nat]
    BY DEF RendezvousTypeOK, StampExpiry
  <2> QED BY <2>1, <2>2 DEF RendezvousTypeOK, StampExpiry, Replies, Reqs
<1> USE DEF Respond, Response, NoReply
<1>2. SenderShape'       BY DEF StampExpiry, SenderShape
<1>3. ReceiverShape'     BY DEF StampExpiry, ReceiverShape
<1>4. OffersKnown'       BY DEF StampExpiry, OffersKnown, Busy
<1>5. AnswersFit'        BY DEF StampExpiry, AnswersFit
<1>6. Settlements'       BY DEF StampExpiry, Settlements, Settled, Took, Knows
<1> QED BY <1>1, <1>2, <1>3, <1>4, <1>5, <1>6

\* A sender learns that its session exists, or not.
LEMMA AnnouncedKeeps ==
  ASSUME Inductive, NEW s \in Senders, Announced(s)
  PROVE  Inductive'
<1> USE RendezvousAssumption DEF Inductive, Clients, store, clients
<1>1. RendezvousTypeOK'
  <2>1. reply' \in [Clients -> Replies] /\ req' \in [Clients -> Reqs]
    BY ReadType DEF Announced
  <2>2. CASE End(s, "internal")
    BY <2>1, <2>2, EndType DEF RendezvousTypeOK, Announced, Replies, Reqs, Results
  <2>3. CASE pc' = [pc EXCEPT ![s] = "poll"] /\ UNCHANGED result
    BY <2>1, <2>3 DEF RendezvousTypeOK, Announced, Replies, Reqs
  <2> QED BY <2>2, <2>3 DEF Announced
<1> USE DEF Read, End, Response, NoReply
<1>2. SenderShape'       BY DEF RendezvousTypeOK, Announced, SenderShape
<1>3. ReceiverShape'     BY DEF RendezvousTypeOK, Announced, ReceiverShape
<1>4. OffersKnown'       BY DEF RendezvousTypeOK, Announced, OffersKnown, Busy
<1>5. AnswersFit'        BY DEF Announced, AnswersFit
<1>6. Settlements'       BY DEF RendezvousTypeOK, Announced, Settlements, Settled, Took, Knows
<1> QED BY <1>1, <1>2, <1>3, <1>4, <1>5, <1>6

\* A sender polls.
LEMMA PollKeeps ==
  ASSUME Inductive, NEW s \in Senders, Poll(s)
  PROVE  Inductive'
<1> USE RendezvousAssumption DEF Inductive, Clients, store, clients
<1>1. RendezvousTypeOK'  BY DEF RendezvousTypeOK, Poll, Ask
<1> USE DEF Ask
<1>2. SenderShape'       BY DEF Poll, SenderShape
<1>3. ReceiverShape'     BY DEF Poll, ReceiverShape
<1>4. OffersKnown'       BY DEF Poll, OffersKnown, Busy
<1>5. AnswersFit'        BY DEF Poll, AnswersFit
<1>6. Settlements'       BY DEF Poll, Settlements, Settled, Took, Knows
<1> QED BY <1>1, <1>2, <1>3, <1>4, <1>5, <1>6

\* A sender remembers the answer it was told.
LEMMA PolledKeeps ==
  ASSUME Inductive, NEW s \in Senders, Polled(s)
  PROVE  Inductive'
<1> USE RendezvousAssumption DEF Inductive, Clients, store, clients
<1>1. RendezvousTypeOK'
  <2>1. reply' \in [Clients -> Replies] /\ req' \in [Clients -> Reqs]
    BY ReadType DEF Polled
  <2>2. heard' \in [Senders -> Receivers \cup {None}]
    BY DEF Polled, RendezvousTypeOK, Settlements
  <2>3. ASSUME NEW x \in {"ok", "timeout", "not_found"}, End(s, x)
        PROVE  RendezvousTypeOK'
    BY <2>1, <2>2, <2>3, EndType DEF RendezvousTypeOK, Polled, Replies, Reqs, Results
  <2>4. CASE pc' = [pc EXCEPT ![s] = "poll"] /\ UNCHANGED result
    BY <2>1, <2>2, <2>4 DEF RendezvousTypeOK, Polled, Replies, Reqs
  <2> QED BY <2>3, <2>4 DEF Polled
<1> USE DEF Read, End, Response, NoReply
<1>2. SenderShape'       BY DEF RendezvousTypeOK, Polled, SenderShape
<1>3. ReceiverShape'     BY DEF RendezvousTypeOK, Polled, ReceiverShape
<1>4. OffersKnown'       BY DEF RendezvousTypeOK, Polled, OffersKnown, Busy
<1>5. AnswersFit'        BY DEF Polled, AnswersFit
<1>6. Settlements'       BY DEF RendezvousTypeOK, Polled, Settlements, Settled, Took, Knows
<1> QED BY <1>1, <1>2, <1>3, <1>4, <1>5, <1>6

\* A receiver starts.
LEMMA JoinKeeps ==
  ASSUME Inductive, NEW r \in Receivers, Join(r)
  PROVE  Inductive'
<1> USE RendezvousAssumption DEF Inductive, Clients, store, clients
<1>1. RendezvousTypeOK'  BY DEF RendezvousTypeOK, Join, Ask
<1> USE DEF Ask
<1>2. SenderShape'       BY DEF Join, SenderShape
<1>3. ReceiverShape'     BY DEF RendezvousTypeOK, Join, ReceiverShape
<1>4. OffersKnown'       BY DEF Join, ReceiverShape, OffersKnown, Busy
<1>5. AnswersFit'        BY DEF Join, AnswersFit
<1>6. Settlements'       BY DEF Join, Settlements, Settled, Took, Knows
<1> QED BY <1>1, <1>2, <1>3, <1>4, <1>5, <1>6

\* A receiver remembers the offer it was told, once.
LEMMA JoinedKeeps ==
  ASSUME Inductive, NEW r \in Receivers, Joined(r)
  PROVE  Inductive'
<1> USE RendezvousAssumption DEF Inductive, Clients, store, clients
<1>1. RendezvousTypeOK'
  <2>1. reply' \in [Clients -> Replies] /\ req' \in [Clients -> Reqs]
    BY ReadType DEF Joined
  <2>2. joined' \in [Receivers -> Senders \cup {None}]
    BY DEF RendezvousTypeOK, Joined, Read, OffersKnown
  <2>3. pc' \in [Clients -> {"start", "waiting", "poll", "answering", "done"}]
    BY DEF RendezvousTypeOK, Joined
  <2> QED BY <2>1, <2>2, <2>3 DEF RendezvousTypeOK, Joined, Replies, Reqs
<1> USE DEF Read, Response, NoReply
<1>2. SenderShape'       BY DEF Joined, SenderShape
<1>3. ReceiverShape'     BY DEF RendezvousTypeOK, Joined, ReceiverShape, OffersKnown
<1>4. OffersKnown'       BY DEF Joined, OffersKnown, Busy
<1>5. AnswersFit'        BY DEF Joined, ReceiverShape, AnswersFit
<1>6. Settlements'       BY DEF Joined, ReceiverShape, Settlements, Settled, Took, Knows
<1> QED BY <1>1, <1>2, <1>3, <1>4, <1>5, <1>6

\* A receiver posts.
LEMMA PostAnswerKeeps ==
  ASSUME Inductive, NEW r \in Receivers, PostAnswer(r)
  PROVE  Inductive'
<1> USE RendezvousAssumption DEF Inductive, Clients, store, clients
<1>1. RendezvousTypeOK'  BY DEF RendezvousTypeOK, PostAnswer, Ask
<1> USE DEF Ask
<1>2. SenderShape'       BY DEF PostAnswer, SenderShape
<1>3. ReceiverShape'     BY DEF RendezvousTypeOK, PostAnswer, ReceiverShape
<1>4. OffersKnown'       BY DEF PostAnswer, OffersKnown, Busy
<1>5. AnswersFit'        BY DEF PostAnswer, AnswersFit
<1>6. Settlements'       BY DEF PostAnswer, Settlements, Settled, Took, Knows
<1> QED BY <1>1, <1>2, <1>3, <1>4, <1>5, <1>6

\* A receiver remembers that its answer was taken.
LEMMA AnsweredKeeps ==
  ASSUME Inductive, NEW r \in Receivers, Answered(r)
  PROVE  Inductive'
<1> USE RendezvousAssumption DEF Inductive, Clients, store, clients
<1>1. RendezvousTypeOK'
  <2>1. reply' \in [Clients -> Replies] /\ req' \in [Clients -> Reqs]
    BY ReadType DEF Answered
  <2>2. PICK x \in Results : End(r, x)
    BY DEF Answered, Read, Results, RendezvousTypeOK
  <2> QED BY <2>1, <2>2, EndType DEF RendezvousTypeOK, Answered, Replies, Reqs
<1> USE DEF Read, End, Response, NoReply
<1>2. SenderShape'       BY DEF Answered, SenderShape
<1>3. ReceiverShape'     BY DEF RendezvousTypeOK, Answered, ReceiverShape
<1>4. OffersKnown'       BY DEF Answered, OffersKnown, Busy
<1>5. AnswersFit'        BY DEF Answered, AnswersFit
<1>6. Settlements'       BY DEF Answered, Settlements, Settled, Took, Knows
<1> QED BY <1>1, <1>2, <1>3, <1>4, <1>5, <1>6

\* A client that gives up forgets what it had not read.
LEMMA GiveUpKeeps ==
  ASSUME Inductive, NEW c \in Clients, GiveUp(c)
  PROVE  Inductive'
<1> USE RendezvousAssumption DEF Inductive, Clients, store, clients
<1>1. RendezvousTypeOK'  BY DEF RendezvousTypeOK, GiveUp, End, NoReply, Response, Responses, Results
<1> USE DEF End, Response, NoReply
<1>2. SenderShape'       BY DEF GiveUp, SenderShape
<1>3. ReceiverShape'     BY DEF RendezvousTypeOK, GiveUp, ReceiverShape
<1>4. OffersKnown'       BY DEF GiveUp, OffersKnown, Busy
<1>5. AnswersFit'        BY DEF GiveUp, AnswersFit
<1>6. Settlements'       BY DEF GiveUp, Settlements, Settled, Took, Knows
<1> QED BY <1>1, <1>2, <1>3, <1>4, <1>5, <1>6

\* The alarm wipes the answer with the offer.
LEMMA AlarmKeeps ==
  ASSUME Inductive, NEW t \in Tokens, Alarm(t)
  PROVE  Inductive'
<1> USE RendezvousAssumption DEF Inductive, Clients, store, clients
<1>1. RendezvousTypeOK'  BY DEF RendezvousTypeOK, Alarm
<1>2. SenderShape'       BY DEF Alarm, SenderShape
<1>3. ReceiverShape'     BY DEF Alarm, ReceiverShape
<1>4. OffersKnown'       BY DEF Alarm, OffersKnown, Busy
<1>5. AnswersFit'        BY DEF RendezvousTypeOK, Alarm, AnswersFit
<1>6. Settlements'       BY DEF RendezvousTypeOK, Alarm, Settlements, Settled, Took, Knows
<1> QED BY <1>1, <1>2, <1>3, <1>4, <1>5, <1>6

\* Time passes.
LEMMA TickKeeps ==
  ASSUME Inductive, Tick
  PROVE  Inductive'
<1> USE RendezvousAssumption DEF Inductive, Clients, store, clients
<1>1. RendezvousTypeOK'  BY DEF RendezvousTypeOK, Tick
<1>2. SenderShape'       BY DEF Tick, SenderShape
<1>3. ReceiverShape'     BY DEF Tick, ReceiverShape
<1>4. OffersKnown'       BY DEF Tick, OffersKnown, Busy
<1>5. AnswersFit'        BY DEF Tick, AnswersFit
<1>6. Settlements'       BY DEF Tick, Settlements, Settled, Took, Knows
<1> QED BY <1>1, <1>2, <1>3, <1>4, <1>5, <1>6

-----------------------------------------------------------------------------
(* Theorems.                                                               *)

\* Every reachable state satisfies the inductive invariant.
THEOREM ExchangeInvariant == RendezvousSpec => []Inductive
<1>1. RendezvousInit => Inductive
  BY RendezvousAssumption DEF RendezvousInit, Inductive, RendezvousTypeOK, SenderShape, ReceiverShape,
     OffersKnown, AnswersFit, Settlements, Settled, Took, Knows, Busy, NoReply, Response,
     Responses, Results, Clients
<1>2. Inductive /\ [RendezvousNext]_rvars => Inductive'
  <2> SUFFICES ASSUME Inductive, [RendezvousNext]_rvars
               PROVE  Inductive'
    OBVIOUS
  <2>1. ASSUME NEW s \in Senders, Announce(s) \/ SenderRun(s) \/ WorkForSender(s)
        PROVE  Inductive'
    BY <2>1, AnnounceKeeps, AnnouncedKeeps, PollKeeps, PolledKeeps, CreateSessionKeeps,
       StampExpiryKeeps, LookUpKeeps, WaitAnswerKeeps DEF SenderRun, WorkForSender
  <2>2. ASSUME NEW r \in Receivers, Join(r) \/ ReceiverRun(r) \/ WorkForReceiver(r)
        PROVE  Inductive'
    BY <2>2, JoinKeeps, JoinedKeeps, PostAnswerKeeps, AnsweredKeeps, FindSessionKeeps,
       GetOfferKeeps, PutAnswerKeeps DEF ReceiverRun, WorkForReceiver
  <2>3. CASE UNCHANGED rvars
    BY <2>3 DEF rvars, store, clients, Inductive, RendezvousTypeOK, SenderShape, ReceiverShape,
       OffersKnown, AnswersFit, Settlements, Settled, Took, Knows, Busy
  <2> QED BY <2>1, <2>2, <2>3, GiveUpKeeps, AlarmKeeps, TickKeeps DEF RendezvousNext
<1> QED BY <1>1, <1>2, PTL DEF RendezvousSpec

\* waitForAnswer returns an answer to the sender's own offer, whatever was
\* wiped, mistyped or given up in between, as long as no token is drawn again
\* while a client of its old session still uses it (MayDraw).
THEOREM AnswersReachTheirOffer == RendezvousSpec => []RightAnswer
<1>1. Inductive => RightAnswer
  BY RendezvousAssumption DEF Inductive, RendezvousTypeOK, Settlements, Knows, Settled, RightAnswer
<1> QED BY <1>1, ExchangeInvariant, PTL

\* SessionDO.putAnswer takes one answer per session, and that is the one the
\* sender hears, under the same assumption on tokens (MayDraw).
THEOREM SessionsServeOnePair == RendezvousSpec => []OneExchange
<1>1. Inductive => OneExchange
  BY RendezvousAssumption
     DEF Inductive, RendezvousTypeOK, Settlements, Took, Knows, Settled, OneExchange
<1> QED BY <1>1, ExchangeInvariant, PTL

\* The step of one command that is its own.
EitherActs(c) == EitherStep(c) \/ RequestFails(c) \/ User(c)

-----------------------------------------------------------------------------
(* The worker's side.                                                      *)

\* One sender, one receiver.
LEMMA OneOfEach == "send" \in Senders /\ "receive" \in Receivers
BY HandshakeAssumption

\* A step of the commands is one of Rendezvous or leaves it alone.
LEMMA StepOfRendezvous ==
  ASSUME [HandshakeNext]_handshakeVars
  PROVE  [RendezvousNext]_rvars
<1> USE OneOfEach
<1>1. CASE SendStep
  BY <1>1 DEF SendStep, MakeOffer, ShowToken, SendReturns, SendSummary, Worker,
     SenderRun, RendezvousNext
<1>2. CASE ReceiveStep
  BY <1>2 DEF ReceiveStep, JoinPaste, MakeAnswer, ReceiveReturns, Worker,
     RendezvousNext
<1>3. CASE TokenPrompt
  BY <1>3 DEF TokenPrompt
<1>4. CASE Accept
  BY <1>4 DEF Accept
<1>5. CASE WorkerStep
  BY <1>5 DEF WorkerStep, RendezvousNext
<1>6. CASE Open
  BY <1>6 DEF Open
<1>7. ASSUME NEW c \in Cmds, EitherActs(c)
      PROVE  [RendezvousNext]_rvars
  <2>1. c \in Clients
    BY DEF Cmds, Clients
  <2> QED BY <1>7, <2>1 DEF EitherActs, EitherStep, RequestFails, User, Begin,
         FetchICE, PasteRead, PasteEof, PasteTimeout, WorkerEnds, WaitOpen,
         ContextEnds, ParkedRead, Interrupt, RendezvousNext
<1>8. CASE UNCHANGED handshakeVars
  BY <1>8 DEF handshakeVars
<1> QED BY <1>1, <1>2, <1>3, <1>4, <1>5, <1>6, <1>7, <1>8 DEF HandshakeNext,
   EitherActs

\* The commands, their prompts and their Ctrl-C, use the worker as SP/1
\* says: what is proved of Rendezvous holds of them.
THEOREM HandshakeKeepsProtocol == HandshakeSpec => RendezvousSpec
<1>1. HandshakeInit => RendezvousInit
  BY DEF HandshakeInit
<1> QED BY <1>1, StepOfRendezvous, PTL DEF HandshakeSpec, RendezvousSpec

-----------------------------------------------------------------------------
(* Types.                                                                  *)

Codes == {Running, 0, 1, 2, 3, 4, 130}

\* The types the proofs below need.
Typing ==
  /\ flags \in Calls
  /\ stage \in [Cmds -> Stages]
  /\ typed \in [Cmds -> Nat] /\ lost \in [Cmds -> Nat]
  /\ reader \in [Cmds -> {"none", "reading", "parked"}]
  /\ got \in [Cmds -> {"none", "fresh", "stale"}]
  /\ interrupted \in [Cmds -> BOOLEAN]
  /\ exit \in [Cmds -> Codes]
  /\ pc \in [Clients -> {"start", "waiting", "poll", "answering", "done"}]

\* A step of a client of the worker.
AtWorker == \/ Worker("send", Announce("send"))
            \/ Worker("send", Poll("send") \/ Polled("send"))
            \/ Worker("receive", Join("receive"))
            \/ Worker("receive", ReceiverRun("receive"))

\* Every step keeps Typing.
LEMMA TypingSteps ==
  ASSUME Typing, HandshakeNext
  PROVE  Typing'
<1> USE HandshakeAssumption DEF Typing, Stages, Cmds, Codes, Return, GoOnTo,
       ExitCode, stdin, peers, rvars, hvars, clients
<1>1. CASE MakeOffer
  BY <1>1 DEF MakeOffer
<1>2. CASE ShowToken
  BY <1>2 DEF ShowToken, Announced, End
<1>3. CASE SendReturns \/ SendSummary
  BY <1>3 DEF SendReturns, SendSummary
<1>4. CASE JoinPaste
  BY <1>4 DEF JoinPaste
<1>5. CASE MakeAnswer
  BY <1>5 DEF MakeAnswer
<1>6. CASE ReceiveReturns
  BY <1>6 DEF ReceiveReturns
<1>7. CASE TokenPrompt
  BY <1>7 DEF TokenPrompt, Answers, NoAnswer, Chunk, Typed, NoMore
<1>8. CASE Accept
  BY <1>8 DEF Accept, Answers, NoAnswer, Chunk, Typed, NoMore
<1>9. CASE WorkerStep
  BY <1>9 DEF WorkerStep, WorkForSender, CreateSession, StampExpiry, LookUp,
     WaitAnswer, WorkForReceiver, FindSession, GetOffer, PutAnswer, Alarm, Tick
<1>10. CASE Open
  BY <1>10 DEF Open
<1>11. CASE AtWorker
  BY <1>11 DEF AtWorker, Worker, Announce, Poll, Polled, Join, ReceiverRun,
     Joined, PostAnswer, Answered, Ask, End
<1>12. ASSUME NEW c \in Cmds, Begin(c)
       PROVE  Typing'
  BY <1>12 DEF Begin, Signaling
<1>13. ASSUME NEW c \in Cmds, FetchICE(c)
       PROVE  Typing'
  BY <1>13 DEF FetchICE, Signaling
<1>14. ASSUME NEW c \in Cmds, PasteRead(c)
       PROVE  Typing'
  BY <1>14 DEF PasteRead, Chunk, Typed, TakeBlob, OfflineFails
<1>15. ASSUME NEW c \in Cmds, PasteEof(c)
       PROVE  Typing'
  BY <1>15 DEF PasteEof, NoMore, OfflineFails
<1>16. ASSUME NEW c \in Cmds, PasteTimeout(c)
       PROVE  Typing'
  BY <1>16 DEF PasteTimeout, OfflineFails
<1>17. ASSUME NEW c \in Cmds, WorkerEnds(c)
       PROVE  Typing'
  BY <1>17 DEF WorkerEnds
<1>18. ASSUME NEW c \in Cmds, WaitOpen(c)
       PROVE  Typing'
  BY <1>18 DEF WaitOpen
<1>19. ASSUME NEW c \in Cmds, ContextEnds(c)
       PROVE  Typing'
  BY <1>19 DEF ContextEnds
<1>20. ASSUME NEW c \in Cmds, RequestFails(c)
       PROVE  Typing'
  BY <1>20 DEF RequestFails, GiveUp, End
<1>21. ASSUME NEW c \in Cmds, ParkedRead(c)
       PROVE  Typing'
  BY <1>21 DEF ParkedRead, Chunk, Typed, NoMore
<1>22. ASSUME NEW c \in Cmds, Interrupt(c)
       PROVE  Typing'
  BY <1>22 DEF Interrupt
<1> QED BY <1>1, <1>2, <1>3, <1>4, <1>5, <1>6, <1>7, <1>8, <1>9, <1>10, <1>11,
   <1>12, <1>13, <1>14, <1>15, <1>16, <1>17, <1>18, <1>19, <1>20, <1>21, <1>22
   DEF HandshakeNext, SendStep, ReceiveStep, EitherStep, User, AtWorker

-----------------------------------------------------------------------------
(* Away from the worker.                                                   *)

\* Called with --externals none, and neither --signal worker nor --relay on.
NoExternals(c) == /\ flags[c].choice[1] = "none" /\ flags[c].choice[2] # "worker"
                  /\ flags[c].choice[3] # "on"

\* Inductive: such a command is at no stage that leads to the worker.
StaysAway == \A c \in Cmds : NoExternals(c) =>
  pc[c] = "start" /\ stage[c] \notin {"ice", "worker", "prompt"}

\* ResolvePolicy neither asks for ICE servers then nor escalates.
LEMMA NoExternalsPolicy ==
  ASSUME NEW c \in Cmds, NoExternals(c)
  PROVE  ~Policy(c).escalate /\ ~Policy(c).fetchICE /\ Policy(c).signal # "worker"
BY DEF NoExternals, Policy, ResolvePolicy

\* Every step keeps StaysAway.
LEMMA StaysAwaySteps ==
  ASSUME Typing, StaysAway, HandshakeNext
  PROVE  StaysAway'
<1> USE HandshakeAssumption, NoExternalsPolicy DEF StaysAway, NoExternals,
       Typing, Cmds, Clients, Return, GoOnTo, rvars, hvars, clients, Offline
<1>1. CASE MakeOffer
  BY <1>1 DEF MakeOffer
<1>2. CASE ShowToken
  BY <1>2 DEF ShowToken, Announced, End
<1>3. CASE SendReturns \/ SendSummary
  BY <1>3 DEF SendReturns, SendSummary
<1>4. CASE JoinPaste
  BY <1>4 DEF JoinPaste
<1>5. CASE MakeAnswer
  BY <1>5 DEF MakeAnswer
<1>6. CASE ReceiveReturns
  BY <1>6 DEF ReceiveReturns
<1>7. CASE TokenPrompt
  BY <1>7 DEF TokenPrompt
<1>8. CASE Accept
  BY <1>8 DEF Accept
<1>9. CASE WorkerStep
  BY <1>9 DEF WorkerStep, WorkForSender, CreateSession, StampExpiry, LookUp,
     WaitAnswer, WorkForReceiver, FindSession, GetOffer, PutAnswer, Alarm, Tick
<1>10. CASE Open
  BY <1>10 DEF Open
<1>11. CASE AtWorker
  BY <1>11 DEF AtWorker, Worker, Announce, Poll, Polled, Join, ReceiverRun,
     Joined, PostAnswer, Answered, Ask, End
<1>12. ASSUME NEW c \in Cmds, Begin(c)
       PROVE  StaysAway'
  BY <1>12 DEF Begin, Signaling
<1>13. ASSUME NEW c \in Cmds, FetchICE(c)
       PROVE  StaysAway'
  BY <1>13 DEF FetchICE
<1>14. ASSUME NEW c \in Cmds, PasteRead(c)
       PROVE  StaysAway'
  BY <1>14 DEF PasteRead, TakeBlob, OfflineFails
<1>15. ASSUME NEW c \in Cmds, PasteEof(c)
       PROVE  StaysAway'
  BY <1>15 DEF PasteEof, OfflineFails
<1>16. ASSUME NEW c \in Cmds, PasteTimeout(c)
       PROVE  StaysAway'
  BY <1>16 DEF PasteTimeout, OfflineFails
<1>17. ASSUME NEW c \in Cmds, WorkerEnds(c)
       PROVE  StaysAway'
  BY <1>17 DEF WorkerEnds
<1>18. ASSUME NEW c \in Cmds, WaitOpen(c)
       PROVE  StaysAway'
  BY <1>18 DEF WaitOpen
<1>19. ASSUME NEW c \in Cmds, ContextEnds(c)
       PROVE  StaysAway'
  BY <1>19 DEF ContextEnds
<1>20. ASSUME NEW c \in Cmds, RequestFails(c)
       PROVE  StaysAway'
  BY <1>20 DEF RequestFails, GiveUp, End
<1>21. ASSUME NEW c \in Cmds, ParkedRead(c)
       PROVE  StaysAway'
  BY <1>21 DEF ParkedRead
<1>22. ASSUME NEW c \in Cmds, Interrupt(c)
       PROVE  StaysAway'
  BY <1>22 DEF Interrupt
<1> QED BY <1>1, <1>2, <1>3, <1>4, <1>5, <1>6, <1>7, <1>8, <1>9, <1>10, <1>11,
   <1>12, <1>13, <1>14, <1>15, <1>16, <1>17, <1>18, <1>19, <1>20, <1>21, <1>22
   DEF HandshakeNext, SendStep, ReceiveStep, EitherStep, User, AtWorker

-----------------------------------------------------------------------------
(* A terminal's lines.                                                     *)

\* The stages up to the end of the paste.
Early == {"start", "ice", "offer", "wait", "join", "answer"}

\* Inductive: the paste's read stays behind at most once, and takes one line.
TerminalLines == \A c \in Cmds : flags[c].terminal =>
  /\ lost[c] \in {0, 1}
  /\ lost[c] = 1 => reader[c] = "none" /\ stage[c] \notin Early
  /\ reader[c] = "parked" => lost[c] = 0 /\ stage[c] \notin Early

\* Every step keeps TerminalLines.
LEMMA TerminalLinesSteps ==
  ASSUME Typing, TerminalLines, HandshakeNext
  PROVE  TerminalLines'
<1> USE HandshakeAssumption DEF TerminalLines, Early, Typing, Return, GoOnTo,
       stdin, hvars
<1>1. CASE MakeOffer
  BY <1>1 DEF MakeOffer
<1>2. CASE ShowToken
  BY <1>2 DEF ShowToken
<1>3. CASE SendReturns \/ SendSummary
  BY <1>3 DEF SendReturns, SendSummary
<1>4. CASE JoinPaste
  BY <1>4 DEF JoinPaste
<1>5. CASE MakeAnswer
  BY <1>5 DEF MakeAnswer
<1>6. CASE ReceiveReturns
  BY <1>6 DEF ReceiveReturns
<1>7. CASE TokenPrompt
  BY <1>7 DEF TokenPrompt
<1>8. CASE Accept
  BY <1>8 DEF Accept
<1>9. CASE WorkerStep
  BY <1>9 DEF WorkerStep
<1>10. CASE Open
  BY <1>10 DEF Open
<1>11. CASE AtWorker
  BY <1>11 DEF AtWorker, Worker
<1>12. ASSUME NEW c \in Cmds, Begin(c)
       PROVE  TerminalLines'
  BY <1>12 DEF Begin
<1>13. ASSUME NEW c \in Cmds, FetchICE(c)
       PROVE  TerminalLines'
  BY <1>13 DEF FetchICE
<1>14. ASSUME NEW c \in Cmds, PasteRead(c)
       PROVE  TerminalLines'
  BY <1>14 DEF PasteRead, AtPaste, Chunk, AtMost, TakeBlob, OfflineFails
<1>15. ASSUME NEW c \in Cmds, PasteEof(c)
       PROVE  TerminalLines'
  BY <1>15 DEF PasteEof, OfflineFails
<1>16. ASSUME NEW c \in Cmds, PasteTimeout(c)
       PROVE  TerminalLines'
  BY <1>16 DEF PasteTimeout, AtPaste, OfflineFails
<1>17. ASSUME NEW c \in Cmds, WorkerEnds(c)
       PROVE  TerminalLines'
  BY <1>17 DEF WorkerEnds
<1>18. ASSUME NEW c \in Cmds, WaitOpen(c)
       PROVE  TerminalLines'
  BY <1>18 DEF WaitOpen
<1>19. ASSUME NEW c \in Cmds, ContextEnds(c)
       PROVE  TerminalLines'
  BY <1>19 DEF ContextEnds
<1>20. ASSUME NEW c \in Cmds, RequestFails(c)
       PROVE  TerminalLines'
  BY <1>20 DEF RequestFails
<1>21. ASSUME NEW c \in Cmds, ParkedRead(c)
       PROVE  TerminalLines'
  BY <1>21 DEF ParkedRead, Chunk, AtMost
<1>22. ASSUME NEW c \in Cmds, Interrupt(c)
       PROVE  TerminalLines'
  BY <1>22 DEF Interrupt
<1> QED BY <1>1, <1>2, <1>3, <1>4, <1>5, <1>6, <1>7, <1>8, <1>9, <1>10, <1>11,
   <1>12, <1>13, <1>14, <1>15, <1>16, <1>17, <1>18, <1>19, <1>20, <1>21, <1>22
   DEF HandshakeNext, SendStep, ReceiveStep, EitherStep, User, AtWorker

-----------------------------------------------------------------------------
(* Exit codes.                                                             *)

\* The stages before the peer's description is known.
Searching == {"start", "ice", "offer", "wait", "join", "prompt", "worker"}

\* Inductive: a transfer needs an open channel, the channel both
\* descriptions, and what became of the files is settled once.
Telling ==
  /\ \A c \in Cmds :
       /\ exit[c] # Running <=> stage[c] = "exited"
       /\ stage[c] \in Searching => got[c] = "none"
       /\ (stage[c] \in {"transfer", "summary", "accept", "moving"}
             \/ exit[c] \in {0, 3, 4}) => opened
       /\ opened => got[c] = "fresh"
  /\ stage["receive"] \notin {"moving", "exited"} => fate = "none"
  /\ stage["receive"] = "moving" => fate \in {"accepted", "sent"}
  /\ stage["send"] = "summary" => fate = "sent"
  /\ ExitIsTrue

\* A command that returns from a transfer keeps Telling if what its code says
\* of the files is true and the code is that of its context.
LEMMA ReturnTells ==
  ASSUME Typing, Telling, NEW c \in Cmds, NEW code \in {0, 1, 3, 4, 130},
         exit[c] = Running, opened, UNCHANGED <<got, opened, interrupted>>,
         stage' = [stage EXCEPT ![c] = "exited"], exit' = [exit EXCEPT ![c] = code],
         fate' = fate \/ (/\ c = "receive" /\ stage["send"] # "summary"
                         /\ fate = "accepted" /\ fate' = "corrupt"),
         code = 0 => fate' = "sent",
         code = 4 => fate' = "corrupt",
         code = 3 => fate' = "declined" \/ (c = "send" /\ fate' = "failed"),
         code = 130 <=> interrupted[c] /\ code # 0
  PROVE  Telling'
<1> USE DEF Typing, Telling, ExitIsTrue, Cmds, Running, Other, Searching
<1>1. exit \in [Cmds -> Int] /\ stage \in [Cmds -> Stages]
  BY DEF Codes
<1>2. exit'[c] = code /\ stage'[c] = "exited"
  BY <1>1
<1>3. exit'[Other(c)] = exit[Other(c)] /\ stage'[Other(c)] = stage[Other(c)]
  BY <1>1
<1>4. \A d \in Cmds : d = c \/ d = Other(c)
  OBVIOUS
<1>5. \A d \in Cmds : exit[d] # 2
  OBVIOUS
<1>6. fate' # fate => \A d \in Cmds : exit[d] \notin {0, 3, 4}
  BY <1>1
<1>7. ExitIsTrue'
  <2> SUFFICES ASSUME NEW d \in Cmds
               PROVE  /\ exit'[d] = 0 => fate' = "sent" /\ exit'[Other(d)] \in {Running, 0, 1, 130}
                      /\ exit'[d] = 4 => fate' = "corrupt" /\ exit'[Other(d)] \notin {0, 2, 3}
                      /\ exit'[d] = 3 => /\ fate' = "declined" \/ (d = "send" /\ fate' = "failed")
                                        /\ exit'[Other(d)] \notin {0, 2, 4}
                      /\ exit'[d] = 2 => got'[d] = "none" /\ exit'[Other(d)] \notin {0, 3, 4}
                      /\ exit'[d] # Running => (exit'[d] = 130 <=> interrupted'[d] /\ exit'[d] # 0)
    OBVIOUS
  <2>1. CASE d = c
    BY <1>1, <1>2, <1>3, <1>5, <1>6, <2>1 DEF Codes
  <2>2. CASE d = Other(c)
    BY <1>1, <1>2, <1>3, <1>5, <1>6, <2>2 DEF Codes
  <2>3. QED
    BY <1>4, <2>1, <2>2
<1>8. QED
  BY <1>1, <1>2, <1>3, <1>4, <1>7

\* Send and the summary after it, and Receive.
LEMMA SendTells ==
  ASSUME Typing, Telling, SendReturns \/ SendSummary
  PROVE  Telling'
<1>1. CASE SendReturns /\ fate = "accepted" /\ fate' = "sent" /\ GoOnTo("send", "summary")
  BY <1>1 DEF SendReturns, GoOnTo, Typing, Telling, ExitIsTrue, Searching, Cmds, Running,
              Other, Codes
<1>2. ASSUME NEW error \in {"nil", "hash-mismatch", "rejected", "other"},
             Return("send", error), SendReturns \/ SendSummary, UNCHANGED fate,
             error = "nil" => fate = "sent",
             error = "hash-mismatch" => fate = "corrupt",
             error = "rejected" => fate \in {"declined", "failed"}
      PROVE  Telling'
  <2> DEFINE code == ExitCode(error, interrupted["send"])
  <2>1. /\ code \in {0, 1, 3, 4, 130}
        /\ code = 0 <=> error = "nil"
        /\ code = 4 => error = "hash-mismatch"
        /\ code = 3 => error = "rejected"
        /\ code = 130 <=> interrupted["send"] /\ code # 0
    BY <1>2 DEF ExitCode
  <2>2. stage["send"] \in {"transfer", "summary"} /\ UNCHANGED <<got, opened, interrupted>>
    BY <1>2 DEF SendReturns, SendSummary, peers
  <2>3. opened /\ exit["send"] = Running
    BY <2>2 DEF Telling, Cmds
  <2>4. stage' = [stage EXCEPT !["send"] = "exited"] /\ exit' = [exit EXCEPT !["send"] = code]
    BY <1>2 DEF Return
  <2> HIDE DEF code
  <2>5. code = 0 => fate' = "sent"
    BY <1>2, <2>1
  <2>6. code = 4 => fate' = "corrupt"
    BY <1>2, <2>1
  <2>7. code = 3 => fate' = "declined" \/ ("send" = "send" /\ fate' = "failed")
    BY <1>2, <2>1
  <2>8. "send" \in Cmds
    BY DEF Cmds
  <2>9. QED
    BY <1>2, <2>1, <2>2, <2>3, <2>4, <2>5, <2>6, <2>7, <2>8, ReturnTells
<1>3. QED
  BY <1>1, <1>2 DEF SendReturns, SendSummary, peers, Telling

LEMMA ReceiveTells ==
  ASSUME Typing, Telling, ReceiveReturns
  PROVE  Telling'
<1>1. PICK error \in {"nil", "hash-mismatch", "other"} :
        /\ Return("receive", error)
        /\ fate' = fate \/ (error = "hash-mismatch" /\ fate = "accepted" /\ fate' = "corrupt")
        /\ error = "nil" => fate' = "sent"
        /\ error = "hash-mismatch" => fate' = "corrupt"
  BY DEF ReceiveReturns
<1> DEFINE code == ExitCode(error, interrupted["receive"])
<1>2. /\ code \in {0, 1, 3, 4, 130}
      /\ code = 0 <=> error = "nil"
      /\ code = 4 => error = "hash-mismatch"
      /\ code # 3
      /\ code = 130 <=> interrupted["receive"] /\ code # 0
  BY <1>1 DEF ExitCode
<1>3. stage["receive"] = "moving" /\ UNCHANGED <<got, opened, interrupted>>
  BY DEF ReceiveReturns
<1>4. /\ opened /\ exit["receive"] = Running
      /\ fate = "accepted" => stage["send"] # "summary"
  BY <1>3 DEF Telling, Cmds
<1>5. stage' = [stage EXCEPT !["receive"] = "exited"] /\ exit' = [exit EXCEPT !["receive"] = code]
  BY <1>1 DEF Return
<1> HIDE DEF code
<1>6. fate' = fate \/ (/\ "receive" = "receive" /\ stage["send"] # "summary"
                      /\ fate = "accepted" /\ fate' = "corrupt")
  BY <1>1, <1>4
<1>7. code = 0 => fate' = "sent"
  BY <1>1, <1>2
<1>8. code = 4 => fate' = "corrupt"
  BY <1>1, <1>2
<1>9. "receive" \in Cmds
  BY DEF Cmds
<1>10. QED
  BY <1>2, <1>3, <1>4, <1>5, <1>6, <1>7, <1>8, <1>9, ReturnTells

\* Every step keeps Telling.
LEMMA TellingSteps ==
  ASSUME Typing, Telling, HandshakeNext
  PROVE  Telling'
<1> USE HandshakeAssumption DEF Telling, ExitIsTrue, Other, Searching, Typing,
       Cmds, Return, GoOnTo, peers, hvars, ExitCode, Running
<1>1. CASE MakeOffer
  BY <1>1 DEF MakeOffer
<1>2. CASE ShowToken
  BY <1>2 DEF ShowToken
<1>3. CASE SendReturns \/ SendSummary
  BY <1>3, SendTells
<1>4. CASE JoinPaste
  BY <1>4 DEF JoinPaste
<1>5. CASE MakeAnswer
  BY <1>5 DEF MakeAnswer
<1>6. CASE ReceiveReturns
  BY <1>6, ReceiveTells
<1>7. CASE TokenPrompt
  BY <1>7 DEF TokenPrompt
<1>8. CASE Accept
  BY <1>8 DEF Accept
<1>9. CASE WorkerStep
  BY <1>9 DEF WorkerStep
<1>10. CASE Open
  BY <1>10 DEF Open
<1>11. CASE AtWorker
  BY <1>11 DEF AtWorker, Worker
<1>12. ASSUME NEW c \in Cmds, Begin(c)
       PROVE  Telling'
  BY <1>12 DEF Begin, Signaling
<1>13. ASSUME NEW c \in Cmds, FetchICE(c)
       PROVE  Telling'
  BY <1>13 DEF FetchICE, Signaling
<1>14. ASSUME NEW c \in Cmds, PasteRead(c)
       PROVE  Telling'
  BY <1>14 DEF PasteRead, AtPaste, TakeBlob, OfflineFails
<1>15. ASSUME NEW c \in Cmds, PasteEof(c)
       PROVE  Telling'
  BY <1>15 DEF PasteEof, AtPaste, OfflineFails
<1>16. ASSUME NEW c \in Cmds, PasteTimeout(c)
       PROVE  Telling'
  BY <1>16 DEF PasteTimeout, AtPaste, OfflineFails
<1>17. ASSUME NEW c \in Cmds, WorkerEnds(c)
       PROVE  Telling'
  BY <1>17 DEF WorkerEnds
<1>18. ASSUME NEW c \in Cmds, WaitOpen(c)
       PROVE  Telling'
  BY <1>18 DEF WaitOpen
<1>19. ASSUME NEW c \in Cmds, ContextEnds(c)
       PROVE  Telling'
  BY <1>19 DEF ContextEnds
<1>20. ASSUME NEW c \in Cmds, RequestFails(c)
       PROVE  Telling'
  BY <1>20 DEF RequestFails
<1>21. ASSUME NEW c \in Cmds, ParkedRead(c)
       PROVE  Telling'
  BY <1>21 DEF ParkedRead
<1>22. ASSUME NEW c \in Cmds, Interrupt(c)
       PROVE  Telling'
  BY <1>22 DEF Interrupt
<1> QED BY <1>1, <1>2, <1>3, <1>4, <1>5, <1>6, <1>7, <1>8, <1>9, <1>10, <1>11,
   <1>12, <1>13, <1>14, <1>15, <1>16, <1>17, <1>18, <1>19, <1>20, <1>21, <1>22
   DEF HandshakeNext, SendStep, ReceiveStep, EitherStep, User, AtWorker

-----------------------------------------------------------------------------
(* Theorems.                                                               *)

HandshakeInductive == Typing /\ StaysAway /\ TerminalLines /\ Telling

\* Every reachable state satisfies the inductive invariant.
THEOREM HandshakeInvariant == HandshakeSpec => []HandshakeInductive
<1>1. HandshakeInit => HandshakeInductive
  BY HandshakeAssumption DEF HandshakeInit, RendezvousInit, HandshakeInductive,
     Typing, StaysAway, NoExternals, TerminalLines, Early, Telling, ExitIsTrue,
     Searching, Stages, Codes, Running, Cmds, Clients, Other
<1>2. HandshakeInductive /\ [HandshakeNext]_handshakeVars => HandshakeInductive'
  <2>1. HandshakeInductive /\ HandshakeNext => HandshakeInductive'
    BY TypingSteps, StaysAwaySteps, TerminalLinesSteps, TellingSteps
       DEF HandshakeInductive
  <2>2. HandshakeInductive /\ UNCHANGED handshakeVars => HandshakeInductive'
    BY DEF handshakeVars, rvars, hvars, clients, HandshakeInductive, Typing,
       StaysAway, NoExternals, TerminalLines, Telling, ExitIsTrue
  <2> QED BY <2>1, <2>2
<1> QED BY <1>1, <1>2, PTL DEF HandshakeSpec

\* A send or receive that resolves to no externals never asks for ICE
\* servers and sends the worker nothing, however its paste ends.
THEOREM NoneMakesNoContact == HandshakeSpec => []NoneStaysOffline
<1>1. HandshakeInductive => NoneStaysOffline
  BY DEF HandshakeInductive, StaysAway, NoExternals, NoneStaysOffline
<1> QED BY <1>1, HandshakeInvariant, PTL

\* readPayload and readLine together lose at most the one line typed at a
\* terminal for a paste that had timed out.
THEOREM TerminalsKeepLines == HandshakeSpec => []TerminalKeepsLines
<1>1. HandshakeInductive => TerminalKeepsLines
  BY DEF HandshakeInductive, TerminalLines, Early, TerminalKeepsLines
<1> QED BY <1>1, HandshakeInvariant, PTL

\* What Main exits with is true of both ends.
THEOREM ExitCodesAreTrue == HandshakeSpec => []ExitIsTrue
<1>1. HandshakeInductive => ExitIsTrue
  BY DEF HandshakeInductive, Telling
<1> QED BY <1>1, HandshakeInvariant, PTL

-----------------------------------------------------------------------------
(* The remaining types: of stdin, and of what the users see.               *)

Inputs ==
  /\ held \in [Cmds -> Seq(Lines)]
  /\ \A c \in Cmds : typed[c] <= MaxLines[c]
  /\ screen \subseteq {"offer", "answer", "token"}
  /\ opened \in BOOLEAN
  /\ fate \in {"none", "accepted", "declined", "failed", "corrupt", "sent"}

\* A Read returns no more lines than there are, and takes the input no
\* further than to its end.
LEMMA ReadsWithinInput ==
  ASSUME Typing, Inputs, NEW c \in Cmds, NEW n \in Chunk(c), Typed(c, n)
  PROVE  n \in Nat \ {0} /\ \A d \in Cmds : typed'[d] <= MaxLines[d]
BY HandshakeAssumption DEF Typing, Inputs, Chunk, AtMost, Typed, Cmds

LEMMA EndWithinInput ==
  ASSUME Typing, Inputs, NEW c \in Cmds, NoMore(c)
  PROVE  \A d \in Cmds : typed'[d] <= MaxLines[d]
BY HandshakeAssumption DEF Typing, Inputs, NoMore, Cmds

\* The prompts take one line and hold the rest of what a Read returned.
LEMMA PromptKeepsInputs ==
  ASSUME Typing, Inputs, NEW line, Answers(line)
  PROVE  /\ held' \in [Cmds -> Seq(Lines)]
         /\ \A c \in Cmds : typed'[c] <= MaxLines[c]
<1> DEFINE c == "receive"
<1>0. c \in Cmds /\ held[c] \in Seq(Lines)
  BY DEF Cmds, Inputs
<1>1. CASE held[c] # <<>> /\ held' = [held EXCEPT ![c] = Tail(@)] /\ UNCHANGED typed
  <2>1. Tail(held[c]) \in Seq(Lines)
    BY <1>0, <1>1
  <2>2. QED
    BY <1>0, <1>1, <2>1 DEF Inputs
<1>2. ASSUME NEW n \in Chunk(c), Typed(c, n), NEW rest \in [1..n-1 -> Given(c)],
             held' = [held EXCEPT ![c] = rest]
      PROVE  /\ held' \in [Cmds -> Seq(Lines)]
             /\ \A d \in Cmds : typed'[d] <= MaxLines[d]
  <2>1. n \in Nat \ {0} /\ \A d \in Cmds : typed'[d] <= MaxLines[d]
    BY <1>0, <1>2, ReadsWithinInput
  <2>2. Given(c) \subseteq Lines
    BY DEF Given, Lines, Inputs
  <2>3. n - 1 \in Nat /\ rest \in [1..n-1 -> Lines]
    BY <1>2, <2>1, <2>2
  <2>4. rest \in Seq(Lines)
    BY <2>3
  <2>5. QED
    BY <1>0, <1>2, <2>1, <2>4 DEF Inputs
<1>3. QED
  BY <1>1, <1>2 DEF Answers

\* Every step keeps Inputs.
LEMMA InputsSteps ==
  ASSUME Typing, Inputs, HandshakeNext
  PROVE  Inputs'
<1> USE DEF stdin, peers, hvars
<1>1. CASE MakeOffer \/ ShowToken \/ MakeAnswer \/ Open
  BY <1>1 DEF Inputs, MakeOffer, ShowToken, MakeAnswer, Open
<1>2. CASE SendReturns \/ SendSummary \/ JoinPaste \/ ReceiveReturns \/ WorkerStep \/ AtWorker
  BY <1>2 DEF Inputs, SendReturns, SendSummary, JoinPaste, ReceiveReturns, WorkerStep,
              AtWorker, Worker
<1>3. CASE TokenPrompt
  <2>1. CASE \E line : Answers(line)
    BY <1>3, <2>1, PromptKeepsInputs DEF Inputs, TokenPrompt
  <2>2. CASE NoAnswer
    BY <1>3, <2>2, EndWithinInput DEF Inputs, TokenPrompt, NoAnswer, Cmds
  <2>3. QED
    BY <1>3, <2>1, <2>2 DEF TokenPrompt
<1>4. CASE Accept
  <2>1. fate' \in {"accepted", "declined", "failed"} /\ UNCHANGED <<screen, opened>>
    BY <1>4 DEF Accept
  <2>2. CASE \E line : Answers(line)
    BY <2>1, <2>2, PromptKeepsInputs DEF Inputs
  <2>3. CASE NoAnswer
    BY <2>1, <2>3, EndWithinInput DEF Inputs, NoAnswer, Cmds
  <2>4. CASE UNCHANGED <<held, typed>>
    BY <2>1, <2>4 DEF Inputs
  <2>5. QED
    BY <1>4, <2>2, <2>3, <2>4 DEF Accept
<1>5. ASSUME NEW c \in Cmds, PasteRead(c) \/ ParkedRead(c)
      PROVE  Inputs'
  <2>1. UNCHANGED <<held, screen, opened, fate>>
    BY <1>5 DEF PasteRead, ParkedRead
  <2>2. (\E n \in Chunk(c) : Typed(c, n)) \/ NoMore(c)
    BY <1>5 DEF PasteRead, ParkedRead
  <2>3. QED
    BY <2>1, <2>2, ReadsWithinInput, EndWithinInput DEF Inputs
<1>6. ASSUME NEW c \in Cmds, PasteEof(c)
      PROVE  Inputs'
  BY <1>6, EndWithinInput DEF PasteEof, Inputs
<1>7. ASSUME NEW c \in Cmds,
             \/ Begin(c) \/ FetchICE(c) \/ PasteTimeout(c) \/ WorkerEnds(c)
             \/ WaitOpen(c) \/ ContextEnds(c) \/ RequestFails(c) \/ Interrupt(c)
      PROVE  Inputs'
  BY <1>7 DEF Inputs, Begin, FetchICE, PasteTimeout, WorkerEnds, WaitOpen, ContextEnds,
              RequestFails, Interrupt
<1> QED BY <1>1, <1>2, <1>3, <1>4, <1>5, <1>6, <1>7
   DEF HandshakeNext, SendStep, ReceiveStep, EitherStep, User, AtWorker

\* Every variable of the two commands and of the worker keeps its type, and
\* neither reads more lines than its stdin holds.
THEOREM HandshakeTypes == HandshakeSpec => []HandshakeTypeOK
<1>1. HandshakeInit => Inputs
  <2> SUFFICES ASSUME HandshakeInit PROVE Inputs
    OBVIOUS
  <2>1. <<>> \in Seq(Lines)
    OBVIOUS
  <2>2. held \in [Cmds -> Seq(Lines)]
    BY <2>1, Zenon DEF HandshakeInit
  <2>3. \A c \in Cmds : typed[c] <= MaxLines[c]
    BY HandshakeAssumption DEF HandshakeInit
  <2> QED BY <2>2, <2>3 DEF HandshakeInit, Inputs
<1>2. HandshakeInductive /\ Inputs /\ [HandshakeNext]_handshakeVars => Inputs'
  <2>1. HandshakeInductive /\ Inputs /\ HandshakeNext => Inputs'
    BY InputsSteps DEF HandshakeInductive
  <2>2. Inputs /\ UNCHANGED handshakeVars => Inputs'
    BY DEF Inputs, handshakeVars, hvars
  <2> QED BY <2>1, <2>2
<1>3. HandshakeSpec => []Inputs
  BY <1>1, <1>2, HandshakeInvariant, PTL DEF HandshakeSpec
<1>4. Inductive /\ HandshakeInductive /\ Inputs => HandshakeTypeOK
  BY DEF Inductive, HandshakeInductive, Typing, Codes, Inputs, HandshakeTypeOK
<1> QED BY <1>3, <1>4, HandshakeInvariant, ExchangeInvariant, HandshakeKeepsProtocol, PTL
=============================================================================
