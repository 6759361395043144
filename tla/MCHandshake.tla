---------------------------- MODULE MCHandshake ----------------------------
(***************************************************************************)
(* Every pairing of four policies; a session of one tick; the receiver's   *)
(* stdin may hold an offer, a token and an answer to the accept prompt.    *)
(***************************************************************************)
EXTENDS Handshake

MCSenders   == {"send"}
MCReceivers == {"receive"}
MCTokens    == {"t"}
MCMaxLines  == [c \in {"send", "receive"} |-> IF c = "send" THEN 1 ELSE 2]

Call(preset, signal, t, y, tty) ==
  [choice |-> <<preset, signal, "unset">>, token |-> t, yes |-> y, terminal |-> tty]
Pair(s, r) == [c \in {"send", "receive"} |-> IF c = "send" THEN s ELSE r]

\* Both offline, at terminals or piped; both with the fallback; the worker
\* at once at either end, which is where fallbacks miss each other; and calls
\* that are refused.
MCCalls ==
  {Pair(Call("none", "qr", FALSE, FALSE, TRUE), Call("none", "qr", FALSE, FALSE, TRUE)),
   Pair(Call("none", "", FALSE, FALSE, TRUE), Call("none", "", FALSE, FALSE, FALSE)),
   Pair(Call("fallback", "", FALSE, FALSE, TRUE), Call("fallback", "", FALSE, FALSE, FALSE)),
   Pair(Call("full", "", FALSE, FALSE, TRUE), Call("fallback", "", FALSE, TRUE, TRUE)),
   Pair(Call("fallback", "", FALSE, FALSE, TRUE), Call("full", "", TRUE, TRUE, TRUE)),
   Pair(Call("full", "", FALSE, FALSE, TRUE), Call("full", "", TRUE, FALSE, TRUE)),
   Pair(Call("none", "", FALSE, FALSE, TRUE), Call("full", "", FALSE, TRUE, TRUE)),
   Pair(Call("none", "", FALSE, FALSE, TRUE), Call("fallback", "paste", TRUE, FALSE, TRUE))}
=============================================================================
