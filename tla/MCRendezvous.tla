---------------------------- MODULE MCRendezvous ----------------------------
(***************************************************************************)
(* Two senders and two receivers that all meet at one token: collisions,   *)
(* two receivers for one session, a receiver too early or too late, and a  *)
(* token used again after its wipe.                                        *)
(***************************************************************************)
EXTENDS Rendezvous

MCSenders   == {"s1", "s2"}
MCReceivers == {"r1", "r2"}
MCTokens    == {"t"}
=============================================================================
