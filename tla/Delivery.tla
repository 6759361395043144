------------------------------ MODULE Delivery ------------------------------
(***************************************************************************)
(* What a transfer promises, without channel, messages or errors: the      *)
(* receiver chooses some files and stores them whole, one after the other; *)
(* the sender learns of each stored file only after it is stored; it       *)
(* succeeds only when it knows of every chosen file, and the receiver only *)
(* after the sender has.  Either side may fail at any time, and then its   *)
(* account of the transfer stands still.                                   *)
(***************************************************************************)
EXTENDS Integers

CONSTANT Files

VARIABLES
  chosen,    \* files the receiver accepted
  stored,    \* of these, the ones stored whole
  known,     \* the ones the sender knows to be stored
  sender,    \* outcome of each side: "running", "ok" or "failed"
  receiver

dvars == <<chosen, stored, known, sender, receiver>>

Least(id, S) == id \in S /\ \A j \in S : id <= j

DInit ==
  /\ chosen = {} /\ stored = {} /\ known = {}
  /\ sender = "running" /\ receiver = "running"

Choose ==
  /\ receiver = "running" /\ chosen = {}
  /\ \E S \in SUBSET Files : S # {} /\ chosen' = S
  /\ UNCHANGED <<stored, known, sender, receiver>>

\* Storing the last byte and failing to say so may be one step.
Store ==
  /\ receiver = "running"
  /\ \E id \in Files : Least(id, chosen \ stored) /\ stored' = stored \cup {id}
  /\ receiver' \in {"running", "failed"}
  /\ UNCHANGED <<chosen, known, sender>>

Learn ==
  /\ sender = "running"
  /\ \E id \in stored : Least(id, chosen \ known) /\ known' = known \cup {id}
  /\ UNCHANGED <<chosen, stored, sender, receiver>>

SenderSucceeds ==
  /\ sender = "running"
  /\ chosen # {} /\ known = chosen
  /\ sender' = "ok"
  /\ UNCHANGED <<chosen, stored, known, receiver>>

ReceiverSucceeds ==
  /\ receiver = "running" /\ sender = "ok"
  /\ receiver' = "ok"
  /\ UNCHANGED <<chosen, stored, known, sender>>

SenderFails ==
  /\ sender = "running" /\ sender' = "failed"
  /\ UNCHANGED <<chosen, stored, known, receiver>>

ReceiverFails ==
  /\ receiver = "running" /\ receiver' = "failed"
  /\ UNCHANGED <<chosen, stored, known, sender>>

DNext == \/ Choose \/ Store \/ Learn \/ SenderSucceeds \/ ReceiverSucceeds
         \/ SenderFails \/ ReceiverFails

DSpec == DInit /\ [][DNext]_dvars
=============================================================================
