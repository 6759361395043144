----------------------------- MODULE FlowControl -----------------------------
(***************************************************************************)
(* peer.Conn.WriteFlow, byte by byte: the goroutine of transfer.Send, the  *)
(* send buffer of the data channel, and the OnBufferedAmountLow callback,  *)
(* which wakes a paused writer through a channel of capacity one.          *)
(*                                                                         *)
(* Control messages go out with SendText and are not subject to the        *)
(* watermarks.  Between two chunks Send sends at most MaxBurst bytes of    *)
(* them: the manifest, or the file-start and file-end of a run of empty    *)
(* files, and there are at most MaxFiles of those.                         *)
(***************************************************************************)
EXTENDS Integers

CONSTANTS
  High,      \* bufferedHighWatermark
  Low,       \* bufferedLowWatermark
  MaxChunk,  \* MaxChunkSize
  MaxBurst,  \* control bytes Send can send between two chunks
  Hard       \* protocol.HardBufferedLimitBytes

ASSUME FlowAssumption ==
  /\ High \in Nat /\ Low \in Nat /\ Low < High
  /\ MaxChunk \in Nat \ {0}
  /\ MaxBurst \in Nat
  /\ Hard \in Nat /\ High + MaxChunk + MaxBurst <= Hard + 1

VARIABLES
  buffered,  \* dc.BufferedAmount()
  callback,  \* OnBufferedAmountLow is about to run
  lowCh,     \* lowCh holds a token
  at,        \* where the goroutine stands
  size,      \* length of the chunk WriteFlow was called with
  burst,     \* control bytes sent since the last chunk
  ctx,       \* the context is done
  open       \* the data channel is open

flowVars == <<buffered, callback, lowCh, at, size, burst, ctx, open>>

FlowTypeOK ==
  /\ buffered \in Nat
  /\ callback \in BOOLEAN /\ lowCh \in BOOLEAN
  /\ at \in {"idle", "check", "pause", "wait", "send", "stopped"}
  /\ size \in 1..MaxChunk
  /\ burst \in 0..MaxBurst
  /\ ctx \in BOOLEAN /\ open \in BOOLEAN

FlowInit ==
  /\ buffered = 0
  /\ callback = FALSE /\ lowCh = FALSE
  /\ at = "idle" /\ size = 1 /\ burst = 0
  /\ ctx = FALSE /\ open = TRUE

-----------------------------------------------------------------------------
(* The writer.                                                             *)

\* sendControl: it fails on a closed channel.
SendText(n) ==
  /\ at = "idle"
  /\ burst + n <= MaxBurst
  /\ IF open THEN /\ buffered' = buffered + n
                  /\ burst' = burst + n
                  /\ UNCHANGED at
             ELSE at' = "stopped" /\ UNCHANGED <<buffered, burst>>
  /\ UNCHANGED <<callback, lowCh, size, ctx, open>>

\* Mutant: a byte of framing is added to every chunk.
WriteFlowFramed(n) ==
  /\ at = "idle"
  /\ size' = n + 1
  /\ at' = IF ctx THEN "stopped" ELSE "check"
  /\ UNCHANGED <<buffered, callback, lowCh, burst, ctx, open>>

WriteFlow(n) ==
  /\ at = "idle"
  /\ size' = n
  /\ at' = IF ctx THEN "stopped" ELSE "check"
  /\ UNCHANGED <<buffered, callback, lowCh, burst, ctx, open>>

\* Mutant: the writer pauses only above the high watermark.
CheckAbove ==
  /\ at = "check"
  /\ at' = IF buffered > High THEN "pause" ELSE "send"
  /\ UNCHANGED <<buffered, callback, lowCh, size, burst, ctx, open>>

\* The loop condition.
Check ==
  /\ at = "check"
  /\ at' = IF buffered >= High THEN "pause" ELSE "send"
  /\ UNCHANGED <<buffered, callback, lowCh, size, burst, ctx, open>>

\* Mutant: a token found before waiting is thrown away as stale.
BlockAfresh ==
  /\ at = "pause"
  /\ at' = "wait"
  /\ lowCh' = FALSE
  /\ UNCHANGED <<buffered, callback, size, burst, ctx, open>>

\* The writer comes to the select only some time after that check.
Block ==
  /\ at = "pause"
  /\ at' = "wait"
  /\ UNCHANGED <<buffered, callback, lowCh, size, burst, ctx, open>>

\* The select: the token may be stale, so the condition is checked again.
Wake ==
  /\ at = "wait"
  /\ \/ lowCh /\ lowCh' = FALSE /\ at' = "check"
     \/ ctx /\ at' = "stopped" /\ UNCHANGED lowCh
  /\ UNCHANGED <<buffered, callback, size, burst, ctx, open>>

SendChunk ==
  /\ at = "send"
  /\ IF open THEN buffered' = buffered + size /\ burst' = 0 /\ at' = "idle"
             ELSE at' = "stopped" /\ UNCHANGED <<buffered, burst>>
  /\ UNCHANGED <<callback, lowCh, size, ctx, open>>

-----------------------------------------------------------------------------
(* The channel (Pion) and the user.                                        *)

\* n bytes are acknowledged.  Falling to the threshold from above it calls
\* the handler, in the goroutine that drains.
Drain(n) ==
  /\ open /\ ~callback /\ n <= buffered
  /\ buffered' = buffered - n
  /\ callback' = (buffered > Low /\ buffered - n <= Low)
  /\ UNCHANGED <<lowCh, at, size, burst, ctx, open>>

\* Mutant: lowCh has no capacity, so the signal reaches only a writer that
\* is already waiting.
SignalUnbuffered ==
  /\ callback
  /\ callback' = FALSE
  /\ lowCh' = (at = "wait" \/ lowCh)
  /\ UNCHANGED <<buffered, at, size, burst, ctx, open>>

\* The handler: signal leaves a token unless there is one.
OnBufferedAmountLow ==
  /\ callback
  /\ callback' = FALSE
  /\ lowCh' = TRUE
  /\ UNCHANGED <<buffered, at, size, burst, ctx, open>>

\* The peer closes, or the connection dies: nothing drains any more.
CloseChannel ==
  /\ open
  /\ open' = FALSE
  /\ UNCHANGED <<buffered, callback, lowCh, at, size, burst, ctx>>

FlowCancel ==
  /\ ~ctx
  /\ ctx' = TRUE
  /\ UNCHANGED <<buffered, callback, lowCh, at, size, burst, open>>

FlowNext ==
  \/ \E n \in 1..MaxBurst : SendText(n)
  \/ \E n \in 1..MaxChunk : WriteFlow(n)
  \/ Check \/ Block \/ Wake \/ SendChunk
  \/ \E n \in 1..buffered : Drain(n)
  \/ OnBufferedAmountLow
  \/ CloseChannel
  \/ FlowCancel

FlowSpec == FlowInit /\ [][FlowNext]_flowVars

-----------------------------------------------------------------------------
(* Properties.                                                             *)

\* The buffer stays under TP/1's hard limit although control messages do
\* not wait for the watermark and chunks are sent some time after the check.
NeverOverHard == buffered <= Hard

\* A writer about to wait, or waiting, on a buffer at or below the low
\* watermark has a token to wake it or a callback that will leave one: the
\* one-token channel loses no wakeup, whatever stale tokens came before.
NoLostWakeup ==
  at \in {"pause", "wait"} /\ buffered <= Low => lowCh \/ callback

\* A paused write goes through, unless the channel closes or the context
\* is cancelled.
WakesUp == at = "pause" ~> at = "send" \/ ~open \/ ctx
=============================================================================
