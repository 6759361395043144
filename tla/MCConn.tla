------------------------------- MODULE MCConn -------------------------------
(***************************************************************************)
(* Either role; two early messages, which fill the inbox, and two more;    *)
(* watermarks a few bytes apart, chunks of one to three bytes, so that a   *)
(* pause starts at and above the high watermark, and control messages that *)
(* fill the buffer exactly to the hard limit.                              *)
(***************************************************************************)
EXTENDS Conn
=============================================================================
