---------------------------- MODULE MCSSEBroker ----------------------------
(***************************************************************************)
(* Small instances of SSEBroker for TLC: buffers of two events instead of  *)
(* ten.  One publisher sends two events, which can wait in one channel     *)
(* together, and the other one, which makes three for a channel of two.    *)
(* One stream ends while the other stays.                                  *)
(***************************************************************************)
EXTENDS SSEBroker

CONSTANTS p1, p2

Events == [from : {p1}, number : {1, 2}] \cup [from : {p2}, number : {1}]
=============================================================================
