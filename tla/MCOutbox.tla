------------------------------ MODULE MCOutbox ------------------------------
(***************************************************************************)
(* ChannelOutbox for TLC: two messages, and the workers of two replicas.   *)
(***************************************************************************)
EXTENDS ChannelOutbox

CONSTANTS m1, m2, w1, w2
=============================================================================
