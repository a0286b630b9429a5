-------------------------------- MODULE MCLlm --------------------------------
(***************************************************************************)
(* LlmResilience for TLC.                                                  *)
(***************************************************************************)
EXTENDS LlmResilience
=============================================================================
