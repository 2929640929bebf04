---------------------------- MODULE MCDCBreaker ----------------------------
(* Two DCs; cooldowns of 1, 2, 4 and then the cap of 5 ticks. *)
EXTENDS DCBreaker
=============================================================================
