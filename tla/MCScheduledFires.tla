------------------------- MODULE MCScheduledFires -------------------------
(* Small instances of ScheduledFires for TLC. *)
EXTENDS ScheduledFires

CONSTANTS j1, j2

BadFirst == <<j2, j1>>
=============================================================================
