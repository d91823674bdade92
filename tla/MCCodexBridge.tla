--------------------------- MODULE MCCodexBridge ---------------------------
(* A small instance of CodexBridge for TLC.                                *)
EXTENDS CodexBridge, TLC

CONSTANTS k1, k2, s1

OneSession == [k \in Keys |-> s1]
=============================================================================
