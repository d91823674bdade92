----------------------------- MODULE MCChatRuns -----------------------------
(* Small instances of ChatRuns for TLC.                                    *)
EXTENDS ChatRuns, TLC

CONSTANTS p1, p2, r1, r2, i1

Symmetric == Permutations(Reconcilers)

OneInstance == [r \in Runs |-> i1]

=============================================================================
