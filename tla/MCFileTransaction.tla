------------------------- MODULE MCFileTransaction -------------------------
(* FileTransaction on a small instance. *)
EXTENDS FileTransaction, TLC

CONSTANTS t, a, c1, c2

MCConn == {c1, c2}

\* What the actions depend on: not on what the clients were told or sent, nor
\* on the history variables.
View == <<storeVars, treeVars, alive, restarts, pc, file, sent>>

Symmetry == Permutations(MCConn)

=============================================================================
