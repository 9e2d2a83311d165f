--------------------------- MODULE MCTaskManager ---------------------------
(* TaskManager on a small instance. *)
EXTENDS TaskManager, TLC

CONSTANTS w1, w2

MCWorker  == {w1, w2}
MCInitial == <<w1>>

=============================================================================
