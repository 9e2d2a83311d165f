----------------------------- MODULE MCDashboard -----------------------------
(***************************************************************************)
(* An instance of Dashboard for TLC: a tree with a directory, so that      *)
(* there is somewhere to go, and the file of the endpoint's constructor.   *)
(***************************************************************************)
EXTENDS Dashboard

CONSTANTS test, other

Tree == InitialTree \union {Directory(3, Root, test)}

=============================================================================
