--------------------------- MODULE MCAccountPages ---------------------------
(***************************************************************************)
(* An instance of AccountPages for TLC: two names, so that a second        *)
(* registration can succeed.                                              *)
(***************************************************************************)
EXTENDS AccountPages

CONSTANTS anna, ben

=============================================================================
