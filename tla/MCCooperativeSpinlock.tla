----------------------- MODULE MCCooperativeSpinlock -----------------------
(* CooperativeSpinlock on a small instance. *)
EXTENDS CooperativeSpinlock, TLC

CONSTANTS t1, t2, t3

MCThread == {t1, t2, t3}

=============================================================================
