---------------------------- MODULE MCOtpLadder ----------------------------
(* Model checking of OtpLadder. *)
EXTENDS OtpLadder, TLC

OtpSymmetry == Permutations(Requester) \cup Permutations(Verifier)
=============================================================================
