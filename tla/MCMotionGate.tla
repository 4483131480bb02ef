---------------------------- MODULE MCMotionGate ----------------------------
(* Instances of MotionGate for TLC: two generations, one velocity, leases of *)
(* two and three periods of the output timer.                                *)
EXTENDS MotionGate

MCTokens == {1, 2}
=============================================================================
