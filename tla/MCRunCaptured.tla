---------------------------- MODULE MCRunCaptured ----------------------------
(* RunCaptured with and without each of the two limits.                     *)
EXTENDS RunCaptured

TotalLimits == {NoLimit, 3}
IdleLimits  == {NoLimit, 2}
=============================================================================
