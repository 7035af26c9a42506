--------------------------- MODULE MCRunCapturedWin ---------------------------
(* RunCapturedWin with and without each of the two limits.                  *)
EXTENDS RunCapturedWin

TotalLimits == {NoLimit, 4}
IdleLimits  == {NoLimit, 3}
=============================================================================
