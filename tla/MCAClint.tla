------------------------------ MODULE MCAClint ------------------------------
(* AClint with the callbacks of its own harts as the timer's closures.      *)
EXTENDS AClint

MCClosures == (0 .. CoreCount - 1) \X {"m", "s"}
=============================================================================
