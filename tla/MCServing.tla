------------------------------- MODULE MCServing -------------------------------
(* Instances of Serving for TLC.                                           *)
EXTENDS Serving

CONSTANTS r1, r2

TwoRequests == {r1, r2}
================================================================================
