------------------------------ MODULE MCTrail ------------------------------
(* Small instances of Trail for TLC.                                       *)
EXTENDS Trail
=============================================================================
