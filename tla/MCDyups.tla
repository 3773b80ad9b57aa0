------------------------------ MODULE MCDyups ------------------------------
(* An instance of Dyups for TLC.                                           *)
EXTENDS Dyups

MCNames == {"a"}
MCVals == {"x"}
============================================================================
