-------------------------- MODULE MCUpstreamCheck --------------------------
(* An instance of UpstreamCheck for TLC.                                   *)
EXTENDS UpstreamCheck

CONSTANTS w1, w2

MCWorkers == {w1, w2}
============================================================================
