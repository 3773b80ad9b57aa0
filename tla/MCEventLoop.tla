---------------------------- MODULE MCEventLoop ----------------------------
(* An instance of EventLoop for TLC.                                       *)
EXTENDS EventLoop

CONSTANTS w1, w2, w3, l1, l2

MCProcs     == {w1, w2, w3}
MCFirst     == {w1, w2}
MCListening == {l1}
============================================================================
