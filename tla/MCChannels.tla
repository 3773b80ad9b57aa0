----------------------------- MODULE MCChannels -----------------------------
(* An instance of Channels for TLC.                                        *)
EXTENDS Channels

WorkerLoader == <<"worker", "loader">>
=============================================================================
