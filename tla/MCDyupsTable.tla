---------------------------- MODULE MCDyupsTable ----------------------------
(* An instance of DyupsTable for TLC.                                      *)
EXTENDS DyupsTable, TLC

CONSTANTS h1, h2

MCNames == {"a", "b"}
MCVals == {"x"}
MCHolders == {h1, h2}
MCSymmetry == Permutations(MCHolders)
=============================================================================
