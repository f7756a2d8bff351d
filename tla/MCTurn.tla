------------------------------- MODULE MCTurn -------------------------------
(* Turn for TLC.  Updates differ only by what they say and when they come,  *)
(* so the safety runs may swap them.                                        *)
EXTENDS Turn, TLC

Swaps == Permutations(Updates)
=============================================================================
