---------------------------- MODULE MCWorkQueue -----------------------------
(* WorkQueue for TLC: the .cfg files give the sets of rows and processes.   *)
(* The two processes of a rollout are alike, so the safety runs may swap    *)
(* them; the run that checks liveness has one process and no symmetry.      *)
EXTENDS WorkQueue, TLC

Processes == Permutations(Workers)
=============================================================================
