--------------------------- MODULE MCWatchInsight ---------------------------
(***************************************************************************)
(* Instances of WatchInsight for TLC.                                      *)
(***************************************************************************)
EXTENDS WatchInsight, TLC

InsightSymmetry ==
    Permutations(Process) \cup Permutations(Evidence)
    \cup Permutations(Hash)

============================================================================
