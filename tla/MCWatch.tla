------------------------------ MODULE MCWatch ------------------------------
(***************************************************************************)
(* Instances of Watch for TLC.  Processes and evidence identities are      *)
(* interchangeable.                                                        *)
(***************************************************************************)
EXTENDS Watch, TLC

WatchSymmetry == Permutations(Process) \cup Permutations(Evidence)

============================================================================
