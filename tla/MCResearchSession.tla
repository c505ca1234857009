------------------------- MODULE MCResearchSession -------------------------
(***************************************************************************)
(* Instances of ResearchSession for TLC.                                   *)
(***************************************************************************)
EXTENDS ResearchSession, TLC

\* The payloads: evidence bundles and session records.
MCState == {Bundle} \cup Session

MCIdentity == Research \cup Evidence

ResearchSymmetry == Permutations(Research) \cup Permutations(Evidence)

============================================================================
