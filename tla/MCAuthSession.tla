--------------------------- MODULE MCAuthSession ---------------------------
(***************************************************************************)
(* Instances of AuthSession for TLC.                                       *)
(***************************************************************************)
EXTENDS AuthSession, TLC

SessionSymmetry == Permutations(Process) \cup Permutations(Token)

============================================================================
