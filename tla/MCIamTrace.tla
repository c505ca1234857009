----------------------------- MODULE MCIamTrace -----------------------------
(***************************************************************************)
(* Instances of IamTrace for TLC.                                          *)
(***************************************************************************)
EXTENDS IamTrace

MCState == IamTraceState \cup Callback

============================================================================
