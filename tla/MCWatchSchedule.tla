-------------------------- MODULE MCWatchSchedule --------------------------
(***************************************************************************)
(* Instances of WatchSchedule for TLC.                                     *)
(***************************************************************************)
EXTENDS WatchSchedule, TLC

\* Before the epoch, 0.4 s and 1.2 s after it: the first two share a run key.
MCTick == {-5, 4, 12}

ScheduleSymmetry ==
    Permutations(Process) \cup Permutations(Evidence)

============================================================================
