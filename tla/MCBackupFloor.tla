---------------------------- MODULE MCBackupFloor ----------------------------
(***************************************************************************)
(* Two passes of rotation at the same time, for TLC: six backups, the last *)
(* of which begins a new day and a new week.                               *)
(***************************************************************************)
EXTENDS BackupRotation

MCDay      == <<1, 2, 3, 3, 3, 4>>
MCWeek     == <<1, 2, 2, 2, 2, 3>>
MCPeriods  == {"day", "week"}
MCBucketOf == [p \in MCPeriods |-> IF p = "day" THEN MCDay ELSE MCWeek]
MCTier     == [p \in MCPeriods |-> 2]
MCSizeOf   == [b \in 1 .. 6 |-> 1]
==============================================================================
