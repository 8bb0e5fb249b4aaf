--------------------------- MODULE BackupContract ---------------------------
(***************************************************************************)
(* What a MysqlBackup promises its user, whatever pods, jobs, caches and   *)
(* controllers do meanwhile: a backup reported complete is in the remote   *)
(* storage, whole, and stays there until the user gives the backup up; a   *)
(* backup that has been reported is never written again.                   *)
(***************************************************************************)
VARIABLES
  wanted,    \* the user has not deleted the MysqlBackup
  reported,  \* its status: "no", "complete" or "failed"
  stored     \* the file at its URL: "none", "whole" (or, never, "partial")

vars == <<wanted, reported, stored>>

Init == wanted = TRUE /\ reported = "no" /\ stored = "none"

Upload ==
  /\ reported = "no" \/ ~wanted
  /\ stored' = "whole"
  /\ UNCHANGED <<wanted, reported>>

Report(result) ==
  /\ reported = "no"
  /\ result = "complete" => stored = "whole" \/ ~wanted
  /\ reported' = result
  /\ UNCHANGED <<wanted, stored>>

GiveUp == wanted /\ wanted' = FALSE /\ UNCHANGED <<reported, stored>>

Remove == ~wanted /\ stored' = "none" /\ UNCHANGED <<wanted, reported>>

Next == Upload \/ Report("complete") \/ Report("failed") \/ GiveUp \/ Remove

Spec == Init /\ [][Next]_vars
=============================================================================
