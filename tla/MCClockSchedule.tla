-------------------------- MODULE MCClockSchedule --------------------------
(* Instances of ClockSchedule for TLC. *)
EXTENDS ClockSchedule

AllOperations ==
    {"CREATE", "UPDATE", "DISABLE", "ENABLE", "DELETE", "SKIP", "SNOOZE",
     "FAIL", "REBOOT", "DIE", "EXACT", "NOTIFY"}
=============================================================================
