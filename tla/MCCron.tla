------------------------------- MODULE MCCron -------------------------------
(***************************************************************************)
(* Small instances of Cron.  A one-off job and an interval job are in the  *)
(* file at the start; the skill may create a cron job, a second one-off    *)
(* job that deletes itself, or one of two cron jobs that cannot be         *)
(* scheduled, for their expression or for their time zone, and change or   *)
(* remove any of them.  Every job is due one tick of the clock after it    *)
(* was scheduled.                                                          *)
(***************************************************************************)
EXTENDS Cron

CONSTANTS once, every, cron, once2, bad, zone

MCJobs == {once, every, cron, once2, bad, zone}
SmallJobs == {once, once2, bad, zone}
MCKind ==
  [j \in Jobs |-> CASE j \in {once, once2} -> "at"
                    [] j = every -> "every"
                    [] j \in {cron, bad, zone} -> "cron"]
MCPeriod == [j \in Jobs |-> 1]
MCDeleteAfter == {once2}
MCBadExpr == {bad}
MCBadZone == {zone}
MCPreset == {once, every}
SmallPreset == {once}
=============================================================================
