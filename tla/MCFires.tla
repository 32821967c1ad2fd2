------------------------------ MODULE MCFires -------------------------------
(***************************************************************************)
(* Two clock processes on one database: the same fire is dispatched by     *)
(* both, claimed, abandoned by a crash, taken over, finished late.         *)
(***************************************************************************)
EXTENDS Scheduler

\* A cron that fires at 1 and 3 and then matches nothing within the limit.
\* A clock that starts later than 1 plans only the second fire.
MCSchedule == [t \in Task |-> [kind |-> "cron", instants |-> {1, 3}, seconds |-> 1]]

MCPolicy == [t \in Task |-> [kind |-> "always", renotify_after |-> Never,
                             notify_recovery |-> TRUE]]

\* A digest is delivered whatever its run came to, so one report is enough
\* beside the ends without one: the run fails, or it ends and reports nothing.
MCReports == {[status |-> "ok", fingerprint |-> "-"]}
=============================================================================
