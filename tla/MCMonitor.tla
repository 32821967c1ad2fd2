----------------------------- MODULE MCMonitor ------------------------------
(***************************************************************************)
(* One clock, one thread, no faults: the runs of a monitoring task in      *)
(* order, over every sequence of reports and of failed sends.              *)
(***************************************************************************)
EXTENDS Monitor

MCSchedule == [t \in Task |-> [kind |-> "cron", instants |-> 1..4, seconds |-> 1]]

MCPolicy == [t \in Task |-> [kind |-> "transition", renotify_after |-> 2,
                             notify_recovery |-> TRUE]]

\* report asks for an empty fingerprint on an ok run and does not insist.
MCReports == {[status |-> "alert", fingerprint |-> "disk"],
              [status |-> "ok", fingerprint |-> "-"],
              [status |-> "ok", fingerprint |-> "disk"]}
=============================================================================
