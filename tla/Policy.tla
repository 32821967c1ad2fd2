------------------------------- MODULE Policy -------------------------------
(***************************************************************************)
(* scheduler/policy.py: whether anyone hears about a run.  decide is pure: *)
(* it sees the outcome's status, the prior record of the same fingerprint  *)
(* and the instant, and answers with the kind of the message or "silent"   *)
(* for None.                                                               *)
(***************************************************************************)
EXTENDS RunStore

Kind == {"digest", "new", "reminder", "recovery", "silent"}

PolicyConfig == [kind : {"always", "transition"},
                 renotify_after : Nat \cup {Never},
                 notify_recovery : BOOLEAN]

\* DeliverAlways.decide
DecideAlways(status) == IF status = "error" THEN "new" ELSE "digest"

\* The renotify condition of DeliverOnTransition.decide
ReminderDue(p, prior, now) ==
    /\ p.renotify_after # Never
    /\ prior.last_delivered # Never
    /\ now - prior.last_delivered >= p.renotify_after

\* DeliverOnTransition.decide alerting on the level, not on the edge.
DecideOnLevel(p, status, prior, now) ==
    IF status # "ok" THEN "new" ELSE "silent"

\* DeliverOnTransition.decide with the elapsed-time test dropped.
DecideUnpaced(p, status, prior, now) ==
    IF status # "ok" /\ prior.status \in {"absent", "ok"} THEN "new"
    ELSE IF status # "ok" /\ prior.last_delivered # Never THEN "reminder"
    ELSE "silent"

\* DeliverOnTransition.decide
DecideOnTransition(p, status, prior, now) ==
    CASE status = "ok" /\ prior.status \in {"alert", "error"} /\ p.notify_recovery
                                                       -> "recovery"
      [] status # "ok" /\ prior.status \in {"absent", "ok"} -> "new"
      [] status # "ok" /\ prior.status \in {"alert", "error"}
           /\ ReminderDue(p, prior, now)               -> "reminder"
      [] OTHER                                         -> "silent"

Decide(p, status, prior, now) ==
    IF p.kind = "always" THEN DecideAlways(status)
                         ELSE DecideOnTransition(p, status, prior, now)
=============================================================================
