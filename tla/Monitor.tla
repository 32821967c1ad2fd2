------------------------------ MODULE Monitor -------------------------------
(***************************************************************************)
(* A monitoring task seen by the person it alerts: the Scheduler, with two *)
(* history variables that remember what that person was told and how the   *)
(* task's last run ended.  The properties are the ones DeliverOnTransition *)
(* exists for ("alert on the edge, not on the level"), on a task whose     *)
(* runs do not overlap.                                                    *)
(***************************************************************************)
EXTENDS Scheduler

VARIABLES
    alarmed,   \* <<task, fingerprint>> -> a problem was announced and not yet seen ok
    lastRun    \* task -> status of the last run finished, "absent" before the first

monitorVars == <<vars, alarmed, lastRun>>

MonitorInit ==
    /\ Init
    /\ alarmed = [tk \in Task \X Key |-> FALSE]
    /\ lastRun = [t \in Task |-> "absent"]

\* The workers whose step confirms a message on tk, and those that finish t.
Confirms(tk) == {w \in Worker : /\ verdict'[w].delivered /\ ~verdict[w].delivered
                                /\ <<job[w].task, outcome[w].fingerprint>> = tk}
Finishing(t) == {w \in Worker : phase[w] = "finish" /\ phase'[w] = "idle"
                                /\ job[w].task = t}

Observe ==
    /\ alarmed' = [tk \in Task \X Key |->
                     \/ \E w \in Confirms(tk) : outcome[w].status # "ok"
                     \/ alarmed[tk] /\ state'[tk].status # "ok"]
    /\ lastRun' = [t \in Task |->
                     IF Finishing(t) = {} THEN lastRun[t]
                     ELSE outcome[CHOOSE w \in Finishing(t) : TRUE].status]

MonitorSpec == MonitorInit /\ [][Next /\ Observe]_monitorVars

-----------------------------------------------------------------------------
\* The fingerprint a worker's outcome is filed under.
Subject(w) == <<job[w].task, outcome[w].fingerprint>>

\* A decision that is about to be acted on, about a problem.
Deciding(w) == phase[w] \in {"send", "put"} /\ outcome[w].status # "ok"

\* A problem is announced as new once: not again, by any later run, until its
\* own fingerprint was seen ok.
NewsOnlyOnce ==
    \A w \in Worker :
        phase[w] = "send" /\ verdict[w].kind = "new" => ~alarmed[Subject(w)]

\* A reminder keeps its distance from every message about the problem that got
\* through, not just from the last run.
RemindersSpaced ==
    \A w \in Worker :
        phase[w] = "send" /\ verdict[w].kind = "reminder"
            => \A m \in told[Subject(w)] :
                  verdict[w].at - m.at >= PolicyOf[job[w].task].renotify_after

\* runner.py, run_once, on a send that failed: "the next run should treat the
\* alert as new and try again, rather than suppress it".  A problem is passed
\* over in silence only if somebody was told of it.
SilenceMeansTold ==
    \A w \in Worker :
        Deciding(w) /\ verdict[w].kind = "silent" => told[Subject(w)] # {}

\* policy.py, DeliverOnTransition: "Still-broken is not news; broken-since-
\* last-run is."  A run that finds a problem after an ok run is not silent.
BrokenSinceLastRunIsNews ==
    \A w \in Worker :
        Deciding(w) /\ lastRun[job[w].task] = "ok" => verdict[w].kind # "silent"
=============================================================================
