------------------------------ MODULE Trigger -------------------------------
(***************************************************************************)
(* scheduler/trigger.py seen by its callers: next_after(n) for the three   *)
(* kinds of trigger.  A cron expression and a one-shot are the set of      *)
(* instants they match; which minutes those are (fields, zones, the clock  *)
(* change) is not modelled here.                                           *)
(***************************************************************************)
EXTENDS Integers

CONSTANT SearchLimit   \* SEARCH_LIMIT_MINUTES, how far a cron walk looks

ASSUME SearchLimitAssumption == SearchLimit \in Nat

TriggerConfig == [kind : {"cron", "interval", "once"},
                  instants : SUBSET Nat,
                  seconds : Nat \ {0}]

\* The earliest of a set of instants: empty or a singleton.
Earliest(S) == {f \in S : \A g \in S : f <= g}

\* next_after as a set: {f} is the instant f, and the empty set stands for the
\* ValueError of a cron that matches nothing within the limit.  None, the
\* answer of a spent one-shot, is the value `never`.
NextAfter(trigger, n, never) ==
    CASE trigger.kind = "interval" -> {n + trigger.seconds}
      [] trigger.kind = "cron" ->
            Earliest({f \in trigger.instants : f > n /\ f <= n + SearchLimit})
      [] trigger.kind = "once" ->
            LET later == Earliest({f \in trigger.instants : f > n})
            IN  IF later = {} THEN {never} ELSE later
=============================================================================
