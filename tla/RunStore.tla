------------------------------ MODULE RunStore ------------------------------
(***************************************************************************)
(* scheduler/store.py: the two tables of SqliteStore, as operators on a    *)
(* row.  Every method of the class opens its own connection and is one     *)
(* transaction, so each operator is applied in one step by its caller.     *)
(* Only the columns something branches on are kept: titles and last_seen   *)
(* are wording.                                                            *)
(***************************************************************************)
EXTENDS Integers

CONSTANTS Lease,        \* lease_seconds of claim
          Fingerprint   \* what an alert can be about, as the agent names it

ASSUME LeaseAssumption == Lease \in Nat

Status == {"ok", "alert", "error"}

\* A column that is NULL, and a trigger or reminder that never comes.
Never == -1

\* Fingerprints as task_state is keyed by them: the agent's own, the default of
\* a run that named none, and the runner's two failures.
Key == Fingerprint \cup {"-", "run-failure", "no-report"}

RunRow == [status : {"absent", "running"} \cup Status, started_at : Nat]
NoRun  == [status |-> "absent", started_at |-> 0]

StateRecord == [status : {"absent"} \cup Status, last_delivered : Nat \cup {Never}]
NoState     == [status |-> "absent", last_delivered |-> Never]

-----------------------------------------------------------------------------
\* A lease test that forgets the WHERE clause's second half.
AnyRunningIsClaimable(row, now) == row.status \in {"absent", "running"}

\* A lease test that forgets the first half: finished rows look abandoned.
AnyExpiredIsClaimable(row, now) ==
    row.status = "absent" \/ row.started_at < now - Lease

\* The upsert of claim changes a row: it is inserted, or it is running on a
\* claim older than the lease.
Claimable(row, now) ==
    \/ row.status = "absent"
    \/ row.status = "running" /\ row.started_at < now - Lease

Claimed(row, now) == [status |-> "running", started_at |-> now]

\* A finish that writes a status no reader knows.
FinishedAsDone(row, status) == [row EXCEPT !.status = "done"]

\* finish: unconditional on who owns the row.
Finished(row, status) == [row EXCEPT !.status = status]

\* put_state that stamps every run, delivered or not.
EagerPut(row, status, now, delivered) ==
    [status |-> status, last_delivered |-> now]

\* put_state: last_delivered is advanced only by a run that delivered.
Put(row, status, now, delivered) ==
    [status |-> status,
     last_delivered |-> IF delivered THEN now ELSE row.last_delivered]
=============================================================================
