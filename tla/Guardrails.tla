----------------------------- MODULE Guardrails -----------------------------
(***************************************************************************)
(* agent/guardrails.py and agent/context_budget.py: what each middleware   *)
(* of the stack answers at its seam.  None of them keeps anything: every   *)
(* answer is read off the log.                                             *)
(***************************************************************************)
EXTENDS EventLog, Integers

CONSTANTS Blocked,         \* calls TieredApproval never lets through
          NeedsApproval,   \* calls a person is asked about
          MaxAttempts,     \* AttemptBudget.max_attempts
          MinAttempts,     \* AttemptBudget.min_attempts
          MaxRounds,       \* ReviewGate.max_rounds
          FailOpen,        \* ReviewGate.fail_open
          CompressAt       \* token_budget * compress_threshold, in messages

ASSUME GuardrailsAssumption ==
    /\ Blocked \subseteq Call /\ NeedsApproval \subseteq Call
    /\ MaxAttempts \in Nat /\ MinAttempts \in Nat /\ MaxRounds \in Nat
    /\ FailOpen \in BOOLEAN
    /\ CompressAt \in Nat

-----------------------------------------------------------------------------
\* TieredApproval that takes any approval of the run for this one.
AskedOnceForAll(log, r, c) ==
    IF c \in Blocked THEN "deny"
    ELSE IF c \notin NeedsApproval \/ HasAnyOf(log, r, "human_approved", c) THEN "continue"
    ELSE IF Has(log, r, "human_denied", c) THEN "deny"
    ELSE "pause"

\* TieredApproval that does not look for the answer it asked for.
AskedEveryTime(log, r, c) ==
    IF c \in Blocked THEN "deny"
    ELSE IF c \in NeedsApproval THEN "pause"
    ELSE "continue"

\* TieredApproval.before_tool: the first rule that has something to say.
BeforeTool(log, r, c) ==
    IF c \in Blocked THEN "deny"
    ELSE IF c \notin NeedsApproval \/ Has(log, r, "human_approved", c) THEN "continue"
    ELSE IF Has(log, r, "human_denied", c) THEN "deny"
    ELSE "pause"

\* AttemptBudget.before_model on the number a session has spent.
SpentBySession(log, r) == CountInSession(log, r, "model_call") >= MaxAttempts

\* AttemptBudget.before_model
Spent(log, r) == Count(log, r, "model_call") >= MaxAttempts

\* AttemptBudget.on_model_stop
TooFew(log, r) == Count(log, r, "model_call") < MinAttempts

\* ContextBudget.before_model wants a summary: the last call of this run was
\* too long and there is something older that no summary stands for.
WantsSummary(log, r) ==
    /\ LastRead(log, r) >= CompressAt
    /\ \E i \in Older(log, HistoryEvents(log)) : log[i].kind # "history_summarized"

\* A summary that covers seqs where positions are meant.
SummaryBySeq(log, r) ==
    [Line(r, "history_summarized") EXCEPT
        !.covers = {i - 1 : i \in Older(log, HistoryEvents(log))}]

\* The summary it appends, at the end of the log.
Summary(log, r) ==
    LET older == Older(log, HistoryEvents(log))
    IN  [Line(r, "history_summarized") EXCEPT
            !.covers = older \cup UNION {log[i].covers : i \in older}]

\* ReviewGate giving the model one more round than it has.
RoundsOneLate(log, r) == Count(log, r, "review_failed") > MaxRounds

\* ReviewGate.on_model_stop: the rounds are used up.
RoundsUsedUp(log, r) == Count(log, r, "review_failed") >= MaxRounds
=============================================================================
