------------------------------ MODULE EventLog ------------------------------
(***************************************************************************)
(* agent/event_store.py and agent/context_assembler.py: the append-only    *)
(* log of a session, the questions a run asks of it, and the list of       *)
(* messages a model call is sent, rebuilt from it every time.              *)
(*                                                                         *)
(* A position in `log` is an event's seq plus one.  Texts are members of   *)
(* small sets; the text of a summary is the set of positions it was        *)
(* written from, through earlier summaries included (`covers`).  The runs  *)
(* of a session stand at depth 0, and the sub-agents' below them append to *)
(* the same log.                                                           *)
(***************************************************************************)
EXTENDS Naturals, Sequences, FiniteSets, SequencesExt

CONSTANTS Runs,       \* how many runs the session has
          Call,       \* tool calls, each a name with its arguments
          Answer,     \* what a model may answer
          KeepTurns   \* KEEP_LAST_TURNS

ASSUME EventLogAssumption == Runs \in Nat /\ KeepTurns \in Nat

Run == 1..Runs

HistoryKinds == {"user_message", "agent_message", "tool_result", "history_summarized"}
Kind == HistoryKinds \cup {"model_call", "deny", "pause", "stop", "inject",
                           "human_approved", "human_denied", "review_passed",
                           "review_failed", "review_errored", "run_finished",
                           "subagent_dispatched", "subagent_returned", "subagent_failed"}

Event == [run : Run, depth : Nat, kind : Kind,
          key : Call \cup Answer \cup {""},     \* what the event is about
          text : Answer \cup {"", "output", "refused", "question", "correction"},
          calls : Seq(Call),                    \* of an agent_message
          read : Nat,                           \* input_tokens of a model_call
          tokens : Nat,                         \* of a model_call or a sub-agent's line
          child : Run \cup {0},                 \* child_run_id of a sub-agent's line
          covers : SUBSET (Nat \ {0})]          \* of a history_summarized

\* A line with nothing but its kind, and one about a key.
Line(r, kind)       == [run |-> r, depth |-> 0, kind |-> kind, key |-> "",
                        text |-> "", calls |-> <<>>, read |-> 0, tokens |-> 0,
                        child |-> 0, covers |-> {}]
About(r, kind, key) == [Line(r, kind) EXCEPT !.key = key]
Said(r, kind, text) == [Line(r, kind) EXCEPT !.text = text]

-----------------------------------------------------------------------------
\* The readers of a RunState: they see the events of their run only.

\* `has` with the key left out of the query.
HasAnyOf(log, r, kind, key) ==
    \E i \in DOMAIN log : log[i].run = r /\ log[i].kind = kind

Has(log, r, kind, key) ==
    \E i \in DOMAIN log : log[i].run = r /\ log[i].kind = kind /\ log[i].key = key

\* `count` over the session instead of the run.
CountInSession(log, r, kind) == Cardinality({i \in DOMAIN log : log[i].kind = kind})

Count(log, r, kind) ==
    Cardinality({i \in DOMAIN log : log[i].run = r /\ log[i].kind = kind})

\* The last of some positions, or 0.
LastOf(positions) == IF positions = {} THEN 0 ELSE Max(positions)

\* input_tokens of the run's last model call, 0 before the first.
LastRead(log, r) ==
    LET i == LastOf({j \in DOMAIN log : log[j].run = r /\ log[j].kind = "model_call"})
    IN  IF i = 0 THEN 0 ELSE log[i].read

\* total_tokens: a run's own calls, and what its sub-agents were reported at.
TotalTokens(log, r) ==
    LET Counts(e) == e.run = r /\ e.kind \in {"model_call", "subagent_returned"}
        sum[n \in 0..Len(log)] == IF n = 0 THEN 0
                                 ELSE sum[n - 1] + IF Counts(log[n]) THEN log[n].tokens ELSE 0
    IN  sum[Len(log)]

LastSummary(log) == LastOf({i \in DOMAIN log : log[i].kind = "history_summarized"})

\* history_events over every depth.
HistoryOfAllDepths(log) ==
    {i \in DOMAIN log : i >= LastSummary(log) /\ log[i].kind \in HistoryKinds}

\* history_events, as positions in the log: from the last summary on, or all.
HistoryEvents(log) ==
    LET since == LastSummary(log)
    IN  {i \in DOMAIN log : i >= since /\ log[i].depth = 0 /\ log[i].kind \in HistoryKinds}

-----------------------------------------------------------------------------
\* split_at_turn_boundary, cutting on any message the provider sends under the
\* user role: a tool result starts a turn.
OlderCutAnywhere(log, history) ==
    {i \in history : Cardinality({j \in history : j > i}) >= KeepTurns}

\* split_at_turn_boundary: what comes before the last KeepTurns user turns, if
\* there are more than that.
Older(log, history) ==
    LET starts == {i \in history : log[i].kind = "user_message"}
    IN  IF KeepTurns > 0 /\ Cardinality(starts) <= KeepTurns THEN {}
        ELSE {i \in history : Cardinality({j \in starts : j > i}) >= KeepTurns}

\* What reaches the provider of one event.
Message(e) == [role  |-> IF e.kind = "tool_result" THEN "tool"
                         ELSE IF e.kind = "agent_message" THEN "assistant" ELSE "user",
               key   |-> e.key,
               calls |-> e.calls]

\* An evicted turn keeps question and answer and loses its tool traffic.
Evicted(e) == [Message(e) EXCEPT !.calls = <<>>]

\* The n-th of some positions.
Nth(positions, n) ==
    CHOOSE i \in positions : Cardinality({j \in positions : j <= i}) = n

\* The events a request is made of: all of the history but the tool results of
\* the older turns.
Sent(log) ==
    LET history == HistoryEvents(log)
        older   == Older(log, history)
    IN  {i \in history : i \in older => log[i].kind # "tool_result"}

\* build_messages
BuildMessages(log) ==
    LET older == Older(log, HistoryEvents(log))
        sent  == Sent(log)
    IN  [n \in 1..Cardinality(sent) |->
            LET i == Nth(sent, n)
            IN  IF i \in older THEN Evicted(log[i]) ELSE Message(log[i])]

\* What a provider rejects: a tool message that does not answer, in order, a
\* call of the assistant turn before it, or a call with no answer; and a
\* history that does not open on a user turn.
WellFormed(messages) ==
    /\ messages # <<>> => messages[1].role = "user"
    /\ \A i \in DOMAIN messages :
          LET calls == messages[i].calls
          IN  /\ i + Len(calls) <= Len(messages)
              /\ \A k \in DOMAIN calls : messages[i + k].role = "tool"
                                         /\ messages[i + k].key = calls[k]
              /\ messages[i].role = "tool" =>
                    \E j \in 1..i - 1 : messages[j].calls # <<>>
                                        /\ i <= j + Len(messages[j].calls)
=============================================================================
