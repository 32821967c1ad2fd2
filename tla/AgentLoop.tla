----------------------------- MODULE AgentLoop ------------------------------
(***************************************************************************)
(* agent/agent.py: the runs of one session, each driven from seam to seam  *)
(* by run_loop, paused for a human and resumed.  The stack is the one of   *)
(* agent/guardrails.py and agent/context_budget.py, in cost order:         *)
(* TieredApproval and AttemptBudget, then ContextBudget and ReviewGate.    *)
(*                                                                         *)
(* The host calls run_loop or resume for one run of the session at a time; *)
(* between two calls any number of runs may be paused, and a new one may   *)
(* begin.  A decision line of consult is appended with the effect of the   *)
(* decision.  Left out: run_started lines (nobody reads them), on_run_end  *)
(* (its only middleware is the memory writer), and what a reviewer appends *)
(* under its own run.                                                      *)
(***************************************************************************)
EXTENDS Guardrails

CONSTANTS Batches,    \* the tool_calls a model turn may carry
          MaxTurns    \* max_turns of run_loop and resume

ASSUME AgentLoopAssumption ==
    /\ Batches \subseteq Seq(Call) \ {<<>>}
    /\ Call \cap Answer = {} /\ {"", "halted"} \cap (Call \cup Answer) = {}
    /\ MaxTurns \in Nat \ {0}

VARIABLES
    log,        \* the session's EventStore
    phase,      \* run -> where its loop is
    turn,       \* run -> turns begun in this call of run_loop or resume
    response,   \* run -> the model turn in hand; RunPaused.pending while paused
    waitsOn,    \* run -> RunPaused.key
    result      \* run -> what run_loop returned

vars == <<log, phase, turn, response, waitsOn, result>>

Active == {"before_model", "model", "before_tool", "tools", "on_model_stop"}
Phase  == Active \cup {"new", "paused", "returned", "raised"}

\* The model's turn: tool calls, or an answer.
Response   == [calls : Seq(Call), text : Answer \cup {""}]
NoResponse == [calls |-> <<>>, text |-> ""]

TypeOK ==
    /\ log \in Seq(Event)
    /\ phase \in [Run -> Phase]
    /\ turn \in [Run -> 0..MaxTurns]
    /\ response \in [Run -> Response]
    /\ waitsOn \in [Run -> Call \cup Answer \cup {""}]
    /\ result \in [Run -> Answer \cup {"", "halted"}]

Init ==
    /\ log = <<>>
    /\ phase = [r \in Run |-> "new"]
    /\ turn = [r \in Run |-> 0]
    /\ response = [r \in Run |-> NoResponse]
    /\ waitsOn = [r \in Run |-> ""]
    /\ result = [r \in Run |-> ""]

Goto(r, p) == phase' = [phase EXCEPT ![r] = p]

\* _finish: the run is stamped and its answer returned.
Finish(r, lines, answer) ==
    /\ log' = log \o lines \o <<Line(r, "run_finished")>>
    /\ result' = [result EXCEPT ![r] = answer]
    /\ response' = [response EXCEPT ![r] = NoResponse]
    /\ Goto(r, "returned")
    /\ UNCHANGED <<turn, waitsOn>>

\* A Pause: RunPaused leaves run_loop with the run's state, what was pending
\* and the key the human's answer will be stamped against.
PauseOn(r, lines, key) ==
    /\ log' = log \o lines \o <<About(r, "pause", key)>>
    /\ waitsOn' = [waitsOn EXCEPT ![r] = key]
    /\ Goto(r, "paused")
    /\ UNCHANGED <<turn, result>>

-----------------------------------------------------------------------------
\* The host

HostIsFree == \A r \in Run : phase[r] \notin Active

\* run_loop on a new run of the session.
Begin(r) ==
    /\ HostIsFree
    /\ phase[r] = "new"
    /\ \A q \in 1..r - 1 : phase[q] # "new"
    /\ log' = Append(log, Said(r, "user_message", "question"))
    /\ Goto(r, "before_model")
    /\ UNCHANGED <<turn, response, waitsOn, result>>

\* resume: the stamp goes down before anything else, and the turns start anew.
\* A model turn that was pending is this call's first.
Resume(r, stamp) ==
    /\ HostIsFree
    /\ phase[r] = "paused"
    /\ log' = Append(log, About(r, stamp, waitsOn[r]))
    /\ waitsOn' = [waitsOn EXCEPT ![r] = ""]
    /\ IF response[r] # NoResponse
         THEN turn' = [turn EXCEPT ![r] = 1] /\ Goto(r, "before_tool")
         ELSE turn' = [turn EXCEPT ![r] = 0] /\ Goto(r, "before_model")
    /\ UNCHANGED <<response, result>>

-----------------------------------------------------------------------------
\* The head of the loop, and before_model

\* The turns of this call are used up: AgentLoopError.
RunsOut(r) ==
    /\ phase[r] = "before_model"
    /\ turn[r] = MaxTurns
    /\ Goto(r, "raised")
    /\ UNCHANGED <<log, turn, response, waitsOn, result>>

\* AttemptBudget stops the run.
BudgetStops(r) ==
    /\ phase[r] = "before_model" /\ turn[r] < MaxTurns
    /\ Spent(log, r)
    /\ Finish(r, <<Line(r, "stop")>>, "halted")

\* The gate lets the turn begin, with a summary or without.
BeforeModel(r, lines) ==
    /\ phase[r] = "before_model" /\ turn[r] < MaxTurns
    /\ ~Spent(log, r)
    /\ log' = log \o lines
    /\ turn' = [turn EXCEPT ![r] = @ + 1]
    /\ Goto(r, "model")
    /\ UNCHANGED <<response, waitsOn, result>>

\* Nothing to summarize, or the summarizer failed.
KeepsHistory(r) == BeforeModel(r, <<>>)

Summarizes(r) == WantsSummary(log, r) /\ BeforeModel(r, <<Summary(log, r)>>)

-----------------------------------------------------------------------------
\* The model call.  A message stands for a fixed number of tokens.

ModelCall(r) == [Line(r, "model_call") EXCEPT !.read = Len(BuildMessages(log))]

ModelCallsTools(r) ==
    /\ phase[r] = "model"
    /\ \E b \in Batches : response' = [response EXCEPT ![r] = [calls |-> b, text |-> ""]]
    /\ log' = Append(log, ModelCall(r))
    /\ Goto(r, "before_tool")
    /\ UNCHANGED <<turn, waitsOn, result>>

\* An answer is recorded before any gate has seen it.
ModelAnswers(r) ==
    /\ phase[r] = "model"
    /\ \E a \in Answer :
          /\ response' = [response EXCEPT ![r] = [calls |-> <<>>, text |-> a]]
          /\ log' = log \o <<ModelCall(r), Said(r, "agent_message", a)>>
    /\ Goto(r, "on_model_stop")
    /\ UNCHANGED <<turn, waitsOn, result>>

\* The service is out of models: the exception leaves run_loop.
ModelFails(r) ==
    /\ phase[r] = "model"
    /\ Goto(r, "raised")
    /\ UNCHANGED <<log, turn, response, waitsOn, result>>

-----------------------------------------------------------------------------
\* _run_tools

\* Where before_tool pauses in a batch: the first call it asks about, or 0.
PausesAt(r) == SelectInSeq(response[r].calls, LAMBDA c : BeforeTool(log, r, c) = "pause")

\* The lines consult appends for the refusals among some calls.
Denials(r, calls) ==
    LET denied == {i \in DOMAIN calls : BeforeTool(log, r, calls[i]) = "deny"}
    IN  [i \in 1..Cardinality(denied) |-> Line(r, "deny")]

\* The batch waits whole for one answer.
BatchPauses(r) ==
    /\ phase[r] = "before_tool"
    /\ PausesAt(r) # 0
    /\ PauseOn(r, Denials(r, SubSeq(response[r].calls, 1, PausesAt(r) - 1)),
               response[r].calls[PausesAt(r)])
    /\ UNCHANGED response

\* Every call is decided; the assistant turn goes down before any of it runs.
BatchStarts(r) ==
    /\ phase[r] = "before_tool"
    /\ PausesAt(r) = 0
    /\ log' = log \o Denials(r, response[r].calls)
                  \o <<[Line(r, "agent_message") EXCEPT !.calls = response[r].calls]>>
    /\ Goto(r, "tools")
    /\ UNCHANGED <<turn, response, waitsOn, result>>

\* A call's event: what the tool said (an exception is text too), or a refusal.
ToolResult(r, c) ==
    [About(r, "tool_result", c) EXCEPT
        !.text = IF BeforeTool(log, r, c) = "deny" THEN "refused" ELSE "output"]

\* The batch has run; its results go down in call order.
BatchEnds(r) ==
    /\ phase[r] = "tools"
    /\ log' = log \o [i \in DOMAIN response[r].calls |-> ToolResult(r, response[r].calls[i])]
    /\ response' = [response EXCEPT ![r] = NoResponse]
    /\ Goto(r, "before_model")
    /\ UNCHANGED <<turn, waitsOn, result>>

-----------------------------------------------------------------------------
\* on_model_stop

\* A gate sends the answer back as a user turn.
SendBack(r, lines) ==
    /\ log' = log \o lines \o <<Line(r, "inject"), Said(r, "user_message", "correction")>>
    /\ response' = [response EXCEPT ![r] = NoResponse]
    /\ Goto(r, "before_model")
    /\ UNCHANGED <<turn, waitsOn, result>>

\* AttemptBudget asks for more steps.
MinimumNotMet(r) ==
    /\ phase[r] = "on_model_stop"
    /\ TooFew(log, r)
    /\ SendBack(r, <<>>)

\* ReviewGate is reached.  Its free question, whether this very answer has
\* passed, is never answered yes here: nothing in this stack sends back an
\* answer that passed.
AtReview(r) == phase[r] = "on_model_stop" /\ ~TooFew(log, r)

\* The rounds are used up: a person is asked, and nothing is pending.
HandsOver(r) ==
    /\ AtReview(r)
    /\ RoundsUsedUp(log, r)
    /\ PauseOn(r, <<>>, response[r].text)
    /\ response' = [response EXCEPT ![r] = NoResponse]

\* The reviewer is spawned, and waited for.
UnderReview(r) == AtReview(r) /\ ~RoundsUsedUp(log, r)

ReviewPasses(r) ==
    /\ UnderReview(r)
    /\ Finish(r, <<About(r, "review_passed", response[r].text)>>, response[r].text)

ReviewFails(r) ==
    /\ UnderReview(r)
    /\ SendBack(r, <<About(r, "review_failed", response[r].text)>>)

\* The reviewer cannot be built, raises or does not finish.
ReviewErrors(r) ==
    /\ UnderReview(r)
    /\ LET errored == About(r, "review_errored", response[r].text)
       IN  IF FailOpen THEN Finish(r, <<errored>>, response[r].text)
                       ELSE Finish(r, <<errored, Line(r, "stop")>>, "halted")

-----------------------------------------------------------------------------
\* The host answers when it likes, or never; everything else is the loop's.
HostNext(r) == Begin(r) \/ Resume(r, "human_approved") \/ Resume(r, "human_denied")

LoopNext(r) ==
    \/ RunsOut(r) \/ BudgetStops(r) \/ KeepsHistory(r) \/ Summarizes(r)
    \/ ModelCallsTools(r) \/ ModelAnswers(r) \/ ModelFails(r)
    \/ BatchPauses(r) \/ BatchStarts(r) \/ BatchEnds(r)
    \/ MinimumNotMet(r) \/ HandsOver(r)
    \/ ReviewPasses(r) \/ ReviewFails(r) \/ ReviewErrors(r)

Next == \E r \in Run : HostNext(r) \/ LoopNext(r)

Spec == Init /\ [][Next]_vars

-----------------------------------------------------------------------------
\* Properties

\* Every request is one a provider accepts, whatever was paused, evicted,
\* summarized or begun in between.
RequestsAreWellFormed ==
    \A r \in Run : phase[r] = "model" => WellFormed(BuildMessages(log))

\* A tool that needs a person's say-so ran only after one was given to this
\* run for this very call, and a blocked one never ran.
NothingRanUnapproved ==
    \A i \in DOMAIN log :
        log[i].kind = "tool_result" /\ log[i].text = "output"
            => /\ log[i].key \notin Blocked
               /\ log[i].key \in NeedsApproval =>
                     \E j \in 1..i - 1 : /\ log[j].kind = "human_approved"
                                         /\ log[j].run = log[i].run
                                         /\ log[j].key = log[i].key

\* A person is asked about a call once: the answer is found on the way through.
CallsAreAskedOnce ==
    \A i \in DOMAIN log :
        log[i].kind = "pause" /\ log[i].key \in Call
            => \A j \in 1..i - 1 : ~(/\ log[j].kind = "pause"
                                    /\ log[j].run = log[i].run
                                    /\ log[j].key = log[i].key)

\* The budget holds over the whole run, pauses included, and cuts short no run
\* that has not spent it: earlier questions of the session do not count.
BudgetIsTheRunsOwn ==
    \A r \in Run :
        /\ Count(log, r, "model_call") <= MaxAttempts
        /\ FailOpen /\ result[r] = "halted" => Count(log, r, "model_call") = MaxAttempts

\* What run_loop returns as an answer passed review as it stands, or the
\* reviewer could not be had for it, and within the rounds allowed.
AnswersAreReviewed ==
    \A r \in Run :
        /\ result[r] \in Answer => \/ Has(log, r, "review_passed", result[r])
                                   \/ FailOpen /\ Has(log, r, "review_errored", result[r])
        /\ Count(log, r, "review_failed") <= MaxRounds

\* event_store.py, history_events: "Everything before the last summary is
\* represented by that summary, so it leads the list and the turns it covered
\* are dropped."
SummaryCoversTheDropped ==
    LET last == LastSummary(log)
    IN  last # 0 => \A i \in 1..last - 1 :
                        log[i].kind \in HistoryKinds => i \in log[last].covers

\* agent.py, resume: "Middleware re-run on the way through and find the stamp
\* waiting."  What a person approved is not asked of them again.
ApprovalIsFound ==
    \A r \in Run : phase[r] = "paused" => ~Has(log, r, "human_approved", waitsOn[r])
=============================================================================
