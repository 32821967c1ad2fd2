----------------------------- MODULE SubAgents ------------------------------
(***************************************************************************)
(* agent/subagents.py: a run of a session and the sub-agents below it, all *)
(* on one log.  A run delegates by a tool call, which blocks its thread    *)
(* (the calls of a batch may overlap), or a middleware of its spawns one   *)
(* aside at before_model: deferred, and cashed before the run ends, or     *)
(* asynchronous, and never.  Those go through the pool.                    *)
(*                                                                         *)
(* A run here is the loop of AgentLoop with no gates: it asks the model,   *)
(* runs a batch of delegations, and answers, raises or runs out of turns.  *)
(* A model call costs one token.  A host that is done joins the background *)
(* work, which waits and changes nothing the log shows.                    *)
(***************************************************************************)
EXTENDS EventLog, FiniteSetsExt

CONSTANTS MaxDepth,  \* max_depth of each spec; its names are the Calls
          Batches,   \* the delegations a model turn may carry
          Aside,     \* the sub-agents a middleware spawns: pairs of a name and a mode
          Workers,   \* max_workers
          MaxTurns   \* max_turns of each spec, and of the run of the session

Top == ""    \* in place of a spec's name, for the run of the session

ASSUME SubAgentsAssumption ==
    /\ Runs # 0
    /\ MaxDepth \in [Call -> Nat]
    /\ Batches \subseteq Seq(Call) \ {<<>>}
    /\ Aside \subseteq Call \X {"deferred", "async"}
    /\ Workers \in Nat \ {0} /\ MaxTurns \in [Call \cup {Top} -> Nat \ {0}]

VARIABLES
    log,      \* the session's EventStore
    phase,    \* run -> where it is
    turn,     \* run -> turns begun
    spec,     \* run -> the spec it was built from, and how it was spawned
    tickets,  \* run -> for each call of the batch in hand, what became of it
    queue     \* jobs the pool has not begun

vars == <<log, phase, turn, spec, tickets, queue>>

Phase  == {"new", "queued", "before_model", "model", "tools", "on_model_stop",
           "returned", "failed"}
Closed == {"returned", "failed"}

Mode   == {"blocking", "deferred", "async"}
Origin == [name : Call \cup {Top}, mode : Mode, parent : Run \cup {0}, depth : Nat]
NoSpec == [name |-> Top, mode |-> "blocking", parent |-> 0, depth |-> 0]

Open    == 0    \* a call not begun; a child's number is its ticket
Refused == Runs + 1

TypeOK ==
    /\ log \in Seq(Event)
    /\ phase \in [Run -> Phase]
    /\ turn \in [Run -> Nat]
    /\ \A r \in Run : turn[r] <= MaxTurns[spec[r].name]
    /\ spec \in [Run -> Origin]
    /\ tickets \in [Run -> Seq(0..Runs + 1)]
    /\ queue \in Seq(Run)
    /\ \A c \in Run : c \in Range(queue) <=> phase[c] = "queued"

Init ==
    /\ log = <<Said(1, "user_message", "question")>>
    /\ phase = [r \in Run |-> IF r = 1 THEN "before_model" ELSE "new"]
    /\ turn = [r \in Run |-> 0]
    /\ spec = [r \in Run |-> NoSpec]
    /\ tickets = [r \in Run |-> <<>>]
    /\ queue = <<>>

\* A line is stamped with the depth of its run.
At(r, line) == [line EXCEPT !.depth = spec[r].depth]

Children(r) == {c \in Run : spec[c].parent = r}

-----------------------------------------------------------------------------
\* spawn

\* The cap, one level late.
TooDeepForChild(r, name) == spec[r].depth > MaxDepth[name]

\* DepthExceeded
TooDeep(r, name) == spec[r].depth >= MaxDepth[name]

Fresh == {c \in Run : phase[c] = "new"}

\* Bound: a spawn, or a batch of them, needs runs that no begun batch will need.
Room(n) ==
    n + MapThenSumSet(LAMBDA r : Len(SelectSeq(tickets[r], LAMBDA t : t = Open)), Run)
        <= Cardinality(Fresh)

\* The dispatch is stamped and the child's state begun before the job exists.
Spawn(r, name, mode, c) ==
    /\ ~TooDeep(r, name)
    /\ c \in Fresh /\ \A d \in Fresh : c <= d
    /\ spec' = [spec EXCEPT ![c] = [name |-> name, mode |-> mode, parent |-> r,
                                    depth |-> spec[r].depth + 1]]
    /\ log' = log \o
         <<At(r, [About(r, "subagent_dispatched", name) EXCEPT !.child = c])>>
         \o IF mode = "blocking"
              THEN <<[Said(c, "user_message", "question") EXCEPT !.depth = spec[r].depth + 1]>>
              ELSE <<>>

\* A child's cost, reported to itself.
ReportedToChild(c, kind) ==
    At(c, [About(c, kind, spec[c].name) EXCEPT !.child = c, !.tokens = TotalTokens(log, c)])

\* The line its parent's run gets when a child is over.
Reported(c, kind) ==
    At(spec[c].parent, [About(spec[c].parent, kind, spec[c].name)
                           EXCEPT !.child = c, !.tokens = TotalTokens(log, c)])

\* A middleware spawns one aside; how often is the middleware's business.
SpawnsAside(r) ==
    /\ phase[r] = "before_model" /\ Room(1)
    /\ \E a \in Aside, c \in Run :
          /\ Spawn(r, a[1], a[2], c)
          /\ phase' = [phase EXCEPT ![c] = "queued"]
          /\ queue' = Append(queue, c)
    /\ UNCHANGED <<turn, tickets>>

\* The workers of the pool that run a job.
Busy == {c \in Run : spec[c].mode # "blocking" /\ phase[c] \notin {"new", "queued"} \cup Closed}

\* A worker begins the next job and leaves it in the queue.
LeavesPooled(c) ==
    /\ queue # <<>> /\ Head(queue) = c
    /\ Cardinality(Busy) < Workers
    /\ log' = Append(log, At(c, Said(c, "user_message", "question")))
    /\ phase' = [phase EXCEPT ![c] = "before_model"]
    /\ UNCHANGED <<turn, spec, tickets, queue>>

\* A worker takes the next job.
StartsPooled(c) ==
    /\ queue # <<>> /\ Head(queue) = c
    /\ Cardinality(Busy) < Workers
    /\ queue' = Tail(queue)
    /\ log' = Append(log, At(c, Said(c, "user_message", "question")))
    /\ phase' = [phase EXCEPT ![c] = "before_model"]
    /\ UNCHANGED <<turn, spec, tickets>>

-----------------------------------------------------------------------------
\* The end of a run

\* run_loop returns.  The root has nobody to report to.
Returns(r) ==
    /\ log' = log \o <<At(r, Line(r, "run_finished"))>>
                  \o (IF r = 1 THEN <<>> ELSE <<Reported(r, "subagent_returned")>>)
    /\ phase' = [phase EXCEPT ![r] = "returned"]
    /\ UNCHANGED <<turn, spec, tickets, queue>>

\* An exception that nobody catches in the job.
FailsSilently(r) ==
    /\ phase' = [phase EXCEPT ![r] = "failed"]
    /\ UNCHANGED <<log, turn, spec, tickets, queue>>

\* The factory, the model or run_loop raises.
Fails(r) ==
    /\ log' = IF r = 1 THEN log ELSE Append(log, Reported(r, "subagent_failed"))
    /\ phase' = [phase EXCEPT ![r] = "failed"]
    /\ UNCHANGED <<turn, spec, tickets, queue>>

-----------------------------------------------------------------------------
\* The loop of a run

AsksModel(r) ==
    /\ phase[r] = "before_model" /\ turn[r] < MaxTurns[spec[r].name]
    /\ turn' = [turn EXCEPT ![r] = @ + 1]
    /\ phase' = [phase EXCEPT ![r] = "model"]
    /\ UNCHANGED <<log, spec, tickets, queue>>

RunsOut(r) == phase[r] = "before_model" /\ turn[r] = MaxTurns[spec[r].name] /\ Fails(r)

ModelFails(r) == phase[r] = "model" /\ Fails(r)

ModelCall(r) == At(r, [Line(r, "model_call") EXCEPT !.tokens = 1])

ModelAnswers(r) ==
    /\ phase[r] = "model"
    /\ \E a \in Answer : log' = log \o <<ModelCall(r), At(r, Said(r, "agent_message", a))>>
    /\ phase' = [phase EXCEPT ![r] = "on_model_stop"]
    /\ UNCHANGED <<turn, spec, tickets, queue>>

\* The assistant turn goes down before any of its calls is run.
ModelDelegates(r) ==
    /\ phase[r] = "model"
    /\ \E batch \in Batches :
          /\ Room(Len(batch))
          /\ log' = log \o <<ModelCall(r),
                             At(r, [Line(r, "agent_message") EXCEPT !.calls = batch])>>
          /\ tickets' = [tickets EXCEPT ![r] = [i \in DOMAIN batch |-> Open]]
    /\ phase' = [phase EXCEPT ![r] = "tools"]
    /\ UNCHANGED <<turn, spec, queue>>

Batch(r) ==
    log[LastOf({i \in DOMAIN log : log[i].run = r /\ log[i].calls # <<>>})].calls

\* The handler of one delegation begins: the child runs on its thread.
Delegates(r, i) ==
    /\ phase[r] = "tools" /\ i \in DOMAIN tickets[r] /\ tickets[r][i] = Open
    /\ \E c \in Run :
          /\ Spawn(r, Batch(r)[i], "blocking", c)
          /\ phase' = [phase EXCEPT ![c] = "before_model"]
          /\ tickets' = [tickets EXCEPT ![r][i] = c]
    /\ UNCHANGED <<turn, queue>>

\* The exception is the tool's output.
IsRefused(r, i) ==
    /\ phase[r] = "tools" /\ i \in DOMAIN tickets[r] /\ tickets[r][i] = Open
    /\ TooDeep(r, Batch(r)[i])
    /\ tickets' = [tickets EXCEPT ![r][i] = Refused]
    /\ UNCHANGED <<log, phase, turn, spec, queue>>

\* SubResult.text: a failed sub-agent's is empty.
ToolOutput(ticket) == IF ticket = Refused THEN "refused"
                      ELSE IF phase[ticket] = "returned" THEN "output" ELSE ""

BatchEnds(r) ==
    /\ phase[r] = "tools"
    /\ \A t \in Range(tickets[r]) : t = Refused \/ (t \in Run /\ phase[t] \in Closed)
    /\ log' = log \o [i \in DOMAIN tickets[r] |->
                        At(r, [About(r, "tool_result", Batch(r)[i])
                                  EXCEPT !.text = ToolOutput(tickets[r][i])])]
    /\ tickets' = [tickets EXCEPT ![r] = <<>>]
    /\ phase' = [phase EXCEPT ![r] = "before_model"]
    /\ UNCHANGED <<turn, spec, queue>>

\* The later seam at which the deferred tickets are cashed, and the end.
Answers(r) ==
    /\ phase[r] = "on_model_stop"
    /\ \A c \in Children(r) : spec[c].mode = "deferred" => phase[c] \in Closed
    /\ Returns(r)

RunNext(r) ==
    \/ AsksModel(r) \/ RunsOut(r) \/ ModelFails(r) \/ ModelAnswers(r) \/ ModelDelegates(r)
    \/ \E i \in DOMAIN tickets[r] : Delegates(r, i) \/ IsRefused(r, i)
    \/ BatchEnds(r) \/ Answers(r)

Next == \E r \in Run : SpawnsAside(r) \/ StartsPooled(r) \/ RunNext(r)

Spec == Init /\ [][Next]_vars

\* Threads run, model calls answer or time out.  Nobody has to spawn aside.
FairSpec == Spec /\ \A r \in Run : WF_vars(StartsPooled(r)) /\ WF_vars(RunNext(r))

-----------------------------------------------------------------------------
\* Properties

\* RunState.child: sharing the log "costs no isolation".  Whatever sub-agents
\* append and when, the request of the run above them stays one that a
\* provider accepts, made of its own turns.
ParentIsIsolated ==
    phase[1] = "model" => /\ WellFormed(BuildMessages(log))
                          /\ \A i \in HistoryEvents(log) : log[i].run = 1

\* The runs a run stands below, and the tree below a run.
Above(c) ==
    LET above[d \in Run] == LET p == spec[d].parent
                            IN  IF p = 0 THEN {} ELSE {p} \cup above[p]
    IN  above[c]

Below(r) == {c \in Run : c = r \/ r \in Above(c)}

\* DepthExceeded: "max_turns bounds one loop; this bounds the tree."  No more
\* runs stand above a sub-agent than its cap allows, by model or by middleware,
\* blocking or pooled.
TreeIsBounded ==
    \A c \in Run \ {1} : phase[c] # "new"
        => Cardinality(Above(c)) <= MaxDepth[spec[c].name]

\* Where the log says, in a line of some kind, that a sub-agent is over.
OverAt(kinds, c) == {i \in DOMAIN log : log[i].kind \in kinds /\ log[i].child = c}

\* What the runs of a tree spent.
SpentIn(tree) ==
    Cardinality({i \in DOMAIN log : log[i].kind = "model_call" /\ log[i].run \in tree})

\* A child whose cost its parent's report could include.
InTime(c) ==
    \E i \in OverAt({"subagent_returned"}, c) :
        \A j \in OverAt({"subagent_returned", "subagent_failed"}, spec[c].parent) : i < j

\* "The parent's budget is not blind to the work it delegated", nor does it see
\* it twice: the roll-up through the levels is at most what was spent below, and
\* all of it when every sub-agent returned before its parent did.
RollUpIsExact ==
    \A r \in Run :
        LET spent == SpentIn(Below(r))
        IN  /\ TotalTokens(log, r) <= spent
            /\ (\A c \in Below(r) \ {r} : InTime(c)) => TotalTokens(log, r) = spent

\* Whatever was spawned, blocking, deferred or aside, is closed in the log at
\* last, however the pool is used.
TicketsClose ==
    []<>(\A c \in Run \ {1} :
            phase[c] # "new" => \E i \in DOMAIN log :
                log[i].kind \in {"subagent_returned", "subagent_failed"} /\ log[i].child = c)

\* expose_as_tool: a specialist "starts fresh and sees none of this
\* conversation".  What a sub-agent is sent is its own.
StartsFresh ==
    \A r \in Run : phase[r] = "model" /\ spec[r].depth > 0
        => \A i \in HistoryEvents(log) : log[i].run = r
=============================================================================
