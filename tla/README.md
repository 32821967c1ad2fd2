# A TLA+ model of agent-in-sandbox

The repository is a tool-using LLM agent: a loop with middleware around it, an
append-only record per session, long-term memory, a chain of model providers,
and a scheduler that runs agents as digests and monitors. This directory holds
its formal model: modules, TLC configurations, and TLAPS proofs.

Modelled are the **scheduler** with its cron expressions, the **agent loop** with
its event store and guardrails, its **sub-agents**, the **memory** they write, the
**chain of models** behind every call, the **local model server** at its end, and
the **search index** one of the tools reads. All are model-checked, and every
invariant, action property and refinement a passing run checks is also a theorem,
proved for all values of the constants; the liveness properties are only checked.

    tlc -workers 2 -config MCFires.cfg MCFires       # any run of the table below
    tlapm MemoryProofs.tla                           # any module of proofs

## The system

| component | state it keeps | operations | talks to |
|---|---|---|---|
| `scheduler/clock.py` | plan `_next`, thread pool with its queue (memory) | add, tick, stop, run_forever | triggers; hands fires to the runner |
| `scheduler/runner.py` | locals of one run | run_once | store, policy, channel, an agent |
| `scheduler/store.py` | tables `runs`, `task_state` (SQLite) | claim, finish, get_state, put_state | every worker of every clock process |
| `scheduler/policy.py`, `trigger.py`, `outcome.py` | none, but the sink of one run | decide, next_after, report | runner, clock, the agent's tool call |
| `agent/agent.py` | none of its own: a run is its events | run_loop, resume | LLM service, tools, middleware, the host |
| `agent/event_store.py`, `session.py` | the session's log | append, history_events, readers per run | everything in a run |
| `agent/context_assembler.py`, `context_budget.py` | none | build_messages, split, summarize | log, LLM service |
| `agent/middleware.py`, `guardrails.py` | configuration only | consult, transform, the gates | log, a person, a reviewer |
| `agent/subagents.py` | pool, background handles | spawn, join_background | child runs on the same log |
| `agent/llm_service.py`, `providers/fallback.py` | cooldowns shared by the process | chat, rest, get_ready_models | providers |
| `memory/` | append-only table, watermark on the log | on_run_end, flush, add, update, delete, search | log, LLM service, Postgres |
| `agent/providers/server.py` | locks, one GPU | chat_completions, sse_chat | HTTP clients |
| `agent/search/` | embedding cache, vector table, text index | run (fills them), search | Postgres, Elasticsearch, LLM service |
| `browser.py`, `docker_sandbox.py`, `skills.py`, `tool_registry.py` | a page, the active skills | tools the model calls | the loop's dispatch |
| `benchmark/`, `monitoring/`, `prompts.py`, `main.py` | none that matters here | | |

What is hard in it:

* **Concurrency.** Workers of one pool and of several clock processes share a
  file; every store method is a transaction of its own, so any two steps of
  `run_once` can have another worker's step, a crash or time between them.
* **Failure and time.** A crash loses plan, queue and running jobs but not the
  tables; leases and deadlines are clocks; sends fail before or after arriving.
* **Order.** What an alert is (new, a reminder, silence) depends on the runs
  before it. In a session, pauses, resumes, new runs, reviews and summaries
  interleave on one log from which every request is rebuilt. Sub-agents append to
  that log from threads of their own.
* **Read, think, write.** A memory is looked up, judged by a model and written in
  transactions of their own, by several processes; the index is filled store by
  store; a stream hands the event loop back in mid-generation.
* **Clocks.** A wall clock repeats and skips minutes that a schedule names.

What makes each part correct, in short: a fire has one owner per lease and is
never owned again once done; the store never claims a delivery that did not
happen; a hung run frees its worker; a problem is announced once and reminders
keep their distance; a request never separates a tool call from its result; a
call runs only if nobody had to be asked or somebody agreed to that very call;
budgets and review rounds are the run's own and survive pauses; a summary stands
for what it hides; no model is passed over without cause, and every call ends; a
parent's request holds none of its sub-agents' turns, its bill all of their
tokens, and every ticket closes; memories are chains of versions, no turn is
extracted twice and a guess never displaces what somebody said; a schedule fires
once at every minute it names; generations do not interleave; a phrase that is
indexed can be found. `PROJECT.json` lists the hazards line by line.

## Modules

| module | models | in one sentence |
|---|---|---|
| `RunStore` | `store.py`, `outcome.py` | rows of the two tables, and claim, finish, put_state as operators on a row |
| `Policy` | `policy.py` | the two `decide` functions |
| `Trigger` | `trigger.py` | `next_after` as the clock sees it; an expression is the set of instants it matches |
| `Scheduler` | `clock.py`, `runner.py` | clocks, pools and workers on one database, with crashes, aborts and time |
| `FireLedger` | the promise of `claim` | abstract: a fire is open, owned, done |
| `Monitor` | `DeliverOnTransition` in use | the Scheduler plus what the person alerted has heard |
| `SchedulerProofs` | | the theorems about `Scheduler`, `Monitor` and `Cron` |
| `EventLog` | `event_store.py`, `context_assembler.py` | the log, its readers, child runs, `total_tokens`, `history_events`, `build_messages` |
| `EventLogProofs` | | facts about any log: its readers, and when its request is one a provider accepts |
| `Guardrails` | `guardrails.py`, `context_budget.py` | what each middleware answers, read off the log |
| `AgentLoop` | `agent.py` | runs of one session from seam to seam, paused and resumed |
| `AgentLoopProofs` | | the theorems about `AgentLoop` |
| `SubAgents` | `subagents.py`, the loop of `agent.py` | a run and the runs below it, blocking or through the pool, on one log |
| `SubAgentsProofs` | | the theorems about `SubAgents` |
| `MemoryStore` | `memory_store.py`, `types.py`, `schema.sql` | a row, its constraints, the active view, and the rows each write makes |
| `MemoryWriter` | `memory_writer.py`, the recall of `memory_store.py` | processes that extract and reconcile memories of one user |
| `MemoryLog` | the promise of `schema.sql` | abstract: rows are added, revised once or forgotten once |
| `MemoryProofs` | | the theorems about `MemoryWriter` |
| `Cron` | `CronTrigger` of `trigger.py` | the fields, the walk over wall-clock minutes, and the chain of fires |
| `LocalServer` | `providers/server.py` | requests on one event loop, one lock and one GPU |
| `LocalServerProofs` | | the theorems about `LocalServer` |
| `SearchIndex` | `search/rag_pipeline.py`, `documents.py`, `embedding_cache.py`, `text_search.py` | runs of the pipeline, stopped and started again |
| `SearchIndexProofs` | | the theorems about `SearchIndex` |
| `LLMService` | `llm_service.py`, `providers/fallback.py` | threads walking down chains of models on shared cooldowns |
| `LLMServiceProofs` | | the theorems about `LLMService` |
| `MCFires`, `MCMonitor`, `MCAgent`, `MCChain`, `MCSubAgents`, `MCMemory`, `MCCron`, `MCServer`, `MCSearch` | | values of the constants for TLC |

### Scheduler: how it corresponds to the code

`clock`, `next` and `queue` are a process's memory; `Crash` wipes them and
leaves `runs` and `state`. A worker's `phase` is the point between two lines of
`run_once`: *claim* (the clock has been read, the transaction not yet begun),
*execute* or *hung* (inside `_with_deadline`), *decide* (outcome in hand, prior
not read), *send*, *put*, *finish*. `claimed` is the instant read in `claim`;
`verdict` is the decision, the `now` it was made at, and `delivered`. `told` is
a history of what the channel accepted. A tick is one step per due task, since
the iterations of its loop touch separate entries of `_next`.

A send that fails may have arrived: `SendFails` records nothing as told, which
is the weaker assumption for every property about `told`. An abandoned thread
goes on after its deadline, but its report lands in a sink nobody reads, and
what its tools do meanwhile is outside this model.

`FireLedger` is what `claim` promises. `Scheduler` implements it with a row
that is absent as *open*, running as *owned*, anything else as *done*: a late
`finish` by a worker that lost its fire either closes the fire or rewrites how
it ended, and both are allowed by the abstraction.

`Monitor` is for one task whose runs do not overlap (one thread). It adds
`alarmed` (announced and not seen ok since) and `lastRun`.

### AgentLoop: how it corresponds to the code

`log` is the session's `EventStore`, with the lines something reads: messages,
`model_call`, the human's stamps, review verdicts, summaries, `run_finished`,
and the decision lines of `consult`. `phase` is the seam the loop stands at;
`turn` counts the iterations of the current `run_loop` or `resume` call;
`response` is the model turn in hand, and `RunPaused.pending` while paused;
`waitsOn` is `RunPaused.key`. Guards and answers of the middleware are
operators over the log (`Guardrails`), as in the code, which keeps no other
state. The history is a set of positions in the log, in their order; `Older` is
what `split_at_turn_boundary` puts before the cut, and `BuildMessages` numbers what
is left. Tokens are counted in messages. The text of a summary is the set of
positions it was written from.

The host calls `run_loop` and `resume` for one run of the session at a time, and
resumes a paused run once. Between two calls any number of runs may be paused.

### LLMService: how it corresponds to the code

`resting` is `CooldownRecord.until`, as time left. A caller's `left` is the rest
of the list `get_ready_models` gave at the start of the call, as positions of its
`chain`; `attempt`, `failures` and the sleep in `_backoff` (`asleep`) are locals
of `chat`. *asking* is inside `provider.chat`, which answers or raises an error of
one of the three classes at any attempt; an adapter that cannot be built is an
error of the second class. `known` and `excused` are histories: who has stepped
down within the longest rest, now and when the call began. Time is counted down,
so the model has no horizon and no bound on the number of calls.

### SubAgents: how it corresponds to the code

The same `log` as in `AgentLoop`, with the dispatch and return lines. A run is its
number; `spec` is the `SubAgentSpec` it was built from, the mode, its parent and
its depth. `tickets` are the calls of the batch in hand: not begun, refused for
depth, or the number of the child that runs. *before_model*, *model*, *tools* and
*on_model_stop* are the seams, as in `AgentLoop`, without its gates. `queue` is the
pool's; a pooled run that has begun and not ended is one busy worker. The parallel
handlers of a batch are separate steps, so their children interleave. Which
middleware spawns aside, how often, and that a deferred ticket is cashed at
*on_model_stop*, is read from `spawn`'s documentation of its modes, since the
repository has no such middleware. `Above` and `Below` (the tree), `SpentIn` (its
model calls), `OverAt` and `InTime` (when a sub-agent was over, and whether before its
parent) are for the properties and stand for no code.

### Memory: how it corresponds to the code

`rows` is the table, a row's id its position. `Active` is the view. `update` and
`delete` are a `get` and an insert in two transactions, the look before them a
third, with the model's verdict in between: `phase` is the next of the three for
the draft in hand, and any other writer, the clock or a crash may come between.
`said` and `watermark` are the part of a session's log that `unrecorded_turns`
reads; a turn is a question with its answer, dated by the question. The extraction
returns any list of drafts, the model any verdict, and `_enforce` does to it what
the code does. Distances are a relation `Near` between contents. `heard`,
`authors`, `blinded` and `since` are histories. A `join` waits and changes nothing.

`MemoryLog` is what `schema.sql` promises: history is a chain. A row in force may
be revised or forgotten once; `MemoryWriter` implements it with the rows that are
no tombstone and have no successor, whatever has expired.

### Cron: how it corresponds to the code

An instant is a minute. The zone is its offset at each instant, the calendar a
list of dates with month, day and weekday, both constants, so a change of the clock
and a short month are data. `ToUTC` is `replace(fold=0)` and what `astimezone` does
with a minute that does not exist; `Local` is the way back. `Walk` is the walk over
naive wall-clock minutes, `SearchMinutes` the code's `SEARCH_LIMIT_MINUTES`. `Fires` is the chain as the scheduler makes it, each fire
found from the last, started at any instant. The properties compare with `Wanted`,
which reads the expression off the clock on the wall at every real instant.
`NewMinutesAreLater`, `SkippedStandForNew` and `WholeHoursAreSkipped` say how clocks
change where the code keeps its promises; TLC evaluates them on the zone of `MCCron`.

### LocalServer: how it corresponds to the code

One step is what the event loop does between two awaits, so a whole generation is
one step and a piece of a stream another. `holder` is the stream that holds
`request_lock`; requests that take it and give it back in one step never show as
holders. *abandoned* is a stream whose client has gone and whose generator has not
been closed. Every return of `chat_completions`, the retry in it, and every
exception is an action of its own; `reply` is the form of what was sent.

### SearchIndex: how it corresponds to the code

`phase` is the next transaction of `RAGPipeline.run`: encode, store in the cache,
upsert the vectors, index row by row, return. `read` is what the run's query
returned; the documents may be any others at the next run. A vector stands for the
text it was made from. `Stops` is an exception or the end of the process at any of
them. `paid` and `lost` are histories: what the model was run on, and what a stop
threw away before it was cached. That one run at a time fills the stores is how
the package is used.

## Runs

| run | shows | bounds | states |
|---|---|---|---|
| `fires` | `FireOwnership`, `LastDeliveredIsTrue`, `ImplementsLedger`, `WorkersAreFreed`, `StopEnds` | two clocks, one thread each, one task, fires at 1 and 3, lease 1, horizon 3, one fault | 71 thousand |
| `monitor` | `NewsOnlyOnce`, `RemindersSpaced` | one clock and thread, fires at 1 to 4, reminders every 2, any report, lost sends | 213 thousand |
| `agent` | `RequestsAreWellFormed`, `NothingRanUnapproved`, `CallsAreAskedOnce`, `BudgetIsTheRunsOwn`, `AnswersAreReviewed` | two runs, three model calls and three turns each, a batch of three calls of which two ask and one is blocked, one review round, one kept turn, summaries from three messages | 628 thousand |
| `chain` | `FallbackIsEarned`, `GivesUpForCause`, `CallsEnd` | two threads, two models, two attempts at the first, rests of 2 and 1, pinned calls | 104 thousand |
| `subagents` | `ParentIsIsolated`, `TreeIsBounded`, `RollUpIsExact`, `TicketsClose` | a run and up to three sub-agents, caps of 1 and 2, batches of two, deferred and asynchronous ones through a pool of one, two turns | 627 thousand |
| `memory` | `ImplementsLog`, `TurnsAreExtractedOnce`, `NoEchoes`, `GuessesSpareTheStated`, `VersionsMixOnlyInARace` | two processes, three turns and one, drafts stated, guessed and passing, everything near everything, horizon and lifetimes 1, one fault | 2.5 million |
| `cron` | `NoMinuteIsPassedOver`, `NoMinuteFiresTwice`, `FiresAreWanted` | six days of three hours of two minutes, the clock put forward and back by an hour, 216 expressions, every start | 12.5 thousand |
| `server` | `GenerationsDoNotInterleave`, `RequestsEnd` | three requests of any kind, two pieces, parser installed | 31 thousand |
| `search` | `EveryPhraseIsFound`, `TextsArePaidOnce` | two documents of none, one or three chunks or absent, chunks of two overlapping by one, any number of runs and stops | 2.2 million |
| `summary_covers` | violated: a summary hides turns it does not cover | as `agent`, two turns | |
| `failed_turns_kept` | violated: turns behind the watermark that nobody extracted | as `memory` | |
| `subagents_start_fresh` | violated: a sub-agent is sent its parent's conversation | as `subagents` | |

Each passing run also checks the `TypeOK` of its module where it has one.
Six more configurations state a sentence of the repository that the code does
not keep; run them by hand:

| configuration | module | violated |
|---|---|---|
| `MCFiresExactlyOnce.cfg` | `MCFires` | a fire is delivered twice |
| `MonitorSilenceMeansTold.cfg` | `MCMonitor` | a lost alert is never tried again |
| `MonitorBrokenSinceLastRunIsNews.cfg` | `MCMonitor` | a problem that returns after an ok run is silent |
| `AgentApprovalIsFound.cfg` | `MCAgent` | an accepted answer is handed over again |
| `ChainRestsAreKept.cfg` | `MCChain` | a short rest overwrites a long one |
| `SearchEditsArePickedUp.cfg` | `MCSearch` | text a document no longer says stays in the index |

Why the bounds are enough. *fires*: two clocks are the least for a race or a
takeover; with a lease of 1 and a horizon of 3 a fire is claimed, abandoned,
taken over and finished late, and a clock that starts after 1 plans only the
second fire; after 3 the cron matches nothing, which is how `next_after` comes
to raise. One fault is one crash or failed transaction; the lease makes the
second owner, not a second fault. Every delivery policy gives the same claims,
so the digest policy does. *monitor*: four runs are the least for announce,
suppress, remind and recover, or announce, ok, announce again. *agent*: with
one kept turn the second user turn evicts the first; a summary on top of a
summary needs the second run; a batch that asks twice needs two resumes. *chain*: two threads are the least for
one to rest what the other is about to ask; two models the least for a fallback;
the long rest outlasts the short one and a sleep, and time has no bound.
*subagents*: three sub-agents are the least for two levels with a sibling beside
them, and for a queue behind a pool of one; two turns let a run read its log after
a batch. *memory*: two writers make every race on one row; three turns let a flush
follow a flush that is still under way, or a run that stopped; a lifetime and a
horizon of 1 let a row expire between a look and a write; the proofs cover the rest.
*cron*: the change of the clock is a whole hour, of three, so whole minutes repeat
and are skipped; fields restrict days and weekdays together and apart. Zones that
change by less than an hour are left out, see below. *server*: three requests are
one in mid-stream and two that wait, one of which goes. *search*: a document that
shrinks from three chunks to one and one that goes are the least to leave rows
behind; texts share pieces, within a document and across.

All of these may stop for good (a horizon is reached, all runs or requests have
ended, a person never answers, nobody starts the pipeline again), so deadlock is
not checked; what must not get stuck is stated as liveness.

**Fairness** (`FairSpec` of `Scheduler`). Weak fairness of each worker's own
steps: the operating system runs a thread that can run, `thread.join(seconds)`
returns at the deadline whatever the run does (`RunFails`), a send returns or
its socket times out. Weak fairness of a clock's tick and of the end of
`shutdown`. None for an agent reporting, for a process starting, for an
operator, for time, or for faults. Fairness of `RunFails` is what
`_with_deadline` buys: without it neither liveness property holds. `FairSpec` of
`LLMService`: time passes, and a call that is under way proceeds, because every
request has a timeout (`base.py`, `DEFAULT_TIMEOUT`; a choice configured with
`timeout: null` gives that up) and a sleep ends. Nobody has to make a call.
`FairSpec` of `SubAgents`: every run goes on when it can, and a free worker takes
the next job (threads run, model calls end); nobody has to spawn aside. `FairSpec`
of `LocalServer`: the event loop runs what is ready, a generation ends because
`max_tokens` bounds it, an abandoned generator is closed by the loop's hook, and
the client of a stream reads it or goes: one that does neither keeps the lock
for ever, and only the transport's flow control could help. Nobody has to ask.

## What the violated runs show

Each states a sentence of the repository and finds the code doing otherwise; the
lines, with the sentences quoted, are under "findings" in `PROJECT.json`, those of
the configurations to run by hand included.

* Delivery is at least once, not exactly once. A failed delivery of a new alert is
  recorded as its prior and so is not retried. Ok runs are filed under `-` and so
  end no alert that has a fingerprint.
* A summary is placed after the recent turns it leaves out, and so hides them. An
  approval of a handed-over answer is looked up by nobody.
* The rest of a model that turned a call away is cut short by the next call that
  merely runs out of attempts.
* The memory watermark moves before the extraction has succeeded, and past the
  turns a long flush cuts off.
* A sub-agent's request is made of depth-0 events: it reads its parent's
  conversation and not its own brief.
* A document that shrinks leaves its old tail in both stores.

Met in reading and in modelling, and shown by no configuration:

* a failed sub-agent's tokens are in no total, and its tool result is an empty text;
* a pooled run that waits for a deferred one of its own holds its worker: where all
  do, the pool is stuck (nothing in the repository is built that way);
* `ContextBudget` reads the last call of the *current run*, so the first request of
  every question escapes the limit (`event_store.py:278-280` says the opposite);
* a version that another writer supersedes between get and insert ends in the
  database's error and not in the `KeyError` that `_write` turns into an add;
* `update` keeps the `source_run_id` of the memory it replaces; a `flush` after
  `join` raises, the pool being shut down; without an embedder nothing is recalled
  by words either;
* where the clocks change by less than an hour, a walk over wall-clock minutes meets
  instants out of order and passes over a minute that exists; `22-6` and
  `0 0 31 2 *` are accepted and raise at the first fire, and `0 0 29 2 *` raises
  when the next leap day is further off than the walk goes;
* an `IntervalTrigger` counts from the tick, not from "whenever the last fire was
  scheduled" (`trigger.py:147`);
* `AllModelsFailed` says every model of the chain was tried (`fallback.py:51`), where
  those at rest when the call began were not; `GivesUpForCause` is what does hold;
* a constrained decode that is cut at `max_tokens` does not parse, and the client
  gets a 500; off the stream, `finish_reason` never says that a reply was cut, and
  after the retry the usage is that of the second generation alone;
* rank fusion counts a document once for each of its chunks in one list, so one
  query can outvote several.

## Proofs

`SchedulerProofs` proves, for any clocks, threads, tasks, schedules, policies,
lease and horizon satisfying the assumptions named in the modules:

* `TypeCorrect`: `Spec => []TypeOK`.
* `Ownership`: `Spec => []FireOwnership`. The property is not inductive: a new
  claim is kept a lease away from an older owner only because the row remembers
  the latest claim. The strengthening `OwnershipInv` says that the row of a held
  fire exists and is dated no earlier than the holder's claim. `Claim` and
  `Finish` are the two steps that need an argument.
* `Delivery`: `Spec => []LastDeliveredIsTrue`, with the invariant that a worker
  whose `delivered` is set has its message among `told`. `told` only grows.
* `LedgerRefinement`: `Spec => ImplementsLedger`. It rests on the lemma that
  readings of the clock lie in the past, which makes a claim's date one the
  abstract ledger may choose.

About `Monitor`, for any clocks, threads, late threads, failed sends and crashes,
under two named conditions the scheduler does not enforce: `RunsDoNotOverlap` (a cron
that fires faster than its runs end, or a second clock, breaks it) and
`DeliveriesAreRecorded` (nothing fails between a send that got through and
`put_state`). `OneWorkerMeetsThem` proves that one worker without faults, the instance
of the `monitor` run, meets both.

* `NewsIsOnlyNewOnce`: `[]NewsOnlyOnce`, if all policies are transition policies. The
  invariant `NewsInv`: what was announced is in the table as a problem or about to be
  put there, and a decision to announce still agrees with the record it was made from.
* `RemindersKeepDistance`: `[]RemindersSpaced`, for any policy. `PacingInv`: no message
  is later than the record, the decision or the clock, but for one being recorded.

About `Cron`, for any lengths of hour, day, month and week, any calendar and
expressions, and any zone with the property named:

* `FiresOnlyWhenWanted`: `FiresAreWanted`, in every zone. `_matches` compares sizes
  of fields; `MatchesIsWanted` shows that this is what cron means by them.
* `EveryFireShowsNew`: `NoMinuteFiresTwice`, where the instant a skipped minute stands
  for shows a new one. Every fire is a first showing, and the chain goes forward.
* `FiresAreTheNext`: `NoMinuteIsPassedOver`, where clocks skip whole hours and show
  none of them later. The walk finds a first *minute*; the property is about a first
  *instant*. They part only in the hour after a skip, and there the same minute of the
  skipped hour is named too, stands for that instant and comes first (`NothingBetween`).
  It is here that whole hours are needed, and that the fields are a product.

`LLMServiceProofs` proves, for any callers, models, chains (of any length, with
repetitions), attempts, rests and backoff:

* `ChainTypeCorrect`: `Spec => []TypeOK`, which includes that a call that goes on
  has a model left to ask.
* `FallbackEarned`: `Spec => []FallbackIsEarned`, and `GivingUp`:
  `Spec => []GivesUpForCause`. Both follow from `ChainInv`: whoever rests is known
  to have stepped down, every position of a chain is still to be tried or was
  passed over for cause, a call that gave up has nothing left and a failure in
  hand, and the position that answered is the first of those left.

`EventLogProofs` holds what is true of any log. Its main result,
`SettledIsWellFormed`: if every batch of calls is answered in the history by its
results, in order and in one piece (`Batched`), the request `build_messages` makes is
one a provider accepts, wherever the last summary stands, however many turns are kept
and whatever was evicted. The n-th message is the n-th position sent, so the proof is
about ranks in sets of positions (`RankFacts`, `NthRank`), and that a batch is sent
whole or not at all (`BatchesAreWhole`). `BatchedGrows` and `BatchedAnswers` say which
lines keep a log settled. `TokensStand` and `TokensGrow` are what `total_tokens` does
when lines are added; the totals are shown to exist by a least counterexample, the one
form of induction at hand.

`AgentLoopProofs` proves, for any number of runs, any calls, batches and answers
(no call is also an answer), and any limits of the stack, all six properties of the
`agent` run. Every step appends to the log lines of one run (`EveryStepAdds`), six
actions append the kinds a property counts, and the others are quiet (`QuietSteps`);
what a reader of the log found stays found (`HasStays`, `CountStays`). On top of that:

* `NothingRunsUnapproved`: a batch that runs has been decided call by call
  (`Decided`), and a decision stays (`DecidedStays`): stamps are never withdrawn.
* `CallsAreNotAskedAgain`: a run that asked about a call waits for the answer or
  has it in its log (`Answered`), so the batch walked again finds it.
* `BudgetHolds`: a run about to call the model has a call left, and a halted run
  does nothing more (`Budgeted`).
* `AnswersPassReview` is inductive with the types.

`Typed` is what these need of the type invariant. The other two rest on `Paced`:

* `TypeCorrect` and `RequestsAccepted`: `[]TypeOK` and `[]RequestsAreWellFormed`.
  `RequestsAreWellFormed` alone is far from inductive. `Paced` adds that one run at a
  time is under way (the host), what the model turn in hand is at each seam, and that
  the log is `Batched` but for the batch whose tools run, which is its last line.
  Starting and ending a batch are the two steps that need an argument; all others add
  lines that are no part of one (`QuietActions`).

`SubAgentsProofs` proves, for any number of runs (at least one), caps, batches, pool
and limits, all four invariants of the `subagents` run:

* `TypeCorrect` and `IsolationHolds`: `[]TypeOK` and `[]ParentIsIsolated`, with the
  invariant `Inv`: runs are begun in order, each a level below one begun before and
  within its cap (`Family`), nobody waits twice (`InLine`), a line at depth 0 is of the
  run of the session, and the log is `Batched` but for its open batch (`Told`). What
  sub-agents append, and when, is `Aloof`: lines that leave that conversation alone.
* `TreeStaysBounded`: `[]TreeIsBounded`. The code compares a depth with a cap; the
  property counts ancestors. `AboveIsBounded` shows that a run has no more of them than
  its depth; `Above` exists and is what its definition says because parents come first.
* `CostsRollUp`: `[]RollUpIsExact`. `Reports`: the log says a sub-agent is over exactly
  when it is. `Credits`: there is a crediting of model calls to runs, a run's tokens
  being the number of those it is credited with, its own and its returned children's,
  each run passing on all it has when it returns and what reaches it later too late.
  That the branches of a tree share no run (`OneBranch`) makes adding up the reports
  of children a union of disjoint sets (`ReturnStep`).

`MemoryProofs` proves every property of the `memory` run, for any writers, drafts,
relation of nearness, lifetimes, bounds and faults. The inductive invariant `IInv`
is a conjunction of named parts. `RowsOK`, `TurnsOK`, `HandOK` and `FaultsOK` type
the state. `Backwards`: a row supersedes an earlier one. `Decided`: a verdict on its
way to the table names a memory the draft may replace (rows never change, which is
why an old verdict stays right). `BehindMark`: what is queued or was heard lies
behind the watermark. `RecallsFresh`: what a recall holds was in force when the
recall began. `BareRowsAreBlind`: only a writer whom the embedder failed leaves a
memory without its vector. `NothingTwice`: a writer it did not fail is not about to
write what it has in force. Theorems: `TypeCorrect`, `Refinement`
(`ImplementsLog`, where the unique constraint is what makes a late insert a step
of the abstract log), `ExtractedOnce`, `EchoFree`, `VersionsApart`, `GuessesSpare`.

`LocalServerProofs` proves, for any requests and any bound on a stream,
`TypeCorrect` (the lock is held exactly by a request in mid-stream, the queue is
those that wait, each once) and from it `NoInterleaving`.

`SearchIndexProofs` proves, for any texts, chunk size and overlap below it:

* `PhrasesAreFound`: `Spec => []EveryPhraseIsFound`. `SomeChunkCovers` is the
  argument about cutting: the first chunk that reaches a phrase's end is one that
  is cut, and begins no later than the phrase. `Written` is the inductive
  invariant: which rows each store holds under which key, by phase.
* `PaidOnce`: `Spec => TextsArePaidOnce`, since a text the model was run on is
  cached, in hand, or lost (`Accounted`).

Model-checked only: `WorkersAreFreed`, `StopEnds`, `CallsEnd`, `TicketsClose` and
`RequestsEnd`, the liveness properties, since fairness speaks of ENABLED, which is
outside the prover's reach. The properties of the runs that expect a violation are
refuted, not proved. Outside the conditions they name the theorems about `Monitor` and
`Cron` say nothing; what is known of such zones is in the list above.

## Not modelled

Wording, tracing and layout; what tools do; the ranking of search results and
rewriting of queries, which keep nothing between calls; wire formats of the
providers; prompt templates, images and schemas at the local server; skills and
tool schemas; the browser's page; the Docker daemon; the benchmarks. In the parts
that are modelled: two runs of one session driven at a time by the host, a paused
run resumed twice, gates inside a sub-agent's loop, overlapping fires of one
monitoring task, zones that change by less than an hour, a memory's embedding as
anything but near or far.

## What comes next

1. `AgentLoop`: duplicate resumes, and the limit of `ContextBudget` across questions.
2. `SubAgents`: gates inside a child; a deferred ticket cashed by a pooled run.
3. `Scheduler`: overlapping fires of one monitoring task, where `RunsDoNotOverlap`
   fails; a liveness reading of the ledger with restarts.
4. The safety halves of the liveness properties as theorems: a worker that waits has
   somebody to wait for, a lock that is held has a holder that can go on.
5. Rank fusion as a function, against what its documentation says of it.
