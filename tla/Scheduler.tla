----------------------------- MODULE Scheduler ------------------------------
(***************************************************************************)
(* scheduler/clock.py and scheduler/runner.py: clocks that turn due fires  *)
(* into jobs, thread pools that run them, and the SQLite file they share.  *)
(*                                                                         *)
(* A clock process is one Scheduler: its plan (_next) and its queue live   *)
(* in memory and die with it; the tables `runs` and `state` outlive it.    *)
(* run_once is a sequence of separate transactions and calls, so every     *)
(* phase of a worker is a step of its own and a crash, another worker or   *)
(* the passing of time can come between any two of them.                   *)
(*                                                                         *)
(* Bounds: MaxTime ends the modelled horizon, MaxFaults the crashes and    *)
(* failed transactions.  A tick is one step per due task: the iterations   *)
(* of its loop touch disjoint parts of _next, in dict order, which the     *)
(* model leaves open.                                                      *)
(***************************************************************************)
EXTENDS Policy, Trigger, Sequences, FiniteSets

CONSTANTS Clock,      \* the Scheduler processes on this database
          Thread,     \* the threads of one pool (max_workers of them)
          Task,       \* task ids
          Schedule,   \* task -> its trigger
          PolicyOf,   \* task -> its policy
          Reports,    \* what an agent's report call may say
          MaxTime,    \* bound: the last instant modelled
          MaxFaults   \* bound: crashes and failed transactions

Worker  == Clock \X Thread
Time    == 0..MaxTime
Job     == [task : Task, fire : Time]
Outcome == [status : Status, fingerprint : Key]

ASSUME SchedulerAssumption ==
    /\ Task # {}
    /\ MaxTime \in Nat
    /\ MaxFaults \in Nat
    /\ Schedule \in [Task -> TriggerConfig]
    /\ PolicyOf \in [Task -> PolicyConfig]
    /\ Reports \subseteq [status : {"ok", "alert"}, fingerprint : Fingerprint \cup {"-"}]

VARIABLES
    now,       \* the wall clock every process reads
    clock,     \* clock -> "down", "up", or "stopping" (pool.shutdown(wait=True))
    next,      \* clock -> task -> _next
    queue,     \* clock -> jobs submitted to its pool and not yet taken
    phase,     \* worker -> where it is in run_once
    job,       \* worker -> the fire it works on
    claimed,   \* worker -> the instant its claim read
    outcome,   \* worker -> what _execute returned
    verdict,   \* worker -> the decision, the instant it read, and `delivered`
    runs,      \* table runs: job -> row
    state,     \* table task_state: <<task, fingerprint>> -> row
    faults,    \* crashes and failed transactions so far
    told       \* history: <<task, fingerprint>> -> the messages the channel accepted

processVars == <<clock, next, queue>>
workerVars  == <<phase, job, claimed, outcome, verdict>>
storeVars   == <<runs, state>>
vars == <<now, processVars, workerVars, storeVars, faults, told>>

Phase   == {"idle", "claim", "execute", "hung", "decide", "send", "put", "finish"}
Message == [fire : Time, at : Nat]
Verdict == [kind : Kind, at : Nat, delivered : BOOLEAN]

\* What a worker's locals hold before run_once assigns them.
NoJob     == CHOOSE j \in Job : TRUE
NoOutcome == [status |-> "error", fingerprint |-> "-"]
NoVerdict == [kind |-> "silent", at |-> 0, delivered |-> FALSE]

\* The phases in which a worker believes the fire is its own.
Holding == Phase \ {"idle", "claim"}

TypeOK ==
    /\ now \in Time
    /\ clock \in [Clock -> {"down", "up", "stopping"}]
    /\ next \in [Clock -> [Task -> Nat \cup {Never}]]
    /\ queue \in [Clock -> Seq(Job)]
    /\ phase \in [Worker -> Phase]
    /\ job \in [Worker -> Job]
    /\ claimed \in [Worker -> Time]
    /\ outcome \in [Worker -> Outcome]
    /\ verdict \in [Worker -> Verdict]
    /\ runs \in [Job -> RunRow]
    /\ state \in [Task \X Key -> StateRecord]
    /\ faults \in Nat
    /\ told \in [Task \X Key -> SUBSET Message]

Init ==
    /\ now = 0
    /\ clock = [c \in Clock |-> "down"]
    /\ next = [c \in Clock |-> [t \in Task |-> Never]]
    /\ queue = [c \in Clock |-> <<>>]
    /\ phase = [w \in Worker |-> "idle"]
    /\ job = [w \in Worker |-> NoJob]
    /\ claimed = [w \in Worker |-> 0]
    /\ outcome = [w \in Worker |-> NoOutcome]
    /\ verdict = [w \in Worker |-> NoVerdict]
    /\ runs = [j \in Job |-> NoRun]
    /\ state = [tk \in Task \X Key |-> NoState]
    /\ faults = 0
    /\ told = [tk \in Task \X Key |-> {}]

-----------------------------------------------------------------------------
\* clock.py

\* The fires a clock's plan says are due.
Due(c, t) == /\ clock[c] = "up"
             /\ next[c][t] # Never
             /\ next[c][t] <= now

\* A process starts, or restarts: every task is added and planned from now.
\* add raises, and nothing starts, when a cron has nothing to plan.
Start(c) ==
    /\ clock[c] = "down"
    /\ \A t \in Task : NextAfter(Schedule[t], now, Never) # {}
    /\ clock' = [clock EXCEPT ![c] = "up"]
    /\ next' = [next EXCEPT ![c] =
                  [t \in Task |-> CHOOSE f \in NextAfter(Schedule[t], now, Never) : TRUE]]
    /\ UNCHANGED <<now, queue, workerVars, storeVars, faults, told>>

\* tick, one due task of it: the plan advances from now, the fire is submitted.
Dispatch(c, t) ==
    /\ Due(c, t)
    /\ \E f \in NextAfter(Schedule[t], now, Never) :
          next' = [next EXCEPT ![c][t] = f]
    /\ queue' = [queue EXCEPT ![c] = Append(@, [task |-> t, fire |-> next[c][t]])]
    /\ UNCHANGED <<now, clock, workerVars, storeVars, faults, told>>

\* tick, when next_after raises: run_forever's finally shuts the pool down, and
\* the fire that was due is not submitted.
TickRaises(c, t) ==
    /\ Due(c, t)
    /\ NextAfter(Schedule[t], now, Never) = {}
    /\ clock' = [clock EXCEPT ![c] = "stopping"]
    /\ UNCHANGED <<now, next, queue, workerVars, storeVars, faults, told>>

\* stop(), or Ctrl-C
Stop(c) ==
    /\ clock[c] = "up"
    /\ clock' = [clock EXCEPT ![c] = "stopping"]
    /\ UNCHANGED <<now, next, queue, workerVars, storeVars, faults, told>>

\* pool.shutdown(wait=True) returns: queued jobs ran too.
ShutDown(c) ==
    /\ clock[c] = "stopping"
    /\ queue[c] = <<>>
    /\ \A th \in Thread : phase[<<c, th>>] = "idle"
    /\ clock' = [clock EXCEPT ![c] = "down"]
    /\ next' = [next EXCEPT ![c] = [t \in Task |-> Never]]
    /\ UNCHANGED <<now, queue, workerVars, storeVars, faults, told>>

-----------------------------------------------------------------------------
\* runner.py: run_once, on a thread of the pool

\* run_once ends on the workers W, however it ends: its locals are gone.
Release(W) ==
    /\ phase' = [w \in Worker |-> IF w \in W THEN "idle" ELSE phase[w]]
    /\ job' = [w \in Worker |-> IF w \in W THEN NoJob ELSE job[w]]
    /\ claimed' = [w \in Worker |-> IF w \in W THEN 0 ELSE claimed[w]]
    /\ outcome' = [w \in Worker |-> IF w \in W THEN NoOutcome ELSE outcome[w]]
    /\ verdict' = [w \in Worker |-> IF w \in W THEN NoVerdict ELSE verdict[w]]

\* A free thread takes the oldest job; claim reads the clock before it opens
\* its transaction.
TakeJob(w) ==
    /\ phase[w] = "idle"
    /\ queue[w[1]] # <<>>
    /\ queue' = [queue EXCEPT ![w[1]] = Tail(@)]
    /\ job' = [job EXCEPT ![w] = Head(queue[w[1]])]
    /\ claimed' = [claimed EXCEPT ![w] = now]
    /\ phase' = [phase EXCEPT ![w] = "claim"]
    /\ UNCHANGED <<now, clock, next, outcome, verdict, storeVars, faults, told>>

\* claim's transaction, granted.
Claim(w) ==
    /\ phase[w] = "claim"
    /\ Claimable(runs[job[w]], claimed[w])
    /\ runs' = [runs EXCEPT ![job[w]] = Claimed(@, claimed[w])]
    /\ phase' = [phase EXCEPT ![w] = "execute"]
    /\ UNCHANGED <<now, processVars, job, claimed, outcome, verdict, state, faults,
                   told>>

\* claim's transaction, refused: run_once returns None.
Refused(w) ==
    /\ phase[w] = "claim"
    /\ ~Claimable(runs[job[w]], claimed[w])
    /\ Release({w})
    /\ UNCHANGED <<now, processVars, storeVars, faults, told>>

\* _execute returns an outcome.
Executed(w, status, fingerprint) ==
    /\ outcome' = [outcome EXCEPT ![w] = [status |-> status, fingerprint |-> fingerprint]]
    /\ phase' = [phase EXCEPT ![w] = "decide"]
    /\ UNCHANGED <<now, processVars, job, claimed, verdict, storeVars, faults,
                   told>>

\* The agent reported (the last report counts) and the loop returned.
AgentReports(w) ==
    /\ phase[w] = "execute"
    /\ \E r \in Reports : Executed(w, r.status, r.fingerprint)

\* The loop returned and report was never called.
AgentReportsNothing(w) ==
    /\ phase[w] = "execute"
    /\ Executed(w, "error", "no-report")

\* The run waits on something that never answers.
AgentHangs(w) ==
    /\ phase[w] = "execute"
    /\ phase' = [phase EXCEPT ![w] = "hung"]
    /\ UNCHANGED <<now, processVars, job, claimed, outcome, verdict, storeVars, faults,
                   told>>

\* _with_deadline joining the thread without a timeout.
FailsOnlyByItself(w) ==
    /\ phase[w] = "execute"
    /\ Executed(w, "error", "run-failure")

\* An exception out of the run, or its deadline: _with_deadline raises
\* TimeoutError over a run that is still going, and abandons the thread.  A late
\* report lands in a sink nobody reads again.
RunFails(w) ==
    /\ phase[w] \in {"execute", "hung"}
    /\ Executed(w, "error", "run-failure")

\* now, get_state and the policy.
DecideRun(w) ==
    /\ phase[w] = "decide"
    /\ LET o == outcome[w]
           t == job[w].task
           k == Decide(PolicyOf[t], o.status, state[<<t, o.fingerprint>>], now)
       IN  /\ verdict' = [verdict EXCEPT ![w] = [kind |-> k, at |-> now,
                                                 delivered |-> FALSE]]
           /\ phase' = [phase EXCEPT ![w] = IF k = "silent" THEN "put" ELSE "send"]
    /\ UNCHANGED <<now, processVars, job, claimed, outcome, storeVars, faults,
                   told>>

\* channel.send returned.
SendSucceeds(w) ==
    /\ phase[w] = "send"
    /\ told' = [told EXCEPT ![<<job[w].task, outcome[w].fingerprint>>] =
                                 @ \cup {[fire |-> job[w].fire, at |-> verdict[w].at]}]
    /\ verdict' = [verdict EXCEPT ![w].delivered = TRUE]
    /\ phase' = [phase EXCEPT ![w] = "put"]
    /\ UNCHANGED <<now, processVars, job, claimed, outcome, storeVars, faults>>

\* channel.send raised: the message did not get through, or it did and the
\* answer did not come back.
SendFails(w) ==
    /\ phase[w] = "send"
    /\ phase' = [phase EXCEPT ![w] = "put"]
    /\ UNCHANGED <<now, processVars, job, claimed, outcome, verdict, storeVars, faults,
                   told>>

PutState(w) ==
    /\ phase[w] = "put"
    /\ state' = [state EXCEPT ![<<job[w].task, outcome[w].fingerprint>>] =
                    Put(@, outcome[w].status, verdict[w].at, verdict[w].delivered)]
    /\ phase' = [phase EXCEPT ![w] = "finish"]
    /\ UNCHANGED <<now, processVars, job, claimed, outcome, verdict, runs, faults,
                   told>>

Finish(w) ==
    /\ phase[w] = "finish"
    /\ runs' = [runs EXCEPT ![job[w]] = Finished(@, outcome[w].status)]
    /\ Release({w})
    /\ UNCHANGED <<now, processVars, state, faults, told>>

-----------------------------------------------------------------------------
\* Faults and time

\* A transaction fails (a full disk, a lock held past the timeout): the
\* exception leaves run_once and ends in _log_failure.
Abort(w) ==
    /\ faults < MaxFaults
    /\ phase[w] \in {"claim", "decide", "put", "finish"}
    /\ faults' = faults + 1
    /\ Release({w})
    /\ UNCHANGED <<now, processVars, storeVars, told>>

\* The process dies: plan, queue and running jobs are gone, the file stays.
Crash(c) ==
    /\ faults < MaxFaults
    /\ clock[c] # "down"
    /\ faults' = faults + 1
    /\ clock' = [clock EXCEPT ![c] = "down"]
    /\ next' = [next EXCEPT ![c] = [t \in Task |-> Never]]
    /\ queue' = [queue EXCEPT ![c] = <<>>]
    /\ Release({c} \X Thread)
    /\ UNCHANGED <<now, storeVars, told>>

Advance ==
    /\ now < MaxTime
    /\ now' = now + 1
    /\ UNCHANGED <<processVars, workerVars, storeVars, faults, told>>

-----------------------------------------------------------------------------
ClockNext(c) ==
    \/ Start(c) \/ Stop(c) \/ ShutDown(c) \/ Crash(c)
    \/ \E t \in Task : Dispatch(c, t) \/ TickRaises(c, t)

WorkerNext(w) ==
    \/ TakeJob(w) \/ Claim(w) \/ Refused(w)
    \/ AgentReports(w) \/ AgentReportsNothing(w) \/ AgentHangs(w) \/ RunFails(w)
    \/ DecideRun(w) \/ SendSucceeds(w) \/ SendFails(w)
    \/ PutState(w) \/ Finish(w) \/ Abort(w)

Next ==
    \/ Advance
    \/ \E c \in Clock : ClockNext(c)
    \/ \E w \in Worker : WorkerNext(w)

Spec == Init /\ [][Next]_vars

\* The operating system runs every thread that can run, a deadline passes
\* whatever the run does, and a send returns or raises (its socket times out).
\* Nothing makes an agent report, a process start or an operator stop it.
WorkerFairness(w) ==
    /\ WF_vars(TakeJob(w))
    /\ WF_vars(Claim(w) \/ Refused(w))
    /\ WF_vars(RunFails(w))
    /\ WF_vars(DecideRun(w))
    /\ WF_vars(SendSucceeds(w) \/ SendFails(w))
    /\ WF_vars(PutState(w))
    /\ WF_vars(Finish(w))

FairSpec ==
    /\ Spec
    /\ \A c \in Clock : /\ WF_vars(ShutDown(c))
                        /\ WF_vars(\E t \in Task : Dispatch(c, t) \/ TickRaises(c, t))
    /\ \A w \in Worker : WorkerFairness(w)

-----------------------------------------------------------------------------
\* Properties

\* The lease: two workers that both believe a fire is theirs claimed it more
\* than a lease apart, whatever crashed, aborted or ran late in between.
FireOwnership ==
    \A v, w \in Worker :
        (v # w /\ phase[v] \in Holding /\ phase[w] \in Holding /\ job[v] = job[w])
            => \/ claimed[v] + Lease < claimed[w]
               \/ claimed[w] + Lease < claimed[v]

\* Everything last_delivered says is true: the run that read that instant had
\* its message for this very fingerprint accepted by the channel.
LastDeliveredIsTrue ==
    \A tk \in Task \X Key :
        state[tk].last_delivered # Never => \E m \in told[tk] : m.at = state[tk].last_delivered

\* A hung run cannot occupy a worker: what a thread has taken it lets go of.
WorkersAreFreed ==
    \A w \in Worker : phase[w] # "idle" ~> phase[w] = "idle"

\* stop() ends in a stopped process: shutdown waits for queued and running
\* jobs, and all of them end.
StopEnds == \A c \in Clock : clock[c] = "stopping" ~> clock[c] = "down"

\* The runs table implements the ledger of fires: a row is open until it is
\* inserted, and done from the first finish on.  A finish by a worker that lost
\* the fire only rewrites how it ended.
FireView  == [j \in Job |-> CASE runs[j].status = "absent"  -> "open"
                              [] runs[j].status = "running" -> "owned"
                              [] OTHER                      -> "done"]
SinceView == [j \in Job |-> runs[j].started_at]

Ledger == INSTANCE FireLedger WITH Fire <- Job, fire <- FireView, since <- SinceView

ImplementsLedger == Ledger!Spec

\* store.py, claim: "turns at-least-once execution into exactly-once delivery".
ExactlyOnceDelivery ==
    \A tk, uk \in Task \X Key : \A m \in told[tk], n \in told[uk] :
        tk[1] = uk[1] /\ m.fire = n.fire => tk = uk /\ m = n

=============================================================================
