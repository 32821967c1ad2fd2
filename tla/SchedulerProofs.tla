-------------------------- MODULE SchedulerProofs ---------------------------
(***************************************************************************)
(* Theorems about the Scheduler, and about what the person hears whom the  *)
(* Monitor watches, for any clocks, pools, tasks, schedules, policies,     *)
(* lease and horizon, and any number of crashes and failed transactions;   *)
(* and about the fires of a cron expression, for any calendar and zone     *)
(* whose clocks change as the theorems say.                                *)
(***************************************************************************)
EXTENDS Monitor, Cron, FiniteSetTheorems, WellFoundedInduction, TLAPS

-----------------------------------------------------------------------------
\* Lemmas about the operators the actions are built from

LEMMA NextAfterTyped ==
    ASSUME NEW trigger \in TriggerConfig, NEW n \in Nat,
           NEW f \in NextAfter(trigger, n, Never)
    PROVE  f \in Nat \cup {Never}
  BY DEF NextAfter, TriggerConfig, Earliest, Never

LEMMA DecideTyped ==
    ASSUME NEW p, NEW status, NEW prior, NEW n
    PROVE  Decide(p, status, prior, n) \in Kind
  BY DEF Decide, DecideAlways, DecideOnTransition, Kind

LEMMA PutTyped ==
    ASSUME NEW row \in StateRecord, NEW status \in Status, NEW n \in Nat,
           NEW delivered \in BOOLEAN
    PROVE  Put(row, status, n, delivered) \in StateRecord
  BY DEF Put, StateRecord, Status

LEMMA FinishedTyped ==
    ASSUME NEW row \in RunRow, NEW status \in Status
    PROVE  Finished(row, status) \in RunRow
  BY DEF Finished, RunRow, Status

LEMMA DefaultsTyped ==
    /\ NoJob \in Job
    /\ NoOutcome \in Outcome
    /\ NoVerdict \in Verdict
    /\ NoRun \in RunRow
    /\ NoState \in StateRecord
  <1>1. Job # {}
    <2>1. PICK t \in Task : TRUE
      BY SchedulerAssumption
    <2>2. [task |-> t, fire |-> 0] \in Job
      BY SchedulerAssumption DEF Job, Time
    <2> QED BY <2>2
  <1>2. NoJob \in Job
    BY <1>1 DEF NoJob
  <1>3. NoOutcome \in Outcome
    BY DEF NoOutcome, Outcome, Status, Key
  <1>4. NoVerdict \in Verdict
    BY DEF NoVerdict, Verdict, Kind
  <1>5. NoRun \in RunRow /\ NoState \in StateRecord
    BY DEF NoRun, RunRow, NoState, StateRecord
  <1> QED BY <1>2, <1>3, <1>4, <1>5

\* Releasing workers keeps every local well typed.
LEMMA ReleaseTyped ==
    ASSUME TypeOK, NEW W, Release(W)
    PROVE  /\ phase' \in [Worker -> Phase]
           /\ job' \in [Worker -> Job]
           /\ claimed' \in [Worker -> Time]
           /\ outcome' \in [Worker -> Outcome]
           /\ verdict' \in [Worker -> Verdict]
  <1>1. 0 \in Time
    BY SchedulerAssumption DEF Time
  <1> QED BY <1>1, DefaultsTyped DEF TypeOK, Release, Phase

-----------------------------------------------------------------------------
\* Type correctness: every variable keeps its type in every reachable state.
THEOREM TypeCorrect == Spec => []TypeOK
  <1>1. Init => TypeOK
    BY SchedulerAssumption, DefaultsTyped
    DEF Init, TypeOK, Time, Phase, Never
  <1>2. TypeOK /\ [Next]_vars => TypeOK'
    <2> SUFFICES ASSUME TypeOK, [Next]_vars PROVE TypeOK'
      OBVIOUS
    <2> USE DEF TypeOK
    <2>1. ASSUME NEW c \in Clock, Start(c) PROVE TypeOK'
      <3>1. \A t \in Task :
              (CHOOSE f \in NextAfter(Schedule[t], now, Never) : TRUE) \in Nat \cup {Never}
        BY <2>1, NextAfterTyped, SchedulerAssumption DEF Start, Time
      <3> QED BY <2>1, <3>1 DEF Start, workerVars, storeVars
    <2>2. ASSUME NEW c \in Clock, NEW t \in Task, Dispatch(c, t) PROVE TypeOK'
      <3>1. next[c][t] \in Time
        BY <2>2, SchedulerAssumption DEF Dispatch, Due, Time, Never
      <3>2. [task |-> t, fire |-> next[c][t]] \in Job
        BY <3>1 DEF Job
      <3>3. next' \in [Clock -> [Task -> Nat \cup {Never}]]
        BY <2>2, NextAfterTyped, SchedulerAssumption DEF Dispatch, Time
      <3> QED BY <2>2, <3>2, <3>3 DEF Dispatch, workerVars, storeVars
    <2>3. ASSUME NEW c \in Clock, NEW t \in Task, TickRaises(c, t) PROVE TypeOK'
      BY <2>3 DEF TickRaises, workerVars, storeVars
    <2>4. ASSUME NEW c \in Clock, Stop(c) PROVE TypeOK'
      BY <2>4 DEF Stop, workerVars, storeVars
    <2>5. ASSUME NEW c \in Clock, ShutDown(c) PROVE TypeOK'
      BY <2>5 DEF ShutDown, workerVars, storeVars
    <2>6. ASSUME NEW c \in Clock, Crash(c) PROVE TypeOK'
      <3>1. <<>> \in Seq(Job)
        OBVIOUS
      <3> QED BY <2>6, <3>1, ReleaseTyped DEF Crash, storeVars
    <2>7. ASSUME NEW w \in Worker, TakeJob(w) PROVE TypeOK'
      <3>1. w[1] \in Clock
        BY DEF Worker
      <3>2. /\ Head(queue[w[1]]) \in Job
            /\ Tail(queue[w[1]]) \in Seq(Job)
        BY <2>7, <3>1 DEF TakeJob
      <3> QED BY <2>7, <3>1, <3>2 DEF TakeJob, storeVars, Phase
    <2>8. ASSUME NEW w \in Worker, Claim(w) PROVE TypeOK'
      <3>1. Claimed(runs[job[w]], claimed[w]) \in RunRow
        BY DEF Claimed, RunRow, Time
      <3> QED BY <2>8, <3>1 DEF Claim, processVars, Phase
    <2>9. ASSUME NEW w \in Worker, Refused(w) PROVE TypeOK'
      BY <2>9, ReleaseTyped DEF Refused, processVars, storeVars
    <2>10. ASSUME NEW w \in Worker, NEW s \in Status, NEW k \in Key, Executed(w, s, k)
           PROVE TypeOK'
      BY <2>10 DEF Executed, processVars, storeVars, Outcome, Phase
    <2>11. ASSUME NEW w \in Worker, AgentReports(w) PROVE TypeOK'
      <3>1. PICK r \in Reports : Executed(w, r.status, r.fingerprint)
        BY <2>11 DEF AgentReports
      <3>2. r.status \in Status /\ r.fingerprint \in Key
        BY SchedulerAssumption DEF Status, Key
      <3> QED BY <3>1, <3>2, <2>10
    <2>12. ASSUME NEW w \in Worker, AgentReportsNothing(w) PROVE TypeOK'
      BY <2>12, <2>10 DEF AgentReportsNothing, Status, Key
    <2>13. ASSUME NEW w \in Worker, AgentHangs(w) PROVE TypeOK'
      BY <2>13 DEF AgentHangs, processVars, storeVars, Phase
    <2>14. ASSUME NEW w \in Worker, RunFails(w) PROVE TypeOK'
      BY <2>14, <2>10 DEF RunFails, Status, Key
    <2>15. ASSUME NEW w \in Worker, DecideRun(w) PROVE TypeOK'
      BY <2>15, DecideTyped DEF DecideRun, processVars, storeVars, Verdict, Phase, Time
    <2>16. ASSUME NEW w \in Worker, SendSucceeds(w) PROVE TypeOK'
      <3>1. [fire |-> job[w].fire, at |-> verdict[w].at] \in Message
        BY DEF Message, Job, Verdict
      <3>2. told' \in [Task \X Key -> SUBSET Message]
        BY <2>16, <3>1 DEF SendSucceeds
      <3>3. verdict' \in [Worker -> Verdict]
        BY <2>16 DEF SendSucceeds, Verdict
      <3> QED BY <2>16, <3>2, <3>3 DEF SendSucceeds, processVars, storeVars, Phase
    <2>17. ASSUME NEW w \in Worker, SendFails(w) PROVE TypeOK'
      BY <2>17 DEF SendFails, processVars, storeVars, Phase
    <2>18. ASSUME NEW w \in Worker, PutState(w) PROVE TypeOK'
      <3>1. <<job[w].task, outcome[w].fingerprint>> \in Task \X Key
        BY DEF Job, Outcome
      <3>2. Put(state[<<job[w].task, outcome[w].fingerprint>>], outcome[w].status,
                verdict[w].at, verdict[w].delivered) \in StateRecord
        BY <3>1, PutTyped DEF Outcome, Verdict
      <3> QED BY <2>18, <3>1, <3>2 DEF PutState, processVars, Phase
    <2>19. ASSUME NEW w \in Worker, Finish(w) PROVE TypeOK'
      <3>1. Finished(runs[job[w]], outcome[w].status) \in RunRow
        BY FinishedTyped DEF Outcome
      <3> QED BY <2>19, <3>1, ReleaseTyped DEF Finish, processVars
    <2>20. ASSUME NEW w \in Worker, Abort(w) PROVE TypeOK'
      BY <2>20, ReleaseTyped DEF Abort, processVars, storeVars
    <2>21. CASE Advance
      BY <2>21, SchedulerAssumption
      DEF Advance, processVars, workerVars, storeVars, Time
    <2>22. CASE UNCHANGED vars
      BY <2>22 DEF vars, processVars, workerVars, storeVars
    <2> QED
      BY <2>1, <2>2, <2>3, <2>4, <2>5, <2>6, <2>7, <2>8, <2>9, <2>11, <2>12, <2>13,
         <2>14, <2>15, <2>16, <2>17, <2>18, <2>19, <2>20, <2>21, <2>22
      DEF Next, ClockNext, WorkerNext
  <1> QED BY <1>1, <1>2, PTL DEF Spec

-----------------------------------------------------------------------------
(***************************************************************************)
(* Ownership.  FireOwnership is not inductive: a takeover is spaced from    *)
(* the row's started_at, so the invariant ties every holder to the row -   *)
(* the row exists and is at least as recent as the holder's own claim.     *)
(***************************************************************************)
HoldersBelowRow ==
    \A w \in Worker : phase[w] \in Holding =>
        /\ runs[job[w]].status # "absent"
        /\ claimed[w] <= runs[job[w]].started_at

OwnershipInv == HoldersBelowRow /\ FireOwnership

\* A step that gives no worker a fire, moves no holder and rewrites no row's
\* claim keeps the invariant.
LEMMA OwnershipKept ==
    ASSUME OwnershipInv,
           \A w \in Worker : phase'[w] \in Holding =>
               /\ phase[w] \in Holding
               /\ job'[w] = job[w]
               /\ claimed'[w] = claimed[w]
               /\ runs[job[w]].status # "absent" =>
                     /\ runs'[job[w]].status # "absent"
                     /\ runs'[job[w]].started_at = runs[job[w]].started_at
    PROVE  OwnershipInv'
  BY DEF OwnershipInv, HoldersBelowRow, FireOwnership

\* The strengthened invariant holds in every reachable state.
LEMMA OwnershipInductive == Spec => []OwnershipInv
  <1>1. Init => OwnershipInv
    BY DEF Init, OwnershipInv, HoldersBelowRow, FireOwnership, Holding
  <1>2. TypeOK /\ OwnershipInv /\ [Next]_vars => OwnershipInv'
    <2> SUFFICES ASSUME TypeOK, OwnershipInv, [Next]_vars PROVE OwnershipInv'
      OBVIOUS
    <2>1. ASSUME NEW c \in Clock, ClockNext(c) PROVE OwnershipInv'
      <3>1. CASE Crash(c)
        BY <3>1, OwnershipKept DEF Crash, Release, Holding, storeVars
      <3>2. CASE UNCHANGED <<workerVars, runs>>
        BY <3>2, OwnershipKept DEF workerVars
      <3> QED
        BY <2>1, <3>1, <3>2
        DEF ClockNext, Start, Stop, ShutDown, Dispatch, TickRaises, storeVars
    <2>2. ASSUME NEW w \in Worker, Claim(w) PROVE OwnershipInv'
      <3> DEFINE j == job[w]
      <3>1. /\ runs'[j] = [status |-> "running", started_at |-> claimed[w]]
            /\ \A i \in Job : i # j => runs'[i] = runs[i]
            /\ phase'[w] = "execute"
            /\ \A v \in Worker : v # w => phase'[v] = phase[v]
            /\ UNCHANGED <<job, claimed>>
        BY <2>2 DEF Claim, Claimed, TypeOK
      <3>2. ASSUME NEW v \in Worker, v # w, phase[v] \in Holding, job[v] = j
            PROVE  claimed[v] + Lease < claimed[w]
        <4>1. /\ runs[j].status # "absent"
              /\ claimed[v] <= runs[j].started_at
          BY <3>2 DEF OwnershipInv, HoldersBelowRow
        <4>2. runs[j].started_at < claimed[w] - Lease
          BY <2>2, <4>1 DEF Claim, Claimable
        <4>3. claimed[v] \in Nat /\ claimed[w] \in Nat /\ runs[j].started_at \in Nat
          BY SchedulerAssumption DEF TypeOK, Time, RunRow
        <4> QED BY <4>1, <4>2, <4>3, LeaseAssumption
      <3>3. \A v \in Worker : claimed[v] \in Nat
        BY SchedulerAssumption DEF TypeOK, Time
      <3>4. HoldersBelowRow'
        <4> SUFFICES ASSUME NEW v \in Worker, phase'[v] \in Holding
                     PROVE  /\ runs'[job[v]].status # "absent"
                            /\ claimed[v] <= runs'[job[v]].started_at
          BY <3>1 DEF HoldersBelowRow
        <4>1. CASE v = w
          BY <4>1, <3>1, <3>3
        <4>2. CASE v # w /\ job[v] = j
          BY <4>2, <3>1, <3>2, <3>3, LeaseAssumption
        <4>3. CASE v # w /\ job[v] # j
          BY <4>3, <3>1 DEF OwnershipInv, HoldersBelowRow, TypeOK
        <4> QED BY <4>1, <4>2, <4>3
      <3>5. FireOwnership'
        <4> SUFFICES ASSUME NEW u \in Worker, NEW v \in Worker, u # v,
                            phase'[u] \in Holding, phase'[v] \in Holding,
                            job[u] = job[v]
                     PROVE  \/ claimed[u] + Lease < claimed[v]
                            \/ claimed[v] + Lease < claimed[u]
          BY <3>1 DEF FireOwnership
        <4>1. CASE u = w
          BY <4>1, <3>1, <3>2
        <4>2. CASE v = w
          BY <4>2, <3>1, <3>2
        <4>3. CASE u # w /\ v # w
          BY <4>3, <3>1 DEF OwnershipInv, FireOwnership
        <4> QED BY <4>1, <4>2, <4>3
      <3> QED BY <3>4, <3>5 DEF OwnershipInv
    <2>3. ASSUME NEW w \in Worker, TakeJob(w) PROVE OwnershipInv'
      <3>1. phase'[w] = "claim" /\ \A v \in Worker : v # w =>
              phase'[v] = phase[v] /\ job'[v] = job[v] /\ claimed'[v] = claimed[v]
        BY <2>3 DEF TakeJob, TypeOK
      <3>2. runs' = runs
        BY <2>3 DEF TakeJob, storeVars
      <3> QED BY <3>1, <3>2, OwnershipKept DEF Holding
    <2>4. ASSUME NEW w \in Worker, Finish(w) PROVE OwnershipInv'
      <3>1. \A i \in Job : runs[i].status # "absent" =>
                /\ runs'[i].status # "absent"
                /\ runs'[i].started_at = runs[i].started_at
        BY <2>4 DEF Finish, Finished, TypeOK, RunRow, Outcome, Status
      <3>2. \A v \in Worker : phase'[v] \in Holding =>
                /\ phase[v] \in Holding
                /\ job'[v] = job[v]
                /\ claimed'[v] = claimed[v]
        BY <2>4 DEF Finish, Release, Holding
      <3>3. \A v \in Worker : job[v] \in Job
        BY DEF TypeOK
      <3> QED BY <3>1, <3>2, <3>3, OwnershipKept
    <2>5. ASSUME NEW w \in Worker, Release({w}), runs' = runs PROVE OwnershipInv'
      BY <2>5, OwnershipKept DEF Release, Holding
    <2>6. ASSUME NEW w \in Worker, phase[w] \in Holding, UNCHANGED <<runs, job, claimed>>,
                 \A v \in Worker : v # w => phase'[v] = phase[v]
          PROVE  OwnershipInv'
      BY <2>6, OwnershipKept
    <2>7. ASSUME NEW w \in Worker,
                 \/ AgentReports(w) \/ AgentReportsNothing(w) \/ AgentHangs(w)
                 \/ RunFails(w) \/ DecideRun(w) \/ SendSucceeds(w) \/ SendFails(w)
                 \/ PutState(w)
          PROVE  OwnershipInv'
      <3>1. /\ phase[w] \in Holding
            /\ UNCHANGED <<runs, job, claimed>>
            /\ \A v \in Worker : v # w => phase'[v] = phase[v]
        BY <2>7
        DEF AgentReports, AgentReportsNothing, AgentHangs, RunFails, Executed, DecideRun,
            SendSucceeds, SendFails, PutState, storeVars, TypeOK, Holding, Phase
      <3> QED BY <3>1, <2>6
    <2>8. CASE Advance
      BY <2>8, OwnershipKept DEF Advance, workerVars, storeVars
    <2>9. CASE UNCHANGED vars
      BY <2>9, OwnershipKept DEF vars, workerVars, storeVars
    <2>10. ASSUME NEW w \in Worker, WorkerNext(w) PROVE OwnershipInv'
      BY <2>10, <2>2, <2>3, <2>4, <2>5, <2>7 DEF WorkerNext, Refused, Abort, storeVars
    <2> QED BY <2>1, <2>8, <2>9, <2>10 DEF Next
  <1> QED BY <1>1, <1>2, TypeCorrect, PTL DEF Spec

\* Two workers hold the same fire only if their claims are more than a lease
\* apart, in every reachable state, faults and late threads included.
THEOREM Ownership == Spec => []FireOwnership
  <1>1. OwnershipInv => FireOwnership
    BY DEF OwnershipInv
  <1> QED BY <1>1, OwnershipInductive, PTL

-----------------------------------------------------------------------------
(***************************************************************************)
(* Delivery.  last_delivered is written two steps after the send, from the *)
(* worker's locals, so the invariant also says what a delivered verdict    *)
(* means while it waits to be recorded.                                    *)
(***************************************************************************)
Told(tk, t) == \E m \in told[tk] : m.at = t

DeliveredWasTold ==
    \A w \in Worker : verdict[w].delivered =>
        /\ phase[w] \in {"put", "finish"}
        /\ Told(<<job[w].task, outcome[w].fingerprint>>, verdict[w].at)

DeliveryInv == DeliveredWasTold /\ LastDeliveredIsTrue

\* A step that records nothing, un-tells nobody and leaves every delivered
\* verdict where it was, or drops it, keeps the invariant.
LEMMA DeliveryKept ==
    ASSUME TypeOK, DeliveryInv, state' = state,
           \A tk \in Task \X Key : told[tk] \subseteq told'[tk],
           \A w \in Worker : verdict'[w].delivered =>
               /\ verdict[w].delivered
               /\ verdict'[w].at = verdict[w].at
               /\ phase'[w] \in {"put", "finish"}
               /\ job'[w] = job[w]
               /\ outcome'[w] = outcome[w]
    PROVE  DeliveryInv'
  <1>1. \A w \in Worker : <<job[w].task, outcome[w].fingerprint>> \in Task \X Key
    BY DEF TypeOK, Job, Outcome
  <1>2. DeliveredWasTold'
    BY <1>1 DEF DeliveryInv, DeliveredWasTold, Told
  <1>3. LastDeliveredIsTrue'
    BY DEF DeliveryInv, LastDeliveredIsTrue
  <1> QED BY <1>2, <1>3 DEF DeliveryInv

\* Releasing workers drops their verdicts and keeps the others.
LEMMA ReleaseKeepsDelivery ==
    ASSUME TypeOK, DeliveryInv, NEW W, Release(W), state' = state, told' = told
    PROVE  DeliveryInv'
  <1>1. \A w \in Worker : w \in W => ~verdict'[w].delivered
    BY DEF Release, NoVerdict
  <1>2. \A w \in Worker : w \notin W =>
           /\ verdict'[w] = verdict[w] /\ phase'[w] = phase[w]
           /\ job'[w] = job[w] /\ outcome'[w] = outcome[w]
    BY DEF Release
  <1>3. \A w \in Worker : verdict'[w].delivered =>
           /\ verdict[w].delivered
           /\ verdict'[w].at = verdict[w].at
           /\ phase'[w] \in {"put", "finish"}
           /\ job'[w] = job[w]
           /\ outcome'[w] = outcome[w]
    BY <1>1, <1>2 DEF DeliveryInv, DeliveredWasTold
  <1> QED BY <1>3, DeliveryKept

\* The strengthened invariant holds in every reachable state.
LEMMA DeliveryInductive == Spec => []DeliveryInv
  <1>1. Init => DeliveryInv
    BY DEF Init, DeliveryInv, DeliveredWasTold, LastDeliveredIsTrue, NoVerdict, NoState
  <1>2. TypeOK /\ DeliveryInv /\ [Next]_vars => DeliveryInv'
    <2> SUFFICES ASSUME TypeOK, DeliveryInv, [Next]_vars PROVE DeliveryInv'
      OBVIOUS
    <2>1. ASSUME NEW c \in Clock, ClockNext(c) PROVE DeliveryInv'
      <3>1. CASE Crash(c)
        BY <3>1, ReleaseKeepsDelivery DEF Crash, storeVars
      <3>2. CASE UNCHANGED <<workerVars, state, told>>
        BY <3>2, DeliveryKept DEF workerVars, DeliveryInv, DeliveredWasTold
      <3> QED
        BY <2>1, <3>1, <3>2
        DEF ClockNext, Start, Stop, ShutDown, Dispatch, TickRaises, storeVars
    <2>2. ASSUME NEW w \in Worker, SendSucceeds(w) PROVE DeliveryInv'
      <3> DEFINE tk == <<job[w].task, outcome[w].fingerprint>>
      <3>1. tk \in Task \X Key
        BY DEF TypeOK, Job, Outcome
      <3>2. /\ \A uk \in Task \X Key : told[uk] \subseteq told'[uk]
            /\ [fire |-> job[w].fire, at |-> verdict[w].at] \in told'[tk]
        BY <2>2, <3>1 DEF SendSucceeds, TypeOK
      <3>3. /\ verdict'[w].at = verdict[w].at
            /\ phase'[w] = "put"
            /\ \A v \in Worker : v # w =>
                  verdict'[v] = verdict[v] /\ phase'[v] = phase[v]
            /\ UNCHANGED <<job, outcome, state>>
        BY <2>2 DEF SendSucceeds, TypeOK, Verdict, storeVars
      <3>4. Told(tk, verdict[w].at)'
        BY <3>2, <3>3 DEF Told
      <3>5. \A v \in Worker : <<job[v].task, outcome[v].fingerprint>> \in Task \X Key
        BY DEF TypeOK, Job, Outcome
      <3>6. DeliveredWasTold'
        <4> SUFFICES ASSUME NEW v \in Worker, verdict'[v].delivered
                     PROVE  /\ phase'[v] \in {"put", "finish"}
                            /\ Told(<<job[v].task, outcome[v].fingerprint>>, verdict[v].at)'
          BY <3>3 DEF DeliveredWasTold, Told
        <4>1. CASE v = w
          BY <4>1, <3>2, <3>3 DEF Told
        <4>2. CASE v # w
          BY <4>2, <3>2, <3>3, <3>5 DEF DeliveryInv, DeliveredWasTold, Told
        <4> QED BY <4>1, <4>2
      <3>7. LastDeliveredIsTrue'
        BY <3>2, <3>3 DEF DeliveryInv, LastDeliveredIsTrue
      <3> QED BY <3>6, <3>7 DEF DeliveryInv
    <2>3. ASSUME NEW w \in Worker, PutState(w) PROVE DeliveryInv'
      <3> DEFINE tk == <<job[w].task, outcome[w].fingerprint>>
      <3>1. tk \in Task \X Key
        BY DEF TypeOK, Job, Outcome
      <3>2. /\ state'[tk] = Put(state[tk], outcome[w].status, verdict[w].at,
                                verdict[w].delivered)
            /\ \A uk \in Task \X Key : uk # tk => state'[uk] = state[uk]
            /\ phase'[w] = "finish"
            /\ \A v \in Worker : v # w => phase'[v] = phase[v]
            /\ UNCHANGED <<verdict, job, outcome, told>>
        BY <2>3, <3>1 DEF PutState, TypeOK
      <3>3. DeliveredWasTold'
        BY <3>2 DEF DeliveryInv, DeliveredWasTold, Told
      <3>4. LastDeliveredIsTrue'
        <4> SUFFICES ASSUME NEW uk \in Task \X Key, state'[uk].last_delivered # Never
                     PROVE  \E m \in told[uk] : m.at = state'[uk].last_delivered
          BY <3>2 DEF LastDeliveredIsTrue
        <4>1. CASE uk # tk
          BY <4>1, <3>2 DEF DeliveryInv, LastDeliveredIsTrue
        <4>2. CASE uk = tk /\ verdict[w].delivered
          BY <4>2, <3>2 DEF DeliveryInv, DeliveredWasTold, Told, Put
        <4>3. CASE uk = tk /\ ~verdict[w].delivered
          BY <4>3, <3>1, <3>2 DEF DeliveryInv, LastDeliveredIsTrue, Put
        <4> QED BY <4>1, <4>2, <4>3
      <3> QED BY <3>3, <3>4 DEF DeliveryInv
    <2>4. ASSUME NEW w \in Worker, DecideRun(w) PROVE DeliveryInv'
      <3>1. /\ ~verdict'[w].delivered
            /\ \A v \in Worker : v # w => verdict'[v] = verdict[v] /\ phase'[v] = phase[v]
            /\ UNCHANGED <<job, outcome, told, state>>
        BY <2>4 DEF DecideRun, TypeOK, storeVars
      <3> QED BY <3>1, DeliveryKept DEF DeliveryInv, DeliveredWasTold
    <2>5. ASSUME NEW w \in Worker,
                 \/ TakeJob(w) \/ Claim(w) \/ AgentReports(w) \/ AgentReportsNothing(w)
                 \/ AgentHangs(w) \/ RunFails(w) \/ SendFails(w)
          PROVE  DeliveryInv'
      <3>1. phase[w] \in {"idle", "claim", "execute", "hung", "send"}
        BY <2>5
        DEF TakeJob, Claim, AgentReports, AgentReportsNothing, AgentHangs, RunFails,
            SendFails
      <3>2. ~verdict[w].delivered
        BY <3>1 DEF DeliveryInv, DeliveredWasTold
      <3>3. /\ UNCHANGED <<verdict, told, state>>
            /\ \A v \in Worker : v # w =>
                  phase'[v] = phase[v] /\ job'[v] = job[v] /\ outcome'[v] = outcome[v]
        BY <2>5
        DEF TakeJob, Claim, AgentReports, AgentReportsNothing, AgentHangs, RunFails,
            Executed, SendFails, storeVars, TypeOK
      <3> QED BY <3>2, <3>3, DeliveryKept DEF DeliveryInv, DeliveredWasTold
    <2>6. ASSUME NEW w \in Worker, Refused(w) \/ Abort(w) \/ Finish(w) PROVE DeliveryInv'
      BY <2>6, ReleaseKeepsDelivery DEF Refused, Abort, Finish, storeVars
    <2>7. CASE Advance
      BY <2>7, DeliveryKept DEF Advance, workerVars, storeVars, DeliveryInv, DeliveredWasTold
    <2>8. CASE UNCHANGED vars
      BY <2>8, DeliveryKept DEF vars, workerVars, storeVars, DeliveryInv, DeliveredWasTold
    <2> QED
      BY <2>1, <2>2, <2>3, <2>4, <2>5, <2>6, <2>7, <2>8 DEF Next, WorkerNext
  <1> QED BY <1>1, <1>2, TypeCorrect, PTL DEF Spec

\* last_delivered never claims a delivery that did not happen, however workers
\* overlap and whatever fails between a send and its record.
THEOREM Delivery == Spec => []LastDeliveredIsTrue
  <1>1. DeliveryInv => LastDeliveredIsTrue
    BY DEF DeliveryInv
  <1> QED BY <1>1, DeliveryInductive, PTL

-----------------------------------------------------------------------------
(***************************************************************************)
(* Refinement.  A claim is dated by a reading of the clock taken when the  *)
(* job left the queue, so the mapping needs that no worker's reading is    *)
(* ahead of the clock.                                                     *)
(***************************************************************************)
ReadingsArePast == \A w \in Worker : claimed[w] <= now

LEMMA PastReadings == Spec => []ReadingsArePast
  <1>1. Init => ReadingsArePast
    BY DEF Init, ReadingsArePast
  <1>2. TypeOK /\ ReadingsArePast /\ [Next]_vars => ReadingsArePast'
    <2> SUFFICES ASSUME TypeOK, ReadingsArePast, [Next]_vars PROVE ReadingsArePast'
      OBVIOUS
    <2>1. now \in Nat /\ \A w \in Worker : claimed[w] \in Nat
      BY SchedulerAssumption DEF TypeOK, Time
    <2>2. ASSUME NEW W, Release(W), now' = now PROVE ReadingsArePast'
      BY <2>1, <2>2 DEF Release, ReadingsArePast
    <2>3. ASSUME NEW w \in Worker, TakeJob(w) PROVE ReadingsArePast'
      BY <2>1, <2>3 DEF TakeJob, ReadingsArePast, TypeOK
    <2>4. CASE Advance
      BY <2>1, <2>4 DEF Advance, workerVars, ReadingsArePast
    <2>5. CASE UNCHANGED <<now, claimed>>
      BY <2>5 DEF ReadingsArePast
    <2>6. ASSUME NEW c \in Clock, ClockNext(c) PROVE ReadingsArePast'
      BY <2>2, <2>5, <2>6
      DEF ClockNext, Start, Stop, ShutDown, Dispatch, TickRaises, Crash, workerVars
    <2>7. ASSUME NEW w \in Worker, WorkerNext(w) PROVE ReadingsArePast'
      <3>1. CASE Refused(w) \/ Finish(w) \/ Abort(w)
        BY <3>1, <2>2 DEF Refused, Finish, Abort
      <3>2. CASE TakeJob(w)
        BY <3>2, <2>3
      <3>3. CASE ~(Refused(w) \/ Finish(w) \/ Abort(w) \/ TakeJob(w))
        BY <3>3, <2>5, <2>7
        DEF WorkerNext, Claim, AgentReports, AgentReportsNothing, AgentHangs, RunFails,
            Executed, DecideRun, SendSucceeds, SendFails, PutState
      <3> QED BY <3>1, <3>2, <3>3
    <2>8. CASE UNCHANGED vars
      BY <2>5, <2>8 DEF vars, workerVars
    <2> QED BY <2>4, <2>6, <2>7, <2>8 DEF Next
  <1> QED BY <1>1, <1>2, TypeCorrect, PTL DEF Spec

\* The shared table implements the ledger of fires: every step of every clock
\* and worker is a step of the ledger or leaves it alone.
THEOREM LedgerRefinement == Spec => ImplementsLedger
  <1>1. Init => Ledger!Init
    BY DEF Init, Ledger!Init, FireView, SinceView, NoRun
  <1>2. TypeOK /\ ReadingsArePast /\ OwnershipInv /\ [Next]_vars => [Ledger!Next]_(Ledger!ledgerVars)
    <2> SUFFICES ASSUME TypeOK, ReadingsArePast, OwnershipInv, [Next]_vars
                 PROVE  Ledger!Next \/ UNCHANGED <<now, FireView, SinceView>>
      BY DEF Ledger!ledgerVars
    <2>1. ASSUME UNCHANGED <<now, runs>> PROVE UNCHANGED <<now, FireView, SinceView>>
      BY <2>1 DEF FireView, SinceView
    <2>2. CASE Advance
      BY <2>2 DEF Advance, storeVars, FireView, SinceView, Ledger!Next, Ledger!Advance
    <2>3. ASSUME NEW w \in Worker, Claim(w) PROVE Ledger!Next
      <3> DEFINE j == job[w]
      <3>1. j \in Job /\ runs[j] \in RunRow /\ claimed[w] \in 0..now
        BY SchedulerAssumption DEF TypeOK, ReadingsArePast, Time
      <3>2. /\ runs' = [runs EXCEPT ![j] = [status |-> "running", started_at |-> claimed[w]]]
            /\ now' = now
        BY <2>3 DEF Claim, Claimed
      <3>3. FireView' = [FireView EXCEPT ![j] = "owned"]
        BY <3>1, <3>2 DEF FireView, TypeOK
      <3>4. SinceView' = [SinceView EXCEPT ![j] = claimed[w]]
        BY <3>1, <3>2 DEF SinceView, TypeOK
      <3>5. CASE runs[j].status = "absent"
        BY <3>1, <3>2, <3>3, <3>4, <3>5 DEF FireView, Ledger!Next, Ledger!Own
      <3>6. CASE runs[j].status = "running" /\ runs[j].started_at < claimed[w] - Lease
        <4>1. SinceView[j] + Lease < claimed[w]
          BY <3>1, <3>6, LeaseAssumption DEF SinceView, RunRow
        <4>2. FireView[j] = "owned"
          BY <3>1, <3>6 DEF FireView
        <4> QED BY <4>1, <4>2, <3>1, <3>2, <3>3, <3>4 DEF Ledger!Next, Ledger!Own
      <3> QED BY <2>3, <3>5, <3>6 DEF Claim, Claimable
    <2>4. ASSUME NEW w \in Worker, Finish(w)
          PROVE  Ledger!Next \/ UNCHANGED <<now, FireView, SinceView>>
      <3> DEFINE j == job[w]
      <3>1. j \in Job /\ runs[j] \in RunRow /\ outcome[w].status \in Status
        BY DEF TypeOK, Outcome
      <3>2. /\ runs' = [runs EXCEPT ![j] = [runs[j] EXCEPT !.status = outcome[w].status]]
            /\ now' = now
        BY <2>4 DEF Finish, Finished
      <3>3. SinceView' = SinceView
        BY <3>1, <3>2 DEF SinceView, TypeOK, RunRow
      <3>4. FireView' = [FireView EXCEPT ![j] = "done"]
        BY <3>1, <3>2 DEF FireView, TypeOK, RunRow, Status
      <3>5. CASE runs[j].status = "running"
        BY <3>1, <3>2, <3>3, <3>4, <3>5 DEF FireView, Ledger!Next, Ledger!Close
      <3>6. CASE runs[j].status \in Status
        <4>1. FireView[j] = "done"
          BY <3>1, <3>6 DEF FireView, Status
        <4>2. FireView' = FireView
          BY <4>1, <3>1, <3>4 DEF FireView
        <4> QED BY <4>2, <3>2, <3>3
      <3>7. runs[j].status # "absent"
        BY <2>4 DEF OwnershipInv, HoldersBelowRow, Finish, Holding, Phase
      <3> QED BY <3>1, <3>5, <3>6, <3>7 DEF RunRow
    <2>5. ASSUME NEW c \in Clock, ClockNext(c) PROVE UNCHANGED <<now, runs>>
      BY <2>5
      DEF ClockNext, Start, Stop, ShutDown, Dispatch, TickRaises, Crash, storeVars
    <2>6. ASSUME NEW w \in Worker, WorkerNext(w), ~Claim(w), ~Finish(w)
          PROVE  UNCHANGED <<now, runs>>
      BY <2>6
      DEF WorkerNext, TakeJob, Refused, AgentReports, AgentReportsNothing, AgentHangs,
          RunFails, Executed, DecideRun, SendSucceeds, SendFails, PutState, Abort, storeVars
    <2>7. CASE UNCHANGED vars
      BY <2>1, <2>7 DEF vars, storeVars
    <2> QED BY <2>1, <2>2, <2>3, <2>4, <2>5, <2>6, <2>7 DEF Next
  <1> QED
    BY <1>1, <1>2, TypeCorrect, PastReadings, OwnershipInductive, PTL
    DEF Spec, ImplementsLedger, Ledger!Spec

-----------------------------------------------------------------------------
(***************************************************************************)
(* Monitoring.  DeliverOnTransition compares a run with the record of the  *)
(* one before, so what it promises to the reader rests on two conditions   *)
(* that the scheduler does not enforce and the theorems name: no two runs  *)
(* of a task overlap, and no process or transaction fails between a        *)
(* message that got through and its record.  Everything else may fail.     *)
(***************************************************************************)

\* A cron that fires faster than its runs end, or a second clock on the same
\* database, breaks this one.
RunsDoNotOverlap ==
    \A v, w \in Worker : v # w /\ phase[v] \in Holding /\ phase[w] \in Holding
                         => job[v].task # job[w].task

\* A message got through and put_state has not run yet.
Recording(w) == phase[w] = "put" /\ verdict[w].delivered

DeliveriesAreRecorded ==
    \A w \in Worker : Recording(w) => Recording(w)' \/ phase'[w] = "finish"

\* The invariant.  What was announced is in the table, or about to be put there;
\* a decision still agrees with the record it was made from; and no message is
\* later than the record, the decision or the clock.
AnnouncedIsOpen ==
    \A tk \in Task \X Key : alarmed[tk] =>
        \/ state[tk].status \in {"alert", "error"}
        \/ \E w \in Worker : Recording(w) /\ outcome[w].status # "ok" /\ Subject(w) = tk

NewIsNew ==
    \A w \in Worker : phase[w] = "send" /\ verdict[w].kind = "new"
        => state[Subject(w)].status \in {"absent", "ok"}

ReminderIsDue ==
    \A w \in Worker : phase[w] = "send" /\ verdict[w].kind = "reminder"
        => ReminderDue(PolicyOf[job[w].task], state[Subject(w)], verdict[w].at)

DecidedLast ==
    \A w \in Worker : phase[w] \in {"send", "put"}
        => verdict[w].at <= now /\ \A m \in told[Subject(w)] : m.at <= verdict[w].at

ToldIsPast == \A tk \in Task \X Key : \A m \in told[tk] : m.at <= now

ToldIsRecorded ==
    \A tk \in Task \X Key : \A m \in told[tk] :
        \/ m.at <= state[tk].last_delivered
        \/ \E w \in Worker : Recording(w) /\ Subject(w) = tk

NewsInv   == AnnouncedIsOpen /\ NewIsNew
PacingInv == ReminderIsDue /\ DecidedLast /\ ToldIsPast /\ ToldIsRecorded

LEMMA SubjectTyped ==
    ASSUME TypeOK, NEW w \in Worker
    PROVE  Subject(w) \in Task \X Key
  BY DEF TypeOK, Subject, Job, Outcome

LEMMA Observed ==
    ASSUME Observe, NEW tk \in Task \X Key, alarmed'[tk],
           ~(alarmed[tk] /\ state'[tk].status # "ok")
    PROVE  \E w \in Worker : /\ verdict'[w].delivered /\ ~verdict[w].delivered
                             /\ Subject(w) = tk /\ outcome[w].status # "ok"
  <1>1. alarmed'[tk] = (\/ \E w \in Confirms(tk) : outcome[w].status # "ok"
                        \/ alarmed[tk] /\ state'[tk].status # "ok")
    BY DEF Observe
  <1>2. \E w \in Confirms(tk) : outcome[w].status # "ok"
    BY <1>1
  <1> QED BY <1>2 DEF Confirms, Subject

\* A step that sends, decides and records nothing, and loses no delivery.
Uneventful ==
    /\ state' = state /\ told' = told /\ now' \in Nat /\ now <= now'
    /\ \A w \in Worker : ~verdict[w].delivered => ~verdict'[w].delivered
    /\ \A w \in Worker : phase'[w] \in {"send", "put"} =>
          /\ phase[w] \in {"send", "put"} /\ (phase'[w] = "send" => phase[w] = "send")
          /\ verdict'[w] = verdict[w] /\ job'[w] = job[w] /\ outcome'[w] = outcome[w]
    /\ \A w \in Worker : Recording(w) => phase'[w] = "put"

LEMMA UneventfulKeeps ==
    ASSUME TypeOK, Observe, Uneventful
    PROVE  (NewsInv => NewsInv') /\ (PacingInv => PacingInv')
  <1>1. \A w \in Worker : Recording(w) => Recording(w)' /\ Subject(w)' = Subject(w)
                                          /\ outcome'[w] = outcome[w]
    BY DEF Uneventful, Recording, Subject
  <1>2. \A w \in Worker : phase'[w] \in {"send", "put"} =>
            /\ phase[w] \in {"send", "put"} /\ (phase'[w] = "send" => phase[w] = "send")
            /\ verdict'[w] = verdict[w] /\ job'[w] = job[w] /\ Subject(w)' = Subject(w)
    BY DEF Uneventful, Subject
  <1>3. state' = state /\ told' = told /\ now <= now' /\ now \in Nat /\ now' \in Nat
    BY SchedulerAssumption DEF Uneventful, TypeOK, Time
  <1>4. ASSUME NewsInv PROVE NewsInv'
    <2>1. AnnouncedIsOpen'
      <3> SUFFICES ASSUME NEW tk \in Task \X Key, alarmed'[tk]
                   PROVE  \/ state[tk].status \in {"alert", "error"}
                          \/ \E w \in Worker : Recording(w)' /\ outcome'[w].status # "ok"
                                               /\ Subject(w)' = tk
        BY <1>3 DEF AnnouncedIsOpen
      <3>1. alarmed[tk]
        BY Observed DEF Uneventful
      <3> QED BY <1>1, <1>4, <3>1 DEF NewsInv, AnnouncedIsOpen
    <2>2. NewIsNew'
      BY <1>2, <1>3, <1>4 DEF NewsInv, NewIsNew
    <2> QED BY <2>1, <2>2 DEF NewsInv
  <1>5. ASSUME PacingInv PROVE PacingInv'
    <2>1. ReminderIsDue'
      BY <1>2, <1>3, <1>5 DEF PacingInv, ReminderIsDue
    <2>2. DecidedLast'
      <3>1. \A w \in Worker : verdict[w].at \in Nat
        BY DEF TypeOK, Verdict
      <3> QED BY <1>2, <1>3, <1>5, <3>1 DEF PacingInv, DecidedLast
    <2>3. ToldIsPast'
      <3>1. \A tk \in Task \X Key : \A m \in told[tk] : m.at \in Nat
        BY DEF TypeOK, Message
      <3> QED BY <1>3, <1>5, <3>1 DEF PacingInv, ToldIsPast
    <2>4. ToldIsRecorded'
      BY <1>1, <1>3, <1>5 DEF PacingInv, ToldIsRecorded
    <2> QED BY <2>1, <2>2, <2>3, <2>4 DEF PacingInv
  <1> QED BY <1>4, <1>5

LEMMA MostStepsAreUneventful ==
    ASSUME TypeOK, DeliveryInv, [Next]_vars, DeliveriesAreRecorded,
           \A w \in Worker : ~DecideRun(w) /\ ~SendSucceeds(w) /\ ~PutState(w)
    PROVE  Uneventful
  <1>1. now \in Nat
    BY SchedulerAssumption DEF TypeOK, Time
  <1>2. \A w \in Worker : verdict[w].delivered => phase[w] \in {"put", "finish"}
    BY DEF DeliveryInv, DeliveredWasTold
  <1>3. ASSUME NEW W, Release(W), UNCHANGED <<state, told, now>> PROVE Uneventful
    <2>1. \A w \in Worker : /\ w \in W => phase'[w] = "idle" /\ ~verdict'[w].delivered
                            /\ w \notin W => /\ phase'[w] = phase[w] /\ verdict'[w] = verdict[w]
                                             /\ job'[w] = job[w] /\ outcome'[w] = outcome[w]
      BY <1>3 DEF Release, NoVerdict
    <2>2. \A w \in Worker : Recording(w) => phase'[w] = "put"
      BY <2>1 DEF DeliveriesAreRecorded, Recording
    <2> QED BY <1>1, <1>3, <2>1, <2>2 DEF Uneventful
  <1>4. ASSUME UNCHANGED <<state, told, verdict>>, now' \in Nat, now <= now',
               NEW w \in Worker,
               phase[w] \in {"idle", "claim", "execute", "hung"}, phase'[w] \notin {"send", "put"},
               \A v \in Worker \ {w} : /\ phase'[v] = phase[v] /\ job'[v] = job[v]
                                      /\ outcome'[v] = outcome[v]
        PROVE  Uneventful
    BY <1>4 DEF Uneventful, Recording
  <1>5. ASSUME UNCHANGED <<state, told, workerVars>>, now' \in Nat, now <= now' PROVE Uneventful
    BY <1>5 DEF Uneventful, Recording, workerVars
  <1>6. ASSUME NEW c \in Clock, ClockNext(c) PROVE Uneventful
    <2>1. CASE Crash(c)
      BY <2>1, <1>3 DEF Crash, storeVars
    <2>2. CASE ~Crash(c)
      <3>1. UNCHANGED <<state, told, workerVars, now>>
        BY <1>6, <2>2 DEF ClockNext, Start, Stop, ShutDown, Dispatch, TickRaises, storeVars
      <3> QED BY <1>1, <1>5, <3>1
    <2> QED BY <2>1, <2>2
  <1>7. ASSUME NEW w \in Worker, WorkerNext(w) PROVE Uneventful
    <2>1. CASE Refused(w) \/ Finish(w) \/ Abort(w)
      BY <2>1, <1>3 DEF Refused, Finish, Abort, storeVars
    <2>2. CASE \/ TakeJob(w) \/ Claim(w) \/ AgentReports(w) \/ AgentReportsNothing(w)
               \/ AgentHangs(w) \/ RunFails(w)
      <3>1. /\ UNCHANGED <<state, told, verdict, now>>
            /\ phase[w] \in {"idle", "claim", "execute", "hung"}
            /\ phase'[w] \notin {"send", "put"}
            /\ \A v \in Worker \ {w} : /\ phase'[v] = phase[v] /\ job'[v] = job[v]
                                       /\ outcome'[v] = outcome[v]
        BY <2>2
        DEF TakeJob, Claim, AgentReports, AgentReportsNothing, AgentHangs, RunFails,
            Executed, storeVars, TypeOK
      <3> QED BY <1>1, <1>4, <3>1
    <2>3. CASE SendFails(w)
      <3>1. /\ UNCHANGED <<state, told, verdict, now, job, outcome>>
            /\ phase[w] = "send" /\ phase' = [phase EXCEPT ![w] = "put"]
        BY <2>3 DEF SendFails, storeVars
      <3>2. \A v \in Worker : /\ phase'[v] = "send" => phase[v] = "send"
                              /\ phase'[v] = "put" => phase[v] \in {"send", "put"}
                              /\ phase[v] = "put" => phase'[v] = "put"
        BY <3>1 DEF TypeOK
      <3> QED BY <1>1, <3>1, <3>2 DEF Uneventful, Recording
    <2> QED BY <1>7, <2>1, <2>2, <2>3 DEF WorkerNext
  <1>8. CASE Advance
    <2>1. now' = now + 1 /\ UNCHANGED <<state, told, workerVars>>
      BY <1>8 DEF Advance, storeVars
    <2> QED BY <1>1, <1>5, <2>1
  <1>9. CASE UNCHANGED vars
    BY <1>1, <1>5, <1>9 DEF vars, storeVars
  <1> QED BY <1>6, <1>7, <1>8, <1>9 DEF Next

\* A worker that acts on a decision is alone on its task.
LEMMA AloneOnTask ==
    ASSUME TypeOK, RunsDoNotOverlap, NEW v \in Worker, NEW w \in Worker,
           phase[v] \in {"decide", "send", "put"}, phase[w] \in {"decide", "send", "put"},
           Subject(v) = Subject(w)
    PROVE  v = w
  <1>1. phase[v] \in Holding /\ phase[w] \in Holding
    BY DEF Holding, Phase
  <1>2. job[v].task = job[w].task
    BY DEF Subject
  <1> QED BY <1>1, <1>2 DEF RunsDoNotOverlap

LEMMA DecideTransition ==
    ASSUME NEW p, p.kind = "transition", NEW status, NEW prior, NEW n,
           Decide(p, status, prior, n) = "new"
    PROVE  prior.status \in {"absent", "ok"}
  BY DEF Decide, DecideOnTransition

LEMMA DecideReminder ==
    ASSUME NEW p, NEW status, NEW prior, NEW n, Decide(p, status, prior, n) = "reminder"
    PROVE  ReminderDue(p, prior, n)
  BY DEF Decide, DecideAlways, DecideOnTransition

LEMMA DecideKeepsNews ==
    ASSUME TypeOK, NEW w \in Worker, DecideRun(w), Observe,
           \A t \in Task : PolicyOf[t].kind = "transition", NewsInv
    PROVE  NewsInv'
  <1> DEFINE k == Decide(PolicyOf[job[w].task], outcome[w].status, state[Subject(w)], now)
  <1>1. /\ phase[w] = "decide" /\ UNCHANGED <<job, outcome, state>>
        /\ phase'[w] = (IF k = "silent" THEN "put" ELSE "send")
        /\ verdict'[w] = [kind |-> k, at |-> now, delivered |-> FALSE]
        /\ \A v \in Worker \ {w} : phase'[v] = phase[v] /\ verdict'[v] = verdict[v]
    BY DEF DecideRun, Subject, storeVars, TypeOK
  <1> HIDE DEF k
  <1>2. \A v \in Worker : Subject(v)' = Subject(v)
    BY <1>1 DEF Subject
  <1>3. AnnouncedIsOpen'
    <2> SUFFICES ASSUME NEW tk \in Task \X Key, alarmed'[tk]
                 PROVE  \/ state[tk].status \in {"alert", "error"}
                        \/ \E v \in Worker : Recording(v)' /\ outcome'[v].status # "ok"
                                             /\ Subject(v)' = tk
      BY <1>1 DEF AnnouncedIsOpen
    <2>1. alarmed[tk]
      <3>1. \A v \in Worker : ~verdict[v].delivered => ~verdict'[v].delivered
        BY <1>1
      <3> QED BY <3>1, Observed
    <2>2. \A v \in Worker : Recording(v) => Recording(v)'
      BY <1>1 DEF Recording
    <2> QED BY <1>1, <1>2, <2>1, <2>2 DEF NewsInv, AnnouncedIsOpen
  <1>4. NewIsNew'
    <2> SUFFICES ASSUME NEW v \in Worker, phase'[v] = "send", verdict'[v].kind = "new"
                 PROVE  state[Subject(v)].status \in {"absent", "ok"}
      BY <1>1, <1>2 DEF NewIsNew
    <2>1. CASE v = w
      <3>1. k = "new"
        BY <1>1, <2>1
      <3>2. job[w].task \in Task
        BY DEF TypeOK, Job
      <3> QED BY <2>1, <3>1, <3>2, DecideTransition DEF k
    <2>2. CASE v # w
      BY <1>1, <2>2 DEF NewsInv, NewIsNew
    <2> QED BY <2>1, <2>2
  <1> QED BY <1>3, <1>4 DEF NewsInv

LEMMA DecideKeepsPacing ==
    ASSUME TypeOK, NEW w \in Worker, DecideRun(w), PacingInv
    PROVE  PacingInv'
  <1> DEFINE k == Decide(PolicyOf[job[w].task], outcome[w].status, state[Subject(w)], now)
  <1>1. /\ phase[w] = "decide" /\ UNCHANGED <<job, outcome, state, told, now>>
        /\ phase'[w] = (IF k = "silent" THEN "put" ELSE "send")
        /\ verdict'[w] = [kind |-> k, at |-> now, delivered |-> FALSE]
        /\ \A v \in Worker \ {w} : phase'[v] = phase[v] /\ verdict'[v] = verdict[v]
    BY DEF DecideRun, Subject, storeVars, TypeOK
  <1> HIDE DEF k
  <1>2. \A v \in Worker : Subject(v)' = Subject(v)
    BY <1>1 DEF Subject
  <1>3. ReminderIsDue'
    <2> SUFFICES ASSUME NEW v \in Worker, phase'[v] = "send", verdict'[v].kind = "reminder"
                 PROVE  ReminderDue(PolicyOf[job[v].task], state[Subject(v)], verdict'[v].at)
      BY <1>1, <1>2 DEF ReminderIsDue
    <2>1. CASE v = w
      <3>1. k = "reminder" /\ verdict'[w].at = now
        BY <1>1, <2>1
      <3> QED BY <2>1, <3>1, DecideReminder DEF k
    <2>2. CASE v # w
      BY <1>1, <2>2 DEF PacingInv, ReminderIsDue
    <2> QED BY <2>1, <2>2
  <1>4. DecidedLast'
    <2> SUFFICES ASSUME NEW v \in Worker, phase'[v] \in {"send", "put"}
                 PROVE  /\ verdict'[v].at <= now
                        /\ \A m \in told[Subject(v)] : m.at <= verdict'[v].at
      BY <1>1, <1>2 DEF DecidedLast
    <2>1. CASE v = w
      <3>1. verdict'[w].at = now /\ now \in Nat
        BY <1>1, SchedulerAssumption DEF TypeOK, Time
      <3>2. Subject(w) \in Task \X Key
        BY SubjectTyped
      <3> QED BY <2>1, <3>1, <3>2 DEF PacingInv, ToldIsPast
    <2>2. CASE v # w
      BY <1>1, <2>2 DEF PacingInv, DecidedLast
    <2> QED BY <2>1, <2>2
  <1>5. ToldIsPast'
    BY <1>1 DEF PacingInv, ToldIsPast
  <1>6. ToldIsRecorded'
    <2>1. \A v \in Worker : Recording(v) => Recording(v)'
      BY <1>1 DEF Recording
    <2> QED BY <1>1, <1>2, <2>1 DEF PacingInv, ToldIsRecorded
  <1> QED BY <1>3, <1>4, <1>5, <1>6 DEF PacingInv

LEMMA SendKeepsNews ==
    ASSUME TypeOK, NEW w \in Worker, SendSucceeds(w), Observe, NewsInv
    PROVE  NewsInv'
  <1>1. /\ phase[w] = "send" /\ UNCHANGED <<job, outcome, state>>
        /\ phase'[w] = "put" /\ verdict'[w].delivered
        /\ \A v \in Worker \ {w} : phase'[v] = phase[v] /\ verdict'[v] = verdict[v]
    BY DEF SendSucceeds, storeVars, TypeOK, Verdict
  <1>2. \A v \in Worker : Subject(v)' = Subject(v)
    BY <1>1 DEF Subject
  <1>3. AnnouncedIsOpen'
    <2> SUFFICES ASSUME NEW tk \in Task \X Key, alarmed'[tk]
                 PROVE  \/ state[tk].status \in {"alert", "error"}
                        \/ \E v \in Worker : Recording(v)' /\ outcome'[v].status # "ok"
                                             /\ Subject(v)' = tk
      BY <1>1 DEF AnnouncedIsOpen
    <2>1. \A v \in Worker : Recording(v) => Recording(v)'
      BY <1>1 DEF Recording
    <2>2. Recording(w)'
      BY <1>1 DEF Recording
    <2>3. CASE alarmed[tk]
      BY <1>1, <1>2, <2>1, <2>3 DEF NewsInv, AnnouncedIsOpen
    <2>4. CASE ~alarmed[tk]
      <3>1. PICK v \in Worker : /\ verdict'[v].delivered /\ ~verdict[v].delivered
                                /\ Subject(v) = tk /\ outcome[v].status # "ok"
        BY <2>4, Observed
      <3>2. v = w
        BY <1>1, <3>1
      <3> QED BY <1>1, <1>2, <2>2, <3>1, <3>2
    <2> QED BY <2>3, <2>4
  <1>4. NewIsNew'
    BY <1>1, <1>2 DEF NewsInv, NewIsNew
  <1> QED BY <1>3, <1>4 DEF NewsInv

LEMMA SendKeepsPacing ==
    ASSUME TypeOK, RunsDoNotOverlap, NEW w \in Worker, SendSucceeds(w), PacingInv
    PROVE  PacingInv'
  <1> DEFINE tk == Subject(w)
             m == [fire |-> job[w].fire, at |-> verdict[w].at]
  <1>1. /\ phase[w] = "send" /\ UNCHANGED <<job, outcome, state, now>>
        /\ phase'[w] = "put" /\ verdict'[w].delivered /\ verdict'[w].at = verdict[w].at
        /\ \A v \in Worker \ {w} : phase'[v] = phase[v] /\ verdict'[v] = verdict[v]
    BY DEF SendSucceeds, storeVars, TypeOK, Verdict
  <1>2. tk \in Task \X Key /\ \A v \in Worker : Subject(v)' = Subject(v) /\ Subject(v) \in Task \X Key
    BY <1>1, SubjectTyped DEF Subject
  <1>3. /\ told'[tk] = told[tk] \cup {m} /\ m.at = verdict[w].at
        /\ \A uk \in Task \X Key : uk # tk => told'[uk] = told[uk]
    BY <1>2 DEF SendSucceeds, TypeOK, Subject
  <1> HIDE DEF m
  <1>4. verdict[w].at \in Nat
    BY DEF TypeOK, Verdict
  <1>5. ReminderIsDue'
    BY <1>1, <1>2 DEF PacingInv, ReminderIsDue
  <1>6. DecidedLast'
    <2> SUFFICES ASSUME NEW v \in Worker, phase'[v] \in {"send", "put"}
                 PROVE  /\ verdict'[v].at <= now
                        /\ \A n \in told'[Subject(v)] : n.at <= verdict'[v].at
      BY <1>1, <1>2 DEF DecidedLast
    <2>1. CASE v = w
      BY <1>1, <1>3, <1>4, <2>1 DEF PacingInv, DecidedLast
    <2>2. CASE v # w
      <3>1. phase[v] \in {"send", "put"} /\ verdict'[v] = verdict[v]
        BY <1>1, <2>2
      <3>2. Subject(v) # tk
        BY <1>1, <2>2, <3>1, AloneOnTask
      <3> QED BY <1>2, <1>3, <3>1, <3>2 DEF PacingInv, DecidedLast
    <2> QED BY <2>1, <2>2
  <1>7. ToldIsPast'
    <2>1. verdict[w].at <= now
      BY <1>1 DEF PacingInv, DecidedLast
    <2> QED BY <1>1, <1>3, <2>1 DEF PacingInv, ToldIsPast
  <1>8. ToldIsRecorded'
    <2>1. \A v \in Worker : Recording(v) => Recording(v)'
      BY <1>1 DEF Recording
    <2>2. Recording(w)'
      BY <1>1 DEF Recording
    <2> QED BY <1>1, <1>2, <1>3, <2>1, <2>2 DEF PacingInv, ToldIsRecorded
  <1> QED BY <1>5, <1>6, <1>7, <1>8 DEF PacingInv

LEMMA PutKeepsNews ==
    ASSUME TypeOK, RunsDoNotOverlap, NEW w \in Worker, PutState(w), Observe, NewsInv
    PROVE  NewsInv'
  <1> DEFINE tk == Subject(w)
  <1>1. /\ phase[w] = "put" /\ UNCHANGED <<job, outcome, verdict>>
        /\ phase'[w] = "finish" /\ \A v \in Worker \ {w} : phase'[v] = phase[v]
    BY DEF PutState, TypeOK
  <1>2. tk \in Task \X Key /\ \A v \in Worker : Subject(v)' = Subject(v) /\ Subject(v) \in Task \X Key
    BY <1>1, SubjectTyped DEF Subject
  <1>3. /\ state'[tk].status = outcome[w].status /\ outcome[w].status \in Status
        /\ \A uk \in Task \X Key : uk # tk => state'[uk] = state[uk]
    BY <1>2 DEF PutState, TypeOK, Subject, Put, Outcome
  <1>4. AnnouncedIsOpen'
    <2> SUFFICES ASSUME NEW uk \in Task \X Key, alarmed'[uk]
                 PROVE  \/ state'[uk].status \in {"alert", "error"}
                        \/ \E v \in Worker : Recording(v)' /\ outcome'[v].status # "ok"
                                             /\ Subject(v)' = uk
      BY DEF AnnouncedIsOpen
    <2>1. alarmed[uk] /\ state'[uk].status # "ok"
      BY <1>1, Observed
    <2>2. CASE uk = tk
      BY <1>3, <2>1, <2>2 DEF Status
    <2>3. CASE uk # tk
      <3>1. \A v \in Worker : Recording(v) /\ Subject(v) = uk => Recording(v)'
        BY <1>1, <2>3 DEF Recording
      <3> QED BY <1>1, <1>2, <1>3, <2>1, <2>3, <3>1 DEF NewsInv, AnnouncedIsOpen
    <2> QED BY <2>2, <2>3
  <1>5. NewIsNew'
    <2> SUFFICES ASSUME NEW v \in Worker, phase'[v] = "send", verdict[v].kind = "new"
                 PROVE  state'[Subject(v)].status \in {"absent", "ok"}
      BY <1>1, <1>2 DEF NewIsNew
    <2>1. v # w /\ phase[v] = "send"
      BY <1>1
    <2>2. Subject(v) # tk
      BY <1>1, <2>1, AloneOnTask
    <2> QED BY <1>2, <1>3, <2>1, <2>2 DEF NewsInv, NewIsNew
  <1> QED BY <1>4, <1>5 DEF NewsInv

LEMMA PutKeepsPacing ==
    ASSUME TypeOK, RunsDoNotOverlap, NEW w \in Worker, PutState(w), PacingInv
    PROVE  PacingInv'
  <1> DEFINE tk == Subject(w)
  <1>1. /\ phase[w] = "put" /\ UNCHANGED <<job, outcome, verdict, told, now>>
        /\ phase'[w] = "finish" /\ \A v \in Worker \ {w} : phase'[v] = phase[v]
    BY DEF PutState, TypeOK
  <1>2. tk \in Task \X Key /\ \A v \in Worker : Subject(v)' = Subject(v) /\ Subject(v) \in Task \X Key
    BY <1>1, SubjectTyped DEF Subject
  <1>3. /\ state'[tk].last_delivered = IF verdict[w].delivered THEN verdict[w].at
                                       ELSE state[tk].last_delivered
        /\ \A uk \in Task \X Key : uk # tk => state'[uk] = state[uk]
    BY <1>2 DEF PutState, TypeOK, Subject, Put
  <1>4. ReminderIsDue'
    <2> SUFFICES ASSUME NEW v \in Worker, phase'[v] = "send", verdict[v].kind = "reminder"
                 PROVE  ReminderDue(PolicyOf[job[v].task], state'[Subject(v)], verdict[v].at)
      BY <1>1, <1>2 DEF ReminderIsDue
    <2>1. v # w /\ phase[v] = "send"
      BY <1>1
    <2>2. Subject(v) # tk
      BY <1>1, <2>1, AloneOnTask
    <2> QED BY <1>2, <1>3, <2>1, <2>2 DEF PacingInv, ReminderIsDue
  <1>5. DecidedLast'
    BY <1>1, <1>2 DEF PacingInv, DecidedLast
  <1>6. ToldIsPast'
    BY <1>1 DEF PacingInv, ToldIsPast
  <1>7. ToldIsRecorded'
    <2> SUFFICES ASSUME NEW uk \in Task \X Key, NEW m \in told[uk]
                 PROVE  \/ m.at <= state'[uk].last_delivered
                        \/ \E v \in Worker : Recording(v)' /\ Subject(v)' = uk
      BY <1>1 DEF ToldIsRecorded
    <2>1. CASE uk = tk /\ verdict[w].delivered
      BY <1>1, <1>3, <2>1 DEF PacingInv, DecidedLast
    <2>2. CASE uk = tk /\ ~verdict[w].delivered
      <3>1. \A v \in Worker : Recording(v) => Subject(v) # tk
        <4> SUFFICES ASSUME NEW v \in Worker, Recording(v), Subject(v) = tk PROVE FALSE
          OBVIOUS
        <4>1. v = w
          BY <1>1, AloneOnTask DEF Recording
        <4> QED BY <2>2, <4>1 DEF Recording
      <3>2. m.at <= state[tk].last_delivered
        BY <1>2, <2>2, <3>1 DEF PacingInv, ToldIsRecorded
      <3> QED BY <1>3, <2>2, <3>2
    <2>3. CASE uk # tk
      <3>1. \A v \in Worker : Recording(v) /\ Subject(v) = uk => Recording(v)'
        BY <1>1, <2>3 DEF Recording
      <3> QED BY <1>2, <1>3, <2>3, <3>1 DEF PacingInv, ToldIsRecorded
    <2> QED BY <2>1, <2>2, <2>3
  <1> QED BY <1>4, <1>5, <1>6, <1>7 DEF PacingInv

\* What a reader of the alerts sees is made by the scheduler alone.
LEMMA MonitorIsScheduler == MonitorSpec => Spec
  <1>1. MonitorInit => Init
    BY DEF MonitorInit
  <1>2. [Next /\ Observe]_monitorVars => [Next]_vars
    BY DEF monitorVars
  <1> QED BY <1>1, <1>2, PTL DEF MonitorSpec, Spec

LEMMA NewsStep ==
    ASSUME TypeOK, DeliveryInv, RunsDoNotOverlap, \A t \in Task : PolicyOf[t].kind = "transition",
           NewsInv, [Next /\ Observe]_monitorVars, [DeliveriesAreRecorded]_monitorVars
    PROVE  NewsInv'
  <1>1. CASE UNCHANGED monitorVars
    BY <1>1
    DEF monitorVars, vars, workerVars, storeVars, NewsInv, AnnouncedIsOpen, NewIsNew, Recording, Subject
  <1>2. CASE Next /\ Observe /\ DeliveriesAreRecorded
    <2>1. CASE \E w \in Worker : DecideRun(w) \/ SendSucceeds(w) \/ PutState(w)
      BY <1>2, <2>1, DecideKeepsNews, SendKeepsNews, PutKeepsNews
    <2>2. CASE \A w \in Worker : ~DecideRun(w) /\ ~SendSucceeds(w) /\ ~PutState(w)
      BY <1>2, <2>2, MostStepsAreUneventful, UneventfulKeeps
    <2> QED BY <2>1, <2>2
  <1> QED BY <1>1, <1>2

LEMMA PacingStep ==
    ASSUME TypeOK, DeliveryInv, RunsDoNotOverlap, PacingInv,
           [Next /\ Observe]_monitorVars, [DeliveriesAreRecorded]_monitorVars
    PROVE  PacingInv'
  <1>1. CASE UNCHANGED monitorVars
    BY <1>1
    DEF monitorVars, vars, workerVars, storeVars, PacingInv, ReminderIsDue, DecidedLast, ToldIsPast,
        ToldIsRecorded, Recording, Subject
  <1>2. CASE Next /\ Observe /\ DeliveriesAreRecorded
    <2>1. CASE \E w \in Worker : DecideRun(w) \/ SendSucceeds(w) \/ PutState(w)
      BY <1>2, <2>1, DecideKeepsPacing, SendKeepsPacing, PutKeepsPacing
    <2>2. CASE \A w \in Worker : ~DecideRun(w) /\ ~SendSucceeds(w) /\ ~PutState(w)
      BY <1>2, <2>2, MostStepsAreUneventful, UneventfulKeeps
    <2> QED BY <2>1, <2>2
  <1> QED BY <1>1, <1>2

\* "Alert on the edge, not on the level": with DeliverOnTransition, a problem is
\* announced as new once, and not again before its fingerprint was seen ok, for
\* any clocks and threads, failed sends, crashes elsewhere and late threads, as
\* long as runs of a task do not overlap and what got through is recorded.
THEOREM NewsIsOnlyNewOnce ==
    ASSUME \A t \in Task : PolicyOf[t].kind = "transition"
    PROVE  MonitorSpec /\ []RunsDoNotOverlap /\ [][DeliveriesAreRecorded]_monitorVars
              => []NewsOnlyOnce
  <1>1. MonitorInit => NewsInv
    BY DEF MonitorInit, Init, NewsInv, AnnouncedIsOpen, NewIsNew
  <1>2. /\ TypeOK /\ DeliveryInv /\ RunsDoNotOverlap /\ NewsInv
        /\ [Next /\ Observe]_monitorVars /\ [DeliveriesAreRecorded]_monitorVars
        => NewsInv'
    BY NewsStep
  <1>3. TypeOK /\ RunsDoNotOverlap /\ NewsInv => NewsOnlyOnce
    <2> SUFFICES ASSUME TypeOK, RunsDoNotOverlap, NewsInv, NEW w \in Worker,
                        phase[w] = "send", verdict[w].kind = "new", alarmed[Subject(w)]
                 PROVE  FALSE
      BY DEF NewsOnlyOnce
    <2>1. state[Subject(w)].status \in {"absent", "ok"} /\ Subject(w) \in Task \X Key
      BY SubjectTyped DEF NewsInv, NewIsNew
    <2>2. PICK v \in Worker : Recording(v) /\ Subject(v) = Subject(w)
      BY <2>1 DEF NewsInv, AnnouncedIsOpen
    <2>3. v = w
      BY <2>2, AloneOnTask DEF Recording
    <2> QED BY <2>2, <2>3 DEF Recording
  <1> QED
    BY <1>1, <1>2, <1>3, MonitorIsScheduler, TypeCorrect, DeliveryInductive, PTL DEF MonitorSpec

\* renotify_after is the distance of a reminder from every message about its
\* problem that got through, under the same two conditions and any policy.
THEOREM RemindersKeepDistance ==
    MonitorSpec /\ []RunsDoNotOverlap /\ [][DeliveriesAreRecorded]_monitorVars
        => []RemindersSpaced
  <1>1. MonitorInit => PacingInv
    BY DEF MonitorInit, Init, PacingInv, ReminderIsDue, DecidedLast, ToldIsPast, ToldIsRecorded
  <1>2. /\ TypeOK /\ DeliveryInv /\ RunsDoNotOverlap /\ PacingInv
        /\ [Next /\ Observe]_monitorVars /\ [DeliveriesAreRecorded]_monitorVars
        => PacingInv'
    BY PacingStep
  <1>3. TypeOK /\ RunsDoNotOverlap /\ PacingInv => RemindersSpaced
    <2> SUFFICES ASSUME TypeOK, RunsDoNotOverlap, PacingInv, NEW w \in Worker,
                        phase[w] = "send", verdict[w].kind = "reminder", NEW m \in told[Subject(w)]
                 PROVE  verdict[w].at - m.at >= PolicyOf[job[w].task].renotify_after
      BY DEF RemindersSpaced
    <2> DEFINE last == state[Subject(w)].last_delivered
               pause == PolicyOf[job[w].task].renotify_after
    <2>1. pause # Never /\ last # Never /\ verdict[w].at - last >= pause
      BY DEF PacingInv, ReminderIsDue, ReminderDue
    <2>2. Subject(w) \in Task \X Key /\ job[w].task \in Task
      BY SubjectTyped DEF TypeOK, Job
    <2>3. m.at \in Nat /\ last \in Nat /\ pause \in Nat /\ verdict[w].at \in Nat
      <3>1. m \in Message /\ state[Subject(w)] \in StateRecord /\ verdict[w] \in Verdict
        BY <2>2 DEF TypeOK
      <3>2. PolicyOf[job[w].task] \in PolicyConfig
        BY <2>2, SchedulerAssumption
      <3> QED BY <2>1, <3>1, <3>2 DEF Message, StateRecord, Verdict, PolicyConfig
    <2>4. m.at <= last
      <3>1. ASSUME NEW v \in Worker, Recording(v), Subject(v) = Subject(w) PROVE FALSE
        <4>1. v = w
          BY <3>1, AloneOnTask DEF Recording
        <4> QED BY <3>1, <4>1 DEF Recording
      <3> QED BY <2>2, <3>1 DEF PacingInv, ToldIsRecorded
    <2> QED BY <2>1, <2>3, <2>4
  <1> QED
    BY <1>1, <1>2, <1>3, MonitorIsScheduler, TypeCorrect, DeliveryInductive, PTL DEF MonitorSpec

\* The two conditions can be met: a scheduler of one worker without faults, the
\* one that the model is checked on, meets them.
LEMMA OneWorkerMeetsThem ==
    ASSUME \A v, w \in Worker : v = w, MaxFaults = 0
    PROVE  MonitorSpec => []RunsDoNotOverlap /\ [][DeliveriesAreRecorded]_monitorVars
  <1>1. RunsDoNotOverlap
    BY DEF RunsDoNotOverlap
  <1>2. TypeOK /\ [Next /\ Observe]_monitorVars => [DeliveriesAreRecorded]_monitorVars
    <2> SUFFICES ASSUME TypeOK, Next, NEW w \in Worker, Recording(w)
                 PROVE  Recording(w)' \/ phase'[w] = "finish"
      BY DEF DeliveriesAreRecorded
    <2>1. ASSUME UNCHANGED workerVars PROVE Recording(w)'
      BY <2>1 DEF Recording, workerVars
    <2>2. \A c \in Clock : ~Crash(c)
      BY DEF Crash, TypeOK
    <2>3. ASSUME NEW c \in Clock, ClockNext(c) PROVE Recording(w)'
      BY <2>1, <2>2, <2>3 DEF ClockNext, Start, Stop, ShutDown, Dispatch, TickRaises
    <2>4. ASSUME NEW v \in Worker, WorkerNext(v) PROVE phase'[w] = "finish"
      <3>1. v = w /\ phase[w] = "put" /\ ~Abort(w)
        BY DEF Recording, Abort, TypeOK
      <3>2. PutState(w)
        BY <2>4, <3>1
        DEF WorkerNext, TakeJob, Claim, Refused, AgentReports, AgentReportsNothing, AgentHangs,
            RunFails, DecideRun, SendSucceeds, SendFails, Finish
      <3> QED BY <3>2 DEF PutState, TypeOK
    <2> QED BY <2>1, <2>3, <2>4 DEF Next, Advance
  <1> QED BY <1>1, <1>2, MonitorIsScheduler, TypeCorrect, PTL DEF MonitorSpec
-----------------------------------------------------------------------------
(***************************************************************************)
(* Cron.  The walk of next_after finds a first wall-clock minute, and the  *)
(* promise is about a first instant: what the theorems need of a zone is   *)
(* what makes the one order follow the other.                              *)
(***************************************************************************)

\* Division and least elements

LEMMA Division ==
    ASSUME NEW h \in Nat \ {0}, NEW a \in Nat
    PROVE  a % h \in 0..h - 1 /\ a \div h \in Nat /\ a = h * (a \div h) + (a % h)
  OBVIOUS

LEMMA Quotient ==
    ASSUME NEW h \in Nat \ {0}, NEW q \in Nat, NEW r \in 0..h - 1
    PROVE  (h * q + r) % h = r /\ (h * q + r) \div h = q
  OBVIOUS

LEMMA SameHour ==
    ASSUME NEW h \in Nat \ {0}, NEW g \in Nat, g % h = 0, NEW k \in 0..h - 1
    PROVE  /\ (g + k) \div h = g \div h
           /\ (g + k) % h = (g + h + k) % h
  <1> DEFINE q == g \div h
  <1>1. q \in Nat /\ g = h * q
    BY Division
  <1>2. q + 1 \in Nat /\ g + h = h * (q + 1)
    BY <1>1
  <1>3. (h * q + k) % h = k /\ (h * q + k) \div h = q
    BY <1>1, Quotient
  <1>4. (h * (q + 1) + k) % h = k
    BY <1>2, Quotient
  <1> QED BY <1>1, <1>2, <1>3, <1>4

LEMMA LeastIs ==
    ASSUME NEW S, S \subseteq Nat, S # {}
    PROVE  Min(S) \in S /\ \A j \in S : Min(S) <= j
  <1>1. PICK i \in S : \A j \in S : ~(<<j, i>> \in OpToRel(<, Nat))
    BY NatLessThanWellFounded, WFMin
  <1>2. ASSUME NEW j \in S PROVE i <= j
    <2>1. i \in Nat /\ j \in Nat
      OBVIOUS
    <2>2. ~(j < i)
      BY <1>1, <2>1 DEF OpToRel
    <2> QED BY <2>1, <2>2
  <1>3. Min(S) \in S /\ \A j \in S : Min(S) =< j
    BY <1>2 DEF Min
  <1> QED BY <1>3

\* A bounded set of naturals has a last element.
LEMMA LatestIs ==
    ASSUME NEW N \in Nat, NEW S, S \subseteq 0..N, S # {}
    PROVE  Max(S) \in S /\ \A j \in S : j <= Max(S)
  <1> DEFINE gaps == {n \in 0..N : N - n \in S}
  <1>1. gaps # {} /\ gaps \subseteq Nat
    <2>1. PICK i \in S : TRUE
      OBVIOUS
    <2>2. i \in 0..N /\ N - i \in 0..N /\ N - (N - i) = i
      BY <2>1
    <2>3. N - i \in gaps
      BY <2>1, <2>2
    <2>4. gaps \subseteq Nat
      BY SMT
    <2> QED BY <2>3, <2>4
  <1> DEFINE g == Min(gaps)
  <1>2. g \in gaps /\ \A n \in gaps : g <= n
    BY <1>1, LeastIs
  <1>3. N - g \in S /\ g \in 0..N
    BY <1>2
  <1>4. ASSUME NEW j \in S PROVE N - g >= j
    <2>1. j \in 0..N /\ N - j \in 0..N /\ N - (N - j) = j
      OBVIOUS
    <2>2. N - j \in gaps
      BY <2>1
    <2>3. g <= N - j
      BY <1>2, <2>2
    <2> QED BY <1>3, <2>1, <2>3
  <1> HIDE DEF gaps, g
  <1>5. Max(S) \in S /\ \A j \in S : Max(S) >= j
    BY <1>3, <1>4 DEF Max
  <1> QED BY <1>3, <1>5

-----------------------------------------------------------------------------
\* The wall clock

LEMMA ClockTyped ==
    ASSUME NEW t \in 0..Last
    PROVE  Offset[t] \in Int /\ Local(t) \in Nat
  BY CronAssumption DEF Local

LEMMA WalkTyped ==
    ASSUME NEW t \in 0..Last
    PROVE  Walk(t) \subseteq Nat /\ \A l \in Walk(t) : Local(t) < l
  <1>1. Local(t) \in Nat /\ SearchMinutes \in Nat
    BY ClockTyped, CronAssumption
  <1> QED BY <1>1 DEF Walk

LEMMA BetweenIsWalked ==
    ASSUME NEW t \in 0..Last, NEW l \in Walk(t), NEW m \in Nat, Local(t) < m, m <= l
    PROVE  m \in Walk(t)
  <1>1. Local(t) \in Nat /\ SearchMinutes \in Nat
    BY ClockTyped, CronAssumption
  <1> QED BY <1>1 DEF Walk

\* What ToUTC makes of a minute that is shown: the first time that it is.
LEMMA ShownInUTC ==
    ASSUME NEW t \in 0..Last
    PROVE  LET f == ToUTC(Local(t))
           IN  /\ f \in 0..Last /\ Local(f) = Local(t) /\ ShowsNew(f) /\ f <= t
               /\ ShowsNew(t) => f = t
  <1> DEFINE l == Local(t)
             shows == {s \in 0..Last : Local(s) = l}
  <1>1. t \in shows /\ shows \subseteq Nat /\ shows # {}
    BY CronAssumption
  <1>2. ToUTC(l) = Min(shows)
    BY <1>1 DEF ToUTC
  <1>3. Min(shows) \in shows /\ \A s \in shows : Min(shows) <= s
    BY <1>1, LeastIs
  <1>4. ASSUME NEW s \in 0..Min(shows) - 1 PROVE Local(s) # l
    <2>1. Min(shows) \in 0..Last /\ Last \in Nat
      BY <1>3, CronAssumption
    <2>2. s \in 0..Last /\ s < Min(shows)
      <3> HIDE DEF shows
      <3> QED BY <2>1
    <2>3. s \notin shows
      <3> HIDE DEF shows
      <3> QED BY <1>3, <2>1, <2>2
    <2> QED BY <2>2, <2>3
  <1>5. Min(shows) \in 0..Last /\ Local(Min(shows)) = l /\ Min(shows) <= t
    BY <1>1, <1>3
  <1>6. ShowsNew(t) => Min(shows) = t
    BY <1>5, CronAssumption DEF ShowsNew
  <1> QED BY <1>2, <1>4, <1>5, <1>6 DEF ShowsNew

LEMMA InUTC ==
    ASSUME NEW t \in 0..Last, NEW l \in Walk(t)
    PROVE  ToUTC(l) \in Int
  <1> DEFINE before == {s \in 0..Last : Local(s) < l}
  <1>1. CASE Skipped(l)
    <2>1. ToUTC(l) = l - Offset[Max(before)]
      BY <1>1 DEF ToUTC, Skipped
    <2>2. t \in before /\ before \subseteq 0..Last /\ Last \in Nat
      BY WalkTyped, CronAssumption
    <2>3. Max(before) \in 0..Last
      BY <2>2, LatestIs
    <2> QED BY <2>1, <2>3, ClockTyped, WalkTyped
  <1>2. CASE ~Skipped(l)
    BY <1>2, ShownInUTC DEF Skipped
  <1> QED BY <1>1, <1>2

-----------------------------------------------------------------------------
\* Fields

LEMMA QuotientBelow ==
    ASSUME NEW h \in Nat \ {0}, NEW q \in Nat, NEW a \in 0..q * h - 1
    PROVE  a \div h \in 0..q - 1
  <1> DEFINE d == a \div h
  <1>1. q * h \in Nat /\ a \in Nat
    OBVIOUS
  <1>2. d \in Nat /\ a % h \in 0..h - 1 /\ a = h * d + (a % h)
    BY <1>1, Division
  <1>3. h * d <= a
    BY <1>2
  <1>4. ASSUME d >= q PROVE FALSE
    <2>1. PICK e \in Nat : d = q + e
      BY <1>2, <1>4
    <2>2. h * d = q * h + h * e
      BY <2>1
    <2>3. h * e \in Nat
      BY <2>1
    <2> QED BY <1>1, <1>3, <2>2, <2>3
  <1> QED BY <1>2, <1>4

\* A minute whose instant is in time has a date.
LEMMA InCalendar ==
    ASSUME NEW t \in 0..Last, NEW l \in Walk(t), ToUTC(l) <= Last
    PROVE  DateOf(l) \in Date
  <1> DEFINE minutes == Len(Dates) * Day * Hour
             before == {s \in 0..Last : Local(s) < l}
  <1>1. l \in Nat /\ Last \in Nat
    BY WalkTyped, CronAssumption
  <1>2. PICK s \in 0..Last : l <= Local(s)
    <2> SUFFICES ASSUME \A s \in 0..Last : Local(s) < l
                 PROVE  FALSE
      BY <1>1, ClockTyped
    <2>1. before = 0..Last /\ Last \in before
      BY <1>1
    <2>2. Max(before) = Last
      <3>1. Max(before) \in before /\ \A j \in before : j <= Max(before)
        BY <1>1, <2>1, LatestIs
      <3> QED BY <1>1, <2>1, <3>1
    <2>3. \A s \in 0..Last : Local(s) # l
      BY <1>1, ClockTyped
    <2>4. ToUTC(l) = l - Offset[Last]
      BY <2>2, <2>3 DEF ToUTC
    <2>5. Last + Offset[Last] < l /\ Offset[Last] \in Int
      BY <1>1, ClockTyped DEF Local
    <2> QED BY <1>1, <2>4, <2>5
  <1>3. l \in 0..minutes - 1
    <2>1. Local(s) \in 0..minutes - 1
      BY CronAssumption DEF Local
    <2>2. minutes \in Nat
      BY CronAssumption
    <2> HIDE DEF minutes
    <2> QED BY <1>1, <1>2, <2>1, <2>2
  <1>4. /\ Len(Dates) \in Nat /\ Len(Dates) * Day \in Nat
        /\ Hour \in Nat \ {0} /\ Day \in Nat \ {0}
    BY CronAssumption
  <1>5. l \div Hour \in 0..Len(Dates) * Day - 1
    BY <1>3, <1>4, QuotientBelow
  <1>6. (l \div Hour) \div Day \in 0..Len(Dates) - 1
    BY <1>4, <1>5, QuotientBelow
  <1>7. (l \div Hour) \div Day + 1 \in 1..Len(Dates)
    BY <1>4, <1>6
  <1> QED BY <1>7, CronAssumption DEF DateOf

\* A day field that names fewer values than there are restricts, and one that
\* does not names them all: _matches is what cron means.
LEMMA MatchesIsWanted ==
    ASSUME NEW e \in Exprs, Accepted(e), NEW l, DateOf(l) \in Date
    PROVE  Matches(e, l) <=> Wanted(e, l)
  <1>1. /\ Values(e.days) \subseteq 1..Month
        /\ Month \in Nat /\ Week \in Nat \ {0}
    BY CronAssumption DEF Accepted
  <1>2. Weekdays(e.weekdays) \subseteq 0..Week - 1
    <2>1. \A v \in Values(e.weekdays) : v \in Nat
      BY CronAssumption DEF Values, Expr, Part
    <2> QED BY <1>1, <2>1 DEF Weekdays
  <1>3. Cardinality(Values(e.days)) < Month <=> Values(e.days) # 1..Month
    <2>1. IsFiniteSet(1..Month) /\ Cardinality(1..Month) = Month
      BY <1>1, FS_Interval
    <2>2. /\ IsFiniteSet(Values(e.days))
          /\ Cardinality(Values(e.days)) <= Month
          /\ Month = Cardinality(Values(e.days)) => 1..Month = Values(e.days)
      BY <1>1, <2>1, FS_Subset
    <2>3. Cardinality(Values(e.days)) \in Nat
      BY <2>2, FS_CardinalityType
    <2> QED BY <1>1, <2>1, <2>2, <2>3
  <1>4. Cardinality(Weekdays(e.weekdays)) < Week <=> Weekdays(e.weekdays) # 0..Week - 1
    <2>1. IsFiniteSet(0..Week - 1) /\ Cardinality(0..Week - 1) = Week
      BY <1>1, FS_Interval
    <2>2. /\ IsFiniteSet(Weekdays(e.weekdays))
          /\ Cardinality(Weekdays(e.weekdays)) <= Week
          /\ Week = Cardinality(Weekdays(e.weekdays)) => 0..Week - 1 = Weekdays(e.weekdays)
      BY <1>2, <2>1, FS_Subset
    <2>3. Cardinality(Weekdays(e.weekdays)) \in Nat
      BY <2>2, FS_CardinalityType
    <2> QED BY <1>1, <2>1, <2>2, <2>3
  <1>5. DateOf(l).day \in 1..Month /\ (DateOf(l).weekday + 1) % Week \in 0..Week - 1
    <2>1. DateOf(l).day \in 1..Month /\ DateOf(l).weekday + 1 \in Nat
      BY <1>1 DEF Date
    <2> QED BY <1>1, <2>1, Division
  <1> QED BY <1>3, <1>4, <1>5 DEF Matches, Wanted, WantedDate

-----------------------------------------------------------------------------
\* A fire

LEMMA Found ==
    ASSUME at \in 0..Last, Covered, NEW e, NEW f \in CronNextAfter(e, at)
    PROVE  \E l \in Walk(at) :
              /\ Matches(e, l) /\ f = ToUTC(l) /\ f \in at + 1..Last
              /\ \A m \in Walk(at) : Matches(e, m) /\ ToUTC(m) > at => l <= m
  <1> DEFINE found == {l \in Walk(at) : Matches(e, l) /\ ToUTC(l) > at}
  <1>1. found # {} /\ f = ToUTC(Min(found))
    BY DEF CronNextAfter
  <1>2. found \subseteq Nat
    BY WalkTyped
  <1>3. Min(found) \in found /\ \A m \in found : Min(found) <= m
    BY <1>1, <1>2, LeastIs
  <1>4. Min(found) \in Walk(at) /\ Matches(e, Min(found)) /\ f > at
    BY <1>1, <1>3
  <1>5. f \in Int /\ f <= Last
    BY <1>1, <1>4, InUTC DEF Covered
  <1>6. f \in at + 1..Last
    BY <1>4, <1>5, CronAssumption
  <1>7. \A m \in Walk(at) : Matches(e, m) /\ ToUTC(m) > at => Min(found) <= m
    BY <1>3
  <1> QED BY <1>1, <1>4, <1>6, <1>7

\* Where the chain of fires is, and that what the wall clock showed at a fire
\* was shown by then.
CronInv ==
    /\ expr \in Exprs /\ Accepted(expr)
    /\ at \in 0..Last
    /\ \A m \in shown : \E t \in 0..at : Local(t) = m

LEMMA CronInductive == CronSpec => []CronInv
  <1>1. CronInit => CronInv
    BY DEF CronInit, CronInv
  <1>2. CronInv /\ [CronNext]_cronVars => CronInv'
    <2> SUFFICES ASSUME CronInv, CronNext
                 PROVE  CronInv'
      BY DEF CronInv, cronVars
    <2>1. CASE Fires
      <3>1. PICK f \in CronNextAfter(expr, at) :
               at' = f /\ shown' = shown \cup {Local(f)} /\ expr' = expr /\ Covered
        BY <2>1 DEF Fires
      <3>2. f \in at + 1..Last
        BY <3>1, Found DEF CronInv
      <3>3. at' \in 0..Last /\ at' \in 0..at' /\ 0..at \subseteq 0..at'
        BY <3>1, <3>2, CronAssumption DEF CronInv
      <3>4. ASSUME NEW m \in shown' PROVE \E t \in 0..at' : Local(t) = m
        BY <3>1, <3>3 DEF CronInv
      <3> QED BY <3>1, <3>3, <3>4 DEF CronInv
    <2>2. CASE Raises
      BY <2>2 DEF Raises, CronInv
    <2> QED BY <2>1, <2>2 DEF CronNext
  <1> QED BY <1>1, <1>2, PTL DEF CronSpec

\* What a step that fires does.
LEMMA FiresAt ==
    ASSUME CronInv, [CronNext]_cronVars, at' # at
    PROVE  \E l \in Walk(at) :
              /\ Wanted(expr, l) /\ at' = ToUTC(l) /\ at' \in at + 1..Last /\ ~raised'
              /\ \A m \in Walk(at) : Wanted(expr, m) /\ ToUTC(m) \in at + 1..Last => l <= m
  <1>1. Fires
    BY DEF CronNext, Raises, cronVars
  <1>2. Covered /\ raised' = raised /\ at' \in CronNextAfter(expr, at)
    BY <1>1 DEF Fires
  <1>3. PICK l \in Walk(at) :
           /\ Matches(expr, l) /\ at' = ToUTC(l) /\ at' \in at + 1..Last
           /\ \A m \in Walk(at) : Matches(expr, m) /\ ToUTC(m) > at => l <= m
    BY <1>2, Found DEF CronInv
  <1>4. \A m \in Walk(at) : Matches(expr, m) <=> Wanted(expr, m)
    BY <1>2, InCalendar, MatchesIsWanted DEF CronInv, Covered
  <1>5. \A m \in Walk(at) : ToUTC(m) \in at + 1..Last => ToUTC(m) > at
    BY CronAssumption DEF CronInv
  <1> QED BY <1>2, <1>3, <1>4, <1>5 DEF Covered

\* Whatever the zone does, a cron task fires when the wall clock shows a minute
\* that its expression names, or for one that it names and the clock skips.
THEOREM FiresOnlyWhenWanted == CronSpec => FiresAreWanted
  <1>1. CronInv /\ [CronNext]_cronVars =>
           [at' # at => \/ Wanted(expr, Local(at'))
                        \/ \E l \in Walk(at) : Skipped(l) /\ Wanted(expr, l) /\ at' = ToUTC(l)]_cronVars
    <2> SUFFICES ASSUME CronInv, [CronNext]_cronVars, at' # at
                 PROVE  \/ Wanted(expr, Local(at'))
                        \/ \E l \in Walk(at) : Skipped(l) /\ Wanted(expr, l) /\ at' = ToUTC(l)
      OBVIOUS
    <2>1. PICK l \in Walk(at) : Wanted(expr, l) /\ at' = ToUTC(l)
      BY FiresAt
    <2>2. CASE Skipped(l)
      BY <2>1, <2>2
    <2>3. CASE ~Skipped(l)
      BY <2>1, <2>3, ShownInUTC DEF Skipped
    <2> QED BY <2>2, <2>3
  <1> QED BY <1>1, CronInductive, PTL DEF CronSpec, FiresAreWanted

\* "Demanding strict progress is what keeps the repeated hour from firing the
\* same schedule twice": so it does, in any zone where a skipped minute stands
\* for one that is new.
THEOREM EveryFireShowsNew ==
    ASSUME SkippedStandForNew
    PROVE  CronSpec => NoMinuteFiresTwice
  <1>1. CronInv /\ [CronNext]_cronVars => [at' # at => Local(at') \notin shown]_cronVars
    <2> SUFFICES ASSUME CronInv, [CronNext]_cronVars, at' # at, Local(at') \in shown
                 PROVE  FALSE
      OBVIOUS
    <2>1. PICK l \in Walk(at) : at' = ToUTC(l) /\ at' \in at + 1..Last
      BY FiresAt
    <2>2. at \in 0..Last /\ Last \in Nat
      BY CronAssumption DEF CronInv
    <2>3. ShowsNew(at')
      <3>1. CASE Skipped(l)
        BY <2>1, <2>2, <3>1 DEF SkippedStandForNew
      <3>2. CASE ~Skipped(l)
        BY <2>1, <3>2, ShownInUTC DEF Skipped
      <3> QED BY <3>1, <3>2
    <2>4. PICK t \in 0..at : Local(t) = Local(at')
      BY DEF CronInv
    <2>5. t \in 0..at' - 1
      BY <2>1, <2>2
    <2> QED BY <2>3, <2>4, <2>5 DEF ShowsNew
  <1> QED BY <1>1, CronInductive, PTL DEF CronSpec, NoMinuteFiresTwice

\* The skipped hour begins where the clock stood, so a minute of it stands for
\* the instant that far into the next hour.
LEMMA InSkippedHour ==
    ASSUME NEW s \in 1..Last, NEW begin, begin = Local(s - 1) + 1, SkipsTheHour(s, begin),
           NEW k \in 0..Hour - 1
    PROVE  begin \in Nat /\ Skipped(begin + k) /\ ToUTC(begin + k) = s + k
  <1> DEFINE l == begin + k
             before == {t \in 0..Last : Local(t) < l}
  <1>1. s - 1 \in 0..Last /\ s \in Nat /\ Last \in Nat /\ Hour \in Nat \ {0} /\ k \in Nat
    BY CronAssumption
  <1>2. begin \in Nat /\ Local(s - 1) = begin - 1
    BY <1>1, ClockTyped
  <1>3. \A t \in 0..Last : IF t <= s - 1 THEN Local(t) < begin ELSE Local(t) >= begin + Hour
    BY <1>1 DEF SkipsTheHour
  <1>4. \A t \in 0..Last : Local(t) # l /\ (Local(t) < l <=> t <= s - 1)
    BY <1>1, <1>2, <1>3, ClockTyped
  <1>5. Max(before) = s - 1
    <2>1. s - 1 \in before /\ before \subseteq 0..Last /\ \A t \in before : t <= s - 1
      BY <1>1, <1>4
    <2>2. Max(before) \in before /\ \A t \in before : t <= Max(before)
      BY <1>1, <2>1, LatestIs
    <2>3. Max(before) \in 0..Last /\ Max(before) <= s - 1 /\ s - 1 <= Max(before)
      <3> HIDE DEF before
      <3> QED BY <2>1, <2>2
    <2> QED BY <1>1, <2>3
  <1>6. ToUTC(l) = l - Offset[s - 1]
    BY <1>4, <1>5 DEF ToUTC
  <1>7. Offset[s - 1] \in Int /\ (s - 1) + Offset[s - 1] = begin - 1
    BY <1>1, <1>2, ClockTyped DEF Local
  <1> QED BY <1>1, <1>2, <1>4, <1>6, <1>7 DEF Skipped

\* A minute of a skipped hour and the one an hour later, which is shown, are
\* named by the same minutes; the hour and the date are those of the hour.
LEMMA HourOn ==
    ASSUME NEW begin \in Nat, begin % Hour = 0, NEW j \in 0..Hour - 1, NEW k \in 0..Hour - 1
    PROVE  /\ MinuteOf(begin + j) = MinuteOf(begin + Hour + j)
           /\ HourOf(begin + j) = HourOf(begin + k) /\ DateOf(begin + j) = DateOf(begin + k)
  <1>1. Hour \in Nat \ {0}
    BY CronAssumption
  <1>2. \A i \in 0..Hour - 1 : /\ (begin + i) \div Hour = begin \div Hour
                               /\ (begin + i) % Hour = (begin + Hour + i) % Hour
    BY <1>1, SameHour
  <1>3. (begin + j) \div Hour = (begin + k) \div Hour
    BY <1>2
  <1> QED BY <1>2, <1>3 DEF MinuteOf, HourOf, DateOf

\* No wanted instant lies before the one that the first wanted minute of the
\* walk stands for.  Where that minute is skipped, an instant in between would
\* show a minute of the next hour; the same minute of the skipped hour is wanted
\* too, and comes first.
LEMMA NothingBetween ==
    ASSUME NewMinutesAreLater, WholeHoursAreSkipped, CronInv,
           NEW l \in Walk(at), Wanted(expr, l), ToUTC(l) \in at + 1..Last,
           \A m \in Walk(at) : Wanted(expr, m) /\ ToUTC(m) \in at + 1..Last => l <= m,
           NEW t \in Expected(expr), at < t, t < ToUTC(l)
    PROVE  FALSE
  <1> DEFINE f == ToUTC(l)
             m == Local(t)
  <1>1. at \in 0..Last /\ Last \in Nat /\ l \in Nat /\ Local(at) \in Nat /\ Local(at) < l
    BY CronAssumption, ClockTyped, WalkTyped DEF CronInv
  <1>2. t \in 0..Last /\ t \in at + 1..Last /\ f \in 0..Last /\ Wanted(expr, m) /\ ShowsNew(t)
    BY <1>1 DEF Expected
  <1>3. m \in Nat /\ ToUTC(m) = t
    BY <1>2, ClockTyped, ShownInUTC
  <1>4. Local(at) < m
    BY <1>1, <1>2 DEF NewMinutesAreLater
  <1>5. l < m
    <2>1. CASE m <= l
      <3>1. m \in Walk(at)
        BY <1>1, <1>3, <1>4, <2>1, BetweenIsWalked
      <3>2. l <= m
        BY <1>2, <1>3, <3>1
      <3> QED BY <1>1, <1>2, <1>3, <2>1, <3>2
    <2> QED BY <1>1, <1>3, <2>1
  <1>6. CASE ~Skipped(l)
    <2>1. Local(f) = l /\ ShowsNew(f)
      BY <1>6, ShownInUTC DEF Skipped
    <2>2. t \in 0..f - 1
      BY <1>2
    <2>3. m < l
      BY <1>2, <2>1, <2>2 DEF NewMinutesAreLater
    <2> QED BY <1>1, <1>3, <1>5, <2>3
  <1>7. CASE Skipped(l)
    <2>1. PICK s \in 1..Last : /\ l \in Local(s - 1) + 1..Local(s - 1) + 1 + Hour - 1
                               /\ SkipsTheHour(s, Local(s - 1) + 1)
      BY <1>1, <1>2, <1>7 DEF WholeHoursAreSkipped
    <2> DEFINE begin == Local(s - 1) + 1
               k == l - begin
               j == t - s
    <2>2. Hour \in Nat \ {0} /\ begin \in Nat /\ s \in Nat
      <3>1. Hour \in Nat \ {0} /\ s \in Nat /\ s - 1 \in 0..Last
        BY <1>1, CronAssumption
      <3> QED BY <3>1, ClockTyped
    <2>3. k \in 0..Hour - 1 /\ l = begin + k
      BY <1>1, <2>1, <2>2
    <2>4. f = s + k
      BY <2>1, <2>3, InSkippedHour
    <2>5. s <= t
      <3>1. CASE t < s
        <4>1. m < begin
          BY <1>2, <2>1, <2>2, <3>1 DEF SkipsTheHour
        <4> QED BY <1>3, <1>5, <2>2, <2>3, <4>1
      <3> QED BY <1>2, <2>2, <3>1
    <2>6. j \in 0..k - 1 /\ j \in 0..Hour - 1 /\ t = s + j
      BY <1>2, <2>2, <2>3, <2>4, <2>5
    <2>7. m = begin + Hour + j
      <3>1. t \in s..s + Hour - 1
        BY <1>2, <2>2, <2>6
      <3> QED BY <1>2, <2>1, <3>1 DEF SkipsTheHour
    <2>8. at < s
      <3>1. CASE s <= at
        <4>1. Local(at) >= begin + Hour
          BY <1>1, <2>1, <3>1 DEF SkipsTheHour
        <4> QED BY <1>1, <2>2, <2>3, <4>1
      <3> QED BY <1>1, <2>2, <3>1
    <2>9. Local(at) < begin
      <3>1. at \in 0..s - 1
        BY <1>1, <2>2, <2>8
      <3> QED BY <2>1, <3>1 DEF SkipsTheHour
    <2>10. begin + j \in Walk(at) /\ begin + j < l
      <3>1. begin + j \in Nat /\ Local(at) < begin + j /\ begin + j < l
        BY <1>1, <2>2, <2>3, <2>6, <2>9
      <3> QED BY <1>1, <3>1, BetweenIsWalked
    <2>11. ToUTC(begin + j) = t
      BY <2>1, <2>6, InSkippedHour
    <2>12. Wanted(expr, begin + j)
      <3>1. /\ MinuteOf(begin + j) = MinuteOf(m)
            /\ HourOf(begin + j) = HourOf(l) /\ DateOf(begin + j) = DateOf(l)
        BY <2>1, <2>2, <2>3, <2>6, <2>7, HourOn DEF SkipsTheHour
      <3> QED BY <1>2, <3>1 DEF Wanted
    <2> QED BY <1>1, <1>2, <2>2, <2>3, <2>6, <2>10, <2>11, <2>12
  <1> QED BY <1>6, <1>7

\* "The first firing instant strictly after t": where whole hours are skipped
\* and nothing that was skipped is shown later, the chain of fires goes forward,
\* passes over no minute that its expression names and the clock shows, and
\* raises only where the walk holds none.
THEOREM FiresAreTheNext ==
    ASSUME NewMinutesAreLater, WholeHoursAreSkipped
    PROVE  CronSpec => NoMinuteIsPassedOver
  <1> DEFINE Kept == IF raised' THEN \A t \in Expected(expr) : t > at => Local(t) \notin Walk(at)
                     ELSE at' > at /\ Expected(expr) \cap (at + 1..at' - 1) = {}
  <1>1. ASSUME CronInv, CronNext PROVE Kept
    <2>1. CASE Fires
      <3>1. at' # at /\ ~raised'
        <4>1. /\ Covered /\ raised' = raised
              /\ \E f \in CronNextAfter(expr, at) : at' = f
          BY <2>1 DEF Fires
        <4>2. at' \in at + 1..Last /\ at \in 0..Last
          BY <1>1, <4>1, Found DEF CronInv
        <4>3. Last \in Nat
          BY CronAssumption
        <4> QED BY <4>1, <4>2, <4>3 DEF Covered
      <3>2. PICK l \in Walk(at) :
               /\ Wanted(expr, l) /\ at' = ToUTC(l) /\ at' \in at + 1..Last
               /\ \A m \in Walk(at) : Wanted(expr, m) /\ ToUTC(m) \in at + 1..Last => l <= m
        BY <1>1, <3>1, FiresAt
      <3>3. at \in Nat /\ at' \in Nat /\ at' > at
        <4>1. Last \in Nat /\ at \in 0..Last
          BY <1>1, CronAssumption DEF CronInv
        <4> QED BY <3>2, <4>1
      <3>4. ASSUME NEW t \in Expected(expr), t \in at + 1..at' - 1 PROVE FALSE
        BY <1>1, <3>2, <3>3, <3>4, NothingBetween
      <3> QED BY <3>1, <3>3, <3>4
    <2>2. CASE Raises
      <3>1. raised' /\ Covered /\ CronNextAfter(expr, at) = {}
        BY <2>2 DEF Raises
      <3>2. ASSUME NEW t \in Expected(expr), t > at, Local(t) \in Walk(at) PROVE FALSE
        <4>1. t \in 0..Last /\ Wanted(expr, Local(t)) /\ ToUTC(Local(t)) = t
          BY ShownInUTC DEF Expected
        <4>2. Matches(expr, Local(t))
          BY <1>1, <3>1, <3>2, <4>1, InCalendar, MatchesIsWanted DEF CronInv, Covered
        <4> QED BY <3>1, <3>2, <4>1, <4>2 DEF CronNextAfter
      <3> QED BY <3>1, <3>2
    <2> QED BY <1>1, <2>1, <2>2 DEF CronNext
  <1>2. CronInv /\ [CronNext]_cronVars => [Kept]_cronVars
    BY <1>1
  <1> QED BY <1>2, CronInductive, PTL DEF CronSpec, NoMinuteIsPassedOver
=============================================================================
