----------------------------- MODULE LLMService -----------------------------
(***************************************************************************)
(* agent/llm_service.py and agent/providers/fallback.py: calls walking     *)
(* down a chain of models, from threads that share one CooldownRecord.     *)
(*                                                                         *)
(* A duration is what is left of it: a model rests while `resting` is      *)
(* positive and a caller sleeps while `asleep` is.  So the clock needs no  *)
(* horizon, and a caller may make any number of calls.  What a model       *)
(* answers is left out; what its error means is one of three classes.      *)
(***************************************************************************)
EXTENDS Naturals, Sequences

CONSTANTS Caller,            \* threads, each in one call at a time
          Model,             \* what a ModelChoice names: ModelChoice.key
          Chains,            \* the chains calls are made on
          MaxAttempts,       \* model -> max_attempts
          UnavailableRest,   \* UNAVAILABLE_REST
          ExhaustedRest,     \* EXHAUSTED_REST
          Backoff            \* backoff_seconds

ASSUME LLMServiceAssumption ==
    /\ Chains \subseteq Seq(Model) \ {<<>>}
    /\ MaxAttempts \in [Model -> Nat \ {0}]
    /\ UnavailableRest \in Nat /\ ExhaustedRest \in 0..UnavailableRest
    /\ Backoff \in Nat

VARIABLES
    resting,    \* model -> CooldownRecord.until, less the present
    phase,      \* caller -> where its call to chat is, or how the last one ended
    chain,      \* caller -> the chain of the call
    left,       \* caller -> positions of the chain this call still tries
    attempt,    \* caller -> attempt at the first of them
    asleep,     \* caller -> what is left of its backoff
    failures,   \* caller -> the models that failed it in this call
    answered,   \* caller -> the position that answered, 0 for none
    known,      \* history: model -> what is left of the longest rest since it
                \* last stepped down
    excused     \* history: caller -> the models known for it when its call began

vars == <<resting, phase, chain, left, attempt, asleep, failures, answered, known, excused>>

InCall == {"asking", "backing off"}
Phase  == InCall \cup {"idle", "answered", "raised", "all failed"}

TypeOK ==
    /\ resting \in [Model -> 0..UnavailableRest]
    /\ phase \in [Caller -> Phase]
    /\ chain \in [Caller -> Seq(Model)]
    /\ left \in [Caller -> SUBSET Nat]
    /\ \A c \in Caller : left[c] \subseteq DOMAIN chain[c]
    /\ \A c \in Caller : phase[c] \in InCall => left[c] # {}
    /\ attempt \in [Caller -> Nat \ {0}]
    /\ asleep \in [Caller -> Nat]
    /\ failures \in [Caller -> SUBSET Model]
    /\ answered \in [Caller -> Nat]
    /\ known \in [Model -> 0..UnavailableRest]
    /\ excused \in [Caller -> SUBSET Model]

Init ==
    /\ resting = [m \in Model |-> 0]
    /\ phase = [c \in Caller |-> "idle"]
    /\ chain = [c \in Caller |-> <<>>]
    /\ left = [c \in Caller |-> {}]
    /\ attempt = [c \in Caller |-> 1]
    /\ asleep = [c \in Caller |-> 0]
    /\ failures = [c \in Caller |-> {}]
    /\ answered = [c \in Caller |-> 0]
    /\ known = [m \in Model |-> 0]
    /\ excused = [c \in Caller |-> {}]

-----------------------------------------------------------------------------
\* CooldownRecord

\* `rest` adding to a rest that is under way.
RestStacked(m, seconds) == [resting EXCEPT ![m] = @ + seconds]

\* rest: the last writer says how long.
Rest(m, seconds) == [resting EXCEPT ![m] = seconds]

\* A service that stays with the model it settled for.
StaysWhereItSettled(c, ch) ==
    IF answered[c] \in DOMAIN ch THEN answered[c]..Len(ch) ELSE DOMAIN ch

\* get_ready_models, as positions: those at rest are skipped, unless all are.
Ready(c, ch) ==
    LET up == {i \in DOMAIN ch : resting[ch[i]] = 0}
    IN  IF up = {} THEN DOMAIN ch ELSE up

-----------------------------------------------------------------------------
\* chat

\* A call starts from the top of a chain: the service's own, or that of one
\* model a caller has pinned.
Call(c) ==
    /\ phase[c] \notin InCall
    /\ \E ch \in Chains : /\ chain' = [chain EXCEPT ![c] = ch]
                          /\ left' = [left EXCEPT ![c] = Ready(c, ch)]
    /\ phase' = [phase EXCEPT ![c] = "asking"]
    /\ attempt' = [attempt EXCEPT ![c] = 1]
    /\ failures' = [failures EXCEPT ![c] = {}]
    /\ answered' = [answered EXCEPT ![c] = 0]
    /\ excused' = [excused EXCEPT ![c] = {m \in Model : known[m] > 0}]
    /\ UNCHANGED <<resting, asleep, known>>

\* The caller's request is with the model at position i.
Asking(c, i) ==
    /\ phase[c] = "asking"
    /\ i \in left[c]
    /\ \A j \in left[c] : i <= j

Answers(c) ==
    /\ \E i \in left[c] : Asking(c, i) /\ answered' = [answered EXCEPT ![c] = i]
    /\ phase' = [phase EXCEPT ![c] = "answered"]
    /\ UNCHANGED <<resting, chain, left, attempt, asleep, failures, known, excused>>

\* A request every model would reject: the error leaves chat as it is.
Rejects(c) ==
    /\ \E i \in left[c] :
          Asking(c, i) /\ failures' = [failures EXCEPT ![c] = @ \cup {chain[c][i]}]
    /\ phase' = [phase EXCEPT ![c] = "raised"]
    /\ UNCHANGED <<resting, chain, left, attempt, asleep, answered, known, excused>>

\* Stepping down to whatever is ready by now.
RereadsCooldowns(c, i) ==
    left' = [left EXCEPT ![c] =
               LET up == {j \in DOMAIN chain[c] : resting[chain[c][j]] = 0} \ {i}
               IN  IF up = {} THEN DOMAIN chain[c] ELSE up]

\* Skipping what somebody else has put to rest meanwhile.
SkipsTheResting(c, i) ==
    left' = [left EXCEPT ![c] = {j \in @ \ {i} : resting[chain[c][j]] = 0}]

\* The loop goes on with the list the call began with.
NextUp(c, i) == left' = [left EXCEPT ![c] = @ \ {i}]

\* _step_down: the model rests and the next one takes the call, if there is one.
StepDown(c, i, seconds) ==
    LET m == chain[c][i]
    IN  /\ Asking(c, i)
        /\ resting' = Rest(m, seconds)
        /\ known' = [known EXCEPT ![m] = UnavailableRest]
        /\ failures' = [failures EXCEPT ![c] = @ \cup {m}]
        /\ NextUp(c, i)
        /\ attempt' = [attempt EXCEPT ![c] = 1]
        /\ phase' = [phase EXCEPT ![c] = IF left'[c] = {} THEN "all failed" ELSE "asking"]
        /\ UNCHANGED <<chain, asleep, answered, excused>>

\* A model that cannot take the call, or whose adapter cannot be built.
TurnsAway(c) == \E i \in left[c] : StepDown(c, i, UnavailableRest)

\* A blip on the last attempt.
OutOfAttempts(c) ==
    \E i \in left[c] : /\ attempt[c] = MaxAttempts[chain[c][i]]
                       /\ StepDown(c, i, ExhaustedRest)

\* Equal jitter: half of the wait is fixed, half is random.
Delay(n) == LET most == Backoff * 2 ^ (n - 1)
            IN  {d \in 0..most : 2 * d >= most}

\* A blip before the last attempt: the caller sleeps and asks again.
BacksOff(c) ==
    /\ \E i \in left[c] :
          /\ Asking(c, i)
          /\ attempt[c] < MaxAttempts[chain[c][i]]
          /\ failures' = [failures EXCEPT ![c] = @ \cup {chain[c][i]}]
    /\ \E d \in Delay(attempt[c]) : asleep' = [asleep EXCEPT ![c] = d]
    /\ phase' = [phase EXCEPT ![c] = "backing off"]
    /\ UNCHANGED <<resting, chain, left, attempt, answered, known, excused>>

Retries(c) ==
    /\ phase[c] = "backing off"
    /\ asleep[c] = 0
    /\ attempt' = [attempt EXCEPT ![c] = @ + 1]
    /\ phase' = [phase EXCEPT ![c] = "asking"]
    /\ UNCHANGED <<resting, chain, left, asleep, failures, answered, known, excused>>

\* Time passes for everyone.
Elapsed(n) == IF n = 0 THEN 0 ELSE n - 1

Tick ==
    /\ resting' = [m \in Model |-> Elapsed(resting[m])]
    /\ known' = [m \in Model |-> Elapsed(known[m])]
    /\ asleep' = [c \in Caller |-> Elapsed(asleep[c])]
    /\ UNCHANGED <<phase, chain, left, attempt, failures, answered, excused>>

-----------------------------------------------------------------------------
\* What goes on once a call is made.
Proceeds(c) == \/ Answers(c) \/ Rejects(c) \/ TurnsAway(c)
               \/ OutOfAttempts(c) \/ BacksOff(c) \/ Retries(c)

Next == Tick \/ \E c \in Caller : Call(c) \/ Proceeds(c)

Spec == Init /\ [][Next]_vars

\* A request is answered or runs into the choice's timeout, and a sleep ends.
\* Nobody has to make a call.
FairSpec == Spec /\ WF_vars(Tick) /\ \A c \in Caller : WF_vars(Proceeds(c))

-----------------------------------------------------------------------------
\* Properties

\* A model is passed over for cause: it failed in this call, or it had failed
\* somebody not long before the call began.
PassedOver(c, m) == m \in failures[c] \cup excused[c]

\* llm_service.py: "Every call still starts from the top of the chain, so a run
\* that had to settle for a backup is back on its first choice the moment that
\* one recovers."  Whoever answers, all above it were passed over for cause.
FallbackIsEarned ==
    \A c \in Caller : \A j \in 1..answered[c] - 1 : PassedOver(c, chain[c][j])

\* chat gives up only when every model of the chain was passed over for cause,
\* one of them at least in this call: there is a failure to raise from.
GivesUpForCause ==
    \A c \in Caller : phase[c] = "all failed" =>
        /\ failures[c] # {}
        /\ \A j \in DOMAIN chain[c] : PassedOver(c, chain[c][j])

\* A call ends, whatever the models do and whatever other callers put to rest.
CallsEnd == \A c \in Caller : phase[c] \in InCall ~> phase[c] \notin InCall

\* fallback.py: "One that turned the call away needs real time to recover", and
\* "A race between threads costs one wasted call".  Only time shortens a rest:
\* another caller may renew one that is under way and not cut it short.
RestsAreKept == [][Tick \/ \A m \in Model : resting'[m] >= resting[m]]_vars
=============================================================================
