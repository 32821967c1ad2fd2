-------------------------- MODULE LLMServiceProofs --------------------------
(***************************************************************************)
(* Theorems about LLMService, for any callers, models, chains, rests,      *)
(* attempts and backoff.                                                   *)
(***************************************************************************)
EXTENDS LLMService, TLAPS

-----------------------------------------------------------------------------
\* Lemmas about the operators

LEMMA DelayTyped ==
    ASSUME NEW n \in Nat \ {0}, NEW d \in Delay(n)
    PROVE  d \in Nat
  BY DEF Delay

LEMMA ElapsedTyped ==
    ASSUME NEW top \in Nat, NEW n \in 0..top
    PROVE  Elapsed(n) \in 0..top
  BY DEF Elapsed

LEMMA ReadyTyped ==
    ASSUME NEW c, NEW ch \in Seq(Model) \ {<<>>}
    PROVE  Ready(c, ch) \subseteq DOMAIN ch /\ Ready(c, ch) # {}
  BY DEF Ready

\* A position still to be tried names a model.
LEMMA AskedIsAModel ==
    ASSUME TypeOK
    PROVE  \A c \in Caller : \A i \in left[c] : chain[c][i] \in Model
  BY DEF TypeOK

\* The part of TypeOK that ties the positions of a call to its phase.
CallsAreGoing ==
    /\ \A c \in Caller : left[c] \subseteq DOMAIN chain[c]
    /\ \A c \in Caller : phase[c] \in InCall => left[c] # {}

-----------------------------------------------------------------------------
\* One lemma for each step of a call that does more than set a few locals

LEMMA CallTyped ==
    ASSUME TypeOK, NEW c \in Caller, Call(c)
    PROVE  TypeOK'
  <1>1. PICK ch \in Chains : /\ chain' = [chain EXCEPT ![c] = ch]
                             /\ left' = [left EXCEPT ![c] = Ready(c, ch)]
    BY DEF Call
  <1>2. ch \in Seq(Model) \ {<<>>}
    BY LLMServiceAssumption
  <1>3. Ready(c, ch) \subseteq DOMAIN ch /\ Ready(c, ch) # {}
    BY <1>2, ReadyTyped
  <1>4. Ready(c, ch) \subseteq Nat
    BY <1>2, <1>3
  <1>5. chain' \in [Caller -> Seq(Model)] /\ left' \in [Caller -> SUBSET Nat]
    BY <1>1, <1>2, <1>4 DEF TypeOK
  <1>6. \A d \in Caller : left'[d] \subseteq DOMAIN chain'[d]
    BY <1>1, <1>3 DEF TypeOK
  <1>7. \A d \in Caller : phase'[d] \in InCall => left'[d] # {}
    BY <1>1, <1>3 DEF TypeOK, Call
  <1>8. phase' \in [Caller -> Phase]
    BY DEF TypeOK, Call, Phase, InCall
  <1>9. /\ attempt' \in [Caller -> Nat \ {0}]
        /\ failures' \in [Caller -> SUBSET Model]
        /\ answered' \in [Caller -> Nat]
        /\ excused' \in [Caller -> SUBSET Model]
    BY DEF TypeOK, Call
  <1>10. /\ resting' \in [Model -> 0..UnavailableRest]
         /\ known' \in [Model -> 0..UnavailableRest]
         /\ asleep' \in [Caller -> Nat]
    BY DEF TypeOK, Call
  <1> QED BY <1>5, <1>6, <1>7, <1>8, <1>9, <1>10 DEF TypeOK

LEMMA StepDownTyped ==
    ASSUME TypeOK, NEW c \in Caller, NEW i \in left[c],
           NEW seconds \in 0..UnavailableRest, StepDown(c, i, seconds)
    PROVE  TypeOK'
  <1> DEFINE m == chain[c][i]
  <1>1. m \in Model
    BY AskedIsAModel
  <1> HIDE DEF m
  <1>2. resting' \in [Model -> 0..UnavailableRest]
    <2>1. resting \in [Model -> 0..UnavailableRest] /\ resting' = [resting EXCEPT ![m] = seconds]
      BY DEF TypeOK, StepDown, Rest, m
    <2> QED BY <1>1, <2>1
  <1>3. known' \in [Model -> 0..UnavailableRest]
    <2>1. known \in [Model -> 0..UnavailableRest] /\ known' = [known EXCEPT ![m] = UnavailableRest]
      BY DEF TypeOK, StepDown, m
    <2>2. UnavailableRest \in 0..UnavailableRest
      BY LLMServiceAssumption
    <2> QED BY <1>1, <2>1, <2>2
  <1>4. failures' \in [Caller -> SUBSET Model]
    <2>1. /\ failures \in [Caller -> SUBSET Model]
          /\ failures' = [failures EXCEPT ![c] = @ \cup {m}]
      BY DEF TypeOK, StepDown, m
    <2> QED BY <1>1, <2>1
  <1>5. /\ left' = [left EXCEPT ![c] = @ \ {i}]
        /\ chain' = chain
        /\ left \in [Caller -> SUBSET Nat]
        /\ CallsAreGoing
    BY DEF TypeOK, StepDown, NextUp, CallsAreGoing
  <1>6. /\ left' \in [Caller -> SUBSET Nat]
        /\ \A d \in Caller : left'[d] \subseteq DOMAIN chain'[d]
    BY <1>5 DEF CallsAreGoing
  <1>7. /\ phase \in [Caller -> Phase]
        /\ phase' = [phase EXCEPT ![c] = IF left'[c] = {} THEN "all failed" ELSE "asking"]
    BY DEF TypeOK, StepDown
  <1>8. phase' \in [Caller -> Phase]
    BY <1>7 DEF Phase, InCall
  <1>9. \A d \in Caller : phase'[d] \in InCall => left'[d] # {}
    BY <1>5, <1>7 DEF CallsAreGoing, InCall
  <1>10. attempt' \in [Caller -> Nat \ {0}]
    <2>1. attempt \in [Caller -> Nat \ {0}] /\ attempt' = [attempt EXCEPT ![c] = 1]
      BY DEF TypeOK, StepDown
    <2> QED BY <2>1
  <1>11. /\ chain' \in [Caller -> Seq(Model)] /\ asleep' \in [Caller -> Nat]
         /\ answered' \in [Caller -> Nat] /\ excused' \in [Caller -> SUBSET Model]
    BY DEF TypeOK, StepDown
  <1> QED BY <1>2, <1>3, <1>4, <1>6, <1>8, <1>9, <1>10, <1>11 DEF TypeOK

\* Failing once more, on whatever model is asked, keeps the trail well typed.
LEMMA FailureTyped ==
    ASSUME TypeOK, NEW c \in Caller, NEW i \in left[c],
           failures' = [failures EXCEPT ![c] = @ \cup {chain[c][i]}]
    PROVE  failures' \in [Caller -> SUBSET Model]
  <1>1. chain[c][i] \in Model
    BY AskedIsAModel
  <1>2. failures \in [Caller -> SUBSET Model]
    BY DEF TypeOK
  <1> QED BY <1>1, <1>2

LEMMA BacksOffTyped ==
    ASSUME TypeOK, NEW c \in Caller, BacksOff(c)
    PROVE  TypeOK'
  <1>1. PICK i \in left[c] :
           Asking(c, i) /\ failures' = [failures EXCEPT ![c] = @ \cup {chain[c][i]}]
    BY DEF BacksOff
  <1>2. PICK d \in Delay(attempt[c]) : asleep' = [asleep EXCEPT ![c] = d]
    BY DEF BacksOff
  <1>3. asleep' \in [Caller -> Nat]
    <2>1. attempt[c] \in Nat \ {0} /\ asleep \in [Caller -> Nat]
      BY DEF TypeOK
    <2>2. d \in Nat
      BY <2>1, DelayTyped
    <2> QED BY <1>2, <2>1, <2>2
  <1>4. failures' \in [Caller -> SUBSET Model]
    BY <1>1, FailureTyped
  <1>5. /\ phase' \in [Caller -> Phase]
        /\ \A e \in Caller : phase'[e] \in InCall => left'[e] # {}
    BY <1>1 DEF TypeOK, BacksOff, Phase, InCall
  <1>6. /\ resting' \in [Model -> 0..UnavailableRest] /\ chain' \in [Caller -> Seq(Model)]
        /\ left' \in [Caller -> SUBSET Nat]
        /\ \A e \in Caller : left'[e] \subseteq DOMAIN chain'[e]
        /\ attempt' \in [Caller -> Nat \ {0}] /\ answered' \in [Caller -> Nat]
        /\ known' \in [Model -> 0..UnavailableRest] /\ excused' \in [Caller -> SUBSET Model]
    BY DEF TypeOK, BacksOff
  <1> QED BY <1>3, <1>4, <1>5, <1>6 DEF TypeOK

-----------------------------------------------------------------------------
\* Type correctness: every variable keeps its type in every reachable state,
\* and a call that goes on has a model left to ask.
THEOREM ChainTypeCorrect == Spec => []TypeOK
  <1>1. Init => TypeOK
    BY LLMServiceAssumption DEF Init, TypeOK, Phase, InCall
  <1>2. TypeOK /\ [Next]_vars => TypeOK'
    <2> SUFFICES ASSUME TypeOK, [Next]_vars PROVE TypeOK'
      OBVIOUS
    <2>1. CASE Tick
      BY <2>1, LLMServiceAssumption DEF TypeOK, Tick, Elapsed
    <2>2. ASSUME NEW c \in Caller, Answers(c) PROVE TypeOK'
      <3>1. answered' \in [Caller -> Nat]
        <4>1. PICK i \in left[c] : answered' = [answered EXCEPT ![c] = i]
          BY <2>2 DEF Answers
        <4>2. i \in Nat /\ answered \in [Caller -> Nat]
          BY DEF TypeOK
        <4> QED BY <4>1, <4>2
      <3>2. /\ phase' \in [Caller -> Phase]
            /\ \A e \in Caller : phase'[e] \in InCall => left'[e] # {}
        BY <2>2 DEF TypeOK, Answers, Phase, InCall
      <3> QED BY <2>2, <3>1, <3>2 DEF TypeOK, Answers
    <2>3. ASSUME NEW c \in Caller, Rejects(c) PROVE TypeOK'
      <3>1. failures' \in [Caller -> SUBSET Model]
        BY <2>3, FailureTyped DEF Rejects
      <3>2. /\ phase' \in [Caller -> Phase]
            /\ \A e \in Caller : phase'[e] \in InCall => left'[e] # {}
        BY <2>3 DEF TypeOK, Rejects, Phase, InCall
      <3> QED BY <2>3, <3>1, <3>2 DEF TypeOK, Rejects
    <2>4. ASSUME NEW c \in Caller, TurnsAway(c) PROVE TypeOK'
      <3>1. PICK i \in left[c] : StepDown(c, i, UnavailableRest)
        BY <2>4 DEF TurnsAway
      <3>2. UnavailableRest \in 0..UnavailableRest
        BY LLMServiceAssumption
      <3> QED BY <3>1, <3>2, StepDownTyped
    <2>5. ASSUME NEW c \in Caller, OutOfAttempts(c) PROVE TypeOK'
      <3>1. PICK i \in left[c] : StepDown(c, i, ExhaustedRest)
        BY <2>5 DEF OutOfAttempts
      <3> QED BY <3>1, LLMServiceAssumption, StepDownTyped
    <2>6. ASSUME NEW c \in Caller, Retries(c) PROVE TypeOK'
      <3>1. attempt' \in [Caller -> Nat \ {0}]
        <4>1. attempt \in [Caller -> Nat \ {0}] /\ attempt' = [attempt EXCEPT ![c] = @ + 1]
          BY <2>6 DEF TypeOK, Retries
        <4> QED BY <4>1
      <3>2. /\ phase' \in [Caller -> Phase]
            /\ \A e \in Caller : phase'[e] \in InCall => left'[e] # {}
        BY <2>6 DEF TypeOK, Retries, Phase, InCall
      <3> QED BY <2>6, <3>1, <3>2 DEF TypeOK, Retries
    <2>7. CASE UNCHANGED vars
      BY <2>7 DEF TypeOK, vars
    <2> QED
      BY <2>1, <2>2, <2>3, <2>4, <2>5, <2>6, <2>7, CallTyped, BacksOffTyped
      DEF Next, Proceeds
  <1> QED BY <1>1, <1>2, PTL DEF Spec

-----------------------------------------------------------------------------
\* The invariant behind the two properties about passing models over.

\* Whoever rests has stepped down within the longest rest.
RestsAreKnown == \A m \in Model : resting[m] <= known[m]

\* A position of the chain is still to be tried or was passed over for cause.
Accounted ==
    \A c \in Caller : \A j \in DOMAIN chain[c] :
        j \in left[c] \/ PassedOver(c, chain[c][j])

\* Giving up leaves nothing to try, and a failure to raise from.
GaveUp ==
    \A c \in Caller : phase[c] = "all failed" => left[c] = {} /\ failures[c] # {}

\* The position that answered is the first of those still to be tried.
AnsweredFirst ==
    \A c \in Caller : answered[c] # 0 =>
        /\ phase[c] = "answered"
        /\ answered[c] \in DOMAIN chain[c]
        /\ \A j \in left[c] : answered[c] <= j

ChainInv == TypeOK /\ RestsAreKnown /\ Accounted /\ GaveUp /\ AnsweredFirst

\* What the invariant is for.
LEMMA ChainInvSuffices == ChainInv => FallbackIsEarned /\ GivesUpForCause
  <1> SUFFICES ASSUME ChainInv PROVE FallbackIsEarned /\ GivesUpForCause
    OBVIOUS
  <1>1. FallbackIsEarned
    <2> SUFFICES ASSUME NEW c \in Caller, NEW j \in 1..answered[c] - 1
                 PROVE  PassedOver(c, chain[c][j])
      BY DEF FallbackIsEarned
    <2>1. answered[c] \in Nat /\ chain[c] \in Seq(Model)
      BY DEF ChainInv, TypeOK
    <2>2. answered[c] \in DOMAIN chain[c] /\ j \notin left[c]
      BY <2>1 DEF ChainInv, AnsweredFirst
    <2>3. j \in DOMAIN chain[c]
      BY <2>1, <2>2
    <2> QED BY <2>2, <2>3 DEF ChainInv, Accounted
  <1>2. GivesUpForCause
    BY DEF ChainInv, Accounted, GaveUp, GivesUpForCause
  <1> QED BY <1>1, <1>2

LEMMA CallKeepsInv ==
    ASSUME ChainInv, NEW c \in Caller, Call(c)
    PROVE  RestsAreKnown' /\ Accounted' /\ GaveUp' /\ AnsweredFirst'
  <1>1. PICK ch \in Chains : /\ chain' = [chain EXCEPT ![c] = ch]
                             /\ left' = [left EXCEPT ![c] = Ready(c, ch)]
    BY DEF Call
  <1>2. ch \in Seq(Model) \ {<<>>}
    BY LLMServiceAssumption
  <1>3. /\ chain'[c] = ch /\ left'[c] = Ready(c, ch)
        /\ excused'[c] = {m \in Model : known[m] > 0}
        /\ phase'[c] = "asking" /\ answered'[c] = 0
    BY <1>1 DEF ChainInv, TypeOK, Call
  <1>4. \A d \in Caller \ {c} : /\ chain'[d] = chain[d] /\ left'[d] = left[d]
                                /\ excused'[d] = excused[d] /\ failures'[d] = failures[d]
                                /\ phase'[d] = phase[d] /\ answered'[d] = answered[d]
    BY <1>1 DEF ChainInv, TypeOK, Call
  <1>5. RestsAreKnown'
    BY DEF ChainInv, RestsAreKnown, Call
  <1>6. \A j \in DOMAIN ch : j \in Ready(c, ch) \/ ch[j] \in excused'[c]
    <2> SUFFICES ASSUME NEW j \in DOMAIN ch, j \notin Ready(c, ch)
                 PROVE  ch[j] \in excused'[c]
      OBVIOUS
    <2>1. ch[j] \in Model
      BY <1>2
    <2>2. resting[ch[j]] # 0
      BY DEF Ready
    <2>3. resting[ch[j]] \in Nat /\ known[ch[j]] \in Nat
      BY <2>1, LLMServiceAssumption DEF ChainInv, TypeOK
    <2>4. known[ch[j]] > 0
      BY <2>1, <2>2, <2>3 DEF ChainInv, RestsAreKnown
    <2> QED BY <1>3, <2>1, <2>4
  <1>7. Accounted'
    BY <1>3, <1>4, <1>6 DEF ChainInv, Accounted, PassedOver
  <1>8. GaveUp'
    BY <1>3, <1>4 DEF ChainInv, GaveUp
  <1>9. AnsweredFirst'
    BY <1>3, <1>4 DEF ChainInv, AnsweredFirst
  <1> QED BY <1>5, <1>7, <1>8, <1>9

LEMMA AnswersKeepsInv ==
    ASSUME ChainInv, NEW c \in Caller, Answers(c)
    PROVE  RestsAreKnown' /\ Accounted' /\ GaveUp' /\ AnsweredFirst'
  <1>1. PICK i \in left[c] : Asking(c, i) /\ answered' = [answered EXCEPT ![c] = i]
    BY DEF Answers
  <1>2. /\ phase' = [phase EXCEPT ![c] = "answered"]
        /\ UNCHANGED <<resting, known, chain, left, failures, excused>>
    BY DEF Answers
  <1>3. RestsAreKnown' /\ Accounted'
    BY <1>2 DEF ChainInv, RestsAreKnown, Accounted, PassedOver
  <1>4. GaveUp'
    BY <1>2 DEF ChainInv, TypeOK, GaveUp
  <1>5. AnsweredFirst'
    BY <1>1, <1>2 DEF ChainInv, TypeOK, AnsweredFirst, Asking
  <1> QED BY <1>3, <1>4, <1>5

\* A call that goes on, or ends without an answer, has no answer to account for.
LEMMA NothingAnsweredInCall ==
    ASSUME ChainInv, NEW c \in Caller, phase[c] \in InCall
    PROVE  answered[c] = 0
  BY DEF ChainInv, AnsweredFirst, InCall

LEMMA StepDownKeepsInv ==
    ASSUME ChainInv, NEW c \in Caller, NEW i \in left[c],
           NEW seconds \in 0..UnavailableRest, StepDown(c, i, seconds)
    PROVE  RestsAreKnown' /\ Accounted' /\ GaveUp' /\ AnsweredFirst'
  <1> DEFINE m == chain[c][i]
  <1>1. m \in Model /\ phase[c] \in InCall
    BY AskedIsAModel DEF ChainInv, StepDown, Asking, InCall
  <1>2. /\ resting' = [resting EXCEPT ![m] = seconds]
        /\ known' = [known EXCEPT ![m] = UnavailableRest]
        /\ failures' = [failures EXCEPT ![c] = @ \cup {m}]
        /\ left' = [left EXCEPT ![c] = @ \ {i}]
        /\ phase' = [phase EXCEPT ![c] = IF left'[c] = {} THEN "all failed" ELSE "asking"]
        /\ UNCHANGED <<chain, answered, excused>>
    BY DEF StepDown, Rest, NextUp
  <1>3. /\ resting \in [Model -> 0..UnavailableRest] /\ known \in [Model -> 0..UnavailableRest]
        /\ failures \in [Caller -> SUBSET Model] /\ left \in [Caller -> SUBSET Nat]
        /\ phase \in [Caller -> Phase]
    BY DEF ChainInv, TypeOK
  <1>4. answered[c] = 0
    BY <1>1, NothingAnsweredInCall
  <1>5. RestsAreKnown'
    <2>1. seconds <= UnavailableRest
      BY LLMServiceAssumption
    <2>2. \A k \in Model : resting[k] <= known[k]
      BY DEF ChainInv, RestsAreKnown
    <2> HIDE DEF m
    <2>3. \A k \in Model : resting'[k] <= known'[k]
      BY <1>1, <1>2, <1>3, <2>1, <2>2
    <2> QED BY <2>3 DEF RestsAreKnown
  <1>6. Accounted'
    <2> SUFFICES ASSUME NEW d \in Caller, NEW j \in DOMAIN chain'[d], j \notin left'[d]
                 PROVE  PassedOver(d, chain[d][j])'
      BY <1>2 DEF Accounted
    <2>1. CASE d = c /\ j = i
      BY <1>2, <1>3, <2>1 DEF PassedOver
    <2>2. CASE ~(d = c /\ j = i)
      <3>1. j \notin left[d] /\ j \in DOMAIN chain[d]
        BY <1>2, <1>3, <2>2
      <3>2. PassedOver(d, chain[d][j])
        BY <3>1 DEF ChainInv, Accounted
      <3> QED BY <1>2, <1>3, <3>2 DEF PassedOver
    <2> QED BY <2>1, <2>2
  <1>7. GaveUp'
    BY <1>2, <1>3 DEF ChainInv, GaveUp
  <1>8. AnsweredFirst'
    BY <1>2, <1>3, <1>4 DEF ChainInv, AnsweredFirst
  <1> QED BY <1>5, <1>6, <1>7, <1>8

\* A step that moves one caller on, inside its call or out of it with an error,
\* and at most adds to its failures.
LEMMA MovingKeepsInv ==
    ASSUME ChainInv, NEW c \in Caller, phase[c] \in InCall,
           NEW p \in {"asking", "backing off", "raised"},
           phase' = [phase EXCEPT ![c] = p],
           \A d \in Caller : failures[d] \subseteq failures'[d],
           UNCHANGED <<resting, known, chain, left, answered, excused>>
    PROVE  RestsAreKnown' /\ Accounted' /\ GaveUp' /\ AnsweredFirst'
  <1>1. RestsAreKnown'
    BY DEF ChainInv, RestsAreKnown
  <1>2. Accounted'
    BY DEF ChainInv, Accounted, PassedOver
  <1>3. GaveUp'
    BY DEF ChainInv, TypeOK, GaveUp
  <1>4. AnsweredFirst'
    BY NothingAnsweredInCall DEF ChainInv, TypeOK, AnsweredFirst
  <1> QED BY <1>1, <1>2, <1>3, <1>4

\* Every rest is known, every position accounted for, in every reachable state.
THEOREM ChainInvariant == Spec => []ChainInv
  <1>1. Init => ChainInv
    <2> SUFFICES ASSUME Init PROVE ChainInv
      OBVIOUS
    <2>1. TypeOK
      BY LLMServiceAssumption DEF Init, TypeOK, Phase, InCall
    <2>2. RestsAreKnown /\ Accounted /\ GaveUp /\ AnsweredFirst
      BY DEF Init, RestsAreKnown, Accounted, GaveUp, AnsweredFirst
    <2> QED BY <2>1, <2>2 DEF ChainInv
  <1>2. ChainInv /\ TypeOK' /\ [Next]_vars => ChainInv'
    <2> SUFFICES ASSUME ChainInv, [Next]_vars
                 PROVE  RestsAreKnown' /\ Accounted' /\ GaveUp' /\ AnsweredFirst'
      BY DEF ChainInv
    <2>1. CASE Tick
      <3>1. RestsAreKnown'
        <4>1. \A m \in Model : resting[m] \in Nat /\ known[m] \in Nat /\ resting[m] <= known[m]
          BY LLMServiceAssumption DEF ChainInv, TypeOK, RestsAreKnown
        <4> QED BY <2>1, <4>1 DEF Tick, Elapsed, RestsAreKnown
      <3>2. Accounted' /\ GaveUp' /\ AnsweredFirst'
        BY <2>1 DEF Tick, ChainInv, Accounted, PassedOver, GaveUp, AnsweredFirst
      <3> QED BY <3>1, <3>2
    <2>2. ASSUME NEW c \in Caller, Rejects(c)
          PROVE  RestsAreKnown' /\ Accounted' /\ GaveUp' /\ AnsweredFirst'
      <3>1. phase[c] \in InCall /\ phase' = [phase EXCEPT ![c] = "raised"]
        BY <2>2 DEF Rejects, Asking, InCall
      <3>2. \A d \in Caller : failures[d] \subseteq failures'[d]
        BY <2>2 DEF Rejects, ChainInv, TypeOK
      <3> QED BY <2>2, <3>1, <3>2, MovingKeepsInv DEF Rejects
    <2>3. ASSUME NEW c \in Caller, BacksOff(c)
          PROVE  RestsAreKnown' /\ Accounted' /\ GaveUp' /\ AnsweredFirst'
      <3>1. phase[c] \in InCall /\ phase' = [phase EXCEPT ![c] = "backing off"]
        BY <2>3 DEF BacksOff, Asking, InCall
      <3>2. \A d \in Caller : failures[d] \subseteq failures'[d]
        BY <2>3 DEF BacksOff, ChainInv, TypeOK
      <3> QED BY <2>3, <3>1, <3>2, MovingKeepsInv DEF BacksOff
    <2>4. ASSUME NEW c \in Caller, Retries(c)
          PROVE  RestsAreKnown' /\ Accounted' /\ GaveUp' /\ AnsweredFirst'
      <3>1. phase[c] \in InCall /\ phase' = [phase EXCEPT ![c] = "asking"]
        BY <2>4 DEF Retries, InCall
      <3> QED BY <2>4, <3>1, MovingKeepsInv DEF Retries
    <2>5. ASSUME NEW c \in Caller, TurnsAway(c)
          PROVE  RestsAreKnown' /\ Accounted' /\ GaveUp' /\ AnsweredFirst'
      <3>1. PICK i \in left[c] : StepDown(c, i, UnavailableRest)
        BY <2>5 DEF TurnsAway
      <3>2. UnavailableRest \in 0..UnavailableRest
        BY LLMServiceAssumption
      <3> QED BY <3>1, <3>2, StepDownKeepsInv
    <2>6. ASSUME NEW c \in Caller, OutOfAttempts(c)
          PROVE  RestsAreKnown' /\ Accounted' /\ GaveUp' /\ AnsweredFirst'
      <3>1. PICK i \in left[c] : StepDown(c, i, ExhaustedRest)
        BY <2>6 DEF OutOfAttempts
      <3> QED BY <3>1, LLMServiceAssumption, StepDownKeepsInv
    <2>7. CASE UNCHANGED vars
      BY <2>7 DEF vars, ChainInv, RestsAreKnown, Accounted, PassedOver, GaveUp, AnsweredFirst
    <2> QED
      BY <2>1, <2>2, <2>3, <2>4, <2>5, <2>6, <2>7, CallKeepsInv, AnswersKeepsInv
      DEF Next, Proceeds
  <1> QED BY <1>1, <1>2, ChainTypeCorrect, PTL DEF Spec

\* A model above the one that answers was passed over for cause.
THEOREM FallbackEarned == Spec => []FallbackIsEarned
  <1> QED BY ChainInvariant, ChainInvSuffices, PTL

\* chat gives up only when every model was passed over for cause, and has a
\* failure to raise from.
THEOREM GivingUp == Spec => []GivesUpForCause
  <1> QED BY ChainInvariant, ChainInvSuffices, PTL
=============================================================================
