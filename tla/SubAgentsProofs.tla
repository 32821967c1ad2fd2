-------------------------- MODULE SubAgentsProofs ---------------------------
(***************************************************************************)
(* Theorems about the SubAgents of a session, for any number of runs, any  *)
(* specs and limits, and any size of the pool.                             *)
(***************************************************************************)
EXTENDS SubAgents, EventLogProofs

-----------------------------------------------------------------------------
\* The family of runs

\* Runs are begun in order, each below one that was begun before it, a level
\* deeper and no deeper than its spec allows.
Family ==
    /\ phase[1] \notin {"new", "queued"}
    /\ \A c, d \in Run : phase[c] = "new" /\ c < d => phase[d] = "new"
    /\ \A c \in Run : phase[c] = "new" \/ c = 1 => spec[c] = NoSpec
    /\ \A c \in Run : phase[c] = "new" => turn[c] = 0
    /\ \A c \in Run \ {1} : phase[c] # "new" =>
          /\ spec[c].parent \in 1..c - 1 /\ phase[spec[c].parent] # "new"
          /\ spec[c].depth = spec[spec[c].parent].depth + 1
          /\ spec[c].name \in Call /\ spec[c].depth <= MaxDepth[spec[c].name]

\* Nobody waits twice.
InLine == \A i, j \in 1..Len(queue) : queue[i] = queue[j] => i = j

\* TypeOK but for the log.
Shaped ==
    /\ phase \in [Run -> Phase]
    /\ turn \in [Run -> Nat]
    /\ \A r \in Run : turn[r] <= MaxTurns[spec[r].name]
    /\ spec \in [Run -> Origin]
    /\ tickets \in [Run -> Seq(0..Runs + 1)]
    /\ queue \in Seq(Run)
    /\ \A c \in Run : c \in Range(queue) <=> phase[c] = "queued"

LEMMA RunFacts ==
    /\ Runs \in Nat \ {0} /\ 1 \in Run /\ \A r \in Run : r \in Nat /\ 1 <= r /\ r <= Runs
    /\ Open \in 0..Runs + 1 /\ Refused \in 0..Runs + 1 /\ \A r \in Run : r \in 0..Runs + 1
  <1>1. Runs \in Nat \ {0}
    <2>1. Runs \in Nat
      BY EventLogAssumption
    <2>2. Runs # 0
      BY SubAgentsAssumption
    <2> QED BY <2>1, <2>2
  <1> QED BY <1>1 DEF Run, Open, Refused

LEMMA OriginFields ==
    ASSUME spec \in [Run -> Origin], NEW r \in Run
    PROVE  /\ spec[r].name \in Call \cup {Top} /\ spec[r].mode \in Mode
           /\ spec[r].parent \in Run \cup {0} /\ spec[r].depth \in Nat
  <1>1. spec[r] \in Origin
    OBVIOUS
  <1> QED BY <1>1 DEF Origin

LEMMA NoSpecFields ==
    /\ NoSpec \in Origin
    /\ NoSpec.depth = 0 /\ NoSpec.parent = 0 /\ NoSpec.name = Top /\ NoSpec.mode = "blocking"
  BY DEF NoSpec, Origin, Mode

\* Only the run of the session stands at depth 0.
LEMMA Depths ==
    ASSUME Shaped, Family, NEW r \in Run, phase[r] # "new"
    PROVE  /\ spec[r].depth = 0 <=> r = 1
           /\ r # 1 => spec[r].parent \in Run /\ spec[r].parent < r
                       /\ phase[spec[r].parent] # "new"
                       /\ spec[r].depth = spec[spec[r].parent].depth + 1
                       /\ spec[r].name \in Call /\ spec[r].depth <= MaxDepth[spec[r].name]
  <1>1. CASE r = 1
    BY <1>1, RunFacts, NoSpecFields DEF Family
  <1>2. CASE r # 1
    <2>1. /\ spec[r].parent \in 1..r - 1 /\ phase[spec[r].parent] # "new"
          /\ spec[r].depth = spec[spec[r].parent].depth + 1
          /\ spec[r].name \in Call /\ spec[r].depth <= MaxDepth[spec[r].name]
      BY <1>2 DEF Family
    <2>2. r \in Nat /\ r <= Runs /\ Runs \in Nat
      BY RunFacts
    <2>3. spec[r].parent \in Run /\ spec[r].parent < r
      BY <2>1, <2>2 DEF Run
    <2>4. spec[spec[r].parent].depth \in Nat
      BY <2>3, OriginFields DEF Shaped
    <2>5. spec[r].depth # 0
      BY <2>1, <2>4
    <2> QED BY <1>2, <2>1, <2>3, <2>5
  <1> QED BY <1>1, <1>2

\* What a spawn changes: the next run in line, and nothing of the others.
LEMMA Spawned ==
    ASSUME Shaped, Family, NEW r \in Run, phase[r] # "new", NEW name \in Call,
           NEW mode \in Mode, NEW c \in Run, Spawn(r, name, mode, c)
    PROVE  /\ phase[c] = "new" /\ c # 1 /\ r < c /\ c # r
           /\ spec' \in [Run -> Origin]
           /\ spec'[c].name = name /\ spec'[c].mode = mode /\ spec'[c].parent = r
           /\ spec'[c].depth = spec[r].depth + 1 /\ spec'[c].depth <= MaxDepth[name]
           /\ \A q \in Run \ {c} : spec'[q] = spec[q]
           /\ \A q \in Run : phase[q] = "new" => c <= q
  <1>1. /\ phase[c] = "new" /\ \A q \in Run : phase[q] = "new" => c <= q
        /\ ~(spec[r].depth >= MaxDepth[name])
    BY DEF Spawn, Fresh, TooDeep
  <1>2. c # 1 /\ c # r
    BY <1>1 DEF Family
  <1>3. r < c
    <2>1. r \in Nat /\ c \in Nat
      BY RunFacts
    <2>2. ~(c < r)
      BY <1>1 DEF Family
    <2> QED BY <1>2, <2>1, <2>2
  <1>4. spec[r].depth \in Nat /\ MaxDepth[name] \in Nat
    BY OriginFields, SubAgentsAssumption DEF Shaped
  <1> DEFINE o == [name |-> name, mode |-> mode, parent |-> r, depth |-> spec[r].depth + 1]
  <1>5. spec' = [spec EXCEPT ![c] = o]
    BY DEF Spawn
  <1>6. /\ o \in Origin
        /\ o.name = name /\ o.mode = mode /\ o.parent = r /\ o.depth = spec[r].depth + 1
    BY <1>4 DEF Origin
  <1> HIDE DEF o
  <1>7. /\ spec' \in [Run -> Origin] /\ spec'[c] = o
        /\ \A q \in Run \ {c} : spec'[q] = spec[q]
    BY <1>5, <1>6 DEF Shaped
  <1>8. spec[r].depth + 1 <= MaxDepth[name]
    BY <1>1, <1>4
  <1> QED BY <1>1, <1>2, <1>3, <1>6, <1>7, <1>8

-----------------------------------------------------------------------------
\* The batch in hand

BatchAt(s, r) == LastOf({i \in DOMAIN s : s[i].run = r /\ s[i].calls # <<>>})

InHand == \A r \in Run : phase[r] = "tools" =>
             /\ BatchAt(log, r) # 0
             /\ Len(tickets[r]) = Len(log[BatchAt(log, r)].calls)

LEMMA BatchAtFacts ==
    ASSUME NEW s \in Seq(Event), NEW r
    PROVE  /\ BatchAt(s, r) \in 0..Len(s)
           /\ BatchAt(s, r) # 0 => s[BatchAt(s, r)].run = r /\ s[BatchAt(s, r)].calls # <<>>
           /\ \A i \in 1..Len(s) : s[i].run = r /\ s[i].calls # <<>> => i <= BatchAt(s, r)
  <1> DEFINE S == {i \in DOMAIN s : s[i].run = r /\ s[i].calls # <<>>}
  <1>1. S \subseteq 1..Len(s) /\ Len(s) \in Nat /\ DOMAIN s = 1..Len(s)
    OBVIOUS
  <1>2. /\ LastOf(S) \in 0..Len(s) /\ (LastOf(S) # 0 => LastOf(S) \in S)
        /\ \A i \in S : i <= LastOf(S)
    <2> HIDE DEF S
    <2> QED BY <1>1, LastOfFacts
  <1>3. BatchAt(s, r) = LastOf(S)
    BY DEF BatchAt
  <1> QED BY <1>1, <1>2, <1>3

\* The last of a run's batches is the one nothing of its kind comes after.
LEMMA BatchAtIs ==
    ASSUME NEW s \in Seq(Event), NEW r, NEW p \in 1..Len(s), s[p].run = r, s[p].calls # <<>>,
           \A i \in 1..Len(s) : p < i => ~(s[i].run = r /\ s[i].calls # <<>>)
    PROVE  BatchAt(s, r) = p
  <1>1. /\ BatchAt(s, r) \in 0..Len(s) /\ p <= BatchAt(s, r)
        /\ BatchAt(s, r) # 0 => s[BatchAt(s, r)].run = r /\ s[BatchAt(s, r)].calls # <<>>
    BY BatchAtFacts
  <1>2. BatchAt(s, r) \in 1..Len(s)
    BY <1>1
  <1>3. ~(p < BatchAt(s, r))
    BY <1>1, <1>2
  <1> QED BY <1>1, <1>3

LEMMA BatchStays ==
    ASSUME NEW s \in Seq(Event), NEW t \in Seq(Event), Extends(s, t), NEW r,
           \A i \in Len(s) + 1..Len(t) : ~(t[i].run = r /\ t[i].calls # <<>>),
           BatchAt(s, r) # 0
    PROVE  BatchAt(t, r) = BatchAt(s, r) /\ t[BatchAt(s, r)] = s[BatchAt(s, r)]
  <1> DEFINE p == BatchAt(s, r)
  <1>1. /\ p \in 1..Len(s) /\ s[p].run = r /\ s[p].calls # <<>>
        /\ \A i \in 1..Len(s) : s[i].run = r /\ s[i].calls # <<>> => i <= p
    BY BatchAtFacts
  <1> HIDE DEF p
  <1>2. p \in 1..Len(t) /\ t[p] = s[p]
    BY <1>1 DEF Extends
  <1>3. ASSUME NEW i \in 1..Len(t), p < i PROVE ~(t[i].run = r /\ t[i].calls # <<>>)
    <2>1. CASE i \in 1..Len(s) /\ t[i] = s[i]
      BY <1>1, <1>3, <2>1
    <2>2. CASE i \in Len(s) + 1..Len(t)
      BY <2>2
    <2> QED BY <2>1, <2>2, InTwoParts
  <1>4. BatchAt(t, r) = p
    BY <1>1, <1>2, <1>3, BatchAtIs
  <1> QED BY <1>2, <1>4 DEF p

LEMMA CallsInHand ==
    ASSUME log \in Seq(Event), Shaped, InHand, NEW r \in Run, phase[r] = "tools"
    PROVE  /\ BatchAt(log, r) \in 1..Len(log) /\ log[BatchAt(log, r)].run = r
           /\ Batch(r) = log[BatchAt(log, r)].calls
           /\ Batch(r) \in Seq(Call) /\ Batch(r) # <<>>
           /\ Len(tickets[r]) \in Nat /\ Len(Batch(r)) = Len(tickets[r])
           /\ DOMAIN tickets[r] = 1..Len(tickets[r])
           /\ \A i \in DOMAIN tickets[r] : Batch(r)[i] \in Call
  <1>1. Batch(r) = log[BatchAt(log, r)].calls
    BY DEF Batch, BatchAt
  <1>2. /\ BatchAt(log, r) \in 1..Len(log) /\ log[BatchAt(log, r)].run = r
        /\ log[BatchAt(log, r)].calls # <<>>
        /\ Len(tickets[r]) = Len(log[BatchAt(log, r)].calls)
    <2>1. BatchAt(log, r) # 0 /\ Len(tickets[r]) = Len(log[BatchAt(log, r)].calls)
      BY DEF InHand
    <2> QED BY <2>1, BatchAtFacts
  <1>3. log[BatchAt(log, r)].calls \in Seq(Call)
    BY <1>2, EventFields
  <1>4. tickets[r] \in Seq(0..Runs + 1)
    BY DEF Shaped
  <1>5. Len(tickets[r]) \in Nat /\ DOMAIN tickets[r] = 1..Len(tickets[r])
    BY <1>4
  <1>6. \A i \in DOMAIN tickets[r] : Batch(r)[i] \in Call
    BY <1>1, <1>2, <1>3, <1>5
  <1> QED BY <1>1, <1>2, <1>3, <1>5, <1>6

-----------------------------------------------------------------------------
\* The steps keep the family

LEMMA MovedFamily ==
    ASSUME Shaped, Family, InLine, NEW r \in Run, NEW p \in Phase \ {"new", "queued"},
           phase[r] \notin {"new", "queued"}, phase' = [phase EXCEPT ![r] = p],
           UNCHANGED <<spec, queue>>, turn' = turn, tickets' \in [Run -> Seq(0..Runs + 1)]
    PROVE  Shaped' /\ Family' /\ InLine'
  <1>1. phase \in [Run -> Phase]
    BY DEF Shaped
  <1>2. /\ phase' \in [Run -> Phase]
        /\ \A q \in Run : phase'[q] = "new" <=> phase[q] = "new"
        /\ \A q \in Run : phase'[q] = "queued" <=> phase[q] = "queued"
    BY <1>1
  <1>3. Shaped'
    BY <1>2 DEF Shaped
  <1>4. Family'
    <2>1. 1 \in Run
      BY RunFacts
    <2>2. \A c \in Run \ {1} : phase[c] # "new" => spec[c].parent \in Run
      BY Depths
    <2> QED BY <1>2, <2>1, <2>2 DEF Family
  <1> QED BY <1>3, <1>4 DEF InLine

\* A run that asks the model: nothing moves but it and its turn.
LEMMA AsksFamily ==
    ASSUME Shaped, Family, InLine, NEW r \in Run, AsksModel(r)
    PROVE  Shaped' /\ Family' /\ InLine'
  <1>1. /\ phase[r] = "before_model" /\ turn[r] < MaxTurns[spec[r].name]
        /\ turn' = [turn EXCEPT ![r] = @ + 1]
        /\ phase' = [phase EXCEPT ![r] = "model"]
        /\ UNCHANGED <<log, spec, tickets, queue>>
    BY DEF AsksModel
  <1>2. phase \in [Run -> Phase] /\ turn \in [Run -> Nat]
    BY DEF Shaped
  <1>3. /\ phase' \in [Run -> Phase]
        /\ \A q \in Run : phase'[q] = "new" <=> phase[q] = "new"
        /\ \A q \in Run : phase'[q] = "queued" <=> phase[q] = "queued"
    BY <1>1, <1>2 DEF Phase
  <1>4. MaxTurns[spec[r].name] \in Nat
    <2>1. spec[r].name \in Call \cup {Top}
      BY OriginFields DEF Shaped
    <2>2. MaxTurns \in [Call \cup {Top} -> Nat \ {0}]
      BY SubAgentsAssumption
    <2> QED BY <2>1, <2>2
  <1>5. /\ turn' \in [Run -> Nat] /\ turn'[r] <= MaxTurns[spec[r].name]
        /\ \A q \in Run \ {r} : turn'[q] = turn[q]
    BY <1>1, <1>2, <1>4
  <1>6. Shaped'
    <2>1. \A q \in Run : turn'[q] <= MaxTurns[spec'[q].name]
      BY <1>1, <1>5 DEF Shaped
    <2> QED BY <1>1, <1>3, <1>5, <2>1 DEF Shaped
  <1>7. Family'
    <2>1. 1 \in Run
      BY RunFacts
    <2>2. \A c \in Run \ {1} : phase[c] # "new" => spec[c].parent \in Run
      BY Depths
    <2> QED BY <1>1, <1>3, <1>5, <2>1, <2>2 DEF Family
  <1> QED BY <1>1, <1>6, <1>7 DEF InLine

\* A spawn, whatever becomes of the run that is begun.
LEMMA SpawnedFamily ==
    ASSUME Shaped, Family, NEW r \in Run, phase[r] # "new", NEW name \in Call,
           NEW mode \in Mode, NEW c \in Run, Spawn(r, name, mode, c),
           NEW p \in Phase \ {"new"}, phase' = [phase EXCEPT ![c] = p], turn' = turn
    PROVE  /\ Family' /\ spec' \in [Run -> Origin] /\ phase' \in [Run -> Phase]
           /\ \A q \in Run : turn'[q] <= MaxTurns[spec'[q].name]
  <1>1. /\ phase[c] = "new" /\ c # 1 /\ r < c /\ c # r
        /\ spec' \in [Run -> Origin]
        /\ spec'[c].name = name /\ spec'[c].mode = mode /\ spec'[c].parent = r
        /\ spec'[c].depth = spec[r].depth + 1 /\ spec'[c].depth <= MaxDepth[name]
        /\ \A q \in Run \ {c} : spec'[q] = spec[q]
        /\ \A q \in Run : phase[q] = "new" => c <= q
    BY Spawned
  <1>2. phase \in [Run -> Phase]
    BY DEF Shaped
  <1>3. /\ phase' \in [Run -> Phase] /\ phase'[c] = p
        /\ \A q \in Run \ {c} : phase'[q] = phase[q]
    BY <1>2
  <1>4. \A q \in Run : q \in Nat
    BY RunFacts
  <1>5. \A q \in Run : turn'[q] <= MaxTurns[spec'[q].name]
    <2>1. turn[c] = 0
      BY <1>1 DEF Family
    <2>2. MaxTurns[name] \in Nat
      <3>1. MaxTurns \in [Call \cup {Top} -> Nat \ {0}]
        BY SubAgentsAssumption
      <3> QED BY <3>1
    <2>3. turn'[c] <= MaxTurns[spec'[c].name]
      BY <1>1, <2>1, <2>2
    <2>4. \A q \in Run \ {c} : turn'[q] <= MaxTurns[spec'[q].name]
      BY <1>1 DEF Shaped
    <2> QED BY <2>3, <2>4
  <1>6. phase'[1] \notin {"new", "queued"}
    BY <1>1, <1>3, RunFacts DEF Family
  <1>7. ASSUME NEW a \in Run, NEW b \in Run, phase'[a] = "new", a < b PROVE phase'[b] = "new"
    <2>1. a # c /\ phase[a] = "new"
      BY <1>3, <1>7
    <2>2. c <= a /\ b # c
      BY <1>1, <1>4, <1>7, <2>1
    <2> QED BY <1>3, <1>7, <2>1, <2>2 DEF Family
  <1>8. ASSUME NEW q \in Run, phase'[q] = "new" \/ q = 1 PROVE spec'[q] = NoSpec
    BY <1>1, <1>3, <1>8 DEF Family
  <1>9. ASSUME NEW q \in Run, phase'[q] = "new" PROVE turn'[q] = 0
    BY <1>3, <1>9 DEF Family
  <1>10. ASSUME NEW q \in Run \ {1}, phase'[q] # "new"
         PROVE  /\ spec'[q].parent \in 1..q - 1 /\ phase'[spec'[q].parent] # "new"
                /\ spec'[q].depth = spec'[spec'[q].parent].depth + 1
                /\ spec'[q].name \in Call /\ spec'[q].depth <= MaxDepth[spec'[q].name]
    <2>1. CASE q = c
      <3>1. r \in 1..c - 1
        BY <1>1, <1>4, RunFacts
      <3> QED BY <1>1, <1>3, <2>1, <3>1
    <2>2. CASE q # c
      <3>1. /\ spec[q].parent \in 1..q - 1 /\ phase[spec[q].parent] # "new"
            /\ spec[q].depth = spec[spec[q].parent].depth + 1
            /\ spec[q].name \in Call /\ spec[q].depth <= MaxDepth[spec[q].name]
        BY <1>3, <1>10, <2>2 DEF Family
      <3>2. spec[q].parent \in Run
        BY <1>3, <1>10, <2>2, Depths
      <3>3. spec[q].parent # c
        BY <1>1, <3>1
      <3> QED BY <1>1, <1>3, <2>2, <3>1, <3>2, <3>3
    <2> QED BY <2>1, <2>2
  <1> QED BY <1>1, <1>3, <1>5, <1>6, <1>7, <1>8, <1>9, <1>10 DEF Family

LEMMA QueueFacts ==
    ASSUME NEW S, NEW q \in Seq(S)
    PROVE  /\ Len(q) \in Nat /\ DOMAIN q = 1..Len(q)
           /\ \A x : x \in Range(q) <=> \E i \in 1..Len(q) : q[i] = x
  <1>1. Len(q) \in Nat /\ DOMAIN q = 1..Len(q)
    OBVIOUS
  <1> QED BY <1>1 DEF Range

LEMMA SpawnsAsideFamily ==
    ASSUME Shaped, Family, InLine, NEW r \in Run, SpawnsAside(r)
    PROVE  Shaped' /\ Family' /\ InLine'
  <1>1. phase[r] = "before_model" /\ tickets' = tickets /\ turn' = turn
    BY DEF SpawnsAside
  <1>2. PICK a \in Aside, c \in Run :
            /\ Spawn(r, a[1], a[2], c)
            /\ phase' = [phase EXCEPT ![c] = "queued"]
            /\ queue' = Append(queue, c)
    BY DEF SpawnsAside
  <1>3. a[1] \in Call /\ a[2] \in Mode
    BY SubAgentsAssumption DEF Mode
  <1>4. phase[c] = "new"
    BY <1>1, <1>2, <1>3, Spawned
  <1>5. /\ Family' /\ spec' \in [Run -> Origin] /\ phase' \in [Run -> Phase]
        /\ \A q \in Run : turn'[q] <= MaxTurns[spec'[q].name]
    <2>1. "queued" \in Phase \ {"new"}
      BY DEF Phase
    <2> QED BY <1>1, <1>2, <1>3, <2>1, SpawnedFamily
  <1>6. /\ queue \in Seq(Run) /\ phase \in [Run -> Phase]
        /\ \A q \in Run : q \in Range(queue) <=> phase[q] = "queued"
    BY DEF Shaped
  <1>7. /\ queue' \in Seq(Run) /\ Len(queue') = Len(queue) + 1 /\ Len(queue) \in Nat
        /\ \A i \in 1..Len(queue) : queue'[i] = queue[i]
        /\ queue'[Len(queue) + 1] = c
    BY <1>2, <1>6
  <1>8. \A i \in 1..Len(queue) : queue[i] \in Run /\ phase[queue[i]] = "queued"
    <2>1. \A i \in 1..Len(queue) : queue[i] \in Run /\ queue[i] \in Range(queue)
      BY <1>6, QueueFacts
    <2> QED BY <1>6, <2>1
  <1>9. InLine'
    <2> SUFFICES ASSUME NEW i \in 1..Len(queue'), NEW j \in 1..Len(queue'), queue'[i] = queue'[j]
                 PROVE  i = j
      BY DEF InLine
    <2>1. i \in 1..Len(queue) \/ i = Len(queue) + 1
      BY <1>7
    <2>2. j \in 1..Len(queue) \/ j = Len(queue) + 1
      BY <1>7
    <2> QED BY <1>4, <1>7, <1>8, <2>1, <2>2 DEF InLine
  <1>10. ASSUME NEW q \in Run PROVE q \in Range(queue') <=> phase'[q] = "queued"
    <2>1. q \in Range(queue') <=> \E i \in 1..Len(queue') : queue'[i] = q
      BY <1>7, QueueFacts
    <2>2. q \in Range(queue) <=> \E i \in 1..Len(queue) : queue[i] = q
      BY <1>6, QueueFacts
    <2>3. q \in Range(queue') <=> q = c \/ q \in Range(queue)
      <3>1. \A i \in 1..Len(queue') : i \in 1..Len(queue) \/ i = Len(queue) + 1
        BY <1>7
      <3>2. Len(queue) + 1 \in 1..Len(queue') /\ \A i \in 1..Len(queue) : i \in 1..Len(queue')
        BY <1>7
      <3> QED BY <1>7, <2>1, <2>2, <3>1, <3>2
    <2>4. phase'[q] = IF q = c THEN "queued" ELSE phase[q]
      BY <1>2, <1>6
    <2> QED BY <1>4, <1>6, <2>3, <2>4
  <1>11. tickets' \in [Run -> Seq(0..Runs + 1)] /\ turn' \in [Run -> Nat]
    BY <1>1 DEF Shaped
  <1> QED BY <1>5, <1>7, <1>9, <1>10, <1>11 DEF Shaped

LEMMA DelegatesFamily ==
    ASSUME Shaped, Family, InLine, log \in Seq(Event), InHand, NEW r \in Run,
           NEW i \in DOMAIN tickets[r], Delegates(r, i)
    PROVE  Shaped' /\ Family' /\ InLine'
  <1>1. phase[r] = "tools" /\ turn' = turn /\ queue' = queue
    BY DEF Delegates
  <1>2. PICK c \in Run : /\ Spawn(r, Batch(r)[i], "blocking", c)
                        /\ phase' = [phase EXCEPT ![c] = "before_model"]
                        /\ tickets' = [tickets EXCEPT ![r][i] = c]
    BY DEF Delegates
  <1>3. Batch(r)[i] \in Call /\ "blocking" \in Mode
    BY <1>1, CallsInHand DEF Mode
  <1>4. phase[c] = "new"
    BY <1>1, <1>2, <1>3, Spawned
  <1>5. /\ Family' /\ spec' \in [Run -> Origin] /\ phase' \in [Run -> Phase]
        /\ \A q \in Run : turn'[q] <= MaxTurns[spec'[q].name]
    <2>1. "before_model" \in Phase \ {"new"}
      BY DEF Phase
    <2> QED BY <1>1, <1>2, <1>3, <2>1, SpawnedFamily
  <1>6. tickets' \in [Run -> Seq(0..Runs + 1)]
    <2>1. tickets[r] \in Seq(0..Runs + 1) /\ c \in 0..Runs + 1
      BY RunFacts DEF Shaped
    <2>2. [tickets[r] EXCEPT ![i] = c] \in Seq(0..Runs + 1)
      BY <2>1
    <2> QED BY <1>2, <2>2 DEF Shaped
  <1>7. \A q \in Run : q \in Range(queue) <=> phase'[q] = "queued"
    BY <1>2, <1>4 DEF Shaped
  <1> QED BY <1>1, <1>5, <1>6, <1>7 DEF Shaped, InLine

LEMMA StartsPooledFamily ==
    ASSUME Shaped, Family, InLine, NEW c \in Run, StartsPooled(c)
    PROVE  /\ Shaped' /\ Family' /\ InLine'
           /\ phase[c] = "queued" /\ c # 1
  <1>1. /\ queue # <<>> /\ Head(queue) = c /\ queue' = Tail(queue)
        /\ phase' = [phase EXCEPT ![c] = "before_model"]
        /\ UNCHANGED <<turn, spec, tickets>>
    BY DEF StartsPooled
  <1>2. /\ queue \in Seq(Run) /\ phase \in [Run -> Phase]
        /\ \A q \in Run : q \in Range(queue) <=> phase[q] = "queued"
    BY DEF Shaped
  <1>3. Len(queue) \in Nat /\ Len(queue) # 0 /\ queue[1] = c
    BY <1>1, <1>2
  <1>4. phase[c] = "queued"
    <2>1. 1 \in 1..Len(queue)
      BY <1>3
    <2> QED BY <1>2, <1>3, <2>1, QueueFacts
  <1>5. c # 1
    BY <1>4 DEF Family
  <1>6. /\ queue' \in Seq(Run) /\ Len(queue') = Len(queue) - 1
        /\ \A i \in 1..Len(queue') : queue'[i] = queue[i + 1]
    BY <1>1, <1>2, <1>3
  <1>7. InLine'
    <2> SUFFICES ASSUME NEW i \in 1..Len(queue'), NEW j \in 1..Len(queue'), queue'[i] = queue'[j]
                 PROVE  i = j
      BY DEF InLine
    <2>1. i + 1 \in 1..Len(queue) /\ j + 1 \in 1..Len(queue)
      BY <1>3, <1>6
    <2>2. queue[i + 1] = queue[j + 1]
      BY <1>6
    <2>3. i + 1 = j + 1
      BY <2>1, <2>2 DEF InLine
    <2> QED BY <2>3
  <1>8. ASSUME NEW q \in Run PROVE q \in Range(queue') <=> phase'[q] = "queued"
    <2>1. q \in Range(queue') <=> \E i \in 1..Len(queue') : queue'[i] = q
      BY <1>6, QueueFacts
    <2>2. q \in Range(queue) <=> \E i \in 1..Len(queue) : queue[i] = q
      BY <1>2, QueueFacts
    <2>3. q \in Range(queue') <=> q # c /\ q \in Range(queue)
      <3>1. ASSUME NEW i \in 1..Len(queue'), queue'[i] = q PROVE q # c /\ q \in Range(queue)
        <4>1. i + 1 \in 1..Len(queue) /\ i + 1 # 1 /\ 1 \in 1..Len(queue) /\ queue[i + 1] = q
          BY <1>3, <1>6, <3>1
        <4>2. q # c
          BY <1>3, <4>1 DEF InLine
        <4> QED BY <2>2, <4>1, <4>2
      <3>2. ASSUME q # c, q \in Range(queue) PROVE \E i \in 1..Len(queue') : queue'[i] = q
        <4>1. PICK i \in 1..Len(queue) : queue[i] = q
          BY <2>2, <3>2
        <4>2. i # 1
          BY <1>3, <3>2, <4>1
        <4>3. i - 1 \in 1..Len(queue') /\ (i - 1) + 1 = i
          BY <1>3, <1>6, <4>2
        <4>4. queue'[i - 1] = q
          BY <1>6, <4>1, <4>3
        <4> QED BY <4>3, <4>4
      <3> QED BY <2>1, <3>1, <3>2
    <2>4. phase'[q] = IF q = c THEN "before_model" ELSE phase[q]
      BY <1>1, <1>2
    <2> QED BY <1>2, <2>3, <2>4
  <1>9. phase' \in [Run -> Phase] /\ \A q \in Run : phase'[q] = "new" <=> phase[q] = "new"
    BY <1>1, <1>2, <1>4 DEF Phase
  <1>10. Shaped'
    BY <1>1, <1>6, <1>8, <1>9 DEF Shaped
  <1>11. Family'
    <2>1. 1 \in Run /\ phase'[1] = phase[1]
      BY <1>1, <1>2, <1>5, RunFacts
    <2>2. \A q \in Run \ {1} : phase[q] # "new" => spec[q].parent \in Run
      BY Depths
    <2> QED BY <1>1, <1>9, <2>1, <2>2 DEF Family
  <1> QED BY <1>4, <1>5, <1>7, <1>10, <1>11

LEMMA FamilyStep ==
    ASSUME Shaped, Family, InLine, log \in Seq(Event), InHand, NEW r \in Run,
           SpawnsAside(r) \/ StartsPooled(r) \/ RunNext(r)
    PROVE  Shaped' /\ Family' /\ InLine'
  <1>1. tickets \in [Run -> Seq(0..Runs + 1)]
    BY DEF Shaped
  <1>2. CASE RunsOut(r) \/ ModelFails(r)
    <2>1. /\ phase[r] \in {"before_model", "model"}
          /\ phase' = [phase EXCEPT ![r] = "failed"] /\ UNCHANGED <<turn, spec, tickets, queue>>
      BY <1>2 DEF RunsOut, ModelFails, Fails
    <2>2. "failed" \in Phase \ {"new", "queued"}
      BY DEF Phase
    <2> QED BY <1>1, <2>1, <2>2, MovedFamily
  <1>3. CASE ModelAnswers(r)
    <2>1. /\ phase[r] = "model" /\ phase' = [phase EXCEPT ![r] = "on_model_stop"]
          /\ UNCHANGED <<turn, spec, tickets, queue>>
      BY <1>3 DEF ModelAnswers
    <2>2. "on_model_stop" \in Phase \ {"new", "queued"}
      BY DEF Phase
    <2> QED BY <1>1, <2>1, <2>2, MovedFamily
  <1>4. CASE ModelDelegates(r)
    <2>1. /\ phase[r] = "model" /\ phase' = [phase EXCEPT ![r] = "tools"]
          /\ UNCHANGED <<turn, spec, queue>>
      BY <1>4 DEF ModelDelegates
    <2>2. PICK batch \in Batches : tickets' = [tickets EXCEPT ![r] = [i \in DOMAIN batch |-> Open]]
      BY <1>4 DEF ModelDelegates
    <2>3. batch \in Seq(Call)
      BY SubAgentsAssumption
    <2>4. [i \in DOMAIN batch |-> Open] \in Seq(0..Runs + 1)
      BY <2>3, RunFacts
    <2>5. tickets' \in [Run -> Seq(0..Runs + 1)]
      BY <1>1, <2>2, <2>4
    <2>6. "tools" \in Phase \ {"new", "queued"}
      BY DEF Phase
    <2> QED BY <2>1, <2>5, <2>6, MovedFamily
  <1>5. CASE \E i \in DOMAIN tickets[r] : Delegates(r, i)
    BY <1>5, DelegatesFamily
  <1>6. CASE \E i \in DOMAIN tickets[r] : IsRefused(r, i)
    <2>1. PICK i \in DOMAIN tickets[r] : IsRefused(r, i)
      BY <1>6
    <2>2. /\ phase[r] = "tools" /\ UNCHANGED <<log, phase, turn, spec, queue>>
          /\ tickets' = [tickets EXCEPT ![r][i] = Refused]
      BY <2>1 DEF IsRefused
    <2>3. phase' = [phase EXCEPT ![r] = "tools"] /\ "tools" \in Phase \ {"new", "queued"}
      BY <2>2 DEF Phase, Shaped
    <2>4. tickets' \in [Run -> Seq(0..Runs + 1)]
      <3>1. tickets[r] \in Seq(0..Runs + 1) /\ Refused \in 0..Runs + 1
        BY <1>1, RunFacts
      <3>2. [tickets[r] EXCEPT ![i] = Refused] \in Seq(0..Runs + 1)
        BY <3>1
      <3> QED BY <1>1, <2>2, <3>2
    <2> QED BY <2>2, <2>3, <2>4, MovedFamily
  <1>7. CASE BatchEnds(r)
    <2>1. /\ phase[r] = "tools" /\ phase' = [phase EXCEPT ![r] = "before_model"]
          /\ UNCHANGED <<turn, spec, queue>> /\ tickets' = [tickets EXCEPT ![r] = <<>>]
      BY <1>7 DEF BatchEnds
    <2>2. "before_model" \in Phase \ {"new", "queued"}
      BY DEF Phase
    <2>3. tickets' \in [Run -> Seq(0..Runs + 1)]
      BY <1>1, <2>1, EmptySeq
    <2> QED BY <2>1, <2>2, <2>3, MovedFamily
  <1>8. CASE Answers(r)
    <2>1. /\ phase[r] = "on_model_stop" /\ phase' = [phase EXCEPT ![r] = "returned"]
          /\ UNCHANGED <<turn, spec, tickets, queue>>
      BY <1>8 DEF Answers, Returns
    <2>2. "returned" \in Phase \ {"new", "queued"}
      BY DEF Phase
    <2> QED BY <1>1, <2>1, <2>2, MovedFamily
  <1> QED BY <1>2, <1>3, <1>4, <1>5, <1>6, <1>7, <1>8, SpawnsAsideFamily, StartsPooledFamily,
              AsksFamily DEF RunNext

-----------------------------------------------------------------------------
\* The lines a step writes

\* A line that is no turn of a conversation and names no batch, and is at depth
\* 0 only under the run of the session.
Aloof == {e \in Event : /\ ~Speaks(e) /\ e.calls = <<>> /\ e.kind # "history_summarized"
                        /\ e.depth = 0 => e.run = 1}

\* The depth of a run is its own.
Own(r) == spec[r].depth \in Nat /\ (spec[r].depth = 0 <=> r = 1)

LEMMA LineTypes ==
    ASSUME NEW r \in Run, NEW kind \in Kind, NEW d \in Nat
    PROVE  /\ [Line(r, kind) EXCEPT !.depth = d] \in Event
           /\ \A text \in Answer \cup {"", "output", "refused", "question", "correction"} :
                 [Said(r, kind, text) EXCEPT !.depth = d] \in Event
           /\ \A key \in Call \cup Answer \cup {""},
                 text \in Answer \cup {"", "output", "refused", "question", "correction"} :
                 [[About(r, kind, key) EXCEPT !.text = text] EXCEPT !.depth = d] \in Event
           /\ \A n \in Nat : [[Line(r, kind) EXCEPT !.tokens = n] EXCEPT !.depth = d] \in Event
           /\ \A calls \in Seq(Call) :
                 [[Line(r, kind) EXCEPT !.calls = calls] EXCEPT !.depth = d] \in Event
           /\ \A key \in Call \cup Answer \cup {""}, c \in Run :
                 [[About(r, kind, key) EXCEPT !.child = c] EXCEPT !.depth = d] \in Event
           /\ \A key \in Call \cup Answer \cup {""}, c \in Run, n \in Nat :
                 [[About(r, kind, key) EXCEPT !.child = c, !.tokens = n] EXCEPT !.depth = d] \in Event
  <1>1. <<>> \in Seq(Call)
    BY EmptySeq
  <1>2. {} \in SUBSET (Nat \ {0}) /\ 0 \in Nat
    OBVIOUS
  <1> QED BY <1>1, <1>2 DEF Line, About, Said, Event

LEMMA Kinds ==
    /\ {"user_message", "agent_message", "tool_result", "model_call", "run_finished",
        "subagent_dispatched", "subagent_returned", "subagent_failed"} \subseteq Kind
    /\ \A k \in {"model_call", "run_finished", "subagent_dispatched", "subagent_returned",
                 "subagent_failed"} : k \notin HistoryKinds
  BY DEF Kind, HistoryKinds

AddsAloof == \E lines \in Seq(Aloof) : log' = log \o lines

LEMMA AloofLine ==
    ASSUME NEW e \in Event, e.calls = <<>>, e.kind # "history_summarized",
           e.depth = 0 => e.run = 1, e.depth = 0 => e.kind \notin HistoryKinds
    PROVE  e \in Aloof
  BY DEF Aloof, Speaks

LEMMA AloofTuples ==
    ASSUME log \in Seq(Event), NEW a \in Aloof, NEW b \in Aloof
    PROVE  /\ <<a>> \in Seq(Aloof) /\ <<a, b>> \in Seq(Aloof) /\ <<>> \in Seq(Aloof)
           /\ log \o <<a>> \o <<b>> = log \o <<a, b>>
           /\ Append(log, a) = log \o <<a>> /\ log \o <<a>> \o <<>> = log \o <<a>>
           /\ log \o <<>> = log
  <1>1. <<a>> \in Seq(Aloof) /\ <<a, b>> \in Seq(Aloof) /\ <<>> \in Seq(Aloof)
    OBVIOUS
  <1>2. log \o <<>> = log /\ IsLog(log)
    BY DEF IsLog
  <1>3. Append(log, a) = log \o <<a>>
    BY <1>2, AppendLog
  <1>4. IsLog(<<a>>) /\ IsLog(<<b>>) /\ IsLog(<<>>)
    BY Tuples
  <1>5. log \o <<a>> \o <<b>> = log \o <<a, b>>
    <2>1. <<a>> \o <<b>> = <<a, b>>
      <3> DEFINE t == <<a>> \o <<b>>
                 u == <<a, b>>
      <3>1. /\ t \in Seq(Aloof) /\ Len(t) = 2 /\ t[1] = a /\ t[2] = b
            /\ u \in Seq(Aloof) /\ Len(u) = 2 /\ u[1] = a /\ u[2] = b
        OBVIOUS
      <3> HIDE DEF t, u
      <3>2. t = u
        BY <3>1
      <3> QED BY <3>2 DEF t, u
    <2>2. log \o <<a>> \o <<b>> = log \o (<<a>> \o <<b>>)
      BY <1>2, <1>4, Assoc
    <2> QED BY <2>1, <2>2
  <1>6. log \o <<a>> \o <<>> = log \o (<<a>> \o <<>>) /\ <<a>> \o <<>> = <<a>>
    BY <1>2, <1>4, Assoc
  <1> QED BY <1>1, <1>2, <1>3, <1>5, <1>6

LEMMA OwnDepth ==
    ASSUME Shaped, Family, NEW r \in Run, phase[r] # "new"
    PROVE  Own(r)
  BY OriginFields, Depths DEF Own, Shaped

\* Every line a run stamps with its depth, but those of its conversation.
LEMMA StampedLines ==
    ASSUME NEW r \in Run, Own(r), NEW kind \in {"model_call", "run_finished", "subagent_dispatched",
                                              "subagent_returned", "subagent_failed"},
           NEW key \in Call \cup Answer \cup {""}, NEW c \in Run, NEW n \in Nat
    PROVE  /\ At(r, Line(r, kind)) \in Aloof
           /\ At(r, [Line(r, kind) EXCEPT !.tokens = n]) \in Aloof
           /\ At(r, [About(r, kind, key) EXCEPT !.child = c]) \in Aloof
           /\ At(r, [About(r, kind, key) EXCEPT !.child = c, !.tokens = n]) \in Aloof
  <1>1. kind \in Kind /\ kind \notin HistoryKinds /\ spec[r].depth \in Nat
    BY Kinds DEF Own
  <1>2. kind # "history_summarized"
    OBVIOUS
  <1> DEFINE a == At(r, Line(r, kind))
             b == At(r, [Line(r, kind) EXCEPT !.tokens = n])
             d == At(r, [About(r, kind, key) EXCEPT !.child = c])
             e == At(r, [About(r, kind, key) EXCEPT !.child = c, !.tokens = n])
  <1>3. a \in Event /\ b \in Event /\ d \in Event /\ e \in Event
    BY <1>1, LineTypes DEF At
  <1>4. \A x \in {a, b, d, e} : /\ x.run = r /\ x.kind = kind /\ x.calls = <<>>
                              /\ x.depth = spec[r].depth
    BY DEF At, Line, About
  <1> HIDE DEF a, b, d, e
  <1>5. \A x \in {a, b, d, e} : x \in Aloof
    BY <1>1, <1>2, <1>3, <1>4, AloofLine DEF Own
  <1> QED BY <1>5 DEF a, b, d, e

\* The question a sub-agent is begun with.
LEMMA BriefLines ==
    ASSUME NEW c \in Run, NEW d \in Nat, d # 0
    PROVE  [Said(c, "user_message", "question") EXCEPT !.depth = d] \in Aloof
  <1> DEFINE e == [Said(c, "user_message", "question") EXCEPT !.depth = d]
  <1>1. e \in Event
    BY Kinds, LineTypes
  <1>2. e.calls = <<>> /\ e.kind = "user_message" /\ e.depth = d
    BY DEF Said, Line
  <1> QED BY <1>1, <1>2, AloofLine

LEMMA SpawnLines ==
    ASSUME log \in Seq(Event), NEW r \in Run, Own(r), NEW name \in Call, NEW mode, NEW c \in Run,
           Spawn(r, name, mode, c)
    PROVE  AddsAloof
  <1> DEFINE a == At(r, [About(r, "subagent_dispatched", name) EXCEPT !.child = c])
             b == [Said(c, "user_message", "question") EXCEPT !.depth = spec[r].depth + 1]
  <1>1. a \in Aloof
    BY StampedLines
  <1>2. b \in Aloof
    <2>1. spec[r].depth + 1 \in Nat /\ spec[r].depth + 1 # 0
      BY DEF Own
    <2> QED BY <2>1, BriefLines
  <1>3. log' = log \o <<a>> \o IF mode = "blocking" THEN <<b>> ELSE <<>>
    BY DEF Spawn
  <1> HIDE DEF a, b
  <1> QED BY <1>1, <1>2, <1>3, AloofTuples DEF AddsAloof

LEMMA ReportLines ==
    ASSUME log \in Seq(Event), Shaped, Family, NEW r \in Run, phase[r] # "new", r # 1,
           NEW kind \in {"subagent_returned", "subagent_failed"}
    PROVE  Reported(r, kind) \in Aloof
  <1> DEFINE p == spec[r].parent
  <1>1. p \in Run /\ phase[p] # "new" /\ spec[r].name \in Call
    BY Depths
  <1>2. Own(p)
    BY <1>1, OwnDepth
  <1>3. TotalTokens(log, r) \in Nat
    BY TokensAreNat
  <1> QED BY <1>1, <1>2, <1>3, StampedLines DEF Reported

LEMMA AloofActions ==
    ASSUME log \in Seq(Event), Shaped, Family, InLine, InHand, NEW r \in Run,
           \/ SpawnsAside(r) \/ StartsPooled(r) \/ AsksModel(r) \/ RunsOut(r) \/ ModelFails(r)
           \/ \E i \in DOMAIN tickets[r] : Delegates(r, i) \/ IsRefused(r, i)
           \/ Answers(r)
    PROVE  AddsAloof
  <1>1. ASSUME log' = log PROVE AddsAloof
    <2>1. log' = log \o <<>> /\ <<>> \in Seq(Aloof)
      BY <1>1
    <2> QED BY <2>1 DEF AddsAloof
  <1>2. CASE SpawnsAside(r)
    <2>1. phase[r] = "before_model" /\ \E a \in Aside, c \in Run : Spawn(r, a[1], a[2], c)
      BY <1>2 DEF SpawnsAside
    <2>2. \A a \in Aside : a[1] \in Call
      BY SubAgentsAssumption
    <2> QED BY <2>1, <2>2, OwnDepth, SpawnLines
  <1>3. CASE StartsPooled(r)
    <2>1. phase[r] = "queued" /\ r # 1
      BY <1>3, StartsPooledFamily
    <2>2. Own(r)
      BY <2>1, OwnDepth
    <2>3. At(r, Said(r, "user_message", "question")) \in Aloof
      BY <2>1, <2>2, BriefLines DEF At, Own
    <2>4. log' = Append(log, At(r, Said(r, "user_message", "question")))
      BY <1>3 DEF StartsPooled
    <2> HIDE DEF At
    <2> QED BY <2>3, <2>4, AloofTuples DEF AddsAloof
  <1>4. CASE AsksModel(r) \/ \E i \in DOMAIN tickets[r] : IsRefused(r, i)
    BY <1>1, <1>4 DEF AsksModel, IsRefused
  <1>5. CASE RunsOut(r) \/ ModelFails(r)
    <2>1. phase[r] # "new" /\ log' = IF r = 1 THEN log ELSE Append(log, Reported(r, "subagent_failed"))
      BY <1>5 DEF RunsOut, ModelFails, Fails
    <2>2. CASE r = 1
      BY <1>1, <2>1, <2>2
    <2>3. CASE r # 1
      BY <2>1, <2>3, ReportLines, AloofTuples DEF AddsAloof
    <2> QED BY <2>2, <2>3
  <1>6. CASE \E i \in DOMAIN tickets[r] : Delegates(r, i)
    <2>1. PICK i \in DOMAIN tickets[r] : phase[r] = "tools"
              /\ \E c \in Run : Spawn(r, Batch(r)[i], "blocking", c)
      BY <1>6 DEF Delegates
    <2>2. Batch(r)[i] \in Call
      BY <2>1, CallsInHand
    <2> QED BY <2>1, <2>2, OwnDepth, SpawnLines
  <1>7. CASE Answers(r)
    <2>1. /\ phase[r] # "new"
          /\ log' = log \o <<At(r, Line(r, "run_finished"))>>
                       \o (IF r = 1 THEN <<>> ELSE <<Reported(r, "subagent_returned")>>)
      BY <1>7 DEF Answers, Returns
    <2>2. At(r, Line(r, "run_finished")) \in Aloof
      BY <2>1, OwnDepth, StampedLines
    <2>3. CASE r = 1
      BY <2>1, <2>2, <2>3, AloofTuples DEF AddsAloof
    <2>4. CASE r # 1
      BY <2>1, <2>2, <2>4, ReportLines, AloofTuples DEF AddsAloof
    <2> QED BY <2>3, <2>4
  <1> QED BY <1>2, <1>3, <1>4, <1>5, <1>6, <1>7

-----------------------------------------------------------------------------
\* The conversation of the session

\* A line at depth 0 is of the run of the session, and nobody summarises.
Signed == \A i \in 1..Len(log) : /\ log[i].depth = 0 => log[i].run = 1
                                /\ log[i].kind # "history_summarized"

\* The batch that the run of the session has not answered yet.
OpenBatch == IF phase[1] = "tools" THEN {BatchAt(log, 1)} ELSE {}

Told == /\ log \in Seq(Event) /\ log # <<>>
        /\ Signed /\ InHand /\ Batched(log, OpenBatch)

LEMMA SignedGrows ==
    ASSUME log \in Seq(Event), log' \in Seq(Event), Extends(log, log'), Signed,
           \A i \in Len(log) + 1..Len(log') : /\ log'[i].depth = 0 => log'[i].run = 1
                                             /\ log'[i].kind # "history_summarized"
    PROVE  Signed'
  <1> SUFFICES ASSUME NEW i \in 1..Len(log')
               PROVE  /\ log'[i].depth = 0 => log'[i].run = 1
                      /\ log'[i].kind # "history_summarized"
    BY DEF Signed
  <1>1. CASE i \in 1..Len(log) /\ log'[i] = log[i]
    BY <1>1 DEF Signed
  <1>2. CASE i \in Len(log) + 1..Len(log')
    BY <1>2
  <1> QED BY <1>1, <1>2, InTwoParts

\* Batches in hand stay so when nobody but r names one.
LEMMA InHandGrows ==
    ASSUME log \in Seq(Event), log' \in Seq(Event), Extends(log, log'), InHand, NEW r,
           \A i \in Len(log) + 1..Len(log') : log'[i].calls # <<>> => log'[i].run = r,
           \A q \in Run \ {r} : phase'[q] = "tools" =>
               phase[q] = "tools" /\ Len(tickets'[q]) = Len(tickets[q]),
           r \in Run /\ phase'[r] = "tools" =>
               /\ BatchAt(log', r) # 0
               /\ Len(tickets'[r]) = Len(log'[BatchAt(log', r)].calls)
    PROVE  InHand'
  <1> SUFFICES ASSUME NEW q \in Run, phase'[q] = "tools"
               PROVE  /\ BatchAt(log', q) # 0
                      /\ Len(tickets'[q]) = Len(log'[BatchAt(log', q)].calls)
    BY DEF InHand
  <1>1. CASE q # r
    <2>1. phase[q] = "tools" /\ Len(tickets'[q]) = Len(tickets[q])
      BY <1>1
    <2>2. BatchAt(log, q) # 0 /\ Len(tickets[q]) = Len(log[BatchAt(log, q)].calls)
      BY <2>1 DEF InHand
    <2>3. \A i \in Len(log) + 1..Len(log') : ~(log'[i].run = q /\ log'[i].calls # <<>>)
      BY <1>1
    <2>4. BatchAt(log', q) = BatchAt(log, q) /\ log'[BatchAt(log, q)] = log[BatchAt(log, q)]
      BY <2>2, <2>3, BatchStays
    <2> QED BY <2>1, <2>2, <2>4
  <1>2. CASE q = r
    BY <1>2
  <1> QED BY <1>1, <1>2

\* A step whose lines are no turns of the conversation of the session.
LEMMA QuietStep ==
    ASSUME Told, log' \in Seq(Event), Extends(log, log'), NEW r, r # 1,
           \A i \in Len(log) + 1..Len(log') :
               /\ ~Speaks(log'[i]) /\ log'[i].kind # "history_summarized"
               /\ log'[i].depth = 0 => log'[i].run = 1
               /\ log'[i].calls # <<>> => log'[i].run = r,
           phase'[1] = "tools" <=> phase[1] = "tools",
           \A q \in Run \ {r} : phase'[q] = "tools" =>
               phase[q] = "tools" /\ Len(tickets'[q]) = Len(tickets[q]),
           r \in Run /\ phase'[r] = "tools" =>
               /\ BatchAt(log', r) # 0
               /\ Len(tickets'[r]) = Len(log'[BatchAt(log', r)].calls)
    PROVE  Told'
  <1>1. log \in Seq(Event) /\ log # <<>> /\ Signed /\ InHand /\ Batched(log, OpenBatch)
    BY DEF Told
  <1>2. Signed'
    BY <1>1, SignedGrows
  <1>3. InHand'
    BY <1>1, InHandGrows
  <1>4. log' # <<>>
    BY <1>1 DEF Extends
  <1>5. OpenBatch' = OpenBatch
    <2>1. CASE phase[1] = "tools"
      <3>1. BatchAt(log, 1) # 0
        BY <1>1, <2>1, RunFacts DEF InHand
      <3>2. \A i \in Len(log) + 1..Len(log') : ~(log'[i].run = 1 /\ log'[i].calls # <<>>)
        OBVIOUS
      <3>3. BatchAt(log', 1) = BatchAt(log, 1)
        BY <1>1, <3>1, <3>2, BatchStays
      <3> QED BY <2>1, <3>3 DEF OpenBatch
    <2>2. CASE phase[1] # "tools"
      BY <2>2 DEF OpenBatch
    <2> QED BY <2>1, <2>2
  <1>6. Batched(log', OpenBatch)
    <2> DEFINE new == {i \in Len(log) + 1..Len(log') : Calling(log', i)}
    <2>1. \A i \in Len(log) + 1..Len(log') :
               /\ log'[i].kind = "history_summarized" => log'[i].depth = 0
               /\ Speaks(log'[i]) => OpenBatch = {} /\ log'[i].kind # "tool_result"
               /\ Calling(log', i) => log'[i].kind = "agent_message" /\ i = Len(log')
      BY DEF Calling
    <2>2. Batched(log', OpenBatch \cup new)
      <3> HIDE DEF new
      <3>1. new = {i \in Len(log) + 1..Len(log') : Calling(log', i)}
        BY DEF new
      <3> QED BY <1>1, <2>1, <3>1, BatchedGrows
    <2>3. new = {}
      BY DEF Calling
    <2>4. OpenBatch \cup new = OpenBatch
      BY <2>3
    <2> QED BY <2>2, <2>4
  <1> QED BY <1>2, <1>3, <1>4, <1>5, <1>6 DEF Told

LEMMA AloofStep ==
    ASSUME Told, AddsAloof,
           phase'[1] = "tools" <=> phase[1] = "tools",
           \A q \in Run : phase'[q] = "tools" =>
               phase[q] = "tools" /\ Len(tickets'[q]) = Len(tickets[q])
    PROVE  Told'
  <1>1. PICK lines \in Seq(Aloof) : log' = log \o lines
    BY DEF AddsAloof
  <1>2. lines \in Seq(Event) /\ Len(lines) \in Nat /\ \A k \in 1..Len(lines) : lines[k] \in Aloof
    <2>1. Aloof \subseteq Event
      BY DEF Aloof
    <2> QED BY <2>1
  <1>3. log \in Seq(Event)
    BY DEF Told
  <1>4. /\ log' \in Seq(Event) /\ Extends(log, log')
        /\ \A i \in Len(log) + 1..Len(log') :
              i - Len(log) \in 1..Len(lines) /\ log'[i] = lines[i - Len(log)]
    BY <1>1, <1>2, <1>3, ExtendsConcat
  <1>5. \A i \in Len(log) + 1..Len(log') : log'[i] \in Aloof
    BY <1>2, <1>4
  <1>6. 0 \notin Run
    BY DEF Run
  <1>7. \A i \in Len(log) + 1..Len(log') :
               /\ ~Speaks(log'[i]) /\ log'[i].kind # "history_summarized"
               /\ log'[i].depth = 0 => log'[i].run = 1
               /\ log'[i].calls # <<>> => log'[i].run = 0
    BY <1>5 DEF Aloof
  <1>8. 0 # 1
    OBVIOUS
  <1> QED BY <1>4, <1>6, <1>7, <1>8, QuietStep

\* A line of a run's conversation, at the run's own depth.
Uttered(e, r, kind, calls) ==
    e \in Event /\ e.run = r /\ e.depth = spec[r].depth /\ e.kind = kind /\ e.calls = calls

\* What the model answers, the batch it asks for and the results of one.
LEMMA TurnLines ==
    ASSUME NEW r \in Run, Own(r)
    PROVE  /\ ModelCall(r) \in Aloof
           /\ \A a \in Answer : Uttered(At(r, Said(r, "agent_message", a)), r, "agent_message", <<>>)
           /\ \A batch \in Seq(Call) :
                 Uttered(At(r, [Line(r, "agent_message") EXCEPT !.calls = batch]),
                         r, "agent_message", batch)
           /\ \A call \in Call, text \in {"refused", "output", ""} :
                 /\ Uttered(At(r, [About(r, "tool_result", call) EXCEPT !.text = text]),
                            r, "tool_result", <<>>)
                 /\ At(r, [About(r, "tool_result", call) EXCEPT !.text = text]).key = call
  <1>1. "agent_message" \in Kind /\ "tool_result" \in Kind /\ spec[r].depth \in Nat
    BY Kinds DEF Own
  <1>2. ModelCall(r) \in Aloof
    <2>1. 1 \in Nat /\ "" \in Call \cup Answer \cup {""}
      OBVIOUS
    <2> QED BY <2>1, StampedLines DEF ModelCall
  <1>3. ASSUME NEW a \in Answer
        PROVE  Uttered(At(r, Said(r, "agent_message", a)), r, "agent_message", <<>>)
    <2>1. At(r, Said(r, "agent_message", a)) \in Event
      BY <1>1, LineTypes DEF At
    <2> QED BY <2>1 DEF At, Said, Line, Uttered
  <1>4. ASSUME NEW batch \in Seq(Call)
        PROVE  Uttered(At(r, [Line(r, "agent_message") EXCEPT !.calls = batch]),
                       r, "agent_message", batch)
    <2>1. At(r, [Line(r, "agent_message") EXCEPT !.calls = batch]) \in Event
      BY <1>1, LineTypes DEF At
    <2> QED BY <2>1 DEF At, Line, Uttered
  <1>5. ASSUME NEW call \in Call, NEW text \in {"refused", "output", ""}
        PROVE  /\ Uttered(At(r, [About(r, "tool_result", call) EXCEPT !.text = text]),
                          r, "tool_result", <<>>)
               /\ At(r, [About(r, "tool_result", call) EXCEPT !.text = text]).key = call
    <2>1. At(r, [About(r, "tool_result", call) EXCEPT !.text = text]) \in Event
      BY <1>1, LineTypes DEF At
    <2> QED BY <2>1 DEF At, About, Line, Uttered
  <1> QED BY <1>2, <1>3, <1>4, <1>5

LEMMA TwoLines ==
    ASSUME log \in Seq(Event), NEW a \in Event, NEW b \in Event, log' = log \o <<a, b>>
    PROVE  /\ log' \in Seq(Event) /\ Extends(log, log') /\ Len(log') = Len(log) + 2
           /\ Len(log) \in Nat /\ log'[Len(log) + 1] = a /\ log'[Len(log) + 2] = b
           /\ \A i \in Len(log) + 1..Len(log') : i = Len(log) + 1 \/ i = Len(log) + 2
  <1> DEFINE lines == <<a, b>>
  <1>1. /\ lines \in Seq(Event) /\ Len(lines) = 2 /\ lines[1] = a /\ lines[2] = b
        /\ Len(log) \in Nat
    OBVIOUS
  <1>2. log' = log \o lines
    OBVIOUS
  <1> HIDE DEF lines
  <1>3. /\ log' \in Seq(Event) /\ Extends(log, log') /\ Len(log') = Len(log) + Len(lines)
        /\ \A k \in 1..Len(lines) : log'[Len(log) + k] = lines[k]
    <2> DEFINE t == log \o lines
    <2>1. /\ t \in Seq(Event) /\ Extends(log, t) /\ Len(t) = Len(log) + Len(lines)
          /\ \A k \in 1..Len(lines) : t[Len(log) + k] = lines[k]
      BY <1>1, ExtendsConcat
    <2>2. log' = t
      BY <1>2
    <2> HIDE DEF t
    <2> QED BY <2>1, <2>2
  <1>4. 1 \in 1..Len(lines) /\ 2 \in 1..Len(lines)
    BY <1>1
  <1>5. log'[Len(log) + 1] = a /\ log'[Len(log) + 2] = b
    BY <1>1, <1>3, <1>4
  <1>6. \A i \in Len(log) + 1..Len(log') : i = Len(log) + 1 \/ i = Len(log) + 2
    BY <1>1, <1>3
  <1> QED BY <1>1, <1>3, <1>5, <1>6

LEMMA AnswersStep ==
    ASSUME Told, Shaped, Family, NEW r \in Run, ModelAnswers(r)
    PROVE  Told'
  <1>1. /\ phase[r] = "model" /\ phase' = [phase EXCEPT ![r] = "on_model_stop"]
        /\ UNCHANGED tickets
    BY DEF ModelAnswers
  <1>2. PICK a \in Answer : log' = log \o <<ModelCall(r), At(r, Said(r, "agent_message", a))>>
    BY DEF ModelAnswers
  <1> DEFINE x == ModelCall(r)
             y == At(r, Said(r, "agent_message", a))
  <1>3. Own(r) /\ (spec[r].depth = 0 <=> r = 1)
    BY <1>1, OwnDepth DEF Own
  <1>4. x \in Aloof /\ Uttered(y, r, "agent_message", <<>>)
    BY <1>3, TurnLines
  <1>5. log' = log \o <<x, y>>
    BY <1>2
  <1> HIDE DEF x, y
  <1>6. /\ x \in Aloof
        /\ y \in Event /\ y.run = r /\ y.depth = spec[r].depth
        /\ y.kind = "agent_message" /\ y.calls = <<>>
    BY <1>4 DEF Uttered
  <1>7. /\ x \in Event /\ ~Speaks(x) /\ x.calls = <<>> /\ x.kind # "history_summarized"
        /\ x.depth = 0 => x.run = 1
    BY <1>6 DEF Aloof
  <1>8. log \in Seq(Event) /\ log # <<>> /\ Signed /\ InHand /\ Batched(log, OpenBatch)
    BY DEF Told
  <1>9. /\ log' \in Seq(Event) /\ Extends(log, log') /\ Len(log') = Len(log) + 2
        /\ Len(log) \in Nat /\ log'[Len(log) + 1] = x /\ log'[Len(log) + 2] = y
        /\ \A i \in Len(log) + 1..Len(log') : i = Len(log) + 1 \/ i = Len(log) + 2
    BY <1>5, <1>7, <1>6, <1>8, TwoLines
  <1>10. /\ phase \in [Run -> Phase]
        /\ \A q \in Run : phase'[q] = "tools" => phase[q] = "tools"
        /\ 1 \in Run
    BY <1>1, RunFacts DEF Shaped
  <1>11. CASE r # 1
    <2>1. ~Speaks(y)
      BY <1>3, <1>6, <1>11 DEF Speaks
    <2>2. \A i \in Len(log) + 1..Len(log') :
               /\ ~Speaks(log'[i]) /\ log'[i].kind # "history_summarized"
               /\ log'[i].depth = 0 => log'[i].run = 1
               /\ log'[i].calls # <<>> => log'[i].run = r
      BY <1>3, <1>6, <1>7, <1>9, <1>11, <2>1
    <2>3. phase'[1] = "tools" <=> phase[1] = "tools"
      BY <1>1, <1>10, <1>11
    <2>4. \A q \in Run : phase'[q] = "tools" =>
               phase[q] = "tools" /\ Len(tickets'[q]) = Len(tickets[q])
      BY <1>1, <1>10
    <2>5. phase'[r] # "tools"
      BY <1>1, <1>10
    <2> QED BY <1>9, <1>11, <2>2, <2>3, <2>4, <2>5, QuietStep
  <1>12. CASE r = 1
    <2>1. Signed'
      <3>1. \A i \in Len(log) + 1..Len(log') : /\ log'[i].depth = 0 => log'[i].run = 1
                                               /\ log'[i].kind # "history_summarized"
        BY <1>6, <1>7, <1>9, <1>12
      <3> QED BY <1>8, <1>9, <3>1, SignedGrows
    <2>2. InHand'
      <3>1. \A i \in Len(log) + 1..Len(log') : log'[i].calls # <<>> => log'[i].run = 0
        BY <1>6, <1>7, <1>9
      <3>2. \A q \in Run \ {0} : phase'[q] = "tools" =>
               phase[q] = "tools" /\ Len(tickets'[q]) = Len(tickets[q])
        BY <1>1, <1>10
      <3>3. 0 \notin Run
        BY DEF Run
      <3> QED BY <1>8, <1>9, <3>1, <3>2, <3>3, InHandGrows
    <2>3. OpenBatch = {} /\ OpenBatch' = {}
      BY <1>1, <1>10, <1>12 DEF OpenBatch
    <2>4. Batched(log', {})
      <3> DEFINE new == {i \in Len(log) + 1..Len(log') : Calling(log', i)}
      <3>1. new = {}
        BY <1>6, <1>7, <1>9 DEF Calling
      <3>2. \A i \in Len(log) + 1..Len(log') :
               /\ log'[i].kind = "history_summarized" => log'[i].depth = 0
               /\ Speaks(log'[i]) => OpenBatch = {} /\ log'[i].kind # "tool_result"
               /\ Calling(log', i) => log'[i].kind = "agent_message" /\ i = Len(log')
        BY <1>6, <1>7, <1>9, <2>3 DEF Calling
      <3>3. new = {i \in Len(log) + 1..Len(log') : Calling(log', i)}
        OBVIOUS
      <3> HIDE DEF new
      <3>4. Batched(log', OpenBatch \cup new)
        BY <1>8, <1>9, <3>2, <3>3, BatchedGrows
      <3>5. OpenBatch \cup new = {}
        BY <2>3, <3>1
      <3> QED BY <3>4, <3>5
    <2>5. log' # <<>>
      BY <1>8, <1>9
    <2> QED BY <1>9, <2>1, <2>2, <2>3, <2>4, <2>5 DEF Told
  <1> QED BY <1>11, <1>12

LEMMA AsksForBatchStep ==
    ASSUME Told, Shaped, Family, NEW r \in Run, ModelDelegates(r)
    PROVE  Told'
  <1>1. phase[r] = "model" /\ phase' = [phase EXCEPT ![r] = "tools"]
    BY DEF ModelDelegates
  <1>2. PICK batch \in Batches :
            /\ log' = log \o <<ModelCall(r),
                              At(r, [Line(r, "agent_message") EXCEPT !.calls = batch])>>
            /\ tickets' = [tickets EXCEPT ![r] = [i \in DOMAIN batch |-> Open]]
    BY DEF ModelDelegates
  <1> DEFINE x == ModelCall(r)
             y == At(r, [Line(r, "agent_message") EXCEPT !.calls = batch])
  <1>3. Own(r) /\ (spec[r].depth = 0 <=> r = 1)
    BY <1>1, OwnDepth DEF Own
  <1>4. batch \in Seq(Call) /\ batch # <<>> /\ Len(batch) \in Nat /\ DOMAIN batch = 1..Len(batch)
    <2>1. batch \in Seq(Call) /\ batch # <<>>
      BY SubAgentsAssumption
    <2> QED BY <2>1
  <1>5. x \in Aloof /\ Uttered(y, r, "agent_message", batch)
    BY <1>3, <1>4, TurnLines
  <1>6. log' = log \o <<x, y>>
    BY <1>2
  <1> HIDE DEF x, y
  <1>7. /\ x \in Event /\ ~Speaks(x) /\ x.calls = <<>> /\ x.kind # "history_summarized"
        /\ x.depth = 0 => x.run = 1
        /\ y \in Event /\ y.run = r /\ y.depth = spec[r].depth
        /\ y.kind = "agent_message" /\ y.calls = batch
    BY <1>5 DEF Aloof, Uttered
  <1>8. log \in Seq(Event) /\ log # <<>> /\ Signed /\ InHand /\ Batched(log, OpenBatch)
    BY DEF Told
  <1>9. /\ log' \in Seq(Event) /\ Extends(log, log') /\ Len(log') = Len(log) + 2
        /\ Len(log) \in Nat /\ log'[Len(log) + 1] = x /\ log'[Len(log) + 2] = y
        /\ \A i \in Len(log) + 1..Len(log') : i = Len(log) + 1 \/ i = Len(log) + 2
    BY <1>6, <1>7, <1>8, TwoLines
  <1>10. /\ phase \in [Run -> Phase] /\ tickets \in [Run -> Seq(0..Runs + 1)] /\ 1 \in Run
         /\ phase'[r] = "tools"
         /\ \A q \in Run \ {r} : phase'[q] = phase[q]
    BY <1>1, RunFacts DEF Shaped
  <1>11. /\ \A q \in Run \ {r} : tickets'[q] = tickets[q]
         /\ Len(tickets'[r]) = Len(batch)
    <2>1. tickets'[r] = [i \in 1..Len(batch) |-> Open]
      BY <1>2, <1>4, <1>10
    <2>2. Len([i \in 1..Len(batch) |-> Open]) = Len(batch)
      BY <1>4
    <2> QED BY <1>2, <1>10, <2>1, <2>2
  <1>12. BatchAt(log', r) = Len(log')
    <2> DEFINE p == Len(log) + 2
    <2>1. p \in 1..Len(log') /\ log'[p].run = r /\ log'[p].calls # <<>>
      BY <1>4, <1>7, <1>9
    <2>2. \A i \in 1..Len(log') : ~(p < i)
      BY <1>9
    <2> HIDE DEF p
    <2>3. BatchAt(log', r) = p
      BY <1>9, <2>1, <2>2, BatchAtIs
    <2> QED BY <1>9, <2>3 DEF p
  <1>13. /\ BatchAt(log', r) # 0
         /\ Len(tickets'[r]) = Len(log'[BatchAt(log', r)].calls)
    BY <1>7, <1>9, <1>11, <1>12
  <1>14. \A q \in Run \ {r} : phase'[q] = "tools" =>
               phase[q] = "tools" /\ Len(tickets'[q]) = Len(tickets[q])
    BY <1>10, <1>11
  <1>15. CASE r # 1
    <2>1. ~Speaks(y)
      BY <1>3, <1>7, <1>15 DEF Speaks
    <2>2. \A i \in Len(log) + 1..Len(log') :
               /\ ~Speaks(log'[i]) /\ log'[i].kind # "history_summarized"
               /\ log'[i].depth = 0 => log'[i].run = 1
               /\ log'[i].calls # <<>> => log'[i].run = r
      BY <1>3, <1>7, <1>9, <1>15, <2>1
    <2>3. phase'[1] = "tools" <=> phase[1] = "tools"
      BY <1>10, <1>15
    <2> QED BY <1>9, <1>13, <1>14, <1>15, <2>2, <2>3, QuietStep
  <1>16. CASE r = 1
    <2>1. Signed'
      <3>1. \A i \in Len(log) + 1..Len(log') : /\ log'[i].depth = 0 => log'[i].run = 1
                                               /\ log'[i].kind # "history_summarized"
        BY <1>7, <1>9, <1>16
      <3> QED BY <1>8, <1>9, <3>1, SignedGrows
    <2>2. InHand'
      <3>1. \A i \in Len(log) + 1..Len(log') : log'[i].calls # <<>> => log'[i].run = r
        BY <1>7, <1>9
      <3> QED BY <1>8, <1>9, <1>13, <1>14, <3>1, InHandGrows
    <2>3. OpenBatch = {} /\ OpenBatch' = {Len(log')}
      BY <1>1, <1>10, <1>12, <1>16 DEF OpenBatch
    <2>4. Batched(log', OpenBatch')
      <3> DEFINE new == {i \in Len(log) + 1..Len(log') : Calling(log', i)}
      <3>1. Speaks(y)
        BY <1>3, <1>7, <1>16 DEF Speaks, HistoryKinds
      <3>2. Len(log) + 2 \in Len(log) + 1..Len(log') /\ Len(log') = Len(log) + 2
        BY <1>9
      <3>3. ~Calling(log', Len(log) + 1) /\ Calling(log', Len(log) + 2)
        BY <1>4, <1>7, <1>9, <3>1 DEF Calling
      <3>4. new = {Len(log')}
        BY <1>9, <3>2, <3>3
      <3>5. \A i \in Len(log) + 1..Len(log') :
               /\ log'[i].kind = "history_summarized" => log'[i].depth = 0
               /\ Speaks(log'[i]) => OpenBatch = {} /\ log'[i].kind # "tool_result"
               /\ Calling(log', i) => log'[i].kind = "agent_message" /\ i = Len(log')
        BY <1>7, <1>9, <2>3, <3>2, <3>3
      <3>6. new = {i \in Len(log) + 1..Len(log') : Calling(log', i)}
        OBVIOUS
      <3> HIDE DEF new
      <3>7. Batched(log', OpenBatch \cup new)
        BY <1>8, <1>9, <3>5, <3>6, BatchedGrows
      <3>8. OpenBatch \cup new = OpenBatch'
        BY <2>3, <3>4
      <3> QED BY <3>7, <3>8
    <2>5. log' # <<>>
      BY <1>8, <1>9
    <2> QED BY <1>9, <2>1, <2>2, <2>4, <2>5 DEF Told
  <1> QED BY <1>15, <1>16

\* The results of a batch, in the order of its calls.
LEMMA ResultLines ==
    ASSUME Told, Shaped, Family, NEW r \in Run, BatchEnds(r)
    PROVE  /\ log' \in Seq(Event) /\ Extends(log, log') /\ Len(log') = Len(log) + Len(tickets[r])
           /\ \A k \in 1..Len(tickets[r]) :
                 /\ Uttered(log'[Len(log) + k], r, "tool_result", <<>>)
                 /\ log'[Len(log) + k].key = Batch(r)[k]
           /\ \A i \in Len(log) + 1..Len(log') :
                 /\ log'[i].run = r /\ log'[i].depth = spec[r].depth
                 /\ log'[i].kind = "tool_result" /\ log'[i].calls = <<>>
  <1>1. phase[r] = "tools"
    BY DEF BatchEnds
  <1> DEFINE n == Len(tickets[r])
             lines == [i \in 1..n |->
                          At(r, [About(r, "tool_result", Batch(r)[i])
                                    EXCEPT !.text = ToolOutput(tickets[r][i])])]
  <1>2. log \in Seq(Event) /\ InHand
    BY DEF Told
  <1>3. /\ BatchAt(log, r) \in 1..Len(log) /\ log[BatchAt(log, r)].run = r
        /\ Batch(r) = log[BatchAt(log, r)].calls
        /\ n \in Nat /\ Len(Batch(r)) = n /\ DOMAIN tickets[r] = 1..n
        /\ \A i \in 1..n : Batch(r)[i] \in Call
    BY <1>1, <1>2, CallsInHand
  <1>4. log' = log \o lines
    BY <1>3 DEF BatchEnds
  <1>5. Own(r)
    BY <1>1, OwnDepth
  <1>6. \A i \in 1..n : Uttered(lines[i], r, "tool_result", <<>>) /\ lines[i].key = Batch(r)[i]
    <2> TAKE i \in 1..n
    <2> DEFINE text == ToolOutput(tickets[r][i])
               call == Batch(r)[i]
    <2>1. text \in {"refused", "output", ""}
      BY DEF ToolOutput
    <2>2. lines[i] = At(r, [About(r, "tool_result", call) EXCEPT !.text = text])
      OBVIOUS
    <2>3. call \in Call
      BY <1>3
    <2> HIDE DEF text, lines
    <2>4. /\ Uttered(lines[i], r, "tool_result", <<>>) /\ lines[i].key = call
      <3> HIDE DEF call
      <3> DEFINE e == At(r, [About(r, "tool_result", call) EXCEPT !.text = text])
      <3>1. Uttered(e, r, "tool_result", <<>>)
        BY ONLY <1>5, <2>1, <2>3, r \in Run, TurnLines
      <3>2. e.key = call
        BY ONLY <1>5, <2>1, <2>3, r \in Run, TurnLines
      <3> HIDE DEF e
      <3> QED BY <2>2, <3>1, <3>2 DEF e
    <2> QED BY <2>4
  <1>7. lines \in Seq(Event) /\ Len(lines) = n
    <2>1. lines = [i \in 1..n |-> lines[i]] /\ \A i \in 1..n : lines[i] \in Event
      BY <1>6 DEF Uttered
    <2> HIDE DEF lines
    <2> QED BY <1>3, <2>1
  <1> HIDE DEF lines, n
  <1>8. /\ log' \in Seq(Event) /\ Extends(log, log') /\ Len(log') = Len(log) + n
        /\ \A k \in 1..n : log'[Len(log) + k] = lines[k]
        /\ \A i \in Len(log) + 1..Len(log') : i - Len(log) \in 1..n /\ log'[i] = lines[i - Len(log)]
    <2> DEFINE t == log \o lines
    <2>1. /\ t \in Seq(Event) /\ Extends(log, t) /\ Len(t) = Len(log) + Len(lines)
          /\ \A k \in 1..Len(lines) : t[Len(log) + k] = lines[k]
          /\ \A i \in Len(log) + 1..Len(t) :
                i - Len(log) \in 1..Len(lines) /\ t[i] = lines[i - Len(log)]
      BY <1>2, <1>7, ExtendsConcat
    <2>2. log' = t
      BY <1>4
    <2> HIDE DEF t
    <2> QED BY <1>7, <2>1, <2>2
  <1>9. \A i \in Len(log) + 1..Len(log') :
            /\ log'[i].run = r /\ log'[i].depth = spec[r].depth
            /\ log'[i].kind = "tool_result" /\ log'[i].calls = <<>>
    BY <1>6, <1>8 DEF Uttered
  <1> QED BY <1>6, <1>8, <1>9 DEF n

LEMMA BatchEndsStep ==
    ASSUME Told, Shaped, Family, NEW r \in Run, BatchEnds(r)
    PROVE  Told'
  <1>1. /\ phase[r] = "tools" /\ phase' = [phase EXCEPT ![r] = "before_model"]
        /\ tickets' = [tickets EXCEPT ![r] = <<>>]
    BY DEF BatchEnds
  <1> DEFINE n == Len(tickets[r])
  <1>2. log \in Seq(Event) /\ log # <<>> /\ Signed /\ InHand /\ Batched(log, OpenBatch)
    BY DEF Told
  <1>3. /\ BatchAt(log, r) \in 1..Len(log) /\ log[BatchAt(log, r)].run = r
        /\ Batch(r) = log[BatchAt(log, r)].calls /\ n \in Nat /\ Len(Batch(r)) = n
    BY <1>1, <1>2, CallsInHand
  <1>4. Own(r) /\ (spec[r].depth = 0 <=> r = 1)
    BY <1>1, OwnDepth DEF Own
  <1>5. /\ log' \in Seq(Event) /\ Extends(log, log') /\ Len(log') = Len(log) + n
        /\ \A k \in 1..n : /\ Uttered(log'[Len(log) + k], r, "tool_result", <<>>)
                           /\ log'[Len(log) + k].key = Batch(r)[k]
    BY ResultLines
  <1>6. \A i \in Len(log) + 1..Len(log') :
            /\ log'[i].run = r /\ log'[i].depth = spec[r].depth
            /\ log'[i].kind = "tool_result" /\ log'[i].calls = <<>>
    BY ResultLines
  <1> HIDE DEF n
  <1>7. /\ phase \in [Run -> Phase] /\ tickets \in [Run -> Seq(0..Runs + 1)] /\ 1 \in Run
         /\ phase'[r] # "tools"
         /\ \A q \in Run \ {r} : phase'[q] = phase[q] /\ tickets'[q] = tickets[q]
    BY <1>1, RunFacts DEF Shaped
  <1>8. \A q \in Run \ {r} : phase'[q] = "tools" =>
               phase[q] = "tools" /\ Len(tickets'[q]) = Len(tickets[q])
    BY <1>7
  <1>9. CASE r # 1
    <2>1. \A i \in Len(log) + 1..Len(log') :
               /\ ~Speaks(log'[i]) /\ log'[i].kind # "history_summarized"
               /\ log'[i].depth = 0 => log'[i].run = 1
               /\ log'[i].calls # <<>> => log'[i].run = r
      BY <1>4, <1>6, <1>9 DEF Speaks
    <2>2. phase'[1] = "tools" <=> phase[1] = "tools"
      BY <1>7, <1>9
    <2> QED BY <1>5, <1>7, <1>8, <1>9, <2>1, <2>2, QuietStep
  <1>10. CASE r = 1
    <2> DEFINE p == BatchAt(log, 1)
    <2>1. Signed'
      <3>1. \A i \in Len(log) + 1..Len(log') : /\ log'[i].depth = 0 => log'[i].run = 1
                                               /\ log'[i].kind # "history_summarized"
        BY <1>6, <1>10
      <3> QED BY <1>2, <1>5, <3>1, SignedGrows
    <2>2. InHand'
      <3>1. \A i \in Len(log) + 1..Len(log') : log'[i].calls # <<>> => log'[i].run = r
        BY <1>6
      <3> QED BY <1>2, <1>5, <1>7, <1>8, <3>1, InHandGrows
    <2>3. OpenBatch = {p} /\ OpenBatch' = {}
      BY <1>1, <1>7, <1>10 DEF OpenBatch
    <2>4. Batched(log', {})
      <3>1. Len(log') = Len(log) + Len(log[p].calls) /\ Len(log[p].calls) = n
        BY <1>3, <1>5, <1>10
      <3>2. \A k \in 1..Len(log[p].calls) :
               /\ log'[Len(log) + k].depth = 0 /\ log'[Len(log) + k].kind = "tool_result"
               /\ log'[Len(log) + k].key = log[p].calls[k] /\ log'[Len(log) + k].calls = <<>>
        BY <1>3, <1>4, <1>5, <1>10, <3>1 DEF Uttered
      <3>3. Batched(log, {p})
        BY <1>2, <2>3
      <3> HIDE DEF p
      <3> QED BY <1>2, <1>5, <3>1, <3>2, <3>3, BatchedAnswers
    <2>5. log' # <<>>
      BY <1>2, <1>5 DEF Extends
    <2> QED BY <1>5, <2>1, <2>2, <2>3, <2>4, <2>5 DEF Told
  <1> QED BY <1>9, <1>10

\* Who runs a batch, and how many calls it has, is as it was.
SameBatches ==
    /\ phase'[1] = "tools" <=> phase[1] = "tools"
    /\ \A q \in Run : phase'[q] = "tools" =>
           phase[q] = "tools" /\ Len(tickets'[q]) = Len(tickets[q])

LEMMA SameBatchesStep ==
    ASSUME Shaped, Family, InLine, log \in Seq(Event), InHand, NEW r \in Run,
           \/ SpawnsAside(r) \/ StartsPooled(r) \/ AsksModel(r) \/ RunsOut(r) \/ ModelFails(r)
           \/ \E i \in DOMAIN tickets[r] : Delegates(r, i) \/ IsRefused(r, i)
           \/ Answers(r)
    PROVE  SameBatches
  <1>1. phase \in [Run -> Phase] /\ tickets \in [Run -> Seq(0..Runs + 1)] /\ 1 \in Run
    BY RunFacts DEF Shaped
  <1>2. ASSUME NEW c \in Run, NEW p, p # "tools", phase[c] # "tools",
               phase' = [phase EXCEPT ![c] = p], tickets' = tickets
        PROVE  SameBatches
    BY <1>1, <1>2 DEF SameBatches
  <1>3. CASE SpawnsAside(r)
    <2>1. PICK a \in Aside, c \in Run :
              /\ Spawn(r, a[1], a[2], c)
              /\ phase' = [phase EXCEPT ![c] = "queued"]
      BY <1>3 DEF SpawnsAside
    <2>2. phase[c] = "new" /\ tickets' = tickets
      BY <1>3, <2>1 DEF SpawnsAside, Spawn, Fresh
    <2> QED BY <1>2, <2>1, <2>2
  <1>4. CASE StartsPooled(r)
    <2>1. phase[r] = "queued" /\ phase' = [phase EXCEPT ![r] = "before_model"] /\ tickets' = tickets
      BY <1>4, StartsPooledFamily DEF StartsPooled
    <2> QED BY <1>2, <2>1
  <1>5. CASE AsksModel(r)
    BY <1>2, <1>5 DEF AsksModel
  <1>6. CASE RunsOut(r) \/ ModelFails(r)
    BY <1>2, <1>6 DEF RunsOut, ModelFails, Fails
  <1>7. CASE Answers(r)
    BY <1>2, <1>7 DEF Answers, Returns
  <1>8. CASE \E i \in DOMAIN tickets[r] : Delegates(r, i)
    <2>1. PICK i \in DOMAIN tickets[r] : Delegates(r, i)
      BY <1>8
    <2>2. PICK c \in Run : /\ Spawn(r, Batch(r)[i], "blocking", c)
                          /\ phase' = [phase EXCEPT ![c] = "before_model"]
                          /\ tickets' = [tickets EXCEPT ![r][i] = c]
      BY <2>1 DEF Delegates
    <2>3. phase[c] = "new"
      BY <2>2 DEF Spawn, Fresh
    <2>4. tickets[r] \in Seq(0..Runs + 1) /\ c \in 0..Runs + 1
      BY <1>1, RunFacts
    <2>5. Len([tickets[r] EXCEPT ![i] = c]) = Len(tickets[r])
      BY <2>4
    <2>6. \A q \in Run : Len(tickets'[q]) = Len(tickets[q])
      BY <1>1, <2>2, <2>5
    <2> QED BY <1>1, <2>2, <2>3, <2>6 DEF SameBatches
  <1>9. CASE \E i \in DOMAIN tickets[r] : IsRefused(r, i)
    <2>1. PICK i \in DOMAIN tickets[r] : IsRefused(r, i)
      BY <1>9
    <2>2. phase' = phase /\ tickets' = [tickets EXCEPT ![r][i] = Refused]
      BY <2>1 DEF IsRefused
    <2>3. tickets[r] \in Seq(0..Runs + 1) /\ Refused \in 0..Runs + 1
      BY <1>1, RunFacts
    <2>4. Len([tickets[r] EXCEPT ![i] = Refused]) = Len(tickets[r])
      BY <2>3
    <2>5. \A q \in Run : Len(tickets'[q]) = Len(tickets[q])
      BY <1>1, <2>2, <2>4
    <2> QED BY <2>2, <2>5 DEF SameBatches
  <1> QED BY <1>3, <1>4, <1>5, <1>6, <1>7, <1>8, <1>9

-----------------------------------------------------------------------------
\* What the session keeps

Inv == Shaped /\ Family /\ InLine /\ Told

LEMMA InvStep ==
    ASSUME Inv, NEW r \in Run, SpawnsAside(r) \/ StartsPooled(r) \/ RunNext(r)
    PROVE  Inv'
  <1>1. Shaped /\ Family /\ InLine /\ Told /\ log \in Seq(Event) /\ InHand
    BY DEF Inv, Told
  <1>2. Shaped' /\ Family' /\ InLine'
    BY <1>1, FamilyStep
  <1>3. CASE \/ SpawnsAside(r) \/ StartsPooled(r) \/ AsksModel(r) \/ RunsOut(r) \/ ModelFails(r)
             \/ \E i \in DOMAIN tickets[r] : Delegates(r, i) \/ IsRefused(r, i)
             \/ Answers(r)
    <2>1. AddsAloof
      BY <1>1, <1>3, AloofActions
    <2>2. SameBatches
      BY <1>1, <1>3, SameBatchesStep
    <2>3. Told'
      BY <1>1, <2>1, <2>2, AloofStep DEF SameBatches
    <2> QED BY <1>2, <2>3 DEF Inv
  <1>4. CASE ModelAnswers(r) \/ ModelDelegates(r) \/ BatchEnds(r)
    <2>1. Told'
      BY <1>1, <1>4, AnswersStep, AsksForBatchStep, BatchEndsStep
    <2> QED BY <1>2, <2>1 DEF Inv
  <1> QED BY <1>3, <1>4 DEF RunNext

LEMMA InvInit == Init => Inv
  <1> SUFFICES ASSUME Init PROVE Inv
    OBVIOUS
  <1> DEFINE e == Said(1, "user_message", "question")
  <1>1. /\ phase = [r \in Run |-> IF r = 1 THEN "before_model" ELSE "new"]
        /\ turn = [r \in Run |-> 0] /\ spec = [r \in Run |-> NoSpec]
        /\ tickets = [r \in Run |-> <<>>] /\ queue = <<>>
    BY DEF Init
  <1>2. 1 \in Run /\ \A q \in Run : q \in Nat /\ 1 <= q
    BY RunFacts
  <1>3. Shaped
    <2>1. phase \in [Run -> Phase] /\ \A q \in Run : phase[q] # "queued"
      BY <1>1 DEF Phase
    <2>2. turn \in [Run -> Nat] /\ spec \in [Run -> Origin]
      BY <1>1, NoSpecFields
    <2>3. \A q \in Run : turn[q] <= MaxTurns[spec[q].name]
      <3>1. MaxTurns \in [Call \cup {Top} -> Nat \ {0}]
        BY SubAgentsAssumption
      <3>2. MaxTurns[Top] \in Nat
        BY <3>1
      <3>3. \A q \in Run : turn[q] = 0 /\ spec[q].name = Top
        BY <1>1, NoSpecFields
      <3> QED BY <3>2, <3>3
    <2>4. tickets \in [Run -> Seq(0..Runs + 1)]
      BY <1>1, EmptySeq
    <2>5. queue \in Seq(Run) /\ \A q \in Run : q \notin Range(queue)
      <3>1. queue \in Seq(Run) /\ Len(queue) = 0
        BY <1>1
      <3>2. \A q : q \in Range(queue) <=> \E i \in 1..Len(queue) : queue[i] = q
        BY <3>1, QueueFacts
      <3>3. 1..Len(queue) = {}
        BY <3>1
      <3> QED BY <3>1, <3>2, <3>3
    <2> QED BY <2>1, <2>2, <2>3, <2>4, <2>5 DEF Shaped
  <1>4. Family
    <2>1. phase[1] = "before_model" /\ \A q \in Run \ {1} : phase[q] = "new"
      BY <1>1, <1>2
    <2>2. \A c, d \in Run : phase[c] = "new" /\ c < d => phase[d] = "new"
      BY <1>2, <2>1
    <2> QED BY <1>1, <2>1, <2>2 DEF Family
  <1>5. InLine
    <2>1. Len(queue) = 0
      BY <1>1
    <2> QED BY <2>1 DEF InLine
  <1>6. /\ e \in Event /\ e.run = 1 /\ e.depth = 0 /\ e.kind = "user_message" /\ e.calls = <<>>
    <2>1. <<>> \in Seq(Call) /\ {} \in SUBSET (Nat \ {0}) /\ 0 \in Nat
      BY EmptySeq
    <2>2. "user_message" \in Kind
      BY Kinds
    <2>3. e \in Event
      BY <1>2, <2>1, <2>2 DEF Said, Line, Event
    <2>4. /\ e.run = 1 /\ e.depth = 0 /\ e.kind = "user_message" /\ e.calls = <<>>
      BY DEF Said, Line
    <2> QED BY <2>3, <2>4
  <1> HIDE DEF e
  <1>7. log = <<e>>
    BY DEF Init, e
  <1>8. /\ log \in Seq(Event) /\ log # <<>> /\ Len(log) = 1 /\ log[1] = e
        /\ \A i \in 1..Len(log) : i = 1
    BY <1>6, <1>7
  <1>9. Signed
    BY <1>6, <1>8 DEF Signed
  <1>10. InHand /\ OpenBatch = {}
    BY <1>1, <1>2 DEF InHand, OpenBatch
  <1>11. Batched(log, {})
    <2>1. Speaks(e) /\ e.kind # "tool_result" /\ e.kind # "history_summarized"
      BY <1>6 DEF Speaks, HistoryKinds
    <2>2. \A p \in 1..Len(log) : ~Calling(log, p)
      BY <1>6, <1>8 DEF Calling
    <2> QED BY <1>6, <1>8, <2>1, <2>2 DEF Batched
  <1> QED BY <1>3, <1>4, <1>5, <1>8, <1>9, <1>10, <1>11 DEF Inv, Told

LEMMA InvAlways == Spec => []Inv
  <1>1. Init => Inv
    BY InvInit
  <1>2. Inv /\ [Next]_vars => Inv'
    <2> SUFFICES ASSUME Inv, [Next]_vars PROVE Inv'
      OBVIOUS
    <2>1. CASE Next
      BY <2>1, InvStep DEF Next
    <2>2. CASE UNCHANGED vars
      BY <2>2 DEF vars, Inv, Shaped, Family, InLine, Told, Signed, InHand, OpenBatch, BatchAt
    <2> QED BY <2>1, <2>2
  <1> QED BY <1>1, <1>2, PTL DEF Spec

\* Every variable keeps its type, no run begins more turns than its spec's
\* max_turns, and a job waits in the pool exactly while its run has not begun.
THEOREM TypeCorrect == Spec => []TypeOK
  <1>1. Inv => TypeOK
    BY DEF Inv, Shaped, Told, TypeOK
  <1> QED BY <1>1, InvAlways, PTL

\* "It costs no isolation": whatever any number of sub-agents append to the log
\* of the session, and whenever, the request that build_messages makes for the
\* run of the session is one a provider accepts and holds that run's turns only.
THEOREM IsolationHolds == Spec => []ParentIsIsolated
  <1>1. Inv => ParentIsIsolated
    <2> SUFFICES ASSUME Inv, phase[1] = "model"
                 PROVE  /\ WellFormed(BuildMessages(log))
                        /\ \A i \in HistoryEvents(log) : log[i].run = 1
      BY DEF ParentIsIsolated
    <2>1. log \in Seq(Event) /\ Signed /\ Batched(log, OpenBatch) /\ OpenBatch = {}
      BY DEF Inv, Told, OpenBatch
    <2>2. WellFormed(BuildMessages(log))
      BY <2>1, SettledIsWellFormed DEF Settled
    <2>3. ASSUME NEW i \in HistoryEvents(log) PROVE log[i].run = 1
      <3>1. log[i].depth = 0
        BY DEF HistoryEvents
      <3>2. i \in 1..Len(log)
        BY <2>1, HistoryFacts
      <3> QED BY <2>1, <3>1, <3>2 DEF Signed
    <2> QED BY <2>2, <2>3
  <1> QED BY <1>1, InvAlways, PTL

-----------------------------------------------------------------------------
\* The tree

Parents == [d \in Run |-> spec[d].parent]

\* Every run's parent is before it; the run of the session has none.
Descends(up) == up \in [Run -> Nat] /\ \A d \in Run : up[d] < d

Ancestry(up, f) == f = [d \in Run |-> IF up[d] = 0 THEN {} ELSE {up[d]} \cup f[up[d]]]

LEMMA AncestryExists ==
    ASSUME NEW up, Descends(up)
    PROVE  \E f : Ancestry(up, f)
  <1> DEFINE Upto(m, f) == /\ DOMAIN f = 1..m
                           /\ \A d \in 1..m : f[d] = IF up[d] = 0 THEN {} ELSE {up[d]} \cup f[up[d]]
             Bad == {m \in 0..Runs : \A f : ~Upto(m, f)}
  <1>1. Runs \in Nat /\ Run = 1..Runs
    BY RunFacts DEF Run
  <1>2. \A d \in 1..Runs : up[d] \in Nat /\ up[d] < d
    BY <1>1 DEF Descends
  <1>3. Bad = {}
    <2> SUFFICES ASSUME Bad # {} PROVE FALSE
      OBVIOUS
    <2>1. PICK m \in Bad : \A j \in Bad : m <= j
      <3>1. Bad \subseteq Nat
        BY <1>1
      <3> HIDE DEF Bad
      <3> QED BY <3>1, LeastOf
    <2>2. CASE m = 0
      <3> DEFINE f == [d \in 1..0 |-> {}]
      <3>1. Upto(0, f)
        OBVIOUS
      <3> QED BY <2>1, <2>2, <3>1
    <2>3. CASE m # 0
      <3>1. m \in 1..Runs /\ m - 1 \in 0..Runs /\ ~(m <= m - 1)
        BY <1>1, <2>1, <2>3
      <3>2. m - 1 \notin Bad
        BY <2>1, <3>1
      <3>3. PICK g : Upto(m - 1, g)
        BY <3>1, <3>2
      <3> DEFINE f == [d \in 1..m |-> IF d = m THEN IF up[m] = 0 THEN {} ELSE {up[m]} \cup g[up[m]]
                                      ELSE g[d]]
      <3>4. ASSUME NEW d \in 1..m PROVE f[d] = IF up[d] = 0 THEN {} ELSE {up[d]} \cup f[up[d]]
        <4>1. up[d] \in Nat /\ up[d] < d
          <5>1. d \in 1..Runs
            BY <1>1, <3>1
          <5> HIDE DEF f
          <5> QED BY <1>2, <5>1
        <4>2. up[d] # 0 => up[d] \in 1..m /\ up[d] # m
          BY <3>1, <4>1
        <4>3. up[d] # 0 => f[up[d]] = g[up[d]]
          BY <4>2
        <4>4. CASE d = m
          BY <4>3, <4>4
        <4>5. CASE d # m
          <5>1. d \in 1..m - 1
            BY <3>1, <4>5
          <5>2. g[d] = IF up[d] = 0 THEN {} ELSE {up[d]} \cup g[up[d]]
            BY <3>3, <5>1
          <5>3. f[d] = g[d]
            BY <4>5
          <5> HIDE DEF f
          <5> QED BY <4>3, <5>2, <5>3
        <4> QED BY <4>4, <4>5
      <3>5. DOMAIN f = 1..m
        OBVIOUS
      <3> HIDE DEF f
      <3>6. Upto(m, f)
        BY <3>4, <3>5
      <3> QED BY <2>1, <3>6
    <2> QED BY <2>2, <2>3
  <1>4. PICK f : Upto(Runs, f)
    <2>1. Runs \in 0..Runs
      BY <1>1
    <2> HIDE DEF Upto
    <2>2. ~(\A f : ~Upto(Runs, f))
      BY <1>3, <2>1
    <2> QED BY <2>2
  <1> DEFINE h == [d \in Run |-> f[d]]
  <1>5. h = [d \in Run |-> IF up[d] = 0 THEN {} ELSE {up[d]} \cup h[up[d]]]
    <2>1. ASSUME NEW d \in Run PROVE f[d] = IF up[d] = 0 THEN {} ELSE {up[d]} \cup h[up[d]]
      <3>1. up[d] # 0 => up[d] \in Run
        BY <1>1, <1>2
      <3>2. f[d] = IF up[d] = 0 THEN {} ELSE {up[d]} \cup f[up[d]]
        BY <1>1, <1>4
      <3> QED BY <3>1, <3>2
    <2> QED BY <2>1
  <1> HIDE DEF h
  <1> QED BY <1>5 DEF Ancestry

LEMMA AboveFacts ==
    ASSUME Descends(Parents), NEW c \in Run
    PROVE  Above(c) = IF spec[c].parent = 0 THEN {}
                      ELSE {spec[c].parent} \cup Above(spec[c].parent)
  <1> DEFINE F(f) == [d \in Run |-> LET p == spec[d].parent
                                    IN  IF p = 0 THEN {} ELSE {p} \cup f[p]]
             above == CHOOSE f : f = F(f)
  <1>1. ASSUME NEW f PROVE Ancestry(Parents, f) <=> f = F(f)
    <2>1. [d \in Run |-> IF Parents[d] = 0 THEN {} ELSE {Parents[d]} \cup f[Parents[d]]] = F(f)
      BY DEF Parents
    <2> HIDE DEF F
    <2> QED BY <2>1 DEF Ancestry
  <1>2. PICK f : f = F(f)
    <2> HIDE DEF F
    <2> QED BY <1>1, AncestryExists
  <1>3. above = F(above)
    <2> HIDE DEF F
    <2> QED BY <1>2
  <1>4. \A d : Above(d) = above[d]
    BY Zenon DEF Above
  <1> HIDE DEF above
  <1>5. above[c] = IF spec[c].parent = 0 THEN {} ELSE {spec[c].parent} \cup above[spec[c].parent]
    <2>1. above[c] = F(above)[c]
      <3> HIDE DEF F
      <3> QED BY <1>3
    <2> QED BY <2>1
  <1> QED BY <1>4, <1>5

LEMMA FamilyDescends ==
    ASSUME Shaped, Family
    PROVE  Descends(Parents)
  <1>1. ASSUME NEW d \in Run PROVE spec[d].parent \in Nat /\ spec[d].parent < d
    <2>1. CASE phase[d] = "new" \/ d = 1
      BY <2>1, RunFacts, NoSpecFields DEF Family
    <2>2. CASE phase[d] # "new" /\ d # 1
      BY <2>2, Depths, RunFacts
    <2> QED BY <2>1, <2>2
  <1> QED BY <1>1 DEF Descends, Parents

\* The runs above one are before it, and no more than its depth.
LEMMA AboveIsBounded ==
    ASSUME Shaped, Family, NEW c \in Run, phase[c] # "new"
    PROVE  /\ Above(c) \subseteq 1..c - 1
           /\ IsFiniteSet(Above(c)) /\ Cardinality(Above(c)) <= spec[c].depth
  <1> DEFINE Good(d) == /\ Above(d) \subseteq 1..d - 1
                        /\ IsFiniteSet(Above(d)) /\ Cardinality(Above(d)) <= spec[d].depth
             Bad == {d \in Run : phase[d] # "new" /\ ~Good(d)}
  <1>1. Descends(Parents)
    BY FamilyDescends
  <1>2. Bad = {}
    <2> SUFFICES ASSUME Bad # {} PROVE FALSE
      OBVIOUS
    <2>1. PICK d \in Bad : \A j \in Bad : d <= j
      <3>1. Bad \subseteq Nat
        BY RunFacts
      <3> HIDE DEF Bad
      <3> QED BY <3>1, LeastOf
    <2>2. d \in Run /\ phase[d] # "new" /\ d \in Nat /\ 1 <= d
      BY <2>1, RunFacts
    <2> DEFINE p == spec[d].parent
    <2>3. Above(d) = IF p = 0 THEN {} ELSE {p} \cup Above(p)
      BY <1>1, <2>2, AboveFacts
    <2>4. spec[d].depth \in Nat
      BY <2>2, OriginFields DEF Shaped
    <2>5. CASE d = 1
      <3>1. p = 0
        BY <2>5, NoSpecFields, RunFacts DEF Family
      <3>2. Above(d) = {}
        BY <2>3, <3>1
      <3>3. Good(d)
        BY <2>4, <3>2, FS_EmptySet
      <3> QED BY <2>1, <3>3
    <2>6. CASE d # 1
      <3>1. /\ p \in Run /\ p < d /\ phase[p] # "new" /\ p \in Nat /\ 1 <= p
            /\ spec[d].depth = spec[p].depth + 1
        BY <2>2, <2>6, Depths, RunFacts
      <3>2. spec[p].depth \in Nat
        BY <3>1, OriginFields DEF Shaped
      <3>3. Good(p)
        <4>1. ~(d <= p)
          BY <2>2, <3>1
        <4>2. p \notin Bad
          BY <2>1, <4>1
        <4> QED BY <3>1, <4>2
      <3>4. Above(d) = {p} \cup Above(p)
        BY <2>3, <3>1
      <3>5. Above(d) \subseteq 1..d - 1
        BY <2>2, <3>1, <3>3, <3>4
      <3>6. IsFiniteSet(Above(d)) /\ Cardinality(Above(d)) <= spec[d].depth
        <4> HIDE DEF p
        <4>1. IsFiniteSet(Above(p)) /\ Cardinality(Above(p)) <= spec[p].depth
          BY <3>3
        <4>2. IsFiniteSet(Above(p) \cup {p})
          BY <4>1, FS_AddElement
        <4>3. /\ Cardinality(Above(p) \cup {p}) = Cardinality(Above(p))
                 \/ Cardinality(Above(p) \cup {p}) = Cardinality(Above(p)) + 1
              /\ Cardinality(Above(p)) \in Nat
          BY <4>1, FS_AddElement, FS_CardinalityType
        <4>4. Above(d) = Above(p) \cup {p}
          BY <3>4
        <4> QED BY <3>1, <3>2, <4>1, <4>2, <4>3, <4>4
      <3>7. Good(d)
        BY <3>5, <3>6
      <3> QED BY <2>1, <3>7
    <2> QED BY <2>5, <2>6
  <1> QED BY <1>2

\* DepthExceeded "bounds the tree": however sub-agents are spawned, by a tool
\* call or a middleware, blocking or through the pool, no more runs stand above
\* one than the max_depth of its spec.
THEOREM TreeStaysBounded == Spec => []TreeIsBounded
  <1>1. Inv => TreeIsBounded
    <2> SUFFICES ASSUME Inv, NEW c \in Run \ {1}, phase[c] # "new"
                 PROVE  Cardinality(Above(c)) <= MaxDepth[spec[c].name]
      BY DEF TreeIsBounded
    <2>1. Shaped /\ Family
      BY DEF Inv
    <2>2. /\ Cardinality(Above(c)) <= spec[c].depth
          /\ IsFiniteSet(Above(c))
      BY <2>1, AboveIsBounded
    <2>3. spec[c].depth <= MaxDepth[spec[c].name] /\ spec[c].name \in Call
      BY <2>1, Depths
    <2>4. spec[c].depth \in Nat /\ MaxDepth[spec[c].name] \in Nat
      BY <2>1, <2>3, OriginFields, SubAgentsAssumption DEF Shaped
    <2>5. Cardinality(Above(c)) \in Nat
      BY <2>2, FS_CardinalityType
    <2> QED BY <2>2, <2>3, <2>4, <2>5
  <1> QED BY <1>1, InvAlways, PTL

-----------------------------------------------------------------------------
\* What the log says of the ends of the sub-agents

\* What the log and the phase of a sub-agent say when it is over.
Closing == {"subagent_returned", "subagent_failed"}
Verdict(kind) == IF kind = "subagent_returned" THEN "returned" ELSE "failed"

\* The log says that a sub-agent is over exactly when it is, and how it ended.
Reports ==
    /\ \A i \in 1..Len(log) : log[i].kind \in Closing =>
          log[i].child \in Run \ {1} /\ phase[log[i].child] = Verdict(log[i].kind)
    /\ \A c \in Run \ {1} : phase[c] \in Closed =>
          \E i \in 1..Len(log) : log[i].kind \in Closing /\ log[i].child = c

\* What every step leaves alone, and what it says of a run it closes.
Frame ==
    /\ log' \in Seq(Event) /\ Extends(log, log')
    /\ \A q \in Run : phase[q] # "new" => spec'[q] = spec[q]
    /\ \A q \in Run : phase[q] \in Closed => phase'[q] = phase[q]
    /\ \A i \in Len(log) + 1..Len(log') : log'[i].kind \in Closing =>
          /\ log'[i].child \in Run \ {1} /\ phase[log'[i].child] \notin Closed
          /\ phase'[log'[i].child] = Verdict(log'[i].kind)
    /\ \A q \in Run \ {1} : phase[q] \notin Closed /\ phase'[q] \in Closed =>
          \E i \in Len(log) + 1..Len(log') : log'[i].kind \in Closing /\ log'[i].child = q

LEMMA ReportsStay ==
    ASSUME log \in Seq(Event), Reports, Frame
    PROVE  Reports'
  <1>1. /\ log' \in Seq(Event) /\ Extends(log, log') /\ Len(log) \in Nat /\ Len(log') \in Nat
        /\ \A q \in Run : phase[q] \in Closed => phase'[q] = phase[q]
    BY DEF Frame
  <1>2. ASSUME NEW i \in 1..Len(log'), log'[i].kind \in Closing
        PROVE  log'[i].child \in Run \ {1} /\ phase'[log'[i].child] = Verdict(log'[i].kind)
    <2>1. CASE i \in 1..Len(log) /\ log'[i] = log[i]
      <3>1. log[i].child \in Run \ {1} /\ phase[log[i].child] = Verdict(log[i].kind)
        BY <1>2, <2>1 DEF Reports
      <3>2. phase[log[i].child] \in Closed
        BY <3>1 DEF Verdict, Closed
      <3> QED BY <1>1, <2>1, <3>1, <3>2
    <2>2. CASE i \in Len(log) + 1..Len(log')
      BY <1>2, <2>2 DEF Frame
    <2> QED BY <1>1, <2>1, <2>2, InTwoParts
  <1>3. ASSUME NEW c \in Run \ {1}, phase'[c] \in Closed
        PROVE  \E i \in 1..Len(log') : log'[i].kind \in Closing /\ log'[i].child = c
    <2>1. CASE phase[c] \in Closed
      <3>1. PICK i \in 1..Len(log) : log[i].kind \in Closing /\ log[i].child = c
        BY <2>1 DEF Reports
      <3>2. i \in 1..Len(log') /\ log'[i] = log[i]
        BY <1>1, <3>1 DEF Extends
      <3> QED BY <3>1, <3>2
    <2>2. CASE phase[c] \notin Closed
      <3>1. PICK i \in Len(log) + 1..Len(log') : log'[i].kind \in Closing /\ log'[i].child = c
        BY <1>3, <2>2 DEF Frame
      <3>2. i \in 1..Len(log')
        BY <1>1, <3>1
      <3> QED BY <3>1, <3>2
    <2> QED BY <2>1, <2>2
  <1> QED BY <1>2, <1>3 DEF Reports

LEMMA NewlyReturned ==
    ASSUME Frame, NEW c \in Run \ {1}, phase'[c] = "returned", phase[c] # "returned"
    PROVE  \E i \in Len(log) + 1..Len(log') :
              log'[i].kind = "subagent_returned" /\ log'[i].child = c
  <1>1. phase[c] \notin Closed
    BY DEF Frame
  <1>2. PICK i \in Len(log) + 1..Len(log') : log'[i].kind \in Closing /\ log'[i].child = c
    BY <1>1 DEF Frame, Closed
  <1>3. phase'[c] = Verdict(log'[i].kind)
    BY <1>2 DEF Frame
  <1> QED BY <1>2, <1>3 DEF Verdict, Closing

LEMMA OverAtFacts ==
    ASSUME NEW kinds, NEW c, NEW i, log \in Seq(Event)
    PROVE  i \in OverAt(kinds, c) <=> i \in 1..Len(log) /\ log[i].kind \in kinds /\ log[i].child = c
  <1>1. DOMAIN log = 1..Len(log)
    OBVIOUS
  <1> QED BY <1>1 DEF OverAt

\* A sub-agent too late for its parent's report stays so.
LEMMA LateStays ==
    ASSUME log \in Seq(Event), Frame, NEW d \in Run \ {1}, phase[d] \in Closed, ~InTime(d)
    PROVE  ~InTime(d)'
  <1> SUFFICES ASSUME InTime(d)' PROVE InTime(d)
    OBVIOUS
  <1>1. /\ log' \in Seq(Event) /\ Extends(log, log') /\ Len(log) \in Nat /\ Len(log') \in Nat
        /\ spec'[d] = spec[d]
    <2>1. phase[d] # "new"
      BY DEF Closed
    <2> QED BY <2>1 DEF Frame
  <1> DEFINE p == spec[d].parent
  <1>2. PICK i \in 1..Len(log') :
            /\ log'[i].kind \in {"subagent_returned"} /\ log'[i].child = d
            /\ \A j \in 1..Len(log') : log'[j].kind \in Closing /\ log'[j].child = p => i < j
    <2>1. DOMAIN log' = 1..Len(log')
      BY <1>1
    <2> QED BY <1>1, <2>1 DEF InTime, OverAt, Closing
  <1>3. i \in 1..Len(log) /\ log'[i] = log[i]
    <2>1. ~(i \in Len(log) + 1..Len(log'))
      BY <1>2 DEF Frame, Closing
    <2> QED BY <1>1, <2>1, InTwoParts
  <1>4. i \in OverAt({"subagent_returned"}, d)
    BY <1>2, <1>3, OverAtFacts
  <1>5. ASSUME NEW j \in OverAt(Closing, p) PROVE i < j
    <2>1. j \in 1..Len(log) /\ log[j].kind \in Closing /\ log[j].child = p
      BY <1>5, OverAtFacts
    <2>2. j \in 1..Len(log') /\ log'[j] = log[j]
      BY <1>1, <2>1 DEF Extends
    <2> QED BY <1>2, <2>1, <2>2
  <1> QED BY <1>4, <1>5 DEF InTime, Closing

-----------------------------------------------------------------------------
\* Whose report a model call went into

Inherited(cred, r, i) ==
    \E d \in Run \ {1} : spec[d].parent = r /\ phase[d] = "returned" /\ i \in cred[d]

Late(cred, c, i) ==
    \E d \in Run \ {1} : spec[d].parent = c /\ phase[d] = "returned" /\ i \in cred[d] /\ ~InTime(d)

\* A run's tokens are the model calls it is credited with: its own, and those of
\* the sub-agents that returned to it.  It passes on all it has when it returns,
\* and what reaches it later, too late.
Credited(cred) ==
    /\ cred \in [Run -> SUBSET (1..Len(log))]
    /\ \A r \in Run : Cardinality(cred[r]) = TotalTokens(log, r)
    /\ \A r \in Run : \A i \in cred[r] :
          log[i].kind = "model_call" /\ (log[i].run = r \/ Inherited(cred, r, i))
    /\ \A i \in 1..Len(log) : log[i].kind = "model_call" => i \in cred[log[i].run]
    /\ \A c \in Run \ {1} : phase[c] = "returned" =>
          \A i \in cred[c] : i \in cred[spec[c].parent] \/ Late(cred, c, i)

Credits == \E cred : Credited(cred)

\* What was credited stays credited.
LEMMA CreditStays ==
    ASSUME log \in Seq(Event), Shaped, Family, Frame, NEW cred, Credited(cred), NEW more,
           \A r \in Run : cred[r] \subseteq more[r]
    PROVE  /\ \A r \in Run : \A i \in cred[r] :
                 /\ i \in 1..Len(log) /\ i \in 1..Len(log') /\ log'[i] = log[i]
                 /\ log'[i].kind = "model_call" /\ (log'[i].run = r \/ Inherited(more, r, i)')
           /\ \A c \in Run \ {1} : phase[c] = "returned" =>
                 \A i \in cred[c] : i \in more[spec'[c].parent] \/ Late(more, c, i)'
  <1>1. /\ log' \in Seq(Event) /\ Extends(log, log') /\ Len(log) \in Nat /\ Len(log') \in Nat
        /\ \A q \in Run : phase[q] # "new" => spec'[q] = spec[q]
        /\ \A q \in Run : phase[q] \in Closed => phase'[q] = phase[q]
    BY DEF Frame
  <1>2. \A q \in Run : phase[q] = "returned" => phase'[q] = "returned" /\ spec'[q] = spec[q]
    BY <1>1 DEF Closed
  <1>3. ASSUME NEW r \in Run, NEW i \in cred[r]
        PROVE  /\ i \in 1..Len(log) /\ i \in 1..Len(log') /\ log'[i] = log[i]
               /\ log'[i].kind = "model_call" /\ (log'[i].run = r \/ Inherited(more, r, i)')
    <2>1. i \in 1..Len(log) /\ log[i].kind = "model_call" /\ (log[i].run = r \/ Inherited(cred, r, i))
      BY <1>3 DEF Credited
    <2>2. i \in 1..Len(log') /\ log'[i] = log[i]
      BY <1>1, <2>1 DEF Extends
    <2>3. Inherited(cred, r, i) => Inherited(more, r, i)'
      BY <1>2 DEF Inherited
    <2> QED BY <2>1, <2>2, <2>3
  <1>4. ASSUME NEW c \in Run \ {1}, phase[c] = "returned", NEW i \in cred[c]
        PROVE  i \in more[spec'[c].parent] \/ Late(more, c, i)'
    <2>1. i \in cred[spec[c].parent] \/ Late(cred, c, i)
      BY <1>4 DEF Credited
    <2>2. spec[c].parent \in Run /\ spec'[c].parent = spec[c].parent
      BY <1>2, <1>4, Depths
    <2>3. Late(cred, c, i) => Late(more, c, i)'
      <3>1. \A d \in Run \ {1} : phase[d] = "returned" /\ ~InTime(d) => ~InTime(d)'
        BY LateStays DEF Closed
      <3> HIDE DEF InTime
      <3> QED BY <1>2, <3>1 DEF Late
    <2> QED BY <2>1, <2>2, <2>3
  <1> QED BY <1>3, <1>4

\* A step whose lines cost nobody anything.
LEMMA FreeStep ==
    ASSUME log \in Seq(Event), Shaped, Family, Frame, Credits,
           \A i \in Len(log) + 1..Len(log') :
              log'[i].kind # "model_call" /\ log'[i].kind # "subagent_returned"
    PROVE  Credits'
  <1>1. PICK cred : Credited(cred)
    BY DEF Credits
  <1>2. /\ \A r \in Run : \A i \in cred[r] :
                 /\ i \in 1..Len(log) /\ i \in 1..Len(log') /\ log'[i] = log[i]
                 /\ log'[i].kind = "model_call" /\ (log'[i].run = r \/ Inherited(cred, r, i)')
        /\ \A c \in Run \ {1} : phase[c] = "returned" =>
                 \A i \in cred[c] : i \in cred[spec'[c].parent] \/ Late(cred, c, i)'
    BY <1>1, CreditStays
  <1>3. log' \in Seq(Event) /\ Extends(log, log')
    BY DEF Frame
  <1>4. cred \in [Run -> SUBSET (1..Len(log'))]
    BY <1>1, <1>2 DEF Credited
  <1>5. ASSUME NEW r \in Run PROVE Cardinality(cred[r]) = TotalTokens(log', r)
    <2>1. \A i \in Len(log) + 1..Len(log') : ~Billed(log'[i], r)
      BY DEF Billed
    <2>2. TotalTokens(log', r) = TotalTokens(log, r)
      BY <1>3, <2>1, TokensStand
    <2> QED BY <1>1, <2>2 DEF Credited
  <1>6. ASSUME NEW i \in 1..Len(log'), log'[i].kind = "model_call" PROVE i \in cred[log'[i].run]
    <2>1. i \in 1..Len(log) /\ log'[i] = log[i]
      BY <1>3, <1>6, InTwoParts
    <2> QED BY <1>1, <1>6, <2>1 DEF Credited
  <1>7. ASSUME NEW c \in Run \ {1}, phase'[c] = "returned" PROVE phase[c] = "returned"
    BY <1>7, NewlyReturned
  <1>8. Credited(cred)'
    BY <1>2, <1>4, <1>5, <1>6, <1>7 DEF Credited
  <1> QED BY <1>8 DEF Credits

\* A model call: its run is credited with it.
LEMMA ModelStep ==
    ASSUME log \in Seq(Event), Shaped, Family, Frame, Credits, NEW r \in Run,
           phase'[r] \notin Closed, NEW p \in Len(log) + 1..Len(log'),
           log'[p].kind = "model_call", log'[p].run = r, log'[p].tokens = 1,
           \A i \in Len(log) + 1..Len(log') :
              /\ log'[i].kind = "model_call" => i = p
              /\ log'[i].kind # "subagent_returned"
    PROVE  Credits'
  <1>1. PICK cred : Credited(cred)
    BY DEF Credits
  <1> DEFINE more == [cred EXCEPT ![r] = @ \cup {p}]
  <1>2. /\ cred \in [Run -> SUBSET (1..Len(log))] /\ log' \in Seq(Event) /\ Extends(log, log')
        /\ Len(log) \in Nat /\ Len(log') \in Nat
    BY <1>1 DEF Credited, Frame
  <1>3. /\ more[r] = cred[r] \cup {p} /\ \A q \in Run \ {r} : more[q] = cred[q]
        /\ p \notin cred[r] /\ p \in 1..Len(log') /\ DOMAIN more = Run
        /\ more = [q \in Run |-> more[q]]
    <2>1. cred[r] \subseteq 1..Len(log) /\ DOMAIN cred = Run
      BY <1>2
    <2>2. p \notin 1..Len(log) /\ p \in 1..Len(log')
      BY <1>2
    <2> QED BY <2>1, <2>2
  <1> HIDE DEF more
  <1>4. \A q \in Run : cred[q] \subseteq more[q]
    BY <1>3
  <1>5. /\ \A q \in Run : \A i \in cred[q] :
                 /\ i \in 1..Len(log) /\ i \in 1..Len(log') /\ log'[i] = log[i]
                 /\ log'[i].kind = "model_call" /\ (log'[i].run = q \/ Inherited(more, q, i)')
        /\ \A c \in Run \ {1} : phase[c] = "returned" =>
                 \A i \in cred[c] : i \in more[spec'[c].parent] \/ Late(more, c, i)'
    BY <1>1, <1>4, CreditStays
  <1>6. more \in [Run -> SUBSET (1..Len(log'))]
    <2>1. \A q \in Run : more[q] \subseteq 1..Len(log')
      BY <1>3, <1>5
    <2> QED BY <1>3, <2>1
  <1>7. ASSUME NEW q \in Run PROVE Cardinality(more[q]) = TotalTokens(log', q)
    <2>1. Cardinality(cred[q]) = TotalTokens(log, q)
      BY <1>1 DEF Credited
    <2>2. CASE q # r
      <3>1. \A i \in Len(log) + 1..Len(log') : ~Billed(log'[i], q)
        BY <2>2 DEF Billed
      <3>2. TotalTokens(log', q) = TotalTokens(log, q)
        BY <1>2, <3>1, TokensStand
      <3> QED BY <1>3, <2>1, <2>2, <3>2
    <2>3. CASE q = r
      <3>1. Billed(log'[p], r) /\ \A i \in Len(log) + 1..Len(log') : Billed(log'[i], r) => i = p
        BY DEF Billed
      <3>2. TotalTokens(log', r) = TotalTokens(log, r) + 1
        BY <1>2, <3>1, TokensGrow
      <3>3. IsFiniteSet(cred[r])
        BY <1>2, PositionsAreFinite
      <3>4. Cardinality(cred[r] \cup {p}) = Cardinality(cred[r]) + 1
        BY <1>3, <3>3, FS_AddElement
      <3> QED BY <1>3, <2>1, <2>3, <3>2, <3>4
    <2> QED BY <2>2, <2>3
  <1>8. ASSUME NEW q \in Run, NEW i \in more[q]
        PROVE  log'[i].kind = "model_call" /\ (log'[i].run = q \/ Inherited(more, q, i)')
    <2>1. i \in cred[q] \/ (q = r /\ i = p)
      BY <1>3, <1>8
    <2> QED BY <1>5, <2>1
  <1>9. ASSUME NEW i \in 1..Len(log'), log'[i].kind = "model_call" PROVE i \in more[log'[i].run]
    <2>1. CASE i \in 1..Len(log) /\ log'[i] = log[i]
      <3>1. i \in cred[log[i].run] /\ log[i].run \in Run
        BY <1>1, <1>9, <2>1, EventFields DEF Credited
      <3> QED BY <1>4, <2>1, <3>1
    <2>2. CASE i \in Len(log) + 1..Len(log')
      BY <1>3, <1>9, <2>2
    <2> QED BY <1>2, <2>1, <2>2, InTwoParts
  <1>10. ASSUME NEW c \in Run \ {1}, phase'[c] = "returned", NEW i \in more[c]
         PROVE  i \in more[spec'[c].parent] \/ Late(more, c, i)'
    <2>1. c # r
      BY <1>10 DEF Closed
    <2>2. phase[c] = "returned"
      BY <1>10, NewlyReturned
    <2>3. i \in cred[c]
      BY <1>3, <1>10, <2>1
    <2> QED BY <1>5, <2>2, <2>3
  <1>11. Credited(more)'
    BY <1>6, <1>7, <1>8, <1>9, <1>10 DEF Credited
  <1> QED BY <1>11 DEF Credits

-----------------------------------------------------------------------------
\* Below a run

LEMMA Parented ==
    ASSUME Shaped, Family, NEW d \in Run
    PROVE  /\ d \in Nat /\ Above(d) \subseteq 1..d - 1 /\ d \notin Above(d)
           /\ spec[d].parent = 0 => Above(d) = {}
           /\ spec[d].parent # 0 =>
                 /\ d # 1 /\ phase[d] # "new" /\ spec[d].parent \in Run /\ spec[d].parent < d
                 /\ Above(d) = {spec[d].parent} \cup Above(spec[d].parent)
  <1>1. Above(d) = IF spec[d].parent = 0 THEN {} ELSE {spec[d].parent} \cup Above(spec[d].parent)
    BY FamilyDescends, AboveFacts
  <1>2. d \in Nat
    BY RunFacts
  <1>3. CASE phase[d] = "new" \/ d = 1
    <2>1. spec[d].parent = 0
      BY <1>3, NoSpecFields DEF Family
    <2> QED BY <1>1, <1>2, <2>1
  <1>4. CASE phase[d] # "new" /\ d # 1
    <2>1. spec[d].parent \in Run /\ spec[d].parent < d
      BY <1>4, Depths
    <2>2. spec[d].parent # 0
      BY <2>1, RunFacts
    <2>3. Above(d) \subseteq 1..d - 1
      BY <1>4, AboveIsBounded
    <2> QED BY <1>1, <1>2, <1>4, <2>1, <2>2, <2>3
  <1> QED BY <1>3, <1>4

\* What a run stands below, it stands below the parent of too.
LEMMA AboveUp ==
    ASSUME Shaped, Family, NEW x \in Run, NEW d \in Above(x), d \in Run, spec[d].parent # 0
    PROVE  spec[d].parent \in Above(x)
  <1> DEFINE Bad == {y \in Run : d \in Above(y) /\ spec[d].parent \notin Above(y)}
  <1>1. Bad = {}
    <2> SUFFICES ASSUME Bad # {} PROVE FALSE
      OBVIOUS
    <2>1. PICK y \in Bad : \A j \in Bad : y <= j
      <3>1. Bad \subseteq Nat
        BY RunFacts
      <3> HIDE DEF Bad
      <3> QED BY <3>1, LeastOf
    <2>2. y \in Run /\ d \in Above(y) /\ spec[d].parent \notin Above(y)
      BY <2>1
    <2> DEFINE q == spec[y].parent
    <2>3. q \in Run /\ q < y /\ Above(y) = {q} \cup Above(q) /\ y \in Nat /\ q \in Nat
      BY <2>2, Parented, RunFacts
    <2>4. CASE d = q
      <3>1. spec[d].parent \in Above(d)
        BY Parented
      <3> QED BY <2>2, <2>3, <2>4, <3>1
    <2>5. CASE d \in Above(q)
      <3>1. q \notin Bad
        BY <2>1, <2>3
      <3> QED BY <2>2, <2>3, <2>5, <3>1
    <2> QED BY <2>2, <2>3, <2>4, <2>5
  <1> QED BY <1>1

LEMMA BelowUp ==
    ASSUME Shaped, Family, NEW d \in Run, spec[d].parent # 0
    PROVE  Below(d) \subseteq Below(spec[d].parent)
  <1> SUFFICES ASSUME NEW x \in Below(d) PROVE x \in Below(spec[d].parent)
    OBVIOUS
  <1>1. x \in Run /\ (x = d \/ d \in Above(x))
    BY DEF Below
  <1>2. spec[d].parent \in Above(x)
    BY <1>1, Parented, AboveUp
  <1> QED BY <1>1, <1>2 DEF Below

\* Runs with one parent have nobody below them in common.
LEMMA OneBranch ==
    ASSUME Shaped, Family, NEW c \in Run, NEW d \in Run, spec[c].parent = spec[d].parent,
           spec[c].parent # 0, NEW x \in Below(c), x \in Below(d)
    PROVE  c = d
  <1> DEFINE Bad == {y \in Run : y \in Below(c) /\ y \in Below(d)}
  <1> SUFFICES ASSUME c # d PROVE FALSE
    OBVIOUS
  <1>1. PICK y \in Bad : \A j \in Bad : y <= j
    <2>1. x \in Bad
      BY DEF Below
    <2>2. Bad \subseteq Nat
      BY RunFacts
    <2> HIDE DEF Bad
    <2> QED BY <2>1, <2>2, LeastOf
  <1>2. y \in Run /\ (y = c \/ c \in Above(y)) /\ (y = d \/ d \in Above(y))
    BY <1>1 DEF Below
  <1> DEFINE p == spec[c].parent
             q == spec[y].parent
  <1>3. /\ p \in Run /\ p < c /\ p < d /\ c \in Nat /\ d \in Nat /\ p \in Nat
        /\ Above(c) = {p} \cup Above(p) /\ Above(d) = {p} \cup Above(p)
        /\ Above(p) \subseteq 1..p - 1
    <2>1. /\ p \in Run /\ p < c /\ Above(c) = {p} \cup Above(p) /\ c \in Nat
      BY Parented
    <2>2. p < d /\ Above(d) = {p} \cup Above(p) /\ d \in Nat
      BY Parented
    <2>3. p \in Nat /\ Above(p) \subseteq 1..p - 1
      BY <2>1, Parented
    <2> QED BY <2>1, <2>2, <2>3
  <1>4. d \notin Above(c) /\ c \notin Above(d)
    BY <1>3
  <1>5. y # c /\ y # d
    BY <1>2, <1>4
  <1>6. q \in Run /\ q < y /\ Above(y) = {q} \cup Above(q) /\ y \in Nat /\ q \in Nat
    BY <1>2, <1>5, Parented, RunFacts
  <1>7. q \in Below(c) /\ q \in Below(d)
    BY <1>2, <1>5, <1>6 DEF Below
  <1>8. q \in Bad
    BY <1>6, <1>7
  <1> HIDE DEF q, Bad
  <1> QED BY <1>1, <1>6, <1>8

\* Nobody is credited with a model call of a run that is not below.
LEMMA CreditsAreBelow ==
    ASSUME log \in Seq(Event), Shaped, Family, NEW cred, Credited(cred), NEW r \in Run,
           NEW i \in cred[r]
    PROVE  log[i].run \in Below(r)
  <1> DEFINE Bad == {y \in Run : i \in cred[y] /\ log[i].run \notin Below(y)}
  <1>1. Bad = {}
    <2> SUFFICES ASSUME Bad # {} PROVE FALSE
      OBVIOUS
    <2>1. PICK y \in Bad : \A j \in Bad : j <= y
      <3>1. Bad \subseteq 1..Runs /\ Runs \in Nat
        BY RunFacts DEF Run
      <3> HIDE DEF Bad
      <3> QED BY <3>1, GreatestOf
    <2>2. y \in Run /\ i \in cred[y] /\ log[i].run \notin Below(y)
      BY <2>1
    <2>3. i \in 1..Len(log) /\ (log[i].run = y \/ Inherited(cred, y, i))
      BY <2>2 DEF Credited
    <2>4. log[i].run # y
      BY <2>2 DEF Below
    <2>5. PICK d \in Run : spec[d].parent = y /\ i \in cred[d]
      BY <2>3, <2>4 DEF Inherited
    <2>6. y \in Nat /\ y # 0
      BY <2>2, RunFacts
    <2>7. y < d /\ d \in Nat
      BY <2>5, <2>6, Parented
    <2>8. log[i].run \in Below(d)
      <3>1. d \notin Bad
        BY <2>1, <2>6, <2>7
      <3> QED BY <2>5, <3>1
    <2>9. Below(d) \subseteq Below(y)
      BY <2>5, <2>6, BelowUp
    <2> QED BY <2>2, <2>8, <2>9
  <1> QED BY <1>1

\* A run and a child that has not returned are credited with nothing in common.
LEMMA Unshared ==
    ASSUME log \in Seq(Event), Shaped, Family, NEW cred, Credited(cred), NEW r \in Run,
           phase[r] # "returned", spec[r].parent # 0
    PROVE  cred[spec[r].parent] \cap cred[r] = {}
  <1> DEFINE p == spec[r].parent
  <1> SUFFICES ASSUME NEW i \in cred[p], i \in cred[r] PROVE FALSE
    OBVIOUS
  <1>1. p \in Run /\ p < r /\ r \in Nat /\ p \in Nat
    BY Parented, RunFacts
  <1>2. log[i].run \in Below(r)
    BY CreditsAreBelow
  <1>3. log[i].run = p \/ Inherited(cred, p, i)
    BY <1>1 DEF Credited
  <1>4. log[i].run # p
    <2>1. p \notin Below(r)
      <3>1. Above(p) \subseteq 1..p - 1
        BY <1>1, Parented
      <3> QED BY <1>1, <3>1 DEF Below
    <2> QED BY <1>2, <2>1
  <1>5. PICK d \in Run : spec[d].parent = p /\ phase[d] = "returned" /\ i \in cred[d]
    BY <1>3, <1>4 DEF Inherited
  <1>6. log[i].run \in Below(d)
    BY <1>5, CreditsAreBelow
  <1>7. d = r
    BY <1>2, <1>5, <1>6, OneBranch
  <1> QED BY <1>5, <1>7

\* A sub-agent returns: its parent is credited with all it has.
LEMMA ReturnStep ==
    ASSUME log \in Seq(Event), Shaped, Family, Frame, Reports, Credits, NEW r \in Run \ {1},
           phase[r] \notin Closed \cup {"new"}, phase'[r] = "returned",
           NEW p \in Len(log) + 1..Len(log'),
           log'[p].kind = "subagent_returned", log'[p].run = spec[r].parent,
           log'[p].child = r, log'[p].tokens = TotalTokens(log, r),
           \A i \in Len(log) + 1..Len(log') :
              /\ log'[i].kind # "model_call"
              /\ log'[i].kind = "subagent_returned" => i = p
    PROVE  Credits'
  <1>1. PICK cred : Credited(cred)
    BY DEF Credits
  <1>a. PICK a : a = spec[r].parent
    OBVIOUS
  <1> DEFINE more == [cred EXCEPT ![a] = @ \cup cred[r]]
  <1>2. /\ cred \in [Run -> SUBSET (1..Len(log))] /\ log' \in Seq(Event) /\ Extends(log, log')
        /\ Len(log) \in Nat /\ Len(log') \in Nat
    BY <1>1 DEF Credited, Frame
  <1>3. /\ a \in Run /\ a # r /\ a # 0 /\ spec'[r] = spec[r] /\ a \in Nat /\ r \in Nat
    <2>1. a \in Run /\ a < r /\ phase[r] # "new"
      BY <1>a, Depths
    <2>2. a \in Nat /\ r \in Nat /\ a # 0
      BY <2>1, RunFacts
    <2>3. spec'[r] = spec[r]
      BY <2>1 DEF Frame
    <2> QED BY <2>1, <2>2, <2>3
  <1>4. /\ more[a] = cred[a] \cup cred[r] /\ \A q \in Run \ {a} : more[q] = cred[q]
        /\ DOMAIN more = Run /\ more = [q \in Run |-> more[q]]
    BY <1>2, <1>3
  <1> HIDE DEF more
  <1>5. (\A q \in Run : cred[q] \subseteq more[q]) /\ more[r] = cred[r]
    BY <1>3, <1>4
  <1>6. /\ \A q \in Run : \A i \in cred[q] :
                 /\ i \in 1..Len(log) /\ i \in 1..Len(log') /\ log'[i] = log[i]
                 /\ log'[i].kind = "model_call" /\ (log'[i].run = q \/ Inherited(more, q, i)')
        /\ \A c \in Run \ {1} : phase[c] = "returned" =>
                 \A i \in cred[c] : i \in more[spec'[c].parent] \/ Late(more, c, i)'
    BY <1>1, <1>5, CreditStays
  <1>7. more \in [Run -> SUBSET (1..Len(log'))]
    <2>1. cred[a] \subseteq 1..Len(log') /\ cred[r] \subseteq 1..Len(log')
      BY <1>3, <1>6
    <2>2. \A q \in Run \ {a} : more[q] \subseteq 1..Len(log')
      BY <1>4, <1>6
    <2>3. \A q \in Run : more[q] \subseteq 1..Len(log')
      BY <1>4, <2>1, <2>2
    <2> QED BY <1>4, <2>3
  <1>8. ASSUME NEW q \in Run PROVE Cardinality(more[q]) = TotalTokens(log', q)
    <2>1. Cardinality(cred[q]) = TotalTokens(log, q) /\ Cardinality(cred[r]) = TotalTokens(log, r)
      BY <1>1 DEF Credited
    <2>2. CASE q # a
      <3>1. \A i \in Len(log) + 1..Len(log') : ~Billed(log'[i], q)
        BY <1>a, <2>2 DEF Billed
      <3>2. TotalTokens(log', q) = TotalTokens(log, q)
        BY <1>2, <3>1, TokensStand
      <3> QED BY <1>4, <2>1, <2>2, <3>2
    <2>3. CASE q = a
      <3>1. Billed(log'[p], a) /\ \A i \in Len(log) + 1..Len(log') : Billed(log'[i], a) => i = p
        BY <1>a DEF Billed
      <3>2. TotalTokens(log', a) = TotalTokens(log, a) + TotalTokens(log, r)
        BY <1>2, <3>1, TokensGrow
      <3>3. IsFiniteSet(cred[r]) /\ IsFiniteSet(cred[a])
        BY <1>2, <1>3, PositionsAreFinite
      <3>4. cred[a] \cap cred[r] = {}
        BY <1>1, <1>a, <1>3, Unshared DEF Closed
      <3>5. Cardinality(cred[a] \cup cred[r]) = Cardinality(cred[a]) + Cardinality(cred[r])
        <4>1. Cardinality(cred[a] \cap cred[r]) = 0
          BY <3>4, FS_EmptySet
        <4>2. Cardinality(cred[a] \cup cred[r]) = Cardinality(cred[a]) + Cardinality(cred[r])
                                                  - Cardinality(cred[a] \cap cred[r])
          BY <3>3, FS_Union
        <4>3. Cardinality(cred[a]) \in Nat /\ Cardinality(cred[r]) \in Nat
          BY <3>3, FS_CardinalityType
        <4> QED BY <4>1, <4>2, <4>3
      <3> QED BY <1>4, <2>1, <2>3, <3>2, <3>5
    <2> QED BY <2>2, <2>3
  <1>9. ASSUME NEW q \in Run, NEW i \in more[q]
        PROVE  log'[i].kind = "model_call" /\ (log'[i].run = q \/ Inherited(more, q, i)')
    <2>1. CASE i \in cred[q]
      BY <1>6, <2>1
    <2>2. CASE i \notin cred[q]
      <3>1. q = a /\ i \in cred[r]
        BY <1>4, <1>9, <2>2
      <3>2. Inherited(more, q, i)'
        BY <1>a, <1>3, <1>5, <3>1 DEF Inherited
      <3> QED BY <1>6, <3>1, <3>2
    <2> QED BY <2>1, <2>2
  <1>10. ASSUME NEW i \in 1..Len(log'), log'[i].kind = "model_call" PROVE i \in more[log'[i].run]
    <2>1. i \in 1..Len(log) /\ log'[i] = log[i]
      BY <1>2, <1>10, InTwoParts
    <2>2. i \in cred[log[i].run] /\ log[i].run \in Run
      BY <1>1, <1>10, <2>1, EventFields DEF Credited
    <2> QED BY <1>5, <2>1, <2>2
  <1>11. ASSUME NEW c \in Run \ {1}, phase'[c] = "returned", NEW i \in more[c]
         PROVE  i \in more[spec'[c].parent] \/ Late(more, c, i)'
    <2>1. CASE c = r
      BY <1>a, <1>3, <1>4, <1>5, <1>11, <2>1
    <2>2. CASE c # r
      <3>1. phase[c] = "returned"
        BY <1>11, <2>2, NewlyReturned
      <3>2. CASE i \in cred[c]
        BY <1>6, <3>1, <3>2
      <3>3. CASE i \notin cred[c]
        <4>1. c = a /\ i \in cred[r]
          BY <1>4, <1>11, <3>3
        <4>2. ~InTime(r)'
          <5> SUFFICES ASSUME InTime(r)' PROVE FALSE
            OBVIOUS
          <5>1. DOMAIN log' = 1..Len(log') /\ spec'[r].parent = c
            BY <1>a, <1>2, <1>3, <4>1
          <5>2. PICK j \in 1..Len(log') :
                    /\ log'[j].kind = "subagent_returned" /\ log'[j].child = r
                    /\ \A k \in 1..Len(log') :
                          log'[k].kind \in Closing /\ log'[k].child = c => j < k
            <6>1. PICK j \in OverAt({"subagent_returned"}, r)' :
                      \A k \in OverAt(Closing, c)' : j < k
              BY <5>1 DEF InTime, OverAt, Closing
            <6>2. j \in 1..Len(log') /\ log'[j].kind = "subagent_returned" /\ log'[j].child = r
              BY <5>1, <6>1 DEF OverAt
            <6>3. ASSUME NEW k \in 1..Len(log'), log'[k].kind \in Closing, log'[k].child = c
                  PROVE  j < k
              <7>1. k \in OverAt(Closing, c)'
                BY <5>1, <6>3 DEF OverAt
              <7> QED BY <6>1, <7>1
            <6> QED BY <6>2, <6>3
          <5>3. j = p
            <6>1. CASE j \in 1..Len(log) /\ log'[j] = log[j]
              <7>1. phase[r] = Verdict(log[j].kind)
                BY <5>2, <6>1 DEF Reports, Closing
              <7> QED BY <7>1 DEF Verdict, Closed
            <6>2. CASE j \in Len(log) + 1..Len(log')
              BY <5>2, <6>2
            <6> QED BY <1>2, <6>1, <6>2, InTwoParts
          <5>4. PICK k \in 1..Len(log) : log[k].kind \in Closing /\ log[k].child = c
            BY <1>11, <3>1 DEF Reports, Closed
          <5>5. k \in 1..Len(log') /\ log'[k] = log[k] /\ ~(p < k)
            BY <1>2, <5>4 DEF Extends
          <5> QED BY <5>2, <5>3, <5>4, <5>5
        <4>3. Late(more, c, i)'
          <5> HIDE DEF InTime
          <5> QED BY <1>a, <1>3, <1>5, <4>1, <4>2 DEF Late
        <4> QED BY <4>3
      <3> QED BY <3>2, <3>3
    <2> QED BY <2>1, <2>2
  <1>12. Credited(more)'
    BY <1>7, <1>8, <1>9, <1>10, <1>11 DEF Credited
  <1> QED BY <1>12 DEF Credits

-----------------------------------------------------------------------------
\* The steps keep the books

LEMMA NewLines ==
    ASSUME log \in Seq(Event), NEW S \in SUBSET Event, NEW lines \in Seq(S), log' = log \o lines
    PROVE  /\ log' \in Seq(Event) /\ Extends(log, log') /\ Len(log') = Len(log) + Len(lines)
           /\ \A k \in 1..Len(lines) : log'[Len(log) + k] = lines[k]
           /\ \A i \in Len(log) + 1..Len(log') : log'[i] \in S
  <1>1. lines \in Seq(Event) /\ \A k \in 1..Len(lines) : lines[k] \in S
    OBVIOUS
  <1> DEFINE t == log \o lines
  <1>2. /\ t \in Seq(Event) /\ Extends(log, t) /\ Len(t) = Len(log) + Len(lines)
        /\ \A k \in 1..Len(lines) : t[Len(log) + k] = lines[k]
        /\ \A i \in Len(log) + 1..Len(t) :
              i - Len(log) \in 1..Len(lines) /\ t[i] = lines[i - Len(log)]
    BY <1>1, ExtendsConcat
  <1>3. log' = t
    OBVIOUS
  <1> HIDE DEF t
  <1> QED BY <1>1, <1>2, <1>3

\* The lines of a step that costs nothing and closes nobody.
Plain == {e \in Event : e.kind \notin {"model_call"} \cup Closing}

\* A step that closes nobody moves one run.
LEMMA OpenFrame ==
    ASSUME Shaped, log' \in Seq(Event), Extends(log, log'),
           NEW c \in Run, phase[c] \notin Closed, NEW p, p \notin Closed,
           phase' = [phase EXCEPT ![c] = p],
           \A q \in Run : phase[q] # "new" => spec'[q] = spec[q],
           \A i \in Len(log) + 1..Len(log') : log'[i].kind \notin Closing
    PROVE  Frame
  <1>1. phase'[c] = p /\ \A q \in Run \ {c} : phase'[q] = phase[q]
    BY DEF Shaped
  <1> QED BY <1>1 DEF Frame

LEMMA ClosingFrame ==
    ASSUME Shaped, log' \in Seq(Event), Extends(log, log'),
           NEW c \in Run, phase[c] \notin Closed, NEW v \in Closed,
           phase' = [phase EXCEPT ![c] = v], spec' = spec,
           \A i \in Len(log) + 1..Len(log') : log'[i].kind \in Closing =>
               c # 1 /\ log'[i].child = c /\ Verdict(log'[i].kind) = v,
           c # 1 => \E i \in Len(log) + 1..Len(log') : log'[i].kind \in Closing
    PROVE  Frame
  <1>1. phase'[c] = v /\ \A q \in Run \ {c} : phase'[q] = phase[q]
    BY DEF Shaped
  <1> QED BY <1>1 DEF Frame

Booked == Reports /\ Credits

LEMMA PlainStep ==
    ASSUME Inv, Booked, Extends(log, log'), log' \in Seq(Event),
           \A i \in Len(log) + 1..Len(log') : log'[i] \in Plain,
           NEW c \in Run, phase[c] \notin Closed, NEW p, p \notin Closed,
           phase' = [phase EXCEPT ![c] = p],
           \A q \in Run : phase[q] # "new" => spec'[q] = spec[q]
    PROVE  Booked'
  <1>1. log \in Seq(Event) /\ Shaped /\ Family
    BY DEF Inv, Told
  <1>2. Frame
    BY <1>1, OpenFrame DEF Plain
  <1>3. Reports'
    BY <1>1, <1>2, ReportsStay DEF Booked
  <1>4. Credits'
    BY <1>1, <1>2, FreeStep DEF Booked, Plain, Closing
  <1> QED BY <1>3, <1>4 DEF Booked

LEMMA SpawnBooked ==
    ASSUME Inv, Booked, NEW r \in Run, phase[r] # "new", NEW name \in Call, NEW mode \in Mode,
           NEW c \in Run, Spawn(r, name, mode, c), NEW p, p \notin Closed,
           phase' = [phase EXCEPT ![c] = p]
    PROVE  Booked'
  <1>1. log \in Seq(Event) /\ Shaped /\ Family
    BY DEF Inv, Told
  <1>2. Own(r) /\ spec[r].depth + 1 \in Nat /\ spec[r].depth + 1 # 0
    BY <1>1, OwnDepth DEF Own
  <1>3. phase[c] = "new" /\ \A q \in Run : phase[q] # "new" => spec'[q] = spec[q]
    BY <1>1, Spawned
  <1> DEFINE a == At(r, [About(r, "subagent_dispatched", name) EXCEPT !.child = c])
             b == [Said(c, "user_message", "question") EXCEPT !.depth = spec[r].depth + 1]
  <1>4. a \in Aloof /\ b \in Aloof
    BY <1>2, StampedLines, BriefLines
  <1>5. a.kind = "subagent_dispatched" /\ b.kind = "user_message"
    BY DEF At, About, Said, Line
  <1>6. log' = log \o <<a>> \o IF mode = "blocking" THEN <<b>> ELSE <<>>
    BY DEF Spawn
  <1> HIDE DEF a, b
  <1>7. a \in Plain /\ b \in Plain
    BY <1>4, <1>5 DEF Aloof, Plain, Closing
  <1>8. \E lines \in Seq(Plain) : log' = log \o lines
    <2>1. <<a>> \in Seq(Plain) /\ <<a, b>> \in Seq(Plain)
      BY <1>7
    <2> QED BY <1>1, <1>4, <1>6, <2>1, AloofTuples
  <1>9. /\ log' \in Seq(Event) /\ Extends(log, log')
        /\ \A i \in Len(log) + 1..Len(log') : log'[i] \in Plain
    <2>1. Plain \in SUBSET Event
      BY DEF Plain
    <2> QED BY <1>1, <1>8, <2>1, NewLines
  <1>10. phase[c] \notin Closed
    BY <1>3 DEF Closed
  <1> QED BY <1>3, <1>9, <1>10, PlainStep

\* A step that writes nothing.
LEMMA SilentBooked ==
    ASSUME Inv, Booked, log' = log, NEW c \in Run, phase[c] \notin Closed, NEW p, p \notin Closed,
           phase' = [phase EXCEPT ![c] = p], spec' = spec
    PROVE  Booked'
  <1>1. log \in Seq(Event)
    BY DEF Inv, Told
  <1>2. /\ log' \in Seq(Event) /\ Extends(log, log')
        /\ \A i \in Len(log) + 1..Len(log') : log'[i] \in Plain
    BY <1>1 DEF Extends
  <1> QED BY <1>2, PlainStep

LEMMA StartsBooked ==
    ASSUME Inv, Booked, NEW c \in Run, StartsPooled(c)
    PROVE  Booked'
  <1>1. log \in Seq(Event) /\ Shaped /\ Family /\ InLine
    BY DEF Inv, Told
  <1>2. phase[c] = "queued" /\ c # 1
    BY <1>1, StartsPooledFamily
  <1>3. Own(c) /\ spec[c].depth # 0 /\ spec[c].depth \in Nat
    BY <1>1, <1>2, OwnDepth DEF Own
  <1> DEFINE e == At(c, Said(c, "user_message", "question"))
  <1>4. e \in Aloof
    BY <1>3, BriefLines DEF At
  <1>5. e.kind = "user_message"
    BY DEF At, Said, Line
  <1>6. /\ log' = Append(log, e) /\ phase' = [phase EXCEPT ![c] = "before_model"] /\ spec' = spec
    BY DEF StartsPooled
  <1> HIDE DEF e
  <1>7. e \in Plain /\ <<e>> \in Seq(Plain) /\ Plain \in SUBSET Event
    BY <1>4, <1>5 DEF Aloof, Plain, Closing
  <1>8. log' = log \o <<e>>
    BY <1>1, <1>4, <1>6, AloofTuples
  <1>9. /\ log' \in Seq(Event) /\ Extends(log, log')
        /\ \A i \in Len(log) + 1..Len(log') : log'[i] \in Plain
    BY <1>1, <1>7, <1>8, NewLines
  <1>10. phase[c] \notin Closed /\ "before_model" \notin Closed
    BY <1>2 DEF Closed
  <1> QED BY <1>6, <1>9, <1>10, PlainStep

\* A model call is credited to its run, and what the model said costs nothing.
LEMMA ModelBooked ==
    ASSUME Inv, Booked, NEW r \in Run, phase[r] = "model", NEW y \in Event,
           y.kind = "agent_message", log' = log \o <<ModelCall(r), y>>,
           NEW p, p \notin Closed, phase' = [phase EXCEPT ![r] = p], spec' = spec
    PROVE  Booked'
  <1>1. log \in Seq(Event) /\ Shaped /\ Family
    BY DEF Inv, Told
  <1> DEFINE x == ModelCall(r)
  <1>2. x \in Event
    BY <1>1, OwnDepth, TurnLines DEF Aloof
  <1>3. x.kind = "model_call" /\ x.run = r /\ x.tokens = 1
    BY DEF ModelCall, At, Line
  <1>4. log' = log \o <<x, y>>
    OBVIOUS
  <1> HIDE DEF x
  <1>5. /\ log' \in Seq(Event) /\ Extends(log, log') /\ Len(log') = Len(log) + 2
        /\ Len(log) \in Nat /\ log'[Len(log) + 1] = x /\ log'[Len(log) + 2] = y
        /\ \A i \in Len(log) + 1..Len(log') : i = Len(log) + 1 \/ i = Len(log) + 2
    BY <1>1, <1>2, <1>4, TwoLines
  <1>6. PICK n : n = Len(log) + 1
    OBVIOUS
  <1>7. /\ n \in Len(log) + 1..Len(log') /\ log'[n] = x
        /\ \A i \in Len(log) + 1..Len(log') :
              /\ log'[i].kind = "model_call" => i = n
              /\ log'[i].kind # "subagent_returned" /\ log'[i].kind \notin Closing
    BY <1>3, <1>5, <1>6 DEF Closing
  <1>8. phase[r] \notin Closed /\ phase'[r] \notin Closed
    BY <1>1 DEF Closed, Shaped
  <1>9. Frame
    BY <1>1, <1>5, <1>7, <1>8, OpenFrame
  <1>10. Reports' /\ Credits'
    BY <1>1, <1>3, <1>7, <1>8, <1>9, ReportsStay, ModelStep DEF Booked
  <1> QED BY <1>10 DEF Booked

LEMMA ReportFields ==
    ASSUME NEW r, NEW kind
    PROVE  /\ Reported(r, kind).kind = kind /\ Reported(r, kind).child = r
           /\ Reported(r, kind).run = spec[r].parent
           /\ Reported(r, kind).tokens = TotalTokens(log, r)
  BY DEF Reported, At, About, Line

LEMMA FailsBooked ==
    ASSUME Inv, Booked, NEW r \in Run, phase[r] \notin Closed \cup {"new"}, Fails(r)
    PROVE  Booked'
  <1>1. log \in Seq(Event) /\ Shaped /\ Family
    BY DEF Inv, Told
  <1>2. /\ log' = IF r = 1 THEN log ELSE Append(log, Reported(r, "subagent_failed"))
        /\ phase' = [phase EXCEPT ![r] = "failed"] /\ spec' = spec /\ "failed" \in Closed
    BY DEF Fails, Closed
  <1>3. /\ Frame
        /\ \A i \in Len(log) + 1..Len(log') :
              log'[i].kind # "model_call" /\ log'[i].kind # "subagent_returned"
    <2>1. CASE r = 1
      <3>1. /\ log' \in Seq(Event) /\ Extends(log, log')
            /\ \A i \in Len(log) + 1..Len(log') : FALSE
        BY <1>1, <1>2, <2>1 DEF Extends
      <3> QED BY <1>1, <1>2, <2>1, <3>1, ClosingFrame
    <2>2. CASE r # 1
      <3> DEFINE e == Reported(r, "subagent_failed")
      <3>1. e \in Aloof /\ e.kind = "subagent_failed" /\ e.child = r
        BY <1>1, <2>2, ReportLines, ReportFields
      <3>2. log' = Append(log, e)
        BY <1>2, <2>2
      <3> HIDE DEF e
      <3>3. log' = log \o <<e>> /\ <<e>> \in Seq({e}) /\ {e} \in SUBSET Event /\ Len(<<e>>) = 1
        BY <1>1, <3>1, <3>2, AloofTuples DEF Aloof
      <3>4. /\ log' \in Seq(Event) /\ Extends(log, log') /\ Len(log') = Len(log) + 1
            /\ \A i \in Len(log) + 1..Len(log') : log'[i] = e
        BY <1>1, <3>3, NewLines
      <3>5. Len(log) + 1 \in Len(log) + 1..Len(log')
        BY <1>1, <3>4
      <3>6. Verdict("subagent_failed") = "failed" /\ "subagent_failed" \in Closing
        BY DEF Verdict, Closing
      <3>7. /\ \A i \in Len(log) + 1..Len(log') : log'[i].kind \in Closing =>
                  r # 1 /\ log'[i].child = r /\ Verdict(log'[i].kind) = "failed"
            /\ \E i \in Len(log) + 1..Len(log') : log'[i].kind \in Closing
        BY <2>2, <3>1, <3>4, <3>5, <3>6
      <3>8. Frame
        BY <1>1, <1>2, <3>4, <3>7, ClosingFrame
      <3> QED BY <3>1, <3>4, <3>8
    <2> QED BY <2>1, <2>2
  <1>4. Reports' /\ Credits'
    BY <1>1, <1>3, ReportsStay, FreeStep DEF Booked
  <1> QED BY <1>4 DEF Booked

LEMMA AnswersBooked ==
    ASSUME Inv, Booked, NEW r \in Run, Answers(r)
    PROVE  Booked'
  <1>1. log \in Seq(Event) /\ Shaped /\ Family
    BY DEF Inv, Told
  <1> DEFINE x == At(r, Line(r, "run_finished"))
             y == Reported(r, "subagent_returned")
  <1>2. /\ phase[r] = "on_model_stop" /\ phase' = [phase EXCEPT ![r] = "returned"] /\ spec' = spec
        /\ log' = log \o <<x>> \o (IF r = 1 THEN <<>> ELSE <<y>>)
    BY DEF Answers, Returns
  <1>3. phase[r] \notin Closed \cup {"new"} /\ phase'[r] = "returned" /\ "returned" \in Closed
    BY <1>1, <1>2 DEF Closed, Shaped
  <1>4. x \in Aloof /\ x.kind = "run_finished"
    <2>1. Own(r)
      BY <1>1, <1>3, OwnDepth
    <2>2. x \in Aloof
      BY <2>1, StampedLines
    <2> QED BY <2>2 DEF At, Line
  <1>5. /\ r # 1 => y \in Aloof
        /\ y.kind = "subagent_returned" /\ y.child = r
        /\ y.run = spec[r].parent /\ y.tokens = TotalTokens(log, r)
    BY <1>1, <1>3, ReportLines, ReportFields
  <1> HIDE DEF x, y
  <1>6. CASE r = 1
    <2>1. log' = log \o <<x>> /\ <<x>> \in Seq({x}) /\ {x} \in SUBSET Event
      BY <1>1, <1>2, <1>4, <1>6, AloofTuples DEF Aloof
    <2>2. /\ log' \in Seq(Event) /\ Extends(log, log')
          /\ \A i \in Len(log) + 1..Len(log') : log'[i] = x
      BY <1>1, <2>1, NewLines
    <2>3. \A i \in Len(log) + 1..Len(log') : log'[i].kind \notin {"model_call"} \cup Closing
      BY <1>4, <2>2 DEF Closing
    <2>4. Frame
      BY <1>1, <1>2, <1>3, <1>6, <2>2, <2>3, ClosingFrame
    <2>5. Reports' /\ Credits'
      BY <1>1, <2>3, <2>4, ReportsStay, FreeStep DEF Booked, Closing
    <2> QED BY <2>5 DEF Booked
  <1>7. CASE r # 1
    <2>1. log' = log \o <<x, y>> /\ x \in Event /\ y \in Event
      BY <1>1, <1>2, <1>4, <1>5, <1>7, AloofTuples DEF Aloof
    <2>2. /\ log' \in Seq(Event) /\ Extends(log, log') /\ Len(log') = Len(log) + 2
          /\ Len(log) \in Nat /\ log'[Len(log) + 1] = x /\ log'[Len(log) + 2] = y
          /\ \A i \in Len(log) + 1..Len(log') : i = Len(log) + 1 \/ i = Len(log) + 2
      BY <1>1, <2>1, TwoLines
    <2>3. PICK n : n = Len(log) + 2
      OBVIOUS
    <2>4. /\ n \in Len(log) + 1..Len(log') /\ log'[n] = y
          /\ \A i \in Len(log) + 1..Len(log') :
                log'[i].kind # "model_call" /\ (log'[i].kind \in Closing => i = n)
      BY <1>4, <1>5, <2>2, <2>3 DEF Closing
    <2>5. Verdict("subagent_returned") = "returned" /\ "subagent_returned" \in Closing
      BY DEF Verdict, Closing
    <2>6. /\ \A i \in Len(log) + 1..Len(log') : log'[i].kind \in Closing =>
                r # 1 /\ log'[i].child = r /\ Verdict(log'[i].kind) = "returned"
          /\ \E i \in Len(log) + 1..Len(log') : log'[i].kind \in Closing
      BY <1>5, <1>7, <2>4, <2>5
    <2>7. Frame
      BY <1>1, <1>2, <1>3, <2>2, <2>6, ClosingFrame
    <2>8. Reports' /\ Credits'
      BY <1>1, <1>3, <1>5, <1>7, <2>4, <2>5, <2>7, ReportsStay, ReturnStep DEF Booked
    <2> QED BY <2>8 DEF Booked
  <1> QED BY <1>6, <1>7

LEMMA ResultsBooked ==
    ASSUME Inv, Booked, NEW r \in Run, BatchEnds(r)
    PROVE  Booked'
  <1>1. log \in Seq(Event) /\ Shaped /\ Family /\ Told
    BY DEF Inv, Told
  <1>2. /\ log' \in Seq(Event) /\ Extends(log, log')
        /\ \A i \in Len(log) + 1..Len(log') : log'[i].kind = "tool_result"
    BY <1>1, ResultLines
  <1>3. \A i \in Len(log) + 1..Len(log') : log'[i] \in Plain
    <2> TAKE i \in Len(log) + 1..Len(log')
    <2>1. i \in 1..Len(log')
      BY <1>1, <1>2
    <2>2. log'[i] \in Event
      BY <1>2, <2>1
    <2> QED BY <1>2, <2>2 DEF Plain, Closing
  <1>4. /\ phase[r] \notin Closed /\ "before_model" \notin Closed /\ spec' = spec
        /\ phase' = [phase EXCEPT ![r] = "before_model"]
    BY DEF BatchEnds, Closed
  <1> QED BY <1>2, <1>3, <1>4, PlainStep

LEMMA BookedStep ==
    ASSUME Inv, Booked, NEW r \in Run, SpawnsAside(r) \/ StartsPooled(r) \/ RunNext(r)
    PROVE  Booked'
  <1>1. log \in Seq(Event) /\ Shaped /\ Family /\ InLine /\ Told /\ InHand
    BY DEF Inv, Told
  <1>2. CASE SpawnsAside(r)
    <2>1. phase[r] = "before_model"
      BY <1>2 DEF SpawnsAside
    <2>2. PICK a \in Aside, c \in Run :
              Spawn(r, a[1], a[2], c) /\ phase' = [phase EXCEPT ![c] = "queued"]
      BY <1>2 DEF SpawnsAside
    <2>3. a[1] \in Call /\ a[2] \in Mode /\ "queued" \notin Closed
      BY SubAgentsAssumption DEF Mode, Closed
    <2> QED BY <2>1, <2>2, <2>3, SpawnBooked
  <1>3. CASE StartsPooled(r)
    BY <1>3, StartsBooked
  <1>4. CASE AsksModel(r)
    <2>1. /\ phase[r] \notin Closed /\ "model" \notin Closed /\ spec' = spec /\ log' = log
          /\ phase' = [phase EXCEPT ![r] = "model"]
      BY <1>4 DEF AsksModel, Closed
    <2> QED BY <2>1, SilentBooked
  <1>5. CASE RunsOut(r) \/ ModelFails(r)
    <2>1. phase[r] \notin Closed \cup {"new"} /\ Fails(r)
      BY <1>5 DEF RunsOut, ModelFails, Closed
    <2> QED BY <2>1, FailsBooked
  <1>6. CASE ModelAnswers(r)
    <2>1. /\ phase[r] = "model" /\ "on_model_stop" \notin Closed /\ spec' = spec
          /\ phase' = [phase EXCEPT ![r] = "on_model_stop"]
      BY <1>6 DEF ModelAnswers, Closed
    <2>2. PICK a \in Answer : log' = log \o <<ModelCall(r), At(r, Said(r, "agent_message", a))>>
      BY <1>6 DEF ModelAnswers
    <2> DEFINE y == At(r, Said(r, "agent_message", a))
    <2>3. Own(r)
      BY <1>1, <2>1, OwnDepth
    <2>4. Uttered(y, r, "agent_message", <<>>)
      BY <2>3, TurnLines
    <2>5. log' = log \o <<ModelCall(r), y>>
      BY <2>2
    <2> HIDE DEF y
    <2>6. y \in Event /\ y.kind = "agent_message"
      BY <2>4 DEF Uttered
    <2> QED BY <2>1, <2>5, <2>6, ModelBooked
  <1>7. CASE ModelDelegates(r)
    <2>1. /\ phase[r] = "model" /\ "tools" \notin Closed /\ spec' = spec
          /\ phase' = [phase EXCEPT ![r] = "tools"]
      BY <1>7 DEF ModelDelegates, Closed
    <2>2. PICK batch \in Batches :
              log' = log \o <<ModelCall(r),
                             At(r, [Line(r, "agent_message") EXCEPT !.calls = batch])>>
      BY <1>7 DEF ModelDelegates
    <2> DEFINE y == At(r, [Line(r, "agent_message") EXCEPT !.calls = batch])
    <2>3. Own(r) /\ batch \in Seq(Call)
      BY <1>1, <2>1, OwnDepth, SubAgentsAssumption
    <2>4. Uttered(y, r, "agent_message", batch)
      BY <2>3, TurnLines
    <2>5. log' = log \o <<ModelCall(r), y>>
      BY <2>2
    <2> HIDE DEF y
    <2>6. y \in Event /\ y.kind = "agent_message"
      BY <2>4 DEF Uttered
    <2> QED BY <2>1, <2>5, <2>6, ModelBooked
  <1>8. CASE \E i \in DOMAIN tickets[r] : Delegates(r, i)
    <2>1. PICK i \in DOMAIN tickets[r] : Delegates(r, i)
      BY <1>8
    <2>2. phase[r] = "tools"
      BY <2>1 DEF Delegates
    <2>3. PICK c \in Run : Spawn(r, Batch(r)[i], "blocking", c)
                          /\ phase' = [phase EXCEPT ![c] = "before_model"]
      BY <2>1 DEF Delegates
    <2>4. Batch(r)[i] \in Call /\ "blocking" \in Mode /\ "before_model" \notin Closed
      BY <1>1, <2>2, CallsInHand DEF Mode, Closed
    <2> QED BY <2>2, <2>3, <2>4, SpawnBooked
  <1>9. CASE \E i \in DOMAIN tickets[r] : IsRefused(r, i)
    <2>1. /\ phase[r] = "tools" /\ spec' = spec /\ log' = log /\ phase' = phase
      BY <1>9 DEF IsRefused
    <2>2. phase' = [phase EXCEPT ![r] = "tools"] /\ "tools" \notin Closed
      BY <1>1, <2>1 DEF Shaped, Closed
    <2> QED BY <2>1, <2>2, SilentBooked
  <1>10. CASE BatchEnds(r)
    BY <1>10, ResultsBooked
  <1>11. CASE Answers(r)
    BY <1>11, AnswersBooked
  <1> QED BY <1>2, <1>3, <1>4, <1>5, <1>6, <1>7, <1>8, <1>9, <1>10, <1>11 DEF RunNext

LEMMA NobodyIsBilled ==
    ASSUME NEW s \in Seq(Event), NEW r, \A i \in 1..Len(s) : ~Billed(s[i], r)
    PROVE  TotalTokens(s, r) = 0
  <1>1. <<>> \in Seq(Event) /\ Len(<<>>) = 0
    BY EmptySeq
  <1>2. PICK s0 : s0 = <<>>
    OBVIOUS
  <1>3. s0 \in Seq(Event) /\ Len(s0) = 0
    BY <1>1, <1>2
  <1>4. TotalTokens(s0, r) = 0
    <2>1. PICK f : Totals(Len(s0), Weights(s0, r), f) /\ TotalTokens(s0, r) = f[Len(s0)]
      BY <1>3, TokensAreATotal
    <2>2. f[0] = 0
      BY <1>3, <2>1 DEF Totals
    <2> QED BY <1>3, <2>1, <2>2
  <1>5. Extends(s0, s) /\ \A i \in Len(s0) + 1..Len(s) : ~Billed(s[i], r)
    BY <1>3 DEF Extends
  <1> QED BY <1>3, <1>4, <1>5, TokensStand

LEMMA BookedInit == Init => Booked
  <1> SUFFICES ASSUME Init PROVE Booked
    OBVIOUS
  <1>1. log \in Seq(Event)
    BY InvInit DEF Inv, Told
  <1>2. Len(log) = 1 /\ log[1].kind = "user_message"
    <2> DEFINE e == Said(1, "user_message", "question")
    <2>1. e.kind = "user_message"
      BY DEF Said, Line
    <2>2. log = <<e>>
      BY DEF Init
    <2> HIDE DEF e
    <2> QED BY <2>1, <2>2
  <1>3. \A i \in 1..Len(log) : log[i].kind \notin {"model_call"} \cup Closing
    BY <1>2 DEF Closing
  <1>4. \A q \in Run : phase[q] \notin Closed
    BY DEF Init, Closed
  <1>5. Reports
    BY <1>3, <1>4 DEF Reports
  <1> DEFINE none == [q \in Run |-> {}]
  <1>6. Credited(none)
    <2>1. \A q \in Run : Cardinality(none[q]) = TotalTokens(log, q)
      <3> TAKE q \in Run
      <3>1. TotalTokens(log, q) = 0
        BY <1>1, <1>3, NobodyIsBilled DEF Billed, Closing
      <3>2. Cardinality({}) = 0
        BY FS_EmptySet
      <3> QED BY <3>1, <3>2
    <2>2. none \in [Run -> SUBSET (1..Len(log))] /\ \A q \in Run : none[q] = {}
      OBVIOUS
    <2> HIDE DEF none
    <2> QED BY <1>3, <2>1, <2>2 DEF Credited
  <1> QED BY <1>5, <1>6 DEF Booked, Credits

\* "The parent's budget is not blind to the work it delegated": what total_tokens
\* says of a run is never more than the model calls of its tree, however late or
\* in what order its sub-agents return, and all of them when each returned before
\* its parent did.
THEOREM CostsRollUp == Spec => []RollUpIsExact
  <1>1. Inv /\ Booked => RollUpIsExact
    <2> SUFFICES ASSUME Inv, Booked, NEW r \in Run
                 PROVE  /\ TotalTokens(log, r) <= SpentIn(Below(r))
                        /\ (\A c \in Below(r) \ {r} : InTime(c))
                              => TotalTokens(log, r) = SpentIn(Below(r))
      BY DEF RollUpIsExact
    <2>1. log \in Seq(Event) /\ Shaped /\ Family
      BY DEF Inv, Told
    <2>2. PICK cred : Credited(cred)
      BY DEF Booked, Credits
    <2> DEFINE S == {i \in DOMAIN log : log[i].kind = "model_call" /\ log[i].run \in Below(r)}
    <2>3. SpentIn(Below(r)) = Cardinality(S) /\ DOMAIN log = 1..Len(log) /\ Len(log) \in Nat
      BY <2>1 DEF SpentIn
    <2>4. S \subseteq 1..Len(log)
      BY <2>3
    <2>5. IsFiniteSet(S)
      <3> HIDE DEF S
      <3> QED BY <2>3, <2>4, PositionsAreFinite
    <2>6. cred[r] \subseteq S
      <3> SUFFICES ASSUME NEW i \in cred[r] PROVE i \in S
        OBVIOUS
      <3>1. i \in 1..Len(log) /\ log[i].kind = "model_call"
        BY <2>2 DEF Credited
      <3>2. log[i].run \in Below(r)
        BY <2>1, <2>2, CreditsAreBelow
      <3> QED BY <2>3, <3>1, <3>2
    <2>7. TotalTokens(log, r) = Cardinality(cred[r])
      BY <2>2 DEF Credited
    <2>8. TotalTokens(log, r) <= SpentIn(Below(r))
      <3> HIDE DEF S
      <3> QED BY <2>3, <2>5, <2>6, <2>7, FS_Subset
    <2>9. ASSUME \A c \in Below(r) \ {r} : InTime(c) PROVE S \subseteq cred[r]
      <3> SUFFICES ASSUME NEW i \in S PROVE i \in cred[r]
        OBVIOUS
      <3> DEFINE Good == {y \in Below(r) : i \in cred[y]}
      <3>1. i \in 1..Len(log) /\ log[i].kind = "model_call" /\ log[i].run \in Below(r)
        BY <2>3
      <3>2. i \in cred[log[i].run]
        BY <2>2, <3>1 DEF Credited
      <3>3. Below(r) \subseteq Run
        BY DEF Below
      <3>4. PICK y \in Good : \A j \in Good : y <= j
        <4>1. log[i].run \in Good
          BY <3>1, <3>2
        <4>2. Good \subseteq Nat
          BY <3>3, RunFacts
        <4> HIDE DEF Good
        <4> QED BY <4>1, <4>2, LeastOf
      <3>5. y \in Run /\ y \in Below(r) /\ i \in cred[y]
        BY <3>3, <3>4
      <3>6. ASSUME y # r PROVE FALSE
        <4>1. r \in Above(y)
          BY <3>5, <3>6 DEF Below
        <4> DEFINE p == spec[y].parent
        <4>2. /\ p \in Run /\ p < y /\ p # 0 /\ y # 1 /\ y \in Nat /\ p \in Nat
              /\ Above(y) = {p} \cup Above(p)
          BY <2>1, <3>5, <4>1, Parented, RunFacts
        <4>3. p \in Below(r)
          BY <4>1, <4>2 DEF Below
        <4>4. i \notin cred[p]
          <5>1. p \notin Good
            BY <3>4, <4>2
          <5> QED BY <4>3, <5>1
        <4>5. phase[y] = "returned"
          <5>1. InTime(y)
            BY <2>9, <3>5, <3>6
          <5>2. PICK k \in 1..Len(log) : log[k].kind = "subagent_returned" /\ log[k].child = y
            BY <2>3, <5>1 DEF InTime, OverAt
          <5> QED BY <5>2 DEF Booked, Reports, Closing, Verdict
        <4>6. Late(cred, y, i)
          BY <2>2, <3>5, <4>2, <4>4, <4>5 DEF Credited
        <4>7. PICK d \in Run : spec[d].parent = y /\ ~InTime(d)
          BY <4>6 DEF Late
        <4>8. Above(d) = {y} \cup Above(y) /\ d \notin Above(d)
          <5>1. y # 0
            BY <3>5, RunFacts
          <5> QED BY <2>1, <4>7, <5>1, Parented
        <4>9. d \in Below(r) \ {r}
          BY <4>1, <4>7, <4>8 DEF Below
        <4> QED BY <2>9, <4>7, <4>9
      <3> QED BY <3>5, <3>6
    <2>10. (\A c \in Below(r) \ {r} : InTime(c)) => TotalTokens(log, r) = SpentIn(Below(r))
      <3> SUFFICES ASSUME \A c \in Below(r) \ {r} : InTime(c)
                   PROVE  TotalTokens(log, r) = SpentIn(Below(r))
        OBVIOUS
      <3>1. S \subseteq cred[r]
        BY <2>9
      <3> HIDE DEF S
      <3>2. S = cred[r]
        BY <2>6, <3>1
      <3> QED BY <2>3, <2>7, <3>2
    <2> QED BY <2>8, <2>10
  <1>2. Init => Inv /\ Booked
    BY InvInit, BookedInit
  <1>3. (Inv /\ Booked) /\ [Next]_vars => (Inv /\ Booked)'
    <2> SUFFICES ASSUME Inv, Booked, [Next]_vars PROVE Inv' /\ Booked'
      OBVIOUS
    <2>1. CASE Next
      <3>1. PICK r \in Run : SpawnsAside(r) \/ StartsPooled(r) \/ RunNext(r)
        BY <2>1 DEF Next
      <3> QED BY <3>1, InvStep, BookedStep
    <2>2. CASE UNCHANGED vars
      <3>1. Inv'
        BY <2>2 DEF vars, Inv, Shaped, Family, InLine, Told, Signed, InHand, OpenBatch, BatchAt
      <3>2. Reports'
        BY <2>2 DEF vars, Booked, Reports
      <3>3. Credits'
        <4>1. PICK cred : Credited(cred)
          BY DEF Booked, Credits
        <4>2. Credited(cred)'
          BY <2>2, <4>1 DEF vars, Credited, Inherited, Late, InTime, OverAt
        <4> QED BY <4>2 DEF Credits
      <3> QED BY <3>1, <3>2, <3>3 DEF Booked
    <2> QED BY <2>1, <2>2
  <1> QED BY <1>1, <1>2, <1>3, PTL DEF Spec
=============================================================================
