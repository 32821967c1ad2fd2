-------------------------- MODULE AgentLoopProofs ---------------------------
(***************************************************************************)
(* Theorems about the AgentLoop, for any number of runs, any calls,        *)
(* batches and answers, and any limits of the stack.                       *)
(***************************************************************************)
EXTENDS AgentLoop, EventLogProofs

-----------------------------------------------------------------------------
\* A step puts lines at the end of the log, and they are the stepping run's.

New == Len(log) + 1..Len(log')

Keeps == /\ IsLog(log) /\ IsLog(log')
         /\ Len(log) <= Len(log')
         /\ \A i \in DOMAIN log : log'[i] = log[i]

Adds(r, kinds) == \A i \in New : log'[i].run = r /\ log'[i].kind \in kinds

\* One of the new lines, and no more, is of a kind.
AddsOne(kind) ==
    \E p \in New : /\ log'[p].kind = kind
                   /\ \A i \in New : log'[i].kind = kind => i = p

\* What is appended decides what is new.
LEMMA Grows ==
    ASSUME IsLog(log), NEW lines, IsLog(lines), log' = log \o lines
    PROVE  /\ Keeps
           /\ Len(log') = Len(log) + Len(lines)
           /\ \A k \in 1..Len(lines) : Len(log) + k \in New /\ log'[Len(log) + k] = lines[k]
           /\ \A i \in New : \E k \in 1..Len(lines) : i = Len(log) + k /\ log'[i] = lines[k]
  <1>1. Len(log) \in Nat /\ Len(lines) \in Nat /\ DOMAIN log = 1..Len(log)
    BY LogFacts
  <1>2. /\ IsLog(log') /\ Len(log') = Len(log) + Len(lines)
        /\ \A i \in 1..Len(log) : log'[i] = log[i]
        /\ \A k \in 1..Len(lines) : log'[Len(log) + k] = lines[k]
    BY Concat
  <1>3. Keeps
    BY <1>1, <1>2 DEF Keeps
  <1>4. ASSUME NEW i \in New
        PROVE  \E k \in 1..Len(lines) : i = Len(log) + k /\ log'[i] = lines[k]
    <2>1. i - Len(log) \in 1..Len(lines) /\ i = Len(log) + (i - Len(log))
      BY <1>1, <1>2 DEF New
    <2> QED BY <1>2, <2>1
  <1>5. \A k \in 1..Len(lines) : Len(log) + k \in New
    BY <1>1, <1>2 DEF New
  <1> QED BY <1>2, <1>3, <1>4, <1>5

LEMMA KeepsUnchanged ==
    ASSUME IsLog(log), log' = log
    PROVE  Keeps /\ New = {}
  BY LogFacts DEF Keeps, New

\* The lines of a step, as one sequence or two.
LEMMA AddsLines ==
    ASSUME IsLog(log), NEW r, NEW kinds, NEW lines, IsLog(lines), log' = log \o lines,
           \A k \in 1..Len(lines) : lines[k].run = r /\ lines[k].kind \in kinds
    PROVE  Keeps /\ Adds(r, kinds)
  BY Grows DEF Adds

LEMMA AddsMoreLines ==
    ASSUME IsLog(log), NEW r, NEW kinds, NEW lines, NEW more, IsLog(lines), IsLog(more),
           log' = log \o lines \o more,
           \A k \in 1..Len(lines) : lines[k].run = r /\ lines[k].kind \in kinds,
           \A k \in 1..Len(more) : more[k].run = r /\ more[k].kind \in kinds
    PROVE  Keeps /\ Adds(r, kinds)
  <1> DEFINE all == lines \o more
  <1>1. log' = log \o all /\ IsLog(all)
    BY Assoc, Concat
  <1>2. \A k \in 1..Len(all) : all[k].run = r /\ all[k].kind \in kinds
    <2> SUFFICES ASSUME NEW k \in 1..Len(all) PROVE all[k].run = r /\ all[k].kind \in kinds
      OBVIOUS
    <2>1. /\ Len(all) = Len(lines) + Len(more) /\ Len(lines) \in Nat /\ Len(more) \in Nat
          /\ \A i \in 1..Len(lines) : all[i] = lines[i]
          /\ \A i \in 1..Len(more) : all[Len(lines) + i] = more[i]
      BY Concat, LogFacts
    <2> HIDE DEF all
    <2>2. CASE k <= Len(lines)
      BY <2>1, <2>2
    <2>3. CASE k > Len(lines)
      <3>1. k - Len(lines) \in 1..Len(more) /\ Len(lines) + (k - Len(lines)) = k
        BY <2>1, <2>3
      <3> QED BY <2>1, <3>1
    <2> QED BY <2>1, <2>2, <2>3
  <1> HIDE DEF all
  <1> QED BY <1>1, <1>2, AddsLines

LEMMA AddsALine ==
    ASSUME IsLog(log), NEW x, log' = log \o <<x>>
    PROVE  /\ Keeps
           /\ Adds(x.run, {x.kind})
           /\ AddsOne(x.kind)
           /\ \E i \in New : log'[i] = x
           /\ \A i \in New : log'[i] = x
  <1> DEFINE lines == <<x>>
  <1>1. IsLog(lines) /\ Len(lines) = 1 /\ lines[1] = x
    BY Tuples
  <1> HIDE DEF lines
  <1>2. log' = log \o lines
    BY DEF lines
  <1>3. /\ Keeps
        /\ Len(log) + 1 \in New /\ log'[Len(log) + 1] = x
        /\ \A i \in New : i = Len(log) + 1 /\ log'[i] = x
    BY <1>1, <1>2, Grows
  <1> QED BY <1>3 DEF Adds, AddsOne

\* A line that ends what a step adds, or begins it.
LEMMA AddsLast ==
    ASSUME IsLog(log), NEW lines, IsLog(lines), NEW x, log' = log \o lines \o <<x>>,
           \A k \in 1..Len(lines) : lines[k].kind # x.kind
    PROVE  /\ AddsOne(x.kind)
           /\ \E i \in New : log'[i] = x
           /\ \A i \in New : log'[i].kind = x.kind => log'[i] = x
  <1> DEFINE more == <<x>>
             all  == lines \o more
  <1>1. IsLog(more) /\ Len(more) = 1 /\ more[1] = x
    BY Tuples
  <1>2. log' = log \o lines \o more
    OBVIOUS
  <1> HIDE DEF more
  <1>3. log' = log \o all /\ IsLog(all) /\ Len(lines) \in Nat
    BY <1>1, <1>2, Assoc, Concat, LogFacts
  <1>4. /\ Len(all) = Len(lines) + 1 /\ all[Len(lines) + 1] = x
        /\ \A k \in 1..Len(lines) : all[k] = lines[k]
    <2>1. /\ Len(all) = Len(lines) + Len(more)
          /\ \A k \in 1..Len(lines) : all[k] = lines[k]
          /\ \A k \in 1..Len(more) : all[Len(lines) + k] = more[k]
      <3>1. IsLog(lines) /\ IsLog(more)
        BY <1>1
      <3>2. /\ Len(lines \o more) = Len(lines) + Len(more)
            /\ \A k \in 1..Len(lines) : (lines \o more)[k] = lines[k]
            /\ \A k \in 1..Len(more) : (lines \o more)[Len(lines) + k] = more[k]
        BY ONLY <3>1, Concat
      <3> QED BY <3>2
    <2> HIDE DEF all
    <2>2. 1 \in 1..Len(more)
      BY <1>1
    <2>3. all[Len(lines) + 1] = x
      BY <1>1, <2>1, <2>2
    <2> QED BY <1>1, <2>1, <2>3
  <1> HIDE DEF all
  <1> DEFINE p == Len(log) + (Len(lines) + 1)
  <1>5. p \in New /\ log'[p] = x
    <2>1. Len(lines) + 1 \in 1..Len(all)
      BY <1>3, <1>4
    <2>2. Len(log) + (Len(lines) + 1) \in New /\ log'[Len(log) + (Len(lines) + 1)] = all[Len(lines) + 1]
      BY <1>3, <2>1, Grows
    <2> QED BY <1>4, <2>2
  <1>6. ASSUME NEW i \in New, log'[i].kind = x.kind PROVE i = p
    <2>1. PICK k \in 1..Len(all) : i = Len(log) + k /\ log'[i] = all[k]
      BY <1>3, Grows
    <2>2. ~(k \in 1..Len(lines))
      BY <1>4, <1>6, <2>1
    <2>3. k = Len(lines) + 1
      BY <1>3, <1>4, <2>1, <2>2
    <2> QED BY <2>1, <2>3
  <1> HIDE DEF p
  <1> QED BY <1>5, <1>6 DEF AddsOne

LEMMA AddsFirst ==
    ASSUME IsLog(log), NEW more, IsLog(more), NEW x, log' = log \o <<x>> \o more,
           \A k \in 1..Len(more) : more[k].kind # x.kind
    PROVE  /\ AddsOne(x.kind)
           /\ \E i \in New : log'[i] = x
  <1> DEFINE lines == <<x>>
             all   == lines \o more
  <1>1. IsLog(lines) /\ Len(lines) = 1 /\ lines[1] = x
    BY Tuples
  <1>2. log' = log \o lines \o more
    OBVIOUS
  <1> HIDE DEF lines
  <1>3. log' = log \o all /\ IsLog(all) /\ Len(more) \in Nat
    <2>1. log' = log \o all
      BY <1>1, <1>2, Assoc
    <2>2. IsLog(all)
      BY <1>1, Concat
    <2> QED BY <2>1, <2>2, LogFacts
  <1>4. /\ Len(all) = 1 + Len(more) /\ all[1] = x
        /\ \A k \in 1..Len(more) : all[1 + k] = more[k]
    <2>1. /\ Len(all) = Len(lines) + Len(more)
          /\ \A k \in 1..Len(lines) : all[k] = lines[k]
          /\ \A k \in 1..Len(more) : all[Len(lines) + k] = more[k]
      <3>1. IsLog(lines) /\ IsLog(more)
        BY <1>1
      <3>2. /\ Len(lines \o more) = Len(lines) + Len(more)
            /\ \A k \in 1..Len(lines) : (lines \o more)[k] = lines[k]
            /\ \A k \in 1..Len(more) : (lines \o more)[Len(lines) + k] = more[k]
        BY ONLY <3>1, Concat
      <3> QED BY <3>2
    <2> HIDE DEF all
    <2>2. 1 \in 1..Len(lines)
      BY <1>1
    <2>3. all[1] = x
      BY <1>1, <2>1, <2>2
    <2> QED BY <1>1, <2>1, <2>3
  <1> HIDE DEF all
  <1> DEFINE p == Len(log) + 1
  <1>5. p \in New /\ log'[p] = x
    <2>1. 1 \in 1..Len(all)
      BY <1>3, <1>4
    <2>2. Len(log) + 1 \in New /\ log'[Len(log) + 1] = all[1]
      BY <1>3, <2>1, Grows
    <2> QED BY <1>4, <2>2
  <1>6. ASSUME NEW i \in New, log'[i].kind = x.kind PROVE i = p
    <2>1. PICK k \in 1..Len(all) : i = Len(log) + k /\ log'[i] = all[k]
      BY <1>3, Grows
    <2>2. ~(k - 1 \in 1..Len(more))
      <3>1. ASSUME k - 1 \in 1..Len(more) PROVE FALSE
        <4>1. 1 + (k - 1) = k
          BY <2>1
        <4>2. all[k] = more[k - 1]
          BY <1>4, <3>1, <4>1
        <4> QED BY <1>6, <2>1, <3>1, <4>2
      <3> QED BY <3>1
    <2>3. k = 1
      BY <1>3, <1>4, <2>1, <2>2
    <2> QED BY <2>1, <2>3
  <1> HIDE DEF p
  <1> QED BY <1>5, <1>6 DEF AddsOne

-----------------------------------------------------------------------------
\* What a run's readers see of a log that grows.

LEMMA HasStays ==
    ASSUME Keeps, NEW r, NEW kind, NEW key, Has(log, r, kind, key)
    PROVE  Has(log', r, kind, key)
  <1>1. PICK i \in DOMAIN log : log[i].run = r /\ log[i].kind = kind /\ log[i].key = key
    BY DEF Has
  <1>2. i \in DOMAIN log' /\ log'[i] = log[i]
    BY LogFacts DEF Keeps
  <1> QED BY <1>1, <1>2 DEF Has

LEMMA HasAdded ==
    ASSUME IsLog(log'), IsLog(log), NEW i \in New
    PROVE  Has(log', log'[i].run, log'[i].kind, log'[i].key)
  <1>1. i \in DOMAIN log'
    BY LogFacts DEF New
  <1> QED BY <1>1 DEF Has

\* A call that was decided stays decided.
LEMMA DecidedStays ==
    ASSUME Keeps, NEW r, NEW c, BeforeTool(log, r, c) # "pause"
    PROVE  BeforeTool(log', r, c) # "pause"
  <1>1. Has(log, r, "human_approved", c) => Has(log', r, "human_approved", c)
    BY HasStays
  <1>2. Has(log, r, "human_denied", c) => Has(log', r, "human_denied", c)
    BY HasStays
  <1>3. c \in Blocked \/ c \notin NeedsApproval \/ Has(log, r, "human_approved", c)
           \/ Has(log, r, "human_denied", c)
    BY DEF BeforeTool
  <1> QED BY <1>1, <1>2, <1>3 DEF BeforeTool

LEMMA EmptyLog ==
    ASSUME log = <<>>
    PROVE  /\ \A i \in DOMAIN log : FALSE
           /\ \A r, kind : Count(log, r, kind) = 0
  <1>1. \A i \in DOMAIN log : FALSE
    <2>1. IsLog(log) /\ Len(log) = 0
      BY Tuples
    <2>2. DOMAIN log = 1..0
      BY <2>1, LogFacts
    <2> QED BY <2>2
  <1>2. ASSUME NEW r, NEW kind PROVE Count(log, r, kind) = 0
    <2>1. IsLog(log)
      BY Tuples
    <2>2. Found(log, r, kind) = {}
      BY <1>1 DEF Found
    <2> QED BY <2>1, <2>2, Counted, FS_EmptySet
  <1> QED BY <1>1, <1>2

LEMMA CountStays ==
    ASSUME Keeps, NEW r, NEW q, NEW kinds, Adds(r, kinds), NEW kind, kind \notin kinds \/ q # r
    PROVE  Count(log', q, kind) = Count(log, q, kind)
  <1>1. /\ DOMAIN log = 1..Len(log) /\ DOMAIN log' = 1..Len(log')
        /\ Len(log) \in Nat /\ Len(log') \in Nat /\ Len(log) <= Len(log')
    BY LogFacts DEF Keeps
  <1>2. DOMAIN log' = DOMAIN log \cup New /\ DOMAIN log \cap New = {}
    BY <1>1 DEF New
  <1>3. \A i \in New : ~(log'[i].run = q /\ log'[i].kind = kind)
    BY DEF Adds
  <1>4. \A i \in DOMAIN log : log'[i] = log[i]
    BY DEF Keeps
  <1>5. {i \in DOMAIN log' : log'[i].run = q /\ log'[i].kind = kind}
           = {i \in DOMAIN log : log[i].run = q /\ log[i].kind = kind}
    BY <1>2, <1>3, <1>4
  <1> QED BY <1>5 DEF Count

LEMMA CountsOne ==
    ASSUME Keeps, NEW r, NEW kinds, Adds(r, kinds), NEW kind, AddsOne(kind)
    PROVE  Count(log', r, kind) = Count(log, r, kind) + 1
  <1> DEFINE found == Found(log, r, kind)
  <1>1. /\ DOMAIN log = 1..Len(log) /\ DOMAIN log' = 1..Len(log')
        /\ Len(log) \in Nat /\ Len(log') \in Nat /\ Len(log) <= Len(log')
    BY LogFacts DEF Keeps
  <1>2. DOMAIN log' = DOMAIN log \cup New /\ DOMAIN log \cap New = {}
    BY <1>1 DEF New
  <1>3. PICK p \in New : log'[p].kind = kind /\ \A i \in New : log'[i].kind = kind => i = p
    BY DEF AddsOne
  <1>4. Found(log', r, kind) = found \cup {p}
    BY <1>2, <1>3 DEF Keeps, Adds, Found
  <1>5. IsFiniteSet(found)
    <2>1. IsLog(log)
      BY DEF Keeps
    <2> QED BY <2>1, Counted
  <1>6. p \notin found
    BY <1>2 DEF Found
  <1>7. Cardinality(found \cup {p}) = Cardinality(found) + 1
    BY <1>5, <1>6, FS_AddElement
  <1>8. /\ Count(log, r, kind) = Cardinality(found)
        /\ Count(log', r, kind) = Cardinality(Found(log', r, kind))
    BY Counted DEF Keeps
  <1> QED BY <1>4, <1>7, <1>8

-----------------------------------------------------------------------------
\* What of the type invariant the arguments below need: that the log is one of
\* events is left to the section on requests.

Typed ==
    /\ IsLog(log)
    /\ phase \in [Run -> Phase]
    /\ response \in [Run -> Response]
    /\ waitsOn \in [Run -> Call \cup Answer \cup {""}]
    /\ result \in [Run -> Answer \cup {"", "halted"}]

\* Where a batch pauses, and that one which does not has been decided whole.
LEMMA WhereItPauses ==
    ASSUME NEW r, response[r].calls \in Seq(Call)
    PROVE  /\ PausesAt(r) = 0 =>
                 \A i \in DOMAIN response[r].calls : BeforeTool(log, r, response[r].calls[i]) # "pause"
           /\ PausesAt(r) # 0 =>
                 /\ PausesAt(r) \in DOMAIN response[r].calls
                 /\ BeforeTool(log, r, response[r].calls[PausesAt(r)]) = "pause"
  <1> DEFINE calls == response[r].calls
             asked == {i \in 1..Len(calls) : BeforeTool(log, r, calls[i]) = "pause"}
  <1>1. Len(calls) \in Nat /\ DOMAIN calls = 1..Len(calls)
    OBVIOUS
  <1>2. PausesAt(r) = IF asked # {} THEN Min(asked) ELSE 0
    BY DEF PausesAt, SelectInSeq
  <1>3. asked \subseteq Nat
    BY <1>1
  <1>4. ASSUME asked # {} PROVE Min(asked) \in asked
    <2> HIDE DEF asked
    <2>1. PICK i \in asked : \A j \in asked : ~(<<j, i>> \in OpToRel(<, Nat))
      BY <1>3, <1>4, NatLessThanWellFounded, WFMin
    <2>2. ASSUME NEW j \in asked PROVE i <= j
      <3>1. i \in Nat /\ j \in Nat
        BY <1>3
      <3>2. ~(j < i)
        BY <2>1, <3>1 DEF OpToRel
      <3> QED BY <3>1, <3>2
    <2> QED BY <2>2 DEF Min
  <1>5. asked # {} => Min(asked) # 0
    BY <1>4
  <1>6. CASE asked = {}
    BY <1>1, <1>2, <1>6
  <1>7. CASE asked # {}
    <2>1. PausesAt(r) \in asked
      BY <1>2, <1>4, <1>7
    <2> QED BY <1>1, <1>2, <1>5, <1>7, <2>1
  <1> QED BY <1>6, <1>7

LEMMA DenialLines ==
    ASSUME NEW r, NEW calls, calls \in Seq(Call)
    PROVE  /\ IsLog(Denials(r, calls))
           /\ \A k \in 1..Len(Denials(r, calls)) :
                 Denials(r, calls)[k].run = r /\ Denials(r, calls)[k].kind = "deny"
  <1> DEFINE denied == {i \in DOMAIN calls : BeforeTool(log, r, calls[i]) = "deny"}
             n      == Cardinality(denied)
  <1>1. Len(calls) \in Nat /\ DOMAIN calls = 1..Len(calls)
    OBVIOUS
  <1>2. n \in Nat
    <2>1. IsFiniteSet(1..Len(calls)) /\ denied \in SUBSET (1..Len(calls))
      <3>1. IsFiniteSet(1..Len(calls))
        BY <1>1, FS_Interval
      <3>2. denied \in SUBSET (1..Len(calls))
        BY <1>1
      <3> QED BY <3>1, <3>2
    <2> HIDE DEF denied
    <2> QED BY <2>1, FS_Subset, FS_CardinalityType
  <1>3. Denials(r, calls) = [i \in 1..n |-> Line(r, "deny")]
    BY DEF Denials
  <1> HIDE DEF n
  <1>4. Denials(r, calls) \in Seq({Line(r, "deny")}) /\ Len(Denials(r, calls)) = n
    BY <1>2, <1>3
  <1>5. \A k \in 1..n : Denials(r, calls)[k] = Line(r, "deny")
    BY <1>2, <1>3
  <1> QED BY <1>4, <1>5, LineFields DEF IsLog

-----------------------------------------------------------------------------
\* The lines of each action.

LEMMA HostLines ==
    ASSUME Typed, NEW r \in Run
    PROVE  /\ Begin(r) => Keeps /\ Adds(r, {"user_message"})
           /\ \A stamp : Resume(r, stamp) => /\ Keeps /\ Adds(r, {stamp})
                                            /\ Has(log', r, stamp, waitsOn[r])
  <1>1. IsLog(log)
    BY DEF Typed
  <1>2. ASSUME Begin(r) PROVE Keeps /\ Adds(r, {"user_message"})
    <2> DEFINE x == Said(r, "user_message", "question")
    <2>1. log' = log \o <<x>>
      BY <1>1, <1>2, AppendLog DEF Begin
    <2>2. x.run = r /\ x.kind = "user_message"
      BY LineFields
    <2> HIDE DEF x
    <2>3. Keeps /\ Adds(x.run, {x.kind})
      BY <1>1, <2>1, AddsALine
    <2> QED BY <2>2, <2>3
  <1>3. ASSUME NEW stamp, Resume(r, stamp)
        PROVE  Keeps /\ Adds(r, {stamp}) /\ Has(log', r, stamp, waitsOn[r])
    <2> DEFINE x == About(r, stamp, waitsOn[r])
    <2>1. log' = log \o <<x>>
      BY <1>1, <1>3, AppendLog DEF Resume
    <2>2. x.run = r /\ x.kind = stamp /\ x.key = waitsOn[r]
      BY DEF About, Line
    <2> HIDE DEF x
    <2>3. Keeps /\ Adds(x.run, {x.kind}) /\ \E i \in New : log'[i] = x
      BY <1>1, <2>1, AddsALine
    <2>4. Has(log', x.run, x.kind, x.key)
      <3>1. PICK i \in New : log'[i] = x
        BY <2>3
      <3>2. IsLog(log')
        BY <2>3 DEF Keeps
      <3> QED BY <1>1, <3>1, <3>2, HasAdded
    <2> QED BY <2>2, <2>3, <2>4
  <1> QED BY <1>2, <1>3

LEMMA Nothing ==
    ASSUME IsLog(log), log' = log, NEW r
    PROVE  Keeps /\ Adds(r, {})
  BY KeepsUnchanged DEF Adds

LEMMA FinishLines ==
    ASSUME IsLog(log), NEW r, NEW kind, NEW lines, IsLog(lines), NEW answer,
           \A k \in 1..Len(lines) : lines[k].run = r /\ lines[k].kind \in {kind, "stop"},
           Finish(r, lines, answer)
    PROVE  Keeps /\ Adds(r, {kind, "stop", "run_finished"})
  <1> DEFINE more == <<Line(r, "run_finished")>>
  <1>1. IsLog(more) /\ Len(more) = 1 /\ more[1] = Line(r, "run_finished")
    BY Tuples
  <1>2. log' = log \o lines \o more
    BY DEF Finish
  <1>3. \A k \in 1..Len(more) : more[k].run = r /\ more[k].kind \in {kind, "stop", "run_finished"}
    BY <1>1, LineFields
  <1>4. \A k \in 1..Len(lines) : /\ lines[k].run = r
                                /\ lines[k].kind \in {kind, "stop", "run_finished"}
    OBVIOUS
  <1> HIDE DEF more
  <1> QED BY <1>1, <1>2, <1>3, <1>4, AddsMoreLines

LEMMA HeadLines ==
    ASSUME Typed, NEW r \in Run
    PROVE  /\ RunsOut(r) \/ ModelFails(r) \/ KeepsHistory(r) => Keeps /\ Adds(r, {})
           /\ BudgetStops(r) => Keeps /\ Adds(r, {"stop", "run_finished"})
           /\ Summarizes(r) => Keeps /\ Adds(r, {"history_summarized"})
  <1>1. IsLog(log)
    BY DEF Typed
  <1>2. ASSUME RunsOut(r) \/ ModelFails(r) PROVE Keeps /\ Adds(r, {})
    BY <1>1, <1>2, Nothing DEF RunsOut, ModelFails
  <1>3. ASSUME KeepsHistory(r) PROVE Keeps /\ Adds(r, {})
    <2> DEFINE lines == <<>>
    <2>1. log' = log \o lines
      BY <1>3 DEF KeepsHistory, BeforeModel
    <2>2. IsLog(lines) /\ Len(lines) = 0
      BY Tuples
    <2> HIDE DEF lines
    <2>3. \A k \in 1..Len(lines) : lines[k].run = r /\ lines[k].kind \in {}
      BY <2>2
    <2> QED BY <1>1, <2>1, <2>2, <2>3, AddsLines
  <1>4. ASSUME BudgetStops(r) PROVE Keeps /\ Adds(r, {"stop", "run_finished"})
    <2> DEFINE lines == <<Line(r, "stop")>>
    <2>1. IsLog(lines) /\ Len(lines) = 1 /\ lines[1] = Line(r, "stop")
      BY Tuples
    <2>2. Finish(r, lines, "halted")
      BY <1>4 DEF BudgetStops
    <2> HIDE DEF lines
    <2>3. \A k \in 1..Len(lines) : lines[k].run = r /\ lines[k].kind \in {"stop", "stop"}
      BY <2>1, LineFields
    <2>4. Keeps /\ Adds(r, {"stop", "stop", "run_finished"})
      BY <1>1, <2>1, <2>2, <2>3, FinishLines
    <2> QED BY <2>4 DEF Adds
  <1>5. ASSUME Summarizes(r) PROVE Keeps /\ Adds(r, {"history_summarized"})
    <2> DEFINE x == Summary(log, r)
    <2>1. log' = log \o <<x>>
      BY <1>5 DEF Summarizes, BeforeModel
    <2>2. x.run = r /\ x.kind = "history_summarized"
      BY DEF Summary, Line
    <2> HIDE DEF x
    <2>3. Keeps /\ Adds(x.run, {x.kind})
      BY <1>1, <2>1, AddsALine
    <2> QED BY <2>2, <2>3
  <1> QED BY <1>2, <1>3, <1>4, <1>5

LEMMA ModelLines ==
    ASSUME Typed, NEW r \in Run
    PROVE  /\ ModelCallsTools(r) => Keeps /\ Adds(r, {"model_call"}) /\ AddsOne("model_call")
           /\ ModelAnswers(r) => /\ Keeps /\ Adds(r, {"model_call", "agent_message"})
                               /\ AddsOne("model_call")
  <1> DEFINE x == ModelCall(r)
  <1>1. IsLog(log) /\ x.run = r /\ x.kind = "model_call"
    BY DEF Typed, ModelCall, Line
  <1>2. ASSUME ModelCallsTools(r)
        PROVE  Keeps /\ Adds(r, {"model_call"}) /\ AddsOne("model_call")
    <2>1. log' = log \o <<x>>
      BY <1>1, <1>2, AppendLog DEF ModelCallsTools
    <2> HIDE DEF x
    <2>2. Keeps /\ Adds(x.run, {x.kind}) /\ AddsOne(x.kind)
      BY <1>1, <2>1, AddsALine
    <2> QED BY <1>1, <2>2
  <1>3. ASSUME ModelAnswers(r)
        PROVE  Keeps /\ Adds(r, {"model_call", "agent_message"}) /\ AddsOne("model_call")
    <2>1. PICK a \in Answer : log' = log \o <<x, Said(r, "agent_message", a)>>
      BY <1>3 DEF ModelAnswers
    <2> DEFINE y == Said(r, "agent_message", a)
               lines == <<x>>
               more  == <<y>>
    <2>2. y.run = r /\ y.kind = "agent_message"
      BY LineFields
    <2> HIDE DEF x, y
    <2>3. log' = log \o <<x, y>>
      BY <2>1 DEF y
    <2>4. <<x, y>> = lines \o more
      OBVIOUS
    <2>5. /\ IsLog(lines) /\ Len(lines) = 1 /\ lines[1] = x
          /\ IsLog(more) /\ Len(more) = 1 /\ more[1] = y
      BY Tuples
    <2>6. log' = log \o lines \o more
      BY <1>1, <2>3, <2>4, <2>5, Assoc
    <2>7. log' = log \o <<x>> \o more
      BY <2>6
    <2> HIDE DEF lines, more
    <2>8. /\ \A k \in 1..Len(lines) : /\ lines[k].run = r
                                     /\ lines[k].kind \in {"model_call", "agent_message"}
          /\ \A k \in 1..Len(more) : /\ more[k].run = r
                                    /\ more[k].kind \in {"model_call", "agent_message"}
          /\ \A k \in 1..Len(more) : more[k].kind # x.kind
      BY <1>1, <2>2, <2>5
    <2>9. Keeps /\ Adds(r, {"model_call", "agent_message"})
      BY <1>1, <2>5, <2>6, <2>8, AddsMoreLines
    <2>10. AddsOne(x.kind)
      BY <1>1, <2>5, <2>7, <2>8, AddsFirst
    <2> QED BY <1>1, <2>9, <2>10
  <1> QED BY <1>2, <1>3

LEMMA PauseLines ==
    ASSUME IsLog(log), NEW r, NEW lines, IsLog(lines), NEW key,
           \A k \in 1..Len(lines) : lines[k].run = r /\ lines[k].kind = "deny",
           PauseOn(r, lines, key)
    PROVE  /\ Keeps /\ Adds(r, {"deny", "pause"}) /\ AddsOne("pause")
           /\ \A i \in New : log'[i].kind = "pause" => log'[i].key = key
  <1> DEFINE x    == About(r, "pause", key)
             more == <<x>>
  <1>1. x.run = r /\ x.kind = "pause" /\ x.key = key
    BY LineFields
  <1>2. log' = log \o lines \o <<x>>
    BY DEF PauseOn
  <1> HIDE DEF x
  <1>3. IsLog(more) /\ Len(more) = 1 /\ more[1] = x /\ log' = log \o lines \o more
    BY <1>2, Tuples
  <1> HIDE DEF more
  <1>4. /\ \A k \in 1..Len(lines) : lines[k].run = r /\ lines[k].kind \in {"deny", "pause"}
        /\ \A k \in 1..Len(more) : more[k].run = r /\ more[k].kind \in {"deny", "pause"}
        /\ \A k \in 1..Len(lines) : lines[k].kind # x.kind
    BY <1>1, <1>3
  <1>5. Keeps /\ Adds(r, {"deny", "pause"})
    BY <1>3, <1>4, AddsMoreLines
  <1>6. AddsOne(x.kind) /\ \A i \in New : log'[i].kind = x.kind => log'[i] = x
    BY <1>2, <1>4, AddsLast
  <1> QED BY <1>1, <1>5, <1>6

LEMMA BatchPausesLines ==
    ASSUME Typed, NEW r \in Run, BatchPauses(r)
    PROVE  /\ Keeps /\ Adds(r, {"deny", "pause"}) /\ AddsOne("pause")
           /\ waitsOn'[r] \in Call /\ BeforeTool(log, r, waitsOn'[r]) = "pause"
           /\ \A i \in New : log'[i].kind = "pause" => log'[i].key = waitsOn'[r]
  <1> DEFINE calls == response[r].calls
             part  == SubSeq(calls, 1, PausesAt(r) - 1)
             lines == Denials(r, part)
  <1>1. IsLog(log) /\ calls \in Seq(Call)
    BY DEF Typed, Response
  <1>2. /\ PausesAt(r) \in DOMAIN calls /\ BeforeTool(log, r, calls[PausesAt(r)]) = "pause"
        /\ PauseOn(r, lines, calls[PausesAt(r)])
    BY <1>1, WhereItPauses DEF BatchPauses
  <1>3. part \in Seq(Call)
    BY <1>1, <1>2
  <1> HIDE DEF part
  <1>4. IsLog(lines) /\ \A k \in 1..Len(lines) : lines[k].run = r /\ lines[k].kind = "deny"
    BY <1>3, DenialLines
  <1> HIDE DEF lines
  <1>5. calls[PausesAt(r)] \in Call
    BY <1>1, <1>2
  <1> HIDE DEF calls
  <1>6. waitsOn'[r] = calls[PausesAt(r)]
    BY <1>2 DEF PauseOn, Typed
  <1>7. /\ Keeps /\ Adds(r, {"deny", "pause"}) /\ AddsOne("pause")
        /\ \A i \in New : log'[i].kind = "pause" => log'[i].key = calls[PausesAt(r)]
    BY <1>1, <1>2, <1>4, PauseLines
  <1> QED BY <1>2, <1>5, <1>6, <1>7

LEMMA BatchStartsLines ==
    ASSUME Typed, NEW r \in Run, BatchStarts(r)
    PROVE  Keeps /\ Adds(r, {"deny", "agent_message"})
  <1> DEFINE lines == Denials(r, response[r].calls)
             x     == [Line(r, "agent_message") EXCEPT !.calls = response[r].calls]
             more  == <<x>>
  <1>1. IsLog(log) /\ response[r].calls \in Seq(Call)
    BY DEF Typed, Response
  <1>2. IsLog(lines) /\ \A k \in 1..Len(lines) : lines[k].run = r /\ lines[k].kind = "deny"
    BY <1>1, DenialLines
  <1>3. log' = log \o lines \o more /\ x.run = r /\ x.kind = "agent_message"
    BY DEF BatchStarts, Line
  <1> HIDE DEF lines, x
  <1>4. IsLog(more) /\ Len(more) = 1 /\ more[1] = x
    BY Tuples
  <1> HIDE DEF more
  <1>5. /\ \A k \in 1..Len(lines) : lines[k].run = r /\ lines[k].kind \in {"deny", "agent_message"}
        /\ \A k \in 1..Len(more) : more[k].run = r /\ more[k].kind \in {"deny", "agent_message"}
    BY <1>2, <1>3, <1>4
  <1>6. log' = log \o lines \o more /\ IsLog(log) /\ IsLog(lines) /\ IsLog(more)
    BY <1>1, <1>2, <1>3, <1>4
  <1> QED BY <1>5, <1>6, AddsMoreLines

LEMMA BatchEndsLines ==
    ASSUME Typed, NEW r \in Run, BatchEnds(r)
    PROVE  /\ Keeps /\ Adds(r, {"tool_result"})
           /\ \A i \in New : \E k \in DOMAIN response[r].calls :
                                   log'[i] = ToolResult(r, response[r].calls[k])
  <1> DEFINE calls == response[r].calls
             lines == [i \in DOMAIN calls |-> ToolResult(r, calls[i])]
             S     == {ToolResult(r, calls[i]) : i \in DOMAIN calls}
  <1>1. IsLog(log) /\ calls \in Seq(Call)
    BY DEF Typed, Response
  <1>2. log' = log \o lines
    BY DEF BatchEnds
  <1>3. Len(calls) \in Nat /\ DOMAIN calls = 1..Len(calls)
    BY <1>1
  <1> HIDE DEF calls
  <1>4. lines \in Seq(S) /\ Len(lines) = Len(calls)
    BY <1>3
  <1>5. \A k \in 1..Len(lines) : k \in DOMAIN calls /\ lines[k] = ToolResult(r, calls[k])
    BY <1>3, <1>4
  <1>6. IsLog(lines)
    BY <1>4 DEF IsLog
  <1> HIDE DEF lines
  <1>7. \A k \in 1..Len(lines) : lines[k].run = r /\ lines[k].kind \in {"tool_result"}
    BY <1>5 DEF ToolResult, About, Line
  <1>8. Keeps /\ Adds(r, {"tool_result"})
    BY <1>1, <1>2, <1>6, <1>7, AddsLines
  <1>9. \A i \in New : \E k \in 1..Len(lines) : log'[i] = lines[k]
    BY <1>1, <1>2, <1>6, Grows
  <1> QED BY <1>5, <1>8, <1>9 DEF calls

LEMMA SendBackLines ==
    ASSUME IsLog(log), NEW r, NEW lines, IsLog(lines), NEW kind, SendBack(r, lines),
           \A k \in 1..Len(lines) : lines[k].run = r /\ lines[k].kind = kind
    PROVE  Keeps /\ Adds(r, {kind, "inject", "user_message"})
  <1> DEFINE x    == Line(r, "inject")
             y    == Said(r, "user_message", "correction")
             more == <<x, y>>
  <1>1. x.run = r /\ x.kind = "inject" /\ y.run = r /\ y.kind = "user_message"
    BY LineFields
  <1>2. log' = log \o lines \o more
    BY DEF SendBack
  <1> HIDE DEF x, y
  <1>3. IsLog(more) /\ Len(more) = 2 /\ more[1] = x /\ more[2] = y
    BY Tuples
  <1> HIDE DEF more
  <1>4. /\ \A k \in 1..Len(lines) : /\ lines[k].run = r
                                   /\ lines[k].kind \in {kind, "inject", "user_message"}
        /\ \A k \in 1..Len(more) : /\ more[k].run = r
                                  /\ more[k].kind \in {kind, "inject", "user_message"}
    BY <1>1, <1>3
  <1> QED BY <1>2, <1>3, <1>4, AddsMoreLines

LEMMA StopLines ==
    ASSUME Typed, NEW r \in Run
    PROVE  /\ MinimumNotMet(r) => Keeps /\ Adds(r, {"inject", "user_message"})
           /\ ReviewFails(r) => /\ Keeps /\ Adds(r, {"review_failed", "inject", "user_message"})
                              /\ AddsOne("review_failed")
           /\ HandsOver(r) => /\ Keeps /\ Adds(r, {"deny", "pause"}) /\ AddsOne("pause")
                            /\ \A i \in New : log'[i].kind = "pause" => log'[i].key = response[r].text
  <1>1. IsLog(log)
    BY DEF Typed
  <1>2. ASSUME MinimumNotMet(r) PROVE Keeps /\ Adds(r, {"inject", "user_message"})
    <2> DEFINE lines == <<>>
    <2>1. SendBack(r, lines) /\ IsLog(lines) /\ Len(lines) = 0
      BY <1>2, Tuples DEF MinimumNotMet
    <2> HIDE DEF lines
    <2>2. \A k \in 1..Len(lines) : lines[k].run = r /\ lines[k].kind = "inject"
      BY <2>1
    <2>3. Keeps /\ Adds(r, {"inject", "inject", "user_message"})
      BY <1>1, <2>1, <2>2, SendBackLines
    <2> QED BY <2>3 DEF Adds
  <1>3. ASSUME ReviewFails(r)
        PROVE  /\ Keeps /\ Adds(r, {"review_failed", "inject", "user_message"})
               /\ AddsOne("review_failed")
    <2> DEFINE x == About(r, "review_failed", response[r].text)
               lines == <<x>>
               more  == <<Line(r, "inject"), Said(r, "user_message", "correction")>>
    <2>1. x.run = r /\ x.kind = "review_failed"
      BY LineFields
    <2>2. SendBack(r, lines) /\ log' = log \o <<x>> \o more
      BY <1>3 DEF ReviewFails, SendBack
    <2> HIDE DEF x
    <2>3. IsLog(lines) /\ Len(lines) = 1 /\ lines[1] = x
      BY Tuples
    <2> HIDE DEF lines
    <2>4. \A k \in 1..Len(lines) : lines[k].run = r /\ lines[k].kind = "review_failed"
      BY <2>1, <2>3
    <2>5. Keeps /\ Adds(r, {"review_failed", "inject", "user_message"})
      BY <1>1, <2>2, <2>3, <2>4, SendBackLines
    <2>6. IsLog(more) /\ \A k \in 1..Len(more) : more[k].kind # x.kind
      <3>1. /\ IsLog(more) /\ Len(more) = 2
            /\ more[1] = Line(r, "inject") /\ more[2] = Said(r, "user_message", "correction")
        BY Tuples
      <3> HIDE DEF more
      <3> QED BY <2>1, <3>1, LineFields
    <2> HIDE DEF more
    <2>7. AddsOne(x.kind)
      BY <1>1, <2>2, <2>6, AddsFirst
    <2> QED BY <2>1, <2>5, <2>7
  <1>4. ASSUME HandsOver(r)
        PROVE  /\ Keeps /\ Adds(r, {"deny", "pause"}) /\ AddsOne("pause")
               /\ \A i \in New : log'[i].kind = "pause" => log'[i].key = response[r].text
    <2> DEFINE lines == <<>>
    <2>1. PauseOn(r, lines, response[r].text) /\ IsLog(lines) /\ Len(lines) = 0
      BY <1>4, Tuples DEF HandsOver
    <2> HIDE DEF lines
    <2>2. \A k \in 1..Len(lines) : lines[k].run = r /\ lines[k].kind = "deny"
      BY <2>1
    <2> QED BY <1>1, <2>1, <2>2, PauseLines
  <1> QED BY <1>2, <1>3, <1>4

LEMMA ReviewLines ==
    ASSUME Typed, NEW r \in Run
    PROVE  /\ ReviewPasses(r) => /\ Keeps /\ Adds(r, {"review_passed", "stop", "run_finished"})
                               /\ Has(log', r, "review_passed", response[r].text)
           /\ ReviewErrors(r) => Keeps /\ Adds(r, {"review_errored", "stop", "run_finished"})
           /\ ReviewErrors(r) /\ FailOpen = TRUE =>
                 Has(log', r, "review_errored", response[r].text)
  <1>1. IsLog(log)
    BY DEF Typed
  <1> DEFINE more == <<Line(r, "run_finished")>>
  <1>2. IsLog(more) /\ Len(more) = 1 /\ more[1].kind = "run_finished"
    BY Tuples, LineFields
  <1>3. ASSUME NEW kind, kind # "run_finished", NEW answer,
               Finish(r, <<About(r, kind, response[r].text)>>, answer)
        PROVE  /\ Keeps /\ Adds(r, {kind, "stop", "run_finished"})
               /\ Has(log', r, kind, response[r].text)
    <2> DEFINE x == About(r, kind, response[r].text)
               lines == <<x>>
    <2>1. x.run = r /\ x.kind = kind /\ x.key = response[r].text
      BY LineFields
    <2>2. Finish(r, lines, answer) /\ log' = log \o <<x>> \o more
      BY <1>3 DEF Finish
    <2> HIDE DEF x, more
    <2>3. IsLog(lines) /\ Len(lines) = 1 /\ lines[1] = x
      BY Tuples
    <2> HIDE DEF lines
    <2>4. \A k \in 1..Len(lines) : lines[k].run = r /\ lines[k].kind \in {kind, "stop"}
      BY <2>1, <2>3
    <2>5. Keeps /\ Adds(r, {kind, "stop", "run_finished"})
      BY <1>1, <2>2, <2>3, <2>4, FinishLines
    <2>6. \A k \in 1..Len(more) : more[k].kind # x.kind
      BY <1>2, <1>3, <2>1
    <2>7. PICK i \in New : log'[i] = x
      BY <1>1, <1>2, <2>2, <2>6, AddsFirst
    <2>8. Has(log', x.run, x.kind, x.key)
      BY <1>1, <2>5, <2>7, HasAdded DEF Keeps
    <2> QED BY <2>1, <2>5, <2>8
  <1>4. ASSUME ReviewErrors(r), FailOpen # TRUE
        PROVE  Keeps /\ Adds(r, {"review_errored", "stop", "run_finished"})
    <2> DEFINE x == About(r, "review_errored", response[r].text)
               y == Line(r, "stop")
               lines == <<x, y>>
    <2>1. x.run = r /\ x.kind = "review_errored" /\ y.run = r /\ y.kind = "stop"
      BY LineFields
    <2>2. Finish(r, lines, "halted")
      BY <1>4, GuardrailsAssumption DEF ReviewErrors
    <2> HIDE DEF x, y
    <2>3. IsLog(lines) /\ Len(lines) = 2 /\ lines[1] = x /\ lines[2] = y
      BY Tuples
    <2> HIDE DEF lines
    <2>4. \A k \in 1..Len(lines) : lines[k].run = r /\ lines[k].kind \in {"review_errored", "stop"}
      BY <2>1, <2>3
    <2> QED BY <1>1, <2>2, <2>3, <2>4, FinishLines
  <1> HIDE DEF more
  <1>5. ASSUME ReviewErrors(r), FailOpen = TRUE
        PROVE  /\ Keeps /\ Adds(r, {"review_errored", "stop", "run_finished"})
               /\ Has(log', r, "review_errored", response[r].text)
    <2>1. Finish(r, <<About(r, "review_errored", response[r].text)>>, response[r].text)
      BY <1>5 DEF ReviewErrors
    <2> QED BY <1>3, <2>1
  <1>6. ASSUME ReviewPasses(r)
        PROVE  /\ Keeps /\ Adds(r, {"review_passed", "stop", "run_finished"})
               /\ Has(log', r, "review_passed", response[r].text)
    <2>1. Finish(r, <<About(r, "review_passed", response[r].text)>>, response[r].text)
      BY <1>6 DEF ReviewPasses
    <2> QED BY <1>3, <2>1
  <1> QED BY <1>4, <1>5, <1>6

-----------------------------------------------------------------------------
\* Every step adds to the log, keeps the types, and is of one run.

Moves(r) == \A q \in Run \ {r} : /\ phase'[q] = phase[q] /\ response'[q] = response[q]
                                /\ waitsOn'[q] = waitsOn[q] /\ result'[q] = result[q]

LEMMA EveryStepKeeps ==
    ASSUME Typed, NEW r \in Run, HostNext(r) \/ LoopNext(r)
    PROVE  Keeps
  <1>1. CASE HostNext(r)
    BY <1>1, HostLines DEF HostNext
  <1>2. CASE LoopNext(r)
    <2>1. CASE RunsOut(r) \/ BudgetStops(r) \/ KeepsHistory(r) \/ Summarizes(r) \/ ModelFails(r)
      BY <2>1, HeadLines
    <2>2. CASE ModelCallsTools(r) \/ ModelAnswers(r)
      BY <2>2, ModelLines
    <2>3. CASE BatchPauses(r) \/ BatchStarts(r) \/ BatchEnds(r)
      <3>1. CASE BatchPauses(r)
        BY <3>1, BatchPausesLines
      <3>2. CASE BatchStarts(r)
        BY <3>2, BatchStartsLines
      <3>3. CASE BatchEnds(r)
        BY <3>3, BatchEndsLines
      <3> QED BY <2>3, <3>1, <3>2, <3>3
    <2>4. CASE MinimumNotMet(r) \/ HandsOver(r) \/ ReviewFails(r)
      BY <2>4, StopLines
    <2>5. CASE ReviewPasses(r) \/ ReviewErrors(r)
      <3>1. ReviewPasses(r) => Keeps
        BY ReviewLines
      <3>2. ReviewErrors(r) => Keeps
        BY ReviewLines
      <3> QED BY <2>5, <3>1, <3>2
    <2> QED BY <1>2, <2>1, <2>2, <2>3, <2>4, <2>5 DEF LoopNext
  <1> QED BY <1>1, <1>2

LEMMA TypedInit ==
    ASSUME Init
    PROVE  Typed
  <1>1. IsLog(log)
    BY Tuples DEF Init
  <1>2. NoResponse \in Response
    BY DEF NoResponse, Response
  <1> QED BY <1>1, <1>2 DEF Init, Typed, Phase, Active

LEMMA TypedStep ==
    ASSUME Typed, NEW r \in Run, HostNext(r) \/ LoopNext(r)
    PROVE  Typed' /\ Moves(r)
  <1>1. IsLog(log')
    BY EveryStepKeeps DEF Keeps
  <1>2. NoResponse \in Response
    BY DEF NoResponse, Response
  <1>3. response[r] \in Response /\ response[r].text \in Answer \cup {""}
    BY DEF Typed, Response
  <1> USE DEF Typed, Moves, Phase, Active, Goto
  <1>4. CASE Begin(r) \/ RunsOut(r) \/ ModelFails(r) \/ BatchStarts(r)
    BY <1>1, <1>4 DEF Begin, RunsOut, ModelFails, BatchStarts
  <1>5. ASSUME NEW stamp, Resume(r, stamp) PROVE Typed' /\ Moves(r)
    <2>1. phase' = [phase EXCEPT ![r] = "before_tool"] \/ phase' = [phase EXCEPT ![r] = "before_model"]
      BY <1>5 DEF Resume
    <2> QED BY <1>1, <1>5, <2>1 DEF Resume
  <1>6. CASE KeepsHistory(r) \/ Summarizes(r)
    BY <1>1, <1>6 DEF KeepsHistory, Summarizes, BeforeModel
  <1>7. CASE ModelCallsTools(r)
    <2>1. PICK b \in Batches : response' = [response EXCEPT ![r] = [calls |-> b, text |-> ""]]
      BY <1>7 DEF ModelCallsTools
    <2>2. [calls |-> b, text |-> ""] \in Response
      BY AgentLoopAssumption DEF Response
    <2> QED BY <1>1, <1>7, <2>1, <2>2 DEF ModelCallsTools
  <1>8. CASE ModelAnswers(r)
    <2>1. PICK a \in Answer : response' = [response EXCEPT ![r] = [calls |-> <<>>, text |-> a]]
      BY <1>8 DEF ModelAnswers
    <2>2. [calls |-> <<>>, text |-> a] \in Response
      <3>1. <<>> \in Seq(Call)
        BY ONLY EmptySeq
      <3> QED BY <3>1 DEF Response
    <2> QED BY <1>1, <1>8, <2>1, <2>2 DEF ModelAnswers
  <1>9. CASE BatchPauses(r)
    <2>1. response' = response /\ result' = result /\ phase' = [phase EXCEPT ![r] = "paused"]
      BY <1>9 DEF BatchPauses, PauseOn
    <2>2. waitsOn' = [waitsOn EXCEPT ![r] = response[r].calls[PausesAt(r)]]
      BY <1>9 DEF BatchPauses, PauseOn
    <2>3. response[r].calls[PausesAt(r)] \in Call
      <3> DEFINE calls == response[r].calls
      <3>1. calls \in Seq(Call)
        BY <1>3 DEF Response
      <3>2. PausesAt(r) \in DOMAIN calls
        BY <1>9, <3>1, WhereItPauses DEF BatchPauses
      <3> HIDE DEF calls
      <3>3. calls[PausesAt(r)] \in Call
        BY ONLY <3>1, <3>2
      <3> QED BY <3>3 DEF calls
    <2> QED BY <1>1, <2>1, <2>2, <2>3
  <1>10. CASE BatchEnds(r)
    BY <1>1, <1>2, <1>10 DEF BatchEnds
  <1>11. CASE MinimumNotMet(r) \/ ReviewFails(r)
    BY <1>1, <1>2, <1>11 DEF MinimumNotMet, ReviewFails, SendBack
  <1>12. CASE HandsOver(r)
    BY <1>1, <1>2, <1>3, <1>12 DEF HandsOver, PauseOn
  <1>13. ASSUME NEW lines, NEW answer \in Answer \cup {"", "halted"}, Finish(r, lines, answer)
         PROVE  Typed' /\ Moves(r)
    BY <1>1, <1>2, <1>13 DEF Finish
  <1>14. CASE BudgetStops(r) \/ ReviewPasses(r) \/ ReviewErrors(r)
    <2>1. \E lines, answer : answer \in Answer \cup {"", "halted"} /\ Finish(r, lines, answer)
      BY <1>3, <1>14 DEF BudgetStops, ReviewPasses, ReviewErrors
    <2> QED BY <1>13, <2>1
  <1> QED BY <1>4, <1>5, <1>6, <1>7, <1>8, <1>9, <1>10, <1>11, <1>12, <1>14 DEF HostNext, LoopNext

\* Six actions add lines the theorems count; the others are quiet.

Loud(r) == \/ ModelCallsTools(r) \/ ModelAnswers(r) \/ BatchPauses(r) \/ BatchEnds(r)
           \/ HandsOver(r) \/ ReviewFails(r)

QuietKinds == Kind \ {"model_call", "pause", "tool_result", "review_failed"}

LEMMA AddsToo ==
    ASSUME NEW r, NEW kinds, NEW more, kinds \subseteq more, Adds(r, kinds)
    PROVE  Adds(r, more)
  BY DEF Adds

LEMMA QuietSteps ==
    ASSUME Typed, NEW r \in Run, HostNext(r) \/ LoopNext(r), ~Loud(r)
    PROVE  Adds(r, QuietKinds)
  <1> DEFINE quiet == {"user_message", "human_approved", "human_denied", "stop", "run_finished",
                       "history_summarized", "deny", "agent_message", "inject",
                       "review_passed", "review_errored"}
  <1>1. quiet \subseteq QuietKinds
    BY DEF QuietKinds, Kind, HistoryKinds
  <1>2. ASSUME NEW kinds, kinds \subseteq quiet, Adds(r, kinds) PROVE Adds(r, QuietKinds)
    <2> HIDE DEF quiet
    <2>1. kinds \subseteq QuietKinds
      BY <1>1, <1>2
    <2> QED BY <1>2, <2>1, AddsToo
  <1>3. CASE Begin(r)
    BY <1>2, <1>3, HostLines
  <1>4. CASE Resume(r, "human_approved") \/ Resume(r, "human_denied")
    BY <1>2, <1>4, HostLines
  <1>5. CASE RunsOut(r) \/ ModelFails(r) \/ KeepsHistory(r)
    <2>1. Adds(r, {})
      BY <1>5, HeadLines
    <2> QED BY <1>2, <2>1
  <1>6. CASE BudgetStops(r)
    BY <1>2, <1>6, HeadLines
  <1>7. CASE Summarizes(r)
    BY <1>2, <1>7, HeadLines
  <1>8. CASE BatchStarts(r)
    BY <1>2, <1>8, BatchStartsLines
  <1>9. CASE MinimumNotMet(r)
    BY <1>2, <1>9, StopLines
  <1>10. CASE ReviewPasses(r)
    <2>1. Adds(r, {"review_passed", "stop", "run_finished"})
      BY <1>10, ReviewLines
    <2> QED BY <1>2, <2>1
  <1>11. CASE ReviewErrors(r)
    <2>1. Adds(r, {"review_errored", "stop", "run_finished"})
      BY <1>11, ReviewLines
    <2> QED BY <1>2, <2>1
  <1> QED BY <1>3, <1>4, <1>5, <1>6, <1>7, <1>8, <1>9, <1>10, <1>11 DEF HostNext, LoopNext, Loud

LEMMA EveryStepAdds ==
    ASSUME Typed, NEW r \in Run, HostNext(r) \/ LoopNext(r)
    PROVE  Adds(r, Kind)
  <1>1. CASE ModelCallsTools(r) \/ ModelAnswers(r)
    <2>1. Adds(r, {"model_call"}) \/ Adds(r, {"model_call", "agent_message"})
      BY <1>1, ModelLines
    <2> QED BY <2>1, AddsToo DEF Kind, HistoryKinds
  <1>2. CASE BatchPauses(r)
    <2>1. Adds(r, {"deny", "pause"})
      BY <1>2, BatchPausesLines
    <2> QED BY <2>1, AddsToo DEF Kind
  <1>3. CASE BatchEnds(r)
    <2>1. Adds(r, {"tool_result"})
      BY <1>3, BatchEndsLines
    <2> QED BY <2>1, AddsToo DEF Kind, HistoryKinds
  <1>4. CASE HandsOver(r)
    <2>1. Adds(r, {"deny", "pause"})
      BY <1>4, StopLines
    <2> QED BY <2>1, AddsToo DEF Kind
  <1>5. CASE ReviewFails(r)
    <2>1. Adds(r, {"review_failed", "inject", "user_message"})
      BY <1>5, StopLines
    <2> QED BY <2>1, AddsToo DEF Kind, HistoryKinds
  <1>6. CASE ~Loud(r)
    <2>1. Adds(r, QuietKinds)
      BY <1>6, QuietSteps
    <2> QED BY <2>1, AddsToo DEF QuietKinds
  <1> QED BY <1>1, <1>2, <1>3, <1>4, <1>5, <1>6 DEF Loud

\* The log grows at its end and nowhere else.
LEMMA OldOrNew ==
    ASSUME Keeps
    PROVE  /\ DOMAIN log' = DOMAIN log \cup New /\ DOMAIN log \cap New = {}
           /\ DOMAIN log \subseteq Nat /\ New \subseteq Nat
           /\ \A i \in DOMAIN log : \A j \in New : j > i
           /\ \A i \in DOMAIN log' : \A j \in 1..i - 1 : j \in DOMAIN log'
           /\ \A i \in DOMAIN log : \A j \in 1..i - 1 : j \in DOMAIN log
           /\ \A i \in New : \A j \in DOMAIN log : j \in 1..i - 1
  <1>1. /\ DOMAIN log = 1..Len(log) /\ DOMAIN log' = 1..Len(log')
        /\ Len(log) \in Nat /\ Len(log') \in Nat /\ Len(log) <= Len(log')
    BY LogFacts DEF Keeps
  <1> QED BY <1>1 DEF New

-----------------------------------------------------------------------------
\* Nothing runs that was not approved.

\* A batch that runs has been decided call by call.
Decided == \A r \in Run : phase[r] = "tools" =>
               \A i \in DOMAIN response[r].calls : BeforeTool(log, r, response[r].calls[i]) # "pause"

Approved == Typed /\ Decided /\ NothingRanUnapproved

LEMMA DecidedStep ==
    ASSUME Typed, Decided, NEW r \in Run, HostNext(r) \/ LoopNext(r)
    PROVE  Decided'
  <1> SUFFICES ASSUME NEW q \in Run, phase'[q] = "tools", NEW i \in DOMAIN response'[q].calls
               PROVE  BeforeTool(log', q, response'[q].calls[i]) # "pause"
    BY DEF Decided
  <1>1. Keeps /\ Typed' /\ Moves(r)
    BY EveryStepKeeps, TypedStep
  <1>2. CASE q # r
    <2>1. phase[q] = "tools" /\ response'[q] = response[q]
      BY <1>1, <1>2 DEF Moves
    <2> QED BY <1>1, <2>1, DecidedStays DEF Decided
  <1>3. CASE q = r
    <2>1. BatchStarts(r)
      BY <1>3 DEF Typed, HostNext, LoopNext, Begin, Resume, RunsOut, BudgetStops, KeepsHistory,
         Summarizes, BeforeModel, ModelCallsTools, ModelAnswers, ModelFails, BatchPauses,
         BatchEnds, MinimumNotMet, HandsOver, ReviewPasses, ReviewFails, ReviewErrors,
         SendBack, Finish, PauseOn, Goto
    <2>2. response'[q] = response[q] /\ PausesAt(r) = 0 /\ response[r].calls \in Seq(Call)
      BY <1>3, <2>1 DEF BatchStarts, Typed, Response
    <2>3. BeforeTool(log, r, response[r].calls[i]) # "pause"
      BY <1>3, <2>2, WhereItPauses
    <2> QED BY <1>1, <1>3, <2>2, <2>3, DecidedStays
  <1> QED BY <1>2, <1>3

LEMMA LetThrough ==
    ASSUME NEW s, NEW r, NEW c, BeforeTool(s, r, c) # "deny", BeforeTool(s, r, c) # "pause"
    PROVE  c \notin Blocked /\ (c \in NeedsApproval => Has(s, r, "human_approved", c))
  <1>1. c \notin Blocked
    BY DEF BeforeTool
  <1>2. ASSUME c \in NeedsApproval, ~Has(s, r, "human_approved", c) PROVE FALSE
    <2>1. CASE Has(s, r, "human_denied", c)
      BY <1>1, <1>2, <2>1 DEF BeforeTool
    <2>2. CASE ~Has(s, r, "human_denied", c)
      BY <1>1, <1>2, <2>2 DEF BeforeTool
    <2> QED BY <2>1, <2>2
  <1> QED BY <1>1, <1>2

LEMMA NothingRanStep ==
    ASSUME Typed, Decided, NothingRanUnapproved, NEW r \in Run, HostNext(r) \/ LoopNext(r)
    PROVE  NothingRanUnapproved'
  <1>1. Keeps
    BY EveryStepKeeps
  <1>2. /\ DOMAIN log' = DOMAIN log \cup New
        /\ \A i \in DOMAIN log : log'[i] = log[i]
        /\ \A i \in DOMAIN log : \A j \in 1..i - 1 : j \in DOMAIN log
        /\ \A i \in New : \A j \in DOMAIN log : j \in 1..i - 1
    BY <1>1, OldOrNew DEF Keeps
  <1> SUFFICES ASSUME NEW i \in DOMAIN log', log'[i].kind = "tool_result", log'[i].text = "output"
               PROVE  /\ log'[i].key \notin Blocked
                      /\ log'[i].key \in NeedsApproval =>
                            \E j \in 1..i - 1 : /\ log'[j].kind = "human_approved"
                                                /\ log'[j].run = log'[i].run
                                                /\ log'[j].key = log'[i].key
    BY DEF NothingRanUnapproved
  <1>3. CASE i \in DOMAIN log
    BY <1>2, <1>3 DEF NothingRanUnapproved
  <1>4. CASE i \in New
    <2>1. BatchEnds(r)
      <3>1. CASE ~Loud(r)
        BY <1>4, <3>1, QuietSteps DEF Adds, QuietKinds
      <3>2. CASE ModelCallsTools(r) \/ ModelAnswers(r)
        BY <1>4, <3>2, ModelLines DEF Adds
      <3>3. CASE BatchPauses(r)
        BY <1>4, <3>3, BatchPausesLines DEF Adds
      <3>4. CASE HandsOver(r) \/ ReviewFails(r)
        BY <1>4, <3>4, StopLines DEF Adds
      <3> QED BY <3>1, <3>2, <3>3, <3>4 DEF Loud
    <2> DEFINE calls == response[r].calls
    <2>2. PICK k \in DOMAIN calls : log'[i] = ToolResult(r, calls[k])
      BY <1>4, <2>1, BatchEndsLines
    <2>3. BeforeTool(log, r, calls[k]) # "pause"
      BY <2>1 DEF Decided, BatchEnds
    <2> HIDE DEF calls
    <2>4. /\ log'[i].run = r /\ log'[i].key = calls[k]
          /\ BeforeTool(log, r, calls[k]) # "deny"
      BY <2>2 DEF ToolResult, About, Line
    <2>5. /\ calls[k] \notin Blocked
          /\ calls[k] \in NeedsApproval => Has(log, r, "human_approved", calls[k])
      BY <2>3, <2>4, LetThrough
    <2>6. ASSUME calls[k] \in NeedsApproval
          PROVE  \E j \in 1..i - 1 : /\ log'[j].kind = "human_approved"
                                     /\ log'[j].run = r /\ log'[j].key = calls[k]
      <3>1. PICK j \in DOMAIN log : /\ log[j].kind = "human_approved"
                                    /\ log[j].run = r /\ log[j].key = calls[k]
        BY <2>5, <2>6 DEF Has
      <3> QED BY <1>2, <1>4, <3>1
    <2> QED BY <2>4, <2>5, <2>6
  <1> QED BY <1>2, <1>3, <1>4

\* A tool ran only after a person had said yes to this run for this very call,
\* and a blocked one never: whatever was paused, resumed, denied or begun in
\* between (TieredApproval, and the batch that waits whole in _run_tools).
THEOREM NothingRunsUnapproved == Spec => []NothingRanUnapproved
  <1>1. Init => Approved
    <2> SUFFICES ASSUME Init PROVE Approved
      OBVIOUS
    <2>1. Typed
      BY TypedInit
    <2>2. Decided
      BY DEF Init, Decided
    <2>3. NothingRanUnapproved
      <3>1. \A i \in DOMAIN log : FALSE
        BY EmptyLog DEF Init
      <3> QED BY <3>1 DEF NothingRanUnapproved
    <2> QED BY <2>1, <2>2, <2>3 DEF Approved
  <1>2. Approved /\ [Next]_vars => Approved'
    <2> SUFFICES ASSUME Approved, [Next]_vars PROVE Approved'
      OBVIOUS
    <2>1. Typed /\ Decided /\ NothingRanUnapproved
      BY DEF Approved
    <2>2. CASE Next
      <3>1. PICK r \in Run : HostNext(r) \/ LoopNext(r)
        BY <2>2 DEF Next
      <3> QED BY <2>1, <3>1, TypedStep, DecidedStep, NothingRanStep DEF Approved
    <2>3. CASE UNCHANGED vars
      <3>1. /\ log' = log /\ phase' = phase /\ response' = response
            /\ waitsOn' = waitsOn /\ result' = result
        BY <2>3 DEF vars
      <3>2. Typed'
        BY <2>1, <3>1 DEF Typed
      <3>3. Decided'
        BY <2>1, <3>1 DEF Decided
      <3>4. NothingRanUnapproved'
        BY <2>1, <3>1 DEF NothingRanUnapproved
      <3> QED BY <3>2, <3>3, <3>4 DEF Approved
    <2> QED BY <2>2, <2>3
  <1>3. Approved => NothingRanUnapproved
    BY DEF Approved
  <1> QED BY <1>1, <1>2, <1>3, PTL DEF Spec

-----------------------------------------------------------------------------
\* A person is asked about a call once.

\* A run that asked about a call waits for the answer, or has it.
Answered == \A r \in Run : \A i \in DOMAIN log :
                log[i].run = r /\ log[i].kind = "pause" /\ log[i].key \in Call =>
                    \/ phase[r] = "paused" /\ waitsOn[r] = log[i].key
                    \/ Has(log, r, "human_approved", log[i].key)
                    \/ Has(log, r, "human_denied", log[i].key)

Asked == Typed /\ Answered /\ CallsAreAskedOnce

LEMMA NotDecided ==
    ASSUME NEW s, NEW r, NEW c, BeforeTool(s, r, c) = "pause"
    PROVE  ~Has(s, r, "human_approved", c) /\ ~Has(s, r, "human_denied", c)
  BY DEF BeforeTool

\* What a step of a run adds about pauses.
LEMMA NewPauses ==
    ASSUME Typed, NEW r \in Run, HostNext(r) \/ LoopNext(r),
           NEW i \in New, log'[i].kind = "pause", log'[i].key \in Call
    PROVE  /\ BatchPauses(r) /\ log'[i].run = r /\ log'[i].key = waitsOn'[r]
           /\ BeforeTool(log, r, log'[i].key) = "pause"
           /\ \A j \in New : log'[j].kind = "pause" => j = i
  <1>1. ~HandsOver(r)
    <2> SUFFICES ASSUME HandsOver(r) PROVE FALSE
      OBVIOUS
    <2>1. log'[i].key = response[r].text
      BY StopLines
    <2>2. response[r].text \in Answer \cup {""}
      BY DEF Typed, Response
    <2> QED BY <2>1, <2>2, AgentLoopAssumption
  <1>2. BatchPauses(r)
    <2>1. CASE ~Loud(r)
      BY <2>1, QuietSteps DEF Adds, QuietKinds
    <2>2. CASE ModelCallsTools(r) \/ ModelAnswers(r)
      BY <2>2, ModelLines DEF Adds
    <2>3. CASE BatchEnds(r)
      BY <2>3, BatchEndsLines DEF Adds
    <2>4. CASE ReviewFails(r)
      BY <2>4, StopLines DEF Adds
    <2> QED BY <1>1, <2>1, <2>2, <2>3, <2>4 DEF Loud
  <1>3. log'[i].run = r /\ log'[i].key = waitsOn'[r]
    BY <1>2, BatchPausesLines DEF Adds
  <1>4. \A j \in New : log'[j].kind = "pause" => j = i
    BY <1>2, BatchPausesLines DEF AddsOne
  <1>5. BeforeTool(log, r, waitsOn'[r]) = "pause"
    BY <1>2, BatchPausesLines
  <1> QED BY <1>2, <1>3, <1>4, <1>5

LEMMA AnsweredStep ==
    ASSUME Typed, Answered, NEW r \in Run, HostNext(r) \/ LoopNext(r)
    PROVE  Answered'
  <1> SUFFICES ASSUME NEW q \in Run, NEW i \in DOMAIN log',
                      log'[i].run = q, log'[i].kind = "pause", log'[i].key \in Call
               PROVE  \/ phase'[q] = "paused" /\ waitsOn'[q] = log'[i].key
                      \/ Has(log', q, "human_approved", log'[i].key)
                      \/ Has(log', q, "human_denied", log'[i].key)
    BY DEF Answered
  <1>1. Keeps /\ Typed' /\ Moves(r)
    BY EveryStepKeeps, TypedStep
  <1>2. CASE i \in New
    <2>1. BatchPauses(r) /\ q = r /\ log'[i].key = waitsOn'[r]
      BY <1>2, NewPauses
    <2>2. phase'[r] = "paused"
      BY <2>1 DEF BatchPauses, PauseOn, Goto, Typed
    <2> QED BY <2>1, <2>2
  <1>3. CASE i \in DOMAIN log
    <2> DEFINE key == log[i].key
    <2>1. log'[i] = log[i]
      BY <1>1, <1>3 DEF Keeps
    <2>2. \/ phase[q] = "paused" /\ waitsOn[q] = key
          \/ Has(log, q, "human_approved", key)
          \/ Has(log, q, "human_denied", key)
      BY <1>3, <2>1 DEF Answered
    <2> HIDE DEF key
    <2>3. /\ Has(log, q, "human_approved", key) => Has(log', q, "human_approved", key)
          /\ Has(log, q, "human_denied", key) => Has(log', q, "human_denied", key)
      BY <1>1, HasStays
    <2>4. CASE phase[q] = "paused" /\ waitsOn[q] = key
      <3>1. CASE q # r
        BY <1>1, <2>1, <2>4, <3>1 DEF Moves, key
      <3>2. CASE q = r
        <4>1. Resume(r, "human_approved") \/ Resume(r, "human_denied")
          BY <2>4, <3>2 DEF HostNext, LoopNext, Begin, RunsOut, BudgetStops, KeepsHistory,
             Summarizes, BeforeModel, ModelCallsTools, ModelAnswers, ModelFails, BatchPauses,
             BatchStarts, BatchEnds, MinimumNotMet, HandsOver, AtReview, UnderReview,
             ReviewPasses, ReviewFails, ReviewErrors
        <4>2. Has(log', r, "human_approved", waitsOn[r]) \/ Has(log', r, "human_denied", waitsOn[r])
          BY <4>1, HostLines
        <4> QED BY <2>1, <2>4, <3>2, <4>2 DEF key
      <3> QED BY <3>1, <3>2
    <2> QED BY <2>1, <2>2, <2>3, <2>4 DEF key
  <1> QED BY <1>1, <1>2, <1>3, OldOrNew

LEMMA AskedOnceStep ==
    ASSUME Typed, Answered, CallsAreAskedOnce, NEW r \in Run, HostNext(r) \/ LoopNext(r)
    PROVE  CallsAreAskedOnce'
  <1>1. Keeps
    BY EveryStepKeeps
  <1>2. /\ DOMAIN log' = DOMAIN log \cup New
        /\ \A i \in DOMAIN log : log'[i] = log[i]
        /\ \A i \in DOMAIN log' : \A j \in 1..i - 1 : j \in DOMAIN log'
        /\ \A i \in DOMAIN log : \A j \in 1..i - 1 : j \in DOMAIN log
        /\ New \subseteq Nat
    BY <1>1, OldOrNew DEF Keeps
  <1> SUFFICES ASSUME NEW i \in DOMAIN log', log'[i].kind = "pause", log'[i].key \in Call,
                      NEW j \in 1..i - 1, log'[j].kind = "pause",
                      log'[j].run = log'[i].run, log'[j].key = log'[i].key
               PROVE  FALSE
    BY DEF CallsAreAskedOnce
  <1>3. CASE i \in DOMAIN log
    <2>1. j \in DOMAIN log /\ log'[i] = log[i] /\ log'[j] = log[j]
      BY <1>2, <1>3
    <2> QED BY <1>3, <2>1 DEF CallsAreAskedOnce
  <1>4. CASE i \in New
    <2>1. /\ BatchPauses(r) /\ log'[i].run = r
          /\ BeforeTool(log, r, log'[i].key) = "pause"
          /\ \A k \in New : log'[k].kind = "pause" => k = i
      BY <1>4, NewPauses
    <2>2. j \in DOMAIN log
      <3>1. j # i
        BY <1>2, <1>4
      <3> QED BY <1>2, <2>1, <3>1
    <2>3. log[j].run = r /\ log[j].kind = "pause" /\ log[j].key = log'[i].key
      BY <1>2, <2>1, <2>2
    <2>4. phase[r] = "before_tool"
      BY <2>1 DEF BatchPauses
    <2>5. Has(log, r, "human_approved", log[j].key) \/ Has(log, r, "human_denied", log[j].key)
      BY <2>2, <2>3, <2>4 DEF Answered
    <2> QED BY <2>1, <2>3, <2>5, NotDecided
  <1> QED BY <1>2, <1>3, <1>4

\* A run asks a person about a call once: whatever is resumed, and however
\* often the batch is walked again, the answer is found on the way through
\* (TieredApproval.before_tool reads the stamp that resume writes).
THEOREM CallsAreNotAskedAgain == Spec => []CallsAreAskedOnce
  <1>1. Init => Asked
    <2> SUFFICES ASSUME Init PROVE Asked
      OBVIOUS
    <2>1. Typed
      BY TypedInit
    <2>2. \A i \in DOMAIN log : FALSE
      BY EmptyLog DEF Init
    <2> QED BY <2>1, <2>2 DEF Asked, Answered, CallsAreAskedOnce
  <1>2. Asked /\ [Next]_vars => Asked'
    <2> SUFFICES ASSUME Asked, [Next]_vars PROVE Asked'
      OBVIOUS
    <2>1. Typed /\ Answered /\ CallsAreAskedOnce
      BY DEF Asked
    <2>2. CASE Next
      <3>1. PICK r \in Run : HostNext(r) \/ LoopNext(r)
        BY <2>2 DEF Next
      <3> QED BY <2>1, <3>1, TypedStep, AnsweredStep, AskedOnceStep DEF Asked
    <2>3. CASE UNCHANGED vars
      <3>1. /\ log' = log /\ phase' = phase /\ response' = response
            /\ waitsOn' = waitsOn /\ result' = result
        BY <2>3 DEF vars
      <3>2. Typed'
        BY <2>1, <3>1 DEF Typed
      <3>3. Answered'
        BY <2>1, <3>1 DEF Answered
      <3>4. CallsAreAskedOnce'
        BY <2>1, <3>1 DEF CallsAreAskedOnce
      <3> QED BY <3>2, <3>3, <3>4 DEF Asked
    <2> QED BY <2>2, <2>3
  <1>3. Asked => CallsAreAskedOnce
    BY DEF Asked
  <1> QED BY <1>1, <1>2, <1>3, PTL DEF Spec

-----------------------------------------------------------------------------
\* The budget.

\* A run about to call the model has a call left, and a halted one does
\* nothing more.
Budgeted == \A r \in Run :
                /\ Count(log, r, "model_call") <= MaxAttempts
                /\ phase[r] = "model" => Count(log, r, "model_call") < MaxAttempts
                /\ FailOpen = TRUE /\ result[r] = "halted" =>
                      Count(log, r, "model_call") = MaxAttempts /\ phase[r] = "returned"

\* What a step adds to a count: its own run's, and only by the actions named.
LEMMA OthersCount ==
    ASSUME Typed, NEW r \in Run, HostNext(r) \/ LoopNext(r), NEW q, q # r, NEW kind
    PROVE  Count(log', q, kind) = Count(log, q, kind)
  BY EveryStepKeeps, EveryStepAdds, CountStays

LEMMA CallsCounted ==
    ASSUME Typed, NEW r \in Run, HostNext(r) \/ LoopNext(r)
    PROVE  /\ ModelCallsTools(r) \/ ModelAnswers(r) =>
                 Count(log', r, "model_call") = Count(log, r, "model_call") + 1
           /\ ~ModelCallsTools(r) /\ ~ModelAnswers(r) =>
                 Count(log', r, "model_call") = Count(log, r, "model_call")
  <1>1. Keeps
    BY EveryStepKeeps
  <1>2. CASE ModelCallsTools(r) \/ ModelAnswers(r)
    <2>1. CASE ModelCallsTools(r)
      BY <1>1, <2>1, ModelLines, CountsOne
    <2>2. CASE ModelAnswers(r)
      BY <1>1, <2>2, ModelLines, CountsOne
    <2> QED BY <1>2, <2>1, <2>2
  <1>3. CASE ~ModelCallsTools(r) /\ ~ModelAnswers(r)
    <2> SUFFICES Count(log', r, "model_call") = Count(log, r, "model_call")
      BY <1>3
    <2>1. ASSUME NEW kinds, Adds(r, kinds), "model_call" \notin kinds
          PROVE  Count(log', r, "model_call") = Count(log, r, "model_call")
      BY <1>1, <2>1, CountStays
    <2>2. CASE ~Loud(r)
      <3>1. Adds(r, QuietKinds)
        BY <2>2, QuietSteps
      <3> QED BY <2>1, <3>1 DEF QuietKinds
    <2>3. CASE BatchPauses(r)
      <3>1. Adds(r, {"deny", "pause"})
        BY <2>3, BatchPausesLines
      <3> QED BY <2>1, <3>1
    <2>4. CASE BatchEnds(r)
      <3>1. Adds(r, {"tool_result"})
        BY <2>4, BatchEndsLines
      <3> QED BY <2>1, <3>1
    <2>5. CASE HandsOver(r)
      <3>1. Adds(r, {"deny", "pause"})
        BY <2>5, StopLines
      <3> QED BY <2>1, <3>1
    <2>6. CASE ReviewFails(r)
      <3>1. Adds(r, {"review_failed", "inject", "user_message"})
        BY <2>6, StopLines
      <3> QED BY <2>1, <3>1
    <2> QED BY <1>3, <2>2, <2>3, <2>4, <2>5, <2>6 DEF Loud
  <1> QED BY <1>2, <1>3

LEMMA FailuresCounted ==
    ASSUME Typed, NEW r \in Run, HostNext(r) \/ LoopNext(r)
    PROVE  /\ ReviewFails(r) =>
                 Count(log', r, "review_failed") = Count(log, r, "review_failed") + 1
           /\ ~ReviewFails(r) =>
                 Count(log', r, "review_failed") = Count(log, r, "review_failed")
  <1>1. Keeps
    BY EveryStepKeeps
  <1>2. CASE ReviewFails(r)
    BY <1>1, <1>2, StopLines, CountsOne
  <1>3. CASE ~ReviewFails(r)
    <2> SUFFICES Count(log', r, "review_failed") = Count(log, r, "review_failed")
      BY <1>3
    <2>1. ASSUME NEW kinds, Adds(r, kinds), "review_failed" \notin kinds
          PROVE  Count(log', r, "review_failed") = Count(log, r, "review_failed")
      BY <1>1, <2>1, CountStays
    <2>2. CASE ~Loud(r)
      <3>1. Adds(r, QuietKinds)
        BY <2>2, QuietSteps
      <3> QED BY <2>1, <3>1 DEF QuietKinds
    <2>3. CASE BatchPauses(r)
      <3>1. Adds(r, {"deny", "pause"})
        BY <2>3, BatchPausesLines
      <3> QED BY <2>1, <3>1
    <2>4. CASE BatchEnds(r)
      <3>1. Adds(r, {"tool_result"})
        BY <2>4, BatchEndsLines
      <3> QED BY <2>1, <3>1
    <2>5. CASE HandsOver(r)
      <3>1. Adds(r, {"deny", "pause"})
        BY <2>5, StopLines
      <3> QED BY <2>1, <3>1
    <2>6. CASE ModelCallsTools(r)
      <3>1. Adds(r, {"model_call"})
        BY <2>6, ModelLines
      <3> QED BY <2>1, <3>1
    <2>7. CASE ModelAnswers(r)
      <3>1. Adds(r, {"model_call", "agent_message"})
        BY <2>7, ModelLines
      <3> QED BY <2>1, <3>1
    <2> QED BY <1>3, <2>2, <2>3, <2>4, <2>5, <2>6, <2>7 DEF Loud
  <1> QED BY <1>2, <1>3

LEMMA BudgetedStep ==
    ASSUME Typed, Budgeted, NEW r \in Run, HostNext(r) \/ LoopNext(r)
    PROVE  Budgeted'
  <1> SUFFICES ASSUME NEW q \in Run
               PROVE  /\ Count(log', q, "model_call") <= MaxAttempts
                      /\ phase'[q] = "model" => Count(log', q, "model_call") < MaxAttempts
                      /\ FailOpen = TRUE /\ result'[q] = "halted" =>
                            Count(log', q, "model_call") = MaxAttempts /\ phase'[q] = "returned"
    BY DEF Budgeted
  <1> DEFINE n  == Count(log, q, "model_call")
             n1 == Count(log', q, "model_call")
  <1>1. /\ n \in Nat /\ n <= MaxAttempts
        /\ phase[q] = "model" => n < MaxAttempts
        /\ FailOpen = TRUE /\ result[q] = "halted" => n = MaxAttempts /\ phase[q] = "returned"
    BY Counted DEF Budgeted, Typed
  <1>2. Moves(r)
    BY TypedStep
  <1>3. CASE q # r
    <2>1. n1 = n
      BY <1>3, OthersCount
    <2> HIDE DEF n, n1
    <2>2. phase'[q] = phase[q] /\ result'[q] = result[q]
      BY <1>2, <1>3 DEF Moves
    <2> QED BY <1>1, <2>1, <2>2 DEF n1
  <1>4. CASE q = r
    <2>1. CASE ModelCallsTools(r) \/ ModelAnswers(r)
      <3>1. n1 = n + 1
        BY <1>4, <2>1, CallsCounted
      <3>2. phase[r] = "model" /\ phase'[r] # "model" /\ result'[r] = result[r]
        BY <2>1 DEF ModelCallsTools, ModelAnswers, Goto, Typed
      <3> HIDE DEF n, n1
      <3> QED BY <1>1, <1>4, <3>1, <3>2, GuardrailsAssumption DEF n1
    <2>2. CASE ~ModelCallsTools(r) /\ ~ModelAnswers(r)
      <3>1. n1 = n
        BY <1>4, <2>2, CallsCounted
      <3>2. phase'[r] = "model" => Count(log, r, "model_call") < MaxAttempts
        <4>1. ASSUME phase'[r] = "model" PROVE ~Spent(log, r)
          BY <2>2, <4>1 DEF Typed, HostNext, LoopNext, Begin, Resume, RunsOut, BudgetStops,
             KeepsHistory, Summarizes, BeforeModel, ModelFails, BatchPauses, BatchStarts,
             BatchEnds, MinimumNotMet, HandsOver, ReviewPasses, ReviewFails, ReviewErrors,
             SendBack, Finish, PauseOn, Goto
        <4> QED BY <1>1, <1>4, <4>1, GuardrailsAssumption DEF Spent
      <3>3. phase[r] # "returned"
        BY DEF HostNext, LoopNext, Begin, Resume, RunsOut, BudgetStops, KeepsHistory,
           Summarizes, BeforeModel, ModelCallsTools, ModelAnswers, ModelFails, BatchPauses,
           BatchStarts, BatchEnds, MinimumNotMet, HandsOver, AtReview, UnderReview,
           ReviewPasses, ReviewFails, ReviewErrors
      <3>4. ASSUME FailOpen = TRUE, result'[r] = "halted"
            PROVE  Count(log, r, "model_call") = MaxAttempts /\ phase'[r] = "returned"
        <4>1. result[r] # "halted"
          BY <1>1, <1>4, <3>3, <3>4
        <4>2. response[r].text # "halted"
          BY AgentLoopAssumption DEF Typed, Response
        <4>3. BudgetStops(r)
          <5>1. CASE HostNext(r)
            BY <3>4, <4>1, <5>1 DEF HostNext, Begin, Resume
          <5>2. CASE ReviewPasses(r) \/ ReviewErrors(r)
            BY <3>4, <4>2, <5>2 DEF ReviewPasses, ReviewErrors, Finish, Typed
          <5>3. CASE LoopNext(r) /\ ~BudgetStops(r) /\ ~ReviewPasses(r) /\ ~ReviewErrors(r)
            BY <2>2, <3>4, <4>1, <5>3 DEF LoopNext, RunsOut, KeepsHistory, Summarizes, BeforeModel,
               ModelFails, BatchPauses, BatchStarts, BatchEnds, MinimumNotMet, HandsOver,
               ReviewFails, SendBack, PauseOn
          <5> QED BY <5>1, <5>2, <5>3
        <4>4. Spent(log, r) /\ phase'[r] = "returned"
          BY <4>3 DEF BudgetStops, Finish, Goto, Typed
        <4> QED BY <1>1, <1>4, <4>4, GuardrailsAssumption DEF Spent
      <3> HIDE DEF n1
      <3> QED BY <1>1, <1>4, <3>1, <3>2, <3>4 DEF n1
    <2> QED BY <2>1, <2>2
  <1> QED BY <1>3, <1>4

\* Over the whole life of a run, however often it is paused and resumed, the
\* model is called at most max_attempts times, and no run is halted for its
\* budget before it has spent it itself (AttemptBudget.before_model counts the
\* run's own model_call lines).
THEOREM BudgetHolds == Spec => []BudgetIsTheRunsOwn
  <1> DEFINE Inv == Typed /\ Budgeted
  <1>1. Init => Inv
    <2> SUFFICES ASSUME Init PROVE Inv
      OBVIOUS
    <2>1. \A r : Count(log, r, "model_call") = 0
      BY EmptyLog DEF Init
    <2>2. \A r \in Run : phase[r] = "new" /\ result[r] = ""
      BY DEF Init
    <2>3. MaxAttempts \in Nat
      BY GuardrailsAssumption
    <2>4. Budgeted
      <3> SUFFICES ASSUME NEW r \in Run
                   PROVE  /\ Count(log, r, "model_call") <= MaxAttempts
                          /\ phase[r] # "model" /\ result[r] # "halted"
        BY DEF Budgeted
      <3>1. Count(log, r, "model_call") <= MaxAttempts
        BY <2>1, <2>3
      <3>2. phase[r] # "model" /\ result[r] # "halted"
        BY <2>2
      <3> QED BY <3>1, <3>2
    <2> QED BY <2>4, TypedInit
  <1>2. Inv /\ [Next]_vars => Inv'
    <2> SUFFICES ASSUME Inv, [Next]_vars PROVE Inv'
      OBVIOUS
    <2>1. CASE Next
      <3>1. PICK r \in Run : HostNext(r) \/ LoopNext(r)
        BY <2>1 DEF Next
      <3> QED BY <3>1, TypedStep, BudgetedStep
    <2>2. CASE UNCHANGED vars
      <3>1. /\ log' = log /\ phase' = phase /\ response' = response
            /\ waitsOn' = waitsOn /\ result' = result
        BY <2>2 DEF vars
      <3>2. Typed'
        BY <3>1 DEF Typed
      <3>3. Budgeted'
        BY <3>1 DEF Budgeted
      <3> QED BY <3>2, <3>3
    <2> QED BY <2>1, <2>2
  <1>3. Inv => BudgetIsTheRunsOwn
    BY GuardrailsAssumption DEF Budgeted, BudgetIsTheRunsOwn
  <1> QED BY <1>1, <1>2, <1>3, PTL DEF Spec

-----------------------------------------------------------------------------
\* The review.

LEMMA ReviewedStep ==
    ASSUME Typed, AnswersAreReviewed, NEW r \in Run, HostNext(r) \/ LoopNext(r)
    PROVE  AnswersAreReviewed'
  <1>1. ASSUME NEW q \in Run PROVE Count(log', q, "review_failed") <= MaxRounds
    <2>1. /\ Count(log, q, "review_failed") <= MaxRounds
          /\ Count(log, q, "review_failed") \in Nat
      BY Counted DEF AnswersAreReviewed, Typed
    <2>2. CASE q # r \/ ~ReviewFails(r)
      BY <2>1, <2>2, OthersCount, FailuresCounted
    <2>3. CASE q = r /\ ReviewFails(r)
      <3>1. ~(Count(log, q, "review_failed") >= MaxRounds)
        BY <2>3 DEF ReviewFails, UnderReview, RoundsUsedUp
      <3>2. Count(log', q, "review_failed") = Count(log, q, "review_failed") + 1
        BY <2>3, FailuresCounted
      <3> QED BY <2>1, <3>1, <3>2, GuardrailsAssumption
    <2> QED BY <2>2, <2>3
  <1>2. ASSUME NEW q \in Run, result'[q] \in Answer
        PROVE  \/ Has(log', q, "review_passed", result'[q])
               \/ FailOpen /\ Has(log', q, "review_errored", result'[q])
    <2>1. Keeps /\ Moves(r)
      BY EveryStepKeeps, TypedStep
    <2>2. CASE result'[q] = result[q]
      <3> DEFINE a == result[q]
      <3>1. Has(log, q, "review_passed", a) \/ (FailOpen /\ Has(log, q, "review_errored", a))
        BY <1>2, <2>2 DEF AnswersAreReviewed
      <3> HIDE DEF a
      <3>2. /\ Has(log, q, "review_passed", a) => Has(log', q, "review_passed", a)
            /\ Has(log, q, "review_errored", a) => Has(log', q, "review_errored", a)
        BY <2>1, HasStays
      <3> QED BY <2>2, <3>1, <3>2 DEF a
    <2>3. CASE result'[q] # result[q]
      <3>1. q = r
        BY <2>1, <2>3 DEF Moves
      <3>2. BudgetStops(r) \/ ReviewPasses(r) \/ ReviewErrors(r)
        BY <2>3 DEF HostNext, LoopNext, Begin, Resume, RunsOut, KeepsHistory, Summarizes,
           BeforeModel, ModelCallsTools, ModelAnswers, ModelFails, BatchPauses, BatchStarts,
           BatchEnds, MinimumNotMet, HandsOver, ReviewFails, SendBack, PauseOn
      <3>3. result'[r] # "halted"
        BY <1>2, <3>1, AgentLoopAssumption
      <3>4. CASE ReviewPasses(r)
        <4>1. result'[r] = response[r].text
          BY <3>4 DEF ReviewPasses, Finish, Typed
        <4>2. Has(log', r, "review_passed", response[r].text)
          BY <3>4, ReviewLines
        <4> QED BY <3>1, <4>1, <4>2
      <3>5. CASE ReviewErrors(r)
        <4>1. FailOpen = TRUE /\ result'[r] = response[r].text
          BY <3>3, <3>5, GuardrailsAssumption DEF ReviewErrors, Finish, Typed
        <4>2. Has(log', r, "review_errored", response[r].text)
          BY <3>5, <4>1, ReviewLines
        <4> QED BY <3>1, <4>1, <4>2
      <3>6. ~BudgetStops(r)
        BY <3>3 DEF BudgetStops, Finish, Typed
      <3> QED BY <3>2, <3>4, <3>5, <3>6
    <2> QED BY <2>2, <2>3
  <1> QED BY <1>1, <1>2 DEF AnswersAreReviewed

\* What run_loop returns as an answer passed review word for word, or the
\* reviewer could not be had and the gate is fail-open, and no run is sent back
\* more than max_rounds times, across every pause (ReviewGate.on_model_stop).
THEOREM AnswersPassReview == Spec => []AnswersAreReviewed
  <1> DEFINE Inv == Typed /\ AnswersAreReviewed
  <1>1. Init => Inv
    <2> SUFFICES ASSUME Init PROVE Inv
      OBVIOUS
    <2>1. \A r : Count(log, r, "review_failed") = 0
      BY EmptyLog DEF Init
    <2>2. \A r \in Run : result[r] \notin Answer
      BY AgentLoopAssumption DEF Init
    <2>3. AnswersAreReviewed
      BY <2>1, <2>2, GuardrailsAssumption DEF AnswersAreReviewed
    <2> QED BY <2>3, TypedInit
  <1>2. Inv /\ [Next]_vars => Inv'
    <2> SUFFICES ASSUME Inv, [Next]_vars PROVE Inv'
      OBVIOUS
    <2>1. CASE Next
      <3>1. PICK r \in Run : HostNext(r) \/ LoopNext(r)
        BY <2>1 DEF Next
      <3> QED BY <3>1, TypedStep, ReviewedStep
    <2>2. CASE UNCHANGED vars
      <3>1. /\ log' = log /\ phase' = phase /\ response' = response
            /\ waitsOn' = waitsOn /\ result' = result
        BY <2>2 DEF vars
      <3>2. Typed'
        BY <3>1 DEF Typed
      <3>3. AnswersAreReviewed'
        BY <3>1 DEF AnswersAreReviewed
      <3> QED BY <3>2, <3>3
    <2> QED BY <2>1, <2>2
  <1>3. Inv => AnswersAreReviewed
    OBVIOUS
  <1> QED BY <1>1, <1>2, <1>3, PTL DEF Spec

-----------------------------------------------------------------------------
\* Requests

\* A line that is no part of a batch.
QuietLine == {e \in Event : e.depth = 0 /\ e.calls = <<>> /\ e.kind # "tool_result"}

LEMMA LineIsAnEvent ==
    ASSUME NEW r \in Run, NEW kind \in Kind, NEW key \in Call \cup Answer \cup {""},
           NEW text \in Answer \cup {"", "output", "refused", "question", "correction"}
    PROVE  /\ Line(r, kind) \in Event /\ About(r, kind, key) \in Event
           /\ Said(r, kind, text) \in Event
           /\ [About(r, kind, key) EXCEPT !.text = text] \in Event
           /\ kind # "tool_result" => /\ Line(r, kind) \in QuietLine
                                     /\ About(r, kind, key) \in QuietLine
                                     /\ Said(r, kind, text) \in QuietLine
  <1>1. <<>> \in Seq(Call)
    BY ONLY EmptySeq
  <1>2. {} \in SUBSET (Nat \ {0})
    OBVIOUS
  <1>3. Line(r, kind) \in Event
    BY <1>1, <1>2 DEF Line, Event
  <1>4. About(r, kind, key) \in Event
    BY <1>1, <1>2 DEF About, Line, Event
  <1>5. Said(r, kind, text) \in Event
    BY <1>1, <1>2 DEF Said, Line, Event
  <1>6. [About(r, kind, key) EXCEPT !.text = text] \in Event
    BY <1>1, <1>2 DEF About, Line, Event
  <1>7. /\ Line(r, kind).depth = 0 /\ Line(r, kind).calls = <<>> /\ Line(r, kind).kind = kind
        /\ About(r, kind, key).depth = 0 /\ About(r, kind, key).calls = <<>>
        /\ About(r, kind, key).kind = kind
        /\ Said(r, kind, text).depth = 0 /\ Said(r, kind, text).calls = <<>>
        /\ Said(r, kind, text).kind = kind
    BY DEF Line, About, Said
  <1> QED BY <1>3, <1>4, <1>5, <1>6, <1>7 DEF QuietLine

LEMMA QuietKindsAreKinds ==
    {"user_message", "human_approved", "human_denied", "stop", "run_finished", "deny", "pause",
     "history_summarized", "inject", "review_passed", "review_failed", "review_errored",
     "model_call", "agent_message"} \subseteq Kind \ {"tool_result"}
  BY DEF Kind, HistoryKinds

LEMMA SummaryIsAnEvent ==
    ASSUME log \in Seq(Event), NEW r \in Run
    PROVE  Summary(log, r) \in QuietLine
  <1> DEFINE older  == Older(log, HistoryEvents(log))
             covers == older \cup UNION {log[i].covers : i \in older}
             x      == Line(r, "history_summarized")
  <1>1. older \subseteq 1..Len(log)
    BY HistoryFacts
  <1>2. \A i \in older : log[i].covers \in SUBSET (Nat \ {0})
    <2> SUFFICES ASSUME NEW i \in older PROVE log[i].covers \in SUBSET (Nat \ {0})
      OBVIOUS
    <2> QED BY <1>1, EventFields
  <1>3. \A i \in older : i \in Nat \ {0}
    BY <1>1
  <1> HIDE DEF older
  <1>4. covers \in SUBSET (Nat \ {0})
    BY <1>2, <1>3
  <1>5. Summary(log, r) = [x EXCEPT !.covers = covers]
    BY DEF Summary, older
  <1>6. x \in QuietLine
    <2>1. "history_summarized" \in Kind
      BY DEF Kind, HistoryKinds
    <2> QED BY <2>1, LineIsAnEvent
  <1> HIDE DEF covers, x
  <1> QED BY <1>4, <1>5, <1>6 DEF QuietLine, Event

LEMMA ModelCallIsAnEvent ==
    ASSUME log \in Seq(Event), NEW r \in Run
    PROVE  ModelCall(r) \in QuietLine
  <1> DEFINE n == Len(BuildMessages(log))
             x == Line(r, "model_call")
  <1>1. n \in Nat
    BY RequestFacts
  <1>2. x \in QuietLine
    <2>1. "model_call" \in Kind
      BY DEF Kind
    <2> QED BY <2>1, LineIsAnEvent
  <1>3. ModelCall(r) = [x EXCEPT !.read = n]
    BY DEF ModelCall
  <1> HIDE DEF n, x
  <1> QED BY <1>1, <1>2, <1>3 DEF QuietLine, Event

\* A step that is no part of a batch.
AddsQuietly == \E lines \in Seq(QuietLine) : log' = log \o lines

LEMMA AddsNothingQuietly ==
    ASSUME log \in Seq(Event), log' = log
    PROVE  AddsQuietly
  <1>1. <<>> \in Seq(QuietLine) /\ log \o <<>> = log
    OBVIOUS
  <1> QED BY <1>1 DEF AddsQuietly

LEMMA QuietTuples ==
    ASSUME NEW a \in QuietLine, NEW b \in QuietLine
    PROVE  /\ <<>> \in Seq(QuietLine)
           /\ <<a>> \in Seq(QuietLine) /\ <<a, b>> \in Seq(QuietLine)
  OBVIOUS

LEMMA AddsQuietLines ==
    ASSUME log \in Seq(Event), NEW lines \in Seq(QuietLine), NEW more \in Seq(QuietLine),
           log' = log \o lines \o more
    PROVE  AddsQuietly
  <1>1. IsLog(log) /\ IsLog(lines) /\ IsLog(more)
    BY DEF IsLog
  <1>2. log' = log \o (lines \o more)
    BY <1>1, Assoc
  <1>3. lines \o more \in Seq(QuietLine)
    OBVIOUS
  <1> QED BY <1>2, <1>3 DEF AddsQuietly

LEMMA DenialsAreQuiet ==
    ASSUME NEW r \in Run, NEW calls \in Seq(Call)
    PROVE  Denials(r, calls) \in Seq(QuietLine)
  <1> DEFINE lines == Denials(r, calls)
             denied == {i \in DOMAIN calls : BeforeTool(log, r, calls[i]) = "deny"}
             n      == Cardinality(denied)
  <1>1. Line(r, "deny") \in QuietLine
    <2>1. "deny" \in Kind
      BY DEF Kind
    <2> QED BY <2>1, LineIsAnEvent
  <1>2. n \in Nat
    <2>1. Len(calls) \in Nat /\ denied \subseteq 1..Len(calls)
      OBVIOUS
    <2> HIDE DEF denied
    <2> QED BY <2>1, PositionsAreFinite
  <1>3. lines = [i \in 1..n |-> Line(r, "deny")]
    BY DEF Denials
  <1> HIDE DEF n, lines
  <1>4. lines \in Seq(QuietLine)
    BY <1>1, <1>2, <1>3
  <1> QED BY <1>4 DEF lines

\* All but the two ends of a batch add lines that are no part of one.
LEMMA QuietActions ==
    ASSUME Typed, log \in Seq(Event), NEW r \in Run, HostNext(r) \/ LoopNext(r),
           ~BatchStarts(r), ~BatchEnds(r)
    PROVE  AddsQuietly
  <1>1. IsLog(log)
    BY DEF Typed
  <1>2. /\ response[r].calls \in Seq(Call) /\ response[r].text \in Answer \cup {""}
        /\ waitsOn[r] \in Call \cup Answer \cup {""}
    BY DEF Typed, Response
  <1>3. ASSUME NEW kind \in Kind \ {"tool_result"}, NEW key \in Call \cup Answer \cup {""},
               NEW text \in Answer \cup {"", "output", "refused", "question", "correction"}
        PROVE  /\ Line(r, kind) \in QuietLine /\ About(r, kind, key) \in QuietLine
               /\ Said(r, kind, text) \in QuietLine
    BY LineIsAnEvent
  <1>4. \A x \in QuietLine : log' = Append(log, x) => AddsQuietly
    <2> SUFFICES ASSUME NEW x \in QuietLine, log' = Append(log, x) PROVE AddsQuietly
      OBVIOUS
    <2>1. log' = log \o <<x>>
      BY <1>1, AppendLog
    <2> QED BY <2>1, QuietTuples DEF AddsQuietly
  <1>5. CASE Begin(r)
    BY <1>3, <1>4, <1>5, QuietKindsAreKinds DEF Begin
  <1>6. CASE Resume(r, "human_approved") \/ Resume(r, "human_denied")
    BY <1>2, <1>3, <1>4, <1>6, QuietKindsAreKinds DEF Resume
  <1>7. CASE RunsOut(r) \/ ModelFails(r)
    BY <1>7, AddsNothingQuietly DEF RunsOut, ModelFails
  <1>8. ASSUME NEW lines \in Seq(QuietLine), NEW answer, Finish(r, lines, answer) PROVE AddsQuietly
    <2>1. log' = log \o lines \o <<Line(r, "run_finished")>>
      BY <1>8 DEF Finish
    <2>2. <<Line(r, "run_finished")>> \in Seq(QuietLine)
      BY <1>3, QuietTuples, QuietKindsAreKinds
    <2> QED BY <2>1, <2>2, AddsQuietLines
  <1>9. CASE BudgetStops(r)
    <2>1. <<Line(r, "stop")>> \in Seq(QuietLine)
      BY <1>3, QuietTuples, QuietKindsAreKinds
    <2> QED BY <1>8, <1>9, <2>1 DEF BudgetStops
  <1>10. CASE KeepsHistory(r)
    <2>1. log' = log \o <<>>
      BY <1>10 DEF KeepsHistory, BeforeModel
    <2>2. <<>> \in Seq(QuietLine)
      BY EmptySeq
    <2> QED BY <2>1, <2>2 DEF AddsQuietly
  <1>11. CASE Summarizes(r)
    <2>1. log' = log \o <<Summary(log, r)>>
      BY <1>11 DEF Summarizes, BeforeModel
    <2>2. <<Summary(log, r)>> \in Seq(QuietLine)
      BY SummaryIsAnEvent, QuietTuples
    <2> QED BY <2>1, <2>2 DEF AddsQuietly
  <1>12. CASE ModelCallsTools(r)
    BY <1>4, <1>12, ModelCallIsAnEvent DEF ModelCallsTools
  <1>13. CASE ModelAnswers(r)
    <2>1. PICK a \in Answer : log' = log \o <<ModelCall(r), Said(r, "agent_message", a)>>
      BY <1>13 DEF ModelAnswers
    <2>2. Said(r, "agent_message", a) \in QuietLine
      BY <1>3, QuietKindsAreKinds
    <2> QED BY <2>1, <2>2, ModelCallIsAnEvent, QuietTuples DEF AddsQuietly
  <1>14. ASSUME NEW lines \in Seq(QuietLine), NEW key \in Call \cup Answer \cup {""},
                PauseOn(r, lines, key)
         PROVE  AddsQuietly
    <2>1. log' = log \o lines \o <<About(r, "pause", key)>>
      BY <1>14 DEF PauseOn
    <2>2. <<About(r, "pause", key)>> \in Seq(QuietLine)
      BY <1>3, QuietTuples, QuietKindsAreKinds
    <2> QED BY <2>1, <2>2, AddsQuietLines
  <1>15. CASE BatchPauses(r)
    <2> DEFINE calls == response[r].calls
               part  == SubSeq(calls, 1, PausesAt(r) - 1)
    <2>1. /\ PausesAt(r) \in DOMAIN calls /\ PauseOn(r, Denials(r, part), calls[PausesAt(r)])
      BY <1>2, <1>15, WhereItPauses DEF BatchPauses
    <2>2. calls \in Seq(Call)
      BY <1>2
    <2> HIDE DEF calls
    <2>3. part \in Seq(Call) /\ calls[PausesAt(r)] \in Call
      BY <2>1, <2>2
    <2>4. Denials(r, part) \in Seq(QuietLine)
      BY <2>3, DenialsAreQuiet
    <2> HIDE DEF part
    <2> QED BY <1>14, <2>1, <2>3, <2>4
  <1>16. CASE HandsOver(r)
    BY <1>2, <1>14, <1>16, EmptySeq DEF HandsOver
  <1>17. ASSUME NEW lines \in Seq(QuietLine), SendBack(r, lines) PROVE AddsQuietly
    <2> DEFINE more == <<Line(r, "inject"), Said(r, "user_message", "correction")>>
    <2>1. log' = log \o lines \o more
      BY <1>17 DEF SendBack
    <2>2. more \in Seq(QuietLine)
      BY <1>3, QuietTuples, QuietKindsAreKinds
    <2> HIDE DEF more
    <2> QED BY <2>1, <2>2, AddsQuietLines
  <1>18. CASE MinimumNotMet(r)
    BY <1>17, <1>18, EmptySeq DEF MinimumNotMet
  <1>19. ASSUME NEW kind \in {"review_passed", "review_failed", "review_errored"}
         PROVE  <<About(r, kind, response[r].text)>> \in Seq(QuietLine)
    BY <1>2, <1>3, QuietTuples, QuietKindsAreKinds
  <1>20. CASE ReviewFails(r)
    BY <1>17, <1>19, <1>20 DEF ReviewFails
  <1>21. CASE ReviewPasses(r)
    BY <1>8, <1>19, <1>21 DEF ReviewPasses
  <1>22. CASE ReviewErrors(r)
    <2> DEFINE errored == About(r, "review_errored", response[r].text)
    <2>1. <<errored>> \in Seq(QuietLine) /\ <<errored, Line(r, "stop")>> \in Seq(QuietLine)
      BY <1>2, <1>3, QuietTuples, QuietKindsAreKinds
    <2>2. \/ Finish(r, <<errored>>, response[r].text)
          \/ Finish(r, <<errored, Line(r, "stop")>>, "halted")
      BY <1>22 DEF ReviewErrors
    <2> QED BY <1>8, <2>1, <2>2
  <1> QED BY <1>5, <1>6, <1>7, <1>9, <1>10, <1>11, <1>12, <1>13, <1>15, <1>16, <1>18, <1>20,
             <1>21, <1>22 DEF HostNext, LoopNext

\* Where a batch is open: at the end of the log, while its calls run.
OpenBatch == IF \E r \in Run : phase[r] = "tools" THEN {Len(log)} ELSE {}

OneAtATime == \A q, r \in Run : phase[q] \in Active /\ phase[r] \in Active => q = r

\* What the model turn in hand is, phase by phase.
InHand == \A r \in Run :
    /\ phase[r] \in {"before_tool", "tools"} => response[r].calls # <<>>
    /\ phase[r] = "paused" => response[r] = NoResponse \/ response[r].calls # <<>>
    /\ phase[r] = "tools" => log[Len(log)].calls = response[r].calls

\* The inductive invariant of the two theorems.
Paced ==
    /\ TypeOK /\ OneAtATime /\ InHand
    /\ log = <<>> => \A r \in Run : phase[r] = "new"
    /\ Batched(log, OpenBatch)

LEMMA TypeOKIsTyped ==
    ASSUME TypeOK
    PROVE  Typed /\ log \in Seq(Event)
  BY DEF TypeOK, Typed, IsLog

LEMMA TurnStep ==
    ASSUME TypeOK, NEW r \in Run, HostNext(r) \/ LoopNext(r)
    PROVE  turn' \in [Run -> 0..MaxTurns]
  <1>1. MaxTurns \in Nat /\ 0 \in 0..MaxTurns /\ 1 \in 0..MaxTurns
    <2>1. MaxTurns \in Nat \ {0}
      BY AgentLoopAssumption, Zenon
    <2> QED BY <2>1
  <1>2. turn \in [Run -> 0..MaxTurns]
    BY DEF TypeOK
  <1>3. \/ turn' = turn
        \/ turn' = [turn EXCEPT ![r] = 0]
        \/ turn' = [turn EXCEPT ![r] = 1]
        \/ turn[r] < MaxTurns /\ turn' = [turn EXCEPT ![r] = @ + 1]
    <2>1. CASE HostNext(r)
      BY <2>1 DEF HostNext, Begin, Resume
    <2>2. CASE KeepsHistory(r) \/ Summarizes(r)
      BY <2>2 DEF KeepsHistory, Summarizes, BeforeModel
    <2>3. CASE RunsOut(r) \/ BudgetStops(r) \/ ModelCallsTools(r) \/ ModelAnswers(r) \/ ModelFails(r)
      BY <2>3 DEF RunsOut, BudgetStops, Finish, ModelCallsTools, ModelAnswers, ModelFails
    <2>4. CASE BatchPauses(r) \/ BatchStarts(r) \/ BatchEnds(r) \/ HandsOver(r)
      BY <2>4 DEF BatchPauses, PauseOn, BatchStarts, BatchEnds, HandsOver
    <2>5. CASE MinimumNotMet(r) \/ ReviewFails(r) \/ ReviewPasses(r) \/ ReviewErrors(r)
      BY <2>5 DEF MinimumNotMet, ReviewFails, ReviewPasses, ReviewErrors, SendBack, Finish
    <2> QED BY <2>1, <2>2, <2>3, <2>4, <2>5 DEF LoopNext
  <1>4. turn[r] \in 0..MaxTurns
    BY <1>2
  <1> QED BY <1>1, <1>2, <1>3, <1>4

\* Where an action is taken, and where it leads.
LEMMA Paths ==
    ASSUME Typed, NEW r \in Run, HostNext(r) \/ LoopNext(r)
    PROVE  \/ /\ HostIsFree /\ phase'[r] \in Active \ {"tools"}
              /\ phase[r] \in {"new", "paused"} /\ (phase[r] = "new" => Begin(r))
           \/ /\ phase[r] \in Active \ {"before_tool", "tools"}
              /\ phase'[r] \notin {"new", "tools"}
           \/ /\ phase[r] = "before_tool" /\ BatchPauses(r) /\ phase'[r] = "paused"
           \/ /\ phase[r] = "before_tool" /\ BatchStarts(r) /\ phase'[r] = "tools"
           \/ /\ phase[r] = "tools" /\ BatchEnds(r) /\ phase'[r] = "before_model"
  <1>1. phase \in [Run -> Phase]
    BY DEF Typed
  <1>2. ASSUME NEW p, Goto(r, p) PROVE phase'[r] = p
    BY <1>1, <1>2 DEF Goto
  <1>3. CASE Begin(r)
    BY <1>2, <1>3 DEF Begin, Active
  <1>4. CASE Resume(r, "human_approved") \/ Resume(r, "human_denied")
    <2>1. /\ HostIsFree /\ phase[r] = "paused"
          /\ Goto(r, "before_tool") \/ Goto(r, "before_model")
      BY <1>4 DEF Resume
    <2>2. phase'[r] \in {"before_tool", "before_model"}
      BY <1>2, <2>1
    <2> QED BY <2>1, <2>2 DEF Active
  <1>5. CASE RunsOut(r) \/ ModelFails(r) \/ KeepsHistory(r) \/ Summarizes(r)
    BY <1>2, <1>5 DEF RunsOut, ModelFails, KeepsHistory, Summarizes, BeforeModel, Active
  <1>6. CASE BudgetStops(r) \/ ReviewPasses(r) \/ ReviewErrors(r)
    <2>1. phase[r] \in {"before_model", "on_model_stop"}
      BY <1>6 DEF BudgetStops, ReviewPasses, ReviewErrors, UnderReview, AtReview
    <2>2. Goto(r, "returned")
      BY <1>6 DEF BudgetStops, ReviewPasses, ReviewErrors, Finish
    <2> QED BY <1>2, <2>1, <2>2 DEF Active
  <1>7. CASE ModelCallsTools(r) \/ ModelAnswers(r)
    BY <1>2, <1>7 DEF ModelCallsTools, ModelAnswers, Active
  <1>8. CASE MinimumNotMet(r) \/ ReviewFails(r)
    <2>1. phase[r] = "on_model_stop"
      BY <1>8 DEF MinimumNotMet, ReviewFails, UnderReview, AtReview
    <2>2. Goto(r, "before_model")
      BY <1>8 DEF MinimumNotMet, ReviewFails, SendBack
    <2> QED BY <1>2, <2>1, <2>2 DEF Active
  <1>9. CASE HandsOver(r)
    BY <1>2, <1>9 DEF HandsOver, AtReview, PauseOn, Active
  <1>10. CASE BatchPauses(r)
    BY <1>2, <1>10 DEF BatchPauses, PauseOn
  <1>11. CASE BatchStarts(r)
    BY <1>2, <1>11 DEF BatchStarts
  <1>12. CASE BatchEnds(r)
    BY <1>2, <1>12 DEF BatchEnds
  <1> QED BY <1>3, <1>4, <1>5, <1>6, <1>7, <1>8, <1>9, <1>10, <1>11, <1>12 DEF HostNext, LoopNext

\* What the actions leave in hand.
LEMMA HandedOn ==
    ASSUME Typed, InHand, NEW r \in Run, HostNext(r) \/ LoopNext(r)
    PROVE  /\ phase'[r] = "before_tool" => response'[r].calls # <<>>
           /\ phase'[r] = "paused" => response'[r] = NoResponse \/ response'[r].calls # <<>>
           /\ phase'[r] = "tools" => response'[r].calls # <<>>
  <1>1. /\ response \in [Run -> Response] /\ phase \in [Run -> Phase]
        /\ response[r].calls \in Seq(Call)
    BY DEF Typed, Response
  <1>2. ASSUME NEW p, Goto(r, p) PROVE phase'[r] = p
    BY <1>1, <1>2 DEF Goto
  <1>3. ASSUME NEW p \in Phase \ {"before_tool", "paused", "tools"}, Goto(r, p)
        PROVE  phase'[r] \notin {"before_tool", "paused", "tools"}
    BY <1>2, <1>3
  <1> USE DEF Phase, Active
  <1>4. CASE Begin(r) \/ RunsOut(r) \/ ModelFails(r) \/ KeepsHistory(r) \/ Summarizes(r) \/ ModelAnswers(r)
    BY <1>3, <1>4 DEF Begin, RunsOut, ModelFails, KeepsHistory, Summarizes, BeforeModel, ModelAnswers
  <1>5. CASE Resume(r, "human_approved") \/ Resume(r, "human_denied")
    <2>1. /\ phase[r] = "paused" /\ response' = response
          /\ response[r] # NoResponse \/ Goto(r, "before_model")
          /\ Goto(r, "before_tool") \/ Goto(r, "before_model")
      BY <1>5 DEF Resume
    <2>2. response[r] # NoResponse => response[r].calls # <<>>
      BY <2>1 DEF InHand
    <2>3. phase'[r] \in {"before_tool", "before_model"}
      BY <1>2, <2>1
    <2>4. phase'[r] = "before_tool" => response[r] # NoResponse
      BY <1>3, <2>1
    <2> QED BY <2>1, <2>2, <2>3, <2>4
  <1>6. CASE BudgetStops(r) \/ ReviewPasses(r) \/ ReviewErrors(r)
    <2>1. Goto(r, "returned")
      BY <1>6 DEF BudgetStops, ReviewPasses, ReviewErrors, Finish
    <2> QED BY <1>3, <2>1
  <1>7. CASE ModelCallsTools(r)
    <2>1. PICK b \in Batches : response' = [response EXCEPT ![r] = [calls |-> b, text |-> ""]]
      BY <1>7 DEF ModelCallsTools
    <2>2. b # <<>> /\ response'[r].calls = b
      BY <1>1, <2>1, AgentLoopAssumption
    <2>3. phase'[r] = "before_tool"
      BY <1>2, <1>7 DEF ModelCallsTools
    <2> QED BY <2>2, <2>3
  <1>8. CASE MinimumNotMet(r) \/ ReviewFails(r)
    <2>1. Goto(r, "before_model")
      BY <1>8 DEF MinimumNotMet, ReviewFails, SendBack
    <2> QED BY <1>3, <2>1
  <1>9. CASE HandsOver(r)
    <2>1. phase'[r] = "paused" /\ response'[r] = NoResponse
      BY <1>1, <1>2, <1>9 DEF HandsOver, PauseOn
    <2> QED BY <2>1
  <1>10. CASE BatchPauses(r)
    <2>1. phase'[r] = "paused" /\ response' = response /\ phase[r] = "before_tool"
      BY <1>2, <1>10 DEF BatchPauses, PauseOn
    <2> QED BY <2>1 DEF InHand
  <1>11. CASE BatchStarts(r)
    <2>1. phase'[r] = "tools" /\ response' = response /\ phase[r] = "before_tool"
      BY <1>2, <1>11 DEF BatchStarts
    <2> QED BY <2>1 DEF InHand
  <1>12. CASE BatchEnds(r)
    BY <1>3, <1>12 DEF BatchEnds
  <1> QED BY <1>4, <1>5, <1>6, <1>7, <1>8, <1>9, <1>10, <1>11, <1>12 DEF HostNext, LoopNext

\* The step of one run leaves the others where they are, and there is a first
\* line after it.
LEMMA OneAtATimeStep ==
    ASSUME Paced, NEW r \in Run, HostNext(r) \/ LoopNext(r)
    PROVE  /\ OneAtATime'
           /\ \A q \in Run : q # r => phase[q] \notin Active /\ phase'[q] = phase[q]
           /\ OpenBatch = IF phase[r] = "tools" THEN {Len(log)} ELSE {}
           /\ OpenBatch' = IF phase'[r] = "tools" THEN {Len(log')} ELSE {}
  <1>1. Typed /\ OneAtATime
    BY TypeOKIsTyped DEF Paced
  <1>2. HostIsFree \/ phase[r] \in Active
    BY <1>1, Paths DEF Active
  <1>3. ASSUME NEW q \in Run, q # r PROVE phase[q] \notin Active /\ phase'[q] = phase[q]
    <2>1. phase[q] \notin Active
      BY <1>1, <1>2, <1>3 DEF HostIsFree, OneAtATime
    <2>2. phase'[q] = phase[q]
      BY <1>1, <1>3, TypedStep DEF Moves
    <2> QED BY <2>1, <2>2
  <1>4. OneAtATime'
    BY <1>3 DEF OneAtATime
  <1>5. \A q \in Run : q # r => phase[q] # "tools" /\ phase'[q] # "tools"
    BY <1>3 DEF Active
  <1> QED BY <1>3, <1>4, <1>5 DEF OpenBatch

\* A batch that starts is the last line of the log.
LEMMA StartsAtTheEnd ==
    ASSUME Typed, log \in Seq(Event), NEW r \in Run, BatchStarts(r)
    PROVE  LET opens == [Line(r, "agent_message") EXCEPT !.calls = response[r].calls]
           IN  \E lines \in Seq(QuietLine) :
                   /\ log' = log \o (lines \o <<opens>>) /\ lines \o <<opens>> \in Seq(Event)
                   /\ \A k \in 1..Len(lines) : lines[k].kind = "deny"
  <1> DEFINE opens == [Line(r, "agent_message") EXCEPT !.calls = response[r].calls]
             calls == response[r].calls
             lines == Denials(r, calls)
             last  == <<opens>>
  <1>1. calls \in Seq(Call) /\ IsLog(log)
    BY DEF Typed, Response
  <1>2. opens \in Event
    <2>1. "agent_message" \in Kind
      BY DEF Kind, HistoryKinds
    <2>2. Line(r, "agent_message") \in Event
      BY <2>1, LineIsAnEvent
    <2> HIDE DEF calls
    <2>3. [Line(r, "agent_message") EXCEPT !.calls = calls] \in Event
      BY <1>1, <2>2 DEF Event
    <2> QED BY <2>3 DEF calls
  <1>3. log' = log \o lines \o last
    BY DEF BatchStarts
  <1> HIDE DEF calls, opens
  <1>4. lines \in Seq(QuietLine) /\ \A k \in 1..Len(lines) : lines[k].kind = "deny"
    BY <1>1, DenialsAreQuiet, DenialLines
  <1> HIDE DEF lines
  <1>5. QuietLine \subseteq Event
    BY DEF QuietLine
  <1>6. lines \in Seq(Event) /\ last \in Seq(Event)
    <2>1. last \in Seq(Event)
      BY <1>2
    <2>2. lines \in Seq(Event)
      BY <1>4, <1>5, SeqMonotonic
    <2> QED BY <2>1, <2>2
  <1> HIDE DEF last
  <1>7. lines \o last \in Seq(Event)
    BY <1>6
  <1>8. log' = log \o (lines \o last)
    <2>1. IsLog(lines) /\ IsLog(last)
      BY <1>6 DEF IsLog
    <2> QED BY <1>1, <1>3, <2>1, Assoc
  <1> QED BY <1>4, <1>7, <1>8 DEF last, opens, calls

LEMMA QuietBatched ==
    ASSUME log \in Seq(Event), Batched(log, {}), AddsQuietly,
           log = <<>> => log'[1].kind = "user_message"
    PROVE  log' \in Seq(Event) /\ Batched(log', {})
  <1>1. PICK lines \in Seq(QuietLine) : log' = log \o lines
    BY DEF AddsQuietly
  <1>2. lines \in Seq(Event) /\ \A k \in 1..Len(lines) : lines[k] \in QuietLine
    <2>1. QuietLine \subseteq Event
      BY DEF QuietLine
    <2> QED BY <2>1, SeqMonotonic
  <1>3. /\ log' \in Seq(Event) /\ Extends(log, log')
        /\ \A i \in Len(log) + 1..Len(log') :
              i - Len(log) \in 1..Len(lines) /\ log'[i] = lines[i - Len(log)]
    BY <1>1, <1>2, ExtendsConcat
  <1>4. \A i \in Len(log) + 1..Len(log') : log'[i] \in QuietLine
    BY <1>2, <1>3
  <1>5. ASSUME log = <<>>, log' # <<>> PROVE Speaks(log'[1]) /\ log'[1].kind = "user_message"
    <2>1. 1 \in Len(log) + 1..Len(log')
      BY <1>3, <1>5, EmptySeq
    <2>2. log'[1].depth = 0
      BY <1>4, <2>1 DEF QuietLine
    <2> QED BY <1>5, <2>2 DEF Speaks, HistoryKinds
  <1>6. \A i \in Len(log) + 1..Len(log') :
            /\ log'[i].depth = 0 /\ log'[i].kind # "tool_result"
            /\ ~Calling(log', i)
    BY <1>4 DEF QuietLine, Calling
  <1> DEFINE new == {i \in Len(log) + 1..Len(log') : Calling(log', i)}
  <1>7. new = {}
    BY <1>6
  <1>8. Batched(log', {} \cup new)
    <2>1. \A i \in Len(log) + 1..Len(log') :
              /\ log'[i].kind = "history_summarized" => log'[i].depth = 0
              /\ Speaks(log'[i]) => {} = {} /\ log'[i].kind # "tool_result"
              /\ Calling(log', i) => log'[i].kind = "agent_message" /\ i = Len(log')
      BY <1>6
    <2>2. new = {i \in Len(log) + 1..Len(log') : Calling(log', i)}
      OBVIOUS
    <2> HIDE DEF new
    <2> QED BY <1>3, <1>5, <2>1, <2>2, BatchedGrows
  <1> HIDE DEF new
  <1> QED BY <1>3, <1>7, <1>8

LEMMA StartBatched ==
    ASSUME Typed, log \in Seq(Event), Batched(log, {}), NEW r \in Run, BatchStarts(r),
           response[r].calls # <<>>, log # <<>>
    PROVE  /\ log' \in Seq(Event) /\ Batched(log', {Len(log')})
           /\ log'[Len(log')].calls = response[r].calls
  <1> DEFINE opens == [Line(r, "agent_message") EXCEPT !.calls = response[r].calls]
  <1>1. PICK lines \in Seq(QuietLine) :
            /\ log' = log \o (lines \o <<opens>>) /\ lines \o <<opens>> \in Seq(Event)
            /\ \A k \in 1..Len(lines) : lines[k].kind = "deny"
    BY StartsAtTheEnd
  <1>2. /\ opens.depth = 0 /\ opens.kind = "agent_message" /\ opens.calls = response[r].calls
    BY DEF Line
  <1> DEFINE all == lines \o <<opens>>
  <1>3. /\ log' = log \o all /\ all \in Seq(Event)
        /\ Len(lines) \in Nat /\ Len(all) = Len(lines) + 1
        /\ all[Len(lines) + 1] = opens
        /\ \A k \in 1..Len(lines) : all[k] = lines[k]
    <2> DEFINE last == <<opens>>
    <2>1. IsLog(lines) /\ IsLog(last) /\ Len(last) = 1 /\ last[1] = opens
      BY Tuples DEF IsLog
    <2>2. all = lines \o last
      OBVIOUS
    <2> HIDE DEF last
    <2>3. /\ Len(lines \o last) = Len(lines) + Len(last)
          /\ \A k \in 1..Len(lines) : (lines \o last)[k] = lines[k]
          /\ \A k \in 1..Len(last) : (lines \o last)[Len(lines) + k] = last[k]
      <3> HIDE DEF all
      <3>1. IsLog(lines) /\ IsLog(last)
        BY <2>1
      <3> QED BY ONLY <3>1, Concat
    <2>4. 1 \in 1..Len(last)
      BY <2>1
    <2> QED BY <1>1, <2>1, <2>2, <2>3, <2>4
  <1> HIDE DEF all, opens
  <1>4. /\ log' \in Seq(Event) /\ Extends(log, log')
        /\ Len(log) \in Nat /\ Len(log') = Len(log) + Len(all)
        /\ \A i \in Len(log) + 1..Len(log') :
              i - Len(log) \in 1..Len(all) /\ log'[i] = all[i - Len(log)]
    <2>1. log \in Seq(Event) /\ all \in Seq(Event)
      BY <1>3
    <2>2. Len(log) \in Nat
      OBVIOUS
    <2>3. log' = log \o all
      BY <1>3
    <2>4. /\ log \o all \in Seq(Event) /\ Extends(log, log \o all)
          /\ Len(log \o all) = Len(log) + Len(all)
          /\ \A i \in Len(log) + 1..Len(log \o all) :
                i - Len(log) \in 1..Len(all) /\ (log \o all)[i] = all[i - Len(log)]
      BY ONLY <2>1, ExtendsConcat
    <2> QED BY <2>2, <2>3, <2>4
  <1>5. Len(log') \in Len(log) + 1..Len(log') /\ log'[Len(log')] = opens
    <2>1. Len(log') \in Len(log) + 1..Len(log') /\ Len(log') - Len(log) = Len(lines) + 1
      BY <1>3, <1>4
    <2> QED BY <1>3, <1>4, <2>1
  <1>6. ASSUME NEW i \in Len(log) + 1..Len(log'), i # Len(log')
        PROVE  log'[i].depth = 0 /\ log'[i].kind = "deny"
    <2>1. i - Len(log) \in 1..Len(lines)
      <3>1. /\ Len(log) \in Nat /\ Len(lines) \in Nat
            /\ Len(log') = Len(log) + (Len(lines) + 1)
        BY <1>3, <1>4
      <3> QED BY ONLY <3>1, <1>6, i \in Len(log) + 1..Len(log')
    <2>2. log'[i] = lines[i - Len(log)] /\ lines[i - Len(log)] \in QuietLine
      BY <1>3, <1>4, <2>1
    <2> QED BY <1>1, <2>1, <2>2 DEF QuietLine
  <1>7. \A i \in Len(log) + 1..Len(log') :
            /\ log'[i].kind = "history_summarized" => log'[i].depth = 0
            /\ Speaks(log'[i]) => {} = {} /\ log'[i].kind # "tool_result"
            /\ Calling(log', i) => log'[i].kind = "agent_message" /\ i = Len(log')
    BY <1>2, <1>5, <1>6 DEF Speaks, Calling, HistoryKinds
  <1>8. Calling(log', Len(log'))
    BY <1>2, <1>5 DEF Speaks, Calling, HistoryKinds
  <1> DEFINE new == {i \in Len(log) + 1..Len(log') : Calling(log', i)}
  <1>9. new = {Len(log')}
    BY <1>5, <1>7, <1>8
  <1>10. Batched(log', {} \cup new)
    <2>1. new = {i \in Len(log) + 1..Len(log') : Calling(log', i)}
      OBVIOUS
    <2> HIDE DEF new
    <2> QED BY <1>4, <1>7, <2>1, BatchedGrows
  <1> HIDE DEF new
  <1> QED BY <1>2, <1>4, <1>5, <1>9, <1>10

LEMMA EndBatched ==
    ASSUME Typed, log \in Seq(Event), Batched(log, {Len(log)}), NEW r \in Run, BatchEnds(r),
           log[Len(log)].calls = response[r].calls
    PROVE  log' \in Seq(Event) /\ Batched(log', {})
  <1> DEFINE calls == response[r].calls
             lines == [i \in DOMAIN calls |-> ToolResult(r, calls[i])]
             p     == Len(log)
  <1>1. calls \in Seq(Call) /\ Len(calls) \in Nat /\ DOMAIN calls = 1..Len(calls)
    <2>1. calls \in Seq(Call)
      BY DEF Typed, Response
    <2> HIDE DEF calls
    <2> QED BY <2>1
  <1>2. log' = log \o lines
    BY DEF BatchEnds
  <1>3. calls = log[p].calls
    OBVIOUS
  <1> HIDE DEF calls
  <1>4. ASSUME NEW c \in Call
        PROVE  /\ ToolResult(r, c) \in Event
               /\ ToolResult(r, c).depth = 0 /\ ToolResult(r, c).kind = "tool_result"
               /\ ToolResult(r, c).key = c /\ ToolResult(r, c).calls = <<>>
    <2> DEFINE text == IF BeforeTool(log, r, c) = "deny" THEN "refused" ELSE "output"
    <2>1. "tool_result" \in Kind /\ text \in Answer \cup {"", "output", "refused", "question", "correction"}
      BY DEF Kind, HistoryKinds
    <2>2. ToolResult(r, c) = [About(r, "tool_result", c) EXCEPT !.text = text]
      BY DEF ToolResult
    <2> HIDE DEF text
    <2>3. ToolResult(r, c) \in Event
      <3>1. c \in Call \cup Answer \cup {""}
        OBVIOUS
      <3>2. [About(r, "tool_result", c) EXCEPT !.text = text] \in Event
        BY <2>1, <3>1, LineIsAnEvent
      <3> QED BY <2>2, <3>2
    <2> QED BY <2>2, <2>3 DEF About, Line
  <1>5. lines \in Seq(Event) /\ Len(lines) = Len(calls)
    <2>1. \A i \in 1..Len(calls) : ToolResult(r, calls[i]) \in Event
      BY <1>1, <1>4
    <2>2. lines = [i \in 1..Len(calls) |-> ToolResult(r, calls[i])]
      BY <1>1
    <2> QED BY <1>1, <2>1, <2>2
  <1>6. \A k \in 1..Len(calls) : lines[k] = ToolResult(r, calls[k]) /\ calls[k] \in Call
    BY <1>1
  <1> HIDE DEF lines
  <1>7. /\ log' \in Seq(Event) /\ Extends(log, log')
        /\ Len(log') = Len(log) + Len(lines)
        /\ \A k \in 1..Len(lines) : log'[Len(log) + k] = lines[k]
    BY <1>2, <1>5, ExtendsConcat
  <1>8. Len(log') = Len(log) + Len(log[p].calls)
    BY <1>3, <1>5, <1>7
  <1>9. \A k \in 1..Len(log[p].calls) :
            /\ log'[Len(log) + k].depth = 0 /\ log'[Len(log) + k].kind = "tool_result"
            /\ log'[Len(log) + k].key = log[p].calls[k] /\ log'[Len(log) + k].calls = <<>>
    BY <1>3, <1>4, <1>5, <1>6, <1>7
  <1> HIDE DEF p
  <1>10. Batched(log, {p})
    BY DEF p
  <1> QED BY <1>7, <1>8, <1>9, <1>10, BatchedAnswers

LEMMA BeginsTheLog ==
    ASSUME log = <<>>, NEW r \in Run, Begin(r)
    PROVE  log'[1].kind = "user_message" /\ log' # <<>>
  <1> DEFINE x == Said(r, "user_message", "question")
  <1>1. IsLog(log) /\ Len(log) = 0 /\ x.kind = "user_message"
    <2>1. IsLog(log)
      BY Tuples
    <2>2. Len(log) = 0
      OBVIOUS
    <2>3. x.kind = "user_message"
      BY DEF Said, Line
    <2> QED BY <2>1, <2>2, <2>3
  <1>2. log' = Append(log, x)
    BY DEF Begin
  <1> HIDE DEF x
  <1>3. log' = log \o <<x>>
    BY <1>1, <1>2, AppendLog
  <1>4. /\ Keeps /\ \E i \in New : log'[i] = x
        /\ \A i \in New : log'[i] = x
    BY <1>1, <1>3, AddsALine
  <1>5. Len(log') \in Nat /\ New = 1..Len(log')
    BY <1>1, <1>4, LogFacts DEF Keeps, New
  <1>6. 1 \in New
    BY <1>4, <1>5
  <1>7. log' # <<>>
    BY <1>5, <1>6, EmptySeq
  <1> QED BY <1>1, <1>4, <1>6, <1>7

LEMMA PacedStep ==
    ASSUME Paced, NEW r \in Run, HostNext(r) \/ LoopNext(r)
    PROVE  Paced'
  <1>1. /\ TypeOK /\ Typed /\ log \in Seq(Event) /\ OneAtATime /\ InHand
        /\ log = <<>> => phase[r] = "new"
        /\ Batched(log, OpenBatch)
    BY TypeOKIsTyped DEF Paced
  <1>2. /\ OneAtATime'
        /\ OpenBatch = IF phase[r] = "tools" THEN {Len(log)} ELSE {}
        /\ OpenBatch' = IF phase'[r] = "tools" THEN {Len(log')} ELSE {}
    BY OneAtATimeStep
  <1>3. Typed' /\ turn' \in [Run -> 0..MaxTurns] /\ Keeps
    BY <1>1, TypedStep, TurnStep, EveryStepKeeps
  <1>4. ASSUME log = <<>> PROVE Begin(r) /\ log'[1].kind = "user_message" /\ log' # <<>>
    BY <1>1, <1>4, Paths, BeginsTheLog DEF Active
  <1>5. log' # <<>>
    <2>1. CASE log = <<>>
      BY <1>4, <2>1
    <2>2. CASE log # <<>>
      <3>1. Len(log) # 0 /\ Len(log) \in Nat
        BY <1>1, <2>2, EmptySeq
      <3>2. Len(log') # 0
        BY <1>3, <3>1, LogFacts DEF Keeps
      <3> QED BY <3>2
    <2> QED BY <2>1, <2>2
  <1>6. /\ log' \in Seq(Event) /\ Batched(log', OpenBatch')
        /\ phase'[r] = "tools" => log'[Len(log')].calls = response'[r].calls
    <2>1. CASE BatchStarts(r)
      <3>1. /\ phase[r] = "before_tool" /\ phase'[r] = "tools" /\ response' = response
            /\ response[r].calls # <<>> /\ log # <<>>
        <4>1. phase[r] = "before_tool" /\ response' = response /\ Goto(r, "tools")
          BY <2>1 DEF BatchStarts
        <4>2. phase'[r] = "tools"
          BY <1>1, <4>1 DEF Goto, Typed
        <4> QED BY <1>1, <4>1, <4>2 DEF InHand
      <3>2. OpenBatch = {} /\ OpenBatch' = {Len(log')}
        BY <1>2, <3>1
      <3>3. /\ log' \in Seq(Event) /\ Batched(log', {Len(log')})
            /\ log'[Len(log')].calls = response[r].calls
        BY <1>1, <2>1, <3>1, <3>2, StartBatched
      <3> QED BY <3>1, <3>2, <3>3
    <2>2. CASE BatchEnds(r)
      <3>1. phase[r] = "tools" /\ phase'[r] = "before_model"
        <4>1. phase[r] = "tools" /\ Goto(r, "before_model")
          BY <2>2 DEF BatchEnds
        <4> QED BY <1>1, <4>1 DEF Goto, Typed
      <3>2. OpenBatch = {Len(log)} /\ OpenBatch' = {}
        BY <1>2, <3>1
      <3>3. log[Len(log)].calls = response[r].calls
        BY <1>1, <3>1 DEF InHand
      <3>4. log' \in Seq(Event) /\ Batched(log', {})
        BY <1>1, <2>2, <3>2, <3>3, EndBatched
      <3> QED BY <3>1, <3>2, <3>4
    <2>3. CASE ~BatchStarts(r) /\ ~BatchEnds(r)
      <3>1. phase[r] # "tools" /\ phase'[r] # "tools"
        BY <1>1, <2>3, Paths DEF Active
      <3>2. OpenBatch = {} /\ OpenBatch' = {}
        BY <1>2, <3>1
      <3>3. AddsQuietly
        BY <1>1, <2>3, QuietActions
      <3>4. log' \in Seq(Event) /\ Batched(log', {})
        BY <1>1, <1>4, <3>2, <3>3, QuietBatched
      <3> QED BY <3>1, <3>2, <3>4
    <2> QED BY <2>1, <2>2, <2>3
  <1>7. TypeOK'
    BY <1>3, <1>6 DEF TypeOK, Typed
  <1>8. InHand'
    <2> SUFFICES ASSUME NEW q \in Run
                 PROVE  /\ phase'[q] \in {"before_tool", "tools"} => response'[q].calls # <<>>
                        /\ phase'[q] = "paused" => response'[q] = NoResponse \/ response'[q].calls # <<>>
                        /\ phase'[q] = "tools" => log'[Len(log')].calls = response'[q].calls
      BY DEF InHand
    <2>1. CASE q = r
      BY <1>1, <1>6, <2>1, HandedOn
    <2>2. CASE q # r
      <3>1. phase'[q] = phase[q] /\ response'[q] = response[q]
        BY <1>1, <2>2, TypedStep DEF Moves
      <3>2. phase[q] \notin Active
        BY <2>2, OneAtATimeStep
      <3> QED BY <1>1, <3>1, <3>2 DEF InHand, Active
    <2> QED BY <2>1, <2>2
  <1> QED BY <1>2, <1>5, <1>6, <1>7, <1>8 DEF Paced

LEMMA PacedAlways == Spec => []Paced
  <1>1. Init => Paced
    <2> SUFFICES ASSUME Init PROVE Paced
      OBVIOUS
    <2>1. Typed
      BY TypedInit
    <2>2. log = <<>> /\ Len(log) = 0 /\ log \in Seq(Event)
      BY EmptySeq DEF Init
    <2>3. \A r \in Run : phase[r] = "new"
      BY DEF Init
    <2>4. turn \in [Run -> 0..MaxTurns]
      <3>1. MaxTurns \in Nat \ {0}
        BY AgentLoopAssumption, Zenon
      <3>2. 0 \in 0..MaxTurns
        BY <3>1
      <3> QED BY <3>2 DEF Init
    <2>5. TypeOK
      BY <2>1, <2>2, <2>4 DEF TypeOK, Typed
    <2>6. OneAtATime /\ InHand /\ OpenBatch = {}
      BY <2>3 DEF OneAtATime, InHand, OpenBatch, Active
    <2>7. Batched(log, {})
      BY <2>2 DEF Batched
    <2> QED BY <2>3, <2>5, <2>6, <2>7 DEF Paced
  <1>2. Paced /\ [Next]_vars => Paced'
    <2> SUFFICES ASSUME Paced, [Next]_vars PROVE Paced'
      OBVIOUS
    <2>1. CASE Next
      <3>1. PICK r \in Run : HostNext(r) \/ LoopNext(r)
        BY <2>1 DEF Next
      <3> QED BY <3>1, PacedStep
    <2>2. CASE UNCHANGED vars
      <3>1. /\ log' = log /\ phase' = phase /\ response' = response /\ turn' = turn
            /\ waitsOn' = waitsOn /\ result' = result
        BY <2>2 DEF vars
      <3>2. TypeOK' /\ OneAtATime' /\ InHand' /\ OpenBatch' = OpenBatch
        BY <3>1 DEF Paced, TypeOK, OneAtATime, InHand, OpenBatch
      <3>3. Batched(log, OpenBatch)' /\ (log = <<>> => \A r \in Run : phase[r] = "new")'
        BY <3>1, <3>2 DEF Paced
      <3> QED BY <3>2, <3>3 DEF Paced
    <2> QED BY <2>1, <2>2
  <1> QED BY <1>1, <1>2, PTL DEF Spec

\* The type invariant: whatever the stack appends is an event, requests are
\* finite lists however they were cut, summaries stand for positions, and no
\* call of run_loop goes beyond max_turns.
THEOREM TypeCorrect == Spec => []TypeOK
  <1>1. Paced => TypeOK
    BY DEF Paced
  <1> QED BY <1>1, PacedAlways, PTL

\* Every request a run of any session makes is one a provider accepts: batches
\* are answered whole and in order (run_loop appends the assistant turn before
\* any of its tools runs, and their results before anything else speaks), and
\* neither a summary nor an eviction cuts one (build_messages).
THEOREM RequestsAccepted == Spec => []RequestsAreWellFormed
  <1>1. Paced => RequestsAreWellFormed
    <2> SUFFICES ASSUME Paced, NEW r \in Run, phase[r] = "model"
                 PROVE  WellFormed(BuildMessages(log))
      BY DEF RequestsAreWellFormed
    <2>1. \A q \in Run : phase[q] # "tools"
      BY DEF Paced, OneAtATime, Active
    <2>2. OpenBatch = {}
      BY <2>1 DEF OpenBatch
    <2>3. Settled(log) /\ log \in Seq(Event)
      BY <2>2 DEF Paced, Settled, TypeOK
    <2> QED BY <2>3, SettledIsWellFormed
  <1> QED BY <1>1, PacedAlways, PTL
=============================================================================
