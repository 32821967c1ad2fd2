--------------------------- MODULE EventLogProofs ---------------------------
(***************************************************************************)
(* Facts about an EventLog, for any log: what its readers return, and that *)
(* a log in which every batch of tool calls is answered in one piece makes *)
(* a request a provider accepts, wherever the history is cut or begun.     *)
(***************************************************************************)
EXTENDS EventLog, FiniteSetTheorems, SequenceTheorems, WellFoundedInduction, TLAPS

-----------------------------------------------------------------------------
\* Sets of positions

\* A non-empty set of naturals has a least element, and a bounded one a last.
LEMMA LeastOf ==
    ASSUME NEW S, S \subseteq Nat, S # {}
    PROVE  \E i \in S : \A j \in S : i <= j
  <1>1. PICK i \in S : \A j \in S : ~(<<j, i>> \in OpToRel(<, Nat))
    BY NatLessThanWellFounded, WFMin
  <1>2. ASSUME NEW j \in S PROVE i <= j
    <2>1. i \in Nat /\ j \in Nat
      OBVIOUS
    <2>2. ~(j < i)
      BY <1>1, <2>1 DEF OpToRel
    <2> QED BY <2>1, <2>2
  <1> QED BY <1>2

LEMMA GreatestOf ==
    ASSUME NEW N \in Nat, NEW S, S \subseteq 1..N, S # {}
    PROVE  Max(S) \in S /\ \A j \in S : j <= Max(S)
  <1> DEFINE gaps == {n \in Nat : N - n \in S}
  <1>1. gaps # {}
    <2>1. PICK i \in S : TRUE
      OBVIOUS
    <2>2. N - i \in Nat /\ N - (N - i) = i
      BY <2>1
    <2> QED BY <2>1, <2>2
  <1>2. PICK g \in gaps : \A n \in gaps : g <= n
    BY <1>1, LeastOf
  <1>3. N - g \in S
    BY <1>2
  <1>4. ASSUME NEW j \in S PROVE j <= N - g
    <2>1. j \in 1..N /\ N - j \in Nat /\ N - (N - j) = j
      OBVIOUS
    <2>2. N - j \in gaps
      BY <2>1
    <2>3. g <= N - j /\ g \in Nat
      BY <1>2, <2>2
    <2> QED BY <2>1, <2>3
  <1>5. \A j \in S : N - g >= j
    BY <1>4
  <1> HIDE DEF gaps
  <1>6. Max(S) \in S /\ \A j \in S : Max(S) >= j
    BY <1>3, <1>5 DEF Max
  <1> QED BY <1>6

\* How many of some positions are not after one of them: its place in order.
Rank(S, i) == Cardinality({j \in S : j <= i})

LEMMA PositionsAreFinite ==
    ASSUME NEW N \in Nat, NEW S, S \subseteq 1..N
    PROVE  IsFiniteSet(S) /\ Cardinality(S) \in Nat
  <1>1. IsFiniteSet(1..N)
    BY FS_Interval
  <1>2. IsFiniteSet(S)
    BY <1>1, FS_Subset
  <1> QED BY <1>2, FS_CardinalityType

LEMMA RankFacts ==
    ASSUME NEW N \in Nat, NEW S, S \subseteq 1..N
    PROVE  /\ \A i \in S : Rank(S, i) \in 1..Cardinality(S)
           /\ \A i, j \in S : i < j => Rank(S, i) < Rank(S, j)
  <1>1. ASSUME NEW i \in S PROVE Rank(S, i) \in 1..Cardinality(S)
    <2> DEFINE T == {j \in S : j <= i}
    <2>1. IsFiniteSet(S) /\ Cardinality(S) \in Nat
      BY PositionsAreFinite
    <2>2. T \in SUBSET S /\ i \in T
      OBVIOUS
    <2>3. IsFiniteSet(T) /\ Cardinality(T) <= Cardinality(S)
      BY <2>1, <2>2, FS_Subset
    <2>4. Cardinality(T) \in Nat /\ Cardinality(T) # 0
      BY <2>2, <2>3, FS_CardinalityType, FS_EmptySet
    <2> QED BY <2>1, <2>3, <2>4 DEF Rank
  <1>2. ASSUME NEW i \in S, NEW j \in S, i < j PROVE Rank(S, i) < Rank(S, j)
    <2> DEFINE T == {k \in S : k <= i}
               U == {k \in S : k <= j}
    <2>1. T \in SUBSET U /\ j \in U /\ j \notin T
      <3>1. S \subseteq Int /\ i \in Int /\ j \in Int
        OBVIOUS
      <3>2. \A k \in S : k <= i => k <= j
        BY <1>2, <3>1
      <3>3. ~(j <= i)
        BY <1>2, <3>1
      <3>4. \A k \in T : k \in U
        BY <3>2
      <3>5. j \in U /\ j \notin T
        BY <3>1, <3>3
      <3> QED BY <3>4, <3>5
    <2>2. IsFiniteSet(U)
      BY PositionsAreFinite
    <2> HIDE DEF T, U
    <2>3. /\ IsFiniteSet(T) /\ Cardinality(T) <= Cardinality(U)
          /\ Cardinality(U) = Cardinality(T) => U = T
      BY <2>1, <2>2, FS_Subset
    <2>4. Cardinality(T) # Cardinality(U)
      BY <2>1, <2>3
    <2>5. Cardinality(T) \in Nat /\ Cardinality(U) \in Nat
      BY <2>2, <2>3, FS_CardinalityType
    <2>6. Rank(S, i) = Cardinality(T) /\ Rank(S, j) = Cardinality(U)
      BY DEF Rank, T, U
    <2> QED BY <2>3, <2>4, <2>5, <2>6
  <1> QED BY <1>1, <1>2

\* Every place in the order is somebody's.
LEMMA NthOf ==
    ASSUME NEW N \in Nat, NEW S, S \subseteq 1..N, NEW n \in 1..Cardinality(S)
    PROVE  Nth(S, n) \in S /\ Rank(S, Nth(S, n)) = n
  <1> DEFINE C == Cardinality(S)
             rank == [i \in S |-> Rank(S, i)]
  <1>1. IsFiniteSet(S) /\ C \in Nat
    BY PositionsAreFinite
  <1>2. rank \in [S -> 1..C]
    BY RankFacts
  <1>3. \A i, j \in S : rank[i] = rank[j] => i = j
    <2> SUFFICES ASSUME NEW i \in S, NEW j \in S, Rank(S, i) = Rank(S, j) PROVE i = j
      OBVIOUS
    <2>1. i \in 1..N /\ j \in 1..N
      OBVIOUS
    <2>2. Rank(S, i) \in 1..C /\ C \in Nat
      BY <1>1, RankFacts
    <2>3. /\ i < j => Rank(S, i) < Rank(S, j)
          /\ j < i => Rank(S, j) < Rank(S, i)
      BY RankFacts
    <2> HIDE DEF C
    <2> QED BY <2>1, <2>2, <2>3
  <1>4. rank \in Injection(S, 1..C)
    BY <1>2, <1>3 DEF Injection, IsInjective
  <1>5. IsFiniteSet(1..C) /\ Cardinality(1..C) = C
    <2>1. IsFiniteSet(1..C) /\ Cardinality(1..C) = IF 1 > C THEN 0 ELSE C - 1 + 1
      BY <1>1, FS_Interval
    <2> QED BY <1>1, <2>1
  <1>6. rank \in Surjection(S, 1..C)
    BY <1>4, <1>5, FS_Injection
  <1>7. PICK i \in S : rank[i] = n
    BY <1>6 DEF Surjection
  <1>8. Cardinality({j \in S : j <= i}) = n
    BY <1>7 DEF Rank
  <1>9. Nth(S, n) \in S /\ Cardinality({j \in S : j <= Nth(S, n)}) = n
    BY <1>8 DEF Nth
  <1> QED BY <1>9 DEF Rank

LEMMA NthRank ==
    ASSUME NEW N \in Nat, NEW S, S \subseteq 1..N, NEW i \in S
    PROVE  Nth(S, Rank(S, i)) = i
  <1>1. Rank(S, i) \in 1..Cardinality(S)
    BY RankFacts
  <1> DEFINE j == Nth(S, Rank(S, i))
  <1>2. j \in S /\ Rank(S, j) = Rank(S, i)
    BY <1>1, NthOf
  <1>3. i \in 1..N /\ j \in 1..N
    BY <1>2
  <1>4. /\ i < j => Rank(S, i) < Rank(S, j)
        /\ j < i => Rank(S, j) < Rank(S, i)
    BY <1>2, RankFacts
  <1>5. Rank(S, i) \in Int
    BY <1>1
  <1> HIDE DEF j
  <1>6. j = i
    BY <1>2, <1>3, <1>4, <1>5
  <1> QED BY <1>6 DEF j

\* Positions that follow one with nothing of the set in between follow it in
\* the order.
LEMMA RankOfBlock ==
    ASSUME NEW S, IsFiniteSet(S), \A j \in S : j \in Nat, NEW p \in S, NEW q \in Nat, p <= q,
           NEW k \in Nat, k # 0, \A j \in q + 1..q + k : j \in S,
           \A i \in S : ~(p < i /\ i <= q)
    PROVE  Rank(S, q + k) = Rank(S, p) + k
  <1> DEFINE T == {j \in S : j <= p}
             B == q + 1..q + k
             U == {j \in S : j <= q + k}
  <1>1. p \in Nat
    OBVIOUS
  <1>2. U = T \cup B
    <2>1. ASSUME NEW j \in U PROVE j \in T \cup B
      <3>1. j \in S /\ j \in Nat /\ j <= q + k /\ ~(p < j /\ j <= q)
        BY <2>1
      <3> QED BY <1>1, <3>1
    <2>2. ASSUME NEW j \in T \cup B PROVE j \in U
      <3>1. j \in S /\ j \in Nat
        BY <2>2
      <3>2. j <= p \/ j <= q + k
        BY <2>2
      <3> QED BY <1>1, <3>1, <3>2
    <2> QED BY <2>1, <2>2
  <1>3. T \cap B = {}
    <2> SUFFICES ASSUME NEW j \in T, j \in B PROVE FALSE
      OBVIOUS
    <2>1. j <= p /\ q + 1 <= j /\ j \in Int
      OBVIOUS
    <2> QED BY <1>1, <2>1
  <1>4. IsFiniteSet(T)
    BY FS_Subset
  <1>5. IsFiniteSet(B) /\ Cardinality(B) = k
    <2> DEFINE a == q + 1
               b == q + k
    <2>1. a \in Int /\ b \in Int /\ a <= b /\ b - a + 1 = k
      OBVIOUS
    <2> HIDE DEF a, b
    <2>2. IsFiniteSet(a..b) /\ Cardinality(a..b) = IF a > b THEN 0 ELSE b - a + 1
      BY ONLY <2>1, FS_Interval
    <2>3. Cardinality(a..b) = k
      BY <2>1, <2>2
    <2> QED BY <2>2, <2>3 DEF a, b
  <1> HIDE DEF T, B, U
  <1>6. Cardinality(T \cup B) = Cardinality(T) + k - Cardinality(T \cap B)
    BY <1>4, <1>5, FS_Union
  <1>7. Cardinality(T \cap B) = 0 /\ Cardinality(T) \in Nat
    BY <1>3, <1>4, FS_EmptySet, FS_CardinalityType
  <1>8. Rank(S, p) = Cardinality(T) /\ Rank(S, q + k) = Cardinality(U)
    BY DEF Rank, T, U
  <1> QED BY <1>2, <1>6, <1>7, <1>8

-----------------------------------------------------------------------------
\* Logs

IsLog(s) == \E S : s \in Seq(S)

LEMMA LogFacts ==
    ASSUME NEW s, IsLog(s)
    PROVE  Len(s) \in Nat /\ DOMAIN s = 1..Len(s)
  BY DEF IsLog

LEMMA Concat ==
    ASSUME NEW s, NEW t, IsLog(s), IsLog(t)
    PROVE  /\ IsLog(s \o t)
           /\ Len(s \o t) = Len(s) + Len(t)
           /\ \A i \in 1..Len(s) : (s \o t)[i] = s[i]
           /\ \A k \in 1..Len(t) : (s \o t)[Len(s) + k] = t[k]
  <1>1. PICK S : s \in Seq(S)
    BY DEF IsLog
  <1>2. PICK T : t \in Seq(T)
    BY DEF IsLog
  <1>3. s \in Seq(S \cup T) /\ t \in Seq(S \cup T)
    BY <1>1, <1>2, SeqMonotonic
  <1>4. /\ s \o t \in Seq(S \cup T)
        /\ Len(s \o t) = Len(s) + Len(t)
        /\ \A i \in 1..Len(s) + Len(t) :
              (s \o t)[i] = IF i <= Len(s) THEN s[i] ELSE t[i - Len(s)]
    BY <1>3, ConcatProperties
  <1>5. Len(s) \in Nat /\ Len(t) \in Nat
    BY <1>3
  <1>6. ASSUME NEW k \in 1..Len(t) PROVE (s \o t)[Len(s) + k] = t[k]
    <2>1. Len(s) + k \in 1..Len(s) + Len(t) /\ ~(Len(s) + k <= Len(s)) /\ Len(s) + k - Len(s) = k
      BY <1>5
    <2> QED BY <1>4, <2>1
  <1> QED BY <1>4, <1>5, <1>6 DEF IsLog

LEMMA Assoc ==
    ASSUME NEW s, NEW t, NEW u, IsLog(s), IsLog(t), IsLog(u)
    PROVE  (s \o t) \o u = s \o (t \o u)
  <1>1. PICK S, T, U : s \in Seq(S) /\ t \in Seq(T) /\ u \in Seq(U)
    BY DEF IsLog
  <1> DEFINE V == S \cup T \cup U
  <1>2. s \in Seq(V) /\ t \in Seq(V) /\ u \in Seq(V)
    BY <1>1, SeqMonotonic
  <1> HIDE DEF V
  <1> QED BY <1>2, ConcatAssociative

LEMMA Tuples ==
    ASSUME NEW a, NEW b, NEW c
    PROVE  IsLog(<<>>) /\ IsLog(<<a>>) /\ IsLog(<<a, b>>) /\ IsLog(<<a, b, c>>)
  <1>1. <<>> \in Seq({}) /\ <<a>> \in Seq({a}) /\ <<a, b>> \in Seq({a, b})
        /\ <<a, b, c>> \in Seq({a, b, c})
    OBVIOUS
  <1> QED BY <1>1 DEF IsLog

LEMMA AppendLog ==
    ASSUME NEW s, IsLog(s), NEW e
    PROVE  Append(s, e) = s \o <<e>>
  <1>1. PICK S : s \in Seq(S)
    BY DEF IsLog
  <1>2. s \in Seq(S \cup {e})
    BY <1>1, SeqMonotonic
  <1> QED BY <1>2, AppendIsConcat

LEMMA LineFields ==
    ASSUME NEW r, NEW kind, NEW key
    PROVE  /\ Line(r, kind).run = r /\ Line(r, kind).kind = kind
           /\ About(r, kind, key).run = r /\ About(r, kind, key).kind = kind
           /\ About(r, kind, key).key = key
           /\ Said(r, kind, key).run = r /\ Said(r, kind, key).kind = kind
  BY DEF Line, About, Said

Found(s, r, kind) == {i \in DOMAIN s : s[i].run = r /\ s[i].kind = kind}

LEMMA Counted ==
    ASSUME NEW s, IsLog(s), NEW r, NEW kind
    PROVE  /\ IsFiniteSet(Found(s, r, kind))
           /\ Count(s, r, kind) = Cardinality(Found(s, r, kind))
           /\ Count(s, r, kind) \in Nat
  <1> DEFINE found == Found(s, r, kind)
  <1>1. Len(s) \in Nat /\ DOMAIN s = 1..Len(s)
    BY LogFacts
  <1>2. IsFiniteSet(1..Len(s))
    BY <1>1, FS_Interval
  <1>3. found \in SUBSET (1..Len(s))
    BY <1>1 DEF Found
  <1>4. IsFiniteSet(found)
    BY <1>2, <1>3, FS_Subset
  <1>5. Count(s, r, kind) = Cardinality(found)
    BY DEF Count, Found
  <1> QED BY <1>4, <1>5, FS_CardinalityType

-----------------------------------------------------------------------------
\* The history and the request made of it

LEMMA LastOfFacts ==
    ASSUME NEW N \in Nat, NEW S, S \subseteq 1..N
    PROVE  /\ LastOf(S) \in 0..N
           /\ LastOf(S) # 0 => LastOf(S) \in S
           /\ \A i \in S : i <= LastOf(S)
  <1>1. CASE S = {}
    BY <1>1 DEF LastOf
  <1>2. CASE S # {}
    <2>1. Max(S) \in S /\ \A j \in S : j <= Max(S)
      BY <1>2, GreatestOf
    <2>2. LastOf(S) = Max(S)
      BY <1>2 DEF LastOf
    <2>3. LastOf(S) \in 1..N
      BY <2>1, <2>2
    <2> QED BY <2>1, <2>2, <2>3
  <1> QED BY <1>1, <1>2

LEMMA EventFields ==
    ASSUME NEW s \in Seq(Event), NEW i \in 1..Len(s)
    PROVE  /\ s[i] \in Event
           /\ s[i].run \in Run /\ s[i].depth \in Nat /\ s[i].kind \in Kind
           /\ s[i].key \in Call \cup Answer \cup {""}
           /\ s[i].calls \in Seq(Call) /\ Len(s[i].calls) \in Nat
           /\ DOMAIN s[i].calls = 1..Len(s[i].calls)
           /\ s[i].tokens \in Nat /\ s[i].child \in Run \cup {0}
           /\ s[i].covers \in SUBSET (Nat \ {0})
  <1>1. s[i] \in Event
    OBVIOUS
  <1>2. /\ s[i].run \in Run /\ s[i].depth \in Nat /\ s[i].kind \in Kind
        /\ s[i].key \in Call \cup Answer \cup {""}
        /\ s[i].calls \in Seq(Call)
        /\ s[i].tokens \in Nat /\ s[i].child \in Run \cup {0}
        /\ s[i].covers \in SUBSET (Nat \ {0})
    BY <1>1 DEF Event
  <1>3. Len(s[i].calls) \in Nat /\ DOMAIN s[i].calls = 1..Len(s[i].calls)
    BY <1>2, LenProperties
  <1> QED BY <1>1, <1>2, <1>3

LEMMA HistoryFacts ==
    ASSUME NEW s \in Seq(Event)
    PROVE  /\ LastSummary(s) \in 0..Len(s)
           /\ LastSummary(s) # 0 => s[LastSummary(s)].kind = "history_summarized"
           /\ HistoryEvents(s) \subseteq 1..Len(s)
           /\ Older(s, HistoryEvents(s)) \subseteq HistoryEvents(s)
           /\ Sent(s) \subseteq HistoryEvents(s)
           /\ Sent(s) \subseteq 1..Len(s)
  <1> DEFINE S == {i \in DOMAIN s : s[i].kind = "history_summarized"}
  <1>1. Len(s) \in Nat /\ DOMAIN s = 1..Len(s)
    OBVIOUS
  <1>2. S \subseteq 1..Len(s) /\ LastSummary(s) = LastOf(S)
    BY <1>1 DEF LastSummary
  <1>3. /\ LastSummary(s) \in 0..Len(s)
        /\ LastSummary(s) # 0 => LastSummary(s) \in S
    <2> HIDE DEF S
    <2> QED BY <1>1, <1>2, LastOfFacts
  <1>4. HistoryEvents(s) \subseteq 1..Len(s)
    BY <1>1 DEF HistoryEvents
  <1>5. Older(s, HistoryEvents(s)) \subseteq HistoryEvents(s)
    BY DEF Older
  <1>6. Sent(s) \subseteq HistoryEvents(s)
    BY DEF Sent
  <1> QED BY <1>3, <1>4, <1>5, <1>6

LEMMA RequestFacts ==
    ASSUME NEW s \in Seq(Event)
    PROVE  /\ Len(BuildMessages(s)) = Cardinality(Sent(s))
           /\ Len(BuildMessages(s)) \in Nat
           /\ DOMAIN BuildMessages(s) = 1..Cardinality(Sent(s))
           /\ \A i \in Sent(s) :
                 /\ Rank(Sent(s), i) \in 1..Cardinality(Sent(s))
                 /\ BuildMessages(s)[Rank(Sent(s), i)] =
                       IF i \in Older(s, HistoryEvents(s)) THEN Evicted(s[i]) ELSE Message(s[i])
           /\ \A n \in 1..Cardinality(Sent(s)) :
                 \E i \in Sent(s) : Rank(Sent(s), i) = n
  <1> DEFINE S == Sent(s)
             C == Cardinality(S)
             M(n) == LET i == Nth(S, n)
                     IN  IF i \in Older(s, HistoryEvents(s)) THEN Evicted(s[i]) ELSE Message(s[i])
  <1>1. Len(s) \in Nat /\ S \subseteq 1..Len(s)
    BY HistoryFacts
  <1>2. C \in Nat
    BY <1>1, PositionsAreFinite
  <1>3. BuildMessages(s) = [n \in 1..C |-> M(n)]
    BY DEF BuildMessages
  <1>4. Len(BuildMessages(s)) = C /\ DOMAIN BuildMessages(s) = 1..C
    <2> HIDE DEF C, M
    <2>1. BuildMessages(s) \in Seq({M(n) : n \in 1..C})
      BY <1>2, <1>3
    <2>2. DOMAIN BuildMessages(s) = 1..C
      BY <1>3
    <2> QED BY <1>2, <2>1, <2>2, LenProperties
  <1>5. ASSUME NEW i \in S
        PROVE  /\ Rank(S, i) \in 1..C
               /\ BuildMessages(s)[Rank(S, i)] =
                       IF i \in Older(s, HistoryEvents(s)) THEN Evicted(s[i]) ELSE Message(s[i])
    <2>1. Rank(S, i) \in 1..C
      BY <1>1, RankFacts
    <2>2. Nth(S, Rank(S, i)) = i
      BY <1>1, NthRank
    <2>3. BuildMessages(s)[Rank(S, i)] = M(Rank(S, i))
      BY <1>3, <2>1
    <2> QED BY <2>1, <2>2, <2>3
  <1>6. ASSUME NEW n \in 1..C PROVE \E i \in S : Rank(S, i) = n
    BY <1>1, NthOf
  <1> QED BY <1>2, <1>4, <1>5, <1>6

\* A line of the conversation.
Speaks(e) == e.depth = 0 /\ e.kind \in HistoryKinds

\* The calls of the line at p are answered, in order and in one piece, by the
\* lines after position q, and the conversation is silent from p to q.
AnsweredAfter(s, p, q) ==
    /\ p <= q /\ q + Len(s[p].calls) <= Len(s)
    /\ \A i \in p + 1..q : ~Speaks(s[i])
    /\ \A k \in 1..Len(s[p].calls) : /\ Speaks(s[q + k])
                                     /\ s[q + k].kind = "tool_result"
                                     /\ s[q + k].key = s[p].calls[k]
                                     /\ s[q + k].calls = <<>>

Calling(s, p) == Speaks(s[p]) /\ s[p].calls # <<>>

\* The conversation opens on a user turn; every batch of calls is answered, but
\* for those at the open positions, after which it is silent; and nothing else
\* answers.
Batched(s, open) ==
    /\ s # <<>> => Speaks(s[1]) /\ s[1].kind = "user_message"
    /\ \A i \in 1..Len(s) : s[i].kind = "history_summarized" => s[i].depth = 0
    /\ \A p \in 1..Len(s) : Calling(s, p) =>
           s[p].kind = "agent_message" /\ (p \in open \/ \E q \in Nat : AnsweredAfter(s, p, q))
    /\ \A p \in open : /\ p \in 1..Len(s) /\ Calling(s, p)
                      /\ \A i \in p + 1..Len(s) : ~Speaks(s[i])
    /\ \A i \in 1..Len(s) : Speaks(s[i]) /\ s[i].kind = "tool_result" =>
           \E p \in 1..Len(s), q \in Nat : /\ Calling(s, p) /\ AnsweredAfter(s, p, q)
                                         /\ i \in q + 1..q + Len(s[p].calls)

Settled(s) == Batched(s, {})

\* A batch is cut neither by a summary nor by an eviction: its results are sent
\* when and only when it is, whole.
LEMMA BatchesAreWhole ==
    ASSUME NEW s \in Seq(Event), NEW p \in 1..Len(s), NEW q \in Nat,
           Calling(s, p), s[p].kind = "agent_message", AnsweredAfter(s, p, q),
           NEW k \in 1..Len(s[p].calls),
           \A i \in 1..Len(s) : s[i].kind = "history_summarized" => s[i].depth = 0
    PROVE  /\ q + k \in 1..Len(s)
           /\ p \in HistoryEvents(s) <=> q + k \in HistoryEvents(s)
           /\ p \in Older(s, HistoryEvents(s)) <=> q + k \in Older(s, HistoryEvents(s))
  <1> DEFINE H == HistoryEvents(s)
             since == LastSummary(s)
             starts == {i \in H : s[i].kind = "user_message"}
             After(i) == {j \in starts : j > i}
  <1>1. /\ Len(s) \in Nat /\ DOMAIN s = 1..Len(s) /\ p \in 1..Len(s)
        /\ Len(s[p].calls) \in Nat
    <2>1. Len(s) \in Nat /\ DOMAIN s = 1..Len(s) /\ p \in 1..Len(s)
      OBVIOUS
    <2> QED BY <2>1, EventFields
  <1>2. q + k \in 1..Len(s) /\ p < q + k
    <2>1. p <= q /\ q + Len(s[p].calls) <= Len(s)
      BY DEF AnsweredAfter
    <2> QED BY <1>1, <2>1
  <1>3. Speaks(s[q + k]) /\ s[q + k].kind = "tool_result"
    BY DEF AnsweredAfter
  <1>4. ASSUME NEW i \in DOMAIN s, p < i, i <= q + k
        PROVE  ~Speaks(s[i]) \/ s[i].kind = "tool_result"
    <2>1. CASE i <= q
      <3>1. i \in p + 1..q
        BY <1>1, <1>4, <2>1
      <3> QED BY <3>1 DEF AnsweredAfter
    <2>2. CASE i > q
      <3>1. i - q \in 1..Len(s[p].calls) /\ q + (i - q) = i
        BY <1>1, <1>4, <2>2
      <3>2. s[q + (i - q)].kind = "tool_result"
        BY <3>1 DEF AnsweredAfter
      <3> QED BY <3>1, <3>2
    <2> QED BY <1>1, <2>1, <2>2
  <1>5. ~(p < since /\ since <= q + k)
    <2> SUFFICES ASSUME p < since, since <= q + k PROVE FALSE
      OBVIOUS
    <2>1. since \in 0..Len(s) /\ (since # 0 => s[since].kind = "history_summarized")
      BY HistoryFacts
    <2>2. since \in DOMAIN s /\ s[since].kind = "history_summarized"
      BY <1>1, <2>1
    <2>3. Speaks(s[since])
      BY <2>2 DEF Speaks, HistoryKinds
    <2> QED BY <1>4, <2>2, <2>3
  <1>6. since \in 0..Len(s)
    BY HistoryFacts
  <1>7. p \in H <=> p >= since
    BY <1>1 DEF HistoryEvents, Calling, Speaks
  <1>8. q + k \in H <=> q + k >= since
    BY <1>1, <1>2, <1>3 DEF HistoryEvents, Speaks
  <1>9. p \in H <=> q + k \in H
    BY <1>1, <1>2, <1>5, <1>6, <1>7, <1>8
  <1>10. After(p) = After(q + k)
    <2>1. ASSUME NEW j \in starts PROVE j > p <=> j > q + k
      <3>1. j \in DOMAIN s /\ Speaks(s[j]) /\ s[j].kind # "tool_result"
        BY <1>1, HistoryFacts DEF HistoryEvents, Speaks
      <3>2. ~(p < j /\ j <= q + k)
        BY <1>4, <3>1
      <3> QED BY <1>1, <1>2, <3>1, <3>2
    <2> HIDE DEF starts
    <2> QED BY <2>1
  <1>11. p \in Older(s, H) <=> q + k \in Older(s, H)
    <2>1. \A i : i \in Older(s, H) <=>
              /\ ~(KeepTurns > 0 /\ Cardinality(starts) <= KeepTurns)
              /\ i \in H /\ Cardinality(After(i)) >= KeepTurns
      BY DEF Older
    <2> HIDE DEF H, After
    <2> QED BY <1>9, <1>10, <2>1
  <1> QED BY <1>2, <1>9, <1>11

\* The request a settled log makes is one a provider accepts, however much of
\* the history is summarized or evicted.
THEOREM SettledIsWellFormed ==
    ASSUME NEW s \in Seq(Event), Settled(s)
    PROVE  WellFormed(BuildMessages(s))
  <1> DEFINE H == HistoryEvents(s)
             O == Older(s, H)
             S == Sent(s)
             C == Cardinality(S)
             m == BuildMessages(s)
  <1>1. /\ Len(s) \in Nat /\ DOMAIN s = 1..Len(s)
        /\ H \subseteq 1..Len(s) /\ S \subseteq H /\ S \subseteq 1..Len(s)
    BY HistoryFacts
  <1>2. C \in Nat /\ Len(m) = C /\ DOMAIN m = 1..C
    BY <1>1, RequestFacts, PositionsAreFinite
  <1>3. \A i : i \in S <=> i \in H /\ (i \in O => s[i].kind # "tool_result")
    BY DEF Sent
  <1>4. \A i \in H : Speaks(s[i])
    BY DEF HistoryEvents, Speaks
  <1>5. ASSUME NEW i \in S
        PROVE  /\ Rank(S, i) \in 1..C
               /\ i \in O => m[Rank(S, i)] = Evicted(s[i])
               /\ i \notin O => m[Rank(S, i)] = Message(s[i])
    BY RequestFacts
  <1>6. m # <<>> => m[1].role = "user"
    <2> SUFFICES ASSUME m # <<>> PROVE m[1].role = "user"
      OBVIOUS
    <2> DEFINE since == LastSummary(s)
               first == IF since = 0 THEN 1 ELSE since
    <2>1. since \in 0..Len(s) /\ (since # 0 => s[since].kind = "history_summarized")
      BY HistoryFacts
    <2>2. C # 0
      BY <1>2
    <2>3. s # <<>>
      <3>1. S # {}
        BY <2>2, FS_EmptySet
      <3> QED BY <1>1, <3>1
    <2>4. first \in 1..Len(s)
      BY <1>1, <2>1, <2>3
    <2>5. Speaks(s[first]) /\ s[first].kind \in {"user_message", "history_summarized"}
      BY <1>1, <2>1, <2>3, <2>4 DEF Settled, Batched, Speaks, HistoryKinds
    <2>6. first \in S
      <3>1. first >= since
        BY <2>1
      <3>2. first \in H
        BY <1>1, <2>4, <2>5, <3>1 DEF HistoryEvents, Speaks
      <3> QED BY <1>3, <2>5, <3>2
    <2>7. \A j \in S : first <= j
      <3>1. \A j \in H : j >= since
        BY DEF HistoryEvents
      <3> QED BY <1>1, <2>1, <3>1
    <2>8. Rank(S, first) = 1
      <3>1. {j \in S : j <= first} = {first}
        BY <1>1, <2>4, <2>6, <2>7
      <3> QED BY <3>1, FS_Singleton DEF Rank
    <2> HIDE DEF first
    <2>9. m[1] = Evicted(s[first]) \/ m[1] = Message(s[first])
      BY <1>5, <2>6, <2>8
    <2> QED BY <2>5, <2>9 DEF Evicted, Message
  <1>7. ASSUME NEW p \in S, p \notin O, s[p].calls # <<>>
        PROVE  \E q \in Nat :
                   \A k \in 1..Len(s[p].calls) :
                       /\ q + k \in S /\ q + k \notin O
                       /\ s[q + k].kind = "tool_result" /\ s[q + k].key = s[p].calls[k]
                       /\ Rank(S, q + k) = Rank(S, p) + k
    <2>1. Calling(s, p) /\ p \in 1..Len(s)
      BY <1>1, <1>4, <1>7 DEF Calling
    <2>2. PICK q \in Nat : AnsweredAfter(s, p, q)
      BY <2>1 DEF Settled, Batched
    <2>3. s[p].kind = "agent_message"
      BY <2>1 DEF Settled, Batched
    <2> DEFINE n == Len(s[p].calls)
    <2>4. n \in Nat
      BY <1>1, EventFields
    <2>5. ASSUME NEW k \in 1..n
          PROVE  /\ q + k \in S /\ q + k \notin O
                 /\ s[q + k].kind = "tool_result" /\ s[q + k].key = s[p].calls[k]
      <3>1. /\ p \in H <=> q + k \in H
            /\ p \in O <=> q + k \in O
        <4>1. \A i \in 1..Len(s) : s[i].kind = "history_summarized" => s[i].depth = 0
          BY DEF Settled, Batched
        <4> QED BY <2>1, <2>2, <2>3, <4>1, BatchesAreWhole
      <3>2. s[q + k].kind = "tool_result" /\ s[q + k].key = s[p].calls[k]
        BY <2>2 DEF AnsweredAfter
      <3> QED BY <1>1, <1>3, <1>7, <3>1, <3>2
    <2>6. ASSUME NEW k \in 1..n PROVE Rank(S, q + k) = Rank(S, p) + k
      <3>1. \A j \in q + 1..q + k : j \in S
        <4> SUFFICES ASSUME NEW i \in q + 1..q + k PROVE i \in S
          OBVIOUS
        <4>1. i - q \in 1..n /\ q + (i - q) = i
          BY <2>4
        <4> QED BY <2>5, <4>1
      <3>2. ASSUME NEW i \in S, p < i, i <= q PROVE FALSE
        <4>1. i \in p + 1..q
          BY <1>1, <3>2
        <4> QED BY <1>1, <1>4, <2>2, <4>1 DEF AnsweredAfter
      <3>3. p <= q /\ k \in Nat /\ k # 0
        BY <2>2, <2>4 DEF AnsweredAfter
      <3>4. \A i \in S : ~(p < i /\ i <= q)
        BY <3>2
      <3> HIDE DEF S
      <3>5. IsFiniteSet(S) /\ (\A j \in S : j \in Nat) /\ p \in S /\ q \in Nat
        <4>1. IsFiniteSet(S)
          BY <1>1, PositionsAreFinite
        <4>2. \A j \in S : j \in Nat
          BY <1>1
        <4> QED BY <4>1, <4>2
      <3> QED BY ONLY <3>1, <3>3, <3>4, <3>5, RankOfBlock
    <2> QED BY <2>5, <2>6
  <1>8. ASSUME NEW i \in S, s[i].kind = "tool_result"
        PROVE  \E p \in S, q \in Nat :
                  /\ p \notin O /\ s[p].calls # <<>>
                  /\ i \in q + 1..q + Len(s[p].calls)
                  /\ Rank(S, i) = Rank(S, p) + (i - q)
    <2>1. i \in DOMAIN s /\ Speaks(s[i])
      BY <1>1, <1>4
    <2>2. PICK p \in 1..Len(s), q \in Nat :
               /\ Calling(s, p) /\ AnsweredAfter(s, p, q)
               /\ i \in q + 1..q + Len(s[p].calls)
      BY <1>8, <2>1 DEF Settled, Batched
    <2> DEFINE n == Len(s[p].calls)
    <2>3. n \in Nat /\ s[p].kind = "agent_message"
      BY <1>1, <2>2, EventFields DEF Settled, Batched
    <2>4. i - q \in 1..n /\ q + (i - q) = i
      BY <2>2, <2>3
    <2>5. \A k \in 1..Len(s) : s[k].kind = "history_summarized" => s[k].depth = 0
      BY DEF Settled, Batched
    <2>6. ASSUME NEW k \in 1..n
          PROVE  /\ p \in H <=> q + k \in H
                 /\ p \in O <=> q + k \in O
      BY <2>2, <2>3, <2>5, BatchesAreWhole
    <2>7. p \in H /\ p \notin O
      <3>1. i \in H /\ i \notin O
        BY <1>3, <1>8
      <3> QED BY <2>4, <2>6, <3>1
    <2>8. p \in S
      BY <1>3, <2>7
    <2>9. Rank(S, i) = Rank(S, p) + (i - q)
      <3>1. \A j \in q + 1..q + (i - q) : j \in S
        <4> SUFFICES ASSUME NEW j \in q + 1..q + (i - q) PROVE j \in S
          OBVIOUS
        <4>1. j - q \in 1..n /\ q + (j - q) = j
          BY <2>2, <2>3, <2>4
        <4>2. j \in H /\ j \notin O
          BY <2>6, <2>7, <4>1
        <4> QED BY <1>3, <4>2
      <3>2. ASSUME NEW j \in S, p < j, j <= q PROVE FALSE
        <4>1. j \in p + 1..q
          BY <1>1, <3>2
        <4> QED BY <1>1, <1>4, <2>2, <4>1 DEF AnsweredAfter
      <3>3. p <= q /\ i - q \in Nat \ {0}
        BY <2>2, <2>3, <2>4 DEF AnsweredAfter
      <3>4. \A j \in S : ~(p < j /\ j <= q)
        BY <3>2
      <3> DEFINE k == i - q
      <3> HIDE DEF S, k
      <3>5. Rank(S, q + k) = Rank(S, p) + k
        <4>1. k \in Nat /\ k # 0 /\ \A j \in q + 1..q + k : j \in S
          BY <3>1, <3>3 DEF k
        <4>2. IsFiniteSet(S) /\ (\A j \in S : j \in Nat) /\ p \in S /\ q \in Nat /\ p <= q
          <5>1. IsFiniteSet(S)
            BY <1>1, PositionsAreFinite
          <5>2. \A j \in S : j \in Nat
            BY <1>1
          <5> QED BY <2>8, <3>3, <5>1, <5>2
        <4> QED BY ONLY <3>4, <4>1, <4>2, RankOfBlock
      <3> QED BY <2>4, <3>5 DEF k
    <2>10. s[p].calls # <<>>
      BY <2>2 DEF Calling
    <2> QED BY <2>2, <2>7, <2>8, <2>9, <2>10
  <1>9. ASSUME NEW n \in 1..C
        PROVE  LET calls == m[n].calls
               IN  /\ n + Len(calls) <= C
                   /\ \A k \in DOMAIN calls : m[n + k].role = "tool"
                                              /\ m[n + k].key = calls[k]
                   /\ m[n].role = "tool" =>
                         \E j \in 1..n - 1 : m[j].calls # <<>>
                                             /\ n <= j + Len(m[j].calls)
    <2>1. PICK i \in S : Rank(S, i) = n
      BY RequestFacts
    <2>2. i \in 1..Len(s)
      BY <1>1
    <2>3. CASE i \in O
      <3>1. m[n] = Evicted(s[i])
        BY <1>5, <2>1, <2>3
      <3>2. m[n].calls = <<>> /\ m[n].role # "tool"
        BY <1>3, <2>3, <3>1 DEF Evicted, Message
      <3> QED BY <1>2, <3>2
    <2>4. CASE i \notin O
      <3>1. m[n] = Message(s[i])
        BY <1>5, <2>1, <2>4
      <3>2. m[n].calls = s[i].calls /\ (m[n].role = "tool" => s[i].kind = "tool_result")
        BY <3>1 DEF Message
      <3> DEFINE calls == s[i].calls
      <3>3. Len(calls) \in Nat /\ DOMAIN calls = 1..Len(calls) /\ calls \in Seq(Call)
        BY <2>2, EventFields
      <3>4. /\ n + Len(calls) <= C
            /\ \A k \in DOMAIN calls : m[n + k].role = "tool" /\ m[n + k].key = calls[k]
        <4>1. CASE calls = <<>>
          BY <1>2, <4>1
        <4>2. CASE calls # <<>>
          <5>1. PICK q \in Nat :
                   \A k \in 1..Len(calls) :
                       /\ q + k \in S /\ q + k \notin O
                       /\ s[q + k].kind = "tool_result" /\ s[q + k].key = calls[k]
                       /\ Rank(S, q + k) = Rank(S, i) + k
            BY <1>7, <2>4, <4>2
          <5>2. ASSUME NEW k \in 1..Len(calls)
                PROVE  n + k \in 1..C /\ m[n + k] = Message(s[q + k])
            <6>1. q + k \in S /\ q + k \notin O /\ Rank(S, q + k) = n + k
              BY <2>1, <5>1
            <6> QED BY <1>5, <6>1
          <5>3. n + Len(calls) <= C
            <6>1. Len(calls) \in 1..Len(calls)
              BY <3>3, <4>2, EmptySeq
            <6> QED BY <1>2, <5>2, <6>1
          <5>4. ASSUME NEW k \in 1..Len(calls)
                PROVE  m[n + k].role = "tool" /\ m[n + k].key = calls[k]
            <6>1. s[q + k].kind = "tool_result" /\ s[q + k].key = calls[k]
              BY <5>1
            <6>2. Message(s[q + k]).role = "tool" /\ Message(s[q + k]).key = calls[k]
              BY <6>1 DEF Message
            <6> QED BY <5>2, <6>2
          <5> QED BY <3>3, <5>3, <5>4
        <4> QED BY <4>1, <4>2
      <3>5. ASSUME m[n].role = "tool"
            PROVE  \E j \in 1..n - 1 : m[j].calls # <<>> /\ n <= j + Len(m[j].calls)
        <4>1. PICK p \in S, q \in Nat :
                  /\ p \notin O /\ s[p].calls # <<>>
                  /\ i \in q + 1..q + Len(s[p].calls)
                  /\ Rank(S, i) = Rank(S, p) + (i - q)
          BY <1>8, <3>2, <3>5
        <4> DEFINE j == Rank(S, p)
        <4>2. j \in 1..C /\ m[j] = Message(s[p])
          BY <1>5, <4>1
        <4>3. m[j].calls = s[p].calls /\ Len(s[p].calls) \in Nat
          <5>1. Len(s[p].calls) \in Nat
            BY <1>1, EventFields
          <5>2. Message(s[p]).calls = s[p].calls
            BY DEF Message
          <5> QED BY <4>2, <5>1, <5>2
        <4>4. n = j + (i - q) /\ i - q \in 1..Len(s[p].calls)
          BY <2>1, <4>1, <4>3
        <4> HIDE DEF j
        <4>5. j \in 1..n - 1 /\ n <= j + Len(m[j].calls)
          BY <1>2, <4>2, <4>3, <4>4
        <4> QED BY <4>1, <4>3, <4>5
      <3> QED BY <3>2, <3>4, <3>5
    <2> QED BY <2>3, <2>4
  <1> HIDE DEF m, C
  <1>10. WellFormed(m)
    BY <1>2, <1>6, <1>9 DEF WellFormed
  <1> QED BY <1>10 DEF m

-----------------------------------------------------------------------------
\* A log that grows

\* t is s with lines put at its end.
Extends(s, t) == Len(s) <= Len(t) /\ \A i \in 1..Len(s) : t[i] = s[i]

LEMMA ExtendsConcat ==
    ASSUME NEW s \in Seq(Event), NEW lines \in Seq(Event)
    PROVE  /\ s \o lines \in Seq(Event) /\ Extends(s, s \o lines)
           /\ Len(s \o lines) = Len(s) + Len(lines)
           /\ \A k \in 1..Len(lines) : (s \o lines)[Len(s) + k] = lines[k]
           /\ \A i \in Len(s) + 1..Len(s \o lines) :
                 i - Len(s) \in 1..Len(lines) /\ (s \o lines)[i] = lines[i - Len(s)]
  <1> DEFINE t == s \o lines
  <1>1. t \in Seq(Event)
    OBVIOUS
  <1>2. IsLog(s) /\ IsLog(lines)
    BY DEF IsLog
  <1>3. /\ Len(t) = Len(s) + Len(lines)
        /\ \A i \in 1..Len(s) : t[i] = s[i]
        /\ \A k \in 1..Len(lines) : t[Len(s) + k] = lines[k]
    BY <1>2, Concat
  <1>4. Len(s) \in Nat /\ Len(lines) \in Nat
    BY <1>2, LogFacts
  <1> HIDE DEF t
  <1>5. ASSUME NEW i \in Len(s) + 1..Len(t)
        PROVE  i - Len(s) \in 1..Len(lines) /\ t[i] = lines[i - Len(s)]
    <2>1. i - Len(s) \in 1..Len(lines) /\ Len(s) + (i - Len(s)) = i
      BY <1>3, <1>4
    <2> QED BY <1>3, <2>1
  <1>6. Extends(s, t)
    BY <1>3, <1>4 DEF Extends
  <1>7. /\ t \in Seq(Event) /\ Extends(s, t)
        /\ Len(t) = Len(s) + Len(lines)
        /\ \A k \in 1..Len(lines) : t[Len(s) + k] = lines[k]
        /\ \A i \in Len(s) + 1..Len(t) :
              i - Len(s) \in 1..Len(lines) /\ t[i] = lines[i - Len(s)]
    BY <1>1, <1>3, <1>5, <1>6
  <1> QED BY <1>7 DEF t

LEMMA AnsweredStays ==
    ASSUME NEW s \in Seq(Event), NEW t \in Seq(Event), Extends(s, t),
           NEW p \in 1..Len(s), NEW q \in Nat, AnsweredAfter(s, p, q)
    PROVE  AnsweredAfter(t, p, q)
  <1> DEFINE n == Len(s[p].calls)
  <1>1. Len(s) \in Nat /\ Len(t) \in Nat /\ n \in Nat /\ p \in Nat
    <2>1. n \in Nat
      BY EventFields
    <2>2. Len(s) \in Nat /\ Len(t) \in Nat
      OBVIOUS
    <2> QED BY <2>1, <2>2
  <1>2. Len(s) <= Len(t) /\ \A i \in 1..Len(s) : t[i] = s[i]
    BY DEF Extends
  <1>3. t[p] = s[p]
    BY <1>2
  <1>4. p <= q /\ q + n <= Len(s)
    BY DEF AnsweredAfter
  <1>5. ASSUME NEW i \in p + 1..q PROVE ~Speaks(t[i])
    <2>1. i \in 1..Len(s)
      BY <1>1, <1>4
    <2>2. ~Speaks(s[i])
      BY DEF AnsweredAfter
    <2> QED BY <1>2, <2>1, <2>2
  <1>6. ASSUME NEW k \in 1..n
        PROVE  Speaks(t[q + k]) /\ t[q + k].kind = "tool_result"
               /\ t[q + k].key = s[p].calls[k] /\ t[q + k].calls = <<>>
    <2>1. q + k \in 1..Len(s)
      BY <1>1, <1>4
    <2>2. /\ Speaks(s[q + k]) /\ s[q + k].kind = "tool_result"
          /\ s[q + k].key = s[p].calls[k] /\ s[q + k].calls = <<>>
      BY DEF AnsweredAfter
    <2> QED BY <1>2, <2>1, <2>2
  <1>7. q + n <= Len(t)
    BY <1>1, <1>2, <1>4
  <1> QED BY <1>3, <1>4, <1>5, <1>6, <1>7 DEF AnsweredAfter

\* What is true of the lines of s and of those put at its end.
LEMMA InTwoParts ==
    ASSUME NEW s \in Seq(Event), NEW t \in Seq(Event), Extends(s, t), NEW i \in 1..Len(t)
    PROVE  (i \in 1..Len(s) /\ t[i] = s[i]) \/ i \in Len(s) + 1..Len(t)
  BY DEF Extends

\* The lines of a step that ends no batch.  Only its last line may call, and
\* only where no batch is open.
LEMMA BatchedGrows ==
    ASSUME NEW s \in Seq(Event), NEW t \in Seq(Event), Extends(s, t),
           NEW open, NEW new, Batched(s, open),
           s = <<>> /\ t # <<>> => Speaks(t[1]) /\ t[1].kind = "user_message",
           \A i \in Len(s) + 1..Len(t) :
               /\ t[i].kind = "history_summarized" => t[i].depth = 0
               /\ Speaks(t[i]) => open = {} /\ t[i].kind # "tool_result"
               /\ Calling(t, i) => t[i].kind = "agent_message" /\ i = Len(t),
           new = {i \in Len(s) + 1..Len(t) : Calling(t, i)}
    PROVE  Batched(t, open \cup new)
  <1>1. Len(s) \in Nat /\ Len(t) \in Nat /\ Len(s) <= Len(t)
        /\ \A i \in 1..Len(s) : i \in 1..Len(t) /\ t[i] = s[i]
    BY DEF Extends
  <1>2. t # <<>> => Speaks(t[1]) /\ t[1].kind = "user_message"
    <2>1. CASE s = <<>>
      BY <2>1
    <2>2. CASE s # <<>>
      <3>1. 1 \in 1..Len(s)
        BY <1>1, <2>2, EmptySeq
      <3> QED BY <1>1, <2>2, <3>1 DEF Batched
    <2> QED BY <2>1, <2>2
  <1>3. ASSUME NEW i \in 1..Len(t), t[i].kind = "history_summarized" PROVE t[i].depth = 0
    BY <1>3, InTwoParts DEF Batched
  <1>4. ASSUME NEW p \in 1..Len(t), Calling(t, p)
        PROVE  /\ t[p].kind = "agent_message"
               /\ p \in open \cup new \/ \E q \in Nat : AnsweredAfter(t, p, q)
    <2>1. CASE p \in 1..Len(s) /\ t[p] = s[p]
      <3>1. Calling(s, p)
        BY <1>4, <2>1 DEF Calling
      <3>2. s[p].kind = "agent_message" /\ (p \in open \/ \E q \in Nat : AnsweredAfter(s, p, q))
        BY <2>1, <3>1 DEF Batched
      <3> QED BY <2>1, <3>2, AnsweredStays
    <2>2. CASE p \in Len(s) + 1..Len(t)
      BY <1>4, <2>2
    <2> QED BY <2>1, <2>2, InTwoParts
  <1>5. ASSUME NEW p \in open \cup new
        PROVE  /\ p \in 1..Len(t) /\ Calling(t, p)
               /\ \A i \in p + 1..Len(t) : ~Speaks(t[i])
    <2>1. CASE p \in open
      <3>1. p \in 1..Len(s) /\ Calling(s, p) /\ \A i \in p + 1..Len(s) : ~Speaks(s[i])
        BY <2>1 DEF Batched
      <3>2. p \in 1..Len(t) /\ Calling(t, p)
        BY <1>1, <3>1 DEF Calling
      <3>3. ASSUME NEW i \in p + 1..Len(t) PROVE ~Speaks(t[i])
        <4>1. i \in 1..Len(t)
          BY <1>1, <3>1
        <4>2. CASE i \in 1..Len(s) /\ t[i] = s[i]
          <5>1. i \in p + 1..Len(s)
            BY <1>1, <3>1, <4>2
          <5> QED BY <3>1, <4>2, <5>1
        <4>3. CASE i \in Len(s) + 1..Len(t)
          BY <2>1, <4>3
        <4> QED BY <4>1, <4>2, <4>3, InTwoParts
      <3> QED BY <3>2, <3>3
    <2>2. CASE p \in new
      <3>1. p = Len(t) /\ Calling(t, p) /\ p \in 1..Len(t)
        BY <1>1, <2>2
      <3>2. \A i \in p + 1..Len(t) : FALSE
        BY <1>1, <3>1
      <3> QED BY <3>1, <3>2
    <2> QED BY <2>1, <2>2
  <1>6. ASSUME NEW i \in 1..Len(t), Speaks(t[i]), t[i].kind = "tool_result"
        PROVE  \E p \in 1..Len(t), q \in Nat : /\ Calling(t, p) /\ AnsweredAfter(t, p, q)
                                            /\ i \in q + 1..q + Len(t[p].calls)
    <2>1. i \in 1..Len(s) /\ t[i] = s[i]
      BY <1>6, InTwoParts
    <2>2. PICK p \in 1..Len(s), q \in Nat : /\ Calling(s, p) /\ AnsweredAfter(s, p, q)
                                          /\ i \in q + 1..q + Len(s[p].calls)
      BY <1>6, <2>1 DEF Batched
    <2>3. t[p] = s[p] /\ p \in 1..Len(t)
      BY <1>1
    <2>4. AnsweredAfter(t, p, q)
      BY <2>2, AnsweredStays
    <2>5. Calling(t, p)
      BY <2>2, <2>3 DEF Calling
    <2> QED BY <2>2, <2>3, <2>4, <2>5
  <1> QED BY <1>2, <1>3, <1>4, <1>5, <1>6 DEF Batched

\* The lines of a step that ends the open batch: its results and no more.
LEMMA BatchedAnswers ==
    ASSUME NEW s \in Seq(Event), NEW t \in Seq(Event), Extends(s, t),
           NEW p, Batched(s, {p}),
           Len(t) = Len(s) + Len(s[p].calls),
           \A k \in 1..Len(s[p].calls) :
               /\ t[Len(s) + k].depth = 0 /\ t[Len(s) + k].kind = "tool_result"
               /\ t[Len(s) + k].key = s[p].calls[k] /\ t[Len(s) + k].calls = <<>>
    PROVE  Batched(t, {})
  <1> DEFINE n == Len(s[p].calls)
  <1>1. /\ p \in 1..Len(s) /\ Calling(s, p)
        /\ \A i \in p + 1..Len(s) : ~Speaks(s[i])
    BY DEF Batched
  <1>2. Len(s) \in Nat /\ Len(t) \in Nat /\ Len(s) <= Len(t) /\ n \in Nat
        /\ \A i \in 1..Len(s) : i \in 1..Len(t) /\ t[i] = s[i]
    <2>1. n \in Nat
      BY <1>1, EventFields
    <2>2. Len(s) \in Nat /\ Len(t) \in Nat
      OBVIOUS
    <2> QED BY <2>1, <2>2 DEF Extends
  <1>3. t[p] = s[p] /\ p \in 1..Len(t) /\ Calling(t, p)
    BY <1>1, <1>2 DEF Calling
  <1>4. ASSUME NEW k \in 1..n
        PROVE  Speaks(t[Len(s) + k]) /\ t[Len(s) + k].kind = "tool_result"
               /\ t[Len(s) + k].key = s[p].calls[k] /\ t[Len(s) + k].calls = <<>>
    BY DEF Speaks, HistoryKinds
  <1>5. AnsweredAfter(t, p, Len(s))
    <2>1. p <= Len(s) /\ Len(s) + n <= Len(t)
      BY <1>1, <1>2
    <2>2. ASSUME NEW i \in p + 1..Len(s) PROVE ~Speaks(t[i])
      <3>1. i \in 1..Len(s)
        BY <1>1, <1>2
      <3> QED BY <1>1, <1>2, <3>1
    <2> QED BY <1>3, <1>4, <2>1, <2>2 DEF AnsweredAfter
  <1>6. ASSUME NEW i \in Len(s) + 1..Len(t)
        PROVE  /\ i \in Len(s) + 1..Len(s) + n
               /\ t[i].kind = "tool_result" /\ t[i].calls = <<>>
    <2>1. i - Len(s) \in 1..n /\ Len(s) + (i - Len(s)) = i
      BY <1>2
    <2> QED BY <1>2, <1>4, <2>1
  <1>7. t # <<>> => Speaks(t[1]) /\ t[1].kind = "user_message"
    <2>1. 1 \in 1..Len(s) /\ s # <<>>
      BY <1>1
    <2> QED BY <1>2, <2>1 DEF Batched
  <1>8. ASSUME NEW i \in 1..Len(t), t[i].kind = "history_summarized" PROVE t[i].depth = 0
    BY <1>6, <1>8, InTwoParts DEF Batched
  <1>9. ASSUME NEW r \in 1..Len(t), Calling(t, r)
        PROVE  t[r].kind = "agent_message" /\ \E q \in Nat : AnsweredAfter(t, r, q)
    <2>1. r \in 1..Len(s) /\ t[r] = s[r]
      BY <1>6, <1>9, InTwoParts DEF Calling
    <2>2. Calling(s, r)
      BY <1>9, <2>1 DEF Calling
    <2>3. s[r].kind = "agent_message" /\ (r = p \/ \E q \in Nat : AnsweredAfter(s, r, q))
      BY <2>1, <2>2 DEF Batched
    <2> QED BY <1>2, <1>5, <2>1, <2>3, AnsweredStays
  <1>10. ASSUME NEW i \in 1..Len(t), Speaks(t[i]), t[i].kind = "tool_result"
         PROVE  \E r \in 1..Len(t), q \in Nat : /\ Calling(t, r) /\ AnsweredAfter(t, r, q)
                                             /\ i \in q + 1..q + Len(t[r].calls)
    <2>1. CASE i \in 1..Len(s) /\ t[i] = s[i]
      <3>1. PICK r \in 1..Len(s), q \in Nat : /\ Calling(s, r) /\ AnsweredAfter(s, r, q)
                                            /\ i \in q + 1..q + Len(s[r].calls)
        BY <1>10, <2>1 DEF Batched
      <3>2. t[r] = s[r] /\ r \in 1..Len(t)
        BY <1>2
      <3>3. AnsweredAfter(t, r, q)
        BY <3>1, AnsweredStays
      <3>4. Calling(t, r)
        BY <3>1, <3>2 DEF Calling
      <3> QED BY <3>1, <3>2, <3>3, <3>4
    <2>2. CASE i \in Len(s) + 1..Len(t)
      BY <1>2, <1>3, <1>5, <1>6, <2>2
    <2> QED BY <2>1, <2>2, InTwoParts
  <1> QED BY <1>7, <1>8, <1>9, <1>10 DEF Batched

-----------------------------------------------------------------------------
\* Running totals

\* f is the running total of the weights w of 1 to N.
Totals(N, w, f) == f = [n \in 0..N |-> IF n = 0 THEN 0 ELSE f[n - 1] + w[n]]

LEMMA TotalsExist ==
    ASSUME NEW N \in Nat, NEW w \in [1..N -> Nat]
    PROVE  \E f \in [0..N -> Nat] : Totals(N, w, f)
  <1> DEFINE Upto(m, f) == /\ f \in [0..m -> Nat]
                           /\ \A n \in 0..m : f[n] = IF n = 0 THEN 0 ELSE f[n - 1] + w[n]
             Bad == {m \in 0..N : \A f \in [0..m -> Nat] : ~Upto(m, f)}
  <1>1. Bad = {}
    <2> SUFFICES ASSUME Bad # {} PROVE FALSE
      OBVIOUS
    <2>1. PICK m \in Bad : \A j \in Bad : m <= j
      <3>1. Bad \subseteq Nat
        OBVIOUS
      <3> HIDE DEF Bad
      <3> QED BY <3>1, LeastOf
    <2>2. CASE m = 0
      <3> DEFINE f == [n \in 0..0 |-> 0]
      <3>1. Upto(0, f)
        OBVIOUS
      <3> QED BY <2>1, <2>2, <3>1
    <2>3. CASE m # 0
      <3>1. m \in 1..N /\ m - 1 \in 0..N /\ ~(m <= m - 1)
        BY <2>1, <2>3
      <3>2. m - 1 \notin Bad
        BY <2>1, <3>1
      <3>3. PICK g : Upto(m - 1, g)
        BY <3>1, <3>2
      <3> DEFINE f == [n \in 0..m |-> IF n = m THEN g[m - 1] + w[m] ELSE g[n]]
      <3>4. g[m - 1] \in Nat /\ w[m] \in Nat
        BY <3>1, <3>3
      <3>5. f \in [0..m -> Nat]
        BY <3>1, <3>3, <3>4
      <3>6. ASSUME NEW n \in 0..m PROVE f[n] = IF n = 0 THEN 0 ELSE f[n - 1] + w[n]
        <4>1. CASE n = m
          BY <3>1, <4>1
        <4>2. CASE n # m
          <5>1. n \in 0..m - 1 /\ (n # 0 => n - 1 \in 0..m /\ n - 1 # m)
            BY <3>1, <4>2
          <5>2. g[n] = IF n = 0 THEN 0 ELSE g[n - 1] + w[n]
            BY <3>3, <5>1
          <5> QED BY <4>2, <5>1, <5>2
        <4> QED BY <4>1, <4>2
      <3> HIDE DEF f
      <3>7. Upto(m, f)
        BY <3>5, <3>6
      <3> QED BY <2>1, <3>5, <3>7
    <2> QED BY <2>2, <2>3
  <1>2. PICK f : Upto(N, f)
    <2>1. N \in 0..N
      OBVIOUS
    <2> QED BY <1>1, <2>1
  <1>3. f = [n \in 0..N |-> f[n]]
    BY <1>2
  <1>4. f = [n \in 0..N |-> IF n = 0 THEN 0 ELSE f[n - 1] + w[n]]
    BY <1>2, <1>3
  <1> QED BY <1>2, <1>4 DEF Totals

Agreeing(N, M, v, w, f, g) ==
    /\ N \in Nat /\ M \in Nat /\ N <= M
    /\ Totals(N, v, f) /\ Totals(M, w, g)
    /\ \A n \in 1..N : v[n] = w[n]

Standing(M, w, g, a, b) ==
    /\ M \in Nat /\ g \in [0..M -> Nat] /\ Totals(M, w, g)
    /\ a \in 0..M /\ b \in a..M
    /\ \A n \in a + 1..b : w[n] = 0

\* Totals agree as far as the weights do.
LEMMA TotalsAgree ==
    ASSUME NEW N, NEW M, NEW v, NEW w, NEW f, NEW g, Agreeing(N, M, v, w, f, g)
    PROVE  f[N] = g[N]
  <1>0. /\ N \in Nat /\ M \in Nat /\ N <= M
        /\ Totals(N, v, f) /\ Totals(M, w, g)
        /\ \A n \in 1..N : v[n] = w[n]
    BY DEF Agreeing
  <1> DEFINE Bad == {n \in 0..N : f[n] # g[n]}
  <1> SUFFICES ASSUME Bad # {} PROVE FALSE
    <2>1. N \in 0..N
      BY <1>0
    <2> QED BY <2>1
  <1>1. /\ \A n \in 0..N : f[n] = IF n = 0 THEN 0 ELSE f[n - 1] + v[n]
        /\ \A n \in 0..N : g[n] = IF n = 0 THEN 0 ELSE g[n - 1] + w[n]
    <2>1. \A n \in 0..N : f[n] = IF n = 0 THEN 0 ELSE f[n - 1] + v[n]
      BY <1>0 DEF Totals
    <2>2. \A n \in 0..M : g[n] = IF n = 0 THEN 0 ELSE g[n - 1] + w[n]
      BY <1>0 DEF Totals
    <2>3. \A n \in 0..N : n \in 0..M
      BY <1>0
    <2> QED BY <2>1, <2>2, <2>3
  <1>2. PICK m \in Bad : \A j \in Bad : m <= j
    <2>1. Bad \subseteq Nat
      BY <1>0
    <2> HIDE DEF Bad
    <2> QED BY <2>1, LeastOf
  <1>3. m # 0
    BY <1>1, <1>2
  <1>4. m - 1 \in 0..N /\ ~(m <= m - 1) /\ m \in 1..N
    BY <1>0, <1>2, <1>3
  <1>5. f[m - 1] = g[m - 1]
    BY <1>2, <1>4
  <1>6. f[m] = g[m]
    BY <1>0, <1>1, <1>3, <1>4, <1>5
  <1> QED BY <1>2, <1>6

\* A total stays where it is while nothing is counted.
LEMMA TotalsStand ==
    ASSUME NEW M, NEW w, NEW g, NEW a, NEW b, Standing(M, w, g, a, b)
    PROVE  g[b] = g[a]
  <1>0. /\ M \in Nat /\ g \in [0..M -> Nat] /\ Totals(M, w, g)
        /\ a \in 0..M /\ b \in a..M
        /\ \A n \in a + 1..b : w[n] = 0
    BY DEF Standing
  <1> DEFINE Bad == {n \in a..b : g[n] # g[a]}
  <1> SUFFICES ASSUME Bad # {} PROVE FALSE
    <2>1. b \in a..b
      BY <1>0
    <2> QED BY <2>1
  <1>1. PICK m \in Bad : \A j \in Bad : m <= j
    <2>1. Bad \subseteq Nat
      BY <1>0
    <2> HIDE DEF Bad
    <2> QED BY <2>1, LeastOf
  <1>2. m \in a + 1..b /\ m - 1 \in a..b /\ ~(m <= m - 1) /\ m \in 0..M /\ m - 1 \in 0..M /\ m # 0
    BY <1>0, <1>1
  <1>3. g[m - 1] = g[a]
    BY <1>1, <1>2
  <1>4. g[m] = g[m - 1] + w[m]
    BY <1>0, <1>2 DEF Totals
  <1>5. w[m] = 0 /\ g[m - 1] \in Nat
    BY <1>0, <1>2
  <1> QED BY <1>1, <1>3, <1>4, <1>5

Billed(e, r) == e.run = r /\ e.kind \in {"model_call", "subagent_returned"}
Weights(s, r) == [n \in 1..Len(s) |-> IF Billed(s[n], r) THEN s[n].tokens ELSE 0]

LEMMA TokensAreATotal ==
    ASSUME NEW s \in Seq(Event), NEW r
    PROVE  /\ Len(s) \in Nat /\ Weights(s, r) \in [1..Len(s) -> Nat]
           /\ \E f \in [0..Len(s) -> Nat] :
                 Totals(Len(s), Weights(s, r), f) /\ TotalTokens(s, r) = f[Len(s)]
  <1> DEFINE N == Len(s)
             w == Weights(s, r)
             sum == CHOOSE sum : sum = [n \in 0..N |-> IF n = 0 THEN 0
                                     ELSE sum[n - 1] + IF Billed(s[n], r) THEN s[n].tokens ELSE 0]
  <1>1. N \in Nat
    OBVIOUS
  <1>2. w \in [1..N -> Nat]
    <2>1. \A n \in 1..N : s[n].tokens \in Nat
      BY EventFields
    <2> QED BY <2>1 DEF Weights
  <1>3. ASSUME NEW f
        PROVE  Totals(N, w, f) <=> f = [n \in 0..N |-> IF n = 0 THEN 0
                                     ELSE f[n - 1] + IF Billed(s[n], r) THEN s[n].tokens ELSE 0]
    <2>1. ASSUME NEW n \in 0..N, n # 0
          PROVE  w[n] = IF Billed(s[n], r) THEN s[n].tokens ELSE 0
      <3>1. n \in 1..N
        BY <1>1, <2>1
      <3> QED BY <3>1 DEF Weights
    <2>2. [n \in 0..N |-> IF n = 0 THEN 0 ELSE f[n - 1] + w[n]]
             = [n \in 0..N |-> IF n = 0 THEN 0
                               ELSE f[n - 1] + IF Billed(s[n], r) THEN s[n].tokens ELSE 0]
      <3> HIDE DEF N, w
      <3> QED BY <2>1
    <2> QED BY <2>2 DEF Totals
  <1>4. TotalTokens(s, r) = sum[N]
    BY Zenon DEF TotalTokens, Billed
  <1> HIDE DEF N, w
  <1>5. PICK f : f \in [0..N -> Nat] /\ Totals(N, w, f)
    BY <1>1, <1>2, TotalsExist
  <1>6. Totals(N, w, sum)
    BY <1>3, <1>5
  <1> HIDE DEF sum
  <1>7. sum[N] = f[N]
    <2>1. Agreeing(N, N, w, w, sum, f)
      BY <1>1, <1>5, <1>6 DEF Agreeing
    <2> QED BY <2>1, TotalsAgree
  <1>8. TotalTokens(s, r) = f[N]
    BY <1>1, <1>4, <1>7
  <1> QED BY <1>1, <1>2, <1>5, <1>8 DEF N, w

LEMMA TokensAreNat ==
    ASSUME NEW s \in Seq(Event), NEW r
    PROVE  TotalTokens(s, r) \in Nat
  <1>1. Len(s) \in 0..Len(s)
    OBVIOUS
  <1> QED BY <1>1, TokensAreATotal

\* What a log that grows does to a run's tokens.
LEMMA TokensStand ==
    ASSUME NEW s \in Seq(Event), NEW t \in Seq(Event), Extends(s, t), NEW r,
           \A i \in Len(s) + 1..Len(t) : ~Billed(t[i], r)
    PROVE  TotalTokens(t, r) = TotalTokens(s, r)
  <1> DEFINE N == Len(s)
             M == Len(t)
             v == Weights(s, r)
             w == Weights(t, r)
  <1>1. PICK f : f \in [0..N -> Nat] /\ Totals(N, v, f) /\ TotalTokens(s, r) = f[N]
    BY TokensAreATotal
  <1>2. PICK g : g \in [0..M -> Nat] /\ Totals(M, w, g) /\ TotalTokens(t, r) = g[M]
    BY TokensAreATotal
  <1>3. N \in Nat /\ M \in Nat /\ N <= M
    BY DEF Extends
  <1>4. \A n \in 1..N : v[n] = w[n]
    BY <1>3 DEF Weights, Extends
  <1>5. \A n \in N + 1..M : w[n] = 0
    BY <1>3 DEF Weights
  <1> HIDE DEF N, M, v, w
  <1>6. f[N] = g[N]
    <2>1. Agreeing(N, M, v, w, f, g)
      BY <1>1, <1>2, <1>3, <1>4 DEF Agreeing
    <2> QED BY <2>1, TotalsAgree
  <1>7. g[M] = g[N]
    <2>1. Standing(M, w, g, N, M)
      BY <1>2, <1>3, <1>5 DEF Standing
    <2> QED BY <2>1, TotalsStand
  <1> QED BY <1>1, <1>2, <1>6, <1>7

LEMMA TokensGrow ==
    ASSUME NEW s \in Seq(Event), NEW t \in Seq(Event), Extends(s, t), NEW r,
           NEW p \in Len(s) + 1..Len(t), Billed(t[p], r),
           \A i \in Len(s) + 1..Len(t) : Billed(t[i], r) => i = p
    PROVE  TotalTokens(t, r) = TotalTokens(s, r) + t[p].tokens
  <1> DEFINE N == Len(s)
             M == Len(t)
             v == Weights(s, r)
             w == Weights(t, r)
  <1>1. PICK f : f \in [0..N -> Nat] /\ Totals(N, v, f) /\ TotalTokens(s, r) = f[N]
    BY TokensAreATotal
  <1>2. PICK g : g \in [0..M -> Nat] /\ Totals(M, w, g) /\ TotalTokens(t, r) = g[M]
    BY TokensAreATotal
  <1>3. N \in Nat /\ M \in Nat /\ N <= M /\ p \in N + 1..M
    BY DEF Extends
  <1>4. \A n \in 1..N : v[n] = w[n]
    BY <1>3 DEF Weights, Extends
  <1>5. \A n \in N + 1..M : n # p => w[n] = 0
    BY <1>3 DEF Weights
  <1>6. w[p] = t[p].tokens
    BY <1>3 DEF Weights
  <1> HIDE DEF N, M, v, w
  <1>7. f[N] = g[N]
    <2>1. Agreeing(N, M, v, w, f, g)
      BY <1>1, <1>2, <1>3, <1>4 DEF Agreeing
    <2> QED BY <2>1, TotalsAgree
  <1>8. g[p - 1] = g[N]
    <2> DEFINE b == p - 1
    <2>1. Standing(M, w, g, N, b)
      BY <1>2, <1>3, <1>5 DEF Standing
    <2> HIDE DEF b
    <2>2. g[b] = g[N]
      BY <2>1, TotalsStand
    <2> QED BY <2>2 DEF b
  <1>9. g[M] = g[p]
    <2>1. Standing(M, w, g, p, M)
      BY <1>2, <1>3, <1>5 DEF Standing
    <2> QED BY <2>1, TotalsStand
  <1>10. g[p] = g[p - 1] + w[p]
    <2>1. p \in 0..M /\ p # 0
      BY <1>3
    <2> QED BY <1>2, <2>1 DEF Totals
  <1> QED BY <1>1, <1>2, <1>6, <1>7, <1>8, <1>9, <1>10
=============================================================================
