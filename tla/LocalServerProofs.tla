------------------------- MODULE LocalServerProofs --------------------------
(***************************************************************************)
(* Theorems about the LocalServer, for any number of requests of any kind  *)
(* and streams of any length.                                              *)
(***************************************************************************)
EXTENDS LocalServer, SequenceTheorems, TLAPS

-----------------------------------------------------------------------------
\* Lemmas about the lock's queue: it never holds a request twice, and each step
\* puts in or takes out exactly one.

LEMMA AppendDistinct ==
    ASSUME NEW q \in Seq(Request), IsInjective(q), NEW r \in Request, r \notin Range(q)
    PROVE  /\ Append(q, r) \in Seq(Request)
           /\ IsInjective(Append(q, r))
           /\ Range(Append(q, r)) = Range(q) \cup {r}
  <1> DEFINE a == Append(q, r)
  <1>1. /\ a \in Seq(Request)
        /\ DOMAIN a = 1..Len(q) + 1 /\ DOMAIN q = 1..Len(q) /\ Len(q) \in Nat
        /\ \A i \in 1..Len(q) : a[i] = q[i]
        /\ a[Len(q) + 1] = r
    OBVIOUS
  <1> HIDE DEF a
  <1>2. \A i \in 1..Len(q) : q[i] # r
    BY <1>1 DEF Range
  <1>3. IsInjective(a)
    BY <1>1, <1>2 DEF IsInjective
  <1>4. Range(a) = Range(q) \cup {r}
    BY <1>1 DEF Range
  <1> QED BY <1>1, <1>3, <1>4 DEF a

LEMMA TailDistinct ==
    ASSUME NEW q \in Seq(Request), IsInjective(q), q # <<>>
    PROVE  /\ Tail(q) \in Seq(Request)
           /\ IsInjective(Tail(q))
           /\ Range(Tail(q)) = Range(q) \ {Head(q)}
  <1> DEFINE t == Tail(q)
  <1>1. /\ t \in Seq(Request)
        /\ DOMAIN t = 1..Len(q) - 1 /\ DOMAIN q = 1..Len(q) /\ Len(q) \in Nat \ {0}
        /\ \A i \in 1..Len(q) - 1 : t[i] = q[i + 1]
        /\ Head(q) = q[1]
    OBVIOUS
  <1> HIDE DEF t
  <1>2. IsInjective(t)
    <2> SUFFICES ASSUME NEW i \in DOMAIN t, NEW j \in DOMAIN t, t[i] = t[j] PROVE i = j
      BY DEF IsInjective
    <2>1. i + 1 \in DOMAIN q /\ j + 1 \in DOMAIN q /\ q[i + 1] = q[j + 1]
      BY <1>1
    <2>2. i + 1 = j + 1
      BY <2>1 DEF IsInjective
    <2> QED BY <1>1, <2>2
  <1>3. \A i \in DOMAIN t : t[i] \in Range(q) /\ t[i] # q[1]
    BY <1>1 DEF IsInjective, Range
  <1>4. \A i \in DOMAIN q : i # 1 => q[i] \in Range(t)
    <2>1. \A i \in DOMAIN q : i # 1 => i - 1 \in DOMAIN t /\ t[i - 1] = q[i]
      BY <1>1
    <2> QED BY <2>1 DEF Range
  <1>5. Range(t) = Range(q) \ {q[1]}
    BY <1>3, <1>4 DEF Range
  <1> QED BY <1>1, <1>2, <1>5 DEF t

LEMMA RemoveAtDistinct ==
    ASSUME NEW q \in Seq(Request), IsInjective(q), NEW k \in DOMAIN q
    PROVE  /\ RemoveAt(q, k) \in Seq(Request)
           /\ IsInjective(RemoveAt(q, k))
           /\ Range(RemoveAt(q, k)) = Range(q) \ {q[k]}
  <1> DEFINE s == RemoveAt(q, k)
  <1>1. DOMAIN q = 1..Len(q) /\ Len(q) \in Nat /\ k \in 1..Len(q)
    OBVIOUS
  <1>2. /\ s \in Seq(Request)
        /\ DOMAIN s = 1..Len(q) - 1
        /\ \A i \in 1..Len(q) - 1 : s[i] = IF i < k THEN q[i] ELSE q[i + 1]
    <2> DEFINE u == SubSeq(q, 1, k - 1)
               v == SubSeq(q, k + 1, Len(q))
    <2>1. u \in Seq(Request) /\ Len(u) = k - 1 /\ \A i \in 1..k - 1 : u[i] = q[i]
      BY <1>1
    <2>2. /\ v \in Seq(Request) /\ Len(v) = Len(q) - k
          /\ \A i \in 1..Len(q) - k : v[i] = q[k + i]
      BY <1>1
    <2> HIDE DEF u, v
    <2>3. /\ u \o v \in Seq(Request)
          /\ DOMAIN (u \o v) = 1..Len(q) - 1
          /\ \A i \in 1..Len(q) - 1 : (u \o v)[i] = IF i < k THEN q[i] ELSE q[i + 1]
      <3>1. /\ u \o v \in Seq(Request)
            /\ Len(u \o v) = Len(q) - 1
            /\ \A i \in 1..Len(q) - 1 :
                  (u \o v)[i] = IF i <= k - 1 THEN u[i] ELSE v[i - (k - 1)]
        <4>1. /\ u \o v \in Seq(Request)
              /\ Len(u \o v) = Len(u) + Len(v)
              /\ \A i \in 1..Len(u) + Len(v) :
                    (u \o v)[i] = IF i <= Len(u) THEN u[i] ELSE v[i - Len(u)]
          BY <2>1, <2>2, ConcatProperties
        <4>2. Len(u) = k - 1 /\ Len(u) + Len(v) = Len(q) - 1
          BY <1>1, <2>1, <2>2
        <4> QED BY <4>1, <4>2
      <3>2. \A i \in 1..Len(q) - 1 : i > k - 1 => v[i - (k - 1)] = q[i + 1]
        <4> SUFFICES ASSUME NEW i \in 1..Len(q) - 1, i > k - 1
                     PROVE  v[i - (k - 1)] = q[i + 1]
          OBVIOUS
        <4>1. i - (k - 1) \in 1..Len(q) - k /\ k + (i - (k - 1)) = i + 1
          BY <1>1
        <4> QED BY <2>2, <4>1
      <3>3. \A i \in 1..Len(q) - 1 : i <= k - 1 => u[i] = q[i]
        BY <1>1, <2>1
      <3>4. DOMAIN (u \o v) = 1..Len(q) - 1
        BY <3>1
      <3>5. ASSUME NEW i \in 1..Len(q) - 1
            PROVE  (u \o v)[i] = IF i < k THEN q[i] ELSE q[i + 1]
        <4>1. CASE i < k
          BY <1>1, <3>1, <3>3, <4>1
        <4>2. CASE ~(i < k)
          BY <1>1, <3>1, <3>2, <4>2
        <4> QED BY <4>1, <4>2
      <3> QED BY <3>1, <3>4, <3>5
    <2> QED BY <2>3 DEF u, v, RemoveAt
  <1> HIDE DEF s
  <1>3. IsInjective(s)
    <2> SUFFICES ASSUME NEW i \in DOMAIN s, NEW j \in DOMAIN s, s[i] = s[j] PROVE i = j
      BY DEF IsInjective
    <2> DEFINE from(l) == IF l < k THEN l ELSE l + 1
    <2>1. from(i) \in DOMAIN q /\ from(j) \in DOMAIN q /\ q[from(i)] = q[from(j)]
      BY <1>1, <1>2
    <2>2. from(i) = from(j)
      BY <2>1 DEF IsInjective
    <2> QED BY <1>1, <1>2, <2>2
  <1>4. \A i \in DOMAIN s : s[i] \in Range(q) /\ s[i] # q[k]
    BY <1>1, <1>2 DEF IsInjective, Range
  <1>5. \A i \in DOMAIN q : i # k => q[i] \in Range(s)
    <2>1. \A i \in DOMAIN q : i < k => i \in DOMAIN s /\ s[i] = q[i]
      BY <1>1, <1>2
    <2>2. \A i \in DOMAIN q : i > k => i - 1 \in DOMAIN s /\ s[i - 1] = q[i]
      BY <1>1, <1>2
    <2> QED BY <1>1, <2>1, <2>2 DEF Range
  <1>6. Range(s) = Range(q) \ {q[k]}
    BY <1>4, <1>5 DEF Range
  <1> QED BY <1>2, <1>3, <1>6 DEF s

-----------------------------------------------------------------------------
\* Who waits and who holds the lock, as TypeOK has it.
Locked ==
    /\ phase \in [Request -> Phase]
    /\ holder \in Request \cup {None}
    /\ \A r \in Request : holder = r <=> phase[r] \in Midway
    /\ queue \in Seq(Request) /\ IsInjective(queue)
    /\ \A r \in Request : r \in Range(queue) <=> phase[r] = "waiting"

\* The rest of TypeOK.
Answered ==
    /\ kind \in [Request -> Kind \cup {"none"}]
    /\ phase \in [Request -> Phase]
    /\ steps \in [Request -> 0..MaxPieces + 2]
    /\ reply \in [Request -> Reply]
    /\ \A r \in Request : reply[r] # "none" <=> phase[r] = "ended"

LEMMA AskingLocks ==
    ASSUME Locked, NEW r \in Request, phase[r] \in {"new", "opened"}, Asks(r),
           holder' = holder
    PROVE  Locked'
  <1>1. r \notin Range(queue)
    BY DEF Locked
  <1>2. /\ queue' \in Seq(Request) /\ IsInjective(queue')
        /\ Range(queue') = Range(queue) \cup {r}
    BY <1>1, AppendDistinct DEF Locked, Asks
  <1> QED BY <1>2 DEF Locked, Asks, Goto, Phase, Midway

LEMMA TurnLocks ==
    ASSUME Locked, NEW r \in Request, HasTurn(r), queue' = Tail(queue),
           \/ Goto(r, "ended") /\ holder' = holder
           \/ Goto(r, "streaming") /\ holder' = r
    PROVE  Locked'
  <1>1. queue # <<>>
    BY DEF Locked, HasTurn, Range
  <1>2. /\ queue' \in Seq(Request) /\ IsInjective(queue')
        /\ Range(queue') = Range(queue) \ {r}
    BY <1>1, TailDistinct DEF Locked, HasTurn
  <1>3. \A q \in Request : phase[q] \notin Midway
    BY LocalServerAssumption DEF Locked, HasTurn
  <1> QED BY <1>2, <1>3, LocalServerAssumption DEF Locked, HasTurn, Goto, Phase, Midway

LEMMA GoingLocks ==
    ASSUME Locked, NEW r \in Request, GoesEarly(r)
    PROVE  Locked'
  <1>1. CASE phase[r] = "opened" /\ UNCHANGED queue
    BY <1>1 DEF Locked, GoesEarly, Ends, Goto, Phase, Midway
  <1>2. CASE \E i \in DOMAIN queue : queue[i] = r /\ queue' = RemoveAt(queue, i)
    <2>1. PICK i \in DOMAIN queue : queue[i] = r /\ queue' = RemoveAt(queue, i)
      BY <1>2
    <2>2. /\ queue' \in Seq(Request) /\ IsInjective(queue')
          /\ Range(queue') = Range(queue) \ {r}
      BY <2>1, RemoveAtDistinct DEF Locked
    <2>3. phase[r] = "waiting"
      BY <2>1 DEF Locked, Range
    <2> QED BY <2>2, <2>3 DEF Locked, GoesEarly, Ends, Goto, Phase, Midway
  <1> QED BY <1>1, <1>2 DEF GoesEarly

LEMMA LeavingLocks ==
    ASSUME Locked, NEW r \in Request, phase[r] \in Midway, NEW how, Leaves(r, how)
    PROVE  Locked'
  BY LocalServerAssumption DEF Locked, Leaves, Ends, Goto, Phase, Midway

\* Every step keeps the lock and its queue as they should be.
LEMMA LockedStep ==
    ASSUME Locked, [Next]_vars
    PROVE  Locked'
  <1>1. ASSUME NEW r \in Request, NEW n, NEW how, Serves(r, n, how) PROVE Locked'
    BY <1>1, TurnLocks DEF Serves, Ends
  <1>2. ASSUME NEW r \in Request, LoopNext(r) PROVE Locked'
    <2>1. CASE BeginsDraining(r)
      BY <2>1, AskingLocks DEF BeginsDraining
    <2>2. CASE StartsStream(r)
      BY <2>2, TurnLocks DEF StartsStream
    <2>3. CASE StreamsPiece(r)
      BY <2>3 DEF StreamsPiece, Locked
    <2>4. CASE StreamEnds(r) \/ StreamFails(r) \/ Closes(r)
      BY <2>4, LeavingLocks DEF StreamEnds, StreamFails, Closes, Midway
    <2>5. CASE Breaks(r)
      BY <2>5, <1>1 DEF Breaks
    <2>6. CASE AnswersFreely(r) \/ AnswersToSchema(r) \/ ParsesCall(r) \/ AnswersProse(r)
      BY <2>6, <1>1 DEF AnswersFreely, AnswersToSchema, ParsesCall, AnswersProse
    <2>7. CASE Constrains(r)
      BY <2>7, <1>1 DEF Constrains
    <2> QED BY <1>2, <2>1, <2>2, <2>3, <2>4, <2>5, <2>6, <2>7 DEF LoopNext
  <1>3. ASSUME NEW r \in Request, ClientNext(r) PROVE Locked'
    <2>1. CASE Rejected(r)
      BY <2>1 DEF Rejected, Ends, Goto, Locked, Phase, Midway
    <2>2. CASE Opens(r)
      BY <2>2 DEF Opens, Goto, Locked, Phase, Midway
    <2>3. CASE Arrives(r)
      BY <2>3, AskingLocks DEF Arrives
    <2>4. CASE GoesEarly(r)
      BY <2>4, GoingLocks
    <2>5. CASE GoesMidway(r)
      BY <2>5 DEF GoesMidway, Goto, Locked, Phase, Midway
    <2> QED BY <1>3, <2>1, <2>2, <2>3, <2>4, <2>5 DEF ClientNext
  <1>4. CASE UNCHANGED vars
    BY <1>4 DEF Locked, vars
  <1> QED BY <1>2, <1>3, <1>4 DEF Next

\* Every step keeps a reply for exactly the requests that ended.
LEMMA AnsweredStep ==
    ASSUME Answered, [Next]_vars
    PROVE  Answered'
  <1>1. 0..2 \subseteq 0..MaxPieces + 2
    BY LocalServerAssumption
  <1>2. ASSUME NEW r \in Request, NEW n \in 0..2, NEW how \in Reply \ {"none"},
               Serves(r, n, how)
        PROVE  Answered'
    BY <1>1, <1>2 DEF Serves, Ends, Goto, Answered, Phase
  <1>3. ASSUME NEW r \in Request, LoopNext(r) PROVE Answered'
    <2>1. CASE BeginsDraining(r)
      BY <2>1 DEF BeginsDraining, Asks, Goto, Answered, Phase
    <2>2. CASE StartsStream(r)
      BY <2>2 DEF StartsStream, HasTurn, Goto, Answered, Phase
    <2>3. CASE StreamsPiece(r)
      <3>1. steps[r] + 1 \in 0..MaxPieces + 2
        BY <2>3, LocalServerAssumption DEF StreamsPiece, Answered
      <3> QED BY <2>3, <3>1 DEF StreamsPiece, Answered
    <2>4. CASE StreamEnds(r) \/ StreamFails(r) \/ Closes(r)
      BY <2>4 DEF StreamEnds, StreamFails, Closes, Leaves, Ends, Goto, Answered, Phase, Reply
    <2>5. CASE Breaks(r)
      BY <2>5, <1>2 DEF Breaks, Reply
    <2>6. CASE AnswersFreely(r) \/ AnswersToSchema(r) \/ ParsesCall(r) \/ AnswersProse(r)
      BY <2>6, <1>2 DEF AnswersFreely, AnswersToSchema, ParsesCall, AnswersProse, Reply
    <2>7. CASE Constrains(r)
      BY <2>7, <1>2 DEF Constrains, Reply
    <2> QED BY <1>3, <2>1, <2>2, <2>3, <2>4, <2>5, <2>6, <2>7 DEF LoopNext
  <1>4. ASSUME NEW r \in Request, ClientNext(r) PROVE Answered'
    <2>1. CASE Rejected(r)
      BY <2>1 DEF Rejected, Ends, Goto, Answered, Kind, Phase, Reply
    <2>2. CASE Opens(r)
      BY <2>2 DEF Opens, Goto, Answered, Kind, Phase
    <2>3. CASE Arrives(r)
      BY <2>3 DEF Arrives, Asks, Goto, Answered, Kind, Phase
    <2>4. CASE GoesEarly(r)
      BY <2>4 DEF GoesEarly, Ends, Goto, Answered, Phase, Reply
    <2>5. CASE GoesMidway(r)
      BY <2>5 DEF GoesMidway, Goto, Answered, Phase
    <2> QED BY <1>4, <2>1, <2>2, <2>3, <2>4, <2>5 DEF ClientNext
  <1>5. CASE UNCHANGED vars
    BY <1>5 DEF Answered, vars
  <1> QED BY <1>3, <1>4, <1>5 DEF Next

-----------------------------------------------------------------------------
\* Type correctness: the lock is held by the stream in mid-generation and by no
\* other, its queue is the requests that wait for it, each once, and exactly the
\* requests that ended have a reply.
THEOREM TypeCorrect == Spec => []TypeOK
  <1>1. Init => Locked /\ Answered
    <2>1. <<>> \in Seq(Request) /\ IsInjective(<<>>) /\ Range(<<>>) = {}
      BY DEF IsInjective, Range
    <2> QED BY <2>1, LocalServerAssumption
            DEF Init, Locked, Answered, Phase, Midway, Reply
  <1>2. Locked /\ Answered /\ [Next]_vars => (Locked /\ Answered)'
    BY LockedStep, AnsweredStep
  <1>3. Locked /\ Answered => TypeOK
    BY DEF Locked, Answered, TypeOK
  <1> QED BY <1>1, <1>2, <1>3, PTL DEF Spec

\* "MLX generation is single-stream": nothing is generated for a request while
\* another is in mid-generation, a stream whose client has gone included.
THEOREM NoInterleaving == Spec => GenerationsDoNotInterleave
  <1> DEFINE Alone == \A r \in Request : steps'[r] # steps[r]
                          => \A q \in Request \ {r} : phase[q] \notin Midway
  <1>1. ASSUME TypeOK, [Next]_vars PROVE [Alone]_vars
    <2> SUFFICES ASSUME Next PROVE Alone
      BY <1>1
    <2>1. ASSUME NEW r \in Request, NEW n, NEW how, Serves(r, n, how) PROVE Alone
      <3>1. \A q \in Request : phase[q] \notin Midway
        BY <1>1, <2>1, LocalServerAssumption DEF TypeOK, Serves, HasTurn
      <3> QED BY <3>1
    <2>2. ASSUME NEW r \in Request, LoopNext(r) PROVE Alone
      <3>1. CASE BeginsDraining(r) \/ StartsStream(r)
        BY <3>1 DEF BeginsDraining, StartsStream
      <3>2. CASE StreamsPiece(r)
        <4>1. \A q \in Request \ {r} : steps'[q] = steps[q]
          BY <1>1, <3>2 DEF StreamsPiece, TypeOK
        <4>2. holder = r
          BY <1>1, <3>2 DEF StreamsPiece, TypeOK, Midway
        <4>3. \A q \in Request \ {r} : phase[q] \notin Midway
          BY <1>1, <4>2 DEF TypeOK
        <4> QED BY <4>1, <4>3
      <3>3. CASE StreamEnds(r) \/ StreamFails(r) \/ Closes(r)
        BY <3>3 DEF StreamEnds, StreamFails, Closes, Leaves
      <3>4. CASE Breaks(r)
        BY <3>4, <2>1 DEF Breaks
      <3>5. CASE AnswersFreely(r) \/ AnswersToSchema(r) \/ ParsesCall(r) \/ AnswersProse(r)
        BY <3>5, <2>1 DEF AnswersFreely, AnswersToSchema, ParsesCall, AnswersProse
      <3>6. CASE Constrains(r)
        BY <3>6, <2>1 DEF Constrains
      <3> QED BY <2>2, <3>1, <3>2, <3>3, <3>4, <3>5, <3>6 DEF LoopNext
    <2>3. ASSUME NEW r \in Request, ClientNext(r) PROVE Alone
      BY <2>3 DEF ClientNext, Rejected, Opens, Arrives, GoesEarly, GoesMidway
    <2> QED BY <2>2, <2>3 DEF Next
  <1>2. TypeOK /\ [Next]_vars => [Alone]_vars
    BY <1>1
  <1> QED BY <1>2, TypeCorrect, PTL DEF Spec, GenerationsDoNotInterleave
=============================================================================
