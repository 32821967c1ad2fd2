---------------------------- MODULE MemoryProofs ----------------------------
(***************************************************************************)
(* Theorems about the MemoryWriter, for any number of writers, any drafts, *)
(* any notion of similarity, any thresholds and lifetimes, and any number  *)
(* of crashes and failures of the embedder.                                *)
(***************************************************************************)
EXTENDS MemoryWriter, TLAPS

-----------------------------------------------------------------------------
\* The invariant, in parts.  Rows and authors; the writers' turns; what is in
\* hand; recalls; the faults.

RowsOK ==
    /\ rows \in Seq(Row)
    /\ \A i \in DOMAIN rows : WellFormedRow(rows[i])
    /\ authors \in Seq(Writer) /\ Len(authors) = Len(rows)

TurnsOK ==
    /\ now \in 0..Horizon
    /\ said \in [Writer -> Seq(0..Horizon)]
    /\ watermark \in [Writer -> Nat]
    /\ \A w \in Writer : watermark[w] <= Len(said[w]) /\ Len(said[w]) <= MaxTurns[w]
    /\ queue \in [Writer -> Seq(SUBSET Nat)]
    /\ heard \in [Writer -> SUBSET Nat]

HandOK ==
    /\ drafts \in [Writer -> Seq(MemoryContent)]
    /\ phase \in [Writer -> {"idle", "search", "get", "insert"}]
    /\ \A w \in Writer : phase[w] = "idle" <=> drafts[w] = <<>>
    /\ verdict \in [Writer -> MemoryOperation]

FaultsOK ==
    /\ blinded \subseteq Writer
    /\ faults \in 0..MaxFaults

\* A row replaces or retires one written before it.
Backwards == \A j \in DOMAIN rows : rows[j].supersedes < j

\* A verdict on its way to the table adds, or names a memory that was in force
\* and that the draft may replace.
Judged(w) ==
    LET v == verdict[w]
    IN  /\ v.verb # "noop"
        /\ v.verb = "add" => v.target_id = 0
        /\ v.verb # "add" =>
             /\ v.target_id \in DOMAIN rows
             /\ rows[v.target_id].op # "invalidate"
             /\ Head(drafts[w]).confidence = Inferred
                  => rows[v.target_id].confidence = Inferred

Decided == \A w \in Writer : phase[w] \in {"get", "insert"} => Judged(w)

\* What a writer has queued or heard lies behind its watermark.
BehindMark ==
    \A w \in Writer :
        /\ heard[w] \subseteq 1..watermark[w]
        /\ \A k \in DOMAIN queue[w] : queue[w][k] \subseteq 1..watermark[w]

\* What a recall holds was not replaced when it began.
RecallsFresh ==
    /\ recall \in [Writer -> Recall]
    /\ \A w \in Writer :
         /\ recall[w].since <= Len(rows)
         /\ recall[w].ids \subseteq DOMAIN rows
         /\ \A i \in recall[w].ids : \A j \in DOMAIN rows :
              rows[j].supersedes = i => j > recall[w].since

\* Only a writer the embedder failed leaves a memory without its vector.
BareRowsAreBlind ==
    \A i \in DOMAIN rows :
        rows[i].op # "invalidate" /\ ~rows[i].vector => authors[i] \in blinded

\* No writer is about to write what it has in force already.
NothingTwice ==
    \A w \in Writer \ blinded : phase[w] \in {"get", "insert"} =>
        \A i \in Active(rows, now) :
            authors[i] = w => rows[i].content # Head(drafts[w]).content

-----------------------------------------------------------------------------
\* Lemmas about the operators

\* A memory that expires does so after it was written.
LEMMA ExpiresAtTyped ==
    ASSUME NEW draft \in MemoryContent, NEW n \in Nat
    PROVE  ExpiresAt(draft, n) \in Nat
  <1> DEFINE days == {d \in {GuessTTL, CurrentTTL} :
                         \/ d = GuessTTL /\ draft.confidence <= Inferred
                         \/ d = CurrentTTL /\ draft.memory_type = "current"}
  <1>1. days \subseteq Nat /\ days \subseteq {GuessTTL, CurrentTTL}
    BY MemoryStoreAssumption
  <1> HIDE DEF days
  <1>2. days # {} => \E d \in days : \A m \in days : d <= m
    <2>1. CASE GuessTTL \in days /\ CurrentTTL \in days
      <3>1. days = {GuessTTL, CurrentTTL} /\ GuessTTL \in Nat /\ CurrentTTL \in Nat
        BY <1>1, <2>1
      <3>2. CASE GuessTTL <= CurrentTTL
        BY <3>1, <3>2
      <3>3. CASE CurrentTTL <= GuessTTL
        BY <3>1, <3>3
      <3> QED BY <3>1, <3>2, <3>3
    <2>2. CASE GuessTTL \notin days \/ CurrentTTL \notin days
      <3>1. \A d, m \in days : d = m /\ d \in Nat
        BY <1>1, <2>2
      <3> QED BY <3>1
    <2> QED BY <2>1, <2>2
  <1>3. days # {} => (CHOOSE d \in days : \A m \in days : d <= m) \in Nat
    BY <1>1, <1>2
  <1> QED BY <1>3 DEF ExpiresAt, days

LEMMA NeighboursActive ==
    ASSUME NEW t, NEW n, NEW c
    PROVE  Neighbours(t, n, c) \subseteq Active(t, n)
  BY DEF Neighbours

LEMMA StandingActive ==
    ASSUME NEW t, NEW n
    PROVE  Standing(t, n) \subseteq Active(t, n)
  BY DEF Standing

\* What _decide makes of any answer of the model.
LEMMA DecideSound ==
    ASSUME RowsOK, NEW draft \in MemoryContent,
           NEW candidates, candidates \subseteq DOMAIN rows,
           NEW v \in Decide(draft, candidates)
    PROVE  /\ v \in MemoryOperation
           /\ v.verb = "add" => v.target_id = 0
           /\ v.verb \in {"update", "invalidate"} =>
                /\ v.target_id \in candidates
                /\ draft.confidence = Inferred => rows[v.target_id].confidence = Inferred
           /\ v.verb # "noop" =>
                \A i \in candidates : rows[i].content # draft.content
  <1>1. candidates \subseteq Nat
    BY DEF RowsOK
  <1>2. Add \in MemoryOperation /\ Noop \in MemoryOperation
    BY DEF Add, Noop, MemoryOperation
  <1>3. CASE candidates = {}
    BY <1>2, <1>3 DEF Decide, Add
  <1>4. CASE candidates # {} /\ \E i \in candidates : rows[i].content = draft.content
    BY <1>2, <1>4 DEF Decide, Noop
  <1>5. CASE candidates # {} /\ ~\E i \in candidates : rows[i].content = draft.content
    <2>1. PICK asked \in {Add, Noop}
                         \cup [verb : {"update", "invalidate"}, target_id : candidates] :
                 v = Enforce(draft, candidates, asked)
      BY <1>5 DEF Decide
    <2>2. CASE asked \in {Add, Noop}
      BY <1>2, <1>5, <2>1, <2>2 DEF Enforce, Add, Noop
    <2>3. CASE asked \in [verb : {"update", "invalidate"}, target_id : candidates]
      <3>1. /\ asked \in MemoryOperation
            /\ asked.target_id \in candidates
            /\ asked.verb \in {"update", "invalidate"}
        BY <1>1, <2>3 DEF MemoryOperation
      <3>2. rows[asked.target_id].confidence \in Confidence
        <4>1. rows[asked.target_id] \in Row
          BY <3>1 DEF RowsOK
        <4> QED BY <4>1 DEF Row
      <3>3. draft.confidence \in Confidence
        BY DEF MemoryContent
      <3>4. CASE /\ draft.confidence <= Inferred
                 /\ rows[asked.target_id].confidence > draft.confidence
        BY <1>2, <2>1, <3>1, <3>4 DEF Enforce, Noop
      <3>5. CASE ~(/\ draft.confidence <= Inferred
                   /\ rows[asked.target_id].confidence > draft.confidence)
        <4>1. v = asked
          BY <2>1, <3>1, <3>5 DEF Enforce
        <4>2. draft.confidence = Inferred => rows[asked.target_id].confidence = Inferred
          BY <3>2, <3>3, <3>5 DEF Inferred, Confidence
        <4> QED BY <1>5, <3>1, <4>1, <4>2
      <3> QED BY <3>4, <3>5
    <2> QED BY <2>1, <2>2, <2>3
  <1> QED BY <1>3, <1>4, <1>5

\* The row a verdict writes.
LEMMA NewRowTyped ==
    ASSUME RowsOK, TurnsOK, HandOK, Decided, NEW w \in Writer, phase[w] = "insert",
           NEW vector \in BOOLEAN
    PROVE  LET row == NewRow(w, vector)
           IN  /\ row \in Row
               /\ WellFormedRow(row)
               /\ row.supersedes = verdict[w].target_id
               /\ row.op = verdict[w].verb
               /\ row.op # "invalidate" => /\ row.content = Head(drafts[w]).content
                                           /\ row.vector = vector
  <1> DEFINE draft == Head(drafts[w])
             v     == verdict[w]
             row   == NewRow(w, vector)
  <1>1. draft \in MemoryContent
    BY DEF HandOK
  <1>2. now \in Nat
    BY MemoryStoreAssumption DEF TurnsOK
  <1>3. ExpiresAt(draft, now) \in Nat
    BY <1>1, <1>2, ExpiresAtTyped
  <1>4. v \in MemoryOperation /\ Judged(w)
    BY DEF HandOK, Decided
  <1>5. draft.content # Nothing
    BY <1>1, MemoryStoreAssumption DEF MemoryContent
  <1>6. row \in Row /\ WellFormedRow(row) /\ row.supersedes = v.target_id /\ row.op = v.verb
        /\ (row.op # "invalidate" => row.content = draft.content /\ row.vector = vector)
    <2> HIDE DEF draft
    <2>1. CASE v.verb = "add"
      <3>1. row = [op |-> "add", memory_type |-> draft.memory_type, content |-> draft.content,
                   confidence |-> draft.confidence, supersedes |-> 0,
                   expires |-> ExpiresAt(draft, now), vector |-> vector]
        BY <2>1 DEF NewRow, AddRow, draft
      <3>2. v.target_id = 0
        BY <1>4, <2>1 DEF Judged
      <3> HIDE DEF row
      <3>3. row \in Row
        BY <1>1, <1>3, <3>1 DEF Row, MemoryContent, Operation
      <3> QED BY <1>5, <2>1, <3>1, <3>2, <3>3 DEF WellFormedRow
    <2>2. CASE v.verb = "update"
      <3>1. row = [op |-> "update", memory_type |-> draft.memory_type, content |-> draft.content,
                   confidence |-> draft.confidence, supersedes |-> v.target_id,
                   expires |-> ExpiresAt(draft, now), vector |-> vector]
        BY <2>2 DEF NewRow, UpdateRow, AddRow, draft
      <3>2. v.target_id \in Nat \ {0}
        BY <1>4, <2>2 DEF Judged, RowsOK
      <3> HIDE DEF row
      <3>3. row \in Row
        BY <1>1, <1>3, <3>1, <3>2 DEF Row, MemoryContent, Operation
      <3> QED BY <1>5, <2>2, <3>1, <3>2, <3>3 DEF WellFormedRow
    <2>3. CASE v.verb = "invalidate"
      <3>1. v.target_id \in Nat \ {0} /\ rows[v.target_id] \in Row
        BY <1>4, <2>3 DEF Judged, RowsOK
      <3>2. row = [rows[v.target_id] EXCEPT !.op = "invalidate", !.content = Nothing,
                       !.supersedes = v.target_id, !.expires = 0, !.vector = FALSE]
        BY <2>3 DEF NewRow, Tombstone
      <3> HIDE DEF row
      <3>3. row \in Row
        BY <3>1, <3>2 DEF Row, Operation
      <3>4. row.op = "invalidate" /\ row.content = Nothing /\ row.supersedes = v.target_id
        BY <3>1, <3>2 DEF Row
      <3> QED BY <2>3, <3>1, <3>3, <3>4 DEF WellFormedRow
    <2> QED BY <1>4, <2>1, <2>2, <2>3 DEF MemoryOperation, Judged
  <1> QED BY <1>6

-----------------------------------------------------------------------------
\* Rows: a step leaves the table alone or a writer appends to it.

LEMMA OnlyWritersWrite ==
    ASSUME [Next]_vars
    PROVE  \/ UNCHANGED <<rows, authors>>
           \/ \E w \in Writer, vector \in BOOLEAN :
                /\ Writes(w, vector)
                /\ ~vector => w \in blinded'
  <1>1. CASE UNCHANGED vars
    BY <1>1 DEF vars
  <1>2. CASE Advance
    BY <1>2 DEF Advance
  <1>3. ASSUME NEW w \in Writer, RunStops(w) \/ RunEnds(w) \/ Flushes(w)
        PROVE  UNCHANGED <<rows, authors>>
    BY <1>3 DEF RunStops, RunEnds, Flushes
  <1>4. ASSUME NEW w \in Writer, Extract(w) \/ ExtractFails(w) \/ Search(w) \/ SearchesBlind(w)
                                 \/ Get(w) \/ RecordFails(w) \/ Crash(w)
        PROVE  UNCHANGED <<rows, authors>>
    BY <1>4 DEF Extract, ExtractFails, Search, SearchesBlind, Get, RecordFails, Crash
  <1>5. ASSUME NEW w \in Writer, RecallNear(w) \/ RecallStanding(w) \/ RecallUsed(w)
        PROVE  UNCHANGED <<rows, authors>>
    BY <1>5 DEF RecallNear, RecallStanding, RecallUsed
  <1>6. ASSUME NEW w \in Writer, Insert(w)
        PROVE  Writes(w, TRUE)
    BY <1>6 DEF Insert
  <1>7. ASSUME NEW w \in Writer, InsertsBare(w)
        PROVE  Writes(w, FALSE) /\ w \in blinded'
    BY <1>7 DEF InsertsBare
  <1> QED BY <1>1, <1>2, <1>3, <1>4, <1>5, <1>6, <1>7 DEF Next

\* What an insert does to the table.
LEMMA WritesAppend ==
    ASSUME RowsOK, TurnsOK, HandOK, Decided,
           NEW w \in Writer, NEW vector \in BOOLEAN, Writes(w, vector)
    PROVE  /\ rows' \in Seq(Row) /\ authors' \in Seq(Writer)
           /\ Len(rows') = Len(rows) + 1 /\ Len(authors') = Len(rows) + 1
           /\ DOMAIN rows = 1..Len(rows) /\ DOMAIN rows' = 1..Len(rows) + 1
           /\ \A i \in DOMAIN rows : rows'[i] = rows[i] /\ authors'[i] = authors[i]
           /\ rows'[Len(rows) + 1] = NewRow(w, vector)
           /\ authors'[Len(rows) + 1] = w
  <1>1. NewRow(w, vector) \in Row
    BY NewRowTyped DEF Writes
  <1>2. rows' = Append(rows, NewRow(w, vector)) /\ authors' = Append(authors, w)
    BY DEF Writes
  <1> QED BY <1>1, <1>2 DEF RowsOK

\* The table only grows.
LEMMA RowsKept ==
    ASSUME RowsOK, TurnsOK, HandOK, Decided, [Next]_vars
    PROVE  /\ \A i \in DOMAIN rows : i \in DOMAIN rows' /\ rows'[i] = rows[i]
           /\ Len(rows) \in Nat /\ Len(rows') \in Nat /\ Len(rows) <= Len(rows')
           /\ DOMAIN rows = 1..Len(rows)
  <1>1. Len(rows) \in Nat /\ DOMAIN rows = 1..Len(rows)
    BY DEF RowsOK
  <1> QED BY <1>1, OnlyWritersWrite, WritesAppend

LEMMA RowsStep ==
    ASSUME RowsOK, TurnsOK, HandOK, Decided, Backwards, [Next]_vars
    PROVE  RowsOK' /\ Backwards'
  <1>1. CASE UNCHANGED <<rows, authors>>
    BY <1>1 DEF RowsOK, Backwards
  <1>2. ASSUME NEW w \in Writer, NEW vector \in BOOLEAN, Writes(w, vector)
        PROVE  RowsOK' /\ Backwards'
    <2> DEFINE row == NewRow(w, vector)
    <2>1. WellFormedRow(row) /\ row.supersedes = verdict[w].target_id
      BY <1>2, NewRowTyped DEF Writes
    <2>2. verdict[w].target_id < Len(rows) + 1
      <3>1. Judged(w) /\ phase[w] = "insert"
        BY <1>2 DEF Writes, Decided
      <3>2. verdict[w].target_id = 0 \/ verdict[w].target_id \in DOMAIN rows
        BY <3>1 DEF Judged
      <3>3. Len(rows) \in Nat /\ DOMAIN rows = 1..Len(rows)
        BY DEF RowsOK
      <3> QED BY <3>2, <3>3
    <2> HIDE DEF row
    <2>3. /\ rows' \in Seq(Row) /\ authors' \in Seq(Writer)
          /\ Len(rows') = Len(rows) + 1 /\ Len(authors') = Len(rows) + 1
          /\ DOMAIN rows = 1..Len(rows) /\ DOMAIN rows' = 1..Len(rows) + 1
          /\ \A i \in DOMAIN rows : rows'[i] = rows[i]
          /\ rows'[Len(rows) + 1] = row
      BY <1>2, WritesAppend DEF row
    <2>4. \A i \in DOMAIN rows' : WellFormedRow(rows'[i])
      BY <2>1, <2>3 DEF RowsOK
    <2>5. \A j \in DOMAIN rows' : rows'[j].supersedes < j
      BY <2>1, <2>2, <2>3 DEF Backwards, RowsOK
    <2> QED BY <2>3, <2>4, <2>5 DEF RowsOK, Backwards
  <1> QED BY <1>1, <1>2, OnlyWritersWrite

-----------------------------------------------------------------------------
\* Turns: what is handed to the extractor lies behind the watermark, and what is
\* handed next lies before it.

LEMMA FlushMark ==
    ASSUME NEW turns \in Seq(Nat), NEW mark \in Nat, Unrecorded(turns, mark) # {}
    PROVE  /\ Max(Unrecorded(turns, mark)) = Len(turns)
           /\ mark < Len(turns)
  <1> DEFINE new == Unrecorded(turns, mark)
  <1>1. new = {i \in 1..Len(turns) : i > mark} /\ Len(turns) \in Nat
    BY DEF Unrecorded
  <1> HIDE DEF new
  <1>2. Len(turns) \in new /\ \A i \in new : Len(turns) >= i
    BY <1>1 DEF new
  <1>3. \A x \in new : (\A y \in new : x >= y) => x = Len(turns)
    BY <1>1, <1>2
  <1>4. Max(new) = Len(turns)
    BY <1>2, <1>3 DEF Max
  <1> QED BY <1>1, <1>2, <1>4 DEF new

LEMMA TranscriptWithin ==
    ASSUME NEW turns
    PROVE  Transcript(turns) \subseteq turns
  BY DEF Transcript

LEMMA FlushQueues ==
    ASSUME TurnsOK, NEW w \in Writer, Flushes(w)
    PROVE  \E job \in SUBSET Nat :
             /\ said' = [said EXCEPT ![w] = Append(@, now)]
             /\ watermark' = [watermark EXCEPT ![w] = Len(said[w]) + 1]
             /\ queue' = [queue EXCEPT ![w] = Append(@, job)]
             /\ \A i \in job : i > watermark[w] /\ i <= Len(said[w]) + 1
  <1> DEFINE turns == Append(said[w], now)
             new   == Unrecorded(turns, watermark[w])
  <1>1. /\ turns \in Seq(Nat) /\ Len(turns) = Len(said[w]) + 1 /\ watermark[w] \in Nat
        /\ DOMAIN turns = 1..Len(said[w]) + 1
    BY MemoryStoreAssumption DEF TurnsOK
  <1>2. /\ new # {}
        /\ said' = [said EXCEPT ![w] = turns]
        /\ watermark' = [watermark EXCEPT ![w] = Max(new)]
        /\ queue' = [queue EXCEPT ![w] = Append(@, Transcript(new))]
    BY DEF Flushes, FlushDue
  <1>3. Max(new) = Len(said[w]) + 1
    BY <1>1, <1>2, FlushMark
  <1>4. \A i \in new : i \in Nat /\ i > watermark[w] /\ i <= Len(said[w]) + 1
    BY <1>1 DEF Unrecorded
  <1>5. Transcript(new) \subseteq new
    BY TranscriptWithin
  <1>6. Transcript(new) \in SUBSET Nat
    BY <1>4, <1>5
  <1> HIDE DEF new
  <1> QED BY <1>2, <1>3, <1>4, <1>5, <1>6

\* Only these touch the turns or the extractor's queue.
LEMMA OnlyTurnsTurn ==
    ASSUME [Next]_vars
    PROVE  \/ UNCHANGED <<now, said, watermark, queue, heard>>
           \/ Advance
           \/ \E w \in Writer : \/ RunStops(w) \/ RunEnds(w) \/ Flushes(w)
                                \/ Extract(w) \/ ExtractFails(w) \/ Crash(w)
  <1>1. CASE UNCHANGED vars
    BY <1>1 DEF vars
  <1>2. ASSUME NEW w \in Writer, Search(w) \/ SearchesBlind(w) \/ Get(w) \/ RecordFails(w)
        PROVE  UNCHANGED <<now, said, watermark, queue, heard>>
    BY <1>2 DEF Search, SearchesBlind, Get, RecordFails
  <1>3. ASSUME NEW w \in Writer, Insert(w) \/ InsertsBare(w)
        PROVE  UNCHANGED <<now, said, watermark, queue, heard>>
    BY <1>3 DEF Insert, InsertsBare, Writes
  <1>4. ASSUME NEW w \in Writer, RecallNear(w) \/ RecallStanding(w) \/ RecallUsed(w)
        PROVE  UNCHANGED <<now, said, watermark, queue, heard>>
    BY <1>4 DEF RecallNear, RecallStanding, RecallUsed, pool
  <1> QED BY <1>1, <1>2, <1>3, <1>4 DEF Next

LEMMA TurnsStep ==
    ASSUME TurnsOK, BehindMark, [Next]_vars
    PROVE  TurnsOK' /\ BehindMark'
  <1>1. CASE UNCHANGED <<now, said, watermark, queue, heard>>
    BY <1>1 DEF TurnsOK, BehindMark
  <1>2. CASE Advance
    BY <1>2, MemoryStoreAssumption DEF Advance, TurnsOK, BehindMark, pool
  <1>3. ASSUME NEW w \in Writer,
               RunStops(w) \/ RunEnds(w)
        PROVE  TurnsOK' /\ BehindMark'
    <2>1. /\ said' = [said EXCEPT ![w] = Append(@, now)]
          /\ Len(said[w]) < MaxTurns[w]
          /\ UNCHANGED <<now, watermark, queue, heard>>
      BY <1>3 DEF RunStops, RunEnds, pool
    <2>2. said' \in [Writer -> Seq(0..Horizon)]
      BY <2>1 DEF TurnsOK
    <2>3. \A u \in Writer : watermark[u] <= Len(said'[u]) /\ Len(said'[u]) <= MaxTurns[u]
      <3>1. Len(said'[w]) = Len(said[w]) + 1 /\ Len(said[w]) \in Nat
        BY <2>1 DEF TurnsOK
      <3>2. \A u \in Writer \ {w} : said'[u] = said[u]
        BY <2>1 DEF TurnsOK
      <3>3. watermark[w] \in Nat /\ watermark[w] <= Len(said[w]) /\ MaxTurns[w] \in Nat
        BY MemoryWriterAssumption DEF TurnsOK
      <3>4. watermark[w] <= Len(said'[w]) /\ Len(said'[w]) <= MaxTurns[w]
        BY <2>1, <3>1, <3>3
      <3> QED BY <3>2, <3>4 DEF TurnsOK
    <2> QED BY <2>1, <2>2, <2>3 DEF TurnsOK, BehindMark
  <1>4. ASSUME NEW w \in Writer, Flushes(w)
        PROVE  TurnsOK' /\ BehindMark'
    <2>1. PICK job \in SUBSET Nat :
             /\ said' = [said EXCEPT ![w] = Append(@, now)]
             /\ watermark' = [watermark EXCEPT ![w] = Len(said[w]) + 1]
             /\ queue' = [queue EXCEPT ![w] = Append(@, job)]
             /\ \A i \in job : i > watermark[w] /\ i <= Len(said[w]) + 1
      BY <1>4, FlushQueues
    <2>2. Len(said[w]) < MaxTurns[w] /\ UNCHANGED <<now, heard>>
      BY <1>4 DEF Flushes
    <2>3. Len(said[w]) \in Nat /\ Len(said'[w]) = Len(said[w]) + 1
      BY <2>1 DEF TurnsOK
    <2>4. /\ said' \in [Writer -> Seq(0..Horizon)]
          /\ watermark' \in [Writer -> Nat]
          /\ queue' \in [Writer -> Seq(SUBSET Nat)]
      BY <2>1, <2>3 DEF TurnsOK
    <2>5. \A u \in Writer \ {w} : /\ said'[u] = said[u] /\ queue'[u] = queue[u]
                                  /\ watermark'[u] = watermark[u]
      BY <2>1 DEF TurnsOK
    <2>6. watermark'[w] = Len(said[w]) + 1 /\ watermark[w] < watermark'[w]
      BY <2>1, <2>3 DEF TurnsOK
    <2>7. TurnsOK'
      <3>1. watermark'[w] <= Len(said'[w]) /\ Len(said'[w]) <= MaxTurns[w]
        BY <2>2, <2>3, <2>6, MemoryWriterAssumption
      <3>2. \A u \in Writer : watermark'[u] <= Len(said'[u]) /\ Len(said'[u]) <= MaxTurns[u]
        BY <2>5, <3>1 DEF TurnsOK
      <3> QED BY <2>2, <2>4, <3>2 DEF TurnsOK
    <2>8. 1..watermark[w] \subseteq 1..watermark'[w]
      BY <2>3, <2>6 DEF TurnsOK
    <2>9. \A k \in DOMAIN queue'[w] : queue'[w][k] \subseteq 1..watermark'[w]
      <3>1. /\ queue[w] \in Seq(SUBSET Nat)
            /\ queue'[w] = Append(queue[w], job)
        BY <2>1 DEF TurnsOK
      <3>2. job \subseteq 1..watermark'[w]
        BY <2>1, <2>3, <2>6 DEF TurnsOK
      <3>3. \A k \in DOMAIN queue'[w] :
              \/ k \in DOMAIN queue[w] /\ queue'[w][k] = queue[w][k]
              \/ queue'[w][k] = job
        BY <3>1
      <3> QED BY <2>8, <3>2, <3>3 DEF BehindMark
    <2> QED BY <2>2, <2>5, <2>7, <2>8, <2>9 DEF BehindMark
  <1>5. ASSUME NEW w \in Writer, Extract(w) \/ ExtractFails(w)
        PROVE  TurnsOK' /\ BehindMark'
    <2>1. /\ queue[w] # <<>>
          /\ queue' = [queue EXCEPT ![w] = Tail(@)]
          /\ \/ heard' = [heard EXCEPT ![w] = @ \cup Head(queue[w])]
             \/ heard' = heard
          /\ UNCHANGED <<now, said, watermark>>
      BY <1>5 DEF Extract, ExtractFails
    <2>2. /\ queue[w] \in Seq(SUBSET Nat)
          /\ Tail(queue[w]) \in Seq(SUBSET Nat)
          /\ 1 \in DOMAIN queue[w] /\ Head(queue[w]) = queue[w][1]
          /\ \A k \in DOMAIN Tail(queue[w]) : k + 1 \in DOMAIN queue[w]
                                              /\ Tail(queue[w])[k] = queue[w][k + 1]
      BY <2>1 DEF TurnsOK
    <2>3. Head(queue[w]) \subseteq 1..watermark[w]
      BY <2>2 DEF BehindMark
    <2>4. TurnsOK'
      <3>1. Head(queue[w]) \in SUBSET Nat
        BY <2>2
      <3>2. queue' \in [Writer -> Seq(SUBSET Nat)] /\ heard' \in [Writer -> SUBSET Nat]
        BY <2>1, <2>2, <3>1 DEF TurnsOK
      <3> QED BY <2>1, <3>2 DEF TurnsOK
    <2>5. \A u \in Writer : heard'[u] \subseteq 1..watermark[u]
      BY <2>1, <2>3 DEF TurnsOK, BehindMark
    <2>6. \A k \in DOMAIN Tail(queue[w]) : Tail(queue[w])[k] \subseteq 1..watermark[w]
      BY <2>2 DEF BehindMark
    <2>7. /\ queue'[w] = Tail(queue[w])
          /\ \A u \in Writer \ {w} : queue'[u] = queue[u]
      BY <2>1 DEF TurnsOK
    <2> QED BY <2>1, <2>4, <2>5, <2>6, <2>7 DEF BehindMark
  <1>6. ASSUME NEW w \in Writer, Crash(w)
        PROVE  TurnsOK' /\ BehindMark'
    <2>1. <<>> \in Seq(SUBSET Nat) /\ DOMAIN <<>> = {}
      OBVIOUS
    <2>2. queue' = [queue EXCEPT ![w] = <<>>] /\ UNCHANGED <<now, said, watermark, heard>>
      BY <1>6 DEF Crash
    <2>3. TurnsOK'
      BY <2>1, <2>2 DEF TurnsOK
    <2> QED BY <2>1, <2>2, <2>3 DEF BehindMark, TurnsOK
  <1> QED BY <1>1, <1>2, <1>3, <1>4, <1>5, <1>6, OnlyTurnsTurn

\* What is queued was not heard, and no turn is queued twice: the property, which
\* each step keeps because what it queues lies before the watermark.
LEMMA OnceStep ==
    ASSUME TurnsOK, BehindMark, TurnsAreExtractedOnce, [Next]_vars
    PROVE  TurnsAreExtractedOnce'
  <1>1. CASE UNCHANGED <<queue, heard>>
    BY <1>1 DEF TurnsAreExtractedOnce
  <1>2. ASSUME NEW w \in Writer, Flushes(w)
        PROVE  TurnsAreExtractedOnce'
    <2>1. PICK job \in SUBSET Nat :
             /\ queue' = [queue EXCEPT ![w] = Append(@, job)]
             /\ \A i \in job : i > watermark[w]
      BY <1>2, FlushQueues
    <2>2. heard' = heard
      BY <1>2 DEF Flushes
    <2>3. /\ queue[w] \in Seq(SUBSET Nat) /\ watermark[w] \in Nat
          /\ queue'[w] = Append(queue[w], job)
          /\ \A u \in Writer \ {w} : queue'[u] = queue[u]
      BY <2>1 DEF TurnsOK
    <2>4. /\ DOMAIN queue[w] = 1..Len(queue[w]) /\ Len(queue[w]) \in Nat
          /\ DOMAIN queue'[w] = 1..Len(queue[w]) + 1
          /\ \A k \in 1..Len(queue[w]) : queue'[w][k] = queue[w][k]
          /\ queue'[w][Len(queue[w]) + 1] = job
      BY <2>3
    <2>5. job \cap heard[w] = {}
      BY <2>1, <2>3 DEF BehindMark
    <2>6. \A k \in 1..Len(queue[w]) : job \cap queue[w][k] = {}
      BY <2>1, <2>3, <2>4 DEF BehindMark
    <2>7. \A k \in DOMAIN queue'[w] :
            /\ queue'[w][k] \cap heard[w] = {}
            /\ \A l \in 1..k - 1 : queue'[w][k] \cap queue'[w][l] = {}
      <3> SUFFICES ASSUME NEW k \in DOMAIN queue'[w]
                   PROVE  /\ queue'[w][k] \cap heard[w] = {}
                          /\ \A l \in 1..k - 1 : queue'[w][k] \cap queue'[w][l] = {}
        OBVIOUS
      <3>1. CASE k = Len(queue[w]) + 1
        BY <2>4, <2>5, <2>6, <3>1
      <3>2. CASE k \in 1..Len(queue[w])
        <4>1. \A l \in 1..k - 1 : l \in 1..Len(queue[w])
          BY <2>4, <3>2
        <4>2. /\ queue[w][k] \cap heard[w] = {}
              /\ \A l \in 1..k - 1 : queue[w][k] \cap queue[w][l] = {}
          BY <2>4, <3>2 DEF TurnsAreExtractedOnce
        <4> QED BY <2>4, <3>2, <4>1, <4>2
      <3> QED BY <2>4, <3>1, <3>2
    <2> QED BY <2>2, <2>3, <2>7 DEF TurnsAreExtractedOnce
  <1>3. ASSUME NEW w \in Writer, Extract(w) \/ ExtractFails(w)
        PROVE  TurnsAreExtractedOnce'
    <2>1. /\ queue[w] # <<>>
          /\ queue' = [queue EXCEPT ![w] = Tail(@)]
          /\ \/ heard' = [heard EXCEPT ![w] = @ \cup Head(queue[w])]
             \/ heard' = heard
      BY <1>3 DEF Extract, ExtractFails
    <2>2. /\ DOMAIN queue[w] = 1..Len(queue[w]) /\ Len(queue[w]) \in Nat \ {0}
          /\ DOMAIN Tail(queue[w]) = 1..Len(queue[w]) - 1
          /\ Head(queue[w]) = queue[w][1]
          /\ \A k \in 1..Len(queue[w]) - 1 : Tail(queue[w])[k] = queue[w][k + 1]
      <3>1. queue[w] \in Seq(SUBSET Nat)
        BY DEF TurnsOK
      <3> QED BY <2>1, <3>1
    <2>3. /\ queue'[w] = Tail(queue[w])
          /\ heard'[w] \subseteq heard[w] \cup queue[w][1]
          /\ \A u \in Writer \ {w} : queue'[u] = queue[u] /\ heard'[u] = heard[u]
      BY <2>1, <2>2 DEF TurnsOK
    <2>4. \A k \in 1..Len(queue[w]) - 1 :
            /\ queue[w][k + 1] \cap heard[w] = {}
            /\ \A l \in 1..k : queue[w][k + 1] \cap queue[w][l] = {}
      <3>1. \A k \in 1..Len(queue[w]) - 1 : k + 1 \in DOMAIN queue[w] /\ (k + 1) - 1 = k
        BY <2>2
      <3> QED BY <3>1 DEF TurnsAreExtractedOnce
    <2>5. \A k \in 1..Len(queue[w]) - 1 :
            /\ queue'[w][k] \cap heard'[w] = {}
            /\ \A l \in 1..k - 1 : queue'[w][k] \cap queue'[w][l] = {}
      <3> SUFFICES ASSUME NEW k \in 1..Len(queue[w]) - 1
                   PROVE  /\ queue'[w][k] \cap heard'[w] = {}
                          /\ \A l \in 1..k - 1 : queue'[w][k] \cap queue'[w][l] = {}
        OBVIOUS
      <3>1. queue'[w][k] = queue[w][k + 1]
        BY <2>2, <2>3
      <3>2. 1 \in 1..k
        BY <2>2
      <3>3. queue'[w][k] \cap heard'[w] = {}
        BY <2>3, <2>4, <3>1, <3>2
      <3>4. \A l \in 1..k - 1 : /\ l \in 1..Len(queue[w]) - 1 /\ l + 1 \in 1..k
                                /\ queue'[w][l] = queue[w][l + 1]
        BY <2>2, <2>3
      <3>5. \A l \in 1..k - 1 : queue[w][k + 1] \cap queue[w][l + 1] = {}
        BY <2>4, <3>4
      <3>6. \A l \in 1..k - 1 : queue'[w][k] \cap queue'[w][l] = {}
        BY <3>1, <3>4, <3>5
      <3> QED BY <3>3, <3>6
    <2>6. DOMAIN queue'[w] = 1..Len(queue[w]) - 1
      BY <2>2, <2>3
    <2>7. ASSUME NEW u \in Writer
          PROVE  \A k \in DOMAIN queue'[u] :
                    /\ queue'[u][k] \cap heard'[u] = {}
                    /\ \A l \in 1..k - 1 : queue'[u][k] \cap queue'[u][l] = {}
      <3>1. CASE u = w
        BY <2>5, <2>6, <3>1
      <3>2. CASE u # w
        <4>1. queue'[u] = queue[u] /\ heard'[u] = heard[u]
          BY <2>3, <3>2
        <4> QED BY <4>1 DEF TurnsAreExtractedOnce
      <3> QED BY <3>1, <3>2
    <2> QED BY <2>7 DEF TurnsAreExtractedOnce
  <1>4. ASSUME NEW w \in Writer, Crash(w)
        PROVE  TurnsAreExtractedOnce'
    <2>1. queue' = [queue EXCEPT ![w] = <<>>] /\ heard' = heard
      BY <1>4 DEF Crash
    <2>2. queue'[w] = <<>> /\ \A u \in Writer \ {w} : queue'[u] = queue[u]
      BY <2>1 DEF TurnsOK
    <2>3. DOMAIN queue'[w] = {}
      BY <2>2
    <2> QED BY <2>1, <2>2, <2>3 DEF TurnsAreExtractedOnce
  <1>5. ASSUME Advance \/ \E w \in Writer : RunStops(w) \/ RunEnds(w)
        PROVE  UNCHANGED <<queue, heard>>
    BY <1>5 DEF Advance, RunStops, RunEnds, pool
  <1> QED BY <1>1, <1>2, <1>3, <1>4, <1>5, OnlyTurnsTurn

-----------------------------------------------------------------------------
\* The draft in hand

\* Nothing moved for u.
Kept(u) == phase'[u] = phase[u] /\ drafts'[u] = drafts[u] /\ verdict'[u] = verdict[u]

LEMMA ProceedTyped ==
    ASSUME HandOK, NEW w \in Writer, NEW rest \in Seq(MemoryContent), Proceed(w, rest)
    PROVE  /\ HandOK'
           /\ phase'[w] \notin {"get", "insert"}
           /\ \A u \in Writer \ {w} : Kept(u)
  <1>1. Noop \in MemoryOperation
    BY DEF Noop, MemoryOperation
  <1> QED BY <1>1 DEF Proceed, HandOK, Kept

LEMMA TailTyped ==
    ASSUME HandOK, NEW w \in Writer, phase[w] # "idle"
    PROVE  Head(drafts[w]) \in MemoryContent /\ Tail(drafts[w]) \in Seq(MemoryContent)
  <1>1. drafts[w] \in Seq(MemoryContent) /\ drafts[w] # <<>>
    BY DEF HandOK
  <1> QED BY <1>1

\* Every way on for a draft, and who is at get or insert after it.
LEMMA HandMoves ==
    ASSUME RowsOK, HandOK, [Next]_vars
    PROVE  /\ HandOK'
           /\ \A u \in Writer : phase'[u] \in {"get", "insert"} =>
                \/ Kept(u)
                \/ phase[u] = "search" /\ Search(u)
                \/ SearchesBlind(u)
                \/ Get(u)
  <1> DEFINE Goal == /\ HandOK'
                     /\ \A u \in Writer : phase'[u] \in {"get", "insert"} =>
                          \/ Kept(u)
                          \/ phase[u] = "search" /\ Search(u)
                          \/ SearchesBlind(u)
                          \/ Get(u)
  <1>1. CASE UNCHANGED <<drafts, phase, verdict>>
    BY <1>1 DEF HandOK, Kept
  <1>2. ASSUME NEW w \in Writer, NEW rest \in Seq(MemoryContent), Proceed(w, rest)
        PROVE  Goal
    BY <1>2, ProceedTyped
  <1>3. ASSUME NEW w \in Writer, Search(w) PROVE Goal
    <2> DEFINE draft == Head(drafts[w])
    <2>1. phase[w] = "search" /\ draft \in MemoryContent /\ Tail(drafts[w]) \in Seq(MemoryContent)
      BY <1>3, TailTyped DEF Search
    <2>2. PICK v \in Decide(draft, Neighbours(rows, now, draft.content)) :
             IF v.verb = "noop"
               THEN Proceed(w, Tail(drafts[w]))
               ELSE /\ verdict' = [verdict EXCEPT ![w] = v]
                    /\ phase' = [phase EXCEPT ![w] = IF v.verb = "add" THEN "insert" ELSE "get"]
                    /\ UNCHANGED drafts
      BY <1>3 DEF Search
    <2>3. v \in MemoryOperation
      <3>1. Neighbours(rows, now, draft.content) \subseteq DOMAIN rows
        BY DEF Neighbours, Active
      <3> QED BY <2>1, <3>1, DecideSound
    <2>4. CASE v.verb = "noop"
      BY <1>2, <2>1, <2>2, <2>4
    <2>5. CASE v.verb # "noop"
      <3>1. HandOK'
        BY <2>1, <2>2, <2>3, <2>5 DEF HandOK
      <3>2. \A u \in Writer \ {w} : Kept(u)
        BY <2>2, <2>5 DEF HandOK, Kept
      <3> QED BY <1>3, <2>1, <3>1, <3>2
    <2> QED BY <2>4, <2>5
  <1>4. ASSUME NEW w \in Writer, SearchesBlind(w) PROVE Goal
    <2>1. Add \in MemoryOperation
      BY DEF Add, MemoryOperation
    <2>2. HandOK' /\ \A u \in Writer \ {w} : Kept(u)
      BY <1>4, <2>1 DEF SearchesBlind, HandOK, Kept
    <2> QED BY <1>4, <2>2
  <1>5. ASSUME NEW w \in Writer, Get(w) PROVE Goal
    <2>1. Add \in MemoryOperation
      BY DEF Add, MemoryOperation
    <2>2. HandOK' /\ \A u \in Writer \ {w} : Kept(u)
      BY <1>5, <2>1 DEF Get, HandOK, Kept
    <2> QED BY <1>5, <2>2
  <1>6. ASSUME NEW w \in Writer, Insert(w) \/ InsertsBare(w) \/ RecordFails(w) PROVE Goal
    <2>1. phase[w] # "idle" /\ Proceed(w, Tail(drafts[w]))
      BY <1>6 DEF Insert, InsertsBare, Writes, RecordFails
    <2> QED BY <1>2, <2>1, TailTyped
  <1>7. ASSUME NEW w \in Writer, Extract(w) PROVE Goal
    BY <1>2, <1>7, MemoryWriterAssumption DEF Extract
  <1>8. ASSUME NEW w \in Writer, Crash(w) PROVE Goal
    <2>1. <<>> \in Seq(MemoryContent)
      OBVIOUS
    <2> QED BY <1>2, <1>8, <2>1 DEF Crash
  <1>9. ASSUME \/ UNCHANGED vars \/ Advance
               \/ \E w \in Writer : \/ RunStops(w) \/ RunEnds(w) \/ Flushes(w) \/ ExtractFails(w)
                                    \/ RecallNear(w) \/ RecallStanding(w) \/ RecallUsed(w)
        PROVE  UNCHANGED <<drafts, phase, verdict>>
    BY <1>9 DEF vars, pool, Advance, RunStops, RunEnds, Flushes, ExtractFails,
                RecallNear, RecallStanding, RecallUsed
  <1> QED BY <1>1, <1>3, <1>4, <1>5, <1>6, <1>7, <1>8, <1>9 DEF Next

\* A verdict stays sound until it is written, whatever the others write meanwhile.
LEMMA DecidedStep ==
    ASSUME RowsOK, TurnsOK, HandOK, Decided, [Next]_vars
    PROVE  Decided'
  <1> SUFFICES ASSUME NEW u \in Writer, phase'[u] \in {"get", "insert"}
               PROVE  Judged(u)'
    BY DEF Decided
  <1>1. CASE Kept(u)
    <2>1. Judged(u)
      BY <1>1 DEF Kept, Decided
    <2> QED BY <1>1, <2>1, RowsKept DEF Kept, Judged
  <1>2. CASE phase[u] = "search" /\ Search(u)
    <2> DEFINE draft == Head(drafts[u])
               near  == Neighbours(rows, now, draft.content)
    <2>1. draft \in MemoryContent /\ Tail(drafts[u]) \in Seq(MemoryContent)
      BY <1>2, TailTyped
    <2>2. PICK v \in Decide(draft, near) :
             IF v.verb = "noop"
               THEN Proceed(u, Tail(drafts[u]))
               ELSE /\ verdict' = [verdict EXCEPT ![u] = v]
                    /\ UNCHANGED drafts
      BY <1>2 DEF Search
    <2>3. v.verb # "noop"
      BY <2>1, <2>2, ProceedTyped
    <2>4. verdict'[u] = v /\ drafts'[u] = drafts[u] /\ rows' = rows
      BY <1>2, <2>2, <2>3 DEF Search, HandOK
    <2>5. near \subseteq DOMAIN rows /\ \A i \in near : rows[i].op # "invalidate"
      BY DEF Neighbours, Active
    <2>6. /\ v \in MemoryOperation
          /\ v.verb = "add" => v.target_id = 0
          /\ v.verb \in {"update", "invalidate"} =>
               /\ v.target_id \in near
               /\ draft.confidence = Inferred => rows[v.target_id].confidence = Inferred
      <3> HIDE DEF near, draft
      <3> QED BY <2>1, <2>5, DecideSound
    <2>7. v.verb # "add" => v.verb \in {"update", "invalidate"}
      BY <2>3, <2>6 DEF MemoryOperation
    <2> HIDE DEF near
    <2> QED BY <2>3, <2>4, <2>5, <2>6, <2>7 DEF Judged
  <1>3. CASE SearchesBlind(u)
    <2>1. verdict'[u] = Add
      BY <1>3 DEF SearchesBlind, HandOK
    <2> QED BY <2>1 DEF Judged, Add
  <1>4. CASE Get(u)
    <2>1. /\ verdict'[u] = verdict[u] \/ verdict'[u] = Add
          /\ drafts'[u] = drafts[u] /\ rows' = rows
          /\ Judged(u)
      BY <1>4 DEF Get, HandOK, Decided
    <2> QED BY <2>1 DEF Judged, Add
  <1> QED BY <1>1, <1>2, <1>3, <1>4, HandMoves

-----------------------------------------------------------------------------
\* Recalls and faults

LEMMA OnlyRecallsRecall ==
    ASSUME RecallsFresh, [Next]_vars
    PROVE  \/ recall' = recall
           \/ \E w \in Writer : /\ UNCHANGED rows
                                /\ \/ RecallNear(w) \/ RecallStanding(w)
                                   \/ recall' = [recall EXCEPT ![w] = NoRecall]
  <1>1. ASSUME NEW w \in Writer, RecallUsed(w) \/ Crash(w)
        PROVE  UNCHANGED rows /\ recall' = [recall EXCEPT ![w] = NoRecall]
    BY <1>1 DEF RecallUsed, Crash
  <1>2. ASSUME NEW w \in Writer, RecallNear(w) \/ RecallStanding(w)
        PROVE  UNCHANGED rows
    BY <1>2 DEF RecallNear, RecallStanding
  <1>3. ASSUME NEW w \in Writer, RunStops(w) \/ RunEnds(w) \/ Flushes(w) \/ Extract(w)
                                 \/ ExtractFails(w)
        PROVE  recall' = recall
    BY <1>3 DEF RunStops, RunEnds, Flushes, Extract, ExtractFails
  <1>4. ASSUME NEW w \in Writer, Search(w) \/ SearchesBlind(w) \/ Get(w) \/ Insert(w)
                                 \/ InsertsBare(w) \/ RecordFails(w)
        PROVE  recall' = recall
    BY <1>4 DEF Search, SearchesBlind, Get, Insert, InsertsBare, Writes, RecordFails
  <1>5. ASSUME Advance \/ UNCHANGED vars PROVE recall' = recall
    BY <1>5 DEF Advance, vars
  <1> QED BY <1>1, <1>2, <1>3, <1>4, <1>5 DEF Next

LEMMA RecallsStep ==
    ASSUME RowsOK, TurnsOK, HandOK, Decided, RecallsFresh, [Next]_vars
    PROVE  RecallsFresh'
  <1>0. Len(rows) \in Nat /\ DOMAIN rows = 1..Len(rows)
    BY DEF RowsOK
  <1>1. CASE recall' = recall /\ UNCHANGED rows
    BY <1>1 DEF RecallsFresh
  <1>2. ASSUME recall' = recall, NEW w \in Writer, NEW vector \in BOOLEAN, Writes(w, vector)
        PROVE  RecallsFresh'
    <2>1. /\ Len(rows') = Len(rows) + 1 /\ DOMAIN rows' = 1..Len(rows) + 1
          /\ \A i \in DOMAIN rows : rows'[i] = rows[i]
      BY <1>2, WritesAppend
    <2>2. \A u \in Writer : recall[u].since \in Nat /\ recall[u].since <= Len(rows)
      BY DEF RecallsFresh, Recall
    <2>3. \A u \in Writer : \A j \in DOMAIN rows' : j \in DOMAIN rows \/ j > recall[u].since
      BY <1>0, <2>1, <2>2
    <2>4. ASSUME NEW u \in Writer, NEW i \in recall[u].ids, NEW j \in DOMAIN rows',
                 rows'[j].supersedes = i
          PROVE  j > recall[u].since
      BY <2>1, <2>3, <2>4 DEF RecallsFresh
    <2>5. \A u \in Writer : recall[u].since <= Len(rows') /\ recall[u].ids \subseteq DOMAIN rows'
      BY <1>0, <2>1, <2>2 DEF RecallsFresh
    <2>6. recall' \in [Writer -> Recall]
      BY <1>2 DEF RecallsFresh
    <2>7. \A u \in Writer : \A i \in recall[u].ids : \A j \in DOMAIN rows' :
            rows'[j].supersedes = i => j > recall[u].since
      BY <2>4
    <2>8. \A u \in Writer :
            /\ recall'[u].since <= Len(rows')
            /\ recall'[u].ids \subseteq DOMAIN rows'
            /\ \A i \in recall'[u].ids : \A j \in DOMAIN rows' :
                 rows'[j].supersedes = i => j > recall'[u].since
      BY <1>2, <2>5, <2>7
    <2> QED BY <2>6, <2>8 DEF RecallsFresh
  <1>3. ASSUME NEW w \in Writer, UNCHANGED rows, NEW r \in Recall,
               recall' = [recall EXCEPT ![w] = r],
               r.since <= Len(rows), r.ids \subseteq DOMAIN rows,
               \A i \in r.ids : \A j \in DOMAIN rows : rows[j].supersedes = i => j > r.since
        PROVE  RecallsFresh'
    BY <1>3 DEF RecallsFresh
  <1>4. ASSUME NEW w \in Writer, UNCHANGED rows, RecallNear(w) PROVE RecallsFresh'
    <2>1. PICK c \in Content :
             recall' = [recall EXCEPT ![w] = [phase |-> "searched", since |-> Len(rows),
                                              ids |-> Neighbours(rows, now, c)]]
      BY <1>4 DEF RecallNear
    <2> DEFINE r == [phase |-> "searched", since |-> Len(rows), ids |-> Neighbours(rows, now, c)]
    <2>2. /\ r.ids \subseteq DOMAIN rows
          /\ \A i \in r.ids : \A j \in DOMAIN rows : rows[j].supersedes # i
      BY DEF Neighbours, Active, Superseded
    <2>3. r.since = Len(rows) /\ r \in Recall
      BY <1>0, <2>2 DEF Recall
    <2>4. recall' = [recall EXCEPT ![w] = r]
      BY <2>1
    <2> HIDE DEF r
    <2>5. /\ r.since <= Len(rows) /\ r.ids \subseteq DOMAIN rows
          /\ \A i \in r.ids : \A j \in DOMAIN rows : rows[j].supersedes = i => j > r.since
      BY <1>0, <2>2, <2>3
    <2> QED BY <1>3, <1>4, <2>3, <2>4, <2>5
  <1>5. ASSUME NEW w \in Writer, UNCHANGED rows, RecallStanding(w) PROVE RecallsFresh'
    <2> DEFINE r == [phase |-> "done", since |-> recall[w].since,
                     ids |-> recall[w].ids \cup Standing(rows, now)]
    <2>1. recall[w] \in Recall /\ recall' = [recall EXCEPT ![w] = r]
      BY <1>5 DEF RecallStanding, RecallsFresh
    <2>2. /\ r.since = recall[w].since
          /\ r.ids = recall[w].ids \cup Standing(rows, now)
      BY <2>1 DEF Recall
    <2>3. /\ Standing(rows, now) \subseteq DOMAIN rows
          /\ \A i \in Standing(rows, now) : \A j \in DOMAIN rows : rows[j].supersedes # i
      BY DEF Standing, Active, Superseded
    <2>4. r \in Recall
      <3>1. recall[w].ids \cup Standing(rows, now) \subseteq Nat \ {0}
        BY <1>0, <2>1, <2>3 DEF Recall
      <3> QED BY <2>1, <3>1 DEF Recall
    <2> HIDE DEF r
    <2>5. /\ r.since <= Len(rows) /\ r.ids \subseteq DOMAIN rows
          /\ \A i \in r.ids : \A j \in DOMAIN rows : rows[j].supersedes = i => j > r.since
      BY <2>2, <2>3 DEF RecallsFresh
    <2> QED BY <1>3, <1>5, <2>1, <2>4, <2>5
  <1>6. ASSUME NEW w \in Writer, UNCHANGED rows, recall' = [recall EXCEPT ![w] = NoRecall]
        PROVE  RecallsFresh'
    <2>1. NoRecall \in Recall /\ NoRecall.since <= Len(rows) /\ NoRecall.ids = {}
      BY <1>0 DEF NoRecall, Recall
    <2> QED BY <1>3, <1>6, <2>1
  <1> QED BY <1>1, <1>2, <1>4, <1>5, <1>6, OnlyRecallsRecall, OnlyWritersWrite

LEMMA FaultsStep ==
    ASSUME FaultsOK, [Next]_vars
    PROVE  FaultsOK' /\ blinded \subseteq blinded'
  <1>1. CASE UNCHANGED <<blinded, faults>>
    BY <1>1 DEF FaultsOK
  <1>2. ASSUME NEW w \in Writer, SearchesBlind(w) \/ InsertsBare(w)
        PROVE  FaultsOK' /\ blinded \subseteq blinded'
    <2>1. /\ faults < MaxFaults /\ faults' = faults + 1
          /\ blinded' = blinded \cup {w}
      BY <1>2 DEF SearchesBlind, InsertsBare
    <2> QED BY <2>1, MemoryWriterAssumption DEF FaultsOK
  <1>3. ASSUME NEW w \in Writer, Crash(w) PROVE FaultsOK' /\ blinded \subseteq blinded'
    BY <1>3, MemoryWriterAssumption DEF Crash, FaultsOK
  <1>4. ASSUME NEW w \in Writer, RunStops(w) \/ RunEnds(w) \/ Flushes(w) \/ Extract(w)
                                 \/ ExtractFails(w)
        PROVE  UNCHANGED <<blinded, faults>>
    BY <1>4 DEF RunStops, RunEnds, Flushes, Extract, ExtractFails
  <1>5. ASSUME NEW w \in Writer, Search(w) \/ Get(w) \/ Insert(w) \/ RecordFails(w)
        PROVE  UNCHANGED <<blinded, faults>>
    BY <1>5 DEF Search, Get, Insert, RecordFails
  <1>6. ASSUME NEW w \in Writer, RecallNear(w) \/ RecallStanding(w) \/ RecallUsed(w)
        PROVE  UNCHANGED <<blinded, faults>>
    BY <1>6 DEF RecallNear, RecallStanding, RecallUsed
  <1>7. ASSUME Advance \/ UNCHANGED vars PROVE UNCHANGED <<blinded, faults>>
    BY <1>7 DEF Advance, vars
  <1> QED BY <1>1, <1>2, <1>3, <1>4, <1>5, <1>6, <1>7 DEF Next

-----------------------------------------------------------------------------
\* Echoes

LEMMA TimePasses ==
    ASSUME TurnsOK, [Next]_vars
    PROVE  now \in Nat /\ now' \in Nat /\ now <= now'
  <1>1. now \in Nat
    BY MemoryStoreAssumption DEF TurnsOK
  <1>2. CASE Advance
    BY <1>1, <1>2 DEF Advance
  <1>3. CASE UNCHANGED <<now, said, watermark, queue, heard>>
    BY <1>1, <1>3
  <1>4. ASSUME NEW w \in Writer, \/ RunStops(w) \/ RunEnds(w) \/ Flushes(w)
                                 \/ Extract(w) \/ ExtractFails(w) \/ Crash(w)
        PROVE  now' = now
    BY <1>4 DEF RunStops, RunEnds, Flushes, Extract, ExtractFails, Crash
  <1> QED BY <1>1, <1>2, <1>3, <1>4, OnlyTurnsTurn

\* What is in force after a step was so before it, or is what the step wrote.
LEMMA ActiveGrows ==
    ASSUME RowsOK, TurnsOK, HandOK, Decided, [Next]_vars, NEW i \in Active(rows', now')
    PROVE  \/ i \in Active(rows, now) /\ rows'[i] = rows[i] /\ authors'[i] = authors[i]
           \/ \E w \in Writer, vector \in BOOLEAN :
                /\ Writes(w, vector) /\ i = Len(rows) + 1
                /\ rows'[i] = NewRow(w, vector) /\ authors'[i] = w
  <1>0. now \in Nat /\ now' \in Nat /\ now <= now'
    BY TimePasses
  <1>1. i \in DOMAIN rows' /\ rows'[i].op # "invalidate"
        /\ ~Superseded(rows', i) /\ ~Expired(rows'[i], now')
    BY DEF Active
  <1>2. ASSUME i \in DOMAIN rows, rows'[i] = rows[i] PROVE i \in Active(rows, now)
    <2>1. ~Superseded(rows, i)
      BY <1>1, RowsKept DEF Superseded
    <2>2. rows[i].expires \in Nat
      <3>1. rows[i] \in Row
        BY <1>2 DEF RowsOK
      <3> QED BY <3>1 DEF Row
    <2>3. ~Expired(rows[i], now)
      BY <1>0, <1>1, <1>2, <2>2 DEF Expired
    <2> QED BY <1>1, <1>2, <2>1, <2>3 DEF Active
  <1>3. CASE UNCHANGED <<rows, authors>>
    BY <1>1, <1>2, <1>3
  <1>4. ASSUME NEW w \in Writer, NEW vector \in BOOLEAN, Writes(w, vector)
        PROVE  \/ i \in Active(rows, now) /\ rows'[i] = rows[i] /\ authors'[i] = authors[i]
               \/ i = Len(rows) + 1 /\ rows'[i] = NewRow(w, vector) /\ authors'[i] = w
    <2>1. /\ DOMAIN rows = 1..Len(rows) /\ DOMAIN rows' = 1..Len(rows) + 1 /\ Len(rows) \in Nat
          /\ \A k \in DOMAIN rows : rows'[k] = rows[k] /\ authors'[k] = authors[k]
          /\ rows'[Len(rows) + 1] = NewRow(w, vector)
          /\ authors'[Len(rows) + 1] = w
      BY <1>4, WritesAppend DEF RowsOK
    <2>2. i \in DOMAIN rows \/ i = Len(rows) + 1
      BY <1>1, <2>1
    <2> QED BY <1>2, <2>1, <2>2
  <1> QED BY <1>3, <1>4, <1>1, <1>2, OnlyWritersWrite

LEMMA BareStep ==
    ASSUME RowsOK, TurnsOK, HandOK, Decided, FaultsOK, BareRowsAreBlind, [Next]_vars
    PROVE  BareRowsAreBlind'
  <1>1. blinded \subseteq blinded'
    BY FaultsStep
  <1>2. CASE UNCHANGED <<rows, authors>>
    BY <1>1, <1>2 DEF BareRowsAreBlind
  <1>3. ASSUME NEW w \in Writer, NEW vector \in BOOLEAN,
               Writes(w, vector), ~vector => w \in blinded'
        PROVE  BareRowsAreBlind'
    <2> DEFINE row == NewRow(w, vector)
    <2>1. row.op # "invalidate" => row.vector = vector
      BY <1>3, NewRowTyped DEF Writes
    <2> HIDE DEF row
    <2>2. /\ DOMAIN rows = 1..Len(rows) /\ DOMAIN rows' = 1..Len(rows) + 1 /\ Len(rows) \in Nat
          /\ \A k \in DOMAIN rows : rows'[k] = rows[k] /\ authors'[k] = authors[k]
          /\ rows'[Len(rows) + 1] = row
          /\ authors'[Len(rows) + 1] = w
      BY <1>3, WritesAppend DEF RowsOK, row
    <2> SUFFICES ASSUME NEW i \in DOMAIN rows', rows'[i].op # "invalidate", ~rows'[i].vector
                 PROVE  authors'[i] \in blinded'
      BY DEF BareRowsAreBlind
    <2>3. i \in DOMAIN rows \/ i = Len(rows) + 1
      BY <2>2
    <2>4. CASE i \in DOMAIN rows
      BY <1>1, <2>2, <2>4 DEF BareRowsAreBlind
    <2>5. CASE i = Len(rows) + 1
      BY <1>3, <2>1, <2>2, <2>5
    <2> QED BY <2>3, <2>4, <2>5
  <1> QED BY <1>2, <1>3, OnlyWritersWrite

\* The look for the same words finds what the writer itself has in force, and
\* nothing but the writer adds to that.
LEMMA NothingTwiceStep ==
    ASSUME RowsOK, TurnsOK, HandOK, Decided, FaultsOK, BareRowsAreBlind, NothingTwice,
           [Next]_vars
    PROVE  NothingTwice'
  <1> SUFFICES ASSUME NEW u \in Writer, u \notin blinded', phase'[u] \in {"get", "insert"},
                      NEW i \in Active(rows', now'), authors'[i] = u
               PROVE  rows'[i].content # Head(drafts'[u]).content
    BY DEF NothingTwice
  <1>1. u \notin blinded
    BY FaultsStep
  <1>2. /\ i \in Active(rows, now) /\ rows'[i] = rows[i] /\ authors[i] = u
    <2>1. ASSUME NEW w \in Writer, NEW vector \in BOOLEAN, Writes(w, vector), authors'[i] = w
          PROVE  FALSE
      <3>1. Tail(drafts[u]) \in Seq(MemoryContent) /\ Proceed(u, Tail(drafts[u]))
        BY <2>1, TailTyped DEF Writes
      <3> QED BY <3>1, ProceedTyped
    <2> QED BY <2>1, ActiveGrows
  <1>3. CASE Kept(u) /\ phase[u] \in {"get", "insert"}
    BY <1>1, <1>2, <1>3 DEF Kept, NothingTwice
  <1>4. CASE phase[u] = "search" /\ Search(u)
    <2> DEFINE draft == Head(drafts[u])
               near  == Neighbours(rows, now, draft.content)
    <2>1. draft \in MemoryContent /\ Tail(drafts[u]) \in Seq(MemoryContent)
      BY <1>4, TailTyped
    <2>2. PICK v \in Decide(draft, near) :
             IF v.verb = "noop"
               THEN Proceed(u, Tail(drafts[u]))
               ELSE UNCHANGED drafts
      BY <1>4 DEF Search
    <2>3. v.verb # "noop" /\ drafts'[u] = drafts[u]
      BY <2>1, <2>2, ProceedTyped
    <2>4. near \subseteq DOMAIN rows
      BY DEF Neighbours, Active
    <2>5. \A k \in near : rows[k].content # draft.content
      <3> HIDE DEF near, draft
      <3> QED BY <2>1, <2>3, <2>4, DecideSound
    <2>6. rows[i].vector
      BY <1>1, <1>2 DEF BareRowsAreBlind, Active
    <2>7. draft.content \in Near[draft.content]
      BY <2>1, MemoryStoreAssumption DEF MemoryContent
    <2>8. rows[i].content = draft.content => i \in near
      BY <1>2, <2>6, <2>7 DEF Neighbours
    <2> QED BY <1>2, <2>3, <2>5, <2>8
  <1>5. CASE SearchesBlind(u)
    BY <1>5 DEF SearchesBlind
  <1>6. CASE Get(u)
    <2>1. phase[u] = "get" /\ drafts' = drafts
      BY <1>6 DEF Get
    <2> QED BY <1>1, <1>2, <2>1 DEF NothingTwice
  <1>7. Kept(u) => phase[u] \in {"get", "insert"}
    BY DEF Kept
  <1> QED BY <1>3, <1>4, <1>5, <1>6, <1>7, HandMoves

LEMMA EchoesStep ==
    ASSUME RowsOK, TurnsOK, HandOK, Decided, FaultsOK, NothingTwice, NoEchoes, [Next]_vars
    PROVE  NoEchoes'
  <1> SUFFICES ASSUME NEW i \in Active(rows', now'), NEW j \in Active(rows', now'), i # j,
                      rows'[i].content = rows'[j].content, authors'[i] = authors'[j],
                      authors'[i] \notin blinded'
               PROVE  FALSE
    BY DEF NoEchoes
  <1> DEFINE Old(k) == k \in Active(rows, now) /\ rows'[k] = rows[k] /\ authors'[k] = authors[k]
  <1>1. authors'[i] \notin blinded
    BY FaultsStep
  <1>2. CASE Old(i) /\ Old(j)
    BY <1>1, <1>2 DEF NoEchoes
  <1>3. ASSUME NEW k \in Active(rows', now'), NEW l \in Active(rows', now'), Old(l),
               rows'[k].content = rows'[l].content, authors'[k] = authors'[l],
               authors'[k] \notin blinded,
               NEW w \in Writer, NEW vector \in BOOLEAN, Writes(w, vector),
               rows'[k] = NewRow(w, vector), authors'[k] = w
        PROVE  FALSE
    <2>1. rows'[k].op # "invalidate"
      BY <1>3 DEF Active
    <2>2. rows'[k].content = Head(drafts[w]).content
      BY <1>3, <2>1, NewRowTyped DEF Writes
    <2>3. phase[w] = "insert"
      BY <1>3 DEF Writes
    <2> QED BY <1>3, <2>2, <2>3 DEF NothingTwice
  <1>4. Old(i) \/ Old(j)
    BY ActiveGrows
  <1> QED BY <1>1, <1>2, <1>3, <1>4, ActiveGrows

-----------------------------------------------------------------------------
\* The invariant

IInv == /\ RowsOK /\ TurnsOK /\ HandOK /\ FaultsOK
        /\ Backwards /\ Decided /\ BehindMark
        /\ RecallsFresh /\ BareRowsAreBlind /\ NothingTwice

LEMMA Initially == Init => IInv /\ TurnsAreExtractedOnce /\ NoEchoes
  <1> SUFFICES ASSUME Init PROVE IInv /\ TurnsAreExtractedOnce /\ NoEchoes
    OBVIOUS
  <1>1. /\ \A S : <<>> \in Seq(S)
        /\ DOMAIN <<>> = {} /\ Len(<<>>) = 0
    OBVIOUS
  <1>2. RowsOK /\ Backwards /\ BareRowsAreBlind
    BY <1>1 DEF Init, RowsOK, Backwards, BareRowsAreBlind
  <1>3. TurnsOK
    <2>1. 0 \in 0..Horizon /\ \A w \in Writer : 0 <= MaxTurns[w]
      BY MemoryStoreAssumption, MemoryWriterAssumption
    <2>2. said \in [Writer -> Seq(0..Horizon)] /\ queue \in [Writer -> Seq(SUBSET Nat)]
      BY <1>1 DEF Init
    <2>3. \A w \in Writer : said[w] = <<>> /\ watermark[w] = 0
      BY DEF Init
    <2> QED BY <1>1, <2>1, <2>2, <2>3 DEF Init, TurnsOK
  <1>4. HandOK
    <2>1. Noop \in MemoryOperation
      BY DEF Noop, MemoryOperation
    <2> QED BY <1>1, <2>1 DEF Init, HandOK
  <1>5. FaultsOK
    BY MemoryWriterAssumption DEF Init, FaultsOK
  <1>6. Decided /\ NothingTwice
    BY DEF Init, Decided, NothingTwice
  <1>7. BehindMark /\ TurnsAreExtractedOnce
    BY <1>1 DEF Init, BehindMark, TurnsAreExtractedOnce
  <1>8. RecallsFresh
    <2>1. NoRecall \in Recall /\ NoRecall.since = 0 /\ NoRecall.ids = {}
      BY DEF NoRecall, Recall
    <2> QED BY <1>1, <2>1 DEF Init, RecallsFresh
  <1>9. NoEchoes
    <2>1. Active(rows, now) = {}
      BY <1>1 DEF Init, Active
    <2> QED BY <2>1 DEF NoEchoes
  <1> QED BY <1>2, <1>3, <1>4, <1>5, <1>6, <1>7, <1>8, <1>9 DEF IInv

LEMMA Invariance == Spec => []IInv
  <1>1. Init => IInv
    BY Initially
  <1>2. IInv /\ [Next]_vars => IInv'
    BY RowsStep, TurnsStep, HandMoves, FaultsStep, DecidedStep, RecallsStep, BareStep,
       NothingTwiceStep DEF IInv
  <1> QED BY <1>1, <1>2, PTL DEF Spec

-----------------------------------------------------------------------------
\* Type correctness: every variable keeps its type; every row of the table keeps
\* the constraints of schema.sql, and a writer is idle exactly when it has no
\* draft left.
THEOREM TypeCorrect == Spec => []TypeOK
  <1>1. IInv => TypeOK
    BY DEF IInv, RowsOK, TurnsOK, HandOK, FaultsOK, RecallsFresh, TypeOK
  <1> QED BY <1>1, Invariance, PTL

\* "Two flushes cannot dispatch the same turns and a restart does not re-read what
\* it already recorded": the watermark, stamped before the job is queued, parts
\* what was dispatched from what will be.
THEOREM ExtractedOnce == Spec => []TurnsAreExtractedOnce
  <1>1. Init => TurnsAreExtractedOnce
    BY Initially
  <1>2. IInv /\ TurnsAreExtractedOnce /\ [Next]_vars => TurnsAreExtractedOnce'
    BY OnceStep DEF IInv
  <1> QED BY <1>1, <1>2, Invariance, PTL DEF Spec

\* No writer leaves two memories in force that say the same, unless the embedder
\* failed it, however many other writers are at work on the same user.
THEOREM EchoFree == Spec => []NoEchoes
  <1>1. Init => NoEchoes
    BY Initially
  <1>2. IInv /\ NoEchoes /\ [Next]_vars => NoEchoes'
    BY EchoesStep DEF IInv
  <1> QED BY <1>1, <1>2, Invariance, PTL DEF Spec

\* A recall, which reads the table twice, holds a memory beside its own successor
\* only if that was written between the two reads.
THEOREM VersionsApart == Spec => []VersionsMixOnlyInARace
  <1>1. IInv => VersionsMixOnlyInARace
    <2> SUFFICES ASSUME IInv, NEW w \in Writer, NEW i \in recall[w].ids, NEW j \in recall[w].ids,
                        rows[j].supersedes = i
                 PROVE  j > recall[w].since
      BY DEF VersionsMixOnlyInARace
    <2> QED BY DEF IInv, RecallsFresh
  <1> QED BY <1>1, Invariance, PTL

\* A guess replaces or retires nothing better founded: the verdict compared the two
\* confidences, and the row it names never changes.
THEOREM GuessesSpare == Spec => GuessesSpareTheStated
  <1> DEFINE Spares == \A w \in Writer :
                          /\ Len(rows') > Len(rows)
                          /\ drafts'[w] # drafts[w]
                          /\ Head(drafts[w]).confidence = Inferred
                          => LET target == rows'[Len(rows')].supersedes
                             IN  target # 0 => rows[target].confidence = Inferred
  <1>1. IInv /\ [Next]_vars => [Spares]_vars
    <2> SUFFICES ASSUME IInv, [Next]_vars PROVE Spares
      OBVIOUS
    <2>1. CASE UNCHANGED <<rows, authors>>
      <3>1. Len(rows) \in Nat
        BY DEF IInv, RowsOK
      <3> QED BY <2>1, <3>1
    <2>2. ASSUME NEW u \in Writer, NEW vector \in BOOLEAN, Writes(u, vector) PROVE Spares
      <3> SUFFICES ASSUME NEW w \in Writer, drafts'[w] # drafts[w],
                          Head(drafts[w]).confidence = Inferred,
                          rows'[Len(rows')].supersedes # 0
                   PROVE  rows[rows'[Len(rows')].supersedes].confidence = Inferred
        OBVIOUS
      <3>1. phase[u] = "insert" /\ Proceed(u, Tail(drafts[u]))
        BY <2>2 DEF Writes
      <3>2. w = u
        BY <3>1, TailTyped, ProceedTyped DEF IInv, Kept
      <3>3. rows'[Len(rows')] = NewRow(u, vector)
        BY <2>2, WritesAppend DEF IInv
      <3>4. rows'[Len(rows')].supersedes = verdict[u].target_id
        BY <3>1, <3>3, NewRowTyped DEF IInv
      <3>5. Judged(u)
        BY <3>1 DEF IInv, Decided
      <3> QED BY <3>2, <3>4, <3>5 DEF Judged
    <2> QED BY <2>1, <2>2, OnlyWritersWrite
  <1> QED BY <1>1, Invariance, PTL DEF Spec, GuessesSpareTheStated

\* "History is a chain, never a fork": the table, under any race of writers between
\* get and insert, implements the log of versions.
THEOREM Refinement == Spec => ImplementsLog
  <1> DEFINE InForce == {i \in DOMAIN rows : rows[i].op # "invalidate" /\ ~Superseded(rows, i)}
             Step    == Log!Learn \/ Log!Revise \/ Log!Forget
  <1>1. Init => Log!Init
    <2> SUFFICES ASSUME Init PROVE Log!Init
      OBVIOUS
    <2>1. rows = <<>> /\ DOMAIN rows = {} /\ Len(rows) = 0
      BY DEF Init
    <2> QED BY <2>1 DEF Log!Init
  <1>2. IInv /\ [Next]_vars => [Step]_(Log!vars)
    <2> SUFFICES ASSUME IInv, [Next]_vars PROVE [Step]_(Log!vars)
      OBVIOUS
    <2>1. CASE UNCHANGED <<rows, authors>>
      BY <2>1 DEF Log!vars, Superseded
    <2>2. ASSUME NEW w \in Writer, NEW vector \in BOOLEAN, Writes(w, vector) PROVE Step
      <3> DEFINE row    == NewRow(w, vector)
                 target == verdict[w].target_id
                 n      == Len(rows)
      <3>1. phase[w] = "insert" /\ Judged(w) /\ Unique(rows, target)
        BY <2>2 DEF Writes, IInv, Decided
      <3>2. row.supersedes = target /\ row.op = verdict[w].verb
        BY <3>1, NewRowTyped DEF IInv
      <3>3. verdict[w].verb \in {"add", "update", "invalidate"}
        BY <3>1 DEF IInv, HandOK, MemoryOperation, Judged
      <3> HIDE DEF row
      <3>4. /\ DOMAIN rows = 1..n /\ DOMAIN rows' = 1..n + 1 /\ n \in Nat /\ Len(rows') = n + 1
            /\ \A k \in DOMAIN rows : rows'[k] = rows[k]
            /\ rows'[n + 1] = row
        BY <2>2, WritesAppend DEF IInv, RowsOK, row
      <3>5. \A k \in DOMAIN rows : Superseded(rows', k) <=> Superseded(rows, k) \/ k = target
        BY <3>2, <3>4 DEF Superseded
      <3>6. ~Superseded(rows', n + 1)
        <4>1. \A j \in DOMAIN rows' : rows'[j].supersedes < j /\ j <= n + 1
          <5>1. Backwards'
            BY RowsStep DEF IInv
          <5> QED BY <3>4, <5>1 DEF Backwards
        <4>2. \A j \in DOMAIN rows' : rows'[j].supersedes \in Nat
          <5>1. rows' \in Seq(Row)
            BY RowsStep DEF IInv, RowsOK
          <5>2. \A j \in DOMAIN rows' : rows'[j] \in Row
            BY <5>1
          <5> QED BY <5>2 DEF Row
        <4>3. \A j \in DOMAIN rows' : rows'[j].supersedes # n + 1
          BY <3>4, <4>1, <4>2
        <4> QED BY <4>3 DEF Superseded
      <3>7. InForce' = (InForce \ {target})
                       \cup (IF verdict[w].verb = "invalidate" THEN {} ELSE {n + 1})
        BY <3>2, <3>4, <3>5, <3>6
      <3>8. verdict[w].verb # "add" => target \in InForce
        BY <3>1, <3>4 DEF Judged, Unique
      <3>9. target = 0 => target \notin InForce
        BY <3>4
      <3> HIDE DEF InForce
      <3>10. CASE verdict[w].verb = "add"
        <4>1. target = 0
          BY <3>1, <3>10 DEF Judged
        <4>2. InForce' = InForce \cup {n + 1}
          BY <3>7, <3>9, <3>10, <4>1
        <4> QED BY <3>4, <4>2 DEF Log!Learn, InForce
      <3>11. CASE verdict[w].verb = "update"
        <4>1. InForce' = (InForce \ {target}) \cup {n + 1}
          BY <3>7, <3>11
        <4> QED BY <3>4, <3>8, <3>11, <4>1 DEF Log!Revise, InForce
      <3>12. CASE verdict[w].verb = "invalidate"
        <4>1. InForce' = InForce \ {target}
          BY <3>7, <3>12
        <4> QED BY <3>4, <3>8, <3>12, <4>1 DEF Log!Forget, InForce
      <3> QED BY <3>3, <3>10, <3>11, <3>12
    <2> QED BY <2>1, <2>2, OnlyWritersWrite
  <1> QED BY <1>1, <1>2, Invariance, PTL DEF Spec, ImplementsLog, Log!Spec
=============================================================================
