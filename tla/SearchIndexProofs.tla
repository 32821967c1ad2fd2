------------------------- MODULE SearchIndexProofs --------------------------
(***************************************************************************)
(* Theorems about the SearchIndex, for any documents, chunk size and       *)
(* overlap, and any runs and stops.                                        *)
(***************************************************************************)
EXTENDS SearchIndex, SequenceTheorems, WellFoundedInduction, TLAPS

-----------------------------------------------------------------------------
\* Lemmas about the pieces of a text.

LEMMA SteppingReaches ==
    ASSUME NEW s \in Nat \ {0}, NEW n \in Nat \ {0}
    PROVE  \E i \in Nat \ {0} : (i - 1) * s < n /\ n <= i * s
  <1> DEFINE T == {i \in Nat : n <= i * s}
  <1>1. n * s >= n
    OBVIOUS
  <1>2. T \subseteq Nat /\ T # {}
    BY <1>1
  <1>3. PICK i \in T : \A j \in T : ~(<<j, i>> \in OpToRel(<, Nat))
    <2> HIDE DEF T
    <2> QED BY <1>2, NatLessThanWellFounded, WFMin
  <1>4. i \in Nat /\ n <= i * s
    BY <1>3
  <1>5. i # 0
    BY <1>4
  <1>6. i - 1 \in Nat /\ i - 1 < i
    BY <1>4, <1>5
  <1>7. i - 1 \notin T
    BY <1>3, <1>4, <1>6 DEF OpToRel
  <1>8. (i - 1) * s < n
    <2>1. (i - 1) * s \in Int
      BY <1>6
    <2> QED BY <1>6, <1>7, <2>1
  <1> QED BY <1>4, <1>5, <1>8

\* Wherever a phrase of at most Overlap + 1 characters stands, a chunk that is
\* cut has all of it: the first one that reaches its end.
LEMMA SomeChunkCovers ==
    ASSUME NEW text \in Text, NEW p \in Phrases(text)
    PROVE  \E i \in Indices(text) : i * Step + 1 <= p[1] /\ p[2] <= i * Step + Size
  <1>1. /\ Len(text) \in Nat /\ p[1] \in 1..Len(text) /\ p[2] \in 1..Len(text)
        /\ p[1] <= p[2] /\ p[2] <= p[1] + Overlap
    BY SearchIndexAssumption DEF Phrases
  <1>2. /\ Size \in Nat /\ Overlap \in Nat /\ Step \in Nat \ {0} /\ Size = Step + Overlap
    BY SearchIndexAssumption DEF Step
  <1>3. CASE p[2] <= Size
    <2>1. 0 \in Indices(text)
      BY <1>1 DEF Indices
    <2>2. 0 * Step = 0
      BY <1>2
    <2> QED BY <1>1, <1>2, <1>3, <2>1, <2>2
  <1>4. CASE p[2] > Size
    <2> DEFINE n == p[2] - Size
    <2>1. n \in Nat \ {0}
      BY <1>1, <1>2, <1>4
    <2>2. PICK i \in Nat \ {0} : (i - 1) * Step < n /\ n <= i * Step
      BY <1>2, <2>1, SteppingReaches
    <2>3. i * Step \in Int /\ (i - 1) * Step \in Int /\ i * Step = (i - 1) * Step + Step
      BY <1>2
    <2>4. i - 1 <= (i - 1) * Step
      BY <1>2
    <2>5. i \in 0..Len(text) /\ (i - 1) * Step + Size < Len(text)
      BY <1>1, <1>2, <2>2, <2>3, <2>4
    <2>6. i \in Indices(text)
      BY <2>5 DEF Indices
    <2>7. i * Step + 1 <= p[1] /\ p[2] <= i * Step + Size
      BY <1>1, <1>2, <2>2, <2>3
    <2> QED BY <2>6, <2>7
  <1> QED BY <1>1, <1>2, <1>3, <1>4

LEMMA SomeChunkHolds ==
    ASSUME NEW text \in Text, NEW p \in Phrases(text)
    PROVE  \E i \in Indices(text) : Holds(Chunk(text, i), SubSeq(text, p[1], p[2]))
  <1> DEFINE n == Len(text)
  <1>1. /\ text \in Seq(Character) /\ n \in Nat /\ p[1] \in 1..n /\ p[2] \in 1..n
        /\ p[1] <= p[2]
    BY SearchIndexAssumption DEF Phrases
  <1>2. PICK i \in Indices(text) : i * Step + 1 <= p[1] /\ p[2] <= i * Step + Size
    BY SomeChunkCovers
  <1> DEFINE first == i * Step + 1
             end == i * Step + Size
             last == IF end <= n THEN end ELSE n
             k == p[1] - first
             phrase == SubSeq(text, p[1], p[2])
  <1>3. i \in Nat /\ Step \in Nat /\ Size \in Nat
    BY SearchIndexAssumption, <1>1 DEF Indices, Step
  <1>4. i * Step \in Nat
    BY <1>3
  <1>5. /\ first \in 1..n /\ last \in 1..n /\ k \in Nat
        /\ first + k = p[1] /\ p[2] <= last
    BY <1>1, <1>2, <1>3, <1>4
  <1>6. Chunk(text, i) = SubSeq(text, first, last)
    BY DEF Chunk
  <1> HIDE DEF first, last, k, n
  <1>7. Len(SubSeq(text, first, last)) = last - first + 1 /\ Len(phrase) = p[2] - p[1] + 1
    <2>1. \A j \in first..last : text[j] \in Character
      BY <1>1, <1>5 DEF n
    <2>2. \A j \in p[1]..p[2] : text[j] \in Character
      BY <1>1 DEF n
    <2>3. first <= last /\ first \in Int /\ last \in Int /\ p[1] \in Int /\ p[2] \in Int
      BY <1>1, <1>5
    <2>4. Len(SubSeq(text, first, last)) = last - first + 1
      BY <2>1, <2>3, SubSeqProperties
    <2>5. Len(phrase) = p[2] - p[1] + 1
      BY <1>1, <2>2, <2>3, SubSeqProperties
    <2> QED BY <2>4, <2>5
  <1>8. k \in 0..Len(SubSeq(text, first, last)) - Len(phrase)
    BY <1>1, <1>5, <1>7
  <1>9. PICK l \in Int : l = Len(phrase) /\ l = p[2] - p[1] + 1
    BY <1>1, <1>7
  <1> HIDE DEF phrase
  <1>10. /\ k + 1 \in 1..last - first + 1 /\ k + l \in 1..last - first + 1
         /\ first + (k + 1) - 1 = p[1] /\ first + (k + l) - 1 = p[2]
    <2>1. /\ p[1] \in Int /\ p[2] \in Int /\ first \in Int /\ last \in Int
          /\ k \in Nat /\ first + k = p[1] /\ p[1] <= p[2] /\ p[2] <= last
      BY <1>1, <1>5
    <2>2. k + 1 \in 1..last - first + 1
      BY <2>1
    <2>3. k + l \in 1..last - first + 1
      BY <2>1, <1>9
    <2>4. first + (k + 1) - 1 = p[1]
      BY <2>1
    <2>5. first + (k + l) - 1 = p[2]
      BY <2>1, <1>9
    <2> QED BY <2>2, <2>3, <2>4, <2>5
  <1>11. SubSeq(SubSeq(text, first, last), k + 1, k + l)
            = SubSeq(text, first + (k + 1) - 1, first + (k + l) - 1)
    BY <1>1, <1>5, <1>10, SubSeqOfSubSeq DEF n
  <1>12. SubSeq(SubSeq(text, first, last), k + 1, k + Len(phrase)) = phrase
    BY <1>9, <1>10, <1>11 DEF phrase
  <1> QED BY <1>6, <1>8, <1>12 DEF Holds, phrase

-----------------------------------------------------------------------------
\* Lemmas about the stores.  A store holds rows if each of them is in it, and no
\* other row under its document and position.

Key(row) == <<row.doc, row.index>>

HoldsRows(stored, rows) ==
    /\ rows \subseteq stored
    /\ \A r \in stored, row \in rows : Key(r) = Key(row) => r = row

LEMMA UpsertHolds ==
    ASSUME NEW stored, NEW rows, NEW new, HoldsRows(stored, rows),
           \A r, q \in rows \cup new : Key(r) = Key(q) => r = q
    PROVE  HoldsRows(Upsert(stored, new), rows \cup new)
  <1>1. Upsert(stored, new) = new \cup {r \in stored : \A n \in new : Key(r) # Key(n)}
    BY DEF Upsert, Key
  <1>2. \A r \in rows : r \in new \/ \A n \in new : Key(r) # Key(n)
    OBVIOUS
  <1>3. rows \cup new \subseteq Upsert(stored, new)
    BY <1>1, <1>2 DEF HoldsRows
  <1>4. ASSUME NEW r \in Upsert(stored, new), NEW row \in rows \cup new, Key(r) = Key(row)
        PROVE  r = row
    BY <1>1, <1>4 DEF HoldsRows
  <1> QED BY <1>3, <1>4 DEF HoldsRows

\* The rows of one reading have each a key of their own.
LEMMA RowsAreKeyed ==
    ASSUME NEW documents, NEW r \in Rows(documents), NEW q \in Rows(documents),
           Key(r) = Key(q)
    PROVE  r = q
  <1>1. PICK d \in Doc : \E i \in Indices(documents[d]) :
            r = [doc |-> d, index |-> i, text |-> Chunk(documents[d], i)]
    BY DEF Rows
  <1>2. PICK e \in Doc : \E j \in Indices(documents[e]) :
            q = [doc |-> e, index |-> j, text |-> Chunk(documents[e], j)]
    BY DEF Rows
  <1>3. /\ r = [doc |-> d, index |-> r.index, text |-> Chunk(documents[d], r.index)]
        /\ q = [doc |-> e, index |-> q.index, text |-> Chunk(documents[e], q.index)]
    BY <1>1, <1>2
  <1>4. d = e /\ r.index = q.index
    BY <1>1, <1>2 DEF Key
  <1> QED BY <1>3, <1>4

-----------------------------------------------------------------------------
\* The inductive invariant: what each phase has behind it.

Written ==
    /\ read \in Documents
    /\ phase \in {"index", "done"} => HoldsRows(vectors, Rows(read))
    /\ phase \in {"index", "done"} => HoldsRows(index, Rows(read) \ unwritten)
    /\ phase = "index" => unwritten \subseteq Rows(read)
    /\ phase = "done" => unwritten = {}

\* A text the model was run on is cached, about to be, or lost in a stop.
Accounted ==
    /\ paid \subseteq cache \cup fresh \cup lost
    /\ phase # "store" => fresh = {}

LEMMA WrittenInductive == Spec => []Written
  <1>1. Init => Written
    BY DEF Init, Written, Documents
  <1>2. ASSUME Written, [Next]_vars PROVE Written'
    <2> USE <1>2 DEF Written
    <2>1. CASE Begins
      BY <2>1 DEF Begins
    <2>2. CASE Encodes
      BY <2>2 DEF Encodes
    <2>3. CASE Stores
      BY <2>3 DEF Stores
    <2>4. CASE Embeds
      <3>1. /\ vectors' = Upsert(vectors, Rows(read)) /\ index' = index /\ read' = read
            /\ phase' = "index" /\ unwritten' = Rows(read)
        BY <2>4 DEF Embeds
      <3>2. HoldsRows(vectors, {})
        BY DEF HoldsRows
      <3>3. HoldsRows(Upsert(vectors, Rows(read)), {} \cup Rows(read))
        BY <3>2, UpsertHolds, RowsAreKeyed
      <3>4. HoldsRows(vectors', Rows(read))
        BY <3>1, <3>3
      <3>5. HoldsRows(index, Rows(read) \ Rows(read))
        BY DEF HoldsRows
      <3> QED BY <3>1, <3>4, <3>5
    <2>5. CASE IndexesRow
      <3>1. PICK row \in unwritten : /\ index' = Upsert(index, {row})
                                     /\ unwritten' = unwritten \ {row}
        BY <2>5 DEF IndexesRow
      <3>2. phase = "index" /\ UNCHANGED <<phase, read, vectors>>
        BY <2>5 DEF IndexesRow
      <3> DEFINE rows == Rows(read) \ unwritten
      <3>3. row \in Rows(read) /\ rows \cup {row} = Rows(read) \ unwritten'
        BY <3>1, <3>2
      <3>4. \A r, q \in rows \cup {row} : Key(r) = Key(q) => r = q
        BY <3>3, RowsAreKeyed
      <3>5. HoldsRows(Upsert(index, {row}), rows \cup {row})
        BY <3>2, <3>4, UpsertHolds
      <3>6. HoldsRows(index', Rows(read) \ unwritten')
        BY <3>1, <3>3, <3>5
      <3> QED BY <3>1, <3>2, <3>6
    <2>6. CASE Returns
      BY <2>6 DEF Returns
    <2>7. CASE Stops
      BY <2>7 DEF Stops
    <2>8. CASE UNCHANGED vars
      BY <2>8 DEF vars
    <2> QED BY <2>1, <2>2, <2>3, <2>4, <2>5, <2>6, <2>7, <2>8 DEF Next
  <1> QED BY <1>1, <1>2, PTL DEF Spec

LEMMA AccountedInductive == Spec => []Accounted
  <1>1. Init => Accounted
    BY DEF Init, Accounted
  <1>2. ASSUME Accounted, [Next]_vars PROVE Accounted'
    BY <1>2 DEF Accounted, Next, vars, Begins, Encodes, Stores, Embeds, IndexesRow,
                Returns, Stops
  <1> QED BY <1>1, <1>2, PTL DEF Spec

-----------------------------------------------------------------------------
\* When a run of the pipeline returns, every short phrase of every document it
\* read is whole in a row of both stores, and nothing stands in that row's place:
\* for every text, every chunk size and every overlap below it.
THEOREM PhrasesAreFound == Spec => []EveryPhraseIsFound
  <1>1. Written => EveryPhraseIsFound
    <2> SUFFICES ASSUME Written, phase = "done", NEW d \in Doc, read[d] # Absent,
                        NEW p \in Phrases(read[d])
                 PROVE  \E row \in vectors \cap index :
                          /\ row.doc = d
                          /\ Holds(row.text, SubSeq(read[d], p[1], p[2]))
                          /\ \A r \in vectors \cup index :
                                r.doc = d /\ r.index = row.index => r = row
      BY DEF EveryPhraseIsFound
    <2>1. read[d] \in Text
      BY DEF Written, Documents
    <2>2. PICK i \in Indices(read[d]) : Holds(Chunk(read[d], i), SubSeq(read[d], p[1], p[2]))
      BY <2>1, SomeChunkHolds
    <2> DEFINE row == [doc |-> d, index |-> i, text |-> Chunk(read[d], i)]
    <2>3. row \in Rows(read)
      BY DEF Rows
    <2>4. HoldsRows(vectors, Rows(read)) /\ HoldsRows(index, Rows(read))
      BY DEF Written
    <2>5. row.doc = d /\ row.index = i /\ row.text = Chunk(read[d], i) /\ Key(row) = <<d, i>>
      BY DEF Key
    <2> HIDE DEF row
    <2>6. row \in vectors \cap index
      BY <2>3, <2>4 DEF HoldsRows
    <2>7. \A r \in vectors \cup index : Key(r) = Key(row) => r = row
      BY <2>3, <2>4 DEF HoldsRows
    <2>8. \A r \in vectors \cup index : r.doc = d /\ r.index = row.index => r = row
      BY <2>5, <2>7 DEF Key
    <2> QED BY <2>2, <2>5, <2>6, <2>8
  <1> QED BY <1>1, WrittenInductive, PTL

\* The model is run again on a text only if a run stopped before it had stored
\* the first result, however many runs there are.
THEOREM PaidOnce == Spec => TextsArePaidOnce
  <1>1. ASSUME Accounted, [Next]_vars PROVE [fresh' \cap paid \subseteq fresh \cup lost]_vars
    BY <1>1 DEF Accounted, Next, vars, Begins, Encodes, Stores, Embeds, IndexesRow,
                Returns, Stops, Missing
  <1> QED BY <1>1, AccountedInductive, PTL DEF Spec, TextsArePaidOnce
=============================================================================
