---------------------------- MODULE SearchIndex -----------------------------
(***************************************************************************)
(* agent/search/: rag_pipeline.py fills two stores from the documents of a *)
(* database, with documents.py, embedding_cache.py, vector_search.py and   *)
(* text_search.py.  A run cuts every document into chunks, embeds them     *)
(* through a cache, upserts their vectors in one transaction, and indexes  *)
(* them row by row for text search.  It may stop anywhere, and is started  *)
(* again some time.  Documents change meanwhile.                           *)
(*                                                                         *)
(* A text is a sequence of characters.  A vector is a function of the text *)
(* that was embedded, under one model, and is represented by it.           *)
(***************************************************************************)
EXTENDS Integers, Sequences

CONSTANTS Doc,
          Character,
          Text,     \* what a document may say
          Absent,   \* in place of a text: the document is not in the database
          Size,     \* chunk_documents(size, overlap)
          Overlap

ASSUME SearchIndexAssumption ==
    /\ Text \subseteq Seq(Character)
    /\ Absent \notin Text
    /\ Size \in Nat /\ Overlap \in 0..Size - 1

VARIABLES
    phase,      \* where the run is: the next of its transactions
    read,       \* what the run's query returned, or the last one's
    fresh,      \* texts encoded and not in the cache yet
    cache,      \* embedding_cache: the texts it has vectors for
    vectors,    \* the vector table
    unwritten,  \* rows the bulk request has not indexed yet
    index,      \* the text index
    paid,       \* history: the texts the model was ever run on
    lost        \* history: the texts whose vectors a stop lost

vars == <<phase, read, fresh, cache, vectors, unwritten, index, paid, lost>>

Documents == [Doc -> Text \cup {Absent}]

-----------------------------------------------------------------------------
\* chunk_documents

\* Cutting without the overlap.
StepApart == Size

Step == Size - Overlap

\* The chunks of a text: one for every text, and another for as long as the one
\* before does not reach the end.
Indices(text) == {i \in 0..Len(text) : i = 0 \/ (i - 1) * Step + Size < Len(text)}

Chunk(text, i) ==
    LET end == i * Step + Size
    IN  SubSeq(text, i * Step + 1, IF end <= Len(text) THEN end ELSE Len(text))

Rows(documents) ==
    UNION {{[doc |-> d, index |-> i, text |-> Chunk(documents[d], i)] : i \in Indices(documents[d])} :
              d \in {e \in Doc : documents[e] # Absent}}

\* _document_id, and the primary key of the vector table: a row replaces the one
\* stored for its document and position.
Upsert(stored, new) ==
    new \cup {r \in stored : \A n \in new : <<r.doc, r.index>> # <<n.doc, n.index>>}

Texts(rows) == {row.text : row \in rows}

\* vectors_for with an empty cache.
MissingAll(texts, cached) == texts

\* vectors_for: the texts that have to be embedded, each once.
Missing(texts, cached) == texts \ cached

-----------------------------------------------------------------------------
Init ==
    /\ phase = "idle"
    /\ read = [d \in Doc |-> Absent]
    /\ fresh = {} /\ cache = {}
    /\ vectors = {} /\ index = {} /\ unwritten = {}
    /\ paid = {} /\ lost = {}

\* run: the documents are queried once, as they are by now: any of them may have
\* been added, edited or deleted since the run before.
Begins ==
    /\ phase \in {"idle", "done"}
    /\ phase' = "encode" /\ read' \in Documents
    /\ UNCHANGED <<fresh, cache, vectors, unwritten, index, paid, lost>>

\* vectors_for: look up, then run the model on what is missing.
Encodes ==
    /\ phase = "encode"
    /\ fresh' = Missing(Texts(Rows(read)), cache)
    /\ paid' = paid \cup fresh'
    /\ phase' = "store"
    /\ UNCHANGED <<read, cache, vectors, unwritten, index, lost>>

Stores ==
    /\ phase = "store"
    /\ cache' = cache \cup fresh /\ fresh' = {}
    /\ phase' = "embed"
    /\ UNCHANGED <<read, vectors, unwritten, index, paid, lost>>

\* embed_documents
Embeds ==
    /\ phase = "embed"
    /\ vectors' = Upsert(vectors, Rows(read))
    /\ phase' = "index" /\ unwritten' = Rows(read)
    /\ UNCHANGED <<read, fresh, cache, index, paid, lost>>

\* TextSearch.index: one row of the bulk request.
IndexesRow ==
    /\ phase = "index"
    /\ \E row \in unwritten : /\ index' = Upsert(index, {row})
                              /\ unwritten' = unwritten \ {row}
    /\ UNCHANGED <<phase, read, fresh, cache, vectors, paid, lost>>

Returns ==
    /\ phase = "index" /\ unwritten = {}
    /\ phase' = "done"
    /\ UNCHANGED <<read, fresh, cache, vectors, unwritten, index, paid, lost>>

\* A store, the model or a row of the bulk request raises, or the process dies.
Stops ==
    /\ phase \notin {"idle", "done"}
    /\ phase' = "idle"
    /\ lost' = lost \cup fresh /\ fresh' = {} /\ unwritten' = {}
    /\ UNCHANGED <<read, cache, vectors, index, paid>>

Next == \/ Begins \/ Encodes \/ Stores \/ Embeds \/ IndexesRow
         \/ Returns \/ Stops

Spec == Init /\ [][Next]_vars

-----------------------------------------------------------------------------
\* Properties

\* Where a phrase may stand: no longer than the overlap by more than a character.
Phrases(text) == {p \in (1..Len(text)) \X (1..Len(text)) : p[1] <= p[2] /\ p[2] <= p[1] + Overlap}

Holds(piece, phrase) ==
    \E i \in 0..Len(piece) - Len(phrase) : SubSeq(piece, i + 1, i + Len(phrase)) = phrase

\* "A phrase straddling a boundary survives whole in at least one chunk", and "a
\* row in one names the same piece of text as the row beside it in the other":
\* when a run returns, whatever stopped those before it and whatever their rows,
\* every short phrase of every document it read is whole in a row both stores
\* have for that document, and neither store has another text in its place.
EveryPhraseIsFound ==
    phase = "done" =>
        \A d \in Doc : read[d] # Absent =>
            \A p \in Phrases(read[d]) :
                \E row \in vectors \cap index :
                    /\ row.doc = d /\ Holds(row.text, SubSeq(read[d], p[1], p[2]))
                    /\ \A r \in vectors \cup index :
                          r.doc = d /\ r.index = row.index => r = row

\* "Embedding only what is not cached": the model is run twice on a text only if
\* a run stopped before it had stored the first result.
TextsArePaidOnce == [][fresh' \cap paid \subseteq fresh \cup lost]_vars

\* embedding_cache.py: rebuilding the whole index is "the affordable way to pick
\* up edits and deletions".  When a run returns, the text index holds what the
\* documents say, and nothing they said before.
EditsArePickedUp == phase = "done" => index = Rows(read)
=============================================================================
