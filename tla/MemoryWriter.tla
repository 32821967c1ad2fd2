---------------------------- MODULE MemoryWriter ----------------------------
(***************************************************************************)
(* memory/memory_writer.py, with the recall of memory_store.py: writers,   *)
(* each the middleware of one session in a process of its own, extract     *)
(* memories from what was said and reconcile them against the store of the *)
(* one user they serve.                                                    *)
(*                                                                         *)
(* A writer's pool has one worker.  A draft goes through search (with the  *)
(* verdict asked for on what it found), get and insert, each a transaction *)
(* of its own; other writers, the clock and a crash may come in between.   *)
(* A turn stands for a question with its answer.  A session's log outlives *)
(* its process, the queue and the draft in hand do not.                    *)
(***************************************************************************)
EXTENDS MemoryStore, SequencesExt, FiniteSetsExt

CONSTANTS Writer,
          Batches,      \* the lists of drafts one extraction may return
          Recalling,    \* the writers whose agent recalls memories
          FlushEvery,   \* writer -> flush_every
          MaxAge,       \* MAX_AGE_SECONDS
          PerFlush,     \* MAX_EVENTS_PER_FLUSH, in turns
          MaxTurns,     \* bound: writer -> turns of its session
          MaxFaults     \* bound: crashes of a process, and calls the embedder fails

ASSUME MemoryWriterAssumption ==
    /\ Batches \subseteq Seq(MemoryContent)
    /\ Recalling \subseteq Writer
    /\ FlushEvery \in [Writer -> Nat \ {0}] /\ MaxTurns \in [Writer -> Nat]
    /\ MaxAge \in Nat /\ PerFlush \in Nat \ {0} /\ MaxFaults \in Nat

VARIABLES
    rows,       \* memory.user_memories
    now,
    said,       \* writer -> the turns of its session's log, each the instant of its question
    watermark,  \* writer -> through_seq of the last memory_flushed
    queue,      \* writer -> transcripts submitted to its pool, each the turns it renders
    drafts,     \* writer -> drafts not yet recorded; the head is in hand
    phase,      \* writer -> the next transaction of the draft in hand
    verdict,    \* writer -> the MemoryOperation decided for it
    recall,     \* writer -> the recall its agent has under way, or its result
    heard,      \* writer -> history: the turns the extractor answered for
    authors,    \* history: the writer of each row
    blinded,    \* history: the writers the embedder has failed
    faults

vars == <<rows, now, said, watermark, queue, drafts, phase, verdict, recall, heard, authors, blinded, faults>>

pool == <<queue, drafts, phase, verdict>>

MemoryOperation == [verb : {"add", "update", "invalidate", "noop"}, target_id : Nat]
Add  == [verb |-> "add", target_id |-> 0]
Noop == [verb |-> "noop", target_id |-> 0]

\* `since` is a history: how long the table was when the recall began.
Recall   == [phase : {"none", "searched", "done"}, ids : SUBSET (Nat \ {0}), since : Nat]
NoRecall == [phase |-> "none", ids |-> {}, since |-> 0]

TypeOK ==
    /\ rows \in Seq(Row)
    /\ \A i \in DOMAIN rows : WellFormedRow(rows[i])
    /\ now \in 0..Horizon
    /\ said \in [Writer -> Seq(0..Horizon)]
    /\ watermark \in [Writer -> Nat]
    /\ \A w \in Writer : watermark[w] <= Len(said[w]) /\ Len(said[w]) <= MaxTurns[w]
    /\ queue \in [Writer -> Seq(SUBSET Nat)]
    /\ drafts \in [Writer -> Seq(MemoryContent)]
    /\ phase \in [Writer -> {"idle", "search", "get", "insert"}]
    /\ \A w \in Writer : phase[w] = "idle" <=> drafts[w] = <<>>
    /\ verdict \in [Writer -> MemoryOperation]
    /\ recall \in [Writer -> Recall]
    /\ heard \in [Writer -> SUBSET Nat]
    /\ authors \in Seq(Writer) /\ Len(authors) = Len(rows)
    /\ blinded \subseteq Writer
    /\ faults \in 0..MaxFaults

Init ==
    /\ rows = <<>>
    /\ now = 0
    /\ said = [w \in Writer |-> <<>>]
    /\ watermark = [w \in Writer |-> 0]
    /\ queue = [w \in Writer |-> <<>>]
    /\ drafts = [w \in Writer |-> <<>>]
    /\ phase = [w \in Writer |-> "idle"]
    /\ verdict = [w \in Writer |-> Noop]
    /\ recall = [w \in Writer |-> NoRecall]
    /\ heard = [w \in Writer |-> {}]
    /\ authors = <<>>
    /\ blinded = {}
    /\ faults = 0

-----------------------------------------------------------------------------
\* When

\* unrecorded_turns, the watermark's own turn included.
UnrecordedFromMark(turns, mark) == {i \in DOMAIN turns : i >= mark}

\* unrecorded_turns
Unrecorded(turns, mark) == {i \in DOMAIN turns : i > mark}

\* _due, over the turns of the log and those of them that are unrecorded
FlushDue(w, turns, new) ==
    /\ new # {}
    /\ \/ Cardinality(new) >= FlushEvery[w]
       \/ now - turns[Min(new)] >= MaxAge

\* render_transcript: the last of the turns.
Transcript(turns) == {i \in turns : Cardinality({j \in turns : j >= i}) <= PerFlush}

\* A run of the session asks its question, and is paused, halted by an error or
\* abandoned: on_run_end never comes.
RunStops(w) ==
    /\ Len(said[w]) < MaxTurns[w]
    /\ said' = [said EXCEPT ![w] = Append(@, now)]
    /\ UNCHANGED <<rows, now, watermark, pool, recall, heard, authors, blinded, faults>>

\* on_run_end, where nothing is due.
RunEnds(w) ==
    /\ Len(said[w]) < MaxTurns[w]
    /\ LET turns == Append(said[w], now)
       IN  /\ ~FlushDue(w, turns, Unrecorded(turns, watermark[w]))
           /\ said' = [said EXCEPT ![w] = turns]
    /\ UNCHANGED <<rows, now, watermark, pool, recall, heard, authors, blinded, faults>>

\* on_run_end with a flush: the watermark is stamped, then the job submitted.
Flushes(w) ==
    /\ Len(said[w]) < MaxTurns[w]
    /\ LET turns == Append(said[w], now)
           new   == Unrecorded(turns, watermark[w])
       IN  /\ FlushDue(w, turns, new)
           /\ said' = [said EXCEPT ![w] = turns]
           /\ watermark' = [watermark EXCEPT ![w] = Max(new)]
           /\ queue' = [queue EXCEPT ![w] = Append(@, Transcript(new))]
    /\ UNCHANGED <<rows, now, drafts, phase, verdict, recall, heard, authors, blinded, faults>>

-----------------------------------------------------------------------------
\* Extract

\* The next draft of the batch, if there is one.
Proceed(w, rest) ==
    /\ drafts' = [drafts EXCEPT ![w] = rest]
    /\ phase' = [phase EXCEPT ![w] = IF rest = <<>> THEN "idle" ELSE "search"]
    /\ verdict' = [verdict EXCEPT ![w] = Noop]

Extract(w) ==
    /\ phase[w] = "idle" /\ queue[w] # <<>>
    /\ \E batch \in Batches : Proceed(w, batch)
    /\ queue' = [queue EXCEPT ![w] = Tail(@)]
    /\ heard' = [heard EXCEPT ![w] = @ \cup Head(queue[w])]
    /\ UNCHANGED <<rows, now, said, watermark, recall, authors, blinded, faults>>

\* The model call fails, or answers no MemoryContents.
ExtractFails(w) ==
    /\ phase[w] = "idle" /\ queue[w] # <<>>
    /\ queue' = [queue EXCEPT ![w] = Tail(@)]
    /\ UNCHANGED <<rows, now, said, watermark, drafts, phase, verdict, recall, heard, authors, blinded, faults>>

-----------------------------------------------------------------------------
\* Record

\* _enforce, without the rule for guesses.
EnforceOffered(draft, candidates, asked) ==
    IF asked.verb \in {"update", "invalidate"} /\ asked.target_id \notin candidates
      THEN Add ELSE asked

\* _enforce: what is left of the model's verdict.
Enforce(draft, candidates, asked) ==
    IF asked.verb \notin {"update", "invalidate"} THEN asked
    ELSE IF asked.target_id \notin candidates THEN Add
    ELSE IF /\ draft.confidence <= Inferred
            /\ rows[asked.target_id].confidence > draft.confidence THEN Noop
    ELSE asked

\* _decide without the look for the same words.
DecideByModel(draft, candidates) ==
    {Enforce(draft, candidates, asked) :
        asked \in {Add, Noop} \cup [verb : {"update", "invalidate"}, target_id : candidates]}

\* _decide: every verdict it may come to.  A failed or empty answer, and an id
\* that was not offered, come to Add.
Decide(draft, candidates) ==
    CASE candidates = {} -> {Add}
      [] \E i \in candidates : rows[i].content = draft.content -> {Noop}
      [] OTHER -> {Enforce(draft, candidates, asked) :
                      asked \in {Add, Noop}
                                \cup [verb : {"update", "invalidate"}, target_id : candidates]}

\* search and _decide
Search(w) ==
    /\ phase[w] = "search"
    /\ LET draft == Head(drafts[w])
       IN  \E v \in Decide(draft, Neighbours(rows, now, draft.content)) :
             IF v.verb = "noop"
               THEN Proceed(w, Tail(drafts[w]))
               ELSE /\ verdict' = [verdict EXCEPT ![w] = v]
                    /\ phase' = [phase EXCEPT ![w] = IF v.verb = "add" THEN "insert" ELSE "get"]
                    /\ UNCHANGED drafts
    /\ UNCHANGED <<rows, now, said, watermark, queue, recall, heard, authors, blinded, faults>>

\* The embedder fails and search finds nothing: the draft is added.
SearchesBlind(w) ==
    /\ phase[w] = "search" /\ faults < MaxFaults
    /\ faults' = faults + 1 /\ blinded' = blinded \cup {w}
    /\ verdict' = [verdict EXCEPT ![w] = Add]
    /\ phase' = [phase EXCEPT ![w] = "insert"]
    /\ UNCHANGED <<rows, now, said, watermark, queue, drafts, recall, heard, authors>>

\* get, in update and delete.  A target that is no longer in force is a
\* KeyError, and _write adds the draft instead.
Get(w) ==
    /\ phase[w] = "get"
    /\ verdict' = [verdict EXCEPT ![w] = IF @.target_id \in Active(rows, now) THEN @ ELSE Add]
    /\ phase' = [phase EXCEPT ![w] = "insert"]
    /\ UNCHANGED <<rows, now, said, watermark, queue, drafts, recall, heard, authors, blinded, faults>>

\* The row the verdict writes.
NewRow(w, vector) ==
    LET draft == Head(drafts[w])
    IN  CASE verdict[w].verb = "add"    -> AddRow(draft, now, vector)
          [] verdict[w].verb = "update" -> UpdateRow(draft, now, verdict[w].target_id, vector)
          [] OTHER                      -> Tombstone(rows, verdict[w].target_id)

Writes(w, vector) ==
    /\ phase[w] = "insert"
    /\ Unique(rows, verdict[w].target_id)
    /\ rows' = Append(rows, NewRow(w, vector))
    /\ authors' = Append(authors, w)
    /\ Proceed(w, Tail(drafts[w]))
    /\ UNCHANGED <<now, said, watermark, queue, recall, heard>>

Insert(w) == Writes(w, TRUE) /\ UNCHANGED <<blinded, faults>>

\* The embedder fails and the row goes in without its vector.
InsertsBare(w) ==
    /\ verdict[w].verb \in {"add", "update"} /\ faults < MaxFaults
    /\ faults' = faults + 1 /\ blinded' = blinded \cup {w}
    /\ Writes(w, FALSE)

\* The constraint refuses the row, or the database cannot be reached.  Neither
\* error is a KeyError: it ends in _run, which goes on to the next draft.
RecordFails(w) ==
    /\ phase[w] # "idle"
    /\ Proceed(w, Tail(drafts[w]))
    /\ UNCHANGED <<rows, now, said, watermark, queue, recall, heard, authors, blinded, faults>>

-----------------------------------------------------------------------------
\* Recall: search(with_directives=True), two queries on two connections.  Where
\* the embedder fails, the first finds nothing, as with no rows.

RecallNear(w) ==
    /\ w \in Recalling /\ recall[w].phase = "none"
    /\ \E ids \in {Neighbours(rows, now, c) : c \in Content} :
          recall' = [recall EXCEPT ![w] = [phase |-> "searched", since |-> Len(rows),
                                           ids |-> ids]]
    /\ UNCHANGED <<rows, now, said, watermark, pool, heard, authors, blinded, faults>>

\* The standing directives come first and a row comes once: a union of ids.
RecallStanding(w) ==
    /\ recall[w].phase = "searched"
    /\ recall' = [recall EXCEPT ![w] = [phase |-> "done", since |-> @.since,
                                        ids |-> @.ids \cup Standing(rows, now)]]
    /\ UNCHANGED <<rows, now, said, watermark, pool, heard, authors, blinded, faults>>

RecallUsed(w) ==
    /\ recall[w].phase = "done"
    /\ recall' = [recall EXCEPT ![w] = NoRecall]
    /\ UNCHANGED <<rows, now, said, watermark, pool, heard, authors, blinded, faults>>

-----------------------------------------------------------------------------
\* The process dies and is started again with the session's log.
Crash(w) ==
    /\ faults < MaxFaults
    /\ faults' = faults + 1
    /\ queue' = [queue EXCEPT ![w] = <<>>]
    /\ Proceed(w, <<>>)
    /\ recall' = [recall EXCEPT ![w] = NoRecall]
    /\ UNCHANGED <<rows, now, said, watermark, heard, authors, blinded>>

Advance ==
    /\ now < Horizon
    /\ now' = now + 1
    /\ UNCHANGED <<rows, said, watermark, pool, recall, heard, authors, blinded, faults>>

Next ==
    \/ \E w \in Writer : \/ RunStops(w) \/ RunEnds(w) \/ Flushes(w)
                         \/ Extract(w) \/ ExtractFails(w)
                         \/ Search(w) \/ SearchesBlind(w) \/ Get(w)
                         \/ Insert(w) \/ InsertsBare(w) \/ RecordFails(w)
                         \/ RecallNear(w) \/ RecallStanding(w) \/ RecallUsed(w)
                         \/ Crash(w)
    \/ Advance

Spec == Init /\ [][Next]_vars

-----------------------------------------------------------------------------
\* Properties

\* schema.sql: history is a chain, never a fork.  However the writers race
\* between get and insert, the table implements the abstract log.
Log == INSTANCE MemoryLog WITH
           written <- Len(rows),
           inForce <- {i \in DOMAIN rows : rows[i].op # "invalidate" /\ ~Superseded(rows, i)}

ImplementsLog == Log!Spec

\* A guess replaces or retires nothing that was better founded, though the
\* verdict was passed on rows that others have changed since.
GuessesSpareTheStated ==
    [][\A w \in Writer :
          /\ Len(rows') > Len(rows)
          /\ drafts'[w] # drafts[w]
          /\ Head(drafts[w]).confidence = Inferred
          => LET target == rows'[Len(rows')].supersedes
             IN  target # 0 => rows[target].confidence = Inferred]_vars

\* "One worker, so extractions queue instead of racing into the store": no
\* writer leaves two memories in force that say the same, unless the embedder
\* failed it.
NoEchoes ==
    \A i, j \in Active(rows, now) :
        /\ i # j /\ rows[i].content = rows[j].content
        /\ authors[i] = authors[j]
        => authors[i] \in blinded

\* MemoryWriter: "two flushes cannot dispatch the same turns and a restart does
\* not re-read what it already recorded."
TurnsAreExtractedOnce ==
    \A w \in Writer : \A k \in DOMAIN queue[w] :
        /\ queue[w][k] \cap heard[w] = {}
        /\ \A l \in 1..k - 1 : queue[w][k] \cap queue[w][l] = {}

\* A recall holds a memory beside its own successor only if the successor was
\* written while the recall was under way.
VersionsMixOnlyInARace ==
    \A w \in Writer : \A i, j \in recall[w].ids :
        rows[j].supersedes = i => j > recall[w].since

\* event_store.py, unrecorded_turns: "if extraction fails, the turns are still
\* here and it runs again."  Whatever lies behind the watermark was heard by
\* the extractor, or is about to be.
FailedTurnsAreKept ==
    \A w \in Writer : \A i \in 1..watermark[w] :
        i \in heard[w] \cup UNION Range(queue[w])
=============================================================================
