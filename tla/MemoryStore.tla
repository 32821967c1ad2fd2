---------------------------- MODULE MemoryStore -----------------------------
(***************************************************************************)
(* memory/memory_store.py, memory/types.py and memory/schema.sql: the rows *)
(* of one user's long-term memory, the view of those in force, and what    *)
(* each statement of the store reads or inserts.  A row is never changed,  *)
(* so the table is a sequence and an id is a position in it.               *)
(*                                                                         *)
(* Every statement is scoped to a user: the rows are those of one.  Near   *)
(* is what the embedder finds similar enough; a row it failed for has no   *)
(* vector.  A user has fewer rows than the LIMIT of a search.              *)
(***************************************************************************)
EXTENDS Naturals, Sequences

CONSTANTS Content,      \* what a memory may say
          Near,         \* content -> the contents within NEIGHBOUR_THRESHOLD of it
          GuessTTL,     \* INFERRED_TTL_DAYS
          CurrentTTL,   \* TTL_DAYS[CURRENT]
          Horizon       \* bound: the last instant

Nothing == "NULL"    \* the content of a tombstone

ASSUME MemoryStoreAssumption ==
    /\ Nothing \notin Content
    /\ Near \in [Content -> SUBSET Content]
    /\ \A c \in Content : c \in Near[c]
    /\ GuessTTL \in Nat \ {0} /\ CurrentTTL \in Nat \ {0}
    /\ Horizon \in Nat

MemoryType == {"directive", "profile", "current", "event"}
Operation  == {"add", "update", "invalidate"}

Inferred   == 1
Implied    == 2
Confidence == Inferred..3

MemoryContent == [content : Content, memory_type : MemoryType, confidence : Confidence]

\* supersedes 0 and expires 0 are NULL.
Row == [op : Operation, memory_type : MemoryType, content : Content \cup {Nothing},
        confidence : Confidence, supersedes : Nat, expires : Nat, vector : BOOLEAN]

\* The CHECK constraints content_matches_op and supersedes_matches_op.
WellFormedRow(row) == /\ row.op = "invalidate" <=> row.content = Nothing
                      /\ row.op = "add" <=> row.supersedes = 0

-----------------------------------------------------------------------------
\* expires_at, in instants; 0 for a memory that does not expire.
ExpiresAt(draft, now) ==
    LET days == {n \in {GuessTTL, CurrentTTL} :
                    \/ n = GuessTTL /\ draft.confidence <= Inferred
                    \/ n = CurrentTTL /\ draft.memory_type = "current"}
    IN  IF days = {} THEN 0 ELSE now + CHOOSE n \in days : \A m \in days : n <= m

Superseded(rows, i) == \E j \in DOMAIN rows : rows[j].supersedes = i

Expired(row, now) == row.expires # 0 /\ row.expires <= now

\* The view without its NOT EXISTS: what was replaced is still in force.
ActiveUnlessExpired(rows, now) ==
    {i \in DOMAIN rows : rows[i].op # "invalidate" /\ ~Expired(rows[i], now)}

\* active_memories, as ids
Active(rows, now) ==
    {i \in DOMAIN rows : /\ rows[i].op # "invalidate"
                         /\ ~Superseded(rows, i)
                         /\ ~Expired(rows[i], now)}

\* one_successor_per_memory, left to the check that get made before.
UniqueIsGet(rows, target) == TRUE

\* one_successor_per_memory lets a row that supersedes target in.
Unique(rows, target) == target # 0 => ~Superseded(rows, target)

-----------------------------------------------------------------------------
\* The rows add, update and delete insert.

AddRow(draft, now, vector) ==
    [op |-> "add", memory_type |-> draft.memory_type, content |-> draft.content,
     confidence |-> draft.confidence, supersedes |-> 0, expires |-> ExpiresAt(draft, now),
     vector |-> vector]

UpdateRow(draft, now, target, vector) ==
    [AddRow(draft, now, vector) EXCEPT !.op = "update", !.supersedes = target]

\* A tombstone that keeps what it retires.
TombstoneWithContent(rows, target) ==
    [rows[target] EXCEPT !.op = "invalidate", !.supersedes = target, !.expires = 0,
                         !.vector = FALSE]

\* A tombstone keeps the type and the confidence of its target, and never expires.
Tombstone(rows, target) ==
    [rows[target] EXCEPT !.op = "invalidate", !.content = Nothing,
                         !.supersedes = target, !.expires = 0, !.vector = FALSE]

-----------------------------------------------------------------------------
\* _vector_search above the threshold.
Neighbours(rows, now, content) ==
    {i \in Active(rows, now) : rows[i].vector /\ rows[i].content \in Near[content]}

\* active(types=INJECTED_TYPES, min_confidence=MIN_INJECT_CONFIDENCE)
Standing(rows, now) ==
    {i \in Active(rows, now) : rows[i].memory_type = "directive"
                               /\ rows[i].confidence >= Implied}
=============================================================================
