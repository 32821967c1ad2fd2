---------------------------- MODULE LocalServer -----------------------------
(***************************************************************************)
(* agent/providers/server.py: one model on one GPU behind HTTP.  Handlers  *)
(* and streams run on one event loop, which a generation blocks; a stream  *)
(* hands the loop back between its chunks and stays in mid-generation.     *)
(* request_lock keeps the next request out until then.  gpu_lock is only   *)
(* taken under it, for less than a step of the loop, and is left out.      *)
(*                                                                         *)
(* Of a request only its path through chat_completions matters, and of a   *)
(* reply only its form.                                                    *)
(***************************************************************************)
EXTENDS Naturals, Sequences, SequencesExt

CONSTANTS Request,
          None,       \* no request
          HasParser,  \* gemma4_parser was imported
          MaxPieces   \* bound: the pieces of text max_tokens allows

ASSUME LocalServerAssumption == /\ None \notin Request
                                /\ HasParser \in BOOLEAN
                                /\ MaxPieces \in Nat \ {0}

VARIABLES
    kind,      \* request -> the path it takes
    phase,     \* request -> where it is
    holder,    \* the stream that holds request_lock across steps, or None
    queue,     \* those that have asked for request_lock, in order
    steps,     \* request -> generations and pieces of a stream so far
    reply      \* request -> the form of what was sent back

vars == <<kind, phase, holder, queue, steps, reply>>

Kind  == {"stream", "schema", "tools", "chat"}
Phase == {"new", "opened", "waiting", "streaming", "abandoned", "ended"}
Reply == {"none", "rejected", "text", "object", "calls", "stream", "error", "cut"}

Midway == {"streaming", "abandoned"}

TypeOK ==
    /\ kind \in [Request -> Kind \cup {"none"}]
    /\ phase \in [Request -> Phase]
    /\ holder \in Request \cup {None}
    /\ \A r \in Request : holder = r <=> phase[r] \in Midway
    /\ queue \in Seq(Request) /\ IsInjective(queue)
    /\ \A r \in Request : r \in Range(queue) <=> phase[r] = "waiting"
    /\ steps \in [Request -> 0..MaxPieces + 2]
    /\ reply \in [Request -> Reply]
    /\ \A r \in Request : reply[r] # "none" <=> phase[r] = "ended"

Init ==
    /\ kind = [r \in Request |-> "none"]
    /\ phase = [r \in Request |-> "new"]
    /\ holder = None
    /\ queue = <<>>
    /\ steps = [r \in Request |-> 0]
    /\ reply = [r \in Request |-> "none"]

Goto(r, p)  == phase' = [phase EXCEPT ![r] = p]
Ends(r, how) == Goto(r, "ended") /\ reply' = [reply EXCEPT ![r] = how]

\* async with request_lock: the lock is first come, first served.
Asks(r) == Goto(r, "waiting") /\ queue' = Append(queue, r)

\* Its turn: nobody is inside and nobody asked before.
HasTurn(r) == phase[r] = "waiting" /\ holder = None /\ Head(queue) = r

-----------------------------------------------------------------------------
\* chat_completions

\* Refused before any lock: a stream that also wants tools or a schema is a 400,
\* and images_from, or build_prompt for a stream, raises.
Rejected(r) ==
    /\ phase[r] = "new"
    /\ \/ kind' = [kind EXCEPT ![r] = "stream"] /\ Ends(r, "rejected")
       \/ /\ \E k \in Kind : kind' = [kind EXCEPT ![r] = k]
          /\ Ends(r, "error")
    /\ UNCHANGED <<holder, queue, steps>>

\* The handler of a stream, holding the lock across its return.
OpensHolding(r) ==
    /\ phase[r] = "new" /\ holder = None /\ queue = <<>>
    /\ kind' = [kind EXCEPT ![r] = "stream"]
    /\ holder' = r
    /\ Goto(r, "opened")
    /\ UNCHANGED <<queue, steps, reply>>

\* The handler of a stream returns the response; its generator has not begun.
Opens(r) ==
    /\ phase[r] = "new"
    /\ kind' = [kind EXCEPT ![r] = "stream"]
    /\ Goto(r, "opened")
    /\ UNCHANGED <<holder, queue, steps, reply>>

Arrives(r) ==
    /\ phase[r] = "new"
    /\ \E k \in Kind \ {"stream"} : kind' = [kind EXCEPT ![r] = k]
    /\ Asks(r)
    /\ UNCHANGED <<holder, steps, reply>>

\* A request that does not stream gives the lock back in the step that took it.
Serves(r, generations, how) ==
    /\ HasTurn(r)
    /\ queue' = Tail(queue)
    /\ steps' = [steps EXCEPT ![r] = generations]
    /\ Ends(r, how)
    /\ UNCHANGED <<kind, holder>>

\* The prompt cannot be built, or the generation raises.
Breaks(r) == kind[r] # "stream" /\ \E n \in 0..1 : Serves(r, n, "error")

AnswersFreely(r) == kind[r] = "chat" /\ Serves(r, 1, "text")

\* Cut at max_tokens or not: nobody looks.
AnswersToSchema(r) == kind[r] = "schema" /\ Serves(r, 1, "object")

ParsesCall(r)   == kind[r] = "tools" /\ HasParser /\ Serves(r, 1, "calls")
AnswersProse(r) == kind[r] = "tools" /\ Serves(r, 1, "text")

\* What looks like a call and did not parse is generated again, constrained;
\* a call cut at max_tokens is no JSON, and json.loads raises.
Constrains(r) == kind[r] = "tools" /\ \E how \in {"calls", "error"} : Serves(r, 2, how)

-----------------------------------------------------------------------------
\* sse_chat

\* The response begins to drain the generator, which asks for the lock.
BeginsDraining(r) ==
    /\ phase[r] = "opened"
    /\ Asks(r)
    /\ UNCHANGED <<kind, holder, steps, reply>>

\* A stream that generates without the lock.
StreamsBeside(r) ==
    /\ phase[r] = "waiting" /\ kind[r] = "stream"
    /\ \E i \in DOMAIN queue : queue[i] = r /\ queue' = RemoveAt(queue, i)
    /\ holder' = r
    /\ Goto(r, "streaming")
    /\ UNCHANGED <<kind, steps, reply>>

StartsStream(r) ==
    /\ kind[r] = "stream" /\ HasTurn(r)
    /\ holder' = r
    /\ queue' = Tail(queue)
    /\ Goto(r, "streaming")
    /\ UNCHANGED <<kind, steps, reply>>

\* A piece is generated and sent.
StreamsPiece(r) ==
    /\ phase[r] = "streaming" /\ steps[r] < MaxPieces
    /\ steps' = [steps EXCEPT ![r] = @ + 1]
    /\ UNCHANGED <<kind, phase, holder, queue, reply>>

\* An error that skips the release.
LeavesLocked(r, how) ==
    /\ Ends(r, how)
    /\ UNCHANGED <<kind, holder, queue, steps>>

\* The end of the `async with` block, however it comes.
Leaves(r, how) ==
    /\ Ends(r, how)
    /\ holder' = None
    /\ UNCHANGED <<kind, queue, steps>>

StreamEnds(r)  == phase[r] = "streaming" /\ Leaves(r, "stream")
StreamFails(r) == phase[r] = "streaming" /\ Leaves(r, "cut")

\* The client of a stream goes: the task that drains it is cancelled.  Before
\* the generator has the lock it is out of the queue at once.
GoesEarly(r) ==
    /\ kind[r] = "stream"
    /\ \/ phase[r] = "opened" /\ UNCHANGED queue
       \/ \E i \in DOMAIN queue : queue[i] = r /\ queue' = RemoveAt(queue, i)
    /\ Ends(r, "cut")
    /\ UNCHANGED <<kind, holder, steps>>

\* Between two chunks the generator is left suspended with the lock, until the
\* loop closes it.
GoesMidway(r) ==
    /\ phase[r] = "streaming"
    /\ Goto(r, "abandoned")
    /\ UNCHANGED <<kind, holder, queue, steps, reply>>

Closes(r) == phase[r] = "abandoned" /\ Leaves(r, "cut")

-----------------------------------------------------------------------------
\* What the event loop does of itself, and what only a client can do.
LoopNext(r) ==
    \/ Breaks(r) \/ AnswersFreely(r) \/ AnswersToSchema(r)
    \/ ParsesCall(r) \/ AnswersProse(r) \/ Constrains(r)
    \/ BeginsDraining(r) \/ StartsStream(r) \/ StreamsPiece(r)
    \/ StreamEnds(r) \/ StreamFails(r) \/ Closes(r)

ClientNext(r) == Rejected(r) \/ Opens(r) \/ Arrives(r) \/ GoesEarly(r) \/ GoesMidway(r)

Next == \E r \in Request : LoopNext(r) \/ ClientNext(r)

Spec == Init /\ [][Next]_vars

\* The loop runs, a generation ends by max_tokens, and the client of a stream
\* reads it or goes: one that does neither keeps the lock.
FairSpec == Spec /\ \A r \in Request : WF_vars(LoopNext(r))

-----------------------------------------------------------------------------
\* Properties

\* "MLX generation is single-stream": nothing is generated for a request while
\* another is in mid-generation, a stream whose client has gone included.
GenerationsDoNotInterleave ==
    [][\A r \in Request : steps'[r] # steps[r]
          => \A q \in Request \ {r} : phase[q] \notin Midway]_vars

\* No lock held across a return or a yield stops the loop: every request ends,
\* and the lock is free again for the next.
RequestsEnd ==
    \A r \in Request : phase[r] # "new" ~> phase[r] = "ended" /\ holder # r
=============================================================================
