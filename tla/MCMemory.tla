------------------------------ MODULE MCMemory ------------------------------
(***************************************************************************)
(* Two writers of one user: a stated directive, a guess that contradicts   *)
(* it, and a passing fact, which one extraction may return twice.  All are *)
(* about the same thing, so every verdict is possible on every row.  One   *)
(* writer flushes every second turn, the other every turn.                 *)
(***************************************************************************)
EXTENDS MemoryWriter

Stated  == [content |-> "brief", memory_type |-> "directive", confidence |-> 3]
Guess   == [content |-> "long", memory_type |-> "directive", confidence |-> 1]
Passing == [content |-> "trip", memory_type |-> "current", confidence |-> 2]

CONSTANTS w1, w2

MCFlushEvery == w1 :> 2 @@ w2 :> 1
MCMaxTurns   == w1 :> 3 @@ w2 :> 1

MCContent == {"brief", "long", "trip"}
MCNear    == [c \in MCContent |-> MCContent]
MCBatches == {<<Stated>>, <<Guess, Passing>>, <<Passing, Passing>>}
=============================================================================
