----------------------------- MODULE MemoryLog ------------------------------
(***************************************************************************)
(* What the table of memories promises (schema.sql: "History is a chain,   *)
(* never a fork"): every memory has one version in force until it is       *)
(* forgotten, a new version replaces the one in force, and nothing already *)
(* replaced or forgotten is replaced again.  Versions are numbered as they *)
(* are written.                                                            *)
(***************************************************************************)
EXTENDS Naturals

VARIABLES written,  \* how many versions and tombstones were written
          inForce   \* the versions nothing has replaced

vars == <<written, inForce>>

Init == written = 0 /\ inForce = {}

Learn ==
    /\ written' = written + 1
    /\ inForce' = inForce \cup {written + 1}

Revise ==
    \E old \in inForce : /\ written' = written + 1
                         /\ inForce' = (inForce \ {old}) \cup {written + 1}

Forget ==
    \E old \in inForce : /\ written' = written + 1
                         /\ inForce' = inForce \ {old}

Spec == Init /\ [][Learn \/ Revise \/ Forget]_vars
=============================================================================
