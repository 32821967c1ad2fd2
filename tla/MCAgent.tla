------------------------------ MODULE MCAgent -------------------------------
(***************************************************************************)
(* Two runs of one session, the second begun after the first returned,     *)
(* raised or paused.  A batch asks twice, around a call that is refused,   *)
(* and a limit of three messages brings a summary in the middle of a run   *)
(* and another on top of it.                                               *)
(***************************************************************************)
EXTENDS AgentLoop

MCBatches == {<<"fetch", "rm", "push">>}
=============================================================================
