---------------------------- MODULE MCSubAgents -----------------------------
(***************************************************************************)
(* A run and up to three sub-agents: a scout, which may be spawned by the  *)
(* run only, and a lead, which may also be spawned by a scout or a lead.   *)
(* A batch delegates twice.  One worker makes the pool a queue.            *)
(***************************************************************************)
EXTENDS SubAgents, TLC

MCMaxDepth == "scout" :> 1 @@ "lead" :> 2
MCMaxTurns == "" :> 2 @@ "scout" :> 1 @@ "lead" :> 2
MCBatches  == {<<"lead">>, <<"lead", "scout">>}
MCAside    == {<<"scout", "deferred">>, <<"scout", "async">>}
=============================================================================
