------------------------------ MODULE MCChain -------------------------------
(***************************************************************************)
(* Two threads on a chain of two models, the first of which is asked       *)
(* twice, and calls that pin the backup.                                   *)
(***************************************************************************)
EXTENDS LLMService

MCChains   == {<<"large", "small">>, <<"small">>}
MCAttempts == [large |-> 2, small |-> 1]
=============================================================================
