------------------------------ MODULE MCServer ------------------------------
(***************************************************************************)
(* Three requests of any kind: one in mid-stream, one that asked before    *)
(* the third, and every way for a client to go.                            *)
(***************************************************************************)
EXTENDS LocalServer
=============================================================================
