------------------------------ MODULE MCSearch ------------------------------
(***************************************************************************)
(* Two documents, whose texts are empty, one chunk or three chunks long,   *)
(* with pieces in common.  A chunk is two characters, of which one is the  *)
(* next one's as well.                                                     *)
(***************************************************************************)
EXTENDS SearchIndex

MCCharacter == {"a", "b", "c"}

MCText == {<<>>, <<"a", "b">>, <<"b", "a", "b", "c">>}
=============================================================================
