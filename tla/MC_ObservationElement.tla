----------------------- MODULE MC_ObservationElement -----------------------
(***************************************************************************)
(* One extension prefix and the reserved "m", data items with and without  *)
(* a prefix, two data-set keys and two cell keys.                          *)
(***************************************************************************)
EXTENDS ObservationElement

MCPrefixOrder == <<"m", "x">>
MCKeyOrder == <<"a", "b", "c1", "c2">>
=============================================================================
