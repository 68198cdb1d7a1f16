--------------------------- MODULE MC_ConvertRace ---------------------------
(***************************************************************************)
(* Two callers converting values of one data item whose units need an     *)
(* offset (Fahrenheit) or a factor only (inch), with and without a         *)
(* nativeScale: the offset reset and the division by nativeScale are the  *)
(* two writes a second caller can interleave with.                         *)
(***************************************************************************)
EXTENDS ConvertRace

U(num, den, pow) == [num |-> num, den |-> den, pow |-> pow]

MCRaceUnits == {U("INCH", "", 0), U("FAHRENHEIT", "", 0)}

MCGarbage == {Q(0, 1)}
=============================================================================
