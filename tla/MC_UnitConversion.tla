------------------------- MODULE MC_UnitConversion -------------------------
(***************************************************************************)
(* Unit strings covering every branch of convertValue: a plain tabulated   *)
(* symbol, the identity symbol, Fahrenheit (offset), an untabulated symbol,*)
(* the two REVOLUTION special cases, a quotient, a quotient with a power,  *)
(* and Fahrenheit in a quotient.                                           *)
(***************************************************************************)
EXTENDS UnitConversion

U(num, den, pow) == [num |-> num, den |-> den, pow |-> pow]

MCUnitStrings ==
  { U("INCH", "", 0), U("MILLIMETER", "", 0), U("FAHRENHEIT", "", 0),
    U("FURLONG", "", 0), U("REVOLUTION", "MINUTE", 0),
    U("REVOLUTION", "SECOND", 0), U("INCH", "MINUTE", 0),
    U("FOOT", "SECOND", 2), U("FAHRENHEIT", "MINUTE", 0) }

MCGarbage == {Q(0, 1), Q(7, 1)}
=============================================================================
