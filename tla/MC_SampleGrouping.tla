------------------------- MODULE MC_SampleGrouping -------------------------
(***************************************************************************)
(* Model for printSample: two devices, three components of which two share *)
(* the id "X" (one on each device), two data items in one group (as Xact   *)
(* and Xcom of the unit tests), an event beside them, and lists of up to   *)
(* four observations in every order.                                       *)
(***************************************************************************)
EXTENDS SampleGrouping

MCDataItems ==
  { [name |-> "Xact",  dev |-> "d1", comp |-> "X", cat |-> "Samples"],
    [name |-> "Xcom",  dev |-> "d1", comp |-> "X", cat |-> "Samples"],
    [name |-> "mode",  dev |-> "d1", comp |-> "X", cat |-> "Events"],
    [name |-> "Yact",  dev |-> "d1", comp |-> "Y", cat |-> "Samples"],
    [name |-> "Zact",  dev |-> "d2", comp |-> "X", cat |-> "Samples"] }

MCDeviceOrder == <<"d1", "d2">>
MCComponentOrder == <<"X", "Y">>
MCCategoryOrder == <<"Samples", "Events", "Condition">>
=============================================================================
