\* One sample item and one condition item, two codes and two messages, so
\* that a code is raised twice with different texts and cleared in between.
CONSTANTS
  SampleItems = {"Xact"}
  ConditionItems = {"logic"}
  Values = {"10"}
  Codes = {"X", "Y"}
  Messages = {"m1", "m2"}
  MaxAdds = 5

SPECIFICATION Spec

INVARIANT TypeOK
INVARIANT ConditionsFromHistory

\* The agent may stop adding observations at any point; MaxAdds ends every
\* behaviour.
CHECK_DEADLOCK FALSE
