\* Two printer calls at once, get_local_hostname succeeding or failing;
\* printError with and without an error code and a text.
CONSTANTS
  Printers = {p1, p2}
  Host = "host"
  Resolvable = {TRUE, FALSE}
  ErrorCodes = {"", "OUT_OF_RANGE"}
  ErrorTexts = {"", "msg"}

SPECIFICATION Spec
INVARIANT NoHostnameRace
