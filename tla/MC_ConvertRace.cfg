\* Two threads race through the lazy derivation of the factor and offset.
CONSTANTS
  UnitStrings <- MCRaceUnits
  NativeScales = {10}
  RawValues = {5}
  Garbage <- MCGarbage
  Callers = {c1, c2}

SPECIFICATION RaceSpec

INVARIANT ConcurrentConvertedCorrectly
