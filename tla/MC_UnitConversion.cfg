\* convertValue and conversionRequired() called in any order; nativeScale
\* absent or "10" (a present "0" divides by zero in the code and in spec
\* 4.1 alike, so the two cannot disagree on it).
CONSTANTS
  UnitStrings <- MCUnitStrings
  NativeScales = {10}
  RawValues = {0, 5}
  Garbage <- MCGarbage

SPECIFICATION Spec

INVARIANT ConvertedCorrectly
