--------------------------- MODULE UnitConversion ---------------------------
(***************************************************************************)
(* The unit-conversion engine of a DataItem (src/agent/data_item.cpp):     *)
(* conversionRequired(), convertValue() and simpleFactor().  Factors and   *)
(* offsets are kept as exact rationals [n, d]; a raw value is the number   *)
(* atof parses from the adapter's text.                                    *)
(*                                                                         *)
(* A unit string is represented by the pieces convertValue cuts it into:   *)
(* num is the text before '/', den the text after it ("" when there is no  *)
(* '/'), pow the number after '^' in the denominator (0 when there is no   *)
(* '^', in which case den is the whole denominator).                       *)
(***************************************************************************)
EXTENDS Integers

CONSTANTS
  UnitStrings,   \* nativeUnits / units attributes a device file may give
  NativeScales,  \* what atof reads from a non-empty nativeScale attribute
  RawValues,     \* values the adapter reports, as parsed by atof
  Garbage        \* values an uninitialised double may hold

Q(n, d) == [n |-> n, d |-> d]
QMul(a, b) == Q(a.n * b.n, a.d * b.d)
QDiv(a, b) == Q(a.n * b.d, a.d * b.n)
QAdd(a, b) == Q(a.n * b.d + b.n * a.d, a.d * b.d)
QEq(a, b) == a.n * b.d = b.n * a.d
RECURSIVE QPow(_, _)
QPow(a, k) == IF k = 0 THEN Q(1, 1) ELSE QMul(a, QPow(a, k - 1))

NoUnits == [num |-> "", den |-> "", pow |-> 0]

\* DataItem::simpleFactor: the multiplier of one unit symbol; untabulated
\* symbols are already in the agent's units.
SimpleFactor(u) ==
  CASE u = "INCH"       -> Q(254, 10)
    [] u = "FOOT"       -> Q(3048, 10)
    [] u = "CENTIMETER" -> Q(10, 1)
    [] u = "DECIMETER"  -> Q(100, 1)
    [] u = "METER"      -> Q(1000, 1)
    [] u = "FAHRENHEIT" -> Q(5, 9)
    [] u = "POUND"      -> Q(45359237, 100000000)
    [] u = "GRAM"       -> Q(1, 1000)
    [] u = "RADIAN"     -> Q(572957795, 10000000)
    [] u = "MINUTE"     -> Q(60, 1)
    [] u = "HOUR"       -> Q(3600, 1)
    [] OTHER            -> Q(1, 1)

\* The symbols convertValue passes to simpleFactor for unit string s.
FactorSymbols(s) ==
  IF s.den = "" THEN {s.num}
  ELSE IF s.num = "REVOLUTION" /\ s.den = "MINUTE" /\ s.pow = 0 THEN {}
  ELSE IF s.num = "REVOLUTION" /\ s.den = "SECOND" /\ s.pow = 0 THEN {}
  ELSE {s.num, s.den}

\* The offset convertValue derives: reset to 0.0, then set to -32 by
\* simpleFactor when it is asked for FAHRENHEIT.
ConversionOffset(s, old) ==
  IF "FAHRENHEIT" \in FactorSymbols(s) THEN Q(-32, 1) ELSE Q(0, 1)

\* The factor convertValue derives from unit string s, before nativeScale.
UnitFactor(s) ==
  IF s.den = "" THEN SimpleFactor(s.num)
  ELSE IF s.num = "REVOLUTION" /\ s.den = "MINUTE" /\ s.pow = 0 THEN Q(1, 1)
  ELSE IF s.num = "REVOLUTION" /\ s.den = "SECOND" /\ s.pow = 0 THEN Q(60, 1)
  ELSE IF s.pow = 0 THEN QDiv(SimpleFactor(s.num), SimpleFactor(s.den))
  ELSE QDiv(SimpleFactor(s.num), QPow(SimpleFactor(s.den), s.pow))

VARIABLES
  mNativeUnits, mHasNativeScale, mNativeScale,   \* attributes, fixed
  mConversionDetermined, mConversionRequired,
  mHasFactor, mConversionFactor, mConversionOffset,
  returned                                       \* last convertValue call

vars == <<mNativeUnits, mHasNativeScale, mNativeScale, mConversionDetermined, mConversionRequired,
          mHasFactor, mConversionFactor, mConversionOffset, returned>>

\* The DataItem constructor: nativeUnits, falling back to units; the factor
\* and offset are not initialised; mNativeScale is set, and mHasNativeScale
\* raised, for any non-empty nativeScale attribute (when it is empty,
\* mNativeScale is never read, and any value stands for it).
Init ==
  /\ \E nativeUnits, units \in UnitStrings \cup {NoUnits} :
        mNativeUnits = IF nativeUnits # NoUnits THEN nativeUnits ELSE units
  /\ mHasNativeScale \in BOOLEAN
  /\ mNativeScale \in NativeScales
  /\ mConversionDetermined = FALSE
  /\ mConversionRequired = FALSE
  /\ mHasFactor = FALSE
  /\ mConversionFactor \in Garbage
  /\ mConversionOffset \in Garbage
  /\ returned = [called |-> FALSE, raw |-> 0, value |-> Q(0, 1)]

\* conversionRequired(): decided once, from whether nativeUnits is empty.
ConversionRequired ==
  /\ ~mConversionDetermined
  /\ mConversionDetermined' = TRUE
  /\ mConversionRequired' = (mNativeUnits # NoUnits)
  /\ UNCHANGED <<mNativeUnits, mHasNativeScale, mNativeScale, mHasFactor, mConversionFactor,
                 mConversionOffset, returned>>

\* convertValue(raw): apply the cached factor; or return raw when no
\* conversion is required; or derive and cache factor and offset, then
\* apply them (the recursive call).
ConvertValue(raw) ==
  LET s == mNativeUnits
      offset == ConversionOffset(s, mConversionOffset)
      unscaled == UnitFactor(s)
      factor == IF mHasNativeScale THEN QDiv(unscaled, Q(mNativeScale, 1))
                ELSE unscaled
      Apply(o, f) == QMul(QAdd(Q(raw, 1), o), f)
  IN
  \/ /\ mHasFactor
     /\ returned' = [called |-> TRUE, raw |-> raw,
                     value |-> Apply(mConversionOffset, mConversionFactor)]
     /\ UNCHANGED <<mHasFactor, mConversionFactor, mConversionOffset>>
  \/ /\ ~mHasFactor /\ ~mConversionRequired
     /\ returned' = [called |-> TRUE, raw |-> raw, value |-> Q(raw, 1)]
     /\ UNCHANGED <<mHasFactor, mConversionFactor, mConversionOffset>>
  \/ /\ ~mHasFactor /\ mConversionRequired
     /\ mConversionOffset' = offset
     /\ mConversionFactor' = factor
     /\ mHasFactor' = TRUE
     /\ returned' = [called |-> TRUE, raw |-> raw, value |-> Apply(offset, factor)]

ConvertValueStep ==
  /\ \E raw \in RawValues : ConvertValue(raw)
  /\ UNCHANGED <<mNativeUnits, mHasNativeScale, mNativeScale, mConversionDetermined,
                 mConversionRequired>>

\* Callers may call the two methods in any order.
Next == ConversionRequired \/ ConvertValueStep

Spec == Init /\ [][Next]_vars

-----------------------------------------------------------------------------

TypeOK ==
  /\ mNativeUnits \in UnitStrings \cup {NoUnits}
  /\ mHasNativeScale \in BOOLEAN
  /\ mNativeScale \in NativeScales
  /\ mConversionDetermined \in BOOLEAN
  /\ mConversionRequired \in BOOLEAN
  /\ mHasFactor \in BOOLEAN
  /\ mConversionOffset \in Garbage \cup {Q(0, 1), Q(-32, 1)}
  /\ returned.called \in BOOLEAN

\* Spec 4.1, read on its own: the factor of unit string s by the rules
\* listed there (the unit table of the glossary is simpleFactor's), the
\* offset -32 when Fahrenheit is among the units, nativeScale dividing the
\* factor when present; no units means no conversion.
SpecFactor(s) ==
  CASE s.den = ""                                 -> SimpleFactor(s.num)
    [] s = [num |-> "REVOLUTION", den |-> "MINUTE", pow |-> 0] -> Q(1, 1)
    [] s.num = "REVOLUTION" /\ s.den = "SECOND" /\ s.pow = 0 -> Q(60, 1)
    [] s.pow = 0 -> QDiv(SimpleFactor(s.num), SimpleFactor(s.den))
    [] OTHER     -> QDiv(SimpleFactor(s.num), QPow(SimpleFactor(s.den), s.pow))

ExpectedValue(s, hasScale, scale, raw) ==
  IF s = NoUnits THEN Q(raw, 1)
  ELSE LET f == IF hasScale THEN QDiv(SpecFactor(s), Q(scale, 1)) ELSE SpecFactor(s)
           o == IF "FAHRENHEIT" \in {s.num, s.den} THEN -32 ELSE 0
       IN QMul(Q(raw + o, 1), f)

(* Every value convertValue returns is (raw + offset) * factor for the     *)
(* item's units and nativeScale (spec 4.1, 8), whether or not the caller   *)
(* has asked conversionRequired() before, however many times it has been  *)
(* called and whatever the uninitialised members held.                     *)
ConvertedCorrectly ==
  returned.called =>
    QEq(returned.value,
        ExpectedValue(mNativeUnits, mHasNativeScale, mNativeScale, returned.raw))
=============================================================================
