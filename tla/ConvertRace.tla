----------------------------- MODULE ConvertRace -----------------------------
(***************************************************************************)
(* Two threads calling DataItem::convertValue (src/agent/data_item.cpp) on *)
(* one data item, after conversionRequired() has been decided.  The lazy  *)
(* derivation of the cached factor and offset is not synchronised, so it  *)
(* is split into the steps another caller can run between:                *)
(*                                                                         *)
(*   check    read mHasFactor, then mConversionRequired                    *)
(*   reset    mConversionOffset = 0.0                                      *)
(*   factor   mConversionFactor = ... (simpleFactor may set the offset)    *)
(*   scale    mConversionFactor /= mNativeScale                            *)
(*   flag     mHasFactor = true                                            *)
(*   apply    the recursive call: (raw + offset) * factor                  *)
(*                                                                         *)
(* The data members and the unit arithmetic are those of UnitConversion.  *)
(***************************************************************************)
EXTENDS UnitConversion

CONSTANT Callers  \* threads converting values of this data item

VARIABLES
  cpc,   \* [Callers -> step of the caller's convertValue call]
  craw,  \* [Callers -> the raw value it converts]
  cret   \* [Callers -> the value it returned]

raceVars == <<vars, cpc, craw, cret>>

\* The data item after construction and conversionRequired(); no caller has
\* started converting.
RaceInit ==
  /\ \E nativeUnits, units \in UnitStrings \cup {NoUnits} :
        mNativeUnits = IF nativeUnits # NoUnits THEN nativeUnits ELSE units
  /\ mHasNativeScale \in BOOLEAN
  /\ mNativeScale \in NativeScales
  /\ mConversionDetermined = TRUE
  /\ mConversionRequired = (mNativeUnits # NoUnits)
  /\ mHasFactor = FALSE
  /\ mConversionFactor \in Garbage
  /\ mConversionOffset \in Garbage
  /\ returned = [called |-> FALSE, raw |-> 0, value |-> Q(0, 1)]
  /\ cpc = [t \in Callers |-> "idle"]
  /\ craw = [t \in Callers |-> 0]
  /\ cret = [t \in Callers |-> Q(0, 1)]

\* Caller t's step from a to b.
Step(t, a, b) ==
  /\ cpc[t] = a
  /\ cpc' = [cpc EXCEPT ![t] = b]

Members == <<mNativeUnits, mHasNativeScale, mNativeScale, mConversionDetermined, mConversionRequired,
             mHasFactor, mConversionFactor, mConversionOffset, returned>>

\* convertValue(raw) is called, first or again after returning.
Call(t) ==
  /\ \E raw \in RawValues : craw' = [craw EXCEPT ![t] = raw]
  /\ cpc[t] \in {"idle", "done"}
  /\ cpc' = [cpc EXCEPT ![t] = "check"]
  /\ UNCHANGED <<Members, cret>>

\* The two tests at the top: the cached factor, or no conversion, or derive.
Check(t) ==
  /\ cpc[t] = "check"
  /\ \/ mHasFactor /\ cpc' = [cpc EXCEPT ![t] = "apply"] /\ UNCHANGED cret
     \/ ~mHasFactor /\ ~mConversionRequired
        /\ cret' = [cret EXCEPT ![t] = Q(craw[t], 1)]
        /\ cpc' = [cpc EXCEPT ![t] = "done"]
     \/ ~mHasFactor /\ mConversionRequired
        /\ cpc' = [cpc EXCEPT ![t] = "reset"] /\ UNCHANGED cret
  /\ UNCHANGED <<Members, craw>>

\* mConversionOffset = 0.0
ResetOffset(t) ==
  /\ Step(t, "reset", "factor")
  /\ mConversionOffset' = Q(0, 1)
  /\ UNCHANGED <<mNativeUnits, mHasNativeScale, mNativeScale, mConversionDetermined,
                 mConversionRequired, mHasFactor, mConversionFactor, returned, craw, cret>>

\* The factor from the unit string; simpleFactor("FAHRENHEIT") also sets
\* the offset to -32 (ConversionOffset, given the offset just reset).
DeriveFactor(t) ==
  /\ Step(t, "factor", "scale")
  /\ mConversionFactor' = UnitFactor(mNativeUnits)
  /\ mConversionOffset' = IF "FAHRENHEIT" \in FactorSymbols(mNativeUnits)
                          THEN ConversionOffset(mNativeUnits, mConversionOffset)
                          ELSE mConversionOffset
  /\ UNCHANGED <<mNativeUnits, mHasNativeScale, mNativeScale, mConversionDetermined,
                 mConversionRequired, mHasFactor, returned, craw, cret>>

\* if (mHasNativeScale) mConversionFactor /= mNativeScale: a read, a
\* division and a write of the shared member.
ScaleFactor(t) ==
  /\ Step(t, "scale", "flag")
  /\ mConversionFactor' = IF mHasNativeScale
                          THEN QDiv(mConversionFactor, Q(mNativeScale, 1))
                          ELSE mConversionFactor
  /\ UNCHANGED <<mNativeUnits, mHasNativeScale, mNativeScale, mConversionDetermined,
                 mConversionRequired, mHasFactor, mConversionOffset, returned, craw, cret>>

\* mHasFactor = true
SetHasFactor(t) ==
  /\ Step(t, "flag", "apply")
  /\ mHasFactor' = TRUE
  /\ UNCHANGED <<mNativeUnits, mHasNativeScale, mNativeScale, mConversionDetermined,
                 mConversionRequired, mConversionFactor, mConversionOffset, returned,
                 craw, cret>>

\* return (atof(value) + mConversionOffset) * mConversionFactor
ApplyFactor(t) ==
  /\ Step(t, "apply", "done")
  /\ cret' = [cret EXCEPT ![t] = QMul(QAdd(Q(craw[t], 1), mConversionOffset),
                                      mConversionFactor)]
  /\ UNCHANGED <<Members, craw>>

RaceNext ==
  \E t \in Callers :
    \/ Call(t) \/ Check(t) \/ ResetOffset(t) \/ DeriveFactor(t)
    \/ ScaleFactor(t) \/ SetHasFactor(t) \/ ApplyFactor(t)

RaceSpec == RaceInit /\ [][RaceNext]_raceVars

-----------------------------------------------------------------------------

(* Every value convertValue returns is (raw + offset) * factor for the     *)
(* item's units and nativeScale, the factor computed once and reused       *)
(* (spec, section 8), even when two callers convert values of the item at  *)
(* the same time and race through the lazy derivation.                     *)
ConcurrentConvertedCorrectly ==
  \A t \in Callers :
    cpc[t] = "done" => QEq(cret[t], ExpectedValue(mNativeUnits, mHasNativeScale, mNativeScale, craw[t]))

=============================================================================
