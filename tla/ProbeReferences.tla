--------------------------- MODULE ProbeReferences ---------------------------
(***************************************************************************)
(* The References block of XmlPrinter::printProbeHelper                    *)
(* (src/src/xml_printer.cpp) as operators: each reference of a component  *)
(* is written in the shape of the configured schema version.  The gate is *)
(*     m_schemaVersion >= "1.4"                                           *)
(* a std::string comparison: lexicographic over the characters, a prefix  *)
(* ordered before its extensions.  A version string is modelled by the    *)
(* ASCII codes of its characters (VersionText), so that the comparison is *)
(* the one the code makes and the version number the one a reader means.  *)
(***************************************************************************)
EXTENDS Naturals, Sequences, SequencesExt

CONSTANTS
  Versions,     \* schema version strings the printer may be configured with
  VersionText,  \* [Versions \cup {"1.4"} -> the character codes of the string]
  Ids,          \* ids a reference may carry
  MaxRefs       \* most references of a component

Dot == 46
Zero == 48

ASSUME \A v \in DOMAIN VersionText :
         \A i \in 1..Len(VersionText[v]) : VersionText[v][i] \in {Dot} \cup Zero..(Zero + 9)

RefTypes == {"DATA_ITEM", "COMPONENT"}

\* Component::Reference: its type and the id it refers to.
References == SeqOf([type : RefTypes, id : Ids], MaxRefs)

\* std::string operator< on character sequences.
RECURSIVE StringLess(_, _)
StringLess(a, b) ==
  IF b = <<>> THEN FALSE
  ELSE IF a = <<>> THEN TRUE
  ELSE IF Head(a) # Head(b) THEN Head(a) < Head(b)
  ELSE StringLess(Tail(a), Tail(b))

\* Mutant: the gate compares with > instead of >=.
VersionAbove(a, b) == StringLess(VersionText[b], VersionText[a])

\* m_schemaVersion >= "1.4" as std::string operator>=.
VersionAtLeast(a, b) == ~StringLess(VersionText[a], VersionText[b])

\* The elements the loop over getReferences() writes, in order.
PrintReferences(version, refs) ==
  LET shown == IF VersionAtLeast(version, "1.4") THEN refs
               ELSE SelectSeq(refs, LAMBDA r : r.type = "DATA_ITEM")
      Shape(r) ==
        IF VersionAtLeast(version, "1.4")
        THEN [name |-> IF r.type = "DATA_ITEM" THEN "DataItemRef" ELSE "ComponentRef",
              idAttr |-> "idRef", id |-> r.id]
        ELSE [name |-> "Reference", idAttr |-> "dataItemId", id |-> r.id]
  IN [i \in 1..Len(shown) |-> Shape(shown[i])]

-----------------------------------------------------------------------------

\* The number a run of digits denotes.
RECURSIVE DigitsValue(_)
DigitsValue(ds) ==
  IF ds = <<>> THEN 0
  ELSE DigitsValue(Front(ds)) * 10 + (Last(ds) - Zero)

\* A version string "major.minor" read as the pair of numbers it names.
VersionNumber(v) ==
  LET t == VersionText[v]
      dot == CHOOSE i \in 1..Len(t) : t[i] = Dot
  IN <<DigitsValue(SubSeq(t, 1, dot - 1)), DigitsValue(SubSeq(t, dot + 1, Len(t)))>>

\* The schema version is 1.4 or later, as numbers.
SchemaAtLeast14(v) ==
  LET n == VersionNumber(v) IN n[1] > 1 \/ (n[1] = 1 /\ n[2] >= 4)

\* The References children spec section 6 asks for: from version 1.4 on,
\* every reference as a DataItemRef or ComponentRef with idRef; below 1.4,
\* every data-item reference as a Reference with dataItemId; in the order
\* of the component's references.
SchemaReferences(version, rs) ==
  IF SchemaAtLeast14(version)
  THEN [i \in 1..Len(rs) |->
          [name |-> IF rs[i].type = "DATA_ITEM" THEN "DataItemRef" ELSE "ComponentRef",
           idAttr |-> "idRef", id |-> rs[i].id]]
  ELSE LET d == SelectSeq(rs, LAMBDA r : r.type = "DATA_ITEM")
       IN [i \in 1..Len(d) |-> [name |-> "Reference", idAttr |-> "dataItemId", id |-> d[i].id]]
=============================================================================
