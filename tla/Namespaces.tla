----------------------------- MODULE Namespaces -----------------------------
(***************************************************************************)
(* The namespace, style and schema-version configuration of XmlPrinter and *)
(* the root element initXmlDoc writes from it (src/src/xml_printer.cpp).   *)
(*                                                                         *)
(* Each document kind has its own std::map from prefix to {urn, location}; *)
(* add*Namespace calls map::insert, clear*Namespaces empties the map.      *)
(* initXmlDoc writes the optional stylesheet instruction and the root      *)
(* element with its namespace attributes and xsi:schemaLocation, iterating *)
(* the map in key order (PrefixOrder).                                     *)
(***************************************************************************)
EXTENDS Sequences, SequencesExt, TLC

CONSTANTS
  NsPrefixes,    \* prefixes a configuration may register
  PrefixOrder,   \* NsPrefixes in std::less<std::string> order
  Urns,          \* urns a configuration may register ("" allowed)
  Locations,     \* schema locations ("" allowed)
  Versions,      \* schema versions setSchemaVersion may be given
  Styles,        \* stylesheet URLs ("" means none)
  Kinds          \* document kinds: a subset of Error, Devices, Streams, Assets

ASSUME Kinds \subseteq {"Error", "Devices", "Streams", "Assets"}

VARIABLES
  namespaces,     \* [Kinds -> (registered prefix -> [urn, location])]
  styles,         \* [Kinds -> style URL]
  schemaVersion,  \* m_schemaVersion
  doc             \* the prolog and root element of the last document written

vars == <<namespaces, styles, schemaVersion, doc>>

NoDoc == [kind |-> "", pi |-> FALSE, attrs |-> <<>>]

\* The XmlPrinter constructor: empty maps and styles, version "1.5" unless
\* one is given.
Init ==
  /\ namespaces = [k \in Kinds |-> <<>>]
  /\ styles = [k \in Kinds |-> ""]
  /\ \E v \in Versions \cup {""} : schemaVersion = IF v = "" THEN "1.5" ELSE v
  /\ doc = NoDoc

\* Mutant: urn and location are stored in each other's field.
AddNamespaceSwapped(k, urn, loc, p) ==
  /\ namespaces' = [namespaces EXCEPT ![k] =
                      IF p \in DOMAIN @ THEN @ ELSE @ @@ (p :> [urn |-> loc, location |-> urn])]
  /\ UNCHANGED <<styles, schemaVersion, doc>>

\* add*Namespace(urn, location, prefix): map::insert keeps an existing entry.
AddNamespace(k, urn, loc, p) ==
  /\ namespaces' = [namespaces EXCEPT ![k] =
                      IF p \in DOMAIN @ THEN @ ELSE @ @@ (p :> [urn |-> urn, location |-> loc])]
  /\ UNCHANGED <<styles, schemaVersion, doc>>

\* clear*Namespaces().
ClearNamespaces(k) ==
  /\ namespaces' = [namespaces EXCEPT ![k] = <<>>]
  /\ UNCHANGED <<styles, schemaVersion, doc>>

\* set*Style(style).
SetStyle(k, s) ==
  /\ styles' = [styles EXCEPT ![k] = s]
  /\ UNCHANGED <<namespaces, schemaVersion, doc>>

\* setSchemaVersion(version).
SetSchemaVersion(v) ==
  /\ schemaVersion' = v
  /\ UNCHANGED <<namespaces, styles, doc>>

\* The MTConnect urn of a document kind at a schema version.
MTConnectUrn(k, v) == "urn:mtconnect.org:MTConnect" \o k \o ":" \o v

\* The schemaLocation initXmlDoc resolves: the first non-"m" prefix with a
\* location, else the "m" entry's location under the MTConnect urn, else
\* the published schema of the kind and version.
SchemaLocation(k, v, ns) ==
  LET xmlns == MTConnectUrn(k, v)
      others == SelectSeq(PrefixOrder, LAMBDA p : p \in DOMAIN ns /\ p # "m"
                                                  /\ ns[p].location # "")
  IN IF others # <<>> THEN ns[others[1]].urn \o " " \o ns[others[1]].location
     ELSE IF "m" \in DOMAIN ns /\ ns["m"].location # ""
          THEN xmlns \o " " \o ns["m"].location
     ELSE xmlns \o " http://schemas.mtconnect.org/schemas/MTConnect" \o k \o "_"
                \o v \o ".xsd"

\* addAttribute: an attribute with an empty value is not written.
Attr(name, value) == IF value = "" THEN <<>> ELSE <<[name |-> name, value |-> value]>>

\* The root element's attributes, in the order initXmlDoc writes them.
RootAttributes(k, v, ns) ==
  LET xmlns == MTConnectUrn(k, v)
      regs == SelectSeq(PrefixOrder, LAMBDA p : p \in DOMAIN ns /\ p # "m")
  IN Attr("xmlns:m", xmlns) \o Attr("xmlns", xmlns)
       \o Attr("xmlns:xsi", "http://www.w3.org/2001/XMLSchema-instance")
       \o FlattenSeq([i \in 1..Len(regs) |-> Attr("xmlns:" \o regs[i], ns[regs[i]].urn)])
       \o Attr("xsi:schemaLocation", SchemaLocation(k, v, ns))

\* Mutant: the Streams case of the switch picks the Devices map.
InitXmlDocCrossedMaps(k) ==
  /\ doc' = [kind |-> k, pi |-> styles[k] # "",
             attrs |-> RootAttributes(k, schemaVersion,
                          namespaces[IF k = "Streams" THEN "Devices" ELSE k])]
  /\ UNCHANGED <<namespaces, styles, schemaVersion>>

\* initXmlDoc for a document of kind k, up to the Header.
InitXmlDoc(k) ==
  /\ doc' = [kind |-> k, pi |-> styles[k] # "",
             attrs |-> RootAttributes(k, schemaVersion, namespaces[k])]
  /\ UNCHANGED <<namespaces, styles, schemaVersion>>

Next ==
  \/ \E k \in Kinds, u \in Urns, l \in Locations, p \in NsPrefixes : AddNamespace(k, u, l, p)
  \/ \E k \in Kinds : ClearNamespaces(k) \/ InitXmlDoc(k)
  \/ \E k \in Kinds, s \in Styles : SetStyle(k, s)
  \/ \E v \in Versions : SetSchemaVersion(v)

Spec == Init /\ [][Next]_vars

-----------------------------------------------------------------------------

TypeOK ==
  /\ \A k \in Kinds : DOMAIN namespaces[k] \subseteq NsPrefixes
  /\ \A k \in Kinds : \A p \in DOMAIN namespaces[k] :
        namespaces[k][p] \in [urn : Urns, location : Locations]
  /\ styles \in [Kinds -> Styles \cup {""}]
  /\ schemaVersion \in Versions \cup {"1.5"}
  /\ doc.kind \in Kinds \cup {""}

\* The value of the attribute named n of the root, or "" if absent.
AttrValue(attrs, n) ==
  LET is == {i \in 1..Len(attrs) : attrs[i].name = n}
  IN IF is = {} THEN "" ELSE attrs[CHOOSE i \in is : TRUE].value

\* The schemaLocation in attrs is one initXmlDoc may write for kind k from
\* registry ns at version v.
LocationFrom(k, attrs, ns, v) ==
  LET loc == AttrValue(attrs, "xsi:schemaLocation")
      xmlns == MTConnectUrn(k, v)
  IN \/ \E p \in DOMAIN ns \ {"m"} : loc = ns[p].urn \o " " \o ns[p].location
     \/ "m" \in DOMAIN ns /\ loc = xmlns \o " " \o ns["m"].location
     \/ loc = xmlns \o " http://schemas.mtconnect.org/schemas/MTConnect" \o k
              \o "_" \o v \o ".xsd"

(* Every document written takes its schemaLocation from its own kind's     *)
(* registry (urn and location of one entry, or the MTConnect urn with the  *)
(* "m" entry's location) or from the published default for its kind and   *)
(* the schema version in force: the four kinds never see each other's      *)
(* namespaces, and the location follows setSchemaVersion.                  *)
LocationFromOwnRegistry ==
  [][doc' # NoDoc /\ UNCHANGED <<namespaces, styles, schemaVersion>> =>
       LocationFrom(doc'.kind, doc'.attrs, namespaces[doc'.kind], schemaVersion)]_vars

=============================================================================
