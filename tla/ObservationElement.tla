-------------------------- MODULE ObservationElement --------------------------
(***************************************************************************)
(* XmlPrinter::addObservation (src/src/xml_printer.cpp): the element of    *)
(* one observation inside a Streams document, and the streams namespace   *)
(* registry it reads.  The element is named by the condition level, or by *)
(* the data item's name, qualified with its prefix only when the prefix   *)
(* is registered in m_streamsNamespaces.  Its body is the samples of a    *)
(* time series, one Entry per data-set entry (a table entry holding one   *)
(* Cell per cell), or the value as text; the literal UNAVAILABLE skips    *)
(* the first two.  The root element initXmlDoc wrote for the document is  *)
(* the one of Namespaces, from the same registry.                         *)
(*                                                                         *)
(* A leaf value is abstracted to its type, the samples to one token, the  *)
(* observation's attributes and the text escaping are left out.            *)
(***************************************************************************)
EXTENDS Naturals, Sequences, SequencesExt, FiniteSets

CONSTANTS
  NsPrefixes, PrefixOrder, Urns, Locations, Versions, Styles, Kinds,
                   \* the Namespaces constants: prefixes, urns, locations
  Version,         \* m_schemaVersion while printing
  ItemPrefixes,    \* prefixes of data items, "" for none
  Levels,          \* condition level strings
  EntryKeys,       \* keys of data-set entries
  CellKeys,        \* keys of table cells
  KeyOrder,        \* all keys, in std::less<std::string> order
  LeafTypes        \* the leaf types given: text, int, double

ASSUME LeafTypes \subseteq {"text", "int", "double"}

NS == INSTANCE Namespaces WITH namespaces <- [k \in Kinds |-> <<>>],
                               styles <- [k \in Kinds |-> ""],
                               schemaVersion <- Version,
                               doc <- [kind |-> "", pi |-> FALSE, attrs |-> <<>>]

Leaf == LeafTypes

\* A cell's variant: the three leaf types or a type the visitor rejects.
Rows == UNION {[ks -> Leaf \cup {"other"}] : ks \in SUBSET CellKeys}

\* A data-set entry: its tombstone and a leaf value or a row of cells.
EntryValues == [removed : BOOLEAN, type : Leaf]
                 \cup [removed : BOOLEAN, type : {"row"}, cells : Rows]

DataSets == UNION {[ks -> EntryValues] : ks \in SUBSET EntryKeys}

NoSet == [k \in {} |-> "none"]

\* The observations addObservation is given: a condition, a scalar or time
\* series, or a data set; the value is the raw string.
Observations ==
  [condition : {TRUE}, level : Levels, prefix : ItemPrefixes, shape : {"scalar"},
   value : {"", "v"}, set : {NoSet}]
  \cup [condition : {FALSE}, level : {""}, prefix : ItemPrefixes,
        shape : {"scalar", "timeseries"}, value : {"", "UNAVAILABLE", "v"}, set : {NoSet}]
  \cup [condition : {FALSE}, level : {""}, prefix : ItemPrefixes, shape : {"dataset"},
        value : {"UNAVAILABLE", "v"}, set : DataSets]

\* The keys of a map, in iteration order.
InOrder(ks) == SelectSeq(KeyOrder, LAMBDA k : k \in ks)

\* The element name: the level of a condition; otherwise the prefixed name
\* when the prefix is registered, else the plain element name.
ElementName(o, ns) ==
  IF o.condition THEN [prefix |-> "", local |-> o.level]
  ELSE IF o.prefix # "" /\ o.prefix \in DOMAIN ns
       THEN [prefix |-> o.prefix, local |-> "Item"]
       ELSE [prefix |-> "", local |-> "Item"]

\* Mutant: every cell also carries the attributes of its entry.
TableCellsOuterAttrs(e) ==
  LET ks == SelectSeq(InOrder(DOMAIN e.cells), LAMBDA k : e.cells[k] \in Leaf)
  IN [i \in 1..Len(ks) |-> [key |-> ks[i], removed |-> e.removed, text |-> e.cells[ks[i]]]]

\* The row visitor: one Cell per cell with its own key attribute; a cell of
\* another type is logged and skipped.
TableCells(e) ==
  LET ks == SelectSeq(InOrder(DOMAIN e.cells), LAMBDA k : e.cells[k] \in Leaf)
  IN [i \in 1..Len(ks) |-> [key |-> ks[i], removed |-> FALSE, text |-> e.cells[ks[i]]]]

\* The entry visitor: a leaf Entry with its value as text, or an Entry that
\* holds the cells of a row; attrs are the key and removed="true".
DataSetEntry(k, e) ==
  [key |-> k, removed |-> e.removed,
   text |-> IF e.type = "row" THEN "" ELSE e.type,
   cells |-> IF e.type = "row" THEN TableCells(e) ELSE <<>>]

\* addObservation: the element, its text and its Entry children.
AddObservationElement(o, ns) ==
  LET timeSeries == o.shape = "timeseries" /\ o.value # "UNAVAILABLE"
      dataSet == o.shape = "dataset" /\ o.value # "UNAVAILABLE"
      ks == InOrder(DOMAIN o.set)
  IN [name |-> ElementName(o, ns),
      text |-> IF timeSeries THEN "samples" ELSE IF dataSet THEN "" ELSE o.value,
      entries |-> IF dataSet THEN [i \in 1..Len(ks) |-> DataSetEntry(ks[i], o.set[ks[i]])]
                  ELSE <<>>]

-----------------------------------------------------------------------------

VARIABLES
  streamsNs,  \* m_streamsNamespaces: prefix -> [urn, location]
  pc,         \* "idle", "rows" or "end": where a printSample call is
  root,       \* the attributes of the document's root element
  pending,    \* the observation printSample is given
  out         \* the observation elements written into the document

vars == <<streamsNs, pc, root, pending, out>>

Init ==
  /\ streamsNs = <<>>
  /\ pc = "idle"
  /\ root = <<>>
  /\ pending \in Observations
  /\ out = <<>>

\* addStreamsNamespace: std::map::insert keeps an existing prefix's entry.
\* Configuration happens only between documents (spec, section 5).
AddStreamsNamespace(urn, loc, p) ==
  /\ pc = "idle"
  /\ streamsNs' = IF p \in DOMAIN streamsNs THEN streamsNs
                  ELSE streamsNs @@ (p :> [urn |-> urn, location |-> loc])
  /\ UNCHANGED <<pc, root, pending, out>>

\* clearStreamsNamespaces
ClearStreamsNamespaces ==
  /\ pc = "idle"
  /\ streamsNs' = <<>>
  /\ UNCHANGED <<pc, root, pending, out>>

\* Mutant: the elements of the previous document are kept.
BeginSampleKeepOut ==
  /\ pc = "idle"
  /\ root' = NS!RootAttributes("Streams", Version, streamsNs)
  /\ out' = out
  /\ pc' = "rows"
  /\ UNCHANGED <<streamsNs, pending>>

\* printSample up to its loop: initXmlDoc writes the root from the registry.
BeginSample ==
  /\ pc = "idle"
  /\ root' = NS!RootAttributes("Streams", Version, streamsNs)
  /\ out' = <<>>
  /\ pc' = "rows"
  /\ UNCHANGED <<streamsNs, pending>>

\* The row's addObservation call.
AddObservation ==
  /\ pc = "rows"
  /\ out' = Append(out, AddObservationElement(pending, streamsNs))
  /\ pc' = "end"
  /\ UNCHANGED <<streamsNs, root, pending>>

\* The document is closed and returned; the printer may be configured again.
EndSample ==
  /\ pc = "end"
  /\ pc' = "idle"
  /\ UNCHANGED <<streamsNs, root, pending, out>>

Next ==
  \/ \E u \in Urns, l \in Locations, p \in NsPrefixes : AddStreamsNamespace(u, l, p)
  \/ ClearStreamsNamespaces
  \/ BeginSample
  \/ AddObservation
  \/ EndSample

Spec == Init /\ [][Next]_vars

-----------------------------------------------------------------------------

TypeOK ==
  /\ DOMAIN streamsNs \subseteq NsPrefixes
  /\ pc \in {"idle", "rows", "end"}
  /\ pending \in Observations
  /\ Len(out) <= 1
  /\ \A j \in 1..Len(out) :
        /\ out[j].name \in [prefix : ItemPrefixes, local : Levels \cup {"Item"}]
        /\ \A i \in 1..Len(out[j].entries) :
              /\ out[j].entries[i].key \in EntryKeys
              /\ \A c \in Range(out[j].entries[i].cells) : c.key \in CellKeys

\* The position of a key in std::less order.
KeyRank(k) == CHOOSE i \in 1..Len(KeyOrder) : KeyOrder[i] = k

(* The element of a data set follows the set (spec, sections 4 and 7): one *)
(* Entry per entry, in key order, removed="true" exactly on tombstones; a   *)
(* leaf entry holds its value; a table entry holds one Cell per cell of a  *)
(* leaf type, each with only its own key, the others dropped without      *)
(* dropping the entry; and the value UNAVAILABLE, or a shape other than a  *)
(* data set, gives no Entry at all.                                        *)
EntriesFollowDataSet ==
  pc = "end" =>
    LET el == out[1]
        o == pending
    IN IF o.shape # "dataset" \/ o.value = "UNAVAILABLE" THEN el.entries = <<>>
       ELSE /\ Len(el.entries) = Cardinality(DOMAIN o.set)
            /\ \A i \in 1..Len(el.entries) :
                 LET c == el.entries[i]
                     e == o.set[c.key]
                     leafCells == {k \in DOMAIN e.cells : e.cells[k] \in Leaf}
                 IN /\ c.key \in DOMAIN o.set
                    /\ i > 1 => KeyRank(el.entries[i - 1].key) < KeyRank(c.key)
                    /\ c.removed = e.removed
                    /\ IF e.type = "row"
                       THEN /\ c.text = ""
                            /\ Len(c.cells) = Cardinality(leafCells)
                            /\ \A j \in 1..Len(c.cells) :
                                 /\ c.cells[j].key \in leafCells
                                 /\ ~c.cells[j].removed
                                 /\ c.cells[j].text = e.cells[c.cells[j].key]
                       ELSE c.text = e.type /\ c.cells = <<>>

=============================================================================
