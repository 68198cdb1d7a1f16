---------------------------- MODULE ProbeDocument ----------------------------
(***************************************************************************)
(* XmlPrinter::printProbe, printProbeHelper and printDataItem              *)
(* (src/src/xml_printer.cpp), with the DataItem constructor and            *)
(* getAttributes (src/agent/data_item.cpp) that give a data item's         *)
(* attributes.  printProbe writes Devices and each device of the list in  *)
(* turn; printProbeHelper writes a component's Description, Configuration, *)
(* DataItems, Components (recursively, a child named with its prefix only *)
(* when the prefix is in m_devicesNamespaces), Compositions and, when the  *)
(* component has references, a References element holding what            *)
(* ProbeReferences!PrintReferences writes for them (none at all below 1.4 *)
(* when every reference is a component).                                  *)
(*                                                                         *)
(* An element is [parent, id, name, attrs]: ids are paths, attrs the       *)
(* attributes a property reads.  Configuration internals, descriptions'   *)
(* text and component attributes are left out.                             *)
(***************************************************************************)
EXTENDS ProbeReferences, FiniteSets

CONSTANTS
  DeviceList,   \* the devices printProbe may be given (one per call)
  Registries,   \* the prefix sets m_devicesNamespaces may hold
  CellOrder,    \* cell and entry keys in the order their std::set iterates
  Atof,         \* [strings -> the number atof reads]
  Atoi,         \* [strings -> the number atoi reads]
  LowerOf       \* [upper-case letters -> their lower case]: ::tolower

NoAttrs == <<>>

El(p, id, name, attrs) == [parent |-> p, id |-> id, name |-> name, attrs |-> attrs]

\* The id of the k-th element named name inside the element with id p.
Sub(p, name, k) == Append(p, <<name, k>>)

\* An element without attributes, the only one of its name under p.
Leaf(p, name) == El(p, Sub(p, name, 0), name, NoAttrs)

\* n sibling elements of one name.
Kids(p, name, n) == [k \in 1..n |-> El(p, Sub(p, name, k), name, NoAttrs)]

\* ::tolower and ::toupper: characters other than letters are unchanged.
ToLower(c) == IF c \in DOMAIN LowerOf THEN LowerOf[c] ELSE c
ToUpper(c) == IF \E u \in DOMAIN LowerOf : LowerOf[u] = c
              THEN CHOOSE u \in DOMAIN LowerOf : LowerOf[u] = c ELSE c

\* find(from, camel.end(), '_'): the first '_' at or after index i.
FindUnderscore(s, i) ==
  LET j == SelectInSubSeq(s, i, Len(s), LAMBDA c : c = "_")
  IN IF j = 0 THEN Len(s) + 1 ELSE j

\* Mutant: the next search starts after the character just capitalised.
RECURSIVE CamelLoopSkip(_, _)
CamelLoopSkip(s, w) ==
  IF w > Len(s) THEN s
  ELSE LET e == RemoveAt(s, w)
       IN IF w > Len(e) THEN Append(e, "NUL")
          ELSE LET r == ReplaceAt(e, w, ToUpper(e[w]))
               IN CamelLoopSkip(r, FindUnderscore(r, w + 1))

\* The while loop of getCamelType at word w: erase the '_', capitalise the
\* character that moved into its place, find the next '_' from there.  A
\* trailing '_' leaves word at end(): replace(end, end + 1, 1, toupper(*end))
\* is out of range; libstdc++ reads the terminating NUL and appends it.
RECURSIVE CamelLoop(_, _)
CamelLoop(s, w) ==
  IF w > Len(s) THEN s
  ELSE LET e == RemoveAt(s, w)
       IN IF w > Len(e) THEN Append(e, "NUL")
          ELSE LET r == ReplaceAt(e, w, ToUpper(e[w]))
               IN CamelLoop(r, FindUnderscore(r, w))

\* DataItem::getCamelType: keep the first character, lower-case the rest,
\* then run the loop from the first '_'.
GetCamelType(t) ==
  IF t = <<>> THEN <<>>
  ELSE LET lowered == [i \in 1..Len(t) |-> IF i = 1 THEN t[1] ELSE ToLower(t[i])]
       IN CamelLoop(lowered, FindUnderscore(lowered, 2))

\* The DataItem constructor: the members its attribute map sets ("" for a
\* missing key, as std::map::operator[] reads).
DataItemMembers(a) ==
  [mId |-> a.id, mName |-> a.name, mType |-> a.type, mCamelType |-> GetCamelType(a.type),
   mSubType |-> a.subType,
   mCategory |-> IF a.category = "SAMPLE" THEN "SAMPLE" ELSE "EVENT",
   mNativeUnits |-> IF a.nativeUnits # "" THEN a.nativeUnits ELSE a.units,
   mUnits |-> a.units,
   mHasNativeScale |-> a.nativeScale # "", mNativeScale |-> Atof[a.nativeScale],
   mHasSignificantDigits |-> a.significantDigits # "",
   mSignificantDigits |-> Atoi[a.significantDigits],
   mCoordinateSystem |-> a.coordinateSystem]

\* The optional attribute n with value v, written only when has holds.
Opt(has, n, v) == IF has THEN n :> v ELSE NoAttrs

\* DataItem::getAttributes; nativeScale and significantDigits are written by
\* floatToString and intToString, here the numbers they format.
GetAttributes(d) ==
  ("id" :> d.mId) @@ ("name" :> d.mName) @@ ("type" :> d.mType)
    @@ Opt(d.mSubType # "", "subType", d.mSubType)
    @@ ("category" :> d.mCategory)
    @@ Opt(d.mNativeUnits # "", "nativeUnits", d.mNativeUnits)
    @@ Opt(d.mUnits # "", "units", d.mUnits)
    @@ Opt(d.mHasNativeScale, "nativeScale", [float |-> d.mNativeScale])
    @@ Opt(d.mHasSignificantDigits, "significantDigits", [int |-> d.mSignificantDigits])
    @@ Opt(d.mCoordinateSystem # "", "coordinateSystem", d.mCoordinateSystem)

\* The keys of a set in iteration order.
InOrder(ks) == SelectSeq(CellOrder, LAMBDA k : k \in ks)

\* printCellDefinitions for cells, a function from each cell's key to whether
\* its m_description is non-empty: nothing for an empty set, else each
\* CellDefinition with its key and, when it has one, its Description.
PrintCellDefinitions(cells, p) ==
  LET c == Sub(p, "CellDefinitions", 0)
      ks == InOrder(DOMAIN cells)
  IN IF cells = <<>> THEN <<>>
     ELSE <<Leaf(p, "CellDefinitions")>>
            \o FlattenSeq([k \in 1..Len(ks) |->
                 <<El(c, Sub(c, ks[k], 0), "CellDefinition", "key" :> ks[k])>>
                   \o (IF cells[ks[k]] THEN <<Leaf(Sub(c, ks[k], 0), "Description")>> ELSE <<>>)])

\* printDataItemDefinition: Description, EntryDefinitions, CellDefinitions.
PrintDataItemDefinition(def, p) ==
  LET d == Sub(p, "Definition", 0)
      es == Sub(d, "EntryDefinitions", 0)
      ks == InOrder(DOMAIN def.entries)
  IN <<Leaf(p, "Definition")>>
       \o (IF def.desc THEN <<Leaf(d, "Description")>> ELSE <<>>)
       \o (IF ks = <<>> THEN <<>>
           ELSE <<Leaf(d, "EntryDefinitions")>>
                  \o FlattenSeq([k \in 1..Len(ks) |->
                       LET e == Sub(es, ks[k], 0)
                       IN <<El(es, e, "EntryDefinition", "key" :> ks[k])>>
                            \o (IF def.entries[ks[k]].desc THEN <<Leaf(e, "Description")>>
                                ELSE <<>>)
                            \o PrintCellDefinitions(def.entries[ks[k]].cells, e)]))
       \o PrintCellDefinitions(def.cells, d)

\* printDataItem: the element with getAttributes, then Source, Constraints,
\* Filters, InitialValue, ResetTrigger and Definition when present.
PrintDataItem(di, p, id) ==
  LET c == Sub(id, "Constraints", 0)
      f == Sub(id, "Filters", 0)
  IN <<El(p, id, "DataItem", GetAttributes(DataItemMembers(di.attrs)))>>
       \o (IF di.source THEN <<Leaf(id, "Source")>> ELSE <<>>)
       \o (IF ~di.constraints.has THEN <<>>
           ELSE <<Leaf(id, "Constraints")>>
                  \o (IF di.constraints.max THEN <<Leaf(c, "Maximum")>> ELSE <<>>)
                  \o (IF di.constraints.min THEN <<Leaf(c, "Minimum")>> ELSE <<>>)
                  \o Kids(c, "Value", di.constraints.values))
       \o (IF di.filters = {} THEN <<>>
           ELSE <<Leaf(id, "Filters")>>
                  \o LET fs == SelectSeq(<<"MINIMUM_DELTA", "PERIOD">>,
                                         LAMBDA t : t \in di.filters)
                     IN [k \in 1..Len(fs) |-> El(f, Sub(f, "Filter", k), "Filter", "type" :> fs[k])])
       \o (IF di.initial THEN <<Leaf(id, "InitialValue")>> ELSE <<>>)
       \o (IF di.reset THEN <<Leaf(id, "ResetTrigger")>> ELSE <<>>)
       \o (IF ~di.def.has THEN <<>> ELSE PrintDataItemDefinition(di.def, id))

\* The element of the k-th configuration: the dispatch on its kind.  A
\* Relationships with no relationship writes nothing; an unknown kind falls
\* through every dynamic_cast and writes nothing.
ConfigElems(cf, p, k) ==
  LET e(name) == Sub(p, name, k)
      s == e("SensorConfiguration")
  IN CASE cf.kind = "Sensor" ->
            <<El(p, s, "SensorConfiguration", NoAttrs)>>
              \o [j \in 1..5 |-> El(s, Sub(s, "sensor", j), <<"FirmwareVersion", "FirmwareVersion",
                      "CalibrationDate", "NextCalibrationDate", "CalibrationInitials">>[j],
                      NoAttrs)]
              \o (IF cf.n = 0 THEN <<>>
                  ELSE LET chs == Sub(s, "Channels", 0)
                       IN <<Leaf(s, "Channels")>>
                            \o FlattenSeq([j \in 1..cf.n |->
                                 <<El(chs, Sub(chs, "Channel", j), "Channel", NoAttrs)>>
                                   \o [m \in 1..4 |->
                                         El(Sub(chs, "Channel", j), Sub(Sub(chs, "Channel", j), "c", m),
                                            <<"Description", "CalibrationDate", "NextCalibrationDate",
                                              "CalibrationInitials">>[m], NoAttrs)]]))
       [] cf.kind = "Extended" -> <<El(p, e("raw"), "raw", NoAttrs)>>
       [] cf.kind = "Relationships" ->
            IF cf.n = 0 THEN <<>>
            ELSE <<El(p, e("Relationships"), "Relationships", NoAttrs)>>
                   \o Kids(e("Relationships"), "Relationship", cf.n)
       [] cf.kind = "Specifications" ->
            <<El(p, e("Specifications"), "Specifications", NoAttrs)>>
              \o Kids(e("Specifications"), "Specification", cf.n)
       [] cf.kind = "CoordinateSystems" ->
            <<El(p, e("CoordinateSystems"), "CoordinateSystems", NoAttrs)>>
              \o Kids(e("CoordinateSystems"), "CoordinateSystem", cf.n)
       [] OTHER -> <<>>

\* A child's element name: its prefixed class if the prefix is registered.
ChildName(c, ns) ==
  IF c.prefix # "" /\ c.prefix \in ns THEN c.prefix \o ":" \o c.cls ELSE c.cls

\* The References block of a component with references rs, at id.
PrintReferencesBlock(rs, id, version) ==
  LET r == Sub(id, "References", 0)
      out == PrintReferences(version, rs)
  IN IF rs = <<>> THEN <<>>
     ELSE <<Leaf(id, "References")>>
            \o [k \in 1..Len(out) |->
                  El(r, Sub(r, "Reference", k), out[k].name, out[k].idAttr :> out[k].id)]

\* printProbeHelper: the element named name at id inside p, for component c,
\* with m_devicesNamespaces ns and m_schemaVersion version.
RECURSIVE PrintProbeHelper(_, _, _, _, _, _)
PrintProbeHelper(c, p, id, name, ns, version) ==
  LET cf == Sub(id, "Configuration", 0)
      di == Sub(id, "DataItems", 0)
      ch == Sub(id, "Components", 0)
      cp == Sub(id, "Compositions", 0)
  IN <<El(p, id, name, NoAttrs)>>
       \o (IF c.desc THEN <<Leaf(id, "Description")>> ELSE <<>>)
       \o (IF c.config = <<>> THEN <<>>
           ELSE <<Leaf(id, "Configuration")>>
                  \o FlattenSeq([k \in 1..Len(c.config) |-> ConfigElems(c.config[k], cf, k)]))
       \o (IF c.items = <<>> THEN <<>>
           ELSE <<Leaf(id, "DataItems")>>
                  \o FlattenSeq([k \in 1..Len(c.items) |->
                                  PrintDataItem(c.items[k], di, Sub(di, "DataItem", k))]))
       \o (IF c.children = <<>> THEN <<>>
           ELSE <<Leaf(id, "Components")>>
                  \o FlattenSeq([k \in 1..Len(c.children) |->
                                  PrintProbeHelper(c.children[k], ch, Sub(ch, "Component", k),
                                                   ChildName(c.children[k], ns), ns, version)]))
       \o (IF c.comps = <<>> THEN <<>>
           ELSE <<Leaf(id, "Compositions")>>
                  \o FlattenSeq([k \in 1..Len(c.comps) |->
                                  <<El(cp, Sub(cp, "Composition", k), "Composition", NoAttrs)>>
                                    \o (IF c.comps[k] THEN <<Leaf(Sub(cp, "Composition", k), "Description")>>
                                        ELSE <<>>)]))
       \o PrintReferencesBlock(c.refs, id, version)

-----------------------------------------------------------------------------

VARIABLES
  schemaVersion,  \* m_schemaVersion
  devices,        \* the device list printProbe is given
  devNs,          \* the prefixes registered in m_devicesNamespaces
  ppc,            \* "start", "devices" or "done"
  next,           \* the index in devices of the next device to print
  doc,            \* the elements written
  result          \* "None", "Document" or "Empty" (ret)

probeVars == <<schemaVersion, devices, devNs, ppc, next, doc, result>>

DevicesId == <<<<"Devices", 0>>>>
DeviceId(k) == Sub(DevicesId, "Device", k)

\* Configuration is done before any document is printed (spec, section 5).
ProbeInit ==
  /\ schemaVersion \in Versions
  /\ devices \in DeviceList
  /\ devNs \in Registries
  /\ ppc = "start"
  /\ next = 1
  /\ doc = <<>>
  /\ result = "None"

\* initXmlDoc, then the Devices element.
BeginProbe ==
  /\ ppc = "start"
  /\ doc' = <<El(<<>>, DevicesId, "Devices", NoAttrs)>>
  /\ ppc' = "devices"
  /\ UNCHANGED <<schemaVersion, devices, devNs, next, result>>

\* One turn of the device loop: printProbeHelper(writer, dev, "Device").
PrintDevice ==
  /\ ppc = "devices"
  /\ next <= Len(devices)
  /\ doc' = doc \o PrintProbeHelper(devices[next], DevicesId, DeviceId(next), "Device",
                                     devNs, schemaVersion)
  /\ next' = next + 1
  /\ UNCHANGED <<schemaVersion, devices, devNs, ppc, result>>

\* The device loop is over: Devices and the root are closed, ret is set.
FinishProbe ==
  /\ ppc = "devices"
  /\ next > Len(devices)
  /\ result' = "Document"
  /\ ppc' = "done"
  /\ UNCHANGED <<schemaVersion, devices, devNs, next, doc>>

\* A libxml call fails: printProbe catches it and returns "".
FailProbe ==
  /\ ppc \in {"start", "devices"}
  /\ result' = "Empty"
  /\ ppc' = "done"
  /\ UNCHANGED <<schemaVersion, devices, devNs, next, doc>>

ProbeNext == BeginProbe \/ PrintDevice \/ FinishProbe \/ FailProbe

ProbeSpec == ProbeInit /\ [][ProbeNext]_probeVars

-----------------------------------------------------------------------------

\* The components of the tree under c, c's element id being id.
RECURSIVE TreeNodes(_, _)
TreeNodes(c, id) ==
  {[c |-> c, id |-> id]}
    \cup UNION {TreeNodes(c.children[k], Sub(Sub(id, "Components", 0), "Component", k)) : k \in 1..Len(c.children)}

\* Every component of every device of the list, with its element id.
AllNodes == UNION {TreeNodes(devices[k], DeviceId(k)) : k \in 1..Len(devices)}

\* The DataItem elements written for the data item with id x.
ItemElems(x) ==
  SelectSeq(doc, LAMBDA e : e.name = "DataItem" /\ "id" \in DOMAIN e.attrs /\ e.attrs["id"] = x)

(* The probe reports every data item as configured (spec, section 3): one  *)
(* DataItem element per data item, with its category (SAMPLE, EVENT or     *)
(* CONDITION), every other attribute configured non-empty with its value   *)
(* (nativeScale and significantDigits as the numbers read), nativeUnits    *)
(* defaulting to units, and no attribute that was not configured; id, name *)
(* and type are always written.  The attributes pass through the DataItem  *)
(* constructor and getAttributes.                                          *)
AttributesFollowConfig ==
  result = "Document" =>
    \A n \in AllNodes : \A k \in 1..Len(n.c.items) :
      LET a == n.c.items[k].attrs
          es == ItemElems(a.id)
          at == es[1].attrs
          strs == {"subType", "units", "coordinateSystem"}
      IN /\ Len(es) = 1
         /\ at["category"] = a.category
         /\ {"id", "name", "type"} \subseteq DOMAIN at
         /\ \A x \in strs : (x \in DOMAIN at <=> a[x] # "") /\ (x \in DOMAIN at => at[x] = a[x])
         /\ ("nativeUnits" \in DOMAIN at) <=> (a.nativeUnits # "" \/ a.units # "")
         /\ "nativeUnits" \in DOMAIN at =>
              at["nativeUnits"] = IF a.nativeUnits # "" THEN a.nativeUnits ELSE a.units
         /\ ("nativeScale" \in DOMAIN at) <=> (a.nativeScale # "")
         /\ ("significantDigits" \in DOMAIN at) <=> (a.significantDigits # "")
         /\ "nativeScale" \in DOMAIN at => at["nativeScale"].float = Atof[a.nativeScale]
         /\ DOMAIN at \subseteq {"id", "name", "type", "category", "nativeUnits", "nativeScale",
                                 "significantDigits"} \cup strs

(* Every component's references are rendered as spec section 6 asks, at *)
(* every depth of every device: the References element of a component     *)
(* holds, in order, a DataItemRef or ComponentRef with idRef for each     *)
(* reference from schema version 1.4 on, and a Reference with dataItemId  *)
(* for each data-item reference below it, the version read as a number.  *)
(* The gate is the std::string comparison m_schemaVersion >= "1.4".        *)
ReferencesFollowSchema ==
  result = "Document" =>
    \A n \in AllNodes :
      LET r == Sub(n.id, "References", 0)
          es == SelectSeq(doc, LAMBDA e : e.parent = r)
          Read(e) == LET a == CHOOSE x \in DOMAIN e.attrs : TRUE
                     IN [name |-> e.name, idAttr |-> a, id |-> e.attrs[a]]
      IN [k \in 1..Len(es) |-> Read(es[k])] = SchemaReferences(schemaVersion, n.c.refs)

\* The camel type of a type name by definition: its words, the parts
\* between underscores, each capitalised, joined.
CamelReference(t) ==
  LET keep == SelectSeq([i \in 1..Len(t) |-> i], LAMBDA i : t[i] # "_")
  IN [k \in 1..Len(keep) |->
        LET i == keep[k]
        IN IF i = 1 \/ t[i - 1] = "_" THEN ToUpper(t[i]) ELSE ToLower(t[i])]

(* The camel type the DataItem constructor stores for each data item       *)
(* (getCamelType, used by getTypeString) is the type name in camel case:   *)
(* every underscore dropped, the letter after it upper case, the others    *)
(* lower case, for type names that start with a letter and do not end with *)
(* an underscore, runs of underscores included.  The in-place loop of      *)
(* erase, replace and find must not skip or repeat a character.            *)
CamelTypeFollowsReference ==
  \A n \in AllNodes : \A k \in 1..Len(n.c.items) :
      LET t == n.c.items[k].attrs.type
      IN DataItemMembers(n.c.items[k].attrs).mCamelType = CamelReference(t)
=============================================================================
