----------------------------- MODULE CuttingTool -----------------------------
(***************************************************************************)
(* XmlPrinter::printCuttingTool and printCuttingToolItem                   *)
(* (src/src/xml_printer.cpp): the body of a CuttingTool asset.  The tool's *)
(* and each cutting item's named values (m_values, a std::map) are written *)
(* in two passes: a fixed list of known properties, each printed if        *)
(* present and erased from a std::set "remaining", then whatever is left   *)
(* in "remaining", in set order, for forward compatibility.                *)
(*                                                                         *)
(* A value is abstracted to its key; tool-life entries and measurements    *)
(* to their element.  The document is the sequence of elements written,   *)
(* each with the element it is written in (its parent).  The identity,    *)
(* timestamp and description written by printAssetNode are left out.      *)
(***************************************************************************)
EXTENDS Naturals, Sequences, SequencesExt

CONSTANTS
  ToolKeys,   \* keys a tool's m_values may hold
  ItemKeys,   \* keys a cutting item's m_values may hold
  KeyOrder,   \* all keys, in std::less<std::string> order
  MaxLives,   \* most tool-life entries of a tool or item
  MaxItems    \* most cutting items of a tool

ASSUME ToolKeys \cup ItemKeys \subseteq Range(KeyOrder)

\* The parents of the elements written.
ToolElem == <<"CuttingTool", 0>>
LifeElem == <<"CuttingToolLifeCycle", 0>>
ItemsElem == <<"CuttingItems", 0>>
ItemElem(i) == <<"CuttingItem", i>>

Elem(parent, name) == [parent |-> parent, name |-> name]

\* The cutting items a tool may have.
Items == [values : SUBSET ItemKeys, lives : 0..MaxLives, measurements : BOOLEAN]

\* The tools the asset parser may hand to the printer.
Tools == [values : SUBSET ToolKeys, status : BOOLEAN, lives : 0..MaxLives,
          measurements : BOOLEAN, items : SeqOf(Items, MaxItems)]

\* Mutant: the known value is printed but not erased from remaining.
PrintKnownNoErase(vals, parent, st, k) ==
  IF k \in vals THEN [st EXCEPT !.out = Append(@, Elem(parent, k))] ELSE st

\* printCuttingToolValue(writer, tool|item, value, &remaining): if the
\* value exists, erase it from remaining and print it.
PrintKnown(vals, parent, st, k) ==
  IF k \in vals
  THEN [out |-> Append(st.out, Elem(parent, k)), rem |-> st.rem \ {k}]
  ELSE st

\* PrintKnown for each key of ks in turn.
PrintKnownList(vals, parent, st, ks) ==
  FoldLeft(LAMBDA s, k : PrintKnown(vals, parent, s, k), st, ks)

\* The loop over the remaining set: its keys in set order.
PrintRemaining(rem, parent) ==
  LET ks == SelectSeq(KeyOrder, LAMBDA k : k \in rem)
  IN [i \in 1..Len(ks) |-> Elem(parent, ks[i])]

\* The loop over m_lives.
PrintLives(n, parent) == [i \in 1..n |-> Elem(parent, "ToolLife")]

\* The Measurements element, if there are any.
PrintMeasurements(m, parent) == IF m THEN <<Elem(parent, "Measurements")>> ELSE <<>>

\* printCuttingToolItem: the CuttingItem element and its content.
PrintCuttingToolItem(i, item) ==
  LET p == ItemElem(i)
      st == PrintKnownList(item.values, p, [out |-> <<>>, rem |-> item.values],
                           <<"Description", "Locus">>)
  IN <<Elem(ItemsElem, "CuttingItem")>> \o st.out \o PrintLives(item.lives, p)
       \o PrintRemaining(st.rem, p) \o PrintMeasurements(item.measurements, p)

\* Mutant: the known list of the life cycle omits "Location".
LifeCycleKnownMissingLocation ==
  <<"ProgramToolGroup", "ProgramToolNumber", "ProcessSpindleSpeed",
    "ProcessFeedRate", "ConnectionCodeMachineSide">>

\* The known values printed after the tool lives, in this order.
LifeCycleKnown ==
  <<"ProgramToolGroup", "ProgramToolNumber", "Location", "ProcessSpindleSpeed",
    "ProcessFeedRate", "ConnectionCodeMachineSide">>

\* printCuttingTool: the elements of the tool, in document order.
PrintCuttingTool(t) ==
  LET v == t.values
      st1 == PrintKnown(v, ToolElem, [out |-> <<>>, rem |-> v \ {"Description"}],
                        "CuttingToolDefinition")
      st2 == PrintKnown(v, LifeElem,
                        [out |-> IF t.status THEN <<Elem(LifeElem, "CutterStatus")>>
                                 ELSE <<>>,
                         rem |-> st1.rem], "ReconditionCount")
      st3 == PrintKnownList(v, LifeElem,
                            [st2 EXCEPT !.out = @ \o PrintLives(t.lives, LifeElem)],
                            LifeCycleKnown)
      items == IF t.items = <<>> THEN <<>>
               ELSE <<Elem(LifeElem, "CuttingItems")>>
                      \o FlattenSeq([i \in 1..Len(t.items) |->
                                       PrintCuttingToolItem(i, t.items[i])])
  IN st1.out \o <<Elem(ToolElem, "CuttingToolLifeCycle")>> \o st3.out
       \o PrintRemaining(st3.rem, LifeElem)
       \o PrintMeasurements(t.measurements, LifeElem) \o items

-----------------------------------------------------------------------------

VARIABLES
  tool,  \* the CuttingTool asset handed to printCuttingTool
  out    \* the elements written, or <<>> before the call

vars == <<tool, out>>

Init ==
  /\ tool \in Tools
  /\ out = <<>>

\* One call of printCuttingTool.
CallPrintCuttingTool ==
  /\ out = <<>>
  /\ out' = PrintCuttingTool(tool)
  /\ UNCHANGED tool

Spec == Init /\ [][CallPrintCuttingTool]_vars

-----------------------------------------------------------------------------

TypeOK ==
  /\ tool \in Tools
  /\ out \in Seq([parent : {ToolElem, LifeElem, ItemsElem} \cup
                           {ItemElem(i) : i \in 1..MaxItems},
                  name : STRING])

\* How many elements named k are written in one of the parents ps.
Count(k, ps) == Len(SelectSeq(out, LAMBDA e : e.name = k /\ e.parent \in ps))

(* Each named value of the tool is written exactly once, in the tool or its *)
(* life cycle, except Description, which printAssetNode writes from the     *)
(* asset and which never appears among the life-cycle values; each value of *)
(* each cutting item is written exactly once in that item.  This is what    *)
(* the erasing from "remaining" by every known-property print has to        *)
(* guarantee, across the two passes over m_values.                          *)
ValuesPrintedOnce ==
  out # <<>> =>
    /\ \A k \in tool.values \ {"Description"} : Count(k, {ToolElem, LifeElem}) = 1
    /\ Count("Description", {ToolElem, LifeElem}) = 0
    /\ \A i \in 1..Len(tool.items) :
          \A k \in tool.items[i].values : Count(k, {ItemElem(i)}) = 1

\* The known properties of a tool life cycle, in schema order.
SchemaLifeCycleOrder ==
  <<"ReconditionCount", "ProgramToolGroup", "ProgramToolNumber", "Location",
    "ProcessSpindleSpeed", "ProcessFeedRate", "ConnectionCodeMachineSide">>

\* The values the life cycle should hold: the known ones in schema order,
\* then every other value except Description and CuttingToolDefinition.
ExpectedLifeValues(v) ==
  LET known == Range(SchemaLifeCycleOrder)
  IN SelectSeq(SchemaLifeCycleOrder, LAMBDA k : k \in v)
       \o SelectSeq(KeyOrder, LAMBDA k : k \in v \ (known \cup {"Description",
                                                    "CuttingToolDefinition"}))

(* The values of the CuttingToolLifeCycle are the known properties present, *)
(* in schema order, followed by the unknown (extended) ones: the schema is  *)
(* a sequence, so an extended value written before a known one makes the   *)
(* document invalid.                                                        *)
KnownBeforeExtended ==
  out # <<>> =>
    LET life == SelectSeq(out, LAMBDA e : e.parent = LifeElem /\ e.name \in tool.values)
    IN [i \in 1..Len(life) |-> life[i].name] = ExpectedLifeValues(tool.values)
====
