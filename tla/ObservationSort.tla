-------------------------- MODULE ObservationSort --------------------------
(***************************************************************************)
(* The observations handed to XmlPrinter::printSample and the order the    *)
(* printer puts them in before grouping them into a Streams document.      *)
(*                                                                         *)
(* A data item is abstracted to the three things the grouping looks at:    *)
(* the device of its component, the id of its component and the category  *)
(* text of the item ("Samples", "Events" or "Condition", which is also the *)
(* name of the category element).  An observation is a data item together  *)
(* with its position in the caller's list, which stands for its sequence   *)
(* number: it only has to tell two observations of one item apart.         *)
(*                                                                         *)
(* The comparator ObservationCompare is not part of the sources; the spec  *)
(* says the list is stable-sorted by (device, component, category), and    *)
(* that is what SortObservations defines.                                  *)
(***************************************************************************)
EXTENDS Naturals, Sequences, SequencesExt

CONSTANTS
  DataItems,       \* set of records [dev, comp, cat]
  DeviceOrder,     \* the devices, in the order the comparator puts them
  ComponentOrder,  \* the component ids, in comparator order
  CategoryOrder,   \* the category texts, in comparator order
  MaxObservations  \* longest observation list a call is given

ASSUME MaxObservations \in Nat

\* Position of x in the ordering sequence s.
Rank(s, x) == CHOOSE i \in 1..Len(s) : s[i] = x

\* The composite sort key of a data item.
SortKey(item) ==
  <<Rank(DeviceOrder, item.dev), Rank(ComponentOrder, item.comp),
    Rank(CategoryOrder, item.cat)>>

\* Lexicographic order on sort keys.
KeyLess(k, l) ==
  \/ k[1] < l[1]
  \/ k[1] = l[1] /\ k[2] < l[2]
  \/ k[1] = l[1] /\ k[2] = l[2] /\ k[3] < l[3]

\* Every key a data item can have, in ascending order.
GroupKeys == SetToSortSeq({SortKey(i) : i \in DataItems}, KeyLess)

\* The observations of an input list of data items.
ObservationsOf(items) == [i \in 1..Len(items) |-> [item |-> items[i], seq |-> i]]

\* The input lists a caller can pass: any list of observations, in any order.
InputLists == SeqOf(DataItems, MaxObservations)

\* Stable sort by SortKey: the groups in key order, each group in input order.
SortObservations(obs) ==
  FlattenSeq([k \in 1..Len(GroupKeys) |->
                SelectSeq(obs, LAMBDA o : SortKey(o.item) = GroupKeys[k])])

\* Names the writer gives the enclosing elements.
RootName == "MTConnectStreams"
StreamsName == "Streams"
=============================================================================
