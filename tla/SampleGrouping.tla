--------------------------- MODULE SampleGrouping ---------------------------
(***************************************************************************)
(* XmlPrinter::printSample (src/src/xml_printer.cpp): the flat list of     *)
(* observations is sorted, then streamed through three AutoElement         *)
(* markers (deviceElement, componentStreamElement, categoryElement), each  *)
(* of which remembers the name and key of the element it believes it has  *)
(* open in the libxml text writer.  At every row a marker whose key        *)
(* differs from the row's is reset: the element it holds is closed and a   *)
(* new one opened.  The writer itself only knows a stack of open elements: *)
(* xmlTextWriterEndElement closes whatever element is on top.              *)
(*                                                                         *)
(* stack   the writer's open elements, outermost first; each carries its   *)
(*         name, its identifying attribute and a fresh instance number     *)
(* opens   how many elements the writer has opened (instance numbers)      *)
(* emitted each observation written so far, with the writer's stack       *)
(*         around it: the place of the observation in the document         *)
(* Header, the observation's own element and its attributes are opened    *)
(* and closed within one step and are left out.                            *)
(***************************************************************************)
EXTENDS ObservationSort

VARIABLES
  input,                   \* the caller's list of data items (observations)
  sorted,                  \* the list after the sort
  row,                     \* index of the next row of the loop
  stack,                   \* the text writer's open elements
  opens,                   \* number of elements opened so far
  deviceElement,           \* AutoElement [name, key] of the DeviceStream
  componentStreamElement,  \* AutoElement [name, key] of the ComponentStream
  categoryElement,         \* AutoElement [name, key] of the category
  emitted,                 \* observations written, with their enclosing stack
  pc,                      \* "start", "rows" or "done"
  result                   \* "None", "Document" or "Empty" (ret)

vars == <<input, sorted, row, stack, opens, deviceElement,
          componentStreamElement, categoryElement, emitted, pc, result>>

\* An AutoElement constructed from the writer alone holds no element.
NoElement == [name |-> "", key |-> ""]

-----------------------------------------------------------------------------
(* The printer state as one record, so that the steps of a row can be     *)
(* composed as functions: stack, opens and the three markers.             *)

State == [stack |-> stack, opens |-> opens, dev |-> deviceElement,
          comp |-> componentStreamElement, cat |-> categoryElement]

\* openElement: xmlTextWriterStartElement pushes a new element.
OpenElem(s, name, attr) ==
  [s EXCEPT !.stack = Append(@, [name |-> name, attr |-> attr, id |-> s.opens + 1]),
            !.opens = @ + 1]

\* closeElement: xmlTextWriterEndElement closes the innermost open element.
CloseElem(s) == [s EXCEPT !.stack = Front(@)]

\* Mutant: reset opens the new element without closing the one it holds.
ResetNoClose(s, m, name, key) ==
  IF name # s[m].name \/ key # s[m].key
  THEN LET s2 == IF name # "" THEN OpenElem(s, name, key) ELSE s
       IN [s2 EXCEPT ![m] = [name |-> name, key |-> key]]
  ELSE s

\* Mutant: reset compares only the element name, not the key.
ResetNameOnly(s, m, name, key) ==
  IF name # s[m].name
  THEN LET s1 == IF s[m].name # "" THEN CloseElem(s) ELSE s
           s2 == IF name # "" THEN OpenElem(s1, name, key) ELSE s1
       IN [s2 EXCEPT ![m] = [name |-> name, key |-> key]]
  ELSE s

\* AutoElement::reset(name, key) on marker m.
Reset(s, m, name, key) ==
  IF name # s[m].name \/ key # s[m].key
  THEN LET s1 == IF s[m].name # "" THEN CloseElem(s) ELSE s
           s2 == IF name # "" THEN OpenElem(s1, name, key) ELSE s1
       IN [s2 EXCEPT ![m] = [name |-> name, key |-> key]]
  ELSE s

\* Mutant: a new component does not first close the category element.
RowStepKeepCategory(s, item) ==
  LET s1 == IF s.dev.key # item.dev
            THEN Reset(Reset(Reset(s, "cat", "", ""), "comp", "", ""),
                       "dev", "DeviceStream", item.dev)
            ELSE s
      s2 == IF s1.comp.key # item.comp
            THEN Reset(s1, "comp", "ComponentStream", item.comp)
            ELSE s1
  IN Reset(s2, "cat", item.cat, "")

\* Mutant: a new device does not first close the component stream.
RowStepKeepComponent(s, item) ==
  LET s1 == IF s.dev.key # item.dev
            THEN Reset(Reset(s, "cat", "", ""), "dev", "DeviceStream", item.dev)
            ELSE s
      s2 == IF s1.comp.key # item.comp
            THEN Reset(Reset(s1, "cat", "", ""), "comp", "ComponentStream", item.comp)
            ELSE s1
  IN Reset(s2, "cat", item.cat, "")

\* The loop body for one observation of item, up to addObservation.
RowStep(s, item) ==
  LET s1 == IF s.dev.key # item.dev
            THEN Reset(Reset(Reset(s, "cat", "", ""), "comp", "", ""),
                       "dev", "DeviceStream", item.dev)
            ELSE s
      s2 == IF s1.comp.key # item.comp
            THEN Reset(Reset(s1, "cat", "", ""), "comp", "ComponentStream", item.comp)
            ELSE s1
  IN Reset(s2, "cat", item.cat, "")

\* Assign a computed printer state to the variables.
SetState(s) ==
  /\ stack' = s.stack
  /\ opens' = s.opens
  /\ deviceElement' = s.dev
  /\ componentStreamElement' = s.comp
  /\ categoryElement' = s.cat

-----------------------------------------------------------------------------

Init ==
  /\ input \in InputLists
  /\ sorted = <<>>
  /\ row = 1
  /\ stack = <<>>
  /\ opens = 0
  /\ deviceElement = NoElement
  /\ componentStreamElement = NoElement
  /\ categoryElement = NoElement
  /\ emitted = <<>>
  /\ pc = "start"
  /\ result = "None"

\* initXmlDoc opens the root, AutoElement streams opens Streams, and the
\* observations are sorted.
Begin ==
  /\ pc = "start"
  /\ stack' = <<[name |-> RootName, attr |-> "", id |-> 1],
                [name |-> StreamsName, attr |-> "", id |-> 2]>>
  /\ opens' = 2
  /\ sorted' = SortObservations(ObservationsOf(input))
  /\ pc' = "rows"
  /\ UNCHANGED <<input, row, deviceElement, componentStreamElement,
                 categoryElement, emitted, result>>

\* One iteration of the loop: reset the markers, then addObservation.
Row ==
  /\ pc = "rows"
  /\ row <= Len(sorted)
  /\ LET s == RowStep(State, sorted[row].item)
     IN /\ SetState(s)
        /\ emitted' = Append(emitted, [obs |-> sorted[row], path |-> s.stack])
  /\ row' = row + 1
  /\ UNCHANGED <<input, sorted, pc, result>>

\* After the loop: the markers' destructors close what they hold (category,
\* component, device), streams.reset("") and closeElement close Streams and
\* the root, and getContent ends the document.  A closeElement with nothing
\* open fails in libxml and throws.
Finish ==
  /\ pc = "rows"
  /\ row > Len(sorted)
  /\ LET held == Len(SelectSeq(<<categoryElement, componentStreamElement,
                                 deviceElement>>, LAMBDA m : m.name # ""))
     IN result' = IF held + 2 <= Len(stack) THEN "Document" ELSE "Empty"
  /\ stack' = <<>>
  /\ pc' = "done"
  /\ UNCHANGED <<input, sorted, row, opens, deviceElement,
                 componentStreamElement, categoryElement, emitted>>

\* A libxml call fails: the exception is caught and ret stays empty.
Fail ==
  /\ pc \in {"start", "rows"}
  /\ result' = "Empty"
  /\ stack' = <<>>
  /\ pc' = "done"
  /\ UNCHANGED <<input, sorted, row, opens, deviceElement,
                 componentStreamElement, categoryElement, emitted>>

Next == Begin \/ Row \/ Finish \/ Fail

Spec == Init /\ [][Next]_vars

-----------------------------------------------------------------------------

TypeOK ==
  /\ input \in InputLists
  /\ row \in 1..(MaxObservations + 1)
  /\ opens \in Nat
  /\ Len(stack) \in 0..5
  /\ \A m \in {deviceElement, componentStreamElement, categoryElement} :
        m \in [name : STRING, key : STRING]
  /\ pc \in {"start", "rows", "done"}
  /\ result \in {"None", "Document", "Empty"}

\* The markers that hold an element, outermost first.
HeldMarkers ==
  SelectSeq(<<deviceElement, componentStreamElement, categoryElement>>,
            LAMBDA m : m.name # "")

(* Between rows, the elements the three AutoElement markers believe they  *)
(* hold are exactly the elements the writer has open inside Streams, in   *)
(* the same nesting order: no reset closed an element another marker      *)
(* owns.  This is what the order of the reset("") calls in printSample    *)
(* has to guarantee.                                                      *)
MarkersMatchWriter ==
  pc = "rows" =>
    /\ Len(stack) = 2 + Len(HeldMarkers)
    /\ stack[1].name = RootName /\ stack[2].name = StreamsName
    /\ \A i \in 1..Len(HeldMarkers) :
          /\ stack[i + 2].name = HeldMarkers[i].name
          /\ stack[i + 2].attr = HeldMarkers[i].key

(* All observations of one (device, component, category) group are written *)
(* inside one and the same element instance: a group is never split into   *)
(* two DeviceStream, ComponentStream or category elements.                 *)
GroupsContiguous ==
  \A i, j \in 1..Len(emitted) :
    LET a == emitted[i].obs.item
        b == emitted[j].obs.item
    IN (a.dev = b.dev /\ a.comp = b.comp /\ a.cat = b.cat)
         => emitted[i].path = emitted[j].path

\* The document as the abstract specification sees it: instance numbers
\* dropped from the paths.
AbstractDoc ==
  [i \in 1..Len(emitted) |->
     [obs |-> emitted[i].obs,
      path |-> [j \in 1..Len(emitted[i].path) |->
                  [name |-> emitted[i].path[j].name, attr |-> emitted[i].path[j].attr]]]]

Document == INSTANCE StreamsDocument WITH doc <- AbstractDoc

(* printSample implements StreamsDocument: it writes the stable-sorted      *)
(* observations in order, each at the path of its device, component and     *)
(* category, and returns either that whole document or the empty string.    *)
ImplementsStreamsDocument == Document!Spec
=============================================================================
