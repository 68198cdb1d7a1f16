-------------------------- MODULE StreamsDocument --------------------------
(***************************************************************************)
(* What printSample promises (spec 4.4): the document lists the            *)
(* observations of the stable-sorted input, in that order, each inside the *)
(* DeviceStream of its device, the ComponentStream of its component and    *)
(* the element of its category; or, if the encoder fails, the call returns *)
(* the empty string.                                                       *)
(*                                                                         *)
(* doc is the document as the sequence of observations it contains, each   *)
(* with the path of elements (name and identifying attribute) around it.   *)
(***************************************************************************)
EXTENDS ObservationSort

VARIABLES input, doc, result

vars == <<input, doc, result>>

\* An element of the document: its name and its identifying attribute.
Elem(name, attr) == [name |-> name, attr |-> attr]

\* The elements an observation of item must be nested in.
GroupPath(item) ==
  <<Elem(RootName, ""), Elem(StreamsName, ""), Elem("DeviceStream", item.dev),
    Elem("ComponentStream", item.comp), Elem(item.cat, "")>>

Init ==
  /\ input \in InputLists
  /\ doc = <<>>
  /\ result = "None"

\* The next observation of the sorted list is written at its group's path.
Emit ==
  /\ result = "None"
  /\ Len(doc) < Len(input)
  /\ LET o == SortObservations(ObservationsOf(input))[Len(doc) + 1]
     IN doc' = Append(doc, [obs |-> o, path |-> GroupPath(o.item)])
  /\ UNCHANGED <<input, result>>

\* Every observation has been written: the document is returned.
Complete ==
  /\ result = "None"
  /\ Len(doc) = Len(input)
  /\ result' = "Document"
  /\ UNCHANGED <<input, doc>>

\* The encoder failed: the call returns the empty string.
Abort ==
  /\ result = "None"
  /\ result' = "Empty"
  /\ UNCHANGED <<input, doc>>

Next == Emit \/ Complete \/ Abort

Spec == Init /\ [][Next]_vars
=============================================================================
