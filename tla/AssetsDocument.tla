---------------------------- MODULE AssetsDocument ----------------------------
(***************************************************************************)
(* XmlPrinter::printAssets and printAssetNode (src/src/xml_printer.cpp):   *)
(* the Assets element and one child per asset.  A CuttingTool or          *)
(* CuttingToolArchetype asset is written as raw content, the string its    *)
(* getContent returns from printCuttingTool, which opens the tool element *)
(* and calls printAssetNode itself; any other asset gets an element named *)
(* by its type, printAssetNode, then its raw content.                      *)
(*                                                                         *)
(* The cutting tool of the list is the tool of CuttingTool, and getContent *)
(* is its one printCuttingTool call.                                       *)
(*                                                                         *)
(* Faults: a libxml call of printAssets fails (caught there, ret stays     *)
(* empty), or one of printCuttingTool fails (caught there, the content is  *)
(* the empty string).  Elements are [parent, name]; the removed attribute  *)
(* is written as the pseudo element "@removed" of the asset.               *)
(***************************************************************************)
EXTENDS CuttingTool, FiniteSets

CONSTANT AssetLists   \* the asset headers printAssets may be given, in order

AssetsElem == <<"Assets", 0>>
ToolTypes == {"CuttingTool", "CuttingToolArchetype"}

\* The element of the k-th asset: its type, and k to tell assets apart (one
\* cutting tool per list, the element of CuttingTool).
AssetElem(a, k) == IF a.type \in ToolTypes THEN <<a.type, 0>> ELSE <<a.type, k>>

\* printAssetNode: identity attributes, removed="true" if removed, then the
\* archetype reference and the description when not empty.
AssetNode(p, a) ==
  (IF a.removed THEN <<Elem(p, "@removed")>> ELSE <<>>)
    \o (IF a.archetype THEN <<Elem(p, "AssetArchetypeRef")>> ELSE <<>>)
    \o (IF a.description THEN <<Elem(p, "Description")>> ELSE <<>>)

\* Mutant: printCuttingTool does not call printAssetNode.
CuttingToolContentNoNode(a) ==
  <<Elem(AssetsElem, AssetElem(a, 0))>> \o PrintCuttingTool(tool)

\* printCuttingTool's content: the tool element, its node, then the body.
CuttingToolContent(a) ==
  <<Elem(AssetsElem, AssetElem(a, 0))>> \o AssetNode(AssetElem(a, 0), a)
    \o PrintCuttingTool(tool)

\* The loop body for an asset of another type: element, node, raw content.
GenericAsset(a, k) ==
  <<Elem(AssetsElem, AssetElem(a, k))>> \o AssetNode(AssetElem(a, k), a)
    \o <<Elem(AssetElem(a, k), "content")>>

-----------------------------------------------------------------------------

VARIABLES
  assets,      \* the list printAssets is given
  i,           \* index of the asset the loop is at
  content,     \* the string getContent returned for the current tool
  doc,         \* the elements written into the Assets element
  apc,         \* "start", "loop", "raw" or "done"
  result       \* "None", "Document" or "Empty" (ret)

assetVars == <<assets, i, content, doc, apc, result>>

\* The tool exists and has not been rendered; printAssets is called.
AssetsInit ==
  /\ Init
  /\ assets \in AssetLists
  /\ i = 1
  /\ content = <<>>
  /\ doc = <<>>
  /\ apc = "start"
  /\ result = "None"

\* initXmlDoc, then the Assets element is opened.
Begin ==
  /\ apc = "start"
  /\ apc' = "loop"
  /\ UNCHANGED <<vars, assets, i, content, doc, result>>

\* An asset of another type: element, printAssetNode, raw content.
WriteAsset ==
  /\ apc = "loop"
  /\ i <= Len(assets)
  /\ assets[i].type \notin ToolTypes
  /\ doc' = doc \o GenericAsset(assets[i], i)
  /\ i' = i + 1
  /\ UNCHANGED <<vars, assets, content, apc, result>>

\* A cutting tool: asset->getContent(this) runs printCuttingTool.
ToolContent ==
  /\ apc = "loop"
  /\ i <= Len(assets)
  /\ assets[i].type \in ToolTypes
  /\ CallPrintCuttingTool
  /\ content' = CuttingToolContent(assets[i])
  /\ apc' = "raw"
  /\ UNCHANGED <<assets, i, doc, result>>

\* A libxml call inside printCuttingTool fails: it logs and returns "".
ToolContentFails ==
  /\ apc = "loop"
  /\ i <= Len(assets)
  /\ assets[i].type \in ToolTypes
  /\ content' = <<>>
  /\ apc' = "raw"
  /\ UNCHANGED <<vars, assets, i, doc, result>>

\* xmlTextWriterWriteRaw of the tool's content.
WriteRaw ==
  /\ apc = "raw"
  /\ doc' = doc \o content
  /\ i' = i + 1
  /\ apc' = "loop"
  /\ UNCHANGED <<vars, assets, content, result>>

\* The loop is done: the Assets element and the root are closed.
Finish ==
  /\ apc = "loop"
  /\ i > Len(assets)
  /\ result' = "Document"
  /\ apc' = "done"
  /\ UNCHANGED <<vars, assets, i, content, doc>>

\* A libxml call of printAssets fails: the exception is caught, ret is "".
Fail ==
  /\ apc \in {"start", "loop", "raw"}
  /\ result' = "Empty"
  /\ apc' = "done"
  /\ UNCHANGED <<vars, assets, i, content, doc>>

AssetsNext ==
  Begin \/ WriteAsset \/ ToolContent \/ ToolContentFails \/ WriteRaw \/ Finish \/ Fail

AssetsSpec == AssetsInit /\ [][AssetsNext]_<<vars, assetVars>>

-----------------------------------------------------------------------------

\* The children written into element p, in document order.
Children(p) == SelectSeq(doc, LAMBDA e : e.parent = p)

\* The asset elements directly inside Assets, in document order.
Shown == [j \in 1..Len(Children(AssetsElem)) |-> Children(AssetsElem)[j].name]

HeaderNames == {"@removed", "AssetArchetypeRef", "Description"}

\* The header printAssetNode owes asset a: which of its parts, in order.
Header(a) ==
  SelectSeq(<<"@removed", "AssetArchetypeRef", "Description">>,
            LAMBDA n : \/ n = "@removed" /\ a.removed
                       \/ n = "AssetArchetypeRef" /\ a.archetype
                       \/ n = "Description" /\ a.description)

(* The Assets document of printAssets follows its list (spec, section 4.4):  *)
(* the elements inside Assets are assets of the list in its order, each at   *)
(* most once and every asset other than a cutting tool present; and each     *)
(* asset element, whichever of the two renderers wrote it, opens with the    *)
(* header of printAssetNode, removed, archetype reference and description,   *)
(* each once, none of them repeated by the cutting-tool body.                *)
AssetsFollowList ==
  result = "Document" =>
    /\ \E ks \in SUBSET (1..Len(assets)) :
         /\ \A k \in 1..Len(assets) : assets[k].type \notin ToolTypes => k \in ks
         /\ Shown = [j \in 1..Cardinality(ks) |->
                       LET k == SetToSortSeq(ks, <)[j] IN AssetElem(assets[k], k)]
    /\ \A k \in 1..Len(assets) :
         LET a == assets[k]
             ch == Children(AssetElem(a, k))
             h == Header(a)
         IN AssetElem(a, k) \in Range(Shown) =>
              /\ Len(ch) >= Len(h)
              /\ [j \in 1..Len(h) |-> ch[j].name] = h
              /\ Len(SelectSeq(ch, LAMBDA e : e.name \in HeaderNames)) = Len(h)

(* An encoding failure yields an empty result, never part of a document      *)
(* (spec, sections 4.4 and 7: caught at the entry point, the call returns    *)
(* an empty string): a document printAssets returns holds every asset of     *)
(* its list.                                                                  *)
AllOrNothing ==
  result = "Document" => Len(Shown) = Len(assets)
=============================================================================
