-------------------------- MODULE MC_AssetsDocument --------------------------
EXTENDS AssetsDocument, MC_CuttingTool

\* An asset header: its type and which of the optional parts it has.
H(t, r, a, d) == [type |-> t, removed |-> r, archetype |-> a, description |-> d]

\* One cutting tool alone, a File before and after the tool, and two Files:
\* every part of the header, in each branch of the dispatch, both orders.
MCAssetLists ==
  { <<H("CuttingTool", TRUE, FALSE, TRUE)>>,
    <<H("File", TRUE, TRUE, TRUE), H("CuttingTool", FALSE, TRUE, FALSE)>>,
    <<H("CuttingTool", FALSE, FALSE, FALSE), H("File", FALSE, FALSE, TRUE)>>,
    <<H("File", FALSE, TRUE, FALSE), H("File", TRUE, FALSE, FALSE)>> }
=============================================================================
