\* addObservation under a streams registry configured between documents.
CONSTANTS
  NsPrefixes = {"m", "x"}
  PrefixOrder <- MCPrefixOrder
  Urns = {"urn:example.com:Ext"}
  Locations = {"Ext.xsd"}
  Versions = {"1.5"}
  Styles = {""}
  Kinds = {"Streams"}
  Version = "1.5"
  ItemPrefixes = {"", "m", "x"}
  Levels = {"Normal", "Fault"}
  EntryKeys = {"a", "b"}
  CellKeys = {"c1", "c2"}
  KeyOrder <- MCKeyOrder
  LeafTypes = {"text", "int"}

SPECIFICATION Spec

INVARIANT TypeOK
INVARIANT EntriesFollowDataSet
