\* Two document kinds, the reserved prefix "m" between two extension
\* prefixes, entries with and without a location, two schema versions.
CONSTANTS
  NsPrefixes = {"e", "m", "x"}
  PrefixOrder <- MCPrefixOrder
  Urns = {"urn:example.com:Ext"}
  Locations = {"", "Ext.xsd"}
  Versions = {"1.2", "1.5"}
  Styles = {"", "/styles/Streams.xsl"}
  Kinds = {"Devices", "Streams"}

SPECIFICATION Spec

INVARIANT TypeOK
PROPERTY LocationFromOwnRegistry
