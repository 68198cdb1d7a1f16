--------------------------- MODULE MC_Namespaces ---------------------------
EXTENDS Namespaces

\* std::map<std::string, ...> iterates its keys in this order.
MCPrefixOrder == <<"e", "m", "x">>

\* A configuration that registers an extension under the prefix "xsi".
MCPrefixOrderXsi == <<"m", "x", "xsi">>
=============================================================================
