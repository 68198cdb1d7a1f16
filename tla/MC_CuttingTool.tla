--------------------------- MODULE MC_CuttingTool ---------------------------
EXTENDS CuttingTool

\* Tool keys: the definition, the asset's description, known life-cycle
\* properties, and two extended ones on either side of "Location".
MCToolKeys == {"CuttingToolDefinition", "Description", "ReconditionCount",
               "Location", "ProgramToolGroup", "Grade", "Zeta"}

\* Item keys: the two known ones and an extended one.
MCItemKeys == {"Description", "Locus", "Grade"}

\* The keys in std::less<std::string> order.
MCKeyOrder == <<"ConnectionCodeMachineSide", "CuttingToolDefinition",
                "Description", "Grade", "Location", "Locus", "ProcessFeedRate",
                "ProcessSpindleSpeed", "ProgramToolGroup", "ProgramToolNumber",
                "ReconditionCount", "Zeta">>
=============================================================================
