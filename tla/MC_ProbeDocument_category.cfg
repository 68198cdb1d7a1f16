\* As MC_ProbeDocument.cfg, with data items of every category, CONDITION
\* included.
CONSTANTS
  Versions = {"1.3", "1.4", "2.0"}
  VersionText <- MCVersionText
  Ids = {"c4", "x1"}
  MaxRefs = 2
  DeviceList <- MCDeviceListCondition
  Registries = {{}, {"x"}}
  CellOrder <- MCCellOrder
  Atof <- MCAtof
  Atoi <- MCAtoi
  LowerOf <- MCLowerOf

SPECIFICATION ProbeSpec

INVARIANT AttributesFollowConfig

\* printProbe returns after one call.
CHECK_DEADLOCK FALSE
