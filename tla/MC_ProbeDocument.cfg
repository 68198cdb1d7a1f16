\* Versions on either side of 1.4, every list of up to two references of
\* both types on the device and fixed ones deeper in the tree, every type
\* name of up to four characters, a device tree with every section alone or
\* after a second device, the prefix "x" registered or not ("y" never is).
CONSTANTS
  Versions = {"1.3", "1.4", "2.0"}
  VersionText <- MCVersionText
  Ids = {"c4", "x1"}
  MaxRefs = 2
  DeviceList <- MCDeviceList
  Registries = {{}, {"x"}}
  CellOrder <- MCCellOrder
  Atof <- MCAtof
  Atoi <- MCAtoi
  LowerOf <- MCLowerOf

SPECIFICATION ProbeSpec

INVARIANT ReferencesFollowSchema
INVARIANT CamelTypeFollowsReference

\* printProbe returns after one call.
CHECK_DEADLOCK FALSE
