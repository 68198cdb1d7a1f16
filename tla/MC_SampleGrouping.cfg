\* printSample: grouping of a flat observation list by the three markers.
CONSTANTS
  DataItems <- MCDataItems
  DeviceOrder <- MCDeviceOrder
  ComponentOrder <- MCComponentOrder
  CategoryOrder <- MCCategoryOrder
  MaxObservations = 4

SPECIFICATION Spec

INVARIANT TypeOK
INVARIANT MarkersMatchWriter
INVARIANT GroupsContiguous

PROPERTY ImplementsStreamsDocument

\* printSample returns after one call.
CHECK_DEADLOCK FALSE
