\* One cutting tool whose printCuttingTool call fails.
CONSTANTS
  ToolKeys <- MCToolKeys
  ItemKeys <- MCItemKeys
  KeyOrder <- MCKeyOrder
  MaxLives = 1
  MaxItems = 1
  AssetLists <- MCAssetLists

SPECIFICATION AssetsSpec

INVARIANT AllOrNothing

CHECK_DEADLOCK FALSE
