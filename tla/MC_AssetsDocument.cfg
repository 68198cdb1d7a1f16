\* Every tool over seven keys (the bounds of MC_CuttingTool) in four asset
\* lists, with failures of printAssets and of printCuttingTool.
CONSTANTS
  ToolKeys <- MCToolKeys
  ItemKeys <- MCItemKeys
  KeyOrder <- MCKeyOrder
  MaxLives = 1
  MaxItems = 1
  AssetLists <- MCAssetLists

SPECIFICATION AssetsSpec

INVARIANT ValuesPrintedOnce
INVARIANT KnownBeforeExtended
INVARIANT AssetsFollowList

\* printAssets returns after one call.
CHECK_DEADLOCK FALSE
