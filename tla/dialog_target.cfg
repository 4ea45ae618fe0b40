SPECIFICATION BenchSpec
CONSTANTS
  NodeIds = {n1, n2}
  Top = top
  Typed <- MCTyped
  Inventory <- MCInventory
PROPERTIES
  OkIsAboutWhatIsShown
