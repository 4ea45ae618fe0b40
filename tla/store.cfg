SPECIFICATION Spec
CONSTANTS
  Instances = {one, two}
  Files = {f1, f2, f3, f4}
  a = a
  b = b
  Texts = {a, b}
  VERSION = 2
  Originals <- MCOriginals
  MaxSaves = 2
  MaxCrashes = 1
  MaxCuts = 1
INVARIANTS
  NeverTruncated
  OriginalIsKept
PROPERTIES
  ImplementsDurable
SYMMETRY AnyFileOrInstance
CHECK_DEADLOCK FALSE
