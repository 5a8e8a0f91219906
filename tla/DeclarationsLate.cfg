SPECIFICATION MCSpec
CONSTANTS
  ClassName = {1, 2, 3, 4}
  Attr = {a1, a2}
  Default = {v}
  Root = Root
  Nil = Nil
  None = None
  Parts = {"tables"}
  HierarchyClass = {1, 2, 3, 4, 5, 6}
  BitsPerLong = 4
  MaxArg = 2
  MaxCompound = 2
SYMMETRY AttrSymmetry
INVARIANT MostSpecificMethod
CHECK_DEADLOCK FALSE
