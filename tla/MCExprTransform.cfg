SPECIFICATION TransformSpec
CONSTANTS
  n0 = n0
  n1 = n1
  n2 = n2
  n3 = n3
  n4 = n4
  n5 = n5
  Node = {n0, n1, n2, n3, n4, n5}
  Root = n0
  New = {n4, n5}
  None = None
SYMMETRY Alike
INVARIANTS
  EditsKeepTree
  VisitsOnce
  ImageOfTree
PROPERTY ReplaceIsLocal
