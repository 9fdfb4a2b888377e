SPECIFICATION Spec
CONSTANTS
  Folders = {f1, f2}
  NoFolder = NoFolder
  Aids = {a1, a2}
  NoAid = NoAid
  Actors = {x1, x2}
  MaxRows = 3
  MaxOps = 4
SYMMETRY Symmetry
INVARIANTS
  TypeOK
  ForeignKeys
  DerivedUnlessDue
  DueIsInHand
