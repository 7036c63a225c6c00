SPECIFICATION Spec
CONSTANTS
  Ids = {s1, s2}
  Blocks = {b1, b2, b3}
  Null = Null
  Root = Root
  Lens = {0, 1, 2}
  Amounts = {0, 1, 2}
  MaxBytes = 3
SYMMETRY Symmetry
INVARIANTS
  ListSound
  Contiguous
PROPERTIES
  PipeSpec
CHECK_DEADLOCK FALSE
