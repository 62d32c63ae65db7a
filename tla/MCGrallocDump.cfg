SPECIFICATION Spec
CONSTANTS
  Thread = {t1, t2}
  SizeRange = 4
  BufSize = 2
  MaxLen = 3
  MaxVersion = 2
SYMMETRY Symmetry
INVARIANT DumpInBounds DumpFaithful
