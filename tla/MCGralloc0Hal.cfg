SPECIFICATION Spec
CONSTANTS
  Thread = {t1, t2}
  Handle = {h1, h2, h3}
  Stride = {64, 128}
  MaxCount = 2
  None = None
INVARIANT HandlesOwned NoBufferLeak DefinedStridesUniform
PROPERTY AllOrNothing CallsReturn
