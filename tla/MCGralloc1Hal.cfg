SPECIFICATION FairSpec
CONSTANTS
  Thread = {t1, t2}
  Descriptor = {d1, d2}
  Handle = {h1, h2}
  Stride = {64}
  LayeredBuffers = FALSE
  MaxCount = 2
  None = None
INVARIANT TypeOK HandlesOwned NoBufferLeak DescriptorsOwned DefinedStridesUniform
PROPERTY AllOrNothing CallsReturn
