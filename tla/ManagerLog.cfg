SPECIFICATION Spec
CONSTANTS
  None = None
  RingCapacity = 2
  Capacity = 2
  MaxRetained = 3
  Sizes = {1, 2, 4}
  Texts = {"fault"}
  MaxOperations = 3
  MaxTexts = 2
  MaxTime = 1
  MaxStepsBack = 1
INVARIANTS TypeOK InOrder
PROPERTIES NothingReturns PassIsPublished
