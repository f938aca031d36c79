CONSTANTS
  LastSentAt = 2
  Own <- OwnTexts
  Call = {c1, c2}
  FlushSize = 2
  MaxCrashes = 1
  Wire <- Arrivals
  Name <- Sent
SYMMETRY Symmetry
SPECIFICATION Spec
INVARIANTS CodecFaithful RecordedIsTold AcksAccounted 
PROPERTIES ReceiptsAdvance
