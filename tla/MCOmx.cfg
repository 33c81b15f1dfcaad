CONSTANTS
  AVC = AVC
  Formats = {AVC, MPEG2}
  None = None
  MaxStarts = 2
  MaxMessages = 1
  MaxQueue = 1
  Buffers = 1
  Faulty = {"decode"}
SPECIFICATION MCSpec
INVARIANTS
  TypesOK
  NoDeadFeed
PROPERTIES
  CallsGoOn
  CommandsAreDone
  PipelineGoesOn
CHECK_DEADLOCK FALSE
