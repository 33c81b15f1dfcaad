CONSTANTS
  AVC = AVC
  Formats = {AVC, MPEG2}
  None = None
  MaxStarts = 1
  MaxMessages = 2
  MaxQueue = 1
SPECIFICATION Spec
PROPERTIES
  MessagesInOrder
