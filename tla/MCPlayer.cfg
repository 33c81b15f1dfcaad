CONSTANTS
  Threads = {t1, t2}
  User = gui
  MaxOpens = 2
  Audio = {1, 2}
  Video = {10}
  Filtered = {2}
  Late = {2}
  Programs <- MCPrograms
  MaxFilters = 2
  Codecs = {"MP3", "DTS", "H263", "MPEG4", "WMV3", "VC1", "H264", "AAC", "PCM_S16LE", "VORBIS"}
  Sizes = {1000, 65535, 70000}
  AacSizes = {700}
  NalLists <- MCNals
  FrameSizes = {940, 2900}
  SubFrameLen = 1920
  MaxStreams = 2
  MaxPackets = 2
  MaxDecoded = 3840
SPECIFICATION MCSpec
INVARIANTS
  TypesOK
  ServedByItsThread
  PictureFollowsPause
  TracksFollow
  StreamIsWritten
PROPERTIES
  RequestsAreServed
