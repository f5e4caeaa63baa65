SPECIFICATION FairSpec
CONSTANTS
  ResourceId = {i1, i2}
  RoomId = {r1, r2}
  Username = {u1}
  Address = {a1}
  DistinctDraws = FALSE
  AgeCap = 2
  SessionTTL = 1
  ThumbnailTTL = 1
  Sources <- SharedSources
  StunOutcomes = {"Answered", "Oversized", "Unreadable"}
  StreamerHandshakes = {"Handshake", "Established", "Shutdown", "NoSrtpProfile"}
  ViewerHandshakes = {"Handshake", "Established", "Shutdown", "NoSrtpProfile"}
  FrameOutcomes = {"Nothing"}
PROPERTIES SilentLeave
CHECK_DEADLOCK FALSE
