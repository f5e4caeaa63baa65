SPECIFICATION Spec
CONSTANTS
  ResourceId = {i1, i2}
  RoomId = {r1, r2}
  Username = {u1, u2}
  Address = {a1}
  DistinctDraws = TRUE
  AgeCap = 2
  SessionTTL = 1
  ThumbnailTTL = 1
  Sources <- SharedSources
  StunOutcomes = {"Answered"}
  StreamerHandshakes = {"Handshake", "Established"}
  ViewerHandshakes = {"Handshake", "Established"}
  FrameOutcomes = {"Nothing"}
SYMMETRY Symmetry
INVARIANTS ClientsKnown
