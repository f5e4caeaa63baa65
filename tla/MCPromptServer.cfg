SPECIFICATION TimedSpec
CONSTANTS
  ResourceId = {i1, i2, i3}
  RoomId = {r1, r2}
  u1 = u1 u2 = u2 u3 = u3 a1 = a1 a2 = a2 a3 = a3
  Username = {u1, u2, u3}
  Address = {a1, a2, a3}
  DistinctDraws = TRUE
  AgeCap = 8
  SessionTTL = 3
  ThumbnailTTL = 5
  Period = 2
  Sources <- OwnSources
  StunOutcomes = {"Answered"}
  StreamerHandshakes = {"Handshake", "Established"}
  ViewerHandshakes = {"Handshake", "Established"}
  FrameOutcomes = {"Nothing", "Picture"}
SYMMETRY Symmetry
INVARIANTS SilenceBounded ThumbnailFresh Reachable
PROPERTIES SavesPaced
