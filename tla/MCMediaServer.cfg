SPECIFICATION Spec
CONSTANTS
  ResourceId = {i1, i2, i3}
  RoomId = {r1, r2}
  Username = {u1, u2, u3}
  Address = {a1, a2}
  DistinctDraws = TRUE
  AgeCap = 2
  SessionTTL = 1
  ThumbnailTTL = 1
  Sources <- SharedSources
  StunOutcomes = {"Answered", "Oversized", "Unreadable"}
  StreamerHandshakes = {"Handshake", "Established", "Shutdown", "NoSrtpProfile"}
  ViewerHandshakes = {"Handshake", "Established", "Shutdown", "NoSrtpProfile"}
  FrameOutcomes = {"Nothing", "Picture", "Unreadable"}
SYMMETRY FullSymmetry
INVARIANTS TypeOK RoomsOwned ViewersListed UsernamesIndexed AddressesIndexed LookupsSucceed RelayExact
PROPERTIES OnlyStaleLeave ClientsPinned ImplementsLobby RemovalsCommute
CHECK_DEADLOCK FALSE
