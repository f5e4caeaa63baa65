-------------------------- MODULE MediaServerProofs --------------------------
(***************************************************************************)
(* The safety properties of MediaServer, for every set of ids, user names,  *)
(* addresses and rooms and every value of the time limits: what the updates *)
(* of the session registry preserve, what follows for the server, that the  *)
(* server implements Lobby, each of its commands being a step of the lobby  *)
(* that its users see or leaving the lobby as it is, and that sessions may  *)
(* be removed in any order.  Last, the same for the timed server: what is   *)
(* proved of MediaServer holds of PromptServer, and its time bounds do.     *)
(***************************************************************************)
EXTENDS RemovalOrder, PromptServer, InductionLemmas, FiniteSetTheorems

------------------------------------------------------------------------------
\* The registry.

\* The four maps agree with each other.
Consistent ==
  /\ RegistryTypeOK
  /\ RoomsOwned
  /\ ViewersListed
  /\ UsernamesIndexed
  /\ AddressesIndexed

\* The empty registry is consistent.
LEMMA InitConsistent == registry_init => Consistent
  BY DEF registry_init, EmptyMap, Consistent, RegistryTypeOK, RoomsOwned,
         ViewersListed, UsernamesIndexed, AddressesIndexed

------------------------------------------------------------------------------
\* add_streamer with fresh ids keeps the registry consistent.
LEMMA AddStreamerConsistent ==
  ASSUME Consistent, DistinctDraws,
         NEW id \in RandomResourceId, NEW r \in RandomRoomId, NEW u \in RandomUsername,
         add_streamer(id, r, u)
  PROVE  Consistent'
<1> DEFINE s == [username |-> u, connection_type |-> "Streamer", room_id |-> r]
           room == [owner_id |-> id, viewer_ids |-> {}]
<1>1. /\ id \in ResourceId /\ id \notin DOMAIN sessions
      /\ r \in RoomId /\ r \notin DOMAIN rooms
      /\ \A i \in DOMAIN sessions : sessions[i].room_id # r
      /\ u \in Username /\ u \notin DOMAIN username_map
  BY DEF RandomResourceId, RandomRoomId, RandomUsername
<1>2. /\ sessions' = Insert(sessions, id, s)
      /\ client' = Without(client, {id})
      /\ age' = Insert(age, id, 0)
      /\ username_map' = Insert(username_map, u, id)
      /\ rooms' = Insert(rooms, r, room)
      /\ address_map' = address_map
  BY DEF add_streamer, new_session
<1>3. s \in Session /\ room \in Room
  BY <1>1 DEF Session, Room
<1>4. RegistryTypeOK'
  <2>1. /\ DOMAIN sessions' = DOMAIN sessions \cup {id}
        /\ sessions' \in [DOMAIN sessions' -> Session]
    BY <1>2, <1>3 DEF Insert, Consistent, RegistryTypeOK
  <2>2. /\ DOMAIN username_map' = DOMAIN username_map \cup {u}
        /\ username_map' \in [DOMAIN username_map' -> ResourceId]
    BY <1>1, <1>2 DEF Insert, Consistent, RegistryTypeOK
  <2>3. /\ DOMAIN rooms' = DOMAIN rooms \cup {r}
        /\ rooms' \in [DOMAIN rooms' -> Room]
    BY <1>2, <1>3 DEF Insert, Consistent, RegistryTypeOK
  <2>4. /\ DOMAIN client' = DOMAIN client \ {id}
        /\ client' \in [DOMAIN client' -> Client]
    BY <1>2 DEF Without, Consistent, RegistryTypeOK
  <2>5. age' \in [DOMAIN sessions' -> 0..AgeCap]
    BY <1>2, <2>1, RegistryAssumption DEF Insert, Consistent, RegistryTypeOK
  <2> QED
    BY <1>1, <1>2, <2>1, <2>2, <2>3, <2>4, <2>5, Zenon DEF Consistent, RegistryTypeOK
<1>5. /\ \A i \in DOMAIN sessions : sessions'[i] = sessions[i]
      /\ sessions'[id] = s
      /\ DOMAIN sessions' = DOMAIN sessions \cup {id}
      /\ \A q \in DOMAIN rooms : rooms'[q] = rooms[q]
      /\ rooms'[r] = room
      /\ DOMAIN rooms' = DOMAIN rooms \cup {r}
  BY <1>1, <1>2 DEF Insert
<1>6. RoomsOwned'
  BY <1>1, <1>5 DEF Consistent, RoomsOwned, IsStreamer
<1>7. ViewersListed'
  BY <1>1, <1>5 DEF Consistent, ViewersListed, IsViewer
<1>8. UsernamesIndexed'
  BY <1>1, <1>2, <1>5 DEF Insert, Consistent, UsernamesIndexed
<1>9. AddressesIndexed'
  BY <1>1, <1>2 DEF Without, Consistent, AddressesIndexed, RegistryTypeOK
<1> QED
  BY <1>4, <1>6, <1>7, <1>8, <1>9 DEF Consistent

\* add_viewer with fresh ids into a room that is there keeps it consistent.
LEMMA AddViewerConsistent ==
  ASSUME Consistent, DistinctDraws,
         NEW id \in RandomResourceId, NEW r \in DOMAIN rooms, NEW u \in RandomUsername,
         add_viewer(id, r, u)
  PROVE  Consistent'
<1> DEFINE s == [username |-> u, connection_type |-> "Viewer", room_id |-> r]
           room == [rooms[r] EXCEPT !.viewer_ids = @ \cup {id}]
<1>1. /\ id \in ResourceId /\ id \notin DOMAIN sessions
      /\ r \in RoomId
      /\ u \in Username /\ u \notin DOMAIN username_map
  BY DEF RandomResourceId, RandomUsername, Consistent, RegistryTypeOK
<1>2. /\ sessions' = Insert(sessions, id, s)
      /\ client' = Without(client, {id})
      /\ age' = Insert(age, id, 0)
      /\ username_map' = Insert(username_map, u, id)
      /\ rooms' = [rooms EXCEPT ![r] = room]
      /\ address_map' = address_map
  BY DEF add_viewer, new_session
<1>3. /\ s \in Session
      /\ room \in Room /\ room.owner_id = rooms[r].owner_id
      /\ room.viewer_ids = rooms[r].viewer_ids \cup {id}
  BY <1>1 DEF Session, Room, Consistent, RegistryTypeOK
<1>4. RegistryTypeOK'
  <2>1. /\ DOMAIN sessions' = DOMAIN sessions \cup {id}
        /\ sessions' \in [DOMAIN sessions' -> Session]
    BY <1>2, <1>3 DEF Insert, Consistent, RegistryTypeOK
  <2>2. /\ DOMAIN username_map' = DOMAIN username_map \cup {u}
        /\ username_map' \in [DOMAIN username_map' -> ResourceId]
    BY <1>1, <1>2 DEF Insert, Consistent, RegistryTypeOK
  <2>3. /\ DOMAIN rooms' = DOMAIN rooms
        /\ rooms' \in [DOMAIN rooms' -> Room]
    BY <1>2, <1>3 DEF Consistent, RegistryTypeOK
  <2>4. /\ DOMAIN client' = DOMAIN client \ {id}
        /\ client' \in [DOMAIN client' -> Client]
    BY <1>2 DEF Without, Consistent, RegistryTypeOK
  <2>5. age' \in [DOMAIN sessions' -> 0..AgeCap]
    BY <1>2, <2>1, RegistryAssumption DEF Insert, Consistent, RegistryTypeOK
  <2> QED
    BY <1>1, <1>2, <2>1, <2>2, <2>3, <2>4, <2>5, Zenon DEF Consistent, RegistryTypeOK
<1>5. /\ \A i \in DOMAIN sessions : sessions'[i] = sessions[i]
      /\ sessions'[id] = s
      /\ DOMAIN sessions' = DOMAIN sessions \cup {id}
      /\ \A q \in DOMAIN rooms \ {r} : rooms'[q] = rooms[q]
      /\ rooms'[r].owner_id = rooms[r].owner_id
      /\ rooms'[r].viewer_ids = rooms[r].viewer_ids \cup {id}
      /\ DOMAIN rooms' = DOMAIN rooms
  BY <1>1, <1>2, <1>3, Zenon DEF Insert, Consistent, RegistryTypeOK
<1>6. RoomsOwned'
  BY <1>1, <1>5 DEF Consistent, RoomsOwned, IsStreamer
<1>7. ViewersListed'
  BY <1>1, <1>5 DEF Consistent, ViewersListed, IsViewer
<1>8. UsernamesIndexed'
  BY <1>1, <1>2, <1>5 DEF Insert, Consistent, UsernamesIndexed
<1>9. AddressesIndexed'
  BY <1>1, <1>2 DEF Without, Consistent, AddressesIndexed, RegistryTypeOK
<1> QED
  BY <1>4, <1>6, <1>7, <1>8, <1>9 DEF Consistent

\* nominate_client for a session without a client keeps it consistent, even if
\* the address belonged to another session.
LEMMA NominateConsistent ==
  ASSUME Consistent, NEW id \in DOMAIN sessions \ DOMAIN client, NEW a \in Address,
         nominate_client(id, a), age' \in [DOMAIN sessions -> 0..AgeCap]
  PROVE  Consistent'
<1> DEFINE c == [remote_address |-> a, ssl_state |-> "Handshake"]
<1>1. /\ client' = Insert(client, id, c)
      /\ address_map' = Insert(address_map, a, id)
      /\ UNCHANGED <<sessions, username_map, rooms>>
  BY DEF nominate_client
<1>2. c \in Client
  BY DEF Client, SslState
<1>3. RegistryTypeOK'
  <2>1. DOMAIN client' \subseteq DOMAIN sessions /\ client' \in [DOMAIN client' -> Client]
    BY <1>1, <1>2 DEF Insert, Consistent, RegistryTypeOK
  <2>2. /\ DOMAIN address_map' \subseteq Address
        /\ address_map' \in [DOMAIN address_map' -> ResourceId]
    BY <1>1 DEF Insert, Consistent, RegistryTypeOK
  <2> QED
    BY <1>1, <2>1, <2>2 DEF Consistent, RegistryTypeOK
<1>4. AddressesIndexed'
  BY <1>1 DEF Insert, Consistent, AddressesIndexed
<1> QED
  BY <1>1, <1>3, <1>4 DEF Consistent, RoomsOwned, ViewersListed, UsernamesIndexed,
                          IsStreamer, IsViewer

\* A step that moves only ages and the ssl states of clients keeps it
\* consistent.
LEMMA TouchConsistent ==
  ASSUME Consistent,
         UNCHANGED <<sessions, username_map, address_map, rooms>>,
         client' \in [DOMAIN client -> Client],
         \A i \in DOMAIN client : client'[i].remote_address = client[i].remote_address,
         age' \in [DOMAIN sessions -> 0..AgeCap]
  PROVE  Consistent'
<1>1. DOMAIN client' = DOMAIN client
  OBVIOUS
<1>2. RegistryTypeOK'
  BY <1>1 DEF Consistent, RegistryTypeOK
<1>3. AddressesIndexed'
  BY <1>1 DEF Consistent, AddressesIndexed
<1> QED
  BY <1>2, <1>3 DEF Consistent, RoomsOwned, ViewersListed, UsernamesIndexed,
                    IsStreamer, IsViewer

\* remove_session, for any set of sessions, keeps it consistent.
LEMMA RemoveConsistent ==
  ASSUME Consistent, NEW S \in SUBSET DOMAIN sessions, remove_sessions(S)
  PROVE  Consistent'
<1>1. /\ DOMAIN sessions' = DOMAIN sessions \ S
      /\ \A i \in DOMAIN sessions' : sessions'[i] = sessions[i]
      /\ sessions' \in [DOMAIN sessions' -> Session]
  BY DEF remove_sessions, Without, Consistent, RegistryTypeOK
<1>2. /\ DOMAIN client' = DOMAIN client \ S
      /\ \A i \in DOMAIN client' : client'[i] = client[i]
      /\ client' \in [DOMAIN client' -> Client]
  BY DEF remove_sessions, Without, Consistent, RegistryTypeOK
<1>3. /\ DOMAIN username_map' = DOMAIN username_map \ UsernamesOf(S)
      /\ \A u \in DOMAIN username_map' : username_map'[u] = username_map[u]
      /\ username_map' \in [DOMAIN username_map' -> ResourceId]
  BY DEF remove_sessions, Without, Consistent, RegistryTypeOK
<1>4. /\ DOMAIN address_map' = DOMAIN address_map \ AddressesOf(S)
      /\ \A a \in DOMAIN address_map' : address_map'[a] = address_map[a]
      /\ address_map' \in [DOMAIN address_map' -> ResourceId]
  BY DEF remove_sessions, Without, Consistent, RegistryTypeOK
<1>5. /\ DOMAIN rooms' = DOMAIN rooms \ OwnedRooms(S)
      /\ \A r \in DOMAIN rooms' :
           /\ rooms'[r] \in Room
           /\ rooms'[r].owner_id = rooms[r].owner_id
           /\ rooms'[r].viewer_ids = rooms[r].viewer_ids \ DepartingViewers(S, r)
      /\ rooms' \in [DOMAIN rooms' -> Room]
  <2>1. rooms' = [r \in DOMAIN rooms \ OwnedRooms(S) |->
                   [rooms[r] EXCEPT !.viewer_ids = @ \ DepartingViewers(S, r)]]
    BY DEF remove_sessions
  <2>2. \A r \in DOMAIN rooms : rooms[r] \in Room
    BY DEF Consistent, RegistryTypeOK
  <2> QED
    BY <2>1, <2>2 DEF Room
<1>6. RegistryTypeOK'
  <2>1. age' \in [DOMAIN sessions' -> 0..AgeCap]
    BY <1>1 DEF remove_sessions, Without, Consistent, RegistryTypeOK
  <2> QED
    BY <1>1, <1>2, <1>3, <1>4, <1>5, <2>1 DEF Consistent, RegistryTypeOK
<1>7. RoomsOwned'
  BY <1>1, <1>5 DEF Consistent, RoomsOwned, IsStreamer, OwnedRooms
<1>8. ViewersListed'
  BY <1>1, <1>5 DEF Consistent, ViewersListed, IsViewer, DepartingViewers
<1>9. UsernamesIndexed'
  BY <1>1, <1>3 DEF Consistent, UsernamesIndexed, UsernamesOf
<1>10. AddressesIndexed'
  BY <1>2, <1>4 DEF Consistent, AddressesIndexed, AddressesOf
<1> QED
  BY <1>6, <1>7, <1>8, <1>9, <1>10 DEF Consistent

------------------------------------------------------------------------------
\* The server.

\* The inductive invariant: RelayExact alone is not inductive, because whether
\* a packet reaches the right viewers depends on the room listing them.
Inv == Consistent /\ ThumbnailTypeOK /\ OutputTypeOK /\ RelayExact

\* A step that relays nothing and spawns nothing has well-typed outputs.
LEMMA QuietOutputs ==
  ASSUME relay' = EmptyMap, spawned' = {}
  PROVE  OutputTypeOK' /\ RelayExact'
  BY DEF OutputTypeOK, RelayExact, EmptyMap

\* Whether the response fits or not, a binding request relays nothing and
\* spawns nothing, and fails no lookup.
LEMMA StunSuccessOutputs ==
  ASSUME StunSuccess
  PROVE  /\ relay' = EmptyMap /\ spawned' = {}
         /\ panic' = panic \/ panic' = "expect: stun response"
  BY Zenon DEF StunSuccess, Quiet, Panic

\* The time since an instant stays within the cap.
LEMMA OlderType ==
  ASSUME NEW n \in 0..AgeCap
  PROVE  Older(n) \in 0..AgeCap
  BY RegistryAssumption DEF Older

\* The server starts in the invariant.
LEMMA InitInv == Init => Inv
<1> SUFFICES ASSUME Init PROVE Inv
  OBVIOUS
<1>1. Consistent
  BY InitConsistent DEF Init
<1>2. ThumbnailTypeOK /\ OutputTypeOK /\ RelayExact
  BY DEF Init, registry_init, EmptyMap, ThumbnailTypeOK, OutputTypeOK, RelayExact
<1> QED
  BY <1>1, <1>2 DEF Inv

\* AddStreamer keeps the invariant.
LEMMA AddStreamerInv ==
  ASSUME Inv, DistinctDraws, AddStreamer
  PROVE  Inv'
<1>1. PICK id \in RandomResourceId, r \in RandomRoomId, u \in RandomUsername :
        add_streamer(id, r, u) /\ NewExtractor(id)
  BY DEF AddStreamer
<1>2. Consistent'
  BY <1>1, AddStreamerConsistent DEF Inv
<1>3. ThumbnailTypeOK'
  BY <1>1 DEF Inv, ThumbnailTypeOK, NewExtractor, add_streamer, new_session,
              Insert, Without, IsStreamer
<1> QED
  BY <1>2, <1>3, QuietOutputs DEF Inv, AddStreamer, Quiet

\* AddViewer keeps the invariant.
LEMMA AddViewerInv ==
  ASSUME Inv, DistinctDraws, NEW r \in RoomId, AddViewer(r)
  PROVE  Inv'
<1>1. PICK id \in RandomResourceId, u \in RandomUsername :
        add_viewer(id, r, u) /\ NewExtractor(id)
  BY DEF AddViewer
<1>2. Consistent'
  BY <1>1, AddViewerConsistent DEF Inv, AddViewer, FoundRoomOwner
<1>3. ThumbnailTypeOK'
  BY <1>1 DEF Inv, ThumbnailTypeOK, NewExtractor, add_viewer, new_session,
              Insert, Without, IsStreamer
<1> QED
  BY <1>2, <1>3, QuietOutputs DEF Inv, AddViewer, Quiet

\* A step that only moves ages and ssl states, and pictures of streamers.
LEMMA TouchInv ==
  ASSUME Inv, NEW id \in DOMAIN sessions,
         UNCHANGED <<sessions, username_map, address_map, rooms, image_age>>,
         client' \in [DOMAIN client -> Client],
         \A i \in DOMAIN client : client'[i].remote_address = client[i].remote_address,
         Touch(id),
         picture' = picture \/ (IsStreamer(id) /\ picture' = picture \cup {id})
  PROVE  Consistent' /\ ThumbnailTypeOK'
<1>1. age' \in [DOMAIN sessions -> 0..AgeCap]
  BY RegistryAssumption DEF Inv, Consistent, RegistryTypeOK, Touch
<1>2. Consistent'
  BY <1>1, TouchConsistent DEF Inv
<1>3. ThumbnailTypeOK'
  BY DEF Inv, ThumbnailTypeOK, IsStreamer
<1> QED
  BY <1>2, <1>3

\* LiveCheck and Nomination keep the invariant.
LEMMA StunInv ==
  ASSUME Inv, NEW u \in Username,
         LiveCheck(u) \/ \E a \in Sources[u] : Nomination(u, a)
  PROVE  Inv'
<1>1. client \in [DOMAIN client -> Client] /\ Sources[u] \subseteq Address
  BY ServerAssumption DEF Inv, Consistent, RegistryTypeOK
<1>2. CASE LiveCheck(u)
  <2>1. Consistent' /\ ThumbnailTypeOK'
    BY <1>1, <1>2, TouchInv DEF LiveCheck, FoundByUsername, thumbnail_vars
  <2> QED
    BY <1>2, <2>1, StunSuccessOutputs, QuietOutputs DEF Inv, LiveCheck
<1>3. ASSUME NEW a \in Sources[u], Nomination(u, a)
      PROVE  Inv'
  <2> DEFINE id == username_map[u]
  <2>1. id \in DOMAIN sessions /\ Touch(id) /\ UNCHANGED thumbnail_vars
    BY <1>3 DEF Nomination, FoundByUsername
  <2>2. CASE id \in DOMAIN client
    BY <1>1, <1>3, <2>1, <2>2, TouchInv, StunSuccessOutputs, QuietOutputs
       DEF Inv, Nomination, thumbnail_vars
  <2>3. CASE id \notin DOMAIN client
    <3>1. nominate_client(id, a)
      BY <1>3, <2>3 DEF Nomination
    <3>2. age' \in [DOMAIN sessions -> 0..AgeCap]
      BY <2>1, RegistryAssumption DEF Inv, Consistent, RegistryTypeOK, Touch
    <3>3. Consistent'
      BY <1>1, <2>1, <2>3, <3>1, <3>2, NominateConsistent DEF Inv
    <3>4. ThumbnailTypeOK'
      BY <2>1, <3>1 DEF Inv, ThumbnailTypeOK, IsStreamer, thumbnail_vars, nominate_client
    <3> QED
      BY <1>3, <3>3, <3>4, StunSuccessOutputs, QuietOutputs DEF Inv, Nomination
  <2> QED
    BY <2>2, <2>3
<1> QED
  BY <1>2, <1>3

\* A request that cannot be read ends the main thread and leaves the rest.
LEMMA UnreadableInv ==
  ASSUME Inv, UnreadableRequest
  PROVE  Inv'
<1>1. UNCHANGED <<registry_vars, thumbnail_vars>> /\ relay' = EmptyMap /\ spawned' = {}
  BY Zenon DEF UnreadableRequest, Panic
<1>2. Consistent' /\ ThumbnailTypeOK'
  BY <1>1 DEF registry_vars, thumbnail_vars, Inv, Consistent, RegistryTypeOK, RoomsOwned,
     ViewersListed, UsernamesIndexed, AddressesIndexed, ThumbnailTypeOK, IsStreamer, IsViewer
<1> QED
  BY <1>1, <1>2, QuietOutputs DEF Inv

\* The datagrams that are not STUN keep the invariant, RTP packets included:
\* the room lists exactly the live viewers, so the relay loop reaches them.
LEMMA DatagramInv ==
  ASSUME Inv, NEW a \in Address,
         \/ HandshakePacket(a) \/ KeylessHandshake(a) \/ IgnoredPacket(a)
         \/ ShutdownPacket(a) \/ RtpPacket(a)
  PROVE  Inv'
<1> DEFINE id == address_map[a]
<1>1. /\ id \in DOMAIN sessions /\ id \in DOMAIN client /\ Touch(id)
      /\ UNCHANGED <<sessions, username_map, address_map, rooms, image_age>>
  BY Zenon DEF HandshakePacket, KeylessHandshake, IgnoredPacket, ShutdownPacket, RtpPacket,
         HasClient, FoundByAddress, thumbnail_vars
<1>2. /\ client \in [DOMAIN client -> Client]
      /\ \A ssl \in SslState :
           /\ [client EXCEPT ![id].ssl_state = ssl] \in [DOMAIN client -> Client]
           /\ \A i \in DOMAIN client :
                [client EXCEPT ![id].ssl_state = ssl][i].remote_address
                  = client[i].remote_address
  BY <1>1 DEF Inv, Consistent, RegistryTypeOK, Client
<1>3. CASE HandshakePacket(a) \/ KeylessHandshake(a)
  <2>1. PICK ssl \in SslState : client' = [client EXCEPT ![id].ssl_state = ssl]
    BY <1>3, Zenon DEF HandshakePacket, KeylessHandshake, SslState
  <2>2. relay' = EmptyMap /\ spawned' = {} /\ picture' = picture
    BY <1>3, Zenon DEF HandshakePacket, KeylessHandshake, Quiet, Panic, thumbnail_vars
  <2>3. Consistent' /\ ThumbnailTypeOK'
    BY <1>1, <1>2, <2>1, <2>2, TouchInv
  <2> QED
    BY <2>2, <2>3, QuietOutputs DEF Inv
<1>4. CASE IgnoredPacket(a) \/ ShutdownPacket(a)
  <2>1. relay' = EmptyMap /\ spawned' = {} /\ picture' = picture /\ client' = client
    BY <1>4, Zenon DEF IgnoredPacket, ShutdownPacket, Quiet, Panic, thumbnail_vars
  <2>2. Consistent' /\ ThumbnailTypeOK'
    BY <1>1, <1>2, <2>1, TouchInv
  <2> QED
    BY <2>1, <2>2, QuietOutputs DEF Inv
<1>5. CASE RtpPacket(a)
  <2> DEFINE r == sessions[id].room_id
  <2>1. /\ IsStreamer(id) /\ client' = client
        /\ picture' = picture \/ picture' = picture \cup {id}
        /\ RelayToRoom(r) \/ Panic("index: video payload")
    BY <1>5, Zenon DEF RtpPacket
  <2>2. Consistent' /\ ThumbnailTypeOK'
    BY <1>1, <1>2, <2>1, TouchInv
  <2> SUFFICES ASSUME RelayToRoom(r) PROVE Inv'
    BY <2>1, <2>2, QuietOutputs DEF Inv, Panic
  <2>3. /\ r \in DOMAIN rooms /\ r \in RoomId
        /\ rooms[r].viewer_ids = {i \in DOMAIN sessions : IsViewer(i) /\ sessions[i].room_id = r}
    BY <1>1, <2>1 DEF Inv, Consistent, RoomsOwned, ViewersListed, RegistryTypeOK
  <2>4. relay' = Insert(EmptyMap, r, Receivers(r)) /\ spawned' = {}
    BY <2>3, Zenon DEF RelayToRoom
  <2>5. DOMAIN relay' = {r} /\ relay'[r] = Receivers(r) /\ relay' = [s \in {r} |-> relay'[s]]
    BY <2>4 DEF Insert, EmptyMap
  <2>6. OutputTypeOK'
    BY <2>3, <2>4, <2>5, Zenon DEF OutputTypeOK, Receivers, Inv, Consistent, RegistryTypeOK
  <2>7. RelayExact'
    BY <1>1, <2>1, <2>3, <2>5 DEF RelayExact, Receivers, IsEstablished, IsViewer
  <2> QED
    BY <2>2, <2>6, <2>7 DEF Inv
<1> QED
  BY <1>3, <1>4, <1>5

\* The periodic checks keep the invariant.
LEMMA ChecksInv ==
  ASSUME Inv, RunPeriodicChecks
  PROVE  Inv'
<1>1. Stale \subseteq DOMAIN sessions /\ remove_sessions(Stale)
  BY DEF Stale, RunPeriodicChecks
<1>2. Consistent'
  BY <1>1, RemoveConsistent DEF Inv
<1>3. ThumbnailTypeOK'
  BY <1>1, RegistryAssumption
     DEF Inv, ThumbnailTypeOK, RunPeriodicChecks, Stamped, Due, ThumbnailDue, IsStreamer,
         remove_sessions, Without
<1>4. OutputTypeOK' /\ RelayExact'
  <2>1. spawned' \subseteq RoomId
    BY DEF RunPeriodicChecks, Due, Inv, Consistent, RegistryTypeOK, Session
  <2>2. relay' = EmptyMap
    BY DEF RunPeriodicChecks
  <2> QED
    BY <2>1, <2>2 DEF OutputTypeOK, RelayExact, EmptyMap
<1> QED
  BY <1>2, <1>3, <1>4 DEF Inv

\* The passage of time keeps the invariant.
LEMMA TickInv ==
  ASSUME Inv, Tick
  PROVE  Inv'
<1>1. /\ age' \in [DOMAIN sessions -> 0..AgeCap]
      /\ DOMAIN image_age' = DOMAIN image_age
      /\ image_age' \in [DOMAIN image_age' -> 0..AgeCap]
  BY OlderType DEF Tick, Inv, Consistent, RegistryTypeOK, ThumbnailTypeOK
<1>2. Consistent'
  BY <1>1, TouchConsistent DEF Tick, Inv, Consistent, RegistryTypeOK
<1>3. ThumbnailTypeOK'
  BY <1>1 DEF Tick, Inv, ThumbnailTypeOK, IsStreamer
<1> QED
  BY <1>2, <1>3, QuietOutputs DEF Inv, Tick, Quiet

\* Every step of the server keeps the invariant.
LEMMA NextInv ==
  ASSUME Inv, DistinctDraws, [Next]_vars
  PROVE  Inv'
<1>1. CASE UNCHANGED vars
  BY <1>1 DEF vars, registry_vars, thumbnail_vars, output_vars, Inv, Consistent,
     RegistryTypeOK, RoomsOwned, ViewersListed, UsernamesIndexed, AddressesIndexed,
     ThumbnailTypeOK, OutputTypeOK, RelayExact, IsStreamer, IsViewer, IsEstablished
<1>2. CASE RemoteCommand
  BY <1>2, AddStreamerInv, AddViewerInv, StunInv, UnreadableInv, DatagramInv
     DEF RemoteCommand, HandlePacket
<1> QED
  BY <1>1, <1>2, ChecksInv, TickInv DEF Next

------------------------------------------------------------------------------
\* While draws are distinct, the variables keep their types.
THEOREM TypeCorrect ==
  ASSUME DistinctDraws
  PROVE  Spec => []TypeOK
<1>1. Inv => TypeOK
  BY DEF Inv, Consistent, TypeOK
<1> QED
  BY <1>1, InitInv, NextInv, PTL DEF Spec

\* While draws are distinct, the four maps of the registry agree with each
\* other after every command: rooms and streamers correspond, rooms list
\* exactly their live viewers, and the two indexes lead where they should.
THEOREM RegistryConsistent ==
  ASSUME DistinctDraws
  PROVE  Spec => [](RoomsOwned /\ ViewersListed /\ UsernamesIndexed /\ AddressesIndexed)
<1>1. Inv => RoomsOwned /\ ViewersListed /\ UsernamesIndexed /\ AddressesIndexed
  BY DEF Inv, Consistent
<1> QED
  BY <1>1, InitInv, NextInv, PTL DEF Spec

\* While draws are distinct, every room that add_viewer and remove_session keep
\* lists exactly the live viewers that joined it.
COROLLARY ViewersAreListed ==
  ASSUME DistinctDraws
  PROVE  Spec => []ViewersListed
BY RegistryConsistent, PTL

\* While draws are distinct, the user name of a STUN request leads to the session
\* it was made up for, and to no session that was removed.
COROLLARY UsernamesAreIndexed ==
  ASSUME DistinctDraws
  PROVE  Spec => []UsernamesIndexed
BY RegistryConsistent, PTL

\* While draws are distinct, address_map leads only to live sessions with a client
\* at that address.
COROLLARY AddressesAreIndexed ==
  ASSUME DistinctDraws
  PROVE  Spec => []AddressesIndexed
BY RegistryConsistent, PTL

\* While draws are distinct, a streamer's packet goes to exactly the live,
\* established viewers of its room.
THEOREM RelayIsExact ==
  ASSUME DistinctDraws
  PROVE  Spec => []RelayExact
<1>1. Inv => RelayExact
  BY DEF Inv
<1> QED
  BY <1>1, InitInv, NextInv, PTL DEF Spec

------------------------------------------------------------------------------
\* No step from a consistent registry fails a lookup: only RtpPacket looks
\* rooms and viewers up, and the registry has all it asks for.
LEMMA NextLookups ==
  ASSUME Inv, LookupsSucceed, [Next]_vars
  PROVE  LookupsSucceed'
<1>1. CASE UNCHANGED vars
  BY <1>1 DEF vars, output_vars, LookupsSucceed
<1>2. CASE AddStreamer \/ (\E r \in RoomId : AddViewer(r)) \/ RunPeriodicChecks \/ Tick
  <2>1. panic' = panic
    BY <1>2, Zenon DEF AddStreamer, AddViewer, RunPeriodicChecks, Tick, Quiet
  <2> QED
    BY <2>1 DEF LookupsSucceed
<1>3. ASSUME NEW u \in Username,
             LiveCheck(u) \/ \E a \in Sources[u] : Nomination(u, a)
      PROVE  LookupsSucceed'
  <2>1. StunSuccess
    BY <1>3, Zenon DEF LiveCheck, Nomination
  <2> QED
    BY <2>1, StunSuccessOutputs DEF LookupsSucceed
<1>4. ASSUME NEW a \in Address, HandshakePacket(a) \/ IgnoredPacket(a)
      PROVE  LookupsSucceed'
  <2>1. panic' = panic
    BY <1>4, Zenon DEF HandshakePacket, IgnoredPacket, Quiet
  <2> QED
    BY <2>1 DEF LookupsSucceed
<1>5. ASSUME UnreadableRequest \/ \E a \in Address : KeylessHandshake(a) \/ ShutdownPacket(a)
      PROVE  LookupsSucceed'
  <2>1. panic' \in {"unwrap: stun attributes", "unwrap: srtp session", "todo: shutdown"}
    BY <1>5, Zenon DEF UnreadableRequest, KeylessHandshake, ShutdownPacket, Panic
  <2> QED
    BY <2>1 DEF LookupsSucceed
<1>6. ASSUME NEW a \in Address, RtpPacket(a)
      PROVE  LookupsSucceed'
  <2> DEFINE r == sessions[address_map[a]].room_id
  <2>1. r \in DOMAIN rooms /\ rooms[r].viewer_ids \subseteq DOMAIN sessions
    BY <1>6 DEF RtpPacket, HasClient, FoundByAddress, Inv, Consistent, RoomsOwned,
       ViewersListed
  <2>2. panic' = panic \/ panic' = "index: video payload"
    BY <1>6, <2>1, Zenon DEF RtpPacket, RelayToRoom, Panic
  <2> QED
    BY <2>2 DEF LookupsSucceed
<1> QED
  BY <1>1, <1>2, <1>3, <1>4, <1>5, <1>6 DEF Next, RemoteCommand, HandlePacket

\* While draws are distinct, the expects of the relay loop never fail, whatever
\* handshakes, requests and payloads the peers send: the registry always has
\* the streamer's room and the sessions of the viewers it lists.
THEOREM LookupsDoSucceed ==
  ASSUME DistinctDraws
  PROVE  Spec => []LookupsSucceed
<1>1. Init => LookupsSucceed
  BY DEF Init, LookupsSucceed
<1> QED
  BY <1>1, InitInv, NextInv, NextLookups, PTL DEF Spec

------------------------------------------------------------------------------
\* No two peers send from the same address.
SourcesDisjoint ==
  \A u, v \in Username : u # v => Sources[u] \cap Sources[v] = {}

\* Every client sends from an address of the peer its session belongs to.
ClientsAtSource ==
  \A i \in DOMAIN client : client[i].remote_address \in Sources[sessions[i].username]

\* A step of a handshake moves no client to another address.
LEMMA HandshakeKeepsAddresses ==
  ASSUME Inv, NEW a \in Address, HandshakePacket(a) \/ KeylessHandshake(a)
  PROVE  /\ DOMAIN client' = DOMAIN client
         /\ \A i \in DOMAIN client : client'[i].remote_address = client[i].remote_address
<1>1. PICK ssl : client' = [client EXCEPT ![address_map[a]].ssl_state = ssl]
  BY Zenon DEF HandshakePacket, KeylessHandshake
<1>2. client \in [DOMAIN client -> Client] /\ address_map[a] \in DOMAIN client
  BY Zenon DEF HandshakePacket, KeylessHandshake, HasClient, Inv, Consistent, RegistryTypeOK
<1> QED
  BY <1>1, <1>2 DEF Client

\* Every step keeps the clients reachable if the peers share no address.
LEMMA NextReachable ==
  ASSUME Inv, Reachable, ClientsAtSource, DistinctDraws, SourcesDisjoint, [Next]_vars
  PROVE  Reachable' /\ ClientsAtSource'
<1> USE DEF Reachable, ClientsAtSource
<1>1. CASE UNCHANGED vars
  BY <1>1 DEF vars, registry_vars
<1>2. CASE AddStreamer \/ \E r \in RoomId : AddViewer(r)
  <2>1. PICK id \in ResourceId \ DOMAIN sessions :
          /\ \E s : sessions' = Insert(sessions, id, s)
          /\ client' = Without(client, {id})
          /\ address_map' = address_map
    BY <1>2, Zenon DEF AddStreamer, AddViewer, add_streamer, add_viewer, new_session,
       RandomResourceId
  <2>2. DOMAIN client \subseteq DOMAIN sessions
    BY DEF Inv, Consistent, RegistryTypeOK
  <2> QED
    BY <2>1, <2>2 DEF Insert, Without
<1>3. ASSUME NEW u \in Username, LiveCheck(u)
      PROVE  Reachable' /\ ClientsAtSource'
  BY <1>3 DEF LiveCheck
<1>4. ASSUME NEW u \in Username, NEW a \in Sources[u], Nomination(u, a)
      PROVE  Reachable' /\ ClientsAtSource'
  <2> DEFINE id == username_map[u]
  <2>1. CASE id \in DOMAIN client
    BY <1>4, <2>1 DEF Nomination
  <2>2. CASE id \notin DOMAIN client
    <3>1. nominate_client(id, a) /\ id \in DOMAIN sessions /\ sessions[id].username = u
      BY <1>4, <2>2 DEF Nomination, FoundByUsername, Inv, Consistent, UsernamesIndexed
    <3>2. \A i \in DOMAIN client : sessions[i].username # u /\ sessions[i].username \in Username
      BY <2>2, <3>1 DEF Inv, Consistent, UsernamesIndexed, RegistryTypeOK, Session
    <3>3. \A i \in DOMAIN client : client[i].remote_address # a
      BY <3>2 DEF SourcesDisjoint
    <3> QED
      BY <3>1, <3>3 DEF nominate_client, Insert
  <2> QED
    BY <2>1, <2>2
<1>5. ASSUME NEW a \in Address, HandshakePacket(a) \/ KeylessHandshake(a)
      PROVE  Reachable' /\ ClientsAtSource'
  BY <1>5, HandshakeKeepsAddresses, Zenon DEF HandshakePacket, KeylessHandshake
<1>6. ASSUME NEW a \in Address, IgnoredPacket(a) \/ ShutdownPacket(a) \/ RtpPacket(a)
      PROVE  Reachable' /\ ClientsAtSource'
  BY <1>6, Zenon DEF IgnoredPacket, ShutdownPacket, RtpPacket
<1>7. CASE RunPeriodicChecks
  <2>1. remove_sessions(Stale)
    BY <1>7 DEF RunPeriodicChecks
  <2>2. \A i \in DOMAIN client \ Stale : client[i].remote_address \notin AddressesOf(Stale)
    BY DEF AddressesOf
  <2> QED
    BY <2>1, <2>2 DEF remove_sessions, Without, Inv, Consistent, RegistryTypeOK
<1>8. CASE Tick
  BY <1>8 DEF Tick
<1>9. CASE UnreadableRequest
  BY <1>9 DEF UnreadableRequest, registry_vars
<1> QED
  BY <1>1, <1>2, <1>3, <1>4, <1>5, <1>6, <1>7, <1>8, <1>9
     DEF Next, RemoteCommand, HandlePacket

\* While draws are distinct and the peers share no address, every client's
\* packets find the client's own session.
THEOREM AlwaysReachable ==
  ASSUME DistinctDraws, SourcesDisjoint
  PROVE  Spec => []Reachable
<1>1. Init => Reachable /\ ClientsAtSource
  BY DEF Init, registry_init, EmptyMap, Reachable, ClientsAtSource
<1> QED
  BY <1>1, InitInv, NextInv, NextReachable, PTL DEF Spec

------------------------------------------------------------------------------
\* While draws are distinct, the checks remove nobody but the stale: a room
\* closes only with its owner and a viewer leaves it only with its session.
THEOREM OnlyTheStaleLeave ==
  ASSUME DistinctDraws
  PROVE  Spec => OnlyStaleLeave
<1> DEFINE Leave ==
      /\ \A i \in DOMAIN sessions \ DOMAIN sessions' : age[i] > SessionTTL
      /\ \A r \in DOMAIN rooms \ DOMAIN rooms' : age[rooms[r].owner_id] > SessionTTL
      /\ \A r \in DOMAIN rooms \cap DOMAIN rooms' :
           \A v \in rooms[r].viewer_ids \ rooms'[r].viewer_ids : age[v] > SessionTTL
<1>1. ASSUME Inv, [Next]_vars
      PROVE  [Leave]_vars
  <2>1. CASE UNCHANGED vars
    BY <2>1
  <2>2. CASE AddStreamer
    BY <1>1, <2>2 DEF AddStreamer, add_streamer, new_session, Insert, RandomRoomId
  <2>3. ASSUME NEW r \in RoomId, AddViewer(r)
        PROVE  Leave
    <3>1. PICK id : rooms' = [rooms EXCEPT ![r].viewer_ids = @ \cup {id}]
      BY <2>3, Zenon DEF AddViewer, add_viewer
    <3>2. \A q \in DOMAIN rooms : rooms[q].viewer_ids \subseteq rooms'[q].viewer_ids
      BY <1>1, <3>1 DEF Inv, Consistent, RegistryTypeOK, Room
    <3> QED
      BY <2>3, <3>1, <3>2 DEF AddViewer, add_viewer, new_session, Insert
  <2>4. CASE HandlePacket \/ Tick
    BY <2>4, Zenon DEF HandlePacket, UnreadableRequest, registry_vars,
       LiveCheck, Nomination, nominate_client, HandshakePacket,
       KeylessHandshake, IgnoredPacket, ShutdownPacket, RtpPacket, Tick
  <2>5. CASE RunPeriodicChecks
    <3>1. /\ DOMAIN sessions' = DOMAIN sessions \ Stale
          /\ DOMAIN rooms' = DOMAIN rooms \ OwnedRooms(Stale)
          /\ rooms' = [r \in DOMAIN rooms \ OwnedRooms(Stale) |->
               [rooms[r] EXCEPT !.viewer_ids = @ \ DepartingViewers(Stale, r)]]
      BY <2>5 DEF RunPeriodicChecks, remove_sessions, Without
    <3>2. \A r \in DOMAIN rooms' :
            rooms'[r].viewer_ids = rooms[r].viewer_ids \ DepartingViewers(Stale, r)
      BY <1>1, <3>1 DEF Inv, Consistent, RegistryTypeOK, Room
    <3>3. \A r \in OwnedRooms(Stale) : rooms[r].owner_id \in Stale
      BY <1>1 DEF OwnedRooms, Stale, Inv, Consistent, RoomsOwned
    <3> QED
      BY <3>1, <3>2, <3>3 DEF Stale, DepartingViewers
  <2> QED
    BY <1>1, <2>1, <2>2, <2>3, <2>4, <2>5 DEF Next, RemoteCommand
<1> QED
  BY <1>1, InitInv, NextInv, PTL DEF Spec, OnlyStaleLeave

\* While draws are distinct, a session's client is never moved, replaced or set
\* back.
THEOREM ClientsArePinned ==
  ASSUME DistinctDraws
  PROVE  Spec => ClientsPinned
<1> DEFINE Pinned ==
      \A i \in DOMAIN client \cap DOMAIN sessions' :
        /\ i \in DOMAIN client'
        /\ client'[i].remote_address = client[i].remote_address
        /\ client[i].ssl_state # "Handshake" => client'[i].ssl_state = client[i].ssl_state
<1>1. ASSUME Inv, [Next]_vars
      PROVE  [Pinned]_vars
  <2>1. CASE UNCHANGED vars
    BY <2>1
  <2>2. CASE AddStreamer \/ \E r \in RoomId : AddViewer(r)
    <3>1. PICK id \in RandomResourceId : client' = Without(client, {id})
      BY <2>2, Zenon DEF AddStreamer, AddViewer, add_streamer, add_viewer, new_session
    <3>2. DOMAIN client \subseteq DOMAIN sessions
      BY <1>1 DEF Inv, Consistent, RegistryTypeOK
    <3>3. id \notin DOMAIN client
      BY <3>1, <3>2 DEF RandomResourceId
    <3> QED
      BY <3>1, <3>3 DEF Without
  <2>3. ASSUME NEW u \in Username,
               LiveCheck(u) \/ \E a \in Sources[u] : Nomination(u, a)
        PROVE  Pinned
    BY <2>3, Zenon DEF LiveCheck, Nomination, nominate_client, Insert
  <2>4. ASSUME NEW a \in Address, HandshakePacket(a) \/ KeylessHandshake(a)
        PROVE  Pinned
    <3>1. PICK ssl : client' = [client EXCEPT ![address_map[a]].ssl_state = ssl]
      BY <2>4, Zenon DEF HandshakePacket, KeylessHandshake
    <3>2. client[address_map[a]].ssl_state = "Handshake"
      BY <2>4, Zenon DEF HandshakePacket, KeylessHandshake
    <3> QED
      BY <1>1, <2>4, <3>1, <3>2, HandshakeKeepsAddresses
  <2>5. ASSUME NEW a \in Address, IgnoredPacket(a) \/ ShutdownPacket(a) \/ RtpPacket(a)
        PROVE  Pinned
    BY <2>5, Zenon DEF IgnoredPacket, ShutdownPacket, RtpPacket
  <2>6. CASE RunPeriodicChecks \/ Tick
    BY <2>6 DEF RunPeriodicChecks, Tick, remove_sessions, Without
  <2>7. CASE UnreadableRequest
    BY <2>7 DEF UnreadableRequest, registry_vars
  <2> QED
    BY <1>1, <2>1, <2>2, <2>3, <2>4, <2>5, <2>6, <2>7 DEF Next, RemoteCommand, HandlePacket
<1> QED
  BY <1>1, InitInv, NextInv, PTL DEF Spec, ClientsPinned

------------------------------------------------------------------------------
\* The lobby.

\* The viewers of each open room, as the lobby sees them.
Members == [r \in DOMAIN rooms |-> rooms[r].viewer_ids]

\* A step that leaves rooms and established viewers alone is idle.
LEMMA IdleStep ==
  ASSUME rooms' = rooms, ReadyViewers' = ReadyViewers, relay' = EmptyMap
  PROVE  L!LobbyNext
<1>1. L!Idle
  BY DEF L!Idle, L!Nobody, EmptyMap
<1> QED
  BY <1>1 DEF L!LobbyNext

\* AddStreamer opens an empty room.
LEMMA AddStreamerOpens ==
  ASSUME Inv, DistinctDraws, AddStreamer
  PROVE  L!LobbyNext
<1>1. PICK id \in RandomResourceId, r \in RandomRoomId, u \in RandomUsername :
        add_streamer(id, r, u)
  BY DEF AddStreamer
<1>2. /\ id \notin DOMAIN sessions /\ r \in RoomId /\ r \notin DOMAIN rooms
      /\ rooms' = Insert(rooms, r, [owner_id |-> id, viewer_ids |-> {}])
      /\ client' = Without(client, {id})
  BY <1>1 DEF RandomResourceId, RandomRoomId, add_streamer, new_session
<1>3. Members' = [s \in DOMAIN Members \cup {r} |-> IF s = r THEN {} ELSE Members[s]]
  BY <1>2 DEF Members, Insert
<1>4. \A q \in DOMAIN rooms : id \notin rooms[q].viewer_ids
  BY <1>2 DEF Inv, Consistent, ViewersListed
<1>5. ReadyViewers' = ReadyViewers
  <2>1. /\ DOMAIN rooms' = DOMAIN rooms \cup {r} /\ rooms'[r].viewer_ids = {}
        /\ \A q \in DOMAIN rooms : rooms'[q] = rooms[q]
    BY <1>2 DEF Insert
  <2>2. UNION {rooms'[q].viewer_ids : q \in DOMAIN rooms'}
          = UNION {rooms[q].viewer_ids : q \in DOMAIN rooms}
    BY <2>1
  <2>3. \A v : v # id => (IsEstablished(v)' <=> IsEstablished(v))
    BY <1>2 DEF IsEstablished, Without
  <2>4. id \notin UNION {rooms[q].viewer_ids : q \in DOMAIN rooms}
    BY <1>4
  <2> QED
    BY <2>2, <2>3, <2>4 DEF ReadyViewers
<1>6. relay' = EmptyMap
  BY DEF AddStreamer, Quiet
<1>7. L!Open(r)
  BY <1>2, <1>3, <1>5, <1>6, Zenon DEF L!Open, L!Nobody, EmptyMap, Members
<1> QED
  BY <1>2, <1>7 DEF L!LobbyNext

\* AddViewer is a viewer that joins one room.
LEMMA AddViewerJoins ==
  ASSUME Inv, DistinctDraws, NEW r \in RoomId, AddViewer(r)
  PROVE  L!LobbyNext
<1>1. PICK id \in RandomResourceId, u \in RandomUsername : add_viewer(id, r, u)
  BY DEF AddViewer
<1>2. /\ id \notin DOMAIN sessions /\ id \in ResourceId /\ r \in DOMAIN rooms
      /\ rooms' = [rooms EXCEPT ![r].viewer_ids = @ \cup {id}]
      /\ client' = Without(client, {id})
  BY <1>1, Zenon DEF RandomResourceId, add_viewer, new_session, AddViewer, FoundRoomOwner
<1>3. \A q \in DOMAIN rooms : rooms[q] \in Room /\ id \notin rooms[q].viewer_ids
  BY <1>2 DEF Inv, Consistent, ViewersListed, RegistryTypeOK
<1>4. /\ DOMAIN rooms' = DOMAIN rooms
      /\ \A q \in DOMAIN rooms \ {r} : rooms'[q] = rooms[q]
      /\ rooms'[r].viewer_ids = rooms[r].viewer_ids \cup {id}
  BY <1>2, <1>3 DEF Room
<1>5. Members' = [Members EXCEPT ![r] = @ \cup {id}]
  BY <1>2, <1>4, Zenon DEF Members
<1>6. ReadyViewers' = ReadyViewers
  BY <1>2, <1>3, <1>4 DEF ReadyViewers, IsEstablished, Without
<1>7. relay' = EmptyMap
  BY DEF AddViewer, Quiet
<1>8. L!Join(r, id)
  BY <1>2, <1>3, <1>5, <1>6, <1>7 DEF L!Join, L!InRoom, L!Nobody, EmptyMap, Members
<1> QED
  BY <1>2, <1>8 DEF L!LobbyNext

\* A STUN request changes nothing in the lobby: a nomination starts a
\* handshake, which is not over.
LEMMA StunIdle ==
  ASSUME Inv, NEW u \in Username,
         LiveCheck(u) \/ \E a \in Sources[u] : Nomination(u, a)
  PROVE  L!LobbyNext
<1>1. rooms' = rooms /\ relay' = EmptyMap
  BY StunSuccessOutputs, Zenon DEF LiveCheck, Nomination, nominate_client
<1>2. \A v : IsEstablished(v)' <=> IsEstablished(v)
  <2>1. CASE client' = client
    BY <2>1 DEF IsEstablished
  <2>2. CASE \E a : username_map[u] \notin DOMAIN client /\ nominate_client(username_map[u], a)
    BY <2>2 DEF nominate_client, Insert, IsEstablished
  <2> QED
    BY <2>1, <2>2 DEF LiveCheck, Nomination
<1>3. ReadyViewers' = ReadyViewers
  BY <1>1, <1>2 DEF ReadyViewers
<1> QED
  BY <1>1, <1>3, IdleStep

\* A viewer of an open room becomes ready when its handshake ends; any other
\* step of a handshake changes nothing in the lobby.
LEMMA HandshakeReadies ==
  ASSUME Inv, NEW a \in Address, HandshakePacket(a) \/ KeylessHandshake(a)
  PROVE  L!LobbyNext
<1> DEFINE id == address_map[a]
           InRooms == UNION {rooms[r].viewer_ids : r \in DOMAIN rooms}
<1>1. /\ rooms' = rooms /\ relay' = EmptyMap
      /\ id \in DOMAIN client /\ id \in ResourceId
      /\ client[id].ssl_state = "Handshake"
  BY Zenon DEF HandshakePacket, KeylessHandshake, Quiet, Panic, HasClient, Inv, Consistent,
     RegistryTypeOK
<1>2. PICK ssl : client' = [client EXCEPT ![id].ssl_state = ssl]
  BY Zenon DEF HandshakePacket, KeylessHandshake
<1>3. /\ DOMAIN client' = DOMAIN client
      /\ \A i \in DOMAIN client \ {id} : client'[i] = client[i]
      /\ client'[id].ssl_state = ssl
  BY <1>1, <1>2 DEF Inv, Consistent, RegistryTypeOK, Client
<1>4. CASE ssl = "Established" /\ id \in InRooms
  <2>1. ReadyViewers' = ReadyViewers \cup {id}
    BY <1>1, <1>3, <1>4 DEF ReadyViewers, IsEstablished
  <2>2. L!BecomeReady(id)
    BY <1>1, <1>4, <2>1 DEF L!BecomeReady, L!InRoom, L!Nobody, EmptyMap
  <2> QED
    BY <1>1, <2>2 DEF L!LobbyNext
<1>5. CASE ~ (ssl = "Established" /\ id \in InRooms)
  <2>1. ReadyViewers' = ReadyViewers
    BY <1>1, <1>3, <1>5 DEF ReadyViewers, IsEstablished
  <2> QED
    BY <1>1, <2>1, IdleStep
<1> QED
  BY <1>4, <1>5

\* An RTP packet is a delivery to the ready viewers of the sender's room, or
\* the end of the main thread.
LEMMA RtpDelivers ==
  ASSUME Inv, NEW a \in Address, RtpPacket(a)
  PROVE  L!LobbyNext
<1> DEFINE id == address_map[a]
           r == sessions[id].room_id
<1>1. /\ rooms' = rooms /\ client' = client
      /\ id \in DOMAIN sessions /\ IsStreamer(id)
      /\ RelayToRoom(r) \/ Panic("index: video payload")
  BY Zenon DEF RtpPacket, HasClient, FoundByAddress
<1>2. /\ r \in DOMAIN rooms /\ r \in RoomId
      /\ rooms[r].viewer_ids \subseteq DOMAIN sessions
  BY <1>1 DEF Inv, Consistent, RoomsOwned, ViewersListed, RegistryTypeOK
<1>6. ReadyViewers' = ReadyViewers
  BY <1>1 DEF ReadyViewers, IsEstablished
<1> SUFFICES ASSUME RelayToRoom(r) PROVE L!LobbyNext
  BY <1>1, <1>6, IdleStep DEF Panic
<1>3. relay' = Insert(EmptyMap, r, Receivers(r))
  BY <1>2, Zenon DEF RelayToRoom
<1>4. Receivers(r) = rooms[r].viewer_ids \cap ReadyViewers
  BY <1>2 DEF Receivers, ReadyViewers
<1>5. relay' = [s \in {r} |-> rooms[r].viewer_ids \cap ReadyViewers]
  BY <1>3, <1>4 DEF Insert, EmptyMap
<1>7. L!Deliver(r)
  BY <1>1, <1>2, <1>5, <1>6 DEF L!Deliver
<1> QED
  BY <1>2, <1>7 DEF L!LobbyNext

\* The periodic checks close the rooms of stale streamers and let stale
\* viewers leave.
LEMMA ChecksDepart ==
  ASSUME Inv, RunPeriodicChecks
  PROVE  L!LobbyNext
<1> DEFINE R == OwnedRooms(Stale)
<1>1. /\ rooms' = [r \in DOMAIN rooms \ R |->
                    [rooms[r] EXCEPT !.viewer_ids = @ \ DepartingViewers(Stale, r)]]
      /\ client' = Without(client, Stale)
      /\ relay' = EmptyMap
  BY DEF RunPeriodicChecks, remove_sessions
<1>2. Stale \in SUBSET ResourceId /\ R \in SUBSET RoomId
  BY DEF Stale, OwnedRooms, Inv, Consistent, RegistryTypeOK, Session
<1>3. \A r \in DOMAIN rooms : rooms[r] \in Room
  BY DEF Inv, Consistent, RegistryTypeOK
<1>4. \A r \in DOMAIN rooms :
        rooms[r].viewer_ids \ DepartingViewers(Stale, r) = rooms[r].viewer_ids \ Stale
  BY DEF DepartingViewers, Inv, Consistent, ViewersListed
<1>5. /\ DOMAIN rooms' = DOMAIN rooms \ R
      /\ \A r \in DOMAIN rooms \ R : rooms'[r].viewer_ids = rooms[r].viewer_ids \ Stale
  BY <1>1, <1>3, <1>4 DEF Room
<1>6. Members' = [r \in DOMAIN Members \ R |-> Members[r] \ Stale]
  BY <1>5 DEF Members
<1>7. \A v : v \notin Stale => (IsEstablished(v)' <=> IsEstablished(v))
  BY <1>1 DEF IsEstablished, Without
<1>8. ReadyViewers' = ReadyViewers
                        \cap UNION {Members[r] \ Stale : r \in DOMAIN Members \ R}
  <2>1. \A v : v \in ReadyViewers' <=>
          /\ \E r \in DOMAIN rooms \ R : v \in rooms[r].viewer_ids \ Stale
          /\ IsEstablished(v)
    BY <1>5, <1>7 DEF ReadyViewers
  <2>2. \A v : v \in ReadyViewers <=>
          /\ \E r \in DOMAIN rooms : v \in rooms[r].viewer_ids
          /\ IsEstablished(v)
    BY DEF ReadyViewers
  <2> QED
    BY <2>1, <2>2 DEF Members
<1>9. PICK closing \in SUBSET RoomId, leaving \in SUBSET ResourceId :
        closing = R /\ leaving = Stale
  BY <1>2
<1>10. L!Depart(closing, leaving)
  BY <1>1, <1>6, <1>8, <1>9 DEF L!Depart, L!Nobody, EmptyMap, Members
<1> QED
  BY <1>10 DEF L!LobbyNext

\* While draws are distinct, the server implements the lobby: whatever the
\* threads and peers do, its users see rooms open, viewers join, become ready,
\* receive and leave as the lobby allows, and nothing else.
THEOREM ServerImplementsLobby ==
  ASSUME DistinctDraws
  PROVE  Spec => ImplementsLobby
<1>1. Init => L!LobbyInit
  BY DEF Init, registry_init, EmptyMap, L!LobbyInit, L!Nobody, ReadyViewers
<1>2. ASSUME Inv, [Next]_vars
      PROVE  [L!LobbyNext]_(L!lobby_vars)
  <2>1. CASE UNCHANGED vars
    BY <2>1 DEF vars, registry_vars, output_vars, L!lobby_vars, ReadyViewers, IsEstablished
  <2>2. ASSUME NEW a \in Address, IgnoredPacket(a) \/ ShutdownPacket(a)
        PROVE  L!LobbyNext
    BY <2>2, IdleStep, Zenon DEF IgnoredPacket, ShutdownPacket, Quiet, Panic, ReadyViewers,
       IsEstablished
  <2>3. CASE Tick
    BY <2>3, IdleStep DEF Tick, Quiet, ReadyViewers, IsEstablished
  <2>4. CASE UnreadableRequest
    BY <2>4, IdleStep DEF UnreadableRequest, Panic, registry_vars, ReadyViewers, IsEstablished
  <2> QED
    BY <1>2, <2>1, <2>2, <2>3, <2>4, AddStreamerOpens, AddViewerJoins, StunIdle,
       HandshakeReadies, RtpDelivers, ChecksDepart
       DEF Next, RemoteCommand, HandlePacket
<1> QED
  BY <1>1, <1>2, InitInv, NextInv, PTL DEF Spec, ImplementsLobby, L!LobbySpec

------------------------------------------------------------------------------
\* The order of removals.

\* The registry without the sessions of S.
RemovedRooms(S) ==
  [r \in DOMAIN rooms \ OwnedRooms(S) |->
     [rooms[r] EXCEPT !.viewer_ids = @ \ DepartingViewers(S, r)]]

Removed(S) ==
  [sessions     |-> Without(sessions, S),
   username_map |-> Without(username_map, UsernamesOf(S)),
   address_map  |-> Without(address_map, AddressesOf(S)),
   rooms        |-> RemovedRooms(S),
   client       |-> Without(client, S)]

LEMMA RoomsWithout ==
  ASSUME RegistryTypeOK, NEW S
  PROVE  RemovedRooms(S) =
           [r \in DOMAIN rooms \ OwnedRooms(S) |->
              [owner_id |-> rooms[r].owner_id,
               viewer_ids |-> rooms[r].viewer_ids \ DepartingViewers(S, r)]]
<1>1. \A r \in DOMAIN rooms : rooms[r] \in Room
  BY DEF RegistryTypeOK
<1>2. \A room \in Room : \A V :
        [room EXCEPT !.viewer_ids = @ \ V]
          = [owner_id |-> room.owner_id, viewer_ids |-> room.viewer_ids \ V]
  BY DEF Room
<1> QED
  BY <1>1, <1>2 DEF RemovedRooms

\* One call of remove_session after any others.
LEMMA RemoveOne ==
  ASSUME RegistryTypeOK, NEW S \in SUBSET DOMAIN sessions, NEW id \in DOMAIN sessions \ S
  PROVE  remove_session(Removed(S), id) = Removed(S \cup {id})
<1> DEFINE reg == Removed(S)
           T == S \cup {id}
           r == sessions[id].room_id
<1>1. /\ reg.sessions = Without(sessions, S)
      /\ reg.username_map = Without(username_map, UsernamesOf(S))
      /\ reg.address_map = Without(address_map, AddressesOf(S))
      /\ reg.rooms = RemovedRooms(S)
      /\ reg.client = Without(client, S)
  BY DEF Removed
<1> SUFFICES remove_session(reg, id) = Removed(T)
  OBVIOUS
<1> HIDE DEF reg
<1>2. reg.sessions[id] = sessions[id]
  BY <1>1 DEF Without
<1>3. Without(reg.sessions, {id}) = Without(sessions, T)
  BY <1>1 DEF Without
<1>4. Without(reg.client, {id}) = Without(client, T)
  BY <1>1 DEF Without
<1>5. forget_username(reg, id) = Without(username_map, UsernamesOf(T))
  <2>1. UsernamesOf(T) = UsernamesOf(S) \cup {sessions[id].username}
    BY DEF UsernamesOf
  <2> QED
    BY <1>1, <1>2, <2>1, Zenon DEF forget_username, Without
<1>6. forget_address(reg, id) = Without(address_map, AddressesOf(T))
  <2>1. CASE id \in DOMAIN client
    <3>1. AddressesOf(T) = AddressesOf(S) \cup {client[id].remote_address}
      BY <2>1 DEF AddressesOf
    <3>2. id \in DOMAIN reg.client /\ reg.client[id] = client[id]
      BY <1>1, <2>1 DEF Without
    <3> QED
      BY <1>1, <3>1, <3>2, Zenon DEF forget_address, Without
  <2>2. CASE id \notin DOMAIN client
    <3>1. AddressesOf(T) = AddressesOf(S)
      BY <2>2 DEF AddressesOf
    <3>2. id \notin DOMAIN reg.client
      BY <1>1, <2>2 DEF Without
    <3> QED
      BY <1>1, <3>1, <3>2 DEF forget_address
  <2> QED
    BY <2>1, <2>2
<1> DEFINE Left(q, V) == [owner_id |-> rooms[q].owner_id, viewer_ids |-> rooms[q].viewer_ids \ V]
<1>7. /\ RemovedRooms(S) = [q \in DOMAIN rooms \ OwnedRooms(S) |-> Left(q, DepartingViewers(S, q))]
      /\ RemovedRooms(T) = [q \in DOMAIN rooms \ OwnedRooms(T) |-> Left(q, DepartingViewers(T, q))]
  BY RoomsWithout, Zenon
<1>8. CASE IsViewer(id)
  <2>1. OwnedRooms(T) = OwnedRooms(S)
    BY <1>8 DEF OwnedRooms, IsStreamer, IsViewer
  <2>2. \A q : DepartingViewers(T, q)
                 = IF q = r THEN DepartingViewers(S, q) \cup {id} ELSE DepartingViewers(S, q)
    BY <1>8 DEF DepartingViewers
  <2>3. remove_viewer(reg, id) = RemovedRooms(T)
    <3>1. CASE r \notin DOMAIN reg.rooms
      <4>1. \A q \in DOMAIN rooms \ OwnedRooms(S) : q # r
        BY <1>1, <1>7, <3>1
      <4>2. RemovedRooms(T) = RemovedRooms(S)
        BY <1>7, <2>1, <2>2, <4>1, Zenon
      <4> QED
        BY <1>1, <1>2, <3>1, <4>2 DEF remove_viewer
    <3>2. CASE r \in DOMAIN reg.rooms
      <4>1. remove_viewer(reg, id) = [reg.rooms EXCEPT ![r].viewer_ids = @ \ {id}]
        BY <1>2, <3>2 DEF remove_viewer
      <4>2. /\ DOMAIN reg.rooms = DOMAIN rooms \ OwnedRooms(S)
            /\ \A q \in DOMAIN rooms \ OwnedRooms(S) :
                 reg.rooms[q] = Left(q, DepartingViewers(S, q))
            /\ reg.rooms = [q \in DOMAIN rooms \ OwnedRooms(S) |-> Left(q, DepartingViewers(S, q))]
        BY <1>1, <1>7
      <4>3. \A q, V, room : room = Left(q, V) =>
              [room EXCEPT !.viewer_ids = @ \ {id}] = Left(q, V \cup {id})
        OBVIOUS
      <4> HIDE DEF Left
      <4>4. [reg.rooms EXCEPT ![r].viewer_ids = @ \ {id}]
              = [q \in DOMAIN rooms \ OwnedRooms(S) |->
                   IF q = r THEN [reg.rooms[q] EXCEPT !.viewer_ids = @ \ {id}] ELSE reg.rooms[q]]
        BY <3>2, <4>2, Zenon
      <4>5. \A q \in DOMAIN rooms \ OwnedRooms(S) :
              (IF q = r THEN [reg.rooms[q] EXCEPT !.viewer_ids = @ \ {id}] ELSE reg.rooms[q])
                = Left(q, DepartingViewers(T, q))
        <5> TAKE q \in DOMAIN rooms \ OwnedRooms(S)
        <5>1. CASE q = r
          <6>1. DepartingViewers(T, q) = DepartingViewers(S, q) \cup {id}
            BY <2>2, <5>1, Zenon
          <6>2. [reg.rooms[q] EXCEPT !.viewer_ids = @ \ {id}]
                  = Left(q, DepartingViewers(S, q) \cup {id})
            <7>1. reg.rooms[q] = Left(q, DepartingViewers(S, q))
              BY <4>2
            <7> QED
              BY ONLY <4>3, <7>1
          <6> QED
            BY <5>1, <6>1, <6>2
        <5>2. CASE q # r
          <6>1. DepartingViewers(T, q) = DepartingViewers(S, q)
            BY <2>2, <5>2, Zenon
          <6> QED
            BY <4>2, <5>2, <6>1
        <5> QED
          BY <5>1, <5>2
      <4> QED
        BY <1>7, <2>1, <4>1, <4>4, <4>5, Zenon
    <3> QED
      BY <3>1, <3>2
  <2> QED
    BY <1>2, <1>3, <1>4, <1>5, <1>6, <1>8, <2>3 DEF remove_session, Removed, IsViewer
<1>9. CASE ~ IsViewer(id)
  <2>1. IsStreamer(id)
    BY <1>9 DEF IsViewer, IsStreamer, RegistryTypeOK, Session
  <2>2. OwnedRooms(T) = OwnedRooms(S) \cup {r}
    BY <2>1 DEF OwnedRooms, IsStreamer
  <2>3. \A q : DepartingViewers(T, q) = DepartingViewers(S, q)
    BY <1>9 DEF DepartingViewers
  <2>4. remove_room(reg, id) = RemovedRooms(T)
    <3>1. remove_room(reg, id) = Without(RemovedRooms(S), {r})
      BY <1>1, <1>2 DEF remove_room
    <3>2. (DOMAIN rooms \ OwnedRooms(S)) \ {r} = DOMAIN rooms \ OwnedRooms(T)
      BY <2>2
    <3>3. RemovedRooms(T) = [q \in DOMAIN rooms \ OwnedRooms(T) |-> Left(q, DepartingViewers(S, q))]
      BY <1>7, <2>3, Zenon
    <3> HIDE DEF Left
    <3> QED
      BY <1>7, <3>1, <3>2, <3>3 DEF Without
  <2> QED
    BY <1>2, <1>3, <1>4, <1>5, <1>6, <1>9, <2>4 DEF remove_session, Removed, IsViewer
<1> QED
  BY <1>8, <1>9

LEMMA RemovedNone ==
  ASSUME RegistryTypeOK
  PROVE  Removed({}) = Registry
<1>1. /\ UsernamesOf({}) = {} /\ AddressesOf({}) = {} /\ OwnedRooms({}) = {}
      /\ \A r : DepartingViewers({}, r) = {}
  BY DEF UsernamesOf, AddressesOf, OwnedRooms, DepartingViewers
<1>2. /\ Without(sessions, {}) = sessions /\ Without(username_map, {}) = username_map
      /\ Without(address_map, {}) = address_map /\ Without(client, {}) = client
  BY DEF Without, RegistryTypeOK
<1>3. RemovedRooms({}) = rooms
  <2>1. RemovedRooms({}) = [r \in DOMAIN rooms |-> [owner_id |-> rooms[r].owner_id,
                                                    viewer_ids |-> rooms[r].viewer_ids]]
    <3>1. RemovedRooms({}) =
            [r \in DOMAIN rooms \ OwnedRooms({}) |->
               [owner_id |-> rooms[r].owner_id,
                viewer_ids |-> rooms[r].viewer_ids \ DepartingViewers({}, r)]]
      BY RoomsWithout, Zenon
    <3>2. DOMAIN rooms \ OwnedRooms({}) = DOMAIN rooms
      BY <1>1
    <3>3. \A r : rooms[r].viewer_ids \ DepartingViewers({}, r) = rooms[r].viewer_ids
      BY <1>1
    <3> QED
      BY ONLY <3>1, <3>2, <3>3, Zenon
  <2>2. \A r \in DOMAIN rooms :
          [owner_id |-> rooms[r].owner_id, viewer_ids |-> rooms[r].viewer_ids] = rooms[r]
    BY DEF RegistryTypeOK, Room
  <2>3. rooms = [r \in DOMAIN rooms |-> rooms[r]]
    BY DEF RegistryTypeOK
  <2> QED
    BY <2>1, <2>2, <2>3
<1> QED
  BY <1>1, <1>2, <1>3 DEF Removed, Registry

\* RunPeriodicChecks is the removal of all the stale sessions at once.
LEMMA ChecksRemove ==
  ASSUME RunPeriodicChecks
  PROVE  Registry' = Removed(Stale)
BY DEF RunPeriodicChecks, remove_sessions, Registry, Removed, RemovedRooms

\* After some calls of remove_session the sessions removed so far are gone.
LEMMA EachRemoved ==
  ASSUME RegistryTypeOK, NEW n \in Nat, NEW order, order \in [1..n -> DOMAIN sessions],
         \A i, j \in 1..n : order[i] = order[j] => i = j
  PROVE  OneByOne(Registry, n, order)[n] = Removed({order[k] : k \in 1..n})
<1> DEFINE Gone(i) == {order[k] : k \in 1..i}
           f == [i \in 0..n |-> Removed(Gone(i))]
           Is(g) == g = [i \in 0..n |-> IF i = 0 THEN Registry
                                        ELSE remove_session(g[i - 1], order[i])]
<1>1. Removed(Gone(0)) = Registry
  <2>1. Gone(0) = {}
    OBVIOUS
  <2> HIDE DEF Gone
  <2> QED
    BY <2>1, RemovedNone
<1>2. ASSUME NEW i \in 1..n
      PROVE  Removed(Gone(i)) = remove_session(Removed(Gone(i - 1)), order[i])
  <2>1. Gone(i - 1) \in SUBSET DOMAIN sessions
    OBVIOUS
  <2>2. order[i] \in DOMAIN sessions \ Gone(i - 1)
    OBVIOUS
  <2>3. Gone(i) = Gone(i - 1) \cup {order[i]}
    <3>1. \A k : k \in 1..i <=> k \in 1..(i - 1) \/ k = i
      OBVIOUS
    <3> QED
      BY ONLY <3>1
  <2> HIDE DEF Gone
  <2> QED
    BY <2>1, <2>2, <2>3, RemoveOne
<1> HIDE DEF Gone
<1>3. /\ f[0] = Registry
      /\ \A i \in 1..n : f[i] = remove_session(f[i - 1], order[i])
  <2>1. 0 \in 0..n /\ \A i \in 1..n : i \in 0..n /\ i - 1 \in 0..n
    OBVIOUS
  <2> QED
    BY ONLY <1>1, <1>2, <2>1
<1>4. Is(f)
  <2>1. \A i \in 0..n : i # 0 => i \in 1..n
    OBVIOUS
  <2>2. \A i \in 0..n : Removed(Gone(i)) = IF i = 0 THEN Registry
                                            ELSE remove_session(f[i - 1], order[i])
    BY ONLY <1>3, <2>1, Zenon
  <2> QED
    BY ONLY <2>2
<1>5. OneByOne(Registry, n, order) = CHOOSE g : Is(g)
  BY DEF OneByOne
<1>6. Is(OneByOne(Registry, n, order))
  <2> HIDE DEF Is, f
  <2> QED
    BY <1>4, <1>5
<1>7. PICK g : g = OneByOne(Registry, n, order)
  OBVIOUS
<1>8. /\ g[0] = Registry
      /\ \A i \in 1..n : g[i] = remove_session(g[i - 1], order[i])
  <2>1. Is(g)
    BY ONLY <1>6, <1>7
  <2>2. 0 \in 0..n /\ \A i \in 1..n : i \in 0..n /\ i # 0
    OBVIOUS
  <2> QED
    BY ONLY <2>1, <2>2
<1>9. \A i \in 0..n : g[i] = f[i]
  <2>1. PICK h : h = f
    BY Zenon
  <2> HIDE DEF f
  <2>2. g[0] = h[0]
    BY ONLY <1>3, <1>8, <2>1
  <2>3. \A i \in 1..n : g[i - 1] = h[i - 1] => g[i] = h[i]
    BY ONLY <1>3, <1>8, <2>1
  <2>4. \A i \in 0..n : g[i] = h[i]
    BY ONLY <2>2, <2>3, SameSteps, n \in Nat
  <2> QED
    BY ONLY <2>1, <2>4
<1>10. n \in 0..n
  OBVIOUS
<1>11. g[n] = Removed(Gone(n))
  BY ONLY <1>9, <1>10
<1> QED
  BY ONLY <1>7, <1>11 DEF Gone

\* There are finitely many sessions.
FiniteSessions == IsFiniteSet(DOMAIN sessions)

LEMMA InitFinite ==
  ASSUME Init
  PROVE  FiniteSessions
BY FS_EmptySet DEF Init, registry_init, EmptyMap, FiniteSessions

LEMMA NextFinite ==
  ASSUME FiniteSessions, [Next]_vars
  PROVE  FiniteSessions'
<1>1. /\ IsFiniteSet(DOMAIN sessions)
      /\ \A id : IsFiniteSet(DOMAIN sessions \cup {id})
      /\ \A S : IsFiniteSet(DOMAIN sessions \ S)
  <2>1. \A S : DOMAIN sessions \ S \subseteq DOMAIN sessions
    OBVIOUS
  <2> QED
    BY <2>1, FS_AddElement, FS_Subset DEF FiniteSessions
<1>2. CASE UNCHANGED vars
  BY <1>1, <1>2 DEF vars, registry_vars, FiniteSessions
<1>3. CASE AddStreamer \/ \E r \in RoomId : AddViewer(r)
  <2>1. PICK id : DOMAIN sessions' = DOMAIN sessions \cup {id}
    BY <1>3, Zenon DEF AddStreamer, AddViewer, add_streamer, add_viewer, new_session, Insert
  <2> QED
    BY <1>1, <2>1 DEF FiniteSessions
<1>4. CASE HandlePacket \/ Tick
  <2>1. sessions' = sessions
    BY <1>4, Zenon DEF HandlePacket, UnreadableRequest, registry_vars,
       LiveCheck, Nomination, nominate_client, HandshakePacket,
       KeylessHandshake, IgnoredPacket, ShutdownPacket, RtpPacket, Tick
  <2> QED
    BY <1>1, <2>1 DEF FiniteSessions
<1>5. CASE RunPeriodicChecks
  <2>1. DOMAIN sessions' = DOMAIN sessions \ Stale
    BY <1>5 DEF RunPeriodicChecks, remove_sessions, Without
  <2> QED
    BY <1>1, <2>1 DEF FiniteSessions
<1> QED
  BY <1>2, <1>3, <1>4, <1>5 DEF Next, RemoteCommand

\* While draws are distinct, the periodic checks may call remove_session for the
\* stale sessions in any order: the registry ends up the same.
THEOREM RemovalsDoCommute ==
  ASSUME DistinctDraws
  PROVE  Spec => RemovalsCommute
<1> DEFINE Commute ==
      RunPeriodicChecks =>
        \A order \in Orders(Stale) :
          LET n == Cardinality(Stale) IN OneByOne(Registry, n, order)[n] = Registry'
<1>1. ASSUME Inv, FiniteSessions
      PROVE  Commute
  <2> SUFFICES ASSUME RunPeriodicChecks, NEW order \in Orders(Stale)
               PROVE  OneByOne(Registry, Cardinality(Stale), order)[Cardinality(Stale)] = Registry'
    OBVIOUS
  <2>1. PICK n : n = Cardinality(Stale)
    OBVIOUS
  <2>2. n \in Nat
    <3>1. Stale \subseteq DOMAIN sessions
      BY DEF Stale
    <3> QED
      BY <1>1, <2>1, <3>1, FS_Subset, FS_CardinalityType DEF FiniteSessions
  <2>3. /\ order \in [1..n -> DOMAIN sessions]
        /\ \A i, j \in 1..n : order[i] = order[j] => i = j
        /\ {order[k] : k \in 1..n} = Stale
    <3>1. /\ order \in [1..n -> Stale]
          /\ \A i, j \in 1..n : order[i] = order[j] => i = j
          /\ \A id \in Stale : \E i \in 1..n : order[i] = id
      BY <2>1 DEF Orders
    <3>2. Stale \subseteq DOMAIN sessions
      BY DEF Stale
    <3> QED
      BY ONLY <3>1, <3>2
  <2>4. RegistryTypeOK
    BY <1>1 DEF Inv, Consistent
  <2>5. OneByOne(Registry, n, order)[n] = Removed(Stale)
    BY <2>2, <2>3, <2>4, EachRemoved
  <2> QED
    BY <2>1, <2>5, ChecksRemove
<1>2. Inv /\ FiniteSessions => [Commute]_vars
  BY <1>1
<1> QED
  BY <1>2, InitInv, NextInv, InitFinite, NextFinite, PTL DEF Spec, RemovalsCommute

------------------------------------------------------------------------------
\* Time.

Timely == timer \in 0..Period /\ SilenceBounded /\ ThumbnailFresh

\* Every timed step is a step of the server.
LEMMA TimedStepIsStep == [TimedNext]_timed_vars => [Next]_vars
  BY DEF TimedNext, TimedTick, TimedChecks, TimedCommand, timed_vars, Next

\* A remote command leaves the age of a session alone or sets it to zero.
LEMMA CommandAges ==
  ASSUME Inv, RemoteCommand, NEW i \in DOMAIN sessions'
  PROVE  age'[i] = 0 \/ (i \in DOMAIN sessions /\ age'[i] = age[i])
<1>1. age \in [DOMAIN sessions -> 0..AgeCap]
  BY DEF Inv, Consistent, RegistryTypeOK
<1>2. CASE AddStreamer \/ \E r \in RoomId : AddViewer(r)
  <2>1. PICK id : /\ \E s : sessions' = Insert(sessions, id, s)
                  /\ age' = Insert(age, id, 0)
    BY <1>2, Zenon DEF AddStreamer, AddViewer, add_streamer, add_viewer, new_session
  <2> QED
    BY <1>1, <2>1 DEF Insert
<1>3. CASE HandlePacket
  <2>1. sessions' = sessions /\ (age' = age \/ \E id : Touch(id))
    BY <1>3, Zenon DEF HandlePacket, UnreadableRequest, registry_vars, LiveCheck, Nomination,
       nominate_client, HandshakePacket, KeylessHandshake, IgnoredPacket, ShutdownPacket,
       RtpPacket
  <2> QED
    BY <1>1, <2>1 DEF Touch
<1> QED
  BY <1>2, <1>3 DEF RemoteCommand

\* A remote command renews no thumbnail timestamp.
LEMMA CommandImageAges ==
  ASSUME Inv, RemoteCommand
  PROVE  /\ DOMAIN image_age' \subseteq DOMAIN image_age
         /\ \A i \in DOMAIN image_age' : image_age'[i] = image_age[i]
<1>1. CASE AddStreamer \/ \E r \in RoomId : AddViewer(r)
  BY <1>1, Zenon DEF AddStreamer, AddViewer, NewExtractor, Without
<1>2. CASE HandlePacket
  BY <1>2, Zenon DEF HandlePacket, UnreadableRequest, LiveCheck, Nomination, HandshakePacket,
     KeylessHandshake, IgnoredPacket, ShutdownPacket, RtpPacket, thumbnail_vars
<1> QED
  BY <1>1, <1>2 DEF RemoteCommand

\* Every timed step keeps the time bounds.
LEMMA NextTimely ==
  ASSUME Inv, Timely, DistinctDraws, [TimedNext]_timed_vars
  PROVE  Timely'
<1> USE PeriodAssumption, ServerAssumption, RegistryAssumption
<1>1. /\ age \in [DOMAIN sessions -> 0..AgeCap]
      /\ image_age \in [DOMAIN image_age -> 0..AgeCap]
      /\ DOMAIN image_age \subseteq picture
      /\ picture \subseteq {i \in DOMAIN sessions : IsStreamer(i)}
  BY DEF Inv, Consistent, RegistryTypeOK, ThumbnailTypeOK
<1>2. CASE UNCHANGED timed_vars
  BY <1>2 DEF timed_vars, vars, registry_vars, thumbnail_vars, Timely, SilenceBounded,
     ThumbnailFresh
<1>3. CASE TimedTick
  <2>1. /\ timer' = timer + 1 /\ timer < Period /\ sessions' = sessions
        /\ age' = [i \in DOMAIN age |-> Older(age[i])]
        /\ image_age' = [i \in DOMAIN image_age |-> Older(image_age[i])]
    BY <1>3 DEF TimedTick, Tick
  <2>2. \A n \in 0..AgeCap : Older(n) \in Nat /\ Older(n) <= n + 1
    BY DEF Older
  <2>3. SilenceBounded'
    BY <1>1, <2>1, <2>2 DEF Timely, SilenceBounded
  <2>4. ThumbnailFresh'
    BY <1>1, <2>1, <2>2 DEF Timely, ThumbnailFresh
  <2> QED
    BY <2>1, <2>3, <2>4 DEF Timely
<1>4. CASE TimedChecks
  <2>1. /\ timer' = 0 /\ DOMAIN sessions' = DOMAIN sessions \ Stale
        /\ \A i \in DOMAIN sessions' : age'[i] = age[i]
        /\ image_age' = [i \in (DOMAIN image_age \cup Due) \ Stale |-> Stamped(i)]
    BY <1>1, <1>4 DEF TimedChecks, RunPeriodicChecks, remove_sessions, Without
  <2>2. SilenceBounded'
    BY <1>1, <2>1 DEF SilenceBounded, Stale
  <2>3. ThumbnailFresh'
    BY <1>1, <2>1 DEF ThumbnailFresh, Stamped, Due, ThumbnailDue
  <2> QED
    BY <2>1, <2>2, <2>3 DEF Timely
<1>5. CASE TimedCommand
  <2>1. RemoteCommand /\ timer' = timer
    BY <1>5 DEF TimedCommand
  <2>2. SilenceBounded'
    BY <2>1, CommandAges DEF Timely, SilenceBounded
  <2>3. ThumbnailFresh'
    BY <2>1, CommandImageAges DEF Timely, ThumbnailFresh
  <2> QED
    BY <2>1, <2>2, <2>3 DEF Timely
<1> QED
  BY <1>2, <1>3, <1>4, <1>5 DEF TimedNext

\* While draws are distinct, a peer that falls silent is forgotten within the
\* ttl and one period of the timer, and a thumbnail is retaken within its own.
THEOREM TimeBounds ==
  ASSUME DistinctDraws
  PROVE  TimedSpec => [](SilenceBounded /\ ThumbnailFresh)
<1>1. TimedInit => Inv /\ Timely
  <2> SUFFICES ASSUME TimedInit PROVE Inv /\ Timely
    OBVIOUS
  <2>1. Inv
    BY InitInv DEF TimedInit
  <2>2. Timely
    BY PeriodAssumption DEF TimedInit, Init, registry_init, EmptyMap, Timely,
       SilenceBounded, ThumbnailFresh
  <2> QED
    BY <2>1, <2>2
<1>2. Timely => SilenceBounded /\ ThumbnailFresh
  BY DEF Timely
<1> QED
  BY <1>1, <1>2, NextInv, NextTimely, TimedStepIsStep, PTL DEF TimedSpec

\* While draws are distinct, the periodic checks retake the thumbnail of every
\* streamer that has one within its ttl and one period of the timer.
COROLLARY ThumbnailsStayFresh ==
  ASSUME DistinctDraws
  PROVE  TimedSpec => []ThumbnailFresh
BY TimeBounds, PTL

\* While draws are distinct, the timer and the ages of saves keep their types
\* along with the server's state.
THEOREM TimedTypeCorrect ==
  ASSUME DistinctDraws
  PROVE  TimedSpec => []TimedTypeOK
<1>1. TimedInit => Inv /\ TimedTypeOK
  <2> SUFFICES ASSUME TimedInit PROVE Inv /\ TimedTypeOK
    OBVIOUS
  <2>1. Inv /\ TypeOK
    BY InitInv DEF TimedInit, Inv, TypeOK, Consistent
  <2> QED
    BY <2>1, PeriodAssumption DEF TimedInit, TimedTypeOK, EmptyMap
<1>2. ASSUME Inv, Inv', TimedTypeOK, [TimedNext]_timed_vars
      PROVE  TimedTypeOK'
  <2>1. TypeOK' /\ spawned' \subseteq RoomId /\ DOMAIN rooms' \subseteq RoomId
    BY <1>2 DEF Inv, TypeOK, Consistent, OutputTypeOK, RegistryTypeOK
  <2>2. CASE UNCHANGED timed_vars \/ TimedCommand
    BY <1>2, <2>1, <2>2 DEF timed_vars, TimedCommand, TimedTypeOK
  <2>3. CASE TimedTick
    BY <1>2, <2>1, <2>3, OlderType, PeriodAssumption DEF TimedTick, TimedTypeOK
  <2>4. CASE TimedChecks
    BY <1>2, <2>1, <2>4, PeriodAssumption, RegistryAssumption DEF TimedChecks, TimedTypeOK
  <2> QED
    BY <1>2, <2>2, <2>3, <2>4 DEF TimedNext
<1> QED
  BY <1>1, <1>2, NextInv, TimedStepIsStep, PTL DEF TimedSpec

------------------------------------------------------------------------------
\* The history of a room's save threads is its owner's image_timestamp.
SavesStamped ==
  \A r \in DOMAIN save_age :
    /\ r \in DOMAIN rooms
    /\ rooms[r].owner_id \in DOMAIN image_age
    /\ save_age[r] = image_age[rooms[r].owner_id]

\* A remote command keeps open rooms, their owners and their timestamps.
LEMMA CommandKeepsStamps ==
  ASSUME Inv, DistinctDraws, RemoteCommand, NEW r \in DOMAIN rooms,
         rooms[r].owner_id \in DOMAIN image_age
  PROVE  /\ r \in DOMAIN rooms'
         /\ rooms'[r].owner_id = rooms[r].owner_id
         /\ rooms[r].owner_id \in DOMAIN image_age'
         /\ image_age'[rooms[r].owner_id] = image_age[rooms[r].owner_id]
<1>1. rooms[r].owner_id \in DOMAIN sessions /\ \A q \in DOMAIN rooms : rooms[q] \in Room
  BY DEF Inv, Consistent, RoomsOwned, RegistryTypeOK
<1>2. CASE AddStreamer
  BY <1>1, <1>2 DEF AddStreamer, add_streamer, NewExtractor, Insert, Without,
     RandomResourceId, RandomRoomId
<1>3. ASSUME NEW q \in RoomId, AddViewer(q)
      PROVE  /\ r \in DOMAIN rooms' /\ rooms'[r].owner_id = rooms[r].owner_id
             /\ rooms[r].owner_id \in DOMAIN image_age'
             /\ image_age'[rooms[r].owner_id] = image_age[rooms[r].owner_id]
  <2>1. PICK id \in ResourceId \ DOMAIN sessions :
          /\ rooms' = [rooms EXCEPT ![q].viewer_ids = @ \cup {id}]
          /\ image_age' = Without(image_age, {id})
    BY <1>3, Zenon DEF AddViewer, add_viewer, NewExtractor, RandomResourceId
  <2>2. r \in DOMAIN rooms' /\ rooms'[r].owner_id = rooms[r].owner_id
    BY <1>1, <2>1 DEF Room
  <2> QED
    BY <1>1, <2>1, <2>2 DEF Without
<1>4. CASE HandlePacket
  BY <1>4, Zenon DEF HandlePacket, UnreadableRequest, registry_vars,
     LiveCheck, Nomination, nominate_client, HandshakePacket,
     KeylessHandshake, IgnoredPacket, ShutdownPacket, RtpPacket, thumbnail_vars
<1> QED
  BY <1>2, <1>3, <1>4 DEF RemoteCommand

\* The checks give a room to a save thread exactly when its owner is due.
LEMMA SpawnedAreDue ==
  ASSUME Inv, RunPeriodicChecks, NEW r \in RoomId
  PROVE  r \in spawned' <=> r \in DOMAIN rooms /\ rooms[r].owner_id \in Due
<1>1. spawned' = {sessions[i].room_id : i \in Due}
  BY DEF RunPeriodicChecks
<1>2. \A i \in Due : i \in DOMAIN sessions /\ IsStreamer(i)
  BY DEF Due, ThumbnailDue
<1> QED
  BY <1>1, <1>2 DEF Inv, Consistent, RoomsOwned

\* Every timed step keeps the history in line with the timestamps.
LEMMA NextStamped ==
  ASSUME Inv, SavesStamped, DistinctDraws, [TimedNext]_timed_vars
  PROVE  SavesStamped'
<1>1. CASE UNCHANGED timed_vars
  BY <1>1 DEF timed_vars, vars, registry_vars, thumbnail_vars, SavesStamped
<1>2. CASE TimedTick
  BY <1>2 DEF TimedTick, Tick, SavesStamped
<1>3. CASE TimedCommand
  BY <1>3, CommandKeepsStamps DEF TimedCommand, SavesStamped
<1>4. CASE TimedChecks
  <2>1. /\ RunPeriodicChecks
        /\ save_age' = [r \in (DOMAIN save_age \cup spawned') \cap DOMAIN rooms' |->
                          IF r \in spawned' THEN 0 ELSE save_age[r]]
        /\ image_age' = [i \in (DOMAIN image_age \cup Due) \ Stale |-> Stamped(i)]
        /\ remove_sessions(Stale)
    BY <1>4 DEF TimedChecks, RunPeriodicChecks
  <2>2. \A r \in DOMAIN rooms : rooms[r] \in Room /\ r \in RoomId
    BY DEF Inv, Consistent, RegistryTypeOK
  <2>3. \A r \in DOMAIN rooms' :
          r \in DOMAIN rooms /\ rooms'[r].owner_id = rooms[r].owner_id
    BY <2>1, <2>2 DEF remove_sessions, Room
  <2>4. \A r \in DOMAIN rooms' : rooms[r].owner_id \notin Stale
    <3>1. \A r \in DOMAIN rooms :
            rooms[r].owner_id \in Stale => r \in OwnedRooms(Stale)
      BY DEF OwnedRooms, Inv, Consistent, RoomsOwned
    <3> QED
      BY <2>1, <2>3, <3>1 DEF remove_sessions
  <2>5. \A r \in DOMAIN rooms : r \in spawned' <=> rooms[r].owner_id \in Due
    BY <2>1, <2>2, SpawnedAreDue
  <2> SUFFICES ASSUME NEW r \in DOMAIN save_age'
               PROVE  /\ r \in DOMAIN rooms'
                      /\ rooms'[r].owner_id \in DOMAIN image_age'
                      /\ save_age'[r] = image_age'[rooms'[r].owner_id]
    BY DEF SavesStamped
  <2>6. r \in DOMAIN rooms' /\ (r \in DOMAIN save_age \/ r \in spawned')
    BY <2>1
  <2>7. CASE r \in spawned'
    BY <2>1, <2>3, <2>4, <2>5, <2>6, <2>7 DEF Stamped
  <2>8. CASE r \notin spawned'
    BY <2>1, <2>3, <2>4, <2>5, <2>6, <2>8 DEF Stamped, SavesStamped
  <2> QED
    BY <2>7, <2>8
<1> QED
  BY <1>1, <1>2, <1>3, <1>4 DEF TimedNext

\* While draws are distinct, two save threads of the same open room start more
\* than the thumbnail ttl apart.
THEOREM SavesArePaced ==
  ASSUME DistinctDraws
  PROVE  TimedSpec => SavesPaced
<1> DEFINE Paced == \A r \in spawned' : r \in DOMAIN save_age => save_age[r] > ThumbnailTTL
<1>1. TimedInit => Inv /\ SavesStamped
  BY InitInv DEF TimedInit, SavesStamped, EmptyMap
<1>2. ASSUME Inv, SavesStamped, [TimedNext]_timed_vars
      PROVE  [Paced]_timed_vars
  <2>1. CASE TimedTick \/ TimedCommand
    BY <2>1, Zenon DEF TimedTick, Tick, TimedCommand, RemoteCommand, AddStreamer, AddViewer,
       HandlePacket, UnreadableRequest, LiveCheck, Nomination, StunSuccess, HandshakePacket,
       KeylessHandshake, IgnoredPacket, ShutdownPacket, RtpPacket, RelayToRoom, Quiet, Panic
  <2>2. CASE TimedChecks
    <3>1. RunPeriodicChecks
      BY <2>2 DEF TimedChecks
    <3>2. \A r \in DOMAIN save_age : r \in RoomId
      BY <1>2 DEF SavesStamped, Inv, Consistent, RegistryTypeOK
    <3> QED
      BY <1>2, <3>1, <3>2, SpawnedAreDue DEF SavesStamped, Due, ThumbnailDue
  <2> QED
    BY <1>2, <2>1, <2>2 DEF TimedNext
<1> QED
  BY <1>1, <1>2, NextInv, NextStamped, TimedStepIsStep, PTL DEF TimedSpec, SavesPaced

------------------------------------------------------------------------------
\* The timed server is a server.

\* What the timer adds to MediaServer takes nothing from it: every behaviour of
\* PromptServer is one of MediaServer, so that what holds of the latter holds here.
THEOREM PromptIsServer == TimedSpec => Spec
<1>1. TimedInit => Init
  BY DEF TimedInit
<1> QED
  BY <1>1, TimedStepIsStep, PTL DEF TimedSpec, Spec

\* While draws are distinct, users see of the timed server the rooms, viewers and
\* deliveries of the lobby.
COROLLARY PromptImplementsLobby ==
  ASSUME DistinctDraws
  PROVE  TimedSpec => ImplementsLobby
BY PromptIsServer, ServerImplementsLobby, PTL

\* Rooms are alive: the streamer of every room that /rooms reports, and every viewer
\* that it counts, was heard of within the ttl and one period of the timer (8 s in
\* main.rs).
HeardOf == {i \in DOMAIN sessions : age[i] <= SessionTTL + Period}

RoomsLive ==
  \A r \in DOMAIN rooms : {rooms[r].owner_id} \cup rooms[r].viewer_ids \subseteq HeardOf

\* While draws are distinct, the bound on silence carries over from sessions to the
\* rooms and to the viewers that they list.
THEOREM RoomsAreLive ==
  ASSUME DistinctDraws
  PROVE  TimedSpec => []RoomsLive
<1>1. ASSUME TimedTypeOK, RoomsOwned, ViewersListed, SilenceBounded
      PROVE  RoomsLive
  <2>1. /\ timer \in Nat /\ timer <= Period /\ Period \in Nat /\ SessionTTL \in Nat
        /\ \A i \in DOMAIN sessions : age[i] \in Nat
    BY <1>1, PeriodAssumption, ServerAssumption, RegistryAssumption
       DEF TimedTypeOK, TypeOK, RegistryTypeOK
  <2>2. \A i \in DOMAIN sessions : i \in HeardOf
    BY <1>1, <2>1 DEF SilenceBounded, HeardOf
  <2>3. \A r \in DOMAIN rooms : /\ rooms[r].owner_id \in DOMAIN sessions
                                /\ rooms[r].viewer_ids \subseteq DOMAIN sessions
    BY <1>1 DEF RoomsOwned, ViewersListed
  <2> QED
    BY <2>2, <2>3 DEF RoomsLive
<1> QED
  BY <1>1, TimedTypeCorrect, TimeBounds, PromptIsServer, RegistryConsistent, PTL

==============================================================================
