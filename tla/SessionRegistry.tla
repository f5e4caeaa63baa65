--------------------------- MODULE SessionRegistry ---------------------------
(***************************************************************************)
(* The session registry of the media server (src/ice_registry.rs): four    *)
(* hash maps that index the same WebRTC sessions by resource id, by ICE     *)
(* user name, by the nominated socket address and by room.                  *)
(*                                                                          *)
(* A HashMap is a function whose DOMAIN is the set of keys present.  The     *)
(* Session struct is split by how its fields change: `sessions' holds what   *)
(* is fixed at creation, `client' and `age' what packets change; an          *)
(* Option<Client> that is None is an id outside DOMAIN client.  An Instant   *)
(* is kept as the time elapsed since it, saturated at AgeCap.                *)
(***************************************************************************)
EXTENDS Naturals

CONSTANTS
  ResourceId,     \* ids of sessions: the u32 values of get_random_id
  RoomId,         \* ids of rooms: the u32 values of get_random_id
  Username,       \* "host:remote" pairs of ICE user names
  Address,        \* remote socket addresses
  DistinctDraws,  \* TRUE when a random draw never repeats a value in use
  AgeCap          \* ages are counted up to this bound and stay there

VARIABLES
  sessions,      \* HashMap<ResourceID, Session>: the immutable fields
  username_map,  \* HashMap<SessionUsername, ResourceID>
  address_map,   \* HashMap<SocketAddr, ResourceID>
  rooms,         \* HashMap<RoomID, Room>
  client,        \* Session.client, for the sessions where it is Some
  age            \* Session.ttl.elapsed()

registry_vars == <<sessions, username_map, address_map, rooms, client, age>>

ASSUME RegistryAssumption ==
  /\ DistinctDraws \in BOOLEAN
  /\ AgeCap \in Nat

SslState == {"Handshake", "Established", "Shutdown"}

Session == [username        : Username,
            connection_type : {"Streamer", "Viewer"},
            room_id         : RoomId]

Client == [remote_address : Address, ssl_state : SslState]

Room == [owner_id : ResourceId, viewer_ids : SUBSET ResourceId]

IsStreamer(id) == sessions[id].connection_type = "Streamer"

IsViewer(id) == sessions[id].connection_type = "Viewer"

IsEstablished(id) ==
  id \in DOMAIN client /\ client[id].ssl_state = "Established"

------------------------------------------------------------------------------
\* HashMap::insert and HashMap::remove of the Rust standard library.

EmptyMap == [k \in {} |-> k]

Insert(map, key, value) ==
  [k \in DOMAIN map \cup {key} |-> IF k = key THEN value ELSE map[k]]

Without(map, keys) == [k \in DOMAIN map \ keys |-> map[k]]

------------------------------------------------------------------------------
(***************************************************************************)
(* Random draws.  get_random_id and get_random_string return any value of  *)
(* their range; nothing in the code compares a draw with the values in use. *)
(* DistinctDraws states the assumption the program makes silently.          *)
(***************************************************************************)
RandomResourceId ==
  IF DistinctDraws THEN ResourceId \ DOMAIN sessions ELSE ResourceId

RandomRoomId ==
  IF DistinctDraws
    THEN RoomId \ (DOMAIN rooms \cup {sessions[i].room_id : i \in DOMAIN sessions})
    ELSE RoomId

RandomUsername ==
  IF DistinctDraws THEN Username \ DOMAIN username_map ELSE Username

------------------------------------------------------------------------------
\* Lookups.

FoundByUsername(u) ==
  u \in DOMAIN username_map /\ username_map[u] \in DOMAIN sessions

FoundByAddress(a) ==
  a \in DOMAIN address_map /\ address_map[a] \in DOMAIN sessions

\* get_room followed by get_session of its owner.
FoundRoomOwner(r) ==
  r \in DOMAIN rooms /\ rooms[r].owner_id \in DOMAIN sessions

------------------------------------------------------------------------------
\* Updates.  Each is the whole method; what it leaves alone is UNCHANGED.

registry_init ==
  /\ sessions = EmptyMap
  /\ username_map = EmptyMap
  /\ address_map = EmptyMap
  /\ rooms = EmptyMap
  /\ client = EmptyMap
  /\ age = EmptyMap

\* Session::new_streamer and Session::new_viewer: a record that replaces
\* whatever the map held under its id, with no client and a fresh ttl.
new_session(id, session) ==
  /\ sessions' = Insert(sessions, id, session)
  /\ client' = Without(client, {id})
  /\ age' = Insert(age, id, 0)

add_streamer(id, r, u) ==
  /\ new_session(id, [username |-> u, connection_type |-> "Streamer", room_id |-> r])
  /\ username_map' = Insert(username_map, u, id)
  /\ rooms' = Insert(rooms, r, [owner_id |-> id, viewer_ids |-> {}])
  /\ UNCHANGED address_map

\* Mutant of add_viewer: the viewer replaces those already in the room.
add_viewer_alone(id, r, u) ==
  /\ new_session(id, [username |-> u, connection_type |-> "Viewer", room_id |-> r])
  /\ username_map' = Insert(username_map, u, id)
  /\ rooms' = [rooms EXCEPT ![r].viewer_ids = {id}]
  /\ UNCHANGED address_map

add_viewer(id, r, u) ==
  /\ new_session(id, [username |-> u, connection_type |-> "Viewer", room_id |-> r])
  /\ username_map' = Insert(username_map, u, id)
  /\ rooms' = [rooms EXCEPT ![r].viewer_ids = @ \cup {id}]
  /\ UNCHANGED address_map

\* Mutant of nominate_client: the address is not indexed.
nominate_client_unindexed(id, a) ==
  /\ client' = Insert(client, id, [remote_address |-> a, ssl_state |-> "Handshake"])
  /\ UNCHANGED <<sessions, username_map, address_map, rooms>>

nominate_client(id, a) ==
  /\ client' = Insert(client, id, [remote_address |-> a, ssl_state |-> "Handshake"])
  /\ address_map' = Insert(address_map, a, id)
  /\ UNCHANGED <<sessions, username_map, rooms>>

------------------------------------------------------------------------------
(***************************************************************************)
(* remove_session, applied to every id of S.  The code calls it once per   *)
(* stale session, in HashMap iteration order; RemovalOrder.tla shows that   *)
(* the calls commute and that their result is this one.                     *)
(***************************************************************************)
\* Mutant of the four helpers below: the index is not cleared.
Nothing(S) == {}

UsernamesOf(S) == {sessions[i].username : i \in S}

AddressesOf(S) == {client[i].remote_address : i \in S \cap DOMAIN client}

OwnedRooms(S) == {sessions[i].room_id : i \in {j \in S : IsStreamer(j)}}

\* Mutant of DepartingViewers: the room keeps listing the viewers that left.
NoViewers(S, r) == {}

DepartingViewers(S, r) == {i \in S : IsViewer(i) /\ sessions[i].room_id = r}

remove_sessions(S) ==
  /\ username_map' = Without(username_map, UsernamesOf(S))
  /\ address_map' = Without(address_map, AddressesOf(S))
  /\ rooms' = [r \in DOMAIN rooms \ OwnedRooms(S) |->
                 [rooms[r] EXCEPT !.viewer_ids = @ \ DepartingViewers(S, r)]]
  /\ sessions' = Without(sessions, S)
  /\ client' = Without(client, S)
  /\ age' = Without(age, S)

------------------------------------------------------------------------------
\* Invariants of the four maps.

RegistryTypeOK ==
  /\ DOMAIN sessions \subseteq ResourceId
  /\ sessions \in [DOMAIN sessions -> Session]
  /\ DOMAIN username_map \subseteq Username
  /\ username_map \in [DOMAIN username_map -> ResourceId]
  /\ DOMAIN address_map \subseteq Address
  /\ address_map \in [DOMAIN address_map -> ResourceId]
  /\ DOMAIN rooms \subseteq RoomId
  /\ rooms \in [DOMAIN rooms -> Room]
  /\ DOMAIN client \subseteq DOMAIN sessions
  /\ client \in [DOMAIN client -> Client]
  /\ age \in [DOMAIN sessions -> 0..AgeCap]

\* Rooms and streamers correspond one to one: every room's owner is a live
\* streamer session of that room, and every live streamer has its room.
RoomsOwned ==
  /\ \A r \in DOMAIN rooms :
       /\ rooms[r].owner_id \in DOMAIN sessions
       /\ IsStreamer(rooms[r].owner_id)
       /\ sessions[rooms[r].owner_id].room_id = r
  /\ \A i \in DOMAIN sessions :
       IsStreamer(i) => /\ sessions[i].room_id \in DOMAIN rooms
                        /\ rooms[sessions[i].room_id].owner_id = i

\* A room lists exactly the live viewer sessions that joined it, so the
\* viewer_count that /rooms reports is the number of those sessions.
ViewersListed ==
  \A r \in DOMAIN rooms :
    rooms[r].viewer_ids =
      {i \in DOMAIN sessions : IsViewer(i) /\ sessions[i].room_id = r}

\* The user name index is the exact inverse of the sessions' user names:
\* a STUN request finds the session whose credentials it carries, whatever
\* sessions were added and removed before.
UsernamesIndexed ==
  /\ \A u \in DOMAIN username_map :
       /\ username_map[u] \in DOMAIN sessions
       /\ sessions[username_map[u]].username = u
  /\ \A i \in DOMAIN sessions :
       /\ sessions[i].username \in DOMAIN username_map
       /\ username_map[sessions[i].username] = i

\* The address index never points to a session that is gone, that has no
\* client, or whose client was nominated from elsewhere.
AddressesIndexed ==
  \A a \in DOMAIN address_map :
    /\ address_map[a] \in DOMAIN client
    /\ client[address_map[a]].remote_address = a

==============================================================================
