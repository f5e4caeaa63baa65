----------------------------- MODULE MediaServer -----------------------------
(***************************************************************************)
(* The main thread of the media server: the commands of main.rs and the    *)
(* packet handlers of server.rs, over the session registry.  One thread     *)
(* takes one command at a time from a channel, so each handler is one       *)
(* action.  Here the commands arrive in any order; CommandLoop.tla adds the *)
(* channel and the threads that fill it.                                    *)
(*                                                                          *)
(* A failed expect, unwrap, index or todo! in the main thread ends the      *)
(* process: it is recorded in `panic' and nothing happens afterwards.  What *)
(* a peer's packet makes of the libraries and parsers it goes through is an *)
(* outcome, drawn from a constant, that may be such an end.                 *)
(***************************************************************************)
EXTENDS SessionRegistry

CONSTANTS
  Sources,            \* the addresses each holder of credentials sends from
  StunOutcomes,       \* how reading and answering a binding request can end
  StreamerHandshakes, \* how a step of a streamer's DTLS handshake can end
  ViewerHandshakes,   \* how a step of a viewer's can end
  FrameOutcomes,      \* what the thumbnail extractor can make of a packet
  SessionTTL,         \* Duration::from_secs(5) of the stale session check
  ThumbnailTTL        \* Duration::from_secs(120) between two thumbnails

ASSUME ServerAssumption ==
  /\ Sources \in [Username -> SUBSET Address]
  /\ StreamerHandshakes \subseteq SslState \cup {"NoSrtpProfile"}
  /\ ViewerHandshakes \subseteq SslState \cup {"NoSrtpProfile"}
  /\ StunOutcomes \subseteq {"Answered", "Oversized", "Unreadable"}
  /\ FrameOutcomes \subseteq {"Nothing", "Picture", "Unreadable"}
  /\ SessionTTL \in Nat /\ SessionTTL < AgeCap
  /\ ThumbnailTTL \in Nat /\ ThumbnailTTL < AgeCap

VARIABLES
  picture,    \* streamers whose thumbnail_extractor.last_picture is Some
  image_age,  \* image_timestamp.elapsed(), for the streamers where it is Some
  spawned,    \* rooms whose thumbnail the last step gave to a save thread
  relay,      \* the RTP packet relayed by the last step: room -> receivers
  panic       \* "none", or what ended the main thread

thumbnail_vars == <<picture, image_age>>

output_vars == <<spawned, relay, panic>>

vars == <<registry_vars, thumbnail_vars, output_vars>>

Running == panic = "none"

Init ==
  /\ registry_init
  /\ picture = {}
  /\ image_age = EmptyMap
  /\ spawned = {}
  /\ relay = EmptyMap
  /\ panic = "none"

\* The step relays no media, saves no thumbnail and returns to the loop.
Quiet == relay' = EmptyMap /\ spawned' = {} /\ UNCHANGED panic

Panic(reason) == relay' = EmptyMap /\ spawned' = {} /\ panic' = reason

\* A session record that replaces another one starts with a new extractor.
NewExtractor(id) ==
  /\ picture' = picture \ {id}
  /\ image_age' = Without(image_age, {id})

------------------------------------------------------------------------------
\* Commands of the HTTP threads.  An offer the SDP resolver rejects, or a
\* target room that is not there, leaves the registry alone: the caller gets
\* None, which CommandLoop.tla models.

AddStreamer ==
  /\ Running
  /\ \E id \in RandomResourceId, r \in RandomRoomId, u \in RandomUsername :
       add_streamer(id, r, u) /\ NewExtractor(id)
  /\ Quiet

AddViewer(r) ==
  /\ Running
  /\ FoundRoomOwner(r)
  /\ \E id \in RandomResourceId, u \in RandomUsername :
       add_viewer(id, r, u) /\ NewExtractor(id)
  /\ Quiet

------------------------------------------------------------------------------
\* session.ttl = Instant::now()
Touch(id) == age' = [age EXCEPT ![id] = 0]

\* create_stun_success, the last call of both branches of handle_stun_packet:
\* its response is sent, or does not fit the buffers and its expect fails.
\* IceCheck.tla says for which names it fits.
StunSuccess ==
  \/ "Answered" \in StunOutcomes /\ Quiet
  \/ "Oversized" \in StunOutcomes /\ Panic("expect: stun response")

\* parse_stun_packet unwraps what it reads of a binding request: the length
\* and the value of each attribute, the two parts of the user name and the
\* twenty bytes of the integrity attribute.
UnreadableRequest ==
  /\ Running
  /\ "Unreadable" \in StunOutcomes
  /\ UNCHANGED <<registry_vars, thumbnail_vars>>
  /\ Panic("unwrap: stun attributes")

\* STUN binding requests (handle_stun_packet), found by user name.

LiveCheck(u) ==
  /\ Running
  /\ FoundByUsername(u)
  /\ Touch(username_map[u])
  /\ UNCHANGED <<sessions, username_map, address_map, rooms, client, thumbnail_vars>>
  /\ StunSuccess

\* Mutant of Nomination: every nomination replaces the client.
NominationAgain(u, a) ==
  /\ Running
  /\ FoundByUsername(u)
  /\ nominate_client(username_map[u], a)
  /\ Touch(username_map[u])
  /\ UNCHANGED thumbnail_vars
  /\ StunSuccess

\* Only the first nomination creates a client; later ones, from whatever
\* address, are answered and refresh the ttl.  Ttl and client are set before
\* the response is put together.
Nomination(u, a) ==
  /\ Running
  /\ FoundByUsername(u)
  /\ LET id == username_map[u] IN
       /\ IF id \in DOMAIN client
            THEN UNCHANGED <<sessions, username_map, address_map, rooms, client>>
            ELSE nominate_client(id, a)
       /\ Touch(id)
  /\ UNCHANGED thumbnail_vars
  /\ StunSuccess

------------------------------------------------------------------------------
\* Other datagrams (handle_other_packets), found by source address.

HasClient(a) == FoundByAddress(a) /\ address_map[a] \in DOMAIN client

HandshakeOutcomes(id) == IF IsStreamer(id) THEN StreamerHandshakes ELSE ViewerHandshakes

\* Client::read_packet while the DTLS handshake is running.
HandshakePacket(a) ==
  /\ Running
  /\ HasClient(a)
  /\ LET id == address_map[a] IN
       /\ client[id].ssl_state = "Handshake"
       /\ \E outcome \in HandshakeOutcomes(id) \cap SslState :
            client' = [client EXCEPT ![id].ssl_state = outcome]
       /\ Touch(id)
  /\ UNCHANGED <<sessions, username_map, address_map, rooms, thumbnail_vars>>
  /\ Quiet

\* The handshake ends without SRTP keys: the unwrap of session_pair fails,
\* with the state already replaced by Shutdown.
KeylessHandshake(a) ==
  /\ Running
  /\ HasClient(a)
  /\ LET id == address_map[a] IN
       /\ "NoSrtpProfile" \in HandshakeOutcomes(id)
       /\ client[id].ssl_state = "Handshake"
       /\ client' = [client EXCEPT ![id].ssl_state = "Shutdown"]
       /\ Touch(id)
  /\ UNCHANGED <<sessions, username_map, address_map, rooms, thumbnail_vars>>
  /\ Panic("unwrap: srtp session")

\* A viewer's packet after its handshake, or a streamer's that does not
\* unprotect, only refreshes the ttl.
IgnoredPacket(a) ==
  /\ Running
  /\ HasClient(a)
  /\ LET id == address_map[a] IN
       /\ client[id].ssl_state # "Handshake"
       /\ IsViewer(id) \/ client[id].ssl_state = "Established"
       /\ Touch(id)
  /\ UNCHANGED <<sessions, username_map, address_map, rooms, client, thumbnail_vars>>
  /\ Quiet

\* todo!("Handle shutdown case?")
ShutdownPacket(a) ==
  /\ Running
  /\ HasClient(a)
  /\ LET id == address_map[a] IN
       /\ IsStreamer(id)
       /\ client[id].ssl_state = "Shutdown"
       /\ Touch(id)
  /\ UNCHANGED <<sessions, username_map, address_map, rooms, client, thumbnail_vars>>
  /\ Panic("todo: shutdown")

\* Mutant of Receivers: media goes out before the DTLS handshake is over.
ReceiversUnready(r) == {v \in rooms[r].viewer_ids : v \in DOMAIN client}

\* The viewers the relay loop encrypts a packet for.
Receivers(r) == {v \in rooms[r].viewer_ids : IsEstablished(v)}

\* The relay loop over the viewer ids of the room.  A protect or send_to that
\* fails is a packet lost on the way.
RelayToRoom(r) ==
  \/ /\ r \notin DOMAIN rooms
     /\ Panic("expect: streamer room")
  \/ /\ r \in DOMAIN rooms
     /\ rooms[r].viewer_ids \subseteq DOMAIN sessions
     /\ relay' = Insert(EmptyMap, r, Receivers(r))
     /\ spawned' = {}
     /\ UNCHANGED panic
  \/ /\ r \in DOMAIN rooms
     /\ ~ rooms[r].viewer_ids \subseteq DOMAIN sessions
     /\ \E served \in SUBSET Receivers(r) : relay' = Insert(EmptyMap, r, served)
     /\ spawned' = {}
     /\ panic' = "expect: viewer session"

\* An established streamer's RTP packet.  A video packet first goes through
\* try_extract_thumbnail, which may complete a picture, or index past the end
\* of a payload (AccessUnitDecoder.tla says of which).
RtpPacket(a) ==
  /\ Running
  /\ HasClient(a)
  /\ LET id == address_map[a] IN
       /\ IsStreamer(id)
       /\ client[id].ssl_state = "Established"
       /\ Touch(id)
       /\ \/ /\ "Nothing" \in FrameOutcomes
             /\ UNCHANGED picture
             /\ RelayToRoom(sessions[id].room_id)
          \/ /\ "Picture" \in FrameOutcomes
             /\ picture' = picture \cup {id}
             /\ RelayToRoom(sessions[id].room_id)
          \/ /\ "Unreadable" \in FrameOutcomes
             /\ UNCHANGED picture
             /\ Panic("index: video payload")
  /\ UNCHANGED <<sessions, username_map, address_map, rooms, client, image_age>>

------------------------------------------------------------------------------
(***************************************************************************)
(* RunPeriodicChecks: first hand the due thumbnails to threads, then remove *)
(* the stale sessions, in one command.                                      *)
(***************************************************************************)
\* Mutants of ThumbnailDue: a thumbnail is saved before there is a picture;
\* only the first picture is saved.
ThumbnailDueUnready(id) ==
  IsStreamer(id) /\ (id \in DOMAIN image_age => image_age[id] > ThumbnailTTL)

ThumbnailDueOnce(id) ==
  IsStreamer(id) /\ id \in picture /\ id \notin DOMAIN image_age

ThumbnailDue(id) ==
  /\ IsStreamer(id)
  /\ id \in picture
  /\ id \in DOMAIN image_age => image_age[id] > ThumbnailTTL

Due == {i \in DOMAIN sessions : ThumbnailDue(i)}

\* Mutants of Stale: a session is stale from its ttl on; only sessions with
\* a client are looked at.
StaleEarly == {i \in DOMAIN sessions : age[i] >= SessionTTL}

StaleClients == {i \in DOMAIN client : age[i] > SessionTTL}

Stale == {i \in DOMAIN sessions : age[i] > SessionTTL}

\* Mutant of Stamped: the thumbnail timestamp is set only once.
StampedOnce(i) == IF i \in DOMAIN image_age THEN image_age[i] ELSE 0

\* The streamer's image_timestamp after the check.
Stamped(i) == IF i \in Due THEN 0 ELSE image_age[i]

RunPeriodicChecks ==
  /\ Running
  /\ remove_sessions(Stale)
  /\ image_age' = [i \in (DOMAIN image_age \cup Due) \ Stale |-> Stamped(i)]
  /\ picture' = picture \ Stale
  /\ spawned' = {sessions[i].room_id : i \in Due}
  /\ relay' = EmptyMap
  /\ UNCHANGED panic

------------------------------------------------------------------------------
Older(n) == IF n < AgeCap THEN n + 1 ELSE n

\* One unit of time passes.
Tick ==
  /\ Running
  /\ age' = [i \in DOMAIN age |-> Older(age[i])]
  /\ image_age' = [i \in DOMAIN image_age |-> Older(image_age[i])]
  /\ UNCHANGED <<sessions, username_map, address_map, rooms, client, picture>>
  /\ Quiet

HandlePacket ==
  \/ UnreadableRequest
  \/ \E u \in Username : LiveCheck(u)
  \/ \E u \in Username : \E a \in Sources[u] : Nomination(u, a)
  \/ \E a \in Address : HandshakePacket(a)
  \/ \E a \in Address : KeylessHandshake(a)
  \/ \E a \in Address : IgnoredPacket(a)
  \/ \E a \in Address : ShutdownPacket(a)
  \/ \E a \in Address : RtpPacket(a)

\* The commands that remote peers cause.
RemoteCommand ==
  \/ AddStreamer
  \/ \E r \in RoomId : AddViewer(r)
  \/ HandlePacket

Next ==
  \/ RemoteCommand
  \/ RunPeriodicChecks
  \/ Tick

Spec == Init /\ [][Next]_vars

\* The timer thread never stops sending RunPeriodicChecks and the main thread
\* never stops taking commands.  Nothing is assumed of the remote peers.
FairSpec == Spec /\ WF_vars(Tick) /\ WF_vars(RunPeriodicChecks)

------------------------------------------------------------------------------
\* Properties.

ThumbnailTypeOK ==
  /\ picture \subseteq {i \in DOMAIN sessions : IsStreamer(i)}
  /\ DOMAIN image_age \subseteq picture
  /\ image_age \in [DOMAIN image_age -> 0..AgeCap]

OutputTypeOK ==
  /\ spawned \subseteq RoomId
  /\ DOMAIN relay \subseteq RoomId
  /\ relay \in [DOMAIN relay -> SUBSET ResourceId]

TypeOK == RegistryTypeOK /\ ThumbnailTypeOK /\ OutputTypeOK

\* The expects of the relay loop hold: it finds the streamer's room and every
\* viewer session the room lists, however joins, nominations, packets, broken
\* handshakes and expiries interleave.  If the main thread ends, it is by a
\* packet whose own bytes a parser or library could not take, never by what
\* earlier commands left in the registry.
LookupsSucceed == panic \notin {"expect: streamer room", "expect: viewer session"}

\* A relayed packet goes to exactly the live viewers of the sender's room
\* whose DTLS handshake is over: none is missed and nobody outside the room,
\* or who left it, receives it.
RelayExact ==
  \A r \in DOMAIN relay :
    relay[r] = {v \in DOMAIN sessions :
                  IsViewer(v) /\ sessions[v].room_id = r /\ IsEstablished(v)}

\* Every session that has a client is the one its client's address leads to,
\* so that the DTLS and media packets of the client reach it.
Reachable ==
  \A i \in DOMAIN client :
    /\ client[i].remote_address \in DOMAIN address_map
    /\ address_map[client[i].remote_address] = i

\* The address of every client leads to some session, so that a datagram is
\* dropped for want of a session only if its sender has no client yet.
ClientsKnown == \A i \in DOMAIN client : FoundByAddress(client[i].remote_address)

\* A step ends sessions, closes rooms and takes viewers off a room only
\* because their own session was silent for longer than the ttl: an expiring
\* peer never takes a live one with it.
OnlyStaleLeave ==
  [][ /\ \A i \in DOMAIN sessions \ DOMAIN sessions' : age[i] > SessionTTL
      /\ \A r \in DOMAIN rooms \ DOMAIN rooms' : age[rooms[r].owner_id] > SessionTTL
      /\ \A r \in DOMAIN rooms \cap DOMAIN rooms' :
           \A v \in rooms[r].viewer_ids \ rooms'[r].viewer_ids : age[v] > SessionTTL
    ]_vars

\* A session keeps the client of its first nomination as long as it lives:
\* later nominations neither move it to another address nor restart its
\* handshake, so that it stays as its handshake ended, established or not.
ClientsPinned ==
  [][ \A i \in DOMAIN client \cap DOMAIN sessions' :
        /\ i \in DOMAIN client'
        /\ client'[i].remote_address = client[i].remote_address
        /\ client[i].ssl_state # "Handshake" => client'[i].ssl_state = client[i].ssl_state
    ]_vars

\* The server implements the lobby of rooms and viewers that its users see:
\* the viewers of a room are those the registry lists, and a viewer is ready
\* once its DTLS handshake is over.
ReadyViewers == {v \in UNION {rooms[r].viewer_ids : r \in DOMAIN rooms} : IsEstablished(v)}

L == INSTANCE Lobby WITH
       members   <- [r \in DOMAIN rooms |-> rooms[r].viewer_ids],
       ready     <- ReadyViewers,
       delivered <- relay

ImplementsLobby == L!LobbySpec

\* A session cannot stay forever without a packet that refreshes its ttl:
\* again and again it has just been refreshed or is gone, as long as the main
\* thread lives.  This includes the sessions that never got a client, the
\* viewers of a closed room and the sessions that replaced another one.
SilentLeave ==
  \A i \in ResourceId : []<>(Running /\ i \in DOMAIN sessions => age[i] = 0)

==============================================================================
