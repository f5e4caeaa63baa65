-------------------------------- MODULE Lobby --------------------------------
(***************************************************************************)
(* What the media server promises the people who use it, without sessions, *)
(* addresses, credentials or clocks: streamers open rooms, viewers join     *)
(* them, become ready to receive, and are forwarded what the streamer of    *)
(* their room sends; rooms close and viewers leave.                         *)
(***************************************************************************)
CONSTANTS RoomId, ResourceId

VARIABLES
  members,   \* open rooms, each with the viewers in it
  ready,     \* the viewers of open rooms that can receive media
  delivered  \* the packet delivered by the last step: room -> receivers

lobby_vars == <<members, ready, delivered>>

Nobody == [r \in {} |-> {}]

InRoom == UNION {members[r] : r \in DOMAIN members}

LobbyInit == members = Nobody /\ ready = {} /\ delivered = Nobody

\* A new room is empty.
Open(r) ==
  /\ r \notin DOMAIN members
  /\ members' = [s \in DOMAIN members \cup {r} |-> IF s = r THEN {} ELSE members[s]]
  /\ delivered' = Nobody
  /\ UNCHANGED ready

\* A viewer joins one open room, is in no other, and has to become ready.
Join(r, v) ==
  /\ r \in DOMAIN members
  /\ v \notin InRoom
  /\ members' = [members EXCEPT ![r] = @ \cup {v}]
  /\ delivered' = Nobody
  /\ UNCHANGED ready

BecomeReady(v) ==
  /\ v \in InRoom
  /\ ready' = ready \cup {v}
  /\ delivered' = Nobody
  /\ UNCHANGED members

\* A packet goes to every viewer of the room that is ready, and to no other.
Deliver(r) ==
  /\ r \in DOMAIN members
  /\ delivered' = [s \in {r} |-> members[r] \cap ready]
  /\ UNCHANGED <<members, ready>>

\* Rooms R close and viewers V leave.  Everybody else stays as they are.
Depart(R, V) ==
  /\ members' = [r \in DOMAIN members \ R |-> members[r] \ V]
  /\ ready' = ready \cap UNION {members[r] \ V : r \in DOMAIN members \ R}
  /\ delivered' = Nobody

Idle == delivered' = Nobody /\ UNCHANGED <<members, ready>>

LobbyNext ==
  \/ \E r \in RoomId : Open(r)
  \/ \E r \in RoomId, v \in ResourceId : Join(r, v)
  \/ \E v \in ResourceId : BecomeReady(v)
  \/ \E r \in RoomId : Deliver(r)
  \/ \E R \in SUBSET RoomId, V \in SUBSET ResourceId : Depart(R, V)
  \/ Idle

LobbySpec == LobbyInit /\ [][LobbyNext]_lobby_vars

==============================================================================
