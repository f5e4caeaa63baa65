---------------------------- MODULE RemovalOrder -----------------------------
(***************************************************************************)
(* SessionRegistry::remove_session one call at a time, as a function on     *)
(* the value of the registry.  RunPeriodicChecks calls it for the stale     *)
(* sessions in the order the HashMap yields them; MediaServer removes them  *)
(* at once.  The two agree for every order.                                 *)
(***************************************************************************)
EXTENDS MediaServer, FiniteSets

\* Mutant of remove_viewer: a viewer of a closed room reopens it.
remove_viewer_reopening(reg, id) ==
  LET r == reg.sessions[id].room_id IN
  IF r \in DOMAIN reg.rooms
    THEN [reg.rooms EXCEPT ![r].viewer_ids = @ \ {id}]
    ELSE Insert(reg.rooms, r, [owner_id |-> id, viewer_ids |-> {}])

\* The viewer is taken off its room, unless the room is already gone.
remove_viewer(reg, id) ==
  LET r == reg.sessions[id].room_id IN
  IF r \in DOMAIN reg.rooms
    THEN [reg.rooms EXCEPT ![r].viewer_ids = @ \ {id}]
    ELSE reg.rooms

remove_room(reg, id) == Without(reg.rooms, {reg.sessions[id].room_id})

forget_address(reg, id) ==
  IF id \in DOMAIN reg.client
    THEN Without(reg.address_map, {reg.client[id].remote_address})
    ELSE reg.address_map

forget_username(reg, id) == Without(reg.username_map, {reg.sessions[id].username})

remove_session(reg, id) ==
  [sessions     |-> Without(reg.sessions, {id}),
   username_map |-> forget_username(reg, id),
   address_map  |-> forget_address(reg, id),
   rooms        |-> IF reg.sessions[id].connection_type = "Viewer"
                      THEN remove_viewer(reg, id) ELSE remove_room(reg, id),
   client       |-> Without(reg.client, {id})]

------------------------------------------------------------------------------
Registry == [sessions     |-> sessions,
             username_map |-> username_map,
             address_map  |-> address_map,
             rooms        |-> rooms,
             client       |-> client]

\* The orders in which a set of sessions can be listed.
Orders(S) ==
  {order \in [1..Cardinality(S) -> S] :
     /\ \A i, j \in 1..Cardinality(S) : order[i] = order[j] => i = j
     /\ \A id \in S : \E i \in 1..Cardinality(S) : order[i] = id}

\* The registry after each call of remove_session, from reg on, in an order.
OneByOne(reg, n, order) ==
  LET after[i \in 0..n] == IF i = 0 THEN reg ELSE remove_session(after[i - 1], order[i])
  IN after

\* Whatever the order in which the stale sessions are removed one by one, the
\* registry ends up as after the single removal of RunPeriodicChecks: also
\* when a streamer goes before or after its viewers and when two of the
\* sessions were nominated from the same address.
RemovalsCommute ==
  [][RunPeriodicChecks =>
       \A order \in Orders(Stale) :
         LET n == Cardinality(Stale) IN OneByOne(Registry, n, order)[n] = Registry']_vars

==============================================================================
