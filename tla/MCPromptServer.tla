---------------------------- MODULE MCPromptServer ---------------------------
\* A small instance of PromptServer: three peers with an address each.
EXTENDS PromptServer, TLC

CONSTANTS u1, u2, u3, a1, a2, a3

AddressOf == u1 :> a1 @@ u2 :> a2 @@ u3 :> a3

OwnSources == [u \in Username |-> {AddressOf[u]}]

\* The peers are exchanged together with their addresses.
Exchange(p) == p @@ [a \in Address |-> AddressOf[p[CHOOSE u \in Username : AddressOf[u] = a]]]

Symmetry == Permutations(ResourceId) \cup Permutations(RoomId)
              \cup {Exchange(p) : p \in Permutations(Username)}

==============================================================================
