---------------------------- MODULE MCMediaServer ----------------------------
\* Small instances of MediaServer, with the removals of RemovalOrder.
EXTENDS RemovalOrder, TLC

\* Every peer may send from every address: the peers share a NAT that reuses
\* its ports, or one host runs several sessions one after the other.
SharedSources == [u \in Username |-> Address]

Symmetry == Permutations(ResourceId) \cup Permutations(RoomId)

FullSymmetry == Symmetry \cup Permutations(Username) \cup Permutations(Address)

==============================================================================
