------------------------------ MODULE MCIceCheck ------------------------------
\* One agent with an IPv4 and an IPv6 address, and the other traffic of a media
\* server's port.
EXTENDS IceCheck

CONSTANTS a1, old

V4(port, octet) == [family |-> 4, port |-> <<200, port>>, octets |-> <<192, 168, 0, octet>>]
V6(port, octet) ==
  [family |-> 6, port |-> <<200, port>>,
   octets |-> [i \in 1..16 |-> IF i = 16 THEN octet ELSE 16 * (i % 4)]]

MCAddresses == [agent \in Agent |-> {V4(1, 7), V6(2, 255)}]

MCTransactionId(check) ==
  [i \in 1..12 |-> (check.source.port[2] + i + IF check.nominates THEN 128 ELSE 0) % 256]

Datagram(type, cookie, attributes) ==
  [type |-> type, cookie |-> cookie, length |-> SizeOf(attributes),
   size |-> STUN_HEADER_LEN + SizeOf(attributes), attributes |-> attributes,
   transaction_id |-> [i \in 1..12 |-> 0], source |-> V4(1, 7)]

\* A nomination for the session that the agent had before.
Late ==
  <<[type |-> "Username", room |-> 12, host |-> Name(old, 0), remote |-> Name(a1, 3)],
    Plain("UseCandidate", 0), Plain("MessageIntegrity", STUN_MESSAGE_INTEGRITY_LEN)>>

\* With the first bytes of DTLS, a request without a user name, and one that
\* cannot be read.
MCOtherTraffic ==
  {Datagram(22 * 256 + 254, <<253, 0, 0, 0>>, <<>>),
   Datagram(BindingRequest, STUN_COOKIE, <<Plain("Fingerprint", 4)>>),
   Datagram(BindingRequest, STUN_COOKIE, <<Plain("MessageIntegrity", 4)>>),
   Datagram(BindingRequest, STUN_COOKIE, Late)}

==============================================================================
