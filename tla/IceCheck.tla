------------------------------- MODULE IceCheck -------------------------------
(***************************************************************************)
(* ICE connectivity checks: the STUN messages between the agents of remote  *)
(* peers and the server (stun.rs, handle_stun_packet in server.rs), over a  *)
(* network that loses, delays and reorders datagrams.                       *)
(*                                                                          *)
(* The agents are external.  They do what the server relies on: check each  *)
(* address they can send from, learn from the responses how the server sees *)
(* it, nominate one, and repeat a message until it is answered.             *)
(*                                                                          *)
(* A request that cannot be read, or whose response does not fit the        *)
(* buffers, ends the main thread: the datagram is kept in `fatal' and the   *)
(* server takes no other.                                                   *)
(***************************************************************************)
EXTENDS StunLayout

CONSTANTS
  Agent,         \* remote peers, each with a session
  NameLengths,   \* lengths their user names may have
  Addresses,     \* [Agent -> sets of addresses, [family, port, octets]]
  TransactionId(_),  \* transaction ids of the agents' messages
  OtherTraffic,  \* datagrams that are no messages of these agents
  None           \* Option::None

VARIABLES
  remote_length,   \* [Agent -> length of the agent's own user name]
  inbound,         \* datagrams on their way to the server
  outbound,        \* responses on their way to an agent
  client,          \* [Agent -> address of the session's client or None]
  other,           \* what this step gave to handle_other_packets, or None
  fatal,           \* the datagram that ended the main thread, or None
  learned,         \* [Agent -> its addresses, and how the server sees them]
  chosen,          \* [Agent -> the address it nominates or None]
  selected         \* [Agent -> the nomination was answered]

ice_vars ==
  <<remote_length, inbound, outbound, client, other, fatal, learned, chosen, selected>>

HostNameLen == 4       \* get_ice_credentials: get_random_string(4)
ReceiveBuffer == 3600  \* start_udp_server: buffer

\* "host:remote"
Username(length) == HostNameLen + 1 + length
UsernameLength(agent) == Username(remote_length[agent])

BindingRequest == 1
STUN_COOKIE == <<33, 18, 164, 66>>

------------------------------------------------------------------------------
\* Agents.

\* A name of the attribute's value, and the null characters after it.
Name(owner, nulls) == [owner |-> owner, nulls |-> nulls]

UsernameAttribute(agent, length) ==
  LET padded == pad_to_4bytes(Username(length)) IN
  [type |-> "Username", room |-> padded, host |-> Name(agent, 0),
   remote |-> Name(agent, padded - Username(length))]

Plain(type, room) == [type |-> type, room |-> room]

RequestAttributes(agent, length, nominates) ==
  <<UsernameAttribute(agent, length), Plain("IceControlling", 8), Plain("Priority", 4)>>
    \o (IF nominates THEN <<Plain("UseCandidate", 0)>> ELSE <<>>)
    \o <<Plain("MessageIntegrity", STUN_MESSAGE_INTEGRITY_LEN), Plain("Fingerprint", 4)>>

\* The messages of the agents.  A message and its repetitions have one
\* transaction id, and no other message has it.
Check == UNION {{[agent |-> agent, source |-> source, nominates |-> nominates] :
                   source \in Addresses[agent], nominates \in BOOLEAN} : agent \in Agent}

Requests == [check \in Check |-> [length \in NameLengths |->
  LET attributes == RequestAttributes(check.agent, length, check.nominates) IN
  [type |-> BindingRequest, cookie |-> STUN_COOKIE, length |-> SizeOf(attributes),
   size |-> STUN_HEADER_LEN + SizeOf(attributes), attributes |-> attributes,
   transaction_id |-> TransactionId(check), source |-> check.source]]]

Request(check) == Requests[check][remote_length[check.agent]]

Works(agent, source) == \E l \in learned[agent] : l.source = source

\* One of the addresses that work is nominated, and stays the one.
Wanted(check) ==
  IF check.nominates
    THEN /\ Works(check.agent, check.source)
         /\ chosen[check.agent] \in {None, check.source}
         /\ ~ selected[check.agent]
    ELSE ~ Works(check.agent, check.source)

SendCheck(check) ==
  /\ Wanted(check)
  /\ chosen' = IF check.nominates THEN [chosen EXCEPT ![check.agent] = check.source] ELSE chosen
  /\ inbound' = inbound \cup {Request(check)}
  /\ other' = None
  /\ UNCHANGED <<remote_length, outbound, client, fatal, learned, selected>>

\* Bound: one at a time.
SendOther(datagram) ==
  /\ inbound \cap OtherTraffic = {}
  /\ inbound' = inbound \cup {datagram}
  /\ other' = None
  /\ UNCHANGED <<remote_length, outbound, client, fatal, learned, chosen, selected>>

------------------------------------------------------------------------------
\* The server's parser.

\* Mutant of parse_attribute: the null characters stay.
parse_attribute_padded(attribute) ==
  IF attribute.type = "Username"
    THEN [type |-> "Username", host |-> attribute.host, remote |-> attribute.remote]
    ELSE IF attribute.type \in {"MessageIntegrity", "IceControlling", "UseCandidate"}
      THEN [type |-> attribute.type] ELSE [type |-> "Unknown"]

\* An attribute's value is read with its padding; the names are then trimmed.
parse_attribute(attribute) ==
  IF attribute.type = "Username"
    THEN [type |-> "Username", host |-> Name(attribute.host.owner, 0),
          remote |-> Name(attribute.remote.owner, 0)]
    ELSE IF attribute.type \in {"MessageIntegrity", "IceControlling", "UseCandidate"}
      THEN [type |-> attribute.type] ELSE [type |-> "Unknown"]

IsStunRequest(packet) ==
  /\ packet.size >= STUN_HEADER_LEN
  /\ packet.type = BindingRequest
  /\ packet.length % 4 = 0
  /\ STUN_HEADER_LEN + packet.length <= packet.size
  /\ packet.cookie = STUN_COOKIE

\* What parse_stun_packet unwraps: the datagram holds every attribute that it
\* starts, a user name is text with a colon (there are no names otherwise) and
\* an integrity value has its twenty bytes.
IsReadable(packet) ==
  /\ STUN_HEADER_LEN + SizeOf(packet.attributes) <= packet.size
  /\ \A i \in DOMAIN packet.attributes :
       LET attribute == packet.attributes[i] IN
       /\ attribute.type = "Username" => attribute.host # None
       /\ attribute.type = "MessageIntegrity" => attribute.room >= STUN_MESSAGE_INTEGRITY_LEN

parse_stun_packet(packet) ==
  [i \in DOMAIN packet.attributes |-> parse_attribute(packet.attributes[i])]

Has(attributes, type) == \E i \in DOMAIN attributes : attributes[i].type = type

Find(attributes, type) ==
  attributes[CHOOSE i \in DOMAIN attributes :
    attributes[i].type = type /\ \A j \in 1..(i - 1) : attributes[j].type # type]

\* Some, and then a LiveCheck or a Nomination, if there is integrity and a user
\* name.
IsIceMessage(attributes) == Has(attributes, "MessageIntegrity") /\ Has(attributes, "Username")

parse_binding_request(attributes) ==
  [nominates |-> Has(attributes, "UseCandidate"), username |-> Find(attributes, "Username")]

get_stun_packet(packet) == parse_binding_request(parse_stun_packet(packet))

------------------------------------------------------------------------------
\* The server's response.

\* Exclusive or of two bytes, half by half from a table.
XorTable == [x \in 0..15 |-> [y \in 0..15 |->
  LET Bit(k) == (x \div k + y \div k) % 2 IN Bit(1) + 2 * Bit(2) + 4 * Bit(4) + 8 * Bit(8)]]

ByteXor(x, y) == 16 * XorTable[x \div 16][y \div 16] + XorTable[x % 16][y % 16]

xor_range(target, xor) == [i \in DOMAIN target |-> ByteXor(target[i], xor[i])]

\* Mutant of Mask: the transaction id comes first.
MaskSwapped(family, transaction_id) ==
  IF family = 4 THEN STUN_COOKIE ELSE transaction_id \o STUN_COOKIE

Mask(family, transaction_id) ==
  IF family = 4 THEN STUN_COOKIE ELSE STUN_COOKIE \o transaction_id

\* compute_xor_mapped_address
Masked(address, transaction_id) ==
  [family |-> address.family,
   port   |-> xor_range(address.port, SubSeq(STUN_COOKIE, 1, 2)),
   octets |-> xor_range(address.octets, Mask(address.family, transaction_id))]

create_stun_success(agent, transaction_id, remote) ==
  [agent |-> agent, to |-> remote, transaction_id |-> transaction_id,
   length     |-> HeaderLength(UsernameLength(agent), remote.family),
   attributes |-> ResponseAttributes(UsernameLength(agent), remote.family),
   xor_mapped |-> Masked(remote, transaction_id)]

\* Mutant of SessionOf: the remote name is enough.
SessionOfRemote(username) ==
  IF username.remote.owner \in Agent /\ username.remote.nulls = 0
    THEN username.remote.owner ELSE None

\* get_session_by_username_mut: the host and the remote name, of one session.
SessionOf(username) ==
  IF username.host = username.remote /\ username.host \in {Name(agent, 0) : agent \in Agent}
    THEN username.host.owner ELSE None

Received(packet) ==
  /\ packet \in inbound
  /\ inbound' = inbound \ {packet}

\* Mutant of Nominated: any check elects the client.
NominatedByAny(agent, packet, message) ==
  client' = IF client[agent] = None THEN [client EXCEPT ![agent] = packet.source] ELSE client

\* nominate_client, if the session has no client yet.
Nominated(agent, packet, message) ==
  client' = IF message.nominates /\ client[agent] = None
              THEN [client EXCEPT ![agent] = packet.source] ELSE client

\* The response is put together last; its expect fails if it does not fit.
handle_stun_packet(packet, message) ==
  LET agent == SessionOf(message.username) IN
  \/ /\ agent = None
     /\ UNCHANGED <<client, outbound, fatal>>
  \/ /\ agent # None
     /\ Nominated(agent, packet, message)
     /\ Fits(UsernameLength(agent), packet.source.family)
     /\ outbound' = outbound \cup
          {create_stun_success(agent, packet.transaction_id, packet.source)}
     /\ UNCHANGED fatal
  \/ /\ agent # None
     /\ Nominated(agent, packet, message)
     /\ ~ Fits(UsernameLength(agent), packet.source.family)
     /\ fatal' = packet
     /\ UNCHANGED outbound

process_packet(packet) ==
  /\ fatal = None
  /\ Received(packet)
  /\ \/ /\ IsStunRequest(packet) /\ ~ IsReadable(packet)
        /\ fatal' = packet
        /\ other' = None
        /\ UNCHANGED <<client, outbound>>
     \/ /\ IsStunRequest(packet) /\ IsReadable(packet)
        /\ IsIceMessage(parse_stun_packet(packet))
        /\ handle_stun_packet(packet, get_stun_packet(packet))
        /\ other' = None
     \/ /\ IsStunRequest(packet) =>
             IsReadable(packet) /\ ~ IsIceMessage(parse_stun_packet(packet))
        /\ other' = packet
        /\ UNCHANGED <<client, outbound, fatal>>
  /\ UNCHANGED <<remote_length, learned, chosen, selected>>

------------------------------------------------------------------------------
\* The network and the agents again.

LoseRequest ==
  /\ inbound # {}
  /\ \E packet \in inbound : inbound' = inbound \ {packet}
  /\ other' = None
  /\ UNCHANGED <<remote_length, outbound, client, fatal, learned, chosen, selected>>

LoseResponse ==
  /\ outbound # {}
  /\ \E response \in outbound : outbound' = outbound \ {response}
  /\ other' = None
  /\ UNCHANGED <<remote_length, inbound, client, fatal, learned, chosen, selected>>

\* An agent can use a response if, going by the stated lengths, it comes to the
\* masked address and to what authenticates the response.
UsableTable == [length \in NameLengths |-> [family \in {4, 6} |->
  {"XORMappedAddress", "MessageIntegrity"}
    \subseteq Reached(ResponseAttributes(Username(length), family))]]

Usable(response) == UsableTable[remote_length[response.agent]][response.to.family]

\* The agent undoes the mask with the transaction id of its own message.
Unmasked(check, masked) ==
  [family |-> masked.family,
   port   |-> xor_range(masked.port, STUN_COOKIE),
   octets |-> xor_range(masked.octets, STUN_COOKIE \o TransactionId(check))]

ReceiveResponse(check) ==
  \E response \in outbound :
    /\ response.to = check.source
    /\ response.transaction_id = TransactionId(check)
    /\ outbound' = outbound \ {response}
    /\ IF Usable(response)
         THEN /\ learned' = [learned EXCEPT ![check.agent] = @ \cup
                   {[source |-> check.source,
                     mapped |-> Unmasked(check, response.xor_mapped)]}]
              /\ selected' = [selected EXCEPT ![check.agent] = @ \/ check.nominates]
         ELSE UNCHANGED <<learned, selected>>
    /\ other' = None
    /\ UNCHANGED <<remote_length, inbound, client, fatal, chosen>>

------------------------------------------------------------------------------
Byte == 0..255

Address ==
  [family : {4}, port : [1..2 -> Byte], octets : [1..4 -> Byte]]
    \cup [family : {6}, port : [1..2 -> Byte], octets : [1..16 -> Byte]]

\* A user name that is there and can be read names a session that these agents
\* do not have.
Foreign(attributes) ==
  /\ Len(attributes) \in Nat /\ DOMAIN attributes = 1..Len(attributes)
  /\ \A i \in DOMAIN attributes :
       attributes[i].type = "Username" /\ attributes[i].host # None
         => attributes[i].host.owner \notin Agent

\* The socket receives requests whole (theirs have 80 bytes besides the padded
\* user name) and transaction ids are unique.
ASSUME IceAssumption ==
  /\ None \notin Agent /\ \A agent \in Agent : Name(agent, 0) # None
  /\ \A length \in NameLengths : length \in Nat /\ Username(length) <= ReceiveBuffer - 80
  /\ \A agent \in Agent : Addresses[agent] \subseteq Address /\ None \notin Addresses[agent]
  /\ \A check \in Check : TransactionId(check) \in [1..12 -> Byte]
  /\ \A c, d \in Check : TransactionId(c) = TransactionId(d) => c = d
  /\ \A datagram \in OtherTraffic : Foreign(datagram.attributes)

IceInit ==
  /\ remote_length \in [Agent -> NameLengths]
  /\ inbound = {} /\ outbound = {} /\ other = None /\ fatal = None
  /\ client = [agent \in Agent |-> None]
  /\ learned = [agent \in Agent |-> {}]
  /\ chosen = [agent \in Agent |-> None]
  /\ selected = [agent \in Agent |-> FALSE]

IceNext ==
  \/ \E check \in Check : SendCheck(check) \/ ReceiveResponse(check)
  \/ \E datagram \in OtherTraffic : SendOther(datagram)
  \/ \E packet \in inbound : process_packet(packet)
  \/ LoseRequest
  \/ LoseResponse

\* Agents repeat their messages, and one that is repeated for ever is delivered
\* in the end, to the server and back.
IceFairness ==
  \A check \in Check :
    /\ WF_ice_vars(SendCheck(check))
    /\ SF_ice_vars(process_packet(Request(check)))
    /\ SF_ice_vars(ReceiveResponse(check))

IceSpec == IceInit /\ [][IceNext]_ice_vars

IceFairSpec == IceSpec /\ IceFairness

------------------------------------------------------------------------------
\* Properties.

\* An agent learns how the server really sees the address it asked from: what it
\* unmasks with its own transaction id is the source address that
\* compute_xor_mapped_address masked, of either family.
AddressLearned ==
  \A agent \in Agent : \A l \in learned[agent] : l.mapped = l.source

\* Both ends agree on the pair: when an agent has its nomination answered, the
\* session's client has the address that the agent nominated, whatever checks
\* from other addresses came before or later.
PairAgreed ==
  \A agent \in Agent : selected[agent] => client[agent] = chosen[agent]

\* What else arrives at the socket is left alone if it can be read: DTLS, media
\* and other STUN messages go to handle_other_packets and no check of an agent
\* does, nothing but a check is answered, and a client is elected by its own
\* agent's nomination only, never by a late message of a session the peer had
\* before.  The unwraps of parse_stun_packet fail for none of the agents'
\* messages, padded as they are: what ends the main thread is a request from
\* elsewhere that cannot be read, or a check whose response does not fit.
OthersIgnored ==
  /\ other # None => other \in OtherTraffic
  /\ \A response \in outbound : \E check \in Check :
       /\ check.agent = response.agent /\ check.source = response.to
       /\ TransactionId(check) = response.transaction_id
  /\ \A agent \in Agent : client[agent] # None => client[agent] = chosen[agent]
  /\ fatal # None =>
       \/ fatal \in OtherTraffic /\ IsStunRequest(fatal) /\ ~ IsReadable(fatal)
       \/ \E check \in Check :
            /\ fatal = Request(check)
            /\ ~ Fits(UsernameLength(check.agent), check.source.family)

\* The remote names that the server can answer: those that need no padding,
\* since they are not written, and of the others those of up to 111 characters,
\* or 91 if the address is an IPv6 address.
Answerable(length, family) ==
  \/ Username(length) % 4 = 0
  \/ length <= IF family = 4 THEN 111 ELSE 91

\* The main thread survives the check of an agent if and only if its name can be
\* answered: the buffers of handle_stun_packet and create_stun_success hold the
\* response to these and to no others.  A response is as long as its header
\* states, and is of use to an agent just when the user name is one that needs
\* padding: any other is not written by write_username_attribute although its
\* length is, so that a reader takes the masked address for part of the name.
UsableWhenPadded ==
  /\ \A response \in outbound :
       /\ Answerable(remote_length[response.agent], response.to.family)
       /\ response.length = SizeOf(response.attributes)
       /\ Usable(response) <=> UsernameLength(response.agent) % 4 # 0
  /\ \A check \in Check : fatal # None /\ fatal = Request(check) =>
       ~ Answerable(remote_length[check.agent], check.source.family)

\* The names that the server finds sessions by are trimmed of their padding, so
\* every agent that can be answered at all its addresses, and can use the
\* responses, gets a pair in the end, although messages are lost and repeated,
\* unless another peer's datagram ends the main thread.
ChecksSucceed ==
  \A agent \in Agent :
    /\ UsernameLength(agent) % 4 # 0
    /\ \A source \in Addresses[agent] : Answerable(remote_length[agent], source.family)
    ~> selected[agent] \/ fatal # None

==============================================================================
