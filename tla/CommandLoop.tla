----------------------------- MODULE CommandLoop -----------------------------
(***************************************************************************)
(* The threads of the server and the channel between them: HTTP workers,    *)
(* the UDP thread and the timer thread send commands to the main thread,    *)
(* which takes them in order and answers HTTP workers over reply channels   *)
(* they made for it.  What a worker does with its request is HttpRoutes.    *)
(*                                                                          *)
(* The registry is reduced to the open rooms, each named after the request  *)
(* that created its streamer; what commands do to it is MediaServer.tla.    *)
(***************************************************************************)
EXTENDS Naturals, Sequences, FiniteSets, HttpRoutes

CONSTANTS
  Connection,    \* HTTP connections, one request each
  Traffic,       \* the requests they may send, as functions from connections
  Workers,       \* size of the thread pool: ThreadPool::new(60)
  ChannelBound   \* commands in flight beyond which UDP and timer hold back

Request ==
  [method : STRING, path : STRING, complete : BOOLEAN, well_formed : BOOLEAN,
   authorization : {None, Bearer, "other"}, target_id : Connection \cup {None, "text"},
   image : STRING \cup {None}, body : {None, "text", "cut", "binary", "huge"}]

Response == [status : {200, 201, 204, 401, 404, 405, 500}, error : HttpError \cup {None}]

ASSUME LoopAssumption ==
  /\ Traffic \subseteq [Connection -> Request]
  /\ None \notin HttpError \cup {"AddStreamer", "AddViewer", "SendRoomsStatus"} \cup Response
  /\ Workers \in Nat \ {0}
  /\ ChannelBound \in Nat \ {0}

VARIABLES
  request,   \* what each connection sends
  stage,     \* where each connection is
  backlog,   \* jobs handed to the pool and not started
  channel,   \* the ServerCommand channel
  reply,     \* the reply channel of each connection
  response,  \* what each connection was answered, or None
  rooms,     \* open rooms
  admitted,  \* history: connections whose streamer or viewer was registered
  known      \* history: streamers answered before a rooms request was sent

loop_vars == <<request, stage, backlog, channel, reply, response, rooms, admitted, known>>

Stage == {"idle", "queued", "parsing", "greeting", "awaiting", "sleeping", "done"}

Packet == [type |-> "HandlePacket"]
Checks == [type |-> "RunPeriodicChecks"]
AddStreamer(q) == [type |-> "AddStreamer", from |-> q]
AddViewer(q) == [type |-> "AddViewer", from |-> q]
SendRoomsStatus(q) == [type |-> "SendRoomsStatus", from |-> q]

\* The connections a worker is busy with.
Busy == {q \in Connection :
           stage[q] \in {"parsing", "greeting", "awaiting", "sleeping"}}

LoopInit ==
  /\ request \in Traffic
  /\ stage = [q \in Connection |-> "idle"]
  /\ backlog = <<>>
  /\ channel = <<>>
  /\ reply = [q \in Connection |-> <<>>]
  /\ response = [q \in Connection |-> None]
  /\ rooms = {}
  /\ admitted = {}
  /\ known = [q \in Connection |-> {}]

Goto(q, next) == stage' = [stage EXCEPT ![q] = next]

Respond(q, message) == response' = [response EXCEPT ![q] = message]

\* The request succeeded, as far as its client can tell.
Succeeded(q) == response[q] # None /\ response[q].status \in {200, 201}

Streaming == {q \in Connection : request[q].path = "/whip" /\ Succeeded(q)}

Listens(q) == request[q].path = "/notifications"

------------------------------------------------------------------------------
\* HTTP threads.

\* listener.incoming() and pool.execute: the queue of the pool has no bound.
Connect(q) ==
  /\ stage[q] = "idle"
  /\ Goto(q, "queued")
  /\ backlog' = Append(backlog, q)
  /\ UNCHANGED <<request, channel, reply, response, rooms, admitted, known>>

StartJob ==
  /\ backlog # <<>>
  /\ Cardinality(Busy) < Workers
  /\ Goto(Head(backlog), "parsing")
  /\ backlog' = Tail(backlog)
  /\ UNCHANGED <<request, channel, reply, response, rooms, admitted, known>>

\* parse_http has read the request, unless the client stalls.
Received(q) == stage[q] = "parsing" /\ request[q].complete

\* What does not parse is not answered: the connection is closed.
Drop(q) ==
  /\ Received(q)
  /\ ~ Parses(request[q])
  /\ Goto(q, "done")
  /\ UNCHANGED <<request, backlog, channel, reply, response, rooms, admitted, known>>

\* The route answers without the main thread: an error, a preflight request or
\* an image.
AnswerAlone(q) ==
  /\ Received(q)
  /\ Parses(request[q])
  /\ CommandOf(request[q]) = None
  /\ \E message \in Alone(request[q]) : Respond(q, message)
  /\ Goto(q, "done")
  /\ UNCHANGED <<request, backlog, channel, reply, rooms, admitted, known>>

SubmitOffer(q) ==
  /\ Received(q)
  /\ Parses(request[q])
  /\ CommandOf(request[q]) \in {"AddStreamer", "AddViewer"}
  /\ channel' = Append(channel, [type |-> CommandOf(request[q]), from |-> q])
  /\ Goto(q, "awaiting")
  /\ UNCHANGED <<request, backlog, reply, response, rooms, admitted, known>>

RequestStatus(q) ==
  /\ channel' = Append(channel, SendRoomsStatus(q))
  /\ known' = [known EXCEPT ![q] = Streaming]

AskRooms(q) ==
  /\ Received(q)
  /\ Parses(request[q])
  /\ CommandOf(request[q]) = "SendRoomsStatus"
  /\ RequestStatus(q)
  /\ Goto(q, IF Listens(q) THEN "greeting" ELSE "awaiting")
  /\ UNCHANGED <<request, backlog, reply, response, rooms, admitted>>

\* notification_route writes the response header after its first command; if
\* the pipe is broken it returns and drops the reply channel.
Greet(q) ==
  /\ stage[q] = "greeting"
  /\ Respond(q, build(200))
  /\ \E next \in {"awaiting", "done"} : Goto(q, next)
  /\ UNCHANGED <<request, backlog, channel, reply, rooms, admitted, known>>

\* Mutants of ReceiveAnswer: the worker does not wait for the answer; a
\* rejected offer is answered like an accepted one.
ReceiveAnswerEarly(q) ==
  /\ stage[q] = "awaiting"
  /\ ~ Listens(q)
  /\ Respond(q, Answered(request[q], reply[q] # <<>> /\ Head(reply[q]).ok))
  /\ reply' = [reply EXCEPT ![q] = <<>>]
  /\ Goto(q, "done")
  /\ UNCHANGED <<request, backlog, channel, rooms, admitted, known>>

ReceiveAnswerAny(q) ==
  /\ stage[q] = "awaiting"
  /\ ~ Listens(q)
  /\ reply[q] # <<>>
  /\ Respond(q, Answered(request[q], TRUE))
  /\ reply' = [reply EXCEPT ![q] = Tail(@)]
  /\ Goto(q, "done")
  /\ UNCHANGED <<request, backlog, channel, rooms, admitted, known>>

\* The worker answers and ends.  If the connection is gone the write fails,
\* and at worst the worker panics and the pool replaces it.
ReceiveAnswer(q) ==
  /\ stage[q] = "awaiting"
  /\ ~ Listens(q)
  /\ reply[q] # <<>>
  /\ Respond(q, Answered(request[q], Head(reply[q]).ok))
  /\ reply' = [reply EXCEPT ![q] = Tail(@)]
  /\ Goto(q, "done")
  /\ UNCHANGED <<request, backlog, channel, rooms, admitted, known>>

\* The event is written and the worker sleeps, or the pipe is broken.
Notify(q) ==
  /\ stage[q] = "awaiting"
  /\ Listens(q)
  /\ reply[q] # <<>>
  /\ reply' = [reply EXCEPT ![q] = Tail(@)]
  /\ \E next \in {"sleeping", "done"} : Goto(q, next)
  /\ UNCHANGED <<request, backlog, channel, response, rooms, admitted, known>>

\* Mutant of Wake: the worker does not wait for one answer before it asks
\* for the next.
WakeTwice(q) ==
  /\ stage[q] \in {"sleeping", "awaiting"}
  /\ Listens(q)
  /\ Len(channel) < ChannelBound
  /\ RequestStatus(q)
  /\ Goto(q, "awaiting")
  /\ UNCHANGED <<request, backlog, reply, response, rooms, admitted>>

Wake(q) ==
  /\ stage[q] = "sleeping"
  /\ RequestStatus(q)
  /\ Goto(q, "awaiting")
  /\ UNCHANGED <<request, backlog, reply, response, rooms, admitted>>

Worker(q) == Drop(q) \/ AnswerAlone(q) \/ SubmitOffer(q) \/ AskRooms(q) \/ Greet(q)
               \/ ReceiveAnswer(q) \/ Notify(q) \/ Wake(q)

------------------------------------------------------------------------------
\* The UDP and the timer thread send without waiting for anything.

SendCommand(c) ==
  /\ Len(channel) < ChannelBound
  /\ channel' = Append(channel, c)
  /\ UNCHANGED <<request, stage, backlog, reply, response, rooms, admitted, known>>

start_udp_server == SendCommand(Packet)

start_timeout_interval == SendCommand(Checks)

------------------------------------------------------------------------------
\* The main thread.

\* Mutant of Open: an answer that comes before the header is written is lost.
OpenLate(q) == stage[q] \in {"awaiting", "sleeping"}

\* A reply channel is open as long as the worker that made it uses it.
Open(q) == stage[q] \in {"greeting", "awaiting", "sleeping"}

Reply(q, message) == reply' = [reply EXCEPT ![q] = Append(@, message)]

Take(c) == channel # <<>> /\ Head(channel) = c /\ channel' = Tail(channel)

\* None: the SDP resolver rejects the offer, or there is no such room.
Reject(q) == Reply(q, [ok |-> FALSE]) /\ UNCHANGED <<rooms, admitted>>

\* Mutants of HandleAddStreamer: a rejected offer is not answered; the
\* streamer is not registered.
HandleAddStreamerUnanswered(q) ==
  /\ Take(AddStreamer(q))
  /\ Open(q)
  /\ \/ /\ rooms' = rooms \cup {q}
        /\ admitted' = admitted \cup {q}
        /\ Reply(q, [ok |-> TRUE])
     \/ UNCHANGED <<rooms, admitted, reply>>
  /\ UNCHANGED <<request, stage, backlog, response, known>>

HandleAddStreamerForgotten(q) ==
  /\ Take(AddStreamer(q))
  /\ Open(q)
  /\ Reply(q, [ok |-> TRUE])
  /\ UNCHANGED <<request, stage, backlog, response, rooms, admitted, known>>

\* The answer is sent to a channel the main thread expects to be open.
HandleAddStreamer(q) ==
  /\ Take(AddStreamer(q))
  /\ Open(q)
  /\ \/ /\ rooms' = rooms \cup {q}
        /\ admitted' = admitted \cup {q}
        /\ Reply(q, [ok |-> TRUE])
     \/ Reject(q)
  /\ UNCHANGED <<request, stage, backlog, response, known>>

HandleAddViewer(q) ==
  /\ Take(AddViewer(q))
  /\ Open(q)
  /\ \/ /\ request[q].target_id \in rooms
        /\ admitted' = admitted \cup {q}
        /\ Reply(q, [ok |-> TRUE])
        /\ UNCHANGED rooms
     \/ Reject(q)
  /\ UNCHANGED <<request, stage, backlog, response, known>>

\* The result of this send is ignored.
HandleSendRoomsStatus(q) ==
  /\ Take(SendRoomsStatus(q))
  /\ IF Open(q) THEN Reply(q, [ok |-> TRUE, rooms |-> rooms])
                ELSE UNCHANGED reply
  /\ UNCHANGED <<request, stage, backlog, response, rooms, admitted, known>>

HandlePacket ==
  /\ Take(Packet)
  /\ UNCHANGED <<request, stage, backlog, reply, response, rooms, admitted, known>>

\* The streamers whose sessions are stale take their rooms with them.
RunPeriodicChecks ==
  /\ Take(Checks)
  /\ \E stale \in SUBSET rooms : rooms' = rooms \ stale
  /\ UNCHANGED <<request, stage, backlog, reply, response, admitted, known>>

MainStep ==
  \/ \E q \in Connection : HandleAddStreamer(q)
  \/ \E q \in Connection : HandleAddViewer(q)
  \/ \E q \in Connection : HandleSendRoomsStatus(q)
  \/ HandlePacket
  \/ RunPeriodicChecks

LoopNext ==
  \/ \E q \in Connection : Connect(q)
  \/ StartJob
  \/ \E q \in Connection : Worker(q)
  \/ start_udp_server
  \/ start_timeout_interval
  \/ MainStep

LoopSpec == LoopInit /\ [][LoopNext]_loop_vars

\* Threads that can run are eventually scheduled; clients need not connect,
\* and the UDP and timer threads need not send.
LoopFairSpec ==
  /\ LoopSpec
  /\ WF_loop_vars(StartJob)
  /\ WF_loop_vars(MainStep)
  /\ \A q \in Connection : WF_loop_vars(Worker(q))

------------------------------------------------------------------------------
\* Properties.

Command ==
  {Packet, Checks} \cup
    [type : {"AddStreamer", "AddViewer", "SendRoomsStatus"}, from : Connection]

Message == [ok : BOOLEAN] \cup [ok : BOOLEAN, rooms : SUBSET Connection]

LoopTypeOK ==
  /\ request \in Traffic
  /\ stage \in [Connection -> Stage]
  /\ backlog \in Seq(Connection)
  /\ channel \in Seq(Command)
  /\ reply \in [Connection -> Seq(Message)]
  /\ response \in [Connection -> Response \cup {None}]
  /\ rooms \subseteq Connection
  /\ admitted \subseteq Connection
  /\ known \in [Connection -> SUBSET Connection]

IsOffer(c) == c.type \in {"AddStreamer", "AddViewer"}

\* The worker of every AddStreamer or AddViewer in the channel is still waiting
\* for its answer: expect("Response channel should remain open") holds when the
\* main thread gets to the command, whatever became of the connection.
ReplyChannelOpen ==
  \A i \in DOMAIN channel : IsOffer(channel[i]) => stage[channel[i].from] = "awaiting"

\* A connection never has more than one command or answer under way, so the
\* load HTTP clients put on the channel is bounded by the number of requests,
\* also for the clients that stay for notifications.
Asks(c) == c.type \in {"AddStreamer", "AddViewer", "SendRoomsStatus"}

IsFrom(i, q) == Asks(channel[i]) /\ channel[i].from = q

OneUnderWay ==
  \A q \in Connection :
    /\ Len(reply[q]) <= 1
    /\ \A i \in DOMAIN channel : IsFrom(i, q) =>
         reply[q] = <<>> /\ \A j \in DOMAIN channel : IsFrom(j, q) => i = j

\* What /rooms and /notifications report contains the room of every streamer
\* that had its answer before the report was asked for, unless the room was
\* closed since.
Closed == {q \in admitted : request[q].path = "/whip"} \ rooms

ReportsAreCurrent ==
  \A q \in Connection : \A i \in DOMAIN reply[q] :
    CommandOf(request[q]) = "SendRoomsStatus" => known[q] \subseteq reply[q][i].rooms \cup Closed

\* The status tells the truth: when the worker of a /whip or /whep request is
\* done, a streamer or viewer was registered for it if and only if it was
\* answered with success.  No session is left behind by a request that was
\* refused or dropped, also if its room was closed while it waited.
StatusTruthful ==
  \A q \in Connection :
    (stage[q] = "done" /\ request[q].path \in {"/whip", "/whep"})
      => (Succeeded(q) <=> q \in admitted)

\* Every room was opened by a request that carried the token whip_route asks
\* for, and every registered peer sent an offer as text.
OnlyInvited ==
  /\ \A q \in rooms : request[q].authorization = Bearer
  /\ \A q \in admitted : HasText(request[q])

\* Errors are answered with the status they are displayed with.
StatusAsNamed ==
  \A q \in Connection :
    (response[q] # None /\ response[q].error # None)
      => response[q].status = Display(response[q].error)

\* As long as the connections that hold on to a worker leave one free, every
\* other request that was handed to the pool comes to its end, with a response
\* if it could be parsed.
AllAnswered ==
  \A q \in Connection :
    (stage[q] = "queued" /\ request[q].complete /\ ~ Listens(q))
      ~> (stage[q] = "done" /\ (Parses(request[q]) => response[q] # None))

\* A client of /notifications that stays connected gets one report after the
\* other: the answer to a request is never lost, even if the main thread sends
\* it before the worker has written the header.
ReportsKeepComing ==
  \A q \in Connection :
    (stage[q] \in {"greeting", "awaiting"} /\ Listens(q)) ~> (stage[q] \in {"sleeping", "done"})

==============================================================================
