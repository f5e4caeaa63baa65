-------------------------- MODULE CommandLoopProofs --------------------------
(***************************************************************************)
(* Safety of the command loop, for any number of connections and workers,   *)
(* any requests and any bound on the channel.                               *)
(***************************************************************************)
EXTENDS CommandLoop, TLAPS

\* A job in the backlog is there once, and its connection waits for a worker.
Queued ==
  \A i \in DOMAIN backlog :
    /\ stage[backlog[i]] = "queued"
    /\ \A j \in DOMAIN backlog : backlog[i] = backlog[j] => i = j

\* Before its worker asks, nothing of a connection is under way; a worker that
\* sleeps has nothing under way either.
Silent(q) == reply[q] = <<>> /\ \A i \in DOMAIN channel : ~ IsFrom(i, q)

Waiting ==
  \A q \in Connection :
    /\ stage[q] \in {"idle", "queued", "parsing"} =>
         Silent(q) /\ response[q] = None /\ q \notin admitted
    /\ stage[q] = "greeting" => Listens(q)
    /\ stage[q] = "sleeping" => Silent(q) /\ Listens(q)
    /\ stage[q] = "awaiting" => CommandOf(request[q]) # None

\* A command is the one its request calls for.
Submitted ==
  \A i \in DOMAIN channel :
    Asks(channel[i]) => channel[i].type = CommandOf(request[channel[i].from])

Offers(q) == CommandOf(request[q]) \in {"AddStreamer", "AddViewer"}

\* An answer to an offer is waited for, and says whether it was accepted.
Replies ==
  \A q \in Connection :
    (reply[q] # <<>> /\ Offers(q)) =>
      stage[q] = "awaiting" /\ (reply[q][1].ok <=> q \in admitted)

\* Who is registered made an offer and has been told or will be; who was told
\* so is registered.
Admission ==
  /\ \A q \in admitted :
       /\ Offers(q)
       /\ \/ stage[q] = "awaiting" /\ reply[q] # <<>>
          \/ stage[q] = "done" /\ Succeeded(q)
  /\ \A q \in Connection :
       (request[q].path \in {"/whip", "/whep"} /\ Succeeded(q)) => q \in admitted
  /\ rooms \subseteq admitted
  /\ \A q \in rooms : CommandOf(request[q]) = "AddStreamer"
  /\ \A q \in Connection : \A p \in known[q] : p \in admitted /\ request[p].path = "/whip"

LoopInv ==
  /\ LoopTypeOK
  /\ Queued
  /\ ReplyChannelOpen
  /\ OneUnderWay
  /\ Waiting
  /\ Submitted
  /\ Replies
  /\ Admission
  /\ ReportsAreCurrent

------------------------------------------------------------------------------
\* What the routes do with a request.

LEMMA Commands ==
  ASSUME NEW r \in Request
  PROVE  /\ CommandOf(r) \in {None, "AddStreamer", "AddViewer", "SendRoomsStatus"}
         /\ CommandOf(r) = "AddStreamer" =>
              r.path = "/whip" /\ r.authorization = Bearer /\ HasText(r)
         /\ CommandOf(r) = "AddViewer" => r.path = "/whep" /\ HasText(r)
         /\ CommandOf(r) = "SendRoomsStatus" <=> r.path \in {"/rooms", "/notifications"}
<1>1. None \notin {"Unauthorized", "BadRequest", "MethodNotAllowed", "NotFound",
                  "AddStreamer", "AddViewer", "SendRoomsStatus"}
  BY LoopAssumption DEF HttpError
<1>2. /\ r.path = "/whip" => RouteError(r) = whip_error(r)
      /\ r.path = "/whep" => RouteError(r) = whep_error(r)
  BY DEF RouteError
<1>3. r.path \in {"/rooms", "/notifications"} => RouteError(r) = None
  BY DEF RouteError
<1>4. whip_error(r) = None => r.authorization = Bearer /\ HasText(r)
  BY <1>1 DEF whip_error
<1>5. whep_error(r) = None => r.method = "OPTIONS" \/ HasText(r)
  BY <1>1 DEF whep_error
<1> QED
  BY <1>1, <1>2, <1>3, <1>4, <1>5 DEF CommandOf

LEMMA AloneResponses ==
  ASSUME NEW r \in Request, NEW message \in Alone(r)
  PROVE  /\ message \in Response
         /\ r.path \in {"/whip", "/whep"} => message.status \notin {200, 201}
<1>1. RouteError(r) \in HttpError \cup {None}
  BY DEF RouteError, whip_error, whep_error, images_error, HttpError
<1>2. \A err \in HttpError : ErrorResponse(err) \in [status : {401, 404, 405, 500}, error : HttpError]
  BY DEF HttpError, ErrorResponse, map_http_err_to_response
<1>3. build(204) \in Response /\ build(200) \in Response /\ build(204).status = 204
  BY DEF build, Response
<1>4. "NotFound" \in HttpError
  BY DEF HttpError
<1> QED
  BY <1>1, <1>2, <1>3, <1>4 DEF Alone, Response

LEMMA AnsweredResponses ==
  ASSUME NEW r \in Request, NEW ok \in BOOLEAN
  PROVE  /\ Answered(r, ok) \in Response
         /\ r.path \in {"/whip", "/whep"} => (Answered(r, ok).status \in {200, 201} <=> ok)
  BY DEF Answered, build, ErrorResponse, map_http_err_to_response, Response, HttpError

------------------------------------------------------------------------------
\* The channel.

LEMMA Sent ==
  ASSUME channel \in Seq(Command), NEW c \in Command, channel' = Append(channel, c)
  PROVE  /\ channel' \in Seq(Command)
         /\ DOMAIN channel' = DOMAIN channel \cup {Len(channel) + 1}
         /\ Len(channel) + 1 \notin DOMAIN channel
         /\ \A i \in DOMAIN channel : channel'[i] = channel[i]
         /\ channel'[Len(channel) + 1] = c
  OBVIOUS

\* The first command, c, is taken; the others move up.
Shifted(c) ==
  /\ channel' \in Seq(Command)
  /\ 1 \in DOMAIN channel /\ channel[1] = c
  /\ \A i \in DOMAIN channel' :
       i + 1 \in DOMAIN channel /\ i + 1 # 1 /\ channel'[i] = channel[i + 1]
  /\ \A i, j \in DOMAIN channel' : i + 1 = j + 1 => i = j

LEMMA Taken ==
  ASSUME channel \in Seq(Command), NEW c, Take(c)
  PROVE  Shifted(c)
  BY DEF Take, Shifted

\* Nothing of a connection is in the channel.
Absent(p) == \A i \in DOMAIN channel : ~ IsFrom(i, p)

LEMMA ShiftAbsent ==
  ASSUME NEW c, Shifted(c), NEW p, Absent(p)
  PROVE  Absent(p)'
  BY DEF Shifted, Absent, IsFrom

\* The connection a command comes from has nothing else under way.
LEMMA ShiftFirst ==
  ASSUME NEW c, Shifted(c), Asks(c), c.from \in Connection, OneUnderWay
  PROVE  reply[c.from] = <<>> /\ Absent(c.from)'
<1>1. 1 \in DOMAIN channel /\ IsFrom(1, c.from)
  BY DEF Shifted, IsFrom
<1>2. reply[c.from] = <<>> /\ \A j \in DOMAIN channel : IsFrom(j, c.from) => 1 = j
  BY <1>1 DEF OneUnderWay
<1>3. \A i \in DOMAIN channel' : IsFrom(i, c.from)' => IsFrom(i + 1, c.from)
  BY DEF Shifted, IsFrom
<1> QED
  BY <1>2, <1>3 DEF Shifted, Absent

LEMMA ShiftOpen ==
  ASSUME NEW c, Shifted(c), ReplyChannelOpen, UNCHANGED stage
  PROVE  ReplyChannelOpen'
  BY DEF Shifted, ReplyChannelOpen

LEMMA ShiftSubmitted ==
  ASSUME NEW c, Shifted(c), Submitted, UNCHANGED request
  PROVE  Submitted'
  BY DEF Shifted, Submitted

LEMMA ShiftOne ==
  ASSUME NEW c, Shifted(c), OneUnderWay,
         \A p \in Connection : \/ reply'[p] = reply[p]
                               \/ Len(reply'[p]) <= 1 /\ Absent(p)'
  PROVE  OneUnderWay'
<1> SUFFICES ASSUME NEW p \in Connection
             PROVE  /\ Len(reply'[p]) <= 1
                    /\ \A i \in DOMAIN channel' : IsFrom(i, p)' =>
                         reply'[p] = <<>> /\ \A j \in DOMAIN channel' : IsFrom(j, p)' => i = j
  BY DEF OneUnderWay
<1>1. CASE Len(reply'[p]) <= 1 /\ Absent(p)'
  BY <1>1 DEF Absent
<1>2. CASE reply'[p] = reply[p]
  <2>1. \A i \in DOMAIN channel' : i + 1 \in DOMAIN channel /\ (IsFrom(i, p)' => IsFrom(i + 1, p))
    BY DEF Shifted, IsFrom
  <2>2. /\ Len(reply[p]) <= 1
        /\ \A i \in DOMAIN channel : IsFrom(i, p) =>
             reply[p] = <<>> /\ \A j \in DOMAIN channel : IsFrom(j, p) => i = j
    BY DEF OneUnderWay
  <2>3. \A i, j \in DOMAIN channel' : i + 1 = j + 1 => i = j
    BY DEF Shifted
  <2> QED
    BY <1>2, <2>1, <2>2, <2>3
<1> QED
  BY <1>1, <1>2

LEMMA ShiftWaiting ==
  ASSUME NEW c, Shifted(c), Waiting, UNCHANGED <<request, stage, response>>,
         \A p \in Connection : stage[p] \in {"idle", "queued", "parsing", "sleeping"} =>
           reply'[p] = reply[p] /\ (p \in admitted' => p \in admitted)
  PROVE  Waiting'
<1> SUFFICES ASSUME NEW p \in Connection
             PROVE  /\ stage[p] \in {"idle", "queued", "parsing"} =>
                         Silent(p)' /\ response[p] = None /\ p \notin admitted'
                    /\ stage[p] = "greeting" => Listens(p)
                    /\ stage[p] = "sleeping" => Silent(p)' /\ Listens(p)
                    /\ stage[p] = "awaiting" => CommandOf(request[p]) # None
  BY DEF Waiting, Listens
<1>1. Silent(p) /\ reply'[p] = reply[p] => Silent(p)'
  BY ShiftAbsent DEF Silent, Absent
<1> QED
  BY <1>1 DEF Waiting

LEMMA ShiftReplies ==
  ASSUME Replies, UNCHANGED <<request, stage, admitted>>,
         \A p \in Connection : reply'[p] = reply[p] \/ ~ Offers(p)
  PROVE  Replies'
  BY DEF Replies, Offers

------------------------------------------------------------------------------
\* The invariant is inductive.

LEMMA LoopStart == LoopInit => LoopInv
  BY LoopAssumption
  DEF LoopInit, LoopInv, LoopTypeOK, Stage, Queued, ReplyChannelOpen, OneUnderWay,
      Waiting, Silent, Submitted, Replies, Admission, Succeeded, ReportsAreCurrent

LEMMA ConnectStep ==
  ASSUME LoopInv, NEW q \in Connection, Connect(q)
  PROVE  LoopInv'
<1>1. LoopTypeOK'
  BY SMTT(30) DEF LoopInv, LoopTypeOK, Connect, Goto, Stage
<1>2. Queued'
  BY SMTT(30) DEF LoopInv, LoopTypeOK, Connect, Goto, Queued
<1>3. ReplyChannelOpen'
  BY SMTT(30) DEF LoopInv, LoopTypeOK, Connect, Goto, ReplyChannelOpen, IsOffer
<1>4. OneUnderWay'
  BY SMTT(30) DEF LoopInv, LoopTypeOK, Connect, Goto, OneUnderWay, IsFrom, Asks
<1>5. Waiting'
  BY SMTT(30) DEF LoopInv, LoopTypeOK, Connect, Goto, Waiting, Silent, IsFrom, Asks, Listens
<1>6. Submitted'
  BY SMTT(30) DEF LoopInv, LoopTypeOK, Connect, Goto, Submitted, Asks
<1>7. Replies'
  BY SMTT(30) DEF LoopInv, LoopTypeOK, Connect, Goto, Replies, Offers
<1>8. Admission'
  BY SMTT(30) DEF LoopInv, LoopTypeOK, Connect, Goto, Admission, Offers, Succeeded
<1>9. ReportsAreCurrent'
  BY SMTT(30) DEF LoopInv, LoopTypeOK, Connect, Goto, ReportsAreCurrent, Closed
<1> QED
  BY <1>1, <1>2, <1>3, <1>4, <1>5, <1>6, <1>7, <1>8, <1>9 DEF LoopInv

LEMMA StartJobStep ==
  ASSUME LoopInv, StartJob
  PROVE  LoopInv'
<1>h. /\ Head(backlog) \in Connection
      /\ stage[Head(backlog)] = "queued"
  BY DEF LoopInv, LoopTypeOK, Queued, StartJob
<1>t. \A i \in DOMAIN backlog' :
        i + 1 \in DOMAIN backlog /\ backlog'[i] = backlog[i + 1] /\ backlog'[i] # Head(backlog)
  BY DEF LoopInv, LoopTypeOK, Queued, StartJob
<1>1. LoopTypeOK'
  BY SMTT(30), <1>h
  DEF LoopInv, LoopTypeOK, StartJob, Goto, Stage
<1>2. Queued'
  BY SMTT(30), <1>h, <1>t
  DEF LoopInv, LoopTypeOK, StartJob, Goto, Queued
<1>3. ReplyChannelOpen'
  BY SMTT(30), <1>h
  DEF LoopInv, LoopTypeOK, StartJob, Goto, ReplyChannelOpen, IsOffer
<1>4. OneUnderWay'
  BY SMTT(30), <1>h
  DEF LoopInv, LoopTypeOK, StartJob, Goto, OneUnderWay, IsFrom, Asks
<1>5. Waiting'
  BY SMTT(30), <1>h
  DEF LoopInv, LoopTypeOK, StartJob, Goto, Waiting, Silent, IsFrom, Asks, Listens
<1>6. Submitted'
  BY SMTT(30), <1>h
  DEF LoopInv, LoopTypeOK, StartJob, Goto, Submitted, Asks
<1>7. Replies'
  BY SMTT(30), <1>h
  DEF LoopInv, LoopTypeOK, StartJob, Goto, Replies, Offers
<1>8. Admission'
  BY SMTT(30), <1>h
  DEF LoopInv, LoopTypeOK, StartJob, Goto, Admission, Offers, Succeeded
<1>9. ReportsAreCurrent'
  BY SMTT(30), <1>h
  DEF LoopInv, LoopTypeOK, StartJob, Goto, ReportsAreCurrent, Closed
<1> QED
  BY <1>1, <1>2, <1>3, <1>4, <1>5, <1>6, <1>7, <1>8, <1>9 DEF LoopInv

LEMMA DropStep ==
  ASSUME LoopInv, NEW q \in Connection, Drop(q)
  PROVE  LoopInv'
<1>1. LoopTypeOK'
  BY SMTT(30) DEF LoopInv, LoopTypeOK, Drop, Received, Goto, Stage
<1>2. Queued'
  BY SMTT(30) DEF LoopInv, LoopTypeOK, Drop, Received, Goto, Queued
<1>3. ReplyChannelOpen'
  BY SMTT(30) DEF LoopInv, LoopTypeOK, Drop, Received, Goto, ReplyChannelOpen, IsOffer
<1>4. OneUnderWay'
  BY SMTT(30) DEF LoopInv, LoopTypeOK, Drop, Received, Goto, OneUnderWay, IsFrom, Asks
<1>5. Waiting'
  BY SMTT(30) DEF LoopInv, LoopTypeOK, Drop, Received, Goto, Waiting, Silent, IsFrom, Asks,
         Listens
<1>6. Submitted'
  BY SMTT(30) DEF LoopInv, LoopTypeOK, Drop, Received, Goto, Submitted, Asks
<1>7. Replies'
  BY SMTT(30) DEF LoopInv, LoopTypeOK, Drop, Received, Goto, Replies, Offers
<1>8. Admission'
  BY SMTT(30) DEF LoopInv, LoopTypeOK, Drop, Received, Goto, Admission, Offers, Succeeded
<1>9. ReportsAreCurrent'
  BY ZenonT(30) DEF LoopInv, LoopTypeOK, Drop, Received, Goto, ReportsAreCurrent, Closed
<1> QED
  BY <1>1, <1>2, <1>3, <1>4, <1>5, <1>6, <1>7, <1>8, <1>9 DEF LoopInv

LEMMA AnswerAloneStep ==
  ASSUME LoopInv, NEW q \in Connection, AnswerAlone(q)
  PROVE  LoopInv'
<1>r. request[q] \in Request
  BY LoopAssumption DEF LoopInv, LoopTypeOK
<1>m. PICK message \in Alone(request[q]) : response' = [response EXCEPT ![q] = message]
  BY Zenon DEF AnswerAlone, Respond
<1>n. /\ message \in Response
      /\ request[q].path \in {"/whip", "/whep"} => message.status \notin {200, 201}
  BY <1>r, AloneResponses
<1>1. LoopTypeOK'
  BY SMTT(30), <1>m, <1>n
  DEF LoopInv, LoopTypeOK, AnswerAlone, Received, Goto, Respond, Stage
<1>2. Queued'
  BY SMTT(30) DEF LoopInv, LoopTypeOK, AnswerAlone, Received, Goto, Respond, Queued
<1>3. ReplyChannelOpen'
  BY SMTT(30) DEF LoopInv, LoopTypeOK, AnswerAlone, Received, Goto, Respond, ReplyChannelOpen,
         IsOffer
<1>4. OneUnderWay'
  BY SMTT(30) DEF LoopInv, LoopTypeOK, AnswerAlone, Received, Goto, Respond, OneUnderWay, IsFrom,
         Asks
<1>5. Waiting'
  BY SMTT(30), <1>m
  DEF LoopInv, LoopTypeOK, AnswerAlone, Received, Goto, Respond, Waiting, Silent, IsFrom,
      Asks, Listens
<1>6. Submitted'
  BY SMTT(30) DEF LoopInv, LoopTypeOK, AnswerAlone, Received, Goto, Respond, Submitted, Asks
<1>7. Replies'
  BY SMTT(30) DEF LoopInv, LoopTypeOK, AnswerAlone, Received, Goto, Respond, Replies, Offers
<1>8. Admission'
  BY SMTT(30), <1>m, <1>n
  DEF LoopInv, LoopTypeOK, AnswerAlone, Received, Goto, Respond, Admission, Offers,
      Succeeded
<1>9. ReportsAreCurrent'
  <2>1. UNCHANGED <<request, reply, rooms, admitted, known>>
    BY DEF AnswerAlone
  <2> QED
    BY <2>1 DEF LoopInv, ReportsAreCurrent, Closed
<1> QED
  BY <1>1, <1>2, <1>3, <1>4, <1>5, <1>6, <1>7, <1>8, <1>9 DEF LoopInv

LEMMA GreetStep ==
  ASSUME LoopInv, NEW q \in Connection, Greet(q)
  PROVE  LoopInv'
<1>r. request[q] \in Request
  BY LoopAssumption DEF LoopInv, LoopTypeOK
<1>l. /\ request[q].path = "/notifications"
      /\ CommandOf(request[q]) = "SendRoomsStatus"
  BY <1>r, Commands DEF LoopInv, Waiting, Listens, Greet
<1>b. build(200) \in Response
  BY DEF build, Response
<1>c. CommandOf(request[q]) # None
  BY <1>l, LoopAssumption
<1>i. \A i \in DOMAIN channel : channel[i] \in Command
  BY DEF LoopInv, LoopTypeOK
<1>1. LoopTypeOK'
  BY SMTT(30), <1>b
  DEF LoopInv, LoopTypeOK, Greet, Goto, Respond, Stage
<1>2. Queued'
  BY SMTT(30) DEF LoopInv, LoopTypeOK, Greet, Goto, Respond, Queued
<1>3. ReplyChannelOpen'
  BY SMTT(30) DEF LoopInv, LoopTypeOK, Greet, Goto, Respond, ReplyChannelOpen, IsOffer
<1>4. OneUnderWay'
  BY SMTT(30) DEF LoopInv, LoopTypeOK, Greet, Goto, Respond, OneUnderWay, IsFrom, Asks
<1>5. Waiting'
  BY SMTT(30), <1>c
  DEF LoopInv, LoopTypeOK, Greet, Goto, Respond, Waiting, Silent, IsFrom, Asks, Listens
<1>6. Submitted'
  BY SMTT(30) DEF LoopInv, LoopTypeOK, Greet, Goto, Respond, Submitted, Asks
<1>7. Replies'
  BY SMTT(30), <1>l
  DEF LoopInv, LoopTypeOK, Greet, Goto, Respond, Replies, Offers
<1>8. Admission'
  BY SMTT(30), <1>l
  DEF LoopInv, LoopTypeOK, Greet, Goto, Respond, Admission, Offers, Succeeded
<1>9. ReportsAreCurrent'
  BY SMTT(30) DEF LoopInv, LoopTypeOK, Greet, Goto, Respond, ReportsAreCurrent, Closed
<1> QED
  BY <1>1, <1>2, <1>3, <1>4, <1>5, <1>6, <1>7, <1>8, <1>9 DEF LoopInv

LEMMA ReceiveAnswerStep ==
  ASSUME LoopInv, NEW q \in Connection, ReceiveAnswer(q)
  PROVE  LoopInv'
<1>r. request[q] \in Request
  BY LoopAssumption DEF LoopInv, LoopTypeOK
<1>s. reply[q] \in Seq(Message) /\ Len(reply[q]) <= 1 /\ reply[q] # <<>>
  BY DEF LoopInv, LoopTypeOK, OneUnderWay, ReceiveAnswer
<1>e. Head(reply[q]) = reply[q][1] /\ reply[q][1] \in Message /\ Tail(reply[q]) = <<>>
  BY <1>s
<1>o. Head(reply[q]) = reply[q][1] /\ reply[q][1].ok \in BOOLEAN
  BY <1>e DEF Message
<1>a. /\ Answered(request[q], reply[q][1].ok) \in Response
      /\ request[q].path \in {"/whip", "/whep"} =>
           (Answered(request[q], reply[q][1].ok).status \in {200, 201} <=> reply[q][1].ok)
  BY <1>r, <1>o, AnsweredResponses
<1>n. Answered(request[q], reply[q][1].ok) # None
  BY <1>a, LoopAssumption
<1>p. /\ request[q].path \in {"/whip", "/whep"} => Offers(q)
      /\ Offers(q) => request[q].path \in {"/whip", "/whep"}
  BY <1>r, Commands DEF LoopInv, Waiting, ReceiveAnswer, Offers
<1>c. \A i \in DOMAIN channel : ~ IsFrom(i, q)
  BY DEF LoopInv, LoopTypeOK, OneUnderWay, ReceiveAnswer
<1>x. /\ response' = [response EXCEPT ![q] = Answered(request[q], reply[q][1].ok)]
      /\ reply' = [reply EXCEPT ![q] = <<>>]
  BY <1>e, Zenon DEF LoopInv, LoopTypeOK, ReceiveAnswer, Respond
<1>1. LoopTypeOK'
  BY SMTT(30), <1>x, <1>a
  DEF LoopInv, LoopTypeOK, ReceiveAnswer, Goto, Respond, Stage
<1>2. Queued'
  BY SMTT(30) DEF LoopInv, LoopTypeOK, ReceiveAnswer, Goto, Respond, Queued
<1>3. ReplyChannelOpen'
  BY SMTT(30), <1>c
  DEF LoopInv, LoopTypeOK, ReceiveAnswer, Goto, Respond, ReplyChannelOpen, IsOffer,
      IsFrom, Asks
<1>4. OneUnderWay'
  BY SMTT(30), <1>x
  DEF LoopInv, LoopTypeOK, ReceiveAnswer, Goto, Respond, OneUnderWay, IsFrom, Asks
<1>5. Waiting'
  BY SMTT(30), <1>x
  DEF LoopInv, LoopTypeOK, ReceiveAnswer, Goto, Respond, Waiting, Silent, IsFrom, Asks,
      Listens
<1>6. Submitted'
  BY SMTT(30) DEF LoopInv, LoopTypeOK, ReceiveAnswer, Goto, Respond, Submitted, Asks
<1>7. Replies'
  BY SMTT(30), <1>x
  DEF LoopInv, LoopTypeOK, ReceiveAnswer, Goto, Respond, Replies, Offers
<1>8. Admission'
  BY SMTT(30), <1>x, <1>a, <1>n, <1>p, <1>o
  DEF LoopInv, LoopTypeOK, ReceiveAnswer, Goto, Respond, Admission, Offers, Succeeded,
      Replies
<1>9. ReportsAreCurrent'
  <2>1. UNCHANGED <<request, rooms, admitted, known>>
    BY DEF ReceiveAnswer
  <2> SUFFICES ASSUME NEW p \in Connection, NEW i \in DOMAIN reply'[p],
                      CommandOf(request[p]) = "SendRoomsStatus"
               PROVE  known'[p] \subseteq reply'[p][i].rooms \cup Closed'
    BY <2>1 DEF ReportsAreCurrent
  <2>2. p # q /\ reply'[p] = reply[p]
    BY <1>x DEF LoopInv, LoopTypeOK
  <2> QED
    BY <2>1, <2>2 DEF LoopInv, ReportsAreCurrent, Closed
<1> QED
  BY <1>1, <1>2, <1>3, <1>4, <1>5, <1>6, <1>7, <1>8, <1>9 DEF LoopInv

LEMMA NotifyStep ==
  ASSUME LoopInv, NEW q \in Connection, Notify(q)
  PROVE  LoopInv'
<1>r. request[q] \in Request
  BY LoopAssumption DEF LoopInv, LoopTypeOK
<1>l. ~ Offers(q)
  BY <1>r, Commands DEF Notify, Listens, Offers
<1>s. reply[q] \in Seq(Message) /\ Len(reply[q]) <= 1 /\ reply[q] # <<>>
  BY DEF LoopInv, LoopTypeOK, OneUnderWay, Notify
<1>e. Tail(reply[q]) = <<>>
  BY <1>s
<1>o. reply' = [reply EXCEPT ![q] = <<>>]
  BY <1>e, Zenon DEF LoopInv, LoopTypeOK, Notify
<1>c. \A i \in DOMAIN channel : ~ IsFrom(i, q)
  BY DEF LoopInv, LoopTypeOK, OneUnderWay, Notify
<1>1. LoopTypeOK'
  BY SMTT(30), <1>o
  DEF LoopInv, LoopTypeOK, Notify, Goto, Stage
<1>2. Queued'
  BY SMTT(30) DEF LoopInv, LoopTypeOK, Notify, Goto, Queued
<1>3. ReplyChannelOpen'
  BY SMTT(30), <1>c
  DEF LoopInv, LoopTypeOK, Notify, Goto, ReplyChannelOpen, IsOffer, IsFrom, Asks
<1>4. OneUnderWay'
  BY SMTT(30), <1>o
  DEF LoopInv, LoopTypeOK, Notify, Goto, OneUnderWay, IsFrom, Asks
<1>5. Waiting'
  BY SMTT(30), <1>o, <1>c
  DEF LoopInv, LoopTypeOK, Notify, Goto, Waiting, Silent, IsFrom, Asks, Listens
<1>6. Submitted'
  BY SMTT(30) DEF LoopInv, LoopTypeOK, Notify, Goto, Submitted, Asks
<1>7. Replies'
  BY SMTT(30), <1>o
  DEF LoopInv, LoopTypeOK, Notify, Goto, Replies, Offers
<1>8. Admission'
  BY SMTT(30), <1>l
  DEF LoopInv, LoopTypeOK, Notify, Goto, Admission, Offers, Succeeded
<1>9. ReportsAreCurrent'
  BY SMTT(30), <1>o
  DEF LoopInv, LoopTypeOK, Notify, Goto, ReportsAreCurrent, Closed
<1> QED
  BY <1>1, <1>2, <1>3, <1>4, <1>5, <1>6, <1>7, <1>8, <1>9 DEF LoopInv

LEMMA SubmitOfferStep ==
  ASSUME LoopInv, NEW q \in Connection, SubmitOffer(q)
  PROVE  LoopInv'
<1>r. request[q] \in Request
  BY LoopAssumption DEF LoopInv, LoopTypeOK
<1>k. [type |-> CommandOf(request[q]), from |-> q] \in Command
  BY DEF SubmitOffer, Command
<1>s. /\ channel' \in Seq(Command)
      /\ DOMAIN channel' = DOMAIN channel \cup {Len(channel) + 1}
      /\ Len(channel) + 1 \notin DOMAIN channel
      /\ \A i \in DOMAIN channel : channel'[i] = channel[i]
      /\ channel'[Len(channel) + 1] = [type |-> CommandOf(request[q]), from |-> q]
  BY <1>k, Sent DEF LoopInv, LoopTypeOK, SubmitOffer
<1>q. \A i \in DOMAIN channel : ~ IsFrom(i, q)
  BY DEF LoopInv, Waiting, Silent, SubmitOffer, Received
<1>1. LoopTypeOK'
  BY SMTT(30), <1>s
  DEF LoopInv, LoopTypeOK, SubmitOffer, Received, Goto, Stage
<1>2. Queued'
  BY SMTT(30) DEF LoopInv, LoopTypeOK, SubmitOffer, Received, Goto, Queued
<1>3. ReplyChannelOpen'
  BY SMTT(30), <1>s, <1>q
  DEF LoopInv, LoopTypeOK, SubmitOffer, Received, Goto, ReplyChannelOpen, IsOffer,
      IsFrom, Asks
<1>4. OneUnderWay'
  BY SMTT(30), <1>s, <1>q
  DEF LoopInv, LoopTypeOK, SubmitOffer, Received, Goto, OneUnderWay, IsFrom, Asks,
      Waiting, Silent
<1>5. Waiting'
  BY SMTT(30), <1>s, LoopAssumption
  DEF LoopInv, LoopTypeOK, SubmitOffer, Received, Goto, Waiting, Silent, IsFrom, Asks,
      Listens
<1>6. Submitted'
  BY SMTT(30), <1>s
  DEF LoopInv, LoopTypeOK, SubmitOffer, Received, Goto, Submitted, Asks
<1>7. Replies'
  BY SMTT(30) DEF LoopInv, LoopTypeOK, SubmitOffer, Received, Goto, Replies, Offers
<1>8. Admission'
  BY SMTT(30) DEF LoopInv, LoopTypeOK, SubmitOffer, Received, Goto, Admission, Offers, Succeeded
<1>9. ReportsAreCurrent'
  BY Zenon DEF LoopInv, LoopTypeOK, SubmitOffer, Received, Goto, ReportsAreCurrent, Closed
<1> QED
  BY <1>1, <1>2, <1>3, <1>4, <1>5, <1>6, <1>7, <1>8, <1>9 DEF LoopInv

LEMMA AskRoomsStep ==
  ASSUME LoopInv, NEW q \in Connection, AskRooms(q)
  PROVE  LoopInv'
<1>r. request[q] \in Request
  BY LoopAssumption DEF LoopInv, LoopTypeOK
<1>c. CommandOf(request[q]) = "SendRoomsStatus" /\ CommandOf(request[q]) # None
  BY <1>r, Commands, LoopAssumption DEF LoopInv, Waiting, Listens, AskRooms, Received
<1>k. SendRoomsStatus(q) \in Command
  BY DEF SendRoomsStatus, Command
<1>s. /\ channel' \in Seq(Command)
      /\ DOMAIN channel' = DOMAIN channel \cup {Len(channel) + 1}
      /\ Len(channel) + 1 \notin DOMAIN channel
      /\ \A i \in DOMAIN channel : channel'[i] = channel[i]
      /\ channel'[Len(channel) + 1] = SendRoomsStatus(q)
  BY <1>k, Sent DEF LoopInv, LoopTypeOK, AskRooms, RequestStatus
<1>q. Silent(q)
  BY DEF LoopInv, Waiting, AskRooms, Received
<1>g. \A p \in Streaming : p \in admitted /\ request[p].path = "/whip"
  BY DEF LoopInv, Admission, Streaming
<1>w. Streaming \subseteq Connection
  BY DEF Streaming
<1>1. LoopTypeOK'
  BY SMTT(30), <1>s, <1>w
  DEF LoopInv, LoopTypeOK, AskRooms, Received, RequestStatus, Goto, Stage
<1>2. Queued'
  BY SMTT(30) DEF LoopInv, LoopTypeOK, AskRooms, Received, RequestStatus, Goto, Queued
<1>3. ReplyChannelOpen'
  BY SMTT(30), <1>s, <1>q
  DEF LoopInv, LoopTypeOK, AskRooms, Received, RequestStatus, Goto, ReplyChannelOpen,
      IsOffer, IsFrom, Asks, Silent, SendRoomsStatus
<1>4. OneUnderWay'
  BY SMTT(30), <1>s, <1>q
  DEF LoopInv, LoopTypeOK, AskRooms, Received, RequestStatus, Goto, OneUnderWay, IsFrom,
      Asks, Silent, SendRoomsStatus
<1>5. Waiting'
  BY SMTT(30), <1>s, <1>c
  DEF LoopInv, LoopTypeOK, AskRooms, Received, RequestStatus, Goto, Waiting, Silent,
      IsFrom, Asks, Listens, SendRoomsStatus
<1>6. Submitted'
  BY SMTT(30), <1>s, <1>c
  DEF LoopInv, LoopTypeOK, AskRooms, Received, RequestStatus, Goto, Submitted, Asks,
      SendRoomsStatus
<1>7. Replies'
  BY SMTT(30) DEF LoopInv, LoopTypeOK, AskRooms, Received, RequestStatus, Goto, Replies, Offers
<1>8. Admission'
  BY SMTT(30), <1>g
  DEF LoopInv, LoopTypeOK, AskRooms, Received, RequestStatus, Goto, Admission, Offers,
      Succeeded
<1>9. ReportsAreCurrent'
  <2>1. UNCHANGED <<request, reply, rooms, admitted>>
    BY DEF AskRooms
  <2> SUFFICES ASSUME NEW p \in Connection, NEW i \in DOMAIN reply'[p],
                      CommandOf(request[p]) = "SendRoomsStatus"
               PROVE  known'[p] \subseteq reply'[p][i].rooms \cup Closed'
    BY <2>1 DEF ReportsAreCurrent
  <2>2. p # q /\ known'[p] = known[p]
    BY <1>q, <2>1 DEF LoopInv, LoopTypeOK, Silent, AskRooms, RequestStatus
  <2> QED
    BY <2>1, <2>2 DEF LoopInv, ReportsAreCurrent, Closed
<1> QED
  BY <1>1, <1>2, <1>3, <1>4, <1>5, <1>6, <1>7, <1>8, <1>9 DEF LoopInv

LEMMA WakeStep ==
  ASSUME LoopInv, NEW q \in Connection, Wake(q)
  PROVE  LoopInv'
<1>r. request[q] \in Request
  BY LoopAssumption DEF LoopInv, LoopTypeOK
<1>c. CommandOf(request[q]) = "SendRoomsStatus" /\ CommandOf(request[q]) # None
  BY <1>r, Commands, LoopAssumption DEF LoopInv, Waiting, Listens, Wake
<1>k. SendRoomsStatus(q) \in Command
  BY DEF SendRoomsStatus, Command
<1>s. /\ channel' \in Seq(Command)
      /\ DOMAIN channel' = DOMAIN channel \cup {Len(channel) + 1}
      /\ Len(channel) + 1 \notin DOMAIN channel
      /\ \A i \in DOMAIN channel : channel'[i] = channel[i]
      /\ channel'[Len(channel) + 1] = SendRoomsStatus(q)
  BY <1>k, Sent DEF LoopInv, LoopTypeOK, Wake, RequestStatus
<1>q. Silent(q)
  BY DEF LoopInv, Waiting, Wake
<1>g. \A p \in Streaming : p \in admitted /\ request[p].path = "/whip"
  BY DEF LoopInv, Admission, Streaming
<1>w. Streaming \subseteq Connection
  BY DEF Streaming
<1>1. LoopTypeOK'
  BY SMTT(30), <1>s, <1>w
  DEF LoopInv, LoopTypeOK, Wake, RequestStatus, Goto, Stage
<1>2. Queued'
  BY SMTT(30) DEF LoopInv, LoopTypeOK, Wake, RequestStatus, Goto, Queued
<1>3. ReplyChannelOpen'
  BY SMTT(30), <1>s, <1>q
  DEF LoopInv, LoopTypeOK, Wake, RequestStatus, Goto, ReplyChannelOpen, IsOffer, IsFrom,
      Asks, Silent, SendRoomsStatus
<1>4. OneUnderWay'
  BY SMTT(30), <1>s, <1>q
  DEF LoopInv, LoopTypeOK, Wake, RequestStatus, Goto, OneUnderWay, IsFrom, Asks, Silent,
      SendRoomsStatus
<1>5. Waiting'
  BY SMTT(30), <1>s, <1>c
  DEF LoopInv, LoopTypeOK, Wake, RequestStatus, Goto, Waiting, Silent, IsFrom, Asks,
      Listens, SendRoomsStatus
<1>6. Submitted'
  BY SMTT(30), <1>s, <1>c
  DEF LoopInv, LoopTypeOK, Wake, RequestStatus, Goto, Submitted, Asks, SendRoomsStatus
<1>7. Replies'
  BY SMTT(30) DEF LoopInv, LoopTypeOK, Wake, RequestStatus, Goto, Replies, Offers
<1>8. Admission'
  BY SMTT(30), <1>g
  DEF LoopInv, LoopTypeOK, Wake, RequestStatus, Goto, Admission, Offers, Succeeded
<1>9. ReportsAreCurrent'
  <2>1. UNCHANGED <<request, reply, rooms, admitted>>
    BY DEF Wake
  <2> SUFFICES ASSUME NEW p \in Connection, NEW i \in DOMAIN reply'[p],
                      CommandOf(request[p]) = "SendRoomsStatus"
               PROVE  known'[p] \subseteq reply'[p][i].rooms \cup Closed'
    BY <2>1 DEF ReportsAreCurrent
  <2>2. p # q /\ known'[p] = known[p]
    BY <1>q, <2>1 DEF LoopInv, LoopTypeOK, Silent, Wake, RequestStatus
  <2> QED
    BY <2>1, <2>2 DEF LoopInv, ReportsAreCurrent, Closed
<1> QED
  BY <1>1, <1>2, <1>3, <1>4, <1>5, <1>6, <1>7, <1>8, <1>9 DEF LoopInv

LEMMA SendCommandStep ==
  ASSUME LoopInv, NEW c \in {Packet, Checks}, SendCommand(c)
  PROVE  LoopInv'
<1>k. c \in Command /\ ~ Asks(c) /\ ~ IsOffer(c)
  BY DEF Command, Packet, Checks, Asks, IsOffer
<1>s. /\ channel' \in Seq(Command)
      /\ DOMAIN channel' = DOMAIN channel \cup {Len(channel) + 1}
      /\ Len(channel) + 1 \notin DOMAIN channel
      /\ \A i \in DOMAIN channel : channel'[i] = channel[i]
      /\ channel'[Len(channel) + 1] = c
  BY <1>k, Sent DEF LoopInv, LoopTypeOK, SendCommand
<1>1. LoopTypeOK'
  BY SMTT(30), <1>k, <1>s
  DEF LoopInv, LoopTypeOK, SendCommand, Stage
<1>2. Queued'
  BY SMTT(30) DEF LoopInv, LoopTypeOK, SendCommand, Queued
<1>3. ReplyChannelOpen'
  BY SMTT(30), <1>k, <1>s
  DEF LoopInv, LoopTypeOK, SendCommand, ReplyChannelOpen, IsOffer
<1>4. OneUnderWay'
  BY SMTT(30), <1>k, <1>s
  DEF LoopInv, LoopTypeOK, SendCommand, OneUnderWay, IsFrom, Asks
<1>u. UNCHANGED <<request, stage, reply, response, admitted>>
  BY DEF SendCommand
<1>5. Waiting'
  <2>1. \A p \in Connection : Silent(p) => Silent(p)'
    BY ONLY <1>k, <1>s, <1>u DEF Silent, IsFrom
  <2>2. Waiting
    BY DEF LoopInv
  <2> QED
    BY ONLY <1>u, <2>1, <2>2 DEF Waiting, Listens
<1>6. Submitted'
  <2>1. Submitted
    BY DEF LoopInv
  <2> QED
    BY ONLY <1>k, <1>s, <1>u, <2>1 DEF Submitted
<1>7. Replies'
  BY SMTT(30) DEF LoopInv, LoopTypeOK, SendCommand, Replies, Offers
<1>8. Admission'
  BY SMTT(30) DEF LoopInv, LoopTypeOK, SendCommand, Admission, Offers, Succeeded
<1>9. ReportsAreCurrent'
  BY SMTT(30) DEF LoopInv, LoopTypeOK, SendCommand, ReportsAreCurrent, Closed
<1> QED
  BY <1>1, <1>2, <1>3, <1>4, <1>5, <1>6, <1>7, <1>8, <1>9 DEF LoopInv

LEMMA HandlePacketStep ==
  ASSUME LoopInv, HandlePacket
  PROVE  LoopInv'
<1>t. Shifted(Packet)
  BY Taken DEF LoopInv, LoopTypeOK, HandlePacket
<1>u. UNCHANGED <<request, stage, backlog, reply, response, admitted, known>>
  BY DEF HandlePacket
<1>m. rooms' \subseteq rooms
  BY DEF HandlePacket
<1>1. LoopTypeOK'
  BY SMTT(30), <1>t, <1>u, <1>m DEF LoopInv, LoopTypeOK, Shifted
<1>2. Queued'
  BY <1>u DEF LoopInv, Queued
<1>3. ReplyChannelOpen'
  BY <1>t, <1>u, ShiftOpen DEF LoopInv
<1>4. OneUnderWay'
  BY <1>t, <1>u, ShiftOne DEF LoopInv
<1>5. Waiting'
  BY <1>t, <1>u, ShiftWaiting DEF LoopInv
<1>6. Submitted'
  BY <1>t, <1>u, ShiftSubmitted DEF LoopInv
<1>7. Replies'
  BY <1>u, ShiftReplies DEF LoopInv
<1>8. Admission'
  BY SMTT(30), <1>u, <1>m DEF LoopInv, Admission, Offers, Succeeded
<1>9. ReportsAreCurrent'
  BY SMTT(30), <1>u, <1>m DEF LoopInv, ReportsAreCurrent, Closed
<1> QED
  BY <1>1, <1>2, <1>3, <1>4, <1>5, <1>6, <1>7, <1>8, <1>9 DEF LoopInv

LEMMA RunPeriodicChecksStep ==
  ASSUME LoopInv, RunPeriodicChecks
  PROVE  LoopInv'
<1>t. Shifted(Checks)
  BY Taken DEF LoopInv, LoopTypeOK, RunPeriodicChecks
<1>u. UNCHANGED <<request, stage, backlog, reply, response, admitted, known>>
  BY DEF RunPeriodicChecks
<1>m. rooms' \subseteq rooms
  BY DEF RunPeriodicChecks
<1>1. LoopTypeOK'
  BY SMTT(30), <1>t, <1>u, <1>m DEF LoopInv, LoopTypeOK, Shifted
<1>2. Queued'
  BY <1>u DEF LoopInv, Queued
<1>3. ReplyChannelOpen'
  BY <1>t, <1>u, ShiftOpen DEF LoopInv
<1>4. OneUnderWay'
  BY <1>t, <1>u, ShiftOne DEF LoopInv
<1>5. Waiting'
  BY <1>t, <1>u, ShiftWaiting DEF LoopInv
<1>6. Submitted'
  BY <1>t, <1>u, ShiftSubmitted DEF LoopInv
<1>7. Replies'
  BY <1>u, ShiftReplies DEF LoopInv
<1>8. Admission'
  BY SMTT(30), <1>u, <1>m DEF LoopInv, Admission, Offers, Succeeded
<1>9. ReportsAreCurrent'
  BY SMTT(30), <1>u, <1>m DEF LoopInv, ReportsAreCurrent, Closed
<1> QED
  BY <1>1, <1>2, <1>3, <1>4, <1>5, <1>6, <1>7, <1>8, <1>9 DEF LoopInv

LEMMA HandleSendRoomsStatusStep ==
  ASSUME LoopInv, NEW q \in Connection, HandleSendRoomsStatus(q)
  PROVE  LoopInv'
<1> DEFINE report == <<[ok |-> TRUE, rooms |-> rooms]>>
<1>r. request[q] \in Request
  BY LoopAssumption DEF LoopInv, LoopTypeOK
<1>u. UNCHANGED <<request, stage, backlog, response, rooms, admitted, known>>
  BY DEF HandleSendRoomsStatus
<1>t. Shifted(SendRoomsStatus(q))
  BY Taken DEF LoopInv, LoopTypeOK, HandleSendRoomsStatus
<1>c. Asks(SendRoomsStatus(q)) /\ SendRoomsStatus(q).from = q
  BY DEF Asks, SendRoomsStatus
<1>e. reply[q] = <<>> /\ Absent(q)'
  BY <1>t, <1>c, ShiftFirst DEF LoopInv
<1>d. CommandOf(request[q]) = "SendRoomsStatus"
  BY <1>t, <1>c DEF LoopInv, Submitted, Shifted, SendRoomsStatus
<1>a. [ok |-> TRUE, rooms |-> rooms] \in Message /\ Append(<<>>, [ok |-> TRUE, rooms |-> rooms]) = report
  BY DEF LoopInv, LoopTypeOK, Message
<1>b. report \in Seq(Message) /\ Len(report) <= 1 /\ report[1].rooms = rooms /\ DOMAIN report = {1}
  BY <1>a
<1>f. reply \in [Connection -> Seq(Message)]
  BY DEF LoopInv, LoopTypeOK
<1>m. reply' = reply \/ reply' = [reply EXCEPT ![q] = report]
  BY <1>e, <1>a DEF HandleSendRoomsStatus, Reply
<1> HIDE DEF report
<1>l. /\ reply' \in [Connection -> Seq(Message)]
      /\ \A p \in Connection : p # q => reply'[p] = reply[p]
      /\ reply'[q] = reply[q] \/ reply'[q] = report
  BY <1>m, <1>f, <1>b
<1>o. ~ Offers(q) /\ request[q].path \notin {"/whip", "/whep"}
  BY <1>d, <1>r, Commands DEF Offers
<1>v. stage[q] \notin {"idle", "queued", "parsing", "sleeping"}
  <2>1. ~ Silent(q)
    BY <1>t, <1>c DEF Silent, Shifted, IsFrom
  <2> QED
    BY <2>1 DEF LoopInv, Waiting
<1>1. LoopTypeOK'
  BY SMTT(30), <1>u, <1>l, <1>t DEF LoopInv, LoopTypeOK, Shifted
<1>2. Queued'
  BY <1>u DEF LoopInv, Queued
<1>3. ReplyChannelOpen'
  BY <1>t, <1>u, ShiftOpen DEF LoopInv
<1>4. OneUnderWay'
  <2>1. Len(reply'[q]) <= 1 \/ reply'[q] = reply[q]
    BY Zenon, <1>l, <1>b
  <2> QED
    BY <1>t, <1>l, <1>e, <2>1, ShiftOne DEF LoopInv
<1>5. Waiting'
  BY <1>t, <1>u, <1>l, <1>v, ShiftWaiting DEF LoopInv
<1>6. Submitted'
  BY <1>t, <1>u, ShiftSubmitted DEF LoopInv
<1>7. Replies'
  BY <1>u, <1>l, <1>o, ShiftReplies DEF LoopInv
<1>8. Admission'
  <2>1. \A p \in admitted : p \in Connection /\ p # q
    BY <1>o DEF LoopInv, LoopTypeOK, Admission
  <2>2. \A p \in admitted : reply'[p] = reply[p]
    BY <2>1, <1>l
  <2>3. Admission
    BY DEF LoopInv
  <2> QED
    BY ONLY SMTT(30), <1>u, <2>2, <2>3 DEF Admission, Offers, Succeeded
<1>9. ReportsAreCurrent'
  <2> SUFFICES ASSUME NEW p \in Connection, NEW i \in DOMAIN reply'[p],
                      CommandOf(request[p]) = "SendRoomsStatus"
               PROVE  known[p] \subseteq reply'[p][i].rooms \cup Closed
    BY <1>u DEF ReportsAreCurrent, Closed
  <2>1. CASE reply'[p] = reply[p]
    BY <2>1 DEF LoopInv, ReportsAreCurrent
  <2>2. CASE reply'[p] = report
    <3>1. reply'[p][i].rooms = rooms
      BY <2>2, <1>b
    <3> QED
      BY <3>1 DEF LoopInv, Admission, Closed
  <2> QED
    BY <1>l, <2>1, <2>2
<1> QED
  BY <1>1, <1>2, <1>3, <1>4, <1>5, <1>6, <1>7, <1>8, <1>9 DEF LoopInv

LEMMA OfferStep ==
  ASSUME LoopInv, NEW q \in Connection, NEW ok \in BOOLEAN,
         NEW c \in {AddStreamer(q), AddViewer(q)}, Take(c), Reply(q, [ok |-> ok]),
         admitted' = IF ok THEN admitted \cup {q} ELSE admitted,
         rooms' = IF ok /\ c = AddStreamer(q) THEN rooms \cup {q} ELSE rooms,
         UNCHANGED <<request, stage, backlog, response, known>>
  PROVE  LoopInv'
<1> DEFINE answer == <<[ok |-> ok]>>
<1>u. UNCHANGED <<request, stage, backlog, response, known>>
  OBVIOUS
<1>t. Shifted(c)
  BY Taken DEF LoopInv, LoopTypeOK
<1>c. IsOffer(c) /\ Asks(c) /\ c.from = q
  BY DEF AddStreamer, AddViewer, IsOffer, Asks
<1>e. reply[q] = <<>> /\ Absent(q)'
  BY <1>t, <1>c, ShiftFirst DEF LoopInv
<1>s. stage[q] = "awaiting"
  BY <1>t, <1>c DEF LoopInv, ReplyChannelOpen, Shifted
<1>d. CommandOf(request[q]) = c.type
  BY <1>t, <1>c DEF LoopInv, Submitted, Shifted
<1>o. Offers(q) /\ q \notin admitted
  BY <1>c, <1>d, <1>e, <1>s DEF LoopInv, Admission, Offers, IsOffer
<1>a. /\ admitted' \subseteq admitted \cup {q} /\ admitted \subseteq admitted'
      /\ q \in admitted' <=> ok
  BY <1>o
<1>g. /\ rooms' \subseteq rooms \cup {q} /\ rooms \subseteq rooms'
      /\ q \in rooms' /\ q \notin rooms => ok /\ CommandOf(request[q]) = "AddStreamer"
  BY <1>d DEF AddStreamer
<1>m. [ok |-> ok] \in Message /\ Append(<<>>, [ok |-> ok]) = answer
  BY DEF Message
<1>b. answer \in Seq(Message) /\ Len(answer) = 1 /\ answer # <<>> /\ answer[1].ok = ok
  BY <1>m
<1>f. reply \in [Connection -> Seq(Message)]
  BY DEF LoopInv, LoopTypeOK
<1>h. reply' = [reply EXCEPT ![q] = answer]
  BY <1>e, <1>m DEF Reply
<1> HIDE DEF answer
<1>l. /\ reply' \in [Connection -> Seq(Message)]
      /\ \A p \in Connection : p # q => reply'[p] = reply[p]
      /\ reply'[q] = answer
  BY <1>h, <1>f, <1>b
<1>1. LoopTypeOK'
  <2>1. LoopTypeOK /\ channel' \in Seq(Command)
    BY <1>t DEF LoopInv, Shifted
  <2>2. rooms' \subseteq Connection /\ admitted' \subseteq Connection
    BY ONLY <2>1, <1>a, <1>g, q \in Connection DEF LoopTypeOK
  <2> QED
    BY ONLY <2>1, <2>2, <1>l, <1>u DEF LoopTypeOK
<1>2. Queued'
  BY <1>u DEF LoopInv, Queued
<1>3. ReplyChannelOpen'
  BY <1>t, <1>u, ShiftOpen DEF LoopInv
<1>4. OneUnderWay'
  <2>1. Len(reply'[q]) <= 1
    BY <1>l, <1>b
  <2> QED
    BY <1>t, <1>l, <1>e, <2>1, ShiftOne DEF LoopInv
<1>5. Waiting'
  <2>1. \A p \in Connection : stage[p] \in {"idle", "queued", "parsing", "sleeping"} =>
          reply'[p] = reply[p] /\ (p \in admitted' => p \in admitted)
    BY <1>l, <1>s, <1>a
  <2> QED
    BY <1>t, <1>u, <2>1, ShiftWaiting DEF LoopInv
<1>6. Submitted'
  BY <1>t, <1>u, ShiftSubmitted DEF LoopInv
<1>7. Replies'
  <2> SUFFICES ASSUME NEW p \in Connection, reply'[p] # <<>>, Offers(p)
               PROVE  stage[p] = "awaiting" /\ (reply'[p][1].ok <=> p \in admitted')
    BY <1>u DEF Replies, Offers
  <2>1. CASE p = q
    BY <2>1, <1>l, <1>b, <1>s, <1>a
  <2>2. CASE p # q
    BY <2>2, <1>l, <1>a DEF LoopInv, Replies
  <2> QED
    BY <2>1, <2>2
<1>8. Admission'
  <2>1. \A p \in admitted' :
          Offers(p) /\ ((stage[p] = "awaiting" /\ reply'[p] # <<>>)
                          \/ (stage[p] = "done" /\ Succeeded(p)))
    <3>1. \A p \in admitted : p # q /\ p \in Connection
      BY <1>o DEF LoopInv, LoopTypeOK
    <3>2. \A p \in admitted :
            Offers(p) /\ ((stage[p] = "awaiting" /\ reply[p] # <<>>)
                            \/ (stage[p] = "done" /\ Succeeded(p)))
      BY DEF LoopInv, Admission
    <3>3. Offers(q) /\ stage[q] = "awaiting" /\ reply'[q] # <<>>
      BY <1>o, <1>s, <1>l, <1>b
    <3> QED
      BY <3>1, <3>2, <3>3, <1>l, <1>a
  <2>2. rooms' \subseteq admitted' /\ \A p \in rooms' : CommandOf(request[p]) = "AddStreamer"
    BY <1>a, <1>g DEF LoopInv, Admission
  <2>3. /\ \A p \in Connection :
             (request[p].path \in {"/whip", "/whep"} /\ Succeeded(p)) => p \in admitted'
        /\ \A p \in Connection : \A k \in known[p] : k \in admitted' /\ request[k].path = "/whip"
    BY <1>a DEF LoopInv, Admission
  <2> QED
    BY <1>u, <2>1, <2>2, <2>3 DEF Admission, Offers, Succeeded
<1>9. ReportsAreCurrent'
  <2> SUFFICES ASSUME NEW p \in Connection, NEW i \in DOMAIN reply'[p],
                      CommandOf(request[p]) = "SendRoomsStatus"
               PROVE  known[p] \subseteq reply'[p][i].rooms \cup Closed'
    BY <1>u DEF ReportsAreCurrent
  <2>2. p # q /\ reply'[p] = reply[p]
    BY <1>l, <1>o DEF Offers
  <2>3. Closed \subseteq Closed'
    BY <1>u, <1>o, <1>a, <1>g DEF Closed
  <2> QED
    BY <2>2, <2>3 DEF LoopInv, ReportsAreCurrent
<1> QED
  BY <1>1, <1>2, <1>3, <1>4, <1>5, <1>6, <1>7, <1>8, <1>9 DEF LoopInv

LEMMA HandleAddStep ==
  ASSUME LoopInv, NEW q \in Connection, HandleAddStreamer(q) \/ HandleAddViewer(q)
  PROVE  LoopInv'
<1>1. AddStreamer(q) # AddViewer(q)
  BY DEF AddStreamer, AddViewer
<1>2. CASE HandleAddStreamer(q)
  <2>1. CASE Reply(q, [ok |-> TRUE]) /\ rooms' = rooms \cup {q} /\ admitted' = admitted \cup {q}
    BY ZenonT(30), <1>2, <2>1, OfferStep DEF HandleAddStreamer
  <2>2. CASE Reject(q)
    BY ZenonT(30), <1>2, <2>2, OfferStep DEF HandleAddStreamer, Reject
  <2> QED
    BY <1>2, <2>1, <2>2 DEF HandleAddStreamer
<1>3. CASE HandleAddViewer(q)
  <2>1. CASE Reply(q, [ok |-> TRUE]) /\ rooms' = rooms /\ admitted' = admitted \cup {q}
    BY ZenonT(30), <1>1, <1>3, <2>1, OfferStep DEF HandleAddViewer
  <2>2. CASE Reject(q)
    BY ZenonT(30), <1>3, <2>2, OfferStep DEF HandleAddViewer, Reject
  <2> QED
    BY <1>3, <2>1, <2>2 DEF HandleAddViewer
<1> QED
  BY <1>2, <1>3

LEMMA StutterStep == ASSUME LoopInv, UNCHANGED loop_vars PROVE LoopInv'
<1>u. /\ request' = request /\ stage' = stage /\ backlog' = backlog
      /\ channel' = channel /\ reply' = reply /\ response' = response
      /\ rooms' = rooms /\ admitted' = admitted /\ known' = known
  BY DEF loop_vars
<1>i. /\ LoopTypeOK /\ Queued /\ ReplyChannelOpen /\ OneUnderWay /\ Waiting
      /\ Submitted /\ Replies /\ Admission /\ ReportsAreCurrent
  BY DEF LoopInv
<1>1. LoopTypeOK'
  BY ONLY ZenonT(60), <1>u, <1>i DEF LoopTypeOK
<1>2. Queued'
  BY ONLY ZenonT(60), <1>u, <1>i DEF Queued
<1>3. ReplyChannelOpen' /\ Submitted'
  BY ONLY ZenonT(60), <1>u, <1>i DEF ReplyChannelOpen, Submitted
<1>4. OneUnderWay'
  <2>1. \A i, q : IsFrom(i, q)' <=> IsFrom(i, q)
    BY ONLY <1>u DEF IsFrom
  <2> QED
    BY ONLY <1>u, <1>i, <2>1 DEF OneUnderWay
<1>5. Waiting'
  <2>1. \A q : (Silent(q)' <=> Silent(q)) /\ (Listens(q)' <=> Listens(q))
    BY ONLY <1>u DEF Silent, IsFrom, Listens
  <2> QED
    BY ONLY <1>u, <1>i, <2>1 DEF Waiting
<1>6. Replies'
  BY ONLY ZenonT(60), <1>u, <1>i DEF Replies, Offers
<1>7. Admission'
  <2>1. \A q : (Offers(q)' <=> Offers(q)) /\ (Succeeded(q)' <=> Succeeded(q))
    BY ONLY <1>u DEF Offers, Succeeded
  <2> QED
    BY ONLY <1>u, <1>i, <2>1 DEF Admission
<1>8. ReportsAreCurrent'
  BY ONLY ZenonT(60), <1>u, <1>i DEF ReportsAreCurrent, Closed
<1> QED
  BY <1>1, <1>2, <1>3, <1>4, <1>5, <1>6, <1>7, <1>8 DEF LoopInv

LEMMA LoopStep == LoopInv /\ [LoopNext]_loop_vars => LoopInv'
<1> SUFFICES ASSUME LoopInv, [LoopNext]_loop_vars
             PROVE  LoopInv'
  OBVIOUS
<1>1. ASSUME NEW q \in Connection, Worker(q)
      PROVE  LoopInv'
  BY <1>1, DropStep, AnswerAloneStep, SubmitOfferStep, AskRoomsStep, GreetStep,
     ReceiveAnswerStep, NotifyStep, WakeStep
  DEF Worker
<1>2. CASE MainStep
  BY <1>2, HandleAddStep, HandleSendRoomsStatusStep, HandlePacketStep, RunPeriodicChecksStep
  DEF MainStep
<1>3. CASE start_udp_server \/ start_timeout_interval
  BY <1>3, SendCommandStep DEF start_udp_server, start_timeout_interval
<1> QED
  BY <1>1, <1>2, <1>3, ConnectStep, StartJobStep, StutterStep DEF LoopNext

------------------------------------------------------------------------------
\* Theorems.

\* The types of the state are kept by all threads: commands in the channel are
\* those of ServerCommand, and every response has a status the routes know.
THEOREM LoopTypeCorrect == LoopSpec => []LoopTypeOK
<1>1. LoopInv => LoopTypeOK
  BY DEF LoopInv
<1> QED
  BY <1>1, LoopStart, LoopStep, PTL DEF LoopSpec

\* expect("Response channel should remain open") of the main thread never
\* fails: whoever sent an AddStreamer or AddViewer waits for its answer.
THEOREM ReplyChannelsStayOpen == LoopSpec => []ReplyChannelOpen
<1>1. LoopInv => ReplyChannelOpen
  BY DEF LoopInv
<1> QED
  BY <1>1, LoopStart, LoopStep, PTL DEF LoopSpec

\* An HTTP connection has at most one command in the channel or one answer to
\* read, however often a client of /notifications asks.
THEOREM OneMessageUnderWay == LoopSpec => []OneUnderWay
<1>1. LoopInv => OneUnderWay
  BY DEF LoopInv
<1> QED
  BY <1>1, LoopStart, LoopStep, PTL DEF LoopSpec

\* A report of rooms, whenever it is read, names every streamer whose offer was
\* answered before the report was asked for, but for rooms closed since.
THEOREM ReportsStayCurrent == LoopSpec => []ReportsAreCurrent
<1>1. LoopInv => ReportsAreCurrent
  BY DEF LoopInv
<1> QED
  BY <1>1, LoopStart, LoopStep, PTL DEF LoopSpec

\* The status a worker answers an offer with tells whether the main thread
\* registered a session for it.
THEOREM StatusIsTruthful == LoopSpec => []StatusTruthful
<1>1. LoopInv => StatusTruthful
  BY DEF LoopInv, LoopTypeOK, Admission, StatusTruthful
<1> QED
  BY <1>1, LoopStart, LoopStep, PTL DEF LoopSpec

\* No room is opened without the token and nobody is registered without an
\* offer, although the main thread itself looks at neither.
THEOREM OnlyTheInvited == LoopSpec => []OnlyInvited
<1>1. LoopInv => OnlyInvited
  <2> SUFFICES ASSUME LoopInv
               PROVE  OnlyInvited
    OBVIOUS
  <2>1. \A q \in admitted : request[q] \in Request
    BY LoopAssumption DEF LoopInv, LoopTypeOK
  <2> QED
    BY <2>1, Commands DEF LoopInv, Admission, Offers, OnlyInvited
<1> QED
  BY <1>1, LoopStart, LoopStep, PTL DEF LoopSpec

------------------------------------------------------------------------------
\* No thread waits in vain.

\* Nobody is left waiting for what will not come: a connection that waits for a
\* worker has its job in the backlog of the pool, and a worker that waits for the
\* main thread has its command in the channel or its answer to read.  This is the
\* part of AllAnswered and ReportsKeepComing that does not depend on scheduling.
Underway(q) == reply[q] # <<>> \/ \E i \in DOMAIN channel : IsFrom(i, q)

InBacklog(q) == \E i \in DOMAIN backlog : backlog[i] = q

NoneStranded ==
  \A q \in Connection :
    /\ stage[q] = "queued" => InBacklog(q)
    /\ stage[q] \in {"greeting", "awaiting"} => Underway(q)

\* What was in the channel stays there when a command is added, and when another
\* connection's is taken.
LEMMA SentUnderway ==
  ASSUME channel \in Seq(Command), NEW c \in Command, channel' = Append(channel, c), NEW p
  PROVE  /\ reply'[p] = reply[p] /\ Underway(p) => Underway(p)'
         /\ Asks(c) /\ c.from = p => Underway(p)'
<1>1. PICK n : /\ DOMAIN channel' = DOMAIN channel \cup {n}
               /\ \A i \in DOMAIN channel : channel'[i] = channel[i]
               /\ channel'[n] = c
  BY Sent
<1>2. \A i \in DOMAIN channel : IsFrom(i, p) => IsFrom(i, p)'
  BY <1>1, Zenon DEF IsFrom
<1>3. Asks(c) /\ c.from = p => IsFrom(n, p)'
  BY <1>1, Zenon DEF IsFrom
<1> QED
  BY <1>1, <1>2, <1>3, Zenon DEF Underway

LEMMA TakenUnderway ==
  ASSUME channel \in Seq(Command), NEW c, Take(c), NEW p, ~ (Asks(c) /\ c.from = p),
         reply'[p] = reply[p], Underway(p)
  PROVE  Underway(p)'
<1>1. /\ 1 \in DOMAIN channel /\ channel[1] = c
      /\ \A i \in DOMAIN channel : i # 1 =>
           i - 1 \in DOMAIN channel' /\ channel'[i - 1] = channel[i]
  BY DEF Take
<1>2. CASE reply[p] # <<>>
  BY <1>2 DEF Underway
<1>3. ASSUME NEW i \in DOMAIN channel, IsFrom(i, p) PROVE Underway(p)'
  <2>1. i # 1
    BY <1>1, <1>3 DEF IsFrom
  <2>2. i - 1 \in DOMAIN channel' /\ IsFrom(i - 1, p)'
    BY <1>1, <1>3, <2>1 DEF IsFrom
  <2> QED
    BY <2>2 DEF Underway
<1> QED
  BY <1>2, <1>3 DEF Underway

\* An answer to q, whose command is taken, leaves it with something to read.
LEMMA AnsweredUnderway ==
  ASSUME LoopInv, NEW q \in Connection, NEW message, Reply(q, message)
  PROVE  /\ Underway(q)'
         /\ \A p \in Connection : p # q => reply'[p] = reply[p]
<1>1. reply[q] \in Seq(Message) /\ reply \in [Connection -> Seq(Message)]
  BY DEF LoopInv, LoopTypeOK
<1>2. Append(reply[q], message) # <<>>
  BY <1>1
<1> QED
  BY <1>1, <1>2 DEF Reply, Underway

\* A worker's step that leaves the channel alone concerns its connection only.
LEMMA WorkerKeeps ==
  ASSUME LoopInv, NoneStranded, NEW q \in Connection, NEW S, UNCHANGED <<backlog, channel>>,
         NEW next \in S, Goto(q, next),
         \A p \in Connection : p # q => reply'[p] = reply[p],
         next \notin {"queued", "greeting", "awaiting"} \/
           (stage[q] = "greeting" /\ next = "awaiting" /\ UNCHANGED reply)
  PROVE  NoneStranded'
<1> SUFFICES ASSUME NEW p \in Connection
             PROVE  /\ stage'[p] = "queued" => InBacklog(p)'
                    /\ stage'[p] \in {"greeting", "awaiting"} => Underway(p)'
  BY DEF NoneStranded
<1>1. /\ p # q => stage'[p] = stage[p] /\ reply'[p] = reply[p]
      /\ p = q => stage'[p] = next
  BY DEF Goto, LoopInv, LoopTypeOK
<1>2. InBacklog(p)' <=> InBacklog(p)
  BY DEF InBacklog
<1>3. reply'[p] = reply[p] => (Underway(p)' <=> Underway(p))
  BY DEF Underway, IsFrom
<1> QED
  BY <1>1, <1>2, <1>3 DEF NoneStranded

\* A worker that sends a command waits for the answer to it.
LEMMA AskingKeeps ==
  ASSUME LoopInv, NoneStranded, NEW q \in Connection, NEW next \in {"greeting", "awaiting"},
         NEW c \in Command, Asks(c), c.from = q, channel' = Append(channel, c),
         Goto(q, next), UNCHANGED <<backlog, reply>>
  PROVE  NoneStranded'
<1> SUFFICES ASSUME NEW p \in Connection
             PROVE  /\ stage'[p] = "queued" => InBacklog(p)'
                    /\ stage'[p] \in {"greeting", "awaiting"} => Underway(p)'
  BY DEF NoneStranded
<1>1. /\ p # q => stage'[p] = stage[p]
      /\ p = q => stage'[p] = next
  BY DEF Goto, LoopInv, LoopTypeOK
<1>2. InBacklog(p)' <=> InBacklog(p)
  BY DEF InBacklog
<1>3. (Underway(p) => Underway(p)') /\ (p = q => Underway(p)')
  BY SentUnderway DEF LoopInv, LoopTypeOK
<1> QED
  BY <1>1, <1>2, <1>3 DEF NoneStranded

LEMMA WorkerStrandsNone ==
  ASSUME LoopInv, NoneStranded, NEW q \in Connection, Worker(q)
  PROVE  NoneStranded'
<1>r. reply \in [Connection -> Seq(Message)]
  BY DEF LoopInv, LoopTypeOK
<1>1. CASE Drop(q) \/ AnswerAlone(q)
  BY <1>1, WorkerKeeps, Zenon DEF Drop, AnswerAlone
<1>2. CASE Greet(q)
  BY <1>2, WorkerKeeps, Zenon DEF Greet
<1>3. CASE ReceiveAnswer(q)
  BY <1>3, <1>r, WorkerKeeps, Zenon DEF ReceiveAnswer
<1>4. CASE Notify(q)
  BY <1>4, <1>r, WorkerKeeps, Zenon DEF Notify
<1>5. CASE SubmitOffer(q)
  <2> DEFINE c == [type |-> CommandOf(request[q]), from |-> q]
  <2>1. c \in Command /\ Asks(c) /\ c.from = q
    BY <1>5 DEF SubmitOffer, Command, Asks
  <2>2. channel' = Append(channel, c)
    BY <1>5 DEF SubmitOffer
  <2> HIDE DEF c
  <2> QED
    BY <1>5, <2>1, <2>2, AskingKeeps DEF SubmitOffer
<1>6. CASE AskRooms(q) \/ Wake(q)
  <2>1. /\ SendRoomsStatus(q) \in Command /\ Asks(SendRoomsStatus(q))
        /\ SendRoomsStatus(q).from = q
    BY DEF SendRoomsStatus, Command, Asks
  <2>2. /\ channel' = Append(channel, SendRoomsStatus(q))
        /\ UNCHANGED <<backlog, reply>>
        /\ \E next \in {"greeting", "awaiting"} : Goto(q, next)
    BY <1>6, Zenon DEF AskRooms, Wake, RequestStatus
  <2> QED
    BY <2>1, <2>2, AskingKeeps
<1> QED
  BY <1>1, <1>2, <1>3, <1>4, <1>5, <1>6 DEF Worker

\* The main thread takes c, and answers if it comes from a worker that waits.
LEMMA MainKeeps ==
  ASSUME LoopInv, NoneStranded, NEW c, Take(c), UNCHANGED <<stage, backlog>>,
         \A p \in Connection :
           \/ ~ (Asks(c) /\ c.from = p) /\ reply'[p] = reply[p]
           \/ Underway(p)'
           \/ stage[p] \notin {"greeting", "awaiting"}
  PROVE  NoneStranded'
<1> SUFFICES ASSUME NEW p \in Connection
             PROVE  /\ stage'[p] = "queued" => InBacklog(p)'
                    /\ stage'[p] \in {"greeting", "awaiting"} => Underway(p)'
  BY DEF NoneStranded
<1>1. InBacklog(p)' <=> InBacklog(p)
  BY DEF InBacklog
<1>2. ~ (Asks(c) /\ c.from = p) /\ reply'[p] = reply[p] /\ Underway(p) => Underway(p)'
  BY TakenUnderway DEF LoopInv, LoopTypeOK
<1> QED
  BY <1>1, <1>2 DEF NoneStranded

LEMMA MainStrandsNone ==
  ASSUME LoopInv, NoneStranded, MainStep
  PROVE  NoneStranded'
<1>1. CASE HandlePacket \/ RunPeriodicChecks
  <2>1. ~ Asks(Packet) /\ ~ Asks(Checks)
    BY DEF Asks, Packet, Checks
  <2>2. UNCHANGED <<stage, backlog, reply>> /\ (Take(Packet) \/ Take(Checks))
    BY <1>1, Zenon DEF HandlePacket, RunPeriodicChecks
  <2> QED
    BY <2>1, <2>2, MainKeeps
<1>2. ASSUME NEW q \in Connection, HandleAddStreamer(q) \/ HandleAddViewer(q)
      PROVE  NoneStranded'
  <2>1. /\ UNCHANGED <<stage, backlog>>
        /\ \E message : Reply(q, message)
        /\ Take(AddStreamer(q)) \/ Take(AddViewer(q))
    BY <1>2, Zenon DEF HandleAddStreamer, HandleAddViewer, Reject
  <2>2. AddStreamer(q).from = q /\ AddViewer(q).from = q
    BY DEF AddStreamer, AddViewer
  <2>3. Underway(q)' /\ \A p \in Connection : p # q => reply'[p] = reply[p]
    BY <2>1, AnsweredUnderway
  <2> QED
    BY <2>1, <2>2, <2>3, MainKeeps
<1>3. ASSUME NEW q \in Connection, HandleSendRoomsStatus(q)
      PROVE  NoneStranded'
  <2>1. Take(SendRoomsStatus(q)) /\ UNCHANGED <<stage, backlog>>
    BY <1>3, Zenon DEF HandleSendRoomsStatus
  <2>2. SendRoomsStatus(q).from = q
    BY DEF SendRoomsStatus
  <2>3. CASE Open(q)
    <3>1. \E message : Reply(q, message)
      BY <1>3, <2>3, Zenon DEF HandleSendRoomsStatus
    <3>2. Underway(q)' /\ \A p \in Connection : p # q => reply'[p] = reply[p]
      BY <3>1, AnsweredUnderway
    <3> QED
      BY <2>1, <2>2, <3>2, MainKeeps
  <2>4. CASE ~ Open(q)
    <3>1. reply' = reply /\ stage[q] \notin {"greeting", "awaiting"}
      BY <1>3, <2>4 DEF HandleSendRoomsStatus, Open
    <3> QED
      BY <2>1, <2>2, <3>1, MainKeeps
  <2> QED
    BY <2>3, <2>4
<1> QED
  BY <1>1, <1>2, <1>3 DEF MainStep

LEMMA NextStrandsNone ==
  ASSUME LoopInv, NoneStranded, [LoopNext]_loop_vars
  PROVE  NoneStranded'
<1>t. /\ backlog \in Seq(Connection) /\ channel \in Seq(Command)
      /\ stage \in [Connection -> Stage]
  BY DEF LoopInv, LoopTypeOK
<1>1. ASSUME NEW q \in Connection, Connect(q)
      PROVE  NoneStranded'
  <2>1. /\ DOMAIN backlog' = DOMAIN backlog \cup {Len(backlog) + 1}
        /\ \A i \in DOMAIN backlog : backlog'[i] = backlog[i]
        /\ backlog'[Len(backlog) + 1] = q
    BY <1>1, <1>t DEF Connect
  <2>2. /\ \A p : InBacklog(p) => InBacklog(p)'
        /\ InBacklog(q)'
    BY <2>1 DEF InBacklog
  <2>3. \A p \in Connection : /\ Underway(p)' <=> Underway(p)
                              /\ p # q => stage'[p] = stage[p]
                              /\ stage'[q] = "queued"
    BY <1>1, <1>t DEF Connect, Goto, Underway, IsFrom
  <2> QED
    BY <2>2, <2>3 DEF NoneStranded
<1>2. CASE StartJob
  <2>1. /\ \A i \in DOMAIN backlog : i # 1 =>
             i - 1 \in DOMAIN backlog' /\ backlog'[i - 1] = backlog[i]
        /\ backlog[1] = Head(backlog) /\ Head(backlog) \in Connection
    BY <1>2, <1>t DEF StartJob
  <2>2. \A p : InBacklog(p) /\ p # Head(backlog) => InBacklog(p)'
    BY <2>1 DEF InBacklog
  <2>3. \A p \in Connection : /\ Underway(p)' <=> Underway(p)
                              /\ p # Head(backlog) => stage'[p] = stage[p]
    BY <1>2, <1>t DEF StartJob, Goto, Underway, IsFrom
  <2>4. stage'[Head(backlog)] = "parsing"
    BY <1>2, <1>t, <2>1 DEF StartJob, Goto
  <2> QED
    BY <2>2, <2>3, <2>4 DEF NoneStranded
<1>3. CASE start_udp_server \/ start_timeout_interval
  <2>1. PICK c \in {Packet, Checks} : SendCommand(c)
    BY <1>3 DEF start_udp_server, start_timeout_interval
  <2>2. c \in Command /\ channel' = Append(channel, c) /\ UNCHANGED <<stage, backlog, reply>>
    BY <2>1 DEF SendCommand, Command
  <2>3. \A p : Underway(p) => Underway(p)'
    BY <1>t, <2>2, SentUnderway
  <2> QED
    BY <2>2, <2>3 DEF NoneStranded, InBacklog
<1>4. CASE UNCHANGED loop_vars
  BY <1>4 DEF loop_vars, NoneStranded, InBacklog, Underway, IsFrom
<1> QED
  BY <1>1, <1>2, <1>3, <1>4, WorkerStrandsNone, MainStrandsNone DEF LoopNext

\* However the threads interleave and whichever clients go away, no request is
\* forgotten between the pool, the channel and the reply channels.
THEOREM NobodyIsStranded == LoopSpec => []NoneStranded
<1>1. LoopInit => NoneStranded
  BY DEF LoopInit, NoneStranded
<1> QED
  BY <1>1, LoopStart, LoopStep, NextStrandsNone, PTL DEF LoopSpec

==============================================================================
