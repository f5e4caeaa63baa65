---------------------------- MODULE MCCommandLoop ----------------------------
\* A small instance of CommandLoop: a streamer, one client that asks for
\* notifications, and two whose requests vary.
EXTENDS CommandLoop

CONSTANTS streamer, events, second, third

Base == [method |-> "GET", path |-> "/rooms", complete |-> TRUE, well_formed |-> TRUE,
         authorization |-> None, target_id |-> None, image |-> None, body |-> None]

Rooms == Base
Events == [Base EXCEPT !.path = "/notifications"]
Whip == [Base EXCEPT !.method = "POST", !.path = "/whip", !.authorization = Bearer,
                     !.body = "text"]
Whep == [Base EXCEPT !.method = "POST", !.path = "/whep", !.target_id = streamer,
                     !.body = "cut"]
Stalled == [Base EXCEPT !.complete = FALSE]

\* Requests that are answered, or dropped, by the worker alone.
Short ==
  {[Base EXCEPT !.method = "PUT"], [Base EXCEPT !.well_formed = FALSE],
   [Base EXCEPT !.path = "/favicon.ico"],
   [Whip EXCEPT !.authorization = None], [Whip EXCEPT !.authorization = "other"],
   [Whip EXCEPT !.body = "binary"], [Whip EXCEPT !.body = "huge"],
   [Whep EXCEPT !.method = "OPTIONS"], [Whep EXCEPT !.method = "GET"],
   [Whep EXCEPT !.target_id = "text"], [Whep EXCEPT !.body = None],
   [Base EXCEPT !.path = "/images", !.image = "room.webp"],
   [Base EXCEPT !.path = "/images", !.image = ".."]}

Sends(a, b, c, d) ==
  [q \in Connection |-> CASE q = streamer -> a [] q = events -> b
                          [] q = second -> c [] q = third -> d]

MCTraffic ==
  {Sends(Whip, Events, Rooms, Stalled), Sends(Whip, Events, Whep, Rooms)}
    \cup {Sends(r, Whep, Stalled, Rooms) : r \in Short}

==============================================================================
