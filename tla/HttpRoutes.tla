------------------------------ MODULE HttpRoutes ------------------------------
(***************************************************************************)
(* From an HTTP request to what its worker does with it: parse_http and     *)
(* map_http_err_to_response (http/parsers.rs), the match on the path and    *)
(* the routes (http/server.rs), the response (http/response_builder.rs).    *)
(*                                                                          *)
(* A request is a record of what these look at:                             *)
(*   method, path                                                           *)
(*   complete       the client sends it to the end                          *)
(*   well_formed    every part of the query has a "=", every header a ":"   *)
(*   authorization  the header's value, or None                             *)
(*   target_id      a room id, "text" for what is no number, or None        *)
(*   image          a file name, ".." for a path that has none, or None     *)
(*   body           "text", "binary" for what is not UTF-8, "cut" for a     *)
(*                  text of which less comes than content-length says,      *)
(*                  "huge" if no buffer can be as long as it says, or None  *)
(*                  without a content-length                                *)
(***************************************************************************)

CONSTANTS
  None,    \* Option::None
  Bearer   \* the value of the authorization header that whip_route expects

Method == {"GET", "POST", "OPTIONS", "DELETE"}

\* parse_http returns Some.  It returns None for an unknown method and for what
\* is not well formed.  It panics on a huge content-length, with which the pool
\* replaces the worker; the connection is closed in either case.
Parses(raw) == raw.method \in Method /\ raw.well_formed /\ raw.body # "huge"

\* The buffer for the body has the length the header says and read_exact's
\* error is ignored: the bytes that did not come are zeros, which are UTF-8.
HasText(raw) == raw.body \in {"text", "cut"}

HttpError == {"NotFound", "Unauthorized", "InternalServerError", "BadRequest",
              "MethodNotAllowed"}

\* The status of the response to an error.
map_http_err_to_response(err) ==
  CASE err = "NotFound"            -> 404
    [] err = "Unauthorized"        -> 401
    [] err = "InternalServerError" -> 500
    [] err = "BadRequest"          -> 404
    [] err = "MethodNotAllowed"    -> 405

\* The status an error is displayed with.
Display(err) ==
  CASE err = "NotFound"            -> 404
    [] err = "Unauthorized"        -> 401
    [] err = "InternalServerError" -> 500
    [] err = "BadRequest"          -> 400
    [] err = "MethodNotAllowed"    -> 405

\* A response, with the error it was made from or None.
build(status) == [status |-> status, error |-> None]

ErrorResponse(err) == [status |-> map_http_err_to_response(err), error |-> err]

------------------------------------------------------------------------------
\* The error a route ends with before it asks the main thread, or None.

\* Mutant of whip_error: a request without the header is let through.
whip_error_lax(raw) ==
  IF raw.authorization \notin {None, Bearer} THEN "Unauthorized"
  ELSE IF ~ HasText(raw) THEN "BadRequest"
  ELSE None

whip_error(raw) ==
  IF raw.authorization # Bearer THEN "Unauthorized"
  ELSE IF ~ HasText(raw) THEN "BadRequest"
  ELSE None

whep_error(raw) ==
  IF raw.method = "OPTIONS" THEN None
  ELSE IF raw.method # "POST" THEN "MethodNotAllowed"
  ELSE IF raw.target_id \in {None, "text"} \/ ~ HasText(raw) THEN "BadRequest"
  ELSE None

images_error(raw) == IF raw.image \in {None, ".."} THEN "BadRequest" ELSE None

RouteError(raw) ==
  IF raw.path = "/whip" THEN whip_error(raw)
  ELSE IF raw.path = "/whep" THEN whep_error(raw)
  ELSE IF raw.path = "/images" THEN images_error(raw)
  ELSE IF raw.path \in {"/rooms", "/notifications"} THEN None
  ELSE "NotFound"

\* The command the route sends to the main thread, or None.
CommandOf(raw) ==
  IF RouteError(raw) # None THEN None
  ELSE IF raw.path = "/whip" THEN "AddStreamer"
  ELSE IF raw.path = "/whep" /\ raw.method = "POST" THEN "AddViewer"
  ELSE IF raw.path \in {"/rooms", "/notifications"} THEN "SendRoomsStatus"
  ELSE None

\* The responses of a route that sends no command: an error, options_route, or
\* images_route, where it depends on the disk whether there is such an image.
Alone(raw) ==
  IF RouteError(raw) # None THEN {ErrorResponse(RouteError(raw))}
  ELSE IF raw.path = "/images" THEN {build(200), ErrorResponse("NotFound")}
  ELSE {build(204)}

\* The response of whip_route, whep_route and rooms_route to the answer of the
\* main thread, which is FALSE for None.
Answered(raw, ok) ==
  IF raw.path = "/whip" THEN IF ok THEN build(201) ELSE ErrorResponse("NotFound")
  ELSE IF raw.path = "/whep" THEN IF ok THEN build(200) ELSE ErrorResponse("BadRequest")
  ELSE build(200)

==============================================================================
