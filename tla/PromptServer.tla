---------------------------- MODULE PromptServer -----------------------------
(***************************************************************************)
(* MediaServer with the timer thread of start_timeout_interval and a main  *)
(* thread that keeps up with it: between two runs of the periodic checks    *)
(* pass exactly Period units of time.  Remote peers act at any moment.      *)
(***************************************************************************)
EXTENDS MediaServer

CONSTANT Period  \* sleep(Duration::from_secs(3))

ASSUME PeriodAssumption ==
  /\ Period \in Nat \ {0}
  /\ SessionTTL + Period < AgeCap
  /\ ThumbnailTTL + Period < AgeCap

VARIABLES
  timer,    \* time since the last RunPeriodicChecks
  save_age  \* history: time since the last save thread of each open room

timed_vars == <<vars, timer, save_age>>

TimedInit == Init /\ timer = 0 /\ save_age = EmptyMap

TimedTick ==
  /\ timer < Period
  /\ Tick
  /\ timer' = timer + 1
  /\ save_age' = [r \in DOMAIN save_age |-> Older(save_age[r])]

TimedChecks ==
  /\ timer = Period
  /\ RunPeriodicChecks
  /\ timer' = 0
  /\ save_age' = [r \in (DOMAIN save_age \cup spawned') \cap DOMAIN rooms' |->
                    IF r \in spawned' THEN 0 ELSE save_age[r]]

TimedCommand == RemoteCommand /\ UNCHANGED <<timer, save_age>>

TimedNext == TimedTick \/ TimedChecks \/ TimedCommand

TimedSpec == TimedInit /\ [][TimedNext]_timed_vars

------------------------------------------------------------------------------
TimedTypeOK ==
  /\ TypeOK
  /\ timer \in 0..Period
  /\ DOMAIN save_age \subseteq RoomId
  /\ save_age \in [DOMAIN save_age -> 0..AgeCap]

\* A peer that falls silent is forgotten within the ttl and one period of the
\* timer (5 s + 3 s in main.rs): no session is ever silent for longer, and the
\* rooms and viewer lists built on the sessions are never staler than that.
SilenceBounded == \A i \in DOMAIN sessions : age[i] <= SessionTTL + timer

\* The thumbnail of a streamer that ever got one is retaken within its ttl and
\* one period of the timer (120 s + 3 s).
ThumbnailFresh == \A i \in DOMAIN image_age : image_age[i] <= ThumbnailTTL + timer

\* Two save threads for the same open room start more than the thumbnail ttl
\* apart, so that they write its file at the same time only if a write takes
\* that long.
SavesPaced ==
  [][\A r \in spawned' : r \in DOMAIN save_age => save_age[r] > ThumbnailTTL]_timed_vars

==============================================================================
