---------------------------- MODULE ThumbnailStore ----------------------------
(***************************************************************************)
(* The thumbnails in the storage directory: the periodic checks hand them   *)
(* to threads (main.rs), which write the files in place (thumbnail.rs)      *)
(* while the HTTP workers read them (images_route in http/server.rs).       *)
(*                                                                          *)
(* fs::write opens the file, which empties it, and writes the picture at    *)
(* its own offset, in one or more calls; fs::read reads from the start till *)
(* it finds the end.  A picture is the number of the frame it shows, and    *)
(* takes as many parts as calls it is written with.  One room is modelled:  *)
(* each has a file of its own.                                              *)
(***************************************************************************)
EXTENDS Naturals, Sequences, FiniteSets

CONSTANTS
  Reader,         \* HTTP workers that serve images_route
  ThumbnailTTL,   \* Duration::from_secs(120) between two thumbnails
  SaveTime,       \* the longest time a save takes
  Pictures,       \* bound: pictures the extractor makes
  Failures,       \* bound: saves that fail
  PartsOf,        \* [1..Pictures -> number of parts]
  None            \* Option::None

ASSUME StoreAssumption ==
  /\ ThumbnailTTL \in Nat /\ SaveTime \in Nat /\ SaveTime <= ThumbnailTTL
  /\ Pictures \in Nat \ {0} /\ Failures \in Nat
  /\ PartsOf \in [1..Pictures -> Nat \ {0}]
  /\ None \notin Nat /\ None \notin Seq(Nat)

VARIABLES
  open,         \* the room exists
  picture,      \* number of the extractor's last_picture, 0 for None
  image_age,    \* time since image_timestamp or None
  saves,        \* save threads: picture, age, and parts written or None
  file,         \* parts in the room's file, or None if there is none
  failed,       \* saves that failed so far
  saved,        \* history: the picture that was saved last, 0 if it was cut short
  reader        \* what each worker has read, or None; history: no save was on
                \* its way meanwhile, and the picture there was

store_vars == <<open, picture, image_age, saves, file, failed, saved, reader>>

AgeCap == ThumbnailTTL + 1

StoreInit ==
  /\ open = TRUE /\ picture = 0 /\ image_age = None
  /\ saves = {} /\ file = None /\ failed = 0 /\ saved = 0
  /\ reader = [w \in Reader |-> None]

------------------------------------------------------------------------------
\* The main thread.

\* try_extract_thumbnail, when it decodes a frame.
TakePicture ==
  /\ open
  /\ picture < Pictures
  /\ picture' = picture + 1
  /\ UNCHANGED <<open, image_age, saves, file, failed, saved, reader>>

\* Mutants of ThumbnailDue: the time is not looked at; the thumbnail is taken
\* once.
ThumbnailDueAlways == picture # 0

ThumbnailDueOnce == picture # 0 /\ image_age = None

ThumbnailDue == picture # 0 /\ (image_age # None => image_age > ThumbnailTTL)

SpawnSave ==
  /\ open
  /\ ThumbnailDue
  /\ image_age' = 0
  /\ saves' = saves \cup {[picture |-> picture, age |-> 0, written |-> None]}
  /\ UNCHANGED <<open, picture, file, failed, saved, reader>>

\* The streamer's session is removed.  The threads go on, the file stays.
CloseRoom ==
  /\ open
  /\ open' = FALSE
  /\ UNCHANGED <<picture, image_age, saves, file, failed, saved, reader>>

\* Time passes, but no save takes longer than SaveTime.
Pass ==
  /\ \A s \in saves : s.age < SaveTime
  /\ image_age # None /\ (image_age < AgeCap \/ saves # {})
  /\ image_age' = IF image_age < AgeCap THEN image_age + 1 ELSE AgeCap
  /\ saves' = {[s EXCEPT !.age = @ + 1] : s \in saves}
  /\ UNCHANGED <<open, picture, file, failed, saved, reader>>

------------------------------------------------------------------------------
\* save_thumbnail_to_storage.

\* Mutant of OpenFile: the file is not emptied.
OpenFileKeep(s) ==
  /\ s.written = None
  /\ file' = IF file = None THEN <<>> ELSE file
  /\ saved' = 0
  /\ saves' = (saves \ {s}) \cup {[s EXCEPT !.written = 0]}
  /\ reader' = [w \in Reader |->
       IF reader[w] = None THEN None ELSE [reader[w] EXCEPT !.quiet = reader[w].done /\ @]]
  /\ UNCHANGED <<open, picture, image_age, failed>>

OpenFile(s) ==
  /\ s.written = None
  /\ file' = <<>>
  /\ saved' = 0
  /\ saves' = (saves \ {s}) \cup {[s EXCEPT !.written = 0]}
  /\ reader' = [w \in Reader |->
       IF reader[w] = None THEN None ELSE [reader[w] EXCEPT !.quiet = reader[w].done /\ @]]
  /\ UNCHANGED <<open, picture, image_age, failed>>

\* A part goes to the thread's own offset; the parts before it are empty if
\* another thread has cut the file since.
Hole == 0

Put(part, at) ==
  [i \in 1..(IF Len(file) > at THEN Len(file) ELSE at) |->
     IF i = at THEN part ELSE IF i <= Len(file) THEN file[i] ELSE Hole]

WritePart(s) ==
  /\ s.written # None
  /\ file' = Put(s.picture, s.written + 1)
  /\ IF s.written + 1 = PartsOf[s.picture]
       THEN saves' = saves \ {s} /\ saved' = s.picture
       ELSE saves' = (saves \ {s}) \cup {[s EXCEPT !.written = @ + 1]} /\ UNCHANGED saved
  /\ UNCHANGED <<open, picture, image_age, failed, reader>>

\* The error is logged; nothing else is done about it.
FailSave(s) ==
  /\ failed < Failures
  /\ failed' = failed + 1
  /\ saves' = saves \ {s}
  /\ UNCHANGED <<open, picture, image_age, file, saved, reader>>

------------------------------------------------------------------------------
\* images_route: 404 if there is no file.

Saving == \E s \in saves : s.written # None

Get(w) ==
  /\ reader[w] = None
  /\ file # None
  /\ reader' = [reader EXCEPT ![w] =
       [parts |-> <<>>, done |-> FALSE, quiet |-> ~ Saving /\ saved # 0, there |-> saved]]
  /\ UNCHANGED <<open, picture, image_age, saves, file, failed, saved>>

ReadPart(w) ==
  /\ reader[w] # None /\ ~ reader[w].done
  /\ reader' =
       IF Len(file) > Len(reader[w].parts)
         THEN [reader EXCEPT ![w].parts = Append(@, file[Len(@) + 1])]
         ELSE [reader EXCEPT ![w].done = TRUE]
  /\ UNCHANGED <<open, picture, image_age, saves, file, failed, saved>>

Respond(w) ==
  /\ reader[w] # None /\ reader[w].done
  /\ reader' = [reader EXCEPT ![w] = None]
  /\ UNCHANGED <<open, picture, image_age, saves, file, failed, saved>>

StoreNext ==
  \/ TakePicture \/ SpawnSave \/ CloseRoom \/ Pass
  \/ \E s \in saves : OpenFile(s) \/ WritePart(s) \/ FailSave(s)
  \/ \E w \in Reader : Get(w) \/ ReadPart(w) \/ Respond(w)

StoreSpec == StoreInit /\ [][StoreNext]_store_vars

\* The timer thread and the main loop keep running, and the operating system
\* lets every thread go on.
StoreFairness ==
  /\ WF_store_vars(SpawnSave)
  /\ WF_store_vars(Pass)
  /\ WF_store_vars(\E s \in saves : OpenFile(s) \/ WritePart(s))

StoreFairSpec == StoreSpec /\ StoreFairness

------------------------------------------------------------------------------
\* Properties.

Part == 0..Pictures

StoreTypeOK ==
  /\ open \in BOOLEAN /\ picture \in Part /\ saved \in Part
  /\ image_age \in 0..AgeCap \cup {None}
  /\ saves \subseteq [picture : 1..Pictures, age : 0..SaveTime,
                     written : {None} \cup Nat]
  /\ file # None => file \in Seq(Part)

Whole(p) == [i \in 1..PartsOf[p] |-> p]

\* The file settles: once no thread is writing it and the last save was not cut
\* short, it holds that picture and nothing else, and no thread is left that
\* would put an older one in its place.  The saves need no lock because the
\* timestamp keeps them apart.
FileSettled ==
  (saved # 0 /\ ~ Saving) =>
    /\ file = Whole(saved)
    /\ \A s \in saves : s.picture >= saved

\* A viewer that fetches an image while none is being saved gets the whole of the
\* picture that was there.  (While one is being saved they may get a part.)
QuietReadsWhole ==
  \A w \in Reader :
    (reader[w] # None /\ reader[w].done /\ reader[w].quiet)
      => reader[w].parts = Whole(reader[w].there)

\* The last picture of a streamer that stays is shown in the end, although saves
\* fail: a failed one is made up for when the next thumbnail is due.
ShownInTheEnd ==
  (picture = Pictures) ~> (~ open \/ (saved = Pictures /\ file = Whole(Pictures)))

==============================================================================
