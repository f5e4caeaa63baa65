------------------------- MODULE ThumbnailStoreProofs -------------------------
\* Proofs about ThumbnailStore, for every number of readers, pictures and parts.
EXTENDS ThumbnailStore, TLAPS

\* The first k parts of a picture.
Prefix(p, k) == [i \in 1..k |-> p]

\* One save at a time: it is as old as the timestamp, and younger than the next
\* thumbnail may be.
Alone ==
  /\ \A s, t \in saves : s = t
  /\ \A s \in saves : /\ image_age # None /\ s.age = image_age
                      /\ s.picture <= picture /\ saved <= s.picture

\* It has written the parts that the file has.
Written ==
  \A s \in saves : s.written # None =>
    /\ file = Prefix(s.picture, s.written)
    /\ s.written < PartsOf[s.picture]
    /\ saved = 0

Saved == saved <= picture /\ (saved # 0 => file = Whole(saved))

\* What a reader that was not disturbed has read so far.
ReaderOK(r) ==
  /\ r \in [parts : Seq(Part), done : BOOLEAN, quiet : BOOLEAN, there : Part]
  /\ r.quiet =>
       /\ r.there # 0
       /\ r.parts = Prefix(r.there, Len(r.parts))
       /\ Len(r.parts) <= PartsOf[r.there]
       /\ r.done => Len(r.parts) = PartsOf[r.there]
       /\ ~ r.done => saved = r.there

Readers ==
  /\ reader = [w \in Reader |-> reader[w]]
  /\ \A w \in Reader : reader[w] # None => ReaderOK(reader[w]) /\ file # None

StoreInv == StoreTypeOK /\ Alone /\ Written /\ Saved /\ Readers

\* None is no file.
LEMMA Sentinel == ASSUME NEW f \in Seq(Part) PROVE f # None
  <1>1. f \in Seq(Nat)
    BY StoreAssumption DEF Part
  <1> QED
    BY <1>1, StoreAssumption

LEMMA StoreStart == StoreInit => StoreInv
  <1> SUFFICES ASSUME StoreInit PROVE StoreInv
    OBVIOUS
  <1> USE StoreAssumption
  <1>1. StoreTypeOK
    BY DEF StoreInit, StoreTypeOK, Part
  <1>2. Alone /\ Written /\ Saved /\ Readers
    BY DEF StoreInit, Alone, Written, Saved, Readers
  <1> QED
    BY <1>1, <1>2 DEF StoreInv

LEMMA TakePictureStep == StoreInv /\ TakePicture => StoreInv'
  <1> SUFFICES ASSUME StoreInv, TakePicture PROVE StoreInv'
    OBVIOUS
  <1> USE StoreAssumption DEF StoreInv, TakePicture
  <1>1. StoreTypeOK'
    BY DEF StoreTypeOK, Part
  <1>2. Alone' /\ Saved'
    BY DEF Alone, Saved, StoreTypeOK, Part
  <1>3. Written' /\ Readers'
    BY DEF Written, Readers, ReaderOK
  <1> QED
    BY <1>1, <1>2, <1>3

LEMMA CloseRoomStep == StoreInv /\ CloseRoom => StoreInv'
  <1> SUFFICES ASSUME StoreInv, CloseRoom PROVE StoreInv'
    OBVIOUS
  <1> USE DEF StoreInv, CloseRoom
  <1>1. StoreTypeOK'
    BY Zenon DEF StoreTypeOK
  <1>2. Alone' /\ Written' /\ Saved' /\ Readers'
    BY DEF Alone, Written, Saved, Readers, ReaderOK
  <1> QED
    BY <1>1, <1>2

\* When a thumbnail is due the save before has ended, because it took less time.
LEMMA SpawnSaveStep == StoreInv /\ SpawnSave => StoreInv'
  <1> SUFFICES ASSUME StoreInv, SpawnSave PROVE StoreInv'
    OBVIOUS
  <1> USE StoreAssumption
  <1>1. saves = {}
    BY DEF StoreInv, SpawnSave, ThumbnailDue, Alone, StoreTypeOK, AgeCap
  <1>2. saves' = {[picture |-> picture, age |-> 0, written |-> None]}
    BY <1>1 DEF SpawnSave
  <1>3. picture \in 1..Pictures /\ saved \in Nat /\ saved <= picture /\ image_age' = 0
    BY DEF StoreInv, SpawnSave, ThumbnailDue, StoreTypeOK, Part, Saved
  <1>4. UNCHANGED <<open, picture, file, failed, saved, reader>>
    BY DEF SpawnSave
  <1>5. StoreTypeOK'
    BY <1>2, <1>3, <1>4 DEF StoreInv, StoreTypeOK, AgeCap
  <1>6. Alone' /\ Written'
    BY <1>2, <1>3, <1>4 DEF Alone, Written
  <1>7. Saved' /\ Readers'
    BY <1>4 DEF StoreInv, Saved, Readers, ReaderOK
  <1> QED
    BY <1>5, <1>6, <1>7 DEF StoreInv

LEMMA PassStep == StoreInv /\ Pass => StoreInv'
  <1> SUFFICES ASSUME StoreInv, Pass PROVE StoreInv'
    OBVIOUS
  <1> USE StoreAssumption
  <1>1. UNCHANGED <<open, picture, file, failed, saved, reader>>
    BY DEF Pass
  <1>2. \A t \in saves' : \E s \in saves : t = [s EXCEPT !.age = @ + 1] /\ s.age < SaveTime
    BY DEF Pass
  <1>3. \A s \in saves : s \in [picture : 1..Pictures, age : 0..SaveTime, written : {None} \cup Nat]
    BY DEF StoreInv, StoreTypeOK
  <1>4. \A t \in saves' : \E s \in saves :
          /\ t = [picture |-> s.picture, age |-> s.age + 1, written |-> s.written]
          /\ s.age < SaveTime
    BY <1>2, <1>3
  <1>5. image_age \in 0..AgeCap /\ image_age' = IF image_age < AgeCap THEN image_age + 1 ELSE AgeCap
    BY DEF Pass, StoreInv, StoreTypeOK
  <1>6. StoreTypeOK'
    <2>1. saves' \subseteq [picture : 1..Pictures, age : 0..SaveTime, written : {None} \cup Nat]
      BY <1>3, <1>4
    <2>2. image_age' \in 0..AgeCap
      BY <1>5 DEF AgeCap
    <2> QED
      BY <1>1, <2>1, <2>2 DEF StoreInv, StoreTypeOK
  <1>7. Alone'
    BY <1>1, <1>3, <1>4, <1>5 DEF StoreInv, Alone, AgeCap
  <1>8. Written'
    BY <1>1, <1>4 DEF StoreInv, Written
  <1>9. Saved' /\ Readers'
    BY <1>1 DEF StoreInv, Saved, Readers, ReaderOK
  <1> QED
    BY <1>6, <1>7, <1>8, <1>9 DEF StoreInv

LEMMA FailSaveStep ==
  ASSUME StoreInv, NEW s \in saves, FailSave(s) PROVE StoreInv'
  <1>1. UNCHANGED <<open, picture, image_age, file, saved, reader>> /\ saves' \subseteq saves
    BY DEF FailSave
  <1>2. StoreTypeOK'
    BY <1>1 DEF StoreInv, StoreTypeOK
  <1>3. Alone' /\ Written'
    BY <1>1 DEF StoreInv, Alone, Written
  <1>4. Saved' /\ Readers'
    BY <1>1 DEF StoreInv, Saved, Readers, ReaderOK
  <1> QED
    BY <1>2, <1>3, <1>4 DEF StoreInv

\* The thread that opens the file is the only one, and its readers are disturbed.
LEMMA OpenFileStep ==
  ASSUME StoreInv, NEW s \in saves, OpenFile(s) PROVE StoreInv'
  <1> USE StoreAssumption
  <1> DEFINE opened == [s EXCEPT !.written = 0]
  <1>1. s \in [picture : 1..Pictures, age : 0..SaveTime, written : {None} \cup Nat]
    BY DEF StoreInv, StoreTypeOK
  <1>2. opened = [picture |-> s.picture, age |-> s.age, written |-> 0]
    BY <1>1
  <1> HIDE DEF opened
  <1>3. saves' = {opened}
    <2>1. saves \ {s} = {}
      BY DEF StoreInv, Alone
    <2> QED
      BY <2>1 DEF OpenFile, opened
  <1>4. /\ UNCHANGED <<open, picture, image_age, failed>>
        /\ file' = <<>> /\ saved' = 0
        /\ reader' = [w \in Reader |->
             IF reader[w] = None THEN None ELSE [reader[w] EXCEPT !.quiet = reader[w].done /\ @]]
    BY DEF OpenFile
  <1>5. file' \in Seq(Part) /\ file' = Prefix(s.picture, 0)
    BY <1>4 DEF Prefix
  <1>6. StoreTypeOK'
    BY <1>1, <1>2, <1>3, <1>4, <1>5 DEF StoreInv, StoreTypeOK, Part
  <1>7. Alone'
    <2>1. saved' <= opened.picture /\ opened.age = image_age /\ opened.picture <= picture
      BY <1>1, <1>2, <1>4 DEF StoreInv, Alone
    <2> QED
      BY <1>3, <1>4, <2>1 DEF StoreInv, Alone
  <1>8. Written'
    <2>1. 0 < PartsOf[s.picture]
      BY <1>1
    <2> QED
      BY <1>2, <1>3, <1>4, <1>5, <2>1 DEF Written
  <1>9. Saved'
    BY <1>4 DEF StoreInv, StoreTypeOK, Part, Saved
  <1>10. Readers'
    <2>1. file' # None
      BY <1>5, Sentinel
    <2>2. ASSUME NEW w \in Reader, reader'[w] # None
          PROVE  ReaderOK(reader[w]) /\ reader'[w] = [reader[w] EXCEPT !.quiet = reader[w].done /\ @]
      BY <1>4, <2>2 DEF StoreInv, Readers
    <2>3. ASSUME NEW w \in Reader, reader'[w] # None
          PROVE  ReaderOK(reader[w])'
      <3>1. /\ ReaderOK(reader[w])
            /\ reader'[w] = [reader[w] EXCEPT !.quiet = reader[w].done /\ @]
        BY <2>2, <2>3
      <3>0. /\ reader[w].done \in BOOLEAN /\ reader[w].quiet \in BOOLEAN
            /\ (reader[w].done /\ reader[w].quiet) \in BOOLEAN
        BY <3>1 DEF ReaderOK
      <3>2. reader'[w] = [parts |-> reader[w].parts, done |-> reader[w].done,
                          quiet |-> reader[w].done /\ reader[w].quiet, there |-> reader[w].there]
        BY <3>1 DEF ReaderOK
      <3> QED
        BY <3>1, <3>2 DEF ReaderOK
    <2> QED
      BY <1>4, <2>1, <2>3 DEF Readers
  <1> QED
    BY <1>6, <1>7, <1>8, <1>9, <1>10 DEF StoreInv

LEMMA GetStep ==
  ASSUME StoreInv, NEW w \in Reader, Get(w) PROVE StoreInv'
  <1> USE StoreAssumption
  <1> DEFINE begun == [parts |-> <<>>, done |-> FALSE, quiet |-> ~ Saving /\ saved # 0, there |-> saved]
  <1>1. /\ UNCHANGED <<open, picture, image_age, saves, file, failed, saved>>
        /\ file # None
        /\ reader' = [reader EXCEPT ![w] = begun]
    BY DEF Get
  <1>2. StoreTypeOK' /\ Alone' /\ Written' /\ Saved'
    BY <1>1 DEF StoreInv, StoreTypeOK, Alone, Written, Saved
  <1>3. ReaderOK(begun)
    <2>1. <<>> \in Seq(Part) /\ <<>> = Prefix(saved, 0) /\ Len(<<>>) = 0
      BY DEF Prefix
    <2>2. begun \in [parts : Seq(Part), done : BOOLEAN, quiet : BOOLEAN, there : Part]
      BY <2>1 DEF StoreInv, StoreTypeOK
    <2>3. saved # 0 => 0 <= PartsOf[saved]
      BY DEF StoreInv, StoreTypeOK, Part
    <2> QED
      BY <2>1, <2>2, <2>3, Zenon DEF ReaderOK
  <1> HIDE DEF begun
  <1>4. Readers'
    BY <1>1, <1>3 DEF StoreInv, Readers, ReaderOK
  <1> QED
    BY <1>2, <1>4 DEF StoreInv

LEMMA RespondStep ==
  ASSUME StoreInv, NEW w \in Reader, Respond(w) PROVE StoreInv'
  <1>1. /\ UNCHANGED <<open, picture, image_age, saves, file, failed, saved>>
        /\ reader' = [reader EXCEPT ![w] = None]
    BY DEF Respond
  <1>2. StoreTypeOK' /\ Alone' /\ Written' /\ Saved'
    BY <1>1 DEF StoreInv, StoreTypeOK, Alone, Written, Saved
  <1>3. Readers'
    BY <1>1 DEF StoreInv, Readers, ReaderOK
  <1> QED
    BY <1>2, <1>3 DEF StoreInv

\* The thread that writes finds the file as it left it, so it appends.
LEMMA WritePartStep ==
  ASSUME StoreInv, NEW s \in saves, WritePart(s) PROVE StoreInv'
  <1> USE StoreAssumption
  <1>1. /\ s \in [picture : 1..Pictures, age : 0..SaveTime, written : {None} \cup Nat]
        /\ s.written # None
    BY DEF StoreInv, StoreTypeOK, WritePart
  <1>2. /\ s.written \in Nat /\ s.picture \in 1..Pictures /\ s.picture \in Part
        /\ file = Prefix(s.picture, s.written)
        /\ s.written + 1 <= PartsOf[s.picture]
        /\ PartsOf[s.picture] \in Nat
        /\ saved = 0 /\ saves = {s}
    BY <1>1 DEF StoreInv, Alone, Written, Part
  <1>3. /\ file' = Prefix(s.picture, s.written + 1)
        /\ file' \in Seq(Part) /\ file' # None
    <2>1. Len(file) = s.written
      BY <1>2 DEF Prefix
    <2>2. file' = Put(s.picture, s.written + 1)
      BY DEF WritePart
    <2>3. file' = Prefix(s.picture, s.written + 1)
      BY <1>2, <2>1, <2>2 DEF Put, Prefix
    <2>4. file' \in Seq(Part)
      BY <1>2, <2>3 DEF Prefix
    <2> QED
      BY <2>3, <2>4, Sentinel
  <1>4. UNCHANGED <<open, picture, image_age, failed, reader>>
    BY DEF WritePart
  <1>5. Readers'
    <2>1. ASSUME NEW w \in Reader, reader[w] # None
          PROVE  ReaderOK(reader[w]) /\ (reader[w].quiet => reader[w].done)
      BY <1>2, <2>1 DEF StoreInv, Readers, ReaderOK
    <2>2. ASSUME NEW w \in Reader, reader[w] # None
          PROVE  ReaderOK(reader[w])'
      BY <1>4, <2>1, <2>2 DEF ReaderOK
    <2> QED
      BY <1>3, <1>4, <2>2 DEF StoreInv, Readers
  <1>6. CASE s.written + 1 = PartsOf[s.picture]
    <2>1. saves' = {} /\ saved' = s.picture
      BY <1>2, <1>6 DEF WritePart
    <2>2. StoreTypeOK'
      BY <1>2, <1>3, <1>4, <2>1 DEF StoreInv, StoreTypeOK
    <2>3. Alone' /\ Written'
      BY <2>1 DEF Alone, Written
    <2>4. Saved'
      BY <1>2, <1>3, <1>4, <1>6, <2>1 DEF StoreInv, Alone, Saved, Prefix, Whole
    <2> QED
      BY <1>5, <2>2, <2>3, <2>4 DEF StoreInv
  <1>7. CASE s.written + 1 # PartsOf[s.picture]
    <2> DEFINE next == [s EXCEPT !.written = @ + 1]
    <2>1. next = [picture |-> s.picture, age |-> s.age, written |-> s.written + 1]
      BY <1>1
    <2>2. saves' = {next} /\ saved' = 0
      BY <1>2, <1>7 DEF WritePart
    <2> HIDE DEF next
    <2>3. StoreTypeOK'
      BY <1>1, <1>2, <1>3, <1>4, <2>1, <2>2 DEF StoreInv, StoreTypeOK, Part
    <2>4. Alone'
      <3>1. saved' <= next.picture /\ next.age = image_age /\ next.picture <= picture
        BY <1>1, <1>2, <2>1, <2>2 DEF StoreInv, Alone
      <3> QED
        BY <1>4, <2>2, <3>1 DEF StoreInv, Alone
    <2>5. Written'
      BY <1>2, <1>3, <1>7, <2>1, <2>2 DEF Written
    <2>6. Saved'
      BY <1>4, <2>2 DEF StoreInv, StoreTypeOK, Part, Saved
    <2> QED
      BY <1>5, <2>3, <2>4, <2>5, <2>6 DEF StoreInv
  <1> QED
    BY <1>6, <1>7

LEMMA ReaderFields ==
  ASSUME NEW r \in [parts : Seq(Part), done : BOOLEAN, quiet : BOOLEAN, there : Part],
         NEW p \in Seq(Part), NEW m, m = [r EXCEPT !.parts = p],
         NEW f, f = [r EXCEPT !.done = TRUE]
  PROVE  /\ m \in [parts : Seq(Part), done : BOOLEAN, quiet : BOOLEAN, there : Part]
         /\ m.parts = p /\ m.done = r.done /\ m.quiet = r.quiet /\ m.there = r.there
         /\ f \in [parts : Seq(Part), done : BOOLEAN, quiet : BOOLEAN, there : Part]
         /\ f.parts = r.parts /\ f.done = TRUE /\ f.quiet = r.quiet /\ f.there = r.there
  BY Zenon

\* A reader that was not disturbed reads the picture that was saved last.
LEMMA ReadPartStep ==
  ASSUME StoreInv, NEW w \in Reader, ReadPart(w) PROVE StoreInv'
  <1> USE StoreAssumption
  <1> DEFINE r == reader[w]
             parts == Append(r.parts, file[Len(r.parts) + 1])
             more == [r EXCEPT !.parts = parts]
             finished == [r EXCEPT !.done = TRUE]
             later == IF Len(file) > Len(r.parts) THEN more ELSE finished
  <1>1. /\ UNCHANGED <<open, picture, image_age, saves, file, failed, saved>>
        /\ r # None /\ ~ r.done
        /\ reader' = [reader EXCEPT ![w] = later]
    <2>1. reader' = IF Len(file) > Len(r.parts) THEN [reader EXCEPT ![w] = more]
                                                ELSE [reader EXCEPT ![w] = finished]
      BY DEF ReadPart
    <2> QED
      BY <2>1, Zenon DEF ReadPart
  <1>2. StoreTypeOK' /\ Alone' /\ Written' /\ Saved'
    BY <1>1 DEF StoreInv, StoreTypeOK, Alone, Written, Saved
  <1>3. /\ r \in [parts : Seq(Part), done : BOOLEAN, quiet : BOOLEAN, there : Part]
        /\ ReaderOK(r) /\ file # None /\ file \in Seq(Part)
        /\ r.parts \in Seq(Part) /\ r.there \in Part /\ r.quiet \in BOOLEAN
    BY <1>1 DEF StoreInv, StoreTypeOK, Readers, ReaderOK
  <1>4. r.quiet => /\ r.there \in 1..Pictures /\ PartsOf[r.there] \in Nat
                   /\ file = Prefix(r.there, PartsOf[r.there])
                   /\ Len(file) = PartsOf[r.there]
                   /\ r.parts = Prefix(r.there, Len(r.parts))
                   /\ Len(r.parts) <= PartsOf[r.there]
                   /\ saved = r.there
    BY <1>1, <1>3 DEF StoreInv, Saved, ReaderOK, Whole, Prefix, Part
  <1>5. CASE Len(file) > Len(r.parts)
    <2>2. parts \in Seq(Part) /\ Len(parts) = Len(r.parts) + 1
      BY <1>3, <1>5
    <2>3. r.quiet => parts = Prefix(r.there, Len(r.parts) + 1)
      BY <1>3, <1>4, <1>5, <2>2 DEF Prefix
    <2> HIDE DEF parts
    <2>1. /\ more \in [parts : Seq(Part), done : BOOLEAN, quiet : BOOLEAN, there : Part]
          /\ more.parts = parts /\ more.done = r.done
          /\ more.quiet = r.quiet /\ more.there = r.there
      BY <1>3, <2>2, ReaderFields, Zenon
    <2> HIDE DEF more
    <2>4. ReaderOK(more)
      <3>1. more \in [parts : Seq(Part), done : BOOLEAN, quiet : BOOLEAN, there : Part]
        BY <1>1, <1>3, <2>1, <2>2 DEF ReaderOK
      <3>2. Len(parts) <= Len(file)
        BY <1>3, <1>5, <2>2
      <3> QED
        BY <1>1, <1>4, <2>1, <2>2, <2>3, <3>1, <3>2 DEF ReaderOK
    <2> QED
      BY <1>1, <1>2, <1>5, <2>4, Zenon DEF StoreInv, Readers, ReaderOK
  <1>6. CASE ~ (Len(file) > Len(r.parts))
    <2>1. /\ finished \in [parts : Seq(Part), done : BOOLEAN, quiet : BOOLEAN, there : Part]
          /\ finished.parts = r.parts /\ finished.done = TRUE
          /\ finished.quiet = r.quiet /\ finished.there = r.there
      BY <1>3, ReaderFields, Zenon
    <2> HIDE DEF finished
    <2>2. r.quiet => Len(r.parts) = PartsOf[r.there]
      BY <1>3, <1>4, <1>6
    <2>3. ReaderOK(finished)
      BY <1>3, <1>4, <2>1, <2>2 DEF ReaderOK
    <2> QED
      BY <1>1, <1>2, <1>6, <2>3, Zenon DEF StoreInv, Readers, ReaderOK
  <1> QED
    BY <1>5, <1>6

LEMMA StoreStep == StoreInv /\ [StoreNext]_store_vars => StoreInv'
  <1> SUFFICES ASSUME StoreInv, [StoreNext]_store_vars PROVE StoreInv'
    OBVIOUS
  <1>1. CASE UNCHANGED store_vars
    BY <1>1 DEF store_vars, StoreInv, StoreTypeOK, Alone, Written, Saved, Readers, ReaderOK
  <1>2. ASSUME NEW s \in saves, OpenFile(s) \/ WritePart(s) \/ FailSave(s) PROVE StoreInv'
    BY <1>2, OpenFileStep, WritePartStep, FailSaveStep
  <1>3. ASSUME NEW w \in Reader, Get(w) \/ ReadPart(w) \/ Respond(w) PROVE StoreInv'
    BY <1>3, GetStep, ReadPartStep, RespondStep
  <1> QED
    BY <1>1, <1>2, <1>3, TakePictureStep, SpawnSaveStep, CloseRoomStep, PassStep
       DEF StoreNext

LEMMA StoreInvariant == StoreSpec => []StoreInv
  BY StoreStart, StoreStep, PTL DEF StoreSpec

\* The file of a room settles whatever the threads and the readers do: the
\* timestamp that spaces the saves (main.rs) keeps two of them from being in
\* save_thumbnail_to_storage at once, so that the file is whole between saves and
\* never goes back to an older picture.
THEOREM FilesSettle == StoreSpec => []FileSettled
  <1>1. StoreInv => FileSettled
    BY StoreAssumption DEF StoreInv, Alone, Saved, StoreTypeOK, Part, FileSettled
  <1> QED
    BY <1>1, StoreInvariant, PTL

\* A worker in images_route that no save disturbs serves a whole picture.
THEOREM QuietReadsAreWhole == StoreSpec => []QuietReadsWhole
  <1>1. StoreInv => QuietReadsWhole
    BY Zenon DEF StoreInv, Readers, ReaderOK, QuietReadsWhole, Prefix, Whole
  <1> QED
    BY <1>1, StoreInvariant, PTL

------------------------------------------------------------------------------
\* What a crossed read gets.

\* The file never mixes pictures, also while a save is on its way and after one
\* has failed: what it holds is the beginning of one picture.
FileUnmixed ==
  file # None => \E p \in 1..Pictures : \E k \in 0..PartsOf[p] : file = Prefix(p, k)

\* Nothing in the file, or in what a reader has read, is newer than what is there
\* or will be written.
UpTo(p) ==
  /\ p # Hole /\ p <= picture
  /\ \A s \in saves : p <= s.picture

FileUpTo == file # None => \A i \in DOMAIN file : UpTo(file[i])

ReadUpTo(p) == UpTo(p) /\ \A i \in DOMAIN file : p <= file[i]

\* A viewer that fetches an image while it is being saved may get a picture that
\* is cut short or put together from several, but never an empty part, and never a
\* part of an older picture after one of a newer.
ReadsOrdered ==
  \A w \in Reader : reader[w] # None =>
    LET parts == reader[w].parts IN
    \A i \in DOMAIN parts : /\ parts[i] # Hole
                            /\ \A j \in i..Len(parts) : parts[i] <= parts[j]

ReadersUpTo ==
  \A w \in Reader : reader[w] # None =>
    \A i \in DOMAIN reader[w].parts : ReadUpTo(reader[w].parts[i])

CrossInv == FileUnmixed /\ FileUpTo /\ ReadsOrdered /\ ReadersUpTo

\* A step that keeps the file and the readers, and makes no save of an older
\* picture.
LEMMA CrossKept ==
  ASSUME StoreInv, CrossInv, UNCHANGED <<file, reader>>,
         picture' \in Part, picture <= picture',
         \A s \in saves' : s.picture = picture \/ \E t \in saves : s.picture = t.picture
  PROVE  CrossInv'
<1>1. picture \in Nat /\ picture' \in Nat /\ \A s \in saves : s.picture \in Nat
  BY StoreAssumption DEF StoreInv, StoreTypeOK, Part
<1>2. ASSUME NEW p \in Nat, UpTo(p) PROVE UpTo(p)'
  BY <1>1, <1>2 DEF UpTo
<1>s. ASSUME NEW f \in Seq(Part), NEW i \in DOMAIN f PROVE f[i] \in Nat
  <2>1. f[i] \in Part
    OBVIOUS
  <2> QED
    BY <2>1, StoreAssumption DEF Part
<1>3. file # None => \A i \in DOMAIN file : file[i] \in Nat
  BY <1>s, Zenon DEF StoreInv, StoreTypeOK
<1>4. \A w \in Reader : reader[w] # None =>
        \A i \in DOMAIN reader[w].parts : reader[w].parts[i] \in Nat
  <2>1. \A w \in Reader : reader[w] # None => reader[w].parts \in Seq(Part)
    BY DEF StoreInv, Readers, ReaderOK
  <2> QED
    BY <1>s, <2>1, Zenon
<1>5. FileUnmixed' /\ ReadsOrdered'
  BY DEF CrossInv, FileUnmixed, ReadsOrdered
<1>6. FileUpTo'
  BY <1>2, <1>3 DEF CrossInv, FileUpTo
<1>7. ReadersUpTo'
  BY <1>2, <1>4 DEF CrossInv, ReadersUpTo, ReadUpTo
<1> QED
  BY <1>5, <1>6, <1>7 DEF CrossInv

LEMMA OpenFileCrosses ==
  ASSUME StoreInv, CrossInv, NEW s \in saves, OpenFile(s)
  PROVE  CrossInv'
<1> USE StoreAssumption
<1>1. /\ file' = <<>> /\ picture' = picture
      /\ \A t \in saves' : \E u \in saves : t.picture = u.picture
  <2>1. s \in [picture : 1..Pictures, age : 0..SaveTime, written : {None} \cup Nat]
    BY DEF StoreInv, StoreTypeOK
  <2>2. [s EXCEPT !.written = 0].picture = s.picture
    BY <2>1
  <2> QED
    BY <2>2, Zenon DEF OpenFile
<1>2. FileUnmixed'
  <2>1. 1 \in 1..Pictures /\ 0 \in 0..PartsOf[1] /\ file' = Prefix(1, 0)
    BY <1>1 DEF Prefix
  <2> QED
    BY <2>1 DEF FileUnmixed
<1>3. FileUpTo'
  BY <1>1 DEF FileUpTo
<1>4. ASSUME NEW w \in Reader, reader'[w] # None
      PROVE  reader[w] # None /\ reader'[w].parts = reader[w].parts
  <2>1. /\ reader[w] # None
        /\ reader'[w] = [reader[w] EXCEPT !.quiet = reader[w].done /\ @]
    BY <1>4 DEF OpenFile
  <2>2. reader[w] \in [parts : Seq(Part), done : BOOLEAN, quiet : BOOLEAN, there : Part]
    BY <2>1 DEF StoreInv, Readers, ReaderOK
  <2> QED
    BY <2>1, <2>2
<1>5. ReadsOrdered'
  BY <1>4 DEF CrossInv, ReadsOrdered
<1>6. ReadersUpTo'
  BY <1>1, <1>4 DEF CrossInv, ReadersUpTo, ReadUpTo, UpTo
<1> QED
  BY <1>2, <1>3, <1>5, <1>6 DEF CrossInv

LEMMA WritePartCrosses ==
  ASSUME StoreInv, CrossInv, NEW s \in saves, WritePart(s)
  PROVE  CrossInv'
<1> USE StoreAssumption
<1>1. /\ s \in [picture : 1..Pictures, age : 0..SaveTime, written : {None} \cup Nat]
      /\ s.written # None
  BY DEF StoreInv, StoreTypeOK, WritePart
<1>2. /\ s.written \in Nat /\ s.picture \in 1..Pictures
      /\ file = Prefix(s.picture, s.written)
      /\ s.written + 1 <= PartsOf[s.picture] /\ PartsOf[s.picture] \in Nat
      /\ saves = {s} /\ s.picture <= picture
  BY <1>1 DEF StoreInv, Alone, Written
<1>3. file' = Prefix(s.picture, s.written + 1)
  <2>1. Len(file) = s.written
    BY <1>2 DEF Prefix
  <2>2. file' = Put(s.picture, s.written + 1)
    BY DEF WritePart
  <2> QED
    BY <1>2, <2>1, <2>2 DEF Put, Prefix
<1>4. /\ picture' = picture /\ reader' = reader
      /\ \A t \in saves' : t.picture = s.picture
  <2>1. [s EXCEPT !.written = @ + 1].picture = s.picture
    BY <1>1
  <2> QED
    BY <1>2, <2>1, Zenon DEF WritePart
<1>5. FileUnmixed'
  <2>1. s.written + 1 \in 0..PartsOf[s.picture]
    BY <1>2
  <2> QED
    BY <1>2, <1>3, <2>1 DEF FileUnmixed
<1>6. \A i \in DOMAIN file' : file'[i] = s.picture
  BY <1>2, <1>3 DEF Prefix
<1>7. FileUpTo'
  BY <1>2, <1>4, <1>6 DEF FileUpTo, UpTo, Hole
<1>8. ReadsOrdered'
  BY <1>4 DEF CrossInv, ReadsOrdered
<1>9. ReadersUpTo'
  BY <1>4, <1>6 DEF CrossInv, ReadersUpTo, ReadUpTo, UpTo
<1> QED
  BY <1>5, <1>7, <1>8, <1>9 DEF CrossInv

\* A reader takes the next part from the file: it is of the file's one picture.
LEMMA ReadPartCrosses ==
  ASSUME StoreInv, CrossInv, NEW w \in Reader, ReadPart(w)
  PROVE  CrossInv'
<1> DEFINE r == reader[w]
           n == Len(r.parts)
           parts == Append(r.parts, file[n + 1])
<1>0. UNCHANGED <<picture, saves, file>>
  BY DEF ReadPart
<1>1. /\ reader[w] # None /\ file # None /\ file \in Seq(Part)
      /\ r \in [parts : Seq(Part), done : BOOLEAN, quiet : BOOLEAN, there : Part]
      /\ reader = [v \in Reader |-> reader[v]]
  BY DEF ReadPart, StoreInv, Readers, ReaderOK, StoreTypeOK
<1>2. /\ \A v \in Reader : v # w => reader'[v] = reader[v]
      /\ \/ reader'[w].parts = r.parts
         \/ Len(file) > n /\ reader'[w].parts = parts
  <2>1. CASE Len(file) > n
    <3>1. reader' = [reader EXCEPT ![w] = [r EXCEPT !.parts = parts]]
      BY <2>1 DEF ReadPart
    <3>2. [r EXCEPT !.parts = parts].parts = parts
      BY <1>1, Zenon
    <3> HIDE DEF parts, r
    <3> QED
      BY <1>1, <2>1, <3>1, <3>2
  <2>2. CASE ~ (Len(file) > n)
    <3>1. reader' = [reader EXCEPT ![w] = [r EXCEPT !.done = TRUE]]
      BY <2>2 DEF ReadPart
    <3>2. [r EXCEPT !.done = TRUE].parts = r.parts
      BY <1>1, Zenon
    <3> HIDE DEF r
    <3> QED
      BY <1>1, <3>1, <3>2
  <2> QED
    BY <2>1, <2>2
<1>3. FileUnmixed' /\ FileUpTo'
  BY <1>0 DEF CrossInv, FileUnmixed, FileUpTo, UpTo
<1>4. \A p : ReadUpTo(p) => ReadUpTo(p)'
  BY <1>0 DEF ReadUpTo, UpTo
<1>5. r.parts \in Seq(Part) /\ n \in Nat /\ DOMAIN r.parts = 1..n
  BY <1>1
<1>6. ASSUME Len(file) > n
      PROVE  /\ parts \in Seq(Part) /\ Len(parts) = n + 1 /\ DOMAIN parts = 1..(n + 1)
             /\ parts[n + 1] = file[n + 1]
             /\ \A i \in 1..n : parts[i] = r.parts[i]
             /\ n + 1 \in DOMAIN file /\ file[n + 1] \in Nat
  <2>1. n + 1 \in DOMAIN file /\ file[n + 1] \in Part
    BY <1>1, <1>5, <1>6
  <2>2. file[n + 1] \in Nat
    BY <2>1, StoreAssumption DEF Part
  <2> HIDE DEF r
  <2> DEFINE a == file[n + 1]
             q == r.parts
  <2>3. q \in Seq(Part) /\ Len(q) = n /\ a \in Part
    BY <1>5, <2>1
  <2> HIDE DEF q, a
  <2>4. /\ Append(q, a) \in Seq(Part) /\ Len(Append(q, a)) = n + 1
        /\ DOMAIN Append(q, a) = 1..(n + 1)
        /\ Append(q, a)[n + 1] = a /\ \A i \in 1..n : Append(q, a)[i] = q[i]
    BY ONLY <1>5, <2>3
  <2> QED
    BY <2>1, <2>2, <2>4 DEF a, q
<1>7. ASSUME Len(file) > n PROVE ReadUpTo(file[n + 1])
  <2>1. \A i, j \in DOMAIN file : file[i] = file[j]
    BY <1>1 DEF CrossInv, FileUnmixed, Prefix
  <2> QED
    BY <1>1, <1>6, <1>7, <2>1 DEF CrossInv, FileUpTo, ReadUpTo
<1>8. /\ \A i \in 1..n : ReadUpTo(r.parts[i]) /\ r.parts[i] # Hole
      /\ \A i \in 1..n : \A j \in i..n : r.parts[i] <= r.parts[j]
  BY <1>1, <1>5 DEF CrossInv, ReadsOrdered, ReadersUpTo
<1> HIDE DEF parts
<1>9. ASSUME Len(file) > n
      PROVE  \A i \in 1..(n + 1) :
               /\ ReadUpTo(parts[i]) /\ parts[i] # Hole
               /\ \A j \in i..(n + 1) : parts[i] <= parts[j]
  <2> SUFFICES ASSUME NEW i \in 1..(n + 1)
               PROVE  /\ ReadUpTo(parts[i]) /\ parts[i] # Hole
                      /\ \A j \in i..(n + 1) : parts[i] <= parts[j]
    OBVIOUS
  <2>0. n + 1 \in DOMAIN file /\ ReadUpTo(file[n + 1])
    BY <1>6, <1>7, <1>9
  <2>1. CASE i = n + 1
    BY <1>5, <1>6, <1>9, <2>0, <2>1 DEF ReadUpTo, UpTo
  <2>2. CASE i \in 1..n
    <3>1. parts[i] = r.parts[i] /\ ReadUpTo(r.parts[i]) /\ r.parts[i] # Hole
      BY <1>6, <1>8, <1>9, <2>2
    <3>2. parts[i] <= parts[n + 1]
      BY <1>6, <1>9, <2>0, <3>1 DEF ReadUpTo
    <3>3. ASSUME NEW j \in i..(n + 1) PROVE parts[i] <= parts[j]
      BY <1>5, <1>6, <1>8, <1>9, <2>2, <3>2
    <3> QED
      BY <3>1, <3>3
  <2> QED
    BY <1>5, <2>1, <2>2
<1>10. \A i \in DOMAIN reader'[w].parts :
         /\ ReadUpTo(reader'[w].parts[i]) /\ reader'[w].parts[i] # Hole
         /\ \A j \in i..Len(reader'[w].parts) : reader'[w].parts[i] <= reader'[w].parts[j]
  <2>1. CASE reader'[w].parts = r.parts
    BY <1>5, <1>8, <2>1
  <2>2. CASE Len(file) > n /\ reader'[w].parts = parts
    <3>1. DOMAIN parts = 1..(n + 1) /\ Len(parts) = n + 1
      BY <1>6, <2>2
    <3> QED
      BY <1>9, <2>2, <3>1
  <2> QED
    BY <1>2, <2>1, <2>2
<1>11. ReadsOrdered' /\ ReadersUpTo'
  BY <1>2, <1>4, <1>10 DEF CrossInv, ReadsOrdered, ReadersUpTo
<1> QED
  BY <1>3, <1>11 DEF CrossInv

LEMMA CrossStep == StoreInv /\ CrossInv /\ [StoreNext]_store_vars => CrossInv'
<1> SUFFICES ASSUME StoreInv, CrossInv, [StoreNext]_store_vars PROVE CrossInv'
  OBVIOUS
<1>0. picture \in Part /\ picture \in Nat
  BY StoreAssumption DEF StoreInv, StoreTypeOK, Part
<1>1. CASE UNCHANGED store_vars
  BY <1>0, <1>1, CrossKept DEF store_vars
<1>2. CASE TakePicture
  BY <1>0, <1>2, CrossKept, StoreAssumption DEF TakePicture, Part
<1>3. CASE SpawnSave
  BY <1>0, <1>3, CrossKept DEF SpawnSave
<1>4. CASE CloseRoom
  BY <1>0, <1>4, CrossKept DEF CloseRoom
<1>5. CASE Pass
  <2>1. \A s \in saves : [s EXCEPT !.age = @ + 1].picture = s.picture
    BY DEF StoreInv, StoreTypeOK
  <2>2. saves' = {[s EXCEPT !.age = @ + 1] : s \in saves} /\ UNCHANGED <<picture, file, reader>>
    BY <1>5, Zenon DEF Pass
  <2>3. \A s \in saves' : \E u \in saves : s.picture = u.picture
    BY ONLY <2>1, <2>2, Zenon
  <2>4. UNCHANGED <<file, reader>> /\ picture' = picture /\ picture <= picture'
    BY <1>0, <2>2
  <2> QED
    BY <1>0, <2>3, <2>4, CrossKept
<1>6. ASSUME NEW s \in saves, FailSave(s) PROVE CrossInv'
  BY <1>0, <1>6, CrossKept DEF FailSave
<1>7. ASSUME NEW w \in Reader, Get(w) \/ Respond(w) PROVE CrossInv'
  <2>1. /\ UNCHANGED <<picture, saves, file>>
        /\ \A v \in Reader : reader'[v] # None =>
             \/ reader'[v] = reader[v]
             \/ reader'[v].parts = <<>>
    BY <1>7 DEF Get, Respond, StoreInv, Readers
  <2> QED
    BY <2>1 DEF CrossInv, FileUnmixed, FileUpTo, ReadsOrdered, ReadersUpTo, ReadUpTo, UpTo
<1> QED
  BY <1>1, <1>2, <1>3, <1>4, <1>5, <1>6, <1>7, OpenFileCrosses, WritePartCrosses,
     ReadPartCrosses DEF StoreNext

LEMMA CrossInvariant == StoreSpec => []CrossInv
<1>1. StoreInit => CrossInv
  BY DEF StoreInit, CrossInv, FileUnmixed, FileUpTo, ReadsOrdered, ReadersUpTo
<1> QED
  BY <1>1, CrossStep, StoreInvariant, PTL DEF StoreSpec

\* Also while save_thumbnail_to_storage is at work, and after it failed half way,
\* the file holds the beginning of one picture and nothing else.
THEOREM FilesAreUnmixed == StoreSpec => []FileUnmixed
<1>1. CrossInv => FileUnmixed
  BY DEF CrossInv
<1> QED
  BY <1>1, CrossInvariant, PTL

\* A read in images_route that saves cross, however many, never finds an empty
\* part nor goes back from a newer picture to an older one.
THEOREM ReadsAreOrdered == StoreSpec => []ReadsOrdered
<1>1. CrossInv => ReadsOrdered
  BY DEF CrossInv
<1> QED
  BY <1>1, CrossInvariant, PTL

==============================================================================
