--------------------------- MODULE L0CommitProofs ---------------------------
(***************************************************************************)
(* Proofs about L0Commit for any set of exposures and any bounds.          *)
(***************************************************************************)
EXTENDS L0Commit, TLAPS

\* The writer's files: a name is taken only once its data is on the disk, and
\* until the rename the name the writer works for is free.
Writing == {"write", "finish", "sync", "rename"}

DiskInv ==
  /\ \A f \in Files : final[f] # None => final[f] \in Frames /\ f \in synced
  /\ pc \in Writing => final[file] = None
  /\ pc \in {"sync", "rename"} => part[file] \in Frames
  /\ pc = "rename" => file \in synced
  /\ pc \in {"syncdir", "register"} => final[file] # None
  /\ pc = "expose" => frames < MaxFrames
  /\ pc \notin {"idle", "expose"} => frames \in Frames

\* What is registered is what is there, if it is there; the writer and the
\* scanner only work on files that can be registered truthfully.
RawInv ==
  /\ CommittedMatchesRegistered
  /\ \A e \in Exposures : raw[e] # NoRow =>
       /\ raw[e].file \in Files /\ ExposureOf(raw[e].file) = e
       /\ raw[e].sha \in Frames
       /\ final[raw[e].file] # None => final[raw[e].file] = raw[e].sha
  /\ pc \notin {"idle", "expose"} /\ raw[ExposureOf(file)].file = file => final[file] # None
  /\ \A f \in found : final[f] \in Frames

\* There is nothing to register of an exposure that is taken for the first time.
TakenInv ==
  pc = "expose" /\ ExposureOf(file) \notin retaken =>
    raw[ExposureOf(file)] = NoRow /\ ~HasFile(ExposureOf(file))

L0Inv == L0TypeOK /\ DiskInv /\ RawInv /\ TakenInv

-----------------------------------------------------------------------------
\* A frame is a content, and neither a missing nor a torn file.
LEMMA FrameFacts ==
  /\ Frames \subseteq Contents /\ None \notin Frames /\ Torn \notin Frames
  /\ None \in Contents /\ Torn \in Contents /\ None # Torn
BY L0Assumption DEF Frames, Contents, None, Torn

LEMMA ExposureOfFile == \A f \in Files : ExposureOf(f) \in Exposures /\ DayOf(f) \in 1 .. MaxDay
BY DEF Files, ExposureOf, DayOf

LEMMA FileOfExposure ==
  L0TypeOK => \A e \in Exposures : <<e, day>> \in Files /\ ExposureOf(<<e, day>>) = e
BY DEF Files, ExposureOf, L0TypeOK

\* The row that records a complete file is not the missing row.
LEMMA RecordedFacts ==
  ASSUME NEW f \in Files, final[f] \in Frames
  PROVE  /\ Recorded(f) \in [file : Files, sha : Contents]
         /\ Recorded(f) # NoRow
         /\ Recorded(f).file = f /\ Recorded(f).sha = final[f]
BY FrameFacts DEF Recorded, NoRow

-----------------------------------------------------------------------------
\* Every step keeps the types.
LEMMA TypeStep == L0Inv /\ [Next]_l0vars => L0TypeOK'
<1> SUFFICES ASSUME L0Inv, [Next]_l0vars PROVE L0TypeOK'
  OBVIOUS
<1> USE FrameFacts DEF L0Inv, L0TypeOK, Goto, Leave, bounded
<1>1. ASSUME NEW e \in Exposures, Begin(e) PROVE L0TypeOK'
  BY <1>1, FileOfExposure DEF Begin, PathOf, disk, database, bounded
<1>2. CASE ReadOut
  BY <1>2, FileOfExposure, ExposureOfFile, L0Assumption
     DEF ReadOut, PathOf, disk, database, DiskInv
<1>3. CASE NotRead \/ ReturnExisting
  <2>1. committed' \subseteq Exposures /\ frames' \in 0 .. MaxFrames
    BY <1>3, L0Assumption DEF NotRead, ReturnExisting, database, DiskInv
  <2> QED
    BY <1>3, <2>1 DEF NotRead, ReturnExisting, disk, database
<1>4. CASE Look
  BY <1>4 DEF Look, disk, database
<1>5. CASE Write
  BY <1>5 DEF Write, database
<1>6. CASE Finish
  BY <1>6 DEF Finish, Validated, database, DiskInv
<1>7. CASE SyncData
  BY <1>7 DEF SyncData, database
<1>8. CASE Rename
  BY <1>8 DEF Rename, database
<1>9. CASE SyncDirectory
  BY <1>9, ExposureOfFile DEF SyncDirectory, database
<1>10. CASE Register
  <2>1. file \in Files /\ final[file] \in Frames
    BY <1>10 DEF Register, DiskInv
  <2>2. Recorded(file) \in [file : Files, sha : Contents] /\ ExposureOf(file) \in Exposures
    BY <2>1, RecordedFacts, ExposureOfFile
  <2> QED
    BY <1>10, <2>2 DEF Register, disk, database
<1>11. CASE ScanBegin
  BY <1>11 DEF ScanBegin, Orphans, disk, database, writer
<1>12. CASE ScanEnd
  <2>1. \A f \in found : Recorded(f) \in [file : Files, sha : Contents]
    BY RecordedFacts DEF RawInv
  <2>2. \A f \in found : ExposureOf(f) \in Exposures
    BY ExposureOfFile
  <2>3. \A e \in Exposures : (\E f \in found : ExposureOf(f) = e) =>
          Recorded(CHOOSE f \in found : ExposureOf(f) = e) \in [file : Files, sha : Contents]
    BY <2>1
  <2>4. committed' \subseteq Exposures
    BY <1>12, <2>2 DEF ScanEnd, database
  <2>5. raw' \in [Exposures -> {NoRow} \cup [file : Files, sha : Contents]]
    BY <1>12, <2>3 DEF ScanEnd, database
  <2> QED
    BY <1>12, <2>4, <2>5 DEF ScanEnd, disk, writer
<1>13. CASE Midnight
  BY <1>13, L0Assumption DEF Midnight, disk, database, writer
<1>14. CASE WriterStops
  BY <1>14, L0Assumption DEF WriterStops, disk, database
<1>15. CASE PowerLoss
  <2>1. settled' \subseteq 1 .. MaxDay
    BY <1>15, ExposureOfFile DEF PowerLoss
  <2> QED
    BY <1>15, <2>1, L0Assumption DEF PowerLoss, database
<1>16. CASE UNCHANGED l0vars
  BY <1>16 DEF l0vars, disk, database, writer
<1> QED
  BY <1>1, <1>2, <1>3, <1>4, <1>5, <1>6, <1>7, <1>8, <1>9, <1>10, <1>11, <1>12, <1>13, <1>14,
     <1>15, <1>16
  DEF Next, WriterStep

-----------------------------------------------------------------------------
\* Every step keeps what is known of the disk: write, fsync, rename in order.
LEMMA DiskStep == L0Inv /\ [Next]_l0vars => DiskInv'
<1> SUFFICES ASSUME L0Inv, [Next]_l0vars PROVE DiskInv'
  OBVIOUS
<1> USE FrameFacts DEF L0Inv, L0TypeOK, DiskInv, Writing, Goto, Leave, bounded
<1>1. ASSUME NEW e \in Exposures, Begin(e) PROVE DiskInv'
  BY <1>1, FileOfExposure DEF Begin, PathOf, disk, bounded
<1>2. CASE ReadOut
  BY <1>2, FileOfExposure, ExposureOfFile, L0Assumption DEF ReadOut, PathOf, disk, Frames
<1>3. CASE NotRead \/ ReturnExisting
  BY <1>3 DEF NotRead, ReturnExisting, disk, bounded
<1>4. CASE Look
  BY <1>4 DEF Look, Exists, disk
<1>5. CASE Write
  BY <1>5 DEF Write
<1>6. CASE Finish
  BY <1>6 DEF Finish, Validated
<1>7. CASE SyncData
  BY <1>7 DEF SyncData
<1>8. CASE Rename
  BY <1>8 DEF Rename
<1>9. CASE SyncDirectory
  BY <1>9 DEF SyncDirectory
<1>10. CASE Register
  BY <1>10 DEF Register, disk
<1>11. CASE ScanBegin
  BY <1>11 DEF ScanBegin, disk, writer
<1>12. CASE ScanEnd
  BY <1>12 DEF ScanEnd, disk, writer
<1>13. CASE Midnight
  BY <1>13 DEF Midnight, disk, writer
<1>14. CASE WriterStops
  BY <1>14 DEF WriterStops, disk
<1>15. CASE PowerLoss
  BY <1>15 DEF PowerLoss
<1>16. CASE UNCHANGED l0vars
  BY <1>16 DEF l0vars, disk, writer
<1> QED
  BY <1>1, <1>2, <1>3, <1>4, <1>5, <1>6, <1>7, <1>8, <1>9, <1>10, <1>11, <1>12, <1>13, <1>14,
     <1>15, <1>16
  DEF Next, WriterStep

\* Every step keeps the registrations truthful.
LEMMA RawStep == L0Inv /\ [Next]_l0vars => RawInv'
<1> SUFFICES ASSUME L0Inv, [Next]_l0vars PROVE RawInv'
  OBVIOUS
<1> USE FrameFacts, ExposureOfFile DEF L0Inv, L0TypeOK, DiskInv, RawInv, CommittedMatchesRegistered,
    Writing, Goto, Leave
<1>1. ASSUME NEW e \in Exposures, Begin(e) PROVE RawInv'
  BY <1>1 DEF Begin, disk, database
<1>2. CASE ReadOut
  <2>1. file' \in Files /\ ExposureOf(file') = ExposureOf(file)
    BY <1>2, FileOfExposure DEF ReadOut, PathOf
  <2>2. raw[ExposureOf(file)].file # file'
    BY <1>2, <2>1 DEF ReadOut, NoRow, NoFile, Files
  <2> QED
    BY <1>2, <2>1, <2>2 DEF ReadOut, disk, database
<1>3. CASE NotRead \/ ReturnExisting
  BY <1>3 DEF NotRead, ReturnExisting, disk, database, TakenInv
<1>4. CASE Look
  BY <1>4 DEF Look, Exists, disk, database
<1>5. CASE Write
  BY <1>5 DEF Write, database
<1>6. CASE Finish
  BY <1>6 DEF Finish, Validated, database
<1>7. CASE SyncData
  BY <1>7 DEF SyncData, database
<1>8. CASE Rename
  BY <1>8 DEF Rename, database
<1>9. CASE SyncDirectory
  BY <1>9 DEF SyncDirectory, database
<1>10. CASE Register
  <2>1. file \in Files /\ final[file] \in Frames
    BY <1>10 DEF Register
  <2> QED
    BY <1>10, <2>1, RecordedFacts DEF Register, disk, database
<1>11. CASE ScanBegin
  BY <1>11 DEF ScanBegin, Orphans, Valid, disk, database, writer
<1>12. CASE ScanEnd
  <2>1. CASE Insertable
    <3> DEFINE fileOf(e) == CHOOSE f \in found : ExposureOf(f) = e
               hit(e) == \E f \in found : ExposureOf(f) = e
    <3>1. \A e \in Exposures : hit(e) => fileOf(e) \in found /\ ExposureOf(fileOf(e)) = e
      OBVIOUS
    <3>2. /\ raw' = [e \in Exposures |-> IF hit(e) THEN Recorded(fileOf(e)) ELSE raw[e]]
          /\ committed' = committed \cup {ExposureOf(f) : f \in found}
          /\ found' = {} /\ UNCHANGED <<disk, retaken, writer>>
      BY <1>12, <2>1 DEF ScanEnd, database
    <3> HIDE DEF fileOf
    <3>3. \A e \in Exposures : hit(e) =>
            /\ raw'[e] # NoRow /\ raw'[e].file = fileOf(e) /\ raw'[e].file \in Files
            /\ raw'[e].sha = final[fileOf(e)] /\ raw'[e].sha \in Frames
      BY <3>1, <3>2, RecordedFacts
    <3>4. \A e \in Exposures : ~hit(e) => raw'[e] = raw[e]
      BY <3>2
    <3>5. \A e \in Exposures : e \in committed' <=> e \in committed \/ hit(e)
      BY <3>2
    <3>6. final' = final /\ pc' = pc /\ file' = file
      BY <3>2 DEF disk, writer
    <3> HIDE DEF hit
    <3>7. \A e \in Exposures : /\ e \in committed' => raw'[e] # NoRow
                               /\ raw'[e] # NoRow => e \in committed' \cup retaken'
      BY <3>2, <3>3, <3>4, <3>5
    <3>8. \A e \in Exposures : raw'[e] # NoRow =>
            /\ raw'[e].file \in Files /\ ExposureOf(raw'[e].file) = e
            /\ raw'[e].sha \in Frames
            /\ final[raw'[e].file] # None => final[raw'[e].file] = raw'[e].sha
      BY <3>1, <3>3, <3>4
    <3>9. pc \notin {"idle", "expose"} /\ raw'[ExposureOf(file)].file = file => final[file] # None
      BY <3>1, <3>3, <3>4
    <3>10. (\A e \in Exposures : raw[e] # NoRow =>
             /\ raw[e].file \in Files /\ ExposureOf(raw[e].file) = e
             /\ raw[e].sha \in Frames
             /\ final[raw[e].file] # None => final[raw[e].file] = raw[e].sha)'
      BY <3>6, <3>8
    <3>11. (pc \notin {"idle", "expose"} /\ raw[ExposureOf(file)].file = file => final[file] # None)'
      BY <3>6, <3>9
    <3>12. (\A f \in found : final[f] \in Frames)'
      BY <3>2
    <3>13. CommittedMatchesRegistered'
      BY ONLY <3>7 DEF CommittedMatchesRegistered
    <3> QED
      BY ONLY <3>10, <3>11, <3>12, <3>13 DEF RawInv
  <2>2. CASE ~Insertable
    BY <1>12, <2>2 DEF ScanEnd, disk, database, writer
  <2> QED
    BY <2>1, <2>2
<1>13. CASE Midnight
  BY <1>13 DEF Midnight, disk, database, writer
<1>14. CASE WriterStops
  BY <1>14 DEF WriterStops, disk, database
<1>15. CASE PowerLoss
  BY <1>15 DEF PowerLoss, database
<1>16. CASE UNCHANGED l0vars
  BY <1>16 DEF l0vars, disk, database, writer
<1> QED
  BY <1>1, <1>2, <1>3, <1>4, <1>5, <1>6, <1>7, <1>8, <1>9, <1>10, <1>11, <1>12, <1>13, <1>14,
     <1>15, <1>16
  DEF Next, WriterStep

\* Every step keeps what is known of an exposure before its frame is read out:
\* only Begin goes there, and no step but the writer's own makes a file.
LEMMA TakenStep == L0Inv /\ [Next]_l0vars => TakenInv'
<1> SUFFICES ASSUME L0Inv, [Next]_l0vars, pc' = "expose" PROVE TakenInv'
  BY DEF TakenInv
<1>0. ASSUME UNCHANGED final PROVE \A e : HasFile(e)' <=> HasFile(e)
  BY <1>0 DEF HasFile, Valid
<1>1. ASSUME NEW e \in Exposures, Begin(e) PROVE TakenInv'
  <2>1. /\ ExposureOf(file') = e /\ e \notin committed
        /\ UNCHANGED <<final, raw>>
        /\ retaken' = IF HasFile(e) THEN retaken \cup {e} ELSE retaken
    BY <1>1, FileOfExposure DEF Begin, PathOf, L0Inv, disk, database
  <2>2. e \notin retaken' => raw[e] = NoRow /\ ~HasFile(e)
    BY <2>1 DEF L0Inv, RawInv, CommittedMatchesRegistered
  <2> QED
    BY <1>0, <2>1, <2>2 DEF TakenInv
<1>2. ASSUME UNCHANGED <<final, raw, retaken, writer>> PROVE TakenInv'
  BY <1>0, <1>2 DEF L0Inv, TakenInv, writer
<1>3. CASE ScanEnd
  <2>1. UNCHANGED <<final, retaken, writer>>
    BY <1>3 DEF ScanEnd, disk
  <2>2. ExposureOf(file) \notin retaken => \A f \in found : ExposureOf(f) # ExposureOf(file)
    BY <2>1 DEF L0Inv, L0TypeOK, RawInv, TakenInv, HasFile, Valid, writer
  <2>3. file \in Files /\ ExposureOf(file) \in Exposures
    BY <2>1, ExposureOfFile DEF L0Inv, L0TypeOK, writer
  <2>4. ExposureOf(file) \notin retaken => raw'[ExposureOf(file)] = raw[ExposureOf(file)]
    BY <1>3, <2>2, <2>3 DEF ScanEnd, database
  <2> QED
    BY <1>0, <2>1, <2>4 DEF L0Inv, TakenInv, writer
<1>4. CASE ScanBegin \/ Midnight \/ UNCHANGED l0vars
  BY <1>2, <1>4 DEF ScanBegin, Midnight, l0vars, disk, database
<1>5. CASE ~(\E e \in Exposures : Begin(e)) /\ (WriterStep \/ WriterStops \/ PowerLoss)
  BY <1>5 DEF WriterStep, WriterStops, PowerLoss, ReadOut, NotRead, ReturnExisting, Look, Write,
              Finish, Validated, SyncData, Rename, SyncDirectory, Register, Goto, Leave
<1> QED
  BY <1>1, <1>3, <1>4, <1>5 DEF Next, WriterStep

-----------------------------------------------------------------------------
\* The invariant of the disk and of the registrations holds in every state.
THEOREM L0Invariant == Spec => []L0Inv
<1>1. Init => L0Inv
  <2> SUFFICES ASSUME Init PROVE L0Inv
    OBVIOUS
  <2>1. L0TypeOK
    BY FrameFacts, L0Assumption DEF Init, L0TypeOK
  <2>2. DiskInv
    BY DEF Init, DiskInv, Writing
  <2>3. RawInv
    BY DEF Init, RawInv, CommittedMatchesRegistered
  <2>4. TakenInv
    BY DEF Init, TakenInv
  <2> QED
    BY <2>1, <2>2, <2>3, <2>4 DEF L0Inv
<1>2. L0Inv /\ [Next]_l0vars => L0Inv'
  BY TypeStep, DiskStep, RawStep, TakenStep DEF L0Inv
<1> QED
  BY <1>1, <1>2, PTL DEF Spec

\* The state of the commit has its types, for any exposures and any bounds.
THEOREM L0TypeCorrect == Spec => []L0TypeOK
<1>1. L0Inv => L0TypeOK
  BY DEF L0Inv
<1> QED
  BY <1>1, L0Invariant, PTL

\* Under its final name an L0 file is never half-written, whenever the control
\* process or the machine stops (write_l0_atomic).
THEOREM FinalIsNeverTorn == Spec => []FinalNeverTorn
<1>1. L0Inv => FinalNeverTorn
  BY FrameFacts DEF L0Inv, DiskInv, L0TypeOK, FinalNeverTorn
<1> QED
  BY <1>1, L0Invariant, PTL

\* An exposure is COMMITTED only with a raw_files row, and a registered one is
\* COMMITTED unless it was taken again when its file was there already: commit_l0
\* returns the scanner's row before it sets the status, which is READING by then.
THEOREM CommittedIsRegistered == Spec => []CommittedMatchesRegistered
<1>1. L0Inv => CommittedMatchesRegistered
  BY DEF L0Inv, RawInv
<1> QED
  BY <1>1, L0Invariant, PTL

\* The digest in raw_files is that of the file that is there.
THEOREM DigestIsTrue == Spec => []DigestMatchesFile
<1>1. L0Inv => DigestMatchesFile
  BY DEF L0Inv, RawInv, DigestMatchesFile
<1> QED
  BY <1>1, L0Invariant, PTL

\* A file is never replaced, and lost only while its name or the directory of its
\* day is not on the disk.
THEOREM FilesAreImmutable == Spec => FileIsImmutable
<1> DEFINE Kept(f) == final'[f] = final[f] \/ (final'[f] = None /\ ~OnDisk(f))
           AllKept == \A f \in Files : final[f] # None => Kept(f)
<1>1. L0Inv /\ [Next]_l0vars => [AllKept]_l0vars
  <2> SUFFICES ASSUME L0Inv, Next, NEW f \in Files, final[f] # None
               PROVE  Kept(f)
    OBVIOUS
  <2>1. f \in synced
    BY DEF L0Inv, DiskInv
  <2>2. CASE Rename
    BY <2>1, <2>2 DEF Rename, L0Inv, L0TypeOK, DiskInv, Writing
  <2>3. CASE PowerLoss
    BY <2>1, <2>3 DEF PowerLoss, OnDisk
  <2>4. CASE ~Rename /\ ~PowerLoss
    BY <2>4 DEF Next, WriterStep, Begin, ReadOut, NotRead, ReturnExisting, Look, Write, Finish,
                SyncData, SyncDirectory, Register, ScanBegin, ScanEnd, Midnight, WriterStops, disk
  <2> QED
    BY <2>2, <2>3, <2>4
<1> QED
  BY <1>1, L0Invariant, PTL DEF Spec, FileIsImmutable
=============================================================================
