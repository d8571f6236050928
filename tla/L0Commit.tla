------------------------------ MODULE L0Commit ------------------------------
(***************************************************************************)
(* The commit of a frame as an immutable L0 file: commit_l0 and            *)
(* write_l0_atomic in the control process (acquisition/service.py,         *)
(* acquisition/fits_contract.py), the scanner of the acquisition process   *)
(* that registers files a crash left unregistered, and what is left on the *)
(* disk after a process or the machine stops.                              *)
(*                                                                         *)
(* The disk has what processes see (part, final) and which of it would     *)
(* survive a power loss (synced for the data of a file, linked for its     *)
(* name in the directory of its day, settled for the directories above).   *)
(* The database is durable when a transaction ends.  A frame is the number *)
(* of the exposure of the detector it came from.                           *)
(***************************************************************************)
EXTENDS Naturals, FiniteSets

CONSTANTS
  Exposures,     \* ids of exposure rows
  MaxDay,        \* bound: the path of a file has the date it is written on
  MaxFrames,     \* bound: frames read out
  MaxFailures    \* bound: stops of a process or of the machine

ASSUME L0Assumption == MaxDay \in Nat \ {0} /\ MaxFrames \in Nat /\ MaxFailures \in Nat

Files == Exposures \X (1 .. MaxDay)
ExposureOf(f) == f[1]
DayOf(f) == f[2]
Frames == 1 .. MaxFrames
None == 0            \* no such file
Torn == MaxFrames + 1  \* a file validate_l0 rejects
Contents == {None, Torn} \cup Frames
NoFile == <<>>
NoRow == [file |-> NoFile, sha |-> None]

VARIABLES
  part, final,   \* contents of <exposure>.fits.part and <exposure>.fits of each day
  synced,        \* files whose data is on the disk itself
  linked,        \* files whose final name is in the synced directory of their day
  settled,       \* days whose directory is itself on the disk
  raw,           \* raw_files: [file, sha] of an exposure, or NoRow
  committed,     \* exposures whose row is COMMITTED
  retaken,       \* history: exposures taken again when there was a file of theirs
  pc, file,      \* the writer: where it is and the file it writes
  found,         \* files the scanner is about to register
  day, frames, failures

disk == <<part, final, synced, linked, settled>>
database == <<raw, committed>>
writer == <<pc, file>>
bounded == <<day, frames, failures>>
l0vars == <<disk, database, retaken, writer, found, bounded>>

Init ==
  /\ part = [f \in Files |-> None] /\ final = [f \in Files |-> None]
  /\ synced = {} /\ linked = {} /\ settled = {}
  /\ raw = [e \in Exposures |-> NoRow]
  /\ committed = {} /\ retaken = {}
  /\ pc = "idle" /\ file = NoFile
  /\ found = {}
  /\ day = 1 /\ frames = 0 /\ failures = 0

Goto(label) == pc' = label /\ UNCHANGED file
Leave == pc' = "idle" /\ file' = NoFile

-----------------------------------------------------------------------------
(* The writer.                                                              *)

\* Mutant of PathOf: the path has the local date, which is a day ahead of UTC.
PathOfLocal(e) == <<e, day + 1>>

\* The path of the L0 file has the UTC date.
PathOf(e) == <<e, day>>

Valid(f) == final[f] \in Frames
HasFile(e) == \E f \in Files : ExposureOf(f) = e /\ Valid(f)

\* _take_exposure takes an exposure whose row is not COMMITTED, also that of an
\* earlier attempt.
Begin(e) ==
  /\ pc = "idle" /\ frames < MaxFrames
  /\ e \notin committed
  /\ pc' = "expose" /\ file' = PathOf(e)
  /\ retaken' = IF HasFile(e) THEN retaken \cup {e} ELSE retaken
  /\ UNCHANGED <<disk, database, found, bounded>>

\* A frame has been read out and commit_l0 finds no raw_files row: the file it
\* is to write has the date of now.
ReadOut ==
  /\ pc = "expose" /\ raw[ExposureOf(file)] = NoRow
  /\ frames' = frames + 1
  /\ pc' = "look" /\ file' = PathOf(ExposureOf(file))
  /\ UNCHANGED <<disk, database, retaken, found, day, failures>>

\* The exposure fails before its frame is read out, or is aborted: its row
\* becomes FAILED, also when the scanner has made it COMMITTED meanwhile.
NotRead ==
  /\ pc = "expose" /\ Leave
  /\ committed' \in {committed, committed \ {ExposureOf(file)}}
  /\ UNCHANGED <<disk, raw, retaken, found, bounded>>

\* commit_l0 finds the row, which the scanner has made meanwhile, and returns
\* it; the caller's transaction writes its READING over COMMITTED, or fails.
ReturnExisting ==
  /\ pc = "expose" /\ raw[ExposureOf(file)] # NoRow
  /\ frames' = frames + 1
  /\ committed' \in {committed, committed \ {ExposureOf(file)}}
  /\ Leave
  /\ UNCHANGED <<disk, raw, retaken, found, day, failures>>

\* Mutant of Exists: a file that is there already is not noticed.
ExistsNever(f) == FALSE

Exists(f) == final[f] # None

\* An existing file is validated and compared with the exposure's identity; it
\* is used as it is, with the ids in its header.  A fault or the low watermark
\* of the storage, or an invalid file, ends the attempt.
Look ==
  /\ pc = "look"
  /\ \/ Exists(file) /\ final[file] # Torn /\ Goto("register")
     \/ ~Exists(file) /\ Goto("write")
     \/ Leave
  /\ UNCHANGED <<disk, database, retaken, found, bounded>>

\* A stale .part is removed, the HDUs are being written.
Write ==
  /\ pc = "write"
  /\ part' = [part EXCEPT ![file] = Torn]
  /\ synced' = synced \ {file}
  /\ Goto("finish")
  /\ UNCHANGED <<final, linked, settled, database, retaken, found, bounded>>

\* Mutant of Validated: the order of fsync and rename is lost.
ValidatedUnsynced == "rename"

Validated == "sync"

\* The .part is complete and passes validate_l0.
Finish ==
  /\ pc = "finish"
  /\ part' = [part EXCEPT ![file] = frames]
  /\ Goto(Validated)
  /\ UNCHANGED <<final, synced, linked, settled, database, retaken, found, bounded>>

SyncData ==
  /\ pc = "sync"
  /\ synced' = synced \cup {file}
  /\ Goto("rename")
  /\ UNCHANGED <<part, final, linked, settled, database, retaken, found, bounded>>

Rename ==
  /\ pc = "rename"
  /\ final' = [final EXCEPT ![file] = part[file]]
  /\ part' = [part EXCEPT ![file] = None]
  /\ Goto("syncdir")
  /\ UNCHANGED <<synced, linked, settled, database, retaken, found, bounded>>

\* The directory of the day is synced, those above it that mkdir has made are
\* not: they may have been written out by now or not.
SyncDirectory ==
  /\ pc = "syncdir"
  /\ linked' = linked \cup {file}
  /\ settled' \in {settled, settled \cup {DayOf(file)}}
  /\ Goto("register")
  /\ UNCHANGED <<part, final, synced, database, retaken, found, bounded>>

\* Mutant of Recorded: the digest is that of the frame just read out.
RecordedFrame(f) == [file |-> f, sha |-> frames]

Recorded(f) == [file |-> f, sha |-> final[f]]

\* commit_l0 adds the raw_files row and the caller's transaction ends: it fails
\* on the unique exposure_id when the scanner was faster, or for a reason of its
\* caller (an agent that does not answer, a lost connection).
Register ==
  /\ pc = "register"
  /\ \/ /\ raw[ExposureOf(file)] = NoRow
        /\ raw' = [raw EXCEPT ![ExposureOf(file)] = Recorded(file)]
        /\ committed' = committed \cup {ExposureOf(file)}
     \/ UNCHANGED database
  /\ Leave
  /\ UNCHANGED <<disk, retaken, found, bounded>>

-----------------------------------------------------------------------------
(* The scanner: recover_unregistered_l0, one transaction over all files.    *)

Unregistered(f) == \A e \in Exposures : raw[e] = NoRow \/ raw[e].file # f

\* Mutant of Orphans: only the files of the present day are scanned.
OrphansToday == {f \in Files : Valid(f) /\ Unregistered(f) /\ DayOf(f) = day}

Orphans == {f \in Files : Valid(f) /\ Unregistered(f)}

ScanBegin ==
  /\ found = {} /\ Orphans # {}
  /\ found' = Orphans
  /\ UNCHANGED <<disk, database, retaken, writer, bounded>>

\* raw_files.exposure_id is unique.
Insertable ==
  /\ \A f \in found : raw[ExposureOf(f)] = NoRow
  /\ \A f, g \in found : ExposureOf(f) = ExposureOf(g) => f = g

\* Mutant of ScanEnd: the exposure rows are not updated.
ScanEndHalf ==
  /\ found # {}
  /\ raw' = [e \in Exposures |-> IF \E f \in found : ExposureOf(f) = e
                                 THEN Recorded(CHOOSE f \in found : ExposureOf(f) = e)
                                 ELSE raw[e]]
  /\ found' = {}
  /\ UNCHANGED <<disk, committed, retaken, writer, bounded>>

\* Either every file found is registered, or the insert fails, nothing is, and
\* the process ends; it is started again.
ScanEnd ==
  /\ found # {}
  /\ \/ /\ Insertable
        /\ raw' = [e \in Exposures |-> IF \E f \in found : ExposureOf(f) = e
                                       THEN Recorded(CHOOSE f \in found : ExposureOf(f) = e)
                                       ELSE raw[e]]
        /\ committed' = committed \cup {ExposureOf(f) : f \in found}
     \/ ~Insertable /\ UNCHANGED database
  /\ found' = {}
  /\ UNCHANGED <<disk, retaken, writer, bounded>>

-----------------------------------------------------------------------------
(* The environment.                                                         *)

Midnight ==
  /\ day < MaxDay /\ day' = day + 1
  /\ UNCHANGED <<disk, database, retaken, writer, found, frames, failures>>

\* The control process stops; what it wrote stays in the page cache.
WriterStops ==
  /\ failures < MaxFailures /\ failures' = failures + 1
  /\ pc # "idle" /\ Leave
  /\ UNCHANGED <<disk, database, retaken, found, day, frames>>

\* A name that outlives the machine.
OnDisk(f) == f \in linked /\ DayOf(f) \in settled

\* The machine stops.  Data that was not synced may be torn, a name that was not
\* synced may be the old one, and a day whose directory was not may be gone; what
\* is found afterwards is on the disk.
PowerLoss ==
  /\ failures < MaxFailures /\ failures' = failures + 1
  /\ \E kept, renamed \in SUBSET Files, gone \in SUBSET ((1 .. MaxDay) \ settled) :
       /\ synced \subseteq kept /\ linked \subseteq renamed
       /\ LET after(f, content) == IF content = None \/ f \in kept THEN content ELSE Torn
          IN  /\ final' = [f \in Files |-> IF DayOf(f) \notin gone /\ f \in renamed
                                          THEN after(f, final[f]) ELSE None]
              /\ part' = [f \in Files |-> CASE DayOf(f) \in gone -> None
                                            [] f \notin renamed /\ final[f] # None -> after(f, final[f])
                                            [] OTHER -> after(f, part[f])]
  /\ synced' = Files
  /\ linked' = {f \in Files : final'[f] # None}
  /\ settled' = {DayOf(f) : f \in {x \in Files : final'[x] # None \/ part'[x] # None}}
  /\ Leave /\ found' = {}
  /\ UNCHANGED <<database, retaken, day, frames>>

WriterStep ==
  \/ \E e \in Exposures : Begin(e)
  \/ ReadOut \/ NotRead \/ ReturnExisting \/ Look \/ Write \/ Finish \/ SyncData \/ Rename \/ SyncDirectory \/ Register

Next == WriterStep \/ ScanBegin \/ ScanEnd \/ Midnight \/ WriterStops \/ PowerLoss

Spec == Init /\ [][Next]_l0vars

\* The acquisition process scans every five seconds and is restarted when it ends.
FairSpec == Spec /\ WF_l0vars(ScanBegin) /\ WF_l0vars(ScanEnd)

-----------------------------------------------------------------------------
(* Properties.                                                              *)

L0TypeOK ==
  /\ part \in [Files -> Contents] /\ final \in [Files -> Contents]
  /\ synced \subseteq Files /\ linked \subseteq Files /\ settled \subseteq 1 .. MaxDay
  /\ retaken \subseteq Exposures
  /\ raw \in [Exposures -> {NoRow} \cup [file : Files, sha : Contents]]
  /\ committed \subseteq Exposures
  /\ pc \in {"idle", "expose", "look", "write", "finish", "sync", "rename", "syncdir", "register"}
  /\ pc # "idle" => file \in Files
  /\ found \subseteq Files
  /\ day \in 1 .. MaxDay /\ frames \in 0 .. MaxFrames /\ failures \in 0 .. MaxFailures

(* No reader ever sees a half-written file under its final name, whenever a *)
(* process or the machine stops (write_l0_atomic).                          *)
FinalNeverTorn == \A f \in Files : final[f] # Torn

(* An exposure is COMMITTED only with its raw_files row, whoever registered *)
(* it, and one that is registered is COMMITTED unless it was taken again    *)
(* when its file was there already: then the writer may set it back.        *)
CommittedMatchesRegistered ==
  \A e \in Exposures : /\ e \in committed => raw[e] # NoRow
                       /\ raw[e] # NoRow => e \in committed \cup retaken

(* The recorded digest is that of the file of the recorded path for as long *)
(* as that file is there, through retries with other frames, scans, stops   *)
(* and power losses.                                                        *)
DigestMatchesFile ==
  \A e \in Exposures : raw[e] # NoRow =>
    /\ raw[e].sha \in Frames
    /\ final[raw[e].file] # None => final[raw[e].file] = raw[e].sha

(* A file is never replaced under its final name, also not by a retry that  *)
(* has read out another frame of the same exposure, and it is lost only     *)
(* while its name or the directory of its day is not on the disk.           *)
FileIsImmutable ==
  [][\A f \in Files : final[f] # None =>
        final'[f] = final[f] \/ (final'[f] = None /\ ~OnDisk(f))]_l0vars

(* A complete file that a crash left without registration is registered in  *)
(* the end (runbook, 32-33).                                                *)
OrphanIsRegistered ==
  \A f \in Files : Valid(f) /\ OnDisk(f) ~> raw[ExposureOf(f)] # NoRow

(* The same as long as no exposure gets a second file, which a retry after  *)
(* midnight writes: then the scan fails for all exposures, each time.       *)
SingleFile == \A f, g \in Files : Valid(f) /\ Valid(g) /\ ExposureOf(f) = ExposureOf(g) => f = g
OrphanIsRegisteredOrDoubled == []SingleFile => OrphanIsRegistered
=============================================================================
