---------------------------- MODULE ArchiveProofs ----------------------------
(***************************************************************************)
(* Proofs about Archive for any directory, frames, keys, workers and       *)
(* clients, and any bounds: that what is published can be traced to bytes  *)
(* that were inspected, and that no build is forgotten.                    *)
(***************************************************************************)
EXTENDS Archive, FiniteSetTheorems, SequenceTheorems, TLAPS

-----------------------------------------------------------------------------
(* Inspections and batches: what has succeeded stays as it is.              *)

\* A step of the imports, or of anything else.
ImportsOrNot == ImportsNext \/ UNCHANGED importVars

LEMMA StepsOfImports ==
  ASSUME [Next]_vars
  PROVE  ImportsOrNot
BY DEF Next, vars, CalibrationsNext, ImportsStep, ImportsOrNot, EnsureCalibrationRun,
  SchedulerStep, SendBuild, SkipBuild, EndScheduling, LoseMark, BuilderStep, BuildNothing,
  BuildBegin, Build, Persist, RecordFailure, PersistRefused, BuilderLost, Redeliver,
  BeginRefused, ApproveSet, Reduce, LookUp, ChangePublication

Grouped(inv) == DOMAIN inv \subseteq Paths /\ \A g \in GroupsOf(inv) : Complete(inv, g)

InspectionsOK ==
  /\ DOMAIN inspection = InspectionKeys /\ DOMAIN scanned = InspectionKeys
  /\ \A k \in InspectionKeys :
       /\ scanned[k] # <<>> => inspection[k] = None /\ DOMAIN scanned[k] \subseteq Paths
       /\ inspection[k].status = "SUCCEEDED" => Grouped(Inventory(k))

InspectionsKept ==
  \A k \in InspectionKeys :
    inspection[k].status = "SUCCEEDED" => inspection'[k] = inspection[k]

\* A request that scans has no inspection yet, so none is ever replaced.
LEMMA InspectionsStep ==
  ASSUME InspectionsOK, ImportsOrNot
  PROVE  InspectionsOK' /\ InspectionsKept
<1>1. CASE UNCHANGED <<scanned, inspection>>
  BY <1>1 DEF InspectionsOK, InspectionsKept, Inventory
<1>2. ASSUME NEW k \in InspectionKeys, NEW dir \in Directories, InspectBegin(k, dir)
      PROVE  InspectionsOK' /\ InspectionsKept
  <2>1. Candidates(dir) \subseteq Paths
    BY ImportsAssumption DEF Candidates
  <2>2. CASE Candidates(dir) = {}
    BY <1>2, <2>2 DEF InspectBegin, InspectionsOK, InspectionsKept, Inventory, None
  <2>3. CASE Candidates(dir) # {}
    <3> DEFINE headers == [p \in Candidates(dir) |-> source[p]]
    <3>1. scanned' = [scanned EXCEPT ![k] = headers] /\ inspection' = inspection
      BY <1>2, <2>3 DEF InspectBegin
    <3>2. inspection[k] = None /\ DOMAIN headers \subseteq Paths
      BY <1>2, <2>1 DEF InspectBegin
    <3> HIDE DEF headers
    <3> QED
      BY <3>1, <3>2 DEF InspectionsOK, InspectionsKept, Inventory
  <2> QED
    BY <2>2, <2>3
<1>3. ASSUME NEW k \in InspectionKeys, InspectEnd(k)
      PROVE  InspectionsOK' /\ InspectionsKept
  <2> DEFINE inv == [p \in DOMAIN scanned[k] |-> [header |-> scanned[k][p], sha |-> source[p]]]
             rec == IF /\ \A p \in DOMAIN inv : inv[p].sha # Absent
                       /\ \A g \in GroupsOf(inv) : Complete(inv, g)
                    THEN [status |-> "SUCCEEDED", inventory |-> inv] ELSE [status |-> "FAILED"]
  <2>1. /\ scanned[k] # <<>> /\ inspection[k] = None
        /\ inspection' = [inspection EXCEPT ![k] = rec]
        /\ scanned' = [scanned EXCEPT ![k] = <<>>]
    BY <1>3 DEF InspectEnd, InspectionsOK
  <2>2. DOMAIN inv \subseteq Paths
    BY <2>1 DEF InspectionsOK
  <2>3. rec.status = "SUCCEEDED" => Grouped(rec.inventory)
    BY <2>2 DEF Grouped
  <2> HIDE DEF rec
  <2> QED
    BY <2>1, <2>3 DEF InspectionsOK, InspectionsKept, Inventory, None
<1> QED
  BY <1>1, <1>2, <1>3 DEF ImportsOrNot, ImportsNext, importVars, SourceChanges, ImportBegin,
    CopyFrame, Refuse, ImportEnd, ImportStops

Good(i) == i \in InspectionKeys /\ inspection[i].status = "SUCCEEDED"

BatchesOK ==
  /\ DOMAIN importer = ImportKeys /\ DOMAIN batch = ImportKeys /\ DOMAIN managed = ImportKeys
  /\ \A k \in ImportKeys :
       /\ DOMAIN importer[k] = DOMAIN Idling
       /\ Importing(k) => batch[k] = None /\ Good(importer[k].inspection)
       /\ batch[k].status = "SUCCEEDED" => Good(batch[k].inspection)

BatchesKept ==
  \A k \in ImportKeys :
    batch[k].status = "SUCCEEDED" => batch'[k] = batch[k] /\ managed'[k] = managed[k]

LEMMA RefuseBatch ==
  ASSUME BatchesOK, NEW k \in ImportKeys, Importing(k), Refuse(k)
  PROVE  BatchesOK' /\ BatchesKept
<1> DEFINE rec == [status |-> "FAILED", inspection |-> importer[k].inspection]
<1>1. /\ batch' = [batch EXCEPT ![k] = rec] /\ importer' = [importer EXCEPT ![k] = Idling]
      /\ UNCHANGED <<managed, inspection>>
  BY DEF Refuse
<1>2. rec.status = "FAILED" /\ batch[k].status = "NONE"
  BY DEF BatchesOK, None
<1> HIDE DEF rec
<1> QED
  BY <1>1, <1>2 DEF BatchesOK, BatchesKept, Importing, Good

\* A request that imports has no batch yet.
LEMMA BatchesStep ==
  ASSUME InspectionsOK, BatchesOK, ImportsOrNot
  PROVE  BatchesOK' /\ BatchesKept
<1>0. InspectionsKept
  BY InspectionsStep
<1>1. CASE UNCHANGED <<importer, batch, managed>>
  BY <1>0, <1>1 DEF BatchesOK, BatchesKept, Importing, Good, InspectionsKept
<1>2. ASSUME NEW k \in ImportKeys, NEW i \in InspectionKeys, ImportBegin(k, i)
      PROVE  BatchesOK' /\ BatchesKept
  <2> DEFINE rec == [inspection |-> i, copies |-> <<>>]
  <2>1. /\ importer' = [importer EXCEPT ![k] = rec] /\ batch[k] = None /\ Good(i)
        /\ UNCHANGED <<batch, managed, inspection>>
    BY <1>2 DEF ImportBegin, Good
  <2>2. DOMAIN rec = DOMAIN Idling /\ rec.inspection = i
    BY DEF Idling
  <2> HIDE DEF rec
  <2> QED
    BY <2>1, <2>2 DEF BatchesOK, BatchesKept, Importing, Good
<1>3. ASSUME NEW k \in ImportKeys, CopyFrame(k)
      PROVE  BatchesOK' /\ BatchesKept
  <2>1. CASE Refuse(k)
    BY <1>3, <2>1, RefuseBatch DEF CopyFrame
  <2>2. CASE ~Refuse(k)
    <3>1. PICK p \in Uncopied(k) :
            /\ importer' = [importer EXCEPT ![k].copies =
                 [q \in DOMAIN @ \cup {p} |-> IF q = p THEN source[p] ELSE @[q]]]
            /\ UNCHANGED <<batch, managed, inspection>>
      BY <1>3, <2>2 DEF CopyFrame
    <3>2. /\ DOMAIN importer' = ImportKeys /\ importer'[k].inspection = importer[k].inspection
          /\ DOMAIN importer'[k] = DOMAIN Idling
          /\ \A x \in ImportKeys \ {k} : importer'[x] = importer[x]
      BY <3>1 DEF BatchesOK, Idling
    <3>3. Importing(k)
      BY <1>3 DEF CopyFrame
    <3> QED
      BY <3>1, <3>2, <3>3 DEF BatchesOK, BatchesKept, Importing, Good
  <2> QED
    BY <2>1, <2>2
<1>4. ASSUME NEW k \in ImportKeys, ImportEnd(k)
      PROVE  BatchesOK' /\ BatchesKept
  <2>0. Importing(k)
    BY <1>4 DEF ImportEnd
  <2>1. CASE Refuse(k)
    BY <2>0, <2>1, RefuseBatch
  <2>2. CASE ~Refuse(k)
    <3> DEFINE rec == [status |-> "SUCCEEDED", inspection |-> importer[k].inspection]
    <3>1. /\ batch' = [batch EXCEPT ![k] = rec] /\ importer' = [importer EXCEPT ![k] = Idling]
          /\ managed' = [managed EXCEPT ![k] = importer[k].copies] /\ UNCHANGED inspection
      BY <1>4, <2>2 DEF ImportEnd
    <3>2. rec.inspection = importer[k].inspection /\ batch[k].status = "NONE"
      BY <2>0 DEF BatchesOK, None
    <3> HIDE DEF rec
    <3> QED
      BY <2>0, <3>1, <3>2 DEF BatchesOK, BatchesKept, Importing, Good
  <2> QED
    BY <2>1, <2>2
<1>5. ASSUME NEW k \in ImportKeys, ImportStops(k)
      PROVE  BatchesOK' /\ BatchesKept
  BY <1>5 DEF ImportStops, BatchesOK, BatchesKept, Importing, Good
<1> QED
  BY <1>1, <1>2, <1>3, <1>4, <1>5 DEF ImportsOrNot, ImportsNext, importVars, SourceChanges,
    InspectBegin, InspectEnd

\* What was verified once stays so.
LEMMA VerifiedKept ==
  ASSUME InspectionsOK, BatchesOK, ImportsOrNot, NEW k \in ImportKeys, NEW p, NEW sha,
         Verified(k, p, sha)
  PROVE  Verified(k, p, sha)'
BY InspectionsStep, BatchesStep
   DEF Verified, InspectionsKept, BatchesKept, BatchesOK, Good

-----------------------------------------------------------------------------
(* Artifacts and raw files: copies of what was inspected, in full groups.   *)

ArtifactsOK ==
  /\ IsFiniteSet(artifact)
  /\ \A a \in artifact : a.batch \in ImportKeys /\ Verified(a.batch, a.path, a.sha)

FramesOf(s) == {r \in raw : r.seq = s}

FullGroup(s) ==
  /\ {r.sub : r \in FramesOf(s)} = 1 .. SubExposures
  /\ Cardinality(FramesOf(s)) = SubExposures

RawsOK ==
  /\ \A r \in raw : r.batch \in ImportKeys /\ Verified(r.batch, r.path, r.sha)
  /\ \A s \in ImportedSequences : FullGroup(s)

\* Artifacts and raw files change when an import ends, and only then.
ImportedBy(k) == Importing(k) /\ ImportEnd(k) /\ ~Refuse(k)

LEMMA RowsChangeWhenImported ==
  ASSUME ImportsOrNot
  PROVE  UNCHANGED <<artifact, raw>> \/ \E k \in ImportKeys : ImportedBy(k)
BY DEF ImportsOrNot, ImportsNext, importVars, SourceChanges, InspectBegin, InspectEnd,
  ImportBegin, CopyFrame, Refuse, ImportEnd, ImportStops, ImportedBy

Imported(k) == Inventory(importer[k].inspection)

LEMMA CopiesVerified ==
  ASSUME InspectionsOK, BatchesOK, NEW k \in ImportKeys, ImportedBy(k)
  PROVE  /\ Grouped(Imported(k))
         /\ \A p \in DOMAIN Imported(k) : \A sha :
              sha = importer[k].copies[p] => Verified(k, p, sha)'
<1>1. Good(importer[k].inspection) /\ UNCHANGED inspection
  BY DEF ImportedBy, BatchesOK, ImportEnd, Refuse
<1>2. \A p \in DOMAIN Imported(k) : importer[k].copies[p] = Imported(k)[p].sha
  BY DEF ImportedBy, ImportEnd, SameDigest, Imported
<1>3. /\ batch'[k] = [status |-> "SUCCEEDED", inspection |-> importer[k].inspection]
      /\ managed'[k] = importer[k].copies
  BY DEF ImportedBy, ImportEnd, BatchesOK
<1> QED
  BY <1>1, <1>2, <1>3 DEF Good, InspectionsOK, Verified, Imported, Inventory

LEMMA ArtifactsStep ==
  ASSUME InspectionsOK, BatchesOK, ArtifactsOK, ImportsOrNot
  PROVE  ArtifactsOK' /\ artifact \subseteq artifact'
<1>1. \A a \in artifact : Verified(a.batch, a.path, a.sha)'
  BY VerifiedKept DEF ArtifactsOK
<1>2. CASE UNCHANGED <<artifact, raw>>
  BY <1>1, <1>2 DEF ArtifactsOK
<1>3. ASSUME NEW k \in ImportKeys, ImportedBy(k)
      PROVE  ArtifactsOK' /\ artifact \subseteq artifact'
  <2> DEFINE inv == Imported(k)
             row == [p \in DOMAIN inv |-> [batch |-> k, path |-> p,
                       sha |-> importer[k].copies[p], header |-> inv[p].header]]
             rows == {row[p] : p \in DOMAIN inv}
  <2>1. artifact' = artifact \cup rows
    BY <1>3 DEF ImportedBy, ImportEnd, Imported
  <2>2. IsFiniteSet(DOMAIN inv)
    BY <1>3, CopiesVerified, ImportsAssumption, FS_Subset DEF Grouped
  <2>3. row \in Surjection(DOMAIN inv, rows)
    BY DEF Surjection
  <2>4. IsFiniteSet(rows)
    BY <2>2, <2>3, FS_Surjection
  <2>5. IsFiniteSet(artifact')
    BY <2>1, <2>4, FS_Union DEF ArtifactsOK
  <2>6. \A p \in DOMAIN inv : /\ row[p].batch = k /\ row[p].path = p
                              /\ row[p].sha = importer[k].copies[p]
    OBVIOUS
  <2>7. \A p \in DOMAIN inv : \A sha : sha = importer[k].copies[p] => Verified(k, p, sha)'
    BY <1>3, CopiesVerified
  <2>8. ASSUME NEW a \in artifact' PROVE a.batch \in ImportKeys /\ Verified(a.batch, a.path, a.sha)'
    <3>1. CASE a \in artifact
      BY <1>1, <3>1 DEF ArtifactsOK
    <3>2. CASE a \in rows
      <4>1. PICK p \in DOMAIN inv : a = row[p]
        BY <3>2
      <4>2. a.batch = k /\ a.path = p /\ a.sha = importer[k].copies[p]
        BY <4>1, <2>6
      <4> QED
        BY <4>2, <2>7
    <3> QED
      BY <2>1, <3>1, <3>2
  <2> QED
    BY <2>1, <2>5, <2>8 DEF ArtifactsOK
<1> QED
  BY <1>2, <1>3, RowsChangeWhenImported

\* The rows of an import, and the sequences they make.
Row(k, p) ==
  [seq |-> SequenceOf(Imported(k), Group(Imported(k)[p].header)), sub |-> Sub(Imported(k)[p].header),
   sha |-> importer[k].copies[p], batch |-> k, path |-> p]

Rows(k) == {Row(k, p) : p \in Science(Imported(k))}

LEMMA RowsOfAGroup ==
  ASSUME InspectionsOK, BatchesOK, NEW k \in ImportKeys, ImportedBy(k),
         NEW g \in GroupsOf(Imported(k)), NEW frames,
         frames = {r \in Rows(k) : r.seq = SequenceOf(Imported(k), g)}
  PROVE  {r.sub : r \in frames} = 1 .. SubExposures /\ Cardinality(frames) = SubExposures
<1> DEFINE inv == Imported(k)
           members == Members(inv, g)
           row == [p \in members |-> Row(k, p)]
<1>1. Complete(inv, g) /\ IsFiniteSet(members)
  BY CopiesVerified, ImportsAssumption, FS_Subset DEF Grouped, Members, Science
<1>2. \A p \in Science(inv) : /\ Row(k, p).path = p /\ Row(k, p).sub = Sub(inv[p].header)
                              /\ Row(k, p).seq = SequenceOf(inv, Group(inv[p].header))
  BY DEF Row
<1>3. \A p \in Science(inv) :
        Row(k, p).seq = SequenceOf(inv, g) <=> Group(inv[p].header) = g
  <2>1. \A h : SequenceOf(inv, h).group = h
    BY DEF SequenceOf
  <2> QED
    BY <1>2, <2>1
<1>4. frames = {row[p] : p \in members}
  BY <1>3 DEF Rows, Members
<1>5. row \in Bijection(members, frames)
  BY <1>2, <1>4 DEF Bijection, Injection, Surjection, IsInjective, Members
<1>6. Cardinality(frames) = Cardinality(members)
  BY <1>1, <1>5, FS_Bijection DEF ExistsBijection
<1>7. {r.sub : r \in frames} = {Sub(inv[p].header) : p \in members}
  BY <1>2, <1>4 DEF Members
<1> QED
  BY <1>1, <1>6, <1>7 DEF Complete

LEMMA RawsStep ==
  ASSUME InspectionsOK, BatchesOK, RawsOK, FrameImportedOnce, ImportsOrNot
  PROVE  RawsOK' /\ FrameImportedOnce' /\ ImportedSequences \subseteq ImportedSequences'
<1>1. \A r \in raw : Verified(r.batch, r.path, r.sha)'
  BY VerifiedKept DEF RawsOK
<1>2. CASE UNCHANGED <<artifact, raw>>
  BY <1>1, <1>2 DEF RawsOK, FrameImportedOnce, ImportedSequences, FullGroup, FramesOf
<1>3. ASSUME NEW k \in ImportKeys, ImportedBy(k)
      PROVE  RawsOK' /\ FrameImportedOnce' /\ ImportedSequences \subseteq ImportedSequences'
  <2>1. raw' = raw \cup Rows(k) /\ Unique(Rows(k))
    BY <1>3 DEF ImportedBy, ImportEnd, Imported, Rows, Row, RawFilesOf
  <2>2. FrameImportedOnce' /\ ImportedSequences \subseteq ImportedSequences'
    BY <2>1 DEF FrameImportedOnce, ImportedSequences, Unique
  <2>3. \A p \in DOMAIN Imported(k) : \A sha :
          sha = importer[k].copies[p] => Verified(k, p, sha)'
    BY <1>3, CopiesVerified
  <2>4. ASSUME NEW r \in raw' PROVE r.batch \in ImportKeys /\ Verified(r.batch, r.path, r.sha)'
    <3>1. CASE r \in raw
      BY <1>1, <3>1 DEF RawsOK
    <3>2. CASE r \in Rows(k)
      <4>1. PICK p \in DOMAIN Imported(k) : r = Row(k, p)
        BY <3>2 DEF Rows, Science
      <4>2. r.batch = k /\ r.path = p /\ r.sha = importer[k].copies[p]
        BY <4>1 DEF Row
      <4> QED
        BY <2>3, <4>2
    <3> QED
      BY <2>1, <3>1, <3>2
  <2>5. ASSUME NEW s \in ImportedSequences' PROVE FullGroup(s)'
    <3>1. CASE s \in ImportedSequences
      <4>1. FramesOf(s)' = FramesOf(s)
        BY <2>1, <3>1 DEF FramesOf, ImportedSequences, Unique
      <4> QED
        BY <3>1, <4>1 DEF RawsOK, FullGroup
    <3>2. CASE s \notin ImportedSequences
      <4>1. PICK p \in Science(Imported(k)) : s = Row(k, p).seq
        BY <2>1, <3>2 DEF ImportedSequences, Rows
      <4> DEFINE g == Group(Imported(k)[p].header)
      <4>2. s = SequenceOf(Imported(k), g) /\ g \in GroupsOf(Imported(k))
        BY <4>1 DEF Row, GroupsOf
      <4>3. FramesOf(s)' = {r \in Rows(k) : r.seq = SequenceOf(Imported(k), g)}
        BY <2>1, <3>2, <4>2 DEF FramesOf, ImportedSequences
      <4> HIDE DEF g
      <4> QED
        BY <1>3, <4>2, <4>3, RowsOfAGroup DEF FullGroup
    <3> QED
      BY <3>1, <3>2
  <2> QED
    BY <2>2, <2>4, <2>5 DEF RawsOK
<1> QED
  BY <1>2, <1>3, RowsChangeWhenImported

-----------------------------------------------------------------------------
(* Calibration sets: enough inputs, all of them artifacts; fixed when       *)
(* approved.                                                                *)

SetFields == {"status", "qc", "inputs"}

Sound(inputs) == inputs \subseteq artifact /\ ~Missing(inputs)

SetsOK ==
  /\ DOMAIN calSet = CalKeys /\ DOMAIN builder = Builders
  /\ \A c \in CalKeys :
       calSet[c].status # "NONE" => DOMAIN calSet[c] = SetFields /\ Sound(calSet[c].inputs)
  /\ \A w \in Builders :
       /\ At(w, "BUILD") => builder[w].inputs \subseteq artifact
       /\ At(w, "PERSIST") =>
            /\ DOMAIN builder[w].set = SetFields /\ builder[w].set.status = "UNVERIFIED"
            /\ Sound(builder[w].set.inputs)

SetsKept == \A c \in CalKeys : calSet[c].status = "APPROVED" => calSet'[c] = calSet[c]

\* A worker that moves to a place where it holds no inputs and no set.
LEMMA MovesElsewhere ==
  ASSUME SetsOK, artifact \subseteq artifact', NEW w \in Builders, NEW rec, Moves(w, rec),
         rec.at \notin {"BUILD", "PERSIST"}, UNCHANGED calSet
  PROVE  SetsOK' /\ SetsKept
BY DEF SetsOK, SetsKept, Moves, At, Sound

LEMMA SetsStep ==
  ASSUME SetsOK, artifact \subseteq artifact', [Next]_vars
  PROVE  SetsOK' /\ SetsKept
<1>1. CASE UNCHANGED <<calSet, builder>>
  BY <1>1 DEF SetsOK, SetsKept, At, Sound
<1>2. ASSUME NEW w \in Builders, NEW m \in queue, BuildBegin(w, m)
      PROVE  SetsOK' /\ SetsKept
  <2> DEFINE inputs == InputsOf(calRun[m.about].batch)
             rec == [at |-> "BUILD", msg |-> m, inputs |-> inputs]
  <2>1. builder' = [builder EXCEPT ![w] = rec] /\ UNCHANGED <<calSet, artifact>>
    BY <1>2 DEF BuildBegin, Moves, importVars
  <2>2. rec.at = "BUILD" /\ rec.inputs \subseteq artifact
    BY DEF InputsOf
  <2> HIDE DEF rec
  <2> QED
    BY <2>1, <2>2 DEF SetsOK, SetsKept, At, Sound
<1>3. ASSUME NEW w \in Builders, Build(w)
      PROVE  SetsOK' /\ SetsKept
  <2> DEFINE inputs == builder[w].inputs
  <2>0. UNCHANGED calSet /\ inputs \subseteq artifact
    BY <1>3 DEF Build, SetsOK
  <2>1. ASSUME NEW code, Raises(w, code) PROVE SetsOK' /\ SetsKept
    <3> DEFINE rec == [at |-> "RAISED", msg |-> builder[w].msg, code |-> code]
    <3>1. rec.at = "RAISED" /\ Moves(w, rec)
      BY <2>1 DEF Raises
    <3> HIDE DEF rec
    <3> QED
      BY <2>0, <3>1, MovesElsewhere
  <2>2. ASSUME ~Missing(inputs), NEW qc,
               Moves(w, [at |-> "PERSIST", msg |-> builder[w].msg,
                         set |-> [status |-> "UNVERIFIED", qc |-> qc, inputs |-> inputs]])
        PROVE  SetsOK' /\ SetsKept
    <3> DEFINE set == [status |-> "UNVERIFIED", qc |-> qc, inputs |-> inputs]
               rec == [at |-> "PERSIST", msg |-> builder[w].msg, set |-> set]
    <3>1. builder' = [builder EXCEPT ![w] = rec]
      BY <2>2 DEF Moves
    <3>2. rec.at = "PERSIST" /\ rec.set = set
      OBVIOUS
    <3>3. DOMAIN set = SetFields /\ set.status = "UNVERIFIED" /\ set.inputs = inputs
      BY DEF SetFields
    <3> HIDE DEF rec, set
    <3> QED
      BY <2>0, <2>2, <3>1, <3>2, <3>3 DEF SetsOK, SetsKept, At, Sound
  <2> QED
    BY <1>3, <2>1, <2>2 DEF Build
<1>4. ASSUME NEW w \in Builders, Persist(w)
      PROVE  SetsOK' /\ SetsKept
  <2> DEFINE c == RunOf(w)
             set == builder[w].set
  <2>1. CASE NewSet(c, set)
    <3>1. /\ calSet' = [calSet EXCEPT ![c] = set] /\ builder' = [builder EXCEPT ![w] = Free]
          /\ At(w, "PERSIST") /\ calSet[c].status = "NONE" /\ UNCHANGED artifact
      BY <1>4, <2>1 DEF Persist, Moves, NewSet, None, importVars
    <3> QED
      BY <3>1 DEF SetsOK, SetsKept, At, Sound, Free
  <2>2. CASE ~NewSet(c, set)
    <3> DEFINE rec == [at |-> "RAISED", msg |-> builder[w].msg,
                       code |-> "CALIBRATION_PERSIST_FAILED"]
    <3>1. rec.at = "RAISED" /\ Moves(w, rec) /\ UNCHANGED calSet
      BY <1>4, <2>2 DEF Persist, Raises
    <3> HIDE DEF rec
    <3> QED
      BY <3>1, MovesElsewhere
  <2> QED
    BY <2>1, <2>2
<1>5. ASSUME NEW w \in Builders, RecordFailure(w) \/ BuilderLost(w)
      PROVE  SetsOK' /\ SetsKept
  BY <1>5, MovesElsewhere DEF RecordFailure, BuilderLost, Free
<1>6. ASSUME NEW w \in Builders, PersistRefused(w)
      PROVE  SetsOK' /\ SetsKept
  <2> DEFINE rec == [at |-> "RAISED", msg |-> builder[w].msg,
                     code |-> "CALIBRATION_PERSIST_FAILED"]
  <2>1. rec.at = "RAISED" /\ Moves(w, rec) /\ UNCHANGED calSet
    BY <1>6 DEF PersistRefused, Raises
  <2> HIDE DEF rec
  <2> QED
    BY <2>1, MovesElsewhere
<1>7. ASSUME NEW c \in CalKeys, NEW accept \in BOOLEAN, ApproveSet(c, accept)
      PROVE  SetsOK' /\ SetsKept
  <2> DEFINE set == [calSet[c] EXCEPT !.status = "APPROVED"]
  <2>1. /\ calSet' = [calSet EXCEPT ![c] = set] /\ calSet[c].status = "UNVERIFIED"
        /\ UNCHANGED <<builder, artifact>>
    BY <1>7 DEF ApproveSet, MayApprove, importVars
  <2>2. DOMAIN set = SetFields /\ set.inputs = calSet[c].inputs
    BY <2>1 DEF SetsOK, SetFields
  <2> HIDE DEF set
  <2> QED
    BY <2>1, <2>2 DEF SetsOK, SetsKept, At, Sound
<1> QED
  BY <1>1, <1>2, <1>3, <1>4, <1>5, <1>6, <1>7
     DEF Next, vars, calVars, CalibrationsNext, ImportsStep, EnsureCalibrationRun, SchedulerStep,
       SendBuild, SkipBuild, EndScheduling, LoseMark, BuilderStep, BuildNothing, Redeliver,
       BeginRefused, Reduce, LookUp, ChangePublication

-----------------------------------------------------------------------------
(* Products: what they were made from, and what was checked to publish.     *)

ProductsOK ==
  /\ SimulatedProduct \in DOMAIN product
  /\ \A p \in DOMAIN product :
       /\ DOMAIN product[p] = DOMAIN Draft("PASS")
       /\ p = SimulatedProduct =>
            product[p].qc = "SIMULATION_ONLY" /\ product[p].publication = "DRAFT"
       /\ p # SimulatedProduct =>
            p.cal \in CalKeys /\ Usable(p.cal) /\ p.seq \in ImportedSequences
       /\ product[p].publication = "PUBLISHED" =>
            /\ p.level = "L3" /\ product[p].qc # "FAIL"
            /\ product[p].qc = "WARNING" => product[p].reason

LEMMA ProductsStep ==
  ASSUME ProductsOK, SetsKept, ImportedSequences \subseteq ImportedSequences', [Next]_vars
  PROVE  ProductsOK'
<1>1. \A c \in CalKeys : Usable(c) => Usable(c)'
  BY DEF SetsKept, Usable
<1>2. CASE UNCHANGED product
  BY <1>1, <1>2 DEF ProductsOK
<1>3. ASSUME NEW s \in ImportedSequences, NEW c \in CalKeys, Reduce(s, c)
      PROVE  ProductsOK'
  <2>1. PICK nullFailed \in BOOLEAN :
          product' = [p \in DOMAIN product \cup {L2(s, c), L3(s, c)} |->
            IF p \in DOMAIN product THEN product[p]
            ELSE Draft(IF p.level = "L3" THEN IF nullFailed THEN "FAIL" ELSE calSet[c].qc
                       ELSE calSet[c].qc)]
    BY <1>3 DEF Reduce
  <2>2. \A qc : /\ DOMAIN Draft(qc) = DOMAIN Draft("PASS") /\ Draft(qc).publication = "DRAFT"
    BY DEF Draft
  <2>3. /\ L2(s, c).cal = c /\ L2(s, c).seq = s
        /\ L3(s, c).cal = c /\ L3(s, c).seq = s
    BY DEF L2, L3
  <2>4. Usable(c)
    BY <1>3 DEF Reduce
  <2> QED
    BY <1>1, <2>1, <2>2, <2>3, <2>4 DEF ProductsOK
<1>4. ASSUME NEW x \in Clients, NEW q \in Requests(DOMAIN product), ChangePublication(x, q)
      PROVE  ProductsOK'
  <2> DEFINE rec == [product[q.product] EXCEPT
                       !.publication = IF q.action = "publish" THEN "PUBLISHED" ELSE "WITHDRAWN",
                       !.reason = q.reason]
  <2>1. CASE ~(Granted(q) /\ Bindable(client[x]))
    BY <1>2, <1>4, <2>1 DEF ChangePublication
  <2>2. CASE Granted(q)
    <3>1. CASE UNCHANGED product
      BY <1>2, <3>1
    <3>2. CASE product' = [product EXCEPT ![q.product] = rec]
      <4>1. q.product \in DOMAIN product
        BY DEF Requests
      <4>2. /\ DOMAIN rec = DOMAIN Draft("PASS") /\ rec.qc = product[q.product].qc
            /\ rec.reason = q.reason
            /\ rec.publication = IF q.action = "publish" THEN "PUBLISHED" ELSE "WITHDRAWN"
        BY <4>1 DEF ProductsOK, Draft
      <4>3. rec.publication = "PUBLISHED" => MayPublish(q.product, q.reason)
        BY <2>2, <4>2 DEF Granted
      <4>4. q.product # SimulatedProduct
        BY <2>2, <4>1 DEF Granted, ProductsOK
      <4> HIDE DEF rec
      <4> QED
        BY <1>1, <3>2, <4>1, <4>2, <4>3, <4>4 DEF ProductsOK, MayPublish
    <3> QED
      BY <1>4, <3>1, <3>2 DEF ChangePublication
  <2> QED
    BY <2>1, <2>2
<1> QED
  BY <1>2, <1>3, <1>4 DEF Next, vars, archiveVars, LookUp

-----------------------------------------------------------------------------
(* The invariant, and what follows from it.                                 *)

ArchiveInv ==
  /\ InspectionsOK /\ BatchesOK /\ ArtifactsOK
  /\ RawsOK /\ FrameImportedOnce
  /\ SetsOK /\ ProductsOK

LEMMA ArchiveInit ==
  ASSUME Init
  PROVE  ArchiveInv
<1> USE DEF Init, CalibrationsInit, ImportsInit
<1>1. InspectionsOK /\ BatchesOK
  BY DEF InspectionsOK, BatchesOK, None, Importing
<1>2. ArtifactsOK /\ RawsOK /\ FrameImportedOnce
  BY FS_EmptySet DEF ArtifactsOK, RawsOK, FrameImportedOnce, ImportedSequences
<1>3. SetsOK
  BY DEF SetsOK, None, At, Free
<1>4. ProductsOK
  <2>1. \A qc : /\ DOMAIN Draft(qc) = DOMAIN Draft("PASS") /\ Draft(qc).publication = "DRAFT"
                /\ Draft(qc).qc = qc
    BY DEF Draft
  <2> QED
    BY <2>1 DEF ProductsOK
<1> QED
  BY <1>1, <1>2, <1>3, <1>4 DEF ArchiveInv

LEMMA ArchiveStep ==
  ASSUME ArchiveInv, [Next]_vars
  PROVE  ArchiveInv' /\ SetsKept
<1>1. ImportsOrNot
  BY StepsOfImports
<1>2. InspectionsOK' /\ BatchesOK'
  BY <1>1, InspectionsStep, BatchesStep DEF ArchiveInv
<1>3. ArtifactsOK' /\ artifact \subseteq artifact'
  BY <1>1, ArtifactsStep DEF ArchiveInv
<1>4. RawsOK' /\ FrameImportedOnce' /\ ImportedSequences \subseteq ImportedSequences'
  BY <1>1, RawsStep DEF ArchiveInv
<1>5. SetsOK' /\ SetsKept
  BY <1>3, SetsStep DEF ArchiveInv
<1>6. ProductsOK'
  BY <1>4, <1>5, ProductsStep DEF ArchiveInv
<1> QED
  BY <1>2, <1>3, <1>4, <1>5, <1>6 DEF ArchiveInv

LEMMA UsableIsSound ==
  ASSUME ArtifactsOK, SetsOK, NEW c \in CalKeys, Usable(c)
  PROVE  SetIsSound(c)
<1>1. Sound(calSet[c].inputs) /\ calSet[c].status = "APPROVED" /\ calSet[c].qc # "FAIL"
  BY DEF SetsOK, Usable
<1>2. ASSUME NEW role \in DOMAIN RequiredCounts
      PROVE  Cardinality({a \in calSet[c].inputs : Role(a.header) = role}) >= RequiredCounts[role]
  <2> DEFINE some == {a \in calSet[c].inputs : Role(a.header) = role}
  <2>1. IsFiniteSet(some) /\ Cardinality(some) \in Nat
    BY <1>1, FS_Subset, FS_CardinalityType DEF Sound, ArtifactsOK
  <2>2. ~(Cardinality(some) < RequiredCounts[role])
    BY <1>1 DEF Sound, Missing, Count
  <2>3. RequiredCounts[role] \in Nat
    BY CalibrationsAssumption
  <2> HIDE DEF some
  <2>4. Cardinality(some) >= RequiredCounts[role]
    BY <2>1, <2>2, <2>3
  <2> QED
    BY <2>4 DEF some
<1> QED
  BY <1>1, <1>2 DEF SetIsSound, Sound, ArtifactsOK

LEMMA ArchiveInvIsTraceable ==
  ASSUME ArchiveInv
  PROVE  PublishedIsTraceable
<1> SUFFICES ASSUME NEW p \in DOMAIN product, product[p].publication = "PUBLISHED"
             PROVE  /\ p.level = "L3" /\ p # SimulatedProduct /\ product[p].qc # "FAIL"
                    /\ product[p].qc = "WARNING" => product[p].reason
                    /\ SetIsSound(p.cal)
                    /\ {r.sub : r \in FramesOf(p.seq)} = 1 .. SubExposures
                    /\ Cardinality(FramesOf(p.seq)) = SubExposures
                    /\ \A r \in FramesOf(p.seq) : Verified(r.batch, r.path, r.sha)
  BY DEF PublishedIsTraceable, FramesOf
<1>1. /\ p.level = "L3" /\ p # SimulatedProduct /\ product[p].qc # "FAIL"
      /\ product[p].qc = "WARNING" => product[p].reason
      /\ p.cal \in CalKeys /\ Usable(p.cal) /\ p.seq \in ImportedSequences
  BY DEF ArchiveInv, ProductsOK
<1>2. SetIsSound(p.cal)
  BY <1>1, UsableIsSound DEF ArchiveInv
<1> QED
  BY <1>1, <1>2 DEF ArchiveInv, RawsOK, FullGroup, FramesOf

\* What is published can be traced to inspected bytes: the route checks only the
\* product and the status of its set, the rest is what the steps before it left.
THEOREM TraceTheorem == Spec => []PublishedIsTraceable
<1>1. Init => ArchiveInv
  BY ArchiveInit
<1>2. ArchiveInv /\ [Next]_vars => ArchiveInv'
  BY ArchiveStep
<1>3. ArchiveInv => PublishedIsTraceable
  BY ArchiveInvIsTraceable
<1> QED
  BY <1>1, <1>2, <1>3, PTL DEF Spec

\* The same bytes are one exposure, by the unique digests of raw files.
THEOREM ImportedOnceTheorem == Spec => []FrameImportedOnce
<1>1. Init => ArchiveInv
  BY ArchiveInit
<1>2. ArchiveInv /\ [Next]_vars => ArchiveInv'
  BY ArchiveStep
<1>3. ArchiveInv => FrameImportedOnce
  BY DEF ArchiveInv
<1> QED
  BY <1>1, <1>2, <1>3, PTL DEF Spec

\* An approved set is never changed: not by a second build of its run, and not
\* by a second approval.
THEOREM ApprovalTheorem == Spec => ApprovedSetIsFixed
<1>1. Init => ArchiveInv
  BY ArchiveInit
<1>2. ArchiveInv /\ [Next]_vars => ArchiveInv'
  BY ArchiveStep
<1>3. ArchiveInv /\ [Next]_vars =>
        [\A c \in CalKeys : calSet[c].status = "APPROVED" => calSet'[c] = calSet[c]]_vars
  BY ArchiveStep DEF SetsKept
<1> QED
  BY <1>1, <1>2, <1>3, PTL DEF Spec, ApprovedSetIsFixed

\* Each change of a publication uses up a key: two requests with one key that
\* run side by side change it once.
THEOREM OneChangeTheorem == Spec => OneChangePerKey
<1>1. ASSUME Next
      PROVE  product' # product /\ DOMAIN product' = DOMAIN product => bound' # bound
  <2>1. ASSUME NEW s \in ImportedSequences, NEW c \in CalKeys, Reduce(s, c)
        PROVE  DOMAIN product' # DOMAIN product
    BY <2>1 DEF Reduce
  <2>2. ASSUME NEW x \in Clients, NEW q \in Requests(DOMAIN product), ChangePublication(x, q)
        PROVE  product' # product => bound' # bound
    BY <2>2 DEF ChangePublication, Bindable
  <2> QED
    BY <1>1, <2>1, <2>2 DEF Next, archiveVars, LookUp
<1>2. [Next]_vars =>
        [product' # product /\ DOMAIN product' = DOMAIN product => bound' # bound]_vars
  BY <1>1
<1> QED
  BY <1>2, PTL DEF Spec, OneChangePerKey

-----------------------------------------------------------------------------
(* Builds: a run that is queued or running has an event the scheduler has   *)
(* not sent, a message or a worker.                                         *)

Events == [type : {"QUEUED"}, about : CalKeys]

\* A message has been retried once for every fault it met, at most.
MessageOK(m) == m \in Messages(CalKeys) /\ m.retries <= faults

QueueOK ==
  /\ outbox \in Seq(Events)
  /\ published \subseteq DOMAIN outbox /\ inHand \in {0} \cup DOMAIN outbox
  /\ sends \in Nat /\ faults \in 0 .. MaxFaults
  /\ \A m \in queue : MessageOK(m)
  /\ DOMAIN builder = Builders /\ DOMAIN calRun = CalKeys
  /\ \A c \in CalKeys : "status" \in DOMAIN calRun[c]
  /\ \A w \in Builders : ~At(w, "IDLE") => MessageOK(builder[w].msg)

Waits(c) == calRun[c].status \in {"QUEUED", "RUNNING"}

Pending(c) == \E n \in DOMAIN outbox \ published : n # inHand /\ outbox[n].about = c

Carried(c) ==
  \/ \E m \in queue : m.about = c
  \/ \E w \in Builders : ~At(w, "IDLE") /\ RunOf(w) = c

BuildInv == QueueOK /\ \A c \in CalKeys : Waits(c) => Pending(c) \/ Carried(c)

\* A step that leaves the outbox, the messages and the runs alone, in which a
\* worker goes on with its message.
LEMMA GoesOn ==
  ASSUME BuildInv, NEW w \in Builders, ~At(w, "IDLE"), NEW rec, Moves(w, rec),
         rec.at # "IDLE", rec.msg = builder[w].msg,
         faults' \in 0 .. MaxFaults, faults <= faults', UNCHANGED <<outboxVars, calRun>>
  PROVE  BuildInv'
<1>1. QueueOK'
  BY CalibrationsAssumption DEF BuildInv, QueueOK, MessageOK, Messages, Moves, At, outboxVars
<1>2. \A c \in CalKeys : Carried(c) => Carried(c)'
  BY DEF BuildInv, QueueOK, Carried, Moves, At, RunOf, outboxVars
<1>3. \A c \in CalKeys : (Waits(c)' => Waits(c)) /\ (Pending(c) => Pending(c)')
  BY DEF Waits, Pending, outboxVars
<1> QED
  BY <1>1, <1>2, <1>3 DEF BuildInv

\* A worker that ends, and leaves its run in a state that needs nobody.
LEMMA EndsBuild ==
  ASSUME BuildInv, NEW w \in Builders, ~At(w, "IDLE"), Moves(w, Free), NEW status,
         status \notin {"QUEUED", "RUNNING"}, SetRun(RunOf(w), status),
         UNCHANGED <<outboxVars, faults>>
  PROVE  BuildInv'
<1>0. RunOf(w) \in CalKeys
  BY DEF BuildInv, QueueOK, MessageOK, Messages, RunOf
<1>1. QueueOK'
  BY <1>0 DEF BuildInv, QueueOK, MessageOK, Moves, SetRun, At, Free, outboxVars
<1>2. ASSUME NEW c \in CalKeys, Waits(c)'
      PROVE  c # RunOf(w) /\ Waits(c)
  BY <1>0, <1>2 DEF Waits, SetRun, BuildInv, QueueOK
<1>3. \A c \in CalKeys : c # RunOf(w) /\ Carried(c) => Carried(c)'
  BY DEF BuildInv, QueueOK, Carried, Moves, At, RunOf, Free, outboxVars
<1>4. \A c \in CalKeys : Pending(c) => Pending(c)'
  BY DEF Pending, outboxVars
<1> QED
  BY <1>1, <1>2, <1>3, <1>4 DEF BuildInv

\* Messages come and no other goes, and the workers stay.
LEMMA QueueGrows ==
  ASSUME BuildInv, UNCHANGED <<outbox, published, inHand, sends, calRun, builder>>,
         faults' \in 0 .. MaxFaults, faults <= faults',
         \A m \in queue' : m \in queue \/ MessageOK(m)',
         \A m \in queue : \E x \in queue' : x.about = m.about
  PROVE  BuildInv'
<1>1. QueueOK'
  BY CalibrationsAssumption DEF BuildInv, QueueOK, MessageOK, Messages, At
<1>2. \A c \in CalKeys : /\ Waits(c)' => Waits(c)
                         /\ Pending(c) => Pending(c)'
                         /\ Carried(c) => Carried(c)'
  BY DEF Waits, Pending, Carried, At, RunOf
<1> QED
  BY <1>1, <1>2 DEF BuildInv

LEMMA SchedulerKeepsBuilds ==
  ASSUME BuildInv, SchedulerStep \/ LoseMark
  PROVE  BuildInv'
<1>1. ASSUME NEW n \in DOMAIN outbox, SendBuild(n)
      PROVE  BuildInv'
  <2>0. outbox[n] \in Events /\ n \in DOMAIN outbox \ published
    BY <1>1, ElementOfSeq DEF BuildInv, QueueOK, SendBuild, Send, Takes, IsNext
  <2>1. PICK c0 \in CalKeys : c0 = outbox[n].about
    BY <2>0 DEF Events
  <2>2. PICK m0 \in Messages(CalKeys) :
          m0.about = c0 /\ m0.retries = 0 /\ queue' = queue \cup {m0}
    <3> DEFINE m == [task |-> sends + 1, about |-> c0, retries |-> 0]
    <3>1. m \in Messages(CalKeys)
      BY <1>1, OutboxAssumption DEF Messages, BuildInv, QueueOK, SendBuild, Send
    <3>2. m.about = c0 /\ m.retries = 0 /\ queue' = queue \cup {m}
      BY <1>1, <2>1 DEF SendBuild, Send
    <3> QED
      BY <3>1, <3>2
  <2>3. /\ inHand' = n /\ sends' = sends + 1
        /\ UNCHANGED <<outbox, published, calRun, builder, faults>>
    BY <1>1 DEF SendBuild, Send, calVars
  <2>4. QueueOK'
    BY <2>2, <2>3 DEF BuildInv, QueueOK, MessageOK, At
  <2>5. ASSUME NEW c \in CalKeys, Pending(c) \/ Carried(c)
        PROVE  Pending(c)' \/ Carried(c)'
    <3>1. CASE c = c0
      BY <2>2, <3>1 DEF Carried
    <3>2. CASE c # c0
      BY <2>1, <2>2, <2>3, <2>5, <3>2 DEF Pending, Carried, At, RunOf
    <3> QED
      BY <3>1, <3>2
  <2>6. \A c \in CalKeys : Waits(c)' => Waits(c)
    BY <2>3 DEF Waits
  <2> QED
    BY <2>4, <2>5, <2>6 DEF BuildInv
<1>2. ASSUME NEW n \in DOMAIN outbox, SkipBuild(n)
      PROVE  BuildInv'
  <2>1. /\ published' = published \cup {n} /\ calRun[outbox[n].about].status = "SUCCEEDED"
        /\ UNCHANGED <<outbox, inHand, queue, sends, calRun, builder, faults>>
    BY <1>2 DEF SkipBuild, Consume, calVars
  <2>2. QueueOK'
    BY <2>1 DEF BuildInv, QueueOK, MessageOK, At
  <2>3. \A c \in CalKeys : Waits(c) => /\ Pending(c) => Pending(c)'
                                       /\ Carried(c) => Carried(c)'
    BY <2>1 DEF Waits, Pending, Carried, At, RunOf
  <2>4. \A c \in CalKeys : Waits(c)' => Waits(c)
    BY <2>1 DEF Waits
  <2> QED
    BY <2>2, <2>3, <2>4 DEF BuildInv
<1>3. CASE EndScheduling \/ LoseMark
  <2>1. /\ inHand # 0 /\ inHand' = 0 /\ faults' \in 0 .. MaxFaults /\ faults <= faults'
        /\ published' = published \/ published' = published \cup {inHand}
        /\ UNCHANGED <<outbox, queue, sends, calRun, builder>>
    BY <1>3, CalibrationsAssumption
       DEF EndScheduling, Publish, LoseMark, Fault, SchedulerCrash, calVars, BuildInv, QueueOK
  <2>2. QueueOK'
    BY <2>1, CalibrationsAssumption DEF BuildInv, QueueOK, MessageOK, Messages, At
  <2>3. \A c \in CalKeys : /\ Pending(c) => Pending(c)'
                           /\ Carried(c) => Carried(c)'
                           /\ Waits(c)' => Waits(c)
    <3>1. \A n \in DOMAIN outbox : n # 0
      BY DEF BuildInv, QueueOK
    <3> QED
      BY <2>1, <3>1 DEF Pending, Carried, Waits, At, RunOf
  <2> QED
    BY <2>2, <2>3 DEF BuildInv
<1> QED
  BY <1>1, <1>2, <1>3 DEF SchedulerStep

\* A worker takes a message.
LEMMA TakingKeepsBuilds ==
  ASSUME BuildInv, NEW w \in Builders, NEW m \in queue, BuildNothing(w, m) \/ BuildBegin(w, m)
  PROVE  BuildInv'
<1>1. MessageOK(m) /\ m.about \in CalKeys
  BY DEF BuildInv, QueueOK, MessageOK, Messages
<1>2. CASE BuildNothing(w, m)
  <2>1. /\ queue' = queue \ {m} /\ calRun[m.about].status = "SUCCEEDED"
        /\ UNCHANGED <<outbox, published, inHand, sends, calRun, builder, faults>>
    BY <1>2 DEF BuildNothing, Built, Acknowledged, calVars
  <2>2. QueueOK'
    BY <2>1 DEF BuildInv, QueueOK, MessageOK, At
  <2>3. \A c \in CalKeys : /\ Waits(c)' => Waits(c)
                           /\ Waits(c) /\ Carried(c) => Carried(c)'
                           /\ Pending(c) => Pending(c)'
    BY <2>1 DEF Waits, Pending, Carried, At, RunOf
  <2> QED
    BY <2>2, <2>3 DEF BuildInv
<1>3. CASE BuildBegin(w, m)
  <2> DEFINE rec == [at |-> "BUILD", msg |-> m, inputs |-> InputsOf(calRun[m.about].batch)]
  <2>1. /\ queue' = queue \ {m} /\ calRun' = [calRun EXCEPT ![m.about].status = "RUNNING"]
        /\ builder' = [builder EXCEPT ![w] = rec] /\ At(w, "IDLE")
        /\ UNCHANGED <<outbox, published, inHand, sends, faults>>
    BY <1>3 DEF BuildBegin, Acknowledged, SetRun, Moves
  <2>2. rec.at = "BUILD" /\ rec.msg = m
    OBVIOUS
  <2> HIDE DEF rec
  <2>3. QueueOK'
    BY <1>1, <2>1, <2>2 DEF BuildInv, QueueOK, MessageOK, At
  <2>4. ASSUME NEW c \in CalKeys, Waits(c)'
        PROVE  Pending(c)' \/ Carried(c)'
    <3>1. CASE c = m.about
      BY <2>1, <2>2, <3>1 DEF Carried, At, RunOf, BuildInv, QueueOK
    <3>2. CASE c # m.about
      <4>1. Waits(c)
        BY <2>1, <2>4, <3>2 DEF Waits, BuildInv, QueueOK
      <4> QED
        BY <2>1, <2>2, <3>2, <4>1 DEF BuildInv, QueueOK, Pending, Carried, At, RunOf
    <3> QED
      BY <3>1, <3>2
  <2> QED
    BY <2>3, <2>4 DEF BuildInv
<1> QED
  BY <1>2, <1>3

\* A worker goes on or ends.
LEMMA WorkingKeepsBuilds ==
  ASSUME BuildInv, NEW w \in Builders,
         Build(w) \/ Persist(w) \/ RecordFailure(w) \/ PersistRefused(w)
  PROVE  BuildInv'
<1>0. faults \in 0 .. MaxFaults
  BY DEF BuildInv, QueueOK
<1>1. ASSUME NEW code, Raises(w, code), ~At(w, "IDLE"), UNCHANGED <<outboxVars, calRun>>,
             faults' \in 0 .. MaxFaults, faults <= faults'
      PROVE  BuildInv'
  <2> DEFINE rec == [at |-> "RAISED", msg |-> builder[w].msg, code |-> code]
  <2>1. Moves(w, rec) /\ rec.at # "IDLE" /\ rec.msg = builder[w].msg
    BY <1>1 DEF Raises
  <2> HIDE DEF rec
  <2> QED
    BY <1>1, <2>1, GoesOn
<1>2. CASE Build(w)
  <2>1. ~At(w, "IDLE") /\ UNCHANGED <<outboxVars, calRun, faults>>
    BY <1>2 DEF Build, At
  <2>2. CASE \E code : Raises(w, code)
    BY <1>0, <1>1, <2>1, <2>2
  <2>3. ASSUME NEW set, Moves(w, [at |-> "PERSIST", msg |-> builder[w].msg, set |-> set])
        PROVE  BuildInv'
    <3> DEFINE rec == [at |-> "PERSIST", msg |-> builder[w].msg, set |-> set]
    <3>1. Moves(w, rec) /\ rec.at # "IDLE" /\ rec.msg = builder[w].msg
      BY <2>3
    <3> HIDE DEF rec
    <3> QED
      BY <1>0, <2>1, <3>1, GoesOn
  <2> QED
    BY <1>2, <2>2, <2>3 DEF Build
<1>3. CASE Persist(w)
  <2>1. ~At(w, "IDLE") /\ UNCHANGED <<outboxVars, faults>>
    BY <1>3 DEF Persist, At
  <2>2. CASE Moves(w, Free) /\ SetRun(RunOf(w), "SUCCEEDED")
    BY <2>1, <2>2, EndsBuild
  <2>3. CASE Raises(w, "CALIBRATION_PERSIST_FAILED") /\ UNCHANGED calRun
    BY <1>0, <1>1, <2>1, <2>3
  <2> QED
    BY <1>3, <2>2, <2>3 DEF Persist
<1>4. CASE RecordFailure(w)
  <2> DEFINE status == IF builder[w].code = "CALIBRATION_MISSING"
                       THEN "WAITING_CALIBRATION" ELSE "FAILED"
  <2>1. /\ ~At(w, "IDLE") /\ Moves(w, Free) /\ SetRun(RunOf(w), status)
        /\ UNCHANGED <<outboxVars, faults>>
    BY <1>4 DEF RecordFailure, At
  <2>2. status \notin {"QUEUED", "RUNNING"}
    OBVIOUS
  <2> HIDE DEF status
  <2> QED
    BY <2>1, <2>2, EndsBuild
<1>5. CASE PersistRefused(w)
  <2>1. /\ ~At(w, "IDLE") /\ UNCHANGED <<outboxVars, calRun>>
        /\ faults' \in 0 .. MaxFaults /\ faults <= faults'
    BY <1>0, <1>5, CalibrationsAssumption DEF PersistRefused, Fault, At
  <2> QED
    BY <1>1, <1>5, <2>1 DEF PersistRefused
<1> QED
  BY <1>2, <1>3, <1>4, <1>5

\* A message comes back: from a lost worker, in spite of a worker, or for a retry.
LEMMA ReturningKeepsBuilds ==
  ASSUME BuildInv, MaxFaults <= MaxRetries, NEW w \in Builders,
         BuilderLost(w) \/ Redeliver(w) \/ (\E m \in queue : BeginRefused(w, m))
  PROVE  BuildInv'
<1>1. faults' \in 0 .. MaxFaults /\ faults < faults'
  BY CalibrationsAssumption DEF BuilderLost, Redeliver, BeginRefused, Fault, BuildInv, QueueOK
<1>2. ~At(w, "IDLE") => MessageOK(builder[w].msg)
  BY DEF BuildInv, QueueOK
<1>3. \A m : MessageOK(m) => MessageOK(m)'
  BY <1>1, CalibrationsAssumption DEF MessageOK, Messages, BuildInv, QueueOK
<1>4. CASE BuilderLost(w)
  <2>1. /\ queue' = queue \cup {builder[w].msg} /\ builder' = [builder EXCEPT ![w] = Free]
        /\ ~At(w, "IDLE") /\ UNCHANGED <<outbox, published, inHand, sends, calRun>>
    BY <1>4 DEF BuilderLost, Redelivered, Moves
  <2>2. QueueOK'
    BY <1>1, <1>2, <1>3, <2>1 DEF BuildInv, QueueOK, At, Free
  <2>3. \A c \in CalKeys : /\ Waits(c)' => Waits(c)
                           /\ Carried(c) => Carried(c)'
                           /\ Pending(c) => Pending(c)'
    BY <2>1 DEF Waits, Pending, Carried, At, RunOf, Free, BuildInv, QueueOK
  <2> QED
    BY <2>2, <2>3 DEF BuildInv
<1>5. CASE Redeliver(w)
  <2>1. /\ queue' = queue \cup {builder[w].msg} /\ ~At(w, "IDLE")
        /\ UNCHANGED <<outbox, published, inHand, sends, calRun, builder>>
    BY <1>5 DEF Redeliver, Redelivered
  <2> QED
    BY <1>1, <1>2, <1>3, <2>1, QueueGrows DEF BuildInv, QueueOK
<1>6. ASSUME NEW m \in queue, BeginRefused(w, m)
      PROVE  BuildInv'
  <2>1. MessageOK(m) /\ m.retries < MaxRetries
    BY <1>1, OutboxAssumption, CalibrationsAssumption DEF BuildInv, QueueOK, MessageOK, Messages
  <2>2. PICK again \in Messages(CalKeys) :
          /\ again.about = m.about /\ again.retries = m.retries + 1
          /\ queue' = (queue \cup {again}) \ {m}
    <3> DEFINE a == [m EXCEPT !.retries = @ + 1]
    <3>1. a \in Messages(CalKeys) /\ a.about = m.about /\ a.retries = m.retries + 1
      BY <2>1, OutboxAssumption DEF MessageOK, Messages
    <3>2. queue' = (queue \cup {a}) \ {m}
      BY <1>6, <2>1 DEF BeginRefused, Retried
    <3> HIDE DEF a
    <3> QED
      BY <3>1, <3>2
  <2>3. MessageOK(again)' /\ again # m
    BY <1>1, <2>1, <2>2, CalibrationsAssumption
       DEF MessageOK, Messages, BuildInv, QueueOK
  <2>4. UNCHANGED <<outbox, published, inHand, sends, calRun, builder>>
    BY <1>6 DEF BeginRefused
  <2>5. \A x \in queue : \E y \in queue' : y.about = x.about
    BY <2>2, <2>3
  <2>6. \A x \in queue' : x \in queue \/ MessageOK(x)'
    BY <2>2, <2>3
  <2>7. faults <= faults'
    BY <1>1 DEF BuildInv, QueueOK
  <2> QED
    BY <1>1, <2>4, <2>5, <2>6, <2>7, QueueGrows
<1> QED
  BY <1>4, <1>5, <1>6

\* A run is asked for with its event.
LEMMA AskingKeepsBuilds ==
  ASSUME BuildInv, NEW c0 \in CalKeys, NEW b, EnsureCalibrationRun(c0, b)
  PROVE  BuildInv'
<1> DEFINE rec == [status |-> "QUEUED", batch |-> b]
           event == [type |-> "QUEUED", about |-> c0]
           last == Len(outbox) + 1
<1>1. /\ calRun' = [calRun EXCEPT ![c0] = rec] /\ outbox' = Append(outbox, event)
      /\ UNCHANGED <<published, inHand, queue, sends, builder, faults>>
  BY DEF EnsureCalibrationRun, Emit
<1>2. event \in Events /\ event.about = c0 /\ "status" \in DOMAIN rec
  BY DEF Events
<1>3. outbox \in Seq(Events)
  BY DEF BuildInv, QueueOK
<1> HIDE DEF rec, event
<1>4. /\ outbox' \in Seq(Events) /\ DOMAIN outbox' = DOMAIN outbox \cup {last}
      /\ outbox'[last] = event /\ last \notin DOMAIN outbox /\ last # 0
      /\ \A n \in DOMAIN outbox : outbox'[n] = outbox[n]
  BY <1>1, <1>2, <1>3
<1>5. QueueOK'
  BY <1>1, <1>2, <1>4 DEF BuildInv, QueueOK, MessageOK, At
<1>6. Pending(c0)'
  BY <1>1, <1>2, <1>4 DEF Pending, BuildInv, QueueOK
<1>7. \A c \in CalKeys \ {c0} : Waits(c)' => Waits(c)
  BY <1>1 DEF Waits
<1>8. \A c \in CalKeys : /\ Pending(c) => Pending(c)'
                         /\ Carried(c) => Carried(c)'
  BY <1>1, <1>4 DEF Pending, Carried, At, RunOf
<1> QED
  BY <1>5, <1>6, <1>7, <1>8 DEF BuildInv

LEMMA BuildStep ==
  ASSUME BuildInv, MaxFaults <= MaxRetries, [Next]_vars
  PROVE  BuildInv'
<1>1. CASE UNCHANGED <<outboxVars, calRun, builder, faults>>
  BY <1>1 DEF BuildInv, QueueOK, MessageOK, Waits, Pending, Carried, At, RunOf, outboxVars
<1> QED
  BY <1>1, SchedulerKeepsBuilds, TakingKeepsBuilds, WorkingKeepsBuilds, ReturningKeepsBuilds,
     AskingKeepsBuilds
     DEF Next, vars, calVars, CalibrationsNext, ImportsStep, BuilderStep, ApproveSet, Reduce,
       LookUp, ChangePublication

\* As long as there are no more faults than retries, no run that was asked for
\* is forgotten: what carries it changes hands and never disappears.
THEOREM BuildTheorem == ASSUME MaxFaults <= MaxRetries PROVE Spec => []BuildIsNeverLost
<1>1. Init => BuildInv
  <2> SUFFICES ASSUME Init PROVE BuildInv
    OBVIOUS
  <2>1. QueueOK /\ \A c \in CalKeys : ~Waits(c)
    BY CalibrationsAssumption
       DEF Init, CalibrationsInit, OutboxInit, QueueOK, Waits, None, At, Free
  <2> QED
    BY <2>1 DEF BuildInv
<1>2. BuildInv /\ [Next]_vars => BuildInv'
  BY BuildStep
<1>3. BuildInv => BuildIsNeverLost
  BY DEF BuildInv, BuildIsNeverLost, QueueOK, Waits, Pending, Carried, Carriers
<1> QED
  BY <1>1, <1>2, <1>3, PTL DEF Spec

-----------------------------------------------------------------------------
(* The types.                                                               *)

QCOfSets == {"FAIL", "WARNING", "PASS"}

\* What inspections read, and have read.
ReadOK ==
  /\ source \in [Paths -> Frames \cup {Absent}]
  /\ \A k \in InspectionKeys :
       /\ inspection[k].status \in ImportStatus
       /\ \A p \in DOMAIN scanned[k] : scanned[k][p] \in Frames
       /\ inspection[k].status = "SUCCEEDED" =>
            \A p \in DOMAIN Inventory(k) :
              Inventory(k)[p].header \in Frames /\ Inventory(k)[p].sha \in Frames

\* What imports have registered.
RegisteredOK ==
  /\ \A k \in ImportKeys : batch[k].status \in ImportStatus
  /\ \A a \in artifact : a.sha \in Frames /\ a.header \in Frames

\* The events, the messages and who has them.
SentOK ==
  /\ outbox \in Seq(Events)
  /\ published \subseteq DOMAIN outbox /\ inHand \in {0} \cup (DOMAIN outbox \ published)
  /\ sends \in Nat
  /\ queue \subseteq Messages(CalKeys)
  /\ DOMAIN builder = Builders
  /\ \A w \in Builders : ~At(w, "IDLE") => builder[w].msg \in Messages(CalKeys)

RunStatus == {"NONE", "QUEUED", "RUNNING", "SUCCEEDED", "FAILED", "WAITING_CALIBRATION"}

\* The runs, the sets and the sets that are about to be.
GradesOK ==
  /\ DOMAIN calRun = CalKeys
  /\ \A c \in CalKeys :
       /\ "status" \in DOMAIN calRun[c] /\ calRun[c].status \in RunStatus
       /\ calSet[c].status \in {"NONE", "UNVERIFIED", "APPROVED"}
       /\ calSet[c].status # "NONE" => calSet[c].qc \in QCOfSets
  /\ \A w \in Builders : At(w, "PERSIST") => builder[w].set.qc \in QCOfSets

\* The products, and the keys of those who ask to publish them.
KeysOK ==
  /\ \A p \in DOMAIN product : product[p].qc \in QCFlag
  /\ bound \subseteq PubKeys
  /\ DOMAIN client = Clients
  /\ \A x \in Clients : client[x] # NoKey => client[x] \in PubKeys

LEMMA ReadStep ==
  ASSUME InspectionsOK, ReadOK, ImportsOrNot
  PROVE  ReadOK'
<1>1. CASE UNCHANGED <<source, scanned, inspection>>
  BY <1>1 DEF ReadOK, Inventory
<1>2. ASSUME NEW p \in Paths, NEW f \in Frames \cup {Absent}, SourceChanges(p, f)
      PROVE  ReadOK'
  BY <1>2 DEF SourceChanges, ReadOK, Inventory
<1>3. ASSUME NEW k \in InspectionKeys, NEW dir \in Directories, InspectBegin(k, dir)
      PROVE  ReadOK'
  <2>1. /\ \A p \in Candidates(dir) : p \in Paths /\ source[p] \in Frames
        /\ UNCHANGED source
    BY <1>3, ImportsAssumption DEF Candidates, ReadOK, InspectBegin
  <2>2. CASE Candidates(dir) = {}
    BY <1>3, <2>2 DEF InspectBegin, InspectionsOK, ReadOK, Inventory, ImportStatus
  <2>3. CASE Candidates(dir) # {}
    <3> DEFINE headers == [p \in Candidates(dir) |-> source[p]]
    <3>1. scanned' = [scanned EXCEPT ![k] = headers] /\ inspection' = inspection
      BY <1>3, <2>3 DEF InspectBegin
    <3>2. \A p \in DOMAIN headers : headers[p] \in Frames
      BY <2>1
    <3> HIDE DEF headers
    <3> QED
      BY <2>1, <3>1, <3>2 DEF InspectionsOK, ReadOK, Inventory
  <2> QED
    BY <2>2, <2>3
<1>4. ASSUME NEW k \in InspectionKeys, InspectEnd(k)
      PROVE  ReadOK'
  <2> DEFINE inv == [p \in DOMAIN scanned[k] |-> [header |-> scanned[k][p], sha |-> source[p]]]
             rec == IF /\ \A p \in DOMAIN inv : inv[p].sha # Absent
                       /\ \A g \in GroupsOf(inv) : Complete(inv, g)
                    THEN [status |-> "SUCCEEDED", inventory |-> inv] ELSE [status |-> "FAILED"]
  <2>1. /\ inspection' = [inspection EXCEPT ![k] = rec]
        /\ scanned' = [scanned EXCEPT ![k] = <<>>] /\ UNCHANGED source
    BY <1>4 DEF InspectEnd
  <2>2. DOMAIN scanned[k] \subseteq Paths
    BY <1>4 DEF InspectEnd, InspectionsOK
  <2>3. \A p \in DOMAIN inv : /\ inv[p].header \in Frames
                              /\ inv[p].sha # Absent => inv[p].sha \in Frames
    BY <2>2 DEF ReadOK
  <2>4. /\ rec.status \in ImportStatus
        /\ rec.status = "SUCCEEDED" =>
             \A p \in DOMAIN rec.inventory :
               rec.inventory[p].header \in Frames /\ rec.inventory[p].sha \in Frames
    <3> HIDE DEF inv
    <3> QED
      BY <2>3 DEF ImportStatus
  <2>5. \A p : p \notin DOMAIN << >>
    OBVIOUS
  <2> HIDE DEF rec
  <2> QED
    BY <2>1, <2>4, <2>5 DEF InspectionsOK, ReadOK, Inventory
<1> QED
  BY <1>1, <1>2, <1>3, <1>4 DEF ImportsOrNot, ImportsNext, importVars, ImportBegin,
    CopyFrame, Refuse, ImportEnd, ImportStops

LEMMA RegisteredStep ==
  ASSUME InspectionsOK, BatchesOK, ReadOK, RegisteredOK, ImportsOrNot
  PROVE  RegisteredOK'
<1>1. CASE UNCHANGED <<batch, artifact>>
  BY <1>1 DEF RegisteredOK
<1>2. ASSUME NEW k \in ImportKeys, Refuse(k)
      PROVE  RegisteredOK'
  BY <1>2 DEF Refuse, RegisteredOK, BatchesOK, ImportStatus
<1>3. ASSUME NEW k \in ImportKeys, ImportedBy(k)
      PROVE  RegisteredOK'
  <2> DEFINE inv == Imported(k)
             row == [p \in DOMAIN inv |-> [batch |-> k, path |-> p,
                       sha |-> importer[k].copies[p], header |-> inv[p].header]]
             rec == [status |-> "SUCCEEDED", inspection |-> importer[k].inspection]
  <2>1. artifact' = artifact \cup {row[p] : p \in DOMAIN inv} /\ batch' = [batch EXCEPT ![k] = rec]
    BY <1>3 DEF ImportedBy, ImportEnd, Imported
  <2>2. \A p \in DOMAIN inv : row[p].sha = importer[k].copies[p] /\ row[p].header = inv[p].header
    OBVIOUS
  <2>3. \A p \in DOMAIN inv : importer[k].copies[p] = inv[p].sha
    BY <1>3 DEF ImportedBy, ImportEnd, SameDigest, Imported
  <2>4. \A p \in DOMAIN inv : inv[p].sha \in Frames /\ inv[p].header \in Frames
    BY <1>3 DEF ImportedBy, BatchesOK, Good, ReadOK, Imported
  <2>5. rec.status \in ImportStatus
    BY DEF ImportStatus
  <2> HIDE DEF row, inv, rec
  <2> QED
    BY <2>1, <2>2, <2>3, <2>4, <2>5 DEF RegisteredOK, BatchesOK
<1> QED
  BY <1>1, <1>2, <1>3, RowsChangeWhenImported DEF ImportsOrNot, ImportsNext, importVars,
    SourceChanges, InspectBegin, InspectEnd, ImportBegin, CopyFrame, ImportEnd, ImportStops,
    ImportedBy

\* A worker that goes on with its message, or ends.
LEMMA SentMoves ==
  ASSUME SentOK, NEW w \in Builders, ~At(w, "IDLE"), NEW rec, Moves(w, rec),
         rec.at = "IDLE" \/ rec.msg = builder[w].msg,
         UNCHANGED <<outbox, published, inHand, sends>>, queue' \subseteq queue \cup {builder[w].msg}
  PROVE  SentOK'
BY DEF SentOK, Moves, At

LEMMA SentScheduler ==
  ASSUME SentOK, SchedulerStep \/ LoseMark
  PROVE  SentOK'
<1>1. ASSUME NEW n \in DOMAIN outbox, SendBuild(n)
      PROVE  SentOK'
  <2> DEFINE m == [task |-> sends + 1, about |-> outbox[n].about, retries |-> 0]
  <2>0. outbox[n] \in Events /\ n \in DOMAIN outbox \ published
    BY <1>1, ElementOfSeq DEF SentOK, SendBuild, Send, Takes, IsNext
  <2>1. outbox[n].about \in CalKeys
    BY <2>0 DEF Events
  <2>2. /\ sends < MaxSends /\ sends' = sends + 1 /\ queue' = queue \cup {m} /\ inHand' = n
        /\ UNCHANGED <<outbox, published, builder>>
    BY <1>1 DEF SendBuild, Send, calVars
  <2>3. m \in Messages(CalKeys)
    BY <2>1, <2>2, OutboxAssumption DEF Messages, SentOK
  <2> HIDE DEF m
  <2> QED
    BY <2>0, <2>2, <2>3 DEF SentOK, At
<1>2. ASSUME NEW n \in DOMAIN outbox, SkipBuild(n)
      PROVE  SentOK'
  BY <1>2 DEF SkipBuild, Consume, Takes, calVars, SentOK, At
<1>3. CASE EndScheduling \/ LoseMark
  <2>1. /\ inHand # 0 /\ inHand' = 0
        /\ published' = published \/ published' = published \cup {inHand}
        /\ UNCHANGED <<outbox, queue, sends, builder>>
    BY <1>3 DEF EndScheduling, Publish, LoseMark, SchedulerCrash, calVars
  <2> QED
    BY <2>1 DEF SentOK, At
<1> QED
  BY <1>1, <1>2, <1>3 DEF SchedulerStep

LEMMA SentWorker ==
  ASSUME SentOK, NEW w \in Builders,
         Build(w) \/ Persist(w) \/ RecordFailure(w) \/ PersistRefused(w) \/ BuilderLost(w)
           \/ Redeliver(w)
  PROVE  SentOK'
<1>0. Free.at = "IDLE"
  BY DEF Free
<1>1. ASSUME NEW code, ~At(w, "IDLE"), Raises(w, code), UNCHANGED outboxVars
      PROVE  SentOK'
  <2> DEFINE rec == [at |-> "RAISED", msg |-> builder[w].msg, code |-> code]
  <2>1. Moves(w, rec) /\ rec.msg = builder[w].msg
    BY <1>1 DEF Raises
  <2> HIDE DEF rec
  <2> QED
    BY <1>1, <2>1, SentMoves DEF outboxVars
<1>2. CASE Build(w)
  <2>1. ASSUME NEW set, ~At(w, "IDLE"), UNCHANGED outboxVars,
               Moves(w, [at |-> "PERSIST", msg |-> builder[w].msg, set |-> set])
        PROVE  SentOK'
    <3> DEFINE rec == [at |-> "PERSIST", msg |-> builder[w].msg, set |-> set]
    <3>1. Moves(w, rec) /\ rec.msg = builder[w].msg
      BY <2>1
    <3> HIDE DEF rec
    <3> QED
      BY <2>1, <3>1, SentMoves DEF outboxVars
  <2>2. ~At(w, "IDLE") /\ UNCHANGED outboxVars
    BY <1>2 DEF Build, At
  <2> QED
    BY <1>1, <1>2, <2>1, <2>2 DEF Build
<1>3. CASE Persist(w)
  <2>1. ~At(w, "IDLE") /\ UNCHANGED outboxVars
    BY <1>3 DEF Persist, At
  <2>2. Moves(w, Free) \/ Raises(w, "CALIBRATION_PERSIST_FAILED")
    BY <1>3 DEF Persist
  <2> QED
    BY <1>0, <1>1, <2>1, <2>2, SentMoves DEF outboxVars
<1>4. CASE RecordFailure(w) \/ BuilderLost(w)
  <2>1. /\ ~At(w, "IDLE") /\ Moves(w, Free) /\ queue' \subseteq queue \cup {builder[w].msg}
        /\ UNCHANGED <<outbox, published, inHand, sends>>
    BY <1>4 DEF RecordFailure, BuilderLost, Redelivered, At, outboxVars
  <2> QED
    BY <1>0, <2>1, SentMoves
<1>5. CASE PersistRefused(w)
  BY <1>1, <1>5 DEF PersistRefused, At
<1>6. CASE Redeliver(w)
  BY <1>6 DEF Redeliver, Redelivered, SentOK, At
<1> QED
  BY <1>2, <1>3, <1>4, <1>5, <1>6

LEMMA SentTaken ==
  ASSUME SentOK, NEW w \in Builders, NEW m \in queue,
         BuildNothing(w, m) \/ BuildBegin(w, m) \/ BeginRefused(w, m)
  PROVE  SentOK'
<1>0. m \in Messages(CalKeys)
  BY DEF SentOK
<1>1. CASE BuildNothing(w, m)
  BY <1>1 DEF BuildNothing, Acknowledged, calVars, SentOK, At
<1>2. CASE BuildBegin(w, m)
  <2> DEFINE rec == [at |-> "BUILD", msg |-> m, inputs |-> InputsOf(calRun[m.about].batch)]
  <2>1. /\ builder' = [builder EXCEPT ![w] = rec] /\ queue' \subseteq queue
        /\ UNCHANGED <<outbox, published, inHand, sends>>
    BY <1>2 DEF BuildBegin, Moves, Acknowledged
  <2>2. rec.msg = m
    OBVIOUS
  <2> HIDE DEF rec
  <2> QED
    BY <1>0, <2>1, <2>2 DEF SentOK, At
<1>3. CASE BeginRefused(w, m)
  <2>1. m.retries < MaxRetries => [m EXCEPT !.retries = @ + 1] \in Messages(CalKeys)
    BY <1>0, OutboxAssumption DEF Messages
  <2>2. queue' \subseteq queue \cup (IF m.retries < MaxRetries THEN {[m EXCEPT !.retries = @ + 1]} ELSE {})
    BY <1>3 DEF BeginRefused, Retried
  <2> QED
    BY <1>3, <2>1, <2>2 DEF BeginRefused, SentOK, At
<1> QED
  BY <1>1, <1>2, <1>3

LEMMA SentStep ==
  ASSUME SentOK, [Next]_vars
  PROVE  SentOK'
<1>1. CASE UNCHANGED <<outboxVars, builder>>
  BY <1>1 DEF SentOK, At, outboxVars
<1>2. ASSUME NEW c \in CalKeys, NEW b \in ImportKeys, EnsureCalibrationRun(c, b)
      PROVE  SentOK'
  <2> DEFINE event == [type |-> "QUEUED", about |-> c]
  <2>1. /\ outbox' = Append(outbox, event) /\ event \in Events
        /\ UNCHANGED <<published, inHand, queue, sends, builder>>
    BY <1>2 DEF EnsureCalibrationRun, Emit, Events
  <2> HIDE DEF event
  <2>2. outbox' \in Seq(Events) /\ DOMAIN outbox \subseteq DOMAIN outbox'
    BY <2>1, AppendProperties DEF SentOK
  <2> QED
    BY <2>1, <2>2 DEF SentOK, At
<1> QED
  BY <1>1, <1>2, SentScheduler, SentWorker, SentTaken
     DEF Next, vars, calVars, CalibrationsNext, ImportsStep, BuilderStep, ApproveSet, Reduce,
       LookUp, ChangePublication

\* The status of a run changes, and nothing else of it.
LEMMA RunChanges ==
  ASSUME GradesOK, NEW c, NEW status \in RunStatus, SetRun(c, status)
  PROVE  /\ DOMAIN calRun' = CalKeys
         /\ \A x \in CalKeys : "status" \in DOMAIN calRun'[x] /\ calRun'[x].status \in RunStatus
BY DEF GradesOK, SetRun

\* A worker that moves where it holds no set.
LEMMA HoldsNoSet ==
  ASSUME SetsOK, GradesOK, NEW w \in Builders, NEW rec, Moves(w, rec), rec.at # "PERSIST"
  PROVE  \A x \in Builders : At(x, "PERSIST")' => builder'[x].set.qc \in QCOfSets
BY DEF SetsOK, GradesOK, Moves, At

LEMMA GradesStep ==
  ASSUME SetsOK, GradesOK, [Next]_vars
  PROVE  GradesOK'
<1>1. CASE UNCHANGED <<calRun, calSet, builder>>
  BY <1>1 DEF GradesOK, At
<1>2. ASSUME NEW c \in CalKeys, NEW b \in ImportKeys, EnsureCalibrationRun(c, b)
      PROVE  GradesOK'
  <2> DEFINE rec == [status |-> "QUEUED", batch |-> b]
  <2>1. calRun' = [calRun EXCEPT ![c] = rec] /\ UNCHANGED <<calSet, builder>>
    BY <1>2 DEF EnsureCalibrationRun
  <2>2. "status" \in DOMAIN rec /\ rec.status \in RunStatus
    BY DEF RunStatus
  <2> HIDE DEF rec
  <2> QED
    BY <2>1, <2>2 DEF GradesOK, At
<1>3. ASSUME NEW w \in Builders, NEW m \in queue, BuildBegin(w, m)
      PROVE  GradesOK'
  <2> DEFINE rec == [at |-> "BUILD", msg |-> m, inputs |-> InputsOf(calRun[m.about].batch)]
  <2>1. SetRun(m.about, "RUNNING") /\ Moves(w, rec) /\ rec.at # "PERSIST" /\ UNCHANGED calSet
    BY <1>3 DEF BuildBegin
  <2> HIDE DEF rec
  <2>2. "RUNNING" \in RunStatus
    BY DEF RunStatus
  <2> QED
    BY <2>1, <2>2, RunChanges, HoldsNoSet DEF GradesOK
<1>4. ASSUME NEW w \in Builders, NEW code, Raises(w, code), UNCHANGED <<calRun, calSet>>
      PROVE  GradesOK'
  <2> DEFINE rec == [at |-> "RAISED", msg |-> builder[w].msg, code |-> code]
  <2>1. Moves(w, rec) /\ rec.at # "PERSIST"
    BY <1>4 DEF Raises
  <2> HIDE DEF rec
  <2> QED
    BY <1>4, <2>1, HoldsNoSet DEF GradesOK
<1>5. ASSUME NEW w \in Builders, Build(w)
      PROVE  GradesOK'
  <2> DEFINE inputs == builder[w].inputs
             grades == {"FAIL", "WARNING"} \cup
                         (IF Count(inputs, "FLAT") >= Recommended THEN {"PASS"} ELSE {})
  <2>1. ASSUME NEW qc \in grades,
               Moves(w, [at |-> "PERSIST", msg |-> builder[w].msg,
                         set |-> [status |-> "UNVERIFIED", qc |-> qc, inputs |-> inputs]])
        PROVE  GradesOK'
    <3> DEFINE rec == [at |-> "PERSIST", msg |-> builder[w].msg,
                       set |-> [status |-> "UNVERIFIED", qc |-> qc, inputs |-> inputs]]
    <3>1. builder' = [builder EXCEPT ![w] = rec] /\ UNCHANGED <<calRun, calSet>>
      BY <1>5, <2>1 DEF Build, Moves
    <3>2. rec.set.qc \in QCOfSets
      BY DEF QCOfSets
    <3> HIDE DEF rec
    <3> QED
      BY <3>1, <3>2 DEF SetsOK, GradesOK, At
  <2>2. UNCHANGED <<calRun, calSet>>
    BY <1>5 DEF Build
  <2> QED
    BY <1>4, <1>5, <2>1, <2>2 DEF Build
<1>6. ASSUME NEW w \in Builders, Persist(w)
      PROVE  GradesOK'
  <2> DEFINE c == RunOf(w)
             set == builder[w].set
  <2>1. CASE NewSet(c, set)
    <3>1. /\ calSet' = [calSet EXCEPT ![c] = set] /\ SetRun(c, "SUCCEEDED") /\ Moves(w, Free)
          /\ At(w, "PERSIST")
      BY <1>6, <2>1 DEF Persist
    <3>2. set.status = "UNVERIFIED" /\ set.qc \in QCOfSets
      BY <3>1 DEF SetsOK, GradesOK
    <3>3. Free.at # "PERSIST" /\ "SUCCEEDED" \in RunStatus
      BY DEF Free, RunStatus
    <3> HIDE DEF set
    <3>4. \A x \in CalKeys : /\ calSet'[x].status \in {"NONE", "UNVERIFIED", "APPROVED"}
                             /\ calSet'[x].status # "NONE" => calSet'[x].qc \in QCOfSets
      BY <3>1, <3>2 DEF SetsOK, GradesOK
    <3> QED
      BY <3>1, <3>3, <3>4, RunChanges, HoldsNoSet DEF GradesOK
  <2>2. CASE ~NewSet(c, set)
    BY <1>4, <1>6, <2>2 DEF Persist
  <2> QED
    BY <2>1, <2>2
<1>7. ASSUME NEW w \in Builders, RecordFailure(w)
      PROVE  GradesOK'
  <2>1. /\ SetRun(RunOf(w), "WAITING_CALIBRATION") \/ SetRun(RunOf(w), "FAILED")
        /\ Moves(w, Free) /\ UNCHANGED calSet
    BY <1>7 DEF RecordFailure
  <2>2. Free.at # "PERSIST" /\ {"WAITING_CALIBRATION", "FAILED"} \subseteq RunStatus
    BY DEF Free, RunStatus
  <2> QED
    BY <2>1, <2>2, RunChanges, HoldsNoSet DEF GradesOK
<1>8. ASSUME NEW w \in Builders, BuilderLost(w)
      PROVE  GradesOK'
  <2>1. Moves(w, Free) /\ Free.at # "PERSIST" /\ UNCHANGED <<calRun, calSet>>
    BY <1>8 DEF BuilderLost, Free
  <2> QED
    BY <2>1, HoldsNoSet DEF GradesOK
<1>9. ASSUME NEW c \in CalKeys, NEW accept \in BOOLEAN, ApproveSet(c, accept)
      PROVE  GradesOK'
  <2> DEFINE set == [calSet[c] EXCEPT !.status = "APPROVED"]
  <2>1. /\ calSet' = [calSet EXCEPT ![c] = set] /\ calSet[c].status = "UNVERIFIED"
        /\ UNCHANGED <<calRun, builder>>
    BY <1>9 DEF ApproveSet, MayApprove
  <2>2. set.status = "APPROVED" /\ set.qc = calSet[c].qc /\ calSet[c].qc \in QCOfSets
    BY <2>1 DEF SetsOK, SetFields, GradesOK
  <2> HIDE DEF set
  <2> QED
    BY <2>1, <2>2 DEF SetsOK, GradesOK, At
<1> QED
  BY <1>1, <1>2, <1>3, <1>4, <1>5, <1>6, <1>7, <1>8, <1>9
     DEF Next, vars, calVars, CalibrationsNext, ImportsStep, SchedulerStep, SendBuild, SkipBuild,
       EndScheduling, LoseMark, BuilderStep, BuildNothing, Redeliver, BeginRefused,
       PersistRefused, Reduce, LookUp, ChangePublication

LEMMA KeysStep ==
  ASSUME ProductsOK, SetsOK, GradesOK, KeysOK, [Next]_vars
  PROVE  KeysOK'
<1>1. CASE UNCHANGED archiveVars
  BY <1>1 DEF KeysOK, archiveVars
<1>2. ASSUME NEW s \in ImportedSequences, NEW c \in CalKeys, Reduce(s, c)
      PROVE  KeysOK'
  <2>1. calSet[c].qc \in QCFlag /\ "FAIL" \in QCFlag
    BY <1>2 DEF Reduce, Usable, GradesOK, QCOfSets, QCFlag
  <2>2. \A qc : Draft(qc).qc = qc
    BY DEF Draft
  <2>3. PICK nullFailed \in BOOLEAN :
          product' = [p \in DOMAIN product \cup {L2(s, c), L3(s, c)} |->
            IF p \in DOMAIN product THEN product[p]
            ELSE Draft(IF p.level = "L3" THEN IF nullFailed THEN "FAIL" ELSE calSet[c].qc
                       ELSE calSet[c].qc)]
    BY <1>2 DEF Reduce
  <2>4. \A p \in DOMAIN product' : product'[p].qc \in QCFlag
    BY <2>1, <2>2, <2>3 DEF KeysOK
  <2> QED
    BY <1>2, <2>4 DEF Reduce, KeysOK
<1>3. ASSUME NEW x \in Clients, NEW k \in PubKeys, LookUp(x, k)
      PROVE  KeysOK'
  BY <1>3 DEF LookUp, KeysOK
<1>4. ASSUME NEW x \in Clients, NEW q \in Requests(DOMAIN product), ChangePublication(x, q)
      PROVE  KeysOK'
  <2> DEFINE rec == [product[q.product] EXCEPT
                       !.publication = IF q.action = "publish" THEN "PUBLISHED" ELSE "WITHDRAWN",
                       !.reason = q.reason]
  <2>1. q.product \in DOMAIN product
    BY DEF Requests
  <2>2. rec.qc = product[q.product].qc
    BY <2>1 DEF ProductsOK, Draft
  <2>3. /\ client[x] # NoKey /\ client' = [client EXCEPT ![x] = NoKey]
        /\ \/ product' = [product EXCEPT ![q.product] = rec] /\ bound' = bound \cup {client[x]}
           \/ UNCHANGED <<product, bound>>
    BY <1>4 DEF ChangePublication
  <2> HIDE DEF rec
  <2> QED
    BY <2>1, <2>2, <2>3 DEF KeysOK
<1> QED
  BY <1>1, <1>2, <1>3, <1>4 DEF Next, vars

TypeInv ==
  /\ ArchiveInv
  /\ ReadOK /\ RegisteredOK /\ SentOK /\ GradesOK /\ KeysOK

\* Each state is one the tables, the queue and the directory can be in: what an
\* import registers was read from a file, and what a worker builds has a grade
\* before it is a set.
THEOREM ArchiveTypeTheorem == Spec => []ArchiveTypeOK
<1>1. Init => TypeInv
  <2> SUFFICES ASSUME Init PROVE TypeInv
    OBVIOUS
  <2> USE DEF Init, CalibrationsInit, ImportsInit, None
  <2>1. ReadOK /\ RegisteredOK
    BY ImportsAssumption DEF ReadOK, RegisteredOK, ImportStatus
  <2>2. SentOK
    BY DEF OutboxInit, SentOK, At, Free
  <2>3. GradesOK
    BY DEF GradesOK, RunStatus, At, Free
  <2>4. KeysOK
    BY DEF KeysOK, Draft, QCFlag
  <2> QED
    BY <2>1, <2>2, <2>3, <2>4, ArchiveInit DEF TypeInv
<1>2. TypeInv /\ [Next]_vars => TypeInv'
  BY ArchiveStep, StepsOfImports, ReadStep, RegisteredStep, SentStep, GradesStep, KeysStep
     DEF TypeInv, ArchiveInv
<1>3. TypeInv => ArchiveTypeOK
  <2> SUFFICES ASSUME TypeInv PROVE ArchiveTypeOK
    OBVIOUS
  <2>1. \A r \in raw : r.batch \in ImportKeys /\ r.sub \in 1 .. SubExposures
    BY DEF TypeInv, ArchiveInv, RawsOK, ImportedSequences, FullGroup, FramesOf
  <2> QED
    BY <2>1 DEF TypeInv, ArchiveInv, ArtifactsOK, ReadOK, RegisteredOK, SentOK, GradesOK, KeysOK,
      RunStatus, ArchiveTypeOK
<1> QED
  BY <1>1, <1>2, <1>3, PTL DEF Spec
=============================================================================
