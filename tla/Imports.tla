------------------------------ MODULE Imports -------------------------------
(***************************************************************************)
(* Archive data of ESPaDOnS are inspected where they are mounted, and the  *)
(* inspected frames are then copied and registered (imports/service.py,    *)
(* pipeline/instruments/espadons.py).  The mounted directory belongs to    *)
(* somebody else and may change at any time.                               *)
(*                                                                         *)
(* A frame stands for the bytes of a file; its header is a function of it. *)
(* A request is one database transaction: what it has not committed is not *)
(* seen, and is gone if the process stops.                                 *)
(***************************************************************************)
EXTENDS Naturals, FiniteSets

CONSTANTS
  Paths,           \* the files of the mounted directory, numbers in the order of a scan
  Start,           \* bound: what they may hold at first
  Directories,     \* what may be inspected: sets of paths, by their relative_path
  Frames, Absent,  \* the bytes a file may have, or no file
  Role(_), Group(_), Sub(_),   \* what a header says: role, observing group, sub-exposure
  SubExposures,    \* frames of a modulation group (4 in the code)
  InspectionKeys, ImportKeys,  \* Idempotency-Keys of the requests
  MaxChanges       \* bound: changes of the directory

ASSUME ImportsAssumption ==
  /\ Directories \subseteq SUBSET Paths
  /\ Start \subseteq [Paths -> Frames \cup {Absent}]
  /\ Paths \subseteq Nat /\ IsFiniteSet(Paths) /\ Absent \notin Frames
  /\ SubExposures \in Nat \ {0} /\ MaxChanges \in Nat

None == [status |-> "NONE"]

VARIABLES
  source,          \* the mounted directory: path -> frame or Absent
  changes,
  scanned,         \* requests that scan: the headers they have read, or <<>>
  inspection,      \* import_inspections, by key
  importer,        \* requests that import: the inspection and the copies made so far
  batch,           \* import_batches, by key
  artifact,        \* imported_artifacts: key of the batch, path, sha256, header
  managed,         \* the copies the artifacts point to: key of the batch -> path -> bytes
  raw              \* raw_files of the imported sequences: sequence, sub_index, sha256

importVars == <<source, changes, scanned, inspection, importer, batch, artifact, managed, raw>>

Idling == [inspection |-> Absent, copies |-> <<>>]

ImportsInit ==
  /\ source \in Start
  /\ changes = 0
  /\ scanned = [k \in InspectionKeys |-> <<>>]
  /\ inspection = [k \in InspectionKeys |-> None]
  /\ importer = [k \in ImportKeys |-> Idling]
  /\ batch = [k \in ImportKeys |-> None]
  /\ artifact = {} /\ raw = {}
  /\ managed = [k \in ImportKeys |-> <<>>]

\* Somebody replaces, adds or removes a file.
SourceChanges(p, f) ==
  /\ changes < MaxChanges /\ f # source[p]
  /\ changes' = changes + 1
  /\ source' = [source EXCEPT ![p] = f]
  /\ UNCHANGED <<scanned, inspection, importer, batch, artifact, managed, raw>>

-----------------------------------------------------------------------------
(* Inspection.                                                              *)

\* The files below what is asked for.
Candidates(dir) == {p \in dir : source[p] # Absent}

\* A new key: the scan begins and reads headers, or finds nothing and fails.  A
\* used key gives its inspection back.
InspectBegin(k, dir) ==
  /\ inspection[k] = None /\ scanned[k] = <<>>
  /\ IF Candidates(dir) = {}
     THEN inspection' = [inspection EXCEPT ![k] = [status |-> "FAILED"]] /\ UNCHANGED scanned
     ELSE /\ scanned' = [scanned EXCEPT ![k] = [p \in Candidates(dir) |-> source[p]]]
          /\ UNCHANGED inspection
  /\ UNCHANGED <<source, changes, importer, batch, artifact, managed, raw>>

Science(inv) == {p \in DOMAIN inv : Role(inv[p].header) = "SCIENCE"}
GroupsOf(inv) == {Group(inv[p].header) : p \in Science(inv)}
Members(inv, g) == {p \in Science(inv) : Group(inv[p].header) = g}

\* group_science accepts a group: each sub-exposure is there, once.
Complete(inv, g) ==
  /\ Cardinality(Members(inv, g)) = SubExposures
  /\ {Sub(inv[p].header) : p \in Members(inv, g)} = 1 .. SubExposures

\* The digests are read after the headers: a file that has changed meanwhile
\* has the header of one frame and the digest of another.
InspectEnd(k) ==
  LET inv == [p \in DOMAIN scanned[k] |-> [header |-> scanned[k][p], sha |-> source[p]]]
      readable == \A p \in DOMAIN inv : inv[p].sha # Absent
      grouped == \A g \in GroupsOf(inv) : Complete(inv, g)
  IN /\ scanned[k] # <<>>
     /\ inspection' = [inspection EXCEPT ![k] =
          IF readable /\ grouped THEN [status |-> "SUCCEEDED", inventory |-> inv]
                                 ELSE [status |-> "FAILED"]]
     /\ scanned' = [scanned EXCEPT ![k] = <<>>]
     /\ UNCHANGED <<source, changes, importer, batch, artifact, managed, raw>>

-----------------------------------------------------------------------------
(* Import.                                                                  *)

Inventory(i) == inspection[i].inventory
Importing(k) == importer[k] # Idling

\* A new key and a successful inspection no batch has (inspection_id is
\* unique; another transaction that has it makes this one wait).  A manifest
\* that has been imported gives the batch of that import back.
ImportBegin(k, i) ==
  /\ batch[k] = None /\ ~Importing(k)
  /\ inspection[i].status = "SUCCEEDED"
  /\ \A x \in ImportKeys :
       /\ importer[x].inspection # i
       /\ batch[x] # None => batch[x].inspection # i
       /\ batch[x].status = "SUCCEEDED" => Inventory(batch[x].inspection) # Inventory(i)
  /\ importer' = [importer EXCEPT ![k] = [inspection |-> i, copies |-> <<>>]]
  /\ UNCHANGED <<source, changes, scanned, inspection, batch, artifact, managed, raw>>

\* Mutant of SameDigest: only the sizes are compared.
SameSize(bytes, record) == bytes # Absent

\* sha256 and size of some bytes are those of the record.
SameDigest(bytes, record) == bytes = record.sha

\* The savepoint is rolled back, the batch stays as FAILED.
Refuse(k) ==
  /\ batch' = [batch EXCEPT ![k] = [status |-> "FAILED", inspection |-> importer[k].inspection]]
  /\ importer' = [importer EXCEPT ![k] = Idling]
  /\ UNCHANGED <<source, changes, scanned, inspection, artifact, managed, raw>>

Uncopied(k) == DOMAIN Inventory(importer[k].inspection) \ DOMAIN importer[k].copies

\* The next file is copied; it must be the one that was inspected.
CopyFrame(k) ==
  /\ Importing(k)
  /\ \E p \in Uncopied(k) :
       /\ \A q \in Uncopied(k) : p <= q
       /\ IF SameDigest(source[p], Inventory(importer[k].inspection)[p])
          THEN /\ importer' = [importer EXCEPT ![k].copies =
                                 [q \in DOMAIN @ \cup {p} |-> IF q = p THEN source[p] ELSE @[q]]]
               /\ UNCHANGED <<source, changes, scanned, inspection, batch, artifact, managed, raw>>
          ELSE Refuse(k)

\* The sequence of a group, by its idempotency_key import:<manifest>:<group>.
SequenceOf(inv, g) == [manifest |-> inv, group |-> g]

RawFilesOf(k, inv) ==
  {[seq |-> SequenceOf(inv, Group(inv[p].header)), sub |-> Sub(inv[p].header),
    sha |-> importer[k].copies[p], batch |-> k, path |-> p] : p \in Science(inv)}

\* Mutant of Unique: only the keys of the sequences are unique.
UniqueKeys(rows) == \A r \in rows, x \in raw : r.seq # x.seq

\* raw_files.sha256 and sequences.idempotency_key are unique.
Unique(rows) ==
  /\ \A r \in rows, x \in raw : r.seq # x.seq /\ r.sha # x.sha
  /\ \A r, x \in rows : r.sha = x.sha => r = x

\* All is copied: the manifest is computed again from the copies, and the
\* artifacts, sequences and raw files become visible with the batch.
ImportEnd(k) ==
  LET i == importer[k].inspection
      inv == Inventory(i)
      copies == importer[k].copies
      rows == RawFilesOf(k, inv)
  IN /\ Importing(k) /\ Uncopied(k) = {}
     /\ IF (\A p \in DOMAIN inv : SameDigest(copies[p], inv[p])) /\ Unique(rows)
        THEN /\ batch' = [batch EXCEPT ![k] = [status |-> "SUCCEEDED", inspection |-> i]]
             /\ artifact' = artifact \cup
                  {[batch |-> k, path |-> p, sha |-> copies[p], header |-> inv[p].header] :
                     p \in DOMAIN inv}
             /\ managed' = [managed EXCEPT ![k] = copies]
             /\ raw' = raw \cup rows
             /\ importer' = [importer EXCEPT ![k] = Idling]
             /\ UNCHANGED <<source, changes, scanned, inspection>>
        ELSE Refuse(k)

\* The API process stops: nothing of the request is left but files nobody reads.
ImportStops(k) ==
  /\ Importing(k)
  /\ importer' = [importer EXCEPT ![k] = Idling]
  /\ UNCHANGED <<source, changes, scanned, inspection, batch, artifact, managed, raw>>

ImportsNext ==
  \/ \E p \in Paths, f \in Frames \cup {Absent} : SourceChanges(p, f)
  \/ \E k \in InspectionKeys :
       (\E dir \in Directories : InspectBegin(k, dir)) \/ InspectEnd(k)
  \/ \E k \in ImportKeys :
       (\E i \in InspectionKeys : ImportBegin(k, i)) \/ CopyFrame(k) \/ ImportEnd(k)
         \/ ImportStops(k)
=============================================================================
