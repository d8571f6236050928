# MOST-SPRITE: a TLA+ model of its processes

MOST-SPRITE controls a fibre-fed spectropolarimeter and turns its exposures into
registered data products. This directory models, checks and proves the parts in
which several processes act on the same sequences, instrument, files and rows:
the control plane, the commit of raw (L0) files, the reduction of sequences to
products, and the way of archive data from a mounted directory through
calibration sets to published spectra. Paths are relative to
`backend/src/most_sprite/` unless they start otherwise; `PROJECT.json` maps every
definition to the lines it stands for.

## 1. The system

### Parts, their state and how they interact

| Part | State it keeps | Operations | Talks to |
|---|---|---|---|
| API (`api/routes.py`) | none; rows of PostgreSQL | create/start/pause/resume/abort a sequence, recover the instrument, inject faults; processing, calibration and publication requests | database, device agent (faults) |
| Control process (`control/runner.py`) | `sequences`, `exposures`, `commands`, `instrument_state` rows; fencing token and loop position in memory | poll, lead, prepare, move, expose, commit, fail safe | lease, device agent, L0 commit |
| Lease (`control/lease.py`) | `control_lease` row | acquire or renew | control processes |
| Device agent (`devices/simulator.py`, gRPC around it) | answers by idempotency key, last token, faults, optics, interlock, guider; all in memory | the commands, `state`, `inject_fault` | control processes, API |
| L0 commit (`acquisition/`) | `.fits.part` and `.fits` files, `raw_files`, the exposure row | `commit_l0` -> `write_l0_atomic` | called inside a transaction of the runner |
| Recovery scanner (`cli.py acquisition_main`) | none | every 5 s: register L0 files without a `raw_files` row | files, database |
| Outbox (`events/outbox.py`) | `outbox_events`, written in the transaction of the change they tell of | emit | everyone |
| Scheduler (`scheduler/service.py`) | `consumed_events`, `published_at` | takes the lowest unpublished event: registers a quicklook, makes a run, sends a task | outbox, Celery (Redis) |
| Worker (`worker/`, `products/processing.py`) | `processing_runs` with a claim, `products`, product files | claim, write, register, commit, fail, retry | files, database, Celery |
| Quicklook (`quicklook/`) | quicklook products | registers those of all exposures | scheduler and worker do the same |
| Imports (`imports/`) | inspections, batches, managed copies, sequences and raw files of ESPaDOnS | inspect, import | a mounted directory that belongs to somebody else |
| Calibration (`calibration/`) | `calibration_runs`, `calibration_sets` | ask for, build, approve | imports, scheduler, worker |
| Publication (`api/routes.py`, `api/idempotency.py`) | status of a product, idempotency records | publish, withdraw | products, calibration sets |
| Websocket | a cursor for each client | reads the outbox | outbox |
| Algorithms (`pipeline/`, `calibration/matcher.py`) | none | numerical reduction | worker |
| Frontend, authentication, configuration, migrations | - | - | API, database |

Everything goes through PostgreSQL transactions; what outlives a transaction that
is rolled back is the effect of a command at the device agent and a file on disk.
Three deployments exist: the compose file (all processes, one control process), a
second control process waiting for the lease, and the embedded one in which the
API process runs runner and scheduler and there is no scanner (`api/runtime.py`).

### What is hard

* An API request holds the row lock of the sequence. The runner reads the row
  without a lock at the beginning of a transaction, talks to the device for
  seconds and writes at its end. Requests arrive between any two of these.
* A transaction can fail after the agent has acted and after the file was renamed.
* The lease (15 s) is renewed only between sequences; a sequence takes longer.
* The agent forgets everything when it restarts: answers, fencing token, optics.
* A process or the machine stops between any two system calls of the L0 commit;
  the scanner runs against the live writer.
* Retries reuse exposure rows and file names, but not idempotency keys.
* A Celery task is in Redis before the scheduler's transaction ends, comes back
  when its worker is lost or is late, and is retried after some exceptions; the
  claim of a run is an age and a task id, and calibration runs have none.
* A worker commits after each exposure; its files are on disk before. Three
  processes register the same quicklook.
* Two inspections, two imports and two publication requests run side by side, and
  the directory changes between the read of a header, of a digest and the copy.

The list with lines and the properties that watch each is `hazards` in
`PROJECT.json`.

### What makes each part correct

* Runner: success means every frame; one registered file per exposure; the counter
  equals the committed exposures; a committed exposure is final and keeps its
  registration and file; an EXPOSING instrument and an EXPOSING row have a runner that
  attends to them; ends are final; failure latches
  SAFE_FAULT until an engineer recovers; runs settle; queued sequences are served;
  accepted stop requests are carried out; the optics are those of the mode.
* Lease: unique tokens; the leader fences all others at the agent.
* L0 commit: no torn final file; immutable files; true digests; committed only
  when registered, and registered rows committed unless a retry takes the exposure
  again; orphans are registered.
* Processing: products never come before their inputs and never go; SUCCEEDED
  means that all of them are there, and is final; files and digests agree;
  work that was asked for is carried by an event, a message or a worker; a
  complete sequence is noticed. Where one of them needs that no two workers are in
  a run at once, the property says so and another one says when they are.
* Archive: what is published can be traced to inspected bytes and an approved,
  complete calibration set; the same bytes are one exposure; an approved set is
  immutable; one change for each key; builds are not lost.

## 2. Modules

| Module | What it is |
|---|---|
| `InstrumentStates` | the instrument states and their transition table |
| `ControlLease` | lease, tokens each process holds, the agent's token check; time is only "the lease has run out" |
| `ObservationContract` | abstract specification: the phases of a sequence, its committed frames, the latch |
| `ControlPlane` | requests, runners, lease (INSTANCE `ControlLease`), agent, scanner; implements `ObservationContract` and `ControlLease` |
| `L0Commit` | one writer, the scanner, disk with page cache, stops and power losses, dates |
| `ReductionContract` | abstract specification: what a reader of the product catalogue is promised |
| `Outbox` | events, the scheduler's transaction, messages in Redis |
| `Processing` | extends `Outbox`: runs, claims, files, rows, quicklooks; implements `ReductionContract` |
| `Imports` | the mounted directory, inspections, imports |
| `Calibrations` | extends `Imports` and `Outbox`: calibration runs, builders, approval |
| `Archive` | extends `Calibrations`: reduction as one step, publication |
| `MCControlPlane`, `MCL0Commit`, `MCProcessing`, `MCArchive` | instances for TLC |
| `ControlLeaseProofs`, `ControlPlaneProofs`, `ControlSafetyProofs`, `ControlCommitProofs`, `L0CommitProofs`, `ProcessingProofs`, `ProductProofs`, `ArchiveProofs` | theorems |

### How ControlPlane corresponds to the code

One action is one transaction, or the part of one between two points at which
others can come in.

| Control point `pc` | Code | Actions |
|---|---|---|
| `idle` | `run_once`, first transaction | `PickSequence`, `IdlePoll` |
| `prepare` | `_prepare_instrument` | `PrepareInstrument` |
| `check` | check before an exposure, runner.py 160-177 | `OpenTransaction`, `CheckOrdinal` |
| `move` | first transaction of `_take_exposure` | `OpenTransaction`, `Move` |
| `expose` | second transaction, after the exposure time | `OpenTransaction`, `AbortExposure`, `Expose` |
| `register`, `adopted` | the same transaction after the L0 file, until its commit | `Register`, `Adopt` |
| `post` | check after an exposure, 186-201 | `OpenTransaction`, `PostExposure` |
| `final` | last transaction of `_run_sequence` | `OpenTransaction`, `Finish` |
| `fail` | `_fail_sequence` | `FailSequence` |

`view` is what the open transaction has read of the sequence row; a later write
uses it, as `sequence.completed_exposures += 1` does. `Raise` rolls a transaction
back: database variables keep their values while `agent` and `l0` keep the effect.
`Sent` and `Succeeds` are `_execute_command`: a success recorded in the database is
not sent again, an answer the agent remembers is not carried out again, the
fencing token comes before the faults. Fault kinds name what they block
(`BlockedBy`); DISK_FULL and NAS_UNAVAILABLE have the same effect and are `STORAGE`;
`REPLY_LOST` is a connection that breaks after the agent has acted.

An exposure is `<<sequence, ordinal, index>>`, index counting the rows of an ordinal
by age. Angles, telemetry, frames, events, commands of the API and audit are left
out; a repeated API request changes nothing and is a stutter.

On PostgreSQL a runner that registers a frame and the scanner that registers the
same one collide on the unique key of `raw_files` or as a deadlock of which one is
the victim; in both cases one transaction is rolled back (`Register`, `ScanCommit`).

Approximation: the instrument row is read and written atomically per action. With
one runner this is exact, because only `Recover` writes it besides the runner and
needs SAFE_FAULT. Runs of `ControlPlane` therefore have one control process at a
time, which may stop and restart; several processes are in `ControlLease`.

### How L0Commit corresponds to the code

`Begin` is `_take_exposure` taking an exposure whose row is not COMMITTED, also that
of an earlier attempt whose file is there. Until the frame is read out the scanner can
register that file, and then `commit_l0` returns the row it finds (`ReturnExisting`,
service.py 53-55) and the caller commits its READING over COMMITTED (runner.py 378);
an abort in that window writes FAILED over it (`NotRead`, runner.py 355).
Otherwise (`ReadOut`) the writer goes through the system calls of `write_l0_atomic`:
`Look` (existing file, storage), `Write` (HDUs into `.part`), `Finish` (complete, validated),
`SyncData`, `Rename`, `SyncDirectory`, then `Register` (`commit_l0` and the end of
the caller's transaction, which may fail). `synced`, `linked` and `settled` say what a
power loss leaves: the data of a file, its name in the directory of its day, and that
directory itself. `mkdir` makes up to four directories and only the innermost is synced
(fits_contract.py 102, 231-235), so `SyncDirectory` leaves open whether the day is
settled, and a power loss may take a day that is not. `retaken` is a history variable:
the exposures that were taken again when they had a file. A content is `None`, `Torn` (what `validate_l0` rejects) or the number
of the frame. The path contains the day; `Midnight` changes it. `WriterStops` is a
stop of the process as well as an exception between two calls. `ScanBegin` and
`ScanEnd` are the scanner's single transaction over all files.

### How Outbox and Processing correspond to the code

An event is in `outbox` with the change it tells of. `inHand` is the event whose
task is in Redis while the transaction that marks it is open (scheduler/service.py
83-89); `LoseMark` stops the scheduler there, and the event is sent again under
another task id. Events the scheduler only marks are left out. A message has a task
id (the claim token), a run and its retries; `Acknowledged`, `Redelivered` and
`Retried` are `task_acks_late`, `task_reject_on_worker_lost` and `autoretry_for`.

A run is identified by what its hash covers: sequence, calibration set, parameters.
`CreateRun` and `ScheduleRaw` call `EnsureRun`, which makes it, releases it from
WAITING_CALIBRATION or returns it as it is.

| `worker[w].at` | Code | Actions |
|---|---|---|
| `IDLE` | before `process_run` has claimed | `TakeNothing`, `Claim`, `ClaimRefused` |
| `OPEN` | the next product of the loop | `MakeQuicklook`, `KeepFile`, `OpenPart` |
| `CLOSE`, `REPLACE` | `_write_atomic`: the `.part` file is open, is validated and renamed | `ClosePart`, `ReplaceFile` |
| `INSERT` | `_register_product` has looked and inserts | `Insert` |
| `RAISED` | the exception handler with its own transaction | `Fail`, `FailRefused` |

`Output(r, k)` is the k-th product of a run for the three kinds of sequence,
`CommitsAfter` says where the loop commits, `ParentsOf` are the rows of
`product_inputs`. `held` are the rows of the worker's open transaction: an insert of
a row another worker holds waits for it, as the unique `product_hash` makes it do.
A file says who wrote it, because its bytes contain a date: the same product written
by two workers has two digests. A quicklook has no date. `fresh` is the age of a
claim against the timeout. History variables record what happened to a run: `slow` an
expired claim or a second delivery, `refused` a claim transaction the database refused,
`overlapped` two workers with a task of it at once, `abandoned` a task that ended
because the database refused to record its failure and nothing retries it.
`ClaimRefused` (products/processing.py 710-780) and `IOFailure` lead to the same
handler, whose transaction (1048-1077) is `Fail`, or `FailRefused` when it raises
itself, with or without a fault before. Celery retries OSError and TimeoutError; a
database that does not answer raises one when the connection is opened and an exception
of SQLAlchemy within a statement, so each refusal may be of either kind (`again`). `StageStatus` is
the function behind `GET /processing-runs/{id}/stages`.

### How Imports, Calibrations and Archive correspond to the code

A frame stands for the bytes of a file, and its header is a function of it. An
inspection reads the headers (`InspectBegin`) and then the digests (`InspectEnd`); an
import copies file by file in path order (`CopyFrame`), compares each copy with its
record, and makes everything visible with its commit (`ImportEnd`); any difference or
violated unique key leaves the batch FAILED (`Refuse`). What a stopped request leaves
is files nobody reads (`ImportStops`). `sequences.idempotency_key` and
`raw_files.sha256` are the unique keys in `Unique`.

A calibration run is taken by any worker with its message (`BuildBegin`), built from
the artifacts of its batch (`Build`: too few frames, mixed nights, numerics that fail
or give some quality) and persisted under two unique keys (`Persist`, `NewSet`).
`RecordFailure` writes its status whatever the run has become. `ApproveSet` is the
administrator's request. `Reduce` stands for a whole run of `Processing` on an
imported sequence: its products appear with the quality of the set, the L3 also with
that of the null test. `LookUp` and `ChangePublication` are the two halves of
`find_idempotent_resource` and `product_action`: between them another request can
end.

## 3. Runs

| Run | Instance | Shows |
|---|---|---|
| `lease` | 3 processes, 4 tokens | unique tokens, fencing, tokens only grow |
| `control_plane` | 2 sequences (2 and 1 exposures, two modes), 2 attempts, detector fault | the safety of the runner, the latch, and the refinement of `ObservationContract` |
| `control_liveness` | 2 sequences, 1 attempt; detector, guider and interlock faults | queued sequences are served, runs settle |
| `control_disturbed` | 1 sequence of 2 exposures, 2 attempts; storage fault, lost replies, stops, expiry, restarts, agent down, scanner | success means every frame, ends final, lease protocol |
| `l0_commit` | 2 exposures, 2 days, 3 frames, 2 stops | the L0 properties |
| `processing` | 1 of 3 sequences (polarimetric, not polarimetric, imported) with 2, 1 and 2 exposures, 2 workers, 1 calibration set, 1 fault, any refused failure record, 2 tasks, 1 retry | the refinement of `ReductionContract`, agreement of files and digests, claims, stages, no lost work |
| `archive` | 3 paths (a flat and a group of two), 1 change of the directory, 2 inspections, 2 imports, 1 calibration run with 2 builders, 1 fault, 2 tasks, 1 retry, 2 publication requests with 1 key | traceability, unique frames, immutable sets, one change for each key, no lost build |
| `queued_pause`, `pause_resume`, `resume_optics`, `scan_overwrite`, `l0_midnight` | smallest instance that shows it | what the documentation says and the code does not do, section 5 |

Bounds: `MaxAttempt` 2 lets a sequence fail, be recovered and be retried; two
exposures are the least for "skip what is committed" and for the loop's advance
and both ends; two sequences are the least for order, and for one changing the
instrument under another. A third frame lets a retry meet the file of the first
attempt and still write another exposure's; two stops allow a crash during the
retry after a crash. `MaxToken`, `MaxDay`, `MaxFrames`, `MaxFailures` only bound
counters. `CHECK_DEADLOCK FALSE` in `ControlLease.cfg` and `l0_commit.cfg`: there
the bounded counters can run out, and so in `processing.cfg` and `archive.cfg`, whose
environment asks for a bounded number of things and then has nothing left to do.

In `processing` two exposures are one polarimetric group, the least that has L2
products of several exposures below one L3. One fault lets each kind of fault there is
(a lost worker, an error of the disk or the database in the loop, a refused claim, an
expired claim, a redelivery) meet each control point it can occur at; a refused
failure record is not counted against it. Two tasks are enough for a second send.
Combinations of faults are left to the theorems, which have no bound on them. Clients ask for
imported sequences with the set only (`Asked`): without one a run waits for ever and
touches nothing. Each sequence is
tried alone: sequences share nothing but the scheduler's order and the workers, which
the two tasks of one sequence already compete for. In `archive` two frames of a
group and a flat are the least with a group that can be incomplete, and the second
directory, the flat alone, gives two manifests that share a frame. All frames are of
one night there, so that the branch of mixed nights in `Build` is not taken. In
`archive` there are no more faults than retries: a task whose retries are used up is
dropped by Celery, and the build (`BuildTheorem` has the same premise) stays QUEUED.
In `processing` a task is dropped in the same way once its failure cannot be recorded,
and `WorkIsNeverLost` names these runs (`abandoned`) and needs no such bound.
Symmetry permutes only workers, keys and clients, about which no temporal formula is
checked beyond step properties.

Fairness: weak fairness of the runner's steps (`run_forever` polls without end,
catches every exception and device calls return) and of the scanner's (it runs
every five seconds and is restarted); none of operators, faults, stops or
midnight. `RunSettles` and `QueuedIsServed` are checked with the agent reachable and
a runner that lives;
`QueuedIsServed` has the premise that older sequences stop coming back, because
the oldest is taken first. `processing` and `archive` assume no fairness: that work
goes on is stated there as an invariant (`WorkIsNeverLost`, `CompletionIsNoticed`,
`BuildIsNeverLost`: something that will be taken up is always there), which holds at
every point of a crash and not only in the limit.

Every property of a passing run has a mutant: a plausible bug of the mapped code,
defined next to the definition it replaces (`FailedRowsAll`, `ValidatedUnsynced`,
...), under which TLC finds the property violated.

## 4. Proofs

TLAPS proves for all values of the constants, from the named assumptions
(`RunnersAssumption`, `TokenAssumption`, `LeaseAssumption`, `SequenceAssumption`,
`DisturbanceAssumption`, `L0Assumption`: positive bounds, `NoRunner` is no runner).
Where a theorem about the control plane needs a premise about the deployment, its
statement names it.

* `ControlLeaseProofs`: `TokenUnique` and `FencedByTheLeader` need that no held
  token is above the lease's, that the holder of the lease's token is its owner and
  that the agent's token is not above the lease's. `LeaseInvariant` is that
  invariant, `TokensAreUnique`, `LeaderFencesOthers`, `TokensGrow` follow.
* `L0CommitProofs`: `L0Inv` adds `DiskInv` (a final name implies synced data, the
  name the writer works for is free until the rename), `RawInv` (what the writer
  and the scanner are about to register can be registered truthfully) and `TakenInv`
  (an exposure that is taken for the first time has neither file nor registration, so
  that only one that is taken again can lose COMMITTED). Proved by
  one step per action; `FinalIsNeverTorn`, `CommittedIsRegistered`, `DigestIsTrue`
  and `FilesAreImmutable` follow.
* `ControlPlaneProofs`: `PlaneInv` is the type invariant and `HoldsToken` (whoever
  is not idle holds a token, and an owned lease has one), without which a command
  would be no step of `ControlLease`. `DeviceStep`, `DatabaseStep` and
  `RunnersStep` show that each part survives each action; `PlaneTypeCorrect` and
  `PlaneKeepsLease` (implementation of `ControlLease`) follow, for any number of
  runners and sequences.
* `ControlSafetyProofs`: the premise `LeaseHolds` says that there is one control
  process, or that no lease runs out; any faults, crashes of runners, restarts of the
  agent and the scanner are allowed. It is what the compose file gives (one control
  container), and it is needed: a leader that has lost its lease in a sequence is
  fenced at the agent but writes to the database. `SafetyInv` is then inductive:
  `OneWorker`; `FilesOK` (a committed row has a registered file, a registered file is
  on disk and belongs to a row); and for each runner `ViewOK` (what its transaction
  has read and what the row says now differ by operators' requests only), `ExposureOK`
  (instrument and row while it exposes) and `ProgressOK` (as long as the sequence is
  RUNNING, or was when the transaction read it, each ordinal behind the loop has its
  frame). `ProgressOK` needs `ViewOK`, because a runner goes on from what it read; it
  is what makes SUCCEEDED mean every frame after pauses and retries. `FramesTheorem`,
  `LatchTheorem` and `EndTheorem` follow. `AttendedTheorem` has no premise on the
  lease, but no crash of a runner and an agent that answers: without them an
  instrument and its row do stay EXPOSING with nobody at it. Its invariant
  `AttendInv` speaks of both: a row becomes EXPOSING by `Move` of a runner that then
  takes it (`SequenceTakes`), every other write of a row makes it something else
  (`NotExposed`), and `_fail_sequence` leaves no EXPOSING row in its sequence. `PlaneFencing` carries
  `TokenUnique` and `FencedByTheLeader` over from `ControlLeaseProofs` along
  `PlaneKeepsLease`.
* `ControlCommitProofs`: the premise `ScannerAndAgent` besides: where the scanner runs,
  the device agent may restart but not stay away. It is needed: a runner that finds
  the agent away fails its sequence with the file written and not registered, and a
  retry takes the exposure that the scanner registers meanwhile (`scan_overwrite`).
  `CommitInv` is `RegistryOK` (a row with a registered file is committed, an ordinal
  has at most one, the counter counts them), `TakingOK` for each runner and `ScanOK`.
  The first hard part is what happens between the two transactions of an exposure and
  after a run has ended under the runner: its sequence may be queued again by an
  operator while it is still in the loop, and then the instrument is not READY, so
  that `Move` fails before it takes an exposure. The second is the scanner, which reads
  and writes in two steps: `OrphansOK` says that a file without registration is the
  one its runner is about to register, or is left by a runner that was stopped, in a
  sequence that never goes on, and that a sequence has only one; hence what the
  scanner has read still holds when it commits. A runner that finds its file
  registered is `Beaten`: it fails, and its row is committed already. `EffectOK` sorts
  every step of a runner into `Quiet` and `Commits`, and `OneMore` is what a commit of
  either does. `CounterTheorem`, `OneFrameTheorem`, `FinalTheorem` and
  `ScannedControlTheorem` follow; `UnderControlTheorem`, that nobody takes the row of
  a running exposure, needs `NoScanner`. `ContractTheorem`, the implementation of
  `ObservationContract`, holds without the scanner, or with it when runners are not
  stopped either (`ScannerAndRunners`): what a stopped runner leaves behind may be
  registered while the next sequence has latched the instrument.
* `ProcessingProofs` (from `OutboxAssumption`, `ProcessingAssumption`): `ClaimInv` is
  types, `AloneInRun` (outside overlapped runs at most one worker is in a run, and
  the run is RUNNING if no claim was refused), `ClaimHeld` (outside slow and refused
  runs the claim is fresh and its worker's), `OneMessage` (no second message for a
  task in work) and `OverlapHasACause`. None is inductive alone: that a second worker stays out
  needs the claim, and that the claim is its worker's needs that the same task is
  not delivered twice. `OverlapTheorem` and `SuccessTheorem` follow. `LostInv` says
  that each open run has an event not in hand or a carrier, with the claim of a
  running one, or is abandoned: it holds for any number of faults and retries because
  the handler either ends the run or hands its message back, and `FailRefused` records
  where it does neither; `NoticeInv` that the events of a complete sequence include one that
  is still to be consumed. `WorkTheorem` and `NoticeTheorem` follow.
* `ProductProofs`: `MadeInv` says that what a worker has done is registered or in its
  transaction, so that a product's inputs, which `Output` orders before it, join the
  catalogue before or with it (`ParentsMade`), and that a run that succeeds has all:
  `ContractTheorem`, the implementation of `ReductionContract`, also when workers
  overlap. `FilesInv` follows each file of a run no two workers shared through
  `.part`, rename, look-up and insert: `FilesTheorem`. `TypeTheorem` needs both:
  `FilesTypeOK` says that a file bears the name of a product somebody makes. For
  `StagesTheorem` the products of a level are counted: `LevelCount` and `Counted`
  turn the cardinalities `list_processing_stages` computes into "all of them" and
  "none of them" (finite sets of the library, no induction), and `KeptInv`, that what
  is registered has its inputs, comes from `KeepsReductionContract`. It uses that an
  imported ESPaDOnS sequence expects a full group of frames, which
  `ProcessingAssumption` states and `imports/service.py:527` establishes.
* `ArchiveProofs` (from `ImportsAssumption`, `CalibrationsAssumption`): `ArchiveInv`
  goes along the way of a frame. What has succeeded stays (`InspectionsOK`,
  `BatchesOK`: a request in progress has no row yet), so what was verified once stays
  verified (`VerifiedKept`); artifacts and raw files are verified, and the rows of an
  import are full groups (`RowsOfAGroup`, a bijection with the members of a group
  that `group_science` accepted); sets and builders hold enough artifacts; approved
  sets are kept; products have a usable set and an imported sequence. `TraceTheorem`,
  `ImportedOnceTheorem` and `ApprovalTheorem` follow. `OneChangeTheorem` needs the
  unique key only. `BuildTheorem` has an invariant of its own (`BuildInv`): a message
  has been retried at most once for each fault. `ArchiveTypeTheorem` adds to
  `ArchiveInv` where the recorded things come from: `ReadOK` (an inspection records
  what was read from files), `RegisteredOK` (an import registers what its inspection
  recorded), `SentOK` (each message and builder is of a calibration run there is),
  `GradesOK` (a builder that is about to insert a set has graded it) and `KeysOK`
  (what is bound is a key some request sent).

Every safety invariant and action property of a passing run is stated by a theorem.
Only model-checked: liveness (`QueuedIsServed`, `RunSettles`,
`OrphanIsRegisteredOrDoubled`), out of TLAPS's reach here, as is ENABLED. Where a
theorem's premise excludes a deployment, the runs above show it or section 5 says what
goes wrong there.

## 5. Where code and documentation disagree

* `queued_pause`: pause and abort are accepted for a queued sequence
  (`api/routes.py` 280-290) but the runner looks at queued ones only; the sequence
  stays PAUSING or ABORTING.
* `pause_resume`: a pause noticed in `_take_exposure` and a resume before the check
  that follows send the runner into the next exposure from STANDBY; a healthy
  instrument ends in SAFE_FAULT.
* `resume_optics`: the optics command is not repeated when a paused sequence
  resumes, whatever ran in between. The same holds of INITIALIZE after a restart
  of the agent in the pause.
* `scan_overwrite`: a retry writes over an exposure the scanner has committed.
* `l0_midnight`: a retry after midnight writes a second file, and from then on the
  scanner registers nothing.

Seen in the model and not made a run:

* With the device agent unreachable `_fail_sequence` itself raises, so sequence and
  instrument stay RUNNING and EXPOSING; a retry that finds its file there registers
  it without a sync of the directory; a control process that stops leaves its
  sequence RUNNING for ever.
* The frame of a control process that stopped is registered by the scanner even
  while another sequence has the instrument in SAFE_FAULT: the one commit
  `ObservationContract` does not allow.
* When two workers are in a run at once (a claim older than the timeout, or a
  redelivery while the worker is still at work) a registered digest may differ from
  the file, a file may be replaced before it is whole, and SUCCEEDED may become
  FAILED; `docs/operations/simulation-runbook.md:35` says that products are not
  overwritten. The failure handlers write FAILED without a look at the status or
  the claim (`products/processing.py`, `calibration/espadons.py`).
* A claim the database refuses is recorded as FAILED over a run that another worker is
  in, or that has SUCCEEDED (`products/processing.py` 1048-1052 looks at neither).
  When the database refuses to record the failure too and no retry is left, the run
  stays QUEUED or RUNNING and nothing comes back to it.
* The first L0 file of a day can be lost by a power loss although it is registered: the
  directories `mkdir` made above it are never synced (`fits_contract.py` 102, 231-235).
* The race for a quicklook fails a formal run with an exception that is not retried.
* An imported exposure's configuration has no `saturation_adu`
  (`products/processing.py:322`): after an import each pass of the quicklook service
  raises KeyError and is rolled back.
* An event whose handling always raises stops the scheduler; with inline processing
  the event is marked before the run starts.
* A run WAITING_CALIBRATION is released only by asking for it again; the matcher of
  calibrations is called by nothing but its tests.
* A FAILED batch keeps its inspection, which cannot be imported again.
* A calibration run that is built twice ends as FAILED although its set is there, or
  as SUCCEEDED, by the order of the two; one whose retries are used up stays QUEUED.
* A file replaced during an inspection is recorded with one frame's header and
  another one's digest.
* A websocket cursor is behind an event that commits late.

## 6. Not modelled, and what is left

Not modelled: numerical algorithms (extraction, wavelength solution,
demodulation, master frames: floating point without shared state; what they do to
the state, a quality or a failure, is a choice in `Build`, `Reduce` and
`IOFailure`), file headers beyond validity and identity, calibration bundle files
(written like product files; two builders of one set may replace each other's),
authentication, migrations, the websocket, the frontend, the deployment with inline
processing.

What is left, in order of what it would add:

1. Two runners on one database with the row locks their flushes take.
2. The outbox with transactions that commit out of order, and the websocket's cursor.
3. Liveness of the reduction under weak fairness of scheduler and workers, which
   needs a smaller instance of `Processing`.
4. Sub-exposure grouping for other group sizes and quality merging as operators
   against reference definitions.
