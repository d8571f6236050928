----------------------------- MODULE Processing -----------------------------
(***************************************************************************)
(* From committed raw files to science products: the runs that are asked   *)
(* for (products/processing.py, ensure_processing_run; api/routes.py;      *)
(* scheduler/service.py), the workers that carry them out (process_run),   *)
(* the files they write (products/fits_io.py, _write_atomic), the rows     *)
(* they register, and the quicklooks three processes register at once.     *)
(*                                                                         *)
(* A worker commits after each exposure and at the end; between two        *)
(* commits its rows are its own, and an insert of a row another worker has *)
(* inserted and not committed waits for it (PostgreSQL, unique             *)
(* product_hash).  Files are not part of any transaction.                  *)
(***************************************************************************)
EXTENDS Outbox

CONSTANTS
  Sequences,
  Kind,          \* what each is: simulated POL or NONPOL, or imported ESPADONS
  MaxSequences,  \* bound: sequences that are observed or imported
  Asked,         \* bound: runs that may be asked for
  Expected,      \* expected_exposures of each sequence
  GroupSize,     \* exposures of a polarimetric group (4 in the code)
  Variants,      \* number of L3 products of an ESPaDOnS group (4 in the code)
  Parameters,    \* processing parameters a request may name
  Default,       \* the ones of the scheduler
  CalSets,       \* calibration sets
  NoCal,
  Workers,
  MaxFaults      \* bound: crashes, I/O errors, refused claims, slow workers, repeated deliveries

ASSUME ProcessingAssumption ==
  /\ Expected \in [Sequences -> Nat \ {0}] /\ GroupSize \in Nat \ {0}
  /\ \A s \in Sequences : Kind[s] # "NONPOL" => Expected[s] % GroupSize = 0
  /\ \A s \in Sequences : Kind[s] = "ESPADONS" => Expected[s] = GroupSize
  /\ Variants \in Nat \ {0} /\ MaxFaults \in Nat /\ MaxSequences \in Nat
  /\ Kind \in [Sequences -> {"POL", "NONPOL", "ESPADONS"}]
  /\ Default \in Parameters /\ NoCal \notin CalSets

Exposures(s) == 1 .. Expected[s]
Real(s) == Kind[s] = "ESPADONS"

\* A run is known by what its identity hashes: inputs, calibration, parameters.
\* A simulated sequence is refused a calibration set (CALIBRATION_MISMATCH).
Runs == {r \in [seq : Sequences, cal : CalSets \cup {NoCal}, par : Parameters] :
           Real(r.seq) \/ r.cal = NoCal}
NoRun == [seq |-> NoCal, cal |-> NoCal, par |-> NoCal]

ASSUME AskedAssumption == Asked \subseteq Runs

RunStatus == {"NONE", "WAITING_CALIBRATION", "QUEUED", "RUNNING", "SUCCEEDED", "FAILED"}

\* Products are known by their product_hash: a quicklook by its raw file
\* alone, the others by their run and their place in it.
Quicklook(s, e) == [level |-> "QUICKLOOK", seq |-> s, run |-> NoRun, n |-> e]
Of(r, level, n) == [level |-> level, seq |-> r.seq, run |-> r, n |-> n]
Quicklooks == UNION {{Quicklook(s, e) : e \in Exposures(s)} : s \in Sequences}
-----------------------------------------------------------------------------
(* What a run makes, in the order it makes it.                              *)

OfExposure(r, e) ==
  IF Real(r.seq)
  THEN <<Of(r, "L1", e), Of(r, "L2", e)>>
  ELSE <<Quicklook(r.seq, e), Of(r, "L1", e), Of(r, "L2", e)>>
PerExposure(r) == IF Real(r.seq) THEN 2 ELSE 3

FinalCount(r) == CASE Kind[r.seq] = "POL" -> Expected[r.seq] \div GroupSize
                   [] Kind[r.seq] = "NONPOL" -> Expected[r.seq]
                   [] Real(r.seq) -> Variants

OutputCount(r) == PerExposure(r) * Expected[r.seq] + FinalCount(r)

\* The k-th product: those of each exposure in turn, then the L3 products.
Output(r, k) ==
  LET per == PerExposure(r)
  IN IF k <= per * Expected[r.seq]
     THEN OfExposure(r, ((k - 1) \div per) + 1)[((k - 1) % per) + 1]
     ELSE Of(r, "L3", k - per * Expected[r.seq])

\* The session is committed after each exposure and after the last product.
CommitsAfter(r, k) ==
  \/ k = OutputCount(r)
  \/ k <= PerExposure(r) * Expected[r.seq] /\ k % PerExposure(r) = 0

\* The rows of product_inputs that are products.
ParentsOf(p) ==
  CASE p.level = "L2" -> {Of(p.run, "L1", p.n)}
    [] p.level = "L3" ->
         {Of(p.run, "L2", e) : e \in
            CASE Kind[p.seq] = "NONPOL" -> {p.n}
              [] Kind[p.seq] = "POL" -> ((p.n - 1) * GroupSize + 1) .. (p.n * GroupSize)
              [] Kind[p.seq] = "ESPADONS" -> Exposures(p.seq)}
    [] OTHER -> {}

OutputsOf(r) == {Output(r, k) : k \in 1 .. OutputCount(r)}

Science == (UNION {OutputsOf(r) : r \in Runs}) \ Quicklooks
Products == Quicklooks \cup Science

-----------------------------------------------------------------------------
VARIABLES
  raws,          \* committed exposures of each sequence, in order
  usable,        \* calibration sets that are APPROVED and not FAIL
  run,           \* processing_runs: status, claim_token, age of the claim
  worker,        \* what each worker does
  part, final,   \* files <name>.fits.part and <name>.fits: product -> file
  catalogue,     \* products: product -> digest, that is the file it was read from
  faults,
  slow,          \* history: runs with an expired claim or a second delivery
  refused,       \* history: runs a claim of which the database refused
  overlapped,    \* history: runs two workers had a task of at once
  abandoned      \* history: runs with a task given up before its failure was recorded

\* A file: who wrote it, as its bytes have a date, and whether it is complete.
Files == [by : Workers, whole : BOOLEAN]
JsonFile == [by |-> NoCal, whole |-> TRUE]
Registered == DOMAIN catalogue
Nothing == <<>>

Put(f, p, value) == [q \in DOMAIN f \cup {p} |-> IF q = p THEN value ELSE f[q]]
Without(f, p) == [q \in DOMAIN f \ {p} |-> f[q]]

Idle == [at |-> "IDLE", msg |-> Nothing, done |-> 0, held |-> Nothing,
         read |-> Nothing, retry |-> FALSE]
Places == {"IDLE", "OPEN", "CLOSE", "REPLACE", "INSERT", "RAISED"}

runVars == <<raws, usable, run>>
fileVars == <<part, final>>
historyVars == <<faults, slow, refused, overlapped, abandoned>>
vars == <<outboxVars, runVars, worker, fileVars, catalogue, historyVars>>

Init ==
  /\ OutboxInit
  /\ raws = [s \in Sequences |-> 0]
  /\ usable = {}
  /\ run = [r \in Runs |-> [status |-> "NONE", token |-> 0, fresh |-> FALSE]]
  /\ worker = [w \in Workers |-> Idle]
  /\ part = Nothing /\ final = Nothing /\ catalogue = Nothing
  /\ faults = 0 /\ slow = {} /\ refused = {} /\ overlapped = {} /\ abandoned = {}

-----------------------------------------------------------------------------
(* The environment: raw files and calibration sets.                         *)

MayBegin(s) ==
  raws[s] > 0 \/ Cardinality({x \in Sequences : raws[x] > 0}) < MaxSequences

\* commit_l0 of the next exposure, with its RAW_FILE_COMMITTED.
CommitRaw(s) ==
  /\ ~Real(s) /\ raws[s] < Expected[s] /\ MayBegin(s)
  /\ raws' = [raws EXCEPT ![s] = @ + 1]
  /\ outbox' = Emit([type |-> "RAW_FILE_COMMITTED", about |-> <<s, raws[s] + 1>>])
  /\ UNCHANGED <<published, inHand, queue, sends, usable, run, worker, fileVars,
                 catalogue, historyVars>>

\* commit_import: all exposures of a sequence at once, and no event.
ImportRaws(s) ==
  /\ Real(s) /\ raws[s] = 0 /\ MayBegin(s)
  /\ raws' = [raws EXCEPT ![s] = Expected[s]]
  /\ UNCHANGED <<outboxVars, usable, run, worker, fileVars, catalogue, historyVars>>

ApproveCalibration(c) ==
  /\ c \notin usable
  /\ usable' = usable \cup {c}
  /\ UNCHANGED <<outboxVars, raws, run, worker, fileVars, catalogue, historyVars>>

-----------------------------------------------------------------------------
(* Runs are asked for.                                                      *)

\* Mutant of Complete: off by one, the sequence would need one exposure more.
CompleteStrictly(s) == raws[s] > Expected[s]

Complete(s) == raws[s] >= Expected[s]

MayQueue(r) == Real(r.seq) => r.cal \in usable

QueuedEvent(r) == [type |-> "QUEUED", about |-> r]

\* ensure_processing_run: a run with this identity is made, or released from
\* WAITING_CALIBRATION, or returned as it is, whatever became of it.
EnsureRun(r) ==
  /\ Complete(r.seq)
  /\ \/ /\ MayQueue(r) /\ run[r].status \in {"NONE", "WAITING_CALIBRATION"}
        /\ run' = [run EXCEPT ![r].status = "QUEUED"]
        /\ outbox' = Emit(QueuedEvent(r))
     \/ /\ ~MayQueue(r) /\ run[r].status = "NONE"
        /\ run' = [run EXCEPT ![r].status = "WAITING_CALIBRATION"]
        /\ UNCHANGED outbox
     \/ /\ run[r].status # "NONE"
        /\ ~(MayQueue(r) /\ run[r].status = "WAITING_CALIBRATION")
        /\ UNCHANGED <<run, outbox>>

\* POST /api/v1/processing-runs; an incomplete sequence is refused.
CreateRun(r) ==
  /\ EnsureRun(r)
  /\ UNCHANGED <<published, inHand, queue, sends, raws, usable, worker, fileVars,
                 catalogue, historyVars>>

-----------------------------------------------------------------------------
(* Quicklooks of the scheduler and of the quicklook service.                *)

Held(p) == \E w \in Workers : p \in DOMAIN worker[w].held

\* They are registered in one transaction; one a worker has inserted and not
\* committed makes it wait.  The file holds no date: its bytes are the same
\* whoever writes it.
RegisterQuicklooks(ps) ==
  /\ \A p \in ps : ~Held(p)
  /\ catalogue' = [p \in Registered \cup ps |-> IF p \in Registered THEN catalogue[p] ELSE JsonFile]

\* One pass of the quicklook service over all registered exposures.  An
\* imported one has a configuration without saturation_adu: KeyError, and the
\* pass is rolled back.
QuicklookPass ==
  /\ \A s \in Sequences : Real(s) => raws[s] = 0
  /\ RegisterQuicklooks({p \in Quicklooks : p.n <= raws[p.seq]})
  /\ UNCHANGED <<outboxVars, runVars, worker, fileVars, historyVars>>

-----------------------------------------------------------------------------
(* The scheduler.                                                           *)

\* RAW_FILE_COMMITTED: the quicklook, and the run if the sequence is complete.
ScheduleRaw(n) ==
  /\ Takes(n) /\ outbox[n].type = "RAW_FILE_COMMITTED"
  /\ LET s == outbox[n].about[1]
         r == [seq |-> s, cal |-> NoCal, par |-> Default]
     IN /\ RegisterQuicklooks({Quicklook(s, outbox[n].about[2])})
        /\ IF Complete(s) THEN EnsureRun(r) ELSE UNCHANGED <<run, outbox>>
  /\ Consume(n)
  /\ UNCHANGED <<raws, usable, worker, fileVars, historyVars>>

\* PROCESSING_RUN_STATE_CHANGED to QUEUED: the task is sent ...
SendRun(n) ==
  /\ Takes(n) /\ outbox[n].type = "QUEUED"
  /\ run[outbox[n].about].status # "SUCCEEDED"
  /\ Send(n, outbox[n].about)
  /\ UNCHANGED <<runVars, worker, fileVars, catalogue, historyVars>>

\* ... unless the run has succeeded meanwhile.
SkipRun(n) ==
  /\ Takes(n) /\ outbox[n].type = "QUEUED"
  /\ run[outbox[n].about].status = "SUCCEEDED"
  /\ Consume(n)
  /\ UNCHANGED <<outbox, runVars, worker, fileVars, catalogue, historyVars>>

EndScheduling ==
  Publish /\ UNCHANGED <<runVars, worker, fileVars, catalogue, historyVars>>

-----------------------------------------------------------------------------
(* The workers.                                                             *)

RunOf(w) == worker[w].msg.about
Current(w) == Output(RunOf(w), worker[w].done + 1)
At(w, place) == worker[w].at = place

\* The worker moves on and its connection to Redis and the rest stay alone.
Moves(w, rec) == worker' = [worker EXCEPT ![w] = rec]
Goes(w, place) == Moves(w, [worker[w] EXCEPT !.at = place])
\* An exception leaves the session: what was not committed is rolled back.
Raises(w, again) ==
  Moves(w, [worker[w] EXCEPT !.at = "RAISED", !.held = Nothing, !.read = Nothing,
                             !.retry = again])

\* Mutant of Busy: the claim of another task is not looked at.
BusyNever(r, m) == FALSE

\* Another task is in the run and its claim is younger than the timeout.
Busy(r, m) ==
  /\ run[r].status = "RUNNING"
  /\ run[r].token # m.task
  /\ run[r].fresh

\* Mutant of Finished: a run that has succeeded is carried out again.
FinishedNever(r) == FALSE

Finished(r) == run[r].status = "SUCCEEDED"

\* A task that has nothing to do ends at once.
TakeNothing(w, m) ==
  /\ At(w, "IDLE") /\ m \in queue
  /\ Finished(m.about) \/ Busy(m.about, m)
  /\ queue' = Acknowledged(m)
  /\ UNCHANGED <<outbox, published, inHand, sends, runVars, worker, fileVars, catalogue,
                 historyVars>>

\* w begins a task of run r, in which others may be.
Joins(w, r) ==
  overlapped' = IF \E x \in Workers \ {w} : ~At(x, "IDLE") /\ RunOf(x) = r
                THEN overlapped \cup {r} ELSE overlapped

\* The run is claimed: RUNNING under the id of the task.  A real run whose
\* calibration set is not approved raises.
Claim(w, m) ==
  LET r == m.about
  IN /\ At(w, "IDLE") /\ m \in queue
     /\ ~Finished(r) /\ ~Busy(r, m)
     /\ queue' = Acknowledged(m)
     /\ run' = [run EXCEPT ![r] = [status |-> "RUNNING", token |-> m.task, fresh |-> TRUE]]
     /\ Moves(w, [Idle EXCEPT !.at = IF Complete(r.seq) /\ MayQueue(r) THEN "OPEN" ELSE "RAISED",
                              !.msg = m])
     /\ Joins(w, r)
     /\ UNCHANGED <<outbox, published, inHand, sends, raws, usable, fileVars, catalogue,
                    faults, slow, refused, abandoned>>

-----------------------------------------------------------------------------
(* One product.                                                             *)

\* What follows a product that is in the catalogue or among the rows of the
\* transaction: the next one, and session.commit where the loop has it.  With
\* the last product the run is SUCCEEDED, whoever holds its claim by now, and
\* the message is acknowledged.
Pass(w, rows) ==
  LET r == RunOf(w) k == worker[w].done + 1
  IN IF ~CommitsAfter(r, k)
     THEN /\ Moves(w, [worker[w] EXCEPT !.done = k, !.at = "OPEN", !.held = rows,
                                        !.read = Nothing])
          /\ UNCHANGED <<run, catalogue>>
     ELSE /\ catalogue' = [p \in Registered \cup DOMAIN rows |->
                             IF p \in DOMAIN rows THEN rows[p] ELSE catalogue[p]]
          /\ IF k = OutputCount(r)
             THEN run' = [run EXCEPT ![r].status = "SUCCEEDED"] /\ Moves(w, Idle)
             ELSE UNCHANGED run
                  /\ Moves(w, [Idle EXCEPT !.msg = worker[w].msg, !.done = k, !.at = "OPEN"])

\* _register_product looks for the product; if there is none it reads the file.
LooksUp(w, p, file) ==
  IF p \in Registered
  THEN Pass(w, worker[w].held)
  ELSE /\ Moves(w, [worker[w] EXCEPT !.at = "INSERT", !.read = file])
       /\ UNCHANGED <<run, catalogue>>

others == <<outboxVars, raws, usable, historyVars>>

\* ensure_quicklook_for_exposure in the session of the worker.
MakeQuicklook(w) ==
  /\ At(w, "OPEN") /\ Current(w) \in Quicklooks
  /\ LooksUp(w, Current(w), JsonFile)
  /\ UNCHANGED <<others, fileVars>>

\* There is a file, and validate_science_fits accepts it.
Valid(files, p) == p \in DOMAIN files /\ files[p].whole

\* Mutant of KeepFile: a file that is there is taken as registered.
KeepFileAsDone(w) ==
  /\ At(w, "OPEN") /\ Current(w) \in Science
  /\ Current(w) \in DOMAIN final
  /\ Pass(w, worker[w].held)
  /\ UNCHANGED <<others, fileVars>>

\* _write_atomic finds the file: validated and kept, or an exception.
KeepFile(w) ==
  /\ At(w, "OPEN") /\ Current(w) \in Science
  /\ Current(w) \in DOMAIN final
  /\ IF Valid(final, Current(w))
     THEN LooksUp(w, Current(w), final[Current(w)])
     ELSE (\E again \in BOOLEAN : Raises(w, again)) /\ UNCHANGED <<run, catalogue>>
  /\ UNCHANGED <<others, fileVars>>

\* Mutant of OpenPart: a file that is there is written again.
OpenPartAlways(w) ==
  /\ At(w, "OPEN") /\ Current(w) \in Science
  /\ part' = Put(part, Current(w), [by |-> w, whole |-> FALSE])
  /\ Goes(w, "CLOSE")
  /\ UNCHANGED <<others, run, catalogue, final>>

\* There is no file: a .part left behind is removed and a new one is opened.
OpenPart(w) ==
  /\ At(w, "OPEN") /\ Current(w) \in Science
  /\ Current(w) \notin DOMAIN final
  /\ part' = Put(part, Current(w), [by |-> w, whole |-> FALSE])
  /\ Goes(w, "CLOSE")
  /\ UNCHANGED <<others, run, catalogue, final>>

\* The bytes go to the file that was opened, wherever its name is now.
Completed(files, w, p) ==
  IF p \in DOMAIN files /\ files[p].by = w THEN [files EXCEPT ![p].whole = TRUE] ELSE files

\* writeto ends, and the .part that is there now is validated.
ClosePart(w) ==
  LET p == Current(w)
  IN /\ At(w, "CLOSE")
     /\ part' = Completed(part, w, p) /\ final' = Completed(final, w, p)
     /\ IF Valid(part', p) THEN Goes(w, "REPLACE")
                           ELSE \E again \in BOOLEAN : Raises(w, again)
     /\ UNCHANGED <<others, run, catalogue>>

\* os.replace, and the look for the product.
ReplaceFile(w) ==
  LET p == Current(w)
  IN /\ At(w, "REPLACE")
     /\ IF p \in DOMAIN part
        THEN /\ final' = Put(final, p, part[p])
             /\ part' = Without(part, p)
             /\ LooksUp(w, p, part[p])
        ELSE Raises(w, TRUE) /\ UNCHANGED <<fileVars, run, catalogue>>
     /\ UNCHANGED others

\* The flush of the new row: it waits for another worker's, and is refused if
\* the row has been committed since the look.
Insert(w) ==
  LET p == Current(w)
  IN /\ At(w, "INSERT")
     /\ \A x \in Workers \ {w} : p \notin DOMAIN worker[x].held
     /\ IF p \in Registered
        THEN Raises(w, FALSE) /\ UNCHANGED <<run, catalogue>>
        ELSE Pass(w, Put(worker[w].held, p, worker[w].read))
     /\ UNCHANGED <<others, fileVars>>

\* The failure is recorded in a transaction of its own, whatever the status
\* is by now and whether the run was claimed or not; the task is retried if the
\* exception is one of those of the list.
Fail(w) ==
  /\ At(w, "RAISED")
  /\ run' = [run EXCEPT ![RunOf(w)].status = "FAILED"]
  /\ queue' = IF worker[w].retry THEN Retried(worker[w].msg) ELSE queue
  /\ Moves(w, Idle)
  /\ UNCHANGED <<outbox, published, inHand, sends, raws, usable, fileVars, catalogue,
                 historyVars>>

\* The database refuses that transaction, which raises in turn: the run stays
\* as it is, and the task ends unless that exception is retried.
FailRefused(w) ==
  /\ At(w, "RAISED")
  /\ \E again \in BOOLEAN :
       /\ queue' = IF again THEN Retried(worker[w].msg) ELSE queue
       /\ abandoned' = IF again /\ worker[w].msg.retries < MaxRetries
                       THEN abandoned ELSE abandoned \cup {RunOf(w)}
  /\ Moves(w, Idle)
  /\ UNCHANGED <<outbox, published, inHand, sends, runVars, fileVars, catalogue,
                 faults, slow, refused, overlapped>>

-----------------------------------------------------------------------------
(* Faults.                                                                  *)

Fault == faults < MaxFaults /\ faults' = faults + 1

\* The disk or the database refuses: retried if it is an OSError, which a lost
\* connection is only before SQLAlchemy has it.
IOFailure(w) ==
  /\ Fault /\ worker[w].at \in {"OPEN", "CLOSE", "INSERT"}
  /\ \E again \in BOOLEAN : Raises(w, again)
  /\ UNCHANGED <<outboxVars, runVars, fileVars, catalogue, slow, refused, overlapped,
                 abandoned>>

\* The database refuses the transaction of the claim, before or after it has
\* looked at the status: the handler is the same.
ClaimRefused(w, m) ==
  /\ Fault /\ At(w, "IDLE") /\ m \in queue
  /\ queue' = Acknowledged(m)
  /\ \E again \in BOOLEAN :
       Moves(w, [Idle EXCEPT !.at = "RAISED", !.msg = m, !.retry = again])
  /\ refused' = refused \cup {m.about}
  /\ Joins(w, m.about)
  /\ UNCHANGED <<outbox, published, inHand, sends, runVars, fileVars, catalogue, slow,
                 abandoned>>

\* The worker is lost: task_reject_on_worker_lost, the message comes back.
Crash(w) ==
  /\ Fault /\ ~At(w, "IDLE")
  /\ Moves(w, Idle)
  /\ queue' = Redelivered(worker[w].msg)
  /\ UNCHANGED <<outbox, published, inHand, sends, runVars, fileVars, catalogue, slow,
                 refused, overlapped, abandoned>>

\* A worker takes longer than processing_claim_timeout_seconds; claimed_at is
\* never refreshed.
ClaimExpires(r) ==
  /\ Fault /\ run[r].status = "RUNNING" /\ run[r].fresh
  /\ run' = [run EXCEPT ![r].fresh = FALSE]
  /\ slow' = slow \cup {r}
  /\ UNCHANGED <<outboxVars, raws, usable, worker, fileVars, catalogue, refused, overlapped,
                 abandoned>>

\* A worker takes longer than the visibility timeout of Redis.
Redeliver(w) ==
  /\ Fault /\ ~At(w, "IDLE") /\ worker[w].msg \notin queue
  /\ queue' = Redelivered(worker[w].msg)
  /\ slow' = slow \cup {RunOf(w)}
  /\ UNCHANGED <<outbox, published, inHand, sends, runVars, worker, fileVars, catalogue,
                 refused, overlapped, abandoned>>

\* The scheduler stops between the message and the mark.
LoseMark ==
  /\ SchedulerCrash
  /\ UNCHANGED <<runVars, worker, fileVars, catalogue, historyVars>>

-----------------------------------------------------------------------------
SchedulerStep ==
  \/ \E n \in DOMAIN outbox : ScheduleRaw(n) \/ SendRun(n) \/ SkipRun(n)
  \/ EndScheduling

WorkerStep(w) ==
  \/ \E m \in queue : TakeNothing(w, m) \/ Claim(w, m) \/ ClaimRefused(w, m)
  \/ MakeQuicklook(w) \/ KeepFile(w) \/ OpenPart(w) \/ ClosePart(w) \/ ReplaceFile(w)
  \/ Insert(w) \/ Fail(w) \/ FailRefused(w)

Next ==
  \/ \E s \in Sequences : CommitRaw(s) \/ ImportRaws(s)
  \/ \E c \in CalSets : ApproveCalibration(c)
  \/ \E r \in Asked : CreateRun(r)
  \/ \E r \in Runs : ClaimExpires(r)
  \/ QuicklookPass
  \/ SchedulerStep
  \/ LoseMark
  \/ \E w \in Workers : WorkerStep(w) \/ IOFailure(w) \/ Crash(w) \/ Redeliver(w)

Spec == Init /\ [][Next]_vars

-----------------------------------------------------------------------------
(* What the interface shows of a run: GET /processing-runs/{id}/stages.     *)

Stages == <<"L0", "QUICKLOOK", "L1", "L2", "L3">>
Required == {"L0", "L1", "L2", "L3"}

\* Mutant of ShownExpected: an L3 product for each exposure.
ShownExpectedEach(r, level) == Expected[r.seq]

\* Polarimetric sequences have an L3 product for each group.
ShownExpected(r, level) ==
  IF level = "L3" /\ Kind[r.seq] # "NONPOL" THEN Expected[r.seq] \div GroupSize ELSE Expected[r.seq]

\* Products of the run, and the L0 and quicklook products of its sequence.
ShownCount(r, level) ==
  IF level = "L0" THEN raws[r.seq]
  ELSE Cardinality({p \in Registered :
         p.level = level /\ p.seq = r.seq /\ (level = "QUICKLOOK" \/ p.run = r)})

Incomplete(r, level) == ShownCount(r, level) < ShownExpected(r, level)

FirstIncomplete(r, level) ==
  /\ level \in Required /\ Incomplete(r, level)
  /\ \A i, j \in DOMAIN Stages :
       i < j /\ Stages[j] = level /\ Stages[i] \in Required => ~Incomplete(r, Stages[i])

\* stage_status
StageStatus(r, level) ==
  LET first == FirstIncomplete(r, level)
      some == ShownCount(r, level) > 0
      status == run[r].status
      blocked == status \in {"FAILED", "BLOCKED"}
  IN IF ~Incomplete(r, level) THEN "AVAILABLE"
     ELSE IF ~some /\ level \notin Required THEN "NOT_AVAILABLE"
     ELSE IF first /\ status \in {"RUNNING", "FAILED"} THEN status
     ELSE IF some THEN "PARTIAL"
     ELSE IF first /\ status \in {"WAITING_CALIBRATION", "BLOCKED"} THEN "BLOCKED"
     ELSE IF status = "SUCCEEDED" THEN "NOT_AVAILABLE"
     ELSE IF ~first /\ blocked THEN "BLOCKED"
     ELSE "PENDING"

-----------------------------------------------------------------------------
(* Properties.                                                              *)

ProcessingTypeOK ==
  /\ \A s \in Sequences : raws[s] \in 0 .. Expected[s]
  /\ usable \subseteq CalSets
  /\ \A r \in Runs : /\ run[r].status \in RunStatus
                     /\ run[r].token \in 0 .. sends
                     /\ run[r].fresh \in BOOLEAN
  /\ \A n \in DOMAIN outbox : outbox[n].type \in {"RAW_FILE_COMMITTED", "QUEUED"}
  /\ published \subseteq DOMAIN outbox /\ inHand \in {0} \cup (DOMAIN outbox \ published)
  /\ queue \subseteq Messages(Runs)
  /\ \A w \in Workers :
       /\ worker[w].at \in Places
       /\ ~At(w, "IDLE") => /\ worker[w].msg \in Messages(Runs)
                            /\ worker[w].done \in 0 .. OutputCount(RunOf(w))
                            /\ DOMAIN worker[w].held \subseteq OutputsOf(RunOf(w))
  /\ \A files \in {part, final} :
       /\ DOMAIN files \subseteq Science
       /\ \A p \in DOMAIN files : files[p] \in Files
  /\ Registered \subseteq Products

\* What readers are promised.
Succeeded == {r \in Runs : run[r].status = "SUCCEEDED"}

Contract == INSTANCE ReductionContract WITH
  Product <- Products, Run <- Runs, Inputs <- ParentsOf, ProductsOf <- OutputsOf,
  catalogue <- Registered, reported <- Succeeded

KeepsReductionContract == Contract!ContractSpec

\* As long as no two workers were in a run at once, the digest of each of its
\* products is that of the file, which is whole: crashes, I/O errors, retries
\* and double sends do not break a product.
FilesMatchUnlessOverlapped ==
  \A p \in Registered \cap Science :
    p.run \notin overlapped => Valid(final, p) /\ final[p] = catalogue[p]

\* Two workers have a task of one run at once only if one of them was too slow
\* for its claim or for Redis, or the database refused one of them its claim: a
\* task sent twice, a retry and a crash alone do not lead there.
OverlapHasACause == overlapped \subseteq slow \cup refused

\* A run that has succeeded stays so, unless a second worker was in it or the
\* claim of one more task was refused, which is recorded as a failure of the run.
SuccessIsFinal ==
  [][\A r \in Runs : run[r].status = "SUCCEEDED" /\ r \notin overlapped \cup refused =>
        run'[r].status = "SUCCEEDED"]_vars

\* The stages shown follow each other: one is complete only when those before
\* it are, and a run that succeeded shows all of them.
Formal == <<"L0", "L1", "L2", "L3">>

StagesAgree ==
  \A r \in Runs : run[r].status # "NONE" =>
    LET available == {i \in DOMAIN Formal : StageStatus(r, Formal[i]) = "AVAILABLE"}
    IN /\ \A i \in available : 1 .. i \subseteq available
       /\ run[r].status = "SUCCEEDED" => available = DOMAIN Formal

\* Work is never lost: a run that is queued, or that a worker has claimed, has
\* an event to be sent, a message, or a worker; and the claim of a running one
\* is that of a message or of a worker, not of a task that has ended.  The only
\* way out is a database that refuses to record a failure to a task that has no
\* retry left, or whose exception is not retried.
ToBeSent(r) == \E n \in DOMAIN outbox \ published : outbox[n] = QueuedEvent(r)
Carriers(r) == {m \in queue : m.about = r}
                  \cup {worker[w].msg : w \in {x \in Workers : ~At(x, "IDLE") /\ RunOf(x) = r}}

WorkIsNeverLost ==
  \A r \in Runs \ abandoned :
    /\ run[r].status = "QUEUED" => ToBeSent(r) \/ Carriers(r) # {}
    /\ run[r].status = "RUNNING" => \E m \in Carriers(r) : m.task = run[r].token

\* A simulated sequence whose frames are all there has its run, asked for or
\* not, or an event that will make it.
CompletionIsNoticed ==
  \A s \in Sequences :
    ~Real(s) /\ raws[s] = Expected[s] =>
      \/ run[[seq |-> s, cal |-> NoCal, par |-> Default]].status # "NONE"
      \/ \E n \in DOMAIN outbox \ published :
           outbox[n].type = "RAW_FILE_COMMITTED" /\ outbox[n].about[1] = s
==================================================
