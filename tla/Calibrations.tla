---------------------------- MODULE Calibrations ----------------------------
(***************************************************************************)
(* Calibration sets are built from the frames of an imported batch by      *)
(* calibration runs, which the scheduler hands to the workers, and are     *)
(* approved by an administrator (calibration/espadons.py, worker/tasks.py, *)
(* api/routes.py).  Unlike a processing run, a calibration run has no      *)
(* claim: two workers may build it at once, and the rows decide.           *)
(***************************************************************************)
EXTENDS Imports, Outbox

CONSTANTS
  CalKeys,         \* Idempotency-Keys of calibration runs, each names one
  RequiredCounts,  \* _REQUIRED_COUNTS: role -> least number of frames
  Recommended,     \* flats below which the set has a warning (20 in the code)
  Night(_),        \* what a header says of the night and the readout mode
  Builders,        \* workers
  MaxFaults        \* bound: lost workers, databases and disks that refuse

ASSUME CalibrationsAssumption ==
  /\ "FLAT" \in DOMAIN RequiredCounts
  /\ \A role \in DOMAIN RequiredCounts : RequiredCounts[role] \in Nat \ {0}
  /\ Recommended \in Nat /\ MaxFaults \in Nat

VARIABLES
  calRun,          \* calibration_runs: status and batch
  calSet,          \* calibration_sets, by the key of their run
  builder,         \* what each worker does
  faults

calVars == <<calRun, calSet, builder, faults>>

Free == [at |-> "IDLE"]

CalibrationsInit ==
  /\ ImportsInit /\ OutboxInit
  /\ calRun = [c \in CalKeys |-> None] /\ calSet = [c \in CalKeys |-> None]
  /\ builder = [w \in Builders |-> Free]
  /\ faults = 0

\* The directory is inspected and imported; IMPORT_COMPLETED is of no interest
\* to the scheduler.
ImportsStep == ImportsNext /\ UNCHANGED <<outboxVars, calVars>>

-----------------------------------------------------------------------------
(* Runs are asked for, and sent.                                            *)

\* ensure_calibration_run with a new key; a used one gives its run back.
EnsureCalibrationRun(c, b) ==
  /\ calRun[c] = None /\ batch[b].status = "SUCCEEDED"
  /\ calRun' = [calRun EXCEPT ![c] = [status |-> "QUEUED", batch |-> b]]
  /\ outbox' = Emit([type |-> "QUEUED", about |-> c])
  /\ UNCHANGED <<importVars, published, inHand, queue, sends, calSet, builder, faults>>

SendBuild(n) ==
  /\ calRun[outbox[n].about].status # "SUCCEEDED"
  /\ Send(n, outbox[n].about)
  /\ UNCHANGED <<importVars, calVars>>

SkipBuild(n) ==
  /\ calRun[outbox[n].about].status = "SUCCEEDED"
  /\ Consume(n)
  /\ UNCHANGED <<importVars, outbox, calVars>>

EndScheduling == Publish /\ UNCHANGED <<importVars, calVars>>

-----------------------------------------------------------------------------
(* A build.                                                                 *)

At(w, place) == builder[w].at = place
Moves(w, rec) == builder' = [builder EXCEPT ![w] = rec]
RunOf(w) == builder[w].msg.about
SetRun(c, status) == calRun' = [calRun EXCEPT ![c].status = status]

Built(c) == calSet[c] # None /\ calRun[c].status = "SUCCEEDED"

\* What the build of a batch reads: its calibration frames.
InputsOf(b) == {a \in artifact : a.batch = b /\ Role(a.header) \in DOMAIN RequiredCounts}

\* A run with its set has nothing to do.
BuildNothing(w, m) ==
  /\ At(w, "IDLE") /\ Built(m.about)
  /\ queue' = Acknowledged(m)
  /\ UNCHANGED <<importVars, outbox, published, inHand, sends, calVars>>

\* Any other run is RUNNING, whatever it was before and whoever is building it.
BuildBegin(w, m) ==
  LET c == m.about
  IN /\ At(w, "IDLE") /\ ~Built(c)
     /\ queue' = Acknowledged(m)
     /\ SetRun(c, "RUNNING")
     /\ Moves(w, [at |-> "BUILD", msg |-> m, inputs |-> InputsOf(calRun[c].batch)])
     /\ UNCHANGED <<importVars, outbox, published, inHand, sends, calSet, faults>>

Count(inputs, role) == Cardinality({a \in inputs : Role(a.header) = role})

Missing(inputs) ==
  \E role \in DOMAIN RequiredCounts : Count(inputs, role) < RequiredCounts[role]

\* The identity of a set: the roles and digests of its inputs, in order.
HashOf(inputs) ==
  [id \in {<<Role(a.header), a.sha>> : a \in inputs} |->
     Cardinality({a \in inputs : <<Role(a.header), a.sha>> = id})]

Raises(w, code) == Moves(w, [at |-> "RAISED", msg |-> builder[w].msg, code |-> code])

\* _build: too few frames; frames of two nights; numerics that fail, or that
\* give a set of some quality, no better than WARNING with few flats.
Build(w) ==
  LET inputs == builder[w].inputs
      mixed == Cardinality({Night(a.header) : a \in inputs}) > 1
      grades == {"FAIL", "WARNING"} \cup
                  (IF Count(inputs, "FLAT") >= Recommended THEN {"PASS"} ELSE {})
  IN /\ At(w, "BUILD")
     /\ \/ Missing(inputs) /\ Raises(w, "CALIBRATION_MISSING")
        \/ ~Missing(inputs) /\ Raises(w, "CALIBRATION_BUILD_FAILED")
        \/ /\ ~Missing(inputs) /\ ~mixed
           /\ \E qc \in grades :
                Moves(w, [at |-> "PERSIST", msg |-> builder[w].msg,
                          set |-> [status |-> "UNVERIFIED", qc |-> qc, inputs |-> inputs]])
     /\ UNCHANGED <<importVars, outboxVars, calRun, calSet, faults>>

\* Mutant of NewSet: a set that is there is replaced.
NewSetAlways(c, set) == TRUE

\* calibration_run_id and calibration_hash are unique.
NewSet(c, set) ==
  /\ calSet[c] = None
  /\ \A x \in CalKeys : calSet[x] # None => HashOf(calSet[x].inputs) # HashOf(set.inputs)

\* The set and SUCCEEDED in one transaction.
Persist(w) ==
  LET c == RunOf(w) set == builder[w].set
  IN /\ At(w, "PERSIST")
     /\ IF NewSet(c, set)
        THEN /\ calSet' = [calSet EXCEPT ![c] = set]
             /\ SetRun(c, "SUCCEEDED")
             /\ Moves(w, Free)
        ELSE Raises(w, "CALIBRATION_PERSIST_FAILED") /\ UNCHANGED <<calRun, calSet>>
     /\ UNCHANGED <<importVars, outboxVars, faults>>

\* _record_calibration_failure, whatever the run has become meanwhile.
RecordFailure(w) ==
  /\ At(w, "RAISED")
  /\ SetRun(RunOf(w), IF builder[w].code = "CALIBRATION_MISSING"
                      THEN "WAITING_CALIBRATION" ELSE "FAILED")
  /\ Moves(w, Free)
  /\ UNCHANGED <<importVars, outboxVars, calSet, faults>>

-----------------------------------------------------------------------------
(* Faults.                                                                  *)

Fault == faults < MaxFaults /\ faults' = faults + 1

\* The database refuses the first transaction: the task is retried.
BeginRefused(w, m) ==
  /\ Fault /\ At(w, "IDLE")
  /\ queue' = Retried(m) \ {m}
  /\ UNCHANGED <<importVars, outbox, published, inHand, sends, calRun, calSet, builder>>

PersistRefused(w) ==
  /\ Fault /\ At(w, "PERSIST")
  /\ Raises(w, "CALIBRATION_PERSIST_FAILED")
  /\ UNCHANGED <<importVars, outboxVars, calRun, calSet>>

\* The worker is lost, and the message comes back.
BuilderLost(w) ==
  /\ Fault /\ ~At(w, "IDLE")
  /\ queue' = Redelivered(builder[w].msg)
  /\ Moves(w, Free)
  /\ UNCHANGED <<importVars, outbox, published, inHand, sends, calRun, calSet>>

\* The message comes back while the worker still builds.
Redeliver(w) ==
  /\ Fault /\ ~At(w, "IDLE") /\ builder[w].msg \notin queue
  /\ queue' = Redelivered(builder[w].msg)
  /\ UNCHANGED <<importVars, outbox, published, inHand, sends, calRun, calSet, builder>>

\* The scheduler stops between the message and the mark.
LoseMark ==
  /\ Fault /\ SchedulerCrash
  /\ UNCHANGED <<importVars, calRun, calSet, builder>>

-----------------------------------------------------------------------------
(* Approval.                                                                *)

\* An approved set is immutable, a failed one is never approved, warnings are accepted.
MayApprove(set, accept) ==
  /\ set.status = "UNVERIFIED"
  /\ set.qc # "FAIL"
  /\ set.qc = "WARNING" => accept

ApproveSet(c, accept) ==
  /\ MayApprove(calSet[c], accept)
  /\ calSet' = [calSet EXCEPT ![c].status = "APPROVED"]
  /\ UNCHANGED <<importVars, outboxVars, calRun, builder, faults>>

-----------------------------------------------------------------------------
SchedulerStep ==
  \/ \E n \in DOMAIN outbox : SendBuild(n) \/ SkipBuild(n)
  \/ EndScheduling

BuilderStep(w) ==
  \/ \E m \in queue : BuildNothing(w, m) \/ BuildBegin(w, m)
  \/ Build(w) \/ Persist(w) \/ RecordFailure(w)

CalibrationsNext ==
  \/ ImportsStep
  \/ \E c \in CalKeys, b \in ImportKeys : EnsureCalibrationRun(c, b)
  \/ SchedulerStep \/ LoseMark
  \/ \E w \in Builders :
       \/ BuilderStep(w) \/ PersistRefused(w) \/ BuilderLost(w) \/ Redeliver(w)
       \/ \E m \in queue : BeginRefused(w, m)
  \/ \E c \in CalKeys, accept \in BOOLEAN : ApproveSet(c, accept)
=============================================================================
