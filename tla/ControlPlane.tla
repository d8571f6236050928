---------------------------- MODULE ControlPlane ----------------------------
(***************************************************************************)
(* The control plane: operators' requests on sequences (api/routes.py),    *)
(* the control runners that execute them (control/runner.py), the lease    *)
(* that elects the leading runner, the device agent (devices/simulator.py) *)
(* and the scanner that registers orphan L0 files (acquisition/service.py).*)
(*                                                                         *)
(* Concurrency.  An API request holds the sequence's row lock for its      *)
(* whole transaction and is one step.  The runner reads the sequence row   *)
(* without a lock at the beginning of a transaction, talks to the device   *)
(* and writes at the end: OpenTransaction takes the snapshot `view`, a     *)
(* later action of the runner acts on it, and requests may come between.   *)
(* Device effects and L0 files outlive a transaction that is rolled back.  *)
(***************************************************************************)
EXTENDS Integers, Sequences, FiniteSets, TLC, InstrumentStates

CONSTANTS
  Runners, NoRunner, MaxToken,  \* as in ControlLease
  SeqCount,      \* number of sequences; they are named in order of created_at
  Expected,      \* expected_exposures of each sequence
  ModeOf,        \* data mode of each sequence
  MaxAttempt,    \* bound: attempts of a sequence explored
  FaultKinds,    \* what may go wrong at the device agent, see BlockedBy
  Disturbances   \* what else may happen in the deployment explored

Seqs == 1 .. SeqCount
Ordinals(s) == 1 .. Expected[s]

ASSUME LeaseAssumption == NoRunner \notin Runners /\ MaxToken \in Nat \ {0}
ASSUME SequenceAssumption ==
  /\ SeqCount \in Nat \ {0}
  /\ Expected \in [Seqs -> Nat \ {0}]
  /\ MaxAttempt \in Nat \ {0}
ASSUME DisturbanceAssumption ==
  Disturbances \subseteq {"stop", "expire", "scan", "agent_restart", "agent_down"}

VARIABLES
  lease, live, held,   \* see ControlLease
  status,        \* sequences.status
  attempt,       \* sequences.attempt
  completed,     \* sequences.completed_exposures
  rows,          \* statuses of the exposure rows of a sequence and ordinal, oldest first
  rawFiles,      \* exposures that have a raw_files row
  succeeded,     \* idempotency keys of device commands recorded SUCCEEDED
  instrument,    \* instrument_state.state
  l0,            \* exposures whose formal L0 file is on disk
  agent,         \* the device agent
  faults,        \* faults active at the device agent
  pc, job, ordinal, row, view,  \* control point and locals of each runner
  scan           \* what the recovery scanner is registering, or NoScan

leaseState == <<lease, live, held>>
sequenceRow == <<status, attempt, completed>>
exposureState == <<rows, rawFiles, l0>>
device == <<agent, faults>>
locals == <<pc, job, ordinal, row, view>>
vars ==
  <<leaseState, sequenceRow, exposureState, succeeded, instrument, device, locals, scan>>

Lease == INSTANCE ControlLease WITH lastToken <- agent.token

SequenceStatus ==
  { "VALIDATED", "QUEUED", "RUNNING", "PAUSING", "PAUSED", "ABORTING",
    "ABORTED", "FAILED", "SUCCEEDED" }

\* PENDING is never visible outside the transaction that also sets EXPOSING.
ExposureStatus == {"EXPOSING", "READING", "COMMITTED", "FAILED"}

NoView == [status |-> "NONE", completed |-> 0, attempt |-> 0]
NoScan == [id |-> <<0, 0, 0>>, wasCommitted |-> FALSE, completed |-> 0]

\* A device agent that has just started: DeviceSimulator.__init__.
FreshAgent ==
  [ up |-> TRUE, token |-> 0, memory |-> <<>>, initialized |-> FALSE,
    interlock |-> TRUE, optics |-> "STANDBY", locked |-> TRUE ]

Init ==
  /\ lease = [owner |-> NoRunner, token |-> 0] /\ live = FALSE
  /\ held = [r \in Runners |-> 0]
  /\ status = [s \in Seqs |-> "VALIDATED"]
  /\ attempt = [s \in Seqs |-> 1]
  /\ completed = [s \in Seqs |-> 0]
  /\ rows = [s \in Seqs |-> [o \in Ordinals(s) |-> <<>>]]
  /\ rawFiles = {} /\ l0 = {} /\ succeeded = {}
  /\ instrument = "OFFLINE"
  /\ agent = FreshAgent /\ faults = {}
  /\ pc = [r \in Runners |-> "idle"]
  /\ job = [r \in Runners |-> 0]
  /\ ordinal = [r \in Runners |-> 0]
  /\ row = [r \in Runners |-> 0]
  /\ view = [r \in Runners |-> NoView]
  /\ scan = NoScan

-----------------------------------------------------------------------------
(* Operators' requests: sequence_action.  Each is refused (409) unless its  *)
(* guard holds; a repeated Idempotency-Key changes nothing.                 *)

SetStatus(s, target) == status' = [status EXCEPT ![s] = target]
Untouched == UNCHANGED <<leaseState, exposureState, succeeded, device, locals, scan>>

Start(s) ==
  /\ status[s] = "VALIDATED"
  /\ SetStatus(s, "QUEUED")
  /\ UNCHANGED <<attempt, completed, instrument>> /\ Untouched

Pause(s) ==
  /\ status[s] \in {"QUEUED", "RUNNING"}
  /\ SetStatus(s, "PAUSING")
  /\ UNCHANGED <<attempt, completed, instrument>> /\ Untouched

\* Mutant of Resume: every resume starts a new attempt.
ResumeAfresh(s) ==
  /\ \/ status[s] = "PAUSED"
     \/ status[s] = "FAILED" /\ instrument # "SAFE_FAULT"
  /\ attempt' = [attempt EXCEPT ![s] = @ + 1]
  /\ SetStatus(s, "QUEUED")
  /\ UNCHANGED <<completed, instrument>> /\ Untouched

Resume(s) ==
  /\ \/ status[s] = "PAUSED" /\ UNCHANGED attempt
     \/ /\ status[s] = "FAILED" /\ instrument # "SAFE_FAULT"
        /\ attempt[s] < MaxAttempt
        /\ attempt' = [attempt EXCEPT ![s] = @ + 1]
  /\ SetStatus(s, "QUEUED")
  /\ UNCHANGED <<completed, instrument>> /\ Untouched

\* Mutant of Abort: it takes effect at once, without the runner.
AbortAtOnce(s) ==
  /\ status[s] \in {"QUEUED", "RUNNING", "PAUSING", "PAUSED"}
  /\ SetStatus(s, "ABORTED")
  /\ UNCHANGED <<attempt, completed, instrument>> /\ Untouched

\* Mutant of Abort: a sequence that already failed or finished can be aborted too.
AbortAny(s) ==
  /\ status[s] # "VALIDATED"
  /\ SetStatus(s, "ABORTING")
  /\ UNCHANGED <<attempt, completed, instrument>> /\ Untouched

Abort(s) ==
  /\ \/ status[s] \in {"QUEUED", "RUNNING", "PAUSING"} /\ SetStatus(s, "ABORTING")
     \/ status[s] = "PAUSED" /\ SetStatus(s, "ABORTED")
  /\ UNCHANGED <<attempt, completed, instrument>> /\ Untouched

\* instrument_recover, recover_instrument: only an engineer unlatches SAFE_FAULT.
Recover ==
  /\ instrument = "SAFE_FAULT"
  /\ instrument' = "OFFLINE"
  /\ UNCHANGED sequenceRow /\ Untouched

-----------------------------------------------------------------------------
(* The device agent.                                                        *)

Commands == {"INITIALIZE", "SET_OPTICS", "MOVE_FR", "EXPOSE", "ABORT", "SAFE"}

\* The idempotency key {sequence}:{attempt}:{suffix} of a command; the ordinal o
\* is 0 where the suffix has none.
Key(s, n, command, o) == <<s, n, command, o>>
CommandOf(key) == key[3]
SequenceOf(key) == key[1]

\* The commands a fault makes fail at the simulator.
BlockedBy(fault) ==
  CASE fault = "COMMUNICATION"    -> Commands
    [] fault = "LIMIT"            -> {"MOVE_FR", "SET_OPTICS"}
    [] fault = "POSITION_TIMEOUT" -> {"MOVE_FR"}
    [] fault = "CCD_READOUT"      -> {"EXPOSE"}
    [] OTHER                      -> {}

\* Whether the agent answers SUCCEEDED; a remembered answer comes first, then
\* the fencing token, the faults and the command's own precondition.
Answers(a, r, key) ==
  IF key \in DOMAIN a.memory THEN a.memory[key]
  ELSE /\ Lease!NotFenced(held[r], a.token)
       /\ \A fault \in faults : CommandOf(key) \notin BlockedBy(fault)
       /\ CommandOf(key) = "EXPOSE" => a.initialized

\* The effect of a command that is carried out.
Handled(a, key) ==
  CASE CommandOf(key) = "INITIALIZE" ->
         [a EXCEPT !.initialized = TRUE, !.optics = "STANDBY",
                   !.interlock = "INTERLOCK_OPEN" \notin faults]
    [] CommandOf(key) = "SET_OPTICS" -> [a EXCEPT !.optics = ModeOf[SequenceOf(key)]]
    [] CommandOf(key) = "EXPOSE" -> [a EXCEPT !.locked = @ /\ "GUIDER_LOST" \notin faults]
    [] CommandOf(key) = "SAFE" -> [a EXCEPT !.optics = "SAFE", !.interlock = TRUE]
    [] OTHER -> a

\* The agent after ControlRunner._execute_command by r: a command whose success
\* the database records is not sent again, and one the agent remembers is not
\* carried out again.
Sent(a, r, key) ==
  IF key \in succeeded \/ ~a.up \/ key \in DOMAIN a.memory THEN a
  ELSE LET ok == Answers(a, r, key)
           b  == IF ok THEN Handled(a, key) ELSE a
       IN  [b EXCEPT !.memory = @ @@ (key :> ok),
                     !.token = IF Lease!NotFenced(held[r], @) THEN held[r] ELSE @]

\* _execute_command returns; otherwise it raises.  REPLY_LOST: the connection
\* breaks after the agent has carried the command out.
Succeeds(a, r, key) ==
  \/ key \in succeeded
  \/ a.up /\ Answers(a, r, key) /\ "REPLY_LOST" \notin faults

\* _transition also reads the device state, which raises when the agent is down.
Moves(target) ==
  /\ CanMoveTo(instrument, target)
  /\ instrument # target => agent.up

InjectFault(fault) ==
  /\ agent.up /\ fault \notin faults
  /\ faults' = faults \cup {fault}
  /\ agent' = IF fault = "INTERLOCK_OPEN" THEN [agent EXCEPT !.interlock = FALSE] ELSE agent
  /\ UNCHANGED <<leaseState, sequenceRow, exposureState, succeeded, instrument, locals, scan>>

ClearFault(fault) ==
  /\ agent.up /\ fault \in faults
  /\ faults' = faults \ {fault}
  /\ agent' = CASE fault = "INTERLOCK_OPEN" -> [agent EXCEPT !.interlock = TRUE]
                [] fault = "GUIDER_LOST"    -> [agent EXCEPT !.locked = TRUE]
                [] OTHER                    -> agent
  /\ UNCHANGED <<leaseState, sequenceRow, exposureState, succeeded, instrument, locals, scan>>

\* The agent's container is restarted, between two calls or over a longer time.
AgentRestart ==
  /\ \/ "agent_restart" \in Disturbances /\ agent' = FreshAgent
     \/ "agent_down" \in Disturbances /\ agent' = [FreshAgent EXCEPT !.up = FALSE]
     \/ ~agent.up /\ agent' = FreshAgent
  /\ faults' = {}
  /\ UNCHANGED <<leaseState, sequenceRow, exposureState, succeeded, instrument, locals, scan>>

-----------------------------------------------------------------------------
(* The control runner, up to the point where it takes an exposure.          *)

Goto(r, label) == pc' = [pc EXCEPT ![r] = label]
CloseView(r) == view' = [view EXCEPT ![r] = NoView]
KeepProgress == UNCHANGED <<job, ordinal, row>>

\* The transaction of run_once: take the lease, pick the oldest queued sequence.
Pickable == {s \in Seqs : status[s] = "QUEUED"}

\* Mutant of ComesFirst: the newest sequence comes first.
ComesLast(s) == \A q \in Pickable : s >= q

ComesFirst(s) == \A q \in Pickable : s <= q

PickSequence(r) ==
  /\ pc[r] = "idle" /\ Pickable # {}
  /\ Lease!AcquireOrRenew(r)
  /\ \E s \in Pickable :
       ComesFirst(s) /\ SetStatus(s, "RUNNING") /\ job' = [job EXCEPT ![r] = s]
  /\ Goto(r, "prepare")
  /\ UNCHANGED <<attempt, completed, exposureState, succeeded, instrument, device,
                 ordinal, row, view, scan>>

\* Mutant of IdlePoll: every renewal raises the token.
IdlePollRaising(r) ==
  /\ pc[r] = "idle" /\ Pickable = {}
  /\ lease' = [owner |-> r, token |-> lease.token + 1]
  /\ live' = TRUE /\ held' = [held EXCEPT ![r] = lease.token + 1]
  /\ UNCHANGED <<sequenceRow, exposureState, succeeded, instrument, device, locals, scan>>

\* run_once with an empty queue: the lease is renewed.  (When it is time to
\* refresh the snapshot and the agent is down the transaction is rolled back.)
IdlePoll(r) ==
  /\ pc[r] = "idle" /\ Pickable = {}
  /\ Lease!AcquireOrRenew(r)
  /\ UNCHANGED <<sequenceRow, exposureState, succeeded, instrument, device, locals, scan>>

\* Mutant of PrepareAllowed: the latched instrument is prepared like any other.
PrepareAnyway(restarted, needInit) ==
  agent.up /\ (needInit \/ CanMoveTo(instrument, "PREPARING") \/ instrument = "SAFE_FAULT")

\* _prepare_instrument gets as far as INITIALIZE.
PrepareAllowed(restarted, needInit) ==
  /\ agent.up /\ instrument # "SAFE_FAULT"
  /\ restarted => instrument \in {"READY", "STANDBY"}
  /\ needInit \/ CanMoveTo(instrument, "PREPARING")

\* _prepare_instrument, one transaction: reconcile with a restarted agent,
\* INITIALIZE from OFFLINE, check freshness and interlock, SET_OPTICS.
PrepareInstrument(r) ==
  LET s == job[r]
      restarted == ~agent.initialized /\ instrument # "OFFLINE"
      needInit == restarted \/ instrument = "OFFLINE"
      initKey == Key(s, attempt[s], "INITIALIZE", 0)
      opticsKey == Key(s, attempt[s], "SET_OPTICS", 0)
      entered == PrepareAllowed(restarted, needInit)
      initialized == IF entered /\ needInit THEN Sent(agent, r, initKey) ELSE agent
      checked == /\ entered
                 /\ needInit => Succeeds(agent, r, initKey)
                 /\ "STALE_STATE" \notin faults /\ initialized.interlock
      configured == Succeeds(initialized, r, opticsKey)
  IN /\ pc[r] = "prepare"
     /\ agent' = IF checked THEN Sent(initialized, r, opticsKey) ELSE initialized
     /\ \/ /\ checked /\ configured
           /\ instrument' = "READY"
           /\ succeeded' = succeeded \cup {opticsKey} \cup (IF needInit THEN {initKey} ELSE {})
           /\ Goto(r, "check")
           /\ ordinal' = [ordinal EXCEPT ![r] = 1]
        \/ /\ ~(checked /\ configured)
           /\ Goto(r, "fail")
           /\ UNCHANGED <<instrument, succeeded, ordinal>>
     /\ UNCHANGED <<leaseState, sequenceRow, exposureState, faults, job, row, view, scan>>

\* A transaction of _run_sequence or _take_exposure begins: session.get(Sequence).
OpenTransaction(r) ==
  /\ pc[r] \in {"check", "move", "expose", "post", "final"} /\ view[r] = NoView
  /\ view' = [view EXCEPT ![r] =
                [status |-> status[job[r]], completed |-> completed[job[r]],
                 attempt |-> attempt[job[r]]]]
  /\ UNCHANGED <<leaseState, sequenceRow, exposureState, succeeded, instrument, device,
                 pc, job, ordinal, row, scan>>

\* The transaction raises and is rolled back; run_once goes on to _fail_sequence.
Raise(r) ==
  /\ Goto(r, "fail")
  /\ UNCHANGED <<sequenceRow, exposureState, succeeded, instrument>>

\* _mark_paused, the last thing its transaction does.
MarkPaused(r, next) ==
  \/ /\ instrument = "READY" => agent.up
     /\ instrument' = IF instrument = "READY" THEN "STANDBY" ELSE instrument
     /\ SetStatus(job[r], "PAUSED") /\ Goto(r, next)
     /\ UNCHANGED <<attempt, completed, exposureState, succeeded>>
  \/ instrument = "READY" /\ ~agent.up /\ Raise(r)

\* _mark_aborted; rows_ and keys_ are what its transaction has changed before.
MarkAborted(r, next, rows_, keys_) ==
  \/ /\ Moves("STANDBY")
     /\ instrument' = "STANDBY"
     /\ SetStatus(job[r], "ABORTED") /\ Goto(r, next)
     /\ rows' = rows_ /\ succeeded' = keys_
     /\ UNCHANGED <<attempt, completed, rawFiles, l0>>
  \/ ~Moves("STANDBY") /\ Raise(r)

\* A transaction that finds the sequence PAUSING or ABORTING ends the run here.
Interrupted(r, next) ==
  \/ view[r].status = "ABORTING" /\ MarkAborted(r, next, rows, succeeded)
  \/ view[r].status = "PAUSING" /\ MarkPaused(r, next)

Asked(r) == view[r].status \in {"PAUSING", "ABORTING"}

\* Mutants of Committed: the check before an exposure takes any row for a
\* committed one, or finds none.
CommittedAny(s, o) == rows[s][o] # <<>>
CommittedNone(s, o) == FALSE

Committed(s, o) == \E i \in DOMAIN rows[s][o] : rows[s][o][i] = "COMMITTED"

\* The loop over ordinals advances.
Advance(r) ==
  LET last == ordinal[r] = Expected[job[r]]
  IN  /\ Goto(r, IF last THEN "final" ELSE "check")
      /\ ordinal' = IF last THEN ordinal ELSE [ordinal EXCEPT ![r] = @ + 1]

\* The check before an exposure: a committed one is skipped first.
CheckOrdinal(r) ==
  /\ pc[r] = "check" /\ view[r] # NoView
  /\ \/ /\ Committed(job[r], ordinal[r])
        /\ Advance(r)
        /\ UNCHANGED <<job, row, sequenceRow, exposureState, succeeded, instrument>>
     \/ /\ ~Committed(job[r], ordinal[r]) /\ Asked(r)
        /\ Interrupted(r, "idle") /\ KeepProgress
     \/ /\ ~Committed(job[r], ordinal[r]) /\ ~Asked(r)
        /\ Goto(r, "move") /\ KeepProgress
        /\ UNCHANGED <<sequenceRow, exposureState, succeeded, instrument>>
  /\ CloseView(r)
  /\ UNCHANGED <<leaseState, device, scan>>

-----------------------------------------------------------------------------
(* The control runner takes an exposure and leaves the sequence.            *)

\* Where the row of the next exposure is: the latest that is not COMMITTED, or
\* a new one.
OpenRows(s, o) == {i \in 1 .. Len(rows[s][o]) : rows[s][o][i] # "COMMITTED"}
NextRow(s, o) ==
  IF OpenRows(s, o) = {} THEN {Len(rows[s][o]) + 1}
  ELSE {i \in OpenRows(s, o) : \A j \in OpenRows(s, o) : j <= i}

SetRow(s, o, i, value) ==
  [rows EXCEPT ![s][o] = IF i > Len(@) THEN Append(@, value) ELSE [@ EXCEPT ![i] = value]]

\* The first transaction of _take_exposure: move the retarders, reuse the
\* latest row that is not committed or add one, enter EXPOSING.
Move(r) ==
  LET s == job[r]  o == ordinal[r]
      key == Key(s, view[r].attempt, "MOVE_FR", o)
  IN /\ pc[r] = "move" /\ view[r] # NoView
     /\ \/ Asked(r) /\ Interrupted(r, "post") /\ KeepProgress /\ UNCHANGED agent
        \/ /\ ~Asked(r)
           /\ agent' = Sent(agent, r, key)
           /\ \/ /\ Succeeds(agent, r, key) /\ Moves("EXPOSING")
                 /\ \E i \in NextRow(s, o) :
                      rows' = SetRow(s, o, i, "EXPOSING") /\ row' = [row EXCEPT ![r] = i]
                 /\ succeeded' = succeeded \cup {key}
                 /\ instrument' = "EXPOSING"
                 /\ Goto(r, "expose")
                 /\ UNCHANGED <<job, ordinal, sequenceRow, rawFiles, l0>>
              \/ /\ ~(Succeeds(agent, r, key) /\ Moves("EXPOSING"))
                 /\ Raise(r) /\ KeepProgress
     /\ CloseView(r)
     /\ UNCHANGED <<leaseState, faults, scan>>

Exposure(r) == <<job[r], ordinal[r], row[r]>>
SetOwnRow(r, value) == SetRow(job[r], ordinal[r], row[r], value)

\* The second transaction of _take_exposure after the exposure time, when the
\* sequence is found ABORTING.
AbortExposure(r) ==
  LET key == Key(job[r], view[r].attempt, "ABORT", ordinal[r])
  IN /\ pc[r] = "expose" /\ view[r].status = "ABORTING"
     /\ agent' = Sent(agent, r, key)
     /\ IF Succeeds(agent, r, key)
        THEN MarkAborted(r, "post", SetOwnRow(r, "FAILED"), succeeded \cup {key})
        ELSE Raise(r)
     /\ CloseView(r) /\ KeepProgress
     /\ UNCHANGED <<leaseState, faults, scan>>

\* ... otherwise: EXPOSE, read the frame, check the guider, write the L0 file.
\* The transaction stays open; a frame whose EXPOSE the database records as
\* succeeded has been unlinked.
Expose(r) ==
  LET key == Key(job[r], view[r].attempt, "EXPOSE", ordinal[r])
      exposed == Sent(agent, r, key)
      read == /\ Succeeds(agent, r, key) /\ key \notin succeeded
              /\ Moves("READING") /\ exposed.locked
      id == Exposure(r)
  IN /\ pc[r] = "expose" /\ view[r] # NoView /\ view[r].status # "ABORTING"
     /\ agent' = exposed
     /\ \/ /\ read /\ id \in rawFiles
           /\ Goto(r, "adopted") /\ UNCHANGED <<l0, view>>
        \/ /\ read /\ id \notin rawFiles /\ "STORAGE" \notin faults
           /\ l0' = l0 \cup {id}
           /\ Goto(r, "register") /\ UNCHANGED view
        \/ /\ ~(read /\ (id \in rawFiles \/ "STORAGE" \notin faults))
           /\ Goto(r, "fail") /\ CloseView(r) /\ UNCHANGED l0
     /\ KeepProgress
     /\ UNCHANGED <<leaseState, sequenceRow, rows, rawFiles, succeeded, instrument, faults, scan>>

\* The transaction of Expose ends; rows_ and rawFiles_ are what commit_l0 left.
EndExposure(r, rows_, rawFiles_) ==
  LET s == job[r]
      done == view[r].completed + 1
  IN \/ /\ agent.up
        /\ rows' = rows_ /\ rawFiles' = rawFiles_
        /\ completed' = [completed EXCEPT ![s] = done]
        /\ succeeded' = succeeded \cup {Key(s, view[r].attempt, "EXPOSE", ordinal[r])}
        /\ instrument' = IF done >= Expected[s] THEN "STANDBY" ELSE "READY"
        /\ Goto(r, "post")
        /\ UNCHANGED <<status, attempt, l0>>
     \/ ~agent.up /\ Raise(r)

\* Mutant of Register: the file is registered while the row is left as it was.
RegisterHalf(r) ==
  /\ pc[r] = "register"
  /\ EndExposure(r, rows, rawFiles \cup {Exposure(r)})
  /\ CloseView(r) /\ KeepProgress /\ UNCHANGED <<leaseState, device, scan>>

\* commit_l0 found no raw_files row before it wrote the file: it inserts one,
\* which fails when the scanner was faster.
Register(r) ==
  /\ pc[r] = "register"
  /\ IF Exposure(r) \in rawFiles THEN Raise(r)
     ELSE EndExposure(r, SetOwnRow(r, "COMMITTED"), rawFiles \cup {Exposure(r)})
  /\ CloseView(r) /\ KeepProgress /\ UNCHANGED <<leaseState, device, scan>>

\* commit_l0 returned the raw_files row it found, before it sets COMMITTED.
Adopt(r) ==
  /\ pc[r] = "adopted"
  /\ EndExposure(r, SetOwnRow(r, "READING"), rawFiles)
  /\ CloseView(r) /\ KeepProgress /\ UNCHANGED <<leaseState, device, scan>>

\* The transaction after an exposure.
PostExposure(r) ==
  /\ pc[r] = "post" /\ view[r] # NoView
  /\ \/ Asked(r) /\ Interrupted(r, "idle") /\ KeepProgress
     \/ /\ view[r].status \in {"ABORTED", "PAUSED", "FAILED"}
        /\ Goto(r, "idle") /\ KeepProgress
        /\ UNCHANGED <<sequenceRow, exposureState, succeeded, instrument>>
     \/ /\ view[r].status \notin {"ABORTING", "PAUSING", "ABORTED", "PAUSED", "FAILED"}
        /\ Advance(r)
        /\ UNCHANGED <<job, row, sequenceRow, exposureState, succeeded, instrument>>
  /\ CloseView(r)
  /\ UNCHANGED <<leaseState, device, scan>>

\* The last transaction of _run_sequence.
Finish(r) ==
  /\ pc[r] = "final" /\ view[r] # NoView
  /\ \/ Asked(r) /\ Interrupted(r, "idle")
     \/ /\ ~Asked(r) /\ view[r].status # "RUNNING"
        /\ Goto(r, "idle")
        /\ UNCHANGED <<sequenceRow, exposureState, succeeded, instrument>>
     \/ /\ view[r].status = "RUNNING" /\ Moves("STANDBY")
        /\ SetStatus(job[r], "SUCCEEDED") /\ instrument' = "STANDBY" /\ Goto(r, "idle")
        /\ UNCHANGED <<attempt, completed, exposureState, succeeded>>
     \/ view[r].status = "RUNNING" /\ ~Moves("STANDBY") /\ Raise(r)
  /\ CloseView(r) /\ KeepProgress
  /\ UNCHANGED <<leaseState, device, scan>>

\* Mutant of EntersSafeFault: the failure handler itself always fails.
NeverEntersSafeFault == FALSE

\* The transition to SAFE_FAULT goes through _transition, which reads the device
\* state, exactly where the table allows it; elsewhere the state is assigned.
EntersSafeFault ==
  "SAFE_FAULT" \in AllowedTransitions[instrument] => agent.up

\* Mutant of FailedRows: rows that were committed are failed with the others.
FailedRowsAll(s) ==
  [rows EXCEPT ![s] = [o \in Ordinals(s) |-> [i \in DOMAIN rows[s][o] |-> "FAILED"]]]

FailedRows(s) ==
  [rows EXCEPT ![s] =
     [o \in Ordinals(s) |->
        [i \in DOMAIN rows[s][o] |->
           IF rows[s][o][i] = "COMMITTED" THEN "COMMITTED" ELSE "FAILED"]]]

\* _fail_sequence.  SAFE is sent, its failure suppressed.  When the transition
\* raises, the transaction is rolled back and run_forever goes on.
FailSequence(r) ==
  LET s == job[r]
      key == Key(s, attempt[s], "SAFE", 0)
  IN /\ pc[r] = "fail"
     /\ \/ /\ EntersSafeFault
           /\ SetStatus(s, "FAILED")
           /\ rows' = FailedRows(s)
           /\ instrument' = "SAFE_FAULT"
           /\ agent' = Sent(agent, r, key)
           /\ succeeded' = IF Succeeds(agent, r, key) THEN succeeded \cup {key} ELSE succeeded
        \/ /\ ~EntersSafeFault
           /\ UNCHANGED <<status, rows, instrument, agent, succeeded>>
     /\ Goto(r, "idle")
     /\ UNCHANGED <<leaseState, attempt, completed, rawFiles, l0, faults,
                    job, ordinal, row, view, scan>>

-----------------------------------------------------------------------------
(* The deployment: control processes stop, leases run out, and the scanner  *)
(* of the acquisition process (not there in the embedded deployment).       *)

\* A control process stops at any point and is started again; its open
\* transaction is rolled back.
Stop(r) ==
  /\ "stop" \in Disturbances
  /\ UNCHANGED device /\ Lease!Stop(r)
  /\ Goto(r, "idle") /\ CloseView(r)
  /\ job' = [job EXCEPT ![r] = 0] /\ ordinal' = [ordinal EXCEPT ![r] = 0]
  /\ row' = [row EXCEPT ![r] = 0]
  /\ UNCHANGED <<sequenceRow, exposureState, succeeded, instrument, scan>>

LeaseExpire ==
  /\ "expire" \in Disturbances
  /\ live /\ live' = FALSE
  /\ UNCHANGED <<lease, held, sequenceRow, exposureState, succeeded, instrument, device,
                 locals, scan>>

\* recover_unregistered_l0 finds an L0 file that has no raw_files row ...
ScanOpen ==
  /\ "scan" \in Disturbances /\ scan = NoScan
  /\ \E id \in l0 \ rawFiles :
       scan' = [ id |-> id, wasCommitted |-> rows[id[1]][id[2]][id[3]] = "COMMITTED",
                 completed |-> completed[id[1]] ]
  /\ UNCHANGED <<leaseState, sequenceRow, exposureState, succeeded, instrument, device, locals>>

\* ... and registers it; when the runner did so in between, the insert fails and
\* the process starts over.
ScanCommit ==
  LET s == scan.id[1]  o == scan.id[2]
  IN /\ scan # NoScan
     /\ IF scan.id \in rawFiles THEN UNCHANGED <<rows, rawFiles, completed>>
        ELSE /\ rows' = SetRow(s, o, scan.id[3], "COMMITTED")
             /\ rawFiles' = rawFiles \cup {scan.id}
             /\ completed' =
                  IF scan.wasCommitted THEN completed
                  ELSE [completed EXCEPT ![s] = IF scan.completed < Expected[s]
                                                THEN scan.completed + 1 ELSE Expected[s]]
     /\ scan' = NoScan
     /\ UNCHANGED <<leaseState, status, attempt, l0, succeeded, instrument, device, locals>>

-----------------------------------------------------------------------------
RunnerStep(r) ==
  \/ PickSequence(r) \/ IdlePoll(r) \/ PrepareInstrument(r) \/ OpenTransaction(r)
  \/ CheckOrdinal(r) \/ Move(r) \/ AbortExposure(r) \/ Expose(r)
  \/ Register(r) \/ Adopt(r) \/ PostExposure(r) \/ Finish(r) \/ FailSequence(r)

OperatorStep ==
  \/ \E s \in Seqs : Start(s) \/ Pause(s) \/ Resume(s) \/ Abort(s)
  \/ Recover

EnvironmentStep ==
  \/ \E fault \in FaultKinds : InjectFault(fault) \/ ClearFault(fault)
  \/ AgentRestart \/ LeaseExpire \/ ScanOpen \/ ScanCommit
  \/ \E r \in Runners : Stop(r)

Next ==
  \/ \E r \in Runners : RunnerStep(r)
  \/ OperatorStep
  \/ EnvironmentStep

Spec == Init /\ [][Next]_vars

\* run_forever polls without end and every device call returns; operators and
\* faults owe nothing.
FairSpec == Spec /\ \A r \in Runners : WF_vars(RunnerStep(r))
-----------------------------------------------------------------------------
(* Properties.                                                              *)

PC == {"idle", "prepare", "check", "move", "expose", "register", "adopted",
       "post", "final", "fail"}

Working == PC \ {"idle", "prepare", "fail"}

\* What the agent remembers and where its optics are may be anything.
AgentOK(a) ==
  a \in [ up : BOOLEAN, token : 0 .. MaxToken, memory : {a.memory}, initialized : BOOLEAN,
          interlock : BOOLEAN, optics : {a.optics}, locked : BOOLEAN ]

RowsOK(rows_) ==
  /\ DOMAIN rows_ = Seqs
  /\ \A s \in Seqs : rows_[s] \in [Ordinals(s) -> Seq(ExposureStatus)]

DatabaseOK ==
  /\ status \in [Seqs -> SequenceStatus]
  /\ attempt \in [Seqs -> 1 .. MaxAttempt]
  /\ completed \in [Seqs -> Nat]
  /\ RowsOK(rows)
  /\ instrument \in InstrumentState
  /\ \A id \in l0 : id[1] \in Seqs
  /\ scan.completed \in Nat

View == [status : SequenceStatus \cup {"NONE"}, completed : Nat, attempt : 0 .. MaxAttempt]

RunnersOK ==
  /\ pc \in [Runners -> PC]
  /\ job \in [Runners -> {0} \cup Seqs] /\ ordinal \in [Runners -> Nat]
  /\ row \in [Runners -> Nat]
  /\ view \in [Runners -> View]
  /\ \A r \in Runners : pc[r] # "idle" => job[r] \in Seqs
  /\ \A r \in Runners : pc[r] \in Working => ordinal[r] \in Ordinals(job[r])

TypeOK ==
  /\ Lease!LeaseTypeOK /\ AgentOK(agent) /\ faults \subseteq FaultKinds
  /\ DatabaseOK
  /\ RunnersOK

\* The status of the exposure row r works on.
RowStatus(r) == rows[job[r]][ordinal[r]][row[r]]

HasFrame(s, o) ==
  \E i \in DOMAIN rows[s][o] : <<s, o, i>> \in rawFiles /\ <<s, o, i>> \in l0

(* A sequence reports SUCCEEDED only when every exposure it was created for *)
(* has a registered L0 file on disk, through pauses, retries and failures   *)
(* (runner.py _run_sequence skips what it believes committed).              *)
SuccessMeansEveryFrame ==
  \A s \in Seqs : status[s] = "SUCCEEDED" => \A o \in Ordinals(s) : HasFrame(s, o)

(* The counter an operator sees, which also decides between READY and       *)
(* STANDBY, is the number of exposures that are committed: no retry counts  *)
(* an exposure twice and no rollback loses one.                             *)
CompletedMatchesCommitted ==
  \A s \in Seqs : completed[s] = Cardinality({o \in Ordinals(s) : Committed(s, o)})

(* Exposures are committed once: a retry after a failure, a pause or a lost *)
(* reply never registers a second file for an ordinal.                      *)
OneFramePerOrdinal ==
  \A s \in Seqs : \A o \in Ordinals(s) :
    Cardinality({i \in DOMAIN rows[s][o] : <<s, o, i>> \in rawFiles}) <= 1

(* A committed exposure stays committed (runbook: never overwritten), and   *)
(* it keeps its registration and its formal file.                           *)
CommittedExposureFinal ==
  [][\A s \in Seqs : \A o \in Ordinals(s) : \A i \in DOMAIN rows[s][o] :
       rows[s][o][i] = "COMMITTED" =>
         /\ rows'[s][o][i] = "COMMITTED"
         /\ <<s, o, i>> \in rawFiles' /\ <<s, o, i>> \in l0']_vars

(* While a runner integrates and reads out, nothing else has moved the      *)
(* instrument on, taken the exposure row or settled the sequence: requests  *)
(* that arrive meanwhile wait for the runner.                               *)
ExposureUnderControl ==
  \A r \in Runners : pc[r] \in {"expose", "register", "adopted"} =>
    /\ instrument = "EXPOSING"
    /\ RowStatus(r) = "EXPOSING"
    /\ status[job[r]] \in {"QUEUED", "RUNNING", "PAUSING", "ABORTING"}

\* Runner r takes this exposure, or is about to fail its whole sequence.
Takes(r, s, o, i) ==
  \/ pc[r] \in {"expose", "register", "adopted"} /\ Exposure(r) = <<s, o, i>>
  \/ pc[r] = "fail" /\ job[r] = s

(* The instrument is EXPOSING only while some runner takes an exposure or   *)
(* is about to record a failure, and a row is EXPOSING only while a runner  *)
(* takes that very exposure or is about to fail its sequence: as long as no *)
(* runner is stopped and the agent answers, every way out of _take_exposure *)
(* settles both.                                                            *)
ExposingIsAttended ==
  /\ instrument = "EXPOSING" =>
       \E r \in Runners : pc[r] \in {"expose", "register", "adopted", "fail"}
  /\ \A s \in Seqs : \A o \in Ordinals(s) : \A i \in DOMAIN rows[s][o] :
       rows[s][o][i] = "EXPOSING" => \E r \in Runners : Takes(r, s, o, i)

(* Only an engineer gets the instrument out of SAFE_FAULT: no runner does,  *)
(* neither the one that failed nor the one that takes up another sequence.  *)
SafeFaultLatched ==
  [][instrument = "SAFE_FAULT" /\ instrument' # "SAFE_FAULT" =>
       instrument' = "OFFLINE" /\ UNCHANGED locals]_vars

(* A sequence that was reported aborted or finished is never taken up again,*)
(* late results of its run or of a scan notwithstanding.                    *)
EndIsFinal ==
  [][\A s \in Seqs : status[s] \in {"ABORTED", "SUCCEEDED"} => status'[s] = status[s]]_vars

(* When a runner goes on to expose, the device agent is initialized and its *)
(* optics are those of the mode of the sequence (ARCHITECTURE.md 229), also *)
(* after a pause during which another sequence ran or the agent restarted.  *)
PreparedForItsMode ==
  [][\A r \in Runners : pc[r] = "prepare" /\ pc'[r] = "check" =>
       agent'.initialized /\ agent'.optics = ModeOf[job[r]]]_vars

(* Without any fault an instrument never has to be recovered by an engineer,*)
(* whatever operators ask for and whenever they ask.                        *)
HealthyNeverFaults == instrument # "SAFE_FAULT"

\* What the control plane promises, see ObservationContract.
PhaseOf ==
  [ s \in Seqs |->
      CASE status[s] = "VALIDATED" -> "draft"
        [] status[s] = "QUEUED"    -> "queued"
        [] status[s] = "RUNNING"   -> "active"
        [] status[s] \in {"PAUSING", "ABORTING"} -> "stopping"
        [] status[s] = "PAUSED"    -> "held"
        [] status[s] = "FAILED"    -> "failed"
        [] status[s] = "ABORTED"   -> "dropped"
        [] status[s] = "SUCCEEDED" -> "done" ]

Contract == INSTANCE ObservationContract
  WITH phase  <- PhaseOf,
       frames <- [s \in Seqs |-> {o \in Ordinals(s) : Committed(s, o)}],
       latched <- instrument = "SAFE_FAULT"

(* The control plane keeps the observation contract: a frame once committed *)
(* is kept, nothing is committed while the instrument is latched in         *)
(* SAFE_FAULT or the sequence is settled, every failure latches, and only   *)
(* an operator's recovery unlatches.                                        *)
KeepsContract == Contract!ContractSpec

(* The runners, requests and device agent together use the lease as         *)
(* ControlLease describes it.                                               *)
KeepsLease == Lease!LeaseSpec

Settled == {"PAUSED", "ABORTED", "FAILED", "SUCCEEDED"}

(* A queued sequence is eventually taken from the queue, unless operators   *)
(* keep putting older ones back in front of it.                             *)
QueuedIsServed ==
  \A s \in Seqs :
    <>[](\A q \in 1 .. s - 1 : status[q] # "QUEUED")
      => (status[s] = "QUEUED" ~> status[s] # "QUEUED")

(* A running sequence eventually settles, whatever the detector, the guider *)
(* and the interlock do and operators ask for, as long as the runner lives  *)
(* and the device agent can be reached.                                     *)
RunSettles == \A s \in Seqs : status[s] = "RUNNING" ~> status[s] \in Settled

(* A pause or an abort that was accepted is eventually carried out.         *)
StopRequestsSettle ==
  \A s \in Seqs : status[s] \in {"PAUSING", "ABORTING"} ~> status[s] \in Settled
=============================================================================
