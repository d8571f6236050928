------------------------- MODULE ControlPlaneProofs -------------------------
(***************************************************************************)
(* Proofs about ControlPlane for any number of runners, any sequences, any *)
(* kinds of faults and any disturbances.                                   *)
(***************************************************************************)
EXTENDS ControlPlane, SequenceTheorems, TLAPS

\* What the device agent is after a command of r: its token is the one it had or
\* r's, which is then not lower, and it is up as before.
AgentAfter(a, b, r) ==
  /\ AgentOK(b) /\ b.up = a.up
  /\ \/ b.token = a.token
     \/ b.token = held[r] /\ Lease!NotFenced(held[r], a.token)

LEMMA HandledOK ==
  ASSUME NEW a, AgentOK(a), NEW key
  PROVE  AgentOK(Handled(a, key)) /\ Handled(a, key).token = a.token
                                  /\ Handled(a, key).up = a.up
<1>1. CASE CommandOf(key) = "INITIALIZE"
  BY <1>1 DEF Handled, AgentOK
<1>2. CASE CommandOf(key) = "SET_OPTICS"
  BY <1>2 DEF Handled, AgentOK
<1>3. CASE CommandOf(key) = "EXPOSE"
  BY <1>3 DEF Handled, AgentOK
<1>4. CASE CommandOf(key) = "SAFE"
  BY <1>4 DEF Handled, AgentOK
<1>5. CASE CommandOf(key) \notin {"INITIALIZE", "SET_OPTICS", "EXPOSE", "SAFE"}
  BY <1>5 DEF Handled, AgentOK
<1> QED
  BY <1>1, <1>2, <1>3, <1>4, <1>5

LEMMA SentOK ==
  ASSUME NEW a, AgentOK(a), NEW r \in Runners, held[r] \in 0 .. MaxToken, NEW key
  PROVE  AgentAfter(a, Sent(a, r, key), r)
<1>1. CASE key \in succeeded \/ ~a.up \/ key \in DOMAIN a.memory
  <2>1. Sent(a, r, key) = a
    BY <1>1 DEF Sent
  <2> QED
    BY <2>1 DEF AgentAfter
<1>2. CASE ~(key \in succeeded \/ ~a.up \/ key \in DOMAIN a.memory)
  <2> DEFINE ok == Answers(a, r, key)
             b == IF ok THEN Handled(a, key) ELSE a
             m == b.memory @@ (key :> ok)
  <2>1. AgentOK(b) /\ b.token = a.token /\ b.up = a.up
    BY HandledOK
  <2>2. Sent(a, r, key) =
          [b EXCEPT !.memory = m,
                    !.token = IF Lease!NotFenced(held[r], b.token) THEN held[r] ELSE b.token]
    BY <1>2 DEF Sent
  <2> DEFINE token == IF Lease!NotFenced(held[r], b.token) THEN held[r] ELSE b.token
             c == Sent(a, r, key)
  <2>3. /\ token \in 0 .. MaxToken
        /\ (token = b.token \/ (token = held[r] /\ Lease!NotFenced(held[r], b.token)))
    BY <2>1 DEF AgentOK
  <2>4. c = [b EXCEPT !.memory = m, !.token = token]
    BY <2>2
  <2> HIDE DEF b, m, token, c
  <2>5. AgentOK(c) /\ c.token = token /\ c.up = b.up
    BY <2>1, <2>3, <2>4 DEF AgentOK
  <2> QED
    BY <2>1, <2>3, <2>5 DEF AgentAfter, c
<1> QED
  BY <1>1, <1>2

LEMMA AfterTwo ==
  ASSUME NEW a, AgentOK(a), NEW r \in Runners, held[r] \in 0 .. MaxToken,
         NEW b, AgentAfter(a, b, r), NEW c, AgentAfter(b, c, r)
  PROVE  AgentAfter(a, c, r)
BY DEF AgentAfter, AgentOK

LEMMA SetRowOK ==
  ASSUME RowsOK(rows), NEW s, NEW o, NEW i, NEW value \in ExposureStatus
  PROVE  RowsOK(SetRow(s, o, i, value))
<1>1. ASSUME NEW q \in Seq(ExposureStatus)
      PROVE  (IF i > Len(q) THEN Append(q, value) ELSE [q EXCEPT ![i] = value])
               \in Seq(ExposureStatus)
  <2>1. CASE i \in 1 .. Len(q)
    BY <2>1, ExceptSeq, AppendProperties, Zenon
  <2>2. CASE i \notin 1 .. Len(q)
    <3>1. [q EXCEPT ![i] = value] = q
      BY <2>2
    <3> QED
      BY <3>1, AppendProperties
  <2> QED
    BY <2>1, <2>2
<1> DEFINE new(q) == IF i > Len(q) THEN Append(q, value) ELSE [q EXCEPT ![i] = value]
<1>2. SetRow(s, o, i, value) = [rows EXCEPT ![s] = [rows[s] EXCEPT ![o] = new(rows[s][o])]]
  BY DEF SetRow
<1>3. \A q \in Seq(ExposureStatus) : new(q) \in Seq(ExposureStatus)
  BY <1>1
<1> HIDE DEF new
<1>4. CASE s \in Seqs
  <2>1. rows[s] \in [Ordinals(s) -> Seq(ExposureStatus)]
    BY <1>4 DEF RowsOK
  <2>2. [rows[s] EXCEPT ![o] = new(rows[s][o])] \in [Ordinals(s) -> Seq(ExposureStatus)]
    <3>1. CASE o \in Ordinals(s)
      BY <2>1, <3>1, <1>3
    <3>2. CASE o \notin Ordinals(s)
      BY <2>1, <3>2
    <3> QED
      BY <3>1, <3>2
  <2> QED
    BY <1>2, <1>4, <2>2 DEF RowsOK
<1>5. CASE s \notin Seqs
  BY <1>2, <1>5 DEF RowsOK
<1> QED
  BY <1>4, <1>5

LEMMA FailedRowsOK ==
  ASSUME RowsOK(rows), NEW s \in Seqs
  PROVE  RowsOK(FailedRows(s))
<1>1. ASSUME NEW q \in Seq(ExposureStatus)
      PROVE  [i \in DOMAIN q |-> IF q[i] = "COMMITTED" THEN "COMMITTED" ELSE "FAILED"]
               \in Seq(ExposureStatus)
  BY DEF ExposureStatus
<1> QED
  BY <1>1 DEF RowsOK, FailedRows

-----------------------------------------------------------------------------
(* Which part of the state an action of a runner may change.                *)

\* The actions of a runner in the course of a sequence.
SequenceStep(r) ==
  \/ PrepareInstrument(r) \/ OpenTransaction(r) \/ CheckOrdinal(r) \/ Move(r)
  \/ AbortExposure(r) \/ Expose(r) \/ Register(r) \/ Adopt(r)
  \/ PostExposure(r) \/ Finish(r) \/ FailSequence(r)

LEMMA RunnerSplit ==
  ASSUME NEW r, RunnerStep(r)
  PROVE  PickSequence(r) \/ IdlePoll(r) \/ SequenceStep(r)
BY DEF RunnerStep, SequenceStep

\* A runner at work keeps its hands off the lease and is not idle.
LEMMA SequenceStepLease ==
  ASSUME NEW r, SequenceStep(r)
  PROVE  /\ UNCHANGED <<lease, live, held, faults>> /\ pc[r] # "idle"
         /\ \E label : pc' = [pc EXCEPT ![r] = label] \/ pc' = pc
<1> USE DEF leaseState, device, Goto, sequenceRow, exposureState, Interrupted, MarkAborted,
           MarkPaused, Raise
<1>1. CASE PrepareInstrument(r)
  BY <1>1 DEF PrepareInstrument
<1>2. CASE OpenTransaction(r)
  BY <1>2 DEF OpenTransaction
<1>3. CASE CheckOrdinal(r)
  BY <1>3 DEF CheckOrdinal, Advance
<1>4. CASE Move(r)
  BY <1>4 DEF Move
<1>5. CASE AbortExposure(r)
  BY <1>5 DEF AbortExposure
<1>6. CASE Expose(r)
  BY <1>6 DEF Expose
<1>7. CASE Register(r)
  BY <1>7 DEF Register, EndExposure
<1>8. CASE Adopt(r)
  BY <1>8 DEF Adopt, EndExposure
<1>9. CASE PostExposure(r)
  BY <1>9 DEF PostExposure, Advance
<1>10. CASE Finish(r)
  BY <1>10 DEF Finish
<1>11. CASE FailSequence(r)
  BY <1>11 DEF FailSequence
<1> QED
  BY <1>1, <1>2, <1>3, <1>4, <1>5, <1>6, <1>7, <1>8, <1>9, <1>10, <1>11 DEF SequenceStep

\* The device agent only ever sees commands of that runner.
LEMMA SequenceStepAgent ==
  ASSUME TypeOK, NEW r \in Runners, SequenceStep(r)
  PROVE  AgentAfter(agent, agent', r)
<1>0. AgentOK(agent) /\ held[r] \in 0 .. MaxToken
  BY DEF TypeOK, Lease!LeaseTypeOK, Lease!Token
<1>1. AgentAfter(agent, agent, r)
  BY <1>0 DEF AgentAfter
<1>2. \A key : AgentAfter(agent, Sent(agent, r, key), r)
  BY <1>0, SentOK
<1>3. CASE PrepareInstrument(r)
  <2>1. \E b, key : /\ b = agent \/ b = Sent(agent, r, key)
                    /\ agent' = b \/ \E key2 : agent' = Sent(b, r, key2)
    BY <1>3 DEF PrepareInstrument
  <2>2. PICK b, key : /\ b = agent \/ b = Sent(agent, r, key)
                      /\ agent' = b \/ \E key2 : agent' = Sent(b, r, key2)
    BY <2>1
  <2>3. AgentAfter(agent, b, r) /\ AgentOK(b)
    BY <1>1, <1>2, <2>2 DEF AgentAfter
  <2>4. AgentAfter(b, b, r) /\ \A key2 : AgentAfter(b, Sent(b, r, key2), r)
    BY <1>0, <2>3, SentOK DEF AgentAfter
  <2>5. AgentAfter(b, agent', r)
    BY <2>2, <2>4
  <2> QED
    BY <1>0, <2>3, <2>5, AfterTwo
<1>4. CASE Move(r)
  BY <1>1, <1>2, <1>4 DEF Move
<1>5. CASE AbortExposure(r)
  BY <1>2, <1>5 DEF AbortExposure
<1>6. CASE Expose(r)
  BY <1>2, <1>6 DEF Expose
<1>7. CASE FailSequence(r)
  BY <1>1, <1>2, <1>7 DEF FailSequence
<1>8. CASE OpenTransaction(r) \/ CheckOrdinal(r) \/ Register(r) \/ Adopt(r)
             \/ PostExposure(r) \/ Finish(r)
  BY <1>1, <1>8 DEF OpenTransaction, CheckOrdinal, Register, Adopt, PostExposure, Finish, device
<1> QED
  BY <1>3, <1>4, <1>5, <1>6, <1>7, <1>8 DEF SequenceStep
-----------------------------------------------------------------------------
(* The inductive invariant: types, and who works holds a fencing token.     *)

HoldsToken ==
  /\ lease.owner # NoRunner => lease.token # 0
  /\ \A r \in Runners : pc[r] # "idle" => held[r] # 0

PlaneInv == TypeOK /\ HoldsToken

LEMMA FreshAgentOK ==
  LET a == FreshAgent
      b == [a EXCEPT !.up = FALSE]
  IN  AgentOK(a) /\ a.token = 0 /\ AgentOK(b) /\ b.token = 0
<1>1. AgentOK(FreshAgent) /\ FreshAgent.token = 0
  BY LeaseAssumption DEF AgentOK, FreshAgent
<1> QED
  BY <1>1 DEF AgentOK

LEMMA PlaneInit ==
  ASSUME Init PROVE PlaneInv
<1> USE LeaseAssumption, SequenceAssumption
<1>1. Lease!LeaseTypeOK /\ AgentOK(agent) /\ faults \subseteq FaultKinds
  <2>1. AgentOK(FreshAgent) /\ FreshAgent.token = 0
    BY FreshAgentOK
  <2>2. /\ lease = [owner |-> NoRunner, token |-> 0] /\ live = FALSE
        /\ held = [r \in Runners |-> 0] /\ agent = FreshAgent /\ faults = {}
    BY DEF Init
  <2>3. 0 \in 0 .. MaxToken
    BY LeaseAssumption
  <2>4. Lease!LeaseTypeOK
    BY <2>1, <2>2, <2>3 DEF Lease!LeaseTypeOK, Lease!Token
  <2> QED
    BY <2>1, <2>2, <2>4
<1>2. DatabaseOK
  BY DEF Init, DatabaseOK, RowsOK, SequenceStatus, InstrumentState, NoScan
<1>3. RunnersOK
  BY DEF Init, RunnersOK, PC, View, NoView, Working
<1>4. HoldsToken
  BY DEF Init, HoldsToken
<1> QED
  BY <1>1, <1>2, <1>3, <1>4 DEF PlaneInv, TypeOK

\* Lease and agent after a step, and that the step is one of ControlLease.
DeviceOK ==
  /\ AgentOK(agent) /\ faults \subseteq FaultKinds
  /\ Lease!LeaseTypeOK /\ HoldsToken

LeaseStep == [Lease!LeaseNext]_(Lease!leaseVars)

LEMMA AcquireDevice ==
  ASSUME PlaneInv, NEW r \in Runners, Lease!AcquireOrRenew(r), UNCHANGED device,
         \E label : pc' = [pc EXCEPT ![r] = label] \/ pc' = pc
  PROVE  DeviceOK' /\ LeaseStep
<1>1. /\ Lease!LeaseTypeOK /\ AgentOK(agent) /\ faults \subseteq FaultKinds
      /\ HoldsToken /\ pc \in [Runners -> PC]
  BY DEF PlaneInv, TypeOK, RunnersOK
<1>2. Lease!GrantedToken(r) \in 1 .. MaxToken
  BY <1>1, LeaseAssumption
     DEF Lease!AcquireOrRenew, Lease!GrantedToken, HoldsToken, Lease!LeaseTypeOK, Lease!Token
<1>3. agent' = agent /\ faults' = faults
  BY DEF device
<1>4. Lease!LeaseTypeOK'
  BY <1>1, <1>2, <1>3 DEF Lease!LeaseTypeOK, Lease!AcquireOrRenew, Lease!Token
<1>5. HoldsToken'
  <2>1. lease'.token # 0 /\ held' = [held EXCEPT ![r] = Lease!GrantedToken(r)]
    BY <1>2 DEF Lease!AcquireOrRenew
  <2> QED
    BY <1>1, <1>2, <2>1 DEF HoldsToken, Lease!LeaseTypeOK
<1>6. Lease!Acquire(r)
  BY <1>3 DEF Lease!Acquire
<1> QED
  BY <1>1, <1>3, <1>4, <1>5, <1>6 DEF DeviceOK, LeaseStep, Lease!LeaseNext, AgentOK

LEMMA SequenceDevice ==
  ASSUME PlaneInv, NEW r \in Runners, SequenceStep(r)
  PROVE  DeviceOK' /\ LeaseStep
<1>1. /\ Lease!LeaseTypeOK /\ AgentOK(agent) /\ faults \subseteq FaultKinds
      /\ HoldsToken /\ pc \in [Runners -> PC]
  BY DEF PlaneInv, TypeOK, RunnersOK
<1>2. /\ lease' = lease /\ live' = live /\ held' = held /\ faults' = faults
      /\ pc[r] # "idle" /\ \E label : pc' = [pc EXCEPT ![r] = label] \/ pc' = pc
  BY SequenceStepLease
<1>3. AgentAfter(agent, agent', r)
  BY SequenceStepAgent DEF PlaneInv
<1>4. HoldsToken'
  BY <1>1, <1>2 DEF HoldsToken
<1>5. Lease!LeaseTypeOK'
  BY <1>1, <1>2, <1>3 DEF Lease!LeaseTypeOK, AgentAfter, AgentOK, Lease!Token
<1>6. ASSUME agent'.token = agent.token PROVE LeaseStep
  BY <1>2, <1>6 DEF LeaseStep, Lease!leaseVars
<1>7. ASSUME agent'.token = held[r], Lease!NotFenced(held[r], agent.token)
      PROVE  LeaseStep
  <2>1. Lease!Command(r)
    BY <1>1, <1>2, <1>7 DEF HoldsToken, Lease!Command
  <2> QED
    BY <2>1 DEF LeaseStep, Lease!LeaseNext
<1>8. AgentOK(agent') /\ LeaseStep
  BY <1>3, <1>6, <1>7 DEF AgentAfter
<1> QED
  BY <1>1, <1>2, <1>4, <1>5, <1>8 DEF DeviceOK, AgentOK

LEMMA EnvironmentDevice ==
  ASSUME PlaneInv, EnvironmentStep
  PROVE  DeviceOK' /\ LeaseStep
<1>0. /\ Lease!LeaseTypeOK /\ AgentOK(agent) /\ faults \subseteq FaultKinds
      /\ HoldsToken /\ pc \in [Runners -> PC]
  BY DEF PlaneInv, TypeOK, RunnersOK
<1> USE DEF leaseState, device, locals
<1>1. ASSUME NEW fault \in FaultKinds, InjectFault(fault) \/ ClearFault(fault)
      PROVE  DeviceOK' /\ LeaseStep
  <2>1. AgentOK(agent') /\ agent'.token = agent.token
    BY <1>0, <1>1 DEF InjectFault, ClearFault, AgentOK
  <2>2. UNCHANGED <<lease, live, held, pc>> /\ faults' \subseteq FaultKinds
    BY <1>0, <1>1 DEF InjectFault, ClearFault
  <2> QED
    BY <1>0, <2>1, <2>2
       DEF DeviceOK, LeaseStep, Lease!leaseVars, Lease!LeaseTypeOK, HoldsToken, AgentOK
<1>2. CASE AgentRestart
  <2>1. AgentOK(agent') /\ agent'.token = 0
    BY <1>2, FreshAgentOK DEF AgentRestart
  <2>2. UNCHANGED <<lease, live, held, pc>> /\ faults' = {}
    BY <1>2 DEF AgentRestart
  <2>3. Lease!AgentRestart
    BY <2>1, <2>2 DEF Lease!AgentRestart
  <2> QED
    BY <1>0, <2>1, <2>2, <2>3, LeaseAssumption
       DEF DeviceOK, LeaseStep, Lease!LeaseNext, Lease!LeaseTypeOK, Lease!Token, HoldsToken, AgentOK
<1>3. CASE LeaseExpire
  <2>1. Lease!Expire
    BY <1>3 DEF LeaseExpire, Lease!Expire
  <2> QED
    BY <1>0, <1>3, <2>1
       DEF LeaseExpire, DeviceOK, LeaseStep, Lease!LeaseNext, Lease!LeaseTypeOK, HoldsToken, AgentOK
<1>4. CASE ScanOpen \/ ScanCommit
  BY <1>0, <1>4 DEF ScanOpen, ScanCommit, DeviceOK, LeaseStep, Lease!leaseVars,
                    Lease!LeaseTypeOK, HoldsToken, AgentOK
<1>5. ASSUME NEW r \in Runners, Stop(r)
      PROVE  DeviceOK' /\ LeaseStep
  <2>1. Lease!Stop(r) /\ agent' = agent /\ faults' = faults /\ pc' = [pc EXCEPT ![r] = "idle"]
    BY <1>5 DEF Stop, Goto
  <2>2. Lease!LeaseTypeOK' /\ HoldsToken'
    BY <1>0, <2>1, LeaseAssumption DEF Lease!Stop, Lease!LeaseTypeOK, Lease!Token, HoldsToken
  <2> QED
    BY <1>0, <2>1, <2>2 DEF DeviceOK, LeaseStep, Lease!LeaseNext, AgentOK
<1> QED
  BY <1>1, <1>2, <1>3, <1>4, <1>5 DEF EnvironmentStep

LEMMA DeviceStep ==
  ASSUME PlaneInv, [Next]_vars
  PROVE  DeviceOK' /\ LeaseStep
<1>0. /\ Lease!LeaseTypeOK /\ AgentOK(agent) /\ faults \subseteq FaultKinds
      /\ HoldsToken
  BY DEF PlaneInv, TypeOK
<1> USE DEF leaseState, device, locals
<1>1. ASSUME NEW r \in Runners, RunnerStep(r)
      PROVE  DeviceOK' /\ LeaseStep
  <2>1. CASE PickSequence(r)
    <3>1. Lease!AcquireOrRenew(r) /\ pc' = [pc EXCEPT ![r] = "prepare"] /\ UNCHANGED device
      BY <2>1 DEF PickSequence, Goto
    <3> QED
      BY <3>1, AcquireDevice
  <2>2. CASE IdlePoll(r)
    <3>1. Lease!AcquireOrRenew(r) /\ pc' = pc /\ UNCHANGED device
      BY <2>2 DEF IdlePoll
    <3> QED
      BY <3>1, AcquireDevice
  <2> QED
    BY <1>1, <2>1, <2>2, RunnerSplit, SequenceDevice
<1>2. CASE OperatorStep
  <2>1. UNCHANGED <<lease, live, held, agent, faults, pc>>
    BY <1>2 DEF OperatorStep, Start, Pause, Resume, Abort, Recover, Untouched
  <2> QED
    BY <1>0, <2>1
       DEF DeviceOK, LeaseStep, Lease!leaseVars, Lease!LeaseTypeOK, HoldsToken, AgentOK
<1>3. CASE UNCHANGED vars
  BY <1>0, <1>3 DEF vars, DeviceOK, LeaseStep, Lease!leaseVars, Lease!LeaseTypeOK, HoldsToken, AgentOK
<1> QED
  BY <1>1, <1>2, <1>3, EnvironmentDevice DEF Next
-----------------------------------------------------------------------------
(* The database after a step.                                               *)

LEMMA MarkedDatabase ==
  ASSUME DatabaseOK, scan' = scan, NEW r, NEW label,
         NEW rows_, RowsOK(rows_), NEW keys_,
         MarkAborted(r, label, rows_, keys_) \/ MarkPaused(r, label) \/ Raise(r)
  PROVE  DatabaseOK'
<1>1. CASE Raise(r)
  BY <1>1 DEF Raise, DatabaseOK, RowsOK, sequenceRow, exposureState
<1>2. CASE MarkPaused(r, label)
  <2>1. CASE Raise(r)
    BY <1>1, <2>1
  <2>2. CASE ~Raise(r)
    <3>1. /\ instrument' \in {"STANDBY", instrument}
          /\ status' = [status EXCEPT ![job[r]] = "PAUSED"]
          /\ UNCHANGED <<attempt, completed, rows, l0>>
      BY <1>2, <2>2 DEF MarkPaused, SetStatus, exposureState
    <3> QED
      BY <3>1 DEF DatabaseOK, RowsOK, SequenceStatus, InstrumentState
  <2> QED
    BY <2>1, <2>2
<1>3. CASE MarkAborted(r, label, rows_, keys_)
  <2>1. CASE Raise(r)
    BY <1>1, <2>1
  <2>2. CASE ~Raise(r)
    <3>1. /\ instrument' = "STANDBY" /\ rows' = rows_
          /\ status' = [status EXCEPT ![job[r]] = "ABORTED"]
          /\ UNCHANGED <<attempt, completed, l0>>
      BY <1>3, <2>2 DEF MarkAborted, SetStatus
    <3> QED
      BY <3>1 DEF DatabaseOK, RowsOK, SequenceStatus, InstrumentState
  <2> QED
    BY <2>1, <2>2
<1> QED
  BY <1>1, <1>2, <1>3

LEMMA InterruptedDatabase ==
  ASSUME DatabaseOK, scan' = scan, NEW r, NEW label, Interrupted(r, label)
  PROVE  DatabaseOK'
<1>1. RowsOK(rows)
  BY DEF DatabaseOK
<1> QED
  BY <1>1, MarkedDatabase DEF Interrupted

LEMMA EndExposureDatabase ==
  ASSUME DatabaseOK, RunnersOK, scan' = scan, NEW r \in Runners,
         NEW rows_, RowsOK(rows_), NEW rawFiles_, EndExposure(r, rows_, rawFiles_)
  PROVE  DatabaseOK'
<1>1. CASE Raise(r)
  BY <1>1, MarkedDatabase
<1>2. CASE ~Raise(r)
  <2> DEFINE done == view[r].completed + 1
  <2>1. done \in Nat
    BY DEF RunnersOK, View
  <2>2. /\ rows' = rows_ /\ UNCHANGED <<status, attempt, l0>>
        /\ completed' = [completed EXCEPT ![job[r]] = done]
        /\ instrument' \in {"STANDBY", "READY"}
    BY <1>2 DEF EndExposure
  <2> HIDE DEF done
  <2> QED
    BY <2>1, <2>2 DEF DatabaseOK, RowsOK, InstrumentState
<1> QED
  BY <1>1, <1>2

LEMMA SequenceDatabase ==
  ASSUME PlaneInv, NEW r \in Runners, SequenceStep(r)
  PROVE  DatabaseOK'
<1>0. DatabaseOK /\ RunnersOK /\ RowsOK(rows) /\ job[r] \in Seqs
  BY SequenceStepLease DEF PlaneInv, TypeOK, DatabaseOK, RunnersOK
<1>1. scan' = scan
  BY DEF SequenceStep, PrepareInstrument, OpenTransaction, CheckOrdinal, Move, AbortExposure,
         Expose, Register, Adopt, PostExposure, Finish, FailSequence
<1>2. ASSUME UNCHANGED <<sequenceRow, exposureState, instrument>> PROVE DatabaseOK'
  BY <1>0, <1>1, <1>2 DEF DatabaseOK, RowsOK, sequenceRow, exposureState
<1>3. CASE PrepareInstrument(r)
  <2>1. instrument' \in {"READY", instrument} /\ UNCHANGED <<sequenceRow, exposureState>>
    BY <1>3 DEF PrepareInstrument
  <2> QED
    BY <1>0, <1>1, <2>1 DEF DatabaseOK, RowsOK, sequenceRow, exposureState, InstrumentState
<1>4. CASE OpenTransaction(r)
  BY <1>2, <1>4 DEF OpenTransaction
<1>5. CASE CheckOrdinal(r)
  BY <1>0, <1>1, <1>2, <1>5, InterruptedDatabase DEF CheckOrdinal
<1>6. CASE Move(r)
  <2>1. CASE Interrupted(r, "post") \/ Raise(r)
    BY <1>0, <1>1, <2>1, InterruptedDatabase, MarkedDatabase
  <2>2. CASE ~(Interrupted(r, "post") \/ Raise(r))
    <3>1. \E i : /\ rows' = SetRow(job[r], ordinal[r], i, "EXPOSING") /\ instrument' = "EXPOSING"
                 /\ UNCHANGED <<sequenceRow, l0>>
      BY <1>6, <2>2 DEF Move
    <3>2. RowsOK(rows')
      BY <1>0, <3>1, SetRowOK DEF ExposureStatus
    <3> QED
      BY <1>0, <1>1, <3>1, <3>2 DEF DatabaseOK, sequenceRow, InstrumentState
  <2> QED
    BY <2>1, <2>2
<1>7. CASE AbortExposure(r)
  <2>1. RowsOK(SetOwnRow(r, "FAILED"))
    BY <1>0, SetRowOK DEF SetOwnRow, ExposureStatus
  <2> QED
    BY <1>0, <1>1, <1>7, <2>1, MarkedDatabase DEF AbortExposure
<1>8. CASE Expose(r)
  <2>1. /\ l0' \subseteq l0 \cup {Exposure(r)} /\ Exposure(r)[1] = job[r]
        /\ UNCHANGED <<sequenceRow, rows, instrument>>
    BY <1>8 DEF Expose, Exposure
  <2> QED
    BY <1>0, <1>1, <2>1 DEF DatabaseOK, RowsOK, sequenceRow
<1>9. CASE Register(r)
  <2>1. RowsOK(SetOwnRow(r, "COMMITTED"))
    BY <1>0, SetRowOK DEF SetOwnRow, ExposureStatus
  <2> QED
    BY <1>0, <1>1, <1>9, <2>1, MarkedDatabase, EndExposureDatabase DEF Register
<1>10. CASE Adopt(r)
  <2>1. RowsOK(SetOwnRow(r, "READING"))
    BY <1>0, SetRowOK DEF SetOwnRow, ExposureStatus
  <2> QED
    BY <1>0, <1>1, <1>10, <2>1, EndExposureDatabase DEF Adopt
<1>11. CASE PostExposure(r)
  BY <1>0, <1>1, <1>2, <1>11, InterruptedDatabase DEF PostExposure
<1>12. CASE Finish(r)
  <2>1. CASE Interrupted(r, "idle") \/ Raise(r)
    BY <1>0, <1>1, <2>1, InterruptedDatabase, MarkedDatabase
  <2>2. CASE ~(Interrupted(r, "idle") \/ Raise(r))
    <3>1. /\ instrument' \in {"STANDBY", instrument} /\ UNCHANGED <<attempt, completed, rows, l0>>
          /\ status' = [status EXCEPT ![job[r]] = "SUCCEEDED"] \/ status' = status
      BY <1>12, <2>2 DEF Finish, SetStatus, sequenceRow, exposureState
    <3> QED
      BY <1>0, <1>1, <3>1 DEF DatabaseOK, RowsOK, SequenceStatus, InstrumentState
  <2> QED
    BY <2>1, <2>2
<1>13. CASE FailSequence(r)
  <2>1. /\ UNCHANGED <<attempt, completed, l0>>
        /\ \/ /\ status' = [status EXCEPT ![job[r]] = "FAILED"]
              /\ rows' = FailedRows(job[r]) /\ instrument' = "SAFE_FAULT"
           \/ UNCHANGED <<status, rows, instrument>>
    BY <1>13 DEF FailSequence, SetStatus
  <2>2. RowsOK(rows')
    BY <1>0, <2>1, FailedRowsOK
  <2> QED
    BY <1>0, <1>1, <2>1, <2>2 DEF DatabaseOK, SequenceStatus, InstrumentState
<1> QED
  BY <1>3, <1>4, <1>5, <1>6, <1>7, <1>8, <1>9, <1>10, <1>11, <1>12, <1>13 DEF SequenceStep

LEMMA DatabaseStep ==
  ASSUME PlaneInv, [Next]_vars
  PROVE  DatabaseOK'
<1>0. DatabaseOK /\ RowsOK(rows)
  BY DEF PlaneInv, TypeOK, DatabaseOK
<1> USE DEF sequenceRow, exposureState
<1>1. ASSUME UNCHANGED <<sequenceRow, exposureState, instrument, scan>> PROVE DatabaseOK'
  BY <1>0, <1>1 DEF DatabaseOK, RowsOK
<1>2. ASSUME NEW r \in Runners, RunnerStep(r) PROVE DatabaseOK'
  <2>1. CASE PickSequence(r)
    <3>1. /\ UNCHANGED <<attempt, completed, rows, l0, instrument, scan>>
          /\ \E s : status' = [status EXCEPT ![s] = "RUNNING"]
      BY <2>1 DEF PickSequence, SetStatus
    <3> QED
      BY <1>0, <3>1 DEF DatabaseOK, RowsOK, SequenceStatus
  <2>2. CASE IdlePoll(r)
    BY <1>1, <2>2 DEF IdlePoll
  <2> QED
    BY <1>2, <2>1, <2>2, RunnerSplit, SequenceDatabase
<1>3. CASE OperatorStep
  <2>1. ASSUME NEW s \in Seqs, Start(s) \/ Pause(s) \/ Abort(s) PROVE DatabaseOK'
    <3>1. /\ UNCHANGED <<attempt, completed, rows, l0, instrument, scan>>
          /\ \E x \in SequenceStatus : status' = [status EXCEPT ![s] = x]
      BY <2>1 DEF Start, Pause, Abort, SetStatus, Untouched, SequenceStatus
    <3> QED
      BY <1>0, <3>1 DEF DatabaseOK, RowsOK
  <2>2. ASSUME NEW s \in Seqs, Resume(s) PROVE DatabaseOK'
    <3>1. /\ UNCHANGED <<completed, rows, l0, instrument, scan>>
          /\ status' = [status EXCEPT ![s] = "QUEUED"]
          /\ \/ attempt' = attempt
             \/ attempt[s] < MaxAttempt /\ attempt' = [attempt EXCEPT ![s] = @ + 1]
      BY <2>2 DEF Resume, SetStatus, Untouched
    <3>2. attempt' \in [Seqs -> 1 .. MaxAttempt]
      BY <1>0, <3>1, SequenceAssumption DEF DatabaseOK
    <3> QED
      BY <1>0, <3>1, <3>2 DEF DatabaseOK, RowsOK, SequenceStatus
  <2>3. CASE Recover
    BY <1>0, <2>3 DEF Recover, Untouched, DatabaseOK, RowsOK, InstrumentState
  <2> QED
    BY <1>3, <2>1, <2>2, <2>3 DEF OperatorStep
<1>4. CASE EnvironmentStep
  <2>1. CASE ScanOpen
    <3>1. PICK id \in l0 : scan'.completed = completed[id[1]]
      BY <2>1 DEF ScanOpen
    <3>2. scan'.completed \in Nat
      BY <1>0, <3>1 DEF DatabaseOK
    <3> QED
      BY <1>0, <2>1, <3>2 DEF ScanOpen, DatabaseOK, RowsOK
  <2>2. CASE ScanCommit
    <3> DEFINE s == scan.id[1]
    <3>1. /\ UNCHANGED <<status, attempt, l0, instrument>> /\ scan' = NoScan
          /\ rows' = rows \/ rows' = SetRow(s, scan.id[2], scan.id[3], "COMMITTED")
          /\ \/ completed' = completed
             \/ completed' = [completed EXCEPT ![s] = IF scan.completed < Expected[s]
                                                      THEN scan.completed + 1 ELSE Expected[s]]
      BY <2>2 DEF ScanCommit
    <3>2. RowsOK(rows')
      BY <1>0, <3>1, SetRowOK DEF ExposureStatus
    <3>3. completed' \in [Seqs -> Nat]
      BY <1>0, <3>1, SequenceAssumption DEF DatabaseOK
    <3> QED
      BY <1>0, <3>1, <3>2, <3>3 DEF DatabaseOK, NoScan
  <2>3. CASE UNCHANGED <<sequenceRow, exposureState, instrument, scan>>
    BY <1>1, <2>3
  <2> QED
    BY <1>4, <2>1, <2>2, <2>3 DEF EnvironmentStep, InjectFault, ClearFault, AgentRestart,
                                  LeaseExpire, Stop
<1>5. CASE UNCHANGED vars
  BY <1>1, <1>5 DEF vars
<1> QED
  BY <1>2, <1>3, <1>4, <1>5 DEF Next
-----------------------------------------------------------------------------
(* The runners' locals after a step.                                        *)

\* One runner moves on to a control point at which its job and ordinal make sense.
MovesOn(r, label) ==
  /\ label \in PC /\ pc' = [pc EXCEPT ![r] = label]
  /\ job' = job \/ \E s \in {0} \cup Seqs : job' = [job EXCEPT ![r] = s]
  /\ ordinal' = ordinal \/ \E o \in Nat : ordinal' = [ordinal EXCEPT ![r] = o]
  /\ row' = row \/ \E i \in Nat : row' = [row EXCEPT ![r] = i]
  /\ view' = view \/ view' = [view EXCEPT ![r] = NoView]
  /\ label # "idle" => job'[r] \in Seqs
  /\ label \in Working => ordinal'[r] \in Ordinals(job'[r])

LEMMA MovesOnOK ==
  ASSUME RunnersOK, NEW r \in Runners, NEW label, MovesOn(r, label)
  PROVE  RunnersOK'
<1>1. NoView \in View
  BY SequenceAssumption DEF NoView, View
<1>2. /\ pc' \in [Runners -> PC] /\ job' \in [Runners -> {0} \cup Seqs]
      /\ ordinal' \in [Runners -> Nat] /\ row' \in [Runners -> Nat]
      /\ view' \in [Runners -> View]
  BY <1>1 DEF RunnersOK, MovesOn
<1>3. ASSUME NEW q \in Runners
      PROVE  /\ pc'[q] # "idle" => job'[q] \in Seqs
             /\ pc'[q] \in Working => ordinal'[q] \in Ordinals(job'[q])
  <2>1. CASE q = r
    BY <2>1 DEF RunnersOK, MovesOn
  <2>2. CASE q # r
    <3>1. pc'[q] = pc[q] /\ job'[q] = job[q] /\ ordinal'[q] = ordinal[q]
      BY <2>2 DEF RunnersOK, MovesOn
    <3> QED
      BY <3>1 DEF RunnersOK
  <2> QED
    BY <2>1, <2>2
<1>4. Working' = Working /\ PC' = PC /\ View' = View
  BY DEF Working, PC, View
<1> QED
  BY <1>2, <1>3 DEF RunnersOK, View

\* A runner leaves the loop over ordinals, or stays where its ordinal is in range.
LEMMA KeepsProgress ==
  ASSUME RunnersOK, NEW r \in Runners, job[r] \in Seqs, NEW label \in PC,
         pc[r] \in Working \/ label \notin Working,
         pc' = [pc EXCEPT ![r] = label], KeepProgress, CloseView(r) \/ view' = view
  PROVE  RunnersOK'
<1>1. label \in Working => ordinal[r] \in Ordinals(job[r])
  BY DEF RunnersOK
<1>2. MovesOn(r, label)
  BY <1>1 DEF MovesOn, KeepProgress, CloseView, RunnersOK
<1> QED
  BY <1>2, MovesOnOK

LEMMA AdvanceOK ==
  ASSUME RunnersOK, NEW r \in Runners, job[r] \in Seqs, pc[r] \in Working,
         Advance(r), CloseView(r), UNCHANGED <<job, row>>
  PROVE  RunnersOK'
<1>1. ordinal[r] \in Ordinals(job[r]) /\ Expected[job[r]] \in Nat
  BY SequenceAssumption DEF RunnersOK
<1>2. CASE ordinal[r] = Expected[job[r]]
  <2>1. KeepProgress /\ pc' = [pc EXCEPT ![r] = "final"]
    BY <1>2 DEF Advance, Goto, KeepProgress
  <2> QED
    BY <2>1, KeepsProgress DEF PC
<1>3. CASE ordinal[r] # Expected[job[r]]
  <2>1. ordinal[r] + 1 \in Ordinals(job[r])
    BY <1>1, <1>3 DEF Ordinals
  <2>2. ordinal' = [ordinal EXCEPT ![r] = ordinal[r] + 1] /\ pc' = [pc EXCEPT ![r] = "check"]
    BY <1>3 DEF Advance, Goto
  <2>3. \E o \in Nat : ordinal' = [ordinal EXCEPT ![r] = o]
    <3>1. ordinal[r] + 1 \in Nat
      BY <1>1 DEF Ordinals
    <3> QED
      BY <2>2, <3>1
  <2>4. ordinal'[r] = ordinal[r] + 1
    BY <2>2 DEF RunnersOK
  <2>5. MovesOn(r, "check")
    BY <2>1, <2>2, <2>3, <2>4 DEF MovesOn, CloseView, PC
  <2> QED
    BY <2>5, MovesOnOK
<1> QED
  BY <1>2, <1>3

LEMMA InterruptedGoes ==
  ASSUME NEW r, NEW label, Interrupted(r, label)
  PROVE  pc' = [pc EXCEPT ![r] = label] \/ pc' = [pc EXCEPT ![r] = "fail"]
BY DEF Interrupted, MarkAborted, MarkPaused, Raise, Goto

LEMMA NextRowOK ==
  ASSUME RowsOK(rows), NEW s \in Seqs, NEW o \in Ordinals(s), NEW i \in NextRow(s, o)
  PROVE  i \in Nat
<1>1. Len(rows[s][o]) \in Nat
  BY DEF RowsOK
<1> QED
  BY <1>1 DEF NextRow, OpenRows

LEMMA SequenceRunners ==
  ASSUME PlaneInv, NEW r \in Runners, SequenceStep(r)
  PROVE  RunnersOK'
<1>0. DatabaseOK /\ RunnersOK /\ RowsOK(rows) /\ job[r] \in Seqs
  BY SequenceStepLease DEF PlaneInv, TypeOK, DatabaseOK, RunnersOK
<1> USE DEF Goto, Raise
<1>1. CASE PrepareInstrument(r)
  <2>1. \/ KeepProgress /\ view' = view /\ pc' = [pc EXCEPT ![r] = "fail"]
        \/ /\ pc' = [pc EXCEPT ![r] = "check"] /\ UNCHANGED <<job, row, view>>
           /\ ordinal' = [ordinal EXCEPT ![r] = 1]
    BY <1>1 DEF PrepareInstrument, KeepProgress
  <2>2. CASE KeepProgress /\ view' = view /\ pc' = [pc EXCEPT ![r] = "fail"]
    BY <1>0, <2>2, KeepsProgress DEF PC, Working
  <2>3. CASE /\ pc' = [pc EXCEPT ![r] = "check"] /\ UNCHANGED <<job, row, view>>
             /\ ordinal' = [ordinal EXCEPT ![r] = 1]
    <3>1. 1 \in Ordinals(job[r])
      BY <1>0, SequenceAssumption DEF Ordinals
    <3>2. ordinal'[r] = 1 /\ job'[r] = job[r]
      BY <1>0, <2>3 DEF RunnersOK
    <3>3. \E o \in Nat : ordinal' = [ordinal EXCEPT ![r] = o]
      BY <2>3
    <3>4. MovesOn(r, "check")
      BY <1>0, <2>3, <3>1, <3>2, <3>3 DEF MovesOn, PC
    <3> QED
      BY <1>0, <3>4, MovesOnOK
  <2> QED
    BY <2>1, <2>2, <2>3
<1>2. CASE OpenTransaction(r)
  <2> DEFINE seen == [status |-> status[job[r]], completed |-> completed[job[r]],
                      attempt |-> attempt[job[r]]]
  <2>1. seen \in View
    BY <1>0, SequenceAssumption DEF View, DatabaseOK
  <2>2. view' = [view EXCEPT ![r] = seen] /\ UNCHANGED <<pc, job, ordinal, row>>
    BY <1>2 DEF OpenTransaction
  <2> HIDE DEF seen
  <2>3. view' \in [Runners -> View]
    BY <1>0, <2>1, <2>2 DEF RunnersOK
  <2> QED
    BY <1>0, <2>2, <2>3 DEF RunnersOK, View
<1>3. CASE CheckOrdinal(r)
  <2>1. pc[r] \in Working /\ CloseView(r)
    BY <1>3 DEF CheckOrdinal, Working, PC
  <2>2. CASE Advance(r) /\ UNCHANGED <<job, row>>
    BY <1>0, <2>1, <2>2, AdvanceOK
  <2>3. CASE \E label \in PC : pc' = [pc EXCEPT ![r] = label] /\ KeepProgress
    BY <1>0, <2>1, <2>3, KeepsProgress
  <2> QED
    BY <1>3, <2>2, <2>3, InterruptedGoes DEF CheckOrdinal, PC
<1>4. CASE Move(r)
  <2>1. pc[r] \in Working /\ CloseView(r)
    BY <1>4 DEF Move, Working, PC
  <2>2. ordinal[r] \in Ordinals(job[r])
    BY <1>0, <2>1 DEF RunnersOK
  <2>3. CASE \E label \in PC : pc' = [pc EXCEPT ![r] = label] /\ KeepProgress
    BY <1>0, <2>1, <2>3, KeepsProgress
  <2>4. CASE /\ \E i \in NextRow(job[r], ordinal[r]) : row' = [row EXCEPT ![r] = i]
             /\ pc' = [pc EXCEPT ![r] = "expose"] /\ UNCHANGED <<job, ordinal>>
    <3>1. \E i \in Nat : row' = [row EXCEPT ![r] = i]
      BY <1>0, <2>2, <2>4, NextRowOK
    <3>2. MovesOn(r, "expose")
      BY <1>0, <2>1, <2>2, <2>4, <3>1 DEF MovesOn, CloseView, PC
    <3> QED
      BY <1>0, <3>2, MovesOnOK
  <2> QED
    BY <1>4, <2>3, <2>4, InterruptedGoes DEF Move, PC
<1>5. CASE AbortExposure(r)
  <2>1. /\ pc[r] \in Working /\ CloseView(r) /\ KeepProgress
        /\ \E label \in PC : pc' = [pc EXCEPT ![r] = label]
    BY <1>5 DEF AbortExposure, MarkAborted, Working, PC
  <2> QED
    BY <1>0, <2>1, KeepsProgress
<1>6. CASE Expose(r)
  <2>1. /\ pc[r] \in Working /\ (CloseView(r) \/ view' = view) /\ KeepProgress
        /\ \E label \in PC : pc' = [pc EXCEPT ![r] = label]
    BY <1>6 DEF Expose, Working, PC
  <2> QED
    BY <1>0, <2>1, KeepsProgress
<1>7. CASE Register(r) \/ Adopt(r)
  <2>1. /\ pc[r] \in Working /\ CloseView(r) /\ KeepProgress
        /\ \E label \in PC : pc' = [pc EXCEPT ![r] = label]
    BY <1>7 DEF Register, Adopt, EndExposure, Working, PC
  <2> QED
    BY <1>0, <2>1, KeepsProgress
<1>8. CASE PostExposure(r)
  <2>1. pc[r] \in Working /\ CloseView(r)
    BY <1>8 DEF PostExposure, Working, PC
  <2>2. CASE Advance(r) /\ UNCHANGED <<job, row>>
    BY <1>0, <2>1, <2>2, AdvanceOK
  <2>3. CASE \E label \in PC : pc' = [pc EXCEPT ![r] = label] /\ KeepProgress
    BY <1>0, <2>1, <2>3, KeepsProgress
  <2> QED
    BY <1>8, <2>2, <2>3, InterruptedGoes DEF PostExposure, PC
<1>9. CASE Finish(r)
  <2>1. /\ pc[r] \in Working /\ CloseView(r) /\ KeepProgress
        /\ \E label \in PC : pc' = [pc EXCEPT ![r] = label]
    BY <1>9, InterruptedGoes DEF Finish, Working, PC
  <2> QED
    BY <1>0, <2>1, KeepsProgress
<1>10. CASE FailSequence(r)
  <2>1. KeepProgress /\ view' = view /\ pc' = [pc EXCEPT ![r] = "idle"]
    BY <1>10 DEF FailSequence, KeepProgress
  <2> QED
    BY <1>0, <2>1, KeepsProgress DEF PC, Working
<1> QED
  BY <1>1, <1>2, <1>3, <1>4, <1>5, <1>6, <1>7, <1>8, <1>9, <1>10 DEF SequenceStep

LEMMA RunnersStep ==
  ASSUME PlaneInv, [Next]_vars
  PROVE  RunnersOK'
<1>0. RunnersOK
  BY DEF PlaneInv, TypeOK
<1>1. ASSUME UNCHANGED locals PROVE RunnersOK'
  BY <1>0, <1>1 DEF RunnersOK, locals, View
<1>2. ASSUME NEW r \in Runners, RunnerStep(r) PROVE RunnersOK'
  <2>1. CASE PickSequence(r)
    <3>1. /\ pc' = [pc EXCEPT ![r] = "prepare"] /\ UNCHANGED <<ordinal, row, view>>
          /\ \E s \in Seqs : job' = [job EXCEPT ![r] = s]
      BY <2>1 DEF PickSequence, Goto, Pickable
    <3>2. MovesOn(r, "prepare")
      BY <1>0, <3>1 DEF MovesOn, RunnersOK, PC, Working
    <3> QED
      BY <1>0, <3>2, MovesOnOK
  <2>2. CASE IdlePoll(r)
    BY <1>1, <2>2 DEF IdlePoll
  <2> QED
    BY <1>2, <2>1, <2>2, RunnerSplit, SequenceRunners
<1>3. ASSUME NEW r \in Runners, Stop(r) PROVE RunnersOK'
  <2>1. MovesOn(r, "idle")
    BY <1>0, <1>3 DEF Stop, Goto, CloseView, MovesOn, PC, Working
  <2> QED
    BY <1>0, <2>1, MovesOnOK
<1>4. CASE OperatorStep
  BY <1>1, <1>4 DEF OperatorStep, Start, Pause, Resume, Abort, Recover, Untouched
<1>5. CASE EnvironmentStep
  BY <1>1, <1>3, <1>5 DEF EnvironmentStep, InjectFault, ClearFault, AgentRestart, LeaseExpire,
                          ScanOpen, ScanCommit
<1>6. CASE UNCHANGED vars
  BY <1>1, <1>6 DEF vars
<1> QED
  BY <1>2, <1>4, <1>5, <1>6 DEF Next

-----------------------------------------------------------------------------
(* The types of the control plane and that whoever works holds a fencing    *)
(* token are invariant, for any number of runners and sequences.            *)
THEOREM PlaneInvariant == Spec => []PlaneInv
<1>1. Init => PlaneInv
  BY PlaneInit
<1>2. PlaneInv /\ [Next]_vars => PlaneInv'
  <2>1. SUFFICES ASSUME PlaneInv, [Next]_vars PROVE PlaneInv'
    OBVIOUS
  <2> QED
    BY <2>1, DeviceStep, DatabaseStep, RunnersStep DEF PlaneInv, TypeOK, DeviceOK
<1> QED
  BY <1>1, <1>2, PTL DEF Spec

(* The type invariant: among others, no runner ever works outside its       *)
(* sequence or its ordinals, and no attempt passes its bound.               *)
THEOREM PlaneTypeCorrect == Spec => []TypeOK
<1>1. PlaneInv => TypeOK
  BY DEF PlaneInv
<1> QED
  BY <1>1, PlaneInvariant, PTL

(* The control plane uses lease and fencing token as ControlLease says: no  *)
(* command of a runner changes the agent's last token but to a token the    *)
(* runner was granted and that is not lower.  What ControlLeaseProofs proves*)
(* of ControlLease holds of the control plane therefore.                    *)
THEOREM PlaneKeepsLease == Spec => KeepsLease
<1>1. Init => Lease!LeaseInit
  BY DEF Init, FreshAgent, Lease!LeaseInit
<1>2. PlaneInv /\ [Next]_vars => [Lease!LeaseNext]_(Lease!leaseVars)
  BY DeviceStep DEF LeaseStep
<1> QED
  BY <1>1, <1>2, PlaneInvariant, PTL DEF Spec, KeepsLease, Lease!LeaseSpec
=============================================================================
