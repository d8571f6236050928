------------------------- MODULE ControlSafetyProofs -------------------------
(***************************************************************************)
(* Proofs about what the control plane does with sequences, exposures and  *)
(* files, for any number of sequences and runners, any faults and          *)
(* disturbances, as long as the lease does its duty: a runner does not lose*)
(* it to another while it works.                                           *)
(***************************************************************************)
EXTENDS ControlPlaneProofs, FiniteSetTheorems

(* There is one control process, or the lease of a process that works does  *)
(* not run out.                                                             *)
LeaseHolds ==
  "expire" \notin Disturbances \/ \A r, q \in Runners : r = q

-----------------------------------------------------------------------------
(* One runner works at a time.                                              *)

OneWorker ==
  /\ \A r, q \in Runners : pc[r] # "idle" /\ pc[q] # "idle" => r = q
  /\ "expire" \notin Disturbances =>
       /\ lease.owner # NoRunner => live
       /\ \A r \in Runners : pc[r] # "idle" => lease.owner = r

LEMMA OneWorkerInit ==
  ASSUME Init PROVE OneWorker
BY DEF Init, OneWorker

LEMMA OneWorkerStep ==
  ASSUME LeaseHolds, PlaneInv, OneWorker, [Next]_vars
  PROVE  OneWorker'
<1>0. /\ pc \in [Runners -> PC] /\ lease \in [owner : Runners \cup {NoRunner}, token : Lease!Token]
      /\ NoRunner \notin Runners
  BY LeaseAssumption DEF PlaneInv, TypeOK, RunnersOK, Lease!LeaseTypeOK
<1>1. ASSUME NEW r \in Runners, Lease!AcquireOrRenew(r), pc[r] = "idle",
             \E label : pc' = [pc EXCEPT ![r] = label] \/ pc' = pc
      PROVE  OneWorker'
  <2>1. /\ lease'.owner = r /\ live' = TRUE
        /\ \A q \in Runners \ {r} : pc'[q] = pc[q]
        /\ lease.owner \in {r, NoRunner} \/ ~live
    BY <1>0, <1>1 DEF Lease!AcquireOrRenew, Lease!MayTake
  <2>2. CASE "expire" \notin Disturbances
    <3>1. \A q \in Runners \ {r} : pc'[q] = "idle"
      BY <1>0, <2>1, <2>2 DEF OneWorker
    <3> QED
      BY <2>1, <3>1 DEF OneWorker
  <2>3. CASE "expire" \in Disturbances
    BY <2>3 DEF LeaseHolds, OneWorker
  <2> QED
    BY <2>2, <2>3
<1>2. ASSUME UNCHANGED <<lease, live>>, \A q \in Runners : pc'[q] = pc[q] \/ pc[q] # "idle" \/ pc'[q] = "idle"
      PROVE  OneWorker'
  BY <1>2 DEF OneWorker
<1>3. ASSUME NEW r \in Runners, RunnerStep(r) PROVE OneWorker'
  <2>1. CASE PickSequence(r)
    <3>1. pc[r] = "idle" /\ Lease!AcquireOrRenew(r) /\ pc' = [pc EXCEPT ![r] = "prepare"]
      BY <2>1 DEF PickSequence, Goto
    <3> QED
      BY <1>1, <3>1
  <2>2. CASE IdlePoll(r)
    <3>1. pc[r] = "idle" /\ Lease!AcquireOrRenew(r) /\ pc' = pc
      BY <2>2 DEF IdlePoll, locals
    <3> QED
      BY <1>1, <3>1
  <2>3. CASE SequenceStep(r)
    <3>1. /\ UNCHANGED <<lease, live>> /\ pc[r] # "idle"
          /\ \E label : pc' = [pc EXCEPT ![r] = label] \/ pc' = pc
      BY <2>3, SequenceStepLease
    <3>2. \A q \in Runners : pc'[q] = pc[q] \/ pc[q] # "idle"
      BY <1>0, <3>1
    <3> QED
      BY <1>2, <3>1, <3>2
  <2> QED
    BY <1>3, <2>1, <2>2, <2>3, RunnerSplit
<1>4. CASE OperatorStep
  <2>1. UNCHANGED <<lease, live, pc>>
    BY <1>4 DEF OperatorStep, Start, Pause, Resume, Abort, Recover, Untouched, leaseState, locals
  <2> QED
    BY <1>2, <2>1
<1>5. CASE EnvironmentStep
  <2>1. CASE LeaseExpire
    BY <2>1 DEF LeaseExpire, LeaseHolds, OneWorker, locals
  <2>2. ASSUME NEW r \in Runners, Stop(r) PROVE OneWorker'
    <3>1. UNCHANGED <<lease, live>> /\ pc' = [pc EXCEPT ![r] = "idle"]
      BY <2>2 DEF Stop, Goto, Lease!Stop
    <3> QED
      BY <1>0, <1>2, <3>1
  <2>3. CASE UNCHANGED <<lease, live, pc>>
    BY <1>2, <2>3
  <2> QED
    BY <1>5, <2>1, <2>2, <2>3
       DEF EnvironmentStep, InjectFault, ClearFault, AgentRestart, ScanOpen, ScanCommit,
           leaseState, locals
<1>6. CASE UNCHANGED vars
  BY <1>2, <1>6 DEF vars, leaseState, locals
<1> QED
  BY <1>3, <1>4, <1>5, <1>6 DEF Next
-----------------------------------------------------------------------------
(* Exposure rows, files and their registration.                             *)

\* An exposure there is a row of.
Known(id) ==
  /\ id = <<id[1], id[2], id[3]>>
  /\ id[1] \in Seqs /\ id[2] \in Ordinals(id[1]) /\ id[3] \in DOMAIN rows[id[1]][id[2]]

FilesOK ==
  /\ rawFiles \subseteq l0
  /\ \A id \in l0 : Known(id)
  /\ \A s \in Seqs : \A o \in Ordinals(s) : \A i \in DOMAIN rows[s][o] :
       rows[s][o][i] = "COMMITTED" => <<s, o, i>> \in rawFiles
  /\ scan # NoScan => scan.id \in l0

\* Rows, files and registrations are never taken away.
Grows ==
  /\ rawFiles \subseteq rawFiles' /\ l0 \subseteq l0'
  /\ \A s \in Seqs : \A o \in Ordinals(s) : DOMAIN rows[s][o] \subseteq DOMAIN rows'[s][o]

LEMMA FrameStays ==
  ASSUME Grows, NEW s \in Seqs, NEW o \in Ordinals(s), HasFrame(s, o)
  PROVE  HasFrame(s, o)'
BY DEF Grows, HasFrame

LEMMA CommittedHasFrame ==
  ASSUME FilesOK, NEW s \in Seqs, NEW o \in Ordinals(s), Committed(s, o)
  PROVE  HasFrame(s, o)
BY DEF FilesOK, Committed, HasFrame

\* What SetRow does to the rows: it writes one and leaves the others.
LEMMA SetRowWrites ==
  ASSUME RowsOK(rows), NEW s \in Seqs, NEW o \in Ordinals(s),
         NEW i \in 1 .. Len(rows[s][o]) + 1, NEW value
  PROVE  LET new == SetRow(s, o, i, value)
         IN  /\ \A t \in Seqs : \A p \in Ordinals(t) :
                  t # s \/ p # o => new[t][p] = rows[t][p]
             /\ DOMAIN new[s][o] = DOMAIN rows[s][o] \cup {i}
             /\ new[s][o][i] = value
             /\ \A j \in DOMAIN rows[s][o] : j # i => new[s][o][j] = rows[s][o][j]
<1> DEFINE old == rows[s][o]
           put == IF i > Len(old) THEN Append(old, value) ELSE [old EXCEPT ![i] = value]
           new == SetRow(s, o, i, value)
<1>1. old \in Seq(ExposureStatus) /\ rows[s] \in [Ordinals(s) -> Seq(ExposureStatus)]
  BY DEF RowsOK
<1>2. DOMAIN rows = Seqs /\ DOMAIN rows[s] = Ordinals(s) /\ DOMAIN old = 1 .. Len(old)
  BY <1>1 DEF RowsOK
<1>3. new = [rows EXCEPT ![s] = [rows[s] EXCEPT ![o] = put]]
  BY DEF SetRow
<1>4. /\ DOMAIN put = DOMAIN old \cup {i} /\ put[i] = value
      /\ \A j \in DOMAIN old : j # i => put[j] = old[j]
  <2> HIDE DEF old
  <2>1. CASE i > Len(old)
    <3>1. i = Len(old) + 1 /\ put = Append(old, value)
      BY <1>1, <2>1 DEF old
    <3> HIDE DEF put
    <3>2. /\ DOMAIN Append(old, value) = 1 .. Len(old) + 1
          /\ \A j \in 1 .. Len(old) : Append(old, value)[j] = old[j]
          /\ Append(old, value)[Len(old) + 1] = value
      BY <1>1
    <3> QED
      BY <1>1, <1>2, <3>1, <3>2
  <2>2. CASE ~(i > Len(old))
    <3>1. i \in 1 .. Len(old) /\ put = [old EXCEPT ![i] = value]
      BY <1>1, <2>2 DEF old
    <3> HIDE DEF put
    <3> QED
      BY <1>1, <1>2, <3>1
  <2> QED
    BY <2>1, <2>2
<1> HIDE DEF put, old, new
<1>5. new[s][o] = put
  BY <1>2, <1>3
<1>6. \A t \in Seqs : \A p \in Ordinals(t) : t # s \/ p # o => new[t][p] = rows[t][p]
  BY <1>2, <1>3
<1> QED
  BY <1>4, <1>5, <1>6 DEF old, new

LEMMA FilesKept ==
  ASSUME FilesOK, UNCHANGED <<rows, rawFiles>>, l0' = l0, scan' \in {scan, NoScan}
  PROVE  FilesOK' /\ Grows
BY DEF FilesOK, Grows, Known

\* A row is written: as COMMITTED only with its registration.
LEMMA FilesWritten ==
  ASSUME FilesOK, RowsOK(rows), NEW s \in Seqs, NEW o \in Ordinals(s),
         NEW i \in 1 .. Len(rows[s][o]) + 1, NEW value,
         rows' = SetRow(s, o, i, value), l0' = l0, scan' \in {scan, NoScan},
         rawFiles' = rawFiles \/ (rawFiles' = rawFiles \cup {<<s, o, i>>} /\ <<s, o, i>> \in l0),
         value = "COMMITTED" => <<s, o, i>> \in rawFiles'
  PROVE  FilesOK' /\ Grows
<1> DEFINE new == SetRow(s, o, i, value)
<1>1. /\ \A t \in Seqs : \A p \in Ordinals(t) : t # s \/ p # o => new[t][p] = rows[t][p]
      /\ DOMAIN new[s][o] = DOMAIN rows[s][o] \cup {i}
      /\ new[s][o][i] = value
      /\ \A j \in DOMAIN rows[s][o] : j # i => new[s][o][j] = rows[s][o][j]
  BY SetRowWrites
<1>2. rows' = new
  OBVIOUS
<1> HIDE DEF new
<1>3. \A t \in Seqs : \A p \in Ordinals(t) : DOMAIN rows[t][p] \subseteq DOMAIN rows'[t][p]
  BY <1>1, <1>2
<1>4. rawFiles \subseteq rawFiles' /\ rawFiles' \subseteq l0'
  BY DEF FilesOK
<1>5. \A id \in l0' : Known(id)'
  BY <1>3 DEF FilesOK, Known
<1>6. ASSUME NEW t \in Seqs, NEW p \in Ordinals(t), NEW j \in DOMAIN rows'[t][p],
             rows'[t][p][j] = "COMMITTED"
      PROVE  <<t, p, j>> \in rawFiles'
  <2>1. CASE t = s /\ p = o /\ j = i
    BY <1>1, <1>2, <1>6, <2>1
  <2>2. CASE ~(t = s /\ p = o /\ j = i)
    <3>1. j \in DOMAIN rows[t][p] /\ rows[t][p][j] = "COMMITTED"
      BY <1>1, <1>2, <1>6, <2>2
    <3> QED
      BY <1>4, <3>1 DEF FilesOK
  <2> QED
    BY <2>1, <2>2
<1> QED
  BY <1>3, <1>4, <1>5, <1>6 DEF FilesOK, Grows

LEMMA FilesFailed ==
  ASSUME FilesOK, RowsOK(rows), NEW s \in Seqs, rows' = FailedRows(s),
         UNCHANGED <<rawFiles, l0, scan>>
  PROVE  FilesOK' /\ Grows
<1>1. \A t \in Seqs : \A o \in Ordinals(t) :
        /\ DOMAIN rows'[t][o] = DOMAIN rows[t][o]
        /\ \A i \in DOMAIN rows[t][o] :
             rows'[t][o][i] = "COMMITTED" <=> rows[t][o][i] = "COMMITTED"
  BY DEF FailedRows, RowsOK
<1> QED
  BY <1>1 DEF FilesOK, Grows, Known
-----------------------------------------------------------------------------
(* What holds of a runner at work and of its sequence.                      *)

\* Where a sequence may stand while a runner takes exposures of it, and where
\* that runner has just left it.
Live == {"QUEUED", "RUNNING", "PAUSING", "ABORTING"}
Left == {"PAUSED", "ABORTED"}

\* What requests make of a sequence since its transaction saw it.
Follows(seen, now) ==
  /\ seen \in Live => now \in Live
  /\ seen = "RUNNING" => now \in {"RUNNING", "PAUSING", "ABORTING"}
  /\ seen \in {"PAUSING", "ABORTING"} => now \in {"PAUSING", "ABORTING"}

\* How far the loop over ordinals has come.
Reached(r) == IF pc[r] \in {"post", "final"} THEN ordinal[r] ELSE ordinal[r] - 1

\* The status and the locals of the transaction a runner is in.
ViewOK(r) ==
  /\ pc[r] \in {"idle", "prepare", "fail"} => view[r] = NoView
  /\ pc[r] \notin {"idle", "post"} => status[job[r]] \in Live
  /\ pc[r] = "post" => status[job[r]] \in Live \cup Left
  /\ view[r] # NoView => /\ view[r].status \in Live \cup Left
                         /\ Follows(view[r].status, status[job[r]])

\* The instrument and the row of the exposure being taken.
ExposureOK(r) ==
  /\ pc[r] \in {"expose", "register", "adopted"} =>
       instrument = "EXPOSING" /\ row[r] \in DOMAIN rows[job[r]][ordinal[r]]
  /\ pc[r] = "register" => Exposure(r) \in l0
  /\ pc[r] = "adopted" => Exposure(r) \in rawFiles

\* As long as the sequence is or was just seen RUNNING, no ordinal was left out.
ProgressOK(r) ==
  /\ pc[r] = "final" => ordinal[r] = Expected[job[r]]
  /\ pc[r] \in Working /\ (status[job[r]] = "RUNNING" \/ view[r].status = "RUNNING") =>
       \A o \in 1 .. Reached(r) : HasFrame(job[r], o)

WorkerOK(r) == ViewOK(r) /\ ExposureOK(r) /\ ProgressOK(r)

\* What a step of a runner in its sequence preserves and may do.
StepOK(r) ==
  /\ FilesOK' /\ Grows /\ WorkerOK(r)'
  /\ \/ status' = status
     \/ /\ status[job[r]] \in Live
        /\ \E x \in Settled :
             /\ status' = [status EXCEPT ![job[r]] = x]
             /\ x = "SUCCEEDED" => \A o \in Ordinals(job[r]) : HasFrame(job[r], o)
  /\ instrument = "SAFE_FAULT" => instrument' = "SAFE_FAULT"

\* Of a runner that is back in its loop little is asked.
LEMMA BackToIdle ==
  ASSUME NEW r, pc'[r] = "idle", view'[r] = NoView
  PROVE  WorkerOK(r)'
BY DEF WorkerOK, ViewOK, ExposureOK, ProgressOK, Working, PC

LEMMA RaisedOK ==
  ASSUME PlaneInv, FilesOK, NEW r \in Runners, WorkerOK(r), status[job[r]] \in Live,
         Raise(r), view'[r] = NoView, job' = job, scan' = scan
  PROVE  StepOK(r)
<1>1. UNCHANGED <<status, rows, rawFiles, l0, instrument>> /\ pc' = [pc EXCEPT ![r] = "fail"]
  BY DEF Raise, Goto, sequenceRow, exposureState
<1>2. pc'[r] = "fail"
  BY <1>1 DEF PlaneInv, TypeOK, RunnersOK
<1>3. WorkerOK(r)'
  BY <1>1, <1>2 DEF WorkerOK, ViewOK, ExposureOK, ProgressOK, Working, PC
<1> QED
  BY <1>1, <1>3, FilesKept DEF StepOK

\* A transaction that ends the run leaves the sequence PAUSED or ABORTED.
LEMMA LeavesOK ==
  ASSUME PlaneInv, FilesOK, NEW r \in Runners, status[job[r]] \in Live, job[r] \in Seqs,
         NEW label \in {"idle", "post"}, pc' = [pc EXCEPT ![r] = label],
         NEW x \in Left, status' = [status EXCEPT ![job[r]] = x],
         view'[r] = NoView, job' = job, FilesOK', Grows,
         instrument = "SAFE_FAULT" => instrument' = "SAFE_FAULT"
  PROVE  StepOK(r)
<1>1. pc'[r] = label /\ status'[job'[r]] = x
  BY DEF PlaneInv, TypeOK, RunnersOK, DatabaseOK
<1>2. WorkerOK(r)'
  BY <1>1 DEF WorkerOK, ViewOK, ExposureOK, ProgressOK, Working, PC, Left, NoView
<1> QED
  BY <1>2 DEF StepOK, Left, Settled

LEMMA InterruptedOK ==
  ASSUME PlaneInv, FilesOK, NEW r \in Runners, WorkerOK(r), job[r] \in Seqs, view[r] # NoView,
         NEW label \in {"idle", "post"}, Interrupted(r, label),
         view'[r] = NoView, job' = job, scan' = scan
  PROVE  StepOK(r)
<1>1. status[job[r]] \in Live
  BY DEF Interrupted, WorkerOK, ViewOK, Follows, Live
<1>2. CASE Raise(r)
  BY <1>1, <1>2, RaisedOK
<1>3. CASE ~Raise(r)
  <2>1. /\ pc' = [pc EXCEPT ![r] = label]
        /\ \E x \in Left : status' = [status EXCEPT ![job[r]] = x]
        /\ UNCHANGED <<rows, rawFiles, l0>>
        /\ instrument = "SAFE_FAULT" => instrument' = "SAFE_FAULT"
    BY <1>3 DEF Interrupted, MarkAborted, MarkPaused, SetStatus, Goto, Left, exposureState,
                Moves, CanMoveTo, AllowedTransitions, InstrumentState
  <2>2. FilesOK' /\ Grows
    BY <2>1, FilesKept
  <2> QED
    BY <1>1, <2>1, <2>2, LeavesOK
<1> QED
  BY <1>2, <1>3
\* The runner goes on in its loop; what it has reached so far has its frames.
LEMMA GoesOn ==
  ASSUME PlaneInv, FilesOK, NEW r \in Runners, WorkerOK(r), job[r] \in Seqs,
         pc[r] \in Working, FilesOK', Grows, status' = status, job' = job,
         view' = view \/ view'[r] = NoView, pc'[r] \in Working \ {"expose", "register", "adopted"},
         status[job[r]] \in Live, NEW n, n = ordinal[r], ordinal'[r] \in Ordinals(job[r]),
         pc'[r] = "final" => ordinal'[r] = Expected[job[r]],
         Reached(r)' <= Reached(r) \/ (Reached(r)' = n /\ HasFrame(job[r], n)'),
         instrument = "SAFE_FAULT" => instrument' = "SAFE_FAULT"
  PROVE  StepOK(r)
<1>1. ordinal[r] \in Ordinals(job[r]) /\ Expected[job[r]] \in Nat
  BY SequenceAssumption DEF PlaneInv, TypeOK, RunnersOK
<1>2. ViewOK(r)'
  BY DEF WorkerOK, ViewOK, Working, PC
<1>3. ExposureOK(r)'
  BY DEF ExposureOK
<1>4. ASSUME status'[job'[r]] = "RUNNING" \/ view'[r].status = "RUNNING",
             NEW o \in 1 .. Reached(r)'
      PROVE  HasFrame(job[r], o)'
  <2>1. \A k \in 1 .. Reached(r) : HasFrame(job[r], k)
    BY <1>4 DEF WorkerOK, ProgressOK, NoView
  <2>2. ordinal'[r] \in Nat /\ ordinal[r] \in Nat /\ ordinal[r] <= Expected[job[r]]
    BY <1>1 DEF Ordinals
  <2>3. Reached(r) \in {ordinal[r], ordinal[r] - 1} /\ Reached(r)' \in {ordinal'[r], ordinal'[r] - 1}
    BY DEF Reached
  <2>4. o \in 1 .. Reached(r) \/ (o = n /\ HasFrame(job[r], n)')
    BY <2>2, <2>3
  <2>5. CASE o \in 1 .. Reached(r)
    <3>1. o \in Ordinals(job[r])
      BY <1>1, <2>2, <2>3, <2>5 DEF Ordinals
    <3> QED
      BY <2>1, <2>5, <3>1, FrameStays
  <2> QED
    BY <2>4, <2>5
<1> QED
  BY <1>2, <1>3, <1>4 DEF WorkerOK, ProgressOK, StepOK
LEMMA PrepareOK ==
  ASSUME PlaneInv, FilesOK, NEW r \in Runners, WorkerOK(r), PrepareInstrument(r)
  PROVE  StepOK(r)
<1>0. pc[r] = "prepare" /\ job[r] \in Seqs /\ view[r] = NoView /\ status[job[r]] \in Live
  BY DEF PrepareInstrument, PlaneInv, TypeOK, RunnersOK, WorkerOK, ViewOK
<1>1. /\ UNCHANGED <<status, rows, rawFiles, l0, job, view, scan>>
      /\ \/ pc' = [pc EXCEPT ![r] = "fail"]
         \/ pc' = [pc EXCEPT ![r] = "check"] /\ ordinal' = [ordinal EXCEPT ![r] = 1]
      /\ instrument = "SAFE_FAULT" => instrument' = "SAFE_FAULT"
  BY DEF PrepareInstrument, PrepareAllowed, Goto, sequenceRow, exposureState
<1>2. pc'[r] = "fail" \/ (pc'[r] = "check" /\ ordinal'[r] = 1)
  BY <1>1 DEF PlaneInv, TypeOK, RunnersOK
<1>3. ViewOK(r)' /\ ExposureOK(r)'
  BY <1>0, <1>1, <1>2 DEF ViewOK, ExposureOK
<1>4. ProgressOK(r)'
  BY <1>2 DEF ProgressOK, Reached, Working, PC
<1> QED
  BY <1>1, <1>3, <1>4, FilesKept DEF StepOK, WorkerOK

LEMMA OpenOK ==
  ASSUME PlaneInv, FilesOK, NEW r \in Runners, WorkerOK(r), OpenTransaction(r)
  PROVE  StepOK(r)
<1>1. /\ UNCHANGED <<status, rows, rawFiles, l0, job, ordinal, row, pc, instrument, scan>>
      /\ view'[r].status = status[job[r]]
      /\ pc[r] \in {"check", "move", "expose", "post", "final"}
  BY DEF OpenTransaction, sequenceRow, exposureState, PlaneInv, TypeOK, RunnersOK
<1>2. status[job[r]] \in Live \cup Left
  BY <1>1 DEF WorkerOK, ViewOK
<1>3. ViewOK(r)'
  BY <1>1, <1>2 DEF WorkerOK, ViewOK, Follows, Live
<1>4. ExposureOK(r)'
  BY <1>1 DEF WorkerOK, ExposureOK, Exposure
<1>5. ProgressOK(r)'
  <2>1. \A o : HasFrame(job[r], o)' <=> HasFrame(job[r], o)
    BY <1>1 DEF HasFrame
  <2> QED
    BY <1>1, <2>1 DEF WorkerOK, ProgressOK, Reached
<1> QED
  BY <1>1, <1>3, <1>4, <1>5, FilesKept DEF StepOK, WorkerOK

\* Advance, when the ordinal it leaves has a frame.
LEMMA AdvancesOK ==
  ASSUME PlaneInv, FilesOK, NEW r \in Runners, WorkerOK(r), pc[r] \in Working, job[r] \in Seqs,
         Advance(r), pc[r] = "post" \/ Committed(job[r], ordinal[r]), status[job[r]] \in Live,
         view'[r] = NoView, UNCHANGED <<job, sequenceRow, exposureState, instrument, scan>>
  PROVE  StepOK(r)
<1>0. /\ ordinal[r] \in Ordinals(job[r]) /\ Expected[job[r]] \in Nat
      /\ UNCHANGED <<status, rows, rawFiles, l0>>
  BY SequenceAssumption DEF PlaneInv, TypeOK, RunnersOK, sequenceRow, exposureState
<1>1. /\ pc'[r] \in {"check", "final"} /\ ordinal'[r] \in Ordinals(job[r])
      /\ pc'[r] = "final" => ordinal'[r] = Expected[job[r]]
      /\ Reached(r)' = ordinal[r]
  <2>1. CASE ordinal[r] = Expected[job[r]]
    <3>1. pc'[r] = "final" /\ ordinal' = ordinal
      BY <2>1 DEF Advance, Goto, PlaneInv, TypeOK, RunnersOK
    <3> QED
      BY <1>0, <2>1, <3>1 DEF Reached
  <2>2. CASE ordinal[r] # Expected[job[r]]
    <3>1. pc'[r] = "check" /\ ordinal'[r] = ordinal[r] + 1
      BY <2>2 DEF Advance, Goto, PlaneInv, TypeOK, RunnersOK
    <3> QED
      BY <1>0, <2>2, <3>1 DEF Reached, Ordinals
  <2> QED
    BY <2>1, <2>2
<1>2. FilesOK' /\ Grows
  BY <1>0, FilesKept
<1>3. pc'[r] \in Working \ {"expose", "register", "adopted"}
  BY <1>1 DEF Working, PC
<1>4. CASE pc[r] = "post"
  <2>1. Reached(r)' <= Reached(r)
    BY <1>0, <1>1, <1>4 DEF Reached, Ordinals
  <2> QED
    BY <1>0, <1>1, <1>2, <1>3, <2>1, GoesOn
<1>5. CASE Committed(job[r], ordinal[r])
  <2>1. HasFrame(job[r], ordinal[r])
    BY <1>0, <1>5, CommittedHasFrame
  <2>2. ASSUME NEW n, n = ordinal[r] PROVE HasFrame(job[r], n)'
    BY <1>0, <1>2, <2>1, <2>2, FrameStays
  <2> QED
    BY <1>0, <1>1, <1>2, <1>3, <2>2, GoesOn
<1> QED
  BY <1>4, <1>5

LEMMA CheckOK ==
  ASSUME PlaneInv, FilesOK, NEW r \in Runners, WorkerOK(r), CheckOrdinal(r)
  PROVE  StepOK(r)
<1>0. /\ pc[r] = "check" /\ pc[r] \in Working /\ job[r] \in Seqs /\ view[r] # NoView
      /\ status[job[r]] \in Live /\ view'[r] = NoView /\ UNCHANGED <<job, scan>>
      /\ ordinal[r] \in Ordinals(job[r])
  BY DEF CheckOrdinal, PlaneInv, TypeOK, RunnersOK, WorkerOK, ViewOK, Working, PC, CloseView,
         KeepProgress
<1>1. CASE Committed(job[r], ordinal[r])
  <2>1. Advance(r) /\ UNCHANGED <<sequenceRow, exposureState, instrument>>
    BY <1>1 DEF CheckOrdinal
  <2> QED
    BY <1>0, <1>1, <2>1, AdvancesOK
<1>2. CASE Interrupted(r, "idle")
  BY <1>0, <1>2, InterruptedOK
<1>3. CASE ~Committed(job[r], ordinal[r]) /\ ~Interrupted(r, "idle")
  <2>1. /\ pc' = [pc EXCEPT ![r] = "move"] /\ UNCHANGED <<status, rows, rawFiles, l0>>
        /\ ordinal' = ordinal /\ instrument' = instrument
    BY <1>3 DEF CheckOrdinal, Goto, KeepProgress, sequenceRow, exposureState
  <2>2. pc'[r] = "move" /\ "move" \in Working \ {"expose", "register", "adopted"}
    BY <2>1 DEF PlaneInv, TypeOK, RunnersOK, Working, PC
  <2>3. FilesOK' /\ Grows
    BY <1>0, <2>1, FilesKept
  <2>4. Reached(r)' <= Reached(r)
    BY <1>0, <2>1, <2>2 DEF Reached, Ordinals
  <2> QED
    BY <1>0, <2>1, <2>2, <2>3, <2>4, GoesOn
<1> QED
  BY <1>1, <1>2, <1>3
\* NextRow is one row, and it is never a committed one.
LEMMA NextRowIs ==
  ASSUME RowsOK(rows), NEW s \in Seqs, NEW o \in Ordinals(s), NEW i \in NextRow(s, o)
  PROVE  /\ i \in 1 .. Len(rows[s][o]) + 1
         /\ i \in DOMAIN rows[s][o] => rows[s][o][i] # "COMMITTED"
<1>1. rows[s][o] \in Seq(ExposureStatus)
  BY DEF RowsOK
<1>2. Len(rows[s][o]) \in Nat /\ DOMAIN rows[s][o] = 1 .. Len(rows[s][o])
  BY <1>1
<1> QED
  BY <1>2 DEF NextRow, OpenRows

\* What the exposing branch of Move does.
Exposes(r, i) ==
  /\ i \in NextRow(job[r], ordinal[r])
  /\ rows' = SetRow(job[r], ordinal[r], i, "EXPOSING") /\ row' = [row EXCEPT ![r] = i]
  /\ Moves("EXPOSING") /\ instrument' = "EXPOSING" /\ pc' = [pc EXCEPT ![r] = "expose"]
  /\ UNCHANGED <<job, ordinal, sequenceRow, rawFiles, l0, scan>>

LEMMA MoveCases ==
  ASSUME NEW r, Move(r)
  PROVE  \/ Interrupted(r, "post")
         \/ Raise(r) /\ ~Asked(r)
         \/ (~Asked(r)) /\ \E i : Exposes(r, i)
BY DEF Move, Exposes, Goto

LEMMA MoveOK ==
  ASSUME PlaneInv, FilesOK, NEW r \in Runners, WorkerOK(r), Move(r)
  PROVE  StepOK(r)
<1>0. /\ pc[r] = "move" /\ job[r] \in Seqs /\ view[r] # NoView /\ RowsOK(rows)
      /\ status[job[r]] \in Live /\ view'[r] = NoView /\ UNCHANGED <<job, scan>>
      /\ ordinal[r] \in Ordinals(job[r])
  BY DEF Move, PlaneInv, TypeOK, RunnersOK, DatabaseOK, WorkerOK, ViewOK, Working, PC, CloseView,
         KeepProgress
<1>1. CASE Interrupted(r, "post")
  BY <1>0, <1>1, InterruptedOK
<1>2. CASE Raise(r)
  BY <1>0, <1>2, RaisedOK
<1>3. ASSUME NEW i, Exposes(r, i) PROVE StepOK(r)
  <2>1. /\ i \in 1 .. Len(rows[job[r]][ordinal[r]]) + 1
        /\ rows' = SetRow(job[r], ordinal[r], i, "EXPOSING")
        /\ UNCHANGED <<status, rawFiles, l0>>
    BY <1>0, <1>3, NextRowIs DEF Exposes, sequenceRow
  <2>2. FilesOK' /\ Grows
    BY <1>0, <2>1, FilesWritten
  <2>3. DOMAIN rows'[job[r]][ordinal[r]] = DOMAIN rows[job[r]][ordinal[r]] \cup {i}
    BY <1>0, <2>1, SetRowWrites
  <2>4. /\ pc'[r] = "expose" /\ row'[r] = i /\ instrument' = "EXPOSING"
        /\ ordinal' = ordinal /\ instrument # "SAFE_FAULT"
    BY <1>3 DEF Exposes, PlaneInv, TypeOK, RunnersOK, Moves, CanMoveTo, AllowedTransitions,
                InstrumentState
  <2>5. ViewOK(r)' /\ ExposureOK(r)'
    BY <1>0, <2>1, <2>3, <2>4 DEF ViewOK, ExposureOK
  <2>6. ASSUME status'[job[r]] = "RUNNING" \/ view'[r].status = "RUNNING",
               NEW o \in 1 .. Reached(r)'
        PROVE  HasFrame(job[r], o)'
    <3>1. o \in 1 .. Reached(r) /\ o \in Ordinals(job[r])
      BY <1>0, <2>4, <2>6, SequenceAssumption DEF Reached, Ordinals
    <3>2. HasFrame(job[r], o)
      BY <1>0, <2>1, <2>6, <3>1 DEF WorkerOK, ProgressOK, Working, PC, NoView
    <3> QED
      BY <1>0, <2>2, <3>1, <3>2, FrameStays
  <2>7. ProgressOK(r)'
    BY <1>0, <2>4, <2>6 DEF ProgressOK
  <2> QED
    BY <2>1, <2>2, <2>4, <2>5, <2>7 DEF StepOK, WorkerOK
<1> QED
  BY <1>1, <1>2, <1>3, MoveCases

\* Where the row of the exposure being taken is.
LEMMA OwnRow ==
  ASSUME PlaneInv, NEW r \in Runners, WorkerOK(r), pc[r] \in {"expose", "register", "adopted"}
  PROVE  /\ job[r] \in Seqs /\ ordinal[r] \in Ordinals(job[r]) /\ RowsOK(rows)
         /\ row[r] \in DOMAIN rows[job[r]][ordinal[r]]
         /\ row[r] \in 1 .. Len(rows[job[r]][ordinal[r]]) + 1
         /\ instrument = "EXPOSING" /\ status[job[r]] \in Live
<1>1. /\ job[r] \in Seqs /\ ordinal[r] \in Ordinals(job[r]) /\ RowsOK(rows)
      /\ row[r] \in DOMAIN rows[job[r]][ordinal[r]] /\ instrument = "EXPOSING"
      /\ status[job[r]] \in Live
  BY DEF PlaneInv, TypeOK, RunnersOK, DatabaseOK, WorkerOK, ViewOK, ExposureOK, Working, PC
<1>2. rows[job[r]][ordinal[r]] \in Seq(ExposureStatus)
  BY <1>1 DEF RowsOK
<1> QED
  BY <1>1, <1>2

LEMMA AbortOK ==
  ASSUME PlaneInv, FilesOK, NEW r \in Runners, WorkerOK(r), AbortExposure(r)
  PROVE  StepOK(r)
<1>0. pc[r] = "expose" /\ view'[r] = NoView /\ UNCHANGED <<job, scan>>
  BY DEF AbortExposure, CloseView, KeepProgress, PlaneInv, TypeOK, RunnersOK
<1>1. /\ job[r] \in Seqs /\ ordinal[r] \in Ordinals(job[r]) /\ RowsOK(rows)
      /\ row[r] \in 1 .. Len(rows[job[r]][ordinal[r]]) + 1
      /\ instrument = "EXPOSING" /\ status[job[r]] \in Live
  BY <1>0, OwnRow
<1>2. CASE Raise(r)
  BY <1>0, <1>1, <1>2, RaisedOK
<1>3. CASE ~Raise(r)
  <2>1. /\ rows' = SetRow(job[r], ordinal[r], row[r], "FAILED") /\ UNCHANGED <<rawFiles, l0>>
        /\ pc' = [pc EXCEPT ![r] = "post"] /\ status' = [status EXCEPT ![job[r]] = "ABORTED"]
    BY <1>3 DEF AbortExposure, MarkAborted, SetOwnRow, SetStatus, Goto
  <2>2. FilesOK' /\ Grows
    BY <1>0, <1>1, <2>1, FilesWritten
  <2> QED
    BY <1>0, <1>1, <2>1, <2>2, LeavesOK DEF Left
<1> QED
  BY <1>2, <1>3
LEMMA ExposeOK ==
  ASSUME PlaneInv, FilesOK, NEW r \in Runners, WorkerOK(r), Expose(r)
  PROVE  StepOK(r)
<1>0. /\ pc[r] = "expose" /\ pc[r] \in Working
      /\ UNCHANGED <<job, ordinal, row, status, rows, rawFiles, instrument, scan>>
  BY DEF Expose, KeepProgress, sequenceRow, Working, PC
<1>1. /\ job[r] \in Seqs /\ ordinal[r] \in Ordinals(job[r])
      /\ row[r] \in DOMAIN rows[job[r]][ordinal[r]]
      /\ instrument = "EXPOSING" /\ status[job[r]] \in Live
  BY <1>0, OwnRow
<1>2. /\ Exposure(r) = <<job[r], ordinal[r], row[r]>>
      /\ \/ /\ pc'[r] = "adopted" /\ l0' = l0 /\ view' = view /\ Exposure(r) \in rawFiles
         \/ /\ pc'[r] = "register" /\ l0' = l0 \cup {Exposure(r)} /\ view' = view
         \/ /\ pc'[r] = "fail" /\ l0' = l0 /\ view'[r] = NoView
  BY DEF Expose, Goto, CloseView, Exposure, PlaneInv, TypeOK, RunnersOK
<1>3. FilesOK' /\ Grows
  BY <1>0, <1>1, <1>2 DEF FilesOK, Known, Grows
<1>4. CASE pc'[r] = "fail"
  <2>1. WorkerOK(r)'
    BY <1>0, <1>1, <1>2, <1>4 DEF WorkerOK, ViewOK, ExposureOK, ProgressOK, Working, PC
  <2> QED
    BY <1>0, <1>3, <2>1 DEF StepOK
<1>5. CASE pc'[r] # "fail"
  <2>1. ViewOK(r)'
    BY <1>0, <1>1, <1>2, <1>5 DEF WorkerOK, ViewOK
  <2>2. ExposureOK(r)'
    BY <1>0, <1>1, <1>2, <1>5 DEF ExposureOK, Exposure
  <2>3. Reached(r)' = Reached(r) /\ Reached(r) = ordinal[r] - 1
    BY <1>0, <1>2, <1>5 DEF Reached
  <2>4. ASSUME status'[job[r]] = "RUNNING" \/ view'[r].status = "RUNNING",
               NEW o \in 1 .. Reached(r)
        PROVE  HasFrame(job[r], o)'
    <3>1. o \in Ordinals(job[r])
      BY <1>1, <2>3, <2>4, SequenceAssumption DEF Ordinals
    <3>2. HasFrame(job[r], o)
      BY <1>0, <1>2, <1>5, <2>4 DEF WorkerOK, ProgressOK
    <3> QED
      BY <1>0, <1>1, <1>3, <3>1, <3>2, FrameStays
  <2>5. ProgressOK(r)'
    BY <1>0, <1>2, <1>5, <2>3, <2>4 DEF ProgressOK
  <2> QED
    BY <1>0, <1>3, <2>1, <2>2, <2>5 DEF StepOK, WorkerOK
<1> QED
  BY <1>4, <1>5

\* What EndExposure does when the agent is up.
Ends(r, rows_, rawFiles_) ==
  /\ rows' = rows_ /\ rawFiles' = rawFiles_
  /\ completed' = [completed EXCEPT ![job[r]] = view[r].completed + 1]
  /\ instrument' \in {"STANDBY", "READY"}
  /\ pc' = [pc EXCEPT ![r] = "post"]
  /\ UNCHANGED <<status, attempt, l0>>

LEMMA EndsOrRaises ==
  ASSUME NEW r, NEW rows_, NEW rawFiles_, EndExposure(r, rows_, rawFiles_)
  PROVE  Raise(r) \/ Ends(r, rows_, rawFiles_)
BY DEF EndExposure, Ends, Goto

LEMMA CommitOK ==
  ASSUME PlaneInv, FilesOK, NEW r \in Runners, WorkerOK(r), Register(r) \/ Adopt(r)
  PROVE  StepOK(r)
<1>0. /\ pc[r] \in {"register", "adopted"} /\ pc[r] \in Working
      /\ UNCHANGED <<job, ordinal, row, scan>> /\ view'[r] = NoView
  BY DEF Register, Adopt, KeepProgress, CloseView, Working, PC, PlaneInv, TypeOK, RunnersOK
<1>1. /\ job[r] \in Seqs /\ ordinal[r] \in Ordinals(job[r]) /\ RowsOK(rows)
      /\ row[r] \in DOMAIN rows[job[r]][ordinal[r]]
      /\ row[r] \in 1 .. Len(rows[job[r]][ordinal[r]]) + 1
      /\ instrument = "EXPOSING" /\ status[job[r]] \in Live
  BY <1>0, OwnRow
<1>2. CASE Raise(r)
  BY <1>0, <1>1, <1>2, RaisedOK
<1>3. CASE ~Raise(r)
  <2>1. \/ /\ pc[r] = "register" /\ Ends(r, SetOwnRow(r, "COMMITTED"), rawFiles \cup {Exposure(r)})
        \/ /\ pc[r] = "adopted" /\ Ends(r, SetOwnRow(r, "READING"), rawFiles)
    <3>1. CASE Register(r)
      <4>1. pc[r] = "register" /\ EndExposure(r, SetOwnRow(r, "COMMITTED"), rawFiles \cup {Exposure(r)})
        BY <1>3, <3>1 DEF Register
      <4> QED
        BY <1>3, <4>1, EndsOrRaises
    <3>2. CASE Adopt(r)
      <4>1. pc[r] = "adopted" /\ EndExposure(r, SetOwnRow(r, "READING"), rawFiles)
        BY <3>2 DEF Adopt
      <4> QED
        BY <1>3, <4>1, EndsOrRaises
    <3> QED
      BY <3>1, <3>2
  <2>2. /\ Exposure(r) = <<job[r], ordinal[r], row[r]>>
        /\ Exposure(r) \in rawFiles' /\ Exposure(r) \in l0
    BY <2>1 DEF Exposure, Ends, WorkerOK, ExposureOK, FilesOK
  <2>3. PICK value \in {"COMMITTED", "READING"} :
          /\ rows' = SetRow(job[r], ordinal[r], row[r], value)
          /\ rawFiles' = rawFiles \/ rawFiles' = rawFiles \cup {Exposure(r)}
    BY <2>1 DEF Ends, SetOwnRow
  <2>4. l0' = l0 /\ status' = status /\ pc'[r] = "post"
    BY <2>1 DEF Ends, PlaneInv, TypeOK, RunnersOK
  <2>5. FilesOK' /\ Grows
    BY <1>0, <1>1, <2>2, <2>3, <2>4, FilesWritten
  <2>6. DOMAIN rows'[job[r]][ordinal[r]] = DOMAIN rows[job[r]][ordinal[r]] \cup {row[r]}
    BY <1>1, <2>3, SetRowWrites
  <2>7. ASSUME NEW n, n = ordinal[r] PROVE HasFrame(job[r], n)'
    BY <1>0, <2>2, <2>4, <2>6, <2>7 DEF HasFrame
  <2>8. Reached(r)' = ordinal[r]
    BY <1>0, <2>4 DEF Reached
  <2>9. "post" \in Working \ {"expose", "register", "adopted"}
    BY DEF Working, PC
  <2> QED
    BY <1>0, <1>1, <2>4, <2>5, <2>7, <2>8, <2>9, GoesOn
<1> QED
  BY <1>2, <1>3

LEMMA PostOK ==
  ASSUME PlaneInv, FilesOK, NEW r \in Runners, WorkerOK(r), PostExposure(r)
  PROVE  StepOK(r)
<1>0. /\ pc[r] = "post" /\ pc[r] \in Working /\ job[r] \in Seqs /\ view[r] # NoView
      /\ view'[r] = NoView /\ UNCHANGED <<job, scan>>
  BY DEF PostExposure, PlaneInv, TypeOK, RunnersOK, Working, PC, CloseView, KeepProgress
<1>1. CASE Interrupted(r, "idle")
  BY <1>0, <1>1, InterruptedOK
<1>2. CASE /\ ~Interrupted(r, "idle")
           /\ view[r].status \in {"ABORTED", "PAUSED", "FAILED"}
  <2>1. pc'[r] = "idle" /\ UNCHANGED <<status, rows, rawFiles, l0, instrument>>
    BY <1>2 DEF PostExposure, Goto, Asked, sequenceRow, exposureState, PlaneInv, TypeOK, RunnersOK
  <2> QED
    BY <1>0, <2>1, BackToIdle, FilesKept DEF StepOK
<1>3. CASE /\ ~Interrupted(r, "idle")
           /\ view[r].status \notin {"ABORTED", "PAUSED", "FAILED"}
  <2>1. Advance(r) /\ UNCHANGED <<sequenceRow, exposureState, instrument>>
    BY <1>3 DEF PostExposure
  <2>2. status[job[r]] \in Live
    BY <1>0, <1>3 DEF WorkerOK, ViewOK, Follows, Left
  <2> QED
    BY <1>0, <2>1, <2>2, AdvancesOK
<1> QED
  BY <1>1, <1>2, <1>3

LEMMA FinishOK ==
  ASSUME PlaneInv, FilesOK, NEW r \in Runners, WorkerOK(r), Finish(r)
  PROVE  StepOK(r)
<1>0. /\ pc[r] = "final" /\ pc[r] \in Working /\ job[r] \in Seqs /\ view[r] # NoView
      /\ view'[r] = NoView /\ UNCHANGED <<job, scan>> /\ status[job[r]] \in Live
  BY DEF Finish, PlaneInv, TypeOK, RunnersOK, Working, PC, CloseView, KeepProgress, WorkerOK, ViewOK
<1>1. CASE Interrupted(r, "idle")
  BY <1>0, <1>1, InterruptedOK
<1>2. CASE Raise(r)
  BY <1>0, <1>2, RaisedOK
<1>3. CASE ~Interrupted(r, "idle") /\ ~Raise(r)
  <2>1. /\ pc'[r] = "idle" /\ UNCHANGED <<rows, rawFiles, l0>>
        /\ instrument = "SAFE_FAULT" => instrument' = "SAFE_FAULT"
        /\ \/ status' = status
           \/ view[r].status = "RUNNING" /\ status' = [status EXCEPT ![job[r]] = "SUCCEEDED"]
    BY <1>3 DEF Finish, Goto, SetStatus, sequenceRow, exposureState, PlaneInv, TypeOK, RunnersOK,
                Moves, CanMoveTo, AllowedTransitions, InstrumentState
  <2>2. view[r].status = "RUNNING" => \A o \in Ordinals(job[r]) : HasFrame(job[r], o)
    BY <1>0 DEF WorkerOK, ProgressOK, Reached, Ordinals
  <2> QED
    BY <1>0, <2>1, <2>2, BackToIdle, FilesKept DEF StepOK, Settled
<1> QED
  BY <1>1, <1>2, <1>3

LEMMA FailOK ==
  ASSUME PlaneInv, FilesOK, NEW r \in Runners, WorkerOK(r), FailSequence(r)
  PROVE  StepOK(r)
<1>0. /\ pc[r] = "fail" /\ job[r] \in Seqs /\ RowsOK(rows) /\ view[r] = NoView
      /\ view' = view /\ UNCHANGED <<rawFiles, l0, scan>> /\ status[job[r]] \in Live
      /\ pc'[r] = "idle"
  BY DEF FailSequence, Goto, PlaneInv, TypeOK, RunnersOK, DatabaseOK, WorkerOK, ViewOK
<1>1. \/ /\ status' = [status EXCEPT ![job[r]] = "FAILED"] /\ rows' = FailedRows(job[r])
         /\ instrument' = "SAFE_FAULT"
      \/ UNCHANGED <<status, rows, instrument>>
  BY DEF FailSequence, SetStatus
<1>2. FilesOK' /\ Grows
  BY <1>0, <1>1, FilesFailed, FilesKept
<1> QED
  BY <1>0, <1>1, <1>2, BackToIdle DEF StepOK, Settled
LEMMA SequenceStepOK ==
  ASSUME PlaneInv, FilesOK, NEW r \in Runners, WorkerOK(r), SequenceStep(r)
  PROVE  StepOK(r)
BY PrepareOK, OpenOK, CheckOK, MoveOK, AbortOK, ExposeOK, CommitOK, PostOK, FinishOK, FailOK
   DEF SequenceStep

LEMMA OthersStill ==
  ASSUME PlaneInv, NEW r \in Runners, SequenceStep(r), NEW q \in Runners, q # r
  PROVE  pc'[q] = pc[q] /\ view'[q] = view[q] /\ job'[q] = job[q] /\ row'[q] = row[q]
<1>0. /\ pc \in [Runners -> PC] /\ view \in [Runners -> View] /\ row \in [Runners -> Nat]
  BY DEF PlaneInv, TypeOK, RunnersOK
<1>1. pc'[q] = pc[q]
  BY <1>0, SequenceStepLease
<1>2. job' = job
  BY DEF SequenceStep, PrepareInstrument, OpenTransaction, CheckOrdinal, Move, AbortExposure,
         Expose, Register, Adopt, PostExposure, Finish, FailSequence, KeepProgress
<1>3. row' = row \/ \E i : row' = [row EXCEPT ![r] = i]
  BY DEF SequenceStep, PrepareInstrument, OpenTransaction, CheckOrdinal, Move, AbortExposure,
         Expose, Register, Adopt, PostExposure, Finish, FailSequence, KeepProgress
<1>4. view' = view \/ \E v : view' = [view EXCEPT ![r] = v]
  BY DEF SequenceStep, PrepareInstrument, OpenTransaction, CheckOrdinal, Move, AbortExposure,
         Expose, Register, Adopt, PostExposure, Finish, FailSequence, CloseView
<1>5. row'[q] = row[q]
  BY <1>0, <1>3
<1>6. view'[q] = view[q]
  BY <1>0, <1>4
<1> QED
  BY <1>1, <1>2, <1>5, <1>6

-----------------------------------------------------------------------------
(* The inductive invariant of a deployment whose lease holds.               *)

SafetyInv ==
  /\ OneWorker /\ FilesOK
  /\ \A r \in Runners : WorkerOK(r)
  /\ SuccessMeansEveryFrame

LEMMA SafetyInit ==
  ASSUME Init PROVE SafetyInv
<1>1. FilesOK
  <2>1. rawFiles = {} /\ l0 = {} /\ scan = NoScan
        /\ rows = [s \in Seqs |-> [o \in Ordinals(s) |-> <<>>]]
    BY DEF Init
  <2>2. \A s \in Seqs : \A o \in Ordinals(s) : rows[s][o] = <<>>
    BY <2>1
  <2>3. DOMAIN <<>> = {}
    OBVIOUS
  <2> QED
    BY <2>1, <2>2, <2>3 DEF FilesOK
<1>2. \A r \in Runners : WorkerOK(r)
  BY DEF Init, WorkerOK, ViewOK, ExposureOK, ProgressOK, Working
<1>3. SuccessMeansEveryFrame
  BY DEF Init, SuccessMeansEveryFrame
<1> QED
  BY <1>1, <1>2, <1>3, OneWorkerInit DEF SafetyInv

\* What a request makes of the status of a sequence.
Requested(now, next) ==
  \/ now = "VALIDATED" /\ next = "QUEUED"
  \/ now \in {"QUEUED", "RUNNING"} /\ next = "PAUSING"
  \/ now \in {"PAUSED", "FAILED"} /\ next = "QUEUED"
  \/ now \in {"QUEUED", "RUNNING", "PAUSING"} /\ next = "ABORTING"
  \/ now = "PAUSED" /\ next = "ABORTED"

LEMMA OperatorDoes ==
  ASSUME OperatorStep
  PROVE  /\ UNCHANGED <<rows, rawFiles, l0, scan, pc, job, ordinal, row, view>>
         /\ \/ /\ instrument' = instrument
               /\ \E s \in Seqs : \E x : /\ Requested(status[s], x)
                                       /\ status' = [status EXCEPT ![s] = x]
            \/ instrument = "SAFE_FAULT" /\ instrument' = "OFFLINE" /\ status' = status
<1> USE DEF Untouched, exposureState, locals, sequenceRow, SetStatus
<1>1. CASE Recover
  BY <1>1 DEF Recover
<1>2. ASSUME NEW s \in Seqs, Start(s) \/ Pause(s) \/ Resume(s) \/ Abort(s)
      PROVE  /\ UNCHANGED <<rows, rawFiles, l0, scan, pc, job, ordinal, row, view, instrument>>
             /\ \E x : Requested(status[s], x) /\ status' = [status EXCEPT ![s] = x]
  BY <1>2 DEF Start, Pause, Resume, Abort, Requested
<1> QED
  BY <1>1, <1>2 DEF OperatorStep

\* Requests and whatever adds files leave a runner as right as it was.
LEMMA WorkerKept ==
  ASSUME PlaneInv, NEW r \in Runners, WorkerOK(r), Grows,
         UNCHANGED <<pc, job, ordinal, row, view>>,
         instrument' = instrument \/ instrument # "EXPOSING",
         status' = status \/ \E s \in Seqs : \E x : /\ Requested(status[s], x)
                                                  /\ status' = [status EXCEPT ![s] = x]
  PROVE  WorkerOK(r)'
<1>0. /\ status \in [Seqs -> SequenceStatus]
      /\ pc[r] # "idle" => job[r] \in Seqs
      /\ pc[r] \in Working => ordinal[r] \in Ordinals(job[r])
      /\ view[r].status \in Live => view[r] # NoView
  BY DEF PlaneInv, TypeOK, DatabaseOK, RunnersOK, NoView, Live
<1>1. CASE pc[r] = "idle"
  BY <1>1, BackToIdle DEF WorkerOK, ViewOK
<1>2. CASE pc[r] # "idle"
  <2>1. \/ status'[job[r]] = status[job[r]]
        \/ Requested(status[job[r]], status'[job[r]])
    BY <1>0, <1>2
  <2>2. ViewOK(r)'
    BY <2>1 DEF WorkerOK, ViewOK, Follows, Live, Left, Requested
  <2>3. ExposureOK(r)'
    <3>1. pc[r] \in {"expose", "register", "adopted"} => pc[r] \in Working
      BY DEF Working, PC
    <3> QED
      BY <1>0, <1>2, <3>1 DEF WorkerOK, ExposureOK, Exposure, Grows
  <2>4. ASSUME pc[r] \in Working, status'[job[r]] = "RUNNING" \/ view[r].status = "RUNNING",
               NEW o \in 1 .. Reached(r)
        PROVE  HasFrame(job[r], o)'
    <3>1. status[job[r]] = "RUNNING" \/ view[r].status = "RUNNING"
      BY <2>1, <2>4 DEF Requested
    <3>2. HasFrame(job[r], o)
      BY <2>4, <3>1 DEF WorkerOK, ProgressOK
    <3>3. o \in Ordinals(job[r])
      BY <1>0, <1>2, <2>4, SequenceAssumption DEF Ordinals, Reached
    <3> QED
      BY <1>0, <1>2, <3>2, <3>3, FrameStays
  <2>5. Reached(r)' = Reached(r)
    BY DEF Reached
  <2>6. ProgressOK(r)'
    BY <2>4, <2>5 DEF WorkerOK, ProgressOK
  <2> QED
    BY <2>2, <2>3, <2>6 DEF WorkerOK
<1> QED
  BY <1>1, <1>2

LEMMA SuccessKept ==
  ASSUME SuccessMeansEveryFrame, Grows,
         \A s \in Seqs : status'[s] = "SUCCEEDED" =>
           \/ status[s] = "SUCCEEDED"
           \/ \A o \in Ordinals(s) : HasFrame(s, o)
  PROVE  SuccessMeansEveryFrame'
<1>1. ASSUME NEW s \in Seqs, status'[s] = "SUCCEEDED", NEW o \in Ordinals(s)
      PROVE  HasFrame(s, o)'
  <2>1. HasFrame(s, o)
    BY <1>1 DEF SuccessMeansEveryFrame
  <2> QED
    BY <2>1, FrameStays
<1> QED
  BY <1>1 DEF SuccessMeansEveryFrame
LEMMA SafetySequence ==
  ASSUME PlaneInv, SafetyInv, NEW r \in Runners, SequenceStep(r)
  PROVE  /\ StepOK(r) /\ SuccessMeansEveryFrame'
         /\ \A q \in Runners : WorkerOK(q)'
<1>1. StepOK(r)
  BY SequenceStepOK DEF SafetyInv
<1>2. ASSUME NEW q \in Runners, q # r PROVE WorkerOK(q)'
  <2>1. pc[q] = "idle" /\ view[q] = NoView
    BY <1>2, SequenceStepLease DEF SafetyInv, OneWorker, WorkerOK, ViewOK
  <2> QED
    BY <1>2, <2>1, OthersStill, BackToIdle
<1>3. SuccessMeansEveryFrame'
  BY <1>1, SuccessKept DEF StepOK, SafetyInv, PlaneInv, TypeOK, DatabaseOK
<1> QED
  BY <1>1, <1>2, <1>3 DEF StepOK

LEMMA SafetyPick ==
  ASSUME PlaneInv, SafetyInv, OneWorker', NEW r \in Runners, PickSequence(r)
  PROVE  /\ FilesOK' /\ SuccessMeansEveryFrame' /\ instrument' = instrument
         /\ \A q \in Runners : WorkerOK(q)'
         /\ \E s \in Seqs : status[s] = "QUEUED" /\ status' = [status EXCEPT ![s] = "RUNNING"]
<1>0. /\ pc \in [Runners -> PC] /\ job \in [Runners -> {0} \cup Seqs]
      /\ status \in [Seqs -> SequenceStatus]
  BY DEF PlaneInv, TypeOK, RunnersOK, DatabaseOK
<1>1. PICK s \in Seqs : /\ status[s] = "QUEUED" /\ status' = [status EXCEPT ![s] = "RUNNING"]
                        /\ job' = [job EXCEPT ![r] = s]
  BY DEF PickSequence, SetStatus, Pickable
<1>2. /\ pc[r] = "idle" /\ pc' = [pc EXCEPT ![r] = "prepare"]
      /\ UNCHANGED <<rows, rawFiles, l0, scan, instrument, view>>
  BY DEF PickSequence, Goto, exposureState
<1>3. FilesOK' /\ Grows
  BY <1>2, FilesKept DEF SafetyInv
<1>4. ASSUME NEW q \in Runners PROVE WorkerOK(q)'
  <2>1. CASE q = r
    <3>1. pc'[r] = "prepare" /\ status'[job'[r]] = "RUNNING" /\ view'[r] = NoView
      BY <1>0, <1>1, <1>2 DEF SafetyInv, WorkerOK, ViewOK
    <3> QED
      BY <2>1, <3>1 DEF WorkerOK, ViewOK, ExposureOK, ProgressOK, Working, PC, Live
  <2>2. CASE q # r
    <3>1. pc'[q] = pc[q] /\ job'[q] = job[q]
      BY <1>0, <1>1, <1>2, <2>2
    <3>2. CASE pc[q] = "idle"
      BY <1>2, <3>1, <3>2, BackToIdle DEF SafetyInv, WorkerOK, ViewOK
    <3>3. CASE pc[q] # "idle"
      <4>1. pc'[r] # "idle"
        BY <1>0, <1>2
      <4> QED
        BY <2>2, <3>1, <3>3, <4>1 DEF OneWorker
    <3> QED
      BY <3>2, <3>3
  <2> QED
    BY <2>1, <2>2
<1>5. SuccessMeansEveryFrame'
  BY <1>0, <1>1, <1>3, SuccessKept DEF SafetyInv
<1> QED
  BY <1>1, <1>2, <1>3, <1>4, <1>5
LEMMA SafetyOperator ==
  ASSUME PlaneInv, SafetyInv, OperatorStep
  PROVE  /\ FilesOK' /\ SuccessMeansEveryFrame'
         /\ \A q \in Runners : WorkerOK(q)'
<1>1. UNCHANGED <<rows, rawFiles, l0, scan, pc, job, ordinal, row, view>>
  BY OperatorDoes
<1>2. /\ instrument' = instrument \/ instrument # "EXPOSING"
      /\ \/ status' = status
         \/ \E s \in Seqs : \E x : /\ Requested(status[s], x)
                                 /\ status' = [status EXCEPT ![s] = x]
  BY OperatorDoes
<1>3. FilesOK' /\ Grows
  BY <1>1, FilesKept DEF SafetyInv
<1>4. \A q \in Runners : WorkerOK(q)'
  BY <1>1, <1>2, <1>3, WorkerKept DEF SafetyInv
<1>5. \A s \in Seqs : status'[s] = "SUCCEEDED" => status[s] = "SUCCEEDED"
  BY <1>2 DEF Requested, PlaneInv, TypeOK, DatabaseOK
<1>6. SuccessMeansEveryFrame'
  BY <1>3, <1>5, SuccessKept DEF SafetyInv
<1> QED
  BY <1>3, <1>4, <1>6

\* What faults, restarts and the scanner do to rows and files.
LEMMA EnvironmentFiles ==
  ASSUME PlaneInv, FilesOK, EnvironmentStep
  PROVE  FilesOK' /\ Grows /\ status' = status /\ instrument' = instrument
<1>1. status' = status /\ instrument' = instrument
  BY DEF EnvironmentStep, InjectFault, ClearFault, AgentRestart, LeaseExpire, ScanOpen,
         ScanCommit, Stop, sequenceRow
<1>2. CASE ScanOpen
  <2>1. UNCHANGED <<rows, rawFiles, l0>> /\ \E id \in l0 : scan'.id = id
    BY <1>2 DEF ScanOpen, exposureState
  <2> QED
    BY <1>1, <2>1 DEF FilesOK, Grows, Known, NoScan
<1>3. CASE ScanCommit
  <2>1. CASE scan.id \in rawFiles
    <3>1. UNCHANGED <<rows, rawFiles, l0>> /\ scan' = NoScan
      BY <1>3, <2>1 DEF ScanCommit
    <3> QED
      BY <1>1, <3>1, FilesKept
  <2>2. CASE scan.id \notin rawFiles
    <3> DEFINE s == scan.id[1]  o == scan.id[2]  i == scan.id[3]
    <3>1. /\ rows' = SetRow(s, o, i, "COMMITTED") /\ rawFiles' = rawFiles \cup {scan.id}
          /\ l0' = l0 /\ scan' = NoScan /\ scan.id \in l0
      BY <1>3, <2>2 DEF ScanCommit, FilesOK
    <3>2. scan.id = <<s, o, i>> /\ s \in Seqs /\ o \in Ordinals(s) /\ i \in DOMAIN rows[s][o]
      BY <3>1 DEF FilesOK, Known
    <3>3. RowsOK(rows) /\ rows[s][o] \in Seq(ExposureStatus)
      BY <3>2 DEF PlaneInv, TypeOK, DatabaseOK, RowsOK
    <3>4. i \in 1 .. Len(rows[s][o]) + 1
      BY <3>2, <3>3
    <3> HIDE DEF s, o, i
    <3> QED
      BY <1>1, <3>1, <3>2, <3>3, <3>4, FilesWritten
  <2> QED
    BY <2>1, <2>2
<1>4. CASE ~ScanOpen /\ ~ScanCommit
  <2>1. UNCHANGED <<rows, rawFiles, l0, scan>>
    BY <1>4 DEF EnvironmentStep, InjectFault, ClearFault, AgentRestart, LeaseExpire, Stop,
                exposureState
  <2> QED
    BY <1>1, <2>1, FilesKept
<1> QED
  BY <1>1, <1>2, <1>3, <1>4

LEMMA SafetyEnvironment ==
  ASSUME PlaneInv, SafetyInv, EnvironmentStep
  PROVE  /\ FilesOK' /\ SuccessMeansEveryFrame'
         /\ \A q \in Runners : WorkerOK(q)'
<1>1. FilesOK' /\ Grows /\ status' = status /\ instrument' = instrument
  BY EnvironmentFiles DEF SafetyInv
<1>2. SuccessMeansEveryFrame'
  BY <1>1, SuccessKept DEF SafetyInv
<1>3. CASE UNCHANGED <<pc, job, ordinal, row, view>>
  BY <1>1, <1>2, <1>3, WorkerKept DEF SafetyInv
<1>4. ASSUME NEW r \in Runners, Stop(r), NEW q \in Runners PROVE WorkerOK(q)'
  <2>0. /\ pc \in [Runners -> PC] /\ view \in [Runners -> View]
    BY DEF PlaneInv, TypeOK, RunnersOK
  <2>1. pc' = [pc EXCEPT ![r] = "idle"] /\ view' = [view EXCEPT ![r] = NoView]
    BY <1>4 DEF Stop, Goto, CloseView
  <2>2. pc'[r] = "idle" /\ view'[r] = NoView
    BY <2>0, <2>1
  <2>3. CASE q = r
    BY <2>2, <2>3, BackToIdle
  <2>4. CASE q # r /\ pc[q] = "idle"
    <3>1. pc'[q] = "idle" /\ view'[q] = NoView
      BY <2>0, <2>1, <2>4 DEF SafetyInv, WorkerOK, ViewOK
    <3> QED
      BY <3>1, BackToIdle
  <2>5. CASE q # r /\ pc[q] # "idle"
    <3>1. /\ pc'[q] = pc[q] /\ view'[q] = view[q] /\ job'[q] = job[q]
          /\ ordinal'[q] = ordinal[q] /\ row'[q] = row[q]
      BY <1>4, <2>0, <2>1, <2>5 DEF Stop, PlaneInv, TypeOK, RunnersOK
    <3>2. UNCHANGED <<status, instrument, rows, rawFiles, l0>>
      BY <1>1, <1>4 DEF Stop, exposureState
    <3>3. \A t, n : HasFrame(t, n) <=> HasFrame(t, n)'
      BY <3>2 DEF HasFrame
    <3> QED
      BY <3>1, <3>2, <3>3
         DEF SafetyInv, WorkerOK, ViewOK, ExposureOK, ProgressOK, Exposure, Reached
  <2> QED
    BY <2>3, <2>4, <2>5
<1> QED
  BY <1>1, <1>2, <1>3, <1>4
     DEF EnvironmentStep, InjectFault, ClearFault, AgentRestart, LeaseExpire, ScanOpen,
         ScanCommit, locals
LEMMA SafetyStill ==
  ASSUME PlaneInv, SafetyInv,
         UNCHANGED <<status, rows, rawFiles, l0, scan, instrument, pc, job, ordinal, row, view>>
  PROVE  /\ FilesOK' /\ SuccessMeansEveryFrame'
         /\ \A q \in Runners : WorkerOK(q)'
<1>1. FilesOK' /\ Grows
  BY FilesKept DEF SafetyInv
<1> QED
  BY <1>1, WorkerKept, SuccessKept DEF SafetyInv

LEMMA SafetyStep ==
  ASSUME LeaseHolds, PlaneInv, SafetyInv, [Next]_vars
  PROVE  SafetyInv'
<1>0. OneWorker'
  BY OneWorkerStep DEF SafetyInv
<1>1. ASSUME NEW r \in Runners, RunnerStep(r) PROVE SafetyInv'
  <2>1. CASE PickSequence(r)
    BY <1>0, <2>1, SafetyPick DEF SafetyInv
  <2>2. CASE IdlePoll(r)
    BY <1>0, <2>2, SafetyStill DEF IdlePoll, SafetyInv, sequenceRow, exposureState, locals
  <2>3. CASE SequenceStep(r)
    BY <1>0, <2>3, SafetySequence DEF SafetyInv, StepOK
  <2> QED
    BY <1>1, <2>1, <2>2, <2>3, RunnerSplit
<1>2. CASE OperatorStep
  BY <1>0, <1>2, SafetyOperator DEF SafetyInv
<1>3. CASE EnvironmentStep
  BY <1>0, <1>3, SafetyEnvironment DEF SafetyInv
<1>4. CASE UNCHANGED vars
  BY <1>0, <1>4, SafetyStill DEF SafetyInv, vars, sequenceRow, exposureState, locals
<1> QED
  BY <1>1, <1>2, <1>3, <1>4 DEF Next

(* The inductive invariant of a deployment whose lease holds: one runner    *)
(* works, every committed row has its registered file, what a transaction   *)
(* saw is not older than one request, and no ordinal is left behind in a    *)
(* run that is still RUNNING.                                               *)
THEOREM SafetyInvariant == ASSUME LeaseHolds PROVE Spec => []SafetyInv
<1>1. Init => SafetyInv
  BY SafetyInit
<1>2. PlaneInv /\ SafetyInv /\ [Next]_vars => SafetyInv'
  BY SafetyStep
<1> QED
  BY <1>1, <1>2, PlaneInvariant, PTL DEF Spec

(* A sequence that reports SUCCEEDED has a registered L0 file on disk of    *)
(* every exposure, through pauses, retries, lost replies, restarts of the   *)
(* device agent, crashes of the runner and a scanner that registers files   *)
(* behind its back (_run_sequence).                                         *)
THEOREM FramesTheorem == ASSUME LeaseHolds PROVE Spec => []SuccessMeansEveryFrame
<1>1. SafetyInv => SuccessMeansEveryFrame
  BY DEF SafetyInv
<1> QED
  BY <1>1, SafetyInvariant, PTL

(* No runner leaves SAFE_FAULT, wherever in a sequence it is when another   *)
(* sequence has latched the instrument: only recover_instrument does        *)
(* (_transition, _prepare_instrument).                                      *)
THEOREM LatchTheorem == ASSUME LeaseHolds PROVE Spec => SafeFaultLatched
<1> DEFINE Latched == instrument = "SAFE_FAULT" /\ instrument' # "SAFE_FAULT" =>
                        instrument' = "OFFLINE" /\ UNCHANGED locals
<1>1. ASSUME PlaneInv, SafetyInv, [Next]_vars PROVE [Latched]_vars
  <2>1. ASSUME NEW r \in Runners, RunnerStep(r) PROVE Latched
    <3>1. CASE SequenceStep(r)
      BY <1>1, <3>1, SequenceStepOK DEF SafetyInv, StepOK
    <3>2. CASE PickSequence(r) \/ IdlePoll(r)
      BY <3>2 DEF PickSequence, IdlePoll
    <3> QED
      BY <2>1, <3>1, <3>2, RunnerSplit
  <2>2. CASE OperatorStep
    BY <2>2, OperatorDoes DEF locals
  <2>3. CASE EnvironmentStep
    BY <1>1, <2>3, EnvironmentFiles DEF SafetyInv
  <2>4. CASE UNCHANGED vars
    BY <2>4 DEF vars
  <2> QED
    BY <1>1, <2>1, <2>2, <2>3, <2>4 DEF Next
<1>2. PlaneInv /\ SafetyInv /\ [Next]_vars => [Latched]_vars
  BY <1>1
<1> QED
  BY <1>2, PlaneInvariant, SafetyInvariant, PTL DEF Spec, SafeFaultLatched

(* A sequence that was reported aborted or finished stays so: the runner    *)
(* that still held an older view of it, a late failure and a late scan      *)
(* change nothing (_run_sequence, _fail_sequence, recover_unregistered_l0). *)
THEOREM EndTheorem == ASSUME LeaseHolds PROVE Spec => EndIsFinal
<1> DEFINE Final == \A s \in Seqs : status[s] \in {"ABORTED", "SUCCEEDED"} => status'[s] = status[s]
<1>0. ASSUME PlaneInv, NEW s \in Seqs, status[s] \notin {"ABORTED", "SUCCEEDED"}, NEW x,
             status' = [status EXCEPT ![s] = x]
      PROVE  Final
  BY <1>0 DEF PlaneInv, TypeOK, DatabaseOK
<1>1. ASSUME PlaneInv, SafetyInv, [Next]_vars PROVE [Final]_vars
  <2>1. ASSUME NEW r \in Runners, RunnerStep(r) PROVE Final
    <3>1. CASE SequenceStep(r)
      <4>1. job[r] \in Seqs
        BY <1>1, <3>1, SequenceStepLease DEF PlaneInv, TypeOK, RunnersOK
      <4>2. StepOK(r)
        BY <1>1, <3>1, SequenceStepOK DEF SafetyInv
      <4>3. \/ status' = status
            \/ /\ status[job[r]] \notin {"ABORTED", "SUCCEEDED"}
               /\ \E x : status' = [status EXCEPT ![job[r]] = x]
        BY <4>2 DEF StepOK, Live
      <4> QED
        BY <1>0, <1>1, <4>1, <4>3
    <3>2. CASE PickSequence(r)
      <4>1. \E s \in Seqs : status[s] = "QUEUED" /\ status' = [status EXCEPT ![s] = "RUNNING"]
        BY <3>2 DEF PickSequence, SetStatus, Pickable
      <4> QED
        BY <1>0, <1>1, <4>1
    <3>3. CASE IdlePoll(r)
      BY <3>3 DEF IdlePoll, sequenceRow
    <3> QED
      BY <2>1, <3>1, <3>2, <3>3, RunnerSplit
  <2>2. CASE OperatorStep
    <3>1. \/ status' = status
          \/ \E s \in Seqs : \E x : /\ status[s] \notin {"ABORTED", "SUCCEEDED"}
                                  /\ status' = [status EXCEPT ![s] = x]
      BY <2>2, OperatorDoes DEF Requested
    <3> QED
      BY <1>0, <1>1, <3>1
  <2>3. CASE EnvironmentStep
    BY <1>1, <2>3, EnvironmentFiles DEF SafetyInv
  <2>4. CASE UNCHANGED vars
    BY <2>4 DEF vars, sequenceRow
  <2> QED
    BY <1>1, <2>1, <2>2, <2>3, <2>4 DEF Next
<1>2. PlaneInv /\ SafetyInv /\ [Next]_vars => [Final]_vars
  BY <1>1
<1> QED
  BY <1>2, PlaneInvariant, SafetyInvariant, PTL DEF Spec, EndIsFinal

-----------------------------------------------------------------------------
(* An instrument and a row that are EXPOSING have a runner, as long as      *)
(* runners do not crash and the device agent answers.  The lease does not   *)
(* matter here: a row has the runner that wrote it, or another of its       *)
(* sequence, whoever leads.                                                 *)

Attending == {"expose", "register", "adopted", "fail"}

Exposed(s, o, i) == i \in DOMAIN rows[s][o] /\ rows[s][o][i] = "EXPOSING"

InstrumentAttended == instrument = "EXPOSING" => \E r \in Runners : pc[r] \in Attending

RowsAttended ==
  \A s \in Seqs : \A o \in Ordinals(s) : \A i :
    Exposed(s, o, i) => \E r \in Runners : Takes(r, s, o, i)

AttendInv == agent.up /\ InstrumentAttended /\ RowsAttended

\* No row becomes EXPOSING when one is written with another status.
LEMMA NotExposed ==
  ASSUME RowsOK(rows), NEW s, NEW o, NEW i, NEW value, value # "EXPOSING",
         rows' = SetRow(s, o, i, value),
         NEW t \in Seqs, NEW p \in Ordinals(t), NEW j, Exposed(t, p, j)'
  PROVE  Exposed(t, p, j) /\ (i \in Nat => <<t, p, j>> # <<s, o, i>>)
<1> DEFINE put(q) == IF i > Len(q) THEN Append(q, value) ELSE [q EXCEPT ![i] = value]
<1>1. rows[t] \in [Ordinals(t) -> Seq(ExposureStatus)] /\ DOMAIN rows = Seqs
  BY DEF RowsOK
<1>2. rows' = [rows EXCEPT ![s] = [rows[s] EXCEPT ![o] = put(rows[s][o])]]
  BY DEF SetRow
<1>3. ASSUME NEW q \in Seq(ExposureStatus), j \in DOMAIN put(q), put(q)[j] = "EXPOSING"
      PROVE  j \in DOMAIN q /\ q[j] = "EXPOSING" /\ (i \in Nat => j # i)
  <2>1. DOMAIN q = 1 .. Len(q) /\ Len(q) \in Nat
    OBVIOUS
  <2>2. CASE i > Len(q)
    <3>1. /\ DOMAIN Append(q, value) = 1 .. Len(q) + 1
          /\ \A k \in 1 .. Len(q) : Append(q, value)[k] = q[k]
          /\ Append(q, value)[Len(q) + 1] = value
      BY <2>1
    <3> QED
      BY <1>3, <2>1, <2>2, <3>1
  <2>3. CASE ~(i > Len(q))
    BY <1>3, <2>1, <2>3
  <2> QED
    BY <2>2, <2>3
<1> HIDE DEF put
<1>4. CASE t = s /\ p = o
  <2>1. rows'[t][p] = put(rows[t][p]) /\ rows[t][p] \in Seq(ExposureStatus)
    BY <1>1, <1>2, <1>4
  <2> QED
    BY <1>3, <2>1 DEF Exposed
<1>5. CASE ~(t = s /\ p = o)
  <2>1. rows'[t][p] = rows[t][p]
    BY <1>1, <1>2, <1>5
  <2> QED
    BY <1>5, <2>1 DEF Exposed
<1> QED
  BY <1>4, <1>5

\* A runner that goes on, by what becomes of the rows.
LEMMA TakesOrLeaves ==
  ASSUME TypeOK, NEW r \in Runners, NEW s \in Seqs, NEW o \in Ordinals(s), NEW i,
         Exposed(s, o, i)', job' = job,
         \/ rows' = rows /\ pc[r] \notin Attending
         \/ rows' = rows /\ UNCHANGED <<pc, ordinal, row>>
         \/ rows' = rows /\ pc' = [pc EXCEPT ![r] = "fail"]
         \/ /\ \E value : value # "EXPOSING" /\ rows' = SetOwnRow(r, value)
            /\ pc[r] \in {"expose", "register", "adopted"}
  PROVE  Takes(r, s, o, i)' \/ (Exposed(s, o, i) /\ ~Takes(r, s, o, i))
<1>0. pc \in [Runners -> PC] /\ RowsOK(rows) /\ row[r] \in Nat
  BY DEF TypeOK, RunnersOK, DatabaseOK
<1>1. CASE rows' = rows /\ pc[r] \notin Attending
  BY <1>1 DEF Exposed, Takes, Attending
<1>2. CASE rows' = rows /\ UNCHANGED <<pc, ordinal, row>>
  BY <1>2 DEF Exposed, Takes, Exposure
<1>3. CASE rows' = rows /\ pc' = [pc EXCEPT ![r] = "fail"]
  BY <1>0, <1>3 DEF Exposed, Takes, Exposure
<1>4. ASSUME NEW value, value # "EXPOSING", rows' = SetOwnRow(r, value),
             pc[r] \in {"expose", "register", "adopted"}
      PROVE  Exposed(s, o, i) /\ ~Takes(r, s, o, i)
  <2>1. Exposed(s, o, i) /\ <<s, o, i>> # Exposure(r)
    BY <1>0, <1>4, NotExposed DEF SetOwnRow, Exposure
  <2> QED
    BY <1>4, <2>1 DEF Takes
<1> QED
  BY <1>1, <1>2, <1>3, <1>4

LEMMA SequenceTakes ==
  ASSUME TypeOK, agent.up, NEW r \in Runners, SequenceStep(r),
         NEW s \in Seqs, NEW o \in Ordinals(s), NEW i, Exposed(s, o, i)'
  PROVE  Takes(r, s, o, i)' \/ (Exposed(s, o, i) /\ ~Takes(r, s, o, i))
<1> DEFINE Goal == Takes(r, s, o, i)' \/ (Exposed(s, o, i) /\ ~Takes(r, s, o, i))
<1>0. pc \in [Runners -> PC] /\ RowsOK(rows) /\ row \in [Runners -> Nat]
  BY DEF TypeOK, RunnersOK, DatabaseOK
<1>1. job' = job
  BY DEF SequenceStep, PrepareInstrument, OpenTransaction, CheckOrdinal, Move, AbortExposure,
         Expose, Register, Adopt, PostExposure, Finish, FailSequence, KeepProgress
<1>2. ASSUME rows' = rows, pc[r] \notin Attending PROVE Goal
  BY <1>1, <1>2, TakesOrLeaves
<1>3. ASSUME Raise(r) PROVE Goal
  BY <1>1, <1>3, TakesOrLeaves DEF Raise, Goto, exposureState
<1>4. ASSUME NEW label, Interrupted(r, label), pc[r] \notin Attending PROVE Goal
  BY <1>2, <1>4 DEF Interrupted, MarkAborted, MarkPaused, Raise, exposureState
<1>5. CASE PrepareInstrument(r)
  BY <1>2, <1>5 DEF PrepareInstrument, exposureState, Attending
<1>6. CASE OpenTransaction(r)
  BY <1>1, <1>6, TakesOrLeaves DEF OpenTransaction, exposureState
<1>7. CASE CheckOrdinal(r)
  BY <1>2, <1>4, <1>7 DEF CheckOrdinal, exposureState, Attending
<1>8. CASE Move(r)
  <2>1. ASSUME NEW k, Exposes(r, k) PROVE Goal
    <3>1. /\ job[r] \in Seqs /\ ordinal[r] \in Ordinals(job[r])
          /\ k \in 1 .. Len(rows[job[r]][ordinal[r]]) + 1
          /\ rows' = SetRow(job[r], ordinal[r], k, "EXPOSING")
      BY <1>0, <1>8, <2>1, NextRowIs DEF Move, Exposes, TypeOK, RunnersOK, Working, PC
    <3>2. pc'[r] = "expose" /\ row'[r] = k /\ ordinal' = ordinal /\ pc[r] = "move"
      BY <1>0, <1>8, <2>1 DEF Exposes, Move
    <3>3. \/ <<s, o, i>> = <<job[r], ordinal[r], k>>
          \/ Exposed(s, o, i)
      BY <1>0, <3>1, SetRowWrites DEF Exposed
    <3> QED
      BY <1>1, <3>2, <3>3 DEF Takes, Exposure
  <2> QED
    BY <1>3, <1>4, <1>8, <2>1, MoveCases DEF Move, Attending
<1>9. CASE AbortExposure(r)
  <2>1. Raise(r) \/ rows' = SetOwnRow(r, "FAILED")
    BY <1>9 DEF AbortExposure, MarkAborted
  <2> QED
    BY <1>1, <1>3, <1>9, <2>1, TakesOrLeaves DEF AbortExposure
<1>10. CASE Expose(r)
  <2>1. /\ pc[r] = "expose" /\ rows' = rows /\ UNCHANGED <<job, ordinal, row>>
        /\ pc'[r] \in {"adopted", "register", "fail"}
    BY <1>0, <1>10 DEF Expose, Goto, KeepProgress
  <2> QED
    BY <2>1 DEF Exposed, Takes, Exposure
<1>11. CASE Register(r) \/ Adopt(r)
  <2>1. \/ Raise(r)
        \/ rows' = SetOwnRow(r, "COMMITTED") \/ rows' = SetOwnRow(r, "READING")
    BY <1>11 DEF Register, Adopt, EndExposure
  <2> QED
    BY <1>1, <1>3, <1>11, <2>1, TakesOrLeaves DEF Register, Adopt
<1>12. CASE PostExposure(r)
  BY <1>2, <1>4, <1>12 DEF PostExposure, exposureState, Attending
<1>13. CASE Finish(r)
  BY <1>2, <1>3, <1>4, <1>13 DEF Finish, exposureState, Attending
<1>14. CASE FailSequence(r)
  <2>1. pc[r] = "fail" /\ rows' = FailedRows(job[r])
    BY <1>14 DEF FailSequence, EntersSafeFault
  <2>2. s # job[r] /\ rows'[s][o] = rows[s][o]
    BY <1>0, <2>1 DEF Exposed, FailedRows, RowsOK
  <2> QED
    BY <2>1, <2>2 DEF Exposed, Takes
<1> QED
  BY <1>5, <1>6, <1>7, <1>8, <1>9, <1>10, <1>11, <1>12, <1>13, <1>14 DEF SequenceStep

LEMMA SequenceAttends ==
  ASSUME TypeOK, agent.up, NEW r \in Runners, SequenceStep(r), instrument' = "EXPOSING"
  PROVE  pc'[r] \in Attending \/ (instrument = "EXPOSING" /\ pc[r] \notin Attending)
<1>0. pc \in [Runners -> PC] /\ instrument \in InstrumentState
  BY DEF TypeOK, RunnersOK, DatabaseOK
<1> USE DEF Goto, Raise, Attending
<1>1. CASE PrepareInstrument(r)
  BY <1>0, <1>1 DEF PrepareInstrument
<1>2. CASE OpenTransaction(r)
  BY <1>0, <1>2 DEF OpenTransaction
<1>3. ASSUME NEW label, Interrupted(r, label), pc[r] \notin Attending
      PROVE  pc'[r] \in Attending \/ (instrument = "EXPOSING" /\ pc[r] \notin Attending)
  BY <1>0, <1>3 DEF Interrupted, MarkAborted, MarkPaused
<1>4. CASE CheckOrdinal(r)
  BY <1>3, <1>4 DEF CheckOrdinal
<1>5. CASE Move(r)
  BY <1>0, <1>3, <1>5 DEF Move
<1>6. CASE AbortExposure(r)
  BY <1>0, <1>6 DEF AbortExposure, MarkAborted
<1>7. CASE Expose(r)
  BY <1>0, <1>7 DEF Expose
<1>8. ASSUME NEW rows_, NEW rawFiles_, EndExposure(r, rows_, rawFiles_)
      PROVE  pc'[r] \in Attending
  BY <1>0, <1>8 DEF EndExposure
<1>9. CASE Register(r) \/ Adopt(r)
  BY <1>0, <1>8, <1>9 DEF Register, Adopt
<1>10. CASE PostExposure(r)
  BY <1>3, <1>10 DEF PostExposure
<1>11. CASE Finish(r)
  BY <1>0, <1>3, <1>11 DEF Finish
<1>12. CASE FailSequence(r)
  BY <1>12 DEF FailSequence, EntersSafeFault
<1> QED
  BY <1>1, <1>2, <1>4, <1>5, <1>6, <1>7, <1>9, <1>10, <1>11, <1>12 DEF SequenceStep

LEMMA OrdinalStill ==
  ASSUME TypeOK, NEW r \in Runners, SequenceStep(r), NEW q \in Runners, q # r
  PROVE  ordinal'[q] = ordinal[q]
<1>1. ordinal \in [Runners -> Nat]
  BY DEF TypeOK, RunnersOK
<1>2. ordinal' = ordinal \/ \E o : ordinal' = [ordinal EXCEPT ![r] = o]
  BY DEF SequenceStep, PrepareInstrument, OpenTransaction, CheckOrdinal, Move, AbortExposure,
         Expose, Register, Adopt, PostExposure, Finish, FailSequence, KeepProgress, Advance
<1> QED
  BY <1>1, <1>2

LEMMA AttendStep ==
  ASSUME "stop" \notin Disturbances, "agent_down" \notin Disturbances,
         PlaneInv, AttendInv, [Next]_vars
  PROVE  AttendInv'
<1>0. TypeOK /\ pc \in [Runners -> PC] /\ job \in [Runners -> {0} \cup Seqs] /\ RowsOK(rows)
  BY DEF PlaneInv, TypeOK, RunnersOK, DatabaseOK
<1>1. ASSUME UNCHANGED <<pc, job, ordinal, row>>, instrument' \in {instrument, "OFFLINE"},
             agent'.up,
             \A s \in Seqs : \A o \in Ordinals(s) : \A i : Exposed(s, o, i)' => Exposed(s, o, i)
      PROVE  AttendInv'
  <2>1. ASSUME NEW s \in Seqs, NEW o \in Ordinals(s), NEW i, Exposed(s, o, i)'
        PROVE  \E r \in Runners : Takes(r, s, o, i)'
    <3>1. PICK r \in Runners : Takes(r, s, o, i)
      BY <1>1, <2>1 DEF AttendInv, RowsAttended
    <3> QED
      BY <1>1, <3>1 DEF Takes, Exposure
  <2> QED
    BY <1>1, <2>1 DEF AttendInv, InstrumentAttended, RowsAttended
<1>2. ASSUME rows' = rows
      PROVE  \A s \in Seqs : \A o \in Ordinals(s) : \A i : Exposed(s, o, i)' => Exposed(s, o, i)
  BY <1>2 DEF Exposed
<1>3. ASSUME NEW r \in Runners, RunnerStep(r) PROVE AttendInv'
  <2>1. CASE SequenceStep(r)
    <3>1. agent'.up
      BY <1>0, <2>1, SequenceStepAgent DEF AgentAfter, AttendInv
    <3>2. \A q \in Runners \ {r} : pc'[q] = pc[q]
      BY <1>0, <2>1, SequenceStepLease
    <3>3. ASSUME instrument' = "EXPOSING" PROVE \E q \in Runners : pc'[q] \in Attending
      <4>1. CASE pc'[r] \in Attending
        BY <4>1
      <4>2. CASE instrument = "EXPOSING" /\ pc[r] \notin Attending
        <5>1. PICK q \in Runners : pc[q] \in Attending
          BY <4>2 DEF AttendInv, InstrumentAttended
        <5> QED
          BY <3>2, <4>2, <5>1
      <4> QED
        BY <1>0, <2>1, <3>3, <4>1, <4>2, SequenceAttends DEF AttendInv
    <3>4. ASSUME NEW s \in Seqs, NEW o \in Ordinals(s), NEW i, Exposed(s, o, i)'
          PROVE  \E q \in Runners : Takes(q, s, o, i)'
      <4>1. CASE Takes(r, s, o, i)'
        BY <4>1
      <4>2. CASE Exposed(s, o, i) /\ ~Takes(r, s, o, i)
        <5>1. PICK q \in Runners : Takes(q, s, o, i)
          BY <4>2 DEF AttendInv, RowsAttended
        <5>2. q # r
          BY <4>2, <5>1
        <5>3. pc'[q] = pc[q] /\ job'[q] = job[q] /\ row'[q] = row[q]
          BY <2>1, <5>2, OthersStill
        <5>4. ordinal'[q] = ordinal[q]
          BY <2>1, <5>2, OrdinalStill DEF PlaneInv
        <5> QED
          BY <5>1, <5>3, <5>4 DEF Takes, Exposure
      <4> QED
        BY <1>0, <2>1, <3>4, <4>1, <4>2, SequenceTakes DEF AttendInv
    <3> QED
      BY <3>1, <3>3, <3>4 DEF AttendInv, InstrumentAttended, RowsAttended
  <2>2. CASE PickSequence(r)
    <3>1. /\ pc[r] = "idle" /\ pc' = [pc EXCEPT ![r] = "prepare"] /\ instrument' = instrument
          /\ agent' = agent /\ UNCHANGED <<rows, ordinal, row>>
      BY <2>2 DEF PickSequence, Goto, device, exposureState
    <3>2. \E s : job' = [job EXCEPT ![r] = s]
      BY <2>2 DEF PickSequence
    <3>3. \A q \in Runners \ {r} : pc'[q] = pc[q] /\ job'[q] = job[q]
      BY <1>0, <3>1, <3>2
    <3>4. ASSUME NEW q \in Runners, pc[q] \in Attending PROVE q # r /\ pc'[q] \in Attending
      BY <3>1, <3>3, <3>4 DEF Attending
    <3>5. ASSUME NEW q \in Runners, NEW s, NEW o, NEW i, Takes(q, s, o, i)
          PROVE  Takes(q, s, o, i)'
      BY <3>1, <3>3, <3>5 DEF Takes, Exposure
    <3>6. InstrumentAttended'
      BY <3>1, <3>4 DEF AttendInv, InstrumentAttended
    <3>7. RowsAttended'
      BY <1>2, <3>1, <3>5 DEF AttendInv, RowsAttended
    <3> QED
      BY <3>1, <3>6, <3>7 DEF AttendInv
  <2>3. CASE IdlePoll(r)
    BY <1>1, <1>2, <2>3 DEF IdlePoll, locals, device, exposureState, AttendInv
  <2> QED
    BY <1>3, <2>1, <2>2, <2>3, RunnerSplit
<1>4. CASE OperatorStep
  <2>1. agent' = agent
    BY <1>4 DEF OperatorStep, Start, Pause, Resume, Abort, Recover, Untouched, device
  <2> QED
    BY <1>1, <1>2, <1>4, <2>1, OperatorDoes DEF AttendInv
<1>5. CASE EnvironmentStep
  <2>1. UNCHANGED <<pc, job, ordinal, row, instrument>>
    BY <1>5 DEF EnvironmentStep, InjectFault, ClearFault, AgentRestart, LeaseExpire, ScanOpen,
                ScanCommit, Stop, locals
  <2>2. agent'.up
    BY <1>0, <1>5 DEF EnvironmentStep, InjectFault, ClearFault, AgentRestart, LeaseExpire, ScanOpen,
                ScanCommit, Stop, device, FreshAgent, AttendInv, TypeOK, AgentOK
  <2>3. rows' = rows \/ rows' = SetRow(scan.id[1], scan.id[2], scan.id[3], "COMMITTED")
    BY <1>5 DEF EnvironmentStep, InjectFault, ClearFault, AgentRestart, LeaseExpire, ScanOpen,
                ScanCommit, Stop, exposureState
  <2>4. ASSUME NEW s \in Seqs, NEW o \in Ordinals(s), NEW i, Exposed(s, o, i)'
        PROVE  Exposed(s, o, i)
    <3>1. CASE rows' = rows
      BY <1>2, <2>4, <3>1
    <3>2. CASE rows' = SetRow(scan.id[1], scan.id[2], scan.id[3], "COMMITTED")
      BY <1>0, <2>4, <3>2, NotExposed
    <3> QED
      BY <2>3, <3>1, <3>2
  <2> QED
    BY <1>1, <2>1, <2>2, <2>4
<1>6. CASE UNCHANGED vars
  BY <1>1, <1>2, <1>6 DEF vars, locals, device, exposureState, AttendInv
<1> QED
  BY <1>3, <1>4, <1>5, <1>6 DEF Next

(* Neither the instrument nor an exposure row is ever left EXPOSING with    *)
(* nobody attending to it: every way out of _take_exposure settles them or  *)
(* goes through _fail_sequence, which fails the rows of its sequence.  Any  *)
(* number of runners may have lost and taken over the lease meanwhile.      *)
THEOREM AttendedTheorem ==
  ASSUME "stop" \notin Disturbances, "agent_down" \notin Disturbances
  PROVE  Spec => []ExposingIsAttended
<1>1. Init => AttendInv
  <2>1. ASSUME Init, NEW s \in Seqs, NEW o \in Ordinals(s) PROVE rows[s][o] = <<>>
    BY <2>1 DEF Init
  <2> QED
    BY <2>1 DEF Init, FreshAgent, AttendInv, InstrumentAttended, RowsAttended, Exposed
<1>2. PlaneInv /\ AttendInv /\ [Next]_vars => AttendInv'
  BY AttendStep
<1>3. AttendInv => ExposingIsAttended
  BY DEF AttendInv, InstrumentAttended, RowsAttended, Exposed, Attending, ExposingIsAttended
<1> QED
  BY <1>1, <1>2, <1>3, PlaneInvariant, PTL DEF Spec

-----------------------------------------------------------------------------
(* What is proved of the lease protocol carries over to the control plane.  *)

LeaseProofs == INSTANCE ControlLeaseProofs WITH lastToken <- agent.token

(* Two runners never work with the same fencing token, also when a lease    *)
(* runs out in the middle of a sequence, and once the leader's command has  *)
(* reached the device agent it takes no command of the other one.  No       *)
(* assumption on the lease is needed: this is what it guarantees when it    *)
(* does run out (acquire_or_renew_lease, SimulatorDevice.execute).          *)
THEOREM PlaneFencing ==
  Spec => [](Lease!TokenUnique /\ Lease!FencedByTheLeader)
<1>1. LeaseProofs!LeaseSpec => []LeaseProofs!TokenUnique
  BY LeaseProofs!TokensAreUnique, LeaseAssumption
<1>2. LeaseProofs!LeaseSpec => []LeaseProofs!FencedByTheLeader
  BY LeaseProofs!LeaderFencesOthers, LeaseAssumption
<1>3. Lease!LeaseInit => LeaseProofs!LeaseInit
  BY DEF Lease!LeaseInit, LeaseProofs!LeaseInit
<1>4. [Lease!LeaseNext]_(Lease!leaseVars) => [LeaseProofs!LeaseNext]_(LeaseProofs!leaseVars)
  BY DEF Lease!LeaseNext, LeaseProofs!LeaseNext, Lease!leaseVars, LeaseProofs!leaseVars,
         Lease!Acquire, LeaseProofs!Acquire, Lease!AcquireOrRenew, LeaseProofs!AcquireOrRenew,
         Lease!MayTake, LeaseProofs!MayTake, Lease!GrantedToken, LeaseProofs!GrantedToken,
         Lease!Stop, LeaseProofs!Stop, Lease!Command, LeaseProofs!Command, Lease!Expire,
         LeaseProofs!Expire, Lease!AgentRestart, LeaseProofs!AgentRestart,
         Lease!NotFenced, LeaseProofs!NotFenced
<1>5. LeaseProofs!TokenUnique => Lease!TokenUnique
  BY DEF LeaseProofs!TokenUnique, Lease!TokenUnique
<1>6. LeaseProofs!FencedByTheLeader => Lease!FencedByTheLeader
  BY DEF LeaseProofs!FencedByTheLeader, Lease!FencedByTheLeader, LeaseProofs!NotFenced,
         Lease!NotFenced
<1> QED
  BY <1>1, <1>2, <1>3, <1>4, <1>5, <1>6, PlaneKeepsLease, PTL
     DEF KeepsLease, Lease!LeaseSpec, LeaseProofs!LeaseSpec
=============================================================================
