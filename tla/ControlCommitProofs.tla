------------------------- MODULE ControlCommitProofs -------------------------
(***************************************************************************)
(* Proofs about what the control plane and the recovery scanner commit: it *)
(* is counted once and stays, whoever of the two registers it, as long as  *)
(* the device agent answers where the scanner runs; the exposure being     *)
(* taken is under control and the observation contract is kept.            *)
(***************************************************************************)
EXTENDS ControlSafetyProofs

\* The scanner runs in the acquisition process, which may not be deployed.
NoScanner == "scan" \notin Disturbances

\* Where it is, the device agent always answers (it may be restarted).
ScannerAndAgent == "scan" \in Disturbances => "agent_down" \notin Disturbances

-----------------------------------------------------------------------------
(* The registry: a row is committed exactly when it has a raw file.         *)

IsCommitted(s, o, i) == i \in DOMAIN rows[s][o] /\ rows[s][o][i] = "COMMITTED"

RegistryOK ==
  /\ \A s \in Seqs : \A o \in Ordinals(s) : \A i :
       <<s, o, i>> \in rawFiles => IsCommitted(s, o, i)
  /\ \A s \in Seqs : \A o \in Ordinals(s) : \A i, j :
       IsCommitted(s, o, i) /\ IsCommitted(s, o, j) => i = j
  /\ CompletedMatchesCommitted

\* A sequence in the run the runner picked it for.
InRun == {"RUNNING", "PAUSING", "ABORTING"}

\* The scanner has registered the file before the runner did: the runner is
\* about to fail.
Beaten(r) == pc[r] = "register" /\ Exposure(r) \in rawFiles

\* A runner whose run has ended while it is still in its loop finds the
\* instrument not READY, and takes no exposure.
TakingOK(r) ==
  /\ pc[r] # "adopted"
  /\ Beaten(r) => "scan" \in Disturbances
  /\ pc[r] \in {"move", "expose", "register"} /\ ~Beaten(r) => ~Committed(job[r], ordinal[r])
  /\ pc[r] \in {"expose", "register"} /\ ~Beaten(r) => RowStatus(r) = "EXPOSING"
  /\ pc[r] = "register" => view[r] # NoView
  /\ view[r] # NoView /\ ~Beaten(r) => view[r].completed = completed[job[r]]
  /\ pc[r] \in {"prepare", "expose", "register"} => status[job[r]] \in InRun
  /\ pc[r] \in {"check", "move", "post", "final"} =>
       /\ instrument # "EXPOSING"
       /\ status[job[r]] \notin InRun => instrument # "READY"

\* A file without registration is about to be registered by the runner, or the
\* runner was stopped then and its run never goes on.
Registering(id) == \E r \in Runners : pc[r] = "register" /\ Exposure(r) = id

Abandoned(s) ==
  /\ "stop" \in Disturbances /\ status[s] \in InRun
  /\ \A r \in Runners : pc[r] # "idle" => job[r] # s

OrphansOK ==
  /\ \A id \in l0 \ rawFiles : /\ ~Committed(id[1], id[2])
                               /\ Registering(id) \/ Abandoned(id[1])
  /\ \A id, x \in l0 \ rawFiles : id[1] = x[1] => id = x

\* What the scanner has read of a file it is about to register still holds.
ScanOK ==
  /\ "scan" \notin Disturbances => scan = NoScan
  /\ "scan" \in Disturbances =>
       /\ agent.up /\ OrphansOK
       /\ scan # NoScan /\ scan.id \notin rawFiles =>
            ~scan.wasCommitted /\ scan.completed = completed[scan.id[1]]

CommitInv == RegistryOK /\ ScanOK /\ \A r \in Runners : TakingOK(r)

\* The same rows are committed before and after a step.
SameCommitted ==
  \A s \in Seqs : \A o \in Ordinals(s) : \A i : IsCommitted(s, o, i)' <=> IsCommitted(s, o, i)

LatchKept == (instrument' = "SAFE_FAULT") <=> (instrument = "SAFE_FAULT")

\* A step of a runner at which no exposure is committed.
Quiet(r) ==
  /\ SameCommitted /\ UNCHANGED <<rawFiles, completed>>
  /\ \/ status' = status /\ LatchKept
     \/ /\ status[job[r]] \in {"PAUSING", "ABORTING"} /\ LatchKept
        /\ \E x \in Left : status' = [status EXCEPT ![job[r]] = x]
     \/ /\ status[job[r]] \in InRun /\ LatchKept
        /\ status' = [status EXCEPT ![job[r]] = "SUCCEEDED"]
     \/ /\ status[job[r]] \in Live /\ instrument' = "SAFE_FAULT"
        /\ status' = [status EXCEPT ![job[r]] = "FAILED"]

\* A step at which one is.
Commits(r) ==
  /\ Ends(r, SetOwnRow(r, "COMMITTED"), rawFiles \cup {Exposure(r)})
  /\ pc[r] = "register" /\ Exposure(r) \notin rawFiles

LEMMA RowsSame ==
  ASSUME rows' = rows
  PROVE  SameCommitted
BY DEF SameCommitted, IsCommitted

LEMMA RowsWrite ==
  ASSUME RowsOK(rows), NEW s \in Seqs, NEW o \in Ordinals(s),
         NEW i \in 1 .. Len(rows[s][o]) + 1, NEW value, value # "COMMITTED",
         ~IsCommitted(s, o, i), rows' = SetRow(s, o, i, value)
  PROVE  SameCommitted
<1> DEFINE new == SetRow(s, o, i, value)
<1>1. /\ \A t \in Seqs : \A p \in Ordinals(t) : t # s \/ p # o => new[t][p] = rows[t][p]
      /\ DOMAIN new[s][o] = DOMAIN rows[s][o] \cup {i}
      /\ new[s][o][i] = value
      /\ \A j \in DOMAIN rows[s][o] : j # i => new[s][o][j] = rows[s][o][j]
  BY SetRowWrites
<1>2. rows' = new
  OBVIOUS
<1> HIDE DEF new
<1> QED
  BY <1>1, <1>2 DEF SameCommitted, IsCommitted

LEMMA RowsFail ==
  ASSUME RowsOK(rows), NEW s \in Seqs, rows' = FailedRows(s)
  PROVE  SameCommitted
<1>1. \A t \in Seqs : \A o \in Ordinals(t) :
        /\ DOMAIN rows'[t][o] = DOMAIN rows[t][o]
        /\ \A i \in DOMAIN rows[t][o] :
             rows'[t][o][i] = "COMMITTED" <=> rows[t][o][i] = "COMMITTED"
  BY DEF FailedRows, RowsOK
<1> QED
  BY <1>1 DEF SameCommitted, IsCommitted

LEMMA CommittedIs ==
  ASSUME NEW s, NEW o
  PROVE  Committed(s, o) <=> \E i : IsCommitted(s, o, i)
BY DEF Committed, IsCommitted

LEMMA SameOrdinals ==
  ASSUME SameCommitted, NEW s \in Seqs, NEW o \in Ordinals(s)
  PROVE  Committed(s, o)' <=> Committed(s, o)
BY DEF SameCommitted, Committed, IsCommitted

LEMMA RegistryKept ==
  ASSUME RegistryOK, SameCommitted, UNCHANGED <<rawFiles, completed>>
  PROVE  RegistryOK'
<1>1. ASSUME NEW s \in Seqs
      PROVE  {o \in Ordinals(s) : Committed(s, o)'} = {o \in Ordinals(s) : Committed(s, o)}
  BY SameOrdinals
<1>2. CompletedMatchesCommitted'
  BY <1>1 DEF RegistryOK, CompletedMatchesCommitted
<1> QED
  BY <1>2 DEF RegistryOK, SameCommitted
-----------------------------------------------------------------------------
(* What each step of a runner does to the registry.                         *)

EffectOK(r) == TakingOK(r)' /\ (Quiet(r) \/ Commits(r))

LEMMA RaisedEffect ==
  ASSUME PlaneInv, NEW r \in Runners, Raise(r), view'[r] = NoView
  PROVE  EffectOK(r)
<1>1. UNCHANGED <<status, rows, rawFiles, completed, instrument>> /\ pc' = [pc EXCEPT ![r] = "fail"]
  BY DEF Raise, Goto, sequenceRow, exposureState
<1>2. pc'[r] = "fail"
  BY <1>1 DEF PlaneInv, TypeOK, RunnersOK
<1> QED
  BY <1>1, <1>2, RowsSame DEF EffectOK, TakingOK, Beaten, Quiet, LatchKept

LEMMA InterruptedEffect ==
  ASSUME PlaneInv, RegistryOK, NEW r \in Runners, WorkerOK(r), TakingOK(r), job[r] \in Seqs,
         pc[r] \in {"check", "move", "post", "final"}, view[r] # NoView,
         NEW label \in {"idle", "post"}, Interrupted(r, label), view'[r] = NoView, job' = job
  PROVE  EffectOK(r)
<1>1. status[job[r]] \in {"PAUSING", "ABORTING"} /\ instrument # "EXPOSING"
  BY DEF Interrupted, WorkerOK, ViewOK, Follows, TakingOK, Beaten
<1>2. CASE Raise(r)
  BY <1>2, RaisedEffect
<1>3. CASE ~Raise(r)
  <2>1. /\ pc' = [pc EXCEPT ![r] = label] /\ LatchKept
        /\ \E x \in Left : status' = [status EXCEPT ![job[r]] = x]
        /\ UNCHANGED <<rows, rawFiles, completed>>
        /\ instrument' \notin {"READY", "EXPOSING"}
    BY <1>1, <1>3 DEF Interrupted, MarkAborted, MarkPaused, SetStatus, Goto, Left, exposureState,
                Moves, CanMoveTo, AllowedTransitions, InstrumentState, LatchKept
  <2>2. pc'[r] = label
    BY <2>1 DEF PlaneInv, TypeOK, RunnersOK
  <2>3. TakingOK(r)'
    BY <2>1, <2>2 DEF TakingOK, Beaten
  <2> QED
    BY <1>1, <2>1, <2>3, RowsSame DEF EffectOK, Quiet
<1> QED
  BY <1>2, <1>3

LEMMA AdvanceEffect ==
  ASSUME PlaneInv, NEW r \in Runners, TakingOK(r), pc[r] \in {"check", "post"},
         Advance(r), view'[r] = NoView, UNCHANGED <<job, sequenceRow, exposureState, instrument>>
  PROVE  EffectOK(r)
<1>1. UNCHANGED <<status, completed, rows, rawFiles>>
  BY DEF sequenceRow, exposureState
<1>2. pc'[r] \in {"check", "final"}
  BY DEF Advance, Goto, PlaneInv, TypeOK, RunnersOK
<1>3. TakingOK(r)'
  BY <1>1, <1>2 DEF TakingOK, Beaten
<1> QED
  BY <1>1, <1>3, RowsSame DEF EffectOK, Quiet, LatchKept

LEMMA PrepareEffect ==
  ASSUME PlaneInv, NEW r \in Runners, WorkerOK(r), TakingOK(r), PrepareInstrument(r)
  PROVE  EffectOK(r)
<1>0. pc[r] = "prepare" /\ view[r] = NoView /\ status[job[r]] \in InRun
  BY DEF PrepareInstrument, WorkerOK, ViewOK, TakingOK, Beaten
<1>1. /\ UNCHANGED <<status, completed, rows, rawFiles, job, view>>
      /\ \/ pc' = [pc EXCEPT ![r] = "fail"] /\ instrument' = instrument
         \/ /\ pc' = [pc EXCEPT ![r] = "check"] /\ instrument' = "READY"
            /\ instrument # "SAFE_FAULT"
  BY DEF PrepareInstrument, PrepareAllowed, Goto, sequenceRow, exposureState
<1>2. \/ pc'[r] = "fail"
      \/ pc'[r] = "check" /\ instrument' = "READY"
  BY <1>1 DEF PlaneInv, TypeOK, RunnersOK
<1>3. TakingOK(r)'
  BY <1>0, <1>1, <1>2 DEF TakingOK, Beaten
<1> QED
  BY <1>1, <1>3, RowsSame DEF EffectOK, Quiet, LatchKept

LEMMA OpenEffect ==
  ASSUME PlaneInv, NEW r \in Runners, TakingOK(r), OpenTransaction(r)
  PROVE  EffectOK(r)
<1>1. /\ UNCHANGED <<status, completed, rows, rawFiles, job, ordinal, row, pc, instrument>>
      /\ view'[r].completed = completed[job[r]] /\ pc[r] # "register"
  BY DEF OpenTransaction, sequenceRow, exposureState, PlaneInv, TypeOK, RunnersOK
<1>2. TakingOK(r)'
  BY <1>1 DEF TakingOK, Beaten, Committed, RowStatus
<1> QED
  BY <1>1, <1>2, RowsSame DEF EffectOK, Quiet, LatchKept

LEMMA CheckEffect ==
  ASSUME PlaneInv, RegistryOK, NEW r \in Runners, WorkerOK(r), TakingOK(r), CheckOrdinal(r)
  PROVE  EffectOK(r)
<1>0. /\ pc[r] = "check" /\ job[r] \in Seqs /\ view[r] # NoView
      /\ view'[r] = NoView /\ UNCHANGED job
  BY DEF CheckOrdinal, PlaneInv, TypeOK, RunnersOK, CloseView, KeepProgress
<1>1. CASE Committed(job[r], ordinal[r])
  <2>1. Advance(r) /\ UNCHANGED <<sequenceRow, exposureState, instrument>>
    BY <1>1 DEF CheckOrdinal
  <2> QED
    BY <1>0, <2>1, AdvanceEffect
<1>2. CASE Interrupted(r, "idle")
  BY <1>0, <1>2, InterruptedEffect
<1>3. CASE ~Committed(job[r], ordinal[r]) /\ ~Interrupted(r, "idle")
  <2>1. /\ pc' = [pc EXCEPT ![r] = "move"] /\ UNCHANGED <<status, completed, rows, rawFiles>>
        /\ ordinal' = ordinal /\ instrument' = instrument
    BY <1>3 DEF CheckOrdinal, Goto, KeepProgress, sequenceRow, exposureState
  <2>2. pc'[r] = "move"
    BY <2>1 DEF PlaneInv, TypeOK, RunnersOK
  <2>3. TakingOK(r)'
    BY <1>0, <1>3, <2>1, <2>2 DEF TakingOK, Beaten, Committed
  <2> QED
    BY <2>1, <2>3, RowsSame DEF EffectOK, Quiet, LatchKept
<1> QED
  BY <1>1, <1>2, <1>3

LEMMA MoveEffect ==
  ASSUME PlaneInv, RegistryOK, NEW r \in Runners, WorkerOK(r), TakingOK(r), Move(r)
  PROVE  EffectOK(r)
<1>0. /\ pc[r] = "move" /\ job[r] \in Seqs /\ view[r] # NoView /\ RowsOK(rows)
      /\ ordinal[r] \in Ordinals(job[r]) /\ view'[r] = NoView /\ UNCHANGED job
      /\ status[job[r]] \in Live
  BY DEF Move, PlaneInv, TypeOK, RunnersOK, DatabaseOK, Working, PC, CloseView, KeepProgress,
         WorkerOK, ViewOK
<1>1. CASE Interrupted(r, "post")
  BY <1>0, <1>1, InterruptedEffect
<1>2. CASE Raise(r)
  BY <1>0, <1>2, RaisedEffect
<1>3. ASSUME NEW i, Exposes(r, i) PROVE EffectOK(r)
  <2>1. /\ i \in 1 .. Len(rows[job[r]][ordinal[r]]) + 1
        /\ ~IsCommitted(job[r], ordinal[r], i)
        /\ rows' = SetRow(job[r], ordinal[r], i, "EXPOSING")
        /\ UNCHANGED <<status, completed, rawFiles, ordinal>>
    BY <1>0, <1>3, NextRowIs DEF Exposes, sequenceRow, IsCommitted
  <2>2. SameCommitted
    BY <1>0, <2>1, RowsWrite
  <2>3. rows'[job[r]][ordinal[r]][i] = "EXPOSING"
    BY <1>0, <2>1, SetRowWrites
  <2>4. pc'[r] = "expose" /\ row'[r] = i /\ instrument' = "EXPOSING" /\ instrument = "READY"
    BY <1>0, <1>3 DEF Exposes, PlaneInv, TypeOK, RunnersOK, DatabaseOK, Moves, CanMoveTo,
                AllowedTransitions, InstrumentState, TakingOK, Beaten
  <2>5. status[job[r]] \in InRun
    BY <1>0, <2>4 DEF TakingOK, Beaten
  <2>6. ASSUME NEW s \in Seqs, s = job[r], NEW o \in Ordinals(s), o = ordinal[r]
        PROVE  ~Committed(s, o)'
    BY <1>0, <2>2, <2>6, SameOrdinals DEF TakingOK, Beaten
  <2>7. TakingOK(r)'
    BY <1>0, <2>1, <2>3, <2>4, <2>5, <2>6 DEF TakingOK, Beaten, RowStatus
  <2> QED
    BY <2>1, <2>2, <2>4, <2>7 DEF EffectOK, Quiet, LatchKept
<1> QED
  BY <1>1, <1>2, <1>3, MoveCases

LEMMA AbortEffect ==
  ASSUME PlaneInv, NEW r \in Runners, WorkerOK(r), TakingOK(r), AbortExposure(r)
  PROVE  EffectOK(r)
<1>0. /\ pc[r] = "expose" /\ view'[r] = NoView /\ UNCHANGED job /\ view[r].status = "ABORTING"
  BY DEF AbortExposure, CloseView, KeepProgress, PlaneInv, TypeOK, RunnersOK
<1>1. /\ job[r] \in Seqs /\ ordinal[r] \in Ordinals(job[r]) /\ RowsOK(rows)
      /\ row[r] \in 1 .. Len(rows[job[r]][ordinal[r]]) + 1
      /\ instrument = "EXPOSING"
  BY <1>0, OwnRow
<1>2. CASE Raise(r)
  BY <1>0, <1>2, RaisedEffect
<1>3. CASE ~Raise(r)
  <2>1. /\ rows' = SetRow(job[r], ordinal[r], row[r], "FAILED") /\ UNCHANGED <<rawFiles, completed>>
        /\ pc' = [pc EXCEPT ![r] = "post"] /\ status' = [status EXCEPT ![job[r]] = "ABORTED"]
        /\ instrument' = "STANDBY"
    BY <1>3 DEF AbortExposure, MarkAborted, SetOwnRow, SetStatus, Goto
  <2>2. ~IsCommitted(job[r], ordinal[r], row[r])
    BY <1>0 DEF TakingOK, Beaten, RowStatus, IsCommitted
  <2>3. SameCommitted
    BY <1>1, <2>1, <2>2, RowsWrite
  <2>4. status[job[r]] \in {"PAUSING", "ABORTING"}
    <3>1. view[r] # NoView
      BY <1>0 DEF NoView
    <3> QED
      BY <1>0, <3>1 DEF WorkerOK, ViewOK, Follows
  <2>5. pc'[r] = "post"
    BY <2>1 DEF PlaneInv, TypeOK, RunnersOK
  <2>6. TakingOK(r)'
    BY <1>0, <2>1, <2>5 DEF TakingOK, Beaten
  <2> QED
    BY <1>1, <2>1, <2>3, <2>4, <2>6 DEF EffectOK, Quiet, LatchKept, Left
<1> QED
  BY <1>2, <1>3
LEMMA ExposeEffect ==
  ASSUME PlaneInv, RegistryOK, NEW r \in Runners, WorkerOK(r), TakingOK(r), Expose(r)
  PROVE  EffectOK(r)
<1>0. /\ pc[r] = "expose" /\ UNCHANGED <<job, ordinal, row, status, completed, rows, rawFiles, instrument>>
      /\ job[r] \in Seqs /\ ordinal[r] \in Ordinals(job[r])
  BY OwnRow DEF Expose, KeepProgress, sequenceRow
<1>1. Exposure(r) \notin rawFiles
  BY <1>0 DEF RegistryOK, IsCommitted, TakingOK, Beaten, Exposure, RowStatus
<1>2. \/ pc'[r] = "register" /\ view' = view /\ view[r] # NoView
      \/ pc'[r] = "fail" /\ view'[r] = NoView
  BY <1>1 DEF Expose, Goto, CloseView, PlaneInv, TypeOK, RunnersOK
<1>3. TakingOK(r)'
  BY <1>0, <1>1, <1>2 DEF TakingOK, Beaten, Exposure, Committed, RowStatus
<1> QED
  BY <1>0, <1>3, RowsSame DEF EffectOK, Quiet, LatchKept

LEMMA RegisterEffect ==
  ASSUME PlaneInv, NEW r \in Runners, WorkerOK(r), TakingOK(r), Register(r) \/ Adopt(r)
  PROVE  EffectOK(r)
<1>0. /\ pc[r] = "register" /\ view'[r] = NoView /\ UNCHANGED job
      /\ status[job[r]] \in InRun /\ Register(r)
  BY DEF Register, Adopt, TakingOK, Beaten, CloseView, KeepProgress, PlaneInv, TypeOK, RunnersOK
<1>1. CASE Raise(r)
  BY <1>0, <1>1, RaisedEffect
<1>2. CASE ~Raise(r)
  <2>1. /\ EndExposure(r, SetOwnRow(r, "COMMITTED"), rawFiles \cup {Exposure(r)})
        /\ Exposure(r) \notin rawFiles
    BY <1>0, <1>2 DEF Register
  <2>2. Commits(r)
    BY <1>0, <1>2, <2>1, EndsOrRaises DEF Commits
  <2>3. pc'[r] = "post" /\ status' = status /\ instrument' \in {"STANDBY", "READY"}
    BY <2>2 DEF Commits, Ends, PlaneInv, TypeOK, RunnersOK
  <2>4. TakingOK(r)'
    BY <1>0, <2>3 DEF TakingOK, Beaten
  <2> QED
    BY <2>2, <2>4 DEF EffectOK
<1> QED
  BY <1>1, <1>2

LEMMA PostEffect ==
  ASSUME PlaneInv, RegistryOK, NEW r \in Runners, WorkerOK(r), TakingOK(r), PostExposure(r)
  PROVE  EffectOK(r)
<1>0. /\ pc[r] = "post" /\ job[r] \in Seqs /\ view[r] # NoView
      /\ view'[r] = NoView /\ UNCHANGED job
  BY DEF PostExposure, PlaneInv, TypeOK, RunnersOK, CloseView, KeepProgress
<1>1. CASE Interrupted(r, "idle")
  BY <1>0, <1>1, InterruptedEffect
<1>2. CASE Advance(r) /\ UNCHANGED <<sequenceRow, exposureState, instrument>>
  BY <1>0, <1>2, AdvanceEffect
<1>3. CASE ~Interrupted(r, "idle") /\ ~(Advance(r) /\ UNCHANGED <<sequenceRow, exposureState, instrument>>)
  <2>1. pc'[r] = "idle" /\ UNCHANGED <<status, completed, rows, rawFiles, instrument>>
    BY <1>3 DEF PostExposure, Goto, sequenceRow, exposureState, PlaneInv, TypeOK, RunnersOK
  <2> QED
    BY <1>0, <2>1, RowsSame DEF EffectOK, TakingOK, Beaten, Quiet, LatchKept
<1> QED
  BY <1>1, <1>2, <1>3

LEMMA FinishEffect ==
  ASSUME PlaneInv, RegistryOK, NEW r \in Runners, WorkerOK(r), TakingOK(r), Finish(r)
  PROVE  EffectOK(r)
<1>0. /\ pc[r] = "final" /\ job[r] \in Seqs /\ view[r] # NoView
      /\ view'[r] = NoView /\ UNCHANGED job
  BY DEF Finish, PlaneInv, TypeOK, RunnersOK, CloseView, KeepProgress
<1>1. CASE Interrupted(r, "idle")
  BY <1>0, <1>1, InterruptedEffect
<1>2. CASE Raise(r)
  BY <1>0, <1>2, RaisedEffect
<1>3. CASE ~Interrupted(r, "idle") /\ ~Raise(r)
  <2>1. /\ pc'[r] = "idle" /\ UNCHANGED <<completed, rows, rawFiles>> /\ LatchKept
        /\ \/ status' = status
           \/ view[r].status = "RUNNING" /\ status' = [status EXCEPT ![job[r]] = "SUCCEEDED"]
    BY <1>3 DEF Finish, Goto, SetStatus, sequenceRow, exposureState, PlaneInv, TypeOK, RunnersOK,
                Moves, CanMoveTo, AllowedTransitions, InstrumentState, LatchKept
  <2>2. view[r].status = "RUNNING" => status[job[r]] \in InRun
    BY <1>0 DEF WorkerOK, ViewOK, Follows, InRun
  <2> QED
    BY <1>0, <2>1, <2>2, RowsSame DEF EffectOK, TakingOK, Beaten, Quiet
<1> QED
  BY <1>1, <1>2, <1>3

LEMMA FailEffect ==
  ASSUME PlaneInv, NEW r \in Runners, WorkerOK(r), FailSequence(r)
  PROVE  EffectOK(r)
<1>0. /\ pc[r] = "fail" /\ job[r] \in Seqs /\ RowsOK(rows) /\ view[r] = NoView
      /\ view' = view /\ UNCHANGED <<rawFiles, completed>> /\ status[job[r]] \in Live
      /\ pc'[r] = "idle"
  BY DEF FailSequence, Goto, PlaneInv, TypeOK, RunnersOK, DatabaseOK, WorkerOK, ViewOK
<1>1. \/ /\ status' = [status EXCEPT ![job[r]] = "FAILED"] /\ rows' = FailedRows(job[r])
         /\ instrument' = "SAFE_FAULT"
      \/ UNCHANGED <<status, rows, instrument>>
  BY DEF FailSequence, SetStatus
<1>2. SameCommitted
  BY <1>0, <1>1, RowsFail, RowsSame
<1>3. TakingOK(r)'
  BY <1>0 DEF TakingOK, Beaten
<1> QED
  BY <1>0, <1>1, <1>2, <1>3 DEF EffectOK, Quiet, LatchKept

LEMMA SequenceEffect ==
  ASSUME PlaneInv, RegistryOK, NEW r \in Runners, WorkerOK(r), TakingOK(r), SequenceStep(r)
  PROVE  EffectOK(r)
BY PrepareEffect, OpenEffect, CheckEffect, MoveEffect, AbortEffect, ExposeEffect, RegisterEffect,
   PostEffect, FinishEffect, FailEffect
   DEF SequenceStep

\* A commit: one more row is committed, of an ordinal that had none.
OneMore(s, o, i) ==
  /\ s \in Seqs /\ o \in Ordinals(s) /\ ~Committed(s, o)
  /\ \A t \in Seqs : \A p \in Ordinals(t) : \A j :
       IsCommitted(t, p, j)' <=> IsCommitted(t, p, j) \/ (t = s /\ p = o /\ j = i)
  /\ rawFiles' = rawFiles \cup {<<s, o, i>>}
  /\ completed' = [completed EXCEPT ![s] = completed[s] + 1]
  /\ status' = status /\ status[s] \in InRun

LEMMA CommitWrites ==
  ASSUME PlaneInv, NEW r \in Runners, WorkerOK(r), TakingOK(r), Commits(r)
  PROVE  /\ OneMore(job[r], ordinal[r], row[r])
         /\ instrument = "EXPOSING" /\ instrument' # "SAFE_FAULT"
<1>0. /\ pc[r] = "register" /\ ~Beaten(r)
      /\ Ends(r, SetOwnRow(r, "COMMITTED"), rawFiles \cup {Exposure(r)})
  BY DEF Commits, Beaten
<1> DEFINE s == job[r]  o == ordinal[r]  i == row[r]
<1>1. /\ s \in Seqs /\ o \in Ordinals(s) /\ RowsOK(rows) /\ i \in DOMAIN rows[s][o]
      /\ i \in 1 .. Len(rows[s][o]) + 1 /\ instrument = "EXPOSING"
  BY <1>0, OwnRow
<1>2. /\ rows' = SetRow(s, o, i, "COMMITTED") /\ status' = status
      /\ rawFiles' = rawFiles \cup {<<s, o, i>>}
      /\ completed' = [completed EXCEPT ![s] = view[r].completed + 1]
      /\ instrument' # "SAFE_FAULT"
  BY <1>0 DEF Ends, SetOwnRow, Exposure
<1>3. /\ \A t \in Seqs : \A p \in Ordinals(t) : t # s \/ p # o => rows'[t][p] = rows[t][p]
      /\ DOMAIN rows'[s][o] = DOMAIN rows[s][o] \cup {i}
      /\ rows'[s][o][i] = "COMMITTED"
      /\ \A j \in DOMAIN rows[s][o] : j # i => rows'[s][o][j] = rows[s][o][j]
  BY <1>1, <1>2, SetRowWrites
<1>4. ~Committed(s, o) /\ status[s] \in InRun
  BY <1>0 DEF TakingOK
<1>5. view[r].completed = completed[s]
  BY <1>0, <1>2 DEF TakingOK
<1> HIDE DEF s, o, i
<1>6. \A t \in Seqs : \A p \in Ordinals(t) : \A j :
        IsCommitted(t, p, j)' <=> IsCommitted(t, p, j) \/ (t = s /\ p = o /\ j = i)
  BY <1>1, <1>3 DEF IsCommitted
<1> QED
  BY <1>1, <1>2, <1>4, <1>5, <1>6 DEF s, o, i, OneMore

LEMMA RegistryCommits ==
  ASSUME PlaneInv, RegistryOK, NEW s, NEW o, NEW i, OneMore(s, o, i)
  PROVE  RegistryOK'
<1>1. /\ s \in Seqs /\ o \in Ordinals(s) /\ ~Committed(s, o)
      /\ \A t \in Seqs : \A p \in Ordinals(t) : \A j :
           IsCommitted(t, p, j)' <=> IsCommitted(t, p, j) \/ (t = s /\ p = o /\ j = i)
      /\ rawFiles' = rawFiles \cup {<<s, o, i>>}
      /\ completed' = [completed EXCEPT ![s] = completed[s] + 1]
  BY DEF OneMore
<1>2. \A j : ~IsCommitted(s, o, j)
  BY <1>1 DEF Committed, IsCommitted
<1>3. \A t \in Seqs : \A p \in Ordinals(t) : \A j :
        <<t, p, j>> \in rawFiles' => IsCommitted(t, p, j)'
  BY <1>1 DEF RegistryOK
<1>4. \A t \in Seqs : \A p \in Ordinals(t) : \A j, k :
        IsCommitted(t, p, j)' /\ IsCommitted(t, p, k)' => j = k
  BY <1>1, <1>2 DEF RegistryOK
<1>5. \A t \in Seqs : \A p \in Ordinals(t) :
        Committed(t, p)' <=> Committed(t, p) \/ (t = s /\ p = o)
  BY <1>1 DEF Committed, IsCommitted
<1>6. ASSUME NEW t \in Seqs
      PROVE  completed'[t] = Cardinality({p \in Ordinals(t) : Committed(t, p)'})
  <2> DEFINE before == {p \in Ordinals(t) : Committed(t, p)}
             after == {p \in Ordinals(t) : Committed(t, p)'}
  <2>1. completed[t] = Cardinality(before) /\ completed \in [Seqs -> Nat]
    BY DEF RegistryOK, CompletedMatchesCommitted, PlaneInv, TypeOK, DatabaseOK
  <2>2. CASE t # s
    <3>1. after = before
      BY <1>5, <2>2
    <3> HIDE DEF before, after
    <3>2. completed'[t] = Cardinality(after)
      BY <1>1, <2>1, <2>2, <3>1
    <3> QED
      BY <3>2 DEF after
  <2>3. CASE t = s
    <3>1. after = before \cup {o} /\ o \notin before
      BY <1>1, <1>5, <2>3
    <3>2. IsFiniteSet(before)
      <4>1. Expected[t] \in Int /\ IsFiniteSet(1 .. Expected[t])
        BY SequenceAssumption, FS_Interval
      <4>2. before \subseteq 1 .. Expected[t]
        BY DEF Ordinals
      <4> QED
        BY <4>1, <4>2, FS_Subset
    <3> HIDE DEF before, after
    <3>3. Cardinality(after) = Cardinality(before) + 1
      BY <3>1, <3>2, FS_AddElement
    <3>4. completed'[t] = Cardinality(after)
      BY <1>1, <2>1, <2>3, <3>3
    <3> QED
      BY <3>4 DEF after
  <2> QED
    BY <2>2, <2>3
<1>7. CompletedMatchesCommitted'
  BY <1>6 DEF CompletedMatchesCommitted
<1> QED
  BY <1>3, <1>4, <1>7 DEF RegistryOK

\* Steps that leave rows, files and counters alone.
LEMMA TakingKept ==
  ASSUME PlaneInv, NEW r \in Runners, TakingOK(r),
         UNCHANGED <<pc, job, ordinal, row, view, rows, rawFiles, completed>>,
         instrument' = instrument \/ (instrument = "SAFE_FAULT" /\ instrument' = "OFFLINE"),
         status' = status \/ \E s \in Seqs : \E x : /\ Requested(status[s], x)
                                                  /\ status' = [status EXCEPT ![s] = x]
  PROVE  TakingOK(r)'
<1>1. CASE pc[r] = "idle"
  BY <1>1 DEF TakingOK, Beaten
<1>2. CASE pc[r] # "idle"
  <2>1. \/ status'[job[r]] = status[job[r]]
        \/ Requested(status[job[r]], status'[job[r]])
    BY <1>2 DEF PlaneInv, TypeOK, DatabaseOK, RunnersOK
  <2>2. status[job[r]] \in InRun => status'[job[r]] \in InRun
    BY <2>1 DEF Requested, InRun
  <2> QED
    BY <2>2 DEF TakingOK, Beaten, Exposure, Committed, RowStatus
<1> QED
  BY <1>1, <1>2

LEMMA CommitInit ==
  ASSUME Init PROVE CommitInv
<1>1. /\ rawFiles = {} /\ l0 = {} /\ scan = NoScan /\ agent.up
      /\ pc = [r \in Runners |-> "idle"]
      /\ view = [r \in Runners |-> NoView] /\ completed = [s \in Seqs |-> 0]
  BY DEF Init, FreshAgent
<1>2. \A s \in Seqs : \A o \in Ordinals(s) : rows[s][o] = <<>>
  BY DEF Init
<1>3. \A s \in Seqs : \A o \in Ordinals(s) : \A i : ~IsCommitted(s, o, i)
  BY <1>2 DEF IsCommitted
<1>4. ASSUME NEW s \in Seqs
      PROVE  completed[s] = Cardinality({o \in Ordinals(s) : Committed(s, o)})
  <2>1. {o \in Ordinals(s) : Committed(s, o)} = {}
    BY <1>3 DEF Committed, IsCommitted
  <2> QED
    BY <1>1, <2>1, FS_EmptySet
<1>5. RegistryOK
  BY <1>1, <1>3, <1>4 DEF RegistryOK, CompletedMatchesCommitted
<1>6. \A r \in Runners : TakingOK(r)
  BY <1>1 DEF TakingOK, Beaten
<1>7. ScanOK
  BY <1>1 DEF ScanOK, OrphansOK
<1> QED
  BY <1>5, <1>6, <1>7 DEF CommitInv

-----------------------------------------------------------------------------
(* The files that wait for their registration, and the scanner.             *)

LEMMA RunnerLeavesScan ==
  ASSUME NEW r, RunnerStep(r)
  PROVE  scan' = scan
BY DEF RunnerStep, PickSequence, IdlePoll, PrepareInstrument, OpenTransaction, CheckOrdinal, Move,
       AbortExposure, Expose, Register, Adopt, PostExposure, Finish, FailSequence

LEMMA AgentStaysUp ==
  ASSUME "agent_down" \notin Disturbances, PlaneInv, agent.up, [Next]_vars
  PROVE  agent'.up
<1>1. ASSUME NEW r \in Runners, SequenceStep(r) PROVE agent'.up
  BY <1>1, SequenceStepAgent DEF AgentAfter, PlaneInv
<1>2. ASSUME NEW r \in Runners, PickSequence(r) \/ IdlePoll(r) PROVE agent'.up
  BY <1>2 DEF PickSequence, IdlePoll, device
<1>3. CASE OperatorStep
  BY <1>3 DEF OperatorStep, Start, Pause, Resume, Abort, Recover, Untouched, device
<1>4. CASE EnvironmentStep
  BY <1>4 DEF EnvironmentStep, InjectFault, ClearFault, AgentRestart, LeaseExpire, ScanOpen,
              ScanCommit, Stop, device, FreshAgent, PlaneInv, TypeOK, AgentOK
<1>5. CASE UNCHANGED vars
  BY <1>5 DEF vars, device
<1> QED
  BY <1>1, <1>2, <1>3, <1>4, <1>5, RunnerSplit DEF Next

\* What a step of a runner does to the files: nothing, unless it has lost to the
\* scanner; or it writes one; or it registers it.
LeavesFiles(r) == UNCHANGED <<l0, rawFiles>> /\ (pc[r] = "register" => Beaten(r))

WritesFile(r) ==
  /\ pc[r] = "expose" /\ pc'[r] = "register" /\ UNCHANGED <<job, ordinal, row, rawFiles>>
  /\ l0' = l0 \cup {Exposure(r)} /\ Exposure(r) \notin rawFiles

LEMMA FilesEffect ==
  ASSUME PlaneInv, agent.up, NEW r \in Runners, TakingOK(r), SequenceStep(r), EffectOK(r)
  PROVE  \/ LeavesFiles(r) \/ WritesFile(r)
         \/ Commits(r) /\ l0' = l0
<1>1. CASE Expose(r)
  BY <1>1 DEF Expose, Goto, KeepProgress, LeavesFiles, WritesFile, PlaneInv, TypeOK, RunnersOK
<1>2. CASE Register(r)
  <2>1. CASE Exposure(r) \in rawFiles
    BY <1>2, <2>1 DEF Register, Raise, exposureState, LeavesFiles, Beaten
  <2>2. CASE Exposure(r) \notin rawFiles
    <3>1. EndExposure(r, SetOwnRow(r, "COMMITTED"), rawFiles \cup {Exposure(r)}) /\ pc[r] = "register"
      BY <1>2, <2>2 DEF Register
    <3>2. Ends(r, SetOwnRow(r, "COMMITTED"), rawFiles \cup {Exposure(r)}) /\ l0' = l0
      BY <3>1 DEF EndExposure, Ends, Goto
    <3> QED
      BY <2>2, <3>1, <3>2 DEF Commits
  <2> QED
    BY <2>1, <2>2
<1>3. ASSUME NEW label, Interrupted(r, label) PROVE UNCHANGED <<l0, rawFiles>>
  BY <1>3 DEF Interrupted, MarkAborted, MarkPaused, Raise, exposureState
<1>4. CASE /\ pc[r] # "register"
           /\ \/ PrepareInstrument(r) \/ OpenTransaction(r) \/ CheckOrdinal(r) \/ Move(r)
              \/ AbortExposure(r) \/ PostExposure(r) \/ Finish(r) \/ FailSequence(r)
  BY <1>3, <1>4 DEF PrepareInstrument, OpenTransaction, CheckOrdinal, Move, AbortExposure,
        PostExposure, Finish, FailSequence, MarkAborted, Raise, exposureState, LeavesFiles
<1> QED
  BY <1>1, <1>2, <1>4 DEF SequenceStep, TakingOK, Adopt, PrepareInstrument, OpenTransaction,
     CheckOrdinal, Move, AbortExposure, PostExposure, Finish, FailSequence

LEMMA OrphansKept ==
  ASSUME OrphansOK, l0' \ rawFiles' \subseteq l0 \ rawFiles,
         \A id \in l0' \ rawFiles' :
           ~Committed(id[1], id[2])' /\ (Registering(id)' \/ Abandoned(id[1])')
  PROVE  OrphansOK'
BY DEF OrphansOK

\* A runner at work has no abandoned sequence, and only its own file to register.
LEMMA OrphanOfWorker ==
  ASSUME OneWorker, OrphansOK, NEW r \in Runners, pc[r] # "idle", NEW id \in l0 \ rawFiles
  PROVE  \/ pc[r] = "register" /\ Exposure(r) = id
         \/ Abandoned(id[1]) /\ id[1] # job[r]
BY DEF OneWorker, OrphansOK, Registering, Abandoned

\* A part of the ordinals that leaves one out has fewer.
LEMMA FewerOrdinals ==
  ASSUME NEW n \in Nat, NEW T \in SUBSET (1 .. n), NEW o \in 1 .. n, o \notin T
  PROVE  Cardinality(T) < n
<1>1. IsFiniteSet(1 .. n) /\ Cardinality(1 .. n) = n
  BY FS_Interval
<1>2. IsFiniteSet(T) /\ Cardinality(T) <= n /\ (n = Cardinality(T) => T = 1 .. n)
  <2> DEFINE N == 1 .. n
  <2> HIDE DEF N
  <2>1. T \in SUBSET N /\ IsFiniteSet(N) /\ Cardinality(N) = n
    BY <1>1 DEF N
  <2>2. IsFiniteSet(T) /\ Cardinality(T) <= n /\ (n = Cardinality(T) => T = N)
    BY <2>1, FS_Subset
  <2> QED
    BY <2>2 DEF N
<1>3. Cardinality(T) \in Nat
  BY <1>2, FS_CardinalityType
<1> QED
  BY <1>2, <1>3

\* The scanner registers what it has read, as the runner would have done it.
LEMMA ScanWrites ==
  ASSUME PlaneInv, FilesOK, CommitInv, ScanCommit, scan.id \notin rawFiles
  PROVE  /\ OneMore(scan.id[1], scan.id[2], scan.id[3])
         /\ Registering(scan.id) \/ Abandoned(scan.id[1])
         /\ scan.id \in l0 /\ OrphansOK
<1> DEFINE s == scan.id[1]  o == scan.id[2]  i == scan.id[3]
<1>1. scan.id \in l0 /\ Known(scan.id) /\ scan # NoScan
  BY DEF FilesOK, ScanCommit
<1>2. /\ OrphansOK /\ ~scan.wasCommitted /\ scan.completed = completed[s]
      /\ ~Committed(s, o) /\ (Registering(scan.id) \/ Abandoned(s))
  BY <1>1 DEF CommitInv, ScanOK, OrphansOK
<1>3. /\ s \in Seqs /\ o \in Ordinals(s) /\ i \in DOMAIN rows[s][o] /\ scan.id = <<s, o, i>>
      /\ RowsOK(rows) /\ i \in 1 .. Len(rows[s][o]) + 1
  <2>1. s \in Seqs /\ o \in Ordinals(s) /\ i \in DOMAIN rows[s][o] /\ scan.id = <<s, o, i>>
    BY <1>1 DEF Known
  <2>2. rows[s][o] \in Seq(ExposureStatus) /\ RowsOK(rows)
    BY <2>1 DEF RowsOK, PlaneInv, TypeOK, DatabaseOK
  <2> QED
    BY <2>1, <2>2
<1>4. status[s] \in InRun
  <2>1. CASE Registering(scan.id)
    <3>1. PICK r \in Runners : pc[r] = "register" /\ Exposure(r) = scan.id
      BY <2>1 DEF Registering
    <3>2. job[r] = s
      BY <3>1 DEF Exposure
    <3> QED
      BY <3>1, <3>2 DEF CommitInv, TakingOK
  <2> QED
    BY <1>2, <2>1 DEF Abandoned
<1>5. completed[s] < Expected[s]
  <2> DEFINE taken == {p \in Ordinals(s) : Committed(s, p)}
  <2>1. completed[s] = Cardinality(taken)
    BY <1>3 DEF CommitInv, RegistryOK, CompletedMatchesCommitted
  <2>2. taken \subseteq 1 .. Expected[s] /\ o \in 1 .. Expected[s] /\ o \notin taken
    BY <1>2, <1>3 DEF Ordinals
  <2>3. Expected[s] \in Nat
    BY <1>3, SequenceAssumption
  <2> HIDE DEF taken
  <2> QED
    BY <2>1, <2>2, <2>3, FewerOrdinals
<1>6. /\ rows' = SetRow(s, o, i, "COMMITTED") /\ rawFiles' = rawFiles \cup {<<s, o, i>>}
      /\ completed' = [completed EXCEPT ![s] = completed[s] + 1] /\ status' = status
  BY <1>2, <1>3, <1>5 DEF ScanCommit
<1>7. /\ \A t \in Seqs : \A p \in Ordinals(t) : t # s \/ p # o => rows'[t][p] = rows[t][p]
      /\ DOMAIN rows'[s][o] = DOMAIN rows[s][o] \cup {i}
      /\ rows'[s][o][i] = "COMMITTED"
      /\ \A j \in DOMAIN rows[s][o] : j # i => rows'[s][o][j] = rows[s][o][j]
  BY <1>3, <1>6, SetRowWrites
<1> HIDE DEF s, o, i
<1>8. \A t \in Seqs : \A p \in Ordinals(t) : \A j :
        IsCommitted(t, p, j)' <=> IsCommitted(t, p, j) \/ (t = s /\ p = o /\ j = i)
  BY <1>3, <1>7 DEF IsCommitted
<1>9. OneMore(s, o, i)
  BY <1>2, <1>3, <1>4, <1>6, <1>8 DEF OneMore
<1> QED
  BY <1>1, <1>2, <1>9 DEF s, o, i

\* No ordinal of another sequence is committed by a commit.
LEMMA OthersUncommitted ==
  ASSUME NEW s, NEW o, NEW i, OneMore(s, o, i),
         NEW t \in Seqs, t # s, NEW p \in Ordinals(t)
  PROVE  Committed(t, p)' <=> Committed(t, p)
BY DEF OneMore, Committed, IsCommitted

LEMMA JobStill ==
  ASSUME NEW r, SequenceStep(r) PROVE job' = job
BY DEF SequenceStep, PrepareInstrument, OpenTransaction, CheckOrdinal, Move, AbortExposure,
       Expose, Register, Adopt, PostExposure, Finish, FailSequence, KeepProgress

LEMMA OrphansSequence ==
  ASSUME "scan" \in Disturbances, PlaneInv, SafetyInv, CommitInv, NEW r \in Runners,
         SequenceStep(r), EffectOK(r)
  PROVE  /\ OrphansOK'
         /\ scan # NoScan /\ scan.id \notin rawFiles' => completed'[scan.id[1]] = completed[scan.id[1]]
<1>0. /\ agent.up /\ OrphansOK /\ OneWorker /\ FilesOK /\ WorkerOK(r) /\ TakingOK(r)
      /\ pc[r] # "idle" /\ job[r] \in Seqs
      /\ status \in [Seqs -> SequenceStatus] /\ completed \in [Seqs -> Nat]
      /\ job' = job /\ \A q \in Runners \ {r} : pc'[q] = pc[q]
  <2>1. agent.up /\ OrphansOK /\ OneWorker /\ FilesOK /\ WorkerOK(r) /\ TakingOK(r)
    BY DEF CommitInv, ScanOK, SafetyInv
  <2>2. pc[r] # "idle" /\ job' = job
    BY SequenceStepLease, JobStill
  <2>3. \A q \in Runners \ {r} : pc'[q] = pc[q]
    BY OthersStill
  <2>4. /\ job[r] \in Seqs /\ status \in [Seqs -> SequenceStatus]
        /\ completed \in [Seqs -> Nat]
    BY <2>2 DEF PlaneInv, TypeOK, RunnersOK, DatabaseOK
  <2> QED
    BY <2>1, <2>2, <2>3, <2>4
<1>1. LeavesFiles(r) \/ WritesFile(r) \/ (Commits(r) /\ l0' = l0)
  BY <1>0, FilesEffect
<1>2. \A id \in l0 : id[1] \in Seqs /\ id[2] \in Ordinals(id[1])
  BY <1>0 DEF FilesOK, Known
<1>3. ASSUME NEW t \in Seqs, t # job[r], Abandoned(t)
      PROVE  Abandoned(t)' /\ \A o \in Ordinals(t) : Committed(t, o)' <=> Committed(t, o)
  <2>1. \A q \in Runners : pc'[q] # "idle" => job'[q] # t
    BY <1>0, <1>3 DEF Abandoned
  <2>2. status'[t] = status[t] /\ \A o \in Ordinals(t) : Committed(t, o)' <=> Committed(t, o)
    <3>1. CASE Quiet(r)
      BY <1>0, <1>3, <3>1, SameOrdinals DEF Quiet
    <3>2. CASE Commits(r)
      <4>1. OneMore(job[r], ordinal[r], row[r])
        BY <1>0, <3>2, CommitWrites
      <4>2. \A o \in Ordinals(t) : Committed(t, o)' <=> Committed(t, o)
        BY <1>3, <4>1, OthersUncommitted
      <4> QED
        BY <4>1, <4>2 DEF OneMore
    <3> QED
      BY <3>1, <3>2 DEF EffectOK
  <2> QED
    BY <1>3, <2>1, <2>2 DEF Abandoned
<1>4. ASSUME NEW id \in l0 \ rawFiles, id \notin rawFiles'
      PROVE  /\ Abandoned(id[1]) /\ id[1] # job[r]
             /\ ~Committed(id[1], id[2])' /\ Abandoned(id[1])'
  <2>1. ~(pc[r] = "register" /\ Exposure(r) = id)
    BY <1>1, <1>4 DEF LeavesFiles, WritesFile, Commits, Ends, Beaten
  <2>2. Abandoned(id[1]) /\ id[1] # job[r] /\ ~Committed(id[1], id[2])
    BY <1>0, <2>1, OrphanOfWorker DEF OrphansOK
  <2> QED
    BY <1>2, <1>3, <2>2
<1>5. OrphansOK'
  <2>1. CASE l0' = l0
    <3>1. rawFiles \subseteq rawFiles'
      BY <1>1 DEF LeavesFiles, WritesFile, Commits, Ends
    <3> QED
      BY <1>0, <1>4, <2>1, <3>1, OrphansKept
  <2>2. CASE WritesFile(r)
    <3>0. PICK new : new = Exposure(r)
      OBVIOUS
    <3>1. /\ pc'[r] = "register" /\ rawFiles' = rawFiles /\ new \notin rawFiles
          /\ l0' = l0 \cup {new} /\ new[1] = job[r] /\ new[2] = ordinal[r]
          /\ job'[r] = job[r] /\ ordinal'[r] = ordinal[r] /\ row'[r] = row[r]
      BY <2>2, <3>0 DEF WritesFile, Exposure
    <3>2. Registering(new)'
      BY <3>0, <3>1 DEF Registering, Exposure
    <3>3. ~Committed(new[1], new[2])'
      BY <3>0, <3>1 DEF EffectOK, TakingOK, Beaten, Exposure, Committed
    <3>4. ASSUME NEW id \in l0' \ rawFiles', NEW x \in l0' \ rawFiles', id[1] = x[1]
          PROVE  id = x
      BY <1>0, <1>4, <3>1, <3>4 DEF OrphansOK
    <3>5. ASSUME NEW id \in l0' \ rawFiles'
          PROVE  ~Committed(id[1], id[2])' /\ (Registering(id)' \/ Abandoned(id[1])')
      <4>1. CASE id = new
        BY <3>2, <3>3, <4>1 DEF Registering, Committed
      <4>2. CASE id # new
        BY <1>4, <3>1, <4>2
      <4> QED
        BY <4>1, <4>2
    <3> QED
      BY <3>4, <3>5 DEF OrphansOK
  <2> QED
    BY <1>1, <2>1, <2>2 DEF LeavesFiles
<1>6. ASSUME scan # NoScan, scan.id \notin rawFiles'
      PROVE  completed'[scan.id[1]] = completed[scan.id[1]]
  <2>1. scan.id \in l0 \ rawFiles
    <3>1. rawFiles \subseteq rawFiles'
      BY <1>1 DEF LeavesFiles, WritesFile, Commits, Ends
    <3> QED
      BY <1>0, <1>6, <3>1 DEF FilesOK
  <2>2. scan.id[1] # job[r] /\ scan.id[1] \in Seqs
    BY <1>2, <1>4, <1>6, <2>1
  <2>3. completed' = completed \/ \E n : completed' = [completed EXCEPT ![job[r]] = n]
    BY DEF EffectOK, Quiet, Commits, Ends
  <2> QED
    BY <1>0, <2>2, <2>3
<1> QED
  BY <1>5, <1>6

-----------------------------------------------------------------------------
(* Every step keeps the invariant.                                          *)

LEMMA CommitSequence ==
  ASSUME PlaneInv, SafetyInv, CommitInv, NEW r \in Runners, SequenceStep(r),
         "scan" \in Disturbances => agent'.up
  PROVE  CommitInv'
<1>1. EffectOK(r)
  BY SequenceEffect DEF SafetyInv, CommitInv
<1>2. RegistryOK'
  <2>1. CASE Quiet(r)
    BY <2>1, RegistryKept DEF Quiet, CommitInv
  <2>2. CASE Commits(r)
    BY <2>2, CommitWrites, RegistryCommits DEF SafetyInv, CommitInv
  <2> QED
    BY <1>1, <2>1, <2>2 DEF EffectOK
<1>3. ScanOK'
  <2>1. scan' = scan
    BY RunnerLeavesScan DEF RunnerStep, SequenceStep
  <2>2. rawFiles \subseteq rawFiles'
    BY <1>1 DEF EffectOK, Quiet, Commits, Ends
  <2>3. "scan" \in Disturbances =>
          /\ OrphansOK'
          /\ scan # NoScan /\ scan.id \notin rawFiles' => completed'[scan.id[1]] = completed[scan.id[1]]
    BY <1>1, OrphansSequence
  <2> QED
    BY <2>1, <2>2, <2>3 DEF CommitInv, ScanOK
<1>4. ASSUME NEW q \in Runners, q # r PROVE TakingOK(q)'
  <2>1. pc[q] = "idle" /\ view[q] = NoView
    BY <1>4, SequenceStepLease DEF SafetyInv, OneWorker, WorkerOK, ViewOK
  <2>2. pc'[q] = "idle" /\ view'[q] = NoView
    BY <1>4, <2>1, OthersStill
  <2> QED
    BY <2>2 DEF TakingOK, Beaten
<1>5. \A q \in Runners : TakingOK(q)'
  BY <1>1, <1>4 DEF EffectOK
<1> QED
  BY <1>2, <1>3, <1>5 DEF CommitInv

LEMMA CommitPick ==
  ASSUME PlaneInv, SafetyInv, CommitInv, OneWorker', NEW r \in Runners, PickSequence(r)
  PROVE  CommitInv'
<1>0. /\ pc \in [Runners -> PC] /\ job \in [Runners -> {0} \cup Seqs]
      /\ status \in [Seqs -> SequenceStatus] /\ \A id \in l0 : id[1] \in Seqs
  BY DEF PlaneInv, TypeOK, RunnersOK, DatabaseOK
<1>1. PICK s \in Seqs : /\ status[s] = "QUEUED" /\ status' = [status EXCEPT ![s] = "RUNNING"]
                        /\ job' = [job EXCEPT ![r] = s]
  BY DEF PickSequence, SetStatus, Pickable
<1>2. /\ pc[r] = "idle" /\ pc' = [pc EXCEPT ![r] = "prepare"]
      /\ UNCHANGED <<rows, rawFiles, l0, completed, scan, view, agent>>
  BY DEF PickSequence, Goto, exposureState, device
<1>3. RegistryOK'
  BY <1>2, RegistryKept, RowsSame DEF CommitInv
<1>4. ASSUME NEW q \in Runners PROVE TakingOK(q)' /\ (q # r => pc[q] = "idle")
  <2>1. view[q] = NoView \/ pc[q] # "idle"
    BY DEF SafetyInv, WorkerOK, ViewOK
  <2>2. CASE q = r
    <3>1. pc'[q] = "prepare" /\ status'[job'[q]] = "RUNNING" /\ view'[q] = NoView
      BY <1>0, <1>1, <1>2, <2>1, <2>2
    <3> QED
      BY <2>2, <3>1 DEF TakingOK, Beaten, InRun
  <2>3. CASE q # r
    <3>1. pc'[q] = pc[q] /\ pc'[r] # "idle"
      BY <1>0, <1>2, <2>3
    <3>2. pc[q] = "idle"
      BY <2>3, <3>1 DEF OneWorker
    <3>3. pc'[q] = "idle" /\ view'[q] = NoView
      BY <1>2, <2>1, <3>1, <3>2
    <3> QED
      BY <3>2, <3>3 DEF TakingOK, Beaten
  <2> QED
    BY <2>2, <2>3
<1>5. ASSUME "scan" \in Disturbances PROVE OrphansOK'
  <2>1. OrphansOK
    BY <1>5 DEF CommitInv, ScanOK
  <2>2. ASSUME NEW id \in l0 \ rawFiles
        PROVE  ~Committed(id[1], id[2])' /\ Abandoned(id[1])'
    <3>1. ~Committed(id[1], id[2]) /\ Abandoned(id[1])
      BY <1>2, <1>4, <2>1 DEF OrphansOK, Registering
    <3>2. id[1] # s /\ status'[id[1]] = status[id[1]]
      BY <1>0, <1>1, <3>1 DEF Abandoned, InRun
    <3>3. \A q \in Runners : pc'[q] # "idle" => job'[q] # id[1]
      BY <1>0, <1>1, <1>2, <1>4, <3>2
    <3> QED
      BY <1>2, <3>1, <3>2, <3>3 DEF Abandoned, Committed
  <2> QED
    BY <1>2, <2>1, <2>2, OrphansKept
<1>6. ScanOK'
  BY <1>2, <1>5 DEF CommitInv, ScanOK
<1> QED
  BY <1>3, <1>4, <1>6 DEF CommitInv

\* Steps that leave runners, rows, files and counters alone.
LEMMA CommitStill ==
  ASSUME PlaneInv, CommitInv,
         UNCHANGED <<pc, job, ordinal, row, view, rows, rawFiles, l0, completed>>,
         scan' \in {scan, NoScan}, "scan" \in Disturbances => agent'.up,
         instrument' = instrument \/ (instrument = "SAFE_FAULT" /\ instrument' = "OFFLINE"),
         status' = status \/ \E s \in Seqs : \E x : /\ Requested(status[s], x)
                                                  /\ status' = [status EXCEPT ![s] = x]
  PROVE  CommitInv'
<1>1. RegistryOK'
  BY RegistryKept, RowsSame DEF CommitInv
<1>2. \A r \in Runners : TakingOK(r)'
  BY TakingKept DEF CommitInv
<1>3. ASSUME "scan" \in Disturbances PROVE OrphansOK'
  <2>1. OrphansOK
    BY <1>3 DEF CommitInv, ScanOK
  <2>2. ASSUME NEW id \in l0 \ rawFiles
        PROVE  ~Committed(id[1], id[2])' /\ (Registering(id)' \/ Abandoned(id[1])')
    <3>1. id[1] \in Seqs /\ status \in [Seqs -> SequenceStatus]
      BY DEF PlaneInv, TypeOK, DatabaseOK
    <3>2. status[id[1]] \in InRun => status'[id[1]] \in InRun
      BY <3>1 DEF Requested, InRun
    <3> QED
      BY <2>1, <3>2 DEF OrphansOK, Registering, Abandoned, Exposure, Committed
  <2> QED
    BY <2>1, <2>2, OrphansKept
<1>4. ScanOK'
  BY <1>3 DEF CommitInv, ScanOK
<1> QED
  BY <1>1, <1>2, <1>4 DEF CommitInv

\* A runner stops: a file it was about to register is left to the scanner.
LEMMA CommitStops ==
  ASSUME PlaneInv, SafetyInv, CommitInv, NEW r \in Runners, Stop(r)
  PROVE  CommitInv'
<1>0. /\ pc \in [Runners -> PC] /\ view \in [Runners -> View]
      /\ job \in [Runners -> {0} \cup Seqs] /\ ordinal \in [Runners -> Nat] /\ row \in [Runners -> Nat]
  BY DEF PlaneInv, TypeOK, RunnersOK
<1>1. /\ pc' = [pc EXCEPT ![r] = "idle"] /\ view' = [view EXCEPT ![r] = NoView]
      /\ job' = [job EXCEPT ![r] = 0] /\ ordinal' = [ordinal EXCEPT ![r] = 0]
      /\ row' = [row EXCEPT ![r] = 0]
      /\ UNCHANGED <<rows, rawFiles, l0, completed, scan, status, instrument, agent>>
      /\ "stop" \in Disturbances
  BY DEF Stop, Goto, CloseView, sequenceRow, exposureState, device
<1>2. RegistryOK'
  BY <1>1, RegistryKept, RowsSame DEF CommitInv
<1>3. ASSUME NEW q \in Runners, q # r
      PROVE  /\ pc'[q] = pc[q] /\ view'[q] = view[q] /\ job'[q] = job[q]
             /\ ordinal'[q] = ordinal[q] /\ row'[q] = row[q]
  BY <1>0, <1>1, <1>3
<1>4. pc'[r] = "idle" /\ view'[r] = NoView
  BY <1>0, <1>1
<1>5. ASSUME NEW q \in Runners PROVE TakingOK(q)'
  <2>1. CASE q = r
    BY <1>4, <2>1 DEF TakingOK, Beaten
  <2>2. CASE q # r
    BY <1>1, <1>3, <2>2 DEF CommitInv, TakingOK, Beaten, Exposure, Committed, RowStatus
  <2> QED
    BY <2>1, <2>2
<1>6. ASSUME "scan" \in Disturbances PROVE OrphansOK'
  <2>1. OrphansOK /\ OneWorker
    BY <1>6 DEF CommitInv, ScanOK, SafetyInv
  <2>2. ASSUME NEW id \in l0 \ rawFiles
        PROVE  Registering(id)' \/ Abandoned(id[1])'
    <3>1. CASE Abandoned(id[1])
      <4>1. \A q \in Runners : pc'[q] # "idle" => job'[q] # id[1]
        BY <1>3, <1>4, <3>1 DEF Abandoned
      <4> QED
        BY <1>1, <3>1, <4>1 DEF Abandoned
    <3>2. ASSUME NEW q \in Runners, pc[q] = "register", Exposure(q) = id
          PROVE  Registering(id)' \/ Abandoned(id[1])'
      <4>1. CASE q # r
        <5>1. pc'[q] = "register" /\ Exposure(q)' = id
          BY <1>3, <3>2, <4>1 DEF Exposure
        <5> QED
          BY <5>1 DEF Registering
      <4>2. CASE q = r
        <5>1. \A p \in Runners : pc'[p] = "idle"
          BY <1>3, <1>4, <2>1, <3>2, <4>2 DEF OneWorker
        <5>2. status[id[1]] \in InRun
          <6>1. job[q] = id[1]
            BY <3>2 DEF Exposure
          <6> QED
            BY <3>2, <6>1 DEF CommitInv, TakingOK
        <5> QED
          BY <1>1, <5>1, <5>2 DEF Abandoned
      <4> QED
        BY <4>1, <4>2
    <3> QED
      BY <2>1, <3>1, <3>2 DEF OrphansOK, Registering
  <2>3. ASSUME NEW id \in l0 \ rawFiles PROVE ~Committed(id[1], id[2])'
    BY <1>1, <2>1 DEF OrphansOK, Committed
  <2> QED
    BY <1>1, <2>1, <2>2, <2>3, OrphansKept
<1>7. ScanOK'
  BY <1>1, <1>6 DEF CommitInv, ScanOK
<1> QED
  BY <1>2, <1>5, <1>7 DEF CommitInv

LEMMA CommitScanOpens ==
  ASSUME PlaneInv, SafetyInv, CommitInv, ScanOpen
  PROVE  CommitInv'
<1>1. /\ UNCHANGED <<pc, job, ordinal, row, view, rows, rawFiles, l0, completed, status, instrument, agent>>
      /\ "scan" \in Disturbances
  BY DEF ScanOpen, sequenceRow, exposureState, device, locals
<1>2. RegistryOK'
  BY <1>1, RegistryKept, RowsSame DEF CommitInv
<1>3. \A r \in Runners : TakingOK(r)'
  BY <1>1, TakingKept DEF CommitInv
<1>4. PICK id \in l0 \ rawFiles :
        scan' = [ id |-> id, wasCommitted |-> rows[id[1]][id[2]][id[3]] = "COMMITTED",
                  completed |-> completed[id[1]] ]
  BY DEF ScanOpen
<1>5. agent.up /\ OrphansOK
  BY <1>1 DEF CommitInv, ScanOK
<1>6. rows[id[1]][id[2]][id[3]] # "COMMITTED"
  <2>1. Known(id) /\ ~Committed(id[1], id[2])
    BY <1>4, <1>5 DEF SafetyInv, FilesOK, OrphansOK
  <2> QED
    BY <2>1 DEF Known, Committed
<1>7. OrphansOK'
  BY <1>1, <1>5 DEF OrphansOK, Registering, Abandoned, Exposure, Committed
<1>8. ScanOK'
  BY <1>1, <1>4, <1>5, <1>6, <1>7 DEF ScanOK
<1> QED
  BY <1>2, <1>3, <1>8 DEF CommitInv

\* The scanner registers a file: if it is the runner's, that one is beaten; if
\* not, its sequence is abandoned and no runner is affected.
LEMMA CommitScans ==
  ASSUME PlaneInv, SafetyInv, CommitInv, ScanCommit
  PROVE  CommitInv'
<1>1. /\ UNCHANGED <<pc, job, ordinal, row, view, l0, status, instrument, agent>>
      /\ scan' = NoScan /\ scan # NoScan
  BY DEF ScanCommit, device, locals
<1>2. "scan" \in Disturbances /\ agent.up /\ OrphansOK
  BY <1>1 DEF CommitInv, ScanOK
<1>3. CASE scan.id \in rawFiles
  <2>1. UNCHANGED <<rows, rawFiles, completed>>
    BY <1>3 DEF ScanCommit
  <2> QED
    BY <1>1, <1>2, <2>1, CommitStill
<1>4. CASE scan.id \notin rawFiles
  <2>0. PICK s, o, i : s = scan.id[1] /\ o = scan.id[2] /\ i = scan.id[3]
    OBVIOUS
  <2>1. /\ OneMore(s, o, i) /\ (Registering(scan.id) \/ Abandoned(s))
        /\ scan.id \in l0 /\ scan.id = <<s, o, i>>
    BY <1>4, <2>0, ScanWrites DEF SafetyInv, FilesOK, Known
  <2>2. RegistryOK'
    BY <2>1, RegistryCommits DEF CommitInv
  <2>3. rawFiles' = rawFiles \cup {scan.id} /\ s \in Seqs /\ completed \in [Seqs -> Nat]
        /\ completed' = [completed EXCEPT ![s] = completed[s] + 1]
    BY <2>1 DEF OneMore, PlaneInv, TypeOK, DatabaseOK
  <2>4. ASSUME NEW r \in Runners PROVE TakingOK(r)'
    <3>0. TakingOK(r)
      BY DEF CommitInv
    <3>1. CASE pc[r] = "idle"
      <4>1. view[r] = NoView
        BY <3>1 DEF SafetyInv, WorkerOK, ViewOK
      <4> QED
        BY <1>1, <3>1, <4>1 DEF TakingOK, Beaten
    <3>2. CASE pc[r] = "register" /\ Exposure(r) = scan.id
      <4>1. Beaten(r)'
        BY <1>1, <2>3, <3>2 DEF Beaten, Exposure
      <4> QED
        BY <1>1, <1>2, <3>0, <3>2, <4>1 DEF TakingOK
    <3>3. CASE pc[r] # "idle" /\ Abandoned(s)
      <4>1. job[r] # s /\ job[r] \in Seqs
        BY <3>3 DEF Abandoned, PlaneInv, TypeOK, RunnersOK
      <4>2. completed'[job[r]] = completed[job[r]] /\ (Beaten(r)' <=> Beaten(r))
        BY <1>1, <2>0, <2>3, <4>1 DEF Beaten, Exposure
      <4>3. rows'[job[r]] = rows[job[r]]
        BY <1>4, <2>0, <4>1 DEF ScanCommit, SetRow, PlaneInv, TypeOK, DatabaseOK, RowsOK
      <4> QED
        BY <1>1, <3>0, <4>2, <4>3 DEF TakingOK, Committed, RowStatus
    <3> QED
      BY <1>2, <2>1, <3>1, <3>2, <3>3 DEF Registering, SafetyInv, OneWorker
  <2>5. OrphansOK'
    <3>1. ASSUME NEW id \in l0' \ rawFiles'
          PROVE  ~Committed(id[1], id[2])' /\ (Registering(id)' \/ Abandoned(id[1])')
      <4>1. id \in l0 \ rawFiles /\ id[1] # s
        BY <1>1, <1>2, <1>4, <2>0, <2>1, <2>3 DEF OrphansOK
      <4>2. id[1] \in Seqs /\ id[2] \in Ordinals(id[1])
        BY <4>1 DEF SafetyInv, FilesOK, Known
      <4>3. ~Committed(id[1], id[2])'
        BY <1>2, <2>1, <4>1, <4>2, OthersUncommitted DEF OrphansOK
      <4> QED
        BY <1>1, <1>2, <4>1, <4>3 DEF OrphansOK, Registering, Abandoned, Exposure
    <3> QED
      BY <1>1, <1>2, <2>3, <3>1, OrphansKept
  <2>6. ScanOK'
    BY <1>1, <1>2, <2>5 DEF ScanOK
  <2> QED
    BY <2>2, <2>4, <2>6 DEF CommitInv
<1> QED
  BY <1>3, <1>4

LEMMA OperatorCounts ==
  ASSUME OperatorStep
  PROVE  completed' = completed
BY DEF OperatorStep, Start, Pause, Resume, Abort, Recover, sequenceRow

LEMMA EnvironmentQuiet ==
  ASSUME EnvironmentStep, ~ScanCommit
  PROVE  /\ UNCHANGED <<rows, rawFiles, l0, completed, status, instrument>>
         /\ \/ UNCHANGED <<pc, job, ordinal, row, view, scan>>
            \/ ScanOpen
            \/ \E r \in Runners : Stop(r)
BY DEF EnvironmentStep, InjectFault, ClearFault, AgentRestart, LeaseExpire, ScanOpen, Stop,
       sequenceRow, exposureState, locals

LEMMA CommitStep ==
  ASSUME LeaseHolds, ScannerAndAgent, PlaneInv, SafetyInv, CommitInv, [Next]_vars
  PROVE  CommitInv'
<1>0. OneWorker'
  BY OneWorkerStep DEF SafetyInv
<1>1. "scan" \in Disturbances => agent'.up
  BY AgentStaysUp DEF ScannerAndAgent, CommitInv, ScanOK
<1>2. ASSUME NEW r \in Runners, RunnerStep(r) PROVE CommitInv'
  <2>1. CASE PickSequence(r)
    BY <1>0, <2>1, CommitPick
  <2>2. CASE IdlePoll(r)
    BY <1>1, <2>2, CommitStill DEF IdlePoll, sequenceRow, exposureState, locals
  <2>3. CASE SequenceStep(r)
    BY <1>1, <2>3, CommitSequence
  <2> QED
    BY <1>2, <2>1, <2>2, <2>3, RunnerSplit
<1>3. CASE OperatorStep
  BY <1>1, <1>3, OperatorDoes, OperatorCounts, CommitStill
<1>4. CASE EnvironmentStep
  <2>1. CASE ScanCommit
    BY <2>1, CommitScans
  <2>2. CASE ScanOpen
    BY <2>2, CommitScanOpens
  <2>3. CASE \E r \in Runners : Stop(r)
    BY <2>3, CommitStops
  <2>4. CASE UNCHANGED <<pc, job, ordinal, row, view, scan>> /\ ~ScanCommit
    BY <1>1, <1>4, <2>4, EnvironmentQuiet, CommitStill
  <2> QED
    BY <1>4, <2>1, <2>2, <2>3, <2>4, EnvironmentQuiet
<1>5. CASE UNCHANGED vars
  BY <1>1, <1>5, CommitStill DEF vars, sequenceRow, exposureState, locals
<1> QED
  BY <1>2, <1>3, <1>4, <1>5 DEF Next

(* The inductive invariant: a row is committed exactly when its raw file is *)
(* registered, at most one row of an ordinal is, the counter counts them, a *)
(* runner whose sequence's run has ended finds the instrument not READY and *)
(* so takes no exposure, and a file without registration is about to be     *)
(* registered, by a runner that no one but the scanner overtakes, or by the *)
(* scanner because that runner was stopped.                                 *)
THEOREM CommitInvariant ==
  ASSUME LeaseHolds, ScannerAndAgent PROVE Spec => []CommitInv
<1>1. Init => CommitInv
  BY CommitInit
<1>2. PlaneInv /\ SafetyInv /\ CommitInv /\ [Next]_vars => CommitInv'
  BY CommitStep
<1> QED
  BY <1>1, <1>2, PlaneInvariant, SafetyInvariant, PTL DEF Spec

(* The counter that operators see and that decides between READY and        *)
(* STANDBY counts the committed exposures (_take_exposure adds one to what  *)
(* its transaction read).                                                   *)
THEOREM CounterTheorem ==
  ASSUME LeaseHolds, ScannerAndAgent PROVE Spec => []CompletedMatchesCommitted
<1>1. CommitInv => CompletedMatchesCommitted
  BY DEF CommitInv, RegistryOK
<1> QED
  BY <1>1, CommitInvariant, PTL

LEMMA AtMostOneFrame ==
  ASSUME RegistryOK, NEW s \in Seqs, NEW o \in Ordinals(s)
  PROVE  Cardinality({i \in DOMAIN rows[s][o] : <<s, o, i>> \in rawFiles}) <= 1
<1> DEFINE F == {i \in DOMAIN rows[s][o] : <<s, o, i>> \in rawFiles}
<1>1. \A i, j \in F : i = j
  BY DEF RegistryOK
<1>2. CASE F = {}
  <2> HIDE DEF F
  <2>1. Cardinality(F) = 0
    BY <1>2, FS_EmptySet
  <2> QED
    BY <2>1 DEF F
<1>3. ASSUME NEW i \in F PROVE Cardinality(F) <= 1
  <2>1. F = {i}
    BY <1>1
  <2> HIDE DEF F
  <2> QED
    BY <2>1, FS_Singleton
<1> QED
  BY <1>2, <1>3

(* A retry after a failure, a pause or a lost reply never registers a       *)
(* second file for an ordinal (_take_exposure reuses the latest row that is *)
(* not COMMITTED, and _run_sequence skips ordinals that have one).          *)
THEOREM OneFrameTheorem ==
  ASSUME LeaseHolds, ScannerAndAgent PROVE Spec => []OneFramePerOrdinal
<1>1. CommitInv => OneFramePerOrdinal
  BY AtMostOneFrame DEF CommitInv, OneFramePerOrdinal
<1> QED
  BY <1>1, CommitInvariant, PTL

\* ExposureUnderControl where the scanner runs: it may commit the row first.
ScannedUnderControl ==
  \A r \in Runners : pc[r] \in {"expose", "register", "adopted"} =>
    /\ instrument = "EXPOSING"
    /\ RowStatus(r) = IF Exposure(r) \in rawFiles THEN "COMMITTED" ELSE "EXPOSING"
    /\ status[job[r]] \in Live

(* Between the transactions of _take_exposure the instrument stays          *)
(* EXPOSING and the sequence unsettled, whatever requests arrive during the *)
(* exposure, and nobody takes the row but the scanner, which commits it     *)
(* with the file of this very exposure (recover_unregistered_l0).           *)
THEOREM ScannedControlTheorem ==
  ASSUME LeaseHolds, ScannerAndAgent PROVE Spec => []ScannedUnderControl
<1>1. ASSUME PlaneInv, SafetyInv, CommitInv, NEW r \in Runners, pc[r] \in {"expose", "register"}
      PROVE  RowStatus(r) = IF Exposure(r) \in rawFiles THEN "COMMITTED" ELSE "EXPOSING"
  <2>1. /\ TakingOK(r) /\ RegistryOK
        /\ job[r] \in Seqs /\ ordinal[r] \in Ordinals(job[r])
    BY <1>1 DEF CommitInv, PlaneInv, TypeOK, RunnersOK, Working
  <2>2. CASE Exposure(r) \in rawFiles
    BY <2>1, <2>2 DEF RegistryOK, IsCommitted, Exposure, RowStatus
  <2>3. CASE Exposure(r) \notin rawFiles
    BY <1>1, <2>1, <2>3 DEF TakingOK, Beaten
  <2>4. Exposure(r) \in rawFiles => Beaten(r)
    BY <1>1, <2>1 DEF TakingOK, RegistryOK, IsCommitted, Committed, Exposure, Beaten
  <2> QED
    BY <2>2, <2>3
<1>2. PlaneInv /\ SafetyInv /\ CommitInv => ScannedUnderControl
  BY <1>1 DEF CommitInv, TakingOK, SafetyInv, WorkerOK, ExposureOK, ScannedUnderControl, InRun, Live
<1> QED
  BY <1>2, PlaneInvariant, SafetyInvariant, CommitInvariant, PTL

(* Without the scanner the row of the exposure stays EXPOSING besides.      *)
THEOREM UnderControlTheorem ==
  ASSUME LeaseHolds, NoScanner PROVE Spec => []ExposureUnderControl
<1>1. SafetyInv /\ CommitInv => ExposureUnderControl
  BY DEF NoScanner, SafetyInv, WorkerOK, ExposureOK, CommitInv, TakingOK, ExposureUnderControl, InRun
<1>2. ScannerAndAgent
  BY DEF NoScanner, ScannerAndAgent
<1> QED
  BY <1>1, <1>2, SafetyInvariant, CommitInvariant, PTL

-----------------------------------------------------------------------------
(* What a step does to what is committed.                                   *)

LEMMA NextCommits ==
  ASSUME PlaneInv, SafetyInv, CommitInv, [Next]_vars
  PROVE  SameCommitted \/ \E s, o, i : OneMore(s, o, i)
<1>1. ASSUME NEW r \in Runners, RunnerStep(r) PROVE SameCommitted \/ \E s, o, i : OneMore(s, o, i)
  <2>1. CASE PickSequence(r) \/ IdlePoll(r)
    BY <2>1, RowsSame DEF PickSequence, IdlePoll, exposureState
  <2>2. CASE SequenceStep(r)
    <3>1. EffectOK(r) /\ WorkerOK(r) /\ TakingOK(r)
      BY <2>2, SequenceEffect DEF SafetyInv, CommitInv
    <3> QED
      BY <3>1, CommitWrites DEF EffectOK, Quiet
  <2> QED
    BY <1>1, <2>1, <2>2, RunnerSplit
<1>2. CASE OperatorStep
  BY <1>2, OperatorDoes, RowsSame
<1>3. CASE ScanCommit
  BY <1>3, ScanWrites, RowsSame DEF ScanCommit, SafetyInv
<1>4. CASE EnvironmentStep /\ ~ScanCommit
  BY <1>4, EnvironmentQuiet, RowsSame
<1>5. CASE UNCHANGED vars
  BY <1>5, RowsSame DEF vars, exposureState
<1> QED
  BY <1>1, <1>2, <1>3, <1>4, <1>5 DEF Next

(* A row that is COMMITTED stays COMMITTED and keeps its registration and   *)
(* its file: _fail_sequence spares it and no retry takes it again.          *)
THEOREM FinalTheorem ==
  ASSUME LeaseHolds, ScannerAndAgent PROVE Spec => CommittedExposureFinal
<1> DEFINE Stays == \A s \in Seqs : \A o \in Ordinals(s) : \A i \in DOMAIN rows[s][o] :
                      rows[s][o][i] = "COMMITTED" =>
                        /\ rows'[s][o][i] = "COMMITTED"
                        /\ <<s, o, i>> \in rawFiles' /\ <<s, o, i>> \in l0'
<1>1. ASSUME PlaneInv, SafetyInv, SafetyInv', CommitInv, [Next]_vars PROVE Stays
  <2>1. \A s \in Seqs : \A o \in Ordinals(s) : \A i : IsCommitted(s, o, i) => IsCommitted(s, o, i)'
    <3>1. CASE SameCommitted
      BY <3>1 DEF SameCommitted
    <3>2. ASSUME NEW s, NEW o, NEW i, OneMore(s, o, i)
          PROVE  \A t \in Seqs : \A p \in Ordinals(t) : \A j :
                   IsCommitted(t, p, j) => IsCommitted(t, p, j)'
      BY <3>2 DEF OneMore
    <3> QED
      BY <1>1, <3>1, <3>2, NextCommits
  <2>2. \A s \in Seqs : \A o \in Ordinals(s) : \A i :
          IsCommitted(s, o, i)' => <<s, o, i>> \in rawFiles' /\ <<s, o, i>> \in l0'
    BY <1>1 DEF SafetyInv, FilesOK, IsCommitted
  <2> QED
    BY <2>1, <2>2 DEF IsCommitted
<1>2. PlaneInv /\ SafetyInv /\ SafetyInv' /\ CommitInv /\ [Next]_vars => [Stays]_vars
  BY <1>1
<1> QED
  BY <1>2, PlaneInvariant, SafetyInvariant, CommitInvariant, PTL DEF Spec, CommittedExposureFinal

-----------------------------------------------------------------------------
(* The observation contract.  A status maps to a phase, the committed rows  *)
(* to frames; each step is one of the contract or changes neither.          *)

PhaseName(x) ==
  CASE x = "VALIDATED" -> "draft"
    [] x = "QUEUED"    -> "queued"
    [] x = "RUNNING"   -> "active"
    [] x \in {"PAUSING", "ABORTING"} -> "stopping"
    [] x = "PAUSED"    -> "held"
    [] x = "FAILED"    -> "failed"
    [] x = "ABORTED"   -> "dropped"
    [] x = "SUCCEEDED" -> "done"

FramesOf == [s \in Seqs |-> {o \in Ordinals(s) : Committed(s, o)}]

ContractStep == [Contract!ContractNext]_(Contract!contractVars)

LEMMA PhaseIs == PhaseOf = [s \in Seqs |-> PhaseName(status[s])]
BY DEF PhaseOf, PhaseName

LEMMA PhaseMoves ==
  ASSUME PlaneInv, NEW s \in Seqs, NEW x, status' = [status EXCEPT ![s] = x]
  PROVE  /\ PhaseOf[s] = PhaseName(status[s])
         /\ PhaseOf' = [PhaseOf EXCEPT ![s] = PhaseName(x)]
<1>1. PhaseOf' = [t \in Seqs |-> PhaseName(status'[t])]
  BY DEF PhaseOf, PhaseName
<1>2. status'[s] = x /\ \A t \in Seqs \ {s} : status'[t] = status[t]
  BY DEF PlaneInv, TypeOK, DatabaseOK
<1> QED
  BY <1>1, <1>2, PhaseIs

LEMMA FramesSame ==
  ASSUME SameCommitted PROVE FramesOf' = FramesOf
BY SameOrdinals DEF FramesOf

LEMMA ContractStutter ==
  ASSUME SameCommitted, status' = status, LatchKept
  PROVE  ContractStep
<1>1. PhaseOf' = PhaseOf /\ FramesOf' = FramesOf
  BY FramesSame DEF PhaseOf
<1> QED
  BY <1>1 DEF ContractStep, Contract!contractVars, FramesOf, LatchKept

\* A sequence goes on in its phases without failing.
LEMMA ContractMoves ==
  ASSUME PlaneInv, SameCommitted, LatchKept,
         NEW s \in Seqs, NEW x, status' = [status EXCEPT ![s] = x],
         \/ status[s] \in {"VALIDATED", "PAUSED"} /\ x = "QUEUED"
         \/ status[s] = "FAILED" /\ instrument # "SAFE_FAULT" /\ x = "QUEUED"
         \/ status[s] = "QUEUED" /\ x = "RUNNING"
         \/ status[s] \in Live /\ x \in {"PAUSING", "ABORTING"}
         \/ status[s] \in {"PAUSING", "ABORTING"} /\ x \in Left
         \/ status[s] = "PAUSED" /\ x = "ABORTED"
         \/ status[s] \in InRun /\ x = "SUCCEEDED" /\ FramesOf[s] = Ordinals(s)
  PROVE  ContractStep
<1>1. PhaseOf[s] = PhaseName(status[s]) /\ PhaseOf' = [PhaseOf EXCEPT ![s] = PhaseName(x)]
  BY PhaseMoves
<1>2. FramesOf' = FramesOf /\ s \in 1 .. SeqCount /\ Ordinals(s) = 1 .. Expected[s]
  BY FramesSame DEF Seqs, Ordinals
<1>3. CASE status[s] \in {"VALIDATED", "PAUSED"} /\ x = "QUEUED"
  <2>1. Contract!Queue(s)
    BY <1>1, <1>2, <1>3 DEF Contract!Queue, Contract!Becomes, PhaseName, FramesOf, LatchKept
  <2> QED
    BY <1>2, <2>1 DEF ContractStep, Contract!ContractNext
<1>4. CASE status[s] = "FAILED" /\ instrument # "SAFE_FAULT" /\ x = "QUEUED"
  <2>1. Contract!Retry(s)
    BY <1>1, <1>2, <1>4 DEF Contract!Retry, Contract!Becomes, PhaseName, FramesOf, LatchKept
  <2> QED
    BY <1>2, <2>1 DEF ContractStep, Contract!ContractNext
<1>5. CASE status[s] = "QUEUED" /\ x = "RUNNING"
  <2>1. Contract!Begin(s)
    BY <1>1, <1>2, <1>5 DEF Contract!Begin, Contract!Becomes, PhaseName, FramesOf, LatchKept
  <2> QED
    BY <1>2, <2>1 DEF ContractStep, Contract!ContractNext
<1>6. CASE status[s] \in Live /\ x \in {"PAUSING", "ABORTING"}
  <2>1. Contract!AskToStop(s)
    BY <1>1, <1>2, <1>6
       DEF Contract!AskToStop, Contract!Becomes, PhaseName, FramesOf, LatchKept, Live
  <2> QED
    BY <1>2, <2>1 DEF ContractStep, Contract!ContractNext
<1>7. CASE \/ status[s] \in {"PAUSING", "ABORTING"} /\ x \in Left
           \/ status[s] = "PAUSED" /\ x = "ABORTED"
  <2>1. Contract!Hold(s) \/ Contract!Drop(s)
    BY <1>1, <1>2, <1>7
       DEF Contract!Hold, Contract!Drop, Contract!Becomes, PhaseName, FramesOf, LatchKept, Left
  <2> QED
    BY <1>2, <2>1 DEF ContractStep, Contract!ContractNext
<1>8. CASE status[s] \in InRun /\ x = "SUCCEEDED" /\ FramesOf[s] = Ordinals(s)
  <2>1. Contract!Complete(s)
    BY <1>1, <1>2, <1>8
       DEF Contract!Complete, Contract!Becomes, PhaseName, FramesOf, LatchKept, InRun
  <2> QED
    BY <1>2, <2>1 DEF ContractStep, Contract!ContractNext
<1> QED
  BY <1>3, <1>4, <1>5, <1>6, <1>7, <1>8

LEMMA ContractFails ==
  ASSUME PlaneInv, SameCommitted, NEW s \in Seqs, status[s] \in Live,
         status' = [status EXCEPT ![s] = "FAILED"], instrument' = "SAFE_FAULT"
  PROVE  ContractStep
<1>1. PhaseOf[s] = PhaseName(status[s]) /\ PhaseOf' = [PhaseOf EXCEPT ![s] = PhaseName("FAILED")]
  BY PhaseMoves
<1>2. FramesOf' = FramesOf /\ s \in 1 .. SeqCount
  BY FramesSame DEF Seqs
<1>3. Contract!Fail(s)
  BY <1>1, <1>2 DEF Contract!Fail, Contract!Becomes, PhaseName, FramesOf, Live
<1> QED
  BY <1>2, <1>3 DEF ContractStep, Contract!ContractNext

LEMMA ContractCommits ==
  ASSUME PlaneInv, NEW s, NEW o, NEW i, OneMore(s, o, i),
         instrument # "SAFE_FAULT", instrument' # "SAFE_FAULT"
  PROVE  ContractStep
<1>1. /\ s \in Seqs /\ o \in Ordinals(s) /\ ~Committed(s, o)
      /\ \A t \in Seqs : \A p \in Ordinals(t) : \A j :
           IsCommitted(t, p, j)' <=> IsCommitted(t, p, j) \/ (t = s /\ p = o /\ j = i)
      /\ status' = status /\ status[s] \in InRun
  BY DEF OneMore
<1>2. \A t \in Seqs : \A p \in Ordinals(t) :
        Committed(t, p)' <=> Committed(t, p) \/ (t = s /\ p = o)
  BY <1>1 DEF Committed, IsCommitted
<1>3. /\ FramesOf' = [FramesOf EXCEPT ![s] = FramesOf[s] \cup {o}]
      /\ o \in 1 .. Expected[s] \ FramesOf[s] /\ s \in 1 .. SeqCount
  BY <1>1, <1>2 DEF FramesOf, Seqs, Ordinals
<1>4. PhaseOf' = PhaseOf /\ PhaseOf[s] \in {"active", "stopping"}
  BY <1>1, PhaseIs DEF PhaseOf, PhaseName, InRun
<1>5. Contract!CommitFrame(s)
  BY <1>1, <1>3, <1>4 DEF Contract!CommitFrame, FramesOf
<1> QED
  BY <1>3, <1>5 DEF ContractStep, Contract!ContractNext

LEMMA ContractQuiet ==
  ASSUME PlaneInv, SafetyInv, CommitInv, NEW r \in Runners, SequenceStep(r), Quiet(r)
  PROVE  ContractStep
<1>0. SameCommitted /\ job[r] \in Seqs /\ status \in [Seqs -> SequenceStatus]
  BY SequenceStepLease DEF Quiet, PlaneInv, TypeOK, RunnersOK, DatabaseOK
<1>1. CASE status' = status /\ LatchKept
  BY <1>0, <1>1, ContractStutter
<1>2. ASSUME status[job[r]] \in {"PAUSING", "ABORTING"}, LatchKept,
             NEW x \in Left, status' = [status EXCEPT ![job[r]] = x]
      PROVE  ContractStep
  BY <1>0, <1>2, ContractMoves
<1>3. CASE /\ status[job[r]] \in InRun /\ LatchKept
           /\ status' = [status EXCEPT ![job[r]] = "SUCCEEDED"]
  <2>1. StepOK(r)
    BY SequenceStepOK DEF SafetyInv
  <2>2. \A o \in Ordinals(job[r]) : HasFrame(job[r], o)
    BY <1>0, <1>3, <2>1 DEF StepOK, InRun
  <2>3. \A o \in Ordinals(job[r]) : Committed(job[r], o)
    BY <1>0, <2>2 DEF CommitInv, RegistryOK, HasFrame, Committed, IsCommitted
  <2>4. FramesOf[job[r]] = Ordinals(job[r])
    BY <1>0, <2>3 DEF FramesOf
  <2> QED
    BY <1>0, <1>3, <2>4, ContractMoves
<1>4. CASE /\ status[job[r]] \in Live /\ instrument' = "SAFE_FAULT"
           /\ status' = [status EXCEPT ![job[r]] = "FAILED"]
  BY <1>0, <1>4, ContractFails
<1> QED
  BY <1>1, <1>2, <1>3, <1>4 DEF Quiet

LEMMA RetryUnlatched ==
  ASSUME PlaneInv, OperatorStep, NEW s \in Seqs, status[s] = "FAILED", status'[s] # "FAILED"
  PROVE  instrument # "SAFE_FAULT"
BY DEF OperatorStep, Start, Pause, Resume, Abort, Recover, SetStatus, sequenceRow,
       PlaneInv, TypeOK, DatabaseOK

LEMMA ContractOperator ==
  ASSUME PlaneInv, OperatorStep
  PROVE  ContractStep
<1>1. SameCommitted
  BY OperatorDoes, RowsSame
<1>2. ASSUME NEW s \in Seqs, NEW x, Requested(status[s], x), status' = [status EXCEPT ![s] = x],
             instrument' = instrument
      PROVE  ContractStep
  <2>1. status[s] = "FAILED" /\ x # "FAILED" => instrument # "SAFE_FAULT"
    BY <1>2, RetryUnlatched DEF PlaneInv, TypeOK, DatabaseOK
  <2> QED
    BY <1>1, <1>2, <2>1, ContractMoves DEF Requested, LatchKept, Live
<1>3. CASE instrument = "SAFE_FAULT" /\ instrument' = "OFFLINE" /\ status' = status
  <2>1. PhaseOf' = PhaseOf /\ FramesOf' = FramesOf
    BY <1>1, <1>3, FramesSame DEF PhaseOf
  <2>2. Contract!Unlatch
    BY <1>3, <2>1 DEF Contract!Unlatch, FramesOf
  <2> QED
    BY <2>2 DEF ContractStep, Contract!ContractNext
<1> QED
  BY <1>2, <1>3, OperatorDoes

LEMMA ContractPick ==
  ASSUME PlaneInv, NEW r \in Runners, PickSequence(r)
  PROVE  ContractStep
<1>1. PICK s \in Seqs : status[s] = "QUEUED" /\ status' = [status EXCEPT ![s] = "RUNNING"]
  BY DEF PickSequence, SetStatus, Pickable
<1>2. SameCommitted /\ LatchKept
  BY RowsSame DEF PickSequence, exposureState, LatchKept
<1> QED
  BY <1>1, <1>2, ContractMoves

\* A scan registers the file of a runner at work, as none was stopped.
LEMMA ContractScan ==
  ASSUME "stop" \notin Disturbances, PlaneInv, SafetyInv, CommitInv, ScanCommit
  PROVE  ContractStep
<1>1. instrument' = instrument /\ status' = status
  BY DEF ScanCommit
<1>2. CASE scan.id \in rawFiles
  <2>1. SameCommitted
    BY <1>2, RowsSame DEF ScanCommit
  <2> QED
    BY <1>1, <2>1, ContractStutter DEF LatchKept
<1>3. CASE scan.id \notin rawFiles
  <2>1. OneMore(scan.id[1], scan.id[2], scan.id[3]) /\ Registering(scan.id)
    BY <1>3, ScanWrites DEF SafetyInv, Abandoned
  <2>2. instrument = "EXPOSING"
    BY <2>1 DEF Registering, SafetyInv, WorkerOK, ExposureOK
  <2> QED
    BY <1>1, <2>1, <2>2, ContractCommits
<1> QED
  BY <1>2, <1>3

(* The scanner runs with an agent that answers and runners that are not     *)
(* stopped, or it does not run.  A file that a stopped runner has left is   *)
(* registered while another sequence may have latched the instrument.       *)
ScannerAndRunners == NoScanner \/ {"agent_down", "stop"} \cap Disturbances = {}

(* Runners, requests, crashes, retries and faults together keep the         *)
(* observation contract: every step of ControlPlane is one of               *)
(* ObservationContract, or changes neither phase nor frames nor latch.      *)
THEOREM ContractTheorem ==
  ASSUME LeaseHolds, ScannerAndRunners PROVE Spec => KeepsContract
<1>1. Init => Contract!ContractInit
  <2>1. SUFFICES ASSUME Init PROVE Contract!ContractInit
    OBVIOUS
  <2>2. \A s \in Seqs : \A o \in Ordinals(s) : rows[s][o] = <<>>
    BY <2>1 DEF Init
  <2>3. FramesOf = [s \in 1 .. SeqCount |-> {}]
    BY <2>2 DEF FramesOf, Committed, Seqs
  <2>4. PhaseOf = [s \in 1 .. SeqCount |-> "draft"]
    BY <2>1, PhaseIs DEF Init, PhaseName, Seqs
  <2>5. instrument # "SAFE_FAULT"
    BY <2>1 DEF Init
  <2> QED
    BY <2>3, <2>4, <2>5 DEF Contract!ContractInit, FramesOf
<1>2. ASSUME PlaneInv, SafetyInv, CommitInv, [Next]_vars PROVE ContractStep
  <2>1. ASSUME NEW r \in Runners, RunnerStep(r) PROVE ContractStep
    <3>1. CASE PickSequence(r)
      BY <1>2, <3>1, ContractPick
    <3>2. CASE IdlePoll(r)
      BY <3>2, RowsSame, ContractStutter DEF IdlePoll, sequenceRow, exposureState, LatchKept
    <3>3. CASE SequenceStep(r)
      <4>1. EffectOK(r) /\ WorkerOK(r) /\ TakingOK(r)
        BY <1>2, <3>3, SequenceEffect DEF SafetyInv, CommitInv
      <4>2. CASE Commits(r)
        BY <1>2, <4>1, <4>2, CommitWrites, ContractCommits
      <4> QED
        BY <1>2, <3>3, <4>1, <4>2, ContractQuiet DEF EffectOK
    <3> QED
      BY <2>1, <3>1, <3>2, <3>3, RunnerSplit
  <2>2. CASE OperatorStep
    BY <1>2, <2>2, ContractOperator
  <2>3. CASE ScanCommit
    <3>1. "scan" \in Disturbances
      BY <1>2, <2>3 DEF ScanCommit, CommitInv, ScanOK
    <3> QED
      BY <1>2, <2>3, <3>1, ContractScan DEF ScannerAndRunners, NoScanner
  <2>4. CASE EnvironmentStep /\ ~ScanCommit
    BY <2>4, EnvironmentQuiet, RowsSame, ContractStutter DEF LatchKept
  <2>5. CASE UNCHANGED vars
    BY <2>5, RowsSame, ContractStutter DEF vars, sequenceRow, exposureState, LatchKept
  <2> QED
    BY <1>2, <2>1, <2>2, <2>3, <2>4, <2>5 DEF Next
<1>3. PlaneInv /\ SafetyInv /\ CommitInv /\ [Next]_vars
        => [Contract!ContractNext]_(Contract!contractVars)
  BY <1>2 DEF ContractStep
<1>4. ScannerAndAgent
  BY DEF ScannerAndRunners, NoScanner, ScannerAndAgent
<1> QED
  BY <1>1, <1>3, <1>4, PlaneInvariant, SafetyInvariant, CommitInvariant, PTL
     DEF Spec, KeepsContract, Contract!ContractSpec
=============================================================================
