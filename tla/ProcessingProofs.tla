-------------------------- MODULE ProcessingProofs --------------------------
(***************************************************************************)
(* Proofs about Processing for any sequences, calibration sets, parameters *)
(* and workers, and any bounds: who is in a run, and who carries it.       *)
(***************************************************************************)
EXTENDS Processing, SequenceTheorems, TLAPS

-----------------------------------------------------------------------------
(* The state the claims depend on.                                          *)

In(w, r) == ~At(w, "IDLE") /\ RunOf(w) = r
Task(w) == worker[w].msg.task

\* A worker's record, with whatever it holds.
WorkerOK(x) ==
  /\ DOMAIN x = DOMAIN Idle
  /\ x.at \in Places
  /\ x.at # "IDLE" => x.msg \in Messages(Runs) /\ x.msg.task <= sends

Events == [type : {"RAW_FILE_COMMITTED"}, about : Sequences \X Nat]
            \cup [type : {"QUEUED"}, about : Runs]

RawsTypeOK == raws \in [Sequences -> Nat]

ClaimTypeOK ==
  /\ sends \in Nat /\ inHand \in Nat
  /\ queue \subseteq Messages(Runs)
  /\ \A m \in queue : m.task <= sends
  /\ outbox \in Seq(Events)
  /\ run \in [Runs -> [status : RunStatus, token : Nat, fresh : BOOLEAN]]
  /\ worker = [w \in Workers |-> worker[w]]
  /\ \A w \in Workers : WorkerOK(worker[w])

-----------------------------------------------------------------------------
(* Steps of a worker, seen from the claims.                                 *)

\* All other workers stay where they are.
OnlyMoves(w) ==
  /\ worker' = [x \in Workers |-> worker'[x]]
  /\ \A x \in Workers \ {w} : worker'[x] = worker[x]

\* The worker goes on with its message.
Continues(w) ==
  /\ OnlyMoves(w)
  /\ WorkerOK(worker'[w]) /\ worker'[w].at # "IDLE" /\ worker'[w].msg = worker[w].msg
  /\ UNCHANGED run

\* The worker ends, and with it the run.
Ends(w) ==
  /\ OnlyMoves(w) /\ worker'[w] = Idle
  /\ run' = [run EXCEPT ![RunOf(w)].status = "SUCCEEDED"]

Proceeds(w) == Continues(w) \/ Ends(w)

LEMMA MovesPoint ==
  ASSUME ClaimTypeOK, NEW w \in Workers, NEW rec, Moves(w, rec)
  PROVE  OnlyMoves(w) /\ worker'[w] = rec
BY DEF ClaimTypeOK, Moves, OnlyMoves

\* A worker that moves and keeps its message goes on.
LEMMA MovesContinues ==
  ASSUME ClaimTypeOK, NEW w \in Workers, ~At(w, "IDLE"), NEW rec, Moves(w, rec),
         UNCHANGED run, rec.at \in Places \ {"IDLE"}, rec.msg = worker[w].msg,
         DOMAIN rec = DOMAIN Idle
  PROVE  Proceeds(w)
<1>1. OnlyMoves(w) /\ worker'[w] = rec
  BY MovesPoint
<1>2. WorkerOK(worker[w]) /\ worker[w].at # "IDLE"
  BY DEF ClaimTypeOK, At
<1>3. rec.at # "IDLE" /\ rec.at \in Places
  OBVIOUS
<1>4. WorkerOK(rec)
  BY <1>2, <1>3 DEF WorkerOK
<1> QED
  BY <1>1, <1>3, <1>4 DEF Proceeds, Continues

LEMMA PassProceeds ==
  ASSUME ClaimTypeOK, NEW w \in Workers, ~At(w, "IDLE"), NEW rows, Pass(w, rows)
  PROVE  Proceeds(w)
<1> DEFINE r == RunOf(w)
           k == worker[w].done + 1
<1>0. WorkerOK(worker[w])
  BY DEF ClaimTypeOK
<1>1. CASE ~CommitsAfter(r, k)
  <2> DEFINE rec == [worker[w] EXCEPT !.done = k, !.at = "OPEN", !.held = rows, !.read = Nothing]
  <2>1. Moves(w, rec) /\ UNCHANGED run
    BY <1>1 DEF Pass
  <2>2. /\ rec.at \in Places \ {"IDLE"} /\ rec.msg = worker[w].msg
        /\ DOMAIN rec = DOMAIN Idle
    BY <1>0 DEF WorkerOK, Places, Idle
  <2> HIDE DEF rec
  <2> QED
    BY <2>1, <2>2, MovesContinues
<1>2. CASE CommitsAfter(r, k) /\ k = OutputCount(r)
  BY <1>2, MovesPoint DEF Pass, Proceeds, Ends
<1>3. CASE CommitsAfter(r, k) /\ k # OutputCount(r)
  <2> DEFINE rec == [Idle EXCEPT !.msg = worker[w].msg, !.done = k, !.at = "OPEN"]
  <2>1. Moves(w, rec) /\ UNCHANGED run
    BY <1>3 DEF Pass
  <2>2. /\ rec.at \in Places \ {"IDLE"} /\ rec.msg = worker[w].msg
        /\ DOMAIN rec = DOMAIN Idle
    BY DEF Places, Idle
  <2> HIDE DEF rec
  <2> QED
    BY <2>1, <2>2, MovesContinues
<1> QED
  BY <1>1, <1>2, <1>3

LEMMA RaisesProceeds ==
  ASSUME ClaimTypeOK, NEW w \in Workers, ~At(w, "IDLE"), NEW again, Raises(w, again),
         UNCHANGED run
  PROVE  Proceeds(w)
<1> DEFINE rec == [worker[w] EXCEPT !.at = "RAISED", !.held = Nothing, !.read = Nothing,
                                    !.retry = again]
<1>1. WorkerOK(worker[w])
  BY DEF ClaimTypeOK
<1>2. Moves(w, rec)
  BY DEF Raises
<1>3. /\ rec.at \in Places \ {"IDLE"} /\ rec.msg = worker[w].msg
      /\ DOMAIN rec = DOMAIN Idle
  BY <1>1 DEF WorkerOK, Places, Idle
<1> HIDE DEF rec
<1> QED
  BY <1>2, <1>3, MovesContinues

LEMMA GoesProceeds ==
  ASSUME ClaimTypeOK, NEW w \in Workers, ~At(w, "IDLE"), NEW place \in Places \ {"IDLE"},
         Goes(w, place), UNCHANGED run
  PROVE  Proceeds(w)
<1> DEFINE rec == [worker[w] EXCEPT !.at = place]
<1>1. WorkerOK(worker[w])
  BY DEF ClaimTypeOK
<1>2. Moves(w, rec)
  BY DEF Goes
<1>3. /\ rec.at \in Places \ {"IDLE"} /\ rec.msg = worker[w].msg
      /\ DOMAIN rec = DOMAIN Idle
  BY <1>1 DEF WorkerOK, Places, Idle
<1> HIDE DEF rec
<1> QED
  BY <1>2, <1>3, MovesContinues

LEMMA LooksUpProceeds ==
  ASSUME ClaimTypeOK, NEW w \in Workers, ~At(w, "IDLE"), NEW p, NEW file,
         LooksUp(w, p, file)
  PROVE  Proceeds(w)
<1>1. CASE p \in Registered
  BY <1>1, PassProceeds DEF LooksUp
<1>2. CASE p \notin Registered
  <2> DEFINE rec == [worker[w] EXCEPT !.at = "INSERT", !.read = file]
  <2>1. WorkerOK(worker[w])
    BY DEF ClaimTypeOK
  <2>2. Moves(w, rec) /\ UNCHANGED run
    BY <1>2 DEF LooksUp
  <2>3. /\ rec.at \in Places \ {"IDLE"} /\ rec.msg = worker[w].msg
        /\ DOMAIN rec = DOMAIN Idle
    BY <2>1 DEF WorkerOK, Places, Idle
  <2> HIDE DEF rec
  <2> QED
    BY <2>2, <2>3, MovesContinues
<1> QED
  BY <1>1, <1>2

\* Every step of a worker between the claim and the end.
Working(w) ==
  MakeQuicklook(w) \/ KeepFile(w) \/ OpenPart(w) \/ ClosePart(w) \/ ReplaceFile(w) \/ Insert(w)
    \/ IOFailure(w)

LEMMA WorkingProceeds ==
  ASSUME ClaimTypeOK, NEW w \in Workers, Working(w)
  PROVE  ~At(w, "IDLE") /\ Proceeds(w) /\ UNCHANGED <<outboxVars, slow, refused, overlapped, abandoned>>
<1>1. CASE MakeQuicklook(w)
  BY <1>1, LooksUpProceeds DEF MakeQuicklook, others, historyVars, At
<1>2. CASE KeepFile(w)
  BY <1>2, LooksUpProceeds, RaisesProceeds DEF KeepFile, others, historyVars, At
<1>3. CASE OpenPart(w)
  BY <1>3, GoesProceeds DEF OpenPart, others, historyVars, At, Places
<1>4. CASE ClosePart(w)
  BY <1>4, GoesProceeds, RaisesProceeds DEF ClosePart, others, historyVars, At, Places
<1>5. CASE ReplaceFile(w)
  BY <1>5, LooksUpProceeds, RaisesProceeds DEF ReplaceFile, others, historyVars, At
<1>6. CASE Insert(w)
  BY <1>6, PassProceeds, RaisesProceeds DEF Insert, others, historyVars, At
<1>7. CASE IOFailure(w)
  BY <1>7, RaisesProceeds DEF IOFailure, runVars, At
<1> QED
  BY <1>1, <1>2, <1>3, <1>4, <1>5, <1>6, <1>7 DEF Working

-----------------------------------------------------------------------------
(* The invariant of the claims.                                             *)

\* Without an overlap a run has one worker at most, and unless a claim of it was
\* refused it is RUNNING with it.
AloneInRun ==
  \A r \in Runs \ overlapped : \A w \in Workers : In(w, r) =>
    /\ r \notin refused => run[r].status = "RUNNING"
    /\ \A x \in Workers : In(x, r) => x = w

\* Nobody was slow in the run, and no claim of it was refused.
Undisturbed(r) == r \notin slow /\ r \notin refused

\* Then the claim is that of the worker, ...
ClaimHeld ==
  \A r \in Runs : Undisturbed(r) =>
    \A w \in Workers : In(w, r) => run[r].token = Task(w) /\ run[r].fresh

\* ... whose task has no other message, as no task has two.
OneMessage ==
  \A m \in queue : Undisturbed(m.about) =>
    /\ \A w \in Workers : In(w, m.about) => m.task # Task(w)
    /\ \A n \in queue : n.about = m.about /\ n.task = m.task => n = m

ClaimInv ==
  ClaimTypeOK /\ AloneInRun /\ ClaimHeld /\ OneMessage /\ OverlapHasACause

LEMMA InitClaimInv == Init => ClaimInv
<1> SUFFICES ASSUME Init PROVE ClaimInv
  OBVIOUS
<1>1. ClaimTypeOK
  <2>1. outbox \in Seq(Events)
    BY EmptySeq DEF Init, OutboxInit
  <2>2. \A w \in Workers : WorkerOK(worker[w])
    BY DEF Init, WorkerOK, Idle, Places
  <2> QED
    BY <2>1, <2>2 DEF ClaimTypeOK, Init, OutboxInit, RunStatus
<1>2. \A w \in Workers : At(w, "IDLE")
  BY DEF Init, At, Idle
<1>3. queue = {} /\ overlapped = {}
  BY DEF Init, OutboxInit
<1> QED
  BY <1>1, <1>2, <1>3
     DEF ClaimInv, AloneInRun, ClaimHeld, OneMessage, OverlapHasACause, In

\* A request, the scheduler between two tasks, the environment: no worker and
\* no message moves, and only a run nobody has claimed changes.
Quiet ==
  /\ UNCHANGED <<queue, sends, worker, slow, refused, overlapped, abandoned>>
  /\ inHand' \in Nat /\ outbox' \in Seq(Events)
  /\ run' \in [Runs -> [status : RunStatus, token : Nat, fresh : BOOLEAN]]
  /\ \A r \in Runs : run'[r] = run[r] \/ run[r].status \in {"NONE", "WAITING_CALIBRATION"}

LEMMA EnsureRunQuiet ==
  ASSUME ClaimTypeOK, NEW r \in Runs, EnsureRun(r)
  PROVE  /\ outbox' \in Seq(Events)
         /\ run' \in [Runs -> [status : RunStatus, token : Nat, fresh : BOOLEAN]]
         /\ \A q \in Runs : run'[q] = run[q] \/ run[q].status \in {"NONE", "WAITING_CALIBRATION"}
<1>1. QueuedEvent(r) \in Events
  BY DEF QueuedEvent, Events
<1>2. Append(outbox, QueuedEvent(r)) \in Seq(Events)
  BY <1>1, AppendProperties DEF ClaimTypeOK
<1>3. outbox' \in Seq(Events)
  BY <1>2 DEF EnsureRun, Emit, ClaimTypeOK
<1>4. CASE run' = run
  BY <1>3, <1>4 DEF ClaimTypeOK
<1>5. CASE run' = [run EXCEPT ![r].status = "QUEUED"] /\ run[r].status \in {"NONE", "WAITING_CALIBRATION"}
  BY <1>3, <1>5 DEF ClaimTypeOK, RunStatus
<1>6. CASE run' = [run EXCEPT ![r].status = "WAITING_CALIBRATION"] /\ run[r].status = "NONE"
  BY <1>3, <1>6 DEF ClaimTypeOK, RunStatus
<1> QED
  BY <1>4, <1>5, <1>6 DEF EnsureRun

\* The run the scheduler asks for.
LEMMA DefaultRun ==
  ASSUME NEW s \in Sequences
  PROVE  [seq |-> s, cal |-> NoCal, par |-> Default] \in Runs
BY ProcessingAssumption DEF Runs

LEMMA RawEvent ==
  ASSUME ClaimTypeOK, NEW n \in DOMAIN outbox, outbox[n].type = "RAW_FILE_COMMITTED"
  PROVE  outbox[n].about[1] \in Sequences
<1>1. outbox[n] \in Events
  BY ElementOfSeq, LenProperties DEF ClaimTypeOK
<1> QED
  BY <1>1 DEF Events

LEMMA QueuedEventOfRun ==
  ASSUME ClaimTypeOK, NEW n \in DOMAIN outbox, outbox[n].type = "QUEUED"
  PROVE  outbox[n].about \in Runs /\ outbox[n] = QueuedEvent(outbox[n].about)
<1>1. outbox[n] \in Events
  BY ElementOfSeq, LenProperties DEF ClaimTypeOK
<1> QED
  BY <1>1 DEF Events, QueuedEvent

QuietStep ==
  \/ \E s \in Sequences : CommitRaw(s) \/ ImportRaws(s)
  \/ \E c \in CalSets : ApproveCalibration(c)
  \/ \E r \in Runs : CreateRun(r)
  \/ QuicklookPass
  \/ \E n \in DOMAIN outbox : ScheduleRaw(n) \/ SkipRun(n)
  \/ EndScheduling \/ LoseMark
  \/ UNCHANGED vars

LEMMA QuietStepQuiet ==
  ASSUME ClaimTypeOK, RawsTypeOK, QuietStep
  PROVE  Quiet
<1>0. /\ inHand \in Nat /\ outbox \in Seq(Events)
      /\ run \in [Runs -> [status : RunStatus, token : Nat, fresh : BOOLEAN]]
  BY DEF ClaimTypeOK
<1>1. ASSUME NEW s \in Sequences, CommitRaw(s) PROVE Quiet
  <2>1. [type |-> "RAW_FILE_COMMITTED", about |-> <<s, raws[s] + 1>>] \in Events
    BY DEF RawsTypeOK, Events
  <2>2. outbox' \in Seq(Events)
    BY <1>0, <1>1, <2>1, AppendProperties DEF CommitRaw, Emit
  <2> QED
    BY <1>0, <1>1, <2>2 DEF CommitRaw, Quiet, historyVars
<1>2. ASSUME NEW s \in Sequences, ImportRaws(s) PROVE Quiet
  BY <1>0, <1>2 DEF ImportRaws, Quiet, outboxVars, historyVars
<1>3. ASSUME NEW c \in CalSets, ApproveCalibration(c) PROVE Quiet
  BY <1>0, <1>3 DEF ApproveCalibration, Quiet, outboxVars, historyVars
<1>4. ASSUME NEW r \in Runs, CreateRun(r) PROVE Quiet
  BY <1>0, <1>4, EnsureRunQuiet DEF CreateRun, Quiet, historyVars
<1>5. CASE QuicklookPass
  BY <1>0, <1>5 DEF QuicklookPass, Quiet, outboxVars, runVars, historyVars
<1>6. ASSUME NEW n \in DOMAIN outbox, ScheduleRaw(n) PROVE Quiet
  <2> DEFINE s == outbox[n].about[1]
             r == [seq |-> s, cal |-> NoCal, par |-> Default]
  <2>1. r \in Runs
    BY <1>6, RawEvent, DefaultRun DEF ScheduleRaw
  <2>2. CASE EnsureRun(r)
    BY <1>0, <1>6, <2>1, <2>2, EnsureRunQuiet DEF ScheduleRaw, Consume, Quiet, historyVars
  <2>3. CASE UNCHANGED <<run, outbox>>
    BY <1>0, <1>6, <2>3 DEF ScheduleRaw, Consume, Quiet, historyVars
  <2> QED
    BY <1>6, <2>2, <2>3 DEF ScheduleRaw
<1>7. ASSUME NEW n \in DOMAIN outbox, SkipRun(n) PROVE Quiet
  BY <1>0, <1>7 DEF SkipRun, Consume, Quiet, runVars, historyVars
<1>8. CASE EndScheduling
  BY <1>0, <1>8 DEF EndScheduling, Publish, Quiet, runVars, historyVars
<1>9. CASE LoseMark
  BY <1>0, <1>9 DEF LoseMark, SchedulerCrash, Quiet, runVars, historyVars
<1>10. CASE UNCHANGED vars
  BY <1>0, <1>10 DEF vars, Quiet, outboxVars, runVars, historyVars
<1> QED
  BY <1>1, <1>2, <1>3, <1>4, <1>5, <1>6, <1>7, <1>8, <1>9, <1>10 DEF QuietStep

-----------------------------------------------------------------------------
(* Every step keeps the invariant of the claims.                            *)

LEMMA QuietClaimInv == ASSUME ClaimInv, Quiet PROVE ClaimInv'
<1>0. ClaimTypeOK
  BY DEF ClaimInv
<1>1. ClaimTypeOK'
  BY <1>0 DEF ClaimTypeOK, Quiet, WorkerOK
<1>2. \A w \in Workers, r \in Runs : In(w, r)' <=> In(w, r)
  BY DEF Quiet, In, At, RunOf
<1>3. \A w \in Workers, r \in Runs \ (overlapped \cup refused) : In(w, r) => run'[r] = run[r]
  BY DEF ClaimInv, AloneInRun, Quiet
<1>4. AloneInRun'
  BY <1>2, <1>3 DEF ClaimInv, AloneInRun, Quiet
<1>5. ClaimHeld'
  BY <1>2, <1>3 DEF ClaimInv, ClaimHeld, Undisturbed, OverlapHasACause, Quiet, Task
<1>6. OneMessage'
  BY <1>0, <1>2 DEF ClaimInv, OneMessage, Undisturbed, Quiet, Task, ClaimTypeOK, Messages
<1> QED
  BY <1>1, <1>4, <1>5, <1>6 DEF ClaimInv, OverlapHasACause, Quiet

\* A worker that goes on, or ends its run.
LEMMA ProceedsClaimInv ==
  ASSUME ClaimInv, NEW w \in Workers, ~At(w, "IDLE"), Proceeds(w),
         UNCHANGED <<outboxVars, slow, refused, overlapped, abandoned>>
  PROVE  ClaimInv'
<1>0. ClaimTypeOK /\ WorkerOK(worker[w])
  BY DEF ClaimInv, ClaimTypeOK
<1>r. RunOf(w) \in Runs /\ In(w, RunOf(w))
  BY <1>0 DEF WorkerOK, At, RunOf, Messages, In
<1>1. CASE Continues(w)
  <2>1. ClaimTypeOK'
    BY <1>0, <1>1 DEF ClaimTypeOK, Continues, OnlyMoves, outboxVars, WorkerOK
  <2>2. \A x \in Workers, r \in Runs : (In(x, r)' <=> In(x, r)) /\ (In(x, r) => Task(x)' = Task(x))
    BY <1>1 DEF Continues, OnlyMoves, In, At, RunOf, Task
  <2>3. AloneInRun'
    BY <1>1, <2>2 DEF ClaimInv, AloneInRun, Continues
  <2>4. ClaimHeld'
    BY <1>1, <2>2 DEF ClaimInv, ClaimHeld, Undisturbed, Continues
  <2>5. OneMessage'
    BY <1>0, <2>2 DEF ClaimInv, OneMessage, Undisturbed, outboxVars, ClaimTypeOK, Messages
  <2> QED
    BY <2>1, <2>3, <2>4, <2>5 DEF ClaimInv, OverlapHasACause
<1>2. CASE Ends(w)
  <2>0. At(w, "IDLE")'
    BY <1>2 DEF Ends, Idle, At
  <2>1. ClaimTypeOK'
    <3>1. WorkerOK(worker[w])'
      BY <1>2 DEF Ends, Idle, WorkerOK, Places
    <3> QED
      BY <1>0, <1>2, <3>1 DEF ClaimTypeOK, Ends, OnlyMoves, outboxVars, WorkerOK, RunStatus
  <2>2. \A x \in Workers, r \in Runs :
          In(x, r)' => x # w /\ In(x, r) /\ Task(x)' = Task(x)
    BY <1>2, <2>0 DEF Ends, OnlyMoves, In, At, RunOf, Task
  <2>3. \A r \in Runs : r # RunOf(w) => run'[r] = run[r]
    BY <1>0, <1>2 DEF Ends, ClaimTypeOK
  <2>4. AloneInRun'
    BY <1>r, <2>2, <2>3 DEF ClaimInv, AloneInRun
  <2>5. ClaimHeld'
    BY <1>r, <2>2, <2>3 DEF ClaimInv, ClaimHeld, Undisturbed, AloneInRun, OverlapHasACause
  <2>6. OneMessage'
    BY <1>0, <2>2 DEF ClaimInv, OneMessage, Undisturbed, outboxVars, ClaimTypeOK, Messages
  <2> QED
    BY <2>1, <2>4, <2>5, <2>6 DEF ClaimInv, OverlapHasACause
<1> QED
  BY <1>1, <1>2 DEF Proceeds

\* The scheduler gives the task an id that none had before.
LEMMA SendRunClaimInv ==
  ASSUME ClaimInv, NEW n \in DOMAIN outbox, SendRun(n)
  PROVE  ClaimInv'
<1> DEFINE m == [task |-> sends + 1, about |-> outbox[n].about, retries |-> 0]
<1>0. ClaimTypeOK
  BY DEF ClaimInv
<1>1. /\ sends' = sends + 1 /\ queue' = queue \cup {m} /\ inHand' = n
      /\ UNCHANGED <<outbox, run, worker, slow, refused, overlapped>>
  BY DEF SendRun, Send, runVars, historyVars
<1>2. m \in Messages(Runs)
  BY <1>0, QueuedEventOfRun, OutboxAssumption DEF SendRun, Send, Messages, ClaimTypeOK
<1>3. n \in Nat
  BY <1>0, LenProperties DEF ClaimTypeOK
<1>4. ClaimTypeOK'
  BY <1>0, <1>1, <1>2, <1>3 DEF ClaimTypeOK, WorkerOK, Messages
<1>5. \A x \in Workers, r \in Runs : (In(x, r)' <=> In(x, r)) /\ Task(x)' = Task(x)
  BY <1>1 DEF In, At, RunOf, Task
<1>6. AloneInRun' /\ ClaimHeld'
  BY <1>1, <1>5 DEF ClaimInv, AloneInRun, ClaimHeld, Undisturbed
<1>7. \A x \in Workers, r \in Runs : In(x, r) => Task(x) \in Nat /\ Task(x) <= sends
  BY <1>0 DEF ClaimTypeOK, WorkerOK, In, At, Task, Messages
<1>8. \A k \in queue : k.task \in Nat /\ k.task <= sends /\ k.about \in Runs
  BY <1>0 DEF ClaimTypeOK, Messages
<1>9. m.task = sends + 1 /\ m.about \in Runs
  BY <1>2 DEF Messages
<1>10. OneMessage'
  <2> HIDE DEF m
  <2>1. sends \in Nat
    BY <1>0 DEF ClaimTypeOK
  <2>2. \A k \in queue : k.task # m.task
    BY <1>8, <1>9, <2>1
  <2>3. \A x \in Workers : In(x, m.about) => Task(x) # m.task
    BY <1>7, <1>9, <2>1
  <2> QED
    BY <1>1, <1>5, <1>8, <1>9, <2>2, <2>3 DEF ClaimInv, OneMessage, Undisturbed
<1> QED
  BY <1>1, <1>4, <1>6, <1>10 DEF ClaimInv, OverlapHasACause

LEMMA TakeNothingClaimInv ==
  ASSUME ClaimInv, NEW w \in Workers, NEW m \in queue, TakeNothing(w, m)
  PROVE  ClaimInv'
<1>1. /\ queue' \subseteq queue
      /\ UNCHANGED <<outbox, inHand, sends, run, worker, slow, refused, overlapped>>
  BY DEF TakeNothing, Acknowledged, runVars, historyVars
<1>2. ClaimTypeOK'
  BY <1>1 DEF ClaimInv, ClaimTypeOK, WorkerOK
<1>3. \A x \in Workers, r \in Runs : (In(x, r)' <=> In(x, r)) /\ Task(x)' = Task(x)
  BY <1>1 DEF In, At, RunOf, Task
<1>4. AloneInRun' /\ ClaimHeld'
  BY <1>1, <1>3 DEF ClaimInv, AloneInRun, ClaimHeld, Undisturbed
<1>5. OneMessage'
  BY <1>1, <1>3 DEF ClaimInv, OneMessage, Undisturbed, ClaimTypeOK, Messages
<1> QED
  BY <1>1, <1>2, <1>4, <1>5 DEF ClaimInv, OverlapHasACause

\* A claim that was fresh and of another task kept the worker out; so did one
\* of its own task, as that has no second message.
LEMMA ClaimClaimInv ==
  ASSUME ClaimInv, NEW w \in Workers, NEW m \in queue, Claim(w, m)
  PROVE  ClaimInv'
<1> DEFINE r == m.about
           rec == [Idle EXCEPT !.at = IF Complete(r.seq) /\ MayQueue(r) THEN "OPEN" ELSE "RAISED",
                               !.msg = m]
<1>0. ClaimTypeOK /\ m \in Messages(Runs) /\ r \in Runs /\ m.task \in Nat /\ m.task <= sends
  BY DEF ClaimInv, ClaimTypeOK, Messages
<1>1. /\ At(w, "IDLE") /\ ~Finished(r) /\ ~Busy(r, m) /\ Moves(w, rec)
      /\ queue' = queue \ {m}
      /\ run' = [run EXCEPT ![r] = [status |-> "RUNNING", token |-> m.task, fresh |-> TRUE]]
      /\ Joins(w, r)
      /\ UNCHANGED <<outbox, published, inHand, sends, slow, refused>>
  BY DEF Claim, Acknowledged
<1>2. rec.at \in Places \ {"IDLE"} /\ rec.msg = m /\ DOMAIN rec = DOMAIN Idle
  BY DEF Idle, Places
<1> HIDE DEF rec
<1>3. OnlyMoves(w) /\ worker'[w] = rec
  BY <1>0, <1>1, MovesPoint
<1>4. ClaimTypeOK'
  <2>1. WorkerOK(worker[w])'
    BY <1>0, <1>1, <1>2, <1>3 DEF WorkerOK
  <2> QED
    BY <1>0, <1>1, <1>3, <2>1 DEF ClaimTypeOK, OnlyMoves, WorkerOK, RunStatus
<1>5. /\ In(w, r)' /\ Task(w)' = m.task
      /\ \A q \in Runs : In(w, q)' => q = r
      /\ \A x \in Workers \ {w}, q \in Runs : (In(x, q)' <=> In(x, q)) /\ Task(x)' = Task(x)
  BY <1>2, <1>3 DEF OnlyMoves, In, At, RunOf, Task
<1>6. /\ \A q \in Runs \ {r} : run'[q] = run[q]
      /\ run'[r].status = "RUNNING" /\ run'[r].token = m.task /\ run'[r].fresh
  BY <1>0, <1>1 DEF ClaimTypeOK
<1>7. Undisturbed(r) => \A x \in Workers \ {w} : ~In(x, r)
  BY <1>0, <1>1 DEF ClaimInv, AloneInRun, ClaimHeld, OneMessage, Undisturbed, OverlapHasACause,
                    Busy
<1>8. overlapped' = IF \A x \in Workers \ {w} : ~In(x, r) THEN overlapped ELSE overlapped \cup {r}
  BY <1>1 DEF Joins, In
<1>9. OverlapHasACause'
  BY <1>1, <1>7, <1>8 DEF ClaimInv, OverlapHasACause, Undisturbed
<1>10. AloneInRun'
  BY <1>0, <1>1, <1>5, <1>6, <1>8 DEF ClaimInv, AloneInRun
<1>11. ClaimHeld'
  BY <1>0, <1>1, <1>5, <1>6, <1>7 DEF ClaimInv, ClaimHeld, Undisturbed
<1>12. OneMessage'
  <2>1. \A k \in queue : k.about \in Runs
    BY <1>0 DEF ClaimTypeOK, Messages
  <2> QED
    BY <1>0, <1>1, <1>5, <2>1 DEF ClaimInv, OneMessage, Undisturbed
<1> QED
  BY <1>4, <1>9, <1>10, <1>11, <1>12 DEF ClaimInv

\* A refused claim: the worker has the message and nothing else has changed.
LEMMA RefusedPoint ==
  ASSUME ClaimTypeOK, NEW w \in Workers, NEW m \in queue, ClaimRefused(w, m)
  PROVE  /\ m \in Messages(Runs) /\ m.about \in Runs /\ m.task \in Nat /\ m.task <= sends
         /\ At(w, "IDLE") /\ OnlyMoves(w)
         /\ worker'[w].at = "RAISED" /\ worker'[w].msg = m /\ WorkerOK(worker'[w])
         /\ worker'[w].done = 0 /\ worker'[w].held = Nothing
         /\ queue' = queue \ {m}
         /\ refused' = refused \cup {m.about}
         /\ overlapped' = IF \A x \in Workers \ {w} : ~In(x, m.about)
                          THEN overlapped ELSE overlapped \cup {m.about}
         /\ UNCHANGED <<outbox, published, inHand, sends, run, slow, abandoned>>
<1>1. m \in Messages(Runs) /\ m.about \in Runs /\ m.task \in Nat /\ m.task <= sends
  BY DEF ClaimTypeOK, Messages
<1>2. PICK again \in BOOLEAN :
        Moves(w, [Idle EXCEPT !.at = "RAISED", !.msg = m, !.retry = again])
  BY DEF ClaimRefused
<1> DEFINE rec == [Idle EXCEPT !.at = "RAISED", !.msg = m, !.retry = again]
<1>3. OnlyMoves(w) /\ worker'[w] = rec
  BY <1>2, MovesPoint
<1>4. /\ rec.at = "RAISED" /\ rec.msg = m /\ DOMAIN rec = DOMAIN Idle
      /\ rec.done = 0 /\ rec.held = Nothing
  BY DEF Idle
<1> HIDE DEF rec
<1>5. WorkerOK(rec)
  BY <1>1, <1>4 DEF WorkerOK, Places
<1> QED
  BY <1>1, <1>3, <1>4, <1>5 DEF ClaimRefused, Acknowledged, Joins, In, runVars

LEMMA ClaimRefusedClaimInv ==
  ASSUME ClaimInv, NEW w \in Workers, NEW m \in queue, ClaimRefused(w, m)
  PROVE  ClaimInv'
<1> DEFINE r == m.about
<1>0. ClaimTypeOK
  BY DEF ClaimInv
<1>1. /\ m \in Messages(Runs) /\ r \in Runs /\ m.task \in Nat /\ m.task <= sends
      /\ At(w, "IDLE") /\ OnlyMoves(w)
      /\ worker'[w].at = "RAISED" /\ worker'[w].msg = m /\ WorkerOK(worker'[w])
      /\ queue' = queue \ {m} /\ refused' = refused \cup {r}
      /\ overlapped' = IF \A x \in Workers \ {w} : ~In(x, r)
                       THEN overlapped ELSE overlapped \cup {r}
      /\ UNCHANGED <<outbox, inHand, sends, run, slow>>
  BY <1>0, RefusedPoint
<1>2. ClaimTypeOK'
  BY <1>0, <1>1 DEF ClaimTypeOK, OnlyMoves, WorkerOK
<1>3. /\ In(w, r)'
      /\ \A q \in Runs : In(w, q)' => q = r
      /\ \A x \in Workers \ {w}, q \in Runs : (In(x, q)' <=> In(x, q)) /\ Task(x)' = Task(x)
  BY <1>1 DEF OnlyMoves, In, At, RunOf, Task
<1>4. \A q \in Runs : Undisturbed(q)' => Undisturbed(q) /\ q # r
  BY <1>1 DEF Undisturbed
<1>5. AloneInRun'
  BY <1>1, <1>3 DEF ClaimInv, AloneInRun
<1>6. ClaimHeld'
  BY <1>1, <1>3, <1>4 DEF ClaimInv, ClaimHeld
<1>7. OneMessage'
  <2>1. \A k \in queue : k.about \in Runs
    BY <1>0 DEF ClaimTypeOK, Messages
  <2> QED
    BY <1>1, <1>3, <1>4, <2>1 DEF ClaimInv, OneMessage
<1>8. OverlapHasACause'
  BY <1>1 DEF ClaimInv, OverlapHasACause
<1> QED
  BY <1>2, <1>5, <1>6, <1>7, <1>8 DEF ClaimInv

\* A worker that ends without its run: it leaves, and its message may come
\* back, retried or as it was.
LeavesBehind(w, messages) ==
  /\ OnlyMoves(w) /\ At(w, "IDLE")' /\ WorkerOK(worker[w])'
  /\ queue' = queue \cup messages
  /\ \A m \in messages : /\ m \in Messages(Runs)
                         /\ m.task = Task(w) /\ m.about = RunOf(w)
                         /\ \A n \in messages : n = m
  /\ run' \in [Runs -> [status : RunStatus, token : Nat, fresh : BOOLEAN]]
  /\ \A q \in Runs \ {RunOf(w)} : run'[q] = run[q]
  /\ UNCHANGED <<outbox, inHand, sends, slow, refused, overlapped>>

LEMMA LeavesClaimInv ==
  ASSUME ClaimInv, NEW w \in Workers, ~At(w, "IDLE"), NEW messages, LeavesBehind(w, messages)
  PROVE  ClaimInv'
<1>0. ClaimTypeOK /\ WorkerOK(worker[w])
  BY DEF ClaimInv, ClaimTypeOK
<1>1. /\ RunOf(w) \in Runs /\ In(w, RunOf(w))
      /\ Task(w) \in Nat /\ Task(w) <= sends
  BY <1>0 DEF WorkerOK, At, RunOf, Messages, In, Task
<1>2. \A x \in Workers, r \in Runs : In(x, r)' => x # w /\ In(x, r) /\ Task(x)' = Task(x)
  BY DEF LeavesBehind, OnlyMoves, In, At, RunOf, Task
<1>3. ClaimTypeOK'
  BY <1>0, <1>1 DEF ClaimTypeOK, LeavesBehind, OnlyMoves, WorkerOK
<1>4. AloneInRun'
  BY <1>1, <1>2 DEF ClaimInv, AloneInRun, LeavesBehind
<1>5. ClaimHeld'
  BY <1>1, <1>2 DEF ClaimInv, ClaimHeld, Undisturbed, AloneInRun, OverlapHasACause, LeavesBehind
<1>6. OneMessage'
  <2>1. SUFFICES ASSUME NEW m \in queue', Undisturbed(m.about)
                 PROVE  /\ \A x \in Workers : In(x, m.about)' => m.task # Task(x)'
                        /\ \A n \in queue' : n.about = m.about /\ n.task = m.task => n = m
    BY DEF OneMessage, Undisturbed, LeavesBehind
  <2>2. m.about \in Runs
    BY <1>3, <2>1 DEF ClaimTypeOK, Messages
  <2>3. \A n \in queue : n.about = RunOf(w) /\ Undisturbed(n.about) => n.task # Task(w)
    BY <1>1 DEF ClaimInv, OneMessage
  <2>4. \A x \in Workers : x # w /\ In(x, RunOf(w)) => ~Undisturbed(RunOf(w))
    BY <1>1 DEF ClaimInv, AloneInRun, Undisturbed, OverlapHasACause
  <2>5. CASE m \in messages
    BY <1>2, <2>1, <2>2, <2>3, <2>4, <2>5 DEF LeavesBehind
  <2>6. CASE m \in queue
    BY <1>2, <2>1, <2>2, <2>3, <2>6 DEF LeavesBehind, ClaimInv, OneMessage
  <2> QED
    BY <2>5, <2>6 DEF LeavesBehind
<1> QED
  BY <1>3, <1>4, <1>5, <1>6 DEF ClaimInv, OverlapHasACause, LeavesBehind

LEMMA FailLeaves ==
  ASSUME ClaimTypeOK, NEW w \in Workers, Fail(w) \/ FailRefused(w)
  PROVE  ~At(w, "IDLE") /\ \E messages : LeavesBehind(w, messages)
<1> DEFINE m == worker[w].msg
           again == [m EXCEPT !.retries = @ + 1]
<1>1. m \in Messages(Runs) /\ ~At(w, "IDLE")
  BY DEF Fail, FailRefused, At, ClaimTypeOK, WorkerOK
<1>2. OnlyMoves(w) /\ worker'[w] = Idle
  BY MovesPoint DEF Fail, FailRefused
<1>3. At(w, "IDLE")' /\ WorkerOK(worker[w])'
  BY <1>2 DEF At, Idle, WorkerOK, Places
<1>4. /\ run' \in [Runs -> [status : RunStatus, token : Nat, fresh : BOOLEAN]]
      /\ \A q \in Runs \ {RunOf(w)} : run'[q] = run[q]
      /\ UNCHANGED <<outbox, inHand, sends, slow, refused, overlapped>>
  BY DEF Fail, FailRefused, ClaimTypeOK, RunStatus, runVars, historyVars
<1>5. CASE queue' = queue
  <2>1. queue' = queue \cup {}
    BY <1>5
  <2>2. LeavesBehind(w, {})
    BY <1>2, <1>3, <1>4, <2>1 DEF LeavesBehind
  <2> QED
    BY <1>1, <2>2
<1>6. CASE queue' = queue \cup {again} /\ m.retries < MaxRetries
  <2>1. again \in Messages(Runs) /\ again.task = Task(w) /\ again.about = RunOf(w)
    BY <1>1, <1>6, OutboxAssumption DEF Messages, Task, RunOf
  <2> HIDE DEF again
  <2>2. LeavesBehind(w, {again})
    BY <1>2, <1>3, <1>4, <1>6, <2>1 DEF LeavesBehind
  <2> QED
    BY <1>1, <2>2
<1> QED
  BY <1>5, <1>6 DEF Fail, FailRefused, Retried

LEMMA CrashLeaves ==
  ASSUME ClaimTypeOK, NEW w \in Workers, Crash(w)
  PROVE  ~At(w, "IDLE") /\ LeavesBehind(w, {worker[w].msg})
<1>1. worker[w].msg \in Messages(Runs) /\ ~At(w, "IDLE")
  BY DEF Crash, At, ClaimTypeOK, WorkerOK
<1>2. OnlyMoves(w) /\ worker'[w] = Idle
  BY MovesPoint DEF Crash
<1>3. At(w, "IDLE")' /\ WorkerOK(worker[w])'
  BY <1>2 DEF At, Idle, WorkerOK, Places
<1> QED
  BY <1>1, <1>2, <1>3 DEF Crash, Redelivered, LeavesBehind, runVars, Task, RunOf, ClaimTypeOK

\* The two faults that make a run slow: nothing is claimed of it any more.
LEMMA SlowClaimInv ==
  ASSUME ClaimInv, NEW r \in Runs, slow' = slow \cup {r},
         queue' \in SUBSET queue \/ \E w \in Workers : /\ RunOf(w) = r /\ ~At(w, "IDLE")
                                                       /\ queue' = queue \cup {worker[w].msg},
         run' = [run EXCEPT ![r].fresh = FALSE] \/ run' = run,
         UNCHANGED <<outbox, inHand, sends, worker, refused, overlapped>>
  PROVE  ClaimInv'
<1>0. ClaimTypeOK
  BY DEF ClaimInv
<1>1. \A x \in Workers, q \in Runs : (In(x, q)' <=> In(x, q)) /\ Task(x)' = Task(x)
  BY DEF In, At, RunOf, Task
<1>2. /\ run' \in [Runs -> [status : RunStatus, token : Nat, fresh : BOOLEAN]]
      /\ \A q \in Runs \ {r} : run'[q] = run[q]
      /\ run'[r].status = run[r].status
  BY <1>0 DEF ClaimTypeOK
<1>3. \A m \in queue' : /\ m \in Messages(Runs) /\ m.task <= sends
                        /\ m \in queue \/ m.about = r
  BY <1>0 DEF ClaimTypeOK, WorkerOK, At, RunOf
<1>4. ClaimTypeOK'
  BY <1>0, <1>2, <1>3 DEF ClaimTypeOK, WorkerOK
<1>5. AloneInRun' /\ ClaimHeld'
  BY <1>1, <1>2 DEF ClaimInv, AloneInRun, ClaimHeld, Undisturbed
<1>6. OneMessage'
  <2>1. \A m \in queue' : m.about \in Runs
    BY <1>3 DEF Messages
  <2> QED
    BY <1>1, <1>3, <2>1 DEF ClaimInv, OneMessage, Undisturbed
<1> QED
  BY <1>4, <1>5, <1>6 DEF ClaimInv, OverlapHasACause

LEMMA RawsTypeStep == RawsTypeOK /\ [Next]_vars => RawsTypeOK'
<1> SUFFICES ASSUME RawsTypeOK, [Next]_vars PROVE RawsTypeOK'
  OBVIOUS
<1>1. CASE UNCHANGED raws
  BY <1>1 DEF RawsTypeOK
<1>2. ASSUME NEW s \in Sequences, CommitRaw(s) \/ ImportRaws(s) PROVE RawsTypeOK'
  BY <1>2, ProcessingAssumption DEF RawsTypeOK, CommitRaw, ImportRaws
<1>3. UNCHANGED raws \/ \E s \in Sequences : CommitRaw(s) \/ ImportRaws(s)
  BY DEF Next, vars, runVars, others, ApproveCalibration, CreateRun, ClaimExpires, QuicklookPass,
         SchedulerStep, ScheduleRaw, SendRun, SkipRun, EndScheduling, LoseMark, WorkerStep,
         TakeNothing, Claim, ClaimRefused, MakeQuicklook, KeepFile, OpenPart, ClosePart,
         ReplaceFile, Insert, Fail, FailRefused, IOFailure, Crash, Redeliver
<1> QED
  BY <1>1, <1>2, <1>3

-----------------------------------------------------------------------------
(* The theorems on claims.                                                  *)

WorkerTurn(w) ==
  \/ \E m \in queue : TakeNothing(w, m) \/ Claim(w, m) \/ ClaimRefused(w, m)
  \/ Working(w) \/ Fail(w) \/ FailRefused(w) \/ Crash(w) \/ Redeliver(w)

LEMMA StepKinds ==
  [Next]_vars => \/ QuietStep
                 \/ \E n \in DOMAIN outbox : SendRun(n)
                 \/ \E r \in Runs : ClaimExpires(r)
                 \/ \E w \in Workers : WorkerTurn(w)
<1> SUFFICES ASSUME [Next]_vars
             PROVE  \/ QuietStep
                    \/ \E n \in DOMAIN outbox : SendRun(n)
                    \/ \E r \in Runs : ClaimExpires(r)
                    \/ \E w \in Workers : WorkerTurn(w)
  OBVIOUS
<1>1. CASE SchedulerStep
  BY <1>1 DEF SchedulerStep, QuietStep
<1>2. ASSUME NEW w \in Workers, WorkerStep(w) \/ IOFailure(w) \/ Crash(w) \/ Redeliver(w)
      PROVE  WorkerTurn(w)
  BY <1>2 DEF WorkerStep, WorkerTurn, Working
<1> QED
  BY <1>1, <1>2, AskedAssumption DEF Next, QuietStep

LEMMA ClaimInvStep ==
  ASSUME ClaimInv, RawsTypeOK, [Next]_vars
  PROVE  ClaimInv'
<1>0. ClaimTypeOK
  BY DEF ClaimInv
<1>1. CASE QuietStep
  BY <1>0, <1>1, QuietStepQuiet, QuietClaimInv
<1>2. ASSUME NEW n \in DOMAIN outbox, SendRun(n) PROVE ClaimInv'
  BY <1>2, SendRunClaimInv
<1>3. ASSUME NEW r \in Runs, ClaimExpires(r) PROVE ClaimInv'
  BY <1>3, SlowClaimInv DEF ClaimExpires, outboxVars
<1>4. ASSUME NEW w \in Workers, WorkerTurn(w) PROVE ClaimInv'
  <2>1. ASSUME NEW m \in queue, TakeNothing(w, m) \/ Claim(w, m) \/ ClaimRefused(w, m)
        PROVE  ClaimInv'
    BY <2>1, TakeNothingClaimInv, ClaimClaimInv, ClaimRefusedClaimInv
  <2>2. CASE Working(w)
    BY <1>0, <2>2, WorkingProceeds, ProceedsClaimInv
  <2>3. CASE Fail(w) \/ FailRefused(w)
    BY <1>0, <2>3, FailLeaves, LeavesClaimInv
  <2>4. CASE Crash(w)
    BY <1>0, <2>4, CrashLeaves, LeavesClaimInv
  <2>5. CASE Redeliver(w)
    <3>1. RunOf(w) \in Runs
      BY <1>0, <2>5 DEF Redeliver, ClaimTypeOK, WorkerOK, At, RunOf, Messages
    <3> QED
      BY <2>5, <3>1, SlowClaimInv DEF Redeliver, Redelivered, runVars
  <2> QED
    BY <1>4, <2>1, <2>2, <2>3, <2>4, <2>5 DEF WorkerTurn
<1> QED
  BY <1>1, <1>2, <1>3, <1>4, StepKinds

THEOREM ClaimInvariant == Spec => [](ClaimInv /\ RawsTypeOK)
<1>1. Init => ClaimInv /\ RawsTypeOK
  BY InitClaimInv DEF Init, RawsTypeOK
<1>2. ClaimInv /\ RawsTypeOK /\ [Next]_vars => (ClaimInv /\ RawsTypeOK)'
  BY ClaimInvStep, RawsTypeStep
<1> QED
  BY <1>1, <1>2, PTL DEF Spec

\* Two workers have a task of one run at once only if one of them was too slow
\* for its claim or for Redis, or was refused its claim by the database, however
\* many sequences, workers, crashes, retries and double sends there are
\* (process_run, scheduler/service.py).
THEOREM OverlapTheorem == Spec => []OverlapHasACause
<1>1. ClaimInv => OverlapHasACause
  BY DEF ClaimInv
<1> QED
  BY <1>1, ClaimInvariant, PTL

\* A run that has succeeded stays so, unless a second worker was in it or the
\* claim of one more task was refused.
THEOREM SuccessTheorem == Spec => SuccessIsFinal
<1> DEFINE Final == \A r \in Runs :
                      run[r].status = "SUCCEEDED" /\ r \notin overlapped \cup refused =>
                        run'[r].status = "SUCCEEDED"
<1>1. ASSUME ClaimInv, RawsTypeOK, [Next]_vars PROVE Final
  <2> SUFFICES ASSUME NEW r \in Runs, run[r].status = "SUCCEEDED",
                      r \notin overlapped \cup refused
               PROVE  run'[r].status = "SUCCEEDED"
    OBVIOUS
  <2>0. ClaimTypeOK /\ run \in [Runs -> [status : RunStatus, token : Nat, fresh : BOOLEAN]]
    BY <1>1 DEF ClaimInv, ClaimTypeOK
  <2>1. \A w \in Workers : ~In(w, r)
    BY <1>1 DEF ClaimInv, AloneInRun
  <2>2. CASE QuietStep
    BY <1>1, <2>0, <2>2, QuietStepQuiet DEF Quiet
  <2>3. ASSUME NEW n \in DOMAIN outbox, SendRun(n) PROVE run' = run
    BY <2>3 DEF SendRun, runVars
  <2>4. ASSUME NEW q \in Runs, ClaimExpires(q) PROVE run'[r].status = run[r].status
    BY <2>0, <2>4 DEF ClaimExpires
  <2>5. ASSUME NEW w \in Workers, WorkerTurn(w) PROVE run'[r] = run[r]
    <3>1. ASSUME NEW m \in queue, TakeNothing(w, m) \/ ClaimRefused(w, m) PROVE run'[r] = run[r]
      BY <3>1 DEF TakeNothing, ClaimRefused, runVars
    <3>2. ASSUME NEW m \in queue, Claim(w, m) PROVE run'[r] = run[r]
      BY <2>0, <3>2 DEF Claim, Finished
    <3>3. CASE Working(w)
      BY <2>0, <2>1, <3>3, WorkingProceeds DEF Proceeds, Continues, Ends, In
    <3>4. CASE Fail(w)
      BY <2>0, <2>1, <3>4 DEF Fail, In, At
    <3>5. CASE FailRefused(w) \/ Crash(w) \/ Redeliver(w)
      BY <3>5 DEF FailRefused, Crash, Redeliver, runVars
    <3> QED
      BY <2>5, <3>1, <3>2, <3>3, <3>4, <3>5 DEF WorkerTurn
  <2> QED
    BY <1>1, <2>2, <2>3, <2>4, <2>5, StepKinds
<1>2. ClaimInv /\ RawsTypeOK /\ [Next]_vars => [Final]_vars
  BY <1>1
<1> QED
  BY <1>2, ClaimInvariant, PTL DEF Spec, SuccessIsFinal

-----------------------------------------------------------------------------
(* Work is never lost.                                                      *)

OutboxOK == published \subseteq DOMAIN outbox /\ inHand \in {0} \cup DOMAIN outbox

\* An event that is not published, and whose task is not on its way already.
Pending(r) == \E n \in DOMAIN outbox \ published : n # inHand /\ outbox[n] = QueuedEvent(r)

Carried ==
  \A r \in Runs \ abandoned :
    /\ run[r].status = "QUEUED" => Pending(r) \/ Carriers(r) # {}
    /\ run[r].status = "RUNNING" => \E m \in Carriers(r) : m.task = run[r].token

LostInv == OutboxOK /\ Carried

\* What a step may do to the queued runs: make one with its event, or keep
\* its event.
KeepsPending ==
  \A r \in Runs : run'[r].status = "QUEUED" =>
    \/ Pending(r)'
    \/ run[r].status = "QUEUED" /\ (Pending(r) => Pending(r)')

\* A new event has a number of its own.
LEMMA EmitEvents ==
  ASSUME ClaimTypeOK, NEW e \in Events, outbox' = Emit(e)
  PROVE  /\ DOMAIN outbox \subseteq DOMAIN outbox' /\ \A n \in DOMAIN outbox : outbox'[n] = outbox[n]
         /\ \E l \in DOMAIN outbox' : l \notin DOMAIN outbox /\ l # 0 /\ outbox'[l] = e
<1> DEFINE l == Len(outbox)
<1>1. /\ outbox \in Seq(Events) /\ l \in Nat /\ DOMAIN outbox = 1 .. l
  BY LenProperties DEF ClaimTypeOK
<1>2. /\ outbox' \in Seq(Events) /\ Len(outbox') = l + 1
      /\ \A k \in 1 .. l : outbox'[k] = outbox[k]
      /\ outbox'[l + 1] = e
  BY <1>1, AppendProperties DEF Emit
<1>3. DOMAIN outbox' = 1 .. l + 1
  BY <1>2, LenProperties
<1> HIDE DEF l
<1> QED
  BY <1>1, <1>2, <1>3

\* The event that is added is pending, those that are not consumed stay so.
LEMMA EmitPending ==
  ASSUME ClaimTypeOK, OutboxOK, NEW e \in Events, outbox' = Emit(e),
         NEW gone \in SUBSET DOMAIN outbox, published' = published \cup gone, UNCHANGED inHand
  PROVE  /\ OutboxOK'
         /\ \A r \in Runs : e = QueuedEvent(r) => Pending(r)'
         /\ \A r \in Runs : (\A n \in gone : outbox[n] # QueuedEvent(r)) /\ Pending(r) => Pending(r)'
<1>1. PICK l \in DOMAIN outbox' : l \notin DOMAIN outbox /\ l # 0 /\ outbox'[l] = e
  BY EmitEvents
<1>2. DOMAIN outbox \subseteq DOMAIN outbox' /\ \A n \in DOMAIN outbox : outbox'[n] = outbox[n]
  BY EmitEvents
<1> QED
  BY <1>1, <1>2 DEF OutboxOK, Pending, QueuedEvent

\* No event is added.
LEMMA ConsumePending ==
  ASSUME OutboxOK, UNCHANGED outbox, NEW gone \in SUBSET DOMAIN outbox,
         published' = published \cup gone, inHand' \in {0, inHand}, ClaimTypeOK
  PROVE  /\ OutboxOK'
         /\ \A r \in Runs : (\A n \in gone : outbox[n] # QueuedEvent(r) \/ n = inHand) /\ Pending(r)
              => Pending(r)'
<1>1. 0 \notin DOMAIN outbox
  BY LenProperties DEF ClaimTypeOK
<1> QED
  BY <1>1 DEF OutboxOK, Pending, QueuedEvent

LEMMA EnsureRunPending ==
  ASSUME ClaimTypeOK, OutboxOK, NEW r \in Runs, EnsureRun(r),
         NEW gone \in SUBSET DOMAIN outbox, \A n \in gone, q \in Runs : outbox[n] # QueuedEvent(q),
         published' = published \cup gone, UNCHANGED inHand
  PROVE  /\ OutboxOK' /\ KeepsPending
         /\ \A q \in Runs : run'[q] = run[q] \/ run'[q].status \in {"WAITING_CALIBRATION", "QUEUED"}
<1>0. run \in [Runs -> [status : RunStatus, token : Nat, fresh : BOOLEAN]]
  BY DEF ClaimTypeOK
<1>1. CASE run' = [run EXCEPT ![r].status = "QUEUED"] /\ outbox' = Emit(QueuedEvent(r))
  <2>1. QueuedEvent(r) \in Events
    BY DEF QueuedEvent, Events
  <2>2. /\ OutboxOK'
        /\ Pending(r)'
        /\ \A q \in Runs : Pending(q) => Pending(q)'
    BY <1>1, <2>1, EmitPending
  <2>3. \A q \in Runs \ {r} : run'[q] = run[q]
    BY <1>0, <1>1
  <2> QED
    BY <1>0, <1>1, <2>2, <2>3 DEF KeepsPending
<1>2. CASE UNCHANGED outbox /\ (run' = run \/ run' = [run EXCEPT ![r].status = "WAITING_CALIBRATION"])
  <2>1. OutboxOK' /\ \A q \in Runs : Pending(q) => Pending(q)'
    BY <1>2, ConsumePending
  <2>2. \A q \in Runs : run'[q] = run[q] \/ run'[q].status = "WAITING_CALIBRATION"
    BY <1>0, <1>2
  <2> QED
    BY <2>1, <2>2 DEF KeepsPending
<1> QED
  BY <1>1, <1>2 DEF EnsureRun

LEMMA QuietStepPending ==
  ASSUME ClaimTypeOK, RawsTypeOK, OutboxOK, QuietStep
  PROVE  /\ OutboxOK' /\ KeepsPending
         /\ \A q \in Runs : run'[q] = run[q] \/ run'[q].status \in {"WAITING_CALIBRATION", "QUEUED"}
<1> DEFINE Goal == /\ OutboxOK' /\ KeepsPending
                   /\ \A q \in Runs :
                        run'[q] = run[q] \/ run'[q].status \in {"WAITING_CALIBRATION", "QUEUED"}
<1>1. ASSUME UNCHANGED run, OutboxOK',
             \A q \in Runs : run[q].status = "QUEUED" /\ Pending(q) => Pending(q)'
      PROVE  Goal
  BY <1>1 DEF KeepsPending
<1>2. published = published \cup {} /\ {} \in SUBSET DOMAIN outbox
  OBVIOUS
<1>3. CASE UNCHANGED outboxVars /\ UNCHANGED run
  BY <1>1, <1>3 DEF outboxVars, OutboxOK, Pending
<1>4. ASSUME NEW s \in Sequences, CommitRaw(s) PROVE Goal
  <2> DEFINE e == [type |-> "RAW_FILE_COMMITTED", about |-> <<s, raws[s] + 1>>]
  <2>1. e \in Events
    BY DEF RawsTypeOK, Events
  <2>2. outbox' = Emit(e) /\ UNCHANGED <<published, inHand, run>>
    BY <1>4 DEF CommitRaw
  <2> HIDE DEF e
  <2>3. published' = published \cup {} /\ {} \in SUBSET DOMAIN outbox
    BY <2>2
  <2>4. OutboxOK' /\ \A q \in Runs : Pending(q) => Pending(q)'
    BY <2>1, <2>2, <2>3, EmitPending
  <2> QED
    BY <1>1, <2>2, <2>4
<1>5. ASSUME NEW r \in Runs, CreateRun(r) PROVE Goal
  <2>1. EnsureRun(r) /\ UNCHANGED inHand /\ published' = published \cup {} /\ {} \in SUBSET DOMAIN outbox
    BY <1>2, <1>5 DEF CreateRun
  <2> QED
    BY <2>1, EnsureRunPending
<1>6. ASSUME NEW n \in DOMAIN outbox, ScheduleRaw(n) PROVE Goal
  <2> DEFINE s == outbox[n].about[1]
             r == [seq |-> s, cal |-> NoCal, par |-> Default]
  <2>1. r \in Runs
    BY <1>6, RawEvent, DefaultRun DEF ScheduleRaw
  <2>2. /\ published' = published \cup {n} /\ {n} \in SUBSET DOMAIN outbox /\ UNCHANGED inHand
        /\ \A q \in Runs : outbox[n] # QueuedEvent(q)
    BY <1>6 DEF ScheduleRaw, Consume, QueuedEvent
  <2>3. CASE EnsureRun(r)
    BY <2>1, <2>2, <2>3, EnsureRunPending
  <2>4. CASE UNCHANGED <<run, outbox>>
    <3>1. OutboxOK' /\ \A q \in Runs : Pending(q) => Pending(q)'
      BY <2>2, <2>4, ConsumePending
    <3> QED
      BY <1>1, <2>4, <3>1
  <2> QED
    BY <1>6, <2>3, <2>4 DEF ScheduleRaw
<1>7. ASSUME NEW n \in DOMAIN outbox, SkipRun(n) PROVE Goal
  <2>1. /\ published' = published \cup {n} /\ {n} \in SUBSET DOMAIN outbox
        /\ UNCHANGED <<outbox, inHand, run>>
        /\ \A q \in Runs : run[q].status = "QUEUED" => outbox[n] # QueuedEvent(q)
    BY <1>7 DEF SkipRun, Consume, QueuedEvent, runVars
  <2>2. OutboxOK' /\ \A q \in Runs : run[q].status = "QUEUED" /\ Pending(q) => Pending(q)'
    BY <2>1, ConsumePending
  <2> QED
    BY <1>1, <2>1, <2>2
<1>8. CASE EndScheduling
  <2>1. /\ published' = published \cup {inHand} /\ {inHand} \in SUBSET DOMAIN outbox
        /\ inHand' \in {0, inHand} /\ UNCHANGED <<outbox, run>>
    BY <1>8 DEF EndScheduling, Publish, OutboxOK, runVars
  <2>2. OutboxOK' /\ \A q \in Runs : Pending(q) => Pending(q)'
    BY <2>1, ConsumePending
  <2> QED
    BY <1>1, <2>1, <2>2
<1>9. CASE LoseMark
  <2>1. /\ published' = published \cup {} /\ {} \in SUBSET DOMAIN outbox
        /\ inHand' \in {0, inHand} /\ UNCHANGED <<outbox, run>>
    BY <1>9 DEF LoseMark, SchedulerCrash, runVars
  <2>2. OutboxOK' /\ \A q \in Runs : Pending(q) => Pending(q)'
    BY <2>1, ConsumePending
  <2> QED
    BY <1>1, <2>1, <2>2
<1>10. ASSUME ~(UNCHANGED outboxVars /\ UNCHANGED run),
              \A s \in Sequences : ~CommitRaw(s), \A r \in Runs : ~CreateRun(r),
              \A n \in DOMAIN outbox : ~ScheduleRaw(n) /\ ~SkipRun(n),
              ~EndScheduling, ~LoseMark
       PROVE  FALSE
  BY <1>10 DEF QuietStep, ImportRaws, ApproveCalibration, QuicklookPass, vars, runVars
<1> QED
  BY <1>3, <1>4, <1>5, <1>6, <1>7, <1>8, <1>9, <1>10

LEMMA InitLostInv == Init => LostInv
BY DEF Init, OutboxInit, LostInv, OutboxOK, Carried, Idle, At

LEMMA QuietLostInv ==
  ASSUME ClaimTypeOK, RawsTypeOK, LostInv, QuietStep
  PROVE  LostInv'
<1>1. Quiet /\ OutboxOK' /\ KeepsPending
  BY QuietStepQuiet, QuietStepPending DEF LostInv
<1>2. \A q \in Runs : run'[q] = run[q] \/ run'[q].status \in {"WAITING_CALIBRATION", "QUEUED"}
  BY QuietStepPending DEF LostInv
<1>3. \A r \in Runs : Carriers(r)' = Carriers(r)
  BY <1>1 DEF Quiet, Carriers, At, RunOf
<1>4. Carried'
  BY <1>1, <1>2, <1>3 DEF KeepsPending, LostInv, Carried, Quiet
<1> QED
  BY <1>1, <1>4 DEF LostInv

\* A message that somebody has stays with somebody, and the runs stay as they
\* are but for one that is claimed, or is over.
LEMMA HandOver ==
  ASSUME ClaimTypeOK, LostInv, OutboxOK', abandoned \subseteq abandoned',
         \A r \in Runs \ abandoned' :
           run'[r].status = "QUEUED" => /\ run[r].status = "QUEUED"
                                        /\ Pending(r) => Pending(r)' \/ Carriers(r)' # {}
                                        /\ Carriers(r) # {} => Carriers(r)' # {},
         \A r \in Runs \ abandoned' :
           run'[r].status = "RUNNING" =>
             \/ \E m \in Carriers(r)' : m.task = run'[r].token
             \/ /\ run[r].status = "RUNNING" /\ run'[r].token = run[r].token
                /\ \A m \in Carriers(r) : m.task = run[r].token => m \in Carriers(r)'
  PROVE  LostInv'
BY DEF LostInv, Carried

LEMMA SendRunLostInv ==
  ASSUME ClaimTypeOK, LostInv, NEW n \in DOMAIN outbox, SendRun(n)
  PROVE  LostInv'
<1> DEFINE m == [task |-> sends + 1, about |-> outbox[n].about, retries |-> 0]
<1>1. /\ queue' = queue \cup {m} /\ inHand' = n /\ outbox[n].type = "QUEUED"
      /\ UNCHANGED <<outbox, published, run, worker, abandoned>>
  BY DEF SendRun, Send, runVars, historyVars
<1>2. \A r \in Runs : Carriers(r) \subseteq Carriers(r)' /\ (m.about = r => Carriers(r)' # {})
  BY <1>1 DEF Carriers, At, RunOf
<1>3. \A r \in Runs : Pending(r) => Pending(r)' \/ Carriers(r)' # {}
  BY <1>1, <1>2 DEF Pending, QueuedEvent
<1>4. OutboxOK'
  BY <1>1 DEF LostInv, OutboxOK
<1> QED
  BY <1>1, <1>2, <1>3, <1>4, HandOver

LEMMA TakeNothingLostInv ==
  ASSUME ClaimTypeOK, LostInv, NEW w \in Workers, NEW m \in queue, TakeNothing(w, m)
  PROVE  LostInv'
<1>1. /\ queue' = queue \ {m}
      /\ Finished(m.about) \/ Busy(m.about, m)
      /\ UNCHANGED <<outbox, published, inHand, run, worker, abandoned>>
  BY DEF TakeNothing, Acknowledged, runVars, historyVars
<1>2. \A r \in Runs : /\ \A k \in Carriers(r) : k # m => k \in Carriers(r)'
                      /\ r # m.about => Carriers(r) \subseteq Carriers(r)'
                      /\ Pending(r) => Pending(r)'
  BY <1>1 DEF Carriers, At, RunOf, Pending
<1>3. OutboxOK'
  BY <1>1 DEF LostInv, OutboxOK
<1> QED
  BY <1>1, <1>2, <1>3, HandOver DEF Finished, Busy

LEMMA ClaimLostInv ==
  ASSUME ClaimTypeOK, LostInv, NEW w \in Workers, NEW m \in queue, Claim(w, m)
  PROVE  LostInv'
<1> DEFINE r == m.about
           rec == [Idle EXCEPT !.at = IF Complete(r.seq) /\ MayQueue(r) THEN "OPEN" ELSE "RAISED",
                               !.msg = m]
<1>1. /\ At(w, "IDLE") /\ Moves(w, rec) /\ queue' = queue \ {m} /\ r \in Runs
      /\ run' = [run EXCEPT ![r] = [status |-> "RUNNING", token |-> m.task, fresh |-> TRUE]]
      /\ UNCHANGED <<outbox, published, inHand, abandoned>>
  BY DEF Claim, Acknowledged, ClaimTypeOK, Messages
<1>2. rec.at # "IDLE" /\ rec.msg = m
  BY DEF Idle
<1> HIDE DEF rec
<1>3. OnlyMoves(w) /\ worker'[w] = rec
  BY <1>1, MovesPoint
<1>4. /\ \A q \in Runs \ {r} : run'[q] = run[q]
      /\ run'[r].status = "RUNNING" /\ run'[r].token = m.task
  BY <1>1 DEF ClaimTypeOK
<1>5. \A x \in Workers : /\ x # w => worker'[x] = worker[x]
                         /\ x = w => worker[x].at = "IDLE" /\ worker'[x] = rec
  BY <1>1, <1>3 DEF OnlyMoves, At
<1>6. \A q \in Runs \ {r} : Carriers(q) \subseteq Carriers(q)'
  BY <1>1, <1>5 DEF Carriers, At, RunOf
<1>7. m \in Carriers(r)'
  BY <1>2, <1>3, <1>5 DEF Carriers, At, RunOf
<1>8. OutboxOK' /\ \A q \in Runs : Pending(q) => Pending(q)'
  BY <1>1 DEF LostInv, OutboxOK, Pending
<1> QED
  BY <1>1, <1>4, <1>6, <1>7, <1>8, HandOver

\* A worker that is refused the claim has the message all the same.
LEMMA ClaimRefusedLostInv ==
  ASSUME ClaimTypeOK, LostInv, NEW w \in Workers, NEW m \in queue, ClaimRefused(w, m)
  PROVE  LostInv'
<1>1. /\ At(w, "IDLE") /\ OnlyMoves(w)
      /\ worker'[w].at = "RAISED" /\ worker'[w].msg = m
      /\ queue' = queue \ {m} /\ UNCHANGED <<outbox, inHand, run, abandoned>>
  BY RefusedPoint
<1>2. UNCHANGED published
  BY DEF ClaimRefused
<1>3. \A x \in Workers : /\ x # w => worker'[x] = worker[x]
                         /\ x = w => worker[x].at = "IDLE" /\ worker'[x].at # "IDLE"
  BY <1>1 DEF OnlyMoves, At
<1>4. \A q \in Runs : Carriers(q) \subseteq Carriers(q)'
  BY <1>1, <1>3 DEF Carriers, At, RunOf
<1>5. OutboxOK' /\ \A q \in Runs : Pending(q) => Pending(q)'
  BY <1>1, <1>2 DEF LostInv, OutboxOK, Pending
<1> QED
  BY <1>1, <1>4, <1>5, HandOver

\* A worker that goes on keeps its message; one that ends has finished its run.
LEMMA ProceedsLostInv ==
  ASSUME ClaimTypeOK, LostInv, NEW w \in Workers, ~At(w, "IDLE"), Proceeds(w),
         UNCHANGED <<outboxVars, abandoned>>
  PROVE  LostInv'
<1>0. \A x \in Workers : ~At(x, "IDLE") => RunOf(x) \in Runs
  BY DEF ClaimTypeOK, WorkerOK, At, RunOf, Messages
<1>1. OutboxOK' /\ \A q \in Runs : Pending(q) => Pending(q)'
  BY DEF LostInv, OutboxOK, Pending, outboxVars
<1>2. CASE Continues(w)
  <2>1. \A x \in Workers : (At(x, "IDLE")' <=> At(x, "IDLE")) /\ worker'[x].msg = worker[x].msg
    BY <1>2 DEF Continues, OnlyMoves, At
  <2>2. \A q \in Runs : Carriers(q) \subseteq Carriers(q)'
    BY <2>1 DEF Carriers, RunOf, outboxVars
  <2> QED
    BY <1>1, <1>2, <2>2, HandOver DEF Continues
<1>3. CASE Ends(w)
  <2>1. \A x \in Workers : /\ x # w => worker'[x] = worker[x]
                           /\ x = w => worker'[x].at = "IDLE"
    BY <1>3 DEF Ends, OnlyMoves, Idle
  <2>2. /\ \A q \in Runs \ {RunOf(w)} : run'[q] = run[q]
        /\ RunOf(w) \in Runs /\ run'[RunOf(w)].status = "SUCCEEDED"
    BY <1>0, <1>3 DEF Ends, ClaimTypeOK
  <2>3. \A q \in Runs \ {RunOf(w)} : Carriers(q) \subseteq Carriers(q)'
    BY <2>1 DEF Carriers, At, RunOf, outboxVars
  <2> QED
    BY <1>1, <2>2, <2>3, HandOver
<1> QED
  BY <1>2, <1>3 DEF Proceeds

LEMMA FailLostInv ==
  ASSUME ClaimTypeOK, LostInv, NEW w \in Workers, Fail(w)
  PROVE  LostInv'
<1>0. \A x \in Workers : ~At(x, "IDLE") => RunOf(x) \in Runs
  BY DEF ClaimTypeOK, WorkerOK, At, RunOf, Messages
<1>1. OutboxOK' /\ \A q \in Runs : Pending(q) => Pending(q)'
  BY DEF Fail, LostInv, OutboxOK, Pending
<1>2. OnlyMoves(w) /\ worker'[w] = Idle
  BY MovesPoint DEF Fail
<1>3. \A x \in Workers : /\ x # w => worker'[x] = worker[x]
                         /\ x = w => worker'[x].at = "IDLE"
  BY <1>2 DEF OnlyMoves, Idle
<1>4. /\ \A q \in Runs \ {RunOf(w)} : run'[q] = run[q]
      /\ RunOf(w) \in Runs /\ run'[RunOf(w)].status = "FAILED"
  BY <1>0 DEF Fail, At, ClaimTypeOK
<1>5. queue \subseteq queue'
  BY DEF Fail, Retried
<1>6. \A q \in Runs \ {RunOf(w)} : Carriers(q) \subseteq Carriers(q)'
  BY <1>3, <1>5 DEF Carriers, At, RunOf
<1>7. UNCHANGED abandoned
  BY DEF Fail, historyVars
<1> QED
  BY <1>1, <1>4, <1>6, <1>7, HandOver

\* The failure is not recorded: unless the task is given up its message is back,
\* with one retry more.
LEMMA FailRefusedLostInv ==
  ASSUME ClaimTypeOK, LostInv, NEW w \in Workers, FailRefused(w)
  PROVE  LostInv'
<1> DEFINE m == worker[w].msg
           again == [m EXCEPT !.retries = @ + 1]
<1>1. /\ UNCHANGED <<outbox, published, inHand, run>>
      /\ abandoned \subseteq abandoned' /\ queue \subseteq queue'
      /\ RunOf(w) \notin abandoned' => again \in queue'
  BY DEF FailRefused, Retried, runVars
<1>2. m \in Messages(Runs) /\ ~At(w, "IDLE")
  BY DEF FailRefused, At, ClaimTypeOK, WorkerOK
<1>3. OutboxOK' /\ \A q \in Runs : Pending(q) => Pending(q)'
  BY <1>1 DEF LostInv, OutboxOK, Pending
<1>4. OnlyMoves(w) /\ worker'[w] = Idle
  BY MovesPoint DEF FailRefused
<1>5. \A x \in Workers \ {w} : worker'[x] = worker[x]
  BY <1>4 DEF OnlyMoves
<1>6. again.task = m.task /\ again.about = m.about
  BY <1>2 DEF Messages
<1> HIDE DEF again
<1>7. ASSUME NEW r \in Runs \ abandoned', NEW k \in Carriers(r)
      PROVE  \E n \in Carriers(r)' : n.task = k.task
  <2>1. CASE k = m /\ RunOf(w) = r
    BY <1>1, <1>6, <2>1 DEF Carriers, RunOf
  <2>2. CASE ~(k = m /\ RunOf(w) = r)
    <3>1. k \in Carriers(r)'
      BY <1>1, <1>5, <2>2 DEF Carriers, At, RunOf
    <3> QED
      BY <3>1
  <2> QED
    BY <2>1, <2>2
<1>8. Carried'
  BY <1>1, <1>3, <1>7 DEF LostInv, Carried
<1> QED
  BY <1>3, <1>8 DEF LostInv

LEMMA CrashLostInv ==
  ASSUME ClaimTypeOK, LostInv, NEW w \in Workers, Crash(w)
  PROVE  LostInv'
<1>1. OutboxOK' /\ \A q \in Runs : Pending(q) => Pending(q)'
  BY DEF Crash, LostInv, OutboxOK, Pending
<1>2. OnlyMoves(w) /\ worker'[w] = Idle
  BY MovesPoint DEF Crash
<1>3. \A x \in Workers : /\ x # w => worker'[x] = worker[x]
                         /\ x = w => worker'[x].at = "IDLE"
  BY <1>2 DEF OnlyMoves, Idle
<1>4. queue' = queue \cup {worker[w].msg} /\ run' = run
  BY DEF Crash, Redelivered, runVars
<1>5. \A q \in Runs : Carriers(q) \subseteq Carriers(q)'
  BY <1>3, <1>4 DEF Carriers, At, RunOf
<1>6. UNCHANGED abandoned
  BY DEF Crash
<1> QED
  BY <1>1, <1>4, <1>5, <1>6, HandOver

\* A claim that expires, or a message that is delivered again.
LEMMA SlowLostInv ==
  ASSUME ClaimTypeOK, LostInv, NEW r \in Runs,
         run' = [run EXCEPT ![r].fresh = FALSE] \/ run' = run,
         queue \subseteq queue', UNCHANGED <<outbox, published, inHand, worker, abandoned>>
  PROVE  LostInv'
<1>1. OutboxOK' /\ \A q \in Runs : Pending(q) => Pending(q)'
  BY DEF LostInv, OutboxOK, Pending
<1>2. \A q \in Runs : run'[q].status = run[q].status /\ run'[q].token = run[q].token
  BY DEF ClaimTypeOK
<1>3. \A q \in Runs : Carriers(q) \subseteq Carriers(q)'
  BY DEF Carriers, At, RunOf
<1> QED
  BY <1>1, <1>2, <1>3, HandOver

LEMMA LostInvStep ==
  ASSUME ClaimTypeOK, RawsTypeOK, LostInv, [Next]_vars
  PROVE  LostInv'
<1>1. CASE QuietStep
  BY <1>1, QuietLostInv
<1>2. ASSUME NEW n \in DOMAIN outbox, SendRun(n) PROVE LostInv'
  BY <1>2, SendRunLostInv
<1>3. ASSUME NEW r \in Runs, ClaimExpires(r) PROVE LostInv'
  BY <1>3, SlowLostInv DEF ClaimExpires, outboxVars
<1>4. ASSUME NEW w \in Workers, WorkerTurn(w) PROVE LostInv'
  <2>1. ASSUME NEW m \in queue, TakeNothing(w, m) \/ Claim(w, m) \/ ClaimRefused(w, m)
        PROVE  LostInv'
    BY <2>1, TakeNothingLostInv, ClaimLostInv, ClaimRefusedLostInv
  <2>2. CASE Working(w)
    BY <2>2, WorkingProceeds, ProceedsLostInv
  <2>3. CASE Fail(w) \/ FailRefused(w) \/ Crash(w)
    BY <2>3, FailLostInv, FailRefusedLostInv, CrashLostInv
  <2>4. CASE Redeliver(w)
    <3>1. RunOf(w) \in Runs
      BY <2>4 DEF Redeliver, ClaimTypeOK, WorkerOK, At, RunOf, Messages
    <3> QED
      BY <2>4, <3>1, SlowLostInv DEF Redeliver, Redelivered, runVars
  <2> QED
    BY <1>4, <2>1, <2>2, <2>3, <2>4 DEF WorkerTurn
<1> QED
  BY <1>1, <1>2, <1>3, <1>4, StepKinds

\* A run that is queued or claimed is always on its way: an event that the
\* scheduler will find, a message, or a worker, whatever crashes in between
\* (outbox, scheduler, task_acks_late); the way out is a failure that the database
\* refused to record and whose task is not retried.
THEOREM WorkTheorem == Spec => []WorkIsNeverLost
<1>1. ClaimInv /\ RawsTypeOK /\ LostInv /\ [Next]_vars => LostInv'
  BY LostInvStep DEF ClaimInv
<1>2. LostInv => WorkIsNeverLost
  BY DEF LostInv, Carried, WorkIsNeverLost, Pending, ToBeSent
<1> QED
  BY <1>1, <1>2, InitLostInv, ClaimInvariant, PTL DEF Spec

-----------------------------------------------------------------------------
(* The last frame of a sequence is noticed.                                 *)

DefaultRunOf(s) == [seq |-> s, cal |-> NoCal, par |-> Default]

\* The event the scheduler has sent a task for is one of a run.
NoticeInv ==
  /\ OutboxOK
  /\ inHand # 0 => outbox[inHand].type = "QUEUED"
  /\ CompletionIsNoticed

LEMMA RunKind ==
  ASSUME NEW r \in Runs
  PROVE  /\ r.seq \in Sequences /\ Kind[r.seq] \in {"POL", "NONPOL", "ESPADONS"}
         /\ Expected[r.seq] \in Nat \ {0} /\ GroupSize \in Nat \ {0}
         /\ Kind[r.seq] # "NONPOL" => Expected[r.seq] % GroupSize = 0
BY ProcessingAssumption DEF Runs

\* No run goes back to NONE.
LEMMA NeverNone ==
  ASSUME ClaimTypeOK, RawsTypeOK, OutboxOK, [Next]_vars,
         NEW r \in Runs, run[r].status # "NONE"
  PROVE  run'[r].status # "NONE"
<1>0. run \in [Runs -> [status : RunStatus, token : Nat, fresh : BOOLEAN]]
  BY DEF ClaimTypeOK
<1>1. CASE QuietStep
  BY <1>1, QuietStepPending
<1>2. ASSUME NEW n \in DOMAIN outbox, SendRun(n) PROVE run' = run
  BY <1>2 DEF SendRun, runVars
<1>3. ASSUME NEW q \in Runs, ClaimExpires(q) PROVE run'[r].status = run[r].status
  BY <1>0, <1>3 DEF ClaimExpires
<1>4. ASSUME NEW w \in Workers, WorkerTurn(w) PROVE run'[r].status # "NONE"
  <2>1. ASSUME NEW m \in queue, TakeNothing(w, m) \/ Claim(w, m) \/ ClaimRefused(w, m)
        PROVE  run'[r].status # "NONE"
    <3>1. CASE TakeNothing(w, m) \/ ClaimRefused(w, m)
      BY <3>1 DEF TakeNothing, ClaimRefused, runVars
    <3>2. CASE Claim(w, m)
      BY <1>0, <3>2 DEF Claim
    <3> QED
      BY <2>1, <3>1, <3>2
  <2>2. CASE Working(w)
    BY <1>0, <2>2, WorkingProceeds DEF Proceeds, Continues, Ends
  <2>3. CASE Fail(w)
    BY <1>0, <2>3 DEF Fail
  <2>4. CASE FailRefused(w) \/ Crash(w) \/ Redeliver(w)
    BY <2>4 DEF FailRefused, Crash, Redeliver, runVars
  <2> QED
    BY <1>4, <2>1, <2>2, <2>3, <2>4 DEF WorkerTurn
<1> QED
  BY <1>1, <1>2, <1>3, <1>4, StepKinds

\* As long as nothing is taken from the events of raw files.
LEMMA NoticeKept ==
  ASSUME ClaimTypeOK, RawsTypeOK, NoticeInv, [Next]_vars, UNCHANGED raws,
         DOMAIN outbox \subseteq DOMAIN outbox', \A n \in DOMAIN outbox : outbox'[n] = outbox[n],
         \A n \in published' \ published : n \in DOMAIN outbox /\ outbox[n].type = "QUEUED",
         inHand' \in {0, inHand} \/ (inHand' \in DOMAIN outbox /\ outbox[inHand'].type = "QUEUED")
  PROVE  NoticeInv'
<1>1. OutboxOK' /\ (inHand' # 0 => outbox'[inHand'].type = "QUEUED")
  BY DEF NoticeInv, OutboxOK
<1>2. SUFFICES ASSUME NEW s \in Sequences, ~Real(s), raws[s] = Expected[s]
               PROVE  \/ run'[DefaultRunOf(s)].status # "NONE"
                      \/ \E n \in DOMAIN outbox' \ published' :
                           outbox'[n].type = "RAW_FILE_COMMITTED" /\ outbox'[n].about[1] = s
  BY <1>1 DEF NoticeInv, CompletionIsNoticed, DefaultRunOf
<1>3. CASE run[DefaultRunOf(s)].status # "NONE"
  BY <1>3, NeverNone, DefaultRun DEF DefaultRunOf, NoticeInv
<1>4. CASE \E n \in DOMAIN outbox \ published :
             outbox[n].type = "RAW_FILE_COMMITTED" /\ outbox[n].about[1] = s
  BY <1>4
<1> QED
  BY <1>2, <1>3, <1>4 DEF NoticeInv, CompletionIsNoticed, DefaultRunOf

LEMMA NoticeStep ==
  ASSUME ClaimTypeOK, RawsTypeOK, NoticeInv, [Next]_vars
  PROVE  NoticeInv'
<1> DEFINE Seen(s) ==
      \/ run[DefaultRunOf(s)].status # "NONE"
      \/ \E n \in DOMAIN outbox \ published :
           outbox[n].type = "RAW_FILE_COMMITTED" /\ outbox[n].about[1] = s
<1>0. /\ OutboxOK /\ raws \in [Sequences -> Nat]
      /\ run \in [Runs -> [status : RunStatus, token : Nat, fresh : BOOLEAN]]
  BY DEF NoticeInv, RawsTypeOK, ClaimTypeOK
<1>1. ASSUME NEW s \in Sequences, CommitRaw(s) PROVE NoticeInv'
  <2> DEFINE e == [type |-> "RAW_FILE_COMMITTED", about |-> <<s, raws[s] + 1>>]
  <2>1. e \in Events /\ e.type = "RAW_FILE_COMMITTED" /\ e.about[1] = s
    BY <1>0 DEF Events
  <2>2. /\ outbox' = Emit(e) /\ UNCHANGED <<published, inHand, run>>
        /\ raws' = [raws EXCEPT ![s] = @ + 1]
    BY <1>1 DEF CommitRaw
  <2> HIDE DEF e
  <2>3. PICK l \in DOMAIN outbox' : l \notin DOMAIN outbox /\ l # 0 /\ outbox'[l] = e
    BY <2>1, <2>2, EmitEvents
  <2>4. DOMAIN outbox \subseteq DOMAIN outbox' /\ \A n \in DOMAIN outbox : outbox'[n] = outbox[n]
    BY <2>1, <2>2, EmitEvents
  <2>5. OutboxOK' /\ (inHand' # 0 => outbox'[inHand'].type = "QUEUED")
    BY <2>2, <2>4 DEF NoticeInv, OutboxOK
  <2>6. CompletionIsNoticed'
    <3> SUFFICES ASSUME NEW x \in Sequences, ~Real(x), raws'[x] = Expected[x] PROVE Seen(x)'
      BY DEF CompletionIsNoticed, DefaultRunOf
    <3>1. CASE x = s
      BY <1>0, <2>1, <2>2, <2>3, <3>1 DEF OutboxOK
    <3>2. CASE x # s
      <4>1. raws[x] = Expected[x]
        BY <1>0, <2>2, <3>2
      <4>2. Seen(x)
        BY <4>1 DEF NoticeInv, CompletionIsNoticed, DefaultRunOf
      <4> QED
        BY <2>2, <2>4, <4>2
    <3> QED
      BY <3>1, <3>2
  <2> QED
    BY <2>5, <2>6 DEF NoticeInv
<1>2. ASSUME NEW s \in Sequences, ImportRaws(s) PROVE NoticeInv'
  <2>1. /\ UNCHANGED <<outbox, published, inHand, run>> /\ Real(s)
        /\ raws' = [raws EXCEPT ![s] = Expected[s]]
    BY <1>2 DEF ImportRaws, outboxVars
  <2>2. \A x \in Sequences : ~Real(x) => raws'[x] = raws[x]
    BY <1>0, <2>1
  <2> QED
    BY <2>1, <2>2 DEF NoticeInv, OutboxOK, CompletionIsNoticed
<1>3. ASSUME NEW r \in Runs, CreateRun(r) PROVE NoticeInv'
  <2>1. UNCHANGED <<raws, published, inHand>>
    BY <1>3 DEF CreateRun
  <2>2. QueuedEvent(r) \in Events
    BY DEF QueuedEvent, Events
  <2>3. outbox' = outbox \/ outbox' = Emit(QueuedEvent(r))
    BY <1>3 DEF CreateRun, EnsureRun
  <2>4. DOMAIN outbox \subseteq DOMAIN outbox' /\ \A n \in DOMAIN outbox : outbox'[n] = outbox[n]
    BY <2>2, <2>3, EmitEvents
  <2> QED
    BY <2>1, <2>4, NoticeKept
<1>4. ASSUME NEW n \in DOMAIN outbox, ScheduleRaw(n) PROVE NoticeInv'
  <2> DEFINE s == outbox[n].about[1]
             r == DefaultRunOf(s)
  <2>1. /\ s \in Sequences /\ r \in Runs
        /\ published' = published \cup {n} /\ UNCHANGED <<raws, inHand>>
        /\ IF Complete(s) THEN EnsureRun(r) ELSE UNCHANGED <<run, outbox>>
    BY <1>4, RawEvent, DefaultRun DEF ScheduleRaw, Consume, DefaultRunOf
  <2>2. QueuedEvent(r) \in Events
    BY <2>1 DEF QueuedEvent, Events
  <2>3. outbox' = outbox \/ outbox' = Emit(QueuedEvent(r))
    BY <2>1 DEF EnsureRun
  <2>4. DOMAIN outbox \subseteq DOMAIN outbox' /\ \A k \in DOMAIN outbox : outbox'[k] = outbox[k]
    BY <2>2, <2>3, EmitEvents
  <2>5. OutboxOK' /\ (inHand' # 0 => outbox'[inHand'].type = "QUEUED")
    BY <2>1, <2>4 DEF NoticeInv, OutboxOK
  <2>6. CompletionIsNoticed'
    <3> SUFFICES ASSUME NEW x \in Sequences, ~Real(x), raws[x] = Expected[x] PROVE Seen(x)'
      BY <2>1 DEF CompletionIsNoticed, DefaultRunOf
    <3>1. CASE x = s
      <4>1. EnsureRun(r)
        BY <2>1, <3>1, RunKind DEF Complete, DefaultRunOf
      <4>2. run'[r].status # "NONE"
        BY <1>0, <2>1, <4>1 DEF EnsureRun
      <4> QED
        BY <3>1, <4>2
    <3>2. CASE x # s
      <4>1. Seen(x)
        BY DEF NoticeInv, CompletionIsNoticed, DefaultRunOf
      <4>2. CASE run[DefaultRunOf(x)].status # "NONE"
        BY <1>0, <4>2, NeverNone, DefaultRun DEF DefaultRunOf
      <4>3. CASE \E k \in DOMAIN outbox \ published :
                   outbox[k].type = "RAW_FILE_COMMITTED" /\ outbox[k].about[1] = x
        BY <2>1, <2>4, <3>2, <4>3
      <4> QED
        BY <4>1, <4>2, <4>3
    <3> QED
      BY <3>1, <3>2
  <2> QED
    BY <2>5, <2>6 DEF NoticeInv
<1>5. ASSUME NEW n \in DOMAIN outbox, SkipRun(n) \/ SendRun(n) PROVE NoticeInv'
  BY <1>5, NoticeKept DEF SkipRun, SendRun, Consume, Send, runVars
<1>6. CASE EndScheduling
  BY <1>0, <1>6, NoticeKept DEF EndScheduling, Publish, runVars, OutboxOK, NoticeInv
<1>7. CASE LoseMark
  BY <1>7, NoticeKept DEF LoseMark, SchedulerCrash, runVars
<1>8. ASSUME UNCHANGED <<raws, outbox, published, inHand>> PROVE NoticeInv'
  BY <1>8, NoticeKept
<1>9. ASSUME NEW w \in Workers, Working(w) PROVE UNCHANGED <<raws, outbox, published, inHand>>
  BY <1>9 DEF Working, MakeQuicklook, KeepFile, OpenPart, ClosePart, ReplaceFile, Insert, IOFailure,
              others, outboxVars, runVars
<1>10. ASSUME NEW w \in Workers, WorkerTurn(w) PROVE UNCHANGED <<raws, outbox, published, inHand>>
  BY <1>9, <1>10 DEF WorkerTurn, TakeNothing, Claim, ClaimRefused, Fail, FailRefused, Crash,
                     Redeliver, runVars
<1>11. \/ \E s \in Sequences : CommitRaw(s) \/ ImportRaws(s)
       \/ \E r \in Runs : CreateRun(r)
       \/ \E n \in DOMAIN outbox : ScheduleRaw(n) \/ SkipRun(n) \/ SendRun(n)
       \/ EndScheduling \/ LoseMark
       \/ UNCHANGED <<raws, outbox, published, inHand>>
  BY <1>10, StepKinds DEF QuietStep, ApproveCalibration, QuicklookPass, ClaimExpires, outboxVars,
                          runVars, vars
<1> QED
  BY <1>1, <1>2, <1>3, <1>4, <1>5, <1>6, <1>7, <1>8, <1>11

\* A simulated sequence whose last frame is committed has its run, or an event
\* that will make it (commit_l0, scheduler/service.py).
THEOREM NoticeTheorem == Spec => []CompletionIsNoticed
<1>1. Init => NoticeInv
  <2> SUFFICES ASSUME Init PROVE NoticeInv
    OBVIOUS
  <2>1. OutboxOK /\ inHand = 0
    BY InitLostInv DEF LostInv, Init, OutboxInit
  <2>2. \A s \in Sequences : raws[s] # Expected[s]
    BY ProcessingAssumption DEF Init
  <2> QED
    BY <2>1, <2>2 DEF NoticeInv, CompletionIsNoticed
<1>2. ClaimInv /\ RawsTypeOK /\ NoticeInv /\ [Next]_vars => NoticeInv'
  BY NoticeStep DEF ClaimInv
<1>3. NoticeInv => CompletionIsNoticed
  BY DEF NoticeInv
<1> QED
  BY <1>1, <1>2, <1>3, ClaimInvariant, PTL DEF Spec

=============================================================================
