--------------------------- MODULE ProductProofs ---------------------------
(***************************************************************************)
(* Proofs about Processing for any sequences, calibration sets, parameters *)
(* and workers, and any bounds: what is in the catalogue, and that it is   *)
(* what the files hold.                                                    *)
(***************************************************************************)
EXTENDS ProcessingProofs, FiniteSetTheorems

-----------------------------------------------------------------------------
(* The products of a run come in an order in which each follows its inputs. *)

Made(r, k) == {Output(r, j) : j \in 1 .. k}

LEMMA CountNat ==
  ASSUME NEW r \in Runs
  PROVE  /\ OutputCount(r) \in Nat \ {0} /\ FinalCount(r) \in Nat
         /\ PerExposure(r) * Expected[r.seq] \in Nat
         /\ OutputCount(r) = PerExposure(r) * Expected[r.seq] + FinalCount(r)
<1>1. FinalCount(r) \in Nat
  <2>1. Expected[r.seq] \div GroupSize \in Nat
    BY RunKind
  <2> QED
    BY <2>1, RunKind, ProcessingAssumption DEF FinalCount, Real
<1>2. CASE Real(r.seq)
  BY <1>1, <1>2, RunKind DEF PerExposure, OutputCount
<1>3. CASE ~Real(r.seq)
  BY <1>1, <1>3, RunKind DEF PerExposure, OutputCount
<1> QED
  BY <1>2, <1>3

\* The L2 product of an exposure closes the products of the exposure, the L1
\* product comes just before.
LEMMA PlaceOfL2 ==
  ASSUME NEW r \in Runs, NEW e \in 1 .. Expected[r.seq]
  PROVE  LET k == PerExposure(r) * e IN
         /\ k \in 2 .. PerExposure(r) * Expected[r.seq]
         /\ Output(r, k) = Of(r, "L2", e) /\ Output(r, k - 1) = Of(r, "L1", e)
<1>0. e \in Nat /\ 1 <= e /\ e <= Expected[r.seq] /\ Expected[r.seq] \in Nat
  BY RunKind
<1>1. CASE Real(r.seq)
  <2>1. /\ PerExposure(r) = 2
        /\ 2 * e \in 2 .. 2 * Expected[r.seq] /\ 2 * e - 1 <= 2 * Expected[r.seq]
        /\ (2 * e - 1) \div 2 = e - 1 /\ (2 * e - 1) % 2 = 1
        /\ (2 * e - 1 - 1) \div 2 = e - 1 /\ (2 * e - 1 - 1) % 2 = 0
    BY <1>0, <1>1 DEF PerExposure
  <2>2. OfExposure(r, (e - 1) + 1)[1 + 1] = Of(r, "L2", e) /\ OfExposure(r, (e - 1) + 1)[0 + 1] = Of(r, "L1", e)
    BY <1>0, <1>1 DEF OfExposure
  <2> QED
    BY <2>1, <2>2 DEF Output
<1>2. CASE ~Real(r.seq)
  <2>1. /\ PerExposure(r) = 3
        /\ 3 * e \in 2 .. 3 * Expected[r.seq] /\ 3 * e - 1 <= 3 * Expected[r.seq]
        /\ (3 * e - 1) \div 3 = e - 1 /\ (3 * e - 1) % 3 = 2
        /\ (3 * e - 1 - 1) \div 3 = e - 1 /\ (3 * e - 1 - 1) % 3 = 1
    BY <1>0, <1>2 DEF PerExposure
  <2>2. OfExposure(r, (e - 1) + 1)[2 + 1] = Of(r, "L2", e) /\ OfExposure(r, (e - 1) + 1)[1 + 1] = Of(r, "L1", e)
    BY <1>0, <1>2 DEF OfExposure
  <2> QED
    BY <2>1, <2>2 DEF Output
<1> QED
  BY <1>1, <1>2

\* What the products of an exposure are.
LEMMA OutputOfExposure ==
  ASSUME NEW r \in Runs, NEW k \in 1 .. PerExposure(r) * Expected[r.seq]
  PROVE  \E e \in 1 .. Expected[r.seq] :
           \/ Output(r, k) \in {Quicklook(r.seq, e), Of(r, "L1", e)}
           \/ k = PerExposure(r) * e /\ Output(r, k) = Of(r, "L2", e)
<1>0. Expected[r.seq] \in Nat
  BY RunKind
<1>1. CASE Real(r.seq)
  <2> DEFINE e == ((k - 1) \div 2) + 1
             i == (k - 1) % 2
  <2>1. PerExposure(r) = 2 /\ k \in 1 .. 2 * Expected[r.seq]
    BY <1>1 DEF PerExposure
  <2>2. Output(r, k) = OfExposure(r, e)[i + 1]
    BY <2>1 DEF Output
  <2>3. e \in 1 .. Expected[r.seq] /\ i \in {0, 1} /\ (i = 1 => k = 2 * e)
    BY <1>0, <2>1
  <2> HIDE DEF e, i
  <2>4. CASE i = 0
    BY <1>1, <2>2, <2>3, <2>4 DEF OfExposure
  <2>5. CASE i = 1
    BY <1>1, <2>1, <2>2, <2>3, <2>5 DEF OfExposure
  <2> QED
    BY <2>3, <2>4, <2>5
<1>2. CASE ~Real(r.seq)
  <2> DEFINE e == ((k - 1) \div 3) + 1
             i == (k - 1) % 3
  <2>1. PerExposure(r) = 3 /\ k \in 1 .. 3 * Expected[r.seq]
    BY <1>2 DEF PerExposure
  <2>2. Output(r, k) = OfExposure(r, e)[i + 1]
    BY <2>1 DEF Output
  <2>3. e \in 1 .. Expected[r.seq] /\ i \in {0, 1, 2} /\ (i = 2 => k = 3 * e)
    BY <1>0, <2>1
  <2> HIDE DEF e, i
  <2>4. CASE i = 0
    BY <1>2, <2>2, <2>3, <2>4 DEF OfExposure
  <2>5. CASE i = 1
    BY <1>2, <2>2, <2>3, <2>5 DEF OfExposure
  <2>6. CASE i = 2
    BY <1>2, <2>1, <2>2, <2>3, <2>6 DEF OfExposure
  <2> QED
    BY <2>3, <2>4, <2>5, <2>6
<1> QED
  BY <1>1, <1>2

\* An L3 product has parents among the L2 products of its run.
LEMMA ParentsOfFinal ==
  ASSUME NEW r \in Runs, NEW n \in 1 .. FinalCount(r)
  PROVE  ParentsOf(Of(r, "L3", n)) \subseteq {Of(r, "L2", e) : e \in 1 .. Expected[r.seq]}
<1>1. CASE Kind[r.seq] = "NONPOL"
  <2>1. n \in 1 .. Expected[r.seq]
    BY <1>1 DEF FinalCount, Real
  <2>2. ParentsOf(Of(r, "L3", n)) = {Of(r, "L2", e) : e \in {n}}
    BY <1>1 DEF ParentsOf, Of
  <2> QED
    BY <2>1, <2>2
<1>2. CASE Kind[r.seq] = "ESPADONS"
  BY <1>2 DEF ParentsOf, Of, Exposures
<1>3. CASE Kind[r.seq] = "POL"
  <2> DEFINE E == Expected[r.seq]
             G == GroupSize
  <2>1. E \in Nat /\ G \in Nat \ {0}
    BY RunKind
  <2>2. E \div G \in Nat /\ (E \div G) * G <= E
    BY <2>1
  <2>3. n \in Nat \ {0} /\ n <= E \div G
    BY <1>3, <2>2 DEF FinalCount, Real
  <2> HIDE DEF E, G
  <2>4. n * G <= (E \div G) * G /\ n * G \in Nat /\ (n - 1) * G \in Nat
    BY <2>1, <2>2, <2>3
  <2>5. ((n - 1) * G + 1) .. (n * G) \subseteq 1 .. E
    BY <2>1, <2>2, <2>4
  <2>6. ParentsOf(Of(r, "L3", n)) = {Of(r, "L2", e) : e \in ((n - 1) * G + 1) .. (n * G)}
    BY <1>3 DEF ParentsOf, Of, G
  <2> QED
    BY <2>5, <2>6 DEF E
<1> QED
  BY <1>1, <1>2, <1>3, RunKind

LEMMA ParentsMade ==
  ASSUME NEW r \in Runs, NEW k \in 1 .. OutputCount(r)
  PROVE  ParentsOf(Output(r, k)) \subseteq Made(r, k)
<1> DEFINE n == PerExposure(r) * Expected[r.seq]
<1>0. n \in Nat /\ FinalCount(r) \in Nat /\ OutputCount(r) = n + FinalCount(r)
  BY CountNat
<1>1. CASE k <= n
  <2>1. ASSUME NEW e \in 1 .. Expected[r.seq], k = PerExposure(r) * e, Output(r, k) = Of(r, "L2", e)
        PROVE  ParentsOf(Output(r, k)) \subseteq Made(r, k)
    <3>1. ParentsOf(Of(r, "L2", e)) = {Of(r, "L1", e)}
      BY DEF ParentsOf, Of
    <3>2. Output(r, k - 1) = Of(r, "L1", e) /\ k - 1 \in 1 .. k
      BY <1>0, <2>1, PlaceOfL2
    <3> QED
      BY <2>1, <3>1, <3>2 DEF Made
  <2>2. \A e \in 1 .. Expected[r.seq] :
          ParentsOf(Quicklook(r.seq, e)) = {} /\ ParentsOf(Of(r, "L1", e)) = {}
    BY DEF ParentsOf, Quicklook, Of
  <2> QED
    BY <1>0, <1>1, <2>1, <2>2, OutputOfExposure
<1>2. CASE k > n
  <2>1. Output(r, k) = Of(r, "L3", k - n) /\ k - n \in 1 .. FinalCount(r)
    BY <1>0, <1>2 DEF Output
  <2>2. \A e \in 1 .. Expected[r.seq] : Of(r, "L2", e) \in Made(r, k)
    <3>1. ASSUME NEW e \in 1 .. Expected[r.seq] PROVE Of(r, "L2", e) \in Made(r, k)
      <4>1. PerExposure(r) * e \in 1 .. k /\ Output(r, PerExposure(r) * e) = Of(r, "L2", e)
        BY <1>0, <1>2, PlaceOfL2
      <4> QED
        BY <4>1 DEF Made
    <3> QED
      BY <3>1
  <2> QED
    BY <2>1, <2>2, ParentsOfFinal
<1> QED
  BY <1>0, <1>1, <1>2

-----------------------------------------------------------------------------
(* The reduction keeps its contract.                                        *)

\* A worker that is making products: those it has done are registered or
\* among its own rows, and so are all its rows.
MadeOK(w) ==
  worker[w].at \notin {"IDLE", "RAISED"} =>
    LET r == RunOf(w) k == worker[w].done IN
    /\ k \in Nat /\ k < OutputCount(r)
    /\ DOMAIN worker[w].held \subseteq Made(r, k)
    /\ Made(r, k) \subseteq Registered \cup DOMAIN worker[w].held

MadeInv == \A w \in Workers : MadeOK(w)

\* What the contract asks of a step, and the invariant it needs.
KeepsContract ==
  /\ Registered \subseteq Registered'
  /\ \A p \in Registered' \ Registered : ParentsOf(p) \subseteq Registered'
  /\ \A r \in Runs : run'[r].status = "SUCCEEDED" /\ run[r].status # "SUCCEEDED" =>
       OutputsOf(r) \subseteq Registered'
  /\ MadeInv'

NoneSucceeds ==
  \A r \in Runs : run'[r].status = "SUCCEEDED" => run[r].status = "SUCCEEDED"

LEMMA NothingEmpty == DOMAIN Nothing = {}
BY EmptySeq, LenProperties DEF Nothing

LEMMA MadeMore ==
  ASSUME NEW r, NEW k \in Nat
  PROVE  /\ Made(r, k + 1) = Made(r, k) \cup {Output(r, k + 1)}
         /\ Made(r, 0) = {}
BY DEF Made

\* The other workers lose nothing.
LEMMA OthersMade ==
  ASSUME MadeInv, NEW w \in Workers, OnlyMoves(w), MadeOK(w)', Registered \subseteq Registered'
  PROVE  MadeInv'
<1> SUFFICES ASSUME NEW x \in Workers, x # w PROVE MadeOK(x)'
  BY DEF MadeInv
<1>1. worker'[x] = worker[x] /\ MadeOK(x)
  BY DEF MadeInv, OnlyMoves
<1> QED
  BY <1>1 DEF MadeOK, RunOf

\* A worker that moves without a product.
LEMMA MovesKeeps ==
  ASSUME MadeInv, NEW w \in Workers, OnlyMoves(w), UNCHANGED catalogue, NoneSucceeds,
         \/ worker'[w].at \in {"IDLE", "RAISED"}
         \/ /\ worker[w].at \notin {"IDLE", "RAISED"} /\ worker'[w].msg = worker[w].msg
            /\ worker'[w].done = worker[w].done /\ worker'[w].held = worker[w].held
  PROVE  KeepsContract
<1>1. MadeOK(w)'
  BY DEF MadeInv, MadeOK, RunOf, Registered
<1> QED
  BY <1>1, OthersMade DEF KeepsContract, NoneSucceeds, Registered

\* The product k of the worker is registered or among the rows.
LEMMA PassKeeps ==
  ASSUME ClaimTypeOK, MadeInv, NEW w \in Workers, worker[w].at \notin {"IDLE", "RAISED"},
         NEW rows, Pass(w, rows),
         DOMAIN rows \subseteq Made(RunOf(w), worker[w].done + 1),
         DOMAIN worker[w].held \subseteq DOMAIN rows,
         Current(w) \in Registered \cup DOMAIN rows
  PROVE  KeepsContract
<1> DEFINE r == RunOf(w)
           k == worker[w].done + 1
<1>0. WorkerOK(worker[w]) /\ worker[w].at # "IDLE" /\ r \in Runs /\ MadeOK(w)
      /\ run \in [Runs -> [status : RunStatus, token : Nat, fresh : BOOLEAN]]
  BY DEF ClaimTypeOK, WorkerOK, RunOf, Messages, MadeInv
<1>1. k \in 1 .. OutputCount(r) /\ worker[w].done \in Nat /\ OutputCount(r) \in Nat
  BY <1>0, CountNat DEF MadeOK
<1>2. Made(r, k) \subseteq Registered \cup DOMAIN rows
  <2>1. Made(r, worker[w].done) \subseteq Registered \cup DOMAIN rows
    BY <1>0 DEF MadeOK
  <2> QED
    BY <1>1, <2>1, MadeMore DEF Current
<1>3. CASE ~CommitsAfter(r, k)
  <2> DEFINE rec == [worker[w] EXCEPT !.done = k, !.at = "OPEN", !.held = rows, !.read = Nothing]
  <2>1. Moves(w, rec) /\ UNCHANGED <<run, catalogue>> /\ k # OutputCount(r)
    BY <1>3 DEF Pass, CommitsAfter
  <2>2. rec.done = k /\ rec.held = rows /\ rec.msg = worker[w].msg
    BY <1>0 DEF WorkerOK, Idle
  <2> HIDE DEF rec
  <2>3. OnlyMoves(w) /\ worker'[w] = rec
    BY <2>1, MovesPoint
  <2>4. MadeOK(w)'
    BY <1>1, <1>2, <2>1, <2>2, <2>3 DEF MadeOK, RunOf, Registered
  <2> QED
    BY <2>1, <2>3, <2>4, OthersMade DEF KeepsContract, Registered
<1>4. CASE CommitsAfter(r, k)
  <2>1. catalogue' = [p \in Registered \cup DOMAIN rows |->
                        IF p \in DOMAIN rows THEN rows[p] ELSE catalogue[p]]
    BY <1>4 DEF Pass
  <2>2. Registered' = Registered \cup DOMAIN rows
    BY <2>1 DEF Registered
  <2>3. Made(r, k) \subseteq Registered'
    BY <1>2, <2>2
  <2>4. \A p \in Registered' \ Registered : ParentsOf(p) \subseteq Registered'
    <3>1. SUFFICES ASSUME NEW p \in DOMAIN rows PROVE ParentsOf(p) \subseteq Registered'
      BY <2>2
    <3>2. PICK j \in 1 .. k : p = Output(r, j)
      BY <3>1 DEF Made
    <3>3. j \in 1 .. OutputCount(r) /\ Made(r, j) \subseteq Made(r, k)
      BY <1>1, <3>2 DEF Made
    <3> QED
      BY <1>0, <2>3, <3>2, <3>3, ParentsMade
  <2>5. CASE k = OutputCount(r)
    <3>1. run' = [run EXCEPT ![r].status = "SUCCEEDED"] /\ OnlyMoves(w) /\ worker'[w] = Idle
      BY <1>4, <2>5, MovesPoint DEF Pass
    <3>2. MadeOK(w)'
      BY <3>1 DEF MadeOK, Idle
    <3>3. OutputsOf(r) \subseteq Registered'
      BY <2>3, <2>5 DEF OutputsOf, Made
    <3>4. \A q \in Runs : run'[q].status = "SUCCEEDED" /\ run[q].status # "SUCCEEDED" => q = r
      BY <1>0, <3>1
    <3> QED
      BY <2>2, <2>4, <3>1, <3>2, <3>3, <3>4, OthersMade DEF KeepsContract
  <2>6. CASE k # OutputCount(r)
    <3> DEFINE rec == [Idle EXCEPT !.msg = worker[w].msg, !.done = k, !.at = "OPEN"]
    <3>1. Moves(w, rec) /\ UNCHANGED run
      BY <1>4, <2>6 DEF Pass
    <3>2. rec.done = k /\ rec.held = Nothing /\ rec.msg = worker[w].msg
      BY DEF Idle
    <3> HIDE DEF rec
    <3>3. OnlyMoves(w) /\ worker'[w] = rec
      BY <3>1, MovesPoint
    <3>4. MadeOK(w)'
      BY <1>1, <2>3, <2>6, <3>2, <3>3, NothingEmpty DEF MadeOK, RunOf
    <3> QED
      BY <2>2, <2>4, <3>1, <3>3, <3>4, OthersMade DEF KeepsContract
  <2> QED
    BY <2>5, <2>6
<1> QED
  BY <1>3, <1>4

LEMMA LooksUpKeeps ==
  ASSUME ClaimTypeOK, MadeInv, NEW w \in Workers, worker[w].at \notin {"IDLE", "RAISED"},
         NEW file, LooksUp(w, Current(w), file)
  PROVE  KeepsContract
<1>0. WorkerOK(worker[w]) /\ MadeOK(w) /\ worker[w].done \in Nat
      /\ DOMAIN worker[w].held \subseteq Made(RunOf(w), worker[w].done)
  BY DEF ClaimTypeOK, MadeInv, MadeOK
<1>1. CASE Current(w) \in Registered
  <2>1. DOMAIN worker[w].held \subseteq Made(RunOf(w), worker[w].done + 1)
    BY <1>0, MadeMore
  <2> QED
    BY <1>1, <2>1, PassKeeps DEF LooksUp
<1>2. CASE Current(w) \notin Registered
  <2> DEFINE rec == [worker[w] EXCEPT !.at = "INSERT", !.read = file]
  <2>1. Moves(w, rec) /\ UNCHANGED <<run, catalogue>>
    BY <1>2 DEF LooksUp
  <2>2. rec.done = worker[w].done /\ rec.held = worker[w].held /\ rec.msg = worker[w].msg
    BY <1>0 DEF WorkerOK, Idle
  <2> HIDE DEF rec
  <2>3. OnlyMoves(w) /\ worker'[w] = rec
    BY <2>1, MovesPoint
  <2> QED
    BY <2>1, <2>2, <2>3, MovesKeeps DEF NoneSucceeds
<1> QED
  BY <1>1, <1>2

LEMMA RaisesKeeps ==
  ASSUME ClaimTypeOK, MadeInv, NEW w \in Workers, NEW again, Raises(w, again),
         UNCHANGED <<run, catalogue>>
  PROVE  KeepsContract
<1> DEFINE rec == [worker[w] EXCEPT !.at = "RAISED", !.held = Nothing, !.read = Nothing,
                                    !.retry = again]
<1>1. WorkerOK(worker[w])
  BY DEF ClaimTypeOK
<1>2. rec.at = "RAISED"
  BY <1>1 DEF WorkerOK, Idle
<1>3. Moves(w, rec)
  BY DEF Raises
<1> HIDE DEF rec
<1>4. OnlyMoves(w) /\ worker'[w] = rec
  BY <1>3, MovesPoint
<1> QED
  BY <1>2, <1>4, MovesKeeps DEF NoneSucceeds

LEMMA GoesKeeps ==
  ASSUME ClaimTypeOK, MadeInv, NEW w \in Workers, worker[w].at \notin {"IDLE", "RAISED"},
         NEW place, Goes(w, place), UNCHANGED <<run, catalogue>>
  PROVE  KeepsContract
<1> DEFINE rec == [worker[w] EXCEPT !.at = place]
<1>1. WorkerOK(worker[w])
  BY DEF ClaimTypeOK
<1>2. rec.done = worker[w].done /\ rec.held = worker[w].held /\ rec.msg = worker[w].msg
  BY <1>1 DEF WorkerOK, Idle
<1>3. Moves(w, rec)
  BY DEF Goes
<1> HIDE DEF rec
<1>4. OnlyMoves(w) /\ worker'[w] = rec
  BY <1>3, MovesPoint
<1> QED
  BY <1>2, <1>4, MovesKeeps DEF NoneSucceeds

LEMMA WorkingKeeps ==
  ASSUME ClaimTypeOK, MadeInv, NEW w \in Workers, Working(w)
  PROVE  KeepsContract
<1>1. CASE MakeQuicklook(w)
  BY <1>1, LooksUpKeeps DEF MakeQuicklook, At
<1>2. CASE KeepFile(w)
  BY <1>2, LooksUpKeeps, RaisesKeeps DEF KeepFile, At
<1>3. CASE OpenPart(w)
  BY <1>3, GoesKeeps DEF OpenPart, At
<1>4. CASE ClosePart(w)
  BY <1>4, GoesKeeps, RaisesKeeps DEF ClosePart, At
<1>5. CASE ReplaceFile(w)
  BY <1>5, LooksUpKeeps, RaisesKeeps DEF ReplaceFile, At
<1>6. CASE Insert(w)
  <2> DEFINE p == Current(w)
             rows == Put(worker[w].held, p, worker[w].read)
  <2>1. CASE p \in Registered
    BY <1>6, <2>1, RaisesKeeps DEF Insert
  <2>2. CASE p \notin Registered
    <3>1. Pass(w, rows) /\ worker[w].at \notin {"IDLE", "RAISED"}
      BY <1>6, <2>2 DEF Insert, At
    <3>2. DOMAIN rows = DOMAIN worker[w].held \cup {p}
      BY DEF Put
    <3>3. /\ worker[w].done \in Nat
          /\ DOMAIN worker[w].held \subseteq Made(RunOf(w), worker[w].done)
      BY <3>1 DEF MadeInv, MadeOK
    <3>4. DOMAIN rows \subseteq Made(RunOf(w), worker[w].done + 1)
      BY <3>2, <3>3, MadeMore DEF Current
    <3> HIDE DEF rows, p
    <3> QED
      BY <3>1, <3>2, <3>4, PassKeeps DEF p
  <2> QED
    BY <2>1, <2>2
<1>7. CASE IOFailure(w)
  BY <1>7, RaisesKeeps DEF IOFailure, runVars
<1> QED
  BY <1>1, <1>2, <1>3, <1>4, <1>5, <1>6, <1>7 DEF Working

\* Quicklooks are made from raw files alone.
LEMMA QuicklooksKeep ==
  ASSUME MadeInv, NEW ps \in SUBSET Quicklooks, RegisterQuicklooks(ps),
         UNCHANGED worker, NoneSucceeds
  PROVE  KeepsContract
<1>1. Registered' = Registered \cup ps
  BY DEF RegisterQuicklooks, Registered
<1>2. \A p \in Quicklooks : ParentsOf(p) = {}
  BY DEF Quicklooks, Quicklook, ParentsOf
<1>3. MadeInv'
  BY <1>1 DEF MadeInv, MadeOK, RunOf
<1> QED
  BY <1>1, <1>2, <1>3 DEF KeepsContract, NoneSucceeds

\* Nothing that the contract is about changes.
LEMMA StillKeeps ==
  ASSUME MadeInv, UNCHANGED <<worker, catalogue>>, NoneSucceeds
  PROVE  KeepsContract
<1>1. MadeInv'
  BY DEF MadeInv, MadeOK, RunOf, Registered
<1> QED
  BY <1>1 DEF KeepsContract, NoneSucceeds, Registered

LEMMA QuietKeeps ==
  ASSUME ClaimTypeOK, RawsTypeOK, OutboxOK, MadeInv, QuietStep
  PROVE  KeepsContract
<1>1. UNCHANGED worker /\ NoneSucceeds
  <2>1. Quiet
    BY QuietStepQuiet
  <2> QED
    BY <2>1, QuietStepPending DEF Quiet, NoneSucceeds
<1>2. CASE UNCHANGED catalogue
  BY <1>1, <1>2, StillKeeps
<1>3. CASE QuicklookPass
  <2>1. {p \in Quicklooks : p.n <= raws[p.seq]} \in SUBSET Quicklooks
    OBVIOUS
  <2> QED
    BY <1>1, <1>3, <2>1, QuicklooksKeep DEF QuicklookPass
<1>4. ASSUME NEW n \in DOMAIN outbox, ScheduleRaw(n) PROVE KeepsContract
  <2> DEFINE p == Quicklook(outbox[n].about[1], outbox[n].about[2])
  <2>1. /\ Registered' = Registered \cup {p}
        /\ ParentsOf(p) = {}
    BY <1>4 DEF ScheduleRaw, RegisterQuicklooks, Registered, Quicklook, ParentsOf
  <2> HIDE DEF p
  <2>2. MadeInv'
    BY <1>1, <2>1 DEF MadeInv, MadeOK, RunOf
  <2> QED
    BY <1>1, <2>1, <2>2 DEF KeepsContract, NoneSucceeds
<1>5. UNCHANGED catalogue \/ QuicklookPass \/ \E n \in DOMAIN outbox : ScheduleRaw(n)
  BY DEF QuietStep, CommitRaw, ImportRaws, ApproveCalibration, CreateRun, SkipRun, EndScheduling,
         LoseMark, vars
<1> QED
  BY <1>2, <1>3, <1>4, <1>5

LEMMA StepKeeps ==
  ASSUME ClaimTypeOK, RawsTypeOK, OutboxOK, MadeInv, [Next]_vars
  PROVE  KeepsContract
<1>0. run \in [Runs -> [status : RunStatus, token : Nat, fresh : BOOLEAN]]
  BY DEF ClaimTypeOK
<1>1. CASE QuietStep
  BY <1>1, QuietKeeps
<1>2. ASSUME NEW n \in DOMAIN outbox, SendRun(n) PROVE KeepsContract
  BY <1>2, StillKeeps DEF SendRun, runVars, NoneSucceeds
<1>3. ASSUME NEW r \in Runs, ClaimExpires(r) PROVE KeepsContract
  BY <1>0, <1>3, StillKeeps DEF ClaimExpires, NoneSucceeds
<1>4. ASSUME NEW w \in Workers, WorkerTurn(w) PROVE KeepsContract
  <2>1. ASSUME NEW m \in queue, TakeNothing(w, m) PROVE KeepsContract
    BY <2>1, StillKeeps DEF TakeNothing, runVars, NoneSucceeds
  <2>2. ASSUME NEW m \in queue, Claim(w, m) PROVE KeepsContract
    <3> DEFINE r == m.about
               rec == [Idle EXCEPT !.at = IF Complete(r.seq) /\ MayQueue(r) THEN "OPEN" ELSE "RAISED",
                                   !.msg = m]
    <3>1. /\ Moves(w, rec) /\ UNCHANGED catalogue /\ r \in Runs
          /\ run' = [run EXCEPT ![r] = [status |-> "RUNNING", token |-> m.task, fresh |-> TRUE]]
      BY <2>2 DEF Claim, ClaimTypeOK, Messages
    <3>2. rec.msg = m /\ rec.done = 0 /\ rec.held = Nothing
      BY DEF Idle
    <3> HIDE DEF rec
    <3>3. OnlyMoves(w) /\ worker'[w] = rec
      BY <3>1, MovesPoint
    <3>4. MadeOK(w)'
      <4>1. OutputCount(r) \in Nat \ {0} /\ Made(r, 0) = {}
        BY <3>1, CountNat, MadeMore
      <4> QED
        BY <3>2, <3>3, <4>1, NothingEmpty DEF MadeOK, RunOf
    <3>5. NoneSucceeds
      BY <1>0, <3>1 DEF NoneSucceeds
    <3> QED
      BY <3>1, <3>3, <3>4, <3>5, OthersMade DEF KeepsContract, NoneSucceeds, Registered
  <2>3. CASE Working(w)
    BY <2>3, WorkingKeeps
  <2>4. CASE Fail(w) \/ FailRefused(w)
    <3>1. OnlyMoves(w) /\ worker'[w] = Idle /\ UNCHANGED catalogue
      BY <2>4, MovesPoint DEF Fail, FailRefused
    <3>2. NoneSucceeds
      BY <1>0, <2>4 DEF Fail, FailRefused, NoneSucceeds, runVars
    <3> QED
      BY <3>1, <3>2, MovesKeeps DEF Idle
  <2>5. CASE Crash(w)
    <3>1. OnlyMoves(w) /\ worker'[w] = Idle
      BY <2>5, MovesPoint DEF Crash
    <3> QED
      BY <2>5, <3>1, MovesKeeps DEF Crash, Idle, NoneSucceeds, runVars
  <2>6. CASE Redeliver(w)
    BY <2>6, StillKeeps DEF Redeliver, runVars, NoneSucceeds
  <2>7. ASSUME NEW m \in queue, ClaimRefused(w, m) PROVE KeepsContract
    <3>1. OnlyMoves(w) /\ worker'[w].at = "RAISED" /\ UNCHANGED run
      BY <2>7, RefusedPoint
    <3> QED
      BY <2>7, <3>1, MovesKeeps DEF ClaimRefused, NoneSucceeds
  <2> QED
    BY <1>4, <2>1, <2>2, <2>3, <2>4, <2>5, <2>6, <2>7 DEF WorkerTurn
<1> QED
  BY <1>1, <1>2, <1>3, <1>4, StepKinds

\* The reduction implements its contract: products never disappear, never come
\* before their inputs, and a run succeeds only with all of them, for any
\* number of workers, faults and overlaps (process_run, _register_product).
THEOREM ContractTheorem == Spec => KeepsReductionContract
<1>1. Init => MadeInv /\ LostInv /\ Contract!ContractInit
  <2> SUFFICES ASSUME Init PROVE MadeInv /\ Contract!ContractInit
    BY InitLostInv
  <2>1. Registered = {} /\ Succeeded = {} /\ MadeInv
    BY NothingEmpty DEF Init, Registered, Succeeded, MadeInv, MadeOK, Idle
  <2> QED
    BY <2>1 DEF Contract!ContractInit
<1>2. ClaimInv /\ RawsTypeOK /\ LostInv /\ MadeInv /\ [Next]_vars =>
        /\ LostInv' /\ MadeInv'
        /\ [Contract!ContractNext]_<<Registered, Succeeded>>
  <2> SUFFICES ASSUME ClaimInv, RawsTypeOK, LostInv, MadeInv, [Next]_vars
               PROVE  LostInv' /\ MadeInv' /\ Contract!ContractNext
    OBVIOUS
  <2>1. ClaimTypeOK /\ OutboxOK
    BY DEF ClaimInv, LostInv
  <2>2. KeepsContract /\ LostInv'
    BY <2>1, StepKeeps, LostInvStep
  <2>3. \A r \in Succeeded' \ Succeeded : OutputsOf(r) \subseteq Registered'
    BY <2>2 DEF KeepsContract, Succeeded
  <2> QED
    BY <2>2, <2>3 DEF KeepsContract, Contract!ContractNext, Contract!Registers, Contract!Reports
<1> QED
  BY <1>1, <1>2, ClaimInvariant, PTL DEF Spec, KeepsReductionContract, Contract!ContractSpec

-----------------------------------------------------------------------------
(* The catalogue and the files.                                             *)

LEMMA OutputScience ==
  ASSUME NEW r \in Runs, NEW k \in 1 .. OutputCount(r)
  PROVE  Output(r, k) \in Quicklooks \/ (Output(r, k).run = r /\ Output(r, k).level # "QUICKLOOK")
<1> DEFINE n == PerExposure(r) * Expected[r.seq]
<1>0. n \in Nat /\ FinalCount(r) \in Nat /\ OutputCount(r) = n + FinalCount(r) /\ r.seq \in Sequences
  BY CountNat, RunKind
<1>1. CASE k <= n
  <2>1. \A e \in 1 .. Expected[r.seq] :
          /\ Quicklook(r.seq, e) \in Quicklooks
          /\ \A l \in {"L1", "L2"} : Of(r, l, e).run = r /\ Of(r, l, e).level = l
    BY <1>0 DEF Quicklooks, Exposures, Of
  <2> QED
    BY <1>0, <1>1, <2>1, OutputOfExposure
<1>2. CASE k > n
  BY <1>0, <1>2 DEF Output, Of
<1> QED
  BY <1>0, <1>1, <1>2

LEMMA ScienceLevel ==
  ASSUME NEW p \in Science
  PROVE  p.level # "QUICKLOOK" /\ p.run \in Runs /\ p \notin Quicklooks
<1>0. p \in UNION {OutputsOf(r) : r \in Runs} /\ p \notin Quicklooks
  BY DEF Science
<1>1. PICK r \in Runs : p \in OutputsOf(r) /\ p \notin Quicklooks
  BY <1>0
<1>2. PICK k \in 1 .. OutputCount(r) : p = Output(r, k)
  BY <1>1 DEF OutputsOf
<1> QED
  BY <1>1, <1>2, OutputScience

LEMMA MadeScience ==
  ASSUME NEW r \in Runs, NEW k \in Nat, k <= OutputCount(r), NEW p \in Made(r, k), p \in Science
  PROVE  p.run = r
<1>1. PICK j \in 1 .. k : p = Output(r, j)
  BY DEF Made
<1>2. j \in 1 .. OutputCount(r)
  BY <1>1, CountNat
<1> QED
  BY <1>1, <1>2, ScienceLevel, OutputScience

\* The file of a product is whole, and the one that was registered.
FileOK(p) ==
  /\ p \in DOMAIN final => final[p].whole
  /\ p \in Registered => p \in DOMAIN final /\ final[p] = catalogue[p]

\* What the worker in the run of a product knows of its file.
MineOK(w, p) ==
  worker[w].at \notin {"IDLE", "RAISED"} /\ RunOf(w) = p.run =>
    /\ p \in DOMAIN worker[w].held => p \in DOMAIN final /\ final[p] = worker[w].held[p]
    /\ At(w, "INSERT") /\ Current(w) = p => p \in DOMAIN final /\ final[p] = worker[w].read
    /\ worker[w].at \in {"CLOSE", "REPLACE"} /\ Current(w) = p =>
         /\ p \in DOMAIN part /\ part[p].by = w /\ p \notin DOMAIN final
         /\ At(w, "REPLACE") => part[p].whole

FilesTypeOK ==
  /\ \A p \in DOMAIN part : part[p] \in Files
  /\ \A p \in DOMAIN final : final[p] \in Files

FilesInv ==
  /\ FilesTypeOK
  /\ \A p \in Science : p.run \notin overlapped => FileOK(p) /\ \A w \in Workers : MineOK(w, p)

SameFile(p) ==
  /\ p \in DOMAIN part' <=> p \in DOMAIN part
  /\ p \in DOMAIN final' <=> p \in DOMAIN final
  /\ p \in DOMAIN part => part'[p] = part[p]
  /\ p \in DOMAIN final => final'[p] = final[p]

Same(p) ==
  /\ SameFile(p)
  /\ p \in Registered' <=> p \in Registered
  /\ p \in Registered => catalogue'[p] = catalogue[p]

\* A worker does nothing to the files of another run, and in its own it is alone.
LEMMA OwnFiles ==
  ASSUME FilesInv, AloneInRun, NEW w \in Workers, ~At(w, "IDLE"), OnlyMoves(w),
         worker'[w].at \in {"IDLE", "RAISED"} \/ worker'[w].msg = worker[w].msg,
         UNCHANGED overlapped, FilesTypeOK',
         \A p \in Science : p.run # RunOf(w) => Same(p),
         \A p \in Science : p.run = RunOf(w) /\ p.run \notin overlapped =>
           FileOK(p)' /\ MineOK(w, p)'
  PROVE  FilesInv'
<1> SUFFICES ASSUME NEW p \in Science, p.run \notin overlapped
             PROVE  FileOK(p)' /\ \A x \in Workers : MineOK(x, p)'
  BY DEF FilesInv
<1>0. FileOK(p) /\ (\A x \in Workers : MineOK(x, p)) /\ p.run \in Runs
  BY ScienceLevel DEF FilesInv
<1>1. \A x \in Workers \ {w} : worker'[x] = worker[x]
  BY DEF OnlyMoves
<1>2. CASE p.run = RunOf(w)
  <2>1. \A x \in Workers \ {w} : ~In(x, p.run)
    BY <1>0, <1>2 DEF AloneInRun, In
  <2>2. \A x \in Workers \ {w} : MineOK(x, p)'
    BY <1>1, <2>1 DEF MineOK, In, At, RunOf
  <2> QED
    BY <1>2, <2>2
<1>3. CASE p.run # RunOf(w)
  <2>1. Same(p)
    BY <1>3
  <2>2. FileOK(p)'
    BY <1>0, <2>1 DEF FileOK, Same, SameFile
  <2>3. MineOK(w, p)'
    BY <1>3 DEF MineOK, RunOf
  <2>4. \A x \in Workers \ {w} : MineOK(x, p)'
    BY <1>0, <1>1, <2>1 DEF MineOK, Same, SameFile, At, RunOf, Current
  <2> QED
    BY <2>2, <2>3, <2>4
<1> QED
  BY <1>2, <1>3

\* A worker that leaves, or raises, with the files as they are.
LEMMA LeavesFiles ==
  ASSUME FilesInv, AloneInRun, NEW w \in Workers, ~At(w, "IDLE"), OnlyMoves(w),
         worker'[w].at \in {"IDLE", "RAISED"}, UNCHANGED <<part, final, catalogue, overlapped>>
  PROVE  FilesInv'
<1>1. \A p \in Science : Same(p) /\ MineOK(w, p)'
  BY DEF Same, SameFile, MineOK, Registered
<1>2. FilesTypeOK'
  BY DEF FilesInv, FilesTypeOK
<1>3. \A p \in Science : p.run \notin overlapped => FileOK(p)'
  BY <1>1 DEF FilesInv, FileOK, Same, SameFile
<1> QED
  BY <1>1, <1>2, <1>3, OwnFiles

\* After a pass the rows the worker holds, or has committed, are its files,
\* if they were before.
LEMMA PassFiles ==
  ASSUME ClaimTypeOK, AloneInRun, MadeInv, FilesInv, NEW w \in Workers,
         worker[w].at \notin {"IDLE", "RAISED"}, NEW rows, Pass(w, rows),
         DOMAIN rows \subseteq Made(RunOf(w), worker[w].done + 1),
         UNCHANGED overlapped, FilesTypeOK',
         \A p \in Science : p.run # RunOf(w) => SameFile(p),
         \A p \in Science : p.run = RunOf(w) /\ p.run \notin overlapped =>
           /\ p \in DOMAIN final' => final'[p].whole
           /\ p \in Registered => p \in DOMAIN final' /\ final'[p] = catalogue[p]
           /\ p \in DOMAIN rows => p \in DOMAIN final' /\ final'[p] = rows[p]
  PROVE  FilesInv'
<1> DEFINE r == RunOf(w)
           k == worker[w].done + 1
           also == [p \in Registered \cup DOMAIN rows |->
                      IF p \in DOMAIN rows THEN rows[p] ELSE catalogue[p]]
<1>0. /\ WorkerOK(worker[w]) /\ worker[w].at # "IDLE" /\ ~At(w, "IDLE")
      /\ r \in Runs /\ k \in Nat /\ k <= OutputCount(r)
  BY CountNat DEF ClaimTypeOK, WorkerOK, RunOf, Messages, MadeInv, MadeOK, At
<1>1. catalogue' = catalogue \/ catalogue' = also
  BY DEF Pass
<1>2. \E rec : Moves(w, rec) /\ /\ rec.at \in {"OPEN", "IDLE"}
                                /\ rec.at = "OPEN" => /\ rec.msg = worker[w].msg
                                                      /\ rec.held = rows \/ rec.held = Nothing
  <2>1. CASE ~CommitsAfter(r, k)
    <3> DEFINE rec == [worker[w] EXCEPT !.done = k, !.at = "OPEN", !.held = rows, !.read = Nothing]
    <3>1. Moves(w, rec)
      BY <2>1 DEF Pass
    <3>2. rec.at = "OPEN" /\ rec.msg = worker[w].msg /\ rec.held = rows
      BY <1>0 DEF WorkerOK, Idle
    <3> QED
      BY <3>1, <3>2
  <2>2. CASE CommitsAfter(r, k) /\ k = OutputCount(r)
    <3>1. Moves(w, Idle) /\ Idle.at = "IDLE"
      BY <2>2 DEF Pass, Idle
    <3> QED
      BY <3>1
  <2>3. CASE CommitsAfter(r, k) /\ k # OutputCount(r)
    <3> DEFINE rec == [Idle EXCEPT !.msg = worker[w].msg, !.done = k, !.at = "OPEN"]
    <3>1. Moves(w, rec)
      BY <2>3 DEF Pass
    <3>2. rec.at = "OPEN" /\ rec.msg = worker[w].msg /\ rec.held = Nothing
      BY DEF Idle
    <3> QED
      BY <3>1, <3>2
  <2> QED
    BY <2>1, <2>2, <2>3
<1>3. PICK rec : /\ OnlyMoves(w) /\ worker'[w] = rec
                 /\ rec.at \in {"OPEN", "IDLE"}
                 /\ rec.at = "OPEN" => /\ rec.msg = worker[w].msg
                                       /\ rec.held = rows \/ rec.held = Nothing
  BY <1>2, MovesPoint
<1>4. \A p \in Science : p.run # r => p \notin DOMAIN rows
  BY <1>0, MadeScience
<1>5. \A p \in Science : p.run # r => Same(p)
  BY <1>1, <1>4 DEF Same, Registered
<1>6. ASSUME NEW p \in Science, p.run = r, p.run \notin overlapped
      PROVE  FileOK(p)' /\ MineOK(w, p)'
  <2>1. /\ p \in Registered' => p \in Registered \/ p \in DOMAIN rows
        /\ p \in DOMAIN rows /\ p \in Registered => catalogue'[p] \in {catalogue[p], rows[p]}
        /\ p \in Registered /\ p \notin DOMAIN rows => catalogue'[p] = catalogue[p]
        /\ p \in Registered' /\ p \notin Registered => catalogue'[p] = rows[p]
    BY <1>1 DEF Registered
  <2>2. FileOK(p)'
    BY <1>6, <2>1 DEF FileOK
  <2>3. MineOK(w, p)'
    BY <1>3, <1>6, NothingEmpty DEF MineOK, At, RunOf
  <2> QED
    BY <2>2, <2>3
<1>7. worker'[w].at \in {"IDLE", "RAISED"} \/ worker'[w].msg = worker[w].msg
  BY <1>3
<1> QED
  BY <1>0, <1>3, <1>5, <1>6, <1>7, OwnFiles

\* The look-up of a product whose file is there.
LEMMA LooksUpFiles ==
  ASSUME ClaimTypeOK, AloneInRun, MadeInv, FilesInv, NEW w \in Workers,
         worker[w].at \notin {"IDLE", "RAISED"},
         NEW file, LooksUp(w, Current(w), file),
         UNCHANGED overlapped, FilesTypeOK',
         \A p \in Science : p.run # RunOf(w) => SameFile(p),
         \A p \in Science : p.run = RunOf(w) /\ p.run \notin overlapped =>
           /\ p \in DOMAIN final' => final'[p].whole
           /\ p \in Registered => p \in DOMAIN final' /\ final'[p] = catalogue[p]
           /\ p \in DOMAIN worker[w].held => p \in DOMAIN final' /\ final'[p] = worker[w].held[p]
           /\ p = Current(w) => p \in DOMAIN final' /\ final'[p] = file
  PROVE  FilesInv'
<1>0. /\ WorkerOK(worker[w]) /\ ~At(w, "IDLE") /\ worker[w].done \in Nat
      /\ DOMAIN worker[w].held \subseteq Made(RunOf(w), worker[w].done)
  BY DEF ClaimTypeOK, MadeInv, MadeOK, At
<1>1. CASE Current(w) \in Registered
  <2>1. DOMAIN worker[w].held \subseteq Made(RunOf(w), worker[w].done + 1)
    BY <1>0, MadeMore
  <2>2. Pass(w, worker[w].held)
    BY <1>1 DEF LooksUp
  <2> QED
    BY <2>1, <2>2, PassFiles
<1>2. CASE Current(w) \notin Registered
  <2> DEFINE rec == [worker[w] EXCEPT !.at = "INSERT", !.read = file]
  <2>1. Moves(w, rec) /\ UNCHANGED catalogue
    BY <1>2 DEF LooksUp
  <2>2. /\ rec.done = worker[w].done /\ rec.held = worker[w].held /\ rec.msg = worker[w].msg
        /\ rec.at = "INSERT" /\ rec.read = file
    BY <1>0 DEF WorkerOK, Idle
  <2> HIDE DEF rec
  <2>3. OnlyMoves(w) /\ worker'[w] = rec
    BY <2>1, MovesPoint
  <2>4. \A p \in Science : p.run # RunOf(w) => Same(p)
    BY <2>1 DEF Same, Registered
  <2>5. ASSUME NEW p \in Science, p.run = RunOf(w), p.run \notin overlapped
        PROVE  FileOK(p)' /\ MineOK(w, p)'
    <3>1. FileOK(p)'
      BY <2>1, <2>5 DEF FileOK, Registered
    <3>2. Current(w)' = Current(w) /\ RunOf(w)' = RunOf(w)
      BY <2>2, <2>3 DEF Current, RunOf
    <3>3. MineOK(w, p)'
      BY <2>2, <2>3, <2>5, <3>2 DEF MineOK, At
    <3> QED
      BY <3>1, <3>3
  <2> QED
    BY <1>0, <2>2, <2>3, <2>4, <2>5, OwnFiles
<1> QED
  BY <1>1, <1>2

LEMMA RaisesFiles ==
  ASSUME ClaimTypeOK, AloneInRun, FilesInv, NEW w \in Workers, ~At(w, "IDLE"),
         NEW again, Raises(w, again), UNCHANGED <<catalogue, overlapped>>, FilesTypeOK',
         \A p \in Science : p.run # RunOf(w) => SameFile(p),
         \A p \in Science : p.run = RunOf(w) /\ p.run \notin overlapped => FileOK(p)'
  PROVE  FilesInv'
<1> DEFINE rec == [worker[w] EXCEPT !.at = "RAISED", !.held = Nothing, !.read = Nothing,
                                    !.retry = again]
<1>1. WorkerOK(worker[w])
  BY DEF ClaimTypeOK
<1>2. rec.at = "RAISED" /\ rec.msg = worker[w].msg
  BY <1>1 DEF WorkerOK, Idle
<1>3. Moves(w, rec)
  BY DEF Raises
<1> HIDE DEF rec
<1>4. OnlyMoves(w) /\ worker'[w] = rec
  BY <1>3, MovesPoint
<1>5. \A p \in Science : MineOK(w, p)'
  BY <1>2, <1>4 DEF MineOK
<1>6. \A p \in Science : p.run # RunOf(w) => Same(p)
  BY DEF Same, Registered
<1> QED
  BY <1>2, <1>4, <1>5, <1>6, OwnFiles

\* The current product of a worker, if it has a file, is one of its run.
LEMMA CurrentRun ==
  ASSUME ClaimTypeOK, MadeInv, NEW w \in Workers, worker[w].at \notin {"IDLE", "RAISED"},
         Current(w) \in Science
  PROVE  Current(w).run = RunOf(w)
<1>1. worker[w].done \in Nat /\ worker[w].done < OutputCount(RunOf(w)) /\ RunOf(w) \in Runs
  BY DEF MadeInv, MadeOK, ClaimTypeOK, WorkerOK, RunOf, Messages
<1>2. worker[w].done + 1 \in 1 .. OutputCount(RunOf(w))
  BY <1>1, CountNat
<1> QED
  BY <1>1, <1>2, ScienceLevel, OutputScience DEF Current

\* Steps at which the files stay, and the worker looks its product up.
LEMMA KeptLooksUp ==
  ASSUME ClaimTypeOK, AloneInRun, MadeInv, FilesInv, NEW w \in Workers,
         worker[w].at \notin {"IDLE", "RAISED"},
         NEW file, LooksUp(w, Current(w), file), UNCHANGED <<part, final, overlapped>>,
         Current(w) \in Science => Current(w) \in DOMAIN final /\ final[Current(w)] = file
  PROVE  FilesInv'
<1>1. FilesTypeOK' /\ \A p \in Science : SameFile(p)
  BY DEF FilesInv, FilesTypeOK, SameFile
<1>2. ASSUME NEW p \in Science, p.run = RunOf(w), p.run \notin overlapped
      PROVE  /\ p \in DOMAIN final' => final'[p].whole
             /\ p \in Registered => p \in DOMAIN final' /\ final'[p] = catalogue[p]
             /\ p \in DOMAIN worker[w].held => p \in DOMAIN final' /\ final'[p] = worker[w].held[p]
             /\ p = Current(w) => p \in DOMAIN final' /\ final'[p] = file
  <2>1. FileOK(p) /\ MineOK(w, p)
    BY <1>2 DEF FilesInv
  <2> QED
    BY <1>2, <2>1 DEF FileOK, MineOK
<1> QED
  BY <1>1, <1>2, LooksUpFiles

LEMMA MakeQuicklookFiles ==
  ASSUME ClaimTypeOK, AloneInRun, MadeInv, FilesInv, NEW w \in Workers, MakeQuicklook(w)
  PROVE  FilesInv'
BY KeptLooksUp DEF MakeQuicklook, others, historyVars, fileVars, Science, At

LEMMA KeepFileFiles ==
  ASSUME ClaimTypeOK, AloneInRun, MadeInv, FilesInv, NEW w \in Workers, KeepFile(w)
  PROVE  FilesInv'
<1>1. At(w, "OPEN") /\ worker[w].at \notin {"IDLE", "RAISED"}
      /\ UNCHANGED <<part, final, overlapped>> /\ Current(w) \in DOMAIN final
  BY DEF KeepFile, others, historyVars, fileVars, At
<1>2. CASE LooksUp(w, Current(w), final[Current(w)])
  BY <1>1, <1>2, KeptLooksUp
<1>3. ASSUME NEW again \in BOOLEAN, Raises(w, again), UNCHANGED <<run, catalogue>> PROVE FilesInv'
  <2>1. FilesTypeOK' /\ \A p \in Science : SameFile(p)
    BY <1>1 DEF FilesInv, FilesTypeOK, SameFile
  <2>2. \A p \in Science : p.run \notin overlapped => FileOK(p)'
    BY <1>1, <1>3 DEF FilesInv, FileOK, Registered
  <2> QED
    BY <1>1, <1>3, <2>1, <2>2, RaisesFiles DEF At
<1> QED
  BY <1>2, <1>3 DEF KeepFile

\* A worker that goes from one place to another within a product.
LEMMA GoesFiles ==
  ASSUME ClaimTypeOK, AloneInRun, FilesInv, NEW w \in Workers, ~At(w, "IDLE"),
         NEW place \in {"CLOSE", "REPLACE"}, worker[w].at \notin {"IDLE", "RAISED"},
         Goes(w, place), UNCHANGED <<catalogue, overlapped>>, FilesTypeOK',
         \A p \in Science : p # Current(w) => SameFile(p),
         Current(w) \in Science => Current(w).run = RunOf(w),
         Current(w) \in Science /\ RunOf(w) \notin overlapped =>
           /\ Current(w) \in DOMAIN part' /\ part'[Current(w)].by = w
           /\ place = "REPLACE" => part'[Current(w)].whole
           /\ Current(w) \notin DOMAIN final /\ Current(w) \notin DOMAIN final'
  PROVE  FilesInv'
<1> DEFINE rec == [worker[w] EXCEPT !.at = place]
<1>1. WorkerOK(worker[w])
  BY DEF ClaimTypeOK
<1>2. rec.at = place /\ rec.msg = worker[w].msg /\ rec.held = worker[w].held /\ rec.done = worker[w].done
  BY <1>1 DEF WorkerOK, Idle
<1>3. Moves(w, rec)
  BY DEF Goes
<1> HIDE DEF rec
<1>4. OnlyMoves(w) /\ worker'[w] = rec
  BY <1>3, MovesPoint
<1>5. RunOf(w)' = RunOf(w) /\ Current(w)' = Current(w)
  BY <1>2, <1>4 DEF RunOf, Current
<1>6. \A p \in Science : p.run # RunOf(w) => Same(p)
  BY DEF Same, Registered
<1>7. ASSUME NEW p \in Science, p.run = RunOf(w), p.run \notin overlapped
      PROVE  FileOK(p)' /\ MineOK(w, p)'
  <2>1. FileOK(p) /\ MineOK(w, p)
    BY <1>7 DEF FilesInv
  <2>2. CASE p = Current(w)
    <3>1. p \notin Registered /\ p \notin DOMAIN worker[w].held
      BY <1>7, <2>1, <2>2 DEF FileOK, MineOK
    <3> QED
      BY <1>2, <1>4, <1>5, <1>7, <2>2, <3>1 DEF FileOK, MineOK, At, Registered
  <2>3. CASE p # Current(w)
    <3>1. SameFile(p)
      BY <2>3
    <3> QED
      BY <1>2, <1>4, <1>5, <1>7, <2>1, <2>3, <3>1 DEF FileOK, MineOK, At, Registered, SameFile
  <2> QED
    BY <2>2, <2>3
<1> QED
  BY <1>2, <1>4, <1>6, <1>7, OwnFiles

LEMMA OpenPartFiles ==
  ASSUME ClaimTypeOK, AloneInRun, MadeInv, FilesInv, NEW w \in Workers, OpenPart(w)
  PROVE  FilesInv'
<1> DEFINE p == Current(w)
<1>1. /\ p \in Science /\ p \notin DOMAIN final /\ Goes(w, "CLOSE")
      /\ worker[w].at \notin {"IDLE", "RAISED"} /\ ~At(w, "IDLE")
      /\ part' = Put(part, p, [by |-> w, whole |-> FALSE])
      /\ UNCHANGED <<final, catalogue, overlapped>>
  BY DEF OpenPart, others, historyVars, At
<1>2. p.run = RunOf(w)
  BY <1>1, CurrentRun
<1>3. /\ p \in DOMAIN part' /\ part'[p] = [by |-> w, whole |-> FALSE]
      /\ \A q : q # p => /\ q \in DOMAIN part' <=> q \in DOMAIN part
                         /\ q \in DOMAIN part => part'[q] = part[q]
  BY <1>1 DEF Put
<1>4. FilesTypeOK'
  <2>1. [by |-> w, whole |-> FALSE] \in Files
    BY DEF Files
  <2>2. \A q \in DOMAIN part' : q = p \/ (q \in DOMAIN part /\ part'[q] = part[q])
    BY <1>3
  <2> HIDE DEF p
  <2> QED
    BY <1>1, <1>3, <2>1, <2>2 DEF FilesInv, FilesTypeOK
<1>5. \A q \in Science : q # p => SameFile(q)
  BY <1>1, <1>3 DEF SameFile
<1>6. part'[p].by = w
  BY <1>3
<1>7. "CLOSE" \in {"CLOSE", "REPLACE"} /\ "CLOSE" # "REPLACE"
  OBVIOUS
<1> QED
  BY <1>1, <1>2, <1>3, <1>4, <1>5, <1>6, <1>7, GoesFiles

\* The bytes of a worker complete the file it has opened, and no other.
LEMMA CompletedFile ==
  ASSUME NEW files, \A q \in DOMAIN files : files[q] \in Files, NEW w, NEW p,
         NEW done, done = Completed(files, w, p)
  PROVE  /\ DOMAIN done = DOMAIN files
         /\ \A q \in DOMAIN files : /\ done[q] \in Files
                                    /\ q # p => done[q] = files[q]
                                    /\ done[q].by = files[q].by
                                    /\ files[q].whole => done[q] = files[q]
         /\ p \in DOMAIN files /\ files[p].by = w => done[p].whole
<1>1. CASE ~(p \in DOMAIN files /\ files[p].by = w)
  BY <1>1 DEF Completed
<1>2. CASE p \in DOMAIN files /\ files[p].by = w
  <2> DEFINE f == [files[p] EXCEPT !.whole = TRUE]
  <2>1. files[p] \in [by : Workers, whole : BOOLEAN]
    BY <1>2 DEF Files
  <2>2. f \in [by : Workers, whole : BOOLEAN] /\ f.by = files[p].by /\ f.whole
    BY <2>1
  <2>3. f \in Files /\ f.by = files[p].by /\ f.whole /\ (files[p].whole => f = files[p])
    <3> HIDE DEF f
    <3> QED
      BY <2>1, <2>2 DEF Files
  <2>4. done = [files EXCEPT ![p] = f]
    BY <1>2 DEF Completed
  <2>5. DOMAIN done = DOMAIN files /\ done[p] = f /\ \A q \in DOMAIN files : q # p => done[q] = files[q]
    BY <1>2, <2>4
  <2> HIDE DEF f
  <2> QED
    BY <1>2, <2>3, <2>5
<1> QED
  BY <1>1, <1>2

LEMMA ClosePartFiles ==
  ASSUME ClaimTypeOK, AloneInRun, MadeInv, FilesInv, NEW w \in Workers, ClosePart(w)
  PROVE  FilesInv'
<1> DEFINE p == Current(w)
<1>1. /\ worker[w].at = "CLOSE" /\ worker[w].at \notin {"IDLE", "RAISED"} /\ ~At(w, "IDLE")
      /\ part' = Completed(part, w, p) /\ final' = Completed(final, w, p)
      /\ UNCHANGED <<catalogue, overlapped>>
  BY DEF ClosePart, others, historyVars, At
<1>2. p \in Science => p.run = RunOf(w)
  BY <1>1, CurrentRun
<1>3. /\ DOMAIN part' = DOMAIN part
      /\ \A q \in DOMAIN part : /\ part'[q] \in Files
                                /\ q # p => part'[q] = part[q]
                                /\ part'[q].by = part[q].by
      /\ p \in DOMAIN part /\ part[p].by = w => part'[p].whole
  BY <1>1, CompletedFile DEF FilesInv, FilesTypeOK
<1>4. /\ DOMAIN final' = DOMAIN final
      /\ \A q \in DOMAIN final : /\ final'[q] \in Files
                                 /\ q # p => final'[q] = final[q]
                                 /\ final[q].whole => final'[q] = final[q]
  BY <1>1, CompletedFile DEF FilesInv, FilesTypeOK
<1> HIDE DEF p
<1>5. FilesTypeOK'
  BY <1>3, <1>4 DEF FilesTypeOK
<1>6. \A q \in Science : q # p => SameFile(q)
  BY <1>3, <1>4 DEF SameFile
<1>7. ASSUME p \in Science, RunOf(w) \notin overlapped
      PROVE  /\ p \in DOMAIN part /\ part[p].by = w /\ p \notin DOMAIN final
  BY <1>1, <1>2, <1>7 DEF FilesInv, MineOK, p
<1>8. CASE Goes(w, "REPLACE")
  BY <1>1, <1>2, <1>3, <1>4, <1>5, <1>6, <1>7, <1>8, GoesFiles DEF p
<1>9. ASSUME NEW again \in BOOLEAN, Raises(w, again) PROVE FilesInv'
  <2>1. \A q \in Science : q.run # RunOf(w) => SameFile(q)
    BY <1>2, <1>6
  <2>2. ASSUME NEW q \in Science, q.run \notin overlapped PROVE FileOK(q)'
    <3>1. FileOK(q)
      BY <2>2 DEF FilesInv
    <3> QED
      BY <1>1, <1>4, <3>1 DEF FileOK, Registered
  <2> QED
    BY <1>1, <1>5, <1>9, <2>1, <2>2, RaisesFiles
<1> QED
  BY <1>8, <1>9 DEF ClosePart

LEMMA ReplaceFileFiles ==
  ASSUME ClaimTypeOK, AloneInRun, MadeInv, FilesInv, NEW w \in Workers, ReplaceFile(w)
  PROVE  FilesInv'
<1> DEFINE p == Current(w)
<1>1. /\ worker[w].at = "REPLACE" /\ worker[w].at \notin {"IDLE", "RAISED"} /\ ~At(w, "IDLE")
      /\ UNCHANGED overlapped
  BY DEF ReplaceFile, others, historyVars, At
<1>2. p \in Science => p.run = RunOf(w)
  BY <1>1, CurrentRun
<1>3. CASE p \in DOMAIN part
  <2>1. /\ final' = Put(final, p, part[p]) /\ part' = Without(part, p)
        /\ LooksUp(w, p, part[p])
    BY <1>3 DEF ReplaceFile
  <2>2. /\ p \in DOMAIN final' /\ final'[p] = part[p]
        /\ \A q : q # p => /\ q \in DOMAIN part' <=> q \in DOMAIN part
                           /\ q \in DOMAIN final' <=> q \in DOMAIN final
                           /\ q \in DOMAIN part => part'[q] = part[q]
                           /\ q \in DOMAIN final => final'[q] = final[q]
        /\ p \notin DOMAIN part'
    BY <2>1 DEF Put, Without
  <2> HIDE DEF p
  <2>3. FilesTypeOK'
    <3>1. \A q \in DOMAIN part' : q \in DOMAIN part /\ part'[q] = part[q]
      BY <2>2
    <3>2. \A q \in DOMAIN final' : \/ q = p /\ final'[q] = part[p]
                                   \/ q \in DOMAIN final /\ final'[q] = final[q]
      BY <2>2
    <3> QED
      BY <1>3, <3>1, <3>2 DEF FilesInv, FilesTypeOK
  <2>4. \A q \in Science : q.run # RunOf(w) => SameFile(q)
    BY <1>2, <2>2 DEF SameFile
  <2>5. ASSUME NEW q \in Science, q.run = RunOf(w), q.run \notin overlapped
        PROVE  /\ q \in DOMAIN final' => final'[q].whole
               /\ q \in Registered => q \in DOMAIN final' /\ final'[q] = catalogue[q]
               /\ q \in DOMAIN worker[w].held => q \in DOMAIN final' /\ final'[q] = worker[w].held[q]
               /\ q = p => q \in DOMAIN final' /\ final'[q] = part[p]
    <3>1. FileOK(q) /\ MineOK(w, q)
      BY <2>5 DEF FilesInv
    <3>2. CASE q = p
      BY <1>1, <2>2, <2>5, <3>1, <3>2 DEF FileOK, MineOK, At, p
    <3>3. CASE q # p
      BY <1>1, <2>2, <2>5, <3>1, <3>3 DEF FileOK, MineOK
    <3> QED
      BY <3>2, <3>3
  <2> QED
    BY <1>1, <2>1, <2>3, <2>4, <2>5, LooksUpFiles DEF p
<1>4. CASE p \notin DOMAIN part
  <2>1. Raises(w, TRUE) /\ UNCHANGED <<part, final, catalogue>>
    BY <1>4 DEF ReplaceFile, fileVars
  <2>2. FilesTypeOK' /\ \A q \in Science : SameFile(q)
    BY <2>1 DEF FilesInv, FilesTypeOK, SameFile
  <2>3. \A q \in Science : q.run \notin overlapped => FileOK(q)'
    BY <2>1 DEF FilesInv, FileOK, Registered
  <2> QED
    BY <1>1, <2>1, <2>2, <2>3, RaisesFiles
<1> QED
  BY <1>3, <1>4

LEMMA InsertFiles ==
  ASSUME ClaimTypeOK, AloneInRun, MadeInv, FilesInv, NEW w \in Workers, Insert(w)
  PROVE  FilesInv'
<1> DEFINE p == Current(w)
           rows == Put(worker[w].held, p, worker[w].read)
<1>1. /\ worker[w].at = "INSERT" /\ worker[w].at \notin {"IDLE", "RAISED"} /\ ~At(w, "IDLE")
      /\ UNCHANGED <<part, final, overlapped>>
  BY DEF Insert, others, historyVars, fileVars, At
<1>2. FilesTypeOK' /\ \A q \in Science : SameFile(q)
  BY <1>1 DEF FilesInv, FilesTypeOK, SameFile
<1>3. CASE p \in Registered
  <2>1. Raises(w, FALSE) /\ UNCHANGED catalogue
    BY <1>3 DEF Insert
  <2>2. \A q \in Science : q.run \notin overlapped => FileOK(q)'
    BY <1>1, <2>1 DEF FilesInv, FileOK, Registered
  <2> QED
    BY <1>1, <1>2, <2>1, <2>2, RaisesFiles
<1>4. CASE p \notin Registered
  <2>1. Pass(w, rows)
    BY <1>4 DEF Insert
  <2>2. /\ DOMAIN rows = DOMAIN worker[w].held \cup {p} /\ rows[p] = worker[w].read
        /\ \A q \in DOMAIN rows : q # p => rows[q] = worker[w].held[q]
    BY DEF Put
  <2>3. /\ worker[w].done \in Nat
        /\ DOMAIN worker[w].held \subseteq Made(RunOf(w), worker[w].done)
    BY <1>1 DEF MadeInv, MadeOK
  <2>4. DOMAIN rows \subseteq Made(RunOf(w), worker[w].done + 1)
    BY <2>2, <2>3, MadeMore DEF Current
  <2> HIDE DEF rows
  <2>5. ASSUME NEW q \in Science, q.run = RunOf(w), q.run \notin overlapped
        PROVE  /\ q \in DOMAIN final' => final'[q].whole
               /\ q \in Registered => q \in DOMAIN final' /\ final'[q] = catalogue[q]
               /\ q \in DOMAIN rows => q \in DOMAIN final' /\ final'[q] = rows[q]
    <3>1. FileOK(q) /\ MineOK(w, q)
      BY <2>5 DEF FilesInv
    <3>2. CASE q = p
      BY <1>1, <2>2, <2>5, <3>1, <3>2 DEF FileOK, MineOK, At
    <3>3. CASE q # p
      BY <1>1, <2>2, <2>5, <3>1, <3>3 DEF FileOK, MineOK
    <3> QED
      BY <3>2, <3>3
  <2> QED
    BY <1>1, <1>2, <2>1, <2>4, <2>5, PassFiles
<1> QED
  BY <1>3, <1>4

LEMMA IOFailureFiles ==
  ASSUME ClaimTypeOK, AloneInRun, MadeInv, FilesInv, NEW w \in Workers, IOFailure(w)
  PROVE  FilesInv'
<1>1. /\ ~At(w, "IDLE") /\ UNCHANGED <<part, final, catalogue, overlapped>>
      /\ \E again \in BOOLEAN : Raises(w, again)
  BY DEF IOFailure, fileVars, At
<1>2. FilesTypeOK' /\ \A p \in Science : SameFile(p)
  BY <1>1 DEF FilesInv, FilesTypeOK, SameFile
<1>3. \A p \in Science : p.run \notin overlapped => FileOK(p)'
  BY <1>1 DEF FilesInv, FileOK, Registered
<1> QED
  BY <1>1, <1>2, <1>3, RaisesFiles

LEMMA WorkingFiles ==
  ASSUME ClaimTypeOK, AloneInRun, MadeInv, FilesInv, NEW w \in Workers, Working(w)
  PROVE  FilesInv'
BY MakeQuicklookFiles, KeepFileFiles, OpenPartFiles, ClosePartFiles, ReplaceFileFiles,
   InsertFiles, IOFailureFiles DEF Working

\* Quicklooks are not science.
LEMMA StillFiles ==
  ASSUME FilesInv, UNCHANGED <<worker, part, final, overlapped>>, NEW ps,
         catalogue' = catalogue \/ RegisterQuicklooks(ps),
         \A p \in ps : p.level = "QUICKLOOK"
  PROVE  FilesInv'
<1> SUFFICES ASSUME NEW p \in Science, p.run \notin overlapped
             PROVE  FileOK(p)' /\ \A w \in Workers : MineOK(w, p)'
  BY DEF FilesInv, FilesTypeOK
<1>1. FileOK(p) /\ \A w \in Workers : MineOK(w, p)
  BY DEF FilesInv
<1>2. p \notin ps
  BY ScienceLevel
<1>3. (p \in Registered' <=> p \in Registered) /\ (p \in Registered => catalogue'[p] = catalogue[p])
  BY <1>2 DEF RegisterQuicklooks, Registered
<1>4. FileOK(p)'
  BY <1>1, <1>3 DEF FileOK
<1>5. \A w \in Workers : MineOK(w, p)'
  BY <1>1 DEF MineOK, At, RunOf, Current
<1> QED
  BY <1>4, <1>5

LEMMA ClaimFiles ==
  ASSUME ClaimTypeOK, FilesInv, NEW w \in Workers, NEW m \in queue,
         Claim(w, m) \/ ClaimRefused(w, m)
  PROVE  FilesInv'
<1>1. UNCHANGED <<part, final, catalogue>> /\ overlapped \subseteq overlapped'
  BY DEF Claim, ClaimRefused, Joins, fileVars
<1>2. ASSUME Claim(w, m)
      PROVE  OnlyMoves(w) /\ worker'[w].at \in {"OPEN", "RAISED"} /\ worker'[w].held = Nothing
  <2> DEFINE r == m.about
             rec == [Idle EXCEPT !.at = IF Complete(r.seq) /\ MayQueue(r) THEN "OPEN" ELSE "RAISED",
                                 !.msg = m]
  <2>1. Moves(w, rec)
    BY <1>2 DEF Claim
  <2>2. rec.at \in {"OPEN", "RAISED"} /\ rec.held = Nothing
    BY DEF Idle
  <2> HIDE DEF rec
  <2> QED
    BY <2>1, <2>2, MovesPoint
<1>3. OnlyMoves(w) /\ worker'[w].at \in {"OPEN", "RAISED"} /\ worker'[w].held = Nothing
  BY <1>2, RefusedPoint
<1> SUFFICES ASSUME NEW p \in Science, p.run \notin overlapped'
             PROVE  FileOK(p)' /\ \A x \in Workers : MineOK(x, p)'
  BY <1>1 DEF FilesInv, FilesTypeOK
<1>4. FileOK(p) /\ \A x \in Workers : MineOK(x, p)
  BY <1>1 DEF FilesInv
<1>5. FileOK(p)'
  BY <1>1, <1>4 DEF FileOK, Registered
<1>6. MineOK(w, p)'
  BY <1>3, NothingEmpty DEF MineOK, At
<1>7. \A x \in Workers \ {w} : MineOK(x, p)'
  <2>1. \A x \in Workers \ {w} : worker'[x] = worker[x]
    BY <1>3 DEF OnlyMoves
  <2> QED
    BY <1>1, <1>4, <2>1 DEF MineOK, At, RunOf, Current
<1> QED
  BY <1>5, <1>6, <1>7

LEMMA FilesStep ==
  ASSUME ClaimTypeOK, RawsTypeOK, AloneInRun, MadeInv, FilesInv, [Next]_vars
  PROVE  FilesInv'
<1>1. ASSUME UNCHANGED <<worker, part, final, overlapped, catalogue>> PROVE FilesInv'
  <2> DEFINE none == {}
  <2>1. \A p \in none : p.level = "QUICKLOOK"
    OBVIOUS
  <2> HIDE DEF none
  <2> QED
    BY <1>1, <2>1, StillFiles
<1>2. CASE QuietStep
  <2>1. UNCHANGED <<worker, part, final, overlapped>>
    <3>1. Quiet
      BY <1>2, QuietStepQuiet
    <3>2. UNCHANGED <<part, final>>
      BY <1>2 DEF QuietStep, CommitRaw, ImportRaws, ApproveCalibration, CreateRun, QuicklookPass,
                  ScheduleRaw, SkipRun, EndScheduling, LoseMark, fileVars, vars
    <3> QED
      BY <3>1, <3>2 DEF Quiet
  <2>2. CASE UNCHANGED catalogue
    BY <1>1, <2>1, <2>2
  <2>3. CASE QuicklookPass
    <3> DEFINE ps == {p \in Quicklooks : p.n <= raws[p.seq]}
    <3>1. RegisterQuicklooks(ps)
      BY <2>3 DEF QuicklookPass
    <3>2. \A p \in Quicklooks : p.level = "QUICKLOOK"
      BY DEF Quicklooks, Quicklook
    <3>3. \A p \in ps : p.level = "QUICKLOOK"
      BY <3>2
    <3> HIDE DEF ps
    <3> QED
      BY <2>1, <3>1, <3>3, StillFiles
  <2>4. ASSUME NEW n \in DOMAIN outbox, ScheduleRaw(n) PROVE FilesInv'
    <3> DEFINE ps == {Quicklook(outbox[n].about[1], outbox[n].about[2])}
    <3>1. RegisterQuicklooks(ps)
      BY <2>4 DEF ScheduleRaw
    <3>2. \A p \in ps : p.level = "QUICKLOOK"
      BY DEF Quicklook
    <3> HIDE DEF ps
    <3> QED
      BY <2>1, <3>1, <3>2, StillFiles
  <2>5. UNCHANGED catalogue \/ QuicklookPass \/ \E n \in DOMAIN outbox : ScheduleRaw(n)
    BY <1>2 DEF QuietStep, CommitRaw, ImportRaws, ApproveCalibration, CreateRun, SkipRun,
                EndScheduling, LoseMark, vars
  <2> QED
    BY <2>2, <2>3, <2>4, <2>5
<1>3. ASSUME NEW n \in DOMAIN outbox, SendRun(n) PROVE FilesInv'
  BY <1>1, <1>3 DEF SendRun, fileVars, historyVars
<1>4. ASSUME NEW r \in Runs, ClaimExpires(r) PROVE FilesInv'
  BY <1>1, <1>4 DEF ClaimExpires, fileVars
<1>5. ASSUME NEW w \in Workers, WorkerTurn(w) PROVE FilesInv'
  <2>1. ASSUME NEW m \in queue, TakeNothing(w, m) PROVE FilesInv'
    BY <1>1, <2>1 DEF TakeNothing, fileVars, historyVars
  <2>2. ASSUME NEW m \in queue, Claim(w, m) \/ ClaimRefused(w, m) PROVE FilesInv'
    BY <2>2, ClaimFiles
  <2>3. CASE Working(w)
    BY <2>3, WorkingFiles
  <2>4. CASE Fail(w) \/ FailRefused(w)
    <3>1. OnlyMoves(w) /\ worker'[w] = Idle /\ ~At(w, "IDLE")
      BY <2>4, MovesPoint DEF Fail, FailRefused, At
    <3> QED
      BY <2>4, <3>1, LeavesFiles DEF Fail, FailRefused, Idle, fileVars, historyVars
  <2>5. CASE Crash(w)
    <3>1. OnlyMoves(w) /\ worker'[w] = Idle /\ ~At(w, "IDLE")
      BY <2>5, MovesPoint DEF Crash
    <3> QED
      BY <2>5, <3>1, LeavesFiles DEF Crash, Idle, fileVars
  <2>6. CASE Redeliver(w)
    BY <1>1, <2>6 DEF Redeliver, fileVars
  <2> QED
    BY <1>5, <2>1, <2>2, <2>3, <2>4, <2>5, <2>6 DEF WorkerTurn
<1> QED
  BY <1>2, <1>3, <1>4, <1>5, StepKinds

\* As long as no two workers were in a run at once, every product that is
\* registered has its file, whole, and with the digest of the row: whatever
\* crashes, fails, is retried or sent twice (_write_atomic, _register_product).
THEOREM FilesTheorem == Spec => []FilesMatchUnlessOverlapped
<1>1. Init => FilesInv /\ MadeInv /\ LostInv
  <2> SUFFICES ASSUME Init PROVE FilesInv /\ MadeInv
    BY InitLostInv
  <2>1. Registered = {} /\ DOMAIN part = {} /\ DOMAIN final = {} /\ \A w \in Workers : worker[w].at = "IDLE"
    BY NothingEmpty DEF Init, Registered, Idle
  <2> QED
    BY <2>1 DEF FilesInv, FilesTypeOK, FileOK, MineOK, MadeInv, MadeOK
<1>2. ClaimInv /\ RawsTypeOK /\ LostInv /\ MadeInv /\ FilesInv /\ [Next]_vars =>
        FilesInv' /\ MadeInv' /\ LostInv'
  <2> SUFFICES ASSUME ClaimInv, RawsTypeOK, LostInv, MadeInv, FilesInv, [Next]_vars
               PROVE  FilesInv' /\ MadeInv' /\ LostInv'
    OBVIOUS
  <2>1. ClaimTypeOK /\ AloneInRun /\ OutboxOK
    BY DEF ClaimInv, LostInv
  <2> QED
    BY <2>1, FilesStep, StepKeeps, LostInvStep DEF KeepsContract
<1>3. FilesInv => FilesMatchUnlessOverlapped
  BY DEF FilesInv, FileOK, FilesMatchUnlessOverlapped, Valid
<1> QED
  BY <1>1, <1>2, <1>3, ClaimInvariant, PTL DEF Spec

-----------------------------------------------------------------------------
(* The types.                                                               *)

\* Every frame of a sequence is one of those it expects, and so is the frame
\* of every event.
FramesInv ==
  /\ \A s \in Sequences : raws[s] <= Expected[s]
  /\ \A n \in DOMAIN outbox : outbox[n].type = "RAW_FILE_COMMITTED" =>
       outbox[n].about[2] \in Exposures(outbox[n].about[1])

LEMMA RawsGrow ==
  ASSUME RawsTypeOK, FramesInv, [Next]_vars
  PROVE  \A s \in Sequences : raws[s] <= raws'[s] /\ raws'[s] <= Expected[s]
<1>0. raws \in [Sequences -> Nat] /\ \A s \in Sequences : raws[s] <= Expected[s] /\ Expected[s] \in Nat
  BY ProcessingAssumption DEF RawsTypeOK, FramesInv
<1>1. CASE UNCHANGED raws
  BY <1>0, <1>1
<1>2. ASSUME NEW s \in Sequences, CommitRaw(s) PROVE \A x \in Sequences : raws[x] <= raws'[x] /\ raws'[x] <= Expected[x]
  BY <1>0, <1>2 DEF CommitRaw
<1>3. ASSUME NEW s \in Sequences, ImportRaws(s) PROVE \A x \in Sequences : raws[x] <= raws'[x] /\ raws'[x] <= Expected[x]
  BY <1>0, <1>3 DEF ImportRaws
<1>4. UNCHANGED raws \/ \E s \in Sequences : CommitRaw(s) \/ ImportRaws(s)
  BY DEF Next, vars, runVars, others, ApproveCalibration, CreateRun, ClaimExpires, QuicklookPass,
         SchedulerStep, ScheduleRaw, SendRun, SkipRun, EndScheduling, LoseMark, WorkerStep,
         TakeNothing, Claim, ClaimRefused, MakeQuicklook, KeepFile, OpenPart, ClosePart, ReplaceFile, Insert,
         Fail, FailRefused, IOFailure, Crash, Redeliver
<1> QED
  BY <1>1, <1>2, <1>3, <1>4

\* An event is about a frame that was expected, or a run of a complete sequence.
LEMMA NewEvent ==
  ASSUME ClaimTypeOK, RawsTypeOK, [Next]_vars
  PROVE  \/ outbox' = outbox
         \/ \E s \in Sequences :
              /\ raws[s] < Expected[s]
              /\ outbox' = Emit([type |-> "RAW_FILE_COMMITTED", about |-> <<s, raws[s] + 1>>])
         \/ \E r \in Runs : Complete(r.seq) /\ outbox' = Emit(QueuedEvent(r))
<1> DEFINE Goal ==
      \/ outbox' = outbox
      \/ \E s \in Sequences :
           /\ raws[s] < Expected[s]
           /\ outbox' = Emit([type |-> "RAW_FILE_COMMITTED", about |-> <<s, raws[s] + 1>>])
      \/ \E r \in Runs : Complete(r.seq) /\ outbox' = Emit(QueuedEvent(r))
<1>1. ASSUME NEW s \in Sequences, CommitRaw(s) PROVE Goal
  BY <1>1 DEF CommitRaw
<1>2. ASSUME NEW r \in Runs, CreateRun(r) PROVE Goal
  BY <1>2 DEF CreateRun, EnsureRun
<1>3. ASSUME NEW n \in DOMAIN outbox, ScheduleRaw(n) PROVE Goal
  <2> DEFINE r == [seq |-> outbox[n].about[1], cal |-> NoCal, par |-> Default]
  <2>1. r \in Runs
    BY <1>3, RawEvent, DefaultRun DEF ScheduleRaw
  <2>2. outbox' = outbox \/ EnsureRun(r)
    BY <1>3 DEF ScheduleRaw
  <2> QED
    BY <2>1, <2>2 DEF EnsureRun
<1>4. \/ \E s \in Sequences : CommitRaw(s)
      \/ \E r \in Runs : CreateRun(r)
      \/ \E n \in DOMAIN outbox : ScheduleRaw(n)
      \/ outbox' = outbox
  BY AskedAssumption
     DEF Next, vars, outboxVars, others, ImportRaws, ApproveCalibration, ClaimExpires, QuicklookPass,
         SchedulerStep, SendRun, Send, SkipRun, EndScheduling, Publish, LoseMark, SchedulerCrash,
         WorkerStep, TakeNothing, Claim, ClaimRefused, MakeQuicklook, KeepFile, OpenPart, ClosePart, ReplaceFile,
         Insert, Fail, FailRefused, IOFailure, Crash, Redeliver
<1> HIDE DEF Goal
<1>5. Goal
  <2>1. CASE outbox' = outbox
    BY <2>1 DEF Goal
  <2> QED
    BY <1>1, <1>2, <1>3, <1>4, <2>1
<1> QED
  BY <1>5 DEF Goal

LEMMA EmitOnly ==
  ASSUME ClaimTypeOK, NEW e \in Events, outbox' = Emit(e), NEW n \in DOMAIN outbox'
  PROVE  (n \in DOMAIN outbox /\ outbox'[n] = outbox[n]) \/ outbox'[n] = e
<1> DEFINE l == Len(outbox)
<1>1. /\ outbox \in Seq(Events) /\ l \in Nat /\ DOMAIN outbox = 1 .. l
  BY LenProperties DEF ClaimTypeOK
<1>2. /\ outbox' \in Seq(Events) /\ Len(outbox') = l + 1
      /\ \A k \in 1 .. l : outbox'[k] = outbox[k]
      /\ outbox'[l + 1] = e
  BY <1>1, AppendProperties DEF Emit
<1>3. n \in 1 .. l + 1
  BY <1>2, LenProperties
<1> HIDE DEF l
<1> QED
  BY <1>1, <1>2, <1>3

LEMMA FramesStep ==
  ASSUME ClaimTypeOK, RawsTypeOK, FramesInv, [Next]_vars
  PROVE  FramesInv'
<1>1. \A s \in Sequences : raws'[s] <= Expected[s]
  BY RawsGrow
<1>2. SUFFICES ASSUME NEW n \in DOMAIN outbox', outbox'[n].type = "RAW_FILE_COMMITTED"
               PROVE  outbox'[n].about[2] \in Exposures(outbox'[n].about[1])
  BY <1>1 DEF FramesInv
<1>3. CASE outbox' = outbox
  BY <1>2, <1>3 DEF FramesInv
<1>4. ASSUME NEW s \in Sequences, raws[s] < Expected[s],
             outbox' = Emit([type |-> "RAW_FILE_COMMITTED", about |-> <<s, raws[s] + 1>>])
      PROVE  outbox'[n].about[2] \in Exposures(outbox'[n].about[1])
  <2> DEFINE e == [type |-> "RAW_FILE_COMMITTED", about |-> <<s, raws[s] + 1>>]
  <2>1. raws[s] + 1 \in 1 .. Expected[s]
    BY <1>4, ProcessingAssumption DEF RawsTypeOK
  <2>2. e \in Events /\ e.about[2] = raws[s] + 1 /\ e.about[1] = s
    BY <2>1 DEF Events
  <2> HIDE DEF e
  <2>3. (n \in DOMAIN outbox /\ outbox'[n] = outbox[n]) \/ outbox'[n] = e
    BY <1>4, <2>2, EmitOnly DEF e
  <2> QED
    BY <1>2, <2>1, <2>2, <2>3 DEF FramesInv, Exposures
<1>5. ASSUME NEW r \in Runs, outbox' = Emit(QueuedEvent(r))
      PROVE  outbox'[n].about[2] \in Exposures(outbox'[n].about[1])
  <2>1. QueuedEvent(r) \in Events /\ QueuedEvent(r).type = "QUEUED"
    BY DEF QueuedEvent, Events
  <2>2. (n \in DOMAIN outbox /\ outbox'[n] = outbox[n]) \/ outbox'[n] = QueuedEvent(r)
    BY <1>5, <2>1, EmitOnly
  <2> QED
    BY <1>2, <2>1, <2>2 DEF FramesInv
<1> QED
  BY <1>3, <1>4, <1>5, NewEvent

\* Who asks for a run, or has it.
Wanted(r) ==
  \/ run[r].status # "NONE"
  \/ \E n \in DOMAIN outbox : outbox[n] = QueuedEvent(r)
  \/ \E m \in queue : m.about = r
  \/ \E w \in Workers : ~At(w, "IDLE") /\ RunOf(w) = r

\* Only complete sequences are reduced.
AskedInv == \A r \in Runs : Wanted(r) => Complete(r.seq)

\* Nobody begins with a run nobody has asked for, unless its sequence is complete.
LEMMA WantedBefore ==
  ASSUME ClaimTypeOK, RawsTypeOK, [Next]_vars, NEW r \in Runs, Wanted(r)'
  PROVE  Wanted(r) \/ Complete(r.seq)
<1> SUFFICES ASSUME ~Wanted(r), ~Complete(r.seq) PROVE FALSE
  OBVIOUS
<1>0. /\ run \in [Runs -> [status : RunStatus, token : Nat, fresh : BOOLEAN]]
      /\ run[r].status = "NONE"
      /\ \A n \in DOMAIN outbox : outbox[n] # QueuedEvent(r)
      /\ \A m \in queue : m.about # r
      /\ \A w \in Workers : ~At(w, "IDLE") => RunOf(w) # r /\ worker[w].msg.about # r
  BY DEF ClaimTypeOK, Wanted, RunOf
<1>1. \A n \in DOMAIN outbox' : outbox'[n] # QueuedEvent(r)
  <2> SUFFICES ASSUME NEW n \in DOMAIN outbox', outbox'[n] = QueuedEvent(r) PROVE FALSE
    OBVIOUS
  <2>1. CASE outbox' = outbox
    BY <1>0, <2>1
  <2>2. ASSUME NEW s \in Sequences,
               outbox' = Emit([type |-> "RAW_FILE_COMMITTED", about |-> <<s, raws[s] + 1>>])
        PROVE  FALSE
    <3> DEFINE e == [type |-> "RAW_FILE_COMMITTED", about |-> <<s, raws[s] + 1>>]
    <3>1. e \in Events /\ e # QueuedEvent(r)
      BY DEF RawsTypeOK, Events, QueuedEvent
    <3> HIDE DEF e
    <3> QED
      BY <1>0, <2>2, <3>1, EmitOnly DEF e
  <2>3. ASSUME NEW q \in Runs, Complete(q.seq), outbox' = Emit(QueuedEvent(q)) PROVE FALSE
    <3>1. QueuedEvent(q) \in Events /\ QueuedEvent(q).about = q /\ QueuedEvent(r).about = r
      BY DEF QueuedEvent, Events
    <3> QED
      BY <1>0, <2>3, <3>1, EmitOnly
  <2> QED
    BY <2>1, <2>2, <2>3, NewEvent
<1>2. CASE QuietStep
  <2>1. Quiet
    BY <1>2, QuietStepQuiet
  <2>2. run'[r] # run[r]
    BY <1>0, <1>1, <2>1 DEF Quiet, Wanted, At, RunOf
  <2>3. ASSUME NEW q \in Runs, EnsureRun(q) PROVE FALSE
    BY <1>0, <2>2, <2>3 DEF EnsureRun
  <2>4. ASSUME NEW n \in DOMAIN outbox, ScheduleRaw(n) PROVE FALSE
    <3> DEFINE q == [seq |-> outbox[n].about[1], cal |-> NoCal, par |-> Default]
    <3>1. q \in Runs
      BY <2>4, RawEvent, DefaultRun DEF ScheduleRaw
    <3>2. run' = run \/ EnsureRun(q)
      BY <2>4 DEF ScheduleRaw
    <3> HIDE DEF q
    <3> QED
      BY <2>2, <2>3, <3>1, <3>2
  <2>5. \/ run' = run
        \/ \E q \in Runs : EnsureRun(q)
        \/ \E n \in DOMAIN outbox : ScheduleRaw(n)
    BY <1>2 DEF QuietStep, CommitRaw, ImportRaws, ApproveCalibration, CreateRun, QuicklookPass, SkipRun,
                EndScheduling, LoseMark, runVars, vars
  <2> QED
    BY <2>2, <2>3, <2>4, <2>5
<1>3. ASSUME NEW n \in DOMAIN outbox, SendRun(n) PROVE FALSE
  <2>1. /\ queue' = queue \cup {[task |-> sends + 1, about |-> outbox[n].about, retries |-> 0]}
        /\ UNCHANGED <<run, worker>> /\ outbox[n].about # r
    BY <1>0, <1>3, QueuedEventOfRun DEF SendRun, Send, runVars
  <2> QED
    BY <1>0, <1>1, <2>1 DEF Wanted, At, RunOf
<1>4. ASSUME NEW q \in Runs, ClaimExpires(q) PROVE FALSE
  BY <1>0, <1>1, <1>4 DEF ClaimExpires, outboxVars, Wanted, At, RunOf
<1>5. ASSUME NEW w \in Workers, WorkerTurn(w) PROVE FALSE
  <2>1. ASSUME NEW m \in queue, TakeNothing(w, m) PROVE FALSE
    BY <1>0, <1>1, <2>1 DEF TakeNothing, Acknowledged, runVars, Wanted, At, RunOf
  <2>2. ASSUME NEW m \in queue, Claim(w, m) PROVE FALSE
    <3> DEFINE rec == [Idle EXCEPT !.at = IF Complete(m.about.seq) /\ MayQueue(m.about) THEN "OPEN"
                                          ELSE "RAISED", !.msg = m]
    <3>1. /\ Moves(w, rec) /\ queue' = queue \ {m} /\ rec.msg = m /\ m.about # r
          /\ run' = [run EXCEPT ![m.about] = [status |-> "RUNNING", token |-> m.task, fresh |-> TRUE]]
      BY <1>0, <2>2 DEF Claim, Acknowledged, Idle
    <3> HIDE DEF rec
    <3>2. OnlyMoves(w) /\ worker'[w].msg = m
      BY <3>1, MovesPoint
    <3> QED
      BY <1>0, <1>1, <3>1, <3>2 DEF Wanted, At, RunOf, OnlyMoves
  <2>3. CASE Working(w)
    <3>1. ~At(w, "IDLE") /\ Proceeds(w) /\ UNCHANGED queue
      BY <2>3, WorkingProceeds DEF outboxVars
    <3>2. OnlyMoves(w) /\ (worker'[w].msg = worker[w].msg \/ worker'[w] = Idle) /\ run'[r] = run[r]
      BY <1>0, <3>1 DEF Proceeds, Continues, Ends
    <3> QED
      BY <1>0, <1>1, <3>1, <3>2 DEF Wanted, At, RunOf, OnlyMoves, Idle
  <2>4. CASE Fail(w) \/ FailRefused(w)
    <3>1. OnlyMoves(w) /\ worker'[w] = Idle /\ ~At(w, "IDLE") /\ run'[r] = run[r]
      BY <1>0, <2>4, MovesPoint DEF Fail, FailRefused, At, runVars
    <3>2. worker[w].msg \in Messages(Runs)
      BY <3>1 DEF ClaimTypeOK, WorkerOK, At
    <3>3. \A m \in queue' : m.about # r
      BY <1>0, <2>4, <3>1, <3>2 DEF Fail, FailRefused, Retried, Messages
    <3> QED
      BY <1>0, <1>1, <3>1, <3>3 DEF Wanted, At, RunOf, OnlyMoves, Idle
  <2>5. CASE Crash(w)
    <3>1. OnlyMoves(w) /\ worker'[w] = Idle /\ ~At(w, "IDLE") /\ run' = run
          /\ queue' = queue \cup {worker[w].msg}
      BY <2>5, MovesPoint DEF Crash, Redelivered, runVars
    <3> QED
      BY <1>0, <1>1, <3>1 DEF Wanted, At, RunOf, OnlyMoves, Idle
  <2>6. CASE Redeliver(w)
    BY <1>0, <1>1, <2>6 DEF Redeliver, Redelivered, runVars, Wanted, At, RunOf
  <2>7. ASSUME NEW m \in queue, ClaimRefused(w, m) PROVE FALSE
    <3>1. OnlyMoves(w) /\ worker'[w].msg = m /\ queue' = queue \ {m} /\ UNCHANGED run
      BY <2>7, RefusedPoint
    <3> QED
      BY <1>0, <1>1, <3>1 DEF Wanted, At, RunOf, OnlyMoves
  <2> QED
    BY <1>5, <2>1, <2>2, <2>3, <2>4, <2>5, <2>6, <2>7 DEF WorkerTurn
<1> QED
  BY <1>2, <1>3, <1>4, <1>5, StepKinds

LEMMA AskedStep ==
  ASSUME ClaimTypeOK, RawsTypeOK, FramesInv, AskedInv, [Next]_vars
  PROVE  AskedInv'
<1>1. ASSUME NEW r \in Runs, Complete(r.seq) PROVE Complete(r.seq)'
  <2>1. r.seq \in Sequences /\ raws[r.seq] <= raws'[r.seq]
    BY RawsGrow, RunKind
  <2>2. Expected[r.seq] \in Nat /\ raws[r.seq] \in Nat /\ raws'[r.seq] \in Nat
    BY <2>1, RunKind, RawsTypeStep DEF RawsTypeOK
  <2> QED
    BY <1>1, <2>1, <2>2 DEF Complete
<1>2. \A r \in Runs : Wanted(r)' => Complete(r.seq)'
  BY <1>1, WantedBefore DEF AskedInv
<1> QED
  BY <1>2 DEF AskedInv

\* A worker that has raised holds nothing any more.
RaisedOK(w) ==
  At(w, "RAISED") => DOMAIN worker[w].held = {} /\ worker[w].done \in 0 .. OutputCount(RunOf(w))

FileNamesInv == DOMAIN part \subseteq Science /\ DOMAIN final \subseteq Science

TypeInv ==
  /\ usable \subseteq CalSets
  /\ inHand \notin published
  /\ \A r \in Runs : run[r].token <= sends
  /\ FileNamesInv
  /\ Registered \subseteq Products
  /\ \A w \in Workers : RaisedOK(w)

LEMMA OutputsProducts ==
  ASSUME NEW r \in Runs
  PROVE  OutputsOf(r) \subseteq Products
BY DEF Products, Science

LEMMA MadeOutputs ==
  ASSUME NEW r \in Runs, NEW k \in Nat, k <= OutputCount(r)
  PROVE  Made(r, k) \subseteq OutputsOf(r)
BY CountNat DEF Made, OutputsOf

\* What a worker that makes products may do to the catalogue and to itself.
Orderly(w) ==
  /\ OnlyMoves(w) /\ RaisedOK(w)'
  /\ Registered' \subseteq Registered \cup OutputsOf(RunOf(w))

LEMMA PassOrderly ==
  ASSUME ClaimTypeOK, MadeInv, NEW w \in Workers, worker[w].at \notin {"IDLE", "RAISED"},
         NEW rows, Pass(w, rows),
         DOMAIN rows \subseteq Made(RunOf(w), worker[w].done + 1)
  PROVE  Orderly(w)
<1> DEFINE r == RunOf(w)
           k == worker[w].done + 1
<1>0. /\ WorkerOK(worker[w]) /\ r \in Runs /\ k \in Nat /\ k <= OutputCount(r)
  BY CountNat DEF ClaimTypeOK, WorkerOK, RunOf, Messages, MadeInv, MadeOK
<1>1. Registered' \subseteq Registered \cup DOMAIN rows
  BY DEF Pass, Registered
<1>2. DOMAIN rows \subseteq OutputsOf(r)
  BY <1>0, MadeOutputs
<1>3. \E rec : Moves(w, rec) /\ rec.at \in {"OPEN", "IDLE"}
  <2>1. CASE ~CommitsAfter(r, k)
    <3> DEFINE rec == [worker[w] EXCEPT !.done = k, !.at = "OPEN", !.held = rows, !.read = Nothing]
    <3>1. Moves(w, rec)
      BY <2>1 DEF Pass
    <3>2. rec.at = "OPEN"
      BY <1>0 DEF WorkerOK, Idle
    <3> QED
      BY <3>1, <3>2
  <2>2. CASE CommitsAfter(r, k) /\ k = OutputCount(r)
    <3>1. Moves(w, Idle) /\ Idle.at = "IDLE"
      BY <2>2 DEF Pass, Idle
    <3> QED
      BY <3>1
  <2>3. CASE CommitsAfter(r, k) /\ k # OutputCount(r)
    <3> DEFINE rec == [Idle EXCEPT !.msg = worker[w].msg, !.done = k, !.at = "OPEN"]
    <3>1. Moves(w, rec)
      BY <2>3 DEF Pass
    <3>2. rec.at = "OPEN"
      BY DEF Idle
    <3> QED
      BY <3>1, <3>2
  <2> QED
    BY <2>1, <2>2, <2>3
<1>4. OnlyMoves(w) /\ worker'[w].at \in {"OPEN", "IDLE"}
  BY <1>3, MovesPoint
<1> QED
  BY <1>1, <1>2, <1>4 DEF Orderly, RaisedOK, At

LEMMA LooksUpOrderly ==
  ASSUME ClaimTypeOK, MadeInv, NEW w \in Workers, worker[w].at \notin {"IDLE", "RAISED"},
         NEW file, LooksUp(w, Current(w), file)
  PROVE  Orderly(w)
<1>0. WorkerOK(worker[w]) /\ MadeOK(w) /\ worker[w].done \in Nat
      /\ DOMAIN worker[w].held \subseteq Made(RunOf(w), worker[w].done)
  BY DEF ClaimTypeOK, MadeInv, MadeOK
<1>1. CASE Current(w) \in Registered
  <2>1. DOMAIN worker[w].held \subseteq Made(RunOf(w), worker[w].done + 1)
    BY <1>0, MadeMore
  <2> QED
    BY <1>1, <2>1, PassOrderly DEF LooksUp
<1>2. CASE Current(w) \notin Registered
  <2> DEFINE rec == [worker[w] EXCEPT !.at = "INSERT", !.read = file]
  <2>1. Moves(w, rec) /\ UNCHANGED catalogue
    BY <1>2 DEF LooksUp
  <2>2. rec.at = "INSERT"
    BY <1>0 DEF WorkerOK, Idle
  <2> HIDE DEF rec
  <2>3. OnlyMoves(w) /\ worker'[w] = rec
    BY <2>1, MovesPoint
  <2> QED
    BY <2>1, <2>2, <2>3 DEF Orderly, RaisedOK, At, Registered
<1> QED
  BY <1>1, <1>2

LEMMA RaisesOrderly ==
  ASSUME ClaimTypeOK, MadeInv, NEW w \in Workers, worker[w].at \notin {"IDLE", "RAISED"},
         NEW again, Raises(w, again), UNCHANGED catalogue
  PROVE  Orderly(w)
<1> DEFINE rec == [worker[w] EXCEPT !.at = "RAISED", !.held = Nothing, !.read = Nothing,
                                    !.retry = again]
<1>1. WorkerOK(worker[w])
  BY DEF ClaimTypeOK
<1>2. rec.held = Nothing /\ rec.done = worker[w].done /\ rec.msg = worker[w].msg
  BY <1>1 DEF WorkerOK, Idle
<1>3. Moves(w, rec)
  BY DEF Raises
<1> HIDE DEF rec
<1>4. OnlyMoves(w) /\ worker'[w] = rec
  BY <1>3, MovesPoint
<1>5. worker[w].done \in 0 .. OutputCount(RunOf(w))
  BY <1>1, CountNat DEF MadeInv, MadeOK, WorkerOK, RunOf, Messages
<1> QED
  BY <1>2, <1>4, <1>5, NothingEmpty DEF Orderly, RaisedOK, RunOf, Registered

LEMMA GoesOrderly ==
  ASSUME ClaimTypeOK, NEW w \in Workers, NEW place, place # "RAISED",
         Goes(w, place), UNCHANGED catalogue
  PROVE  Orderly(w)
<1> DEFINE rec == [worker[w] EXCEPT !.at = place]
<1>1. WorkerOK(worker[w])
  BY DEF ClaimTypeOK
<1>2. rec.at = place
  BY <1>1 DEF WorkerOK, Idle
<1>3. Moves(w, rec)
  BY DEF Goes
<1> HIDE DEF rec
<1>4. OnlyMoves(w) /\ worker'[w] = rec
  BY <1>3, MovesPoint
<1> QED
  BY <1>2, <1>4 DEF Orderly, RaisedOK, At, Registered

LEMMA WorkingOrderly ==
  ASSUME ClaimTypeOK, MadeInv, NEW w \in Workers, Working(w)
  PROVE  Orderly(w)
<1>1. CASE MakeQuicklook(w)
  BY <1>1, LooksUpOrderly DEF MakeQuicklook, At
<1>2. CASE KeepFile(w)
  BY <1>2, LooksUpOrderly, RaisesOrderly DEF KeepFile, At
<1>3. CASE OpenPart(w)
  BY <1>3, GoesOrderly DEF OpenPart
<1>4. CASE ClosePart(w)
  BY <1>4, GoesOrderly, RaisesOrderly DEF ClosePart, At
<1>5. CASE ReplaceFile(w)
  BY <1>5, LooksUpOrderly, RaisesOrderly DEF ReplaceFile, At
<1>6. CASE Insert(w)
  <2> DEFINE p == Current(w)
             rows == Put(worker[w].held, p, worker[w].read)
  <2>1. CASE p \in Registered
    BY <1>6, <2>1, RaisesOrderly DEF Insert, At
  <2>2. CASE p \notin Registered
    <3>1. Pass(w, rows) /\ worker[w].at \notin {"IDLE", "RAISED"}
      BY <1>6, <2>2 DEF Insert, At
    <3>2. DOMAIN rows = DOMAIN worker[w].held \cup {p}
      BY DEF Put
    <3>3. /\ worker[w].done \in Nat
          /\ DOMAIN worker[w].held \subseteq Made(RunOf(w), worker[w].done)
      BY <3>1 DEF MadeInv, MadeOK
    <3>4. DOMAIN rows \subseteq Made(RunOf(w), worker[w].done + 1)
      BY <3>2, <3>3, MadeMore DEF Current
    <3> HIDE DEF rows, p
    <3> QED
      BY <3>1, <3>4, PassOrderly
  <2> QED
    BY <2>1, <2>2
<1>7. CASE IOFailure(w)
  BY <1>7, RaisesOrderly DEF IOFailure
<1> QED
  BY <1>1, <1>2, <1>3, <1>4, <1>5, <1>6, <1>7 DEF Working

\* Files are those of science products.
LEMMA FileNamesStep ==
  ASSUME FileNamesInv, [Next]_vars
  PROVE  FileNamesInv'
<1>1. CASE UNCHANGED <<part, final>>
  BY <1>1 DEF FileNamesInv
<1>2. ASSUME NEW w \in Workers, OpenPart(w) PROVE FileNamesInv'
  <2>1. DOMAIN part' = DOMAIN part \cup {Current(w)} /\ Current(w) \in Science /\ UNCHANGED final
    BY <1>2 DEF OpenPart, Put
  <2> QED
    BY <2>1 DEF FileNamesInv
<1>3. ASSUME NEW w \in Workers, ClosePart(w) PROVE FileNamesInv'
  <2>1. DOMAIN part' = DOMAIN part /\ DOMAIN final' = DOMAIN final
    BY <1>3 DEF ClosePart, Completed
  <2> QED
    BY <2>1 DEF FileNamesInv
<1>4. ASSUME NEW w \in Workers, ReplaceFile(w) PROVE FileNamesInv'
  <2> DEFINE p == Current(w)
  <2>1. CASE p \in DOMAIN part
    <3>1. final' = Put(final, p, part[p]) /\ part' = Without(part, p)
      BY <1>4, <2>1 DEF ReplaceFile
    <3>2. DOMAIN final' = DOMAIN final \cup {p} /\ DOMAIN part' = DOMAIN part \ {p}
      BY <3>1 DEF Put, Without
    <3> HIDE DEF p
    <3> QED
      BY <2>1, <3>2 DEF FileNamesInv
  <2>2. CASE p \notin DOMAIN part
    BY <1>1, <1>4, <2>2 DEF ReplaceFile, fileVars
  <2> QED
    BY <2>1, <2>2
<1>5. \/ UNCHANGED <<part, final>>
      \/ \E w \in Workers : OpenPart(w) \/ ClosePart(w) \/ ReplaceFile(w)
  BY DEF Next, vars, fileVars, CommitRaw, ImportRaws, ApproveCalibration, CreateRun, ClaimExpires,
         QuicklookPass, SchedulerStep, ScheduleRaw, SendRun, SkipRun, EndScheduling, LoseMark,
         WorkerStep, TakeNothing, Claim, ClaimRefused, MakeQuicklook, KeepFile, Insert, Fail, FailRefused, IOFailure, Crash,
         Redeliver
<1> QED
  BY <1>1, <1>2, <1>3, <1>4, <1>5

\* Only quicklooks of frames are registered outside the runs.
LEMMA QuietCatalogue ==
  ASSUME ClaimTypeOK, RawsTypeOK, FramesInv, QuietStep
  PROVE  Registered' \subseteq Registered \cup Quicklooks
<1>1. CASE QuicklookPass
  BY <1>1 DEF QuicklookPass, RegisterQuicklooks, Registered
<1>2. ASSUME NEW n \in DOMAIN outbox, ScheduleRaw(n) PROVE Registered' \subseteq Registered \cup Quicklooks
  <2> DEFINE p == Quicklook(outbox[n].about[1], outbox[n].about[2])
  <2>1. outbox[n].about[1] \in Sequences /\ outbox[n].about[2] \in Exposures(outbox[n].about[1])
    BY <1>2, RawEvent DEF FramesInv, ScheduleRaw
  <2>2. p \in Quicklooks
    BY <2>1 DEF Quicklooks
  <2>3. RegisterQuicklooks({p})
    BY <1>2 DEF ScheduleRaw
  <2> HIDE DEF p
  <2>4. Registered' = Registered \cup {p}
    BY <2>3 DEF RegisterQuicklooks, Registered
  <2> QED
    BY <2>2, <2>4
<1>3. UNCHANGED catalogue \/ QuicklookPass \/ \E n \in DOMAIN outbox : ScheduleRaw(n)
  BY DEF QuietStep, CommitRaw, ImportRaws, ApproveCalibration, CreateRun, SkipRun, EndScheduling,
         LoseMark, vars
<1>4. CASE UNCHANGED catalogue
  BY <1>4 DEF Registered
<1> QED
  BY <1>1, <1>2, <1>3, <1>4

\* The event in hand is not marked.
LEMMA HandStep ==
  ASSUME OutboxOK, ClaimTypeOK, inHand \notin published, [Next]_vars
  PROVE  inHand' \notin published'
<1>0. 0 \notin DOMAIN outbox
  BY LenProperties DEF ClaimTypeOK
<1>1. ASSUME NEW n \in DOMAIN outbox, ScheduleRaw(n) \/ SkipRun(n) \/ SendRun(n)
      PROVE  inHand' \notin published'
  BY <1>0, <1>1 DEF OutboxOK, ScheduleRaw, SkipRun, SendRun, Consume, Send, Takes, IsNext
<1>2. CASE EndScheduling
  BY <1>0, <1>2 DEF OutboxOK, EndScheduling, Publish
<1>3. CASE LoseMark
  BY <1>0, <1>3 DEF OutboxOK, LoseMark, SchedulerCrash
<1>4. \/ UNCHANGED <<inHand, published>>
      \/ \E n \in DOMAIN outbox : ScheduleRaw(n) \/ SkipRun(n) \/ SendRun(n)
      \/ EndScheduling \/ LoseMark
  BY DEF Next, vars, outboxVars, others, CommitRaw, ImportRaws, ApproveCalibration, CreateRun,
         ClaimExpires, QuicklookPass, SchedulerStep, WorkerStep, TakeNothing, Claim, ClaimRefused, MakeQuicklook,
         KeepFile, OpenPart, ClosePart, ReplaceFile, Insert, Fail, FailRefused, IOFailure, Crash, Redeliver
<1> QED
  BY <1>1, <1>2, <1>3, <1>4

\* Claims are of tasks that were sent.
LEMMA TokenStep ==
  ASSUME ClaimTypeOK, RawsTypeOK, \A r \in Runs : run[r].token <= sends, [Next]_vars
  PROVE  \A r \in Runs : run'[r].token <= sends'
<1>0. /\ run \in [Runs -> [status : RunStatus, token : Nat, fresh : BOOLEAN]] /\ sends \in Nat
      /\ \A r \in Runs : run[r].token \in Nat
  BY DEF ClaimTypeOK
<1>1. ASSUME UNCHANGED sends, \A r \in Runs : run'[r].token = run[r].token
      PROVE  \A r \in Runs : run'[r].token <= sends'
  BY <1>1
<1>2. CASE QuietStep
  <2>1. ASSUME NEW q \in Runs, EnsureRun(q) PROVE \A r \in Runs : run'[r].token = run[r].token
    BY <1>0, <2>1 DEF EnsureRun
  <2>2. ASSUME NEW n \in DOMAIN outbox, ScheduleRaw(n) PROVE run' = run \/ \E q \in Runs : EnsureRun(q)
    <3> DEFINE q == [seq |-> outbox[n].about[1], cal |-> NoCal, par |-> Default]
    <3>1. q \in Runs
      BY <2>2, RawEvent, DefaultRun DEF ScheduleRaw
    <3>2. run' = run \/ EnsureRun(q)
      BY <2>2 DEF ScheduleRaw
    <3> HIDE DEF q
    <3> QED
      BY <3>1, <3>2
  <2>3. run' = run \/ \E q \in Runs : EnsureRun(q)
    BY <1>2, <2>2 DEF QuietStep, CommitRaw, ImportRaws, ApproveCalibration, CreateRun, QuicklookPass,
                      SkipRun, EndScheduling, LoseMark, runVars, vars
  <2>4. UNCHANGED sends
    BY <1>2, QuietStepQuiet DEF Quiet
  <2> QED
    BY <1>1, <2>1, <2>3, <2>4
<1>3. ASSUME NEW n \in DOMAIN outbox, SendRun(n) PROVE \A r \in Runs : run'[r].token <= sends'
  BY <1>0, <1>3 DEF SendRun, Send, runVars
<1>4. ASSUME NEW q \in Runs, ClaimExpires(q) PROVE \A r \in Runs : run'[r].token <= sends'
  BY <1>0, <1>1, <1>4 DEF ClaimExpires, outboxVars
<1>5. ASSUME NEW w \in Workers, WorkerTurn(w) PROVE \A r \in Runs : run'[r].token <= sends'
  <2>1. ASSUME NEW m \in queue, TakeNothing(w, m) \/ ClaimRefused(w, m)
        PROVE  \A r \in Runs : run'[r].token <= sends'
    BY <1>1, <2>1 DEF TakeNothing, ClaimRefused, runVars
  <2>2. ASSUME NEW m \in queue, Claim(w, m) PROVE \A r \in Runs : run'[r].token <= sends'
    <3>1. m.task <= sends /\ m.about \in Runs
      BY DEF ClaimTypeOK, Messages
    <3>2. /\ run' = [run EXCEPT ![m.about] = [status |-> "RUNNING", token |-> m.task, fresh |-> TRUE]]
          /\ UNCHANGED sends
      BY <2>2 DEF Claim
    <3> QED
      BY <1>0, <3>1, <3>2
  <2>3. CASE Working(w)
    <3>1. UNCHANGED sends /\ (run' = run \/ run' = [run EXCEPT ![RunOf(w)].status = "SUCCEEDED"])
      BY <2>3, WorkingProceeds DEF outboxVars, Proceeds, Continues, Ends
    <3> QED
      BY <1>0, <1>1, <3>1
  <2>4. CASE Fail(w)
    <3>1. UNCHANGED sends /\ run' = [run EXCEPT ![RunOf(w)].status = "FAILED"]
      BY <2>4 DEF Fail
    <3> QED
      BY <1>0, <1>1, <3>1
  <2>5. CASE FailRefused(w) \/ Crash(w) \/ Redeliver(w)
    BY <1>1, <2>5 DEF FailRefused, Crash, Redeliver, runVars
  <2> QED
    BY <1>5, <2>1, <2>2, <2>3, <2>4, <2>5 DEF WorkerTurn
<1> QED
  BY <1>2, <1>3, <1>4, <1>5, StepKinds

\* The workers that raised, and the rows of the others.
LEMMA CatalogueStep ==
  ASSUME ClaimTypeOK, RawsTypeOK, FramesInv, MadeInv, [Next]_vars,
         Registered \subseteq Products, \A w \in Workers : RaisedOK(w)
  PROVE  Registered' \subseteq Products /\ \A w \in Workers : RaisedOK(w)'
<1> DEFINE Goal == Registered' \subseteq Products /\ \A w \in Workers : RaisedOK(w)'
<1>1. ASSUME UNCHANGED worker PROVE \A w \in Workers : RaisedOK(w)'
  BY <1>1 DEF RaisedOK, At, RunOf
<1>2. ASSUME NEW w \in Workers, OnlyMoves(w), RaisedOK(w)' PROVE \A x \in Workers : RaisedOK(x)'
  BY <1>2 DEF RaisedOK, At, RunOf, OnlyMoves
<1>3. CASE QuietStep
  BY <1>1, <1>3, QuietCatalogue, QuietStepQuiet DEF Quiet, Products
<1>4. ASSUME NEW n \in DOMAIN outbox, SendRun(n) PROVE Goal
  BY <1>1, <1>4 DEF SendRun, Registered
<1>5. ASSUME NEW r \in Runs, ClaimExpires(r) PROVE Goal
  BY <1>1, <1>5 DEF ClaimExpires, Registered
<1>6. ASSUME NEW w \in Workers, WorkerTurn(w) PROVE Goal
  <2>1. ASSUME NEW m \in queue, TakeNothing(w, m) PROVE Goal
    BY <1>1, <2>1 DEF TakeNothing, Registered
  <2>2. ASSUME NEW m \in queue, Claim(w, m) PROVE Goal
    <3> DEFINE r == m.about
               rec == [Idle EXCEPT !.at = IF Complete(r.seq) /\ MayQueue(r) THEN "OPEN" ELSE "RAISED",
                                   !.msg = m]
    <3>1. Moves(w, rec) /\ UNCHANGED catalogue /\ r \in Runs
      BY <2>2 DEF Claim, ClaimTypeOK, Messages
    <3>2. rec.msg = m /\ rec.done = 0 /\ rec.held = Nothing
      BY DEF Idle
    <3> HIDE DEF rec
    <3>3. OnlyMoves(w) /\ worker'[w] = rec
      BY <3>1, MovesPoint
    <3>4. RaisedOK(w)'
      BY <3>1, <3>2, <3>3, CountNat, NothingEmpty DEF RaisedOK, RunOf
    <3> QED
      BY <1>2, <3>1, <3>3, <3>4 DEF Registered
  <2>3. CASE Working(w)
    <3>1. Orderly(w) /\ RunOf(w) \in Runs
      BY <2>3, WorkingOrderly, WorkingProceeds DEF ClaimTypeOK, WorkerOK, RunOf, Messages, At
    <3> QED
      BY <1>2, <3>1, OutputsProducts DEF Orderly
  <2>4. CASE Fail(w) \/ FailRefused(w) \/ Crash(w)
    <3>1. OnlyMoves(w) /\ worker'[w] = Idle /\ UNCHANGED catalogue
      BY <2>4, MovesPoint DEF Fail, FailRefused, Crash
    <3>2. RaisedOK(w)'
      BY <3>1 DEF RaisedOK, At, Idle
    <3> QED
      BY <1>2, <3>1, <3>2 DEF Registered
  <2>5. CASE Redeliver(w)
    BY <1>1, <2>5 DEF Redeliver, Registered
  <2>6. ASSUME NEW m \in queue, ClaimRefused(w, m) PROVE Goal
    <3>1. /\ OnlyMoves(w) /\ worker'[w].msg = m /\ m.about \in Runs
          /\ worker'[w].done = 0 /\ worker'[w].held = Nothing
      BY <2>6, RefusedPoint
    <3>2. RaisedOK(w)'
      BY <3>1, CountNat, NothingEmpty DEF RaisedOK, RunOf
    <3> QED
      BY <1>2, <2>6, <3>1, <3>2 DEF ClaimRefused, Registered
  <2> QED
    BY <1>6, <2>1, <2>2, <2>3, <2>4, <2>5, <2>6 DEF WorkerTurn
<1> QED
  BY <1>3, <1>4, <1>5, <1>6, StepKinds

LEMMA TypeStep ==
  ASSUME ClaimTypeOK, RawsTypeOK, OutboxOK, FramesInv, MadeInv, TypeInv, [Next]_vars
  PROVE  TypeInv'
<1>1. usable' \subseteq CalSets
  <2>1. UNCHANGED usable \/ \E c \in CalSets : usable' = usable \cup {c}
    BY DEF Next, vars, runVars, others, CommitRaw, ImportRaws, ApproveCalibration, CreateRun,
           ClaimExpires, QuicklookPass, SchedulerStep, ScheduleRaw, SendRun, SkipRun, EndScheduling,
           LoseMark, WorkerStep, TakeNothing, Claim, ClaimRefused, MakeQuicklook, KeepFile, OpenPart, ClosePart,
           ReplaceFile, Insert, Fail, FailRefused, IOFailure, Crash, Redeliver
  <2> QED
    BY <2>1 DEF TypeInv
<1>2. inHand' \notin published'
  BY HandStep DEF TypeInv
<1>3. \A r \in Runs : run'[r].token <= sends'
  BY TokenStep DEF TypeInv
<1>4. FileNamesInv'
  BY FileNamesStep DEF TypeInv
<1>5. Registered' \subseteq Products /\ \A w \in Workers : RaisedOK(w)'
  BY CatalogueStep DEF TypeInv
<1> QED
  BY <1>1, <1>2, <1>3, <1>4, <1>5 DEF TypeInv

\* The invariants of this module that concern the catalogue and the types.
ReductionInv == ClaimInv /\ RawsTypeOK /\ LostInv /\ MadeInv /\ FramesInv /\ AskedInv /\ TypeInv

LEMMA InitReduction == Init => ReductionInv
<1> SUFFICES ASSUME Init PROVE ReductionInv
  OBVIOUS
<1>1. ClaimInv /\ RawsTypeOK /\ LostInv
  BY InitClaimInv, InitLostInv DEF Init, RawsTypeOK
<1>2. /\ Registered = {} /\ DOMAIN part = {} /\ DOMAIN final = {} /\ outbox = <<>> /\ queue = {}
      /\ \A w \in Workers : worker[w].at = "IDLE"
      /\ \A s \in Sequences : raws[s] = 0
      /\ \A r \in Runs : run[r].status = "NONE" /\ run[r].token = 0
      /\ sends = 0 /\ inHand = 0 /\ published = {} /\ usable = {}
  BY NothingEmpty DEF Init, OutboxInit, Registered, Idle
<1>3. DOMAIN outbox = {}
  BY <1>2, EmptySeq, LenProperties
<1>4. MadeInv
  BY <1>2 DEF MadeInv, MadeOK
<1>5. FramesInv
  BY <1>2, <1>3, ProcessingAssumption DEF FramesInv
<1>6. AskedInv
  BY <1>2, <1>3 DEF AskedInv, Wanted, At
<1>7. TypeInv
  BY <1>2 DEF TypeInv, FileNamesInv, RaisedOK, At
<1> QED
  BY <1>1, <1>4, <1>5, <1>6, <1>7 DEF ReductionInv

LEMMA ReductionInvariant == Spec => []ReductionInv
<1>1. ReductionInv /\ [Next]_vars => ReductionInv'
  <2> SUFFICES ASSUME ReductionInv, [Next]_vars PROVE ReductionInv'
    OBVIOUS
  <2>1. /\ ClaimInv /\ RawsTypeOK /\ LostInv /\ MadeInv /\ FramesInv /\ AskedInv /\ TypeInv
        /\ ClaimTypeOK /\ OutboxOK
    BY DEF ReductionInv, ClaimInv, LostInv
  <2>2. ClaimInv' /\ RawsTypeOK' /\ LostInv' /\ MadeInv'
    BY <2>1, ClaimInvStep, RawsTypeStep, LostInvStep, StepKeeps DEF KeepsContract
  <2>3. FramesInv' /\ AskedInv' /\ TypeInv'
    BY <2>1, FramesStep, AskedStep, TypeStep
  <2> QED
    BY <2>2, <2>3 DEF ReductionInv
<1> QED
  BY <1>1, InitReduction, PTL DEF Spec

LEMMA Typed ==
  ASSUME ReductionInv, \A p \in DOMAIN part : part[p] \in Files, \A p \in DOMAIN final : final[p] \in Files
  PROVE  ProcessingTypeOK
<1>1. ClaimTypeOK /\ RawsTypeOK /\ OutboxOK /\ MadeInv /\ FramesInv /\ TypeInv
  BY DEF ReductionInv, ClaimInv, LostInv
<1>2. \A s \in Sequences : raws[s] \in 0 .. Expected[s]
  BY <1>1, ProcessingAssumption DEF RawsTypeOK, FramesInv
<1>3. \A r \in Runs : /\ run[r].status \in RunStatus
                      /\ run[r].token \in 0 .. sends
                      /\ run[r].fresh \in BOOLEAN
  BY <1>1 DEF ClaimTypeOK, TypeInv
<1>4. \A n \in DOMAIN outbox : outbox[n].type \in {"RAW_FILE_COMMITTED", "QUEUED"}
  <2> SUFFICES ASSUME NEW n \in DOMAIN outbox PROVE outbox[n].type \in {"RAW_FILE_COMMITTED", "QUEUED"}
    OBVIOUS
  <2>1. outbox[n] \in Events
    BY <1>1, ElementOfSeq, LenProperties DEF ClaimTypeOK
  <2> QED
    BY <2>1 DEF Events
<1>5. \A w \in Workers :
       /\ worker[w].at \in Places
       /\ ~At(w, "IDLE") => /\ worker[w].msg \in Messages(Runs)
                            /\ worker[w].done \in 0 .. OutputCount(RunOf(w))
                            /\ DOMAIN worker[w].held \subseteq OutputsOf(RunOf(w))
  <2> SUFFICES ASSUME NEW w \in Workers
               PROVE /\ worker[w].at \in Places
                     /\ ~At(w, "IDLE") => /\ worker[w].msg \in Messages(Runs)
                                          /\ worker[w].done \in 0 .. OutputCount(RunOf(w))
                                          /\ DOMAIN worker[w].held \subseteq OutputsOf(RunOf(w))
    OBVIOUS
  <2>1. WorkerOK(worker[w])
    BY <1>1 DEF ClaimTypeOK
  <2>2. CASE At(w, "RAISED")
    BY <1>1, <2>1, <2>2 DEF TypeInv, RaisedOK, WorkerOK, At
  <2>3. CASE worker[w].at \notin {"IDLE", "RAISED"}
    <3>1. /\ RunOf(w) \in Runs /\ worker[w].done \in Nat /\ worker[w].done < OutputCount(RunOf(w))
          /\ DOMAIN worker[w].held \subseteq Made(RunOf(w), worker[w].done)
      BY <1>1, <2>1, <2>3 DEF WorkerOK, RunOf, Messages, MadeInv, MadeOK
    <3> QED
      BY <2>1, <2>3, <3>1, CountNat, MadeOutputs DEF WorkerOK, At
  <2> QED
    BY <2>1, <2>2, <2>3 DEF WorkerOK, At
<1>6. \A files \in {part, final} :
        /\ DOMAIN files \subseteq Science
        /\ \A p \in DOMAIN files : files[p] \in Files
  BY <1>1 DEF TypeInv, FileNamesInv
<1> QED
  BY <1>1, <1>2, <1>3, <1>4, <1>5, <1>6 DEF ProcessingTypeOK, TypeInv, OutboxOK, ClaimTypeOK

\* Every variable holds what the code can put there: no sequence has more
\* frames than it expects, no file has a name that is not a product's, no claim
\* is of a task that was never sent, nothing is registered that is not the
\* product of a run or the quicklook of a frame, whatever fails or overlaps.
THEOREM TypeTheorem == Spec => []ProcessingTypeOK
<1>1. ReductionInv /\ FilesTypeOK => ProcessingTypeOK
  BY Typed DEF FilesTypeOK
<1>2. ReductionInv /\ FilesInv /\ [Next]_vars => FilesInv'
  BY FilesStep DEF ReductionInv, ClaimInv
<1>3. Init => FilesInv
  BY NothingEmpty DEF Init, FilesInv, FilesTypeOK, FileOK, MineOK, Registered, Idle
<1>4. FilesInv => FilesTypeOK
  BY DEF FilesInv
<1> QED
  BY <1>1, <1>2, <1>3, <1>4, ReductionInvariant, PTL DEF Spec

-----------------------------------------------------------------------------
(* The stages shown.                                                        *)

\* What is registered has its inputs, and a run that succeeded all its products.
KeptInv ==
  /\ \A p \in Registered : ParentsOf(p) \subseteq Registered
  /\ \A r \in Runs : run[r].status = "SUCCEEDED" => OutputsOf(r) \subseteq Registered

LEMMA KeptStep ==
  ASSUME KeptInv, KeepsContract
  PROVE  KeptInv'
<1>1. ASSUME NEW p \in Registered' PROVE ParentsOf(p) \subseteq Registered'
  BY DEF KeptInv, KeepsContract
<1>2. ASSUME NEW r \in Runs, run'[r].status = "SUCCEEDED" PROVE OutputsOf(r) \subseteq Registered'
  BY <1>2 DEF KeptInv, KeepsContract
<1> QED
  BY <1>1, <1>2 DEF KeptInv

\* The products of a level, numbered from one.
Level(r, level, n) == {Of(r, level, e) : e \in 1 .. n}

LEMMA LevelCount ==
  ASSUME NEW r, NEW level, NEW n \in Nat
  PROVE  IsFiniteSet(Level(r, level, n)) /\ Cardinality(Level(r, level, n)) = n
<1> DEFINE f == [e \in 1 .. n |-> Of(r, level, e)]
           S == Level(r, level, n)
<1>1. \A d, e \in 1 .. n : Of(r, level, d) = Of(r, level, e) => d = e
  BY DEF Of
<1>2. f \in Bijection(1 .. n, S)
  BY <1>1 DEF Bijection, Injection, IsInjective, Surjection, Level
<1>3. ExistsBijection(1 .. n, S)
  BY <1>2 DEF ExistsBijection
<1>4. Cardinality(S) = n
  BY <1>3, FS_CountingElements
<1>5. IsFiniteSet(S)
  BY <1>3, FS_NatBijection
<1> QED
  BY <1>4, <1>5

\* Some of them are all of them when there are as many.
LEMMA Counted ==
  ASSUME NEW r, NEW level, NEW n \in Nat, NEW T \in SUBSET Level(r, level, n)
  PROVE  /\ Cardinality(T) \in Nat
         /\ Cardinality(T) >= n <=> T = Level(r, level, n)
         /\ Cardinality(T) >= 1 <=> T # {}
<1> DEFINE S == Level(r, level, n)
<1>1. IsFiniteSet(S) /\ Cardinality(S) = n
  BY LevelCount
<1> HIDE DEF S
<1>2. /\ IsFiniteSet(T) /\ Cardinality(T) <= n
      /\ Cardinality(S) = Cardinality(T) => S = T
  BY <1>1, FS_Subset DEF S
<1>3. Cardinality(T) \in Nat /\ (Cardinality(T) = 0 <=> T = {})
  BY <1>2, FS_CardinalityType, FS_EmptySet
<1> QED
  BY <1>1, <1>2, <1>3 DEF S

LastOf(r, level) == IF level = "L3" THEN FinalCount(r) ELSE Expected[r.seq]

\* The products of a run at a level that can be registered.
LEMMA ProductOfRun ==
  ASSUME NEW r \in Runs, NEW p \in Products, p.level \in {"L1", "L2", "L3"}, p.run = r
  PROVE  p \in Level(r, p.level, LastOf(r, p.level))
<1>1. p \in Science
  BY DEF Products, Quicklooks, Quicklook
<1>2. p \in UNION {OutputsOf(q) : q \in Runs}
  BY <1>1 DEF Science
<1>3. PICK q \in Runs : p \in OutputsOf(q)
  BY <1>2
<1>4. PICK k \in 1 .. OutputCount(q) : p = Output(q, k)
  BY <1>3 DEF OutputsOf
<1>5. q = r
  BY <1>1, <1>4, OutputScience, ScienceLevel
<1> DEFINE n == PerExposure(r) * Expected[r.seq]
<1>6. n \in Nat /\ FinalCount(r) \in Nat /\ OutputCount(r) = n + FinalCount(r)
  BY CountNat
<1>7. CASE k <= n
  <2>1. PICK e \in 1 .. Expected[r.seq] : Output(r, k) \in {Quicklook(r.seq, e), Of(r, "L1", e), Of(r, "L2", e)}
    BY <1>4, <1>5, <1>6, <1>7, OutputOfExposure
  <2>2. /\ Quicklook(r.seq, e).level = "QUICKLOOK" /\ Of(r, "L1", e).level = "L1" /\ Of(r, "L2", e).level = "L2"
    BY DEF Quicklook, Of
  <2> QED
    BY <1>4, <1>5, <2>1, <2>2 DEF Level, LastOf
<1>8. CASE k > n
  <2>1. Output(r, k) = Of(r, "L3", k - n) /\ k - n \in 1 .. FinalCount(r)
    BY <1>4, <1>5, <1>6, <1>8 DEF Output
  <2>2. Of(r, "L3", k - n).level = "L3"
    BY DEF Of
  <2> QED
    BY <1>4, <1>5, <2>1, <2>2 DEF Level, LastOf
<1> QED
  BY <1>4, <1>5, <1>6, <1>7, <1>8

ShownProducts(r, level) == {p \in Registered : p.level = level /\ p.seq = r.seq /\ p.run = r}

LEMMA ShownLevel ==
  ASSUME Registered \subseteq Products, NEW r \in Runs, NEW level \in {"L1", "L2", "L3"}
  PROVE  /\ ShownProducts(r, level) = Registered \cap Level(r, level, LastOf(r, level))
         /\ ShownCount(r, level) = Cardinality(ShownProducts(r, level))
<1>1. ASSUME NEW p \in ShownProducts(r, level) PROVE p \in Level(r, level, LastOf(r, level))
  BY <1>1, ProductOfRun DEF ShownProducts
<1>2. ASSUME NEW p \in Level(r, level, LastOf(r, level)) PROVE p.level = level /\ p.seq = r.seq /\ p.run = r
  BY DEF Level, Of
<1>3. ShownCount(r, level) = Cardinality(ShownProducts(r, level))
  <2>1. level # "L0" /\ level # "QUICKLOOK"
    OBVIOUS
  <2>2. {p \in Registered : p.level = level /\ p.seq = r.seq /\ (level = "QUICKLOOK" \/ p.run = r)}
          = ShownProducts(r, level)
    BY <2>1 DEF ShownProducts
  <2> QED
    BY <2>1, <2>2 DEF ShownCount
<1> QED
  BY <1>1, <1>2, <1>3 DEF ShownProducts

\* A stage is available when all its products are there.
LEMMA StageAvailable ==
  ASSUME NEW r \in Runs, NEW level
  PROVE  StageStatus(r, level) = "AVAILABLE" <=> ~Incomplete(r, level)
<1> DEFINE first == FirstIncomplete(r, level)
           some == ShownCount(r, level) > 0
           status == run[r].status
<1>1. CASE ~Incomplete(r, level)
  BY <1>1 DEF StageStatus
<1>2. CASE Incomplete(r, level)
  BY <1>2 DEF StageStatus
<1> QED
  BY <1>1, <1>2

\* The frames are there, and of the L1 and L2 products each that is shown as
\* available.
LEMMA L0Available ==
  ASSUME RawsTypeOK, NEW r \in Runs, Complete(r.seq)
  PROVE  ~Incomplete(r, "L0")
BY RunKind DEF RawsTypeOK, Complete, Incomplete, ShownCount, ShownExpected

LEMMA SpectraAvailable ==
  ASSUME Registered \subseteq Products, NEW r \in Runs, NEW level \in {"L1", "L2"}
  PROVE  ~Incomplete(r, level) <=> Level(r, level, Expected[r.seq]) \subseteq Registered
<1> DEFINE S == Level(r, level, Expected[r.seq])
           T == ShownProducts(r, level)
<1>1. /\ T = Registered \cap S /\ ShownCount(r, level) = Cardinality(T)
      /\ ShownExpected(r, level) = Expected[r.seq] /\ Expected[r.seq] \in Nat
  BY ShownLevel, RunKind DEF LastOf, ShownExpected
<1>2. Cardinality(T) \in Nat /\ (Cardinality(T) >= Expected[r.seq] <=> T = S)
  <2>1. T \in SUBSET S
    BY <1>1
  <2> QED
    BY <1>1, <2>1, Counted
<1> HIDE DEF S, T
<1>3. ~Incomplete(r, level) <=> Cardinality(T) >= Expected[r.seq]
  BY <1>1, <1>2 DEF Incomplete
<1>4. T = S <=> S \subseteq Registered
  BY <1>1
<1> QED
  BY <1>2, <1>3, <1>4 DEF S

\* An L3 product shown as expected is one of the run, and without ESPaDOnS
\* each of them is expected.
LEMMA FinalAvailable ==
  ASSUME Registered \subseteq Products, NEW r \in Runs
  PROVE  /\ ~Real(r.seq) => (~Incomplete(r, "L3") <=> Level(r, "L3", FinalCount(r)) \subseteq Registered)
         /\ Real(r.seq) => (~Incomplete(r, "L3") <=> \E n \in 1 .. FinalCount(r) : Of(r, "L3", n) \in Registered)
<1> DEFINE S == Level(r, "L3", FinalCount(r))
           T == ShownProducts(r, "L3")
<1>0. FinalCount(r) \in Nat
  BY CountNat
<1>1. T = Registered \cap S /\ ShownCount(r, "L3") = Cardinality(T)
  BY ShownLevel DEF LastOf
<1>2. /\ Cardinality(T) \in Nat
      /\ Cardinality(T) >= FinalCount(r) <=> T = S
      /\ Cardinality(T) >= 1 <=> T # {}
  <2>1. T \in SUBSET S
    BY <1>1
  <2> QED
    BY <1>0, <2>1, Counted
<1> HIDE DEF S, T
<1>3. CASE ~Real(r.seq)
  <2>1. ShownExpected(r, "L3") = FinalCount(r)
    BY <1>3, RunKind DEF ShownExpected, FinalCount, Real
  <2>2. ~Incomplete(r, "L3") <=> Cardinality(T) >= FinalCount(r)
    BY <1>0, <1>1, <1>2, <2>1 DEF Incomplete
  <2>3. T = S <=> S \subseteq Registered
    BY <1>1
  <2> QED
    BY <1>2, <1>3, <2>2, <2>3 DEF S
<1>4. CASE Real(r.seq)
  <2>1. ShownExpected(r, "L3") = 1
    <3>1. Expected[r.seq] = GroupSize /\ Kind[r.seq] = "ESPADONS" /\ GroupSize \in Nat \ {0}
      BY <1>4, RunKind, ProcessingAssumption DEF Real
    <3>2. \A g \in Nat \ {0} : g \div g = 1
      OBVIOUS
    <3> QED
      BY <3>1, <3>2 DEF ShownExpected
  <2>2. ~Incomplete(r, "L3") <=> Cardinality(T) >= 1
    BY <1>1, <1>2, <2>1 DEF Incomplete
  <2>3. T # {} <=> \E n \in 1 .. FinalCount(r) : Of(r, "L3", n) \in Registered
    BY <1>1 DEF S, Level
  <2> QED
    BY <1>2, <1>4, <2>2, <2>3
<1> QED
  BY <1>3, <1>4

\* Every L2 product of the run goes into an L3 product.
LEMMA SpectrumUsed ==
  ASSUME NEW r \in Runs, NEW e \in 1 .. Expected[r.seq], ~Real(r.seq)
  PROVE  \E n \in 1 .. FinalCount(r) : Of(r, "L2", e) \in ParentsOf(Of(r, "L3", n))
<1>1. CASE Kind[r.seq] = "NONPOL"
  <2>1. FinalCount(r) = Expected[r.seq]
    BY <1>1 DEF FinalCount, Real
  <2>2. ParentsOf(Of(r, "L3", e)) = {Of(r, "L2", d) : d \in {e}}
    BY <1>1 DEF ParentsOf, Of
  <2> QED
    BY <2>1, <2>2
<1>2. CASE Kind[r.seq] = "POL"
  <2> DEFINE E == Expected[r.seq]
             G == GroupSize
             D == E \div G
             q == (e - 1) \div G
             m == (e - 1) % G
             n == q + 1
  <2>1. E \in Nat /\ G \in Nat \ {0} /\ E % G = 0 /\ e \in Nat \ {0} /\ e <= E
    BY <1>2, RunKind
  <2>2. D \in Nat /\ E = D * G
    BY <2>1
  <2>3. q \in Nat /\ m \in Nat /\ m < G /\ e - 1 = q * G + m
    BY <2>1
  <2>4. FinalCount(r) = D
    BY <1>2 DEF FinalCount, Real
  <2>5. ParentsOf(Of(r, "L3", n)) = {Of(r, "L2", d) : d \in ((n - 1) * G + 1) .. (n * G)}
    BY <1>2 DEF ParentsOf, Of
  <2> HIDE DEF E, G, D, q, m
  <2>6. q < D
    <3>1. q * G < D * G
      <4>1. q * G \in Nat /\ D * G \in Nat
        BY <2>1, <2>2, <2>3
      <4> HIDE DEF n
      <4> QED
        BY <2>1, <2>2, <2>3, <4>1
    <3>2. \A a, b, c \in Nat : a >= b => a * c >= b * c
      OBVIOUS
    <3> QED
      BY <2>1, <2>2, <2>3, <3>1, <3>2
  <2>7. n - 1 = q /\ n * G = q * G + G /\ q * G \in Nat
    BY <2>1, <2>3
  <2>8. e \in ((n - 1) * G + 1) .. (n * G)
    BY <2>1, <2>3, <2>7
  <2>9. n \in 1 .. FinalCount(r)
    BY <2>2, <2>3, <2>4, <2>6
  <2> QED
    BY <2>5, <2>8, <2>9
<1> QED
  BY <1>1, <1>2, RunKind DEF Real

LEMMA RealSpectraUsed ==
  ASSUME NEW r \in Runs, Real(r.seq), NEW n
  PROVE  ParentsOf(Of(r, "L3", n)) = Level(r, "L2", Expected[r.seq])
BY DEF ParentsOf, Of, Exposures, Level, Real

\* The L3 products that are there need all L2 products, and these the L1 ones.
LEMMA StagesFollow ==
  ASSUME Registered \subseteq Products, KeptInv, NEW r \in Runs
  PROVE  /\ ~Incomplete(r, "L3") => ~Incomplete(r, "L2")
         /\ ~Incomplete(r, "L2") => ~Incomplete(r, "L1")
<1>0. /\ \A level \in {"L1", "L2"} :
           ~Incomplete(r, level) <=> Level(r, level, Expected[r.seq]) \subseteq Registered
      /\ \A p \in Registered : ParentsOf(p) \subseteq Registered
  BY SpectraAvailable DEF KeptInv
<1>1. ASSUME ~Incomplete(r, "L3") PROVE Level(r, "L2", Expected[r.seq]) \subseteq Registered
  <2>1. CASE Real(r.seq)
    BY <1>0, <1>1, <2>1, FinalAvailable, RealSpectraUsed
  <2>2. CASE ~Real(r.seq)
    <3> SUFFICES ASSUME NEW e \in 1 .. Expected[r.seq] PROVE Of(r, "L2", e) \in Registered
      BY DEF Level
    <3>1. PICK n \in 1 .. FinalCount(r) : Of(r, "L2", e) \in ParentsOf(Of(r, "L3", n))
      BY <2>2, SpectrumUsed
    <3>2. Of(r, "L3", n) \in Registered
      BY <1>1, <2>2, FinalAvailable DEF Level
    <3> QED
      BY <1>0, <3>1, <3>2
  <2> QED
    BY <2>1, <2>2
<1>2. ASSUME Level(r, "L2", Expected[r.seq]) \subseteq Registered
      PROVE  Level(r, "L1", Expected[r.seq]) \subseteq Registered
  <2> SUFFICES ASSUME NEW e \in 1 .. Expected[r.seq] PROVE Of(r, "L1", e) \in Registered
    BY DEF Level
  <2>1. ParentsOf(Of(r, "L2", e)) = {Of(r, "L1", e)} /\ Of(r, "L2", e) \in Registered
    BY <1>2 DEF ParentsOf, Of, Level
  <2> QED
    BY <1>0, <2>1
<1> QED
  BY <1>0, <1>1, <1>2

\* With all products of the run every stage is available.
LEMMA AllShown ==
  ASSUME Registered \subseteq Products, NEW r \in Runs, OutputsOf(r) \subseteq Registered
  PROVE  ~Incomplete(r, "L1") /\ ~Incomplete(r, "L2") /\ ~Incomplete(r, "L3")
<1> DEFINE m == PerExposure(r) * Expected[r.seq]
<1>0. m \in Nat /\ FinalCount(r) \in Nat /\ OutputCount(r) = m + FinalCount(r)
  BY CountNat
<1>1. ASSUME NEW e \in 1 .. Expected[r.seq] PROVE Of(r, "L1", e) \in Registered /\ Of(r, "L2", e) \in Registered
  <2> DEFINE k == PerExposure(r) * e
  <2>1. k \in 2 .. m /\ Output(r, k) = Of(r, "L2", e) /\ Output(r, k - 1) = Of(r, "L1", e)
    BY PlaceOfL2
  <2> HIDE DEF k, m
  <2>2. k \in 1 .. OutputCount(r) /\ k - 1 \in 1 .. OutputCount(r)
    BY <1>0, <2>1
  <2> QED
    BY <2>1, <2>2 DEF OutputsOf
<1>2. ASSUME NEW n \in 1 .. FinalCount(r) PROVE Of(r, "L3", n) \in Registered
  <2>1. Output(r, m + n) = Of(r, "L3", n)
    <3>1. ~(m + n <= m) /\ (m + n) - m = n
      BY <1>0
    <3> QED
      BY <3>1 DEF Output
  <2>2. m + n \in 1 .. OutputCount(r)
    BY <1>0
  <2> QED
    BY <2>1, <2>2 DEF OutputsOf
<1>3. /\ \A level \in {"L1", "L2"} : Level(r, level, Expected[r.seq]) \subseteq Registered
      /\ Level(r, "L3", FinalCount(r)) \subseteq Registered
  BY <1>1, <1>2 DEF Level
<1>4. Real(r.seq) => 1 \in 1 .. FinalCount(r)
  BY ProcessingAssumption, RunKind DEF FinalCount, Real
<1> QED
  BY <1>2, <1>3, <1>4, SpectraAvailable, FinalAvailable

LEMMA StagesShown ==
  ASSUME ReductionInv, KeptInv
  PROVE  StagesAgree
<1> SUFFICES ASSUME NEW r \in Runs, run[r].status # "NONE"
             PROVE  LET available == {i \in DOMAIN Formal : StageStatus(r, Formal[i]) = "AVAILABLE"}
                    IN /\ \A i \in available : 1 .. i \subseteq available
                       /\ run[r].status = "SUCCEEDED" => available = DOMAIN Formal
  BY DEF StagesAgree
<1> DEFINE A(i) == ~Incomplete(r, Formal[i])
           available == {i \in DOMAIN Formal : StageStatus(r, Formal[i]) = "AVAILABLE"}
<1>1. DOMAIN Formal = 1 .. 4 /\ Formal[1] = "L0" /\ Formal[2] = "L1" /\ Formal[3] = "L2" /\ Formal[4] = "L3"
  BY DEF Formal
<1>2. RawsTypeOK /\ Registered \subseteq Products /\ Complete(r.seq)
  BY DEF ReductionInv, TypeInv, AskedInv, Wanted
<1>3. A(1) /\ (A(4) => A(3)) /\ (A(3) => A(2))
  BY <1>1, <1>2, L0Available, StagesFollow
<1>4. run[r].status = "SUCCEEDED" => A(2) /\ A(3) /\ A(4)
  BY <1>1, <1>2, AllShown DEF KeptInv
<1> HIDE DEF A
<1>5. available = {i \in 1 .. 4 : A(i)}
  BY <1>1, StageAvailable DEF A
<1> HIDE DEF available
<1>6. \A i \in available : 1 .. i \subseteq available
  BY <1>3, <1>5
<1>7. run[r].status = "SUCCEEDED" => available = DOMAIN Formal
  BY <1>1, <1>3, <1>4, <1>5
<1> QED
  BY <1>6, <1>7 DEF available

\* The stages an observer is shown follow each other: one is complete only when
\* those before it are, and a run that succeeded shows all of them, whatever
\* other workers, runs and quicklooks register meanwhile (list_processing_stages).
THEOREM StagesTheorem == Spec => []StagesAgree
<1>1. ReductionInv /\ KeptInv /\ [Next]_vars => KeptInv'
  BY StepKeeps, KeptStep DEF ReductionInv, ClaimInv, LostInv
<1>2. Init => KeptInv
  BY NothingEmpty DEF Init, KeptInv, Registered
<1>3. ReductionInv /\ KeptInv => StagesAgree
  BY StagesShown
<1> QED
  BY <1>1, <1>2, <1>3, ReductionInvariant, PTL DEF Spec

=============================================================================
