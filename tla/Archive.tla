------------------------------- MODULE Archive -------------------------------
(***************************************************************************)
(* From the mounted directory to published spectra: imports and            *)
(* calibration sets, composed with the reduction of imported sequences     *)
(* (products/processing.py, _process_espadons_sequence), which is one step *)
(* here and detailed in Processing, and with the publication of products   *)
(* (api/routes.py, product_action; api/idempotency.py).                    *)
(***************************************************************************)
EXTENDS Calibrations

CONSTANTS
  PubKeys,         \* Idempotency-Keys of publication requests
  Clients,         \* requests handled at the same time
  Simulated,       \* an L3 product of the simulator, which is there from the start
  MaxReductions    \* bound: reductions

ASSUME ArchiveAssumption == MaxReductions \in Nat

VARIABLES
  product,         \* products of imported sequences: product -> quality and publication
  bound,           \* api_idempotency_records: keys that were used
  client           \* requests that have found no record of their key, and go on: the key

archiveVars == <<product, bound, client>>
vars == <<importVars, outboxVars, calVars, archiveVars>>

NoKey == <<>>

Draft(qc) == [qc |-> qc, publication |-> "DRAFT", reason |-> FALSE]
SimulatedProduct == [level |-> "L3", seq |-> Simulated, cal |-> Simulated]

Init ==
  /\ CalibrationsInit
  /\ product = [p \in {SimulatedProduct} |-> Draft("SIMULATION_ONLY")]
  /\ bound = {}
  /\ client = [x \in Clients |-> NoKey]

-----------------------------------------------------------------------------
(* Reduction.                                                               *)

ImportedSequences == {r.seq : r \in raw}
L3(s, c) == [level |-> "L3", seq |-> s, cal |-> c]
L2(s, c) == [level |-> "L2", seq |-> s, cal |-> c]
Reductions == {p \in DOMAIN product : p.level = "L2"}

\* The set of a real run is approved and has not failed.
Usable(c) == calSet[c].status = "APPROVED" /\ calSet[c].qc # "FAIL"

\* The L2 products have the quality of the set; the null test decides of the L3.
Reduce(s, c) ==
  /\ Usable(c) /\ L3(s, c) \notin DOMAIN product
  /\ Cardinality(Reductions) < MaxReductions
  /\ \E nullFailed \in BOOLEAN :
       LET qc == IF nullFailed THEN "FAIL" ELSE calSet[c].qc
       IN product' = [p \in DOMAIN product \cup {L2(s, c), L3(s, c)} |->
            IF p \in DOMAIN product THEN product[p]
            ELSE Draft(IF p.level = "L3" THEN qc ELSE calSet[c].qc)]
  /\ UNCHANGED <<importVars, outboxVars, calVars, bound, client>>

-----------------------------------------------------------------------------
(* Publication.                                                             *)

Requests(products) == [action : {"publish", "withdraw"}, product : products, reason : BOOLEAN]

\* find_idempotent_resource: a key that was used gives its product back, or is
\* refused for another request; a new one goes on to wait for a row.
LookUp(x, k) ==
  /\ client[x] = NoKey /\ k \notin bound
  /\ client' = [client EXCEPT ![x] = k]
  /\ UNCHANGED <<importVars, outboxVars, calVars, product, bound>>

MayPublish(p, reason) ==
  /\ p.level = "L3"
  /\ product[p].qc # "FAIL"
  /\ calSet[p.cal].status = "APPROVED"
  /\ product[p].qc = "WARNING" => reason

\* What product_action checks once it has the row.
Granted(q) ==
  /\ product[q.product].qc # "SIMULATION_ONLY"
  /\ q.action = "publish" => MayPublish(q.product, q.reason)
  /\ q.action = "withdraw" => q.reason

\* Mutant of Bindable: the record of a key is not unique.
BindableTwice(k) == TRUE

\* scope, principal and key are unique: another request with this key has ended
\* since the look, and this one is rolled back.
Bindable(k) == k \notin bound

\* The row is locked and changed, and the key bound, in one transaction.
ChangePublication(x, q) ==
  /\ client[x] # NoKey
  /\ client' = [client EXCEPT ![x] = NoKey]
  /\ IF Granted(q) /\ Bindable(client[x])
     THEN /\ product' = [product EXCEPT ![q.product] =
               [@ EXCEPT !.publication = IF q.action = "publish" THEN "PUBLISHED" ELSE "WITHDRAWN",
                         !.reason = q.reason]]
          /\ bound' = bound \cup {client[x]}
     ELSE UNCHANGED <<product, bound>>
  /\ UNCHANGED <<importVars, outboxVars, calVars>>

-----------------------------------------------------------------------------
Next ==
  \/ CalibrationsNext /\ UNCHANGED archiveVars
  \/ \E s \in ImportedSequences, c \in CalKeys : Reduce(s, c)
  \/ \E x \in Clients, k \in PubKeys : LookUp(x, k)
  \/ \E x \in Clients : \E q \in Requests(DOMAIN product) : ChangePublication(x, q)

Spec == Init /\ [][Next]_vars

-----------------------------------------------------------------------------
(* Properties.                                                              *)

ImportStatus == {"NONE", "SUCCEEDED", "FAILED"}
QCFlag == {"FAIL", "WARNING", "PASS", "SIMULATION_ONLY"}

ArchiveTypeOK ==
  /\ source \in [Paths -> Frames \cup {Absent}]
  /\ \A k \in InspectionKeys : inspection[k].status \in ImportStatus
  /\ \A k \in ImportKeys : batch[k].status \in ImportStatus
  /\ \A a \in artifact : a.batch \in ImportKeys /\ a.sha \in Frames /\ a.header \in Frames
  /\ \A r \in raw : r.batch \in ImportKeys /\ r.sub \in 1 .. SubExposures
  /\ \A c \in CalKeys :
       /\ calRun[c].status \in
            {"NONE", "QUEUED", "RUNNING", "SUCCEEDED", "FAILED", "WAITING_CALIBRATION"}
       /\ calSet[c].status \in {"NONE", "UNVERIFIED", "APPROVED"}
  /\ queue \subseteq Messages(CalKeys)
  /\ published \subseteq DOMAIN outbox /\ inHand \in {0} \cup (DOMAIN outbox \ published)
  /\ \A p \in DOMAIN product : product[p].qc \in QCFlag
  /\ bound \subseteq PubKeys

\* What is published is traceable to inspected bytes: a real L3 product that
\* passed, with a reason if it has a warning, of a calibration set that is
\* approved, has every frame it needs and was built from verified copies, and
\* of a full group of frames whose copies are those that were inspected.
Verified(k, path, sha) ==
  /\ batch[k].status = "SUCCEEDED"
  /\ managed[k][path] = sha
  /\ inspection[batch[k].inspection].inventory[path].sha = sha

SetIsSound(c) ==
  /\ calSet[c].status = "APPROVED" /\ calSet[c].qc # "FAIL"
  /\ \A role \in DOMAIN RequiredCounts :
       Cardinality({a \in calSet[c].inputs : Role(a.header) = role}) >= RequiredCounts[role]
  /\ \A a \in calSet[c].inputs : Verified(a.batch, a.path, a.sha)

PublishedIsTraceable ==
  \A p \in DOMAIN product :
    product[p].publication = "PUBLISHED" =>
      /\ p.level = "L3" /\ p # SimulatedProduct /\ product[p].qc # "FAIL"
      /\ product[p].qc = "WARNING" => product[p].reason
      /\ SetIsSound(p.cal)
      /\ LET frames == {r \in raw : r.seq = p.seq}
         IN /\ {r.sub : r \in frames} = 1 .. SubExposures
            /\ Cardinality(frames) = SubExposures
            /\ \A r \in frames : Verified(r.batch, r.path, r.sha)

\* The same bytes are never two exposures, whatever is inspected and imported
\* again after the directory has changed.
FrameImportedOnce ==
  \A r, x \in raw : r.sha = x.sha => r = x

\* An approved set never changes, though its run may be built again.
ApprovedSetIsFixed ==
  [][\A c \in CalKeys : calSet[c].status = "APPROVED" => calSet'[c] = calSet[c]]_vars

\* Every change of a publication is the one change of a key of its own.
OneChangePerKey ==
  [][product' # product /\ DOMAIN product' = DOMAIN product =>
       bound' # bound]_vars

\* A run that is queued or running has an event, a message or a worker.
Carriers(c) == {m \in queue : m.about = c}
                 \cup {builder[w].msg : w \in {x \in Builders : ~At(x, "IDLE") /\ RunOf(x) = c}}

BuildIsNeverLost ==
  \A c \in CalKeys :
    calRun[c].status \in {"QUEUED", "RUNNING"} =>
      \/ \E n \in DOMAIN outbox \ published : outbox[n].about = c
      \/ Carriers(c) # {}

=============================================================================
