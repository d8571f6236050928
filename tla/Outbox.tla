------------------------------- MODULE Outbox -------------------------------
(***************************************************************************)
(* The transactional outbox (events/outbox.py), the scheduler that empties *)
(* it (scheduler/service.py) and the task queue of Celery in Redis         *)
(* (worker/celery_app.py, worker/tasks.py).                                *)
(*                                                                         *)
(* Only the events the scheduler reacts to are kept; it marks the others   *)
(* as published and nothing more.  The scheduler reads the event, does     *)
(* what it asks for, marks it consumed and published in one transaction,   *)
(* but a task it sends is in Redis before that transaction ends.  If Redis *)
(* refuses, or a unique constraint does, the transaction is rolled back    *)
(* and the process starts again: nothing has changed.                      *)
(***************************************************************************)
EXTENDS Naturals, Sequences, FiniteSets

CONSTANTS
  MaxSends,      \* bound: tasks ever sent
  MaxRetries     \* retries of a task after an OSError or ConnectionError (5 in the code)

ASSUME OutboxAssumption == MaxSends \in Nat /\ MaxRetries \in Nat

VARIABLES
  outbox,        \* outbox_events: <<event>>, the index is the sequence_no
  published,     \* sequence numbers of the events with a published_at
  inHand,        \* the event whose task is sent and whose transaction is open, 0 if none
  queue,         \* Redis: messages a worker may take
  sends          \* task ids given out

outboxVars == <<outbox, published, inHand, queue, sends>>

\* A message: its task id (request.id, the claim token), the run, the retries.
Messages(About) == [task : 1 .. MaxSends, about : About, retries : 0 .. MaxRetries]

OutboxInit ==
  /\ outbox = <<>> /\ published = {} /\ inHand = 0
  /\ queue = {} /\ sends = 0

\* emit_event, in the transaction of the change it tells of.
Emit(event) == Append(outbox, event)

\* The event the scheduler takes: the lowest number that is not published.
IsNext(n) ==
  /\ n \in DOMAIN outbox \ published
  /\ \A m \in DOMAIN outbox \ published : n <= m

\* Mutant of Takes: an event another transaction has locked is taken too.
TakesLocked(n) == IsNext(n)

\* FOR UPDATE SKIP LOCKED: one scheduler runs, and it has one event at a time.
Takes(n) == inHand = 0 /\ IsNext(n)

\* Nothing is to be sent: consumed and published in one transaction.
Consume(n) ==
  /\ Takes(n)
  /\ published' = published \cup {n}
  /\ UNCHANGED <<inHand, queue, sends>>

\* send_task: Redis has the message, the event is not marked yet.
Send(n, run) ==
  /\ Takes(n) /\ sends < MaxSends
  /\ sends' = sends + 1
  /\ queue' = queue \cup {[task |-> sends + 1, about |-> run, retries |-> 0]}
  /\ inHand' = n
  /\ UNCHANGED <<outbox, published>>

\* The scheduler's transaction ends.
Publish ==
  /\ inHand # 0
  /\ published' = published \cup {inHand}
  /\ inHand' = 0
  /\ UNCHANGED <<outbox, queue, sends>>

\* The scheduler stops before it ends: the event is taken again, and sent again.
SchedulerCrash ==
  /\ inHand # 0 /\ sends < MaxSends
  /\ inHand' = 0
  /\ UNCHANGED <<outbox, published, queue, sends>>

-----------------------------------------------------------------------------
(* The messages, seen from a worker.  task_acks_late: a message goes only   *)
(* when its task has ended, and comes back with the same id if it did not.  *)

Acknowledged(m) == queue \ {m}

\* Mutant of Redelivered: acknowledged as soon as the task begins.
RedeliveredNever(m) == queue

Redelivered(m) == queue \cup {m}

\* autoretry_for: the same task id once more, unless the retries are used up.
Retried(m) ==
  IF m.retries < MaxRetries
  THEN queue \cup {[m EXCEPT !.retries = @ + 1]}
  ELSE queue
=============================================================================
