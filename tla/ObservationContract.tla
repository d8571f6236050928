------------------------ MODULE ObservationContract ------------------------
(***************************************************************************)
(* What the control plane promises to an observer and to an instrument     *)
(* engineer, without runners, transactions, leases or devices: each        *)
(* sequence goes through phases and gathers frames, the instrument may be  *)
(* latched after a failure.  (The promises are those of runner.py's        *)
(* _run_sequence and _fail_sequence and of sequence_action in routes.py;   *)
(* ControlPlane implements this specification.)                            *)
(***************************************************************************)
EXTENDS Naturals

CONSTANTS
  SeqCount,    \* the sequences are 1 .. SeqCount
  Expected     \* number of frames of each

VARIABLES
  phase,       \* where each sequence stands
  frames,      \* the ordinals each sequence has a committed frame of
  latched      \* the instrument waits for an engineer

contractVars == <<phase, frames, latched>>

Phase == {"draft", "queued", "active", "stopping", "held", "failed", "dropped", "done"}

ContractInit ==
  /\ phase = [s \in 1 .. SeqCount |-> "draft"]
  /\ frames = [s \in 1 .. SeqCount |-> {}]
  /\ latched = FALSE

Becomes(s, from, to) ==
  /\ phase[s] \in from
  /\ phase' = [phase EXCEPT ![s] = to]

\* An observer queues a sequence, or one that was paused.
Queue(s) == Becomes(s, {"draft", "held"}, "queued") /\ UNCHANGED <<frames, latched>>

\* A sequence that failed is queued again once the instrument is recovered.
Retry(s) == ~latched /\ Becomes(s, {"failed"}, "queued") /\ UNCHANGED <<frames, latched>>

Begin(s) == Becomes(s, {"queued"}, "active") /\ UNCHANGED <<frames, latched>>

AskToStop(s) ==
  Becomes(s, {"queued", "active", "stopping"}, "stopping") /\ UNCHANGED <<frames, latched>>

\* A frame is committed: only of a sequence at work, never under a latch.
CommitFrame(s) ==
  /\ phase[s] \in {"active", "stopping"} /\ ~latched
  /\ \E o \in 1 .. Expected[s] \ frames[s] :
       frames' = [frames EXCEPT ![s] = @ \cup {o}]
  /\ UNCHANGED <<phase, latched>>

Hold(s) == Becomes(s, {"stopping"}, "held") /\ UNCHANGED <<frames, latched>>

Drop(s) == Becomes(s, {"stopping", "held"}, "dropped") /\ UNCHANGED <<frames, latched>>

\* Success: with every frame.
Complete(s) ==
  /\ frames[s] = 1 .. Expected[s]
  /\ Becomes(s, {"active", "stopping"}, "done")
  /\ UNCHANGED <<frames, latched>>

\* Failure latches the instrument.
Fail(s) ==
  /\ Becomes(s, {"queued", "active", "stopping"}, "failed")
  /\ latched' = TRUE
  /\ UNCHANGED frames

Unlatch == latched /\ latched' = FALSE /\ UNCHANGED <<phase, frames>>

ContractNext ==
  \/ \E s \in 1 .. SeqCount :
       \/ Queue(s) \/ Retry(s) \/ Begin(s) \/ AskToStop(s) \/ CommitFrame(s)
       \/ Hold(s) \/ Drop(s) \/ Complete(s) \/ Fail(s)
  \/ Unlatch

ContractSpec == ContractInit /\ [][ContractNext]_contractVars
=============================================================================
