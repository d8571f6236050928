---------------------------- MODULE ControlLease ----------------------------
(***************************************************************************)
(* The lease that elects the control leader and the fencing token that     *)
(* goes with it (control/lease.py), the copy of the token each control     *)
(* process works with (ControlRunner.run_once) and the token check of the  *)
(* device agent (SimulatorDevice.execute).                                 *)
(*                                                                         *)
(* A runner reads its token when it takes the lease and uses that copy for *)
(* every command of the sequence it then runs; the lease is not renewed    *)
(* while the sequence runs, so the copy may be out of date when it is used.*)
(* Time is abstracted to whether the lease has run out.                    *)
(***************************************************************************)
EXTENDS Naturals

CONSTANTS
  Runners,      \* owner ids of the control processes
  NoRunner,     \* the owner of a lease nobody has taken
  MaxToken      \* bound: changes of leader explored

ASSUME RunnersAssumption == NoRunner \notin Runners
ASSUME TokenAssumption == MaxToken \in Nat \ {0}

VARIABLES
  lease,        \* the row control_leases["primary"]: its owner and fencing token
  live,         \* expires_at is in the future
  held,         \* the token each control process holds in memory, 0 for none
  lastToken     \* _last_fencing_token of the device agent

leaseVars == <<lease, live, held, lastToken>>

Token == 0 .. MaxToken

LeaseTypeOK ==
  /\ lease \in [owner : Runners \cup {NoRunner}, token : Token]
  /\ live \in BOOLEAN
  /\ held \in [Runners -> Token]
  /\ lastToken \in Token

LeaseInit ==
  /\ lease = [owner |-> NoRunner, token |-> 0]
  /\ live = FALSE
  /\ held = [r \in Runners |-> 0]
  /\ lastToken = 0

-----------------------------------------------------------------------------
\* Mutants of GrantedToken: a change of owner keeps, or lowers, the token.
GrantedTokenKept(r) == IF lease.owner = NoRunner THEN 1 ELSE lease.token
GrantedTokenLowered(r) == IF lease.owner = r THEN lease.token ELSE lease.token - 1

(* The token acquire_or_renew_lease returns to r: a new row starts at 1, a  *)
(* change of owner adds 1, a renewal returns the token of the row.          *)
GrantedToken(r) ==
  IF lease.owner = r THEN lease.token ELSE lease.token + 1

\* The row is free, r's own (even after it ran out) or somebody else's that ran out.
MayTake(r) == lease.owner \in {r, NoRunner} \/ ~live

\* acquire_or_renew_lease, in one transaction under the row's lock. When it
\* returns None nothing changes and run_once returns.
AcquireOrRenew(r) ==
  /\ MayTake(r)
  /\ GrantedToken(r) <= MaxToken
  /\ lease' = [owner |-> r, token |-> GrantedToken(r)]
  /\ live' = TRUE
  /\ held' = [held EXCEPT ![r] = GrantedToken(r)]

Acquire(r) == AcquireOrRenew(r) /\ UNCHANGED lastToken

\* ttl_seconds pass without a renewal.
Expire ==
  /\ live
  /\ live' = FALSE
  /\ UNCHANGED <<lease, held, lastToken>>

\* The control process stops; its successor under the same owner id
\* (hostname-pid, or the constant id of the embedded runner) starts with no token.
Stop(r) ==
  /\ held[r] # 0
  /\ held' = [held EXCEPT ![r] = 0]
  /\ UNCHANGED <<lease, live, lastToken>>

-----------------------------------------------------------------------------
\* The device agent refuses a command whose token is below the last it saw.
\* Mutant of NotFenced: the agent takes every command.
NotFencedEver(token, last) == TRUE

NotFenced(token, last) == token >= last

\* A command of r that is new to the device agent and passes the check.
Command(r) ==
  /\ held[r] # 0
  /\ NotFenced(held[r], lastToken)
  /\ lastToken' = held[r]
  /\ UNCHANGED <<lease, live, held>>

\* The device agent restarts: the last token was only in its memory.
AgentRestart ==
  /\ lastToken' = 0
  /\ UNCHANGED <<lease, live, held>>

LeaseNext ==
  \/ \E r \in Runners : Acquire(r) \/ Stop(r) \/ Command(r)
  \/ Expire
  \/ AgentRestart

LeaseSpec == LeaseInit /\ [][LeaseNext]_leaseVars

-----------------------------------------------------------------------------
(* Two control processes never work with the same fencing token, however    *)
(* the lease expires, is renewed late or changes hands (control/lease.py).  *)
TokenUnique ==
  \A r, q \in Runners : r # q /\ held[r] # 0 => held[r] # held[q]

(* Once a command of the present owner of the lease has reached the device  *)
(* agent, the agent takes no command of any other process, although that    *)
(* process may be in the middle of a sequence and believe it leads.         *)
FencedByTheLeader ==
  \A r \in Runners :
    /\ lastToken = lease.token
    /\ held[r] # 0
    /\ NotFenced(held[r], lastToken)
    => r = lease.owner

(* A process that lost the lease never gets its old token back: what it     *)
(* holds changes to nothing or to a token above every token in use.         *)
TokensOnlyGrow ==
  [][\A r \in Runners :
       held'[r] # held[r] /\ held'[r] # 0 /\ lease.owner # r
         => \A q \in Runners \ {r} : held'[r] > held[q]]_leaseVars
=============================================================================
