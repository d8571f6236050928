------------------------- MODULE ControlLeaseProofs -------------------------
(***************************************************************************)
(* Proofs about ControlLease for any number of control processes.          *)
(***************************************************************************)
EXTENDS ControlLease, TLAPS

\* What a process holds is never above the token of the row, equal to it only
\* for the owner, and no two processes hold the same.
LeaseInv ==
  /\ LeaseTypeOK
  /\ \A r \in Runners : held[r] <= lease.token
  /\ \A r \in Runners : held[r] # 0 /\ held[r] = lease.token => r = lease.owner
  /\ TokenUnique

\* A granted token is above every token in use unless it is a renewal.
LEMMA GrantAboveAll ==
  ASSUME LeaseInv, NEW r \in Runners, AcquireOrRenew(r)
  PROVE  /\ GrantedToken(r) \in Token
         /\ lease.token <= GrantedToken(r)
         /\ lease.owner # r => \A q \in Runners : held[q] < GrantedToken(r)
BY TokenAssumption DEF LeaseInv, LeaseTypeOK, AcquireOrRenew, GrantedToken, Token

\* The invariant that the theorems rest on: every step of the lease, of a
\* process and of the device agent keeps it (lease.py, simulator.py).
LEMMA LeaseInvStep == LeaseInv /\ [LeaseNext]_leaseVars => LeaseInv'
<1> SUFFICES ASSUME LeaseInv, [LeaseNext]_leaseVars PROVE LeaseInv'
  OBVIOUS
<1>1. ASSUME NEW r \in Runners, Acquire(r) PROVE LeaseInv'
  <2>1. AcquireOrRenew(r) /\ lastToken' = lastToken
    BY <1>1 DEF Acquire
  <2> DEFINE g == GrantedToken(r)
  <2>2. /\ lease' = [owner |-> r, token |-> g]
        /\ live' = TRUE
        /\ held' = [held EXCEPT ![r] = g]
    BY <2>1 DEF AcquireOrRenew
  <2>3. /\ g \in Token
        /\ lease.token <= g
        /\ lease.owner # r => \A q \in Runners : held[q] < g
    BY <2>1, GrantAboveAll
  <2>4. /\ held \in [Runners -> Token] /\ lease.token \in Token
        /\ \A q \in Runners : held[q] <= lease.token
        /\ \A q \in Runners : held[q] # 0 /\ held[q] = lease.token => q = lease.owner
        /\ lastToken \in Token
    BY DEF LeaseInv, LeaseTypeOK
  <2>5. lease.owner = r => g = lease.token
    BY DEF GrantedToken
  <2> HIDE DEF g
  <2>6. LeaseTypeOK'
    BY <2>1, <2>2, <2>3, <2>4 DEF LeaseTypeOK
  <2>7. \A q \in Runners : held'[q] <= lease'.token
    BY <2>2, <2>3, <2>4, TokenAssumption DEF Token
  <2>8. \A q \in Runners : held'[q] # 0 /\ held'[q] = lease'.token => q = lease'.owner
    BY <2>2, <2>3, <2>4, <2>5, TokenAssumption DEF Token
  <2>9. \A q \in Runners : q # r /\ held[q] # 0 => held[q] # g
    BY <2>3, <2>4, <2>5, TokenAssumption DEF Token
  <2>10. TokenUnique'
    BY <2>2, <2>4, <2>9 DEF TokenUnique, LeaseInv
  <2> QED
    BY <2>6, <2>7, <2>8, <2>10 DEF LeaseInv
<1>2. ASSUME NEW r \in Runners, Stop(r) PROVE LeaseInv'
  BY <1>2, TokenAssumption DEF Stop, LeaseInv, LeaseTypeOK, TokenUnique, Token
<1>3. ASSUME NEW r \in Runners, Command(r) PROVE LeaseInv'
  BY <1>3 DEF Command, LeaseInv, LeaseTypeOK, TokenUnique
<1>4. CASE Expire
  BY <1>4 DEF Expire, LeaseInv, LeaseTypeOK, TokenUnique
<1>5. CASE AgentRestart
  BY <1>5, TokenAssumption DEF AgentRestart, LeaseInv, LeaseTypeOK, TokenUnique, Token
<1>6. CASE UNCHANGED leaseVars
  BY <1>6 DEF leaseVars, LeaseInv, LeaseTypeOK, TokenUnique
<1> QED
  BY <1>1, <1>2, <1>3, <1>4, <1>5, <1>6 DEF LeaseNext

\* The lease, the tokens of the processes and the token of the device agent
\* always have their types, and the invariant above holds.
THEOREM LeaseInvariant == LeaseSpec => []LeaseInv
<1>1. LeaseInit => LeaseInv
  <2> SUFFICES ASSUME LeaseInit PROVE LeaseInv
    OBVIOUS
  <2>1. 0 \in Token
    BY TokenAssumption DEF Token
  <2>2. LeaseTypeOK
    BY <2>1 DEF LeaseInit, LeaseTypeOK
  <2>3. \A r \in Runners : held[r] = 0 /\ lease.token = 0
    BY DEF LeaseInit
  <2> QED
    BY <2>2, <2>3 DEF LeaseInv, TokenUnique
<1> QED
  BY <1>1, LeaseInvStep, PTL DEF LeaseSpec

\* The lease row, the held tokens and the agent's token keep their types.
THEOREM LeaseTypeCorrect == LeaseSpec => []LeaseTypeOK
<1>1. LeaseInv => LeaseTypeOK
  BY DEF LeaseInv
<1> QED
  BY <1>1, LeaseInvariant, PTL

\* No two control processes ever work with the same fencing token (lease.py).
THEOREM TokensAreUnique == LeaseSpec => []TokenUnique
<1>1. LeaseInv => TokenUnique
  BY DEF LeaseInv
<1> QED
  BY <1>1, LeaseInvariant, PTL

\* Once the owner of the lease has given the device agent a command, the agent
\* takes no command of anybody else (simulator.py execute).
THEOREM LeaderFencesOthers == LeaseSpec => []FencedByTheLeader
<1>1. LeaseInv => FencedByTheLeader
  BY TokenAssumption DEF LeaseInv, LeaseTypeOK, FencedByTheLeader, NotFenced, Token
<1> QED
  BY <1>1, LeaseInvariant, PTL

\* A process that does not own the lease obtains only tokens above all others.
THEOREM TokensGrow == LeaseSpec => TokensOnlyGrow
<1> DEFINE Grow == \A r \in Runners :
                     held'[r] # held[r] /\ held'[r] # 0 /\ lease.owner # r
                       => \A q \in Runners \ {r} : held'[r] > held[q]
<1>1. LeaseInv /\ [LeaseNext]_leaseVars => [Grow]_leaseVars
  <2> SUFFICES ASSUME LeaseInv, LeaseNext, NEW r \in Runners,
                      held'[r] # held[r], held'[r] # 0, lease.owner # r,
                      NEW q \in Runners \ {r}
               PROVE  held'[r] > held[q]
    OBVIOUS
  <2>1. held \in [Runners -> Token]
    BY DEF LeaseInv, LeaseTypeOK
  <2>2. Acquire(r)
    BY <2>1 DEF LeaseNext, Acquire, AcquireOrRenew, Stop, Command, Expire, AgentRestart
  <2>3. held[q] < GrantedToken(r)
    BY <2>2, GrantAboveAll DEF Acquire
  <2>4. held'[r] = GrantedToken(r) /\ GrantedToken(r) \in Token
    BY <2>1, <2>2, GrantAboveAll DEF Acquire, AcquireOrRenew
  <2> QED
    BY <2>1, <2>3, <2>4, TokenAssumption DEF Token
<1> QED
  BY <1>1, LeaseInvariant, PTL DEF LeaseSpec, TokensOnlyGrow
=============================================================================
