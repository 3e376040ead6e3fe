----------------------- MODULE BrokerDiscovery_proofs -----------------------
(***************************************************************************)
(* Proofs about BrokerStartup and BrokerDiscovery for any sets of launches *)
(* and users.                                                              *)
(*                                                                         *)
(* The path invariant holds of every interleaving; exclusive and reachable *)
(* service hold until two launches overlap, which the inductive invariant  *)
(* Exclusive explains: only one launch at a time is past the test of the   *)
(* path, and the path is free, or the launch's own, until it serves.       *)
(*                                                                         *)
(* The launches are those of BrokerStartup whatever the users do, so what  *)
(* is proved of it holds of BrokerDiscovery.  How a use ends follows from  *)
(* two facts about a use in progress: as long as it has had no gap, the    *)
(* broker at the path is healthy and is the one it is connected to; and a  *)
(* request that was read is in a broker that still serves, or somebody was *)
(* killed.                                                                 *)
(***************************************************************************)
EXTENDS BrokerDiscovery, TLAPS

USE DEF PCs, Starting, Ended

PathInv == TypeOK /\ StaleOnlyAfterKill

Bound == {"chmod", "serving", "unlinking"}
Clear == {"auth", "probe", "remove", "bind"}

(* The strengthening for launches that have not overlapped. *)
Exclusive ==
    ~overlap =>
        /\ \A p, q \in Procs :
              pc[p] \in Starting /\ pc[q] \in Starting => p = q
        /\ \A p \in Procs : pc[p] \in Bound => path = p
        /\ \A p \in Procs : pc[p] \in Clear => path = NoSocket

LEMMA InitPath == Init => PathInv /\ Exclusive
  BY StartupAssumptions
     DEF Init, PathInv, TypeOK, StaleOnlyAfterKill, Exclusive, Bound, Clear

LEMMA StepPath == PathInv /\ [Next]_startupVars => PathInv'
  <1> SUFFICES ASSUME PathInv, [Next]_startupVars PROVE PathInv'
    OBVIOUS
  <1> USE StartupAssumptions DEF PathInv, TypeOK, StaleOnlyAfterKill, Goto
  <1>1. ASSUME NEW p \in Procs, Launch(p) PROVE PathInv'
    BY <1>1 DEF Launch, SomeStarting
  <1>2. ASSUME NEW p \in Procs, Authenticate(p) PROVE PathInv'
    BY <1>2 DEF Authenticate
  <1>3. ASSUME NEW p \in Procs, Probe(p) PROVE PathInv'
    BY <1>3 DEF Probe
  <1>4. ASSUME NEW p \in Procs, Remove(p) PROVE PathInv'
    BY <1>4 DEF Remove
  <1>5. ASSUME NEW p \in Procs, Bind(p) PROVE PathInv'
    BY <1>5 DEF Bind
  <1>6. ASSUME NEW p \in Procs, Listen(p) PROVE PathInv'
    BY <1>6 DEF Listen
  <1>7. ASSUME NEW p \in Procs, Leave(p) PROVE PathInv'
    BY <1>7 DEF Leave
  <1>8. ASSUME NEW p \in Procs, Unlink(p) PROVE PathInv'
    BY <1>8 DEF Unlink
  <1>9. ASSUME NEW p \in Procs, CloseHolder(p) PROVE PathInv'
    BY <1>9 DEF CloseHolder
  <1>10. ASSUME NEW p \in Procs, Lose(p) PROVE PathInv'
    BY <1>10 DEF Lose
  <1>11. ASSUME NEW p \in Procs, Kill(p) PROVE PathInv'
    BY <1>11 DEF Kill
  <1>12. CASE UNCHANGED startupVars
    BY <1>12 DEF startupVars
  <1> QED
    BY <1>1, <1>2, <1>3, <1>4, <1>5, <1>6, <1>7, <1>8, <1>9, <1>10, <1>11,
       <1>12 DEF Next, Step

LEMMA StepExclusive ==
  PathInv /\ Exclusive /\ [Next]_startupVars => Exclusive'
  <1> SUFFICES ASSUME PathInv, Exclusive, [Next]_startupVars, ~overlap'
               PROVE  Exclusive'
    BY DEF Exclusive
  <1> USE StartupAssumptions DEF PathInv, TypeOK, Exclusive, Bound, Clear, Goto
  <1>1. ASSUME NEW p \in Procs, Launch(p) PROVE Exclusive'
    BY <1>1 DEF Launch, SomeStarting
  <1>2. ASSUME NEW p \in Procs, Authenticate(p) PROVE Exclusive'
    BY <1>2 DEF Authenticate
  <1>3. ASSUME NEW p \in Procs, Probe(p) PROVE Exclusive'
    BY <1>3 DEF Probe
  <1>4. ASSUME NEW p \in Procs, Remove(p) PROVE Exclusive'
    BY <1>4 DEF Remove
  <1>5. ASSUME NEW p \in Procs, Bind(p) PROVE Exclusive'
    BY <1>5 DEF Bind
  <1>6. ASSUME NEW p \in Procs, Listen(p) PROVE Exclusive'
    BY <1>6 DEF Listen
  <1>7. ASSUME NEW p \in Procs, Leave(p) PROVE Exclusive'
    BY <1>7 DEF Leave
  <1>8. ASSUME NEW p \in Procs, Unlink(p) PROVE Exclusive'
    BY <1>8 DEF Unlink
  <1>9. ASSUME NEW p \in Procs, CloseHolder(p) PROVE Exclusive'
    BY <1>9 DEF CloseHolder
  <1>10. ASSUME NEW p \in Procs, Lose(p) PROVE Exclusive'
    BY <1>10 DEF Lose
  <1>11. ASSUME NEW p \in Procs, Kill(p) PROVE Exclusive'
    BY <1>11 DEF Kill
  <1>12. CASE UNCHANGED startupVars
    BY <1>12 DEF startupVars
  <1> QED
    BY <1>1, <1>2, <1>3, <1>4, <1>5, <1>6, <1>7, <1>8, <1>9, <1>10, <1>11,
       <1>12 DEF Next, Step

LEMMA Invariance == Spec => [](PathInv /\ Exclusive)
  BY InitPath, StepPath, StepExclusive, PTL DEF Spec

(* Every variable keeps its type. *)
THEOREM TypeCorrect == Spec => []TypeOK
  BY Invariance, PTL DEF PathInv

(* Only a kill leaves a socket file behind without its process. *)
THEOREM OrderlyExitsLeaveNothing == Spec => []StaleOnlyAfterKill
  BY Invariance, PTL DEF PathInv

(* Until two launches overlap, one broker serves the host and it is the    *)
(* one at the path, whatever exits and whatever is killed.                 *)
THEOREM SoleBroker == Spec => []SoleAndReachable
  <1>1. PathInv /\ Exclusive => SoleAndReachable
    BY DEF Exclusive, Bound, SoleAndReachable, OneBrokerPerHost
  <1> QED BY <1>1, Invariance, PTL

(* Both, as what can be read off the socket path.                          *)
THEOREM PathTellsTruth == Spec => []SocketTellsTruth
  <1>1. StaleOnlyAfterKill /\ SoleAndReachable => SocketTellsTruth
    BY DEF SocketTellsTruth
  <1> QED BY <1>1, OrderlyExitsLeaveNothing, SoleBroker, PTL

-----------------------------------------------------------------------------
(* The users, and the launches among them.                                 *)
HIDE DEF PCs, Starting, Ended

UserTypes ==
    /\ at \in [Users -> {Idle, "connect", "written", "taken", "hung"}]
    /\ call \in [Users -> {"ping", "get"}]
    /\ peer \in [Users -> Procs \union {NoSocket}]
    /\ outcome \in [Users -> Outcomes]
    /\ gap \in [Users -> BOOLEAN]

Connected(u) == at[u] = "written" \/ Taken(u)

UseInv ==
    \A u \in Users :
        /\ Connected(u) => peer[u] \in Procs
        /\ at[u] # Idle /\ ~gap[u] => /\ Healthy
                                      /\ Connected(u) => peer[u] = path
        /\ Taken(u) => pc[peer[u]] = "serving" \/ killed

DiscoveryInv == TypeOK /\ UserTypes /\ UseInv /\ OutcomeForCause

LEMMA InitDiscovery == DiscoveryInit => DiscoveryInv
  BY InitPath DEF DiscoveryInit, DiscoveryInv, PathInv, UserTypes, UseInv, Connected, Taken,
                  OutcomeForCause, Idle, Outcomes

LEMMA AroundIsNext == Around => Next
  BY DEF Around, Next, Step

LEMMA DiscoverySteps == [DiscoveryNext]_allVars => [Next]_startupVars
  <1> SUFFICES ASSUME [DiscoveryNext]_allVars PROVE [Next]_startupVars
    OBVIOUS
  <1>1. CASE Around
    BY <1>1, AroundIsNext
  <1>2. ASSUME NEW u \in Users, Discover(u) \/ Use(u) \/ Hang(u)
        PROVE  UNCHANGED startupVars
    BY <1>2 DEF Discover, Use, Hang, Connect, TakeRequest, ReplyRequest, Cut, startupVars
  <1>3. CASE UNCHANGED allVars
    BY <1>3 DEF allVars
  <1> QED BY <1>1, <1>2, <1>3 DEF DiscoveryNext

(* A use that goes on leaves the launches alone: what it knows of the      *)
(* broker carries over from before.                                        *)
LEMMA StepUse ==
  ASSUME DiscoveryInv, NEW u \in Users, Discover(u) \/ Use(u) \/ Hang(u)
  PROVE  UserTypes' /\ UseInv' /\ OutcomeForCause'
  <1> USE DEF DiscoveryInv, UserTypes, UseInv, Connected, Taken, OutcomeForCause, Idle, Outcomes,
              startupVars, TypeOK
  <1>1. CASE Discover(u)
    <2>1. path = NoSocket => ~Healthy
      BY StartupAssumptions DEF Healthy
    <2>2. Healthy' <=> Healthy
      BY <1>1 DEF Discover, Healthy
    <2>3. CASE Healthy
      BY <1>1, <2>1, <2>2, <2>3 DEF Discover
    <2>4. CASE ~Healthy
      <3>1. (~Healthy) = TRUE
        BY <2>4
      <3>2. gap' = [gap EXCEPT ![u] = TRUE]
        BY <1>1, <3>1, Zenon DEF Discover
      <3>3. gap' \in [Users -> BOOLEAN] /\ gap'[u]
        BY <3>2
      <3> QED BY <1>1, <2>2, <2>4, <3>2, <3>3 DEF Discover
    <2> QED BY <2>3, <2>4
  <1> USE DEF Healthy
  <1>2. CASE Connect(u)
    BY <1>2 DEF Connect, CaughtFailure, End
  <1>3. CASE TakeRequest(u)
    BY <1>3 DEF TakeRequest
  <1>4. CASE ReplyRequest(u)
    BY <1>4 DEF ReplyRequest, CaughtFailure, End
  <1>5. CASE Cut(u)
    BY <1>5 DEF Cut, CaughtFailure, OtherFailure, End
  <1>6. CASE Hang(u)
    BY <1>6 DEF Hang
  <1> QED BY <1>1, <1>2, <1>3, <1>4, <1>5, <1>6 DEF Use

(* No step of the launches takes the path from one broker that serves to   *)
(* another: in between it is free, stale, or bound and not served.         *)
LEMMA PathLeadsToTheSame ==
  ASSUME TypeOK, Around, Healthy, HealthyNext
  PROVE  path' = path
  <1> USE DEF TypeOK, Healthy, HealthyNext, Goto, PCs, Starting, Ended
  <1>1. PICK p \in Procs : \/ Launch(p) \/ Step(p) \/ Leave(p) \/ Lose(p) \/ Kill(p)
    BY DEF Around
  <1>2. CASE Launch(p) \/ Leave(p) \/ Lose(p)
    BY <1>2 DEF Launch, Leave, Lose
  <1>3. CASE Kill(p)
    BY <1>3, StartupAssumptions DEF Kill
  <1>4. CASE Step(p)
    BY <1>4, StartupAssumptions
       DEF Step, Authenticate, Probe, Remove, Bind, Listen, Unlink, CloseHolder
  <1> QED BY <1>1, <1>2, <1>3, <1>4

(* A broker that has read a request stops serving only when it is killed.  *)
LEMMA ReadRequestIsKept ==
  ASSUME DiscoveryInv, Around, NEW u \in Users, Taken(u)
  PROVE  pc[peer[u]] = "serving" => pc'[peer[u]] = "serving" \/ killed'
  <1> USE DEF DiscoveryInv, TypeOK, UserTypes, UseInv, Connected, Taken, Goto, PCs, Starting, Ended
  <1>1. PICK p \in Procs : \/ Launch(p) \/ Step(p) \/ (NoRequestOpen(p) /\ Leave(p))
                           \/ Lose(p) \/ Kill(p)
    BY DEF Around
  <1>2. CASE Launch(p) \/ Lose(p) \/ Kill(p)
    BY <1>2 DEF Launch, Lose, Kill
  <1>3. CASE NoRequestOpen(p) /\ Leave(p)
    BY <1>3 DEF NoRequestOpen, Leave
  <1>4. CASE Step(p)
    BY <1>4 DEF Step, Authenticate, Probe, Remove, Bind, Listen, Unlink, CloseHolder
  <1> QED BY <1>1, <1>2, <1>3, <1>4

LEMMA KilledStays == TypeOK /\ [Next]_startupVars => (killed => killed')
  BY DEF Next, Step, Launch, Authenticate, Probe, Remove, Bind, Listen, Leave, Unlink,
         CloseHolder, Lose, Kill, startupVars

LEMMA StepAround ==
  ASSUME DiscoveryInv, Around
  PROVE  UserTypes' /\ UseInv' /\ OutcomeForCause'
  <1>1. UNCHANGED <<at, call, peer, outcome>>
    BY DEF Around
  <1>2. gap' = [u \in Users |-> gap[u] \/ (at[u] # Idle /\ ~HealthyNext)]
    BY DEF Around
  <1>3. killed => killed'
    BY AroundIsNext, KilledStays DEF DiscoveryInv
  <1>4. UserTypes'
    BY <1>1, <1>2 DEF DiscoveryInv, UserTypes
  <1>5. OutcomeForCause'
    BY <1>1, <1>2, <1>3 DEF DiscoveryInv, OutcomeForCause, UserTypes
  <1>6. UseInv'
    <2> SUFFICES ASSUME NEW u \in Users
                 PROVE  /\ Connected(u)' => (peer[u] \in Procs)'
                        /\ (at[u] # Idle /\ ~gap[u])' => /\ Healthy'
                                                         /\ Connected(u)' => (peer[u] = path)'
                        /\ Taken(u)' => (pc[peer[u]] = "serving" \/ killed)'
      BY DEF UseInv
    <2>1. Connected(u)' => (peer[u] \in Procs)'
      BY <1>1 DEF DiscoveryInv, UseInv, Connected, Taken
    <2>2. ASSUME (at[u] # Idle /\ ~gap[u])'
          PROVE  Healthy' /\ (Connected(u)' => (peer[u] = path)')
      <3>1. at[u] # Idle /\ ~gap[u] /\ HealthyNext
        BY <1>1, <1>2, <2>2
      <3>2. Healthy /\ (Connected(u) => peer[u] = path)
        BY <3>1 DEF DiscoveryInv, UseInv
      <3>3. path' = path
        BY <3>1, <3>2, PathLeadsToTheSame DEF DiscoveryInv
      <3> QED BY <1>1, <3>1, <3>2, <3>3 DEF Healthy, HealthyNext, Connected, Taken
    <2>3. Taken(u)' => (pc[peer[u]] = "serving" \/ killed)'
      BY <1>1, <1>3, ReadRequestIsKept DEF DiscoveryInv, UseInv, Taken
    <2> QED BY <2>1, <2>2, <2>3
  <1> QED BY <1>4, <1>5, <1>6

LEMMA StepDiscovery == PathInv /\ DiscoveryInv /\ [DiscoveryNext]_allVars => DiscoveryInv'
  <1> SUFFICES ASSUME PathInv, DiscoveryInv, [DiscoveryNext]_allVars PROVE DiscoveryInv'
    OBVIOUS
  <1>1. TypeOK'
    BY DiscoverySteps, StepPath DEF PathInv
  <1>2. CASE UNCHANGED allVars
    BY <1>1, <1>2 DEF allVars, userVars, startupVars, DiscoveryInv, UserTypes, UseInv,
                      Connected, Taken, Healthy, OutcomeForCause
  <1> QED BY <1>1, <1>2, StepUse, StepAround DEF DiscoveryNext, DiscoveryInv

(* Whatever the users do, the launches behave as those of BrokerStartup.   *)
THEOREM UsersDoNotDisturb == DiscoverySpec => Spec
  <1>1. DiscoveryInit => Init
    BY DEF DiscoveryInit
  <1> QED BY <1>1, DiscoverySteps, PTL DEF DiscoverySpec, Spec

LEMMA DiscoveryInvariance == DiscoverySpec => []DiscoveryInv
  <1>1. DiscoverySpec => []PathInv
    BY UsersDoNotDisturb, Invariance, PTL
  <1> QED BY <1>1, InitDiscovery, StepDiscovery, PTL DEF DiscoverySpec

(* Every variable of launches and users keeps its type.                    *)
THEOREM DiscoveryTypes == DiscoverySpec => []DiscoveryTypeOK
  <1>1. DiscoveryInv => DiscoveryTypeOK
    BY DEF DiscoveryInv, UserTypes, DiscoveryTypeOK
  <1> QED BY <1>1, DiscoveryInvariance, PTL

(* Without a gap in its use nobody is sent to direct SSH, and without a    *)
(* kill no exception leaves discovery.                                     *)
THEOREM OutcomesHaveCauses == DiscoverySpec => []OutcomeForCause
  <1>1. DiscoveryInv => OutcomeForCause
    BY DEF DiscoveryInv
  <1> QED BY <1>1, DiscoveryInvariance, PTL

(* With users about, too, the socket path tells who serves the host.       *)
THEOREM PathTellsUsersTruth == DiscoverySpec => []SocketTellsTruth
  BY UsersDoNotDisturb, PathTellsTruth, PTL
=============================================================================
