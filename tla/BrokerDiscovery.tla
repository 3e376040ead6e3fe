--------------------------- MODULE BrokerDiscovery ---------------------------
(***************************************************************************)
(* An MCP server that looks for a broker: discover_broker_socket and       *)
(* open_ssh_with_broker_fallback (mcp/netcdf_reader/paths/ssh.py), the     *)
(* calls of BrokerSFTPClient (paths/ssh_broker.py) and what adapter.open   *)
(* does with the answer, composed with the launches of BrokerStartup.      *)
(*                                                                         *)
(* A use is two calls, ping and then the transfer, each on a connection of *)
(* its own.  A call that fails raises OSError, BrokerRPCError or, when the *)
(* connection ends after the request was read and before the reply,        *)
(* ValueError from decoding an empty line.  A call has no timeout, and     *)
(* neither has the SFTP transfer the broker makes for it.                  *)
(***************************************************************************)
EXTENDS BrokerStartup

CONSTANT Users    \* threads of control using the MCP tools

VARIABLES
    at,      \* where each user is
    call,    \* "ping" or "get"
    peer,    \* the launch a user's connection goes to, or NoSocket
    outcome, \* how the user's last use ended
    gap      \* during the use the path led to no healthy broker at some time

userVars == <<at, call, peer, outcome, gap>>
allVars == <<startupVars, userVars>>

Idle == "idle"
Outcomes == {"none", "direct", "served", "raised", "escaped"}

Healthy == path \in Procs /\ pc[path] = "serving" /\ ssh[path]
HealthyNext == path' \in Procs /\ pc'[path'] = "serving" /\ ssh'[path']

DiscoveryInit ==
    /\ Init
    /\ at = [u \in Users |-> Idle]
    /\ call = [u \in Users |-> "ping"]
    /\ peer = [u \in Users |-> NoSocket]
    /\ outcome = [u \in Users |-> "none"]
    /\ gap = [u \in Users |-> FALSE]

----------------------------------------------------------------------------
(* The user u ends its use with outcome o. *)
End(u, o) ==
    /\ at' = [at EXCEPT ![u] = Idle]
    /\ peer' = [peer EXCEPT ![u] = NoSocket]
    /\ outcome' = [outcome EXCEPT ![u] = o]
    /\ UNCHANGED <<call, gap>>

(* A call fails with OSError or BrokerRPCError: around the ping that means *)
(* None, that is direct paramiko; around the transfer nothing catches it.  *)
CaughtFailure(u) == End(u, IF call[u] = "ping" THEN "direct" ELSE "raised")

(* Any other exception leaves open_ssh_with_broker_fallback. *)
OtherFailure(u) == End(u, IF call[u] = "ping" THEN "escaped" ELSE "raised")

(* Discover that remembers that the previous use found no broker. *)
DiscoverCached(u) ==
    /\ at[u] = Idle
    /\ call' = [call EXCEPT ![u] = "ping"]
    /\ gap' = [gap EXCEPT ![u] = ~Healthy]
    /\ IF path = NoSocket \/ outcome[u] = "direct"
       THEN /\ outcome' = [outcome EXCEPT ![u] = "direct"]
            /\ UNCHANGED <<at, peer>>
       ELSE /\ at' = [at EXCEPT ![u] = "connect"]
            /\ outcome' = [outcome EXCEPT ![u] = "none"]
            /\ UNCHANGED peer
    /\ UNCHANGED startupVars

Discover(u) ==
    /\ at[u] = Idle
    /\ call' = [call EXCEPT ![u] = "ping"]
    /\ gap' = [gap EXCEPT ![u] = ~Healthy]
    /\ IF path = NoSocket
       THEN /\ outcome' = [outcome EXCEPT ![u] = "direct"]
            /\ UNCHANGED <<at, peer>>
       ELSE /\ at' = [at EXCEPT ![u] = "connect"]
            /\ outcome' = [outcome EXCEPT ![u] = "none"]
            /\ UNCHANGED peer
    /\ UNCHANGED startupVars

(* Connect that takes any file at the path for a broker. *)
ConnectAny(u) ==
    /\ at[u] = "connect"
    /\ IF path # NoSocket
       THEN /\ at' = [at EXCEPT ![u] = "written"]
            /\ peer' = [peer EXCEPT ![u] = path]
            /\ UNCHANGED <<call, outcome, gap>>
       ELSE CaughtFailure(u)
    /\ UNCHANGED startupVars

Connect(u) ==
    /\ at[u] = "connect"
    /\ IF path \in Procs /\ pc[path] = "serving"
       THEN /\ at' = [at EXCEPT ![u] = "written"]
            /\ peer' = [peer EXCEPT ![u] = path]
            /\ UNCHANGED <<call, outcome, gap>>
       ELSE CaughtFailure(u)
    /\ UNCHANGED startupVars

(* The request has been read and its answer has not come. *)
Taken(u) == at[u] \in {"taken", "hung"}

(* The broker reads the request; it reads one at a time. *)
TakeRequest(u) ==
    /\ at[u] = "written" /\ pc[peer[u]] = "serving"
    /\ \A v \in Users : Taken(v) => peer[v] # peer[u]
    /\ at' = [at EXCEPT ![u] = "taken"]
    /\ UNCHANGED <<call, peer, outcome, gap, startupVars>>

(* The remote falls silent during the transfer: the broker's thread waits  *)
(* in SFTP for as long as its connection stays up, and serves nobody.      *)
Hang(u) ==
    /\ at[u] = "taken" /\ call[u] = "get"
    /\ pc[peer[u]] = "serving" /\ ssh[peer[u]]
    /\ at' = [at EXCEPT ![u] = "hung"]
    /\ UNCHANGED <<call, peer, outcome, gap, startupVars>>

(* It replies: connection_lost without SSH; a transfer may fail remotely.  *)
ReplyRequest(u) ==
    /\ at[u] = "taken" \/ (at[u] = "hung" /\ ~ssh[peer[u]])
    /\ pc[peer[u]] = "serving"
    /\ \/ /\ ssh[peer[u]] /\ call[u] = "ping"
          /\ call' = [call EXCEPT ![u] = "get"]
          /\ at' = [at EXCEPT ![u] = "connect"]
          /\ peer' = [peer EXCEPT ![u] = NoSocket]
          /\ UNCHANGED <<outcome, gap>>
       \/ call[u] = "get" /\ (End(u, "served") \/ CaughtFailure(u))
       \/ ~ssh[peer[u]] /\ call[u] = "ping" /\ CaughtFailure(u)
    /\ UNCHANGED startupVars

(* Cut with the two failures the other way round. *)
CutAsReset(u) ==
    /\ (at[u] = "written" \/ Taken(u)) /\ pc[peer[u]] # "serving"
    /\ IF at[u] = "written" THEN OtherFailure(u) ELSE CaughtFailure(u)
    /\ UNCHANGED startupVars

(* Cut that never tells a client whose request was not read. *)
CutOnlyTaken(u) ==
    /\ Taken(u) /\ pc[peer[u]] # "serving"
    /\ OtherFailure(u)
    /\ UNCHANGED startupVars

(* The broker's process is gone or has closed its sockets. *)
Cut(u) ==
    /\ (at[u] = "written" \/ Taken(u)) /\ pc[peer[u]] # "serving"
    /\ IF at[u] = "written" THEN CaughtFailure(u) ELSE OtherFailure(u)
    /\ UNCHANGED startupVars

----------------------------------------------------------------------------
Use(u) == Connect(u) \/ TakeRequest(u) \/ ReplyRequest(u) \/ Cut(u)

(* The loop ends between two requests, so an orderly exit leaves none that *)
(* was read and not answered; a kill can come at any moment.               *)
NoRequestOpen(p) == \A u \in Users : ~(Taken(u) /\ peer[u] = p)

(* Launches go on around the users; a step that leaves no healthy broker   *)
(* at the path is a gap for every use in progress.                         *)
Around ==
    /\ \E p \in Procs :
          Launch(p) \/ Step(p) \/ (NoRequestOpen(p) /\ Leave(p))
             \/ Lose(p) \/ Kill(p)
    /\ gap' = [u \in Users |-> gap[u] \/ (at[u] # Idle /\ ~HealthyNext)]
    /\ UNCHANGED <<at, call, peer, outcome>>

\* A launch that took over the process slot of a peer must not be mistaken
\* for that peer: a slot is launched again only when nobody is connected.
SlotReusable == \A p \in Procs :
    (pc[p] \in Ended /\ pc'[p] \notin Ended) => \A u \in Users : peer[u] # p

DiscoveryNext ==
    \/ \E u \in Users : Discover(u) \/ Use(u) \/ Hang(u)
    \/ Around /\ SlotReusable

DiscoverySpec == DiscoveryInit /\ [][DiscoveryNext]_allVars

(* The MCP keeps running, and so does the broker's loop unless it is hung   *)
(* in a transfer; each pass of the loop handles every ready connection, so  *)
(* no user overtakes another forever.  Nothing ends a hung transfer.        *)
FairDiscoverySpec ==
    DiscoverySpec /\ \A u \in Users : /\ WF_allVars(Use(u))
                                       /\ SF_allVars(TakeRequest(u))

----------------------------------------------------------------------------
(* The types of the users on top of those of the launches.                 *)
DiscoveryTypeOK ==
    /\ TypeOK
    /\ at \in [Users -> {Idle, "connect", "written", "taken", "hung"}]
    /\ call \in [Users -> {"ping", "get"}]
    /\ peer \in [Users -> Procs \union {NoSocket}]
    /\ outcome \in [Users -> Outcomes]
    /\ gap \in [Users -> BOOLEAN]

(* A tool goes to direct paramiko, with its passcode prompt, only if at     *)
(* some moment of the use no healthy broker was reachable at the path:      *)
(* discovery, ping and broker exit agree, whatever launches overlap.        *)
(* "Else return None" (ssh.py:257): an exception of discovery's own escapes *)
(* only when a broker was killed between reading the ping and replying,    *)
(* which gives an empty line that no handler expects.                      *)
OutcomeForCause ==
    \A u \in Users : /\ outcome[u] = "direct" => gap[u]
                     /\ outcome[u] = "escaped" => killed

(* A broker that waits in SFTP for a remote which is silent and connected. *)
HungBroker(p) ==
    /\ p \in Procs /\ pc[p] = "serving" /\ ssh[p]
    /\ \E u \in Users : at[u] = "hung" /\ peer[u] = p

(* A use ends, though the calls have no timeout: the broker that read a    *)
(* request, or has it waiting, answers it or closes the connection.  The   *)
(* exception is a user of a broker that is hung for ever, by this user's   *)
(* transfer or by another's.                                               *)
UseEnds == \A u \in Users : []<>(at[u] = Idle) \/ <>[]HungBroker(peer[u])
=============================================================================
