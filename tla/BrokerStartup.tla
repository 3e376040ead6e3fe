---------------------------- MODULE BrokerStartup ----------------------------
(***************************************************************************)
(* src/ssh_broker/cli.py (main) and the parts of server.py (serve_forever) *)
(* that touch the file system: how the launches of a broker for one host   *)
(* share the one socket path <host>.sock.                                  *)
(*                                                                         *)
(* A launch tests that the path is free, asks for the passcode, connects,  *)
(* removes whatever is at the path, binds its own socket there, serves,    *)
(* and on the way out removes whatever is at the path and then closes the  *)
(* SSH connection.  A killed process runs none of its cleanup.             *)
(***************************************************************************)
CONSTANTS Procs,      \* launches of metplot-ssh-broker for the host
          NoSocket,   \* nothing at the socket path
          Stale,      \* a socket file whose process was killed
          MayKill     \* processes may be killed (SIGKILL, power loss)

ASSUME StartupAssumptions ==
    /\ NoSocket \notin Procs /\ Stale \notin Procs /\ NoSocket # Stale
    /\ MayKill \in BOOLEAN

VARIABLES
    pc,      \* where each launch is in main
    path,    \* whose socket is at the path: a launch, Stale or NoSocket
    ssh,     \* the SSH connection of the launch is open
    killed,  \* some process has been killed
    overlap  \* some launch passed its test while another was starting

startupVars == <<pc, path, ssh, killed, overlap>>

Starting == {"auth", "probe", "remove", "bind", "chmod"}
Ended == {"refused", "failed", "exited", "killed"}
PCs == {"off", "serving", "unlinking", "closing"} \union Starting \union Ended

Init ==
    /\ pc = [p \in Procs |-> "off"]
    /\ path = NoSocket
    /\ ssh = [p \in Procs |-> FALSE]
    /\ killed = FALSE
    /\ overlap = FALSE

Goto(p, label) == pc' = [pc EXCEPT ![p] = label]

SomeStarting == \E q \in Procs : pc[q] \in Starting

(* Launch without the test of line 146. *)
LaunchUnchecked(p) ==
    /\ pc[p] \in Ended \union {"off"}
    /\ Goto(p, "auth")
    /\ overlap' = (overlap \/ SomeStarting)
    /\ UNCHANGED <<path, ssh, killed>>

(* cli.py:146: an existing path ends the launch with status 3. *)
Launch(p) ==
    /\ pc[p] \in Ended \union {"off"}
    /\ Goto(p, IF path = NoSocket THEN "auth" ELSE "refused")
    /\ overlap' = (overlap \/ (path = NoSocket /\ SomeStarting))
    /\ UNCHANGED <<path, ssh, killed>>

(* cli.py:158: the interactive prompt and the connection. *)
Authenticate(p) ==
    /\ pc[p] = "auth"
    /\ \/ Goto(p, "probe") /\ ssh' = [ssh EXCEPT ![p] = TRUE]
       \/ Goto(p, "failed") /\ UNCHANGED ssh
    /\ UNCHANGED <<path, killed, overlap>>

(* server.py:80-81: the directory of the socket, which may be impossible   *)
(* to make, and whether there is a file.                                   *)
Probe(p) ==
    /\ pc[p] = "probe"
    /\ Goto(p, IF path = NoSocket THEN "bind" ELSE "remove") \/ Goto(p, "closing")
    /\ UNCHANGED <<path, ssh, killed, overlap>>

(* server.py:82: unlink raises when the file has gone meanwhile; outside   *)
(* the try of serve_forever, so only the finally of main runs.             *)
Remove(p) ==
    /\ pc[p] = "remove"
    /\ path' = NoSocket
    /\ Goto(p, IF path = NoSocket THEN "closing" ELSE "bind")
    /\ UNCHANGED <<ssh, killed, overlap>>

(* server.py:86: bind fails if another launch has bound the path. *)
Bind(p) ==
    /\ pc[p] = "bind"
    /\ IF path = NoSocket
       THEN path' = p /\ Goto(p, "chmod")
       ELSE Goto(p, "closing") /\ UNCHANGED path
    /\ UNCHANGED <<ssh, killed, overlap>>

(* server.py:87-88: chmod goes by name and raises when the name has gone;  *)
(* after listen the broker answers.                                        *)
Listen(p) ==
    /\ pc[p] = "chmod"
    /\ Goto(p, IF path = NoSocket THEN "closing" ELSE "serving")
    /\ UNCHANGED <<path, ssh, killed, overlap>>

(* The loop ends, for any of its reasons; the listening socket is closed. *)
Leave(p) ==
    /\ pc[p] = "serving"
    /\ Goto(p, "unlinking")
    /\ UNCHANGED <<path, ssh, killed, overlap>>

(* Unlink that is skipped when the loop ends. *)
UnlinkSkipped(p) ==
    /\ pc[p] = "unlinking"
    /\ Goto(p, "closing")
    /\ UNCHANGED <<path, ssh, killed, overlap>>

(* server.py:179: the path is removed by name, whoever bound it. *)
Unlink(p) ==
    /\ pc[p] = "unlinking"
    /\ path' = NoSocket
    /\ Goto(p, "closing")
    /\ UNCHANGED <<ssh, killed, overlap>>

(* cli.py:187 *)
CloseHolder(p) ==
    /\ pc[p] = "closing"
    /\ ssh' = [ssh EXCEPT ![p] = FALSE]
    /\ Goto(p, "exited")
    /\ UNCHANGED <<path, killed, overlap>>

Lose(p) ==
    /\ ssh[p]
    /\ ssh' = [ssh EXCEPT ![p] = FALSE]
    /\ UNCHANGED <<pc, path, killed, overlap>>

Kill(p) ==
    /\ MayKill /\ pc[p] \notin Ended \union {"off"}
    /\ Goto(p, "killed")
    /\ ssh' = [ssh EXCEPT ![p] = FALSE]
    /\ path' = IF path = p THEN Stale ELSE path
    /\ killed' = TRUE
    /\ UNCHANGED overlap

Step(p) ==
    \/ Authenticate(p) \/ Probe(p) \/ Remove(p) \/ Bind(p) \/ Listen(p)
    \/ Unlink(p) \/ CloseHolder(p)

Next == \E p \in Procs : Launch(p) \/ Step(p) \/ Leave(p) \/ Lose(p) \/ Kill(p)

Spec == Init /\ [][Next]_startupVars

----------------------------------------------------------------------------
(* The types of the launches and of the socket path they share.            *)
TypeOK ==
    /\ pc \in [Procs -> PCs]
    /\ path \in Procs \union {NoSocket, Stale}
    /\ ssh \in [Procs -> BOOLEAN]
    /\ killed \in BOOLEAN /\ overlap \in BOOLEAN

(* A socket file without its process is left only by a kill: every orderly *)
(* exit, and every launch that fails half way, leaves the path free or     *)
(* owned by a broker that will remove it, so a launch that is refused has  *)
(* seen either a running broker or the trace of a kill.                    *)
StaleOnlyAfterKill ==
    /\ path = Stale => killed
    /\ path \in Procs => pc[path] \in {"chmod", "serving", "unlinking"}

(* "Two brokers race on the same socket path: CLI errors out if the socket *)
(* already exists" (ssh-broker.md, threats): one broker serves a host.     *)
OneBrokerPerHost ==
    \A p, q \in Procs : pc[p] = "serving" /\ pc[q] = "serving" => p = q

(* What the code does ensure: as long as no launch passes its test while   *)
(* another is between its test and its listen, one broker serves the host, *)
(* and no launch, exit or kill of another takes its socket away.           *)
SoleAndReachable ==
    ~overlap => OneBrokerPerHost
                /\ \A p \in Procs : pc[p] = "serving" => path = p

(* Both: what a launch, or a user, finds at the path is what is going on.  *)
SocketTellsTruth == StaleOnlyAfterKill /\ SoleAndReachable
=============================================================================
