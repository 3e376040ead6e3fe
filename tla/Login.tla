-------------------------------- MODULE Login --------------------------------
(***************************************************************************)
(* How inspect gets into a machine that no broker serves: the account is   *)
(* looked up in ~/.ssh/config, silent_auth_chain tries the ssh-agent and   *)
(* key files one by one, and if all fail the agent is asked and calls      *)
(* again with an ssh_config (mcp/netcdf_reader/paths/ssh.py, open of       *)
(* adapter.py, the handlers of tools/inspect.py).                          *)
(*                                                                         *)
(* A world is what the program finds on the user's machine and behind the  *)
(* network, a record:                                                      *)
(*   config   for each name of a host what ~/.ssh/config says: host, port, *)
(*            user, key (its first IdentityFile) and jump (its ProxyJump)  *)
(*   agent    there is an ssh-agent                                        *)
(*   keys     the default key files there are, in the order they are tried *)
(*   locked   key files that need a passphrase                             *)
(*   home     key files below the home directory                           *)
(*   accepts  for each account, what lets its user in                      *)
(*   inner    hosts that answer to their jump host only                    *)
(* Connections are not closed, by no part of the code, and not counted.    *)
(***************************************************************************)
EXTENDS Naturals, Sequences, SequencesExt, FiniteSets

CONSTANTS Worlds, Me,     \* the user who runs the server
          URLs,           \* ssh:// paths: name, port and user, or None
          Agent,          \* what the ssh-agent offers
          Keys, Passwords,
          None

ASSUME LoginAssumptions ==
    /\ Agent \notin Keys \cup Passwords /\ Keys \cap Passwords = {}
    /\ \A w \in Worlds, u \in URLs : u.name \in DOMAIN w.config
    /\ \A w \in Worlds : w.keys \in Seq(Keys)
    /\ \A w \in Worlds : \A n \in DOMAIN w.config :
          /\ w.config[n].host # None /\ w.config[n].port # None
          /\ w.config[n].key \in Keys \cup {None}
          /\ w.config[n].jump \in DOMAIN w.config \cup {None}

VARIABLES world,
          at,      \* where the call is
          url,     \* the path of the conversation
          goal,    \* the account the call connects to, None before that
          left,    \* key files the chain has still to try
          tried,   \* what it has tried, with the results
          extra,   \* the ssh_config of the call
          told,    \* the answer
          net,     \* the network carries connections
          gap,     \* history: it did not at some moment of the call
          meant    \* history: the account the silent call tried

loginVars == <<world, at, url, goal, left, tried, extra, told, net, gap, meant>>

Names == UNION {DOMAIN w.config : w \in Worlds}
Account(host, port, user) == [host |-> host, port |-> port, user |-> user]
Or(x, y) == IF x = None THEN y ELSE x

(* What an answer tells the agent of the account, to be sent back.          *)
NoAnswer == [code |-> "nothing", context |-> Account(None, None, None), tried |-> << >>]
NoExtra == [copied |-> FALSE, to |-> "nothing", method |-> "none", secret |-> None,
            phrase |-> FALSE]
Answer(code) == told' = [NoAnswer EXCEPT !.code = code] /\ at' = "idle"

LoginInit ==
    /\ world \in Worlds
    /\ at = "idle" /\ url = None
    /\ goal = None /\ left = << >> /\ tried = << >> /\ extra = NoExtra
    /\ told = NoAnswer
    /\ net \in BOOLEAN /\ gap = FALSE /\ meant = None
-----------------------------------------------------------------------------
(* parse_ssh_config_for_host resolves the jump host in the same way, its    *)
(* jump host too, and so on: it does not end when a name comes again.  What *)
(* it finds there is not used.                                              *)
JumpsForever(w, name) ==
    LET hop[k \in 0 .. Cardinality(Names)] ==
            IF k = 0 THEN name
            ELSE IF hop[k - 1] = None THEN None ELSE w.config[hop[k - 1]].jump
    IN hop[Cardinality(Names)] # None

(* The account of the config with what the path says of user and port.      *)
Looked(u) ==
    LET entry == world.config[u.name]
    IN Account(entry.host, Or(u.port, entry.port), Or(u.user, entry.user))

Begin(u, account) ==
    /\ at = "idle"
    /\ url' = u /\ goal' = account /\ tried' = << >> /\ gap' = ~net
    /\ UNCHANGED <<world, net>>

(* KeyFiles that knows one default. *)
KeyFilesFirst(u) ==
    LET named == world.config[u.name].key
    IN IF named # None THEN <<named>>
       ELSE SelectSeq(world.keys, LAMBDA key : key = Head(world.keys))

(* The key files: the one of the config, else those there are by default.   *)
KeyFiles(u) ==
    LET named == world.config[u.name].key
    IN IF named # None THEN <<named>> ELSE world.keys

(* A call without ssh_config.  The error of a recursion too deep is one of  *)
(* opening the file.                                                        *)
Ask(u) ==
    /\ IF JumpsForever(world, u.name)
       THEN Begin(u, None) /\ Answer("internal_error") /\ left' = << >> /\ meant' = None
       ELSE /\ Begin(u, Looked(u)) /\ at' = "agent" /\ told' = NoAnswer
            /\ left' = KeyFiles(u) /\ meant' = Looked(u)
    /\ extra' = NoExtra

(* AskWith by the config, where the answer said nothing. *)
AskWithAliasOnly(u, x) ==
    /\ Begin(u, Account(u.name, Or(u.port, 22), u.user))
    /\ at' = "explicit" /\ told' = NoAnswer /\ left' = << >>
    /\ extra' = [x EXCEPT !.to = told.code]
    /\ UNCHANGED meant

(* A call with an ssh_config that repeats the context of the last answer,   *)
(* or has only the credentials; the config is not looked at.                *)
AskWith(u, x) ==
    /\ LET context == IF x.copied THEN told.context ELSE NoAnswer.context
       IN Begin(u, Account(Or(context.host, u.name), Or(context.port, Or(u.port, 22)),
                           Or(context.user, u.user)))
    /\ at' = "explicit" /\ told' = NoAnswer /\ left' = << >>
    /\ extra' = [x EXCEPT !.to = told.code]
    /\ UNCHANGED meant
-----------------------------------------------------------------------------
(* client.connect lets the user of the account in with what it is given.    *)
Admits(account, with) ==
    LET a == [account EXCEPT !.user = Or(@, Me)]
    IN a \in DOMAIN world.accepts /\ with \in world.accepts[a]

Connects(with) == net /\ goal.host \notin world.inner /\ Admits(goal, with)

Step == UNCHANGED <<world, url, goal, extra, net, gap, meant>>
Trying(method, result) == tried' = Append(tried, <<method, result>>)

(* The ssh-agent, if SSH_AUTH_SOCK is set.                                  *)
TryAgent ==
    /\ at = "agent"
    /\ IF world.agent /\ Connects(Agent)
       THEN at' = "open" /\ Trying(Agent, "success")
       ELSE at' = "keys" /\ Trying(Agent, IF world.agent THEN "rejected" ELSE "skipped")
    /\ Step /\ UNCHANGED <<left, told>>

(* A key of the config is named with ~ where it is below the home           *)
(* directory, and opened by that name.  A key that needs a passphrase       *)
(* raises a kind of AuthenticationException, so it is told as rejected, and *)
(* so is a host that cannot be reached.                                     *)
Named(key) == key = world.config[url.name].key
Usable(key) == key \notin world.locked /\ ~(Named(key) /\ key \in world.home)

TryKey ==
    /\ at = "keys" /\ left # << >>
    /\ left' = Tail(left)
    /\ IF Usable(Head(left)) /\ Connects(Head(left))
       THEN at' = "open" /\ Trying(Head(left), "success")
       ELSE at' = "keys" /\ Trying(Head(left), "rejected")
    /\ Step /\ UNCHANGED told

(* NoKeyLeft that does not tell when there is no key. *)
NoKeyLeftUntold ==
    /\ at = "keys" /\ left = << >>
    /\ told' = [code |-> "needed", context |-> goal, tried |-> tried]
    /\ at' = "idle"
    /\ Step /\ UNCHANGED <<left, tried>>

NoKeyLeft ==
    /\ at = "keys" /\ left = << >>
    /\ tried' = IF Len(tried) = 1 THEN Append(tried, <<"files", "no_keys">>) ELSE tried
    /\ told' = [code |-> "needed", context |-> goal, tried |-> tried']
    /\ at' = "idle"
    /\ Step /\ UNCHANGED left

(* connect_explicit: with a password, or a key file and its passphrase.     *)
(* Any other method, ssh_config_alias of the prompt too, gives nothing to   *)
(* connect with.                                                            *)
Presented ==
    /\ extra.method \in {"password", "identity_file"}
    /\ extra.secret \in world.locked => extra.phrase
    /\ Connects(extra.secret)

TryExplicit ==
    /\ at = "explicit"
    /\ IF Presented THEN at' = "open" /\ UNCHANGED told
       ELSE /\ at' = "idle"
            /\ told' = [code |-> "rejected", tried |-> << >>,
                        context |-> Account(url.name, None, url.user)]
    /\ Step /\ UNCHANGED <<left, tried>>

(* open_sftp_file and the opening of the data set.                          *)
OpenFile ==
    /\ at = "open"
    /\ \/ net /\ Answer("success")
       \/ \E code \in {"file_not_found", "remote_file_not_found", "internal_error"} : Answer(code)
    /\ Step /\ UNCHANGED <<left, tried>>

(* The network comes and goes.                                              *)
Flip ==
    /\ net' = ~net
    /\ gap' = (gap \/ (at # "idle" /\ net))
    /\ UNCHANGED <<world, at, url, goal, left, tried, extra, told, meant>>
-----------------------------------------------------------------------------
(* What the agent may send: each method the prompts offer, with any secret  *)
(* of that kind.                                                            *)
Extra(copied, method, secret, phrase) ==
    [copied |-> copied, to |-> "nothing", method |-> method, secret |-> secret,
     phrase |-> phrase]
Extras ==
    LET B == BOOLEAN
    IN {Extra(c, "password", p, FALSE) : c \in B, p \in Passwords}
       \cup {Extra(c, "identity_file", k, f) : c \in B, k \in Keys, f \in B}
       \cup {Extra(c, "ssh_config_alias", None, FALSE) : c \in B}

LoginNext ==
    \/ \E u \in URLs : Ask(u)
    \/ \E x \in Extras : told.code \in {"needed", "rejected"} /\ AskWith(url, x)
    \/ TryAgent \/ TryKey \/ NoKeyLeft \/ TryExplicit \/ OpenFile \/ Flip

LoginSpec == LoginInit /\ [][LoginNext]_loginVars
-----------------------------------------------------------------------------
Codes == {"nothing", "needed", "rejected", "success", "file_not_found",
          "remote_file_not_found", "internal_error"}

(* The types: a call that is under way has an account, and the prompt tells *)
(* the ssh-agent and then each key file, in the order they were tried, or   *)
(* that there was none.                                                     *)
LoginTypeOK ==
    /\ world \in Worlds /\ url \in URLs \cup {None}
    /\ at \in {"idle", "agent", "keys", "explicit", "open"}
    /\ at # "idle" => DOMAIN goal = {"host", "port", "user"} /\ told = NoAnswer
    /\ told.code \in Codes /\ net \in BOOLEAN /\ gap \in BOOLEAN
    /\ told.code = "needed" =>
          /\ Head(told.tried)[1] = Agent
          /\ LET files == [i \in 1 .. Len(told.tried) - 1 |-> told.tried[i + 1][1]]
             IN files = IF KeyFiles(url) = << >> THEN <<"files">> ELSE KeyFiles(url)

(* "users with a sane ~/.ssh/config + ssh-agent setup never see an auth     *)
(* prompt" (cycle-1 spec, section 7): the agent is asked for credentials    *)
(* only if nothing the user has set up is accepted, or the network was      *)
(* down.  What the chain cannot use though it is accepted: a key that needs *)
(* a passphrase, the key of the config below the home directory, a default  *)
(* key next to one of the config, and anything for a host behind another.   *)
AskedInVain ==
    LET named == world.config[url.name].key
        setUp == (IF world.agent THEN {Agent} ELSE {}) \cup ToSet(world.keys)
                     \cup ({named} \ {None})
    IN told.code = "needed" /\ ~gap /\ goal.host \notin world.inner =>
          \A way \in setUp : Admits(goal, way) =>
              \/ way \in world.locked
              \/ way = named /\ way \in world.home
              \/ way # named /\ named # None /\ way # Agent

(* The config says nothing of the name that the path does not say.          *)
Plain(u) == Looked(u) = Account(u.name, Or(u.port, 22), u.user)

(* A retry that sends back the account of the answer, with a password or a  *)
(* key file that the machine takes from that account, gets in: the prompt   *)
(* names the account the chain had tried, which the path does not.  After a *)
(* retry that was rejected this is so no longer: the second prompt names    *)
(* the host as the path does, and no port, and what the config says of it   *)
(* is lost.                                                                 *)
RetryGetsIn ==
    /\ told.code = "rejected" /\ ~gap
    /\ extra.copied /\ extra.method \in {"password", "identity_file"}
    /\ Admits(meant, extra.secret)
    => \/ meant.host \in world.inner
       \/ extra.secret \in world.locked /\ ~extra.phrase
       \/ extra.to = "rejected" /\ ~Plain(url)
=============================================================================
