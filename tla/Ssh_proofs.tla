----------------------------- MODULE Ssh_proofs -----------------------------
(***************************************************************************)
(* The two ways to a remote file.                                          *)
(*                                                                         *)
(* Login, for any machine, config, keys and network: what the prompt for   *)
(* credentials tells was tried, in its order; the prompt comes only when   *)
(* nothing the chain can use is accepted; and a retry that repeats the     *)
(* account of the first prompt connects to the account the chain tried.    *)
(*                                                                         *)
(* SessionHolder, for any set of callers.  The inductive invariant adds to *)
(* the checked invariants what each point of a method knows about          *)
(* self._sftp: an exec runs only after the handle is dropped, and fn runs  *)
(* only with a handle.                                                     *)
(***************************************************************************)
EXTENDS Login, SessionHolder, SequenceTheorems, TLAPS

Results == {"success", "rejected", "skipped", "no_keys"}
Attempts == (Keys \cup {Agent, "files"}) \X Results

(* The types of the steps; the account of a path in use can be looked up.  *)
Types ==
    /\ world \in Worlds /\ url \in URLs \cup {None}
    /\ at \in {"idle", "agent", "keys", "explicit", "open"}
    /\ net \in BOOLEAN /\ gap \in BOOLEAN
    /\ left \in Seq(Keys) /\ tried \in Seq(Attempts)
    /\ told.code \in Codes
    /\ at # "idle" => DOMAIN goal = {"host", "port", "user"} /\ told = NoAnswer
    /\ at # "idle" \/ told.code \in {"needed", "rejected"} => url \in URLs
    /\ at # "idle" /\ ~gap => net

(* The chain has tried the agent and the first files, and has the others   *)
(* left; the prompt tells all.                                             *)
Chain ==
    /\ at = "agent" => tried = << >> /\ left = KeyFiles(url)
    /\ at = "keys" =>
         /\ tried # << >> /\ tried[1][1] = Agent
         /\ Len(tried) - 1 + Len(left) = Len(KeyFiles(url))
         /\ \A i \in 1 .. Len(tried) - 1 : tried[i + 1][1] = KeyFiles(url)[i]
         /\ \A i \in 1 .. Len(left) : left[i] = KeyFiles(url)[Len(tried) - 1 + i]
    /\ told.code = "needed" =>
         /\ Head(told.tried)[1] = Agent
         /\ LET files == [i \in 1 .. Len(told.tried) - 1 |-> told.tried[i + 1][1]]
            IN files = IF KeyFiles(url) = << >> THEN <<"files">> ELSE KeyFiles(url)

(* Of what the chain has tried nothing that it can use is accepted.        *)
Excused(way) == way \in world.locked \/ (Named(way) /\ way \in world.home)

Refused ==
    at = "keys" /\ ~gap /\ goal.host \notin world.inner =>
        /\ world.agent /\ Admits(goal, Agent) => FALSE
        /\ \A i \in 1 .. Len(tried) - 1 :
              Admits(goal, KeyFiles(url)[i]) => Excused(KeyFiles(url)[i])

(* Whose account the calls of a conversation connect to.                   *)
Goals ==
    /\ at # "idle" \/ told.code \in {"needed", "rejected"} => meant = Looked(url)
    /\ at \in {"agent", "keys"} => goal = meant
    /\ told.code = "needed" => told.context = meant
    /\ told.code = "rejected" => told.context = Account(url.name, None, url.user)
    /\ at = "explicit" /\ extra.copied => goal = meant \/ (extra.to = "rejected" /\ ~Plain(url))

LoginInv == Types /\ Chain /\ Refused /\ Goals /\ AskedInVain /\ RetryGetsIn
-----------------------------------------------------------------------------
LEMMA LenZero == ASSUME NEW S, NEW s \in Seq(S) PROVE Len(s) = 0 <=> s = << >>
BY EmptySeq

LEMMA KeysTyped ==
    ASSUME NEW u \in URLs, world \in Worlds PROVE KeyFiles(u) \in Seq(Keys)
<1>1. u.name \in DOMAIN world.config /\ world.keys \in Seq(Keys)
    BY LoginAssumptions
<1>2. world.config[u.name].key \in Keys \cup {None}
    BY <1>1, LoginAssumptions
<1>3. CASE world.config[u.name].key # None
    <2> DEFINE k == world.config[u.name].key
    <2>1. k \in Keys /\ KeyFiles(u) = <<k>>
        BY <1>2, <1>3 DEF KeyFiles
    <2> HIDE DEF k
    <2> QED
        BY <2>1
<1> QED
    BY <1>1, <1>3 DEF KeyFiles

LEMMA InitLogin == LoginInit => LoginInv
<1> SUFFICES ASSUME LoginInit PROVE LoginInv
    OBVIOUS
<1>1. told.code = "nothing" /\ at = "idle"
    BY DEF LoginInit, NoAnswer
<1>2. Types
    BY <1>1, EmptySeq DEF LoginInit, Types, Codes
<1> QED
    BY <1>1, <1>2 DEF LoginInv, Chain, Refused, Goals, AskedInVain, RetryGetsIn

(* A step within a call that leaves it under way.                          *)
LEMMA UnderWay ==
    ASSUME at' # "idle", told' = NoAnswer PROVE (AskedInVain /\ RetryGetsIn)'
BY DEF AskedInVain, RetryGetsIn, NoAnswer

LEMMA AskStep == ASSUME LoginInv, NEW u \in URLs, Ask(u) PROVE LoginInv'
<1> USE DEF LoginInv
<1>1. at = "idle" /\ world' = world /\ url' = u /\ tried' = << >> /\ gap' = ~net /\ net' = net
    BY DEF Ask, Begin
<1>2. CASE JumpsForever(world, u.name)
    <2>1. at' = "idle" /\ told'.code = "internal_error" /\ left' = << >>
        BY <1>2 DEF Ask, Answer, NoAnswer
    <2>2. Types'
        BY <1>1, <2>1, EmptySeq DEF Types, Codes
    <2> QED
        BY <2>1, <2>2 DEF Chain, Refused, Goals, AskedInVain, RetryGetsIn
<1>3. CASE ~JumpsForever(world, u.name)
    <2>1. /\ at' = "agent" /\ told' = NoAnswer /\ left' = KeyFiles(u)
          /\ goal' = Looked(u) /\ meant' = Looked(u)
        BY <1>3 DEF Ask, Begin
    <2>2. told'.code = "nothing"
        BY <2>1 DEF NoAnswer
    <2>3. Types'
        <3>1. DOMAIN goal' = {"host", "port", "user"}
            BY <2>1 DEF Looked, Account
        <3>2. left' \in Seq(Keys) /\ tried' \in Seq(Attempts)
            BY <1>1, <2>1, KeysTyped, EmptySeq DEF Types
        <3> QED
            BY <1>1, <2>1, <2>2, <3>1, <3>2 DEF Types, Codes
    <2>4. Chain' /\ Refused' /\ Goals'
        BY <1>1, <2>1, <2>2 DEF Chain, Refused, Goals, KeyFiles, Looked
    <2> QED
        BY <2>1, <2>3, <2>4, UnderWay
<1> QED
    BY <1>2, <1>3

(* The account of the first prompt, sent back, is the one the chain tried. *)
LEMMA AskWithStep ==
    ASSUME LoginInv, NEW x \in Extras, told.code \in {"needed", "rejected"}, AskWith(url, x)
    PROVE  LoginInv'
<1> USE DEF LoginInv
<1> DEFINE context == IF x.copied THEN told.context ELSE NoAnswer.context
<1>1. /\ at = "idle" /\ world' = world /\ url' = url /\ tried' = << >> /\ gap' = ~net /\ net' = net
      /\ at' = "explicit" /\ told' = NoAnswer /\ left' = << >> /\ meant' = meant
      /\ extra' = [x EXCEPT !.to = told.code]
      /\ goal' = Account(Or(context.host, url.name), Or(context.port, Or(url.port, 22)),
                         Or(context.user, url.user))
    BY DEF AskWith, Begin
<1>2. url \in URLs /\ told'.code = "nothing"
    BY <1>1 DEF Types, NoAnswer
<1>3. Types'
    <2>1. DOMAIN goal' = {"host", "port", "user"}
        BY <1>1 DEF Account
    <2> QED
        BY <1>1, <1>2, <2>1, EmptySeq DEF Types, Codes
<1>4. extra'.copied = x.copied /\ extra'.to = told.code
    BY <1>1 DEF Extras, Extra
<1>5. ASSUME x.copied PROVE goal' = meant \/ (told.code = "rejected" /\ ~Plain(url))
    <2>1. CASE told.code = "needed"
        <3>1. context = Looked(url) /\ meant = Looked(url)
            BY <1>5, <2>1 DEF Goals
        <3>2. world.config[url.name].host # None /\ world.config[url.name].port # None
            BY <1>2, LoginAssumptions DEF Types
        <3> HIDE DEF context
        <3> QED
            BY <1>1, <3>1, <3>2 DEF Looked, Account, Or
    <2>2. CASE told.code = "rejected"
        <3>1. context = Account(url.name, None, url.user) /\ meant = Looked(url)
            BY <1>5, <2>2 DEF Goals
        <3> HIDE DEF context
        <3>2. context.host = url.name /\ context.port = None /\ context.user = url.user
            BY <3>1 DEF Account
        <3>3. goal' = Account(url.name, Or(url.port, 22), url.user)
            BY <1>1, <3>2 DEF Or
        <3> QED
            BY <2>2, <3>1, <3>3 DEF Plain
    <2> QED
        BY <2>1, <2>2
<1>6. Goals'
    <2>1. meant' = Looked(url)' /\ (Plain(url)' <=> Plain(url))
        BY <1>1 DEF Goals, Looked, Plain
    <2> QED
        BY <1>1, <1>2, <1>4, <1>5, <2>1 DEF Goals
<1>7. Chain' /\ Refused'
    BY <1>1, <1>2 DEF Chain, Refused
<1> QED
    BY <1>1, <1>3, <1>6, <1>7, UnderWay

(* What an attempt adds to those before it.                                *)
LEMMA Tried ==
    ASSUME tried \in Seq(Attempts), NEW m \in Keys \cup {Agent, "files"}, NEW r \in Results,
           Trying(m, r)
    PROVE  /\ tried' \in Seq(Attempts) /\ Len(tried) \in Nat /\ Len(tried') = Len(tried) + 1
           /\ \A i \in 1 .. Len(tried) : tried'[i] = tried[i]
           /\ tried'[Len(tried) + 1][1] = m
<1>1. <<m, r>> \in Attempts /\ <<m, r>>[1] = m
    BY DEF Attempts
<1> DEFINE a == <<m, r>>
<1>2. a \in Attempts /\ a[1] = m /\ tried' = Append(tried, a)
    BY <1>1 DEF Trying
<1> HIDE DEF a
<1> QED
    BY <1>2, AppendProperties, LenProperties

LEMMA TryAgentStep == ASSUME LoginInv, TryAgent PROVE LoginInv'
<1> USE DEF LoginInv
<1>1. at = "agent" /\ Step /\ left' = left /\ told' = told /\ url \in URLs /\ told = NoAnswer
    BY DEF TryAgent, Types
<1>2. PICK r \in Results :
          /\ Trying(Agent, r) /\ at' \in {"open", "keys"}
          /\ at' = "keys" => ~(world.agent /\ Connects(Agent))
    BY DEF TryAgent, Results
<1>3. tried = << >> /\ left = KeyFiles(url)
    BY <1>1 DEF Chain
<1>4. /\ tried' \in Seq(Attempts) /\ Len(tried) = 0 /\ Len(tried') = 1 /\ tried'[1][1] = Agent
    <2>1. Len(tried) = 0 /\ Len(tried) + 1 = 1
        BY <1>3
    <2>2. tried \in Seq(Attempts)
        BY DEF Types
    <2>3. tried' \in Seq(Attempts) /\ Len(tried') = Len(tried) + 1 /\ tried'[Len(tried) + 1][1] = Agent
        BY <1>2, <2>2, Tried
    <2> QED
        BY <2>1, <2>3
<1>5. told.code = "nothing" /\ left \in Seq(Keys) /\ Len(left) \in Nat
    BY <1>1, LenProperties DEF NoAnswer, Types
<1>6. Types'
    BY <1>1, <1>2, <1>4 DEF Types, Step
<1>7. Chain'
    <2>1. tried' # << >>
        <3>1. tried' \in Seq(Attempts) /\ Len(tried') # 0
            BY <1>4
        <3> QED
            BY <3>1, LenZero
    <2>2. KeyFiles(url)' = KeyFiles(url)
        BY <1>1 DEF Step, KeyFiles
    <2>3. Len(tried') - 1 = 0 /\ Len(tried') - 1 + Len(left') = Len(KeyFiles(url)')
        BY <1>1, <1>3, <1>4, <1>5, <2>2
    <2>4. \A i \in 1 .. Len(left') : left'[i] = KeyFiles(url)'[Len(tried') - 1 + i]
        BY <1>1, <1>3, <1>4, <1>5, <2>2
    <2> QED
        BY <1>1, <1>2, <1>4, <1>5, <2>1, <2>3, <2>4 DEF Chain
<1>8. Refused'
    <2>1. SUFFICES ASSUME at' = "keys", ~gap', (goal.host \notin world.inner)'
                   PROVE  /\ (world.agent /\ Admits(goal, Agent))' => FALSE
                          /\ \A i \in 1 .. Len(tried') - 1 :
                                Admits(goal, KeyFiles(url)[i])' => Excused(KeyFiles(url)[i])'
        BY DEF Refused
    <2>3. \A i \in 1 .. Len(tried') - 1 : FALSE
        BY <1>4
    <2>2. net /\ goal.host \notin world.inner
        BY <1>1, <2>1 DEF Types, Step
    <2> QED
        BY <1>1, <1>2, <2>1, <2>2, <2>3 DEF Connects, Admits, Step
<1>9. Goals'
    BY <1>1, <1>2, <1>5 DEF Goals, Step, Looked
<1> QED
    BY <1>1, <1>2, <1>6, <1>7, <1>8, <1>9, UnderWay

LEMMA TryKeyStep == ASSUME LoginInv, TryKey PROVE LoginInv'
<1> USE DEF LoginInv
<1> DEFINE k == Head(left)
           K == KeyFiles(url)
           n == Len(tried)
<1>1. /\ at = "keys" /\ left # << >> /\ left' = Tail(left)
      /\ Step /\ told' = told /\ url \in URLs /\ told = NoAnswer
    BY DEF TryKey, Types
<1>2. left \in Seq(Keys) /\ tried \in Seq(Attempts) /\ world \in Worlds
    BY DEF Types
<1>3. /\ k \in Keys /\ k = left[1] /\ left' \in Seq(Keys) /\ Len(left') = Len(left) - 1
      /\ \A i \in 1 .. Len(left') : left'[i] = left[i + 1]
      /\ Len(left) \in Nat \ {0} /\ n \in Nat
    BY <1>1, <1>2, HeadTailProperties, LenProperties, EmptySeq
<1>4. /\ tried # << >> /\ tried[1][1] = Agent /\ n - 1 + Len(left) = Len(K)
      /\ \A i \in 1 .. n - 1 : tried[i + 1][1] = K[i]
      /\ \A i \in 1 .. Len(left) : left[i] = K[n - 1 + i]
    BY <1>1 DEF Chain
<1>5. n >= 1
    BY <1>2, <1>3, <1>4, EmptySeq
<1>6. k = K[n]
    <2>1. 1 \in 1 .. Len(left) /\ n - 1 + 1 = n
        BY <1>3
    <2> QED
        BY <1>3, <1>4, <2>1
<1> HIDE DEF k
<1>7. PICK r \in Results :
          /\ Trying(k, r) /\ at' \in {"open", "keys"}
          /\ at' = "keys" => ~(Usable(k) /\ Connects(k))
    BY DEF TryKey, Results, k
<1>8. /\ tried' \in Seq(Attempts) /\ Len(tried') = n + 1
      /\ \A i \in 1 .. n : tried'[i] = tried[i]
      /\ tried'[n + 1][1] = k
    BY <1>2, <1>3, <1>7, Tried
<1>9. told.code = "nothing" /\ K' = K
    BY <1>1 DEF NoAnswer, Step, KeyFiles
<1>10. Types'
    BY <1>1, <1>3, <1>7, <1>8 DEF Types, Step
<1> HIDE DEF K, n
<1>11. Chain'
    <2>1. tried' # << >> /\ tried'[1][1] = Agent
        BY <1>3, <1>4, <1>5, <1>8, EmptySeq
    <2>2. Len(tried') - 1 + Len(left') = Len(K)
        BY <1>3, <1>4, <1>8
    <2>3. ASSUME NEW i \in 1 .. Len(tried') - 1 PROVE tried'[i + 1][1] = K[i]
        <3>1. CASE i = n
            BY <1>6, <1>8, <3>1
        <3>2. CASE i # n
            <4>1. i \in 1 .. n - 1 /\ i + 1 \in 1 .. n
                BY <1>3, <1>8, <3>2
            <4> QED
                BY <1>4, <1>8, <4>1
        <3> QED
            BY <3>1, <3>2
    <2>4. ASSUME NEW i \in 1 .. Len(left') PROVE left'[i] = K[Len(tried') - 1 + i]
        <3>1. i + 1 \in 1 .. Len(left) /\ Len(tried') - 1 + i = n - 1 + (i + 1)
            BY <1>3, <1>8
        <3> QED
            BY <1>3, <1>4, <3>1
    <2> QED
        BY <1>1, <1>7, <1>9, <2>1, <2>2, <2>3, <2>4 DEF Chain, K
<1>12. Refused'
    <2>1. SUFFICES ASSUME at' = "keys", ~gap', (goal.host \notin world.inner)'
                   PROVE  /\ (world.agent /\ Admits(goal, Agent))' => FALSE
                          /\ \A i \in 1 .. Len(tried') - 1 :
                                Admits(goal, K[i])' => Excused(K[i])'
        BY <1>9 DEF Refused, K
    <2>2. net /\ goal.host \notin world.inner /\ ~gap
        BY <1>1, <2>1 DEF Types, Step
    <2>3. /\ world.agent /\ Admits(goal, Agent) => FALSE
          /\ \A i \in 1 .. n - 1 : Admits(goal, K[i]) => Excused(K[i])
        BY <1>1, <2>2 DEF Refused, K, n
    <2>4. Admits(goal, K[n]) => Excused(K[n])
        BY <1>6, <1>7, <2>1, <2>2 DEF Connects, Usable, Excused
    <2>5. \A i \in 1 .. Len(tried') - 1 : i = n \/ i \in 1 .. n - 1
        BY <1>3, <1>8
    <2>6. \A i \in 1 .. Len(tried') - 1 : Admits(goal, K[i]) => Excused(K[i])
        BY <2>3, <2>4, <2>5
    <2> QED
        BY <1>1, <1>9, <2>3, <2>6 DEF Step, Admits, Excused, Named
<1>13. Goals'
    BY <1>1, <1>7, <1>9 DEF Goals, Step, Looked
<1> QED
    BY <1>1, <1>7, <1>10, <1>11, <1>12, <1>13, UnderWay

LEMMA NoKeyLeftStep == ASSUME LoginInv, NoKeyLeft PROVE LoginInv'
<1> USE DEF LoginInv
<1> DEFINE K == KeyFiles(url)
           n == Len(tried)
           files == [i \in 1 .. Len(tried') - 1 |-> tried'[i + 1][1]]
<1>1. /\ at = "keys" /\ left = << >> /\ at' = "idle" /\ Step /\ left' = left /\ url \in URLs
      /\ tried' = IF n = 1 THEN Append(tried, <<"files", "no_keys">>) ELSE tried
      /\ told' = [code |-> "needed", context |-> goal, tried |-> tried']
    BY DEF NoKeyLeft, Types
<1>2. /\ tried \in Seq(Attempts) /\ n \in Nat /\ K \in Seq(Keys) /\ Len(K) \in Nat
      /\ K \in [1 .. Len(K) -> Keys]
    BY <1>1, KeysTyped, LenProperties DEF Types
<1>3. /\ tried # << >> /\ tried[1][1] = Agent /\ n - 1 = Len(K)
      /\ \A i \in 1 .. n - 1 : tried[i + 1][1] = K[i]
    <2>1. Len(left) = 0
        BY <1>1
    <2>2. n - 1 + Len(left) = Len(K)
        BY <1>1 DEF Chain
    <2> QED
        BY <1>1, <1>2, <2>1, <2>2 DEF Chain
<1>4. told'.code = "needed" /\ told'.context = goal /\ told'.tried = tried'
    BY <1>1
<1>5. K' = K
    BY <1>1 DEF Step, KeyFiles
<1>6. /\ tried' \in Seq(Attempts) /\ tried' # << >> /\ tried'[1][1] = Agent
      /\ files = IF K = << >> THEN <<"files">> ELSE K
    <2>1. CASE n = 1
        <3> DEFINE a == <<"files", "no_keys">>
        <3>1. a \in Attempts /\ a[1] = "files"
            BY DEF Attempts, Results
        <3> HIDE DEF a
        <3>2. /\ tried' \in Seq(Attempts) /\ Len(tried') = n + 1
              /\ \A i \in 1 .. n : tried'[i] = tried[i]
              /\ tried'[n + 1] = a
            <4>1. tried' = Append(tried, a)
                BY <1>1, <2>1 DEF a
            <4> QED
                BY <1>2, <3>1, <4>1, AppendProperties
        <3>3. K = << >>
            BY <1>2, <1>3, <2>1, EmptySeq
        <3>4. Len(tried') - 1 = 1 /\ tried'[2][1] = "files"
            BY <2>1, <3>1, <3>2
        <3>5. files = [i \in 1 .. 1 |-> "files"]
            <4>1. \A i \in 1 .. 1 : tried'[i + 1][1] = "files"
                BY <3>4
            <4> QED
                BY <3>4, <4>1
        <3>6. [i \in 1 .. 1 |-> "files"] = <<"files">>
            OBVIOUS
        <3>7. tried' # << >> /\ tried'[1][1] = Agent
            BY <1>3, <2>1, <3>2
        <3> QED
            BY <3>2, <3>3, <3>5, <3>6, <3>7
    <2>2. CASE n # 1
        <3>1. tried' = tried /\ Len(K) # 0 /\ K # << >>
            BY <1>1, <1>2, <1>3, <2>2
        <3>2. files = [i \in 1 .. Len(K) |-> K[i]]
            BY <1>3, <3>1
        <3>3. K = [i \in 1 .. Len(K) |-> K[i]]
            BY <1>2
        <3> QED
            BY <1>2, <1>3, <3>1, <3>2, <3>3
    <2> QED
        BY <2>1, <2>2
<1>7. Types'
    BY <1>1, <1>4, <1>6 DEF Types, Step, Codes
<1>8. Chain'
    <2>1. Head(told'.tried) = tried'[1]
        BY <1>4, <1>6, HeadTailProperties
    <2> QED
        BY <1>1, <1>4, <1>5, <1>6, <2>1 DEF Chain
<1>9. Refused' /\ Goals'
    BY <1>1, <1>4 DEF Refused, Goals, Step, Looked
<1>10. RetryGetsIn'
    BY <1>4 DEF RetryGetsIn
<1>11. AskedInVain'
    <2> DEFINE named == world.config[url.name].key
               setUp == (IF world.agent THEN {Agent} ELSE {}) \cup ToSet(world.keys)
                            \cup ({named} \ {None})
    <2>1. SUFFICES ASSUME ~gap, goal.host \notin world.inner, NEW way \in setUp, Admits(goal, way)
                   PROVE  \/ way \in world.locked
                          \/ way = named /\ way \in world.home
                          \/ way # named /\ named # None /\ way # Agent
        BY <1>1 DEF AskedInVain, Step, Admits
    <2>2. /\ world.agent /\ Admits(goal, Agent) => FALSE
          /\ \A i \in 1 .. Len(K) : Admits(goal, K[i]) => Excused(K[i])
        BY <1>1, <1>3, <2>1 DEF Refused
    <2>3. \A i \in 1 .. Len(K) :
              way = K[i] => way \in world.locked \/ (way = named /\ way \in world.home)
        BY <2>1, <2>2 DEF Excused, Named
    <2>4. CASE way \in ToSet(world.keys)
        <3>1. world.keys \in Seq(Keys)
            BY LoginAssumptions DEF Types
        <3>2. PICK i \in 1 .. Len(world.keys) : way = world.keys[i]
            BY <2>4, <3>1, LenProperties DEF ToSet
        <3>3. way \in Keys
            BY <3>1, <3>2, ElementOfSeq
        <3>4. way # Agent
            BY <3>3, LoginAssumptions
        <3>5. CASE named = None
            BY <2>3, <3>2, <3>5 DEF KeyFiles
        <3>6. CASE named # None /\ way = named
            BY <2>3, <3>6 DEF KeyFiles
        <3> QED
            BY <3>4, <3>5, <3>6
    <2>5. CASE way = named /\ named # None
        <3>1. K = <<named>>
            BY <2>5 DEF KeyFiles
        <3>2. 1 \in 1 .. Len(K) /\ K[1] = named
            BY <3>1
        <3> QED
            BY <2>3, <2>5, <3>2
    <2>6. CASE world.agent /\ way = Agent
        BY <2>1, <2>2, <2>6
    <2> QED
        BY <2>1, <2>4, <2>5, <2>6
<1> QED
    BY <1>7, <1>8, <1>9, <1>10, <1>11

LEMMA TryExplicitStep == ASSUME LoginInv, TryExplicit PROVE LoginInv'
<1> USE DEF LoginInv
<1>1. at = "explicit" /\ Step /\ left' = left /\ tried' = tried /\ url \in URLs /\ told = NoAnswer
    BY DEF TryExplicit, Types
<1>2. CASE Presented
    <2>1. at' = "open" /\ told' = told /\ told'.code = "nothing"
        BY <1>1, <1>2 DEF TryExplicit, NoAnswer
    <2>2. Types' /\ Chain' /\ Refused' /\ Goals'
        BY <1>1, <2>1 DEF Types, Chain, Refused, Goals, Step, Looked
    <2> QED
        BY <1>1, <2>1, <2>2, UnderWay
<1>3. CASE ~Presented
    <2>1. /\ at' = "idle" /\ told'.code = "rejected"
          /\ told'.context = Account(url.name, None, url.user)
        BY <1>3 DEF TryExplicit
    <2>2. Types'
        BY <1>1, <2>1 DEF Types, Step, Codes
    <2>3. Chain' /\ Refused' /\ Goals' /\ AskedInVain'
        BY <1>1, <2>1 DEF Chain, Refused, Goals, AskedInVain, Step, Looked
    <2>4. RetryGetsIn'
        <3>1. SUFFICES ASSUME ~gap, extra.copied, extra.method \in {"password", "identity_file"},
                              Admits(meant, extra.secret)
                       PROVE  \/ meant.host \in world.inner
                              \/ extra.secret \in world.locked /\ ~extra.phrase
                              \/ extra.to = "rejected" /\ ~Plain(url)
            BY <1>1 DEF RetryGetsIn, Step, Admits, Plain, Looked
        <3>2. net
            BY <1>1, <3>1 DEF Types
        <3>3. goal = meant \/ (extra.to = "rejected" /\ ~Plain(url))
            BY <1>1, <3>1 DEF Goals
        <3> QED
            BY <1>3, <3>1, <3>2, <3>3 DEF Presented, Connects
    <2> QED
        BY <2>2, <2>3, <2>4
<1> QED
    BY <1>2, <1>3

LEMMA OpenFileStep == ASSUME LoginInv, OpenFile PROVE LoginInv'
<1> USE DEF LoginInv
<1>1. /\ at = "open" /\ at' = "idle" /\ Step /\ left' = left /\ tried' = tried /\ url \in URLs
      /\ told'.code \in {"success", "file_not_found", "remote_file_not_found", "internal_error"}
    BY DEF OpenFile, Answer, NoAnswer, Types
<1>2. Types'
    BY <1>1 DEF Types, Step, Codes
<1> QED
    BY <1>1, <1>2 DEF Chain, Refused, Goals, AskedInVain, RetryGetsIn

(* The network changes only what is still to come.                         *)
LEMMA FlipStep == ASSUME LoginInv, Flip PROVE LoginInv'
<1> USE DEF LoginInv
<1>1. /\ UNCHANGED <<world, at, url, goal, left, tried, extra, told, meant>>
      /\ net \in BOOLEAN /\ net' = ~net /\ gap' = (gap \/ (at # "idle" /\ net))
    BY DEF Flip, Types
<1>2. net' \in BOOLEAN /\ gap' \in BOOLEAN /\ (~gap' => ~gap) /\ (at # "idle" /\ ~gap' => net')
    BY <1>1 DEF Types
<1>3. Types' /\ Chain' /\ Goals'
    BY <1>1, <1>2 DEF Types, Chain, Goals, KeyFiles, Looked, Plain
<1>4. Refused' /\ AskedInVain' /\ RetryGetsIn'
    BY <1>1, <1>2 DEF Refused, AskedInVain, RetryGetsIn, Admits, KeyFiles, Excused, Named,
        Plain, Looked
<1> QED
    BY <1>3, <1>4

LEMMA LoginInvStep == LoginInv /\ [LoginNext]_loginVars => LoginInv'
<1> SUFFICES ASSUME LoginInv, [LoginNext]_loginVars PROVE LoginInv'
    OBVIOUS
<1>1. CASE UNCHANGED loginVars
    <2>1. (Types /\ Chain /\ Goals)'
        BY <1>1 DEF loginVars, LoginInv, Types, Chain, Goals, KeyFiles, Looked, Plain
    <2>2. (Refused /\ AskedInVain /\ RetryGetsIn)'
        BY <1>1 DEF loginVars, LoginInv, Refused, AskedInVain, RetryGetsIn, Admits, KeyFiles,
            Excused, Named, Plain, Looked
    <2> QED
        BY <2>1, <2>2 DEF LoginInv
<1> QED
    BY <1>1, AskStep, AskWithStep, TryAgentStep, TryKeyStep, NoKeyLeftStep, TryExplicitStep,
        OpenFileStep, FlipStep DEF LoginNext

(* The inductive invariant of a conversation.                              *)
THEOREM LoginInvHolds == LoginSpec => []LoginInv
BY InitLogin, LoginInvStep, PTL DEF LoginSpec

(* silent_auth_chain and the prompt: the agent is told what was tried, in  *)
(* its order, and a call under way has an account.                         *)
THEOREM LoginTypes == LoginSpec => []LoginTypeOK
<1>1. LoginInv => LoginTypeOK
    BY DEF LoginInv, Types, Chain, LoginTypeOK
<1> QED
    BY <1>1, LoginInvHolds, PTL

(* silent_auth_chain: credentials are asked for only when nothing the user *)
(* has set up, and the chain can use, is accepted, or the network failed.  *)
THEOREM NotAskedInVain == LoginSpec => []AskedInVain
<1>1. LoginInv => AskedInVain
    BY DEF LoginInv
<1> QED
    BY <1>1, LoginInvHolds, PTL

(* open with an ssh_config: the first retry with right credentials is not  *)
(* rejected, as it names the account the chain had looked up.              *)
THEOREM RetriesGetIn == LoginSpec => []RetryGetsIn
<1>1. LoginInv => RetryGetsIn
    BY DEF LoginInv
<1> QED
    BY <1>1, LoginInvHolds, PTL

-----------------------------------------------------------------------------
(* The session holder. *)

HandleByPoint ==
    \A c \in Callers :
        /\ pc[c] = "run" => sftp
        /\ pc[c] \in {"open_exec", "close_client"} \cup ExecPoints => ~sftp

AtMostOneEach == chans["sftp"] <= 1 /\ chans["exec"] <= 1

IInv == /\ TypeOK
        /\ LockMatchesCall
        /\ HandleByPoint
        /\ AtMostOneEach
        /\ ExecChannelOwned
        /\ HandleMatchesChannel

USE DEF PCs, Ops, Kinds, Holding, ExecPoints

(* Facts that follow from the inductive invariant in one state. *)
LEMMA IInvImpliesOneChannel == IInv => OneChannel
  BY DEF IInv, TypeOK, OneChannel, HandleByPoint, AtMostOneEach,
         ExecChannelOwned, HandleMatchesChannel

(* The lock makes the point of the holder the only point past the lock. *)
LEMMA OneHolder ==
  ASSUME LockMatchesCall, NEW c \in Callers, NEW d \in Callers,
         pc[c] \in Holding, pc[d] \in Holding
  PROVE  c = d
  BY DEF LockMatchesCall

(* Closing a channel keeps the counters natural and raises none. *)
LEMMA CloseLemma ==
  ASSUME chans \in [Kinds -> Nat], NEW k \in Kinds, Closed(k)
  PROVE  /\ chans' \in [Kinds -> Nat]
         /\ \A j \in Kinds : chans'[j] <= chans[j]
  BY DEF Closed

LEMMA InitIInv == Init => IInv
  <1> SUFFICES ASSUME Init PROVE IInv
    OBVIOUS
  <1> USE NoCallerAssumption DEF Init
  <1>1. TypeOK
    BY DEF TypeOK
  <1>2. LockMatchesCall /\ HandleByPoint
    BY DEF LockMatchesCall, HandleByPoint
  <1>3. AtMostOneEach /\ ExecChannelOwned /\ HandleMatchesChannel
    BY DEF AtMostOneEach, ExecChannelOwned, HandleMatchesChannel
  <1> QED
    BY <1>1, <1>2, <1>3 DEF IInv

LEMMA StepIInv == IInv /\ [Next]_vars => IInv'
  <1> SUFFICES ASSUME IInv, [Next]_vars PROVE IInv'
    OBVIOUS
  <1> USE NoCallerAssumption
  <1> USE DEF IInv, TypeOK, LockMatchesCall, HandleByPoint, AtMostOneEach,
              ExecChannelOwned, HandleMatchesChannel
  <1>1. ASSUME NEW c \in Callers, NEW m \in Ops, Call(c, m) PROVE IInv'
    BY <1>1 DEF Call, wireVars
  <1>2. ASSUME NEW c \in Callers, Acquire(c) PROVE IInv'
    <2>1. Entry[op[c]] \in {"reopen", "free_slot", "close_sftp"}
      BY DEF Entry
    <2> QED BY <1>2, <2>1 DEF Acquire, wireVars
  <1>3. ASSUME NEW c \in Callers, ReopenSftp(c) PROVE IInv'
    <2> USE <1>3 DEF Goto, Return, Opened, wireVars
    <2>1. CASE sftp /\ Goto(c, "run") /\ UNCHANGED wireVars
      BY <2>1 DEF ReopenSftp
    <2>2. CASE /\ ~sftp /\ Opened("sftp") /\ sftp' = TRUE
               /\ sftpDied' = FALSE /\ Goto(c, "run") /\ UNCHANGED <<up, remote>>
      <3>1. chans["sftp"] = 0
        BY <2>2
      <3>2. chans' \in [Kinds -> Nat] /\ chans'["sftp"] = 1
              /\ chans'["exec"] = chans["exec"]
        BY <2>2, <3>1
      <3>3. TypeOK'
        BY <2>2, <3>2 DEF ReopenSftp
      <3>4. LockMatchesCall' /\ HandleByPoint'
        BY <2>2 DEF ReopenSftp
      <3>5. AtMostOneEach' /\ ExecChannelOwned' /\ HandleMatchesChannel'
        BY <2>2, <3>2 DEF ReopenSftp
      <3> QED BY <3>3, <3>4, <3>5
    <2>3. CASE ~sftp /\ Return(c, "raised") /\ UNCHANGED wireVars
      BY <2>3 DEF ReopenSftp
    <2> QED BY <2>1, <2>2, <2>3 DEF ReopenSftp
  <1>4. ASSUME NEW c \in Callers, RunOnSftp(c) PROVE IInv'
    BY <1>4 DEF RunOnSftp, Return, wireVars
  <1>5. ASSUME NEW c \in Callers, FreeSlot(c) PROVE IInv'
    <2> USE <1>5 DEF FreeSlot, Goto, Closed
    <2>1. TypeOK'
      <3>1. chans' \in [Kinds -> Nat]
        BY CloseLemma
      <3> QED
        BY <3>1
    <2>2. LockMatchesCall' /\ HandleByPoint'
      OBVIOUS
    <2>3. AtMostOneEach' /\ ExecChannelOwned'
      OBVIOUS
    <2>4. HandleMatchesChannel'
      OBVIOUS
    <2> QED
      BY <2>1, <2>2, <2>3, <2>4
  <1>6. ASSUME NEW c \in Callers, OpenExec(c) PROVE IInv'
    <2> USE <1>6 DEF OpenExec, Goto, Return, Opened
    <2>1. TypeOK'
      OBVIOUS
    <2>2. LockMatchesCall' /\ HandleByPoint'
      OBVIOUS
    <2>3. AtMostOneEach' /\ ExecChannelOwned'
      OBVIOUS
    <2>4. HandleMatchesChannel'
      OBVIOUS
    <2> QED
      BY <2>1, <2>2, <2>3, <2>4
  <1>7. ASSUME NEW c \in Callers, NEW here \in ExecPoints, NEW next \in ExecPoints,
               ExecStep(c, here, next)
        PROVE  IInv'
    BY <1>7 DEF ExecStep, wireVars
  <1>8. ASSUME NEW c \in Callers, CloseExec(c) PROVE IInv'
    <2> USE <1>8 DEF CloseExec, Return, Closed
    <2>1. TypeOK'
      OBVIOUS
    <2>2. LockMatchesCall' /\ HandleByPoint'
      OBVIOUS
    <2>3. AtMostOneEach' /\ ExecChannelOwned'
      OBVIOUS
    <2>4. HandleMatchesChannel'
      OBVIOUS
    <2> QED
      BY <2>1, <2>2, <2>3, <2>4
  <1>9. ASSUME NEW c \in Callers, CloseSftp(c) PROVE IInv'
    <2> USE <1>9 DEF CloseSftp, Goto, Closed
    <2>1. TypeOK'
      <3>1. chans' \in [Kinds -> Nat]
        BY CloseLemma
      <3> QED
        BY <3>1
    <2>2. LockMatchesCall' /\ HandleByPoint'
      OBVIOUS
    <2>3. AtMostOneEach' /\ ExecChannelOwned'
      OBVIOUS
    <2>4. HandleMatchesChannel'
      OBVIOUS
    <2> QED
      BY <2>1, <2>2, <2>3, <2>4
  <1>10. ASSUME NEW c \in Callers, CloseClient(c) PROVE IInv'
    <2> USE <1>10 DEF CloseClient, Return
    <2>1. TypeOK'
      OBVIOUS
    <2>2. LockMatchesCall' /\ HandleByPoint'
      OBVIOUS
    <2>3. AtMostOneEach' /\ ExecChannelOwned'
      OBVIOUS
    <2>4. HandleMatchesChannel'
      OBVIOUS
    <2> QED
      BY <2>1, <2>2, <2>3, <2>4
  <1>11. CASE Drop
    <2> USE <1>11 DEF Drop, callerVars
    <2>1. chans' \in [Kinds -> Nat] /\ chans'["sftp"] = 0 /\ chans'["exec"] = 0
      OBVIOUS
    <2>2. TypeOK'
      BY <2>1
    <2>3. LockMatchesCall' /\ HandleByPoint'
      OBVIOUS
    <2>4. AtMostOneEach' /\ ExecChannelOwned' /\ HandleMatchesChannel'
      BY <2>1
    <2> QED
      BY <2>2, <2>3, <2>4
  <1>12. ASSUME NEW k \in Kinds, ChannelEnds(k) PROVE IInv'
    <2> USE <1>12 DEF ChannelEnds, callerVars
    <2>1. chans' \in [Kinds -> Nat] /\ \A j \in Kinds : chans'[j] <= chans[j]
      BY CloseLemma
    <2>2. TypeOK'
      BY <2>1
    <2>3. LockMatchesCall' /\ HandleByPoint'
      OBVIOUS
    <2>4. AtMostOneEach' /\ ExecChannelOwned'
      BY <2>1
    <2>5. CASE k = "sftp"
      <3>1. sftpDied'
        BY <2>5
      <3>2. HandleMatchesChannel'
        BY <2>1, <3>1
      <3> QED BY <2>2, <2>3, <2>4, <3>2
    <2>6. CASE k = "exec"
      <3>1. chans'["sftp"] = chans["sftp"]
        BY <2>6 DEF Closed
      <3>2. sftpDied' = sftpDied
        BY <2>6
      <3>3. HandleMatchesChannel'
        BY <3>1, <3>2
      <3> QED BY <2>2, <2>3, <2>4, <3>3
    <2> QED
      BY <2>5, <2>6
  <1>13. CASE FallSilent \/ Pour
    BY <1>13 DEF FallSilent, Pour, callerVars
  <1>14. CASE UNCHANGED vars
    BY <1>14 DEF vars
  <1>15. ASSUME NEW c \in Callers, StartExec(c) \/ ReadExec(c) \/ ExitStatus(c) PROVE IInv'
    BY <1>15, <1>7 DEF StartExec, ReadExec, ExitStatus
  <1> QED
    BY <1>1, <1>2, <1>3, <1>4, <1>5, <1>6, <1>8, <1>9, <1>10, <1>11,
       <1>12, <1>13, <1>14, <1>15 DEF Next, UnderLock

LEMMA Invariance == Spec => []IInv
  BY InitIInv, StepIInv, PTL DEF Spec

(* Every variable keeps its type. *)
THEOREM TypeCorrect == Spec => []TypeOK
  BY Invariance, PTL DEF IInv

(* session_holder.py never has two session channels open on its transport, *)
(* however many threads call it and whatever the remote refuses or drops.  *)
THEOREM AlwaysOneChannel == Spec => []OneChannel
  BY Invariance, IInvImpliesOneChannel, PTL

(* The holder is consistent whichever step raises: one channel, a lock held*)
(* by the call past it, no exec channel left, and a truthful handle.       *)
THEOREM HolderStaysConsistent == Spec => []HolderConsistent
  <1>1. IInv => HolderConsistent
    BY IInvImpliesOneChannel DEF IInv, HolderConsistent
  <1> QED
    BY <1>1, Invariance, PTL

----------------------------------------------------------------------------
(* What a step may do to the client that a running fn was given. *)
KeepsClient ==
    \A c \in Callers :
        pc[c] = "run" /\ pc'[c] = "run" =>
            /\ sftp'
            /\ chans'["sftp"] < chans["sftp"] => (~up' \/ sftpDied')

LEMMA StepKeepsClient == IInv /\ [Next]_vars => KeepsClient
  <1> SUFFICES ASSUME IInv, [Next]_vars, NEW c \in Callers,
                      pc[c] = "run", pc'[c] = "run"
               PROVE  /\ sftp'
                      /\ chans'["sftp"] < chans["sftp"] => (~up' \/ sftpDied')
    BY DEF KeepsClient
  <1> USE DEF IInv, TypeOK
  <1>1. sftp /\ lock = c /\ chans["sftp"] \in Nat
    BY DEF HandleByPoint, LockMatchesCall
  <1>2. ASSUME NEW d \in Callers, pc[d] \in Holding PROVE d = c
    BY <1>2, OneHolder
  <1>3. ASSUME NEW d \in Callers, NEW m \in Ops, Call(d, m)
        PROVE  UNCHANGED wireVars
    BY <1>3 DEF Call
  <1>4. ASSUME NEW d \in Callers, Acquire(d) PROVE UNCHANGED wireVars
    BY <1>4 DEF Acquire
  <1>5. ASSUME NEW d \in Callers, UnderLock(d) PROVE FALSE
    <2>1. pc[d] \in Holding
      BY <1>5 DEF UnderLock, ReopenSftp, RunOnSftp, FreeSlot, OpenExec,
                  StartExec, ReadExec, ExitStatus, ExecStep, CloseExec, CloseSftp, CloseClient
    <2>2. d = c
      BY <2>1, <1>2
    <2>3. RunOnSftp(c)
      BY <1>5, <2>2 DEF UnderLock, ReopenSftp, FreeSlot, OpenExec, StartExec,
                        ReadExec, ExitStatus, ExecStep, CloseExec, CloseSftp, CloseClient
    <2> QED
      BY <2>3 DEF RunOnSftp, Return
  <1>6. CASE Drop
    BY <1>1, <1>6 DEF Drop
  <1>7. ASSUME NEW k \in Kinds, ChannelEnds(k)
        PROVE  /\ sftp'
               /\ chans'["sftp"] < chans["sftp"] => (~up' \/ sftpDied')
    <2>1. CASE k = "sftp"
      BY <1>1, <1>7, <2>1 DEF ChannelEnds
    <2>2. CASE k = "exec"
      <3>1. chans'["sftp"] = chans["sftp"] /\ sftp' = sftp
        BY <1>7, <2>2 DEF ChannelEnds, Closed
      <3> QED BY <1>1, <3>1
    <2> QED BY <2>1, <2>2
  <1>8. CASE UNCHANGED wireVars
    <2>1. sftp' = sftp /\ chans' = chans
      BY <1>8 DEF wireVars
    <2> QED BY <1>1, <2>1
  <1>9. CASE UNCHANGED vars
    BY <1>8, <1>9 DEF vars, wireVars
  <1>10. CASE FallSilent \/ Pour
    <2>1. sftp' = sftp /\ chans' = chans
      BY <1>10 DEF FallSilent, Pour, callerVars
    <2> QED BY <1>1, <2>1
  <1> QED
    BY <1>3, <1>4, <1>5, <1>6, <1>7, <1>8, <1>9, <1>10 DEF Next

(* No other caller closes or replaces the SFTP client a running fn uses. *)
THEOREM ClientIsKept == Spec => ClientNotTakenAway
  <1>1. IInv /\ [Next]_vars => [KeepsClient]_vars
    BY StepKeepsClient
  <1> QED
    BY <1>1, Invariance, PTL DEF Spec, ClientNotTakenAway, KeepsClient

----------------------------------------------------------------------------
(* Refinement of SessionSlot: the slot is what the counters say, the user   *)
(* is the lock.                                                             *)
SlotBounds == /\ chans["sftp"] \in {0, 1} /\ chans["exec"] \in {0, 1}
              /\ chans["sftp"] + chans["exec"] <= 1

LEMMA SlotCases == IInv => SlotBounds
  <1> SUFFICES ASSUME IInv PROVE SlotBounds
    OBVIOUS
  <1>1. chans["sftp"] \in Nat /\ chans["exec"] \in Nat
    BY DEF IInv, TypeOK
  <1>2. chans["sftp"] <= 1 /\ chans["exec"] <= 1
    BY DEF IInv, AtMostOneEach
  <1>3. OneChannel
    BY IInvImpliesOneChannel
  <1> QED
    BY <1>1, <1>2, <1>3 DEF OneChannel, SlotBounds

LEMMA InitRefines == Init => Slot!Init
  BY DEF Init, Slot!Init, SlotOf

LEMMA StepRefines == IInv /\ IInv' /\ [Next]_vars => [Slot!Next]_(Slot!slotVars)
  <1> SUFFICES ASSUME IInv, IInv', [Next]_vars
               PROVE  Slot!Next \/ UNCHANGED Slot!slotVars
    OBVIOUS
  <1>0. /\ chans["sftp"] \in {0, 1} /\ chans["exec"] \in {0, 1}
        /\ chans["sftp"] + chans["exec"] <= 1
        /\ chans'["sftp"] \in {0, 1} /\ chans'["exec"] \in {0, 1}
        /\ chans'["sftp"] + chans'["exec"] <= 1
    <2>1. IInv' => SlotBounds'
      BY SlotCases, PTL
    <2> QED BY SlotCases, <2>1 DEF SlotBounds
  <1>a. /\ SlotOf = "free" <=> chans["sftp"] = 0 /\ chans["exec"] = 0
        /\ SlotOf = "sftp" <=> chans["sftp"] = 1
        /\ SlotOf = "exec" <=> chans["exec"] = 1
        /\ SlotOf' = "free" <=> chans'["sftp"] = 0 /\ chans'["exec"] = 0
        /\ SlotOf' = "sftp" <=> chans'["sftp"] = 1
        /\ SlotOf' = "exec" <=> chans'["exec"] = 1
    BY <1>0 DEF SlotOf
  <1>b. chans' = chans => SlotOf' = SlotOf
    BY DEF SlotOf
  <1>c. ASSUME NEW c \in Callers, pc[c] \in Holding
        PROVE  lock = c
    BY <1>c DEF IInv, LockMatchesCall
  <1>d. ASSUME NEW c \in Callers, pc[c] \in {"reopen", "run", "open_exec"}
        PROVE  chans["exec"] = 0
    <2>1. ASSUME NEW d \in Callers, lock = d,
                 pc[d] \in ExecPoints
          PROVE  FALSE
      BY <1>d, <2>1 DEF IInv, LockMatchesCall
    <2>2. ~(chans["exec"] > 0)
      BY <2>1 DEF IInv, ExecChannelOwned
    <2> QED BY <2>2, <1>0
  <1>1. ASSUME NEW c \in Callers, NEW m \in Ops, Call(c, m)
        PROVE  UNCHANGED Slot!slotVars
    BY <1>1, <1>b DEF Call, wireVars, Slot!slotVars
  <1>2. ASSUME NEW c \in Callers, Acquire(c) PROVE Slot!Enter(c)
    BY <1>2, <1>b DEF Acquire, wireVars, Slot!Enter
  <1>3. ASSUME NEW c \in Callers, ReopenSftp(c)
        PROVE  Slot!Open(c, "sftp") \/ Slot!Leave(c) \/ UNCHANGED Slot!slotVars
    <2>1. lock = c /\ chans["exec"] = 0 /\ SlotOf # "exec"
      BY <1>3, <1>c, <1>d, <1>a DEF ReopenSftp
    <2>2. CASE Goto(c, "run") /\ UNCHANGED wireVars
      BY <2>2, <1>b DEF Goto, wireVars, Slot!slotVars
    <2>3. CASE ~sftp /\ up /\ Opened("sftp") /\ Goto(c, "run") /\ UNCHANGED up
      <3>1. chans["sftp"] = 0
        BY <2>3, <1>0 DEF IInv, HandleMatchesChannel
      <3>2. chans'["sftp"] = 1
        BY <2>3, <3>1 DEF Opened, IInv, TypeOK
      <3>3. SlotOf = "free" /\ SlotOf' = "sftp"
        BY <1>a, <2>1, <3>1, <3>2
      <3> QED BY <2>1, <2>3, <3>3 DEF Slot!Open, Goto
    <2>4. CASE Return(c, "raised") /\ UNCHANGED wireVars
      BY <2>1, <2>4, <1>b DEF Return, wireVars, Slot!Leave
    <2> QED BY <1>3, <2>2, <2>3, <2>4 DEF ReopenSftp
  <1>4. ASSUME NEW c \in Callers, RunOnSftp(c) PROVE Slot!Leave(c)
    <2>1. lock = c /\ SlotOf # "exec"
      BY <1>4, <1>c, <1>d, <1>a DEF RunOnSftp
    <2> QED BY <1>4, <2>1, <1>b DEF RunOnSftp, Return, wireVars, Slot!Leave
  <1>5. ASSUME NEW c \in Callers, pc[c] \in {"free_slot", "close_sftp"},
               IF sftp THEN Closed("sftp") ELSE UNCHANGED chans,
               UNCHANGED <<lock, up>>
        PROVE  Slot!Close(c) \/ UNCHANGED Slot!slotVars
    <2>1. lock = c
      BY <1>5, <1>c
    <2>2. chans["exec"] = 0
      <3>1. ASSUME NEW d \in Callers, lock = d,
                   pc[d] \in ExecPoints
            PROVE  FALSE
        BY <1>5, <3>1, <2>1
      <3>2. ~(chans["exec"] > 0)
        BY <3>1 DEF IInv, ExecChannelOwned
      <3> QED BY <3>2, <1>0
    <2>3. CASE sftp
      <3>1. chans'["sftp"] = 0 /\ chans'["exec"] = 0
        BY <1>5, <2>2, <2>3, <1>0 DEF Closed, IInv, TypeOK
      <3>2. SlotOf' = "free"
        BY <3>1, <1>a
      <3> QED BY <1>5, <2>1, <3>2 DEF Slot!Close
    <2>4. CASE ~sftp
      BY <1>5, <2>4, <1>b DEF Slot!slotVars
    <2> QED BY <2>3, <2>4
  <1>6. ASSUME NEW c \in Callers, OpenExec(c)
        PROVE  Slot!Open(c, "exec") \/ Slot!Leave(c)
    <2>1. lock = c /\ chans["exec"] = 0 /\ ~sftp
      BY <1>6, <1>c, <1>d DEF OpenExec, IInv, HandleByPoint
    <2>2. chans["sftp"] = 0
      BY <2>1, <1>0 DEF IInv, HandleMatchesChannel
    <2>3. SlotOf = "free"
      BY <1>a, <2>1, <2>2
    <2>4. CASE up /\ Opened("exec") /\ Goto(c, "start_exec") /\ UNCHANGED up
      <3>1. chans'["exec"] = 1
        BY <2>1, <2>4 DEF Opened, IInv, TypeOK
      <3>2. SlotOf' = "exec"
        BY <3>1, <1>a
      <3> QED BY <2>1, <2>3, <2>4, <3>2 DEF Goto, Slot!Open
    <2>5. CASE UNCHANGED chans /\ Return(c, "raised") /\ UNCHANGED up
      BY <2>1, <2>3, <2>5, <1>b DEF Return, Slot!Leave
    <2> QED BY <1>6, <2>4, <2>5 DEF OpenExec
  <1>7. ASSUME NEW c \in Callers, StartExec(c) \/ ReadExec(c) \/ ExitStatus(c)
        PROVE  UNCHANGED Slot!slotVars
    BY <1>7, <1>b DEF StartExec, ReadExec, ExitStatus, ExecStep, wireVars, Slot!slotVars
  <1>8. ASSUME NEW c \in Callers, CloseExec(c) PROVE Slot!CloseAndLeave(c)
    <2>1. lock = c /\ ~sftp
      BY <1>8, <1>c DEF CloseExec, IInv, HandleByPoint
    <2>2. chans["sftp"] = 0
      BY <2>1, <1>0 DEF IInv, HandleMatchesChannel
    <2>3. chans'["sftp"] = 0 /\ chans'["exec"] = 0
      BY <1>8, <2>2, <1>0 DEF CloseExec, Closed, IInv, TypeOK
    <2>4. SlotOf' = "free"
      BY <2>3, <1>a
    <2> QED BY <1>8, <2>1, <2>4 DEF CloseExec, Return, Slot!CloseAndLeave
  <1>9. ASSUME NEW c \in Callers, CloseClient(c) PROVE Slot!HangUp(c)
    <2>1. lock = c
      BY <1>9, <1>c DEF CloseClient
    <2>2. SlotOf' = "free"
      BY <1>9, <1>a DEF CloseClient
    <2> QED BY <1>9, <2>1, <2>2 DEF CloseClient, Return, Slot!HangUp
  <1>10. ASSUME Drop PROVE Slot!Drop
    <2>1. SlotOf' = "free"
      BY <1>10, <1>a DEF Drop
    <2> QED BY <1>10, <2>1 DEF Drop, Slot!Drop
  <1>11. ASSUME NEW k \in Kinds, ChannelEnds(k) PROVE Slot!ChannelEnds
    <2>1. chans'["sftp"] = 0 /\ chans'["exec"] = 0
      BY <1>11, <1>0 DEF ChannelEnds, Closed, IInv, TypeOK
    <2>2. SlotOf' = "free"
      BY <2>1, <1>a
    <2> QED BY <1>11, <2>2 DEF ChannelEnds, Slot!ChannelEnds
  <1>12. CASE UNCHANGED vars
    BY <1>12, <1>b DEF vars, Slot!slotVars
  <1>14. CASE FallSilent \/ Pour
    BY <1>14, <1>b DEF FallSilent, Pour, callerVars, Slot!slotVars
  <1>13. ASSUME NEW c \in Callers, FreeSlot(c) \/ CloseSftp(c)
         PROVE  Slot!Close(c) \/ UNCHANGED Slot!slotVars
    BY <1>13, <1>5 DEF FreeSlot, CloseSftp, Goto
  <1> QED
    BY <1>1, <1>2, <1>3, <1>4, <1>13, <1>6, <1>7, <1>8, <1>9, <1>10, <1>11,
       <1>12, <1>14 DEF Next, UnderLock, Slot!Next

(* The holder implements exclusive use of one slot: a caller opens a        *)
(* channel only in a free slot and while nobody else uses it.               *)
THEOREM Refinement == Spec => ImplementsSlot
  <1>1. Init => Slot!Init
    BY InitRefines
  <1>2. IInv /\ IInv' /\ [Next]_vars => [Slot!Next]_(Slot!slotVars)
    BY StepRefines
  <1> QED
    BY <1>1, <1>2, Invariance, PTL DEF Spec, ImplementsSlot, Slot!Spec
=============================================================================
