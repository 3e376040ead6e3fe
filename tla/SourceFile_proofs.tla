-------------------------- MODULE SourceFile_proofs --------------------------
(***************************************************************************)
(* What two parts of the netcdf-reader make of one data file, for any       *)
(* number of servers and rewrites: the inspection cache and the slice       *)
(* store, one after the other.                                              *)
(*                                                                          *)
(* InspectFresh and InspectAsAsked are not inductive: a hit returns what    *)
(* some earlier call stored, so the invariant says what an entry may hold.  *)
(* Under a key k stands a summary, unpaired, of version k or of a later     *)
(* one: the key is taken before the file is opened, and versions only grow. *)
(* Where the key does not change with the source, all that is left is that  *)
(* no summary is of a version to come.                                      *)
(*                                                                          *)
(* The invariant of the slice store has three parts on top of the types:    *)
(* what a start has still to remove (Sweep), where the file of a slice can  *)
(* be incomplete or missing (Write), and how the versions in the files, the *)
(* calls, the answers and the renderers are ordered (Age).                  *)
(***************************************************************************)
EXTENDS InspectionCache, SliceStore, TLAPS


(* What the cache holds. *)
EntriesSound ==
    \A k \in Keys : entry[k] \in Texts =>
        /\ k \in Versions => k <= entry[k].version
        /\ entry[k].version <= stamp
        /\ ~entry[k].paired

(* What a call carries from one step to the next. *)
CallSound(s) ==
    /\ from[s] <= stamp
    /\ key[s] # NoKey =>
          /\ ~paired[s]
          /\ key[s] \in Versions => key[s] <= from[s]
          /\ kind = "local" /\ ~missed[s] => key[s] = from[s]
    /\ step[s] \in {"lookup", "truncated"} => key[s] # NoKey
    /\ step[s] \in {"summarised", "truncated"} =>
          /\ text[s] \in Texts
          /\ from[s] <= text[s].version /\ text[s].version <= stamp
          /\ text[s].paired = paired[s]
    /\ told[s] # NoAnswer =>
          /\ from[s] <= told[s].version \/ Undated(s)
          /\ told[s].version <= to[s]
          /\ told[s].paired = paired[s]

InspectInv == InspectTypeOK /\ EntriesSound /\ \A s \in Servers : CallSound(s)

LEMMA VersionsAreNat == \A v \in Versions : v \in Nat
BY MaxRewritesAssumption DEF Versions

LEMMA InitInv == InspectInit => InspectInv
<1> SUFFICES ASSUME InspectInit PROVE InspectInv
  OBVIOUS
<1> 0 \in Versions
  BY MaxRewritesAssumption DEF Versions
<1>1. InspectTypeOK
  BY DEF SourceInit, InspectInit, InspectTypeOK
<1>2. EntriesSound
  BY InspectionCacheAssumptions DEF InspectInit, EntriesSound
<1>3. ASSUME NEW s \in Servers PROVE CallSound(s)
  <2>1. /\ step[s] = "idle" /\ key[s] = NoKey /\ told[s] = NoAnswer
        /\ from[s] = 0 /\ stamp = 0
    BY DEF SourceInit, InspectInit
  <2> QED BY <2>1 DEF CallSound
<1> QED BY <1>1, <1>2, <1>3 DEF InspectInv

(* A call that returns a true answer, or none, keeps its half. *)
LEMMA TellKeepsCalls ==
    ASSUME InspectInv, NEW s \in Servers, NEW a, Tell(s, a), UNCHANGED stamp,
           a = NoAnswer \/
             /\ a \in Texts /\ a.paired = paired[s]
             /\ from[s] <= a.version \/ Undated(s)
             /\ a.version <= stamp
    PROVE  /\ kind' = kind /\ there' = there /\ missed' = missed
           /\ step' \in [Servers -> {"idle", "lookup", "open", "summarised",
                                     "truncated"}]
           /\ key' \in [Servers -> Keys \union {NoKey}]
           /\ paired' \in [Servers -> BOOLEAN]
           /\ text' \in [Servers -> Texts \union {NoAnswer}]
           /\ told' \in [Servers -> Texts \union {NoAnswer}]
           /\ from' \in [Servers -> Versions] /\ to' \in [Servers -> Versions]
           /\ \A t \in Servers : CallSound(t)'
<1>1. InspectTypeOK /\ \A t \in Servers : CallSound(t)
  BY DEF InspectInv
<1>2. ASSUME NEW t \in Servers PROVE CallSound(t)'
  <2>1. CASE t = s
    BY <1>1, <2>1, VersionsAreNat DEF CallSound, Undated, Tell, InspectTypeOK
  <2>2. CASE t # s
    BY <1>1, <2>2 DEF CallSound, Undated, Tell, InspectTypeOK
  <2> QED BY <2>1, <2>2
<1> QED BY <1>1, <1>2 DEF Tell, InspectTypeOK

LEMMA StepInv == InspectInv /\ [InspectNext]_<<stamp, inspectVars>> => InspectInv'
<1> SUFFICES ASSUME InspectInv, [InspectNext]_<<stamp, inspectVars>>
             PROVE  InspectInv'
  OBVIOUS
<1>t. InspectTypeOK /\ EntriesSound /\ \A s \in Servers : CallSound(s)
  BY DEF InspectInv
<1>1. ASSUME NEW s \in Servers, NEW mesh \in BOOLEAN, StatKey(s, mesh)
      PROVE  InspectInv'
  <2>0. /\ Key \in Keys /\ (Key \in Versions => Key <= stamp)
        /\ kind = "local" /\ there => Key = stamp
    BY <1>t, MaxRewritesAssumption, InspectionCacheAssumptions
    DEF Key, Keys, InspectTypeOK, Versions
  <2>1. InspectTypeOK'
    BY <1>t, <1>1, <2>0 DEF StatKey, InspectTypeOK
  <2>2. EntriesSound'
    BY <1>t, <1>1 DEF StatKey, EntriesSound
  <2>3. ASSUME NEW t \in Servers PROVE CallSound(t)'
    <3>1. CASE t = s
      <4>1. /\ from'[t] = stamp /\ from'[t] \in Nat /\ stamp' = stamp
            /\ key'[t] = (IF mesh THEN NoKey ELSE Key) /\ paired'[t] = mesh
            /\ step'[t] = (IF mesh THEN "open" ELSE "lookup")
            /\ told'[t] = NoAnswer /\ kind' = kind
            /\ missed'[t] = ~there
        BY <1>t, <1>1, <3>1, VersionsAreNat DEF StatKey, InspectTypeOK
      <4>2. Key # NoKey
        BY <2>0, InspectionCacheAssumptions DEF Keys
      <4>3. /\ key'[t] # NoKey => key'[t] = Key /\ ~paired'[t]
            /\ step'[t] = "lookup" => key'[t] # NoKey
            /\ step'[t] \in {"lookup", "open"}
        BY <4>1, <4>2
      <4>4. kind' = "local" /\ ~missed'[t] => Key = stamp
        BY <2>0, <4>1
      <4>5. from'[t] <= stamp'
        BY <4>1
      <4> QED BY <2>0, <4>1, <4>3, <4>4, <4>5 DEF CallSound
    <3>2. CASE t # s
      BY <1>t, <1>1, <3>2 DEF StatKey, CallSound, Undated, InspectTypeOK
    <3> QED BY <3>1, <3>2
  <2> QED BY <2>1, <2>2, <2>3 DEF InspectInv
<1>2. ASSUME NEW s \in Servers, Lookup(s) PROVE InspectInv'
  <2>0. /\ key[s] \in Keys /\ ~paired[s]
        /\ kind = "local" /\ ~missed[s] => key[s] = from[s]
    BY <1>t, <1>2 DEF Lookup, CallSound, InspectTypeOK
  <2>1. CASE entry[key[s]] \in Texts
    <3>1. Tell(s, entry[key[s]]) /\ UNCHANGED <<entry, stamp>>
      BY <1>2, <2>1 DEF Lookup
    <3>2. /\ entry[key[s]].paired = paired[s]
          /\ from[s] <= entry[key[s]].version \/ Undated(s)
          /\ entry[key[s]].version <= stamp
      BY <1>t, <2>0, <2>1 DEF EntriesSound, Undated, InspectTypeOK, Texts
    <3> QED BY <1>t, <2>1, <3>1, <3>2, TellKeepsCalls
            DEF InspectInv, InspectTypeOK, EntriesSound
  <2>2. CASE entry[key[s]] \notin Texts
    <3>1. \A t \in Servers : CallSound(t)'
      BY <1>t, <1>2, <2>2 DEF Lookup, CallSound, Undated, InspectTypeOK
    <3> QED BY <1>t, <1>2, <2>2, <3>1
            DEF Lookup, InspectInv, InspectTypeOK, EntriesSound
  <2> QED BY <2>1, <2>2
<1>3. ASSUME NEW s \in Servers, ReadSource(s) PROVE InspectInv'
  <2>1. CASE Tell(s, NoAnswer)
    BY <1>t, <1>3, <2>1, TellKeepsCalls
    DEF ReadSource, InspectInv, InspectTypeOK, EntriesSound
  <2>2. CASE /\ there
             /\ text' = [text EXCEPT ![s] =
                           [version |-> stamp, paired |-> paired[s]]]
             /\ step' = [step EXCEPT ![s] = "summarised"]
             /\ UNCHANGED <<kind, there, key, paired, told, from, to, missed>>
    <3>1. [version |-> stamp, paired |-> paired[s]] \in Texts
      BY <1>t DEF InspectTypeOK, Texts
    <3>2. ASSUME NEW t \in Servers PROVE CallSound(t)'
      <4>1. CASE t = s
        BY <1>t, <1>3, <2>2, <3>1, <4>1, VersionsAreNat
        DEF ReadSource, CallSound, Undated, InspectTypeOK
      <4>2. CASE t # s
        BY <1>t, <1>3, <2>2, <4>2 DEF ReadSource, CallSound, Undated, InspectTypeOK
      <4> QED BY <4>1, <4>2
    <3> QED BY <1>t, <1>3, <2>2, <3>1, <3>2
            DEF ReadSource, InspectInv, InspectTypeOK, EntriesSound
  <2> QED BY <1>3, <2>1, <2>2 DEF ReadSource
<1>4. ASSUME NEW s \in Servers, Uncached(s) PROVE InspectInv'
  <2>1. /\ text[s] \in Texts /\ text[s].paired = paired[s]
        /\ from[s] <= text[s].version /\ text[s].version <= stamp
    BY <1>t, <1>4 DEF Uncached, CallSound
  <2> QED BY <1>t, <1>4, <2>1, TellKeepsCalls
          DEF Uncached, InspectInv, InspectTypeOK, EntriesSound
<1>5. ASSUME NEW s \in Servers, TruncateEntry(s) PROVE InspectInv'
  <2>1. key[s] \in Keys
    BY <1>t, <1>5 DEF TruncateEntry, InspectTypeOK
  <2>2. InspectTypeOK'
    BY <1>t, <1>5, <2>1 DEF TruncateEntry, InspectTypeOK
  <2>3. EntriesSound'
    BY <1>t, <1>5, <2>1, InspectionCacheAssumptions
    DEF TruncateEntry, InspectTypeOK, EntriesSound
  <2>4. \A t \in Servers : CallSound(t)'
    BY <1>t, <1>5, <2>1 DEF TruncateEntry, CallSound, Undated, InspectTypeOK
  <2> QED BY <2>2, <2>3, <2>4 DEF InspectInv
<1>6. ASSUME NEW s \in Servers, FillEntry(s) PROVE InspectInv'
  <2>1. /\ text[s] \in Texts /\ text[s].paired = paired[s]
        /\ from[s] <= text[s].version /\ text[s].version <= stamp
        /\ key[s] \in Keys /\ ~paired[s]
        /\ key[s] \in Versions => key[s] <= text[s].version
    BY <1>t, <1>6, VersionsAreNat DEF FillEntry, CallSound, InspectTypeOK, Texts
  <2>2. entry' \in [Keys -> Texts \union {NoEntry, Damaged}]
    BY <1>t, <1>6, <2>1 DEF FillEntry, InspectTypeOK
  <2>3. EntriesSound'
    BY <1>t, <1>6, <2>1, InspectionCacheAssumptions
    DEF FillEntry, InspectTypeOK, EntriesSound
  <2>4. Tell(s, text[s]) /\ UNCHANGED stamp
    BY <1>6 DEF FillEntry
  <2> QED BY <1>t, <2>1, <2>2, <2>3, <2>4, TellKeepsCalls
          DEF InspectInv, InspectTypeOK
<1>7. ASSUME NEW s \in Servers, CrashInspect(s) PROVE InspectInv'
  BY <1>t, <1>7, TellKeepsCalls
  DEF CrashInspect, InspectInv, InspectTypeOK, EntriesSound
<1>8. CASE /\ Replace \/ Remove \/ PutBack
           /\ UNCHANGED <<kind, entry, step, key, paired, text, told, from, to,
                          missed>>
  <2>0. there' \in BOOLEAN
    BY <1>8 DEF Replace, Remove, PutBack
  <2>1. stamp \in Nat /\ stamp' \in Versions /\ stamp <= stamp'
    <3>1. stamp' = stamp \/ (stamp < MaxRewrites /\ stamp' = stamp + 1)
      BY <1>8 DEF Replace, Remove, PutBack, Rewrite
    <3> QED BY <1>t, <3>1, MaxRewritesAssumption DEF InspectTypeOK, Versions
  <2>2. InspectTypeOK'
    BY <1>t, <1>8, <2>0, <2>1 DEF InspectTypeOK
  <2>3. EntriesSound'
    <3> SUFFICES ASSUME NEW k \in Keys, entry[k] \in Texts
                 PROVE  /\ k \in Versions => k <= entry[k].version
                        /\ entry[k].version <= stamp'
                        /\ ~entry[k].paired
      BY <1>8 DEF EntriesSound
    <3>1. entry[k].version \in Nat
      BY VersionsAreNat DEF Texts
    <3> QED BY <1>t, <2>1, <3>1, MaxRewritesAssumption DEF EntriesSound, Versions
  <2>4. ASSUME NEW t \in Servers PROVE CallSound(t)'
    <3>1. /\ from[t] \in Nat
          /\ text[t] \in Texts => text[t].version \in Nat
      BY <1>t, VersionsAreNat DEF InspectTypeOK, Texts
    <3>2. from[t] <= stamp'
      BY <1>t, <2>1, <3>1, MaxRewritesAssumption DEF CallSound, Versions
    <3>3. step[t] \in {"summarised", "truncated"} => text[t].version <= stamp'
      BY <1>t, <2>1, <3>1, MaxRewritesAssumption DEF CallSound, Versions
    <3> QED BY <1>t, <1>8, <3>2, <3>3 DEF CallSound, Undated
  <2> QED BY <2>2, <2>3, <2>4 DEF InspectInv
<1>9. CASE UNCHANGED <<stamp, inspectVars>>
  <2>1. InspectTypeOK'
    BY <1>t, <1>9 DEF inspectVars, InspectTypeOK
  <2>2. EntriesSound'
    BY <1>t, <1>9 DEF inspectVars, EntriesSound
  <2>3. ASSUME NEW s \in Servers PROVE CallSound(s)'
    BY <1>t, <1>9 DEF inspectVars, CallSound, Undated
  <2> QED BY <2>1, <2>2, <2>3 DEF InspectInv
<1> QED BY <1>1, <1>2, <1>3, <1>4, <1>5, <1>6, <1>7, <1>8, <1>9
        DEF InspectNext, Inspect

LEMMA InvImplies == InspectInv => InspectFresh /\ InspectAsAsked
<1> SUFFICES ASSUME InspectInv PROVE InspectFresh /\ InspectAsAsked
  OBVIOUS
<1>1. ASSUME NEW s \in Servers, told[s] # NoAnswer
      PROVE  /\ told[s].version <= to[s]
             /\ told[s].version >= from[s] \/ Undated(s)
             /\ told[s].paired = paired[s]
  <2>1. told[s] \in Texts /\ told[s].version \in Versions
    BY <1>1 DEF InspectInv, InspectTypeOK, Texts
  <2> QED BY <1>1, <2>1, VersionsAreNat DEF InspectInv, CallSound, InspectTypeOK
<1> QED BY <1>1 DEF InspectFresh, InspectAsAsked

(* Every variable of inspect and its cache keeps its type. *)
THEOREM InspectTypes == InspectSpec => []InspectTypeOK
<1>1. InspectInv => InspectTypeOK
  BY DEF InspectInv
<1> QED BY InitInv, StepInv, <1>1, PTL DEF InspectSpec

(* What inspect returns, from the cache or not, describes a version the    *)
(* file had during the call, or before it if it is remote: for any number  *)
(* of servers and rewrites.                                                *)
THEOREM AnswersAreFresh == InspectSpec => []InspectFresh
BY InitInv, StepInv, InvImplies, PTL DEF InspectSpec

(* No call gets a summary that was paired otherwise than it asked. *)
THEOREM AnswersAsAsked == InspectSpec => []InspectAsAsked
BY InitInv, StepInv, InvImplies, PTL DEF InspectSpec

(* Together: whatever is in the cache, it does not show in an answer.      *)
THEOREM CacheStaysHidden == InspectSpec => []CacheNeverShows
<1>1. InspectFresh /\ InspectAsAsked => CacheNeverShows
  BY DEF CacheNeverShows
<1> QED BY <1>1, AnswersAreFresh, AnswersAsAsked, PTL

-----------------------------------------------------------------------------
(* The slice store.                                                        *)


(* Only a running session is in a call, only a starting one removes, and a *)
(* session that was dead stays dead.                                       *)
Live(s) ==
    /\ call[s].at # "idle" => life[s] = "up"
    /\ victim[s] # Nothing => life[s] = "sweeping" /\ victim[s] \in todo[s]
    /\ life[s] = "up" => todo[s] = {}
    /\ \A d \in deadThen[s] : life[d] = "dead"

(* A directory of a session that was dead when s started is still listed   *)
(* by s, and empty once s has emptied it: its owner writes no more.  The   *)
(* exceptions are those of which s was refused a removal.                  *)
Sweep(s) ==
    /\ life[s] \in {"sweeping", "up"} =>
          deadThen[s] \cap dirs \subseteq todo[s] \union refused[s]
    /\ victim[s] \in deadThen[s] \ refused[s] =>
          \A q \in Requests : file[victim[s]][q] = Nothing

(* The file of an answered slice is complete, with the known exceptions;   *)
(* a call that is writing has a file unless its directory was swept.       *)
Write(s) ==
    /\ \A q \in Requests : answer[s][q] # Nothing /\ file[s][q] \notin Versions =>
          \/ s \in swept
          \/ <<s, q>> \in spoilt
          \/ call[s].at = "filling" /\ call[s].req = q
    /\ call[s].at = "filling" /\ s \notin swept =>
          file[s][call[s].req] # Nothing
    /\ call[s].at = "filled" =>
          \/ file[s][call[s].req] = call[s].data
          \/ file[s][call[s].req] = Nothing /\ s \in swept

(* An answer is no newer than the file, the present version and the data   *)
(* of the call under way.                                                  *)
Age(s) ==
    /\ call[s].data <= stamp
    /\ \A q \in Requests : answer[s][q] # Nothing =>
          /\ answer[s][q] <= stamp
          /\ file[s][q] \in Versions => answer[s][q] <= file[s][q]
          /\ call[s].at \in {"loaded", "filling", "filled"} =>
                answer[s][q] <= call[s].data

(* A renderer relies on an answer of the past. *)
Seen(r) ==
    /\ view[r].drew # Nothing => view[r].floor <= view[r].drew
    /\ view[r].held # Nothing => view[r].floor <= view[r].held
    /\ \A s \in Servers : \A q \in Requests : view[r].ref = <<s, q>> =>
          answer[s][q] # Nothing /\ view[r].floor <= answer[s][q]

LEMMA VersionFacts ==
    /\ 0 \in Versions
    /\ \A v \in Versions : v \in Nat
    /\ Nothing \notin Versions /\ Partly \notin Versions /\ Nothing # Partly
    /\ Nothing \notin Servers
BY MaxRewritesAssumption, SliceStoreAssumptions DEF Versions

(* What Goto and Raise do to the calls. *)
LEMMA GotoCall ==
    ASSUME StoreTypeOK, NEW s \in Servers, call[s].at # "idle",
           NEW place \in {"resolved", "loaded", "filling", "filled"},
           Goto(s, place)
    PROVE  /\ call[s] \in Calls
           /\ call' \in [Servers -> {Idle} \union Calls]
           /\ call'[s].at = place /\ call'[s].req = call[s].req
           /\ call'[s].data = call[s].data
           /\ \A t \in Servers : t # s => call'[t] = call[t]
<1>1. call[s] \in Calls
  BY DEF StoreTypeOK, Idle
<1>2. call'[s] = [at |-> place, req |-> call[s].req, data |-> call[s].data]
  BY <1>1 DEF Goto, StoreTypeOK, Calls
<1>3. call'[s] \in Calls
  BY <1>1, <1>2 DEF Calls
<1> QED BY <1>1, <1>2, <1>3 DEF Goto, StoreTypeOK

LEMMA RaiseCall ==
    ASSUME StoreTypeOK, NEW s \in Servers, Raise(s)
    PROVE  /\ call' \in [Servers -> {Idle} \union Calls]
           /\ call'[s].at = "idle" /\ call'[s].data = 0
           /\ \A t \in Servers : t # s => call'[t] = call[t]
BY DEF Raise, StoreTypeOK, Idle

LEMMA FileWritten ==
    ASSUME StoreTypeOK, NEW s \in Servers, NEW q \in Requests,
           NEW v \in Versioned \union {Partly}, file' = [file EXCEPT ![s][q] = v]
    PROVE  /\ file' \in [Servers -> [Requests -> Versioned \union {Partly}]]
           /\ file'[s][q] = v
           /\ \A t \in Servers : \A p \in Requests :
                 t # s \/ p # q => file'[t][p] = file[t][p]
BY DEF StoreTypeOK

LEMMA AnswerWritten ==
    ASSUME StoreTypeOK, NEW s \in Servers, NEW q \in Requests,
           NEW v \in Versions, answer' = [answer EXCEPT ![s][q] = v]
    PROVE  /\ answer' \in [Servers -> [Requests -> Versioned]]
           /\ answer'[s][q] = v
           /\ \A t \in Servers : \A p \in Requests :
                 t # s \/ p # q => answer'[t][p] = answer[t][p]
BY DEF StoreTypeOK, Versioned

LEMMA EmptyStep ==
    ASSUME StoreTypeOK, NEW s \in Servers, NEW d \in Servers, EmptyDir(s, d)
    PROVE  /\ \A t \in Servers : \A p \in Requests :
                 \/ file'[t][p] = file[t][p]
                 \/ t = d /\ file'[t][p] = Nothing
           /\ \A t \in Servers : \A p \in Requests :
                 file[t][p] = Nothing => file'[t][p] = Nothing
           /\ d \in refused'[s] \/ \A p \in Requests : file'[d][p] = Nothing
           /\ \A t \in Servers : t # s => refused'[t] = refused[t]
           /\ refused[s] \subseteq refused'[s]
           /\ file' \in [Servers -> [Requests -> Versioned \union {Partly}]]
           /\ refused' \in [Servers -> SUBSET Servers]
<1>1. PICK stay \in SUBSET {q \in Requests : file[d][q] # Nothing} :
          /\ file' = [file EXCEPT ![d] =
                         [q \in Requests |-> IF q \in stay THEN @[q] ELSE Nothing]]
          /\ refused' = [refused EXCEPT ![s] =
                            IF stay = {} THEN @ ELSE @ \union {d}]
  BY DEF EmptyDir
<1>2. /\ \A t \in Servers : t # d => file'[t] = file[t]
      /\ \A p \in Requests :
            file'[d][p] = IF p \in stay THEN file[d][p] ELSE Nothing
      /\ file' \in [Servers -> [Requests -> Versioned \union {Partly}]]
  BY <1>1 DEF StoreTypeOK, Versioned
<1>3. /\ \A t \in Servers : t # s => refused'[t] = refused[t]
      /\ refused'[s] = IF stay = {} THEN refused[s] ELSE refused[s] \union {d}
      /\ refused' \in [Servers -> SUBSET Servers]
  BY <1>1 DEF StoreTypeOK
<1>4. d \in refused'[s] \/ \A p \in Requests : file'[d][p] = Nothing
  BY <1>2, <1>3
<1> QED BY <1>2, <1>3, <1>4

LEMMA DropStep ==
    ASSUME StoreTypeOK, NEW s \in Servers, DropDir(s)
    PROVE  /\ life[s] = "sweeping" /\ victim[s] # Nothing
           /\ dirs' \subseteq dirs
           /\ \/ victim[s] \notin dirs' \/ victim[s] \in refused'[s]
              \/ \E q \in Requests : file[victim[s]][q] # Nothing
           /\ todo'[s] = todo[s] \ {victim[s]} /\ victim'[s] = Nothing
           /\ refused[s] \subseteq refused'[s]
           /\ \A t \in Servers : t # s =>
                 /\ todo'[t] = todo[t] /\ victim'[t] = victim[t]
                 /\ refused'[t] = refused[t]
           /\ refused' \in [Servers -> SUBSET Servers]
           /\ life' = life /\ file' = file /\ deadThen' = deadThen
           /\ call' = call
<1>1. victim[s] \in Servers
  BY DEF DropDir, StoreTypeOK
<1>2. \/ dirs' = dirs \ {victim[s]} /\ refused' = refused
      \/ /\ dirs' = dirs /\ refused' = refused
         /\ \E q \in Requests : file[victim[s]][q] # Nothing
      \/ dirs' = dirs /\ refused' = [refused EXCEPT ![s] = @ \union {victim[s]}]
  BY DEF DropDir
<1>3. /\ dirs' \subseteq dirs
      /\ \/ victim[s] \notin dirs' \/ victim[s] \in refused'[s]
         \/ \E q \in Requests : file[victim[s]][q] # Nothing
      /\ refused[s] \subseteq refused'[s]
      /\ \A t \in Servers : t # s => refused'[t] = refused[t]
      /\ refused' \in [Servers -> SUBSET Servers]
  BY <1>1, <1>2 DEF StoreTypeOK
<1>4. /\ todo'[s] = todo[s] \ {victim[s]} /\ victim'[s] = Nothing
      /\ \A t \in Servers : t # s =>
            todo'[t] = todo[t] /\ victim'[t] = victim[t]
  BY DEF DropDir, StoreTypeOK
<1> QED BY <1>3, <1>4 DEF DropDir, callVars

LEMMA StoreInitTypes == StoreInit => StoreTypeOK
BY VersionFacts DEF SourceInit, StoreInit, StoreTypeOK, Idle, Blank, Versioned

LEMMA StoreStepTypes == StoreTypeOK /\ [StoreNext]_<<stamp, storeVars>> => StoreTypeOK'
<1> SUFFICES ASSUME StoreTypeOK, [StoreNext]_<<stamp, storeVars>>
             PROVE  StoreTypeOK'
  OBVIOUS
<1> USE VersionFacts DEF StoreTypeOK, Versioned, Idle, Blank, Goto, Raise,
                         lifeVars, callVars
<1>1. ASSUME NEW s \in Servers, Start(s) PROVE StoreTypeOK'
  BY <1>1 DEF Start
<1>2. ASSUME NEW s \in Servers, NEW d \in Servers, EmptyDir(s, d)
      PROVE  StoreTypeOK'
  BY <1>2, EmptyStep DEF EmptyDir
<1>3. ASSUME NEW s \in Servers, DropDir(s) PROVE StoreTypeOK'
  BY <1>3, DropStep DEF DropDir
<1>4. ASSUME NEW s \in Servers, Serve(s) PROVE StoreTypeOK'
  BY <1>4 DEF Serve
<1>5. ASSUME NEW s \in Servers, NEW q \in Requests, Resolve(s, q)
      PROVE  StoreTypeOK'
  <2>1. [at |-> "resolved", req |-> q, data |-> 0] \in Calls
    BY DEF Calls
  <2> QED BY <1>5, <2>1 DEF Resolve
<1>6. ASSUME NEW s \in Servers, Load(s) PROVE StoreTypeOK'
  <2>1. call[s] \in Calls
    BY <1>6 DEF Load
  <2>2. CASE call' = [call EXCEPT ![s].at = "loaded", ![s].data = stamp]
    <3>1. call'[s] = [at |-> "loaded", req |-> call[s].req, data |-> stamp]
      BY <2>1, <2>2 DEF Calls
    <3>2. call'[s] \in Calls
      BY <2>1, <3>1 DEF Calls
    <3> QED BY <1>6, <2>2, <3>2 DEF Load
  <2>3. CASE Raise(s)
    BY <1>6, <2>3 DEF Load
  <2> QED BY <1>6, <2>2, <2>3 DEF Load
<1>7. ASSUME NEW s \in Servers, CreateFile(s) PROVE StoreTypeOK'
  <2>1. CASE file' = [file EXCEPT ![s][call[s].req] = Partly] /\ Goto(s, "filling")
    <3>1. call[s].req \in Requests /\ call' \in [Servers -> {Idle} \union Calls]
      BY <1>7, <2>1, GotoCall DEF CreateFile, Calls
    <3>2. file' \in [Servers -> [Requests -> Versioned \union {Partly}]]
      BY <2>1, <3>1, FileWritten
    <3> QED BY <1>7, <3>1, <3>2 DEF CreateFile
  <2>2. CASE UNCHANGED file /\ Raise(s)
    BY <1>7, <2>2, RaiseCall DEF CreateFile
  <2> QED BY <1>7, <2>1, <2>2 DEF CreateFile
<1>8. ASSUME NEW s \in Servers, FillFile(s) PROVE StoreTypeOK'
  <2>0. call[s] \in Calls /\ call[s].req \in Requests /\ call[s].data \in Versions
    BY <1>8 DEF FillFile, Calls
  <2>1. CASE /\ file' = [file EXCEPT ![s][call[s].req] =
                            IF @ = Nothing THEN Nothing ELSE call[s].data]
             /\ Goto(s, "filled")
             /\ spoilt' = spoilt \ {<<s, call[s].req>>}
    <3>1. call' \in [Servers -> {Idle} \union Calls]
      BY <1>8, <2>1, GotoCall DEF FillFile
    <3>2. file' \in [Servers -> [Requests -> Versioned \union {Partly}]]
      BY <2>0, <2>1
    <3> QED BY <1>8, <2>1, <3>1, <3>2 DEF FillFile
  <2>2. CASE Raise(s) /\ spoilt' = spoilt \union {<<s, call[s].req>>} /\ UNCHANGED file
    BY <1>8, <2>0, <2>2, RaiseCall DEF FillFile
  <2> QED BY <1>8, <2>1, <2>2 DEF FillFile
<1>9. ASSUME NEW s \in Servers, Reply(s) PROVE StoreTypeOK'
  <2>0. call[s] \in Calls /\ call[s].req \in Requests /\ call[s].data \in Versions
    BY <1>9 DEF Reply, Calls
  <2>1. answer' \in [Servers -> [Requests -> Versioned]]
    <3>1. CASE answer' = [answer EXCEPT ![s][call[s].req] = call[s].data]
      BY <2>0, <3>1, AnswerWritten
    <3>2. CASE UNCHANGED answer
      BY <3>2
    <3> QED BY <1>9, <3>1, <3>2 DEF Reply
  <2>2. call' \in [Servers -> {Idle} \union Calls]
    BY <1>9, RaiseCall DEF Reply
  <2> QED BY <1>9, <2>1, <2>2 DEF Reply
<1>10. ASSUME NEW s \in Servers, Die(s) PROVE StoreTypeOK'
  <2>1. call' \in [Servers -> {Idle} \union Calls]
    BY <1>10, RaiseCall DEF Die
  <2>2. spoilt' \subseteq Servers \X Requests
    <3>1. CASE call[s].at = "filling"
      BY <1>10, <3>1 DEF Die, Calls
    <3>2. CASE call[s].at # "filling"
      BY <1>10, <3>2 DEF Die
    <3> QED BY <3>1, <3>2
  <2> QED BY <1>10, <2>1, <2>2 DEF Die
<1>11. ASSUME NEW r \in Renderers, NEW s \in Servers, NEW q \in Requests,
              OpenSlice(r, s, q)
       PROVE  StoreTypeOK'
  BY <1>11 DEF OpenSlice
<1>12. ASSUME NEW r \in Renderers, DrawSlice(r) PROVE StoreTypeOK'
  <2>1. PICK seen \in {view[r].held, IF file[view[r].ref[1]][view[r].ref[2]] = Partly
                                     THEN Nothing
                                     ELSE file[view[r].ref[1]][view[r].ref[2]]} :
          view' = [view EXCEPT ![r] = [ref |-> Nothing, held |-> Nothing,
                                       floor |-> @.floor, drew |-> seen]]
    BY <1>12 DEF DrawSlice
  <2>2. view[r].ref \in Servers \X Requests
    BY <1>12 DEF DrawSlice
  <2>3. PICK s \in Servers, q \in Requests : view[r].ref = <<s, q>>
    BY <2>2
  <2>4. file[s][q] \in Versions \union {Nothing, Partly}
    OBVIOUS
  <2>5. seen \in Versions \union {Nothing}
    BY <2>1, <2>3, <2>4
  <2>6. view' \in [Renderers -> [ref : (Servers \X Requests) \union {Nothing},
                                 held : Versioned, floor : Versions,
                                 drew : Versioned]]
    BY <2>1, <2>5
  <2> QED BY <1>12, <2>6 DEF DrawSlice
<1>13. CASE Rewrite /\ UNCHANGED storeVars
  BY <1>13, MaxRewritesAssumption DEF Rewrite, storeVars, Versions
<1>14. CASE UNCHANGED <<stamp, storeVars>>
  BY <1>14 DEF storeVars
<1> QED
  BY <1>1, <1>2, <1>3, <1>4, <1>5, <1>6, <1>7, <1>8, <1>9, <1>10, <1>11,
     <1>12, <1>13, <1>14 DEF StoreNext, Server, Renderer

----------------------------------------------------------------------------
(* What each action does to one call, pointwise; the proofs below use these *)
(* facts instead of the definitions of the actions.                         *)
LEMMA ResolveStep ==
    ASSUME StoreTypeOK, NEW s \in Servers, NEW q \in Requests, Resolve(s, q)
    PROVE  /\ life[s] = "up" /\ call[s].at = "idle"
           /\ call'[s].at = "resolved" /\ call'[s].req = q
           /\ call'[s].data = 0
           /\ \A t \in Servers : t # s => call'[t] = call[t]
           /\ dirs' = dirs /\ file' = file /\ life' = life
           /\ todo' = todo /\ victim' = victim /\ deadThen' = deadThen /\ refused' = refused
           /\ answer' = answer /\ swept' = swept /\ spoilt' = spoilt
           /\ view' = view /\ stamp' = stamp
BY DEF Resolve, StoreTypeOK, lifeVars

LEMMA LoadStep ==
    ASSUME StoreTypeOK, NEW s \in Servers, Load(s)
    PROVE  /\ call[s].at = "resolved"
           /\ \/ call'[s].at = "idle" /\ call'[s].data = 0 /\ dirs' = dirs
              \/ /\ call'[s].at = "loaded" /\ call'[s].req = call[s].req
                 /\ call'[s].data = stamp
                 /\ dirs' = dirs \union {s}
           /\ \A t \in Servers : t # s => call'[t] = call[t]
           /\ file' = file /\ life' = life /\ todo' = todo
           /\ victim' = victim /\ deadThen' = deadThen /\ refused' = refused
           /\ answer' = answer /\ swept' = swept /\ spoilt' = spoilt
           /\ view' = view /\ stamp' = stamp
<1>1. call[s] \in Calls /\ call[s].at = "resolved"
  BY DEF Load, StoreTypeOK, Idle
<1>2. CASE /\ call' = [call EXCEPT ![s].at = "loaded", ![s].data = stamp]
           /\ dirs' = dirs \union {s}
  <2>1. /\ call'[s].at = "loaded" /\ call'[s].req = call[s].req
        /\ call'[s].data = stamp
        /\ \A t \in Servers : t # s => call'[t] = call[t]
    BY <1>1, <1>2 DEF StoreTypeOK, Calls
  <2> QED BY <1>1, <1>2, <2>1 DEF Load, lifeVars
<1>3. CASE Raise(s) /\ UNCHANGED dirs
  <2>1. /\ call'[s].at = "idle" /\ call'[s].data = 0
        /\ \A t \in Servers : t # s => call'[t] = call[t]
    BY <1>3, RaiseCall
  <2> QED BY <1>1, <1>3, <2>1 DEF Load, lifeVars
<1> QED BY <1>2, <1>3 DEF Load

LEMMA InCall ==
    ASSUME StoreTypeOK, NEW s \in Servers, call[s].at # "idle"
    PROVE  call[s] \in Calls /\ call[s].req \in Requests /\ call[s].data \in Versions
BY DEF StoreTypeOK, Idle, Calls

LEMMA CreateStep ==
    ASSUME StoreTypeOK, NEW s \in Servers, CreateFile(s)
    PROVE  /\ call[s].at = "loaded" /\ call[s].req \in Requests
           /\ call[s].data \in Versions
           /\ \/ /\ s \in dirs /\ file'[s][call[s].req] = Partly
                 /\ call'[s].at = "filling" /\ call'[s].req = call[s].req
                 /\ call'[s].data = call[s].data
                 /\ \A t \in Servers : \A p \in Requests :
                       t # s \/ p # call[s].req => file'[t][p] = file[t][p]
              \/ file' = file /\ call'[s].at = "idle" /\ call'[s].data = 0
           /\ \A t \in Servers : t # s => call'[t] = call[t]
           /\ dirs' = dirs /\ life' = life /\ todo' = todo
           /\ victim' = victim /\ deadThen' = deadThen /\ refused' = refused
           /\ answer' = answer /\ swept' = swept /\ spoilt' = spoilt
           /\ view' = view /\ stamp' = stamp
<1>0. /\ call[s].at = "loaded"
      /\ dirs' = dirs /\ life' = life /\ todo' = todo /\ victim' = victim
      /\ deadThen' = deadThen /\ refused' = refused /\ answer' = answer /\ swept' = swept
      /\ spoilt' = spoilt /\ view' = view /\ stamp' = stamp
  BY DEF CreateFile, lifeVars, callVars
<1>1. /\ call[s].at # "idle" /\ call[s].req \in Requests
      /\ call[s].data \in Versions
  BY InCall DEF CreateFile
<1>2. CASE /\ s \in dirs /\ file' = [file EXCEPT ![s][call[s].req] = Partly]
           /\ Goto(s, "filling")
  <2>1. /\ call'[s].at = "filling" /\ call'[s].req = call[s].req
        /\ call'[s].data = call[s].data
        /\ \A t \in Servers : t # s => call'[t] = call[t]
    BY <1>1, <1>2, GotoCall
  <2>2. /\ file'[s][call[s].req] = Partly
        /\ \A t \in Servers : \A p \in Requests :
              t # s \/ p # call[s].req => file'[t][p] = file[t][p]
    BY <1>1, <1>2 DEF StoreTypeOK
  <2> QED BY <1>0, <1>1, <1>2, <2>1, <2>2
<1>3. CASE UNCHANGED file /\ Raise(s)
  BY <1>0, <1>1, <1>3, RaiseCall
<1> QED BY <1>1, <1>2, <1>3 DEF CreateFile, lifeVars

LEMMA FillStep ==
    ASSUME StoreTypeOK, NEW s \in Servers, FillFile(s)
    PROVE  /\ call[s].at = "filling" /\ call[s].req \in Requests
           /\ call[s].data \in Versions
           /\ \/ /\ file'[s][call[s].req] =
                       IF file[s][call[s].req] = Nothing
                       THEN Nothing ELSE call[s].data
                 /\ call'[s].at = "filled" /\ call'[s].req = call[s].req
                 /\ call'[s].data = call[s].data
                 /\ spoilt' = spoilt \ {<<s, call[s].req>>}
                 /\ \A t \in Servers : \A p \in Requests :
                       t # s \/ p # call[s].req => file'[t][p] = file[t][p]
              \/ /\ file' = file /\ call'[s].at = "idle" /\ call'[s].data = 0
                 /\ spoilt' = spoilt \union {<<s, call[s].req>>}
           /\ \A t \in Servers : t # s => call'[t] = call[t]
           /\ dirs' = dirs /\ life' = life /\ todo' = todo
           /\ victim' = victim /\ deadThen' = deadThen /\ refused' = refused
           /\ answer' = answer /\ swept' = swept /\ view' = view
           /\ stamp' = stamp
<1>0. /\ call[s].at = "filling"
      /\ dirs' = dirs /\ life' = life /\ todo' = todo /\ victim' = victim
      /\ deadThen' = deadThen /\ refused' = refused /\ answer' = answer /\ swept' = swept
      /\ view' = view /\ stamp' = stamp
  BY DEF FillFile, lifeVars, callVars
<1>1. call[s].at # "idle" /\ call[s].req \in Requests /\ call[s].data \in Versions
  BY InCall DEF FillFile
<1>2. CASE /\ file' = [file EXCEPT ![s][call[s].req] =
                          IF @ = Nothing THEN Nothing ELSE call[s].data]
           /\ Goto(s, "filled")
           /\ spoilt' = spoilt \ {<<s, call[s].req>>}
  <2>1. /\ call'[s].at = "filled" /\ call'[s].req = call[s].req
        /\ call'[s].data = call[s].data
        /\ \A t \in Servers : t # s => call'[t] = call[t]
    BY <1>1, <1>2, GotoCall
  <2>2. PICK v \in Versioned \union {Partly} :
          v = IF file[s][call[s].req] = Nothing THEN Nothing ELSE call[s].data
    BY <1>1 DEF Versioned
  <2>3. file' = [file EXCEPT ![s][call[s].req] = v]
    BY <1>1, <1>2, <2>2 DEF StoreTypeOK
  <2>4. /\ file'[s][call[s].req] = v
        /\ \A t \in Servers : \A p \in Requests :
              t # s \/ p # call[s].req => file'[t][p] = file[t][p]
    BY <1>1, <2>3 DEF StoreTypeOK
  <2> QED BY <1>0, <1>1, <1>2, <2>1, <2>2, <2>4
<1>3. CASE Raise(s) /\ spoilt' = spoilt \union {<<s, call[s].req>>} /\ UNCHANGED file
  BY <1>0, <1>1, <1>3, RaiseCall
<1> QED BY <1>1, <1>2, <1>3 DEF FillFile, lifeVars

LEMMA ReplyStep ==
    ASSUME StoreTypeOK, NEW s \in Servers, Reply(s)
    PROVE  /\ call[s].at = "filled" /\ call[s].req \in Requests
           /\ call[s].data \in Versions
           /\ \/ /\ file[s][call[s].req] # Nothing
                 /\ answer'[s][call[s].req] = call[s].data
                 /\ \A t \in Servers : \A p \in Requests :
                       t # s \/ p # call[s].req => answer'[t][p] = answer[t][p]
              \/ answer' = answer
           /\ call'[s].at = "idle" /\ call'[s].data = 0
           /\ \A t \in Servers : t # s => call'[t] = call[t]
           /\ dirs' = dirs /\ file' = file /\ life' = life
           /\ todo' = todo /\ victim' = victim /\ deadThen' = deadThen /\ refused' = refused
           /\ swept' = swept /\ spoilt' = spoilt /\ view' = view
           /\ stamp' = stamp
<1>0. /\ call[s].at = "filled"
      /\ dirs' = dirs /\ file' = file /\ life' = life /\ todo' = todo
      /\ victim' = victim /\ deadThen' = deadThen /\ refused' = refused /\ swept' = swept
      /\ spoilt' = spoilt /\ view' = view /\ stamp' = stamp
  BY DEF Reply, lifeVars, callVars
<1>1. call[s].req \in Requests /\ call[s].data \in Versions
  BY InCall DEF Reply
<1>2. /\ call'[s].at = "idle" /\ call'[s].data = 0
      /\ \A t \in Servers : t # s => call'[t] = call[t]
  BY RaiseCall DEF Reply
<1>3. CASE /\ file[s][call[s].req] # Nothing
           /\ answer' = [answer EXCEPT ![s][call[s].req] = call[s].data]
  <2>1. /\ answer'[s][call[s].req] = call[s].data
        /\ \A t \in Servers : \A p \in Requests :
              t # s \/ p # call[s].req => answer'[t][p] = answer[t][p]
    BY <1>1, <1>3 DEF StoreTypeOK
  <2> QED BY <1>0, <1>1, <1>2, <1>3, <2>1
<1>4. CASE UNCHANGED answer
  BY <1>0, <1>1, <1>2, <1>4
<1> QED BY <1>1, <1>3, <1>4 DEF Reply, lifeVars

LEMMA DieStep ==
    ASSUME StoreTypeOK, NEW s \in Servers, Die(s)
    PROVE  /\ call'[s].at = "idle" /\ call'[s].data = 0
           /\ life'[s] = "dead" /\ victim'[s] = Nothing
           /\ \A t \in Servers : t # s => call'[t] = call[t]
           /\ \A t \in Servers : t # s => life'[t] = life[t]
           /\ \A t \in Servers : t # s => todo'[t] = todo[t]
           /\ \A t \in Servers : t # s => victim'[t] = victim[t]
           /\ call[s].at = "filling" => <<s, call[s].req>> \in spoilt'
           /\ spoilt \subseteq spoilt'
           /\ dirs' = dirs /\ file' = file /\ deadThen' = deadThen /\ refused' = refused
           /\ answer' = answer /\ swept' = swept /\ view' = view
           /\ stamp' = stamp
<1>1. /\ call'[s].at = "idle" /\ call'[s].data = 0
      /\ \A t \in Servers : t # s => call'[t] = call[t]
  BY RaiseCall DEF Die
<1>2. /\ life'[s] = "dead" /\ victim'[s] = Nothing
      /\ \A t \in Servers : t # s => life'[t] = life[t]
      /\ \A t \in Servers : t # s => todo'[t] = todo[t]
      /\ \A t \in Servers : t # s => victim'[t] = victim[t]
  BY DEF Die, StoreTypeOK
<1>3. /\ call[s].at = "filling" => <<s, call[s].req>> \in spoilt'
      /\ spoilt \subseteq spoilt'
  BY DEF Die
<1> QED BY <1>1, <1>2, <1>3 DEF Die

----------------------------------------------------------------------------
StoreInv ==
    /\ StoreTypeOK
    /\ \A s \in Servers : Live(s) /\ Sweep(s) /\ Write(s) /\ Age(s)
    /\ \A r \in Renderers : Seen(r)

LEMMA StoreInitInv == StoreInit => StoreInv
<1> SUFFICES ASSUME StoreInit PROVE StoreInv
  OBVIOUS
<1>1. StoreTypeOK
  BY StoreInitTypes
<1>2. ASSUME NEW s \in Servers PROVE Live(s) /\ Sweep(s) /\ Write(s) /\ Age(s)
  <2>1. /\ stamp = 0 /\ life[s] = "new" /\ victim[s] = Nothing
        /\ deadThen[s] = {} /\ call[s].at = "idle" /\ call[s].data = 0
        /\ \A q \in Requests : answer[s][q] = Nothing
    BY DEF SourceInit, StoreInit, Idle
  <2> QED BY <2>1 DEF Live, Sweep, Write, Age
<1>3. ASSUME NEW r \in Renderers PROVE Seen(r)
  <2>1. /\ view[r].ref = Nothing /\ view[r].held = Nothing /\ view[r].drew = Nothing
    BY <1>3 DEF StoreInit, Blank
  <2>2. \A s \in Servers : \A q \in Requests : <<s, q>> # Nothing
    BY SliceStoreAssumptions
  <2> QED BY <2>1, <2>2 DEF Seen
<1> QED BY <1>1, <1>2, <1>3 DEF StoreInv

LEMMA LiveStep ==
    ASSUME StoreInv, StoreTypeOK', [StoreNext]_<<stamp, storeVars>>,
           NEW t \in Servers
    PROVE  Live(t)'
<1>k. StoreTypeOK
  BY DEF StoreInv
<1>t. StoreTypeOK /\ \A s \in Servers : Live(s) /\ Sweep(s) /\ Write(s) /\ Age(s)
  BY DEF StoreInv
<1> USE VersionFacts DEF Live, lifeVars, callVars, Idle
<1>1. ASSUME NEW s \in Servers, Start(s)
      PROVE  Live(t)'
  BY <1>t, <1>1 DEF Start, StoreTypeOK
<1>2. ASSUME NEW s \in Servers, NEW d \in Servers, EmptyDir(s, d)
      PROVE  Live(t)'
  BY <1>t, <1>2, EmptyStep DEF EmptyDir, StoreTypeOK
<1>3. ASSUME NEW s \in Servers, DropDir(s)
      PROVE  Live(t)'
  BY <1>t, <1>3, DropStep DEF DropDir, StoreTypeOK
<1>4. ASSUME NEW s \in Servers, Serve(s)
      PROVE  Live(t)'
  BY <1>t, <1>4 DEF Serve, StoreTypeOK
<1>5. ASSUME NEW s \in Servers, NEW q \in Requests, Resolve(s, q)
      PROVE  Live(t)'
  BY <1>t, <1>5, ResolveStep
<1>6. ASSUME NEW s \in Servers, Load(s)
      PROVE  Live(t)'
  BY <1>t, <1>6, LoadStep
<1>7. ASSUME NEW s \in Servers, CreateFile(s)
      PROVE  Live(t)'
  BY <1>t, <1>7, CreateStep
<1>8. ASSUME NEW s \in Servers, FillFile(s)
      PROVE  Live(t)'
  BY <1>t, <1>8, FillStep
<1>9. ASSUME NEW s \in Servers, Reply(s)
      PROVE  Live(t)'
  BY <1>t, <1>9, ReplyStep
<1>10. ASSUME NEW s \in Servers, Die(s)
      PROVE  Live(t)'
  <2>1. \A d \in deadThen[t] : d \in Servers
    BY <1>t DEF StoreTypeOK
  <2>2. \A d \in deadThen'[t] : life'[d] = "dead"
    <3>1. /\ deadThen' = deadThen /\ life'[s] = "dead"
          /\ \A d \in Servers : d # s => life'[d] = life[d]
      BY <1>k, <1>10, DieStep
    <3> QED BY <1>t, <2>1, <3>1
  <2>3. CASE t = s
    <3>1. call'[s].at = "idle" /\ life'[s] = "dead" /\ victim'[s] = Nothing
      BY <1>t, <1>10, DieStep
    <3> QED BY <2>2, <2>3, <3>1
  <2>4. CASE t # s
    <3>1. /\ call'[t] = call[t] /\ life'[t] = life[t]
          /\ todo'[t] = todo[t] /\ victim'[t] = victim[t]
      BY <1>k, <1>10, <2>4, DieStep
    <3> QED BY <1>t, <2>2, <2>4, <3>1
  <2> QED BY <2>3, <2>4
<1>11. ASSUME NEW r \in Renderers, NEW s \in Servers, NEW q \in Requests, OpenSlice(r, s, q)
      PROVE  Live(t)'
  BY <1>t, <1>11 DEF OpenSlice, StoreTypeOK
<1>12. ASSUME NEW r \in Renderers, DrawSlice(r)
      PROVE  Live(t)'
  BY <1>t, <1>12 DEF DrawSlice, StoreTypeOK
<1>13. CASE Rewrite /\ UNCHANGED storeVars
  BY <1>t, <1>13 DEF Rewrite, storeVars, StoreTypeOK
<1>14. CASE UNCHANGED <<stamp, storeVars>>
  BY <1>t, <1>14 DEF storeVars
<1> QED
  BY <1>1, <1>2, <1>3, <1>4, <1>5, <1>6, <1>7, <1>8, <1>9, <1>10,
     <1>11, <1>12, <1>13, <1>14
  DEF StoreNext, Server, Renderer

LEMMA SweepStep ==
    ASSUME StoreInv, StoreTypeOK', [StoreNext]_<<stamp, storeVars>>,
           NEW t \in Servers
    PROVE  Sweep(t)'
<1>k. StoreTypeOK
  BY DEF StoreInv
<1>t. StoreTypeOK /\ \A s \in Servers : Live(s) /\ Sweep(s) /\ Write(s) /\ Age(s)
  BY DEF StoreInv
<1> USE VersionFacts DEF Live, Sweep, lifeVars, callVars, Idle
<1>1. ASSUME NEW s \in Servers, Start(s)
      PROVE  Sweep(t)'
  BY <1>t, <1>1 DEF Start, StoreTypeOK
<1>2. ASSUME NEW s \in Servers, NEW d \in Servers, EmptyDir(s, d)
      PROVE  Sweep(t)'
  BY <1>t, <1>2, EmptyStep DEF EmptyDir, StoreTypeOK
<1>3. ASSUME NEW s \in Servers, DropDir(s)
      PROVE  Sweep(t)'
  BY <1>t, <1>3, DropStep DEF DropDir, StoreTypeOK
<1>4. ASSUME NEW s \in Servers, Serve(s)
      PROVE  Sweep(t)'
  BY <1>t, <1>4 DEF Serve, StoreTypeOK
<1>5. ASSUME NEW s \in Servers, NEW q \in Requests, Resolve(s, q)
      PROVE  Sweep(t)'
  BY <1>t, <1>5, ResolveStep
<1>6. ASSUME NEW s \in Servers, Load(s)
      PROVE  Sweep(t)'
  BY <1>t, <1>6, LoadStep
<1>7. ASSUME NEW s \in Servers, CreateFile(s)
      PROVE  Sweep(t)'
  <2>1. victim[t] \in deadThen[t] => victim[t] \in Servers /\ victim[t] # s
    BY <1>t, <1>7, CreateStep DEF StoreTypeOK
  <2> QED BY <1>t, <1>7, <2>1, CreateStep
<1>8. ASSUME NEW s \in Servers, FillFile(s)
      PROVE  Sweep(t)'
  <2>1. victim[t] \in deadThen[t] => victim[t] \in Servers /\ victim[t] # s
    BY <1>t, <1>8, FillStep DEF StoreTypeOK
  <2> QED BY <1>t, <1>8, <2>1, FillStep
<1>9. ASSUME NEW s \in Servers, Reply(s)
      PROVE  Sweep(t)'
  BY <1>t, <1>9, ReplyStep
<1>10. ASSUME NEW s \in Servers, Die(s)
      PROVE  Sweep(t)'
  <2>1. Nothing \notin deadThen[t]
    BY <1>t DEF StoreTypeOK
  <2>2. /\ deadThen' = deadThen /\ dirs' = dirs /\ file' = file
        /\ refused' = refused
    BY <1>t, <1>10, DieStep DEF Die
  <2>3. CASE t = s
    <3>1. life'[s] = "dead" /\ victim'[s] = Nothing
      BY <1>t, <1>10, DieStep
    <3> QED BY <2>1, <2>2, <2>3, <3>1
  <2>4. CASE t # s
    <3>1. /\ life'[t] = life[t] /\ todo'[t] = todo[t]
          /\ victim'[t] = victim[t]
      BY <1>k, <1>10, <2>4, DieStep
    <3> QED BY <1>t, <2>2, <2>4, <3>1
  <2> QED BY <2>3, <2>4
<1>11. ASSUME NEW r \in Renderers, NEW s \in Servers, NEW q \in Requests, OpenSlice(r, s, q)
      PROVE  Sweep(t)'
  BY <1>t, <1>11 DEF OpenSlice, StoreTypeOK
<1>12. ASSUME NEW r \in Renderers, DrawSlice(r)
      PROVE  Sweep(t)'
  BY <1>t, <1>12 DEF DrawSlice, StoreTypeOK
<1>13. CASE Rewrite /\ UNCHANGED storeVars
  BY <1>t, <1>13 DEF Rewrite, storeVars, StoreTypeOK
<1>14. CASE UNCHANGED <<stamp, storeVars>>
  BY <1>t, <1>14 DEF storeVars
<1> QED
  BY <1>1, <1>2, <1>3, <1>4, <1>5, <1>6, <1>7, <1>8, <1>9, <1>10,
     <1>11, <1>12, <1>13, <1>14
  DEF StoreNext, Server, Renderer

LEMMA WriteStep ==
    ASSUME StoreInv, StoreTypeOK', [StoreNext]_<<stamp, storeVars>>,
           NEW t \in Servers
    PROVE  Write(t)'
<1>k. StoreTypeOK
  BY DEF StoreInv
<1>t. StoreTypeOK /\ \A s \in Servers : Live(s) /\ Sweep(s) /\ Write(s) /\ Age(s)
  BY DEF StoreInv
<1> USE VersionFacts DEF Live, Write, lifeVars, callVars, Idle
<1>1. ASSUME NEW s \in Servers, Start(s)
      PROVE  Write(t)'
  BY <1>t, <1>1 DEF Start, StoreTypeOK
<1>2. ASSUME NEW s \in Servers, NEW d \in Servers, EmptyDir(s, d)
      PROVE  Write(t)'
  <2>1. /\ call' = call /\ answer' = answer /\ spoilt' = spoilt
        /\ swept' = swept \union {d}
    BY <1>2 DEF EmptyDir
  <2>2. CASE t = d
    BY <1>t, <1>2, <2>1, <2>2, EmptyStep, InCall
  <2>3. CASE t # d
    <3>1. \A q \in Requests : file'[t][q] = file[t][q]
      BY <1>t, <1>2, <2>3, EmptyStep
    <3>2. call[t].at # "idle" => call[t].req \in Requests
      BY <1>t, InCall
    <3> QED BY <1>t, <2>1, <2>3, <3>1, <3>2
  <2> QED BY <2>2, <2>3
<1>3. ASSUME NEW s \in Servers, DropDir(s)
      PROVE  Write(t)'
  BY <1>t, <1>3, DropStep DEF DropDir, StoreTypeOK
<1>4. ASSUME NEW s \in Servers, Serve(s)
      PROVE  Write(t)'
  BY <1>t, <1>4 DEF Serve, StoreTypeOK
<1>5. ASSUME NEW s \in Servers, NEW q \in Requests, Resolve(s, q)
      PROVE  Write(t)'
  BY <1>t, <1>5, ResolveStep
<1>6. ASSUME NEW s \in Servers, Load(s)
      PROVE  Write(t)'
  BY <1>t, <1>6, LoadStep
<1>7. ASSUME NEW s \in Servers, CreateFile(s)
      PROVE  Write(t)'
  <2>0. call[t].at # "idle" => call[t].req \in Requests
    BY <1>t, InCall
  <2>1. CASE t = s
    <3>1. CASE call'[s].at = "idle" /\ file' = file
      BY <1>t, <1>7, <2>1, <3>1, CreateStep
    <3>2. CASE call'[s].at = "filling"
      <4>1. \A q \in Requests : q # call[s].req => file'[s][q] = file[s][q]
        BY <1>t, <1>7, <3>2, CreateStep
      <4>2. /\ file'[s][call[s].req] = Partly /\ call'[s].req = call[s].req
            /\ call[s].at = "loaded" /\ answer' = answer
            /\ swept' = swept /\ spoilt' = spoilt
        BY <1>t, <1>7, <3>2, CreateStep
      <4> QED BY <1>t, <2>1, <3>2, <4>1, <4>2
    <3> QED BY <1>t, <1>7, <3>1, <3>2, CreateStep
  <2>2. CASE t # s
    <3>1. /\ \A q \in Requests : file'[t][q] = file[t][q]
          /\ call'[t] = call[t] /\ answer' = answer
          /\ swept' = swept /\ spoilt' = spoilt
      BY <1>t, <1>7, <2>2, CreateStep
    <3> QED BY <1>t, <2>0, <3>1
  <2> QED BY <2>1, <2>2
<1>8. ASSUME NEW s \in Servers, FillFile(s)
      PROVE  Write(t)'
  <2>0. call[t].at # "idle" => call[t].req \in Requests
    BY <1>t, InCall
  <2>1. CASE t = s
    <3>1. /\ call[s].at = "filling" /\ answer' = answer /\ swept' = swept
          /\ call[s].data \in Versions /\ call[s].req \in Requests
      BY <1>t, <1>8, FillStep
    <3>2. CASE call'[s].at = "idle" /\ file' = file
      <4>1. spoilt' = spoilt \union {<<s, call[s].req>>}
        BY <1>t, <1>8, <3>2, FillStep
      <4> QED BY <1>t, <2>1, <3>1, <3>2, <4>1
    <3>3. CASE call'[s].at = "filled"
      <4>1. /\ \A q \in Requests : q # call[s].req => file'[s][q] = file[s][q]
            /\ file'[s][call[s].req] = IF file[s][call[s].req] = Nothing
                                       THEN Nothing ELSE call[s].data
        BY <1>t, <1>8, <3>3, FillStep
      <4>2. /\ call'[s].req = call[s].req /\ call'[s].data = call[s].data
            /\ spoilt' = spoilt \ {<<s, call[s].req>>}
        BY <1>t, <1>8, <3>3, FillStep
      <4>3. \A q \in Requests : <<s, q>> \in spoilt /\ q # call[s].req =>
                <<s, q>> \in spoilt'
        BY <4>2
      <4> QED BY <1>t, <2>1, <3>1, <3>3, <4>1, <4>2, <4>3
    <3> QED BY <1>t, <1>8, <3>2, <3>3, FillStep
  <2>2. CASE t # s
    <3>1. /\ \A q \in Requests : file'[t][q] = file[t][q]
          /\ call'[t] = call[t] /\ answer' = answer /\ swept' = swept
      BY <1>t, <1>8, <2>2, FillStep
    <3>2. \A q \in Requests : <<t, q>> \in spoilt => <<t, q>> \in spoilt'
      BY <1>t, <1>8, <2>2, FillStep
    <3> QED BY <1>t, <2>0, <3>1, <3>2
  <2> QED BY <2>1, <2>2
<1>9. ASSUME NEW s \in Servers, Reply(s)
      PROVE  Write(t)'
  BY <1>t, <1>9, ReplyStep
<1>10. ASSUME NEW s \in Servers, Die(s)
      PROVE  Write(t)'
  <2>1. /\ file' = file /\ answer' = answer /\ swept' = swept
        /\ spoilt \subseteq spoilt'
        /\ call[s].at = "filling" => <<s, call[s].req>> \in spoilt'
        /\ call'[s].at = "idle"
        /\ \A u \in Servers : u # s => call'[u] = call[u]
    BY <1>k, <1>10, DieStep
  <2>2. \A q \in Requests : <<t, q>> \in spoilt => <<t, q>> \in spoilt'
    BY <2>1
  <2>3. Write(t)
    BY <1>t
  <2>4. CASE t = s
    <3>1. \A q \in Requests : call[s].at = "filling" /\ call[s].req = q =>
            <<s, q>> \in spoilt'
      BY <2>1
    <3> QED BY <2>1, <2>2, <2>3, <2>4, <3>1
  <2>5. CASE t # s
    BY <2>1, <2>2, <2>3, <2>5
  <2> QED BY <2>4, <2>5
<1>11. ASSUME NEW r \in Renderers, NEW s \in Servers, NEW q \in Requests, OpenSlice(r, s, q)
      PROVE  Write(t)'
  BY <1>t, <1>11 DEF OpenSlice, StoreTypeOK
<1>12. ASSUME NEW r \in Renderers, DrawSlice(r)
      PROVE  Write(t)'
  BY <1>t, <1>12 DEF DrawSlice, StoreTypeOK
<1>13. CASE Rewrite /\ UNCHANGED storeVars
  BY <1>t, <1>13 DEF Rewrite, storeVars, StoreTypeOK
<1>14. CASE UNCHANGED <<stamp, storeVars>>
  BY <1>t, <1>14 DEF storeVars
<1> QED
  BY <1>1, <1>2, <1>3, <1>4, <1>5, <1>6, <1>7, <1>8, <1>9, <1>10,
     <1>11, <1>12, <1>13, <1>14
  DEF StoreNext, Server, Renderer

LEMMA AgeStep ==
    ASSUME StoreInv, StoreTypeOK', [StoreNext]_<<stamp, storeVars>>,
           NEW t \in Servers
    PROVE  Age(t)'
<1>k. StoreTypeOK
  BY DEF StoreInv
<1>t. StoreTypeOK /\ \A s \in Servers : Live(s) /\ Sweep(s) /\ Write(s) /\ Age(s)
  BY DEF StoreInv
<1>v. /\ stamp \in Nat /\ call[t].data \in Nat
      /\ \A q \in Requests : answer[t][q] # Nothing => answer[t][q] \in Nat
      /\ \A q \in Requests : file[t][q] \in Versions => file[t][q] \in Nat
  BY VersionFacts DEF StoreInv, StoreTypeOK, Versioned, Idle, Calls
<1> USE VersionFacts DEF Write, Age, lifeVars, callVars, Idle
<1>1. ASSUME NEW s \in Servers, Start(s)
      PROVE  Age(t)'
  BY <1>t, <1>v, <1>1 DEF Start, StoreTypeOK
<1>2. ASSUME NEW s \in Servers, NEW d \in Servers, EmptyDir(s, d)
      PROVE  Age(t)'
  BY <1>t, <1>v, <1>2, EmptyStep DEF EmptyDir, StoreTypeOK
<1>3. ASSUME NEW s \in Servers, DropDir(s)
      PROVE  Age(t)'
  BY <1>t, <1>v, <1>3 DEF DropDir, StoreTypeOK
<1>4. ASSUME NEW s \in Servers, Serve(s)
      PROVE  Age(t)'
  BY <1>t, <1>v, <1>4 DEF Serve, StoreTypeOK
<1>5. ASSUME NEW s \in Servers, NEW q \in Requests, Resolve(s, q)
      PROVE  Age(t)'
  BY <1>t, <1>v, <1>5, ResolveStep
<1>6. ASSUME NEW s \in Servers, Load(s)
      PROVE  Age(t)'
  BY <1>t, <1>v, <1>6, LoadStep
<1>7. ASSUME NEW s \in Servers, CreateFile(s)
      PROVE  Age(t)'
  BY <1>t, <1>v, <1>7, CreateStep
<1>8. ASSUME NEW s \in Servers, FillFile(s)
      PROVE  Age(t)'
  BY <1>t, <1>v, <1>8, FillStep
<1>9. ASSUME NEW s \in Servers, Reply(s)
      PROVE  Age(t)'
  BY <1>t, <1>v, <1>9, ReplyStep
<1>10. ASSUME NEW s \in Servers, Die(s)
      PROVE  Age(t)'
  <2>1. /\ answer' = answer /\ file' = file /\ stamp' = stamp
        /\ \/ call'[t] = call[t]
           \/ call'[t].at = "idle" /\ call'[t].data = 0
    BY <1>t, <1>10, DieStep
  <2> QED BY <1>t, <1>v, <2>1
<1>11. ASSUME NEW r \in Renderers, NEW s \in Servers, NEW q \in Requests, OpenSlice(r, s, q)
      PROVE  Age(t)'
  BY <1>t, <1>v, <1>11 DEF OpenSlice, StoreTypeOK
<1>12. ASSUME NEW r \in Renderers, DrawSlice(r)
      PROVE  Age(t)'
  BY <1>t, <1>v, <1>12 DEF DrawSlice, StoreTypeOK
<1>13. CASE Rewrite /\ UNCHANGED storeVars
  BY <1>t, <1>v, <1>13 DEF Rewrite, storeVars, StoreTypeOK
<1>14. CASE UNCHANGED <<stamp, storeVars>>
  BY <1>t, <1>v, <1>14 DEF storeVars
<1> QED
  BY <1>1, <1>2, <1>3, <1>4, <1>5, <1>6, <1>7, <1>8, <1>9, <1>10,
     <1>11, <1>12, <1>13, <1>14
  DEF StoreNext, Server, Renderer


(* A renderer's floor only meets versions that are at least as new. *)
LEMMA SeenStep ==
    ASSUME StoreInv, StoreTypeOK', [StoreNext]_<<stamp, storeVars>>,
           NEW x \in Renderers
    PROVE  Seen(x)'
<1>k. StoreTypeOK
  BY DEF StoreInv
<1>t. Seen(x) /\ \A s \in Servers : Age(s)
  BY DEF StoreInv
<1>v. /\ view[x].floor \in Nat
      /\ \A s \in Servers : \A q \in Requests :
            answer[s][q] # Nothing => answer[s][q] \in Nat
      /\ \A s \in Servers : \A q \in Requests :
            file[s][q] \in Versions => file[s][q] \in Nat
  BY <1>k, VersionFacts DEF StoreTypeOK, Versioned
<1>1. ASSUME UNCHANGED <<view, answer>> PROVE Seen(x)'
  BY <1>t, <1>1 DEF Seen
<1>2. ASSUME NEW s \in Servers, Reply(s) PROVE Seen(x)'
  <2>1. /\ call[s].at = "filled" /\ call[s].req \in Requests
        /\ call[s].data \in Versions /\ view' = view
    BY <1>k, <1>2, ReplyStep
  <2>2. \A t \in Servers : \A q \in Requests : answer[t][q] # Nothing =>
            answer'[t][q] # Nothing /\ answer[t][q] <= answer'[t][q]
    <3> SUFFICES ASSUME NEW t \in Servers, NEW q \in Requests, answer[t][q] # Nothing
                 PROVE  answer'[t][q] # Nothing /\ answer[t][q] <= answer'[t][q]
      OBVIOUS
    <3>1. \/ answer'[t][q] = answer[t][q]
          \/ t = s /\ q = call[s].req /\ answer'[t][q] = call[s].data
      <4>1. \/ answer' = answer
            \/ answer'[s][call[s].req] = call[s].data
        BY <1>k, <1>2, ReplyStep
      <4>2. t # s \/ q # call[s].req => answer'[t][q] = answer[t][q]
        BY <1>k, <1>2, ReplyStep
      <4>3. CASE t = s /\ q = call[s].req
        BY <4>1, <4>3
      <4> QED BY <4>2, <4>3
    <3>2. answer[s][q] # Nothing => answer[s][q] <= call[s].data
      BY <1>t, <2>1 DEF Age
    <3> QED BY <1>v, <2>1, <3>1, <3>2, VersionFacts
  <2>3. \A t \in Servers : \A q \in Requests : answer'[t][q] # Nothing =>
            answer'[t][q] \in Nat
    BY VersionFacts DEF StoreTypeOK, Versioned
  <2>4. ASSUME NEW t \in Servers, NEW q \in Requests, view[x].ref = <<t, q>>
        PROVE  answer'[t][q] # Nothing /\ view[x].floor <= answer'[t][q]
    <3>1. answer[t][q] # Nothing /\ view[x].floor <= answer[t][q]
      BY <1>t, <2>4 DEF Seen
    <3>2. answer'[t][q] # Nothing /\ answer[t][q] <= answer'[t][q]
      BY <2>2, <3>1
    <3>3. answer[t][q] \in Nat /\ answer'[t][q] \in Nat
      BY <1>v, <2>3, <3>1, <3>2
    <3> QED BY <1>v, <3>1, <3>2, <3>3
  <2> QED BY <1>t, <2>1, <2>4 DEF Seen
<1>3. ASSUME NEW r \in Renderers, NEW s \in Servers, NEW q \in Requests,
             OpenSlice(r, s, q)
      PROVE  Seen(x)'
  <2>0. answer' = answer /\ answer[s][q] # Nothing
    BY <1>3 DEF OpenSlice, callVars
  <2>1. CASE x # r
    <3>1. view'[x] = view[x]
      BY <1>k, <1>3, <2>1 DEF OpenSlice, StoreTypeOK
    <3> QED BY <1>t, <2>0, <3>1 DEF Seen
  <2>2. CASE x = r /\ file[s][q] \in Versions
    <3>1. /\ view'[x].ref = <<s, q>> /\ view'[x].held = file[s][q]
          /\ view'[x].floor = answer[s][q] /\ view'[x].drew = Nothing
      BY <1>k, <1>3, <2>2 DEF OpenSlice, StoreTypeOK
    <3>2. answer[s][q] <= file[s][q] /\ answer[s][q] \in Nat
      BY <1>t, <1>v, <2>0, <2>2 DEF Age
    <3>3. \A t \in Servers : \A p \in Requests : <<s, q>> = <<t, p>> =>
              t = s /\ p = q
      OBVIOUS
    <3> QED BY <2>0, <3>1, <3>2, <3>3 DEF Seen
  <2>3. CASE x = r /\ file[s][q] \notin Versions
    <3>1. view'[x].ref = Nothing /\ view'[x].held = Nothing /\ view'[x].drew = Nothing
      BY <1>k, <1>3, <2>3 DEF OpenSlice, StoreTypeOK, Blank
    <3>2. \A t \in Servers : \A p \in Requests : <<t, p>> # Nothing
      BY SliceStoreAssumptions
    <3> QED BY <3>1, <3>2 DEF Seen
  <2> QED BY <2>1, <2>2, <2>3
<1>4. ASSUME NEW r \in Renderers, DrawSlice(r) PROVE Seen(x)'
  <2>0. answer' = answer /\ view[r].ref # Nothing
    BY <1>4 DEF DrawSlice, callVars
  <2>1. CASE x # r
    <3>1. view'[x] = view[x]
      BY <1>k, <1>4, <2>1 DEF DrawSlice, StoreTypeOK
    <3> QED BY <1>t, <2>0, <3>1 DEF Seen
  <2>2. CASE x = r
    <3>1. PICK s \in Servers, q \in Requests : view[r].ref = <<s, q>>
      <4>1. view[r].ref \in Servers \X Requests
        BY <1>k, <2>0 DEF StoreTypeOK
      <4> QED BY <4>1
    <3>2. PICK seen \in {view[r].held, IF file[s][q] = Partly THEN Nothing
                                       ELSE file[s][q]} :
            view' = [view EXCEPT ![r] = [ref |-> Nothing, held |-> Nothing,
                                         floor |-> view[r].floor, drew |-> seen]]
      <4>1. view[r].ref[1] = s /\ view[r].ref[2] = q
        BY <3>1
      <4> QED BY <1>4, <4>1 DEF DrawSlice
    <3>3. /\ view'[x].ref = Nothing /\ view'[x].held = Nothing
          /\ view'[x].floor = view[x].floor /\ view'[x].drew = seen
      BY <1>k, <2>2, <3>2 DEF StoreTypeOK
    <3>4. file[s][q] \in Versions => view[x].floor <= file[s][q]
      <4>1. answer[s][q] # Nothing /\ view[x].floor <= answer[s][q]
        BY <1>t, <2>2, <3>1 DEF Seen
      <4>2. file[s][q] \in Versions => answer[s][q] <= file[s][q]
        BY <1>t, <4>1 DEF Age
      <4> QED BY <1>v, <4>1, <4>2
    <3>5. seen # Nothing => \/ seen = view[x].held
                            \/ seen = file[s][q] /\ seen \in Versions
      BY <1>k, <2>2, <3>2 DEF StoreTypeOK, Versioned
    <3>6. seen # Nothing => view[x].floor <= seen
      BY <1>t, <3>4, <3>5 DEF Seen
    <3>7. \A t \in Servers : \A p \in Requests : <<t, p>> # Nothing
      BY SliceStoreAssumptions
    <3> QED BY <3>3, <3>6, <3>7 DEF Seen
  <2> QED BY <2>1, <2>2
<1>5. CASE \/ UNCHANGED <<stamp, storeVars>>
           \/ Rewrite /\ UNCHANGED storeVars
  BY <1>1, <1>5 DEF storeVars
<1>6. ASSUME NEW s \in Servers, Start(s) \/ DropDir(s) \/ Serve(s) \/ Load(s)
                               \/ CreateFile(s) \/ FillFile(s) \/ Die(s)
      PROVE  Seen(x)'
  BY <1>1, <1>6 DEF Start, DropDir, Serve, Load, CreateFile, FillFile, Die, callVars
<1>7. ASSUME NEW s \in Servers, NEW d \in Servers, EmptyDir(s, d) PROVE Seen(x)'
  BY <1>1, <1>7 DEF EmptyDir, callVars
<1>8. ASSUME NEW s \in Servers, NEW q \in Requests, Resolve(s, q) PROVE Seen(x)'
  BY <1>1, <1>8 DEF Resolve
<1> QED BY <1>2, <1>3, <1>4, <1>5, <1>6, <1>7, <1>8 DEF StoreNext, Server, Renderer

LEMMA StoreStepInv == StoreInv /\ [StoreNext]_<<stamp, storeVars>> => StoreInv'
<1> SUFFICES ASSUME StoreInv, [StoreNext]_<<stamp, storeVars>> PROVE StoreInv'
  OBVIOUS
<1>1. StoreTypeOK'
  BY StoreStepTypes DEF StoreInv
<1>2. ASSUME NEW s \in Servers PROVE (Live(s) /\ Sweep(s) /\ Write(s) /\ Age(s))'
  BY <1>1, LiveStep, SweepStep, WriteStep, AgeStep
<1>3. ASSUME NEW r \in Renderers PROVE Seen(r)'
  BY <1>1, SeenStep
<1> QED BY <1>1, <1>2, <1>3 DEF StoreInv

LEMMA StoreInvImplies ==
    StoreInv => StoreTypeOK /\ DrawnNotStale /\ AnsweredReadable /\ DeadDirsRemoved
<1> SUFFICES ASSUME StoreInv
             PROVE  StoreTypeOK /\ DrawnNotStale /\ AnsweredReadable /\ DeadDirsRemoved
  OBVIOUS
<1>1. StoreTypeOK /\ AnsweredReadable
  BY DEF StoreInv, Write, AnsweredReadable
<1>2. DrawnNotStale
  <2> SUFFICES ASSUME NEW r \in Renderers, view[r].drew # Nothing
               PROVE  view[r].drew >= view[r].floor
    BY DEF DrawnNotStale
  <2>1. view[r].floor <= view[r].drew
    BY DEF StoreInv, Seen
  <2>2. view[r].floor \in Nat /\ view[r].drew \in Nat
    BY <1>1, VersionFacts DEF StoreTypeOK, Versioned
  <2> QED BY <2>1, <2>2
<1>3. DeadDirsRemoved
  <2> SUFFICES ASSUME NEW s \in Servers, life[s] = "up"
               PROVE  deadThen[s] \cap dirs \subseteq refused[s]
    BY DEF DeadDirsRemoved
  <2>1. Live(s) /\ Sweep(s)
    BY DEF StoreInv
  <2> QED BY <2>1 DEF Live, Sweep
<1> QED BY <1>1, <1>2, <1>3

(* Every variable of the slice store keeps its type. *)
THEOREM StoreTypes == StoreSpec => []StoreTypeOK
BY StoreInitInv, StoreStepInv, StoreInvImplies, PTL DEF StoreSpec

(* A renderer never draws a slice older than the answer that named it, for *)
(* any number of servers, slices, renderers and rewrites.                  *)
THEOREM NothingStaleDrawn == StoreSpec => []DrawnNotStale
BY StoreInitInv, StoreStepInv, StoreInvImplies, PTL DEF StoreSpec

(* The file an answer named is there and complete, unless a start removed  *)
(* it or a later read of the same slice broke off or is under way.         *)
THEOREM AnswersReadable == StoreSpec => []AnsweredReadable
BY StoreInitInv, StoreStepInv, StoreInvImplies, PTL DEF StoreSpec

(* However many servers start together, one that is up has left nothing of *)
(* the sessions that were dead when it started, but what the system        *)
(* refused it.                                                             *)
THEOREM OldSessionsRemoved == StoreSpec => []DeadDirsRemoved
BY StoreInitInv, StoreStepInv, StoreInvImplies, PTL DEF StoreSpec
=============================================================================
