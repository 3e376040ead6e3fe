------------------------- MODULE Refinements_proofs -------------------------
(***************************************************************************)
(* For any drafts, targets and number of runs: a draft takes effect once,  *)
(* and a target changes by merges alone.  The last part is about what the  *)
(* operations compute: each puts the body of a draft in its place and      *)
(* leaves all else where it was.                                           *)
(***************************************************************************)
EXTENDS Refinements, NaturalsInduction, WellFoundedInduction, SequenceTheorems, TLAPS

(* Each draft of a list that is not finished has its turn.                 *)
LEMMA CurIn ==
    ASSUME NEW r \in Reviewers, left[r] \subseteq Drafts, left[r] # {}
    PROVE  Cur(r) \in left[r] /\ Cur(r) \in Drafts
BY RankAssumption DEF Cur

-----------------------------------------------------------------------------
LEMMA InitType == Init => RefinementsTypeOK
BY OriginalAssumption, StartsAssumption DEF Init, RefinementsTypeOK, Live

LEMMA StepType == RefinementsTypeOK /\ [Next]_vars => RefinementsTypeOK'
<1> SUFFICES ASSUME RefinementsTypeOK, [Next]_vars PROVE RefinementsTypeOK'
    OBVIOUS
<1> USE DEF RefinementsTypeOK, Live, files, mine, told
<1>0. ASSUME UNCHANGED vars PROVE RefinementsTypeOK'
    BY <1>0 DEF vars
<1>1. ASSUME NEW r \in Reviewers, Start(r) PROVE RefinementsTypeOK'
    <2>1. PICK D \in SUBSET Readable :
             /\ \/ D = Readable /\ D # {} /\ mode' = [mode EXCEPT ![r] = "review"]
                \/ \E d \in Readable : D = {d} /\ mode' = [mode EXCEPT ![r] = "apply"]
             /\ left' = [left EXCEPT ![r] = D]
             /\ shared' = shared \cup UNION {D \cap left[s] : s \in Reviewers \ {r}}
        BY <1>1 DEF Start
    <2>2. D # {} /\ D \subseteq Drafts
        BY <2>1 DEF Readable, Pending
    <2>3. runs' \in [Reviewers -> Nat] /\ \A s \in Reviewers : runs'[s] <= Starts[s]
        <3>1. runs[r] < Starts[r] /\ runs' = [runs EXCEPT ![r] = @ + 1]
            BY <1>1 DEF Start
        <3>2. Starts[r] \in Nat /\ runs[r] \in Nat
            BY StartsAssumption
        <3>3. runs[r] + 1 \in Nat /\ runs[r] + 1 <= Starts[r]
            BY <3>1, <3>2
        <3> QED
            BY <3>1, <3>3
    <2>4. at' = [at EXCEPT ![r] = "show"] /\ UNCHANGED <<files, text, fd, merges, cuts, raced>>
        BY <1>1 DEF Start
    <2> QED
        BY <2>1, <2>2, <2>3, <2>4
<1>2. ASSUME NEW r \in Reviewers, Live(r), GoOn(r),
             draft' \in [Drafts -> {"none", "pending", "applied", "rejected"}],
             UNCHANGED <<target, tmp, mine, told>>
      PROVE  RefinementsTypeOK'
    BY <1>2, CurIn DEF GoOn
<1>3. ASSUME NEW r \in Reviewers, Live(r), Stop(r), UNCHANGED draft,
             DOMAIN target' = Targets, DOMAIN tmp' = Targets
      PROVE  RefinementsTypeOK'
    BY <1>3, CurIn DEF Stop
<1>4. ASSUME NEW r \in Reviewers, Show(r) PROVE RefinementsTypeOK'
    BY <1>4, <1>3 DEF Show
<1>5. ASSUME NEW r \in Reviewers, Skip(r) \/ Refuse(r) PROVE RefinementsTypeOK'
    BY <1>5, <1>2 DEF Skip, Refuse
<1>6. ASSUME NEW r \in Reviewers, Quit(r) \/ NoTargetGiven(r) PROVE RefinementsTypeOK'
    BY <1>6, <1>3 DEF Quit, NoTargetGiven
<1>7. ASSUME NEW r \in Reviewers, Reject(r) PROVE RefinementsTypeOK'
    BY <1>7, <1>2, <1>3 DEF Reject
<1>8. ASSUME NEW r \in Reviewers, Accept(r) PROVE RefinementsTypeOK'
    BY <1>8 DEF Accept
<1>9. ASSUME NEW r \in Reviewers, OpenTmp(r) PROVE RefinementsTypeOK'
    BY <1>9 DEF OpenTmp
<1>10. ASSUME NEW r \in Reviewers, Write(r) PROVE RefinementsTypeOK'
    BY <1>10 DEF Write, Put
<1>11. ASSUME NEW r \in Reviewers, WriteRaises(r) PROVE RefinementsTypeOK'
    BY <1>11, <1>3 DEF WriteRaises, Put
<1>12. ASSUME NEW r \in Reviewers, Replace(r) PROVE RefinementsTypeOK'
    <2>1. fd' \in [Reviewers -> {"none", "tmp", "target", "gone"}]
        BY <1>12 DEF Replace
    <2>2. merges' \in [Drafts -> Nat]
        BY <1>12, CurIn DEF Replace
    <2> QED
        BY <1>12, <2>1, <2>2 DEF Replace
<1>13. ASSUME NEW r \in Reviewers, ReplaceRaises(r) PROVE RefinementsTypeOK'
    BY <1>13, <1>3 DEF ReplaceRaises
<1>14. ASSUME NEW r \in Reviewers, Archive(r) PROVE RefinementsTypeOK'
    BY <1>14, <1>2 DEF Archive
<1>15. ASSUME NEW r \in Reviewers, ArchiveRaises(r) PROVE RefinementsTypeOK'
    BY <1>15, <1>3 DEF ArchiveRaises
<1>16. ASSUME NEW r \in Reviewers, Kill(r) PROVE RefinementsTypeOK'
    BY <1>16, <1>3 DEF Kill, Put
<1> QED
    BY <1>0, <1>1, <1>4, <1>5, <1>6, <1>7, <1>8, <1>9, <1>10, <1>11, <1>12, <1>13,
       <1>14, <1>15, <1>16 DEF Next, Step

-----------------------------------------------------------------------------
(* A draft that no two runs had listed at once is in the hands of one run, *)
(* which finds it pending.                                                 *)
InOneHand ==
    \A d \in Drafts \ shared : \A r \in Reviewers : d \in left[r] =>
        /\ draft[d] = "pending"
        /\ \A s \in Reviewers : d \in left[s] => s = r

CountInv == RefinementsTypeOK /\ InOneHand /\ AppliedOnce

Archiving(d) == \E r \in Reviewers : at[r] = "archive" /\ Cur(r) = d

(* Runs that keep their list keep their current draft.                     *)
LEMMA CurKept == ASSUME NEW r, left'[r] = left[r] PROVE Cur(r)' = Cur(r)
BY DEF Cur

LEMMA InitCount == Init => InOneHand /\ AppliedOnce
BY DEF Init, InOneHand, AppliedOnce

(* How a run leaves a draft, apart from archiving it: the list of one run  *)
(* shrinks, and a draft that was about to be archived counts as cut.       *)
LEMMA StopCounts ==
    ASSUME CountInv, RefinementsTypeOK', NEW r \in Reviewers, Live(r), Stop(r), UNCHANGED draft
    PROVE  InOneHand' /\ AppliedOnce'
<1> USE DEF CountInv, RefinementsTypeOK, Live
<1>1. PICK c \in Drafts : c = Cur(r) /\ c \in left[r]
    BY CurIn
<1>2. /\ left' = [left EXCEPT ![r] = {}] /\ at' = [at EXCEPT ![r] = "off"]
      /\ cuts' = IF at[r] = "archive" THEN [cuts EXCEPT ![c] = @ + 1] ELSE cuts
      /\ merges' = merges /\ shared' = shared
    BY <1>1 DEF Stop
<1>3. InOneHand'
    BY <1>2 DEF InOneHand
<1>4. \A s \in Reviewers \ {r} : at'[s] = at[s] /\ Cur(s)' = Cur(s)
    BY <1>2, CurKept
<1>5. at'[r] = "off"
    BY <1>2
<1>6. ASSUME NEW d \in Drafts \ shared, d # c \/ at[r] # "archive"
      PROVE  merges'[d] = cuts'[d] + IF draft'[d] = "applied" \/ Archiving(d)' THEN 1 ELSE 0
    <2>1. cuts'[d] = cuts[d]
        BY <1>2, <1>6, <1>1
    <2>2. Archiving(d)' <=> Archiving(d)
        BY <1>1, <1>4, <1>5, <1>6 DEF Archiving
    <2> QED
        BY <2>1, <2>2, <1>2 DEF AppliedOnce, Archiving
<1>7. ASSUME at[r] = "archive", c \notin shared
      PROVE  merges'[c] = cuts'[c] + IF draft'[c] = "applied" \/ Archiving(c)' THEN 1 ELSE 0
    <2>1. cuts'[c] = cuts[c] + 1
        BY <1>2, <1>7, <1>1
    <2>2. Archiving(c) /\ draft[c] = "pending"
        BY <1>1, <1>7 DEF Archiving, InOneHand
    <2>3. ~Archiving(c)'
        <3>1. ASSUME NEW s \in Reviewers \ {r}, at[s] = "archive", Cur(s) = c PROVE FALSE
            BY <1>1, <1>7, <3>1, CurIn DEF InOneHand
        <3> QED
            BY <1>4, <1>5, <3>1 DEF Archiving
    <2>4. merges[c] = cuts[c] + 1
        BY <2>2, <1>1, <1>7 DEF AppliedOnce, Archiving
    <2> QED
        BY <2>1, <2>2, <2>3, <2>4, <1>2, <1>1
<1> QED
    BY <1>3, <1>6, <1>7, <1>2 DEF AppliedOnce, Archiving

LEMMA GoOnCounts ==
    ASSUME CountInv, RefinementsTypeOK', NEW r \in Reviewers, Live(r), GoOn(r),
           UNCHANGED <<merges, cuts, shared>>,
           \A d \in Drafts : d # Cur(r) => draft'[d] = draft[d],
           Cur(r) \notin shared => (draft'[Cur(r)] = "applied" <=> at[r] = "archive")
    PROVE  InOneHand' /\ AppliedOnce'
<1> USE DEF CountInv, RefinementsTypeOK, Live
<1>1. PICK c \in Drafts : c = Cur(r) /\ c \in left[r]
    BY CurIn
<1>2. left' = [left EXCEPT ![r] = @ \ {c}] /\ at'[r] \in {"off", "show"}
    BY <1>1 DEF GoOn
<1>3. \A s \in Reviewers \ {r} : at'[s] = at[s] /\ Cur(s)' = Cur(s)
    BY <1>2, CurKept DEF GoOn
<1>4. c \notin shared => draft[c] = "pending" /\ \A s \in Reviewers : c \in left[s] => s = r
    BY <1>1 DEF InOneHand
<1>5. InOneHand'
    BY <1>1, <1>2, <1>4 DEF InOneHand
<1>6. ASSUME NEW d \in Drafts \ shared, d # c
      PROVE  merges'[d] = cuts'[d] + IF draft'[d] = "applied" \/ Archiving(d)' THEN 1 ELSE 0
    <2>1. Archiving(d)' <=> Archiving(d)
        BY <1>1, <1>2, <1>3, <1>6 DEF Archiving
    <2> QED
        BY <2>1, <1>1, <1>6 DEF AppliedOnce, Archiving
<1>7. ASSUME c \notin shared
      PROVE  merges'[c] = cuts'[c] + IF draft'[c] = "applied" \/ Archiving(c)' THEN 1 ELSE 0
    <2>1. ASSUME NEW s \in Reviewers \ {r}, at[s] = "archive", Cur(s) = c PROVE FALSE
        BY <1>4, <1>7, <2>1, CurIn
    <2>2. ~Archiving(c)'
        BY <1>2, <1>3, <2>1 DEF Archiving
    <2>3. Archiving(c) <=> at[r] = "archive"
        BY <1>1, <2>1 DEF Archiving
    <2> QED
        BY <2>2, <2>3, <1>1, <1>4, <1>7 DEF AppliedOnce, Archiving
<1> QED
    BY <1>5, <1>6, <1>7 DEF AppliedOnce, Archiving

(* A step that leaves the lists and the drafts, and archives nothing.      *)
LEMMA KeepCounts ==
    ASSUME CountInv, NEW r \in Reviewers, at[r] # "archive", at'[r] # "archive",
           \A s \in Reviewers \ {r} : at'[s] = at[s],
           UNCHANGED <<left, draft, merges, cuts, shared>>
    PROVE  InOneHand' /\ AppliedOnce'
<1>1. \A s \in Reviewers : Cur(s)' = Cur(s)
    BY CurKept
<1>2. \A d \in Drafts : Archiving(d)' <=> Archiving(d)
    BY <1>1 DEF Archiving
<1> QED
    BY <1>2 DEF CountInv, InOneHand, AppliedOnce, Archiving

LEMMA StartCounts ==
    ASSUME CountInv, NEW r \in Reviewers, Start(r)
    PROVE  InOneHand' /\ AppliedOnce'
<1> USE DEF CountInv, RefinementsTypeOK, Live
<1>1. PICK D \in SUBSET Readable :
         /\ left' = [left EXCEPT ![r] = D]
         /\ shared' = shared \cup UNION {D \cap left[s] : s \in Reviewers \ {r}}
    BY DEF Start
<1>2. /\ at[r] = "off" /\ at' = [at EXCEPT ![r] = "show"]
      /\ UNCHANGED <<draft, merges, cuts>>
    BY DEF Start, files
<1>3. \A d \in D : d \in Drafts /\ draft[d] = "pending"
    BY DEF Readable, Pending
<1>4. \A d \in Drafts \ shared', s \in Reviewers \ {r} : d \in left[s] => d \notin D
    BY <1>1
<1>5. InOneHand'
    BY <1>1, <1>2, <1>3, <1>4 DEF InOneHand
<1>6. \A s \in Reviewers \ {r} : at'[s] = at[s] /\ Cur(s)' = Cur(s)
    BY <1>1, <1>2, CurKept
<1>7. \A d \in Drafts : Archiving(d)' <=> Archiving(d)
    BY <1>2, <1>6 DEF Archiving
<1> QED
    BY <1>1, <1>2, <1>5, <1>7 DEF AppliedOnce, Archiving

LEMMA ReplaceCounts ==
    ASSUME CountInv, NEW r \in Reviewers, Replace(r)
    PROVE  InOneHand' /\ AppliedOnce'
<1> USE DEF CountInv, RefinementsTypeOK, Live
<1>1. PICK c \in Drafts : c = Cur(r) /\ c \in left[r]
    BY CurIn DEF Replace
<1>2. /\ at[r] = "replace" /\ at' = [at EXCEPT ![r] = "archive"]
      /\ merges' = [merges EXCEPT ![c] = @ + 1]
      /\ UNCHANGED <<draft, left, cuts, shared>>
    BY <1>1 DEF Replace
<1>3. \A s \in Reviewers : Cur(s)' = Cur(s)
    BY <1>2, CurKept
<1>4. ASSUME NEW d \in Drafts \ shared, d # c
      PROVE  merges'[d] = cuts'[d] + IF draft'[d] = "applied" \/ Archiving(d)' THEN 1 ELSE 0
    <2>1. Archiving(d)' <=> Archiving(d)
        BY <1>1, <1>2, <1>3, <1>4 DEF Archiving
    <2> QED
        BY <2>1, <1>2, <1>4 DEF AppliedOnce, Archiving
<1>5. ASSUME c \notin shared
      PROVE  merges'[c] = cuts'[c] + IF draft'[c] = "applied" \/ Archiving(c)' THEN 1 ELSE 0
    <2>1. draft[c] = "pending" /\ \A s \in Reviewers : c \in left[s] => s = r
        BY <1>1, <1>5 DEF InOneHand
    <2>2. ~Archiving(c)
        <3>1. ASSUME NEW s \in Reviewers, at[s] = "archive", Cur(s) = c PROVE FALSE
            BY <1>2, <2>1, <3>1, CurIn
        <3> QED
            BY <3>1 DEF Archiving
    <2>3. Archiving(c)'
        BY <1>1, <1>2, <1>3 DEF Archiving
    <2> QED
        BY <2>1, <2>2, <2>3, <1>2, <1>5 DEF AppliedOnce, Archiving
<1> QED
    BY <1>2, <1>4, <1>5, <1>2 DEF AppliedOnce, Archiving, InOneHand

LEMMA StepCount == CountInv /\ [Next]_vars => CountInv'
<1> SUFFICES ASSUME CountInv, [Next]_vars PROVE InOneHand' /\ AppliedOnce'
    BY StepType DEF CountInv
<1> USE DEF CountInv, files, mine, told
<1>0. RefinementsTypeOK /\ RefinementsTypeOK'
    BY StepType
<1>1. ASSUME UNCHANGED vars PROVE InOneHand' /\ AppliedOnce'
    BY <1>1 DEF vars, InOneHand, AppliedOnce, Cur
<1>2. ASSUME NEW r \in Reviewers, Start(r) PROVE InOneHand' /\ AppliedOnce'
    BY <1>2, StartCounts
<1>3. ASSUME NEW r \in Reviewers, Live(r), Stop(r), UNCHANGED draft
      PROVE  InOneHand' /\ AppliedOnce'
    BY <1>0, <1>3, StopCounts
<1>4. ASSUME NEW r \in Reviewers, at[r] \notin {"off", "archive"}, GoOn(r), UNCHANGED <<draft, told>>
      PROVE  InOneHand' /\ AppliedOnce'
    <2>1. Live(r) /\ Cur(r) \in left[r] /\ Cur(r) \in Drafts
        BY <1>0, <1>4, CurIn DEF Live, RefinementsTypeOK
    <2>2. Cur(r) \notin shared => draft'[Cur(r)] # "applied"
        BY <1>4, <2>1 DEF InOneHand
    <2> QED
        BY <1>0, <1>4, <2>1, <2>2, GoOnCounts
<1>5. ASSUME NEW r \in Reviewers, Show(r) PROVE InOneHand' /\ AppliedOnce'
    <2>1. at[r] = "show" /\ Live(r) /\ UNCHANGED draft
        BY <1>5 DEF Show, Live
    <2>2. CASE Stop(r)
        BY <1>3, <2>1, <2>2
    <2>3. CASE at' = [at EXCEPT ![r] = "ask"] /\ UNCHANGED <<left, mode, mine, told>>
        BY <1>0, <2>1, <2>3, KeepCounts DEF RefinementsTypeOK
    <2> QED
        BY <1>5, <2>2, <2>3 DEF Show
<1>6. ASSUME NEW r \in Reviewers, Skip(r) \/ Refuse(r) PROVE InOneHand' /\ AppliedOnce'
    BY <1>4, <1>6 DEF Skip, Refuse
<1>7. ASSUME NEW r \in Reviewers,
             Quit(r) \/ NoTargetGiven(r) \/ WriteRaises(r) \/ ReplaceRaises(r)
             \/ ArchiveRaises(r) \/ Kill(r)
      PROVE  InOneHand' /\ AppliedOnce'
    <2>1. Live(r) /\ Stop(r) /\ UNCHANGED draft
        BY <1>7 DEF Quit, NoTargetGiven, WriteRaises, ReplaceRaises, ArchiveRaises, Kill, Live
    <2> QED
        BY <1>3, <2>1
<1>8. ASSUME NEW r \in Reviewers, Reject(r) PROVE InOneHand' /\ AppliedOnce'
    <2>1. Live(r) /\ at[r] = "ask" /\ Cur(r) \in left[r] /\ Cur(r) \in Drafts
        BY <1>0, <1>8, CurIn DEF Reject, Live, RefinementsTypeOK
    <2>2. CASE draft' = [draft EXCEPT ![Cur(r)] = "rejected"] /\ GoOn(r) /\ UNCHANGED told
        BY <1>0, <2>1, <2>2, GoOnCounts DEF RefinementsTypeOK
    <2>3. CASE Stop(r) /\ UNCHANGED draft
        BY <1>3, <2>1, <2>3
    <2> QED
        BY <1>8, <2>2, <2>3 DEF Reject
<1>9. ASSUME NEW r \in Reviewers, Accept(r) \/ OpenTmp(r) \/ Write(r)
      PROVE  InOneHand' /\ AppliedOnce'
    <2>1. /\ at[r] # "archive" /\ at'[r] # "archive"
          /\ \A s \in Reviewers \ {r} : at'[s] = at[s]
          /\ UNCHANGED <<left, draft, merges, cuts, shared>>
        BY <1>0, <1>9 DEF Accept, OpenTmp, Write, RefinementsTypeOK
    <2> QED
        BY <2>1, KeepCounts
<1>10. ASSUME NEW r \in Reviewers, Replace(r) PROVE InOneHand' /\ AppliedOnce'
    BY <1>10, ReplaceCounts
<1>11. ASSUME NEW r \in Reviewers, Archive(r) PROVE InOneHand' /\ AppliedOnce'
    <2>1. Live(r) /\ at[r] = "archive" /\ Cur(r) \in left[r] /\ Cur(r) \in Drafts
        BY <1>0, <1>11, CurIn DEF Archive, Live, RefinementsTypeOK
    <2>2. draft' = [draft EXCEPT ![Cur(r)] = "applied"] /\ GoOn(r) /\ UNCHANGED told
        BY <1>11 DEF Archive
    <2> QED
        BY <1>0, <2>1, <2>2, GoOnCounts DEF RefinementsTypeOK
<1> QED
    BY <1>1, <1>2, <1>5, <1>6, <1>7, <1>8, <1>9, <1>10, <1>11 DEF Next, Step

-----------------------------------------------------------------------------
(* The variables keep their types.                                         *)
THEOREM RefinementsType == Spec => []RefinementsTypeOK
BY InitType, StepType, PTL DEF Spec

(* A draft takes effect once, whichever runs are killed or raise, unless   *)
(* two runs had it in their lists at the same time: each merge beyond the  *)
(* one that is archived belongs to a run that ended before the archiving.  *)
THEOREM DraftsApplyOnce == Spec => []AppliedOnce
<1>1. Init => CountInv
    BY InitType, InitCount DEF CountInv
<1>2. CountInv => AppliedOnce
    BY DEF CountInv
<1> QED
    BY <1>1, <1>2, StepCount, PTL DEF Spec

-----------------------------------------------------------------------------
(* The one run that changes a target: what it computed is the merge of its *)
(* draft into the target as it still is, and the temporary is its own.     *)
MergeOf(x, n) == IF x = Torn THEN Torn ELSE Result(x, n)

OneChanger ==
    \A r, s \in Reviewers :
        Changing(r) /\ Changing(s) /\ File(r) = File(s) => r = s \/ File(r) \in raced

ChangerOK(r) ==
    LET t == File(r)
        x == MergeOf(target[t], Note[Cur(r)])
    IN  /\ at[r] = "open" => text[r] = x
        /\ at[r] = "write" => text[r] = x /\ fd[r] = "tmp" /\ tmp[t] = Empty
        /\ at[r] = "replace" => tmp[t] = x

MergeInv ==
    /\ RefinementsTypeOK
    /\ OneChanger
    /\ \A r \in Reviewers : Changing(r) => File(r) \in Targets
    /\ \A r \in Reviewers : Changing(r) /\ File(r) \notin raced => ChangerOK(r)

LEMMA InitMerge == Init => MergeInv
BY InitType DEF Init, MergeInv, OneChanger, Changing

(* A run that leaves its target, and may have scribbled where it was       *)
(* writing, does no harm to the changer of another.                        *)
LEMMA LeaveMerge ==
    ASSUME MergeInv, RefinementsTypeOK', NEW r \in Reviewers, ~Changing(r)', UNCHANGED raced,
           \A s \in Reviewers \ {r} : at'[s] = at[s] /\ left'[s] = left[s]
                                     /\ text'[s] = text[s] /\ fd'[s] = fd[s],
           \A t \in Targets : \/ target'[t] = target[t] /\ tmp'[t] = tmp[t]
                              \/ Changing(r) /\ t = File(r)
    PROVE  MergeInv'
<1>1. \A s \in Reviewers \ {r} : Cur(s)' = Cur(s) /\ File(s)' = File(s)
    BY CurKept DEF File
<1>2. \A s \in Reviewers : Changing(s)' => s # r /\ Changing(s)
    BY DEF Changing
<1>3. OneChanger'
    BY <1>1, <1>2 DEF MergeInv, OneChanger
<1>4. ASSUME NEW s \in Reviewers, Changing(s)', File(s)' \notin raced PROVE ChangerOK(s)'
    <2>1. s # r /\ Changing(s) /\ File(s) \in Targets /\ ChangerOK(s)
        BY <1>1, <1>2, <1>4 DEF MergeInv
    <2>2. target'[File(s)] = target[File(s)] /\ tmp'[File(s)] = tmp[File(s)]
        BY <2>1, <1>1, <1>4 DEF MergeInv, OneChanger
    <2> QED
        BY <1>1, <2>1, <2>2 DEF ChangerOK
<1> QED
    BY <1>1, <1>2, <1>3, <1>4 DEF MergeInv

LEMMA Elsewhere ==
    ASSUME NEW f, NEW g, NEW S, DOMAIN f = S, NEW x, NEW y, g = [f EXCEPT ![x] = y]
    PROVE  \A t \in S : t # x => g[t] = f[t]
OBVIOUS

LEMMA AcceptMerge ==
    ASSUME MergeInv, RefinementsTypeOK', NEW r \in Reviewers, Accept(r)
    PROVE  MergeInv'
<1> USE DEF MergeInv, RefinementsTypeOK, files
<1>1. /\ at[r] = "ask" /\ at' = [at EXCEPT ![r] = "open"] /\ File(r) \in Targets
      /\ UNCHANGED <<target, tmp, left, fd>>
      /\ text' = [text EXCEPT ![r] = MergeOf(target[File(r)], Note[Cur(r)])]
      /\ raced' = IF \E s \in Reviewers \ {r} : Changing(s) /\ File(s) = File(r)
                  THEN raced \cup {File(r)} ELSE raced
    BY DEF Accept, MergeOf
<1>2. \A s \in Reviewers : Cur(s)' = Cur(s) /\ File(s)' = File(s)
    BY <1>1, CurKept DEF File
<1>3. \A s \in Reviewers : s # r => (Changing(s)' <=> Changing(s))
    BY <1>1 DEF Changing
<1>4. raced \subseteq raced' /\ ~Changing(r)
    BY <1>1 DEF Changing
<1>5. OneChanger'
    <2>1. ASSUME NEW s \in Reviewers, s # r, Changing(s), File(s) = File(r)
          PROVE  File(r) \in raced'
        BY <2>1, <1>1
    <2> QED
        BY <2>1, <1>2, <1>3, <1>4 DEF OneChanger
<1>6. ASSUME NEW s \in Reviewers, Changing(s)', File(s)' \notin raced' PROVE ChangerOK(s)'
    <2>1. CASE s = r
        BY <2>1, <1>1, <1>2 DEF ChangerOK
    <2>2. CASE s # r
        <3>1. ChangerOK(s)
            BY <2>2, <1>2, <1>3, <1>4, <1>6
        <3> QED
            BY <3>1, <2>2, <1>1, <1>2 DEF ChangerOK
    <2> QED
        BY <2>1, <2>2
<1> QED
    BY <1>1, <1>2, <1>3, <1>5, <1>6

(* The changer goes on: what others change has another file, or has raced. *)
LEMMA GoOnMerge ==
    ASSUME MergeInv, RefinementsTypeOK', NEW r \in Reviewers, Changing(r), Changing(r)',
           UNCHANGED <<left, raced>>,
           \A s \in Reviewers \ {r} : at'[s] = at[s] /\ text'[s] = text[s] /\ fd'[s] = fd[s],
           \A t \in Targets : t = File(r) \/ (target'[t] = target[t] /\ tmp'[t] = tmp[t]),
           File(r) \notin raced => ChangerOK(r)'
    PROVE  MergeInv'
<1> USE DEF MergeInv
<1>1. \A s \in Reviewers : Cur(s)' = Cur(s) /\ File(s)' = File(s)
    BY CurKept DEF File
<1>2. \A s \in Reviewers : Changing(s)' <=> Changing(s)
    BY DEF Changing
<1>3. OneChanger'
    BY <1>1, <1>2 DEF OneChanger
<1>4. ASSUME NEW s \in Reviewers, s # r, Changing(s), File(s) \notin raced PROVE ChangerOK(s)'
    <2>1. File(s) # File(r) /\ File(s) \in Targets /\ ChangerOK(s)
        BY <1>4 DEF OneChanger
    <2>2. target'[File(s)] = target[File(s)] /\ tmp'[File(s)] = tmp[File(s)]
        BY <2>1
    <2> QED
        BY <1>1, <1>4, <2>1, <2>2 DEF ChangerOK
<1> QED
    BY <1>1, <1>2, <1>3, <1>4

LEMMA OpenMerge ==
    ASSUME MergeInv, RefinementsTypeOK', NEW r \in Reviewers, OpenTmp(r)
    PROVE  MergeInv'
<1> USE DEF MergeInv, RefinementsTypeOK, told
<1>1. /\ at[r] = "open" /\ at' = [at EXCEPT ![r] = "write"]
      /\ tmp' = [tmp EXCEPT ![File(r)] = Empty] /\ fd' = [fd EXCEPT ![r] = "tmp"]
      /\ UNCHANGED <<target, left, text, raced>>
    BY DEF OpenTmp
<1>2. Changing(r) /\ Changing(r)' /\ File(r) \in Targets
    BY <1>1 DEF Changing
<1>3. Cur(r)' = Cur(r) /\ File(r)' = File(r)
    BY <1>1, CurKept DEF File
<1>4. File(r) \notin raced => ChangerOK(r)'
    BY <1>1, <1>2, <1>3 DEF ChangerOK
<1>5. \A t \in Targets : t = File(r) \/ (target'[t] = target[t] /\ tmp'[t] = tmp[t])
    <2>1. \A t \in Targets : t # File(r) => tmp'[t] = tmp[t]
        BY <1>1, Elsewhere
    <2> QED
        BY <2>1, <1>1
<1>6. \A s \in Reviewers \ {r} : at'[s] = at[s] /\ text'[s] = text[s] /\ fd'[s] = fd[s]
    BY <1>1
<1> HIDE DEF MergeInv, RefinementsTypeOK
<1> QED
    BY <1>1, <1>2, <1>4, <1>5, <1>6, GoOnMerge

LEMMA PutElsewhere ==
    ASSUME RefinementsTypeOK, NEW r \in Reviewers, NEW x, Put(r, x)
    PROVE  \A t \in Targets : t = File(r) \/ (target'[t] = target[t] /\ tmp'[t] = tmp[t])
<1>1. CASE fd[r] = "tmp"
    <2>1. tmp' = [tmp EXCEPT ![File(r)] = x] /\ target' = target /\ DOMAIN tmp = Targets
        BY <1>1 DEF Put, RefinementsTypeOK
    <2>2. \A t \in Targets : t # File(r) => tmp'[t] = tmp[t]
        BY <2>1, Elsewhere
    <2> QED
        BY <2>1, <2>2
<1>2. CASE fd[r] = "target"
    <2>1. target' = [target EXCEPT ![File(r)] = x] /\ tmp' = tmp /\ DOMAIN target = Targets
        BY <1>2 DEF Put, RefinementsTypeOK
    <2>2. \A t \in Targets : t # File(r) => target'[t] = target[t]
        BY <2>1, Elsewhere
    <2> QED
        BY <2>1, <2>2
<1>3. CASE fd[r] \notin {"tmp", "target"}
    BY <1>3 DEF Put
<1> QED
    BY <1>1, <1>2, <1>3

LEMMA WriteMerge ==
    ASSUME MergeInv, RefinementsTypeOK', NEW r \in Reviewers, Write(r)
    PROVE  MergeInv'
<1> USE DEF MergeInv, RefinementsTypeOK, told
<1>1. /\ at[r] = "write" /\ at' = [at EXCEPT ![r] = "replace"]
      /\ text' = [text EXCEPT ![r] = Empty] /\ fd' = [fd EXCEPT ![r] = "none"]
      /\ UNCHANGED <<left, raced>>
    BY DEF Write
<1>2. Changing(r) /\ Changing(r)' /\ File(r) \in Targets
    BY <1>1 DEF Changing
<1>3. Cur(r)' = Cur(r) /\ File(r)' = File(r)
    BY <1>1, CurKept DEF File
<1>4. \A t \in Targets : t = File(r) \/ (target'[t] = target[t] /\ tmp'[t] = tmp[t])
    BY PutElsewhere DEF Write
<1>5. ASSUME File(r) \notin raced PROVE ChangerOK(r)'
    <2>1. /\ fd[r] = "tmp" /\ tmp[File(r)] = Empty
          /\ text[r] = MergeOf(target[File(r)], Note[Cur(r)])
        BY <1>1, <1>2, <1>5 DEF ChangerOK
    <2>2. Holds(r) = Empty
        BY <2>1 DEF Holds
    <2>3. Put(r, text[r])
        BY <2>2 DEF Write
    <2>4. tmp'[File(r)] = text[r] /\ target' = target
        BY <2>1, <2>3, <1>2 DEF Put
    <2> QED
        BY <2>1, <2>4, <1>1, <1>3 DEF ChangerOK
<1> QED
    BY <1>1, <1>2, <1>4, <1>5, GoOnMerge

LEMMA ReplaceMerge ==
    ASSUME MergeInv, RefinementsTypeOK', NEW r \in Reviewers, Replace(r)
    PROVE  MergeInv'
<1> USE DEF MergeInv, RefinementsTypeOK
<1>1. /\ at[r] = "replace" /\ at' = [at EXCEPT ![r] = "archive"]
      /\ UNCHANGED <<left, text, raced>>
      /\ target' = [target EXCEPT ![File(r)] = tmp[File(r)]]
      /\ tmp' = [tmp EXCEPT ![File(r)] = Absent]
    BY DEF Replace
<1>6. \A t \in Targets : t = File(r) \/ (target'[t] = target[t] /\ tmp'[t] = tmp[t])
    <2>1. \A t \in Targets : t # File(r) => tmp'[t] = tmp[t]
        BY <1>1, Elsewhere
    <2>2. \A t \in Targets : t # File(r) => target'[t] = target[t]
        BY <1>1, Elsewhere
    <2> QED
        BY <2>1, <2>2
<1>7. \A s \in Reviewers : File(s) # File(r) => fd'[s] = fd[s]
    BY DEF Replace
<1>2. \A s \in Reviewers : Cur(s)' = Cur(s) /\ File(s)' = File(s)
    BY <1>1, CurKept DEF File
<1>3. Changing(r) /\ \A s \in Reviewers : Changing(s)' => s # r /\ Changing(s)
    BY <1>1 DEF Changing
<1>4. OneChanger'
    BY <1>1, <1>2, <1>3 DEF OneChanger
<1>5. ASSUME NEW s \in Reviewers, Changing(s)', File(s) \notin raced PROVE ChangerOK(s)'
    <2>1. s # r /\ Changing(s) /\ File(s) # File(r) /\ File(s) \in Targets /\ ChangerOK(s)
        BY <1>3, <1>5 DEF OneChanger
    <2>2. /\ target'[File(s)] = target[File(s)] /\ tmp'[File(s)] = tmp[File(s)]
          /\ fd'[s] = fd[s] /\ at'[s] = at[s]
        BY <1>1, <1>6, <1>7, <2>1
    <2> QED
        BY <1>1, <1>2, <2>1, <2>2 DEF ChangerOK
<1> QED
    BY <1>1, <1>2, <1>3, <1>4, <1>5

LEMMA StepMerge == MergeInv /\ [Next]_vars => MergeInv'
<1> SUFFICES ASSUME MergeInv, [Next]_vars PROVE MergeInv'
    OBVIOUS
<1> USE DEF files, mine, told
<1>0. RefinementsTypeOK /\ RefinementsTypeOK'
    BY StepType DEF MergeInv
<1>1. ASSUME UNCHANGED vars PROVE MergeInv'
    <2>1. UNCHANGED <<target, tmp, at, left, text, fd, raced>>
        BY <1>1 DEF vars
    <2>2. \A s \in Reviewers : Cur(s)' = Cur(s) /\ File(s)' = File(s)
        BY <2>1, CurKept DEF File
    <2>3. \A s \in Reviewers : (Changing(s)' <=> Changing(s)) /\ (ChangerOK(s)' <=> ChangerOK(s))
        BY <2>1, <2>2 DEF Changing, ChangerOK
    <2> QED
        BY <1>0, <2>1, <2>2, <2>3 DEF MergeInv, OneChanger
<1>2. ASSUME NEW r \in Reviewers, NEW a \in {"off", "show", "ask"}, at' = [at EXCEPT ![r] = a],
             \A s \in Reviewers \ {r} : left'[s] = left[s] /\ text'[s] = text[s] /\ fd'[s] = fd[s],
             UNCHANGED raced,
             UNCHANGED <<target, tmp>> \/ (at[r] = "write" /\ \E x : Put(r, x))
      PROVE  MergeInv'
    <2>1. ~Changing(r)' /\ \A s \in Reviewers \ {r} : at'[s] = at[s]
        BY <1>0, <1>2 DEF Changing, RefinementsTypeOK
    <2>2. \A t \in Targets : \/ target'[t] = target[t] /\ tmp'[t] = tmp[t]
                             \/ Changing(r) /\ t = File(r)
        BY <1>0, <1>2, PutElsewhere DEF Changing
    <2> QED
        BY <1>0, <1>2, <2>1, <2>2, LeaveMerge
<1>3. ASSUME NEW r \in Reviewers, GoOn(r), UNCHANGED <<target, tmp, mine, told>>
      PROVE  MergeInv'
    <2>1. \A s \in Reviewers \ {r} : left'[s] = left[s]
        BY <1>0, <1>3 DEF GoOn, RefinementsTypeOK
    <2>2. \E a \in {"off", "show", "ask"} : at' = [at EXCEPT ![r] = a]
        BY <1>3 DEF GoOn
    <2> QED
        BY <1>2, <1>3, <2>1, <2>2
<1>4. ASSUME NEW r \in Reviewers, Stop(r),
             UNCHANGED <<target, tmp>> \/ (at[r] = "write" /\ \E x : Put(r, x))
      PROVE  MergeInv'
    <2>1. /\ \A s \in Reviewers \ {r} : left'[s] = left[s] /\ text'[s] = text[s] /\ fd'[s] = fd[s]
          /\ at' = [at EXCEPT ![r] = "off"] /\ UNCHANGED raced
        BY <1>0, <1>4 DEF Stop, RefinementsTypeOK
    <2> QED
        BY <1>2, <1>4, <2>1
<1>5. ASSUME NEW r \in Reviewers, Start(r) PROVE MergeInv'
    <2>1. /\ \A s \in Reviewers \ {r} : left'[s] = left[s]
          /\ at' = [at EXCEPT ![r] = "show"] /\ UNCHANGED <<target, tmp, text, fd, raced>>
        BY <1>0, <1>5 DEF Start, RefinementsTypeOK
    <2> QED
        BY <1>2, <2>1
<1>6. ASSUME NEW r \in Reviewers, Show(r) PROVE MergeInv'
    <2>1. CASE at' = [at EXCEPT ![r] = "ask"] /\ UNCHANGED <<files, left, mode, mine, told>>
        BY <1>2, <2>1
    <2>2. CASE Stop(r) /\ UNCHANGED files
        BY <1>4, <2>2
    <2> QED
        BY <1>6, <2>1, <2>2 DEF Show
<1>7. ASSUME NEW r \in Reviewers, Skip(r) \/ Refuse(r) \/ Archive(r) PROVE MergeInv'
    BY <1>3, <1>7 DEF Skip, Refuse, Archive
<1>8. ASSUME NEW r \in Reviewers,
             Quit(r) \/ NoTargetGiven(r) \/ ReplaceRaises(r) \/ ArchiveRaises(r)
      PROVE  MergeInv'
    BY <1>4, <1>8 DEF Quit, NoTargetGiven, ReplaceRaises, ArchiveRaises
<1>9. ASSUME NEW r \in Reviewers, WriteRaises(r) \/ Kill(r) PROVE MergeInv'
    <2>1. Stop(r) /\ (UNCHANGED <<target, tmp>> \/ (at[r] = "write" /\ \E x : Put(r, x)))
        BY <1>9 DEF WriteRaises, Kill
    <2> QED
        BY <1>4, <2>1
<1>10. ASSUME NEW r \in Reviewers, Reject(r) PROVE MergeInv'
    BY <1>3, <1>4, <1>10 DEF Reject
<1> QED
    BY <1>0, <1>1, <1>5, <1>6, <1>7, <1>8, <1>9, <1>10, AcceptMerge, OpenMerge, WriteMerge,
       ReplaceMerge DEF Next, Step

LEMMA StepChanges ==
    ASSUME MergeInv, [Next]_vars
    PROVE  \A t \in Targets \ raced' : target'[t] # target[t] =>
             \E r \in Reviewers : Replace(r) /\ File(r) = t
                               /\ target'[t] = MergeOf(target[t], Note[Cur(r)])
<1> SUFFICES ASSUME NEW t \in Targets \ raced', target'[t] # target[t]
             PROVE  \E r \in Reviewers : Replace(r) /\ File(r) = t
                               /\ target'[t] = MergeOf(target[t], Note[Cur(r)])
    OBVIOUS
<1> USE DEF files, told
<1>1. ASSUME NEW r \in Reviewers, Replace(r) PROVE t = File(r) /\ ChangerOK(r) /\ at[r] = "replace"
                                                /\ target'[t] = tmp[t]
    <2>1. /\ at[r] = "replace" /\ target' = [target EXCEPT ![File(r)] = tmp[File(r)]]
          /\ DOMAIN target = Targets /\ raced' = raced
        BY <1>1 DEF Replace, MergeInv, RefinementsTypeOK
    <2>2. t = File(r)
        BY <2>1, Elsewhere
    <2> QED
        BY <2>1, <2>2 DEF MergeInv, Changing
<1>2. ASSUME NEW r \in Reviewers, Replace(r)
      PROVE  target'[t] = MergeOf(target[t], Note[Cur(r)])
    BY <1>1, <1>2 DEF ChangerOK
<1>3. ASSUME NEW r \in Reviewers, at[r] = "write", NEW x, Put(r, x), UNCHANGED raced PROVE FALSE
    <2>1. t = File(r)
        BY <1>3, PutElsewhere DEF MergeInv
    <2>2. fd[r] = "tmp"
        BY <1>3, <2>1 DEF MergeInv, ChangerOK, Changing
    <2> QED
        BY <1>3, <2>2 DEF Put
<1>4. ASSUME NEW r \in Reviewers, Write(r) \/ WriteRaises(r) \/ Kill(r) PROVE FALSE
    BY <1>3, <1>4 DEF Write, WriteRaises, Kill, Stop
<1>5. \E r \in Reviewers : Replace(r) \/ Write(r) \/ WriteRaises(r) \/ Kill(r)
    BY DEF vars, Next, Step, Start, Show, Skip, Quit, Reject, NoTargetGiven, Refuse, Accept, OpenTmp,
           ReplaceRaises, Archive, ArchiveRaises
<1> QED
    BY <1>1, <1>2, <1>4, <1>5

-----------------------------------------------------------------------------
(* What the operations compute.                                            *)

LEMMA FirstExists ==
    ASSUME NEW S \in SUBSET Nat, S # {}
    PROVE  First(S) \in S /\ \A i \in S : First(S) <= i
<1> DEFINE R == {p \in Nat \X Nat : p[1] < p[2]}
<1>1. IsWellFoundedOn(R, Nat)
    BY NatLessThanWellFounded DEF OpToRel
<1>2. PICK i \in S : \A j \in S : <<j, i>> \notin R
    <2> HIDE DEF R
    <2> QED
        BY <1>1, WFMin
<1>3. ASSUME NEW j \in S PROVE i <= j
    <2>1. <<j, i>> \in Nat \X Nat /\ <<j, i>> \notin R
        BY <1>2
    <2>2. ~(j < i)
        BY <2>1
    <2> QED
        BY <2>2
<1> QED
    BY <1>2, <1>3 DEF First

(* The first of S is the only element of S with none of S before it.       *)
LEMMA FirstIs ==
    ASSUME NEW S \in SUBSET Nat, NEW i \in S, \A j \in S : i <= j
    PROVE  First(S) = i
<1>1. First(S) \in S /\ First(S) <= i
    BY FirstExists
<1>2. First(S) \in Nat /\ i \in Nat /\ i <= First(S)
    BY <1>1
<1> HIDE DEF First
<1> QED
    BY <1>1, <1>2

(* A piece of a in the place of what is from i + 1 to j.                   *)
Between(a, i, j, b) == SubSeq(a, 1, i) \o b \o SubSeq(a, j + 1, Len(a))

LEMMA BetweenRight ==
    ASSUME NEW a \in Seq(Items), NEW b \in Seq(Items),
           NEW i \in 0 .. Len(a), NEW j \in i .. Len(a)
    PROVE  LET c == Between(a, i, j, b)
               m == Len(b)
           IN /\ c \in Seq(Items)
              /\ Len(c) = Len(a) - (j - i) + m
              /\ \A k \in 1 .. i : c[k] = a[k]
              /\ \A k \in 1 .. m : c[i + k] = b[k]
              /\ \A k \in i + m + 1 .. Len(c) : c[k] = a[k - m + (j - i)]
<1> DEFINE s == SubSeq(a, 1, i)
           t == SubSeq(a, j + 1, Len(a))
           n == Len(a)
           m == Len(b)
<1>1. n \in Nat /\ m \in Nat /\ i \in Nat /\ j \in Nat /\ i <= j /\ j <= n
    OBVIOUS
<1>2. s \in Seq(Items) /\ Len(s) = i /\ \A k \in 1 .. i : s[k] = a[k]
    BY <1>1
<1>3. t \in Seq(Items) /\ Len(t) = n - j /\ \A k \in 1 .. n - j : t[k] = a[j + k]
    BY <1>1
<1>4. Between(a, i, j, b) = s \o b \o t
    BY DEF Between
<1> HIDE DEF s, t, n, m
<1> DEFINE u == s \o b
<1>5. u \in Seq(Items) /\ Len(u) = i + m
      /\ \A k \in 1 .. i + m : u[k] = IF k <= i THEN s[k] ELSE b[k - i]
    BY <1>1, <1>2 DEF m
<1> HIDE DEF u
<1> DEFINE c == u \o t
<1>6. c \in Seq(Items) /\ Len(c) = i + m + (n - j)
      /\ \A k \in 1 .. i + m + (n - j) : c[k] = IF k <= i + m THEN u[k] ELSE t[k - (i + m)]
    <2> DEFINE p == i + m
               q == n - j
    <2>1. p \in Nat /\ q \in Nat /\ Len(u) = p /\ Len(t) = q
        BY <1>1, <1>3, <1>5
    <2>2. u \in Seq(Items) /\ t \in Seq(Items)
        BY <1>3, <1>5
    <2> HIDE DEF p, q
    <2>3. c \in Seq(Items) /\ Len(c) = Len(u) + Len(t)
        BY <2>2, ConcatProperties
    <2>4. ASSUME NEW k \in 1 .. p + q PROVE c[k] = IF k <= p THEN u[k] ELSE t[k - p]
        <3>1. k \in 1 .. Len(u) + Len(t)
            BY <2>1
        <3>2. c[k] = IF k <= Len(u) THEN u[k] ELSE t[k - Len(u)]
            BY <2>2, <3>1, ConcatProperties
        <3> QED
            BY <2>1, <3>2
    <2>5. Len(c) = p + q
        BY <2>1, <2>3
    <2> QED
        BY <2>3, <2>4, <2>5 DEF p, q
<1>7. Between(a, i, j, b) = c
    BY <1>4 DEF u
<1> HIDE DEF c
<1>8. Len(c) = n - (j - i) + m
    BY <1>1, <1>6
<1>9. \A k \in 1 .. i : c[k] = a[k]
    BY <1>1, <1>2, <1>5, <1>6
<1>10. ASSUME NEW k \in 1 .. m PROVE c[i + k] = b[k]
    <2>1. i + k \in 1 .. i + m /\ ~(i + k <= i) /\ (i + k) - i = k
        BY <1>1
    <2>2. i + k \in 1 .. i + m + (n - j)
        BY <1>1
    <2> QED
        BY <2>1, <2>2, <1>5, <1>6
<1>11. ASSUME NEW k \in i + m + 1 .. Len(c) PROVE c[k] = a[k - m + (j - i)]
    <2>1. k \in 1 .. i + m + (n - j) /\ ~(k <= i + m) /\ k - (i + m) \in 1 .. n - j
        BY <1>1, <1>6
    <2>2. j + (k - (i + m)) = k - m + (j - i)
        BY <1>1
    <2> QED
        BY <2>1, <2>2, <1>3, <1>6
<1> QED
    BY <1>6, <1>7, <1>8, <1>9, <1>10, <1>11 DEF n, m

(* The section that Body finds: from its first heading to the next one of  *)
(* any name, or to the end.                                                *)
LEMMA BodyRight ==
    ASSUME NEW a \in Seq(Items), NEW s, Where(a, Head2(s)) # {}
    PROVE  LET h == First(Where(a, Head2(s)))
               b == Body(a, s)
           IN  /\ h \in 1 .. Len(a) /\ a[h] = Head2(s)
               /\ \A k \in 1 .. h - 1 : a[k] # Head2(s)
               /\ b.from = h + 1 /\ b.to \in h .. Len(a)
               /\ \A k \in h + 1 .. b.to : ~IsHead(a[k])
               /\ b.to = Len(a) \/ IsHead(a[b.to + 1])
<1> DEFINE W == Where(a, Head2(s))
           h == First(W)
           after == {i \in (h + 1)..Len(a) : IsHead(a[i])}
           j == IF after = {} THEN Len(a) ELSE First(after) - 1
           n == Len(a)
<1>1. W \in SUBSET Nat /\ W # {} /\ W = {i \in 1 .. n : a[i] = Head2(s)} /\ n \in Nat
    BY DEF Where
<1>2. Body(a, s) = [from |-> h + 1, to |-> j]
    BY DEF Body
<1> HIDE DEF W, n
<1>3. h \in W /\ \A k \in W : h <= k
    BY <1>1, FirstExists
<1> HIDE DEF h
<1>4. h \in 1 .. n /\ a[h] = Head2(s)
    BY <1>1, <1>3
<1>5. ASSUME NEW k \in 1 .. h - 1 PROVE a[k] # Head2(s)
    <2>1. k \in 1 .. n /\ ~(h <= k)
        BY <1>1, <1>4
    <2> QED
        BY <2>1, <1>1, <1>3
<1>6. j \in h .. n /\ (\A k \in h + 1 .. j : ~IsHead(a[k])) /\ (j = n \/ IsHead(a[j + 1]))
    <2>1. CASE after = {}
        <3>1. j = n
            BY <2>1 DEF n
        <3>2. \A k \in h + 1 .. n : ~IsHead(a[k])
            BY <2>1 DEF n
        <3> HIDE DEF j, after
        <3> QED
            BY <3>1, <3>2, <1>1, <1>4
    <2>2. CASE after # {}
        <3> DEFINE f == First(after)
        <3>1. after \in SUBSET Nat
            BY <1>1, <1>4 DEF n
        <3>2. f \in after /\ \A k \in after : f <= k
            BY <2>2, <3>1, FirstExists
        <3>3. j = f - 1
            BY <2>2
        <3> HIDE DEF f, j
        <3>4. f \in h + 1 .. n /\ IsHead(a[f])
            BY <3>2 DEF n
        <3>5. \A k \in h + 1 .. n : IsHead(a[k]) => f <= k
            BY <3>2 DEF n
        <3> HIDE DEF after
        <3>6. j \in h .. n /\ j + 1 = f
            BY <3>3, <3>4, <1>1, <1>4
        <3>7. ASSUME NEW k \in h + 1 .. j PROVE ~IsHead(a[k])
            <4>1. k \in h + 1 .. n /\ ~(f <= k)
                BY <1>1, <1>4, <3>3, <3>4
            <4> QED
                BY <4>1, <3>5
        <3> QED
            BY <3>4, <3>6, <3>7
    <2> QED
        BY <2>1, <2>2
<1> HIDE DEF j
<1>7. Body(a, s).from = h + 1 /\ Body(a, s).to = j
    BY <1>2
<1> QED
    BY <1>4, <1>5, <1>6, <1>7 DEF h, W, n

(* A text with other items is a text, and is not torn.                     *)
LEMMA ItemsOf ==
    ASSUME NEW x, IsText(x), NEW c \in Seq(Items)
    PROVE  LET y == [x EXCEPT !.items = c]
           IN  IsText(y) /\ y # Torn /\ y.front = x.front /\ y.items = c
<1>1. PICK f : x = [front |-> f, items |-> x.items]
    BY DEF IsText
<1>2. [x EXCEPT !.items = c] = [front |-> f, items |-> c]
    BY <1>1
<1>3. DOMAIN [front |-> f, items |-> c] # DOMAIN [torn |-> TRUE]
    OBVIOUS
<1> QED
    BY <1>1, <1>2, <1>3 DEF IsText, Torn

LEMMA FrontOf ==
    ASSUME NEW x, IsText(x), NEW g
    PROVE  LET y == [x EXCEPT !.front = g]
           IN  IsText(y) /\ y # Torn /\ y.front = g /\ y.items = x.items
<1>1. PICK a \in Seq(Items) : x = [front |-> x.front, items |-> a]
    BY DEF IsText
<1>2. [x EXCEPT !.front = g] = [front |-> g, items |-> a]
    BY <1>1
<1>3. DOMAIN [front |-> g, items |-> a] # DOMAIN [torn |-> TRUE]
    OBVIOUS
<1> QED
    BY <1>1, <1>2, <1>3 DEF IsText, Torn

(* Splice puts new items between what is up to i and what is after j.      *)
LEMMA SpliceBetween ==
    ASSUME NEW a, NEW i \in Nat, NEW j, NEW b
    PROVE  Splice(a, i + 1, j, b) = Between(a, i, j, b)
<1>1. (i + 1) - 1 = i
    OBVIOUS
<1> QED
    BY <1>1 DEF Splice, Between

(* What the text is once a draft is merged that is not refused.            *)
LEMMA AppendRight ==
    ASSUME NEW x, IsText(x), NEW n, n.op = "append", n.body \in Seq(Items),
           ~Refused(x, n)
    PROVE  /\ IsText(Result(x, n)) /\ Result(x, n) # Torn
           /\ Merged(n, x, Result(x, n))
<1> DEFINE a == x.items
           h == First(Where(a, Head2(n.section)))
           j == Body(a, n.section).to
<1>1. a \in Seq(Items) /\ Where(a, Head2(n.section)) # {}
    BY DEF IsText, Refused
<1>2. /\ h \in 1 .. Len(a) /\ a[h] = Head2(n.section) /\ j \in h .. Len(a)
      /\ \A k \in h + 1 .. j : ~IsHead(a[k])
      /\ j = Len(a) \/ IsHead(a[j + 1])
    BY <1>1, BodyRight
<1>3. Result(x, n) = [x EXCEPT !.items = Splice(a, j + 1, j, n.body)]
    BY DEF Result, Appended
<1> HIDE DEF a, h, j
<1>4. j \in 0 .. Len(a) /\ j \in j .. Len(a) /\ j \in Nat
    BY <1>1, <1>2
<1>5. Splice(a, j + 1, j, n.body) = Between(a, j, j, n.body)
    BY <1>4, SpliceBetween
<1>6. Between(a, j, j, n.body) \in Seq(Items)
    BY <1>1, <1>4, BetweenRight
<1>7. /\ IsText(Result(x, n)) /\ Result(x, n) # Torn
      /\ Result(x, n).front = x.front /\ Result(x, n).items = Between(a, j, j, n.body)
    BY <1>3, <1>5, <1>6, ItemsOf
<1> QED
    BY <1>2, <1>7 DEF Merged, Between, a

LEMMA ReplaceRight ==
    ASSUME NEW x, IsText(x), NEW n, n.op = "replace_section", n.body \in Seq(Items),
           ~Refused(x, n)
    PROVE  /\ IsText(Result(x, n)) /\ Result(x, n) # Torn
           /\ Merged(n, x, Result(x, n))
<1> DEFINE a == x.items
           h == First(Where(a, Head2(n.section)))
           j == Body(a, n.section).to
<1>1. a \in Seq(Items) /\ Where(a, Head2(n.section)) # {}
    BY DEF IsText, Refused
<1>2. /\ h \in 1 .. Len(a) /\ a[h] = Head2(n.section) /\ j \in h .. Len(a)
      /\ \A k \in h + 1 .. j : ~IsHead(a[k])
      /\ j = Len(a) \/ IsHead(a[j + 1])
      /\ Body(a, n.section).from = h + 1
    BY <1>1, BodyRight
<1>3. Result(x, n) = [x EXCEPT !.items = Splice(a, h + 1, j, n.body)]
    BY <1>2 DEF Result, Replaced
<1> HIDE DEF a, h, j
<1>4. h \in 0 .. Len(a) /\ h \in Nat
    BY <1>1, <1>2
<1>5. Splice(a, h + 1, j, n.body) = Between(a, h, j, n.body)
    BY <1>4, SpliceBetween
<1>6. Between(a, h, j, n.body) \in Seq(Items)
    BY <1>1, <1>2, <1>4, BetweenRight
<1>7. /\ IsText(Result(x, n)) /\ Result(x, n) # Torn
      /\ Result(x, n).front = x.front /\ Result(x, n).items = Between(a, h, j, n.body)
    BY <1>3, <1>5, <1>6, ItemsOf
<1> QED
    BY <1>2, <1>7 DEF Merged, Between, a

LEMMA AliasRight ==
    ASSUME NEW x, IsText(x), NEW n, n.op = "add_alias", n.body \in Seq(Items),
           ~Refused(x, n)
    PROVE  /\ IsText(Result(x, n)) /\ Result(x, n) # Torn
           /\ Merged(n, x, Result(x, n))
<1> DEFINE a == x.items
           f == First(Where(a, Above))
           j == f - 1
<1>1. a \in Seq(Items)
    BY DEF IsText
<1>2. PICK h \in Where(a, Below), i \in Where(a, Above) : Where(a, Above) = {i} /\ h < i
    BY DEF Refused
<1>3. h \in 1 .. Len(a) /\ a[h] = Below /\ i \in 1 .. Len(a) /\ a[i] = Above
    BY <1>2 DEF Where
<1>4. f = i
    <2>1. {i} \in SUBSET Nat /\ i \in Nat
        BY <1>3
    <2> QED
        BY <1>2, <2>1, FirstIs
<1>5. Result(x, n) = [x EXCEPT !.items = Splice(a, f, f - 1, n.body)]
    BY DEF Result, Spliced
<1> HIDE DEF a, f
<1>6. j \in h .. Len(a) - 1 /\ j + 1 = i /\ f = j + 1 /\ j \in 0 .. Len(a) /\ j \in j .. Len(a) /\ j \in Nat
    BY <1>1, <1>2, <1>3, <1>4
<1>7. Splice(a, f, f - 1, n.body) = Between(a, j, j, n.body)
    BY <1>6, SpliceBetween
<1> HIDE DEF j
<1>8. Between(a, j, j, n.body) \in Seq(Items)
    BY <1>1, <1>6, BetweenRight
<1>9. /\ IsText(Result(x, n)) /\ Result(x, n) # Torn
      /\ Result(x, n).front = x.front /\ Result(x, n).items = Between(a, j, j, n.body)
    BY <1>5, <1>7, <1>8, ItemsOf
<1> QED
    BY <1>3, <1>6, <1>9 DEF Merged, Between, a

LEMMA DefaultRight ==
    ASSUME NEW x, IsText(x), NEW n, n.op = "set_config_default"
    PROVE  /\ IsText(Result(x, n)) /\ Result(x, n) # Torn
           /\ Merged(n, x, Result(x, n))
           /\ Result(Result(x, n), n) = Result(x, n)
<1> DEFINE g(f) == [k \in DOMAIN f \cup {n.key} |-> IF k = n.key THEN n.value ELSE f[k]]
           y == Result(x, n)
<1>1. \A z : Result(z, n) = [z EXCEPT !.front = g(z.front)]
    BY DEF Result, WithDefault
<1>2. IsText(y) /\ y # Torn /\ y.front = g(x.front) /\ y.items = x.items
    <2> DEFINE gx == g(x.front)
    <2>1. y = [x EXCEPT !.front = gx]
        BY <1>1
    <2> HIDE DEF gx, y
    <2>2. IsText(y) /\ y # Torn /\ y.front = gx /\ y.items = x.items
        BY <2>1, FrontOf
    <2> QED
        BY <2>2 DEF gx
<1> HIDE DEF y
<1>3. Merged(n, x, y)
    BY <1>2 DEF Merged
<1>4. g(g(x.front)) = g(x.front)
    OBVIOUS
<1>5. [y EXCEPT !.front = y.front] = y
    <2>1. PICK f, a : y = [front |-> f, items |-> a]
        BY <1>2 DEF IsText
    <2> QED
        BY <2>1
<1>6. Result(y, n) = y
    <2> HIDE DEF g
    <2>1. g(y.front) = y.front
        BY <1>2, <1>4
    <2>2. Result(y, n) = [y EXCEPT !.front = g(y.front)]
        BY <1>1
    <2> QED
        BY <2>1, <2>2, <1>5
<1> QED
    BY <1>2, <1>3, <1>6 DEF y

(* A merge that is not refused does what the draft asks for.               *)
LEMMA MergedRight ==
    ASSUME NEW x, IsText(x), NEW n, n.body \in Seq(Items), ~Refused(x, n)
    PROVE  /\ IsText(Result(x, n)) /\ Result(x, n) # Torn
           /\ Merged(n, x, Result(x, n))
<1>1. n.op \in {"append", "replace_section", "add_alias", "set_config_default"}
    BY DEF Refused
<1> QED
    BY <1>1, AppendRight, ReplaceRight, AliasRight, DefaultRight

(* The section that was replaced by items without a heading is found again *)
(* where it was, holding those items; and it is replaced by what it holds. *)
LEMMA ReplacedAgain ==
    ASSUME NEW x, IsText(x), NEW n, n.op = "replace_section", n.body \in Seq(Items),
           ~Refused(x, n), \A i \in 1 .. Len(n.body) : ~IsHead(n.body[i])
    PROVE  Result(Result(x, n), n) = Result(x, n)
<1> DEFINE a == x.items
           b == n.body
           m == Len(b)
           s == n.section
           h == First(Where(a, Head2(s)))
           j == Body(a, s).to
           y == Result(x, n)
           c == Between(a, h, j, b)
<1>1. a \in Seq(Items) /\ Where(a, Head2(s)) # {} /\ b \in Seq(Items)
    BY DEF IsText, Refused
<1>2. /\ h \in 1 .. Len(a) /\ a[h] = Head2(s) /\ j \in h .. Len(a)
      /\ \A k \in 1 .. h - 1 : a[k] # Head2(s)
      /\ \A k \in h + 1 .. j : ~IsHead(a[k])
      /\ j = Len(a) \/ IsHead(a[j + 1])
      /\ Body(a, s).from = h + 1
    BY <1>1, BodyRight
<1>3. \A z : Result(z, n) =
          [z EXCEPT !.items = Splice(z.items, Body(z.items, s).from, Body(z.items, s).to, b)]
    BY DEF Result, Replaced
<1>4. Result(x, n) = [x EXCEPT !.items = Splice(a, h + 1, j, b)]
    BY <1>2, <1>3
<1> HIDE DEF a, b, m, s, h, j
<1>5. h \in 0 .. Len(a) /\ h \in Nat /\ j \in Nat /\ m \in Nat /\ Len(a) \in Nat
    BY <1>1, <1>2 DEF m
<1>6. Splice(a, h + 1, j, b) = c
    BY <1>5, SpliceBetween
<1>7. /\ c \in Seq(Items) /\ Len(c) = Len(a) - (j - h) + m
      /\ \A k \in 1 .. h : c[k] = a[k]
      /\ \A k \in 1 .. m : c[h + k] = b[k]
      /\ \A k \in h + m + 1 .. Len(c) : c[k] = a[k - m + (j - h)]
    BY <1>1, <1>2, <1>5, BetweenRight DEF m
<1>8. IsText(y) /\ y.items = c
    BY <1>4, <1>6, <1>7, ItemsOf
<1> HIDE DEF c, y
<1>9. Len(c) \in Nat /\ h + m \in h .. Len(c) /\ h \in 1 .. Len(c)
    <2> DEFINE p == Len(a)
               q == Len(c)
    <2>1. q \in Nat /\ p \in Nat /\ h \in 1 .. p /\ j \in h .. p /\ m \in Nat /\ q = p - (j - h) + m
        BY <1>2, <1>5, <1>7
    <2> HIDE DEF p, q
    <2>2. h + m \in h .. q /\ h \in 1 .. q
        BY <2>1
    <2> QED
        BY <2>1, <2>2 DEF q
<1>10. First(Where(c, Head2(s))) = h /\ Where(c, Head2(s)) # {}
    <2> DEFINE W == Where(c, Head2(s))
    <2>1. W \in SUBSET Nat /\ W = {k \in 1 .. Len(c) : c[k] = Head2(s)}
        BY DEF Where
    <2> HIDE DEF W
    <2>2. h \in W
        BY <2>1, <1>2, <1>7, <1>9
    <2>3. ASSUME NEW k \in W PROVE h <= k
        <3>1. SUFFICES ASSUME k < h PROVE FALSE
            BY <2>1, <1>5
        <3>2. k \in 1 .. h - 1 /\ k \in 1 .. h
            BY <2>1, <3>1, <1>5
        <3> QED
            BY <3>2, <2>1, <1>2, <1>7
    <2>4. First(W) = h
        BY <2>1, <2>2, <2>3, FirstIs
    <2> QED
        BY <2>2, <2>4 DEF W
<1>11. Body(c, s).from = h + 1 /\ Body(c, s).to = h + m
    <2> DEFINE e == Body(c, s).to
    <2>1. /\ Body(c, s).from = h + 1 /\ e \in h .. Len(c)
          /\ \A k \in h + 1 .. e : ~IsHead(c[k])
          /\ e = Len(c) \/ IsHead(c[e + 1])
        BY <1>7, <1>10, BodyRight
    <2> HIDE DEF e
    <2>2. ASSUME e < h + m PROVE FALSE
        <3>1. e + 1 \in h + 1 .. h + m /\ e # Len(c)
            BY <2>1, <2>2, <1>5, <1>9
        <3>2. (e + 1) - h \in 1 .. m /\ h + ((e + 1) - h) = e + 1
            BY <3>1, <2>1, <1>5
        <3>3. c[e + 1] = b[(e + 1) - h]
            BY <3>2, <1>7
        <3> QED
            BY <2>1, <3>1, <3>2, <3>3 DEF b, m
    <2>3. ASSUME e > h + m PROVE FALSE
        <3>1. h + m + 1 \in h + 1 .. e /\ h + m + 1 \in h + m + 1 .. Len(c)
            BY <2>1, <2>3, <1>5, <1>9
        <3>2. j # Len(a)
            BY <3>1, <1>2, <1>5, <1>7
        <3>3. (h + m + 1) - m + (j - h) = j + 1
            BY <1>5
        <3>4. c[h + m + 1] = a[j + 1]
            BY <3>1, <3>3, <1>7
        <3> QED
            BY <3>1, <3>2, <3>4, <2>1, <1>2
    <2>4. e = h + m
        BY <2>1, <2>2, <2>3, <1>5, <1>9
    <2> QED
        BY <2>1, <2>4 DEF e
<1>12. Splice(c, h + 1, h + m, b) = Between(c, h, h + m, b)
    BY <1>5, SpliceBetween
<1>13. Between(c, h, h + m, b) = c
    <2> DEFINE d == Between(c, h, h + m, b)
    <2>1. h \in 0 .. Len(c) /\ h + m \in h .. Len(c)
        BY <1>5, <1>9
    <2>2. /\ d \in Seq(Items) /\ Len(d) = Len(c) - ((h + m) - h) + m
          /\ \A k \in 1 .. h : d[k] = c[k]
          /\ \A k \in 1 .. m : d[h + k] = b[k]
          /\ \A k \in h + m + 1 .. Len(d) : d[k] = c[k - m + ((h + m) - h)]
        BY <1>1, <1>7, <2>1, BetweenRight DEF m
    <2> HIDE DEF d
    <2>3. Len(d) = Len(c)
        BY <2>2, <1>5, <1>9
    <2>4. ASSUME NEW k \in 1 .. Len(d) PROVE d[k] = c[k]
        <3>1. CASE k <= h
            <4>1. k \in 1 .. h
                BY <3>1, <1>5
            <4> QED
                BY <4>1, <2>2
        <3>2. CASE k > h /\ k <= h + m
            <4>1. k - h \in 1 .. m /\ h + (k - h) = k
                BY <3>2, <1>5
            <4> QED
                BY <4>1, <2>2, <1>7
        <3>3. CASE k > h + m
            <4>1. k \in h + m + 1 .. Len(d) /\ k - m + ((h + m) - h) = k
                BY <3>3, <1>5, <2>3, <1>9
            <4> QED
                BY <4>1, <2>2
        <3> QED
            BY <3>1, <3>2, <3>3, <1>5
    <2>5. d = c
        BY <2>2, <2>3, <2>4, <1>7, SeqEqual
    <2> QED
        BY <2>5 DEF d
<1>14. Result(y, n) = [y EXCEPT !.items = c]
    BY <1>3, <1>8, <1>11, <1>12, <1>13
<1>15. [y EXCEPT !.items = y.items] = y
    <2>1. PICK f, i : y = [front |-> f, items |-> i]
        BY <1>8 DEF IsText
    <2> QED
        BY <2>1
<1> QED
    BY <1>8, <1>14, <1>15 DEF y

(* A draft that may be merged once more, after a run was cut, changes      *)
(* nothing then.                                                           *)
LEMMA RepeatableRight ==
    ASSUME NEW x, IsText(x), NEW n, n.body \in Seq(Items), ~Refused(x, n), Repeatable(n)
    PROVE  Result(Result(x, n), n) = Result(x, n)
BY DefaultRight, ReplacedAgain DEF Repeatable

-----------------------------------------------------------------------------
(* A target that no two runs were changing at a time holds a text, and one *)
(* that can still take the draft which a run is merging into it.           *)
WholeInv ==
    /\ \A t \in Targets \ raced : IsText(target[t])
    /\ \A r \in Reviewers : Changing(r) /\ File(r) \notin raced =>
          ~Refused(target[File(r)], Note[Cur(r)])

LEMMA InitWhole == Init => WholeInv
BY OriginalAssumption DEF Init, WholeInv, Changing

LEMMA NotTorn == ASSUME NEW x, IsText(x) PROVE x # Torn
<1>1. PICK f, a : x = [front |-> f, items |-> a]
    BY DEF IsText
<1>2. DOMAIN [front |-> f, items |-> a] # DOMAIN [torn |-> TRUE]
    OBVIOUS
<1> QED
    BY <1>1, <1>2 DEF Torn

(* A run that is changing its target has the draft that it accepted.       *)
LEMMA StaysChanging ==
    ASSUME RefinementsTypeOK, [Next]_vars, NEW r \in Reviewers, Changing(r)'
    PROVE  left'[r] = left[r] /\ ~Replace(r) /\ (Changing(r) \/ Accept(r))
<1> USE DEF RefinementsTypeOK, Changing, files, mine, told
<1>1. ASSUME UNCHANGED vars PROVE left'[r] = left[r] /\ ~Replace(r) /\ Changing(r)
    BY <1>1 DEF vars, Replace
<1>2. ASSUME NEW s \in Reviewers, Step(s)
      PROVE  \/ s # r /\ left'[r] = left[r] /\ at'[r] = at[r]
             \/ s = r /\ UNCHANGED left /\ (Accept(r) \/ OpenTmp(r) \/ Write(r))
    BY <1>2 DEF Step, Start, Show, Skip, Quit, Reject, NoTargetGiven, Refuse, Accept, OpenTmp, Write,
                WriteRaises, Replace, ReplaceRaises, Archive, ArchiveRaises, Kill, GoOn, Stop
<1>3. ~Replace(r)
    BY DEF Replace
<1> QED
    BY <1>1, <1>2, <1>3 DEF Next, OpenTmp, Write

LEMMA RacedGrows == ASSUME [Next]_vars PROVE raced \subseteq raced'
BY DEF vars, told, Next, Step, Start, Show, Skip, Quit, Reject, NoTargetGiven, Refuse, Accept, OpenTmp,
       Write, WriteRaises, Replace, ReplaceRaises, Archive, ArchiveRaises, Kill, Stop

(* A change of such a target merges a draft that was not refused.          *)
LEMMA WholeChanges ==
    ASSUME MergeInv, WholeInv, [Next]_vars, NEW t \in Targets \ raced', target'[t] # target[t]
    PROVE  \E r \in Reviewers :
              /\ Replace(r) /\ File(r) = t /\ IsText(target[t])
              /\ target'[t] = Result(target[t], Note[Cur(r)])
              /\ ~Refused(target[t], Note[Cur(r)])
              /\ Note[Cur(r)].body \in Seq(Items)
<1>1. PICK r \in Reviewers : /\ Replace(r) /\ File(r) = t
                             /\ target'[t] = MergeOf(target[t], Note[Cur(r)])
    BY StepChanges
<1>2. t \notin raced /\ Changing(r)
    BY <1>1, RacedGrows DEF Replace, Changing
<1>3. IsText(target[t]) /\ ~Refused(target[t], Note[Cur(r)])
    BY <1>1, <1>2 DEF WholeInv
<1>4. target'[t] = Result(target[t], Note[Cur(r)])
    BY <1>1, <1>3, NotTorn DEF MergeOf
<1>5. Cur(r) \in Drafts
    BY <1>2, CurIn DEF MergeInv, RefinementsTypeOK, Live, Changing
<1> QED
    BY <1>1, <1>3, <1>4, <1>5, NoteAssumption

LEMMA StepWhole == MergeInv /\ WholeInv /\ [Next]_vars => WholeInv'
<1> SUFFICES ASSUME MergeInv, WholeInv, [Next]_vars PROVE WholeInv'
    OBVIOUS
<1>1. ASSUME NEW t \in Targets \ raced' PROVE IsText(target'[t])
    <2>1. CASE target'[t] = target[t]
        BY <2>1, RacedGrows DEF WholeInv
    <2>2. CASE target'[t] # target[t]
        BY <2>2, WholeChanges, MergedRight
    <2> QED
        BY <2>1, <2>2
<1>2. ASSUME NEW r \in Reviewers, Changing(r)', File(r)' \notin raced'
      PROVE  ~Refused(target'[File(r)'], Note[Cur(r)'])
    <2>1. left'[r] = left[r] /\ ~Replace(r) /\ (Changing(r) \/ Accept(r))
        BY <1>2, StaysChanging DEF MergeInv
    <2>2. Cur(r)' = Cur(r) /\ File(r)' = File(r)
        BY <2>1, CurKept DEF File
    <2>3. File(r) \notin raced /\ File(r) \in Targets
        BY <1>2, <2>1, <2>2, RacedGrows DEF MergeInv, Accept
    <2>4. ~Refused(target[File(r)], Note[Cur(r)])
        <3>1. CASE Changing(r)
            BY <3>1, <2>3 DEF WholeInv
        <3>2. CASE Accept(r)
            <4>1. target[File(r)] # Torn
                BY <2>3, NotTorn DEF WholeInv
            <4> QED
                BY <3>2, <4>1 DEF Accept
        <3> QED
            BY <2>1, <3>1, <3>2
    <2>5. target'[File(r)] = target[File(r)]
        <3>1. SUFFICES ASSUME target'[File(r)] # target[File(r)] PROVE FALSE
            OBVIOUS
        <3>2. PICK s \in Reviewers : Replace(s) /\ File(s) = File(r)
            BY <1>2, <2>2, <2>3, <3>1, WholeChanges
        <3>3. Changing(s)
            BY <3>2 DEF Replace, Changing
        <3>4. CASE Changing(r)
            BY <2>1, <2>3, <3>2, <3>3, <3>4 DEF MergeInv, OneChanger
        <3>5. CASE Accept(r)
            BY <3>5, <3>1 DEF Accept, files
        <3> QED
            BY <2>1, <3>4, <3>5
    <2> QED
        BY <2>2, <2>4, <2>5
<1> QED
    BY <1>1, <1>2 DEF WholeInv

(* A target changes in one way only: it goes from a text to that text with *)
(* one accepted draft merged, the draft's body in its place and all else   *)
(* where it was; and merging a repeatable draft once more changes nothing. *)
THEOREM TargetsKeepTheRest == Spec => TargetChangesByMerges
<1> DEFINE Change == \A t \in Targets \ raced' : target'[t] # target[t] =>
                        \E r \in Reviewers :
                           /\ at[r] = "replace" /\ File(r) = t
                           /\ target'[t] # Torn
                           /\ Merged(Note[Cur(r)], target[t], target'[t])
                           /\ Repeatable(Note[Cur(r)]) =>
                                 Result(target'[t], Note[Cur(r)]) = target'[t]
<1>1. Init => MergeInv /\ WholeInv
    BY InitMerge, InitWhole
<1>2. (MergeInv /\ WholeInv) /\ [Next]_vars => (MergeInv /\ WholeInv)'
    BY StepMerge, StepWhole
<1>3. MergeInv /\ WholeInv /\ [Next]_vars => [Change]_vars
    <2> SUFFICES ASSUME MergeInv, WholeInv, [Next]_vars,
                        NEW t \in Targets \ raced', target'[t] # target[t]
                 PROVE  \E r \in Reviewers :
                           /\ at[r] = "replace" /\ File(r) = t
                           /\ target'[t] # Torn
                           /\ Merged(Note[Cur(r)], target[t], target'[t])
                           /\ Repeatable(Note[Cur(r)]) =>
                                 Result(target'[t], Note[Cur(r)]) = target'[t]
        OBVIOUS
    <2>1. PICK r \in Reviewers :
              /\ Replace(r) /\ File(r) = t /\ IsText(target[t])
              /\ target'[t] = Result(target[t], Note[Cur(r)])
              /\ ~Refused(target[t], Note[Cur(r)])
              /\ Note[Cur(r)].body \in Seq(Items)
        BY WholeChanges
    <2>2. at[r] = "replace"
        BY <2>1 DEF Replace
    <2>3. target'[t] # Torn /\ Merged(Note[Cur(r)], target[t], target'[t])
        BY <2>1, MergedRight
    <2>4. Repeatable(Note[Cur(r)]) => Result(target'[t], Note[Cur(r)]) = target'[t]
        BY <2>1, RepeatableRight
    <2> QED
        BY <2>1, <2>2, <2>3, <2>4
<1> QED
    BY <1>1, <1>2, <1>3, PTL DEF Spec, TargetChangesByMerges
==============================================================================
