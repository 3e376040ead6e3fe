----------------------------- MODULE Refinements -----------------------------
(***************************************************************************)
(* tools/apply_refinements.py: a run of metplot-refine lists the pending   *)
(* drafts, shows one after the other, and on the user's word merges it     *)
(* into its target and moves it to applied/, or deletes it.  Nothing keeps *)
(* two runs apart, and a run can end anywhere: killed, or by an exception  *)
(* that the review loop, which knows ClickException only, lets through.    *)
(*                                                                         *)
(* A text is its YAML front and a sequence of items: headings of the form  *)
(* "## name", the two splice markers, and paragraphs.  Files of the tree   *)
(* hold a text or are torn; a file that was truncated holds Empty.         *)
(***************************************************************************)
EXTENDS Naturals, Sequences

CONSTANTS Drafts, Reviewers,  \* draft files; processes running metplot-refine
          Rank,               \* the order of the drafts' file names
          Note,               \* what each draft says
          Targets,            \* files of the repository that exist
          Original,           \* their texts
          Batches,            \* sets of drafts that may be waiting together
          Starts,             \* bound: runs each reviewer process makes
          Absent, NoFront, BadFront, NoSection, NoKey, NoTarget

(* A text has a front and items; a torn one is neither.                    *)
Items == STRING \X STRING
IsText(x) == x = [front |-> x.front, items |-> x.items] /\ x.items \in Seq(Items)
Torn == [torn |-> TRUE]

(* File names are sorted: no two are alike, and every list has a first.    *)
ASSUME RankAssumption ==
    /\ \A d, e \in Drafts : Rank[d] = Rank[e] => d = e
    /\ \A S \in SUBSET Drafts \ {{}} : \E d \in S : \A e \in S : Rank[d] <= Rank[e]
ASSUME BatchesAssumption == Batches \subseteq SUBSET Drafts
ASSUME OriginalAssumption ==
    DOMAIN Original = Targets /\ \A t \in Targets : IsText(Original[t])
ASSUME NoteAssumption == \A d \in Drafts : Note[d].body \in Seq(Items)
ASSUME StartsAssumption == Starts \in [Reviewers -> Nat]

VARIABLES
    draft,    \* none yet, pending, applied, or rejected (deleted)
    target,   \* what each target file holds
    tmp,      \* what is at "<target>.tmp", or Absent
    at,       \* where each run is
    mode,     \* whether a run reviews the list or applies one draft
    left,     \* the drafts a run has still to show
    text,     \* the text a run writes
    fd,       \* the name under which the file a run has opened is found
    runs,     \* runs each process has started
    merges,   \* history: replacements of the target for each draft
    cuts,     \* history: those that were not followed by the archiving
    shared,   \* history: drafts that were in two runs' lists at a time
    raced     \* history: targets that two runs were changing at a time

files == <<draft, target, tmp>>
mine  == <<text, fd, runs>>
told  == <<merges, cuts, shared, raced>>
vars  == <<draft, target, tmp, at, mode, left, text, fd, runs, merges, cuts, shared, raced>>

Below == <<"marker", "below">>
Above == <<"marker", "above">>
Head2(s) == <<"##", s>>
IsHead(x) == x[1] = "##"
Empty  == [front |-> NoFront, items |-> << >>]

-----------------------------------------------------------------------------
(* The five operations, on a text that is not torn.                        *)
Where(items, x) == {i \in 1..Len(items) : items[i] = x}
First(S) == CHOOSE i \in S : \A j \in S : i <= j

(* The section runs from its first heading to the next heading of any name *)
(* or to the end of the text.                                              *)
Body(items, s) ==
    LET h == First(Where(items, Head2(s)))
        after == {i \in (h + 1)..Len(items) : IsHead(items[i])}
    IN  [from |-> h + 1, to |-> IF after = {} THEN Len(items) ELSE First(after) - 1]

Splice(items, from, to, new) ==
    SubSeq(items, 1, from - 1) \o new \o SubSeq(items, to + 1, Len(items))

Appended(x, n) ==
    LET b == Body(x.items, n.section)
    IN  [x EXCEPT !.items = Splice(@, b.to + 1, b.to, n.body)]

Replaced(x, n) ==
    LET b == Body(x.items, n.section)
    IN  [x EXCEPT !.items = Splice(@, b.from, b.to, n.body)]

Spliced(x, n) ==
    LET above == First(Where(x.items, Above))
    IN  [x EXCEPT !.items = Splice(@, above, above - 1, n.body)]

WithDefault(x, n) ==
    [x EXCEPT !.front = [k \in DOMAIN @ \cup {n.key} |-> IF k = n.key THEN n.value ELSE @[k]]]

(* What makes apply_refinement raise a ClickException.                     *)
Refused(x, n) ==
    CASE n.op \in {"append", "replace_section"} ->
           n.section = NoSection \/ Where(x.items, Head2(n.section)) = {}
      [] n.op = "add_alias" ->
           LET below == Where(x.items, Below)
               above == Where(x.items, Above)
           IN  \/ ~\E i \in below, j \in above : below = {i} /\ above = {j} /\ i < j
      [] n.op = "set_config_default" -> n.key = NoKey \/ x.front \in {NoFront, BadFront}
      [] OTHER -> TRUE            \* add_region is a stub, the rest unknown

Result(x, n) ==
    CASE n.op = "append" -> Appended(x, n)
      [] n.op = "replace_section" -> Replaced(x, n)
      [] n.op = "add_alias" -> Spliced(x, n)
      [] n.op = "set_config_default" -> WithDefault(x, n)

-----------------------------------------------------------------------------
Live(r) == at[r] # "off"
Pending == {d \in Drafts : draft[d] = "pending"}

(* list_refinements sorts by name, and skips what it cannot parse.         *)
Cur(r)  == CHOOSE d \in left[r] : \A e \in left[r] : Rank[d] <= Rank[e]
File(r) == Note[Cur(r)].target
Changing(r) == at[r] \in {"open", "write", "replace"}

Init ==
    /\ \E B \in Batches :
          draft = [d \in Drafts |-> IF d \in B THEN "pending" ELSE "none"]
    /\ target = Original
    /\ tmp    = [t \in Targets |-> Absent]
    /\ at     = [r \in Reviewers |-> "off"]
    /\ mode   = [r \in Reviewers |-> "none"]
    /\ left   = [r \in Reviewers |-> {}]
    /\ text   = [r \in Reviewers |-> Empty]
    /\ fd     = [r \in Reviewers |-> "none"]
    /\ runs   = [r \in Reviewers |-> 0]
    /\ merges = [d \in Drafts |-> 0]
    /\ cuts   = [d \in Drafts |-> 0]
    /\ shared = {}
    /\ raced  = {}

(* A run lists the drafts once, and goes by that list; --apply names one.  *)
Readable == {d \in Pending : Note[d].form # "malformed"}

Start(r) ==
    /\ at[r] = "off"
    /\ runs[r] < Starts[r]
    /\ \E D \in SUBSET Readable :
          /\ \/ D = Readable /\ D # {} /\ mode' = [mode EXCEPT ![r] = "review"]
             \/ \E d \in Readable : D = {d} /\ mode' = [mode EXCEPT ![r] = "apply"]
          /\ left' = [left EXCEPT ![r] = D]
          /\ shared' = shared \cup UNION {D \cap left[s] : s \in Reviewers \ {r}}
    /\ at' = [at EXCEPT ![r] = "show"]
    /\ runs' = [runs EXCEPT ![r] = @ + 1]
    /\ UNCHANGED <<files, text, fd, merges, cuts, raced>>

(* For a mutant: the loop does not see that the list is at its end.        *)
GoOnPastTheLast(r) ==
    /\ left' = [left EXCEPT ![r] = @ \ {Cur(r)}]
    /\ at' = [at EXCEPT ![r] = "show"]
    /\ UNCHANGED mode

(* The run goes on to its next draft, or ends after the last.              *)
GoOn(r) ==
    /\ left' = [left EXCEPT ![r] = @ \ {Cur(r)}]
    /\ at' = [at EXCEPT ![r] = IF left[r] = {Cur(r)} THEN "off" ELSE "show"]
    /\ mode' = [mode EXCEPT ![r] = IF left[r] = {Cur(r)} THEN "none" ELSE @]

(* The run ends where it stands.                                           *)
Stop(r) ==
    /\ left' = [left EXCEPT ![r] = {}]
    /\ at' = [at EXCEPT ![r] = "off"]
    /\ mode' = [mode EXCEPT ![r] = "none"]
    /\ text' = [text EXCEPT ![r] = Empty]
    /\ fd' = [fd EXCEPT ![r] = "none"]
    /\ cuts' = IF at[r] = "archive" THEN [cuts EXCEPT ![Cur(r)] = @ + 1] ELSE cuts
    /\ UNCHANGED <<runs, merges, shared, raced>>

(* render_summary joins the evidence: "evidence:" without a value is None, *)
(* and the TypeError ends the review of every draft after it.              *)
Show(r) ==
    /\ at[r] = "show"
    /\ \/ /\ Note[Cur(r)].form # "no_evidence"
          /\ at' = [at EXCEPT ![r] = "ask"]
          /\ UNCHANGED <<left, mode, mine, told>>
       \/ /\ Note[Cur(r)].form = "no_evidence"
          /\ Stop(r)
    /\ UNCHANGED files

Skip(r) ==
    /\ at[r] = "ask"
    /\ GoOn(r)
    /\ UNCHANGED <<files, mine, told>>

Quit(r) == at[r] = "ask" /\ Stop(r) /\ UNCHANGED files

(* unlink of a draft that another run has moved or deleted raises.         *)
Reject(r) ==
    /\ at[r] = "ask" /\ mode[r] = "review"
    /\ \/ /\ Cur(r) \in Pending
          /\ draft' = [draft EXCEPT ![Cur(r)] = "rejected"]
          /\ GoOn(r)
          /\ UNCHANGED <<mine, told>>
       \/ /\ Cur(r) \notin Pending
          /\ Stop(r)
          /\ UNCHANGED draft
    /\ UNCHANGED <<target, tmp>>

-----------------------------------------------------------------------------
(* The draft is accepted.  apply_refinement looks at what the draft says:  *)
(* without a target it raises KeyError, past the loop's handler ...        *)
NoTargetGiven(r) ==
    /\ at[r] = "ask"
    /\ File(r) = NoTarget
    /\ Stop(r)
    /\ UNCHANGED files

(* For a mutant: the draft is archived also where apply_refinement refused.*)
RefuseArchives(r) ==
    /\ at[r] = "ask"
    /\ File(r) \in Targets
    /\ at' = [at EXCEPT ![r] = "archive"]
    /\ UNCHANGED <<files, left, mode, mine, told>>

(* ... and where it refuses, it writes nothing and the loop goes on.  Of a *)
(* torn text nobody knows whether it still has the section.                *)
Refuse(r) ==
    /\ at[r] = "ask"
    /\ File(r) # NoTarget
    /\ \/ File(r) \notin Targets
       \/ File(r) \in Targets /\ target[File(r)] = Torn
       \/ /\ File(r) \in Targets /\ target[File(r)] # Torn
          /\ Refused(target[File(r)], Note[Cur(r)])
    /\ GoOn(r)
    /\ UNCHANGED <<files, mine, told>>

Accept(r) ==
    /\ at[r] = "ask"
    /\ File(r) \in Targets
    /\ LET x == target[File(r)]
       IN  \/ /\ x # Torn
              /\ ~Refused(x, Note[Cur(r)])
              /\ text' = [text EXCEPT ![r] = Result(x, Note[Cur(r)])]
           \/ x = Torn /\ text' = [text EXCEPT ![r] = Torn]
    /\ at' = [at EXCEPT ![r] = "open"]
    /\ raced' = IF \E s \in Reviewers \ {r} : Changing(s) /\ File(s) = File(r)
                THEN raced \cup {File(r)} ELSE raced
    /\ UNCHANGED <<files, left, mode, fd, runs, merges, cuts, shared>>

(* For a mutant: the target itself is opened for writing.                  *)
OpenTarget(r) ==
    /\ at[r] = "open"
    /\ target' = [target EXCEPT ![File(r)] = Empty]
    /\ fd' = [fd EXCEPT ![r] = "target"]
    /\ at' = [at EXCEPT ![r] = "write"]
    /\ UNCHANGED <<draft, tmp, left, mode, text, runs, told>>

(* _safe_write: write_text truncates what is at the temporary name, which  *)
(* another run may have put there or left there, and fills it.             *)
OpenTmp(r) ==
    /\ at[r] = "open"
    /\ tmp' = [tmp EXCEPT ![File(r)] = Empty]
    /\ fd' = [fd EXCEPT ![r] = "tmp"]
    /\ at' = [at EXCEPT ![r] = "write"]
    /\ UNCHANGED <<draft, target, left, mode, text, runs, told>>

(* x is written to the file that was opened, wherever it is found by now.  *)
Put(r, x) ==
    /\ tmp' = IF fd[r] = "tmp" THEN [tmp EXCEPT ![File(r)] = x] ELSE tmp
    /\ target' = IF fd[r] = "target" THEN [target EXCEPT ![File(r)] = x] ELSE target

Holds(r) == CASE fd[r] = "tmp" -> tmp[File(r)]
              [] fd[r] = "target" -> target[File(r)]
              [] OTHER -> Empty

(* Over what another run has written since, the longer text keeps a tail.  *)
Write(r) ==
    /\ at[r] = "write"
    /\ \/ Put(r, text[r])
       \/ Holds(r) # Empty /\ Put(r, Torn)
    /\ at' = [at EXCEPT ![r] = "replace"]
    /\ text' = [text EXCEPT ![r] = Empty]
    /\ fd' = [fd EXCEPT ![r] = "none"]
    /\ UNCHANGED <<draft, left, mode, runs, told>>

(* The disk is full: the OSError ends the run, the temporary stays.        *)
WriteRaises(r) ==
    /\ at[r] = "write"
    /\ Put(r, Torn)
    /\ Stop(r)
    /\ UNCHANGED draft

(* rename moves what is at the temporary name, whoever wrote it.           *)
Replace(r) ==
    /\ at[r] = "replace"
    /\ tmp[File(r)] # Absent
    /\ target' = [target EXCEPT ![File(r)] = tmp[File(r)]]
    /\ tmp' = [tmp EXCEPT ![File(r)] = Absent]
    /\ fd' = [s \in Reviewers |->
                IF s # r /\ at[s] = "write" /\ File(s) = File(r)
                THEN IF fd[s] = "tmp" THEN "target" ELSE "gone"
                ELSE fd[s]]
    /\ at' = [at EXCEPT ![r] = "archive"]
    /\ merges' = [merges EXCEPT ![Cur(r)] = @ + 1]
    /\ UNCHANGED <<draft, left, mode, text, runs, cuts, shared, raced>>

ReplaceRaises(r) ==
    /\ at[r] = "replace"
    /\ tmp[File(r)] = Absent
    /\ Stop(r)
    /\ UNCHANGED files

Archive(r) ==
    /\ at[r] = "archive"
    /\ Cur(r) \in Pending
    /\ draft' = [draft EXCEPT ![Cur(r)] = "applied"]
    /\ GoOn(r)
    /\ UNCHANGED <<target, tmp, mine, told>>

(* The draft is gone, or applied/ cannot be made or written: shutil.move   *)
(* or mkdir raises what the loop does not catch.                           *)
ArchiveRaises(r) ==
    /\ at[r] = "archive"
    /\ Stop(r)
    /\ UNCHANGED files

(* The run is killed, or the user presses Ctrl-C.                          *)
Kill(r) ==
    /\ Live(r)
    /\ Stop(r)
    /\ \/ UNCHANGED <<tmp, target>>
       \/ at[r] = "write" /\ Put(r, Torn)
    /\ UNCHANGED draft

Step(r) == \/ Start(r) \/ Show(r) \/ Skip(r) \/ Quit(r) \/ Reject(r)
           \/ NoTargetGiven(r) \/ Refuse(r) \/ Accept(r) \/ OpenTmp(r)
           \/ Write(r) \/ WriteRaises(r) \/ Replace(r) \/ ReplaceRaises(r)
           \/ Archive(r) \/ ArchiveRaises(r) \/ Kill(r)

Next == \E r \in Reviewers : Step(r)

Spec == Init /\ [][Next]_vars

-----------------------------------------------------------------------------
RefinementsTypeOK ==
    /\ draft \in [Drafts -> {"none", "pending", "applied", "rejected"}]
    /\ DOMAIN target = Targets /\ DOMAIN tmp = Targets
    /\ at \in [Reviewers -> {"off", "show", "ask", "open", "write", "replace", "archive"}]
    /\ mode \in [Reviewers -> {"none", "review", "apply"}]
    /\ left \in [Reviewers -> SUBSET Drafts]
    /\ \A r \in Reviewers : Live(r) <=> left[r] # {}
    /\ DOMAIN text = Reviewers
    /\ fd \in [Reviewers -> {"none", "tmp", "target", "gone"}]
    /\ runs \in [Reviewers -> Nat]
    /\ \A r \in Reviewers : runs[r] <= Starts[r]
    /\ merges \in [Drafts -> Nat] /\ cuts \in [Drafts -> Nat]
    /\ shared \subseteq Drafts /\ raced \subseteq Targets

(* A draft takes effect once.  It is merged one time, plus one for every   *)
(* run that ended between the merge and the archiving and so left the      *)
(* draft pending; it is archived if and only if a merge was followed       *)
(* through.  A draft that the user rejects, or that is refused, is in a    *)
(* target only by such cut merges, of runs before.  Drafts that two runs   *)
(* had listed at once are left out: the second run merges what the first   *)
(* has archived.                                                           *)
AppliedOnce ==
    \A d \in Drafts \ shared :
        merges[d] = cuts[d] +
            IF draft[d] = "applied" \/ \E r \in Reviewers : at[r] = "archive" /\ Cur(r) = d
            THEN 1 ELSE 0

(* What a merge is, apart from how it is computed: the draft's body stands *)
(* at the end of its section, or in the place of what its section held, or *)
(* last between the markers, and all else is where it was.                 *)
Merged(n, old, new) ==
    LET a == old.items
        headless(i, j) == \A k \in i..j : ~IsHead(a[k])
        put(i, j) == new.items = SubSeq(a, 1, i) \o n.body \o SubSeq(a, j + 1, Len(a))
        section(h, j) == /\ a[h] = Head2(n.section) /\ headless(h + 1, j)
                         /\ j = Len(a) \/ IsHead(a[j + 1])
    IN  \/ /\ n.op = "append" /\ new.front = old.front
           /\ \E h \in 1..Len(a) : \E j \in h..Len(a) : section(h, j) /\ put(j, j)
        \/ /\ n.op = "replace_section" /\ new.front = old.front
           /\ \E h \in 1..Len(a) : \E j \in h..Len(a) : section(h, j) /\ put(h, j)
        \/ /\ n.op = "add_alias" /\ new.front = old.front
           /\ \E h \in 1..Len(a) : \E j \in h..(Len(a) - 1) :
                 a[h] = Below /\ a[j + 1] = Above /\ put(j, j)
        \/ /\ n.op = "set_config_default" /\ new.items = old.items
           /\ new.front[n.key] = n.value
           /\ \A k \in DOMAIN old.front \ {n.key} : new.front[k] = old.front[k]

(* Drafts that may be merged once more without harm, after a run was cut.  *)
Repeatable(n) == \/ n.op = "set_config_default"
                 \/ n.op = "replace_section" /\ \A i \in 1..Len(n.body) : ~IsHead(n.body[i])

(* A target changes in one way only: it goes from a text to that text with *)
(* one accepted draft merged, whatever is killed, raised or left behind by *)
(* an earlier run.  Merging a repeatable draft once more changes nothing.  *)
(* Targets that two runs were changing at the same time are left out: they *)
(* share the temporary, and one merge may be lost or the text torn.        *)
TargetChangesByMerges ==
    [][\A t \in Targets \ raced' : target'[t] # target[t] =>
         \E r \in Reviewers :
            /\ at[r] = "replace" /\ File(r) = t
            /\ target'[t] # Torn
            /\ Merged(Note[Cur(r)], target[t], target'[t])
            /\ Repeatable(Note[Cur(r)]) => Result(target'[t], Note[Cur(r)]) = target'[t]]_vars
==============================================================================
