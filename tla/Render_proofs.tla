--------------------------- MODULE Render_proofs ---------------------------
(***************************************************************************)
(* FigureSave, for any number of renderer processes, calls and paths: what *)
(* is found at an output is a whole figure, and what a save returns is     *)
(* true of the file, as long as no two saves to one path overlap.  The     *)
(* invariant says whose the temporary is: that of the one call that saves  *)
(* to its path.                                                            *)
(*                                                                         *)
(* The tools use atomic_save as FigureSave has it: whatever a tool does is *)
(* a step of FigureSave or leaves its variables alone.  So what is proved  *)
(* of saving holds in the renderer, for every workload, and with what a    *)
(* tool does before and after its save it says what the answers are worth. *)
(*                                                                         *)
(* Last, what a call makes of its request, whatever the request and its    *)
(* template: style.apply keeps its precedence, the oracle tells the source *)
(* of a value, and what was drawn is what was assessed.                    *)
(***************************************************************************)
EXTENDS Render, WellFoundedInduction, TLAPS

Early    == {"idle", "mkdir", "open"}
Writing  == {"write", "replace"}
Placing  == {"look", "unlink", "stat"}
Unplaced(c) == at[c] \in Early \cup Writing \/ err[c] \notin {"none", "stat"}

(* A call that has not begun has no path; before it opens the temporary it *)
(* has no inode under any name, and the inode it opens is on its path.     *)
Names ==
    \A c \in Calls :
        /\ at[c] = "idle" <=> dest[c] = NoPath
        /\ at[c] \in Early => link[c] = "none" /\ file[c] = c /\ pos[c] = 0
        /\ dest[file[c]] = dest[c]

Errs ==
    \A c \in Calls :
        /\ at[c] \in Early \cup Writing \cup {"stat", "saved"} => err[c] = "none"
        /\ at[c] = "failed" => err[c] # "none"
        /\ err[c] = "stat" => at[c] = "failed"

(* Two calls that save to one path have met.                               *)
Rivalry ==
    \A c, d \in Calls :
        c # d /\ Saving(c) /\ Saving(d) /\ dest[c] = dest[d] => c \in met

OneTmp ==
    \A i, j \in Calls :
        link[i] = "tmp" /\ link[j] = "tmp" /\ dest[i] = dest[j] => i = j

(* The temporary of a call that has met no other is its own, with what it  *)
(* has written so far; then the output is.                                 *)
MineOf(c) ==
    /\ at[c] \in Writing =>
          /\ link[file[c]] = "tmp"
          /\ \A k \in 1..Chunks : k <= pos[c] => data[file[c]][k] = c
    /\ at[c] = "replace" => pos[c] = Chunks
    /\ at[c] \in Placing /\ err[c] = "none" =>
          link[file[c]] = "out" /\ WholeBy(file[c], c)

Mine == \A c \in Calls \ met : MineOf(c)

(* What others left in the temporary a call has opened, they left there    *)
(* while they met someone.                                                 *)
Fresh ==
    \A d \in Calls, i \in Calls, k \in 1..Chunks :
        at[d] \in Writing /\ i \in Found(dest[d], "tmp") =>
            \A c \in Calls \ met : data[i][k] = c => c = d

(* A call that has not placed its figure has no byte at an output.         *)
Clean ==
    \A c \in Calls \ met : Unplaced(c) =>
        \A i \in Calls : link[i] = "out" => NoneBy(i, c)

Outputs ==
    \A i \in Calls : link[i] = "out" =>
        \E c \in Calls : dest[c] = dest[i] /\ (c \in met \/ WholeBy(i, c))

(* The inode named after a call that has not opened one is nobody else's.  *)
Own == \A c, d \in Calls : at[c] \in Early /\ file[d] = c => d = c

(* A figure that a call has placed, having met no other, stays as it is:   *)
(* nobody still writes to its inode, and nobody will find it to truncate.  *)
KeptOf(c) ==
    at[c] \in Placing \cup {"saved"} /\ err[c] = "none" =>
        /\ WholeBy(file[c], c)
        /\ link[file[c]] # "tmp"
        /\ \A d \in Calls : at[d] = "write" => file[d] # file[c]

Kept == \A c \in Calls \ met : KeptOf(c)

SaveInv == SaveTypeOK /\ Names /\ Errs /\ Rivalry /\ OneTmp
           /\ Mine /\ Fresh /\ Clean /\ Outputs /\ Own /\ Kept

-----------------------------------------------------------------------------
LEMMA InitSaveInv == SaveInit => SaveInv
<1> SUFFICES ASSUME SaveInit PROVE SaveInv
    OBVIOUS
<1> USE DEF SaveInit
<1>1. SaveTypeOK
    BY ChunksAssumption DEF SaveTypeOK
<1>2. Names /\ Errs
    BY DEF Names, Errs, Early, Writing
<1>3. Rivalry /\ OneTmp /\ Mine
    BY DEF Rivalry, OneTmp, Mine, MineOf, Saving, Steps, Writing, Placing
<1>4. Fresh /\ Clean /\ Outputs
    BY DEF Fresh, Clean, Outputs, Writing
<1>5. Own /\ Kept
    BY DEF Own, Kept, KeptOf, Placing
<1> QED
    BY <1>1, <1>2, <1>3, <1>4, <1>5 DEF SaveInv

(* The steps, one call at a time: every lemma below splits on these.       *)
LEMMA SaveTypeStep == SaveTypeOK /\ SaveNext => SaveTypeOK'
<1> SUFFICES ASSUME SaveTypeOK, SaveNext PROVE SaveTypeOK'
    OBVIOUS
<1> USE DEF SaveTypeOK
<1>1. ASSUME NEW c \in Calls, NEW p \in Paths, Begin(c, p) PROVE SaveTypeOK'
    BY <1>1 DEF Begin, Rivals, Steps
<1>2. ASSUME NEW c \in Calls, MakeDir(c) PROVE SaveTypeOK'
    BY <1>2 DEF MakeDir, Steps, Ends
<1>3. ASSUME NEW c \in Calls, Open(c) PROVE SaveTypeOK'
    BY <1>3 DEF Open, Steps, Found
<1>4. ASSUME NEW c \in Calls, Write(c) PROVE SaveTypeOK'
    <2>1. pos[c] + 1 \in 1..Chunks
        BY <1>4, ChunksAssumption DEF Write
    <2>2. data' \in [Calls -> [1..Chunks -> Calls \cup {Blank}]]
        BY <1>4, <2>1 DEF Write
    <2>3. at' \in [Calls -> Steps \cup Ends \cup {"idle"}]
        BY <1>4 DEF Write, Steps
    <2>4. pos' \in [Calls -> 0..Chunks]
        BY <1>4, <2>1, ChunksAssumption DEF Write
    <2> QED
        BY <1>4, <2>2, <2>3, <2>4 DEF Write
<1>5. ASSUME NEW c \in Calls, SaveRaises(c) PROVE SaveTypeOK'
    BY <1>5 DEF SaveRaises, Steps
<1>6. ASSUME NEW c \in Calls, Replace(c) PROVE SaveTypeOK'
    BY <1>6 DEF Replace, Steps
<1>7. ASSUME NEW c \in Calls, Look(c) PROVE SaveTypeOK'
    BY <1>7 DEF Look, AfterFinally, Steps, Ends
<1>8. ASSUME NEW c \in Calls, Unlink(c) PROVE SaveTypeOK'
    BY <1>8 DEF Unlink, AfterFinally, Steps, Ends
<1>9. ASSUME NEW c \in Calls, Stat(c) PROVE SaveTypeOK'
    BY <1>9 DEF Stat, Ends
<1>10. ASSUME NEW s \in Servers, Crash(s) PROVE SaveTypeOK'
    BY <1>10 DEF Crash, Ends
<1> QED
    BY <1>1, <1>2, <1>3, <1>4, <1>5, <1>6, <1>7, <1>8, <1>9, <1>10
    DEF SaveNext, SaveStep

(* Names: only Begin sets a path, only Open links and picks an inode.      *)
LEMMA NamesStep == SaveTypeOK /\ Names /\ SaveNext => Names'
<1> SUFFICES ASSUME SaveTypeOK, Names, SaveNext PROVE Names'
    OBVIOUS
<1> USE DEF SaveTypeOK, Names, Early, Steps, Ends, Saving
<1>1. ASSUME NEW c \in Calls, NEW p \in Paths, Begin(c, p) PROVE Names'
    BY <1>1, NoPathAssumption DEF Begin, Rivals
<1>2. ASSUME NEW c \in Calls, MakeDir(c) PROVE Names'
    BY <1>2 DEF MakeDir
<1>3. ASSUME NEW c \in Calls, Open(c) PROVE Names'
    BY <1>3 DEF Open, Found
<1>4. ASSUME NEW c \in Calls, Write(c) PROVE Names'
    BY <1>4 DEF Write
<1>5. ASSUME NEW c \in Calls, SaveRaises(c) PROVE Names'
    BY <1>5 DEF SaveRaises
<1>6. ASSUME NEW c \in Calls, Replace(c) PROVE Names'
    <2>1. ASSUME NEW i \in Calls, link[i] = "none" PROVE link'[i] = "none"
        <3>1. i \notin Found(dest[c], "tmp") /\ i \notin Found(dest[c], "out")
            BY <2>1 DEF Found
        <3> QED
            BY <1>6, <2>1, <3>1 DEF Replace
    <2> QED
        BY <1>6, <2>1 DEF Replace
<1>7. ASSUME NEW c \in Calls, Look(c) PROVE Names'
    BY <1>7 DEF Look, AfterFinally
<1>8. ASSUME NEW c \in Calls, Unlink(c) PROVE Names'
    BY <1>8 DEF Unlink, AfterFinally, Found
<1>9. ASSUME NEW c \in Calls, Stat(c) PROVE Names'
    BY <1>9 DEF Stat
<1>10. ASSUME NEW s \in Servers, Crash(s) PROVE Names'
    BY <1>10 DEF Crash
<1> QED
    BY <1>1, <1>2, <1>3, <1>4, <1>5, <1>6, <1>7, <1>8, <1>9, <1>10
    DEF SaveNext, SaveStep

(* Errs: an exception is set on the way to the finally clause.              *)
LEMMA ErrsStep == SaveTypeOK /\ Errs /\ SaveNext => Errs'
<1> SUFFICES ASSUME SaveTypeOK, Errs, SaveNext PROVE Errs'
    OBVIOUS
<1> USE DEF SaveTypeOK, Errs, Early, Writing, Steps, Ends
<1>1. ASSUME NEW c \in Calls, NEW p \in Paths, Begin(c, p) PROVE Errs'
    BY <1>1 DEF Begin, Rivals
<1>2. ASSUME NEW c \in Calls, MakeDir(c) PROVE Errs'
    BY <1>2 DEF MakeDir
<1>3. ASSUME NEW c \in Calls, Open(c) PROVE Errs'
    BY <1>3 DEF Open, Found
<1>4. ASSUME NEW c \in Calls, Write(c) PROVE Errs'
    BY <1>4 DEF Write
<1>5. ASSUME NEW c \in Calls, SaveRaises(c) PROVE Errs'
    BY <1>5 DEF SaveRaises
<1>6. ASSUME NEW c \in Calls, Replace(c) PROVE Errs'
    BY <1>6 DEF Replace, Found
<1>7. ASSUME NEW c \in Calls, Look(c) PROVE Errs'
    BY <1>7 DEF Look, AfterFinally
<1>8. ASSUME NEW c \in Calls, Unlink(c) PROVE Errs'
    BY <1>8 DEF Unlink, AfterFinally, Found
<1>9. ASSUME NEW c \in Calls, Stat(c) PROVE Errs'
    BY <1>9 DEF Stat
<1>10. ASSUME NEW s \in Servers, Crash(s) PROVE Errs'
    BY <1>10 DEF Crash, Saving
<1> QED
    BY <1>1, <1>2, <1>3, <1>4, <1>5, <1>6, <1>7, <1>8, <1>9, <1>10
    DEF SaveNext, SaveStep

(* Rivalry: Begin makes both meet; nobody else starts to save.              *)
LEMMA RivalryStep == SaveTypeOK /\ Names /\ Rivalry /\ SaveNext => Rivalry'
<1> SUFFICES ASSUME SaveTypeOK, Names, Rivalry, SaveNext PROVE Rivalry'
    OBVIOUS
<1> USE DEF SaveTypeOK, Names, Rivalry, Saving, Steps, Ends, Early
<1>1. ASSUME NEW c \in Calls, NEW p \in Paths, Begin(c, p) PROVE Rivalry'
    BY <1>1 DEF Begin, Rivals
<1>2. ASSUME NEW c \in Calls, MakeDir(c) PROVE Rivalry'
    <2>1. \A d \in Calls : Saving(d)' => Saving(d)
        BY <1>2 DEF MakeDir
    <2> QED
        BY <1>2, <2>1 DEF MakeDir
<1>3. ASSUME NEW c \in Calls, Open(c) PROVE Rivalry'
    BY <1>3 DEF Open, Found
<1>4. ASSUME NEW c \in Calls, Write(c) PROVE Rivalry'
    BY <1>4 DEF Write
<1>5. ASSUME NEW c \in Calls, SaveRaises(c) PROVE Rivalry'
    BY <1>5 DEF SaveRaises
<1>6. ASSUME NEW c \in Calls, Replace(c) PROVE Rivalry'
    BY <1>6 DEF Replace, Found
<1>7. ASSUME NEW c \in Calls, Look(c) PROVE Rivalry'
    BY <1>7 DEF Look, AfterFinally
<1>8. ASSUME NEW c \in Calls, Unlink(c) PROVE Rivalry'
    BY <1>8 DEF Unlink, AfterFinally, Found
<1>9. ASSUME NEW c \in Calls, Stat(c) PROVE Rivalry'
    <2>1. \A d \in Calls : Saving(d)' => Saving(d)
        BY <1>9 DEF Stat
    <2> QED
        BY <1>9, <2>1 DEF Stat
<1>10. ASSUME NEW s \in Servers, Crash(s) PROVE Rivalry'
    BY <1>10 DEF Crash
<1> QED
    BY <1>1, <1>2, <1>3, <1>4, <1>5, <1>6, <1>7, <1>8, <1>9, <1>10
    DEF SaveNext, SaveStep

(* OneTmp: Open makes a temporary only where there is none.                 *)
LEMMA OneTmpStep == SaveTypeOK /\ Names /\ OneTmp /\ SaveNext => OneTmp'
<1> SUFFICES ASSUME SaveTypeOK, Names, OneTmp, SaveNext PROVE OneTmp'
    OBVIOUS
<1> USE DEF SaveTypeOK, Names, OneTmp, Early
<1>1. ASSUME NEW c \in Calls, NEW p \in Paths, Begin(c, p) PROVE OneTmp'
    BY <1>1 DEF Begin, Rivals
<1>2. ASSUME NEW c \in Calls, MakeDir(c) PROVE OneTmp'
    BY <1>2 DEF MakeDir
<1>3. ASSUME NEW c \in Calls, Open(c) PROVE OneTmp'
    BY <1>3 DEF Open, Found
<1>4. ASSUME NEW c \in Calls, Write(c) PROVE OneTmp'
    BY <1>4 DEF Write
<1>5. ASSUME NEW c \in Calls, SaveRaises(c) PROVE OneTmp'
    BY <1>5 DEF SaveRaises
<1>6. ASSUME NEW c \in Calls, Replace(c) PROVE OneTmp'
    <2>1. \A i \in Calls : link'[i] = "tmp" => link[i] = "tmp"
        BY <1>6 DEF Replace, Found
    <2> QED
        BY <1>6, <2>1 DEF Replace
<1>7. ASSUME NEW c \in Calls, Look(c) PROVE OneTmp'
    BY <1>7 DEF Look, AfterFinally
<1>8. ASSUME NEW c \in Calls, Unlink(c) PROVE OneTmp'
    BY <1>8 DEF Unlink, AfterFinally, Found
<1>9. ASSUME NEW c \in Calls, Stat(c) PROVE OneTmp'
    BY <1>9 DEF Stat
<1>10. ASSUME NEW s \in Servers, Crash(s) PROVE OneTmp'
    BY <1>10 DEF Crash
<1> QED
    BY <1>1, <1>2, <1>3, <1>4, <1>5, <1>6, <1>7, <1>8, <1>9, <1>10
    DEF SaveNext, SaveStep

(* While a call that has met no other saves, nobody else's step touches    *)
(* the inode it has opened.                                                *)
LEMMA Untouched ==
    ASSUME SaveTypeOK, Names, Rivalry, NEW m \in Calls \ met, Saving(m),
           link[file[m]] # "none", NEW c \in Calls, c # m, SaveStep(c)
    PROVE  /\ link'[file[m]] = link[file[m]]
           /\ data'[file[m]] = data[file[m]]
           /\ at'[m] = at[m] /\ pos'[m] = pos[m] /\ err'[m] = err[m] /\ file'[m] = file[m]
<1> USE DEF SaveTypeOK
<1>1. Saving(c)
    BY DEF SaveStep, MakeDir, Open, Write, SaveRaises, Replace, Look, Unlink, Stat, Saving, Steps
<1>2. dest[c] # dest[m]
    BY <1>1 DEF Rivalry
<1>3. dest[file[m]] = dest[m] /\ dest[file[c]] = dest[c] /\ file[m] \in Calls /\ file[c] \in Calls
    BY DEF Names
<1>4. CASE MakeDir(c)
    BY <1>4 DEF MakeDir
<1>5. CASE Open(c)
    <2>1. link[c] = "none"
        BY <1>5 DEF Open, Names, Early
    <2>2. PICK i \in Calls :
              /\ dest[i] = dest[c]
              /\ data' = [data EXCEPT ![i] = [k \in 1..Chunks |-> Blank]]
              /\ link' = link \/ link' = [link EXCEPT ![c] = "tmp"]
        BY <1>5 DEF Open, Found
    <2>3. file[m] # i /\ file[m] # c
        BY <2>1, <2>2, <1>2, <1>3
    <2> QED
        BY <1>5, <2>2, <2>3, <1>3 DEF Open
<1>6. CASE Write(c)
    BY <1>6, <1>2, <1>3 DEF Write
<1>7. CASE SaveRaises(c)
    BY <1>7 DEF SaveRaises
<1>8. CASE Replace(c)
    BY <1>8, <1>2, <1>3 DEF Replace, Found
<1>9. CASE Look(c)
    BY <1>9 DEF Look
<1>10. CASE Unlink(c)
    BY <1>10, <1>2, <1>3 DEF Unlink, Found
<1>11. CASE Stat(c)
    BY <1>11 DEF Stat
<1> QED
    BY <1>4, <1>5, <1>6, <1>7, <1>8, <1>9, <1>10, <1>11 DEF SaveStep

(* Mine: a call's own steps carry it on, the others' leave it alone.       *)
LEMMA MineStep ==
    SaveTypeOK /\ Names /\ Errs /\ Rivalry /\ OneTmp /\ Mine /\ SaveNext => Mine'
<1> SUFFICES ASSUME SaveTypeOK, Names, Errs, Rivalry, OneTmp, Mine, SaveNext,
                    NEW m \in Calls, m \notin met'
             PROVE  MineOf(m)'
    BY DEF Mine
<1>1. m \notin met
    BY DEF SaveNext, SaveStep, Begin, MakeDir, Open, Write, SaveRaises, Replace, Look,
           Unlink, Stat, Crash
<1>2. MineOf(m)
    BY <1>1 DEF Mine
<1>3. file[m] \in Calls
    BY DEF SaveTypeOK
<1>4. ASSUME NEW c \in Calls, c # m, SaveStep(c) PROVE MineOf(m)'
    <2>1. CASE Saving(m) /\ link[file[m]] # "none"
        BY <1>1, <1>2, <1>3, <1>4, <2>1, Untouched DEF MineOf, WholeBy
    <2>2. CASE ~Saving(m) \/ link[file[m]] = "none"
        <3>1. at'[m] = at[m] /\ err'[m] = err[m]
            BY <1>4 DEF SaveStep, MakeDir, Open, Write, SaveRaises, Replace, Look, Unlink,
                        Stat, SaveTypeOK
        <3>2. at[m] \notin Writing /\ ~(at[m] \in Placing /\ err[m] = "none")
            BY <1>2, <2>2 DEF MineOf, Saving, Steps, Writing, Placing
        <3> QED
            BY <3>1, <3>2 DEF MineOf, Writing
    <2> QED
        BY <2>1, <2>2
<1>5. CASE MakeDir(m)
    BY <1>5 DEF MakeDir, MineOf, Writing, Placing, SaveTypeOK
<1>6. CASE Open(m)
    <2>1. pos[m] = 0 /\ pos' = pos /\ at'[m] = "write"
        BY <1>6 DEF Open, Names, Early, SaveTypeOK
    <2>2. link'[file'[m]] = "tmp"
        BY <1>6 DEF Open, Found, SaveTypeOK
    <2> QED
        BY <2>1, <2>2, ChunksAssumption DEF MineOf, Writing, Placing
<1>7. CASE Write(m)
    <2>1. link[file[m]] = "tmp" /\ \A k \in 1..Chunks : k <= pos[m] => data[file[m]][k] = m
        BY <1>2, <1>7 DEF Write, MineOf, Writing
    <2>2. link' = link /\ file' = file /\ pos'[m] = pos[m] + 1 /\ at'[m] \in Writing
        BY <1>7 DEF Write, SaveTypeOK, Writing
    <2>3. at'[m] = "replace" => pos'[m] = Chunks
        BY <1>7 DEF Write, SaveTypeOK
    <2>4. ASSUME NEW k \in 1..Chunks, k <= pos'[m] PROVE data'[file[m]][k] = m
        <3>1. data'[file[m]] = [data[file[m]] EXCEPT ![pos[m] + 1] = m]
            BY <1>3, <1>7 DEF Write, SaveTypeOK
        <3>2. pos[m] \in Nat /\ (k = pos[m] + 1 \/ k <= pos[m])
            BY <2>2, <2>4, ChunksAssumption DEF SaveTypeOK
        <3>3. DOMAIN data[file[m]] = 1..Chunks
            BY <1>3 DEF SaveTypeOK
        <3> QED
            BY <2>1, <3>1, <3>2, <3>3
    <2> QED
        BY <2>1, <2>2, <2>3, <2>4 DEF MineOf, Writing, Placing
<1>8. CASE SaveRaises(m)
    BY <1>8 DEF SaveRaises, MineOf, Writing, Placing, SaveTypeOK
<1>9. CASE Replace(m)
    <2>1. link[file[m]] = "tmp" /\ dest[file[m]] = dest[m] /\ pos[m] = Chunks /\ err[m] = "none"
        BY <1>2, <1>9 DEF Replace, MineOf, Writing, Names, Errs
    <2>2. WholeBy(file[m], m)
        BY <1>2, <1>9, <2>1, ChunksAssumption DEF Replace, MineOf, Writing, WholeBy
    <2>3. err'[m] = "none" => link'[file[m]] = "out"
        BY <1>3, <1>9, <2>1 DEF Replace, Found, SaveTypeOK
    <2> QED
        BY <1>9, <2>2, <2>3 DEF Replace, MineOf, Writing, Placing, WholeBy, SaveTypeOK
<1>10. CASE Look(m)
    BY <1>2, <1>10 DEF Look, AfterFinally, MineOf, Writing, Placing, SaveTypeOK, WholeBy
<1>11. CASE Unlink(m)
    <2>1. link[file[m]] = "out" => link'[file[m]] = "out"
        BY <1>3, <1>11 DEF Unlink, Found
    <2> QED
        BY <1>2, <1>11, <2>1
        DEF Unlink, AfterFinally, MineOf, Writing, Placing, SaveTypeOK, WholeBy
<1>12. CASE Stat(m)
    BY <1>12 DEF Stat, MineOf, Writing, Placing, SaveTypeOK
<1>13. ASSUME NEW c \in Calls, NEW p \in Paths, Begin(c, p) PROVE MineOf(m)'
    BY <1>13, <1>2 DEF Begin, MineOf, Writing, Placing, SaveTypeOK, WholeBy
<1>14. ASSUME NEW s \in Servers, Crash(s) PROVE MineOf(m)'
    BY <1>14, <1>2 DEF Crash, MineOf, Writing, Placing, SaveTypeOK, WholeBy
<1> QED
    BY <1>4, <1>5, <1>6, <1>7, <1>8, <1>9, <1>10, <1>11, <1>12, <1>13, <1>14
    DEF SaveNext, SaveStep

(* Fresh: opening empties the temporary; a call that writes to it or makes *)
(* another while one is writing has met that one.                          *)
LEMMA FreshStep ==
    SaveTypeOK /\ Names /\ Rivalry /\ OneTmp /\ Fresh /\ SaveNext => Fresh'
<1> SUFFICES ASSUME SaveTypeOK, Names, Rivalry, OneTmp, Fresh, SaveNext,
                    NEW d \in Calls, NEW i \in Calls, NEW k \in 1..Chunks,
                    at'[d] \in Writing, dest'[i] = dest'[d], link'[i] = "tmp",
                    NEW e \in Calls, e \notin met', data'[i][k] = e, e # d
             PROVE  FALSE
    BY DEF Fresh, Found
<1> USE DEF SaveTypeOK, Writing
<1>1. at[d] \in Writing /\ dest[i] = dest[d] /\ link[i] = "tmp" /\ e \notin met
      => data[i][k] # e
    <2> SUFFICES ASSUME at[d] \in Writing, dest[i] = dest[d], link[i] = "tmp", e \notin met
                 PROVE  data[i][k] # e
        OBVIOUS
    <2>1. at[d] \in Writing /\ i \in Found(dest[d], "tmp")
        BY DEF Found
    <2> HIDE DEF SaveTypeOK, Writing
    <2>2. \A c \in Calls \ met : data[i][k] = c => c = d
        BY <2>1 DEF Fresh
    <2> QED
        BY <2>2
<1>2. e # Blank
    BY BlankAssumption
<1>3. ASSUME NEW c \in Calls, NEW p \in Paths, Begin(c, p) PROVE FALSE
    BY <1>1, <1>3 DEF Begin, Names, Early
<1>4. ASSUME NEW c \in Calls, MakeDir(c) PROVE FALSE
    BY <1>1, <1>4 DEF MakeDir
<1>5. ASSUME NEW c \in Calls, Open(c) PROVE FALSE
    <2>1. PICK j \in Calls :
              /\ j \in Found(dest[c], "tmp") \/ (Found(dest[c], "tmp") = {} /\ j = c)
              /\ link' = IF j \in Found(dest[c], "tmp") THEN link ELSE [link EXCEPT ![c] = "tmp"]
              /\ data' = [data EXCEPT ![j] = [x \in 1..Chunks |-> Blank]]
              /\ dest' = dest /\ met' = met /\ at' = [at EXCEPT ![c] = "write"]
        BY <1>5 DEF Open, Found
    <2>2. i # j /\ data'[i] = data[i]
        BY <2>1, <1>2
    <2>3. link[i] = "tmp"
        BY <2>1, <2>2
    <2>4. d # c
        BY <2>1, <2>2, <2>3 DEF Found, OneTmp
    <2> QED
        BY <1>1, <2>1, <2>2, <2>3, <2>4
<1>6. ASSUME NEW c \in Calls, Write(c) PROVE FALSE
    <2>1. at[d] \in Writing /\ at[c] = "write" /\ met' = met /\ link' = link /\ dest' = dest
        BY <1>6 DEF Write
    <2>2. i = file[c] /\ e = c
        BY <1>1, <1>6, <2>1 DEF Write
    <2>3. dest[c] = dest[d]
        BY <2>1, <2>2 DEF Names
    <2> QED
        BY <2>1, <2>2, <2>3 DEF Rivalry, Saving, Steps
<1>7. ASSUME NEW c \in Calls, SaveRaises(c) PROVE FALSE
    BY <1>1, <1>7 DEF SaveRaises
<1>8. ASSUME NEW c \in Calls, Replace(c) PROVE FALSE
    <2>1. link[i] = "tmp"
        BY <1>8 DEF Replace, Found
    <2> QED
        BY <1>1, <1>8, <2>1 DEF Replace
<1>9. ASSUME NEW c \in Calls, Look(c) PROVE FALSE
    BY <1>1, <1>9 DEF Look, AfterFinally
<1>10. ASSUME NEW c \in Calls, Unlink(c) PROVE FALSE
    <2>1. link[i] = "tmp"
        BY <1>10 DEF Unlink, Found
    <2> QED
        BY <1>1, <1>10, <2>1 DEF Unlink, AfterFinally
<1>11. ASSUME NEW c \in Calls, Stat(c) PROVE FALSE
    BY <1>1, <1>11 DEF Stat
<1>12. ASSUME NEW s \in Servers, Crash(s) PROVE FALSE
    BY <1>1, <1>12 DEF Crash
<1> QED
    BY <1>3, <1>4, <1>5, <1>6, <1>7, <1>8, <1>9, <1>10, <1>11, <1>12 DEF SaveNext, SaveStep

(* Clean: a byte comes to an output by Replace alone, or by a write to an  *)
(* inode that another call has moved there.                                *)
LEMMA CleanStep ==
    SaveTypeOK /\ Names /\ Errs /\ Fresh /\ Mine /\ Clean /\ SaveNext => Clean'
<1> SUFFICES ASSUME SaveTypeOK, Names, Errs, Fresh, Mine, Clean, SaveNext,
                    NEW m \in Calls, m \notin met', Unplaced(m)',
                    NEW i \in Calls, link'[i] = "out",
                    NEW k \in 1..Chunks, data'[i][k] = m
             PROVE  FALSE
    BY DEF Clean, NoneBy
<1> USE DEF SaveTypeOK, Unplaced
<1>1. Unplaced(m) /\ m \notin met /\ link[i] = "out" => data[i][k] # m
    BY DEF Clean, NoneBy
<1>2. m # Blank
    BY BlankAssumption
<1>3. ASSUME NEW c \in Calls, NEW p \in Paths, Begin(c, p) PROVE FALSE
    BY <1>1, <1>3 DEF Begin, Early
<1>4. ASSUME NEW c \in Calls, MakeDir(c) PROVE FALSE
    BY <1>1, <1>4 DEF MakeDir, Early
<1>5. ASSUME NEW c \in Calls, Open(c) PROVE FALSE
    BY <1>1, <1>2, <1>5 DEF Open, Early
<1>6. ASSUME NEW c \in Calls, Write(c) PROVE FALSE
    <2>1. Unplaced(m) /\ m \notin met /\ link[i] = "out"
        BY <1>6 DEF Write, Early, Writing
    <2>2. c = m /\ i = file[m] /\ at[m] = "write"
        BY <1>1, <1>6, <2>1 DEF Write
    <2> QED
        BY <2>1, <2>2 DEF Mine, MineOf, Writing
<1>7. ASSUME NEW c \in Calls, SaveRaises(c) PROVE FALSE
    BY <1>1, <1>7 DEF SaveRaises, Early, Writing
<1>8. ASSUME NEW c \in Calls, Replace(c) PROVE FALSE
    <2>1. data' = data /\ dest' = dest /\ met' = met /\ at[c] = "replace"
        BY <1>8 DEF Replace
    <2>2. Unplaced(m)
        BY <1>8 DEF Replace, Early, Writing
    <2>3. i \in Found(dest[c], "tmp") /\ err' = err
        <3>1. link[i] # "out"
            BY <1>1, <1>8, <2>1, <2>2
        <3>2. link' # link
            BY <3>1
        <3>3. /\ err' = err
              /\ link' = [j \in Calls |->
                            IF j \in Found(dest[c], "tmp") THEN "out"
                            ELSE IF j \in Found(dest[c], "out") THEN "none" ELSE link[j]]
            BY <1>8, <3>2, Zenon DEF Replace
        <3> QED
            BY <3>1, <3>3
    <2>4. m = c
        <3>1. m \notin met /\ data[i][k] = m /\ at[c] \in Writing
            BY <2>1 DEF Writing
        <3> QED
            BY <2>3, <3>1 DEF Fresh
    <2>5. err'[c] = "none"
        BY <2>1, <2>3 DEF Errs, Writing
    <2>6. at'[c] = "look"
        BY <1>8 DEF Replace
    <2> QED
        BY <2>4, <2>5, <2>6 DEF Early, Writing
<1>9. ASSUME NEW c \in Calls, Look(c) PROVE FALSE
    BY <1>1, <1>9 DEF Look, AfterFinally, Early, Writing
<1>10. ASSUME NEW c \in Calls, Unlink(c) PROVE FALSE
    <2>1. link[i] = "out"
        BY <1>10 DEF Unlink, Found
    <2> QED
        BY <1>1, <1>10, <2>1 DEF Unlink, AfterFinally, Early, Writing
<1>11. ASSUME NEW c \in Calls, Stat(c) PROVE FALSE
    BY <1>1, <1>11 DEF Stat, Early, Writing
<1>12. ASSUME NEW s \in Servers, Crash(s) PROVE FALSE
    BY <1>1, <1>12 DEF Crash, Early, Writing
<1> QED
    BY <1>3, <1>4, <1>5, <1>6, <1>7, <1>8, <1>9, <1>10, <1>11, <1>12 DEF SaveNext, SaveStep

(* Outputs: what Replace puts there is the call's own and whole, or the    *)
(* call has met another.                                                   *)
LEMMA OutputsStep ==
    SaveTypeOK /\ Names /\ OneTmp /\ Mine /\ Outputs /\ SaveNext => Outputs'
<1> SUFFICES ASSUME SaveTypeOK, Names, OneTmp, Mine, Outputs, SaveNext,
                    NEW i \in Calls, link'[i] = "out"
             PROVE  \E c \in Calls : dest'[c] = dest'[i] /\ (c \in met' \/ WholeBy(i, c)')
    BY DEF Outputs
<1> DEFINE Shown == \E c \in Calls : dest'[c] = dest'[i] /\ (c \in met' \/ WholeBy(i, c)')
<1> USE DEF SaveTypeOK
<1>1. ASSUME link[i] = "out", dest' = dest, met' = met, data'[i] = data[i] PROVE Shown
    BY <1>1 DEF Outputs, WholeBy
<1>2. ASSUME NEW c \in Calls, NEW p \in Paths, Begin(c, p) PROVE Shown
    <2>1. link[i] = "out" /\ data' = data /\ met \subseteq met'
        BY <1>2 DEF Begin
    <2>2. PICK w \in Calls : dest[w] = dest[i] /\ (w \in met \/ WholeBy(i, w))
        BY <2>1 DEF Outputs
    <2>3. i # c /\ w # c
        BY <1>2, <2>1, <2>2 DEF Begin, Names, Early
    <2>4. dest'[w] = dest[w] /\ dest'[i] = dest[i]
        BY <1>2, <2>3 DEF Begin
    <2> QED
        BY <2>1, <2>2, <2>4 DEF WholeBy
<1>3. ASSUME NEW c \in Calls, MakeDir(c) PROVE Shown
    BY <1>1, <1>3 DEF MakeDir
<1>4. ASSUME NEW c \in Calls, Open(c) PROVE Shown
    <2>1. link[i] = "out" /\ data'[i] = data[i]
        BY <1>4 DEF Open, Found
    <2> QED
        BY <1>1, <1>4, <2>1 DEF Open
<1>5. ASSUME NEW c \in Calls, Write(c) PROVE Shown
    <2>1. link[i] = "out" /\ dest' = dest /\ met' = met
        BY <1>5 DEF Write
    <2>2. CASE i = file[c]
        <3>1. c \in met
            BY <1>5, <2>1, <2>2 DEF Write, Mine, MineOf, Writing
        <3> QED
            BY <2>1, <2>2, <3>1 DEF Names
    <2>3. CASE i # file[c]
        BY <1>1, <1>5, <2>1, <2>3 DEF Write
    <2> QED
        BY <2>2, <2>3
<1>6. ASSUME NEW c \in Calls, SaveRaises(c) PROVE Shown
    BY <1>1, <1>6 DEF SaveRaises
<1>7. ASSUME NEW c \in Calls, Replace(c) PROVE Shown
    <2>1. dest' = dest /\ met' = met /\ data' = data
        BY <1>7 DEF Replace
    <2>2. CASE i \in Found(dest[c], "tmp") /\ c \notin met
        <3>1. link[file[c]] = "tmp" /\ \A k \in 1..Chunks : data[file[c]][k] = c
            BY <1>7, <2>2, ChunksAssumption DEF Replace, Mine, MineOf, Writing
        <3>2. i = file[c]
            BY <2>2, <3>1 DEF Found, OneTmp, Names
        <3> QED
            BY <2>1, <2>2, <3>1, <3>2 DEF Found, WholeBy
    <2>3. CASE i \in Found(dest[c], "tmp") /\ c \in met
        BY <2>1, <2>3 DEF Found
    <2>4. CASE i \notin Found(dest[c], "tmp")
        BY <1>1, <1>7, <2>1, <2>4 DEF Replace
    <2> QED
        BY <2>2, <2>3, <2>4
<1>8. ASSUME NEW c \in Calls, Look(c) PROVE Shown
    BY <1>1, <1>8 DEF Look
<1>9. ASSUME NEW c \in Calls, Unlink(c) PROVE Shown
    <2>1. link[i] = "out"
        BY <1>9 DEF Unlink, Found
    <2> QED
        BY <1>1, <1>9, <2>1 DEF Unlink
<1>10. ASSUME NEW c \in Calls, Stat(c) PROVE Shown
    BY <1>1, <1>10 DEF Stat
<1>11. ASSUME NEW s \in Servers, Crash(s) PROVE Shown
    BY <1>1, <1>11 DEF Crash
<1> QED
    BY <1>2, <1>3, <1>4, <1>5, <1>6, <1>7, <1>8, <1>9, <1>10, <1>11 DEF SaveNext, SaveStep

(* Own: a call opens its own inode or one that is linked already.          *)
LEMMA OwnStep == SaveTypeOK /\ Names /\ Own /\ SaveNext => Own'
<1> SUFFICES ASSUME SaveTypeOK, Names, Own, SaveNext,
                    NEW m \in Calls, NEW d \in Calls, at'[m] \in Early, file'[d] = m
             PROVE  d = m
    BY DEF Own
<1> USE DEF SaveTypeOK, Early
<1>1. ASSUME NEW c \in Calls, Open(c) PROVE d = m
    <2>1. at[m] \in Early /\ m # c
        BY <1>1 DEF Open
    <2>2. link[m] = "none"
        BY <2>1 DEF Names
    <2>3. file'[c] # m
        BY <1>1, <2>1, <2>2 DEF Open, Found
    <2>4. d # c /\ file'[d] = file[d]
        BY <1>1, <2>3 DEF Open
    <2> QED
        BY <2>1, <2>4 DEF Own
<1>2. ASSUME file' = file, at'[m] \in Early => at[m] \in Early PROVE d = m
    BY <1>2 DEF Own
<1>3. ASSUME NEW c \in Calls, SaveStep(c), ~Open(c) PROVE d = m
    BY <1>2, <1>3 DEF SaveStep, MakeDir, Write, SaveRaises, Replace, Look, AfterFinally,
                      Unlink, Stat
<1>4. ASSUME NEW c \in Calls, NEW p \in Paths, Begin(c, p) PROVE d = m
    BY <1>2, <1>4 DEF Begin
<1>5. ASSUME NEW s \in Servers, Crash(s) PROVE d = m
    BY <1>2, <1>5 DEF Crash
<1> QED
    BY <1>1, <1>3, <1>4, <1>5 DEF SaveNext

(* Kept: Replace brings it about, with nobody else writing to that inode   *)
(* as this would be a call it has met; later steps go to other inodes.     *)
LEMMA KeptStep ==
    SaveTypeOK /\ Names /\ Errs /\ Rivalry /\ OneTmp /\ Mine /\ Own /\ Kept /\ SaveNext
        => Kept'
<1> SUFFICES ASSUME SaveTypeOK, Names, Errs, Rivalry, OneTmp, Mine, Own, Kept, SaveNext,
                    NEW m \in Calls, m \notin met',
                    at'[m] \in Placing \cup {"saved"}, err'[m] = "none"
             PROVE  /\ WholeBy(file[m], m)'
                    /\ link'[file'[m]] # "tmp"
                    /\ \A d \in Calls : at'[d] = "write" => file'[d] # file'[m]
    BY DEF Kept, KeptOf
<1> DEFINE Stays == /\ WholeBy(file[m], m)'
                    /\ link'[file'[m]] # "tmp"
                    /\ \A d \in Calls : at'[d] = "write" => file'[d] # file'[m]
<1> USE DEF SaveTypeOK, Placing
<1>1. m \notin met
    BY DEF SaveNext, SaveStep, Begin, MakeDir, Open, Write, SaveRaises, Replace, Look,
           Unlink, Stat, Crash
<1>2. ASSUME at[m] \in Placing \cup {"saved"}, err[m] = "none"
      PROVE  /\ WholeBy(file[m], m)
             /\ link[file[m]] # "tmp"
             /\ \A d \in Calls : at[d] = "write" => file[d] # file[m]
    BY <1>1, <1>2 DEF Kept, KeptOf
<1>3. ASSUME at[m] \in Placing \cup {"saved"}, err[m] = "none", file' = file, data' = data,
             link'[file[m]] = "tmp" => link[file[m]] = "tmp",
             \A d \in Calls : at'[d] = "write" => at[d] = "write"
      PROVE  Stays
    BY <1>2, <1>3 DEF WholeBy
<1>4. ASSUME NEW c \in Calls, NEW p \in Paths, Begin(c, p) PROVE Stays
    BY <1>3, <1>4 DEF Begin
<1>5. ASSUME NEW c \in Calls, MakeDir(c) PROVE Stays
    BY <1>3, <1>5 DEF MakeDir
<1>6. ASSUME NEW c \in Calls, Open(c) PROVE Stays
    <2>1. m # c /\ at[m] \in Placing \cup {"saved"} /\ err[m] = "none" /\ at[c] = "open"
        BY <1>6 DEF Open
    <2>2. file[m] # c
        BY <2>1 DEF Own, Early
    <2>3. PICK i \in Calls :
              /\ link[i] = "tmp" \/ i = c
              /\ link' = link \/ link' = [link EXCEPT ![c] = "tmp"]
              /\ file' = [file EXCEPT ![c] = i]
              /\ data' = [data EXCEPT ![i] = [k \in 1..Chunks |-> Blank]]
        BY <1>6 DEF Open, Found
    <2>4. i # file[m]
        BY <1>2, <2>1, <2>2, <2>3
    <2>5. file'[m] = file[m] /\ data'[file[m]] = data[file[m]] /\ link'[file[m]] = link[file[m]]
        BY <2>1, <2>2, <2>3, <2>4
    <2>6. ASSUME NEW d \in Calls, at'[d] = "write" PROVE file'[d] # file[m]
        <3>1. CASE d = c
            BY <2>3, <2>4, <3>1
        <3>2. CASE d # c
            BY <1>2, <1>6, <2>1, <2>3, <2>6, <3>2 DEF Open
        <3> QED
            BY <3>1, <3>2
    <2> QED
        BY <1>2, <2>1, <2>5, <2>6 DEF WholeBy
<1>7. ASSUME NEW c \in Calls, Write(c) PROVE Stays
    <2>1. m # c /\ at[m] \in Placing \cup {"saved"} /\ err[m] = "none" /\ at[c] = "write"
        BY <1>7 DEF Write
    <2>2. file[c] # file[m]
        BY <1>2, <2>1
    <2>3. /\ file' = file /\ link' = link /\ data'[file[m]] = data[file[m]]
          /\ \A d \in Calls : at'[d] = "write" => at[d] = "write"
        BY <1>7, <2>2 DEF Write
    <2> QED
        BY <1>2, <2>1, <2>3 DEF WholeBy
<1>8. ASSUME NEW c \in Calls, SaveRaises(c) PROVE Stays
    BY <1>3, <1>8 DEF SaveRaises
<1>9. ASSUME NEW c \in Calls, Replace(c) PROVE Stays
    <2>1. /\ file' = file /\ data' = data /\ dest' = dest /\ at[c] = "replace"
          /\ at' = [at EXCEPT ![c] = "look"]
        BY <1>9 DEF Replace
    <2>2. CASE c # m
        <3>1. \A i \in Calls : link'[i] = "tmp" => link[i] = "tmp"
            BY <1>9 DEF Replace, Found
        <3>2. err'[m] = err[m]
            BY <1>9, <2>2 DEF Replace
        <3> QED
            BY <1>3, <2>1, <2>2, <3>1, <3>2
    <2>3. CASE c = m
        <3>1. link[file[m]] = "tmp" /\ pos[m] = Chunks
            BY <1>1, <2>1, <2>3 DEF Mine, MineOf, Writing
        <3>2. WholeBy(file[m], m)
            BY <1>1, <2>1, <2>3, <3>1, ChunksAssumption DEF Mine, MineOf, Writing, WholeBy
        <3>3. file[m] \in Found(dest[m], "tmp")
            BY <3>1 DEF Names, Found
        <3>4. link'[file[m]] = "out"
            BY <1>9, <2>3, <3>3 DEF Replace
        <3>5. ASSUME NEW d \in Calls, at'[d] = "write", file[d] = file[m] PROVE FALSE
            <4>1. d # m /\ at[d] = "write"
                BY <2>1, <2>3, <3>5
            <4>2. dest[d] = dest[m]
                BY <3>5 DEF Names
            <4> QED
                BY <1>1, <2>1, <2>3, <4>1, <4>2 DEF Rivalry, Saving, Steps
        <3> QED
            BY <2>1, <3>2, <3>4, <3>5 DEF WholeBy
    <2> QED
        BY <2>2, <2>3
<1>10. ASSUME NEW c \in Calls, Look(c) PROVE Stays
    BY <1>3, <1>10 DEF Look, AfterFinally
<1>11. ASSUME NEW c \in Calls, Unlink(c) PROVE Stays
    <2>1. \A i \in Calls : link'[i] = "tmp" => link[i] = "tmp"
        BY <1>11 DEF Unlink
    <2> QED
        BY <1>3, <1>11, <2>1 DEF Unlink, AfterFinally
<1>12. ASSUME NEW c \in Calls, Stat(c) PROVE Stays
    BY <1>3, <1>12 DEF Stat
<1>13. ASSUME NEW s \in Servers, Crash(s) PROVE Stays
    BY <1>3, <1>13 DEF Crash
<1> QED
    BY <1>4, <1>5, <1>6, <1>7, <1>8, <1>9, <1>10, <1>11, <1>12, <1>13 DEF SaveNext, SaveStep

-----------------------------------------------------------------------------
LEMMA SaveInvStep == SaveInv /\ [SaveNext]_saveVars => SaveInv'
<1>1. SaveInv /\ SaveNext => SaveInv'
    BY SaveTypeStep, NamesStep, ErrsStep, RivalryStep, OneTmpStep, MineStep, FreshStep,
       CleanStep, OutputsStep, OwnStep, KeptStep DEF SaveInv
<1>2. SaveInv /\ UNCHANGED saveVars => SaveInv'
    BY DEF saveVars, SaveInv, SaveTypeOK, Names, Errs, Rivalry, Saving, OneTmp, Mine, MineOf,
           WholeBy, Fresh, Found, Clean, Unplaced, NoneBy, Outputs, Own, Kept, KeptOf
<1> QED
    BY <1>1, <1>2

LEMMA SaveInvMeans == SaveInv => OutputWhole /\ ReturnsWhatItPlaced
<1> SUFFICES ASSUME SaveInv PROVE OutputWhole /\ ReturnsWhatItPlaced
    OBVIOUS
<1> USE DEF SaveInv, SaveTypeOK
<1>1. OutputWhole
    <2> SUFFICES ASSUME NEW i \in Calls, link[i] = "out",
                        \A c \in met : dest[c] # dest[i]
                 PROVE  \E c \in Calls : /\ dest[c] = dest[i] /\ WholeBy(i, c)
                                         /\ at[c] = "failed" => err[c] = "stat"
        BY DEF OutputWhole
    <2>1. PICK c \in Calls : dest[c] = dest[i] /\ WholeBy(i, c) /\ c \notin met
        BY DEF Outputs
    <2>2. 1 \in 1..Chunks
        BY ChunksAssumption
    <2>3. ~Unplaced(c)
        BY <2>1, <2>2 DEF Clean, NoneBy, WholeBy
    <2>4. at[c] = "failed" => err[c] = "stat"
        BY <2>3 DEF Unplaced, Errs
    <2> QED
        BY <2>1, <2>4
<1>2. ReturnsWhatItPlaced
    <2> SUFFICES ASSUME NEW c \in Calls \ met
                 PROVE  /\ at[c] = "stat" => \E i \in Found(dest[c], "out") : WholeBy(i, c)
                        /\ at[c] = "failed" /\ err[c] # "stat" =>
                             \A i \in Calls : link[i] = "out" => NoneBy(i, c)
        BY DEF ReturnsWhatItPlaced
    <2>1. ASSUME at[c] = "stat" PROVE \E i \in Found(dest[c], "out") : WholeBy(i, c)
        <3>1. link[file[c]] = "out" /\ WholeBy(file[c], c)
            BY <2>1 DEF Mine, MineOf, Placing, Errs
        <3>2. file[c] \in Found(dest[c], "out")
            BY <3>1 DEF Names, Found
        <3> QED
            BY <3>1, <3>2
    <2>2. ASSUME at[c] = "failed", err[c] # "stat", NEW i \in Calls, link[i] = "out" PROVE NoneBy(i, c)
        BY <2>2 DEF Errs, Clean, Unplaced
    <2> QED
        BY <2>1, <2>2
<1> QED
    BY <1>1, <1>2

LEMMA SaveInvHolds == SaveSpec => []SaveInv
BY InitSaveInv, SaveInvStep, PTL DEF SaveSpec

(* Every variable of atomic_save stays within its type, for any calls.     *)
THEOREM SaveTypeCorrect == SaveSpec => []SaveTypeOK
<1>1. SaveInv => SaveTypeOK
    BY DEF SaveInv
<1> QED
    BY <1>1, InitSaveInv, SaveInvStep, PTL DEF SaveSpec

(* What is found at an output is one whole figure, whatever crashes and    *)
(* whichever exception is raised, unless two saves to it overlapped.       *)
THEOREM OutputStaysWhole == SaveSpec => []OutputWhole
BY InitSaveInv, SaveInvStep, SaveInvMeans, PTL DEF SaveSpec

(* A save that returns has its figure at the output; one that raises has   *)
(* left no byte there, unless it overlapped another or had its figure in   *)
(* place already and raised on asking for its size.                        *)
THEOREM SaveReturnsTheTruth == SaveSpec => []ReturnsWhatItPlaced
BY InitSaveInv, SaveInvStep, SaveInvMeans, PTL DEF SaveSpec

-----------------------------------------------------------------------------
(* The tools of the renderer.                                              *)

Asked ==
    /\ ask \in Loads
    /\ stage \in [Calls -> InTool \cup {"idle", "ended", "dead"}]
    /\ \A c \in Calls : stage[c] # "idle" => ask[c] # Null

LEMMA AskedStep == Asked /\ [Next]_vars => Asked'
<1> SUFFICES ASSUME Asked, [Next]_vars PROVE Asked'
    OBVIOUS
<1> USE DEF Asked, InTool, End
<1>1. CASE UNCHANGED vars
    BY <1>1 DEF vars
<1>2. ASSUME NEW c \in Calls, Dispatch(c) PROVE Asked'
    BY <1>2 DEF Dispatch
<1>3. ASSUME NEW c \in Calls, Take(c) PROVE Asked'
    BY <1>3 DEF Take
<1>4. ASSUME NEW c \in Calls, StyleKey(c) \/ Save(c) PROVE Asked'
    BY <1>4 DEF StyleKey, Save, toolVars
<1>5. ASSUME NEW c \in Calls, Check(c) PROVE Asked'
    BY <1>5 DEF Check
<1>6. ASSUME NEW c \in Calls, Draw(c) PROVE Asked'
    BY <1>6 DEF Draw
<1>7. ASSUME NEW c \in Calls, Output(c) PROVE Asked'
    BY <1>7 DEF Output
<1>8. ASSUME NEW c \in Calls, Report(c) PROVE Asked'
    BY <1>8 DEF Report
<1>9. ASSUME NEW s \in Servers, Die(s) PROVE Asked'
    BY <1>9 DEF Die
<1> QED
    BY <1>1, <1>2, <1>3, <1>4, <1>5, <1>6, <1>7, <1>8, <1>9 DEF Next

LEMMA ToolStepSaves == Asked /\ [Next]_vars => [SaveNext]_saveVars
<1> SUFFICES ASSUME Asked, [Next]_vars PROVE [SaveNext]_saveVars
    OBVIOUS
<1>1. CASE UNCHANGED vars
    BY <1>1 DEF vars
<1>2. ASSUME NEW c \in Calls,
             Dispatch(c) \/ Take(c) \/ StyleKey(c) \/ Check(c) \/ Draw(c) \/ Report(c)
      PROVE  UNCHANGED saveVars
    BY <1>2 DEF Dispatch, Take, StyleKey, Check, Draw, Report
<1>3. ASSUME NEW c \in Calls, Output(c) PROVE [SaveNext]_saveVars
    <2>1. CASE UNCHANGED saveVars
        BY <2>1
    <2>2. CASE Begin(c, PathOf(ask[c]))
        <3>1. ask[c] # Null
            BY <1>3 DEF Asked, Output
        <3>2. PathOf(ask[c]) \in Paths
            BY <3>1, LoadsAssumption DEF Asked
        <3> QED
            BY <2>2, <3>2 DEF SaveNext
    <2> QED
        BY <1>3, <2>1, <2>2 DEF Output
<1>4. ASSUME NEW c \in Calls, Save(c) PROVE SaveNext
    BY <1>4 DEF Save, SaveNext
<1>5. ASSUME NEW s \in Servers, Die(s) PROVE [SaveNext]_saveVars
    BY <1>5 DEF Die, SaveNext
<1> QED
    BY <1>1, <1>2, <1>3, <1>4, <1>5 DEF Next

(* The renderer is a user of atomic_save: it does to files what a behaviour*)
(* of FigureSave does, and no more.                                        *)
THEOREM RenderSaves == Spec => SaveSpec
<1>1. Init => SaveInit /\ Asked
    BY DEF Init, Asked
<1> QED
    BY <1>1, AskedStep, ToolStepSaves, PTL DEF Spec, SaveSpec

(* Whichever tools are called with whichever requests, by any number of    *)
(* processes: the outputs stay whole.                                      *)
THEOREM RenderedFilesWhole == Spec => []OutputWhole
BY RenderSaves, OutputStaysWhole, PTL

(* ... and what a tool's save returns to it is true of the file.           *)
THEOREM RenderedFilesTold == Spec => []ReturnsWhatItPlaced
BY RenderSaves, SaveReturnsTheTruth, PTL

(* Both together: what the runs check of the saves.                        *)
THEOREM RenderKeepsSaves == Spec => []SavesKept
<1>1. OutputWhole /\ ReturnsWhatItPlaced <=> SavesKept
    BY DEF SavesKept
<1> QED
    BY <1>1, RenderedFilesWhole, RenderedFilesTold, PTL
-----------------------------------------------------------------------------
(* FirstOf on any list of tests: a code of the list whose test holds, and  *)
(* "none" only when no test does.                                          *)
Coded(tests, codes) ==
    /\ DOMAIN tests \subseteq Nat
    /\ \A i \in DOMAIN tests : tests[i][2] \in codes

LEMMA Least ==
    ASSUME NEW T \in SUBSET Nat, T # {}
    PROVE  \E i \in T : \A j \in T : i <= j
<1> DEFINE R == {p \in Nat \X Nat : p[1] < p[2]}
<1>1. IsWellFoundedOn(R, Nat)
    BY NatLessThanWellFounded DEF OpToRel
<1>2. PICK i \in T : \A j \in T : <<j, i>> \notin R
    <2> HIDE DEF R
    <2> QED
        BY <1>1, WFMin
<1>3. ASSUME NEW j \in T PROVE i <= j
    <2>1. <<j, i>> \in Nat \X Nat /\ <<j, i>> \notin R
        BY <1>2
    <2>2. ~(j < i)
        BY <2>1
    <2>3. i \in Nat /\ j \in Nat
        OBVIOUS
    <2> QED
        BY <2>2, <2>3
<1> QED
    BY <1>3

LEMMA FirstOfCoded ==
    ASSUME NEW tests, NEW codes, "none" \notin codes, Coded(tests, codes)
    PROVE  /\ FirstOf(tests) \in codes \cup {"none"}
           /\ FirstOf(tests) = "none" => \A i \in DOMAIN tests : ~tests[i][1]
           /\ FirstOf(tests) # "none" =>
                 \E i \in DOMAIN tests : tests[i][1] /\ FirstOf(tests) = tests[i][2]
<1> DEFINE hits == {i \in DOMAIN tests : tests[i][1]}
<1>1. CASE hits = {}
    BY <1>1 DEF FirstOf, Coded
<1>2. CASE hits # {}
    <2>1. \E i \in hits : \A j \in hits : i <= j
        BY <1>2, Least DEF Coded
    <2> DEFINE first == CHOOSE i \in hits : \A j \in hits : i <= j
    <2>2. first \in hits
        BY <2>1
    <2>3. FirstOf(tests) = tests[first][2]
        BY <1>2 DEF FirstOf
    <2> QED
        BY <2>2, <2>3 DEF Coded
<1> QED
    BY <1>1, <1>2

LEMMA CodedJoin ==
    ASSUME NEW S, NEW s \in Seq(S), NEW t \in Seq(S), NEW codes,
           Coded(s, codes), Coded(t, codes)
    PROVE  /\ Coded(s \o t, codes)
           /\ \A i \in DOMAIN t :
                 Len(s) + i \in DOMAIN (s \o t) /\ (s \o t)[Len(s) + i] = t[i]
<1>1. \A i \in 1..Len(s) : (s \o t)[i] = s[i]
    OBVIOUS
<1>2. \A i \in 1..Len(t) : (s \o t)[Len(s) + i] = t[i]
    OBVIOUS
<1>3. /\ DOMAIN (s \o t) = 1..(Len(s) + Len(t))
      /\ DOMAIN s = 1..Len(s) /\ DOMAIN t = 1..Len(t)
      /\ Len(s) \in Nat /\ Len(t) \in Nat
    OBVIOUS
<1>4. ASSUME NEW i \in DOMAIN (s \o t) PROVE (s \o t)[i][2] \in codes
    <2>1. CASE i <= Len(s)
        BY <2>1, <1>1, <1>3 DEF Coded
    <2>2. CASE ~(i <= Len(s))
        <3>1. i - Len(s) \in 1..Len(t) /\ i = Len(s) + (i - Len(s))
            BY <2>2, <1>3
        <3> QED
            BY <3>1, <1>2, <1>3 DEF Coded
    <2> QED
        BY <2>1, <2>2
<1> QED
    BY <1>2, <1>3, <1>4 DEF Coded

-----------------------------------------------------------------------------
(* The codes of the renderer; an exception that leaves dispatch is none.   *)
ErrorCodes ==
    {"cartopy_missing", "unstructured_dycore_unsupported", "invalid_spec", "empty_slice",
     "uxarray_missing", "mesh_path_unreadable", "shape_mismatch", "internal_render_error",
     "unknown_colormap", "unknown_projection", "all_nan", "trendline_dependency_missing",
     "output_path_invalid", "unsupported_format", "format_extension_mismatch",
     "output_dir_unwritable", "unknown_tool"}

LEMMA NoneIsNoCode == {"none", "ok", "raised", "pending"} \cap ErrorCodes = {}
BY DEF ErrorCodes

LEMMA MeshCode ==
    ASSUME NEW r
    PROVE  /\ FirstOf(MeshTests(r)) \in ErrorCodes \cup {"none", "raised"}
           /\ FirstOf(MeshTests(r)) = "raised" => r.mesh = Foreign
<1> DEFINE codes == ErrorCodes \cup {"raised"}
<1>1. CASE r.mesh \in {Foreign, Unreadable}
    <2>1. MeshTests(r) = NotOpened(r)
        BY <1>1 DEF MeshTests
    <2>2. Coded(NotOpened(r), codes)
        BY DEF Coded, NotOpened, ErrorCodes
    <2>3. \A i \in DOMAIN NotOpened(r) :
              NotOpened(r)[i][2] = "raised" => (NotOpened(r)[i][1] => r.mesh = Foreign)
        <3>1. DOMAIN NotOpened(r) = 1..3
            BY DEF NotOpened
        <3>2. NotOpened(r)[1][1] => r.mesh = Foreign
            BY DEF NotOpened
        <3>3. NotOpened(r)[2][2] # "raised" /\ NotOpened(r)[3][2] # "raised"
            BY DEF NotOpened
        <3> QED
            BY <3>1, <3>2, <3>3
    <2>4. "none" \notin codes
        BY NoneIsNoCode
    <2> QED
        BY <2>1, <2>2, <2>3, <2>4, FirstOfCoded
<1>2. CASE r.mesh \notin {Foreign, Unreadable}
    <2>1. Coded(CiceBranch(r), ErrorCodes) /\ Coded(EamxxBranch(r), ErrorCodes)
          /\ Coded(ElmBranch(r), ErrorCodes) /\ Coded(CplBranch(r), ErrorCodes)
        BY DEF Coded, CiceBranch, EamxxBranch, ElmBranch, CplBranch, CellsTest, ErrorCodes
    <2>2. Coded(MpasBranch(r), ErrorCodes)
        BY DEF Coded, MpasBranch, CellsTest, ErrorCodes
    <2>3. MeshTests(r) \in {CiceBranch(r), EamxxBranch(r), ElmBranch(r), CplBranch(r),
                            MpasBranch(r)}
        BY <1>2 DEF MeshTests, PeekGridKind
    <2> QED
        BY <2>1, <2>2, <2>3, NoneIsNoCode, FirstOfCoded
<1> QED
    BY <1>1, <1>2

LEMMA RefusedCode ==
    ASSUME NEW r, r.tool \in Tools
    PROVE  /\ Refused(r) \in ErrorCodes \cup {"none", "raised"}
           /\ Refused(r) = "raised" => r.mesh = Foreign
<1> DEFINE early == << <<r.lacks = "cartopy", "cartopy_missing">>,
                       <<r.dycore, "unstructured_dycore_unsupported">> >>
<1>1. CASE r.tool = "render_map"
    <2>1. Coded(early, ErrorCodes) /\ Coded(MapTests(r), ErrorCodes)
        BY DEF Coded, MapTests, ErrorCodes
    <2>2. FirstOf(early) \in ErrorCodes \cup {"none"}
          /\ FirstOf(MapTests(r)) \in ErrorCodes \cup {"none"}
        <3> HIDE DEF early
        <3> QED
            BY <2>1, NoneIsNoCode, FirstOfCoded
    <2>3. Refused(r) \in {FirstOf(early), FirstOf(MeshTests(r)), FirstOf(MapTests(r))}
        BY <1>1, Zenon DEF Refused
    <2> HIDE DEF early
    <2> QED
        BY <2>2, <2>3, MeshCode, NoneIsNoCode
<1>2. CASE r.tool \in {"render_timeseries", "render_profile", "render_section"}
    <2>1. Coded(SeriesTests(r), ErrorCodes) /\ Coded(SectionTests(r), ErrorCodes)
        BY DEF Coded, SeriesTests, SectionTests, ErrorCodes
    <2>2. Refused(r) \in {FirstOf(SeriesTests(r)), FirstOf(SectionTests(r))}
        BY <1>2 DEF Refused
    <2> QED
        BY <2>1, <2>2, FirstOfCoded, NoneIsNoCode
<1> QED
    BY <1>1, <1>2 DEF Tools

LEMMA CheckCode ==
    ASSUME NEW r, NEW res
    PROVE  FirstOf(MapChecks(r, res)) \in ErrorCodes \cup {"none"}
<1>1. Coded(MapChecks(r, res), ErrorCodes)
    BY DEF Coded, MapChecks, StyleTests, ErrorCodes
<1> QED
    BY <1>1, FirstOfCoded, NoneIsNoCode

LEMMA DrawCode ==
    ASSUME NEW r, NEW res, r.tool \in Tools
    PROVE  FirstOf(DrawTests(r, res)) \in ErrorCodes \cup {"none"}
<1>1. Coded(MapDraw(r), ErrorCodes) /\ Coded(ProfileDraw, ErrorCodes)
      /\ Coded(SectionDraw(r, res), ErrorCodes)
    BY DEF Coded, MapDraw, ProfileDraw, SectionDraw, ErrorCodes
<1>2. Coded(TimeseriesDraw(r), ErrorCodes)
    BY DEF Coded, TimeseriesDraw, Trendline, ErrorCodes
<1>3. DrawTests(r, res) \in {MapDraw(r), TimeseriesDraw(r), ProfileDraw, SectionDraw(r, res)}
    BY DEF DrawTests, Tools
<1> QED
    BY <1>1, <1>2, <1>3, FirstOfCoded, NoneIsNoCode

(* A call that passes the tests of its output has a path whose extension   *)
(* is the format it asked for, if it asked for one.                        *)
LEMMA OutputCode ==
    ASSUME NEW r
    PROVE  /\ FirstOf(OutputTests(r)) \in ErrorCodes \cup {"none"}
           /\ FirstOf(OutputTests(r)) = "none" => r.out = NoPath \/ Agrees(r)
<1> DEFINE dpi == << <<~r.dpi, "internal_render_error">> >>
           auto == << <<Format(r) \notin Supported, "internal_render_error">> >>
           path == << <<Ext(r.out) = "", "output_path_invalid">>,
                      <<Ext(r.out) \notin Supported, "unsupported_format">>,
                      <<~Agrees(r), "format_extension_mismatch">> >>
           S == {dpi[1], auto[1], path[1], path[2], path[3]}
<1>1. OutputTests(r) = dpi \o (IF r.out = NoPath THEN auto ELSE path)
    BY Zenon DEF OutputTests
<1>2. dpi \in Seq(S) /\ Coded(dpi, ErrorCodes)
    BY DEF Coded, ErrorCodes
<1>3. auto \in Seq(S) /\ Coded(auto, ErrorCodes)
    BY DEF Coded, ErrorCodes
<1>4. path \in Seq(S)
    OBVIOUS
<1>5. Coded(path, ErrorCodes)
    <2>1. DOMAIN path = 1..3
        OBVIOUS
    <2>2. path[1][2] \in ErrorCodes /\ path[2][2] \in ErrorCodes /\ path[3][2] \in ErrorCodes
        BY DEF ErrorCodes
    <2> HIDE DEF path
    <2> QED
        BY <2>1, <2>2 DEF Coded
<1>6. 3 \in DOMAIN path
    OBVIOUS
<1>7. path[3][1] <=> ~Agrees(r)
    OBVIOUS
<1>8. CASE r.out = NoPath
    <2>1. OutputTests(r) = dpi \o auto
        BY <1>1, <1>8
    <2> HIDE DEF dpi, path, auto, S
    <2>2. Coded(dpi \o auto, ErrorCodes)
        BY <1>2, <1>3, CodedJoin
    <2> QED
        BY <2>1, <1>8, <2>2, FirstOfCoded, NoneIsNoCode
<1>9. CASE r.out # NoPath
    <2>1. OutputTests(r) = dpi \o path
        BY <1>1, <1>9
    <2> HIDE DEF dpi, path, auto, S
    <2>2. /\ Coded(dpi \o path, ErrorCodes)
          /\ Len(dpi) + 3 \in DOMAIN (dpi \o path)
          /\ (dpi \o path)[Len(dpi) + 3] = path[3]
        BY <1>2, <1>4, <1>5, <1>6, CodedJoin
    <2> QED
        BY <2>1, <1>7, <2>2, FirstOfCoded, NoneIsNoCode
<1> QED
    BY <1>8, <1>9

-----------------------------------------------------------------------------
(* How far a call is in its tool, in its save and in its answer.           *)
Placeable(c) ==
    /\ dest[c] = PathOf(ask[c])
    /\ ask[c].out = NoPath \/ Agrees(ask[c])

ToldOf(c) ==
    /\ stage[c] \in InTool => ask[c].tool \in Tools
    /\ stage[c] \in (InTool \ {"save"}) \cup {"idle"} => at[c] = "idle"
    /\ stage[c] = "save" => at[c] # "idle" /\ Placeable(c)
    /\ stage[c] # "ended" => answer[c] = Pending
    /\ stage[c] = "ended" =>
         \/ /\ answer[c].code = "ok"
            /\ answer[c].format = FormatTold(c)
            /\ at[c] = "saved"
            /\ Placeable(c)
         \/ /\ answer[c].code \in ErrorCodes \cup {"raised"}
            /\ answer[c].code = "raised" => ask[c].mesh = Foreign
            /\ at[c] \in {"idle", "failed"}

Told == DOMAIN answer = Calls /\ \A c \in Calls : ToldOf(c)

(* One step of another call, or of the process of another, changes nothing *)
(* of what ToldOf says of a call.                                          *)
LEMMA ToldKept ==
    ASSUME NEW c \in Calls, ToldOf(c), ask' = ask,
           stage'[c] = stage[c], answer'[c] = answer[c], at'[c] = at[c], dest'[c] = dest[c]
    PROVE  ToldOf(c)'
BY DEF ToldOf, Placeable, FormatTold

(* An early return: the call has not come to its save.                     *)
LEMMA EndedEarly ==
    ASSUME NEW c \in Calls, NEW code \in ErrorCodes \cup {"raised"}, Told, Asked,
           stage[c] \in (InTool \ {"save"}) \cup {"idle"}, End(c, Error(code)),
           code = "raised" => ask[c].mesh = Foreign,
           ask' = ask, UNCHANGED saveVars
    PROVE  Told'
<1>1. ToldOf(c)'
    BY DEF Told, ToldOf, Asked, End, Error, saveVars, InTool
<1>2. ASSUME NEW d \in Calls, d # c PROVE ToldOf(d)'
    BY <1>2, ToldKept DEF Told, Asked, End, saveVars
<1> QED
    BY <1>1, <1>2 DEF Told, End

(* The call goes on in its tool.                                           *)
LEMMA GoesOn ==
    ASSUME NEW c \in Calls, Told, Asked, NEW next \in InTool \ {"save"},
           stage[c] \in InTool \ {"save"}, stage' = [stage EXCEPT ![c] = next],
           UNCHANGED <<saveVars, ask, answer>>
    PROVE  Told'
<1>1. ToldOf(c)'
    BY DEF Told, ToldOf, Asked, saveVars, InTool
<1>2. ASSUME NEW d \in Calls, d # c PROVE ToldOf(d)'
    BY <1>2, ToldKept DEF Told, Asked, saveVars
<1> QED
    BY <1>1, <1>2 DEF Told

LEMMA ToldStep == Told /\ Asked /\ SaveTypeOK /\ Next => Told'
<1> SUFFICES ASSUME Told, Asked, SaveTypeOK, Next PROVE Told'
    OBVIOUS
<1>1. ASSUME NEW c \in Calls, Dispatch(c) PROVE Told'
    <2>1. stage[c] = "idle" /\ UNCHANGED <<saveVars, ask>>
        BY <1>1 DEF Dispatch
    <2>2. CASE ask[c].tool \in Tools /\ stage' = [stage EXCEPT ![c] = "take"] /\ UNCHANGED answer
        <3>1. ToldOf(c)'
            BY <2>1, <2>2 DEF Told, ToldOf, Asked, saveVars, InTool
        <3>2. ASSUME NEW d \in Calls, d # c PROVE ToldOf(d)'
            BY <2>1, <2>2, <3>2, ToldKept DEF Told, Asked, saveVars
        <3> QED
            BY <2>2, <3>1, <3>2 DEF Told
    <2>3. CASE End(c, Error("unknown_tool"))
        <3>1. "unknown_tool" \in ErrorCodes /\ "unknown_tool" # "raised"
            BY DEF ErrorCodes
        <3> QED
            BY <2>1, <2>3, <3>1, EndedEarly
    <2> QED
        BY <1>1, <2>2, <2>3 DEF Dispatch
<1>2. ASSUME NEW c \in Calls, Take(c) PROVE Told'
    <2>1. /\ stage[c] \in InTool \ {"save"} /\ "style" \in InTool \ {"save"}
          /\ UNCHANGED <<saveVars, ask>>
        BY <1>2 DEF Take, InTool
    <2>2. ask[c].tool \in Tools
        BY <2>1 DEF Told, ToldOf
    <2>3. \/ stage' = [stage EXCEPT ![c] = "style"] /\ UNCHANGED answer
          \/ \E code \in {Refused(ask[c]), "internal_render_error"} \ {"none"} :
                End(c, Error(code))
        BY <1>2, Zenon DEF Take
    <2>4. CASE stage' = [stage EXCEPT ![c] = "style"] /\ UNCHANGED answer
        BY <2>1, <2>4, GoesOn
    <2>5. ASSUME NEW code \in {Refused(ask[c]), "internal_render_error"} \ {"none"},
                 End(c, Error(code))
          PROVE  Told'
        <3>1. "internal_render_error" \in ErrorCodes /\ "internal_render_error" # "raised"
            BY DEF ErrorCodes
        <3>2. code \in ErrorCodes \cup {"raised"} /\ (code = "raised" => ask[c].mesh = Foreign)
            BY <2>2, <3>1, RefusedCode
        <3> QED
            BY <2>1, <2>5, <3>2, EndedEarly
    <2> QED
        BY <2>3, <2>4, <2>5
<1>3. ASSUME NEW c \in Calls, StyleKey(c) PROVE Told'
    BY <1>3, ToldKept DEF StyleKey, Told, saveVars
<1>4. ASSUME NEW c \in Calls, Check(c) PROVE Told'
    <2>1. /\ stage[c] \in InTool \ {"save"} /\ "draw" \in InTool \ {"save"}
          /\ UNCHANGED <<saveVars, ask>>
        BY <1>4 DEF Check, InTool
    <2> DEFINE res == Presented(ask[c], style[c].resolved)
               code == IF ask[c].tool # "render_map" THEN "none"
                       ELSE FirstOf(MapChecks(ask[c], res))
    <2>2. IF code = "none" THEN stage' = [stage EXCEPT ![c] = "draw"] /\ UNCHANGED answer
          ELSE End(c, Error(code))
        BY <1>4, Zenon DEF Check
    <2>3. code \in ErrorCodes \cup {"none"}
        BY CheckCode
    <2> HIDE DEF code
    <2>4. CASE code = "none"
        BY <2>1, <2>2, <2>4, GoesOn
    <2>5. CASE code # "none"
        BY <2>1, <2>2, <2>3, <2>5, EndedEarly, NoneIsNoCode
    <2> QED
        BY <2>4, <2>5
<1>5. ASSUME NEW c \in Calls, Draw(c) PROVE Told'
    <2>1. /\ stage[c] \in InTool \ {"save"} /\ "output" \in InTool \ {"save"}
          /\ UNCHANGED <<saveVars, ask>>
        BY <1>5 DEF Draw, InTool
    <2>2. ask[c].tool \in Tools
        BY <2>1 DEF Told, ToldOf
    <2> DEFINE code == FirstOf(DrawTests(ask[c], style[c].resolved))
    <2>3. IF code # "none" THEN End(c, Error(code))
          ELSE stage' = [stage EXCEPT ![c] = "output"] /\ UNCHANGED answer
        BY <1>5, Zenon DEF Draw
    <2>4. code \in ErrorCodes \cup {"none"}
        BY <2>2, DrawCode
    <2> HIDE DEF code
    <2>5. CASE code = "none"
        BY <2>1, <2>3, <2>5, GoesOn
    <2>6. CASE code # "none"
        BY <2>1, <2>3, <2>4, <2>6, EndedEarly, NoneIsNoCode
    <2> QED
        BY <2>5, <2>6
<1>6. ASSUME NEW c \in Calls, Output(c) PROVE Told'
    <2> DEFINE code == FirstOf(OutputTests(ask[c]))
    <2>1. stage[c] \in InTool \ {"save"} /\ ask' = ask
        BY <1>6 DEF Output, InTool
    <2>2. IF code # "none" THEN End(c, Error(code)) /\ UNCHANGED saveVars
          ELSE /\ stage' = [stage EXCEPT ![c] = "save"]
               /\ Begin(c, PathOf(ask[c]))
               /\ UNCHANGED answer
        BY <1>6, Zenon DEF Output
    <2>3. /\ code \in ErrorCodes \cup {"none"}
          /\ code = "none" => ask[c].out = NoPath \/ Agrees(ask[c])
        BY OutputCode
    <2> HIDE DEF code
    <2>4. CASE code = "none"
        <3>1. /\ at' = [at EXCEPT ![c] = "mkdir"]
              /\ dest' = [dest EXCEPT ![c] = PathOf(ask[c])]
              /\ stage' = [stage EXCEPT ![c] = "save"] /\ answer' = answer
            BY <2>2, <2>4 DEF Begin
        <3>2. /\ at'[c] = "mkdir" /\ dest'[c] = PathOf(ask[c])
              /\ stage'[c] = "save" /\ answer[c] = Pending /\ ask[c].tool \in Tools
            BY <2>1, <3>1 DEF Told, ToldOf, Asked, SaveTypeOK, InTool
        <3>3. ToldOf(c)'
            BY <2>1, <2>3, <2>4, <3>1, <3>2 DEF ToldOf, Placeable, InTool
        <3>4. ASSUME NEW d \in Calls, d # c PROVE ToldOf(d)'
            BY <2>1, <3>1, <3>4, ToldKept DEF Told
        <3> QED
            BY <3>1, <3>3, <3>4 DEF Told
    <2>5. CASE code # "none"
        BY <2>1, <2>2, <2>3, <2>5, EndedEarly, NoneIsNoCode
    <2> QED
        BY <2>4, <2>5
<1>7. ASSUME NEW c \in Calls, Save(c) PROVE Told'
    <2>1. /\ c \in Calls /\ at[c] \in Steps /\ dest' = dest /\ UNCHANGED toolVars
          /\ \E x \in (Steps \cup {"saved", "failed"}) : at' = [at EXCEPT ![c] = x]
        BY <1>7 DEF Save, SaveStep, MakeDir, Open, Write, SaveRaises, Replace, Look, Unlink,
                    AfterFinally, Stat, Steps
    <2>2. stage[c] \notin {"idle", "ended"} /\ stage[c] \notin InTool \ {"save"}
        BY <2>1 DEF Told, ToldOf, Steps
    <2>3. at'[c] # "idle" /\ stage' = stage /\ answer' = answer /\ ask' = ask
        BY <2>1 DEF SaveTypeOK, Steps, toolVars
    <2>4. ToldOf(c)'
        BY <2>1, <2>2, <2>3 DEF Told, ToldOf, Placeable
    <2>5. ASSUME NEW d \in Calls, d # c PROVE ToldOf(d)'
        BY <2>1, <2>3, <2>5, ToldKept DEF Told
    <2> QED
        BY <2>3, <2>4, <2>5 DEF Told
<1>8. ASSUME NEW c \in Calls, Report(c) PROVE Told'
    <2>1. /\ stage[c] = "save" /\ UNCHANGED <<saveVars, ask>> /\ Placeable(c)
          /\ c \in DOMAIN answer /\ c \in DOMAIN stage
        BY <1>8 DEF Report, Told, ToldOf, Asked
    <2>2. ASSUME at[c] = "saved", End(c, Success(c)) PROVE ToldOf(c)'
        <3>1. /\ stage'[c] = "ended" /\ answer'[c].code = "ok"
              /\ answer'[c].format = FormatTold(c)
            BY <2>1, <2>2 DEF End, Success
        <3>2. FormatTold(c)' = FormatTold(c) /\ Placeable(c)' /\ at'[c] = "saved"
            BY <2>1, <2>2 DEF FormatTold, Placeable, saveVars
        <3> QED
            BY <3>1, <3>2 DEF ToldOf, InTool
    <2>3. ASSUME at[c] = "failed",
                 End(c, Error(IF err[c] \in {"os", "stat"} THEN "output_dir_unwritable"
                              ELSE "internal_render_error"))
          PROVE  ToldOf(c)'
        <3>1. /\ stage'[c] = "ended"
              /\ answer'[c].code \in {"output_dir_unwritable", "internal_render_error"}
            BY <2>1, <2>3 DEF End, Error
        <3>2. at'[c] = "failed"
            BY <2>1, <2>3 DEF saveVars
        <3> QED
            BY <3>1, <3>2 DEF ToldOf, InTool, ErrorCodes
    <2>4. \E envelope : End(c, envelope)
        BY <1>8 DEF Report
    <2>5. ASSUME NEW d \in Calls, d # c PROVE ToldOf(d)'
        <3>1. stage'[d] = stage[d] /\ answer'[d] = answer[d]
            BY <2>4, <2>5 DEF End
        <3> QED
            BY <2>1, <3>1, ToldKept DEF Told, saveVars
    <2>6. ToldOf(c)'
        BY <1>8, <2>2, <2>3 DEF Report
    <2>7. DOMAIN answer' = Calls
        BY <2>4 DEF End, Told
    <2> QED
        BY <2>5, <2>6, <2>7 DEF Told
<1>9. ASSUME NEW s \in Servers, Die(s) PROVE Told'
    <2>1. UNCHANGED <<ask, answer, dest>>
        BY <1>9 DEF Die, Crash, saveVars
    <2>2. ASSUME NEW d \in Calls PROVE ToldOf(d)'
        <3>1. CASE stage'[d] = "dead"
            BY <1>9, <2>1, <3>1 DEF Die, Told, ToldOf, InTool
        <3>2. CASE stage'[d] # "dead"
            <4>1. stage'[d] = stage[d] /\ ~(ServerOf[d] = s /\ stage[d] \in InTool)
                BY <1>9, <3>2 DEF Die
            <4>2. Saving(d) => stage[d] \in InTool
                BY <4>1, <3>2 DEF Told, ToldOf, Asked, Saving, Steps, InTool
            <4>3. at'[d] = at[d]
                BY <1>9, <4>1, <4>2 DEF Die, Crash, saveVars
            <4> QED
                BY <2>1, <4>1, <4>3, ToldKept DEF Told
        <3> QED
            BY <3>1, <3>2
    <2> QED
        BY <2>1, <2>2 DEF Told
<1> QED
    BY <1>1, <1>2, <1>3, <1>4, <1>5, <1>6, <1>7, <1>8, <1>9 DEF Next

LEMMA ToldHolds == Spec => []Told
<1>1. Init => Told /\ Asked
    BY DEF Init, SaveInit, Told, ToldOf, Asked, InTool
<1>2. Told /\ Asked /\ SaveTypeOK /\ [Next]_vars => Told'
    <2>1. ASSUME Told, UNCHANGED vars PROVE Told'
        BY <2>1, ToldKept DEF Told, vars, saveVars
    <2> QED
        BY <2>1, ToldStep
<1> QED
    BY <1>1, <1>2, AskedStep, RenderSaves, SaveTypeCorrect, PTL DEF Spec

(* What SaveInv and Told say of a call that has ended.                     *)
LEMMA ToldMeans == SaveInv /\ Told => AnswerTellsTheFile
<1> SUFFICES ASSUME SaveInv, Told, NEW c \in Calls \ met
             PROVE  /\ answer[c].code = "raised" => ask[c].mesh = Foreign
                    /\ answer[c].code = "ok" =>
                         /\ WholeBy(file[c], c)
                         /\ \/ answer[c].format = Ext(dest[c])
                            \/ ask[c].out # NoPath /\ ask[c].format = Unset
                    /\ stage[c] = "ended" /\ answer[c].code # "ok" /\ err[c] # "stat" =>
                         \A i \in Calls : link[i] = "out" => NoneBy(i, c)
    BY DEF AnswerTellsTheFile
<1>1. ToldOf(c)
    BY DEF Told
<1>2. answer[c].code \in {"ok", "raised"} => stage[c] = "ended"
    BY <1>1 DEF ToldOf, Pending
<1>3. ASSUME answer[c].code = "raised" PROVE ask[c].mesh = Foreign
    BY <1>1, <1>2, <1>3 DEF ToldOf
<1>4. ASSUME answer[c].code = "ok" PROVE WholeBy(file[c], c)
    <2>1. at[c] = "saved"
        BY <1>1, <1>2, <1>4, NoneIsNoCode DEF ToldOf
    <2> QED
        BY <2>1 DEF SaveInv, Kept, KeptOf, Errs
<1>5. ASSUME answer[c].code = "ok", ~(ask[c].out # NoPath /\ ask[c].format = Unset)
      PROVE  answer[c].format = Ext(dest[c])
    <2>1. Placeable(c) /\ answer[c].format = FormatTold(c)
        BY <1>1, <1>2, <1>5, NoneIsNoCode DEF ToldOf
    <2>2. CASE ask[c].out = NoPath
        BY <2>1, <2>2 DEF Placeable, PathOf, AutoPath, Ext, FormatTold
    <2>3. CASE ask[c].out # NoPath
        BY <1>5, <2>1, <2>3 DEF Placeable, PathOf, Agrees, Ext, FormatTold, Format
    <2> QED
        BY <2>2, <2>3
<1>6. ASSUME stage[c] = "ended", answer[c].code # "ok", err[c] # "stat", NEW i \in Calls, link[i] = "out"
      PROVE  NoneBy(i, c)
    <2>1. at[c] \in {"idle", "failed"}
        BY <1>1, <1>6 DEF ToldOf
    <2>2. Unplaced(c)
        BY <1>6, <2>1 DEF SaveInv, Errs, Unplaced, Early
    <2> QED
        BY <1>6, <2>2 DEF SaveInv, Clean
<1> QED
    BY <1>3, <1>4, <1>5, <1>6

(* Whichever requests, processes and interleavings: a call that is told of *)
(* success has its whole figure, in the format it is told, and any other   *)
(* answer leaves no byte of it at an output, unless its save overlapped.   *)
THEOREM AnswersTellTheFile == Spec => []AnswerTellsTheFile
<1>1. Spec => []SaveInv
    BY RenderSaves, SaveInvHolds, PTL
<1> QED
    BY <1>1, ToldHolds, ToldMeans, PTL

-----------------------------------------------------------------------------
(* What style.apply has made of a request r at a state w of its work.      *)
Used(r, w) == {x \in Pairs(r) : x[1] \in w.applied}
Reported(w, k) == \E y \in w.ignored : y[1] = k

(* The keys ahead are apart from those behind, and each of those behind is *)
(* reported once if it has a value, and for what it wrote.                 *)
Handled(r, w) ==
    /\ DOMAIN w = {"resolved", "todo", "applied", "ignored"} /\ DOMAIN w.resolved = Fields
    /\ w.todo \in Seq(Pairs(r))
    /\ \A i, j \in DOMAIN w.todo : w.todo[i][1] = w.todo[j][1] => i = j
    /\ \A i \in DOMAIN w.todo :
          w.todo[i][1] \notin w.applied /\ ~Reported(w, w.todo[i][1])
    /\ \A x \in Pairs(r) : x[2] # Null =>
          \/ \E i \in DOMAIN w.todo : w.todo[i] = x
          \/ x[1] \in w.applied <=> ~Reported(w, x[1])
    /\ \A k \in w.applied : ~Reported(w, k)
    /\ \A x \in Used(r, w) : x[2] # Null /\ Written(x[1], x[2]) # {}
    /\ \A k \in w.applied : \E x \in Used(r, w) : x[1] = k
    /\ \A y \in w.ignored : y[2] = "overridden_by_explicit_spec" =>
          \/ Given(r, FieldOf[y[1]])
          \/ ValuesFor(FieldOf[y[1]], Used(r, w)) # {}

(* While keys are taken a field nobody has set is unset, or null as given. *)
TakenFrom(r, w) ==
    \A f \in Fields :
       /\ Given(r, f) => w.resolved[f] = r.given[f]
       /\ ~Given(r, f) /\ ValuesFor(f, Used(r, w)) # {} =>
             IsSet(w.resolved, f) /\ w.resolved[f] \in ValuesFor(f, Used(r, w))
       /\ ~Given(r, f) /\ ValuesFor(f, Used(r, w)) = {} =>
             w.resolved[f] = IF f \in DOMAIN r.given THEN Null ELSE Unset

(* In the end the defaults have taken its place; a section looks at the    *)
(* colormap alone.                                                         *)
Resolves(r, w) ==
    IF r.tool = "render_section"
    THEN Given(r, "colormap") => w.resolved["colormap"] = r.given["colormap"]
    ELSE \A f \in Fields :
            /\ Given(r, f) => w.resolved[f] = r.given[f]
            /\ ~Given(r, f) /\ ValuesFor(f, Used(r, w)) # {} =>
                  w.resolved[f] \in ValuesFor(f, Used(r, w))
            /\ ~Given(r, f) /\ ValuesFor(f, Used(r, w)) = {} =>
                  w.resolved[f] = IF f \in DOMAIN r.given THEN Null ELSE Defaults(r)[f]

(* What StylesAssumption says of one request.                              *)
Styled(r) ==
    /\ \A f \in DOMAIN r.given : r.given[f] # Unset
    /\ Templated(r) =>
         /\ r.template \in Seq(Pairs(r))
         /\ \A i, j \in DOMAIN r.template : r.template[i][1] = r.template[j][1] => i = j
    /\ \A x \in Pairs(r) : x[2] # Null =>
         \A p \in Written(x[1], x[2]) : p[2] \notin {Null, Unset}

LEMMA Writes ==
    ASSUME NEW f, NEW pairs, NEW v
    PROVE  v \in ValuesFor(f, pairs) <=>
              \E x \in pairs : \E p \in Written(x[1], x[2]) : p[1] = f /\ p[2] = v
BY DEF ValuesFor

LEMMA KeysUnique ==
    ASSUME NEW r, Styled(r), NEW x \in Pairs(r), NEW y \in Pairs(r), x[1] = y[1]
    PROVE  x = y
BY DEF Styled, Pairs

(* Every mapper writes the field its key is mapped to.                     *)
LEMMA WritesItsField ==
    ASSUME NEW k, NEW v, Written(k, v) # {}
    PROVE  /\ k \in DOMAIN FieldOf /\ FieldOf[k] \in Fields
           /\ \E p \in Written(k, v) : p[1] = FieldOf[k]
<1>1. k \in DOMAIN FieldOf
    BY DEF Written, FieldOf
<1>2. FieldOf[k] \in Fields
    BY <1>1 DEF FieldOf, Fields, Presentation
<1>3. \E p \in Written(k, v) : p[1] = FieldOf[k]
    <2>1. k \in DOMAIN FieldOf /\ v # Bad
        BY DEF Written, FieldOf
    <2>2. CASE k = "colormap_kind"
        <3>1. <<"colormap", Kinds[v]>> \in Written(k, v)
            BY <2>1, <2>2 DEF Written
        <3>2. FieldOf[k] = "colormap"
            BY <2>2 DEF FieldOf
        <3> QED
            BY <3>1, <3>2
    <2>3. CASE k = "projection_family"
        BY <2>1, <2>3 DEF Written, FieldOf
    <2>4. CASE k = "font_scale"
        BY <2>1, <2>4 DEF Written, FieldOf
    <2>5. CASE k \notin {"colormap_kind", "projection_family", "font_scale"}
        BY <2>1, <2>5 DEF Written
    <2> QED
        BY <2>2, <2>3, <2>4, <2>5
<1> QED
    BY <1>1, <1>2, <1>3

(* One key of the template: it is applied, or set aside with a reason.     *)
KeyStep(w, k, v, reason, w2) ==
    /\ reason = "none" => v # Null /\ Written(k, v) # {} /\ ~IsSet(w.resolved, FieldOf[k])
    /\ reason = "overridden_by_explicit_spec" =>
          IsSet(w.resolved, FieldOf[k]) /\ Written(k, v) # {}
    /\ reason = "absent" => v = Null
    /\ DOMAIN w2 = {"resolved", "todo", "applied", "ignored"} /\ DOMAIN w2.resolved = Fields
    /\ w2.todo = Tail(w.todo)
    /\ w2.applied = w.applied \cup (IF reason = "none" THEN {k} ELSE {})
    /\ w2.ignored = w.ignored \cup
                    (IF reason \in {"none", "absent"} THEN {} ELSE {<<k, reason>>})
    /\ \A f \in Fields :
          IF reason = "none" /\ (\E p \in Written(k, v) : p[1] = f) /\ ~IsSet(w.resolved, f)
          THEN \E p \in Written(k, v) : p[1] = f /\ w2.resolved[f] = p[2]
          ELSE w2.resolved[f] = w.resolved[f]

LEMMA KeyTaken ==
    ASSUME NEW r, Styled(r), NEW w, Handled(r, w), TakenFrom(r, w), w.todo # << >>,
           NEW k, NEW v, k = Head(w.todo)[1], v = Head(w.todo)[2],
           NEW reason, NEW w2, KeyStep(w, k, v, reason, w2)
    PROVE  Handled(r, w2) /\ TakenFrom(r, w2)
<1> USE DEF KeyStep
<1> DEFINE x0 == Head(w.todo)
<1>1. /\ x0 \in Pairs(r) /\ x0 = w.todo[1] /\ 1 \in DOMAIN w.todo
      /\ Tail(w.todo) \in Seq(Pairs(r))
      /\ \A i \in DOMAIN Tail(w.todo) :
            i + 1 \in DOMAIN w.todo /\ i + 1 # 1 /\ Tail(w.todo)[i] = w.todo[i + 1]
      /\ \A i \in DOMAIN w.todo :
            i = 1 \/ (i - 1 \in DOMAIN Tail(w.todo) /\ Tail(w.todo)[i - 1] = w.todo[i])
    <2>1. w.todo \in Seq(Pairs(r)) /\ w.todo # << >>
        BY DEF Handled
    <2> QED
        BY <2>1
<1>2. k \notin w.applied /\ ~Reported(w, k)
    BY <1>1 DEF Handled
<1>3. \A i \in DOMAIN w2.todo : w2.todo[i][1] # k
    BY <1>1 DEF Handled
<1>4. \A i, j \in DOMAIN w2.todo : w2.todo[i][1] = w2.todo[j][1] => i = j
    <2> SUFFICES ASSUME NEW i \in DOMAIN w2.todo, NEW j \in DOMAIN w2.todo,
                        w2.todo[i][1] = w2.todo[j][1]
                 PROVE  i = j
        OBVIOUS
    <2>1. i + 1 = j + 1
        BY <1>1 DEF Handled
    <2>2. i \in Int /\ j \in Int
        BY <1>1
    <2> QED
        BY <2>1, <2>2
<1>5. \A key : Reported(w2, key) <=>
          Reported(w, key) \/ (key = k /\ reason \notin {"none", "absent"})
    <2>1. CASE reason \in {"none", "absent"}
        <3>1. w2.ignored = w.ignored
            BY <2>1
        <3> QED
            BY <2>1, <3>1 DEF Reported
    <2>2. CASE reason \notin {"none", "absent"}
        <3>1. w2.ignored = w.ignored \cup {<<k, reason>>}
            BY <2>2
        <3> HIDE DEF Reported
        <3>2. <<k, reason>>[1] = k
            OBVIOUS
        <3> QED
            BY <2>2, <3>1, <3>2, Zenon DEF Reported
    <2> QED
        BY <2>1, <2>2
<1>6. \A i \in DOMAIN w2.todo :
          w2.todo[i][1] \notin w2.applied /\ ~Reported(w2, w2.todo[i][1])
    <2> SUFFICES ASSUME NEW i \in DOMAIN w2.todo
                 PROVE  w2.todo[i][1] \notin w2.applied /\ ~Reported(w2, w2.todo[i][1])
        OBVIOUS
    <2>1. w2.todo[i][1] \notin w.applied /\ ~Reported(w, w2.todo[i][1])
        BY <1>1 DEF Handled
    <2> QED
        BY <2>1, <1>3, <1>5
<1>7. \A x \in Pairs(r) : x[2] # Null =>
          \/ \E i \in DOMAIN w2.todo : w2.todo[i] = x
          \/ x[1] \in w2.applied <=> ~Reported(w2, x[1])
    <2> SUFFICES ASSUME NEW x \in Pairs(r), x[2] # Null,
                        ~(\E i \in DOMAIN w2.todo : w2.todo[i] = x)
                 PROVE  x[1] \in w2.applied <=> ~Reported(w2, x[1])
        OBVIOUS
    <2>1. CASE x = x0
        <3>1. reason # "absent" /\ x[1] = k
            BY <2>1
        <3> QED
            BY <3>1, <1>2, <1>5
    <2>2. CASE x # x0
        <3>1. x[1] # k
            BY <2>2, <1>1, KeysUnique
        <3>2. ~(\E i \in DOMAIN w.todo : w.todo[i] = x)
            <4> SUFFICES ASSUME NEW i \in DOMAIN w.todo, w.todo[i] = x PROVE FALSE
                OBVIOUS
            <4>1. i # 1
                BY <2>2, <1>1
            <4>2. i - 1 \in DOMAIN w2.todo /\ w2.todo[i - 1] = x
                BY <4>1, <1>1
            <4> QED
                BY <4>2
        <3>3. x[1] \in w.applied <=> ~Reported(w, x[1])
            BY <3>2 DEF Handled
        <3> QED
            BY <3>1, <3>3, <1>5
    <2> QED
        BY <2>1, <2>2
<1>8. \A key \in w2.applied : ~Reported(w2, key)
    BY <1>2, <1>5 DEF Handled
<1>9. Used(r, w2) = Used(r, w) \cup (IF reason = "none" THEN {x0} ELSE {})
    BY <1>1, KeysUnique DEF Used
<1>10. \A x \in Used(r, w2) : x[2] # Null /\ Written(x[1], x[2]) # {}
    BY <1>9 DEF Handled
<1>11. \A key \in w2.applied : \E x \in Used(r, w2) : x[1] = key
    BY <1>9 DEF Handled
<1>12. \A f, u : u \in ValuesFor(f, Used(r, w2)) <=>
          \/ u \in ValuesFor(f, Used(r, w))
          \/ reason = "none" /\ \E p \in Written(k, v) : p[1] = f /\ p[2] = u
    BY <1>9, Writes
<1>13. \A y \in w2.ignored : y[2] = "overridden_by_explicit_spec" =>
          \/ Given(r, FieldOf[y[1]])
          \/ ValuesFor(FieldOf[y[1]], Used(r, w2)) # {}
    <2> SUFFICES ASSUME NEW y \in w2.ignored, y[2] = "overridden_by_explicit_spec",
                        ~Given(r, FieldOf[y[1]])
                 PROVE  ValuesFor(FieldOf[y[1]], Used(r, w2)) # {}
        OBVIOUS
    <2>1. CASE y \in w.ignored
        BY <2>1, <1>12 DEF Handled
    <2>2. CASE y = <<k, reason>>
        <3>1. IsSet(w.resolved, FieldOf[k]) /\ FieldOf[k] \in Fields
            BY <2>2, WritesItsField
        <3>2. ValuesFor(FieldOf[k], Used(r, w)) # {}
            BY <2>2, <3>1 DEF TakenFrom, IsSet
        <3> QED
            BY <2>2, <3>2, <1>12
    <2> QED
        BY <2>1, <2>2
<1>14. Handled(r, w2)
    BY <1>1, <1>4, <1>6, <1>7, <1>8, <1>10, <1>13, <1>11 DEF Handled
<1>15. ASSUME NEW f \in Fields, Given(r, f) PROVE w2.resolved[f] = r.given[f]
    <2>1. w.resolved[f] = r.given[f]
        BY <1>15 DEF TakenFrom
    <2>2. IsSet(w.resolved, f)
        BY <1>15, <2>1 DEF IsSet, Given, Styled
    <2> QED
        BY <2>1, <2>2
<1>16. ASSUME NEW f \in Fields, ~Given(r, f), ValuesFor(f, Used(r, w2)) # {}
       PROVE  IsSet(w2.resolved, f) /\ w2.resolved[f] \in ValuesFor(f, Used(r, w2))
    <2>1. CASE ValuesFor(f, Used(r, w)) # {}
        <3>1. IsSet(w.resolved, f) /\ w.resolved[f] \in ValuesFor(f, Used(r, w))
            BY <1>16, <2>1 DEF TakenFrom
        <3>2. w2.resolved[f] = w.resolved[f]
            BY <3>1
        <3> QED
            BY <3>1, <3>2, <1>12 DEF IsSet
    <2>2. CASE ValuesFor(f, Used(r, w)) = {}
        <3>1. reason = "none" /\ \E p \in Written(k, v) : p[1] = f
            BY <1>16, <2>2, <1>12
        <3>2. ~IsSet(w.resolved, f)
            BY <1>16, <2>2 DEF TakenFrom, IsSet
        <3>3. PICK p \in Written(k, v) : p[1] = f /\ w2.resolved[f] = p[2]
            BY <3>1, <3>2
        <3>4. p[2] \notin {Null, Unset}
            BY <1>1, <3>1 DEF Styled
        <3> QED
            BY <3>1, <3>3, <3>4, <1>12 DEF IsSet
    <2> QED
        BY <2>1, <2>2
<1>17. ASSUME NEW f \in Fields, ~Given(r, f), ValuesFor(f, Used(r, w2)) = {}
       PROVE  w2.resolved[f] = IF f \in DOMAIN r.given THEN Null ELSE Unset
    <2>1. ValuesFor(f, Used(r, w)) = {}
          /\ ~(reason = "none" /\ \E p \in Written(k, v) : p[1] = f)
        <3>1. \A u : u \notin ValuesFor(f, Used(r, w))
            BY <1>17, <1>12
        <3>2. ASSUME reason = "none", NEW p \in Written(k, v), p[1] = f PROVE FALSE
            <4>1. p[2] \in ValuesFor(f, Used(r, w2))
                BY <3>2, <1>12
            <4> QED
                BY <4>1, <1>17
        <3> QED
            BY <3>1, <3>2
    <2> QED
        BY <1>17, <2>1 DEF TakenFrom
<1> QED
    BY <1>14, <1>15, <1>16, <1>17 DEF TakenFrom

(* The defaults fill in what is unset.                                     *)
LEMMA DefaultsTaken ==
    ASSUME NEW r, Styled(r), NEW w, Handled(r, w), TakenFrom(r, w), Null # Unset,
           NEW w2, w2 = [w EXCEPT !.resolved = Presented(r, w.resolved)]
    PROVE  Handled(r, w2) /\ Resolves(r, w2)
<1>1. /\ DOMAIN w2 = DOMAIN w
      /\ w2.resolved = Presented(r, w.resolved)
      /\ w2.todo = w.todo /\ w2.applied = w.applied /\ w2.ignored = w.ignored
    BY DEF Handled
<1>2. DOMAIN w2.resolved = Fields
    BY <1>1 DEF Presented
<1>3. Used(r, w2) = Used(r, w) /\ \A k : Reported(w2, k) <=> Reported(w, k)
    BY <1>1 DEF Used, Reported
<1>4. Handled(r, w2)
    BY <1>1, <1>2, <1>3 DEF Handled
<1>5. CASE r.tool = "render_section"
    <2> SUFFICES ASSUME Given(r, "colormap")
                 PROVE  w2.resolved["colormap"] = r.given["colormap"]
        BY <1>4, <1>5, Zenon DEF Resolves
    <2>1. "colormap" \in Fields
        BY DEF Fields, Presentation
    <2>2. w.resolved["colormap"] = r.given["colormap"]
        BY <2>1 DEF TakenFrom
    <2>3. IsSet(w.resolved, "colormap")
        BY <2>2 DEF IsSet, Given, Styled
    <2> QED
        BY <1>1, <1>5, <2>1, <2>2, <2>3 DEF Presented
<1>6. CASE r.tool # "render_section"
    <2>1. \A f \in Fields : w2.resolved[f] = IF w.resolved[f] = Unset THEN Defaults(r)[f]
                                             ELSE w.resolved[f]
        BY <1>1, <1>6 DEF Presented
    <2>2. ASSUME NEW f \in Fields, Given(r, f) PROVE w2.resolved[f] = r.given[f]
        BY <2>1, <2>2 DEF TakenFrom, Given, Styled
    <2>3. ASSUME NEW f \in Fields, ~Given(r, f), ValuesFor(f, Used(r, w)) # {}
          PROVE  w2.resolved[f] \in ValuesFor(f, Used(r, w))
        BY <2>1, <2>3 DEF TakenFrom, IsSet
    <2>4. ASSUME NEW f \in Fields, ~Given(r, f), ValuesFor(f, Used(r, w)) = {}
          PROVE  w2.resolved[f] = IF f \in DOMAIN r.given THEN Null ELSE Defaults(r)[f]
        BY <2>1, <2>4 DEF TakenFrom
    <2>5. Used(r, w2) = Used(r, w)
        BY <1>3
    <2>6. Resolves(r, w2)
        BY <1>6, <2>2, <2>3, <2>4, <2>5, Zenon DEF Resolves
    <2> QED
        BY <1>4, <2>6
<1> QED
    BY <1>4, <1>5, <1>6

(* style.apply begins with what the request gives, and all keys ahead.     *)
LEMMA StyleBegun ==
    ASSUME NEW r, Styled(r), Null # Unset,
           NEW w, w = [resolved |-> [f \in Fields |->
                                       IF f \in DOMAIN r.given THEN r.given[f] ELSE Unset],
                       todo |-> IF Templated(r) THEN r.template ELSE << >>,
                       applied |-> {}, ignored |-> {}]
    PROVE  Handled(r, w) /\ TakenFrom(r, w)
<1>1. Used(r, w) = {}
    BY DEF Used
<1>2. \A f : ValuesFor(f, Used(r, w)) = {}
    <2>1. \A f, v : v \notin ValuesFor(f, Used(r, w))
        BY <1>1, Writes
    <2> QED
        BY <2>1
<1>3. TakenFrom(r, w)
    BY <1>2 DEF TakenFrom, Given
<1>4. CASE Templated(r)
    <2>1. w.todo = r.template /\ w.applied = {} /\ w.ignored = {}
        BY <1>4
    <2>2. \A x \in Pairs(r) : \E i \in DOMAIN w.todo : w.todo[i] = x
        BY <1>4, <2>1 DEF Pairs
    <2>3. w.todo \in Seq(Pairs(r))
          /\ \A i, j \in DOMAIN w.todo : w.todo[i][1] = w.todo[j][1] => i = j
        BY <1>4, <2>1 DEF Styled
    <2> QED
        BY <1>1, <1>3, <2>1, <2>2, <2>3 DEF Handled, Reported
<1>5. CASE ~Templated(r)
    <2>1. w.todo = << >> /\ Pairs(r) = {} /\ w.applied = {} /\ w.ignored = {}
        BY <1>5 DEF Pairs
    <2>2. w.todo \in Seq(Pairs(r)) /\ DOMAIN w.todo = {}
        <3>1. << >> \in Seq(Pairs(r)) /\ DOMAIN << >> = {}
            OBVIOUS
        <3> HIDE DEF Pairs
        <3> QED
            BY <2>1, <3>1, Zenon
    <2>3. DOMAIN w = {"resolved", "todo", "applied", "ignored"} /\ DOMAIN w.resolved = Fields
        OBVIOUS
    <2>4. Handled(r, w)
        BY <1>1, <2>1, <2>2, <2>3 DEF Handled
    <2> QED
        BY <1>3, <2>4
<1> QED
    BY <1>4, <1>5
-----------------------------------------------------------------------------
(* What is true of a call with request r at stage s: of its style w, its   *)
(* drawing d and its answer a.                                             *)
Shown(s, a)   == s \in {"output", "save"} \/ a.code = "ok"
Checked(s, a) == s = "draw" \/ Shown(s, a)

SourceOf(r, w, f) ==
    IF Given(r, f) THEN "explicit"
    ELSE IF KeysFor(r.tool, f) \cap w.applied # {} THEN "style_template"
    ELSE "library_default"

Sound(r, s, w, d, a) ==
    /\ w = Null \/ Handled(r, w)
    /\ s = "style" => Handled(r, w) /\ TakenFrom(r, w)
    /\ Checked(s, a) =>
         /\ Handled(r, w) /\ w.todo = << >> /\ Resolves(r, w)
         /\ r.tool = "render_map" => ~AllNaN(Values(r))
    /\ d = Null \/ d.range \in {"none", "given", "nan", "clip", "data"}
    /\ Shown(s, a) => d.field = FieldDrawn(r) /\ d.warnings = Warned(r, d.range)
    /\ a.code = "ok" =>
         /\ a.source = [f \in SourceFields(r.tool) |-> SourceOf(r, w, f)]
         /\ a.nan = <<Cardinality(NaNs(Values(r))), Len(Values(r))>>
         /\ a.plotted = (Finite(d.field) # {})

SoundInv ==
    /\ DOMAIN style = Calls /\ DOMAIN drawn = Calls
    /\ \A c \in Calls : Sound(ask[c], stage[c], style[c], drawn[c], answer[c])

LEMMA StyledRequests == Asked => Null # Unset /\ \A c \in Calls : ask[c] # Null => Styled(ask[c])
BY StylesAssumption DEF Asked, Styled

(* A call that ends, or goes down, with no success is owed little.         *)
LEMMA EndsSound ==
    ASSUME NEW r, NEW s, NEW w, NEW d, NEW a, Sound(r, s, w, d, a),
           NEW s2 \in {"ended", "dead"}, NEW a2, a2.code # "ok"
    PROVE  Sound(r, s2, w, d, a2)
BY DEF Sound, Checked, Shown

(* A step that changes one call, or none, and leaves the rest as it is.    *)
LEMMA OneSound ==
    ASSUME SoundInv, NEW c \in Calls, ask' = ask,
           DOMAIN style' = Calls, DOMAIN drawn' = Calls,
           \A d \in Calls \ {c} : /\ stage'[d] = stage[d] /\ style'[d] = style[d]
                                  /\ drawn'[d] = drawn[d] /\ answer'[d] = answer[d],
           Sound(ask[c], stage'[c], style'[c], drawn'[c], answer'[c])
    PROVE  SoundInv'
<1>1. ASSUME NEW d \in Calls
      PROVE  Sound(ask'[d], stage'[d], style'[d], drawn'[d], answer'[d])
    <2>1. CASE d = c
        BY <2>1
    <2>2. CASE d # c
        BY <2>2 DEF SoundInv
    <2> QED
        BY <2>1, <2>2
<1> QED
    BY <1>1 DEF SoundInv

(* An early return answers with an error.                                  *)
LEMMA ReturnsSound ==
    ASSUME SoundInv, Told, Told', Asked, NEW c \in Calls, NEW envelope, End(c, envelope),
           at'[c] # "saved", UNCHANGED <<ask, drawn>>,
           DOMAIN style' = Calls, \A d \in Calls \ {c} : style'[d] = style[d],
           style'[c] = style[c] \/ Handled(ask[c], style'[c])
    PROVE  SoundInv'
<1>1. /\ stage'[c] = "ended" /\ answer'[c].code # "ok"
    BY NoneIsNoCode DEF Told, ToldOf, End, Asked
<1>2. Sound(ask[c], "ended", style[c], drawn[c], answer'[c])
    BY <1>1, EndsSound DEF SoundInv
<1>3. Sound(ask[c], "ended", style'[c], drawn[c], answer'[c])
    BY <1>1, <1>2 DEF Sound, Checked, Shown
<1>4. \A d \in Calls \ {c} : stage'[d] = stage[d] /\ answer'[d] = answer[d]
    BY DEF End, Told, Asked
<1> QED
    BY <1>1, <1>3, <1>4, OneSound DEF SoundInv

LEMMA KeySound ==
    ASSUME SoundInv, Told, Asked, NEW c \in Calls, StyleKey(c)
    PROVE  SoundInv'
<1> DEFINE r == ask[c]
           w == style[c]
           k == Head(w.todo)[1]
           v == Head(w.todo)[2]
           writes == Written(k, v)
           named == \E i \in DOMAIN ask[c].template :
                       /\ ask[c].template[i][1] = "colormap_name"
                       /\ ask[c].template[i][2] # Null
           tests == <<
               <<v = Null, "absent">>,
               <<k = "colormap_kind" /\ named, "colormap_name_takes_precedence">>,
               <<writes = {}, "not_applicable">>,
               <<writes # {} /\ IsSet(w.resolved, FieldOf[k]), "overridden_by_explicit_spec">> >>
           reason == FirstOf(tests)
           put(f) == {p \in writes : p[1] = f /\ ~IsSet(w.resolved, f)}
           w2 == [resolved |-> [f \in Fields |->
                              IF reason = "none" /\ put(f) # {}
                              THEN (CHOOSE p \in put(f) : TRUE)[2] ELSE w.resolved[f]],
                  todo    |-> Tail(w.todo),
                  applied |-> w.applied \cup (IF reason = "none" THEN {k} ELSE {}),
                  ignored |-> w.ignored \cup
                              (IF reason \in {"none", "absent"} THEN {} ELSE {<<k, reason>>})]
           codes == {"absent", "colormap_name_takes_precedence", "not_applicable",
                     "overridden_by_explicit_spec"}
<1>1. /\ stage[c] = "style" /\ w.todo # << >> /\ style' = [style EXCEPT ![c] = w2]
      /\ UNCHANGED <<stage, ask, drawn, answer>>
    BY Zenon DEF StyleKey
<1>2. Handled(r, w) /\ TakenFrom(r, w) /\ Styled(r)
    BY <1>1, StyledRequests DEF SoundInv, Sound, Asked
<1>3. /\ reason = "none" => v # Null /\ writes # {} /\ ~IsSet(w.resolved, FieldOf[k])
      /\ reason = "overridden_by_explicit_spec" =>
            IsSet(w.resolved, FieldOf[k]) /\ writes # {}
      /\ reason = "absent" => v = Null
    <2> HIDE DEF v, k, w, writes, named
    <2>1. Coded(tests, codes) /\ "none" \notin codes
        BY DEF Coded
    <2>2. /\ reason \in codes \cup {"none"}
          /\ reason = "none" => \A i \in DOMAIN tests : ~tests[i][1]
          /\ reason # "none" => \E i \in DOMAIN tests : tests[i][1] /\ reason = tests[i][2]
        <3> HIDE DEF tests, codes
        <3> QED
            BY <2>1, FirstOfCoded
    <2>3. /\ DOMAIN tests = 1..4
          /\ tests[1][2] = "absent" /\ tests[2][2] = "colormap_name_takes_precedence"
          /\ tests[3][2] = "not_applicable" /\ tests[4][2] = "overridden_by_explicit_spec"
        OBVIOUS
    <2>4. tests[1][1] <=> v = Null
        OBVIOUS
    <2>5. tests[3][1] <=> writes = {}
        OBVIOUS
    <2>6. tests[4][1] <=> (writes # {} /\ IsSet(w.resolved, FieldOf[k]))
        OBVIOUS
    <2> HIDE DEF tests, reason
    <2>7. ASSUME reason = "none"
          PROVE  v # Null /\ writes # {} /\ ~IsSet(w.resolved, FieldOf[k])
        <3>1. 1 \in 1..4 /\ 3 \in 1..4 /\ 4 \in 1..4
            OBVIOUS
        <3>2. ~tests[1][1] /\ ~tests[3][1] /\ ~tests[4][1]
            BY <2>2, <2>3, <2>7, <3>1
        <3>3. ~(v = Null) /\ ~(writes = {}) /\ ~(writes # {} /\ IsSet(w.resolved, FieldOf[k]))
            BY <2>4, <2>5, <2>6, <3>2
        <3> QED
            BY <3>3
    <2>8. ASSUME reason = "overridden_by_explicit_spec"
          PROVE  IsSet(w.resolved, FieldOf[k]) /\ writes # {}
        <3>1. PICK i \in 1..4 : tests[i][1] /\ reason = tests[i][2]
            BY <2>2, <2>3, <2>8
        <3>2. i = 4
            BY <2>3, <2>8, <3>1
        <3> QED
            BY <2>6, <3>1, <3>2
    <2>9. ASSUME reason = "absent" PROVE v = Null
        <3>1. PICK i \in 1..4 : tests[i][1] /\ reason = tests[i][2]
            BY <2>2, <2>3, <2>9
        <3>2. i = 1
            BY <2>3, <2>9, <3>1
        <3> QED
            BY <2>4, <3>1, <3>2
    <2> QED
        BY <2>7, <2>8, <2>9
<1>4. /\ DOMAIN w2 = {"resolved", "todo", "applied", "ignored"}
      /\ DOMAIN w2.resolved = Fields
      /\ w2.todo = Tail(w.todo)
      /\ w2.applied = w.applied \cup (IF reason = "none" THEN {k} ELSE {})
      /\ w2.ignored = w.ignored \cup
                        (IF reason \in {"none", "absent"} THEN {} ELSE {<<k, reason>>})
    <2> HIDE DEF k, v, writes, named, tests, reason, put, codes
    <2> QED
        OBVIOUS
<1>5. ASSUME NEW f \in Fields
      PROVE  IF reason = "none" /\ (\E p \in writes : p[1] = f) /\ ~IsSet(w.resolved, f)
             THEN \E p \in writes : p[1] = f /\ w2.resolved[f] = p[2]
             ELSE w2.resolved[f] = w.resolved[f]
    <2>1. w2.resolved[f] = IF reason = "none" /\ put(f) # {}
                           THEN (CHOOSE p \in put(f) : TRUE)[2] ELSE w.resolved[f]
        <3> HIDE DEF reason, put, k, v, writes
        <3> QED
            OBVIOUS
    <2>2. put(f) # {} => (CHOOSE p \in put(f) : TRUE) \in put(f)
        <3> HIDE DEF put
        <3> QED
            BY Zenon
    <2>3. \A p : p \in put(f) <=> p \in writes /\ p[1] = f /\ ~IsSet(w.resolved, f)
        <3> HIDE DEF writes
        <3> QED
            OBVIOUS
    <2> HIDE DEF reason, put, writes, w2, w
    <2> QED
        BY <2>1, <2>2, <2>3
<1>6. Handled(r, w2) /\ TakenFrom(r, w2)
    <2> HIDE DEF reason, put, writes, w2, w, r, k, v, writes
    <2>1. k = Head(w.todo)[1] /\ v = Head(w.todo)[2]
        BY DEF k, v
    <2>2. /\ reason = "none" =>
               v # Null /\ Written(k, v) # {} /\ ~IsSet(w.resolved, FieldOf[k])
          /\ reason = "overridden_by_explicit_spec" =>
               IsSet(w.resolved, FieldOf[k]) /\ Written(k, v) # {}
          /\ reason = "absent" => v = Null
        BY <1>3 DEF writes
    <2>3. \A f \in Fields :
              IF reason = "none" /\ (\E p \in Written(k, v) : p[1] = f) /\ ~IsSet(w.resolved, f)
              THEN \E p \in Written(k, v) : p[1] = f /\ w2.resolved[f] = p[2]
              ELSE w2.resolved[f] = w.resolved[f]
        BY <1>5, Zenon DEF writes
    <2>4. KeyStep(w, k, v, reason, w2)
        BY <1>4, <2>2, <2>3, Zenon DEF KeyStep
    <2>5. w.todo # << >>
        BY <1>1
    <2> QED
        BY <1>2, <2>1, <2>4, <2>5, KeyTaken
<1>7. /\ DOMAIN style = Calls /\ DOMAIN drawn = Calls /\ answer[c] = Pending
      /\ Sound(r, stage[c], w, drawn[c], answer[c])
    BY <1>1 DEF SoundInv, Told, ToldOf
<1> HIDE DEF w2, w, r
<1>8. Sound(r, "style", w2, drawn[c], answer[c])
    BY <1>1, <1>6, <1>7 DEF Sound, Checked, Shown, Pending
<1>9. style'[c] = w2 /\ DOMAIN style' = Calls /\ \A d \in Calls \ {c} : style'[d] = style[d]
    BY <1>1, <1>7
<1> QED
    BY <1>1, <1>7, <1>8, <1>9, OneSound DEF r

LEMMA MapNotBlank ==
    ASSUME NEW r, NEW res, FirstOf(MapChecks(r, res)) = "none"
    PROVE  ~AllNaN(Values(r))
<1>1. Coded(MapChecks(r, res), ErrorCodes)
    BY DEF Coded, MapChecks, StyleTests, ErrorCodes
<1>2. 3 \in DOMAIN MapChecks(r, res) /\ MapChecks(r, res)[3][1] = AllNaN(Values(r))
    BY DEF MapChecks, StyleTests
<1>3. ~MapChecks(r, res)[3][1]
    BY <1>1, <1>2, FirstOfCoded, NoneIsNoCode
<1> QED
    BY <1>2, <1>3

LEMMA RangeKnown ==
    ASSUME NEW r, NEW res, r.tool \in Tools
    PROVE  RangeDrawn(r, res) \in {"none", "given", "nan", "clip", "data"}
<1> DEFINE given == r.bounds = 2
           blank == Finite(FieldDrawn(r)) = {}
           clip == res["clip_pct"] \notin {Unset, Null} \/ Extreme(FieldDrawn(r))
           tests == << <<given, "given">>, <<blank, "nan">>, <<clip, "clip">>,
                       <<TRUE, "data">> >>
           codes == {"given", "nan", "clip", "data"}
<1>1. Coded(tests, codes) /\ "none" \notin codes
    <2> HIDE DEF given, blank, clip
    <2> QED
        BY DEF Coded
<1>2. FirstOf(tests) \in codes \cup {"none"}
    <2> HIDE DEF tests, codes
    <2> QED
        BY <1>1, FirstOfCoded
<1>3. Clipped(r, res) = FirstOf(tests)
    BY Zenon DEF Clipped
<1> HIDE DEF tests
<1> QED
    BY <1>2, <1>3 DEF RangeDrawn, Tools

LEMMA SoundStep == SoundInv /\ Told /\ Told' /\ Asked /\ SaveTypeOK /\ Next => SoundInv'
<1> SUFFICES ASSUME SoundInv, Told, Told', Asked, SaveTypeOK, Next PROVE SoundInv'
    OBVIOUS
<1> USE DEF Asked
<1>1. ASSUME NEW c \in Calls, Dispatch(c) PROVE SoundInv'
    <2>1. stage[c] = "idle" /\ UNCHANGED <<saveVars, ask, style, drawn>> /\ at[c] = "idle"
        BY <1>1 DEF Dispatch, Told, ToldOf
    <2>2. CASE stage' = [stage EXCEPT ![c] = "take"] /\ UNCHANGED answer
        <3>1. Sound(ask[c], "take", style[c], drawn[c], answer[c])
            BY <2>1 DEF SoundInv, Sound, Checked, Shown
        <3> QED
            BY <2>1, <2>2, <3>1, OneSound DEF SoundInv
    <2>3. ASSUME NEW envelope, End(c, envelope) PROVE SoundInv'
        BY <2>1, <2>3, ReturnsSound DEF SoundInv, saveVars
    <2> QED
        BY <1>1, <2>2, <2>3 DEF Dispatch
<1>2. ASSUME NEW c \in Calls, Take(c) PROVE SoundInv'
    <2> DEFINE r == ask[c]
               w2 == [resolved |-> [f \in Fields |->
                                      IF f \in DOMAIN r.given THEN r.given[f] ELSE Unset],
                      todo |-> IF Templated(r) THEN r.template ELSE << >>,
                      applied |-> {}, ignored |-> {}]
    <2>1. stage[c] = "take" /\ UNCHANGED <<saveVars, ask, drawn>> /\ at[c] = "idle"
        BY <1>2 DEF Take, Told, ToldOf, InTool
    <2>2. \/ \E envelope : End(c, envelope) /\ UNCHANGED style
          \/ /\ stage' = [stage EXCEPT ![c] = "style"]
             /\ style' = [style EXCEPT ![c] = w2] /\ UNCHANGED answer
        BY <1>2, Zenon DEF Take
    <2>3. ASSUME NEW envelope, End(c, envelope), UNCHANGED style PROVE SoundInv'
        BY <2>1, <2>3, ReturnsSound DEF SoundInv, saveVars
    <2>4. ASSUME stage' = [stage EXCEPT ![c] = "style"],
                 style' = [style EXCEPT ![c] = w2], UNCHANGED answer
          PROVE  SoundInv'
        <3>1. Handled(r, w2) /\ TakenFrom(r, w2)
            BY <2>1, StyledRequests, StyleBegun
        <3> HIDE DEF w2
        <3>2. answer[c] = Pending /\ Sound(r, "take", style[c], drawn[c], answer[c])
            BY <2>1 DEF SoundInv, Told, ToldOf
        <3>3. Sound(r, "style", w2, drawn[c], answer[c])
            BY <3>1, <3>2 DEF Sound, Checked, Shown, Pending
        <3>4. style'[c] = w2 /\ DOMAIN style' = Calls /\ stage'[c] = "style"
              /\ \A d \in Calls \ {c} : style'[d] = style[d] /\ stage'[d] = stage[d]
            BY <2>4 DEF SoundInv
        <3> QED
            BY <2>1, <2>4, <3>3, <3>4, OneSound DEF SoundInv
    <2> QED
        BY <2>2, <2>3, <2>4
<1>3. ASSUME NEW c \in Calls, StyleKey(c) PROVE SoundInv'
    BY <1>3, KeySound
<1>4. ASSUME NEW c \in Calls, Check(c) PROVE SoundInv'
    <2> DEFINE r == ask[c]
               res == Presented(r, style[c].resolved)
               w2 == [style[c] EXCEPT !.resolved = res]
               code == IF r.tool # "render_map" THEN "none" ELSE FirstOf(MapChecks(r, res))
    <2>1. /\ stage[c] = "style" /\ UNCHANGED <<saveVars, ask, drawn>> /\ at[c] = "idle"
          /\ style[c].todo = << >> /\ answer[c] = Pending
        BY <1>4 DEF Check, Told, ToldOf, InTool
    <2>2. style' = [style EXCEPT ![c].resolved = res]
          /\ \/ code = "none" /\ stage' = [stage EXCEPT ![c] = "draw"] /\ UNCHANGED answer
             \/ End(c, Error(code))
        BY <1>4, Zenon DEF Check
    <2>3. style'[c] = w2 /\ DOMAIN style' = Calls
          /\ \A d \in Calls \ {c} : style'[d] = style[d]
        <3> HIDE DEF res, r
        <3> QED
            BY <2>2 DEF SoundInv
    <2>4. Sound(r, "style", style[c], drawn[c], answer[c])
        BY <2>1 DEF SoundInv
    <2>5. Handled(r, w2) /\ Resolves(r, w2)
        BY <2>1, <2>4, StyledRequests, DefaultsTaken DEF Sound
    <2>6. w2.todo = << >>
        <3> HIDE DEF res
        <3> QED
            BY <2>1, <2>4 DEF Sound, Handled
    <2>7. r.tool = "render_map" /\ code = "none" => ~AllNaN(Values(r))
        BY MapNotBlank
    <2> HIDE DEF w2, code
    <2>8. CASE code = "none" /\ stage' = [stage EXCEPT ![c] = "draw"] /\ UNCHANGED answer
        <3>1. Sound(r, "draw", w2, drawn[c], answer[c])
            BY <2>1, <2>4, <2>5, <2>6, <2>7, <2>8 DEF Sound, Checked, Shown, Pending
        <3> QED
            BY <2>1, <2>3, <2>8, <3>1, OneSound DEF SoundInv
    <2>9. CASE End(c, Error(code))
        BY <2>1, <2>3, <2>5, <2>9, ReturnsSound DEF saveVars
    <2> QED
        BY <2>2, <2>8, <2>9
<1>5. ASSUME NEW c \in Calls, Draw(c) PROVE SoundInv'
    <2> DEFINE r == ask[c]
               range == RangeDrawn(r, style[c].resolved)
               d2 == [field |-> FieldDrawn(r), range |-> range, warnings |-> Warned(r, range)]
    <2>1. /\ stage[c] = "draw" /\ UNCHANGED <<saveVars, ask, style>> /\ at[c] = "idle"
          /\ answer[c] = Pending /\ r.tool \in Tools
        BY <1>5 DEF Draw, Told, ToldOf, InTool
    <2>2. \/ \E envelope : End(c, envelope) /\ UNCHANGED drawn
          \/ /\ stage' = [stage EXCEPT ![c] = "output"]
             /\ drawn' = [drawn EXCEPT ![c] = d2] /\ UNCHANGED answer
        BY <1>5, Zenon DEF Draw
    <2>3. ASSUME NEW envelope, End(c, envelope), UNCHANGED drawn PROVE SoundInv'
        BY <2>1, <2>3, ReturnsSound DEF SoundInv, saveVars
    <2>4. ASSUME stage' = [stage EXCEPT ![c] = "output"],
                 drawn' = [drawn EXCEPT ![c] = d2], UNCHANGED answer
          PROVE  SoundInv'
        <3>1. range \in {"none", "given", "nan", "clip", "data"}
            BY <2>1, RangeKnown
        <3> HIDE DEF range
        <3>2. Sound(r, "draw", style[c], drawn[c], answer[c])
            BY <2>1 DEF SoundInv
        <3>3. Sound(r, "output", style[c], d2, answer[c])
            BY <2>1, <3>1, <3>2 DEF Sound, Checked, Shown, Pending
        <3> HIDE DEF d2
        <3>4. drawn'[c] = d2 /\ DOMAIN drawn' = Calls /\ stage'[c] = "output"
              /\ \A d \in Calls \ {c} : drawn'[d] = drawn[d] /\ stage'[d] = stage[d]
            BY <2>4 DEF SoundInv
        <3> QED
            BY <2>1, <2>4, <3>3, <3>4, OneSound DEF SoundInv
    <2> QED
        BY <2>2, <2>3, <2>4
<1>6. ASSUME NEW c \in Calls, Output(c) PROVE SoundInv'
    <2>1. /\ stage[c] = "output" /\ UNCHANGED <<ask, style, drawn>> /\ at[c] = "idle"
          /\ answer[c] = Pending
        BY <1>6 DEF Output, Told, ToldOf, InTool
    <2>2. \/ \E envelope : End(c, envelope) /\ UNCHANGED saveVars
          \/ stage' = [stage EXCEPT ![c] = "save"] /\ UNCHANGED answer
        BY <1>6, Zenon DEF Output
    <2>3. ASSUME NEW envelope, End(c, envelope), UNCHANGED saveVars PROVE SoundInv'
        BY <2>1, <2>3, ReturnsSound DEF SoundInv, saveVars
    <2>4. CASE stage' = [stage EXCEPT ![c] = "save"] /\ UNCHANGED answer
        <3>1. Sound(ask[c], "save", style[c], drawn[c], answer[c])
            BY <2>1 DEF SoundInv, Sound, Checked, Shown
        <3> QED
            BY <2>1, <2>4, <3>1, OneSound DEF SoundInv
    <2> QED
        BY <2>2, <2>3, <2>4
<1>7. ASSUME NEW c \in Calls, Save(c) PROVE SoundInv'
    BY <1>7 DEF Save, toolVars, SoundInv
<1>8. ASSUME NEW c \in Calls, Report(c) PROVE SoundInv'
    <2>1. stage[c] = "save" /\ UNCHANGED <<saveVars, ask, style, drawn>>
        BY <1>8 DEF Report
    <2>2. Sound(ask[c], "save", style[c], drawn[c], answer[c])
        BY <2>1 DEF SoundInv
    <2>3. CASE at[c] = "saved" /\ End(c, Success(c))
        <3>1. stage'[c] = "ended" /\ answer'[c] = Success(c)
              /\ \A d \in Calls \ {c} : stage'[d] = stage[d] /\ answer'[d] = answer[d]
            BY <2>3 DEF End, Told
        <3>2. \A f : Source(c, f) = SourceOf(ask[c], style[c], f)
            BY Zenon DEF Source, SourceOf
        <3>3. /\ Success(c).source = [f \in SourceFields(ask[c].tool) |->
                                         SourceOf(ask[c], style[c], f)]
              /\ Success(c).nan = <<Cardinality(NaNs(Values(ask[c]))), Len(Values(ask[c]))>>
              /\ Success(c).plotted = (Finite(drawn[c].field) # {})
            BY <3>2 DEF Success, Oracle
        <3>4. Sound(ask[c], "ended", style[c], drawn[c], Success(c))
            BY <2>2, <3>3 DEF Sound, Checked, Shown
        <3> QED
            BY <2>1, <3>1, <3>4, OneSound DEF SoundInv
    <2>4. ASSUME at[c] = "failed", NEW envelope, End(c, envelope) PROVE SoundInv'
        BY <2>1, <2>4, ReturnsSound DEF SoundInv, saveVars
    <2> QED
        BY <1>8, <2>3, <2>4 DEF Report
<1>9. ASSUME NEW s \in Servers, Die(s) PROVE SoundInv'
    <2>1. UNCHANGED <<ask, style, drawn, answer>>
        BY <1>9 DEF Die
    <2>2. ASSUME NEW d \in Calls
          PROVE  Sound(ask[d], stage'[d], style[d], drawn[d], answer[d])
        <3>1. Sound(ask[d], stage[d], style[d], drawn[d], answer[d])
            BY DEF SoundInv
        <3>2. stage'[d] = stage[d] \/ (stage[d] \in InTool /\ stage'[d] = "dead")
            BY <1>9 DEF Die
        <3>3. stage[d] \in InTool => answer[d].code # "ok"
            BY DEF Told, ToldOf, Pending, InTool
        <3> QED
            BY <3>1, <3>2, <3>3, EndsSound
    <2> QED
        BY <2>1, <2>2 DEF SoundInv
<1> QED
    BY <1>1, <1>2, <1>3, <1>4, <1>5, <1>6, <1>7, <1>8, <1>9 DEF Next

LEMMA AskedHolds == Spec => []Asked
<1>1. Init => Asked
    BY DEF Init, Asked
<1> QED
    BY <1>1, AskedStep, PTL DEF Spec

LEMMA SoundHolds == Spec => []SoundInv
<1>1. Init => SoundInv /\ Told /\ Asked
    BY DEF Init, SaveInit, SoundInv, Sound, Checked, Shown, Pending, Told, ToldOf, Asked, InTool
<1>2. SoundInv /\ Told /\ Told' /\ Asked /\ SaveTypeOK /\ [Next]_vars => SoundInv'
    BY SoundStep DEF vars, SoundInv
<1> QED
    BY <1>1, <1>2, ToldHolds, AskedStep, RenderSaves, SaveTypeCorrect, PTL DEF Spec

(* The types; what a template's keys were is told apart, and an answer is  *)
(* given exactly by a call that has ended.                                 *)
THEOREM RenderTypes == Spec => []RenderTypeOK
<1>1. SoundInv /\ Told /\ Asked /\ SaveTypeOK => RenderTypeOK
    <2> SUFFICES ASSUME SoundInv, Told, Asked, SaveTypeOK, NEW c \in Calls
                 PROVE  /\ style[c] # Null =>
                             /\ DOMAIN style[c].resolved = Fields
                             /\ \A x \in style[c].ignored : x[1] \notin style[c].applied
                        /\ drawn[c] # Null =>
                             drawn[c].range \in {"none", "given", "nan", "clip", "data"}
                        /\ (answer[c] # Pending) = (stage[c] = "ended")
        BY DEF RenderTypeOK, Asked
    <2>1. Sound(ask[c], stage[c], style[c], drawn[c], answer[c]) /\ ToldOf(c)
        BY DEF SoundInv, Told
    <2>2. stage[c] = "ended" => answer[c] # Pending
        BY <2>1, NoneIsNoCode DEF ToldOf, Pending
    <2>3. (answer[c] # Pending) = (stage[c] = "ended")
        BY <2>1, <2>2 DEF ToldOf
    <2> QED
        BY <2>1, <2>3 DEF Sound, Handled, Reported
<1> QED
    BY <1>1, SoundHolds, ToldHolds, AskedHolds, RenderSaves, SaveTypeCorrect, PTL

(* For any request and any template, in whatever order its keys stand: the *)
(* request has precedence over the template and the template over the      *)
(* defaults, and each key with a value is reported once, for what it did.  *)
THEOREM PrecedenceIsKept == Spec => []PrecedenceKept
<1>1. SoundInv => PrecedenceKept
    <2> SUFFICES ASSUME SoundInv, NEW c \in Calls, Resolved(c), Templated(ask[c])
                 PROVE  LET r == ask[c]
                            w == style[c]
                        IN  /\ \A f \in Fields :
                                 /\ Given(r, f) => w.resolved[f] = r.given[f]
                                 /\ ~Given(r, f) /\ ValuesFor(f, Used(r, w)) # {} =>
                                      w.resolved[f] \in ValuesFor(f, Used(r, w))
                                 /\ ~Given(r, f) /\ ValuesFor(f, Used(r, w)) = {} =>
                                      w.resolved[f] = IF f \in DOMAIN r.given THEN Null
                                                      ELSE Defaults(r)[f]
                            /\ \A x \in Pairs(r) : x[2] # Null =>
                                 (x[1] \in w.applied) # (\E y \in w.ignored : y[1] = x[1])
                            /\ \A y \in w.ignored : y[2] = "overridden_by_explicit_spec" =>
                                 \/ Given(r, FieldOf[y[1]])
                                 \/ ValuesFor(FieldOf[y[1]], Used(r, w)) # {}
        BY Zenon DEF PrecedenceKept, Used
    <2> DEFINE r == ask[c]
               w == style[c]
    <2>1. Checked(stage[c], answer[c])
        BY DEF Resolved, Checked, Shown
    <2>2. Handled(r, w) /\ w.todo = << >> /\ Resolves(r, w)
        BY <2>1 DEF SoundInv, Sound
    <2>3. r.tool # "render_section"
        BY DEF Templated
    <2> HIDE DEF r, w
    <2>4. ASSUME NEW x \in Pairs(r), x[2] # Null
          PROVE  (x[1] \in w.applied) # (\E y \in w.ignored : y[1] = x[1])
        <3>1. DOMAIN w.todo = {}
            <4>1. DOMAIN << >> = {}
                OBVIOUS
            <4> QED
                BY <4>1, <2>2
        <3>2. x[1] \in w.applied <=> ~Reported(w, x[1])
            BY <2>2, <2>4, <3>1 DEF Handled
        <3> QED
            BY <3>2, Zenon DEF Reported
    <2>5. \A y \in w.ignored : y[2] = "overridden_by_explicit_spec" =>
             \/ Given(r, FieldOf[y[1]])
             \/ ValuesFor(FieldOf[y[1]], Used(r, w)) # {}
        BY <2>2 DEF Handled
    <2>6. \A f \in Fields :
             /\ Given(r, f) => w.resolved[f] = r.given[f]
             /\ ~Given(r, f) /\ ValuesFor(f, Used(r, w)) # {} =>
                  w.resolved[f] \in ValuesFor(f, Used(r, w))
             /\ ~Given(r, f) /\ ValuesFor(f, Used(r, w)) = {} =>
                  w.resolved[f] = IF f \in DOMAIN r.given THEN Null ELSE Defaults(r)[f]
        BY <2>2, <2>3, Zenon DEF Resolves
    <2> QED
        BY <2>4, <2>5, <2>6, Zenon DEF r, w
<1> QED
    BY <1>1, SoundHolds, PTL

(* No key has the name of the colormap or the projection, and but for      *)
(* those two a field is written by the key of its name alone.              *)
LEMMA KeyOfField ==
    ASSUME NEW k, NEW v, NEW p \in Written(k, v)
    PROVE  /\ k \notin {"colormap", "projection"}
           /\ p[1] \in Presentation \ {"colormap"} => k = p[1]
           /\ p[1] = "colormap" => k \in {"colormap_name", "colormap_kind"}
<1>1. k \in DOMAIN FieldOf /\ v # Bad
    BY DEF Written, FieldOf
<1>2. k \notin {"colormap", "projection"}
    BY <1>1 DEF FieldOf
<1>3. CASE k = "colormap_kind"
    <2>1. p[1] \in {"colormap", "vcenter"}
        BY <1>1, <1>3 DEF Written
    <2> QED
        BY <1>2, <1>3, <2>1 DEF Presentation
<1>4. CASE k = "projection_family"
    <2>1. p[1] = "projection"
        BY <1>1, <1>4 DEF Written
    <2> QED
        BY <1>2, <1>4, <2>1 DEF Presentation
<1>5. CASE k = "font_scale"
    <2>1. p[1] = "font_scale"
        BY <1>1, <1>5 DEF Written
    <2> QED
        BY <1>2, <1>5, <2>1 DEF Presentation
<1>6. CASE k \notin {"colormap_kind", "projection_family", "font_scale"}
    <2>1. p[1] = FieldOf[k]
        BY <1>1, <1>6 DEF Written
    <2> QED
        BY <1>1, <1>2, <1>6, <2>1 DEF Presentation, FieldOf
<1> QED
    BY <1>3, <1>4, <1>5, <1>6

(* For any request and any template, what the oracle reports of a field's  *)
(* source is what gave it its value, the two named exceptions aside.       *)
THEOREM OracleTruthful == Spec => []OracleTellsSource
<1>1. SoundInv /\ Told => OracleTellsSource
    <2> SUFFICES ASSUME SoundInv, Told, NEW c \in Calls, answer[c].code = "ok",
                        NEW f \in SourceFields(ask[c].tool)
                 PROVE  LET r == ask[c]
                            wrote == \E x \in Pairs(r) :
                                        /\ x[1] \in style[c].applied
                                        /\ \E p \in Written(x[1], x[2]) : p[1] = f
                        IN  /\ answer[c].source[f] = "explicit" =>
                                 \/ style[c].resolved[f] = r.given[f]
                                 \/ r.tool = "render_section" /\ f # "colormap"
                            /\ answer[c].source[f] = "style_template" => wrote /\ ~Given(r, f)
                            /\ answer[c].source[f] = "library_default" =>
                                 \/ ~wrote /\ ~Given(r, f)
                                 \/ f \in {"colormap", "projection"} /\ r.tool # "render_timeseries"
        BY Zenon DEF OracleTellsSource
    <2> DEFINE r == ask[c]
               w == style[c]
               wrote == \E x \in Pairs(r) :
                           /\ x[1] \in w.applied
                           /\ \E p \in Written(x[1], x[2]) : p[1] = f
    <2>1. Sound(r, stage[c], w, drawn[c], answer[c]) /\ Checked(stage[c], answer[c])
        BY DEF SoundInv, Checked, Shown
    <2>2. Handled(r, w) /\ Resolves(r, w) /\ answer[c].source[f] = SourceOf(r, w, f)
        BY <2>1 DEF Sound
    <2>3. f \in Fields /\ (f \in Presentation \/ (f = "projection" /\ r.tool = "render_map"))
        <3>1. f \in Presentation \cup (IF r.tool = "render_map" THEN {"projection"} ELSE {})
            BY DEF SourceFields
        <3> QED
            BY <3>1, Zenon DEF Fields
    <2> HIDE DEF r, w
    <2>4. ASSUME SourceOf(r, w, f) = "explicit"
          PROVE  w.resolved[f] = r.given[f] \/ (r.tool = "render_section" /\ f # "colormap")
        <3>1. Given(r, f)
            BY <2>4 DEF SourceOf
        <3>2. CASE r.tool = "render_section"
            BY <2>2, <3>1, <3>2, Zenon DEF Resolves
        <3>3. CASE r.tool # "render_section"
            BY <2>2, <2>3, <3>1, <3>3, Zenon DEF Resolves
        <3> QED
            BY <3>2, <3>3
    <2>5. ASSUME SourceOf(r, w, f) = "style_template" PROVE wrote /\ ~Given(r, f)
        <3>1. ~Given(r, f) /\ KeysFor(r.tool, f) \cap w.applied # {}
            BY <2>5 DEF SourceOf
        <3>2. PICK k \in KeysFor(r.tool, f) : k \in w.applied
            BY <3>1
        <3>3. PICK x \in Pairs(r) : x[1] = k /\ x[1] \in w.applied /\ Written(x[1], x[2]) # {}
            BY <2>2, <3>2 DEF Handled, Used
        <3>4. PICK p \in Written(x[1], x[2]) : p[1] = FieldOf[k]
            BY <3>3, WritesItsField
        <3>5. FieldOf[k] = f
            <4>1. k \in DOMAIN FieldOf /\ k \notin {"colormap", "projection"}
                BY <3>3, <3>4, WritesItsField, KeyOfField
            <4> QED
                BY <2>3, <3>2, <4>1 DEF KeysFor, FieldOf, Presentation
        <3> QED
            BY <3>1, <3>3, <3>4, <3>5
    <2>6. ASSUME SourceOf(r, w, f) = "library_default",
                 ~(f \in {"colormap", "projection"} /\ r.tool # "render_timeseries")
          PROVE  ~wrote /\ ~Given(r, f)
        <3>1. ~Given(r, f) /\ KeysFor(r.tool, f) \cap w.applied = {}
            BY <2>6 DEF SourceOf
        <3>2. ASSUME NEW x \in Pairs(r), x[1] \in w.applied,
                     NEW p \in Written(x[1], x[2]), p[1] = f
              PROVE  FALSE
            <4>1. r.tool # "render_section"
                BY <3>2 DEF Pairs, Templated
            <4>2. x[1] \in KeysFor(r.tool, f)
                BY <2>3, <2>6, <3>2, <4>1, KeyOfField DEF KeysFor
            <4> QED
                BY <3>1, <3>2, <4>2
        <3> QED
            BY <3>1, <3>2
    <2> QED
        BY <2>2, <2>4, <2>5, <2>6 DEF r, w
<1> QED
    BY <1>1, SoundHolds, ToldHolds, PTL

(* A block whose mean can be drawn holds no cell that cannot.              *)
LEMMA MeanShows ==
    ASSUME NEW B, Mean(B) \notin {"nan", "inf"}
    PROVE  "nan" \notin B /\ "inf" \notin B
BY DEF Mean

(* For fields of any size and any blocks: no gap is painted over, a blank  *)
(* map is told by its having no smallest value, and where nothing is       *)
(* coarsened and nothing is infinite the share of NaN told is what is left *)
(* blank, and some cell is drawn.                                          *)
THEOREM DrawsWhatItAssessed == Spec => []DrawnAsAssessed
<1>1. SoundInv => DrawnAsAssessed
    <2> SUFFICES ASSUME SoundInv, NEW c \in Calls, answer[c].code = "ok",
                        ask[c].tool = "render_map"
                 PROVE  LET r == ask[c]
                            s == Values(r)
                            d == drawn[c].field
                            seen == DOMAIN d \ BlankIn(r, d)
                            apart == \/ "auto_downsampled" \in drawn[c].warnings
                                     \/ s = << >> \/ \E i \in DOMAIN s : s[i] = "inf"
                        IN  /\ \A j \in seen : Block(r, j) \cap BlankIn(r, s) = {}
                            /\ MasksInf(r) => answer[c].plotted = (seen # {})
                            /\ apart \/ answer[c].nan = <<Cardinality(DOMAIN d \ seen), Len(d)>>
                            /\ apart \/ answer[c].plotted
        BY DEF DrawnAsAssessed
    <2> DEFINE r == ask[c]
               s == Values(r)
               d == drawn[c].field
               seen == DOMAIN d \ BlankIn(r, d)
    <2>1. /\ d = FieldDrawn(r) /\ drawn[c].warnings = Warned(r, drawn[c].range)
          /\ answer[c].nan = <<Cardinality(NaNs(s)), Len(s)>>
          /\ answer[c].plotted = (Finite(d) # {})
          /\ ~AllNaN(s)
        BY DEF SoundInv, Sound, Checked, Shown
    <2>2. MasksInf(r) => answer[c].plotted = (seen # {})
        BY <2>1 DEF BlankIn, Finite, NaNs
    <2>3. CASE Coarsened(r)
        <3>1. "auto_downsampled" \in drawn[c].warnings
            BY <2>1, <2>3 DEF Warned, MapWarnings
        <3>2. ASSUME NEW j \in seen, NEW i \in Block(r, j), i \in BlankIn(r, s) PROVE FALSE
            <4>1. s = r.field /\ MasksInf(r) /\ d = Coarse(r)
                BY <2>1, <2>3 DEF Coarsened, Values, MasksInf, FieldDrawn
            <4> DEFINE B == {r.field[h] : h \in Block(r, j)}
            <4>2. d[j] = Mean(B)
                BY <4>1 DEF Coarse
            <4>3. d[j] \notin {"nan", "inf"}
                BY <4>1 DEF BlankIn, NaNs
            <4>4. r.field[i] \in B /\ r.field[i] \in {"nan", "inf"}
                BY <3>2, <4>1 DEF BlankIn, NaNs
            <4> QED
                BY <4>2, <4>3, <4>4, MeanShows
        <3> QED
            BY <2>2, <3>1, <3>2
    <2>4. CASE ~Coarsened(r)
        <3>1. d = s /\ \A j : Block(r, j) = {j}
            BY <2>1, <2>4 DEF FieldDrawn, Block
        <3>2. \A j \in seen : Block(r, j) \cap BlankIn(r, s) = {}
            BY <3>1
        <3>3. ASSUME s # << >>, \A i \in DOMAIN s : s[i] # "inf"
              PROVE  answer[c].nan = <<Cardinality(DOMAIN d \ seen), Len(d)>> /\ answer[c].plotted
            <4>1. DOMAIN d \ seen = NaNs(s)
                BY <3>1, <3>3 DEF BlankIn, NaNs
            <4>2. Finite(d) # {}
                BY <2>1, <3>1, <3>3 DEF AllNaN, NaNs, Finite
            <4> QED
                BY <2>1, <3>1, <4>1, <4>2
        <3> QED
            BY <2>2, <3>2, <3>3
    <2> QED
        BY <2>3, <2>4
<1> QED
    BY <1>1, SoundHolds, PTL
=============================================================================
