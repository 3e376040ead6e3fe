----------------------------- MODULE FigureSave -----------------------------
(***************************************************************************)
(* atomic_save of src/mcp/plot_renderer/lifecycle.py, as the calls of      *)
(* several renderer processes run it: the figure is written to             *)
(* "<output>.tmp", whose name depends on the output alone, and renamed to  *)
(* the output; a finally clause removes what is left of the temporary.     *)
(*                                                                         *)
(* A process handles one call at a time, so only calls of two processes    *)
(* interleave.  A file lives in an inode, and an inode is named by the     *)
(* call that created it: a call creates at most one, always for its own    *)
(* output, so link says under which of the output's two names it is found. *)
(* Writing goes to the inode that was opened, whatever became of its name. *)
(***************************************************************************)
EXTENDS Naturals

CONSTANTS Calls,            \* calls that save a figure
          Servers,          \* renderer processes
          ServerOf,         \* the process that runs each call
          Paths,            \* output paths
          NoPath,           \* dest of a call that has not come to its save
          Chunks,           \* writes that make a figure whole
          Blank             \* a chunk nobody has written since the truncation

ASSUME ServerOfAssumption == ServerOf \in [Calls -> Servers]
ASSUME ChunksAssumption == Chunks \in Nat \ {0}
ASSUME NoPathAssumption == NoPath \notin Paths
ASSUME BlankAssumption == Blank \notin Calls

VARIABLES
    at,      \* where each call is in atomic_save
    dest,    \* the output path of each call
    file,    \* the inode a call opened, once it has: else the call itself
    pos,     \* chunks a call has written
    err,     \* the exception the finally clause lets through
    data,    \* what each inode holds, chunk by chunk: the call that wrote it
    link,    \* the name under which each inode is found
    met      \* history: calls whose save overlapped another's on their path

saveVars == <<at, dest, file, pos, err, data, link, met>>

Steps == {"mkdir", "open", "write", "replace", "look", "unlink", "stat"}
Ends  == {"saved", "failed", "dead"}
Saving(c) == at[c] \in Steps

(* The inode found under one of the two names of path p, as a set.         *)
Found(p, name) == {i \in Calls : dest[i] = p /\ link[i] = name}

SaveInit ==
    /\ at   = [c \in Calls |-> "idle"]
    /\ dest = [c \in Calls |-> NoPath]
    /\ file = [c \in Calls |-> c]
    /\ pos  = [c \in Calls |-> 0]
    /\ err  = [c \in Calls |-> "none"]
    /\ data = [c \in Calls |-> [k \in 1..Chunks |-> Blank]]
    /\ link = [c \in Calls |-> "none"]
    /\ met  = {}

SaveTypeOK ==
    /\ at   \in [Calls -> Steps \cup Ends \cup {"idle"}]
    /\ dest \in [Calls -> Paths \cup {NoPath}]
    /\ file \in [Calls -> Calls]
    /\ pos  \in [Calls -> 0..Chunks]
    /\ err  \in [Calls -> {"none", "os", "other", "stat"}]
    /\ data \in [Calls -> [1..Chunks -> Calls \cup {Blank}]]
    /\ link \in [Calls -> {"none", "tmp", "out"}]
    /\ met  \subseteq Calls

-----------------------------------------------------------------------------
(* A call enters atomic_save.  Whoever is saving to the same path then has *)
(* met it.                                                                 *)
Rivals(c, p) == {d \in Calls \ {c} : Saving(d) /\ dest[d] = p}

Begin(c, p) ==
    /\ at[c] = "idle"
    /\ \A d \in Calls : Saving(d) => ServerOf[d] # ServerOf[c]
    /\ at'   = [at EXCEPT ![c] = "mkdir"]
    /\ dest' = [dest EXCEPT ![c] = p]
    /\ met'  = IF Rivals(c, p) = {} THEN met ELSE met \cup Rivals(c, p) \cup {c}
    /\ UNCHANGED <<file, pos, err, data, link>>

(* out.parent.mkdir stands before the try: its OSError skips the finally.  *)
MakeDir(c) ==
    /\ at[c] = "mkdir"
    /\ \/ at' = [at EXCEPT ![c] = "open"] /\ UNCHANGED err
       \/ at' = [at EXCEPT ![c] = "failed"] /\ err' = [err EXCEPT ![c] = "os"]
    /\ UNCHANGED <<dest, file, pos, data, link, met>>

(* For a mutant: the figure is written straight to its output.             *)
OpenOutput(c) ==
    /\ at[c] = "open"
    /\ at' = [at EXCEPT ![c] = "write"]
    /\ link' = [i \in Calls |-> IF i = c THEN "out"
                               ELSE IF i \in Found(dest[c], "out") THEN "none" ELSE link[i]]
    /\ UNCHANGED <<dest, file, pos, err, data, met>>

(* savefig opens the temporary for writing: it creates it, or truncates    *)
(* the one it finds, also one that is another call's or a dead call's.     *)
Open(c) ==
    /\ at[c] = "open"
    /\ at' = [at EXCEPT ![c] = "write"]
    /\ \E i \in Calls :
          /\ \/ i \in Found(dest[c], "tmp") /\ UNCHANGED link
             \/ /\ Found(dest[c], "tmp") = {}
                /\ i = c
                /\ link' = [link EXCEPT ![c] = "tmp"]
          /\ file' = [file EXCEPT ![c] = i]
          /\ data' = [data EXCEPT ![i] = [k \in 1..Chunks |-> Blank]]
    /\ UNCHANGED <<dest, pos, err, met>>

Write(c) ==
    /\ at[c] = "write"
    /\ pos[c] < Chunks
    /\ pos'  = [pos EXCEPT ![c] = @ + 1]
    /\ data' = [data EXCEPT ![file[c]][pos[c] + 1] = c]
    /\ at'   = [at EXCEPT ![c] = IF pos[c] + 1 = Chunks THEN "replace" ELSE @]
    /\ UNCHANGED <<dest, file, err, link, met>>

(* savefig raises, before it opened the file or while it writes: the disk  *)
(* is full, the directory closed, or the figure cannot be drawn.           *)
SaveRaises(c) ==
    /\ at[c] \in {"open", "write"}
    /\ at' = [at EXCEPT ![c] = "look"]
    /\ \E e \in {"os", "other"} : err' = [err EXCEPT ![c] = e]
    /\ UNCHANGED <<dest, file, pos, data, link, met>>

(* os.replace moves what is found under the temporary name, whoever wrote  *)
(* it.  It raises an OSError with nothing there, and where the system will *)
(* not rename.                                                             *)
Replace(c) ==
    /\ at[c] = "replace"
    /\ at' = [at EXCEPT ![c] = "look"]
    /\ \/ /\ Found(dest[c], "tmp") # {}
          /\ link' = [i \in Calls |->
                        IF i \in Found(dest[c], "tmp") THEN "out"
                        ELSE IF i \in Found(dest[c], "out") THEN "none" ELSE link[i]]
          /\ UNCHANGED err
       \/ err' = [err EXCEPT ![c] = "os"] /\ UNCHANGED link
    /\ UNCHANGED <<dest, file, pos, data, met>>

(* finally: if tmp.exists(), which may be another call's temporary ...     *)
AfterFinally(c) == IF err[c] = "none" THEN "stat" ELSE "failed"

Look(c) ==
    /\ at[c] = "look"
    /\ at' = [at EXCEPT ![c] = IF Found(dest[c], "tmp") # {} THEN "unlink"
                               ELSE AfterFinally(c)]
    /\ UNCHANGED <<dest, file, pos, err, data, link, met>>

(* ... then tmp.unlink(), whose OSError is swallowed: it was gone by then, *)
(* or it could not be removed.                                             *)
Unlink(c) ==
    /\ at[c] = "unlink"
    /\ at' = [at EXCEPT ![c] = AfterFinally(c)]
    /\ \/ link' = [i \in Calls |->
                     IF i \in Found(dest[c], "tmp") THEN "none" ELSE link[i]]
       \/ UNCHANGED link
    /\ UNCHANGED <<dest, file, pos, err, data, met>>

(* out.stat(): the size in the answer is that of whatever is there.  Its   *)
(* OSError, "stat" in err, goes the way of the others.                     *)
Stat(c) ==
    /\ at[c] = "stat"
    /\ \/ at' = [at EXCEPT ![c] = "saved"] /\ UNCHANGED err
       \/ at' = [at EXCEPT ![c] = "failed"] /\ err' = [err EXCEPT ![c] = "stat"]
    /\ UNCHANGED <<dest, file, pos, data, link, met>>

(* The process dies within atomic_save.  Nothing is cleaned up; the server *)
(* is started again and serves the calls that are left.                    *)
Crash(s) ==
    /\ \E c \in Calls : Saving(c) /\ ServerOf[c] = s
    /\ at' = [c \in Calls |-> IF Saving(c) /\ ServerOf[c] = s THEN "dead" ELSE at[c]]
    /\ UNCHANGED <<dest, file, pos, err, data, link, met>>

SaveStep(c) == \/ MakeDir(c) \/ Open(c) \/ Write(c) \/ SaveRaises(c)
               \/ Replace(c) \/ Look(c) \/ Unlink(c) \/ Stat(c)

SaveNext == \/ \E c \in Calls : SaveStep(c) \/ \E p \in Paths : Begin(c, p)
            \/ \E s \in Servers : Crash(s)

SaveSpec == SaveInit /\ [][SaveNext]_saveVars

-----------------------------------------------------------------------------
WholeBy(i, c) == \A k \in 1..Chunks : data[i][k] = c
NoneBy(i, c)  == \A k \in 1..Chunks : data[i][k] # c

(* What is found at an output is one whole figure that a call to that path *)
(* drew: a crash, a full disk or an exception at any step leaves the old   *)
(* figure or the new one.  The one exception is two saves to the path that *)
(* overlapped, which share the temporary: then the output may be torn or   *)
(* be the other call's figure.                                             *)
OutputWhole ==
    \A i \in Calls : link[i] = "out" =>
        \/ \E c \in Calls : /\ dest[c] = dest[i] /\ WholeBy(i, c)
                             /\ at[c] = "failed" => err[c] = "stat"
        \/ \E c \in met : dest[c] = dest[i]

(* A save that returns a size has its own whole figure at the output, and  *)
(* one that raises has no byte there, unless it overlapped another save or *)
(* it raised after the rename, asking for the size: the answer the tools   *)
(* build from it tells what became of the file.                            *)
ReturnsWhatItPlaced ==
    \A c \in Calls \ met :
        /\ at[c] = "stat" => \E i \in Found(dest[c], "out") : WholeBy(i, c)
        /\ at[c] = "failed" /\ err[c] # "stat" => \A i \in Calls : link[i] = "out" => NoneBy(i, c)

(* Both, as what a save leaves behind.                                     *)
SavesKept == OutputWhole /\ ReturnsWhatItPlaced
=============================================================================
