------------------------------ MODULE SliceStore ------------------------------
(***************************************************************************)
(* Slices too big to return inline: the file branch of read_slice           *)
(* (src/mcp/netcdf_reader/tools/read_slice.py), the removal of old slice    *)
(* directories when a server starts (lifecycle.py, server.py), and the plot *)
(* renderer opening the file an answer named (plot_renderer/slice_loader.py *)
(* and adapter.py).                                                         *)
(*                                                                          *)
(* Every server process has a session directory of its own; the name of a   *)
(* slice file is a hash of the request and not of the contents.  A starting *)
(* server removes every directory but its own.                              *)
(***************************************************************************)
EXTENDS SourceFile

CONSTANTS Requests,     \* slices whose answer is a file, told apart by
                        \* what they resolve to
          Renderers,    \* plot-renderer processes
          Nothing,      \* no file, no answer, no directory being removed
          Partly        \* a slice file that is not complete

ASSUME SliceStoreAssumptions ==
    /\ Nothing \notin Versions \union {Partly} \union Servers
    /\ Nothing \notin Servers \X Requests
    /\ Partly \notin Versions

VARIABLES
    life,       \* of each session: "new", "sweeping", "up" or "dead"
    dirs,       \* the session directories that exist
    file,       \* the slice file of each request in each directory
    todo,       \* directories a starting session has listed
    victim,     \* the directory it is removing
    deadThen,   \* sessions that were dead when it started
    refused,    \* directories of which the system let it remove a part only
    call,       \* where each session is in read_slice, for which request,
                \* and the version it loaded
    answer,     \* the version the last answer to each request described
    swept,      \* sessions whose files some start has removed
    spoilt,     \* <<session, request>> whose last write did not finish
    view        \* each renderer: what it has open and what it drew

storeVars == <<life, dirs, file, todo, victim, deadThen, refused, call,
               answer, swept, spoilt, view>>

(* A session outside read_slice. *)
Idle == [at |-> "idle", req |-> Nothing, data |-> 0]

(* A renderer that has no slice open. *)
Blank == [ref |-> Nothing, held |-> Nothing, floor |-> 0, drew |-> Nothing]

StoreInit ==
    /\ SourceInit
    /\ life = [s \in Servers |-> "new"]
    /\ dirs = {}
    /\ file = [s \in Servers |-> [q \in Requests |-> Nothing]]
    /\ todo = [s \in Servers |-> {}]
    /\ victim = [s \in Servers |-> Nothing]
    /\ deadThen = [s \in Servers |-> {}]
    /\ refused = [s \in Servers |-> {}]
    /\ call = [s \in Servers |-> Idle]
    /\ answer = [s \in Servers |-> [q \in Requests |-> Nothing]]
    /\ swept = {} /\ spoilt = {}
    /\ view = [r \in Renderers |-> Blank]

lifeVars == <<life, todo, victim, deadThen, refused>>
callVars == <<call, answer>>

----------------------------------------------------------------------------
(* make_server and cleanup_old_slice_dirs *)

(* Start that keeps the other directories and removes its own. *)
StartKeepsOthers(s) ==
    /\ life[s] = "new"
    /\ life' = [life EXCEPT ![s] = "sweeping"]
    /\ todo' = [todo EXCEPT ![s] = dirs \cap {s}]
    /\ deadThen' = [deadThen EXCEPT ![s] = {d \in Servers : life[d] = "dead"}]
    /\ UNCHANGED <<dirs, file, victim, refused, callVars, swept, spoilt, view,
                   stamp>>

(* The session id is new; every directory listed but its own is old. *)
Start(s) ==
    /\ life[s] = "new"
    /\ life' = [life EXCEPT ![s] = "sweeping"]
    /\ todo' = [todo EXCEPT ![s] = dirs \ {s}]
    /\ deadThen' = [deadThen EXCEPT ![s] = {d \in Servers : life[d] = "dead"}]
    /\ UNCHANGED <<dirs, file, victim, refused, callVars, swept, spoilt, view,
                   stamp>>

(* rmtree removes the files of a directory, then the directory itself.     *)
(* Whatever refuses a removal, permissions, a file that an NFS client has  *)
(* open, or a file that has appeared meanwhile, is ignored.                *)
EmptyDir(s, d) ==
    /\ life[s] = "sweeping" /\ d \in todo[s] /\ victim[s] = Nothing
    /\ \E stay \in SUBSET {q \in Requests : file[d][q] # Nothing} :
          /\ file' = [file EXCEPT ![d] =
                         [q \in Requests |-> IF q \in stay THEN @[q] ELSE Nothing]]
          /\ refused' = [refused EXCEPT ![s] =
                            IF stay = {} THEN @ ELSE @ \union {d}]
    /\ victim' = [victim EXCEPT ![s] = d]
    /\ swept' = swept \union {d}
    /\ UNCHANGED <<life, dirs, todo, deadThen, callVars, spoilt, view, stamp>>

DropDir(s) ==
    /\ life[s] = "sweeping" /\ victim[s] # Nothing
    /\ \/ /\ \A q \in Requests : file[victim[s]][q] = Nothing
          /\ dirs' = dirs \ {victim[s]}
          /\ UNCHANGED refused
       \/ /\ \E q \in Requests : file[victim[s]][q] # Nothing
          /\ UNCHANGED <<dirs, refused>>
       \/ /\ refused' = [refused EXCEPT ![s] = @ \union {victim[s]}]
          /\ UNCHANGED dirs
    /\ todo' = [todo EXCEPT ![s] = @ \ {victim[s]}]
    /\ victim' = [victim EXCEPT ![s] = Nothing]
    /\ UNCHANGED <<life, file, deadThen, callVars, swept, spoilt, view, stamp>>

Serve(s) ==
    /\ life[s] = "sweeping" /\ todo[s] = {}
    /\ life' = [life EXCEPT ![s] = "up"]
    /\ UNCHANGED <<dirs, file, todo, victim, deadThen, refused, callVars, swept,
                   spoilt, view, stamp>>

----------------------------------------------------------------------------
(* read_slice, the branch with estimated > max_inline_bytes *)
Goto(s, place) == call' = [call EXCEPT ![s].at = place]

(* An exception other than TypeError leaves dispatch; the call is over. *)
Raise(s) == call' = [call EXCEPT ![s] = Idle]

(* Line 141: resolve_spec opens the source, and closes it. *)
Resolve(s, q) ==
    /\ life[s] = "up" /\ call[s].at = "idle"
    /\ call' = [call EXCEPT ![s] =
                   [at |-> "resolved", req |-> q, data |-> 0]]
    /\ UNCHANGED <<dirs, file, lifeVars, answer, swept, spoilt, view, stamp>>

(* Load that starts from an empty directory. *)
LoadAfresh(s) ==
    /\ call[s].at = "resolved"
    /\ \/ /\ dirs' = dirs \union {s}
          /\ file' = [file EXCEPT ![s] = [q \in Requests |-> Nothing]]
          /\ call' = [call EXCEPT ![s].at = "loaded", ![s].data = stamp]
       \/ Raise(s) /\ UNCHANGED <<dirs, file>>
    /\ UNCHANGED <<lifeVars, answer, swept, spoilt, view, stamp>>

(* Lines 156-160: it is opened again, perhaps in another version, and      *)
(* loaded, or an index no longer fits; _slice_dir makes the directory.     *)
Load(s) ==
    /\ call[s].at = "resolved"
    /\ \/ /\ dirs' = dirs \union {s}
          /\ call' = [call EXCEPT ![s].at = "loaded", ![s].data = stamp]
       \/ Raise(s) /\ UNCHANGED dirs
    /\ UNCHANGED <<file, lifeVars, answer, swept, spoilt, view, stamp>>

(* CreateFile that takes an existing file for the answer. *)
CreateFileOnce(s) ==
    /\ call[s].at = "loaded"
    /\ IF s \in dirs /\ file[s][call[s].req] = Nothing
       THEN /\ file' = [file EXCEPT ![s][call[s].req] = Partly]
            /\ Goto(s, "filling")
       ELSE /\ UNCHANGED file
            /\ IF s \in dirs THEN Goto(s, "filled") ELSE Raise(s)
    /\ UNCHANGED <<dirs, lifeVars, answer, swept, spoilt, view, stamp>>

(* Line 161: to_netcdf creates or truncates the file; the directory may    *)
(* have been removed again, or a renderer may have the file locked.        *)
CreateFile(s) ==
    /\ call[s].at = "loaded"
    /\ \/ /\ s \in dirs
          /\ file' = [file EXCEPT ![s][call[s].req] = Partly]
          /\ Goto(s, "filling")
       \/ /\ \/ s \notin dirs
             \/ \E r \in Renderers : view[r].ref = <<s, call[s].req>>
          /\ UNCHANGED file
          /\ Raise(s)
    /\ UNCHANGED <<dirs, lifeVars, answer, swept, spoilt, view, stamp>>

(* It fills the file, unless the file has been removed, or fails half way. *)
FillFile(s) ==
    /\ call[s].at = "filling"
    /\ \/ /\ file' = [file EXCEPT ![s][call[s].req] =
                         IF @ = Nothing THEN Nothing ELSE call[s].data]
          /\ Goto(s, "filled")
          /\ spoilt' = spoilt \ {<<s, call[s].req>>}
       \/ /\ Raise(s)
          /\ spoilt' = spoilt \union {<<s, call[s].req>>}
          /\ UNCHANGED file
    /\ UNCHANGED <<dirs, lifeVars, answer, swept, view, stamp>>

(* Lines 162-192: statistics, which raise on an empty slice, then stat,    *)
(* which raises when the file has gone, then the answer.                   *)
Reply(s) ==
    /\ call[s].at = "filled"
    /\ \/ /\ file[s][call[s].req] # Nothing
          /\ answer' = [answer EXCEPT ![s][call[s].req] = call[s].data]
       \/ UNCHANGED answer
    /\ Raise(s)
    /\ UNCHANGED <<dirs, file, lifeVars, swept, spoilt, view, stamp>>

(* The process ends, orderly or not; its directory stays. *)
Die(s) ==
    /\ life[s] \in {"sweeping", "up"}
    /\ life' = [life EXCEPT ![s] = "dead"]
    /\ todo' = [todo EXCEPT ![s] = {}] /\ victim' = [victim EXCEPT ![s] = Nothing]
    /\ Raise(s)
    /\ spoilt' = spoilt \union (IF call[s].at = "filling"
                                THEN {<<s, call[s].req>>} ELSE {})
    /\ UNCHANGED <<dirs, file, deadThen, refused, answer, swept, view, stamp>>

----------------------------------------------------------------------------
(* OpenSlice that opens whatever is there. *)
OpenSliceUnchecked(r, s, q) ==
    /\ view[r].ref = Nothing /\ answer[s][q] # Nothing
    /\ view' = [view EXCEPT ![r] =
          IF file[s][q] # Nothing
          THEN [ref |-> <<s, q>>, held |-> file[s][q],
                floor |-> answer[s][q], drew |-> Nothing]
          ELSE Blank]
    /\ UNCHANGED <<dirs, file, lifeVars, callVars, swept, spoilt, stamp>>

(* normalize_2d_any_form with the slice_ref of an answer *)
OpenSlice(r, s, q) ==
    /\ view[r].ref = Nothing /\ answer[s][q] # Nothing
    /\ view' = [view EXCEPT ![r] =
          IF file[s][q] \in Versions
          THEN [ref |-> <<s, q>>, held |-> file[s][q],
                floor |-> answer[s][q], drew |-> Nothing]
          ELSE Blank]
    /\ UNCHANGED <<dirs, file, lifeVars, callVars, swept, spoilt, stamp>>

(* The values are read when they are needed: those of the file as it was   *)
(* opened, or of what has been written over it since, or none when that is *)
(* not complete.                                                           *)
DrawSlice(r) ==
    /\ view[r].ref # Nothing
    /\ LET now == file[view[r].ref[1]][view[r].ref[2]]
       IN \E seen \in {view[r].held, IF now = Partly THEN Nothing ELSE now} :
             view' = [view EXCEPT ![r] = [ref |-> Nothing, held |-> Nothing,
                                          floor |-> @.floor, drew |-> seen]]
    /\ UNCHANGED <<dirs, file, lifeVars, callVars, swept, spoilt, stamp>>

----------------------------------------------------------------------------
Server(s) ==
    \/ Start(s) \/ DropDir(s) \/ Serve(s)
    \/ \E d \in Servers : EmptyDir(s, d)
    \/ \E q \in Requests : Resolve(s, q)
    \/ Load(s) \/ CreateFile(s) \/ FillFile(s) \/ Reply(s)

Renderer(r) ==
    \/ \E s \in Servers : \E q \in Requests : OpenSlice(r, s, q)
    \/ DrawSlice(r)

StoreNext ==
    \/ \E s \in Servers : Server(s) \/ Die(s)
    \/ \E r \in Renderers : Renderer(r)
    \/ Rewrite /\ UNCHANGED storeVars

StoreSpec == StoreInit /\ [][StoreNext]_<<stamp, storeVars>>

----------------------------------------------------------------------------
Versioned == Versions \union {Nothing}

Calls == [at : {"resolved", "loaded", "filling", "filled"},
          req : Requests, data : Versions]

(* The types: a slice file is absent, partly written or of one version, and *)
(* an answer names a version.                                               *)
StoreTypeOK ==
    /\ stamp \in Versions
    /\ life \in [Servers -> {"new", "sweeping", "up", "dead"}]
    /\ dirs \subseteq Servers
    /\ file \in [Servers -> [Requests -> Versioned \union {Partly}]]
    /\ todo \in [Servers -> SUBSET Servers]
    /\ victim \in [Servers -> Servers \union {Nothing}]
    /\ deadThen \in [Servers -> SUBSET Servers]
    /\ refused \in [Servers -> SUBSET Servers]
    /\ call \in [Servers -> {Idle} \union Calls]
    /\ answer \in [Servers -> [Requests -> Versioned]]
    /\ swept \subseteq Servers
    /\ spoilt \subseteq Servers \X Requests
    /\ view \in [Renderers -> [ref : (Servers \X Requests) \union {Nothing},
                               held : Versioned, floor : Versions,
                               drew : Versioned]]

(* What is drawn from a slice_ref is complete and no older than the answer *)
(* that named it: reading the same slice again replaces the file, since    *)
(* its name does not depend on the contents.                               *)
DrawnNotStale ==
    \A r \in Renderers : view[r].drew # Nothing => view[r].drew >= view[r].floor

(* The file an answer named can be opened, unless a start has removed the  *)
(* session's files or a later read of the same slice did not finish.       *)
AnsweredReadable ==
    \A s \in Servers : \A q \in Requests :
        answer[s][q] # Nothing /\ file[s][q] \notin Versions =>
            \/ s \in swept
            \/ <<s, q>> \in spoilt
            \/ call[s].at = "filling" /\ call[s].req = q

(* "Slice temp files don't survive across sessions": a server that is up   *)
(* has left no directory of a session that was dead when it started, also  *)
(* when several servers start, or one of them dies, in the middle of it,   *)
(* but for those of which the system refused it a removal: that is ignored *)
(* (lifecycle.py:20), told to nobody, and tried again by the next start.   *)
DeadDirsRemoved ==
    \A s \in Servers :
        life[s] = "up" => deadThen[s] \cap dirs \subseteq refused[s]
=============================================================================
