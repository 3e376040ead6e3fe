------------------------------ MODULE Inspect ------------------------------
(***************************************************************************)
(* A conversation about a history file whose geometry is in another file:  *)
(* inspect answers a prompt with candidates (tools/inspect.py,             *)
(* paths/mesh_pair.py), the agent calls again with one of them, or with    *)
(* another path, and has the renderer draw on the mesh that was accepted.  *)
(* Paths of every kind are classified and opened (paths/classify.py,       *)
(* paths/multi_file.py, open of adapter.py) on the way.                    *)
(*                                                                         *)
(* A call opens history and mesh one after the other, and what it opened   *)
(* it keeps; the candidates are opened one by one, beside the history once *)
(* more, and the renderer opens the mesh again.  Other programs may replace *)
(* files in between.  What the cache of summaries answers has a module of  *)
(* its own, InspectionCache; here it may only fail.                        *)
(***************************************************************************)
EXTENDS Conventions, SequencesExt

CONSTANTS
    Places,       \* what may be under the names at first, see Listing
    Listing,      \* the names in the order of sorted()
    Patterns,     \* how many patterns find_mesh_candidates tries
    Hits,         \* for each name the patterns of find_mesh_candidates it
                  \* matches, by their position in its order
    Paths,        \* paths to inspect, see PathFields
    MeshPaths,    \* paths given as mesh_path
    NoPath,       \* a call without mesh_path
    Gone,         \* no file under a name
    Unreadable,   \* a file that is no NetCDF file
    Replacements, \* for each name, what another program may put there
    Sizes,        \* that a dimension of combined files may have
    MaxReplaced   \* bound on the replacements

Names == ToSet(Listing)
Files == (UNION {{p[n] : p \in Places} \cup Replacements[n] : n \in Names}) \ {Gone, Unreadable}

(* form is that of the path, names are those it can stand for: any of a     *)
(* pattern or a directory, else a single one.                               *)
PathFields == {"scheme", "form", "names"}
FileFields == {"vars", "coords", "dims", "attrs", "flat", "dated"}

ASSUME InspectAssumptions ==
    /\ Listing \in Seq(Names) /\ IsInjective(Listing)
    /\ NoPath \notin Paths \cup MeshPaths
    /\ \A p \in Paths \cup MeshPaths :
          /\ DOMAIN p = PathFields
          /\ p.scheme \in {"file", "https", "ssh", "ftp"}
          /\ p.form \in {"one", "glob", "dir", "malformed"}
          /\ p.names \subseteq Names
          /\ \/ p.scheme = "file" /\ p.form \in {"glob", "dir"}
             \/ p.scheme = "ssh" /\ p.form = "glob"
             \/ \E n \in Names : p.names = {n}
    /\ \A p \in Places : p \in [Names -> Files \cup {Gone, Unreadable}]
    /\ DOMAIN Replacements = Names
    /\ Patterns \in Nat /\ Hits \in [Names -> SUBSET (1 .. Patterns)]
    /\ MaxReplaced \in Nat /\ Sizes \subseteq Nat

VARIABLES place,    \* the files there are now
          replaced, \* how many were replaced
          at,       \* where the call is
          call,     \* its paths and what they were classified as
          ds, mds,  \* the history and the mesh it opened
          told,     \* what it answered
          ranking,  \* the candidates found, those opened, and those that fit
          offer,    \* the last prompt: for which path, which candidates
          touched,  \* files replaced since the prompt, since the opening
          drawn     \* what the renderer made of the accepted mesh

pairVars == <<place, replaced, at, call, ds, mds, told, ranking, offer, touched, drawn>>
-----------------------------------------------------------------------------
(* classify: the kind of a path and the names it stands for, or a refusal.  *)
(* A broker is asked about a pattern on a remote machine; it may fail.      *)

Source(kind, names) == [kind |-> kind, names |-> names, code |-> "ok"]
Refusal(code) == [kind |-> "refused", names |-> << >>, code |-> code]
NoSource == Source("none", << >>)

(* How the broker of a path answers, if the path asks for one. *)
Broker(p) == IF p # NoPath /\ p.scheme = "ssh" THEN {"absent", "up", "fails"} ELSE {"absent"}

(* The members of S as a sequence in which each goes before the later ones. *)
Ordered(S, Before(_, _)) ==
    {s \in [1 .. Cardinality(S) -> S] :
        \A i, j \in 1 .. Cardinality(S) : i < j => Before(s[i], s[j])}

Earlier(m, n) == \E i, j \in DOMAIN Listing : i < j /\ Listing[i] = m /\ Listing[j] = n

(* The outcomes, of which there is one only.                                *)
Classify(p, broker) ==
    LET found == {n \in p.names : place[n] # Gone}
        Sources(kind, names) == {Source(kind, s) : s \in Ordered(names, Earlier)}
        local == IF p.form = "one" THEN "local_single" ELSE "local_multi"
    IN IF p.form = "malformed" \/ p.scheme = "ftp" THEN {Refusal("unsupported_path_scheme")}
       ELSE IF p.scheme = "https" THEN Sources("remote_url", p.names)
       ELSE IF p.scheme = "ssh" /\ p.form # "glob" THEN Sources("ssh_remote", p.names)
       ELSE IF p.scheme = "ssh" /\ broker = "absent" THEN {Refusal("broker_required")}
       ELSE IF p.scheme = "ssh" /\ broker = "fails" THEN {Refusal("raised")}
       ELSE IF found = {} THEN {Refusal("file_not_found")}
       ELSE Sources(IF p.scheme = "ssh" THEN "ssh_multi" ELSE local, found)
-----------------------------------------------------------------------------
(* open: the outcomes for what a path was classified as.                    *)

Got(f) == [code |-> "ok", file |-> f]
Failed(codes) == [code : codes, file : {Gone}]

(* Decoded that opens again and does not note it. *)
DecodedUnnoted(f) ==
    IF "times: undecodable" \in f.attrs THEN [f EXCEPT !.dated = {}] ELSE f

(* _open_with_decode_fallback: times that do not decode stay numbers.       *)
Decoded(f) ==
    IF "times: undecodable" \in f.attrs
    THEN [f EXCEPT !.dated = {}, !.attrs = @ \cup {"_metplot_time_decode_failed"}]
    ELSE f

(* A NetCDF file as xarray shows it; opening it gives a dataset.             *)
ASSUME FilesAssumption ==
    \A f \in Files :
        /\ DOMAIN f = FileFields /\ f.coords \subseteq f.vars
        /\ \A d \in DOMAIN f.dims : f.dims[d] \in Nat
        /\ Decoded(f) # Gone

OpenOne(f) ==
    IF f = Gone THEN Failed({"file_not_found"})
    ELSE IF f = Unreadable THEN Failed({"file_not_found", "internal_error"})
    ELSE {Got(Decoded(f))}

(* Over a connection: through a broker, or after the chain of ways to log   *)
(* in, which may ask for a secret.                                          *)
OpenSsh(f) ==
    OpenOne(f) \cup Failed({"ssh_auth_needed", "remote_file_not_found", "internal_error"})

(* What xarray makes of several files: the variables of all, the attributes *)
(* of the first, and of each dimension its size in one of them or more, be  *)
(* it that they are joined or follow on another.  A time is one only if it  *)
(* is in every file that has the variable.                                  *)
Shapes(fs) ==
    {s \in [UNION {Dims(f) : f \in ToSet(fs)} -> Sizes] :
        \A f \in ToSet(fs) : \A d \in Dims(f) : f.dims[d] <= s[d]}

Combined(fs, shape, flat) ==
    LET files == ToSet(fs)
    IN [vars |-> UNION {f.vars : f \in files}, coords |-> UNION {f.coords : f \in files},
        dims |-> shape, attrs |-> Head(fs).attrs, flat |-> flat,
        dated |-> {n \in UNION {f.dated : f \in files} :
                      \A f \in files : HasVars(f, {n}) => n \in f.dated}]

(* open_multi_file: by coordinates, else one after the other along a time   *)
(* dimension.  It needs a dimension that all files have, takes no           *)
(* undecodable times, and what it raises is an error of any kind to inspect. *)
(* A variable may gain a dimension on the way.                              *)
OpenMany(fs) ==
    LET files == ToSet(fs)
        shareDim == \E f \in files : \E d \in Dims(f) : \A g \in files : HasDims(g, {d})
        decodable == \A f \in files : "times: undecodable" \notin f.attrs
    IN IF Gone \in files THEN Failed({"file_not_found"})
       ELSE IF Unreadable \in files THEN Failed({"file_not_found", "internal_error"})
       ELSE Failed({"internal_error"}) \cup
            (IF shareDim /\ decodable
             THEN UNION {{Got(Combined(fs, s, flat)) : s \in Shapes(fs)} :
                            flat \in {Head(fs).flat, FALSE}}
             ELSE {})

(* Several names on a remote machine go to open_multi_file as URLs, which   *)
(* it cannot open.                                                          *)
Open(src) ==
    LET fs == [i \in DOMAIN src.names |-> place[src.names[i]]]
    IN CASE src.kind = "local_single" -> OpenOne(fs[1])
         [] src.kind = "local_multi" -> IF Len(fs) = 1 THEN OpenOne(fs[1]) ELSE OpenMany(fs)
         [] src.kind = "remote_url" -> OpenOne(fs[1]) \cup Failed({"remote_file_not_found"})
         [] src.kind = "ssh_remote" -> OpenSsh(fs[1])
         [] src.kind = "ssh_multi" -> IF Len(fs) = 1 THEN OpenSsh(fs[1])
                                      ELSE Failed({"file_not_found", "internal_error"})
-----------------------------------------------------------------------------
(* find_mesh_candidates for the history h: pattern by pattern, each in the  *)
(* order of the names, each file once and never the history.                *)

First(n) == Min(Hits[n])

(* Found that may offer the history itself. *)
FoundWithSelf(h) == {n \in Names : place[n] # Gone /\ Hits[n] # {}}

Found(h) == {n \in Names \ {h} : place[n] # Gone /\ Hits[n] # {}}

(* The file history and the one under n fit.                                *)
FitTogether(history, n) ==
    history \in Files /\ place[n] \in Files /\ DimsFit(history.dims, place[n].dims)

Fits(h, n) == FitTogether(place[h], n)

ByName(m, n) == First(m) < First(n) \/ (First(m) = First(n) /\ Earlier(m, n))

(* BetterIn that goes by the names only. *)
BetterByName(fit, m, n) == ByName(m, n)

(* _rank_by_dim_match: those that fit first, each part in the order found.  *)
BetterIn(fit, m, n) ==
    \/ m \in fit /\ n \notin fit
    \/ (m \in fit <=> n \in fit) /\ ByName(m, n)

Candidates(rank) == Ordered(rank.found, LAMBDA m, n : BetterIn(rank.fit, m, n))
-----------------------------------------------------------------------------
(* What inspect answers: an error, a prompt, the header only, or a summary  *)
(* with its geometry, its time, and whether it warns about the time.        *)
Reply(code) == [code |-> code, spatial |-> None, time |-> "none", warned |-> FALSE]
Silent == Reply("nothing")

NoOffer == [path |-> NoPath, names |-> << >>]
NoRanking == [found |-> {}, history |-> Gone, opened |-> {}, fit |-> {}]
NoCall == [path |-> NoPath, mesh |-> NoPath, src |-> NoSource, geo |-> NoSource]

Answer(reply) ==
    /\ at' = "idle"
    /\ told' = reply

PairInit ==
    /\ place \in Places /\ replaced = 0
    /\ at = "idle" /\ call = NoCall
    /\ ds = Gone /\ mds = Gone
    /\ told = Silent /\ ranking = NoRanking /\ offer = NoOffer
    /\ touched = [offer |-> FALSE, mesh |-> FALSE]
    /\ drawn = "nothing"

(* A call begins: both paths are classified, and of a file on a remote      *)
(* machine a broker may give the header, which ends the call whatever the   *)
(* mesh_path is.  What finding or asking the broker raises is not caught.   *)
Call(p, m) ==
    /\ at = "idle"
    /\ ds' = Gone /\ mds' = Gone /\ drawn' = "nothing"
    /\ \E b \in Broker(p), c \in Broker(m) :
       \E src \in Classify(p, b), geo \in (IF m = NoPath THEN {NoSource} ELSE Classify(m, c)) :
             /\ call' = [path |-> p, mesh |-> m, src |-> src, geo |-> geo]
             /\ \/ src.kind = "refused" /\ Answer(Reply(src.code))
                \/ /\ src.kind # "refused" /\ geo.kind = "refused"
                   /\ Answer(Reply(IF geo.code = "broker_required" THEN "file_not_found"
                                   ELSE geo.code))
                \/ /\ src.kind = "ssh_remote" /\ geo.kind # "refused" /\ b # "absent"
                   /\ Answer(Reply(IF b = "up" THEN "header" ELSE "raised"))
                \/ /\ src.kind # "refused" /\ geo.kind # "refused"
                   /\ src.kind = "ssh_remote" => b # "fails"
                   /\ at' = "opening" /\ told' = Silent
    /\ UNCHANGED <<place, replaced, ranking, offer, touched>>

(* A call without a mesh asks the cache before it opens anything: the time  *)
(* and size of the files that make the key, and the entry, may be beyond    *)
(* reach.  None of this is inside the handler, nor is storing the summary.  *)
AskCache ==
    /\ at = "opening" /\ call.mesh = NoPath
    /\ Answer(Reply("raised"))
    /\ UNCHANGED <<place, replaced, call, ds, mds, ranking, offer, touched, drawn>>

(* Stored of every summary, whatever it is of. *)
StoredAny(reply) ==
    {reply} \cup (IF reply.code = "success" THEN {Reply("raised")} ELSE {})

Stored(reply) ==
    {reply} \cup (IF call.mesh = NoPath /\ reply.code = "success" THEN {Reply("raised")} ELSE {})

OpenHistory ==
    /\ at = "opening"
    /\ \E got \in Open(call.src) :
          /\ ds' = got.file
          /\ IF got.code # "ok" THEN Answer(Reply(got.code))
             ELSE /\ at' = IF call.mesh = NoPath THEN "concluding" ELSE "pairing"
                  /\ UNCHANGED told
    /\ UNCHANGED <<place, replaced, call, mds, ranking, offer, touched, drawn>>

(* Of what opening the mesh raises only a missing file is told apart.       *)
OpenMesh ==
    /\ at = "pairing"
    /\ \E got \in Open(call.geo) :
          /\ mds' = got.file
          /\ IF got.code # "ok"
             THEN Answer(Reply(IF got.code = "file_not_found" THEN got.code
                               ELSE "internal_error"))
             ELSE at' = "concluding" /\ UNCHANGED told
    /\ touched' = [touched EXCEPT !.mesh = FALSE]
    /\ UNCHANGED <<place, replaced, call, ds, ranking, offer, drawn>>

(* A summary; what its extractors raise becomes an error.                   *)
Summary(f, spatial) ==
    LET time == TimeOf(f, Producer(f))
    IN IF spatial = Raises \/ time = "raises" THEN Reply("internal_error")
       ELSE [code |-> "success", spatial |-> spatial, time |-> time,
             warned |-> \/ "_metplot_time_decode_failed" \in f.attrs
                        \/ time = "none" /\ Untimed(f) # {}]

Alone(producer) == IF producer = "MPAS" THEN MpasGeometry(ds) ELSE None

(* A family that keeps its geometry apart is asked about when it is one     *)
(* local file; of several files, or a remote one, it is left out.  Of the   *)
(* candidates found none is opened if there is one only, or if the history  *)
(* cannot be opened again.                                                  *)
Prompt(producer) ==
    /\ mds = Gone /\ call.src.kind = "local_single"
    /\ Alone(producer) = None
    /\ LET h == call.src.names[1]
           found == Found(h)
           ranked == place[h] \in Files /\ Cardinality(found) >= 2
       IN ranking' = [found |-> found, history |-> place[h],
                      opened |-> IF ranked THEN {} ELSE found, fit |-> {}]
    /\ at' = "ranking" /\ offer' = NoOffer
    /\ touched' = [touched EXCEPT !.offer = FALSE]
    /\ UNCHANGED told

(* The next candidate, in the order found, is opened and compared.          *)
OpenCandidate(n) ==
    /\ at = "ranking" /\ n \in ranking.found \ ranking.opened
    /\ \A m \in ranking.found \ ranking.opened : m # n => ByName(n, m)
    /\ ranking' = [ranking EXCEPT !.opened = @ \cup {n},
                                  !.fit = IF FitTogether(ranking.history, n) THEN @ \cup {n} ELSE @]
    /\ UNCHANGED <<place, replaced, at, call, ds, mds, told, offer, touched, drawn>>

Offer ==
    /\ at = "ranking" /\ ranking.opened = ranking.found
    /\ Answer(Reply("mesh_pairing_required"))
    /\ \E names \in Candidates(ranking) : offer' = [path |-> call.path, names |-> names]
    /\ ranking' = NoRanking
    /\ UNCHANGED <<place, replaced, call, ds, mds, touched, drawn>>

Unprompted(producer) ==
    /\ mds = Gone /\ (call.src.kind # "local_single" \/ Alone(producer) # None)
    /\ \E reply \in Stored(Summary(ds, Alone(producer))) : Answer(reply)
    /\ UNCHANGED <<ranking, offer, touched>>

Pair(producer) ==
    /\ mds # Gone
    /\ \E reply \in Stored(IF DimsFit(ds.dims, mds.dims)
                           THEN Summary(ds, PairGeometry(ds, mds, producer))
                           ELSE Reply("multi_file_combine_failed")) : Answer(reply)
    /\ UNCHANGED <<ranking, offer, touched>>

Conclude ==
    /\ at = "concluding"
    /\ LET producer == Producer(ds)
       IN \/ producer \in Paired /\ (Prompt(producer) \/ Unprompted(producer) \/ Pair(producer))
          \/ /\ producer \notin Paired
             /\ \E reply \in Stored(Summary(ds, OwnGeometry(ds, producer))) : Answer(reply)
             /\ UNCHANGED <<ranking, offer, touched>>
    /\ UNCHANGED <<place, replaced, call, ds, mds, drawn>>
-----------------------------------------------------------------------------
(* The cells of a field of the history, or none that can be counted.        *)
CellsOf(f) ==
    IF Cell \cap Dims(f) # {} THEN f.dims[CHOOSE d \in Cell \cap Dims(f) : TRUE]
    ELSE IF HasDims(f, {"ncol"}) THEN f.dims["ncol"]
    ELSE IF HasDims(f, {"nj", "ni"}) THEN f.dims["nj"] * f.dims["ni"]
    ELSE 0

(* render_map with a field of the history and the accepted mesh: the branch *)
(* it takes, or that the field has not the cells of its grid.               *)
DrawnOn(f, count) ==
    LET kind == PeekGridKind(f)
    IN IF kind = "mpas" /\ ~UxReadable(f) THEN "no mesh"
       ELSE IF CellCount(f, kind) # count THEN "shape_mismatch" ELSE kind

Draw ==
    /\ at = "idle" /\ drawn = "nothing"
    /\ told.code = "success" /\ told.spatial.form = "cells" /\ mds # Gone
    /\ Len(call.geo.names) = 1 /\ place[call.geo.names[1]] \in Files
    /\ drawn' = DrawnOn(place[call.geo.names[1]], CellsOf(ds))
    /\ UNCHANGED <<place, replaced, at, call, ds, mds, told, ranking, offer, touched>>

(* Another program puts a file under a name or removes the one there.       *)
Replace(n) ==
    /\ replaced < MaxReplaced
    /\ replaced' = replaced + 1
    /\ \E f \in Replacements[n] : place' = [place EXCEPT ![n] = f]
    /\ touched' = [offer |-> TRUE, mesh |-> TRUE]
    /\ UNCHANGED <<at, call, ds, mds, told, ranking, offer, drawn>>

PairNext ==
    \/ \E p \in Paths, m \in MeshPaths \cup {NoPath} : Call(p, m)
    \/ AskCache \/ OpenHistory \/ OpenMesh \/ Conclude \/ Offer \/ Draw
    \/ \E n \in Names : OpenCandidate(n) \/ Replace(n)

PairSpec == PairInit /\ [][PairNext]_pairVars
-----------------------------------------------------------------------------
Codes == {"nothing", "success", "header", "raised", "mesh_pairing_required",
          "broker_required", "ssh_auth_needed", "file_not_found",
          "remote_file_not_found", "unsupported_path_scheme",
          "multi_file_combine_failed", "internal_error"}

(* The types: what was opened is a file, the summary is one of a file, and  *)
(* no candidate is offered twice or for itself.                             *)
PairTypeOK ==
    /\ DOMAIN place = Names /\ replaced \in 0 .. MaxReplaced
    /\ at \in {"idle", "opening", "pairing", "concluding", "ranking"}
    /\ ranking.fit \subseteq ranking.opened /\ ranking.opened \subseteq ranking.found
    /\ at # "idle" => call.src.kind \notin {"none", "refused"} /\ call.src.names # << >>
    /\ told.code \in Codes /\ told.spatial.n \in Nat
    /\ told.spatial # None \/ told.time = "dates" => told.code = "success"
    /\ IsInjective(offer.names) /\ ToSet(offer.names) \subseteq Names
    /\ offer.path # NoPath => ToSet(offer.names) \cap offer.path.names = {}

(* The candidate offered first is the one to take: if no file changed since *)
(* the prompt and the call with it is refused, whatever the reason, then    *)
(* none of the others matches the history either (cycle-10 spec, F-03),     *)
(* unless the history was replaced by one of a family without meshes while  *)
(* the prompt was made.                                                     *)
FirstOfferLeads ==
    LET retried == /\ at = "idle" /\ offer.names # << >> /\ call.path = offer.path
                   /\ call.mesh # NoPath /\ call.mesh.scheme = "file" /\ call.mesh.form = "one"
                   /\ call.mesh.names = {Head(offer.names)}
        refused == told.code \notin {"nothing", "success"}
    IN retried /\ refused /\ ~touched.offer =>
          \A h \in call.path.names :
             \/ \A n \in ToSet(offer.names) : ~Fits(h, n)
             \/ place[h] \in Files /\ Producer(place[h]) \notin Paired

(* Grids that the renderer looks for before that of the producer.           *)
AlsoLooksLike(f, producer) ==
    CASE producer = "CICE"  -> {}
      [] producer = "EAMxx" -> {PeekGridKind(f)} \cap {"cice", "elm", "cpl"}
      [] producer = "MPAS"  -> {PeekGridKind(f)} \cap {"cice", "elm", "cpl", "eamxx"}

(* The history has the cells of its own family, and in the way a mesh is    *)
(* compared with it: one that is of the family by its attributes only may   *)
(* have others.                                                             *)
OwnCells(f, producer) ==
    CASE producer = "MPAS"  -> Cell \cap Dims(f) # {}
      [] producer = "EAMxx" -> HasDims(f, {"ncol"})
      [] producer = "CICE"  -> HasDims(f, {"nj", "ni"}) /\ ~HasDims(f, {"ncol"})

(* Reader and renderer agree on a pair: the geometry inspect answers has    *)
(* the cells of the history, and the renderer, which knows the mesh by      *)
(* rules of its own, draws the history on it.  Two things only come in      *)
(* between, without a file having changed: a mesh with the centres of cells *)
(* and no connectivity, and one that shows the grid of another model too.   *)
PairedThenDrawn ==
    LET producer == Producer(ds)
        branch == [MPAS |-> "mpas", CICE |-> "cice", EAMxx |-> "eamxx"]
    IN /\ at = "idle" /\ told.code = "success" /\ mds # Gone /\ told.spatial.form = "cells"
       /\ OwnCells(ds, producer)
       => /\ told.spatial.n = CellsOf(ds)
          /\ drawn # "nothing" /\ ~touched.mesh =>
                \/ drawn = branch[producer]
                \/ drawn = "no mesh" /\ producer = "MPAS" /\ ~UxReadable(mds)
                \/ AlsoLooksLike(mds, producer) # {}

(* What a summary lacks is told or has its reason.  No geometry, of a       *)
(* family that keeps it apart: several files, a remote file, or a mesh that *)
(* fits and has no coordinates.  No time, though a dimension is named for   *)
(* it: a warning, unless its values were never meant as dates, of which     *)
(* nothing is said.  And the handler that lets no exception escape          *)
(* (cycle 10, task A0) has two gaps, no more: a broker that was asked for a *)
(* pattern or a header, before anything is opened, and the cache, of which  *)
(* a call with a mesh is free.                                              *)
LacksForCause ==
    /\ told.code = "success" /\ told.spatial = None /\ Producer(ds) \in Paired =>
          \/ call.src.kind # "local_single"
          \/ mds # Gone /\ PairGeometry(ds, mds, Producer(ds)) = None
    /\ told.code = "success" /\ told.time = "none" /\ ToSet(TimeNames) \cap Dims(ds) # {} =>
          \/ told.warned
          \/ /\ "times: undecodable" \notin ds.attrs
             /\ \E n \in ToSet(TimeNames) \cap ds.vars : n \notin ds.dated
    /\ told.code = "raised" =>
          \/ call.mesh = NoPath
          \/ ds = Gone /\ \E p \in {call.path, call.mesh} : p.scheme = "ssh"
=============================================================================
