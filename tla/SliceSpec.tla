------------------------------ MODULE SliceSpec ------------------------------
(***************************************************************************)
(* What part of a variable a call of read_slice, peek or compute_stats      *)
(* reads: the selectors (selectors.py), their resolution to positions       *)
(* (tools/resolve_spec.py, with the mesh check of paths/mesh_pair.py), and  *)
(* the reading of those positions (tools/read_slice.py, peek.py and         *)
(* compute_stats.py).                                                       *)
(*                                                                          *)
(* A call opens the data twice, once to resolve and once to read, and the   *)
(* two halves decide by lists of their own which dimension a selector is    *)
(* about.  Positions count from 0, as in the code.                          *)
(***************************************************************************)
EXTENDS Integers, FiniteSets, SequencesExt, MeshFile

CONSTANTS
    Files,      \* data files, see FileFields
    Asks,       \* calls, see AskFields
    Gone,       \* a path at which there is no file
    NoMesh,     \* a call without mesh_path
    MaxInline,  \* max_inline_bytes of read_slice, in elements
    PeekCap     \* PEEK_HARD_CAP_BYTES of peek, in elements

Tools == {"read_slice", "peek", "compute_stats"}
NoDim == "no dimension"

(* dims: the dimensions of the variable, in order; coord: the coordinate of *)
(* each dimension of the dataset; numeric: its values are numbers.  What    *)
(* the file says besides, and the code does not look at: surfaceAtMax, the  *)
(* vertical dimensions whose coordinate is largest at the surface, such as  *)
(* a pressure; places, the latitudes (longitudes) met at each position of a *)
(* dimension: one on a regular grid, several on a curvilinear one.          *)
FileFields == {"dims", "coord", "numeric", "surfaceAtMax", "places"}

(* A selector is [form, value]: the shape of the JSON value and what is in  *)
(* it.  A slab is an item of index_selectors: a name, and the list of       *)
(* numbers given with it.                                                   *)
AskFields == {"tool", "known", "mesh", "time", "level", "lat", "lon",
              "cell", "cells", "slabs"}

ASSUME SliceSpecAssumptions ==
    /\ Gone \notin Files
    /\ MaxInline \in Nat /\ PeekCap \in Nat

(* Dimensions are distinct and have coordinates, the ordinals if the file   *)
(* stores none.                                                             *)
ASSUME DataFilesAssumption ==
    \A f \in Files :
        /\ DOMAIN f = FileFields /\ f.numeric \in BOOLEAN
        /\ f.dims \in Seq(STRING \ {NoDim}) /\ IsInjective(f.dims)
        /\ ToSet(f.dims) \subseteq DOMAIN f.coord
        /\ f.surfaceAtMax \subseteq DOMAIN f.coord
        /\ DOMAIN f.places = DOMAIN f.coord
        /\ \A d \in DOMAIN f.coord :
            /\ f.coord[d] \in Seq(Int)
            /\ DOMAIN f.places[d] = DOMAIN f.coord[d]
            /\ \A i \in DOMAIN f.coord[d] : f.places[d][i] \in SUBSET Int

(* Dates and coordinates are numbers here, other values are of the form.    *)
ASSUME AsksAssumption ==
    \A a \in Asks :
        /\ DOMAIN a = AskFields /\ a.tool \in Tools
        /\ a.time.form \in {"date", "index"} => a.time.value \in Int
        /\ a.level.form = "number" => a.level.value \in Int
        /\ \A sel \in {a.lat, a.lon} :
                /\ sel.form = "number" => sel.value \in Int
                /\ sel.form = "pair" => sel.value \in Int \X Int
        /\ a.cells.form # "none" => a.cells.value \in Seq(Int)
        /\ a.slabs \in Seq([dim : STRING, vals : Seq(Int)])

VARIABLES data,     \* what is at the path now
          ask,      \* the call
          spec,     \* what resolve_spec returned
          reply,    \* what the call returned
          stable,   \* the file has not been replaced during the call
          refused   \* the system refused the call a read or a write

specVars == <<data, ask, spec, reply, stable, refused>>
-----------------------------------------------------------------------------
(* Dimension names.  Lower is str.lower() on the names that have capitals.  *)

Lower(d) == LET small == [Time |-> "time", NCells |-> "ncells",
                          nCells |-> "ncells", NEdges |-> "nedges",
                          NVertLayers |-> "nvertlayers",
                          nVertLevels |-> "nvertlevels", Lat |-> "lat"]
            IN IF d \in DOMAIN small THEN small[d] ELSE d

TimeDims == {"time", "Time", "ocean_time"}
LatDims == {"lat", "latitude", "y"}
LonDims == {"lon", "longitude", "x"}
CellDims == {"ncells", "ni", "ncol"}

(* The vertical dimensions a level is accepted for, in lower case; those it *)
(* is applied to when reading; and those it makes the estimate smaller for. *)
LevelDims == {"plev", "lev", "level", "altitude", "z", "bottom_top",
              "s_rho", "s_w", "nvertlayers", "nvertlevels", "ilev", "nilyr",
              "nslyr", "nkice", "nkbio", "ncat", "ntilyr", "ntslyr"}
LevelDimsRead == {"plev", "lev", "level", "bottom_top",
                  "nvertlayers", "nvertlevels"}
LevelDimsShape == {"plev", "lev", "level", "bottom_top"}

(* The first dimension of the variable that is in D. *)
FirstDim(f, D) ==
    LET I == {i \in DOMAIN f.dims : f.dims[i] \in D}
    IN IF I = {} THEN NoDim ELSE f.dims[Min(I)]

(* The dimensions of the variable whose name in lower case is in D. *)
Named(f, D) == {d \in ToSet(f.dims) : Lower(d) \in D}

TimeDim(f) == FirstDim(f, TimeDims)
LevelDim(f) == FirstDim(f, Named(f, LevelDims))
CellDim(f) == FirstDim(f, Named(f, CellDims))

Size(f, d) == Len(f.coord[d])
Positions(f, d) == 0 .. Size(f, d) - 1
-----------------------------------------------------------------------------
(* The outcome of a part of resolve_spec: the entries it adds to resolved,  *)
(* an error envelope, or an exception that leaves the tool.                 *)

Resolves(keys) == [status |-> "ok", code |-> "", keys |-> keys]
Refuses(code) == [status |-> "error", code |-> code, keys |-> <<>>]
Raises == [status |-> "raised", code |-> "", keys |-> <<>>]

(* Parts run in order, each only when those before it succeeded, and make   *)
(* entries in one dict: the last one of a key counts.                       *)
Entries(parts) ==
    [k \in UNION {DOMAIN parts[i].keys : i \in DOMAIN parts} |->
        parts[Max({i \in DOMAIN parts : k \in DOMAIN parts[i].keys})].keys[k]]

InOrder(parts) ==
    LET bad == {i \in DOMAIN parts : parts[i].status # "ok"}
    IN IF bad # {} THEN parts[Min(bad)] ELSE Resolves(Entries(parts))

Distance(x, y) == IF x < y THEN y - x ELSE x - y

(* np.argmin(np.abs(c - v)): of the nearest, the first.  np.argmax and      *)
(* np.argmin: of the largest and of the smallest, the first.                *)
Nearest(c, v) ==
    Min({i \in DOMAIN c : \A j \in DOMAIN c :
            Distance(c[i], v) <= Distance(c[j], v)}) - 1
Highest(c) == Min({i \in DOMAIN c : \A j \in DOMAIN c : c[j] <= c[i]}) - 1
Lowest(c) == Min({i \in DOMAIN c : \A j \in DOMAIN c : c[i] <= c[j]}) - 1

Inside(c, box) == {i - 1 : i \in {j \in DOMAIN c :
                                    box[1] <= c[j] /\ c[j] <= box[2]}}

(* time.  Ranges and lists of indices are parsed and lead to nothing.       *)
TimePart(f, a) ==
    LET sel == a.time
        d == TimeDim(f)
        n == Size(f, d)
        At(i) == Resolves([time_index |-> i])
    IN IF sel.form = "none" THEN Resolves(<<>>)
       ELSE IF sel.form \notin {"word", "date", "dates", "index", "indices"} THEN Raises
       ELSE IF d = NoDim THEN Refuses("internal_error")
       ELSE IF sel.form \in {"dates", "indices"} THEN Resolves(<<>>)
       ELSE IF sel.form = "index"
            THEN IF sel.value \in -n .. n - 1 THEN At(sel.value) ELSE Raises
       ELSE IF n = 0 THEN Raises
       ELSE IF sel.form = "date" THEN At(Nearest(f.coord[d], sel.value))
       ELSE At(IF sel.value = "first" THEN 0 ELSE n - 1)

(* level.  Lists and indices are parsed and lead to nothing.                *)
LevelPart(f, a) ==
    LET sel == a.level
        d == LevelDim(f)
        c == f.coord[d]
        At(i) == Resolves([level_index |-> i])
    IN IF sel.form = "none" THEN Resolves(<<>>)
       ELSE IF d = NoDim THEN Refuses("not_4d")
       ELSE IF sel.form \notin {"number", "pair", "index", "indices", "word"} THEN Raises
       ELSE IF sel.form \notin {"number", "word"} THEN Resolves(<<>>)
       ELSE IF c = <<>> THEN Raises
       ELSE IF sel.form = "number" THEN At(Nearest(c, sel.value))
       ELSE IF d = "plev"
            THEN At(IF sel.value = "surface" THEN Highest(c) ELSE Lowest(c))
       ELSE At(IF sel.value = "surface" THEN 0 ELSE Len(c) - 1)

(* lat and lon: ignored, unparsed, when the variable has no such dimension; *)
(* a slice of indices is parsed and leads to nothing.                       *)
AxisPart(f, sel, D, one, many) ==
    LET d == FirstDim(f, D)
        c == f.coord[d]
        I == Inside(c, sel.value)
    IN IF sel.form = "none" \/ d = NoDim THEN Resolves(<<>>)
       ELSE IF sel.form \notin {"number", "pair", "slice"} THEN Raises
       ELSE IF sel.form = "slice" THEN Resolves(<<>>)
       ELSE IF sel.form = "pair"
            THEN IF I = {} THEN Refuses("empty_slice")
                 ELSE Resolves([k \in {many} |-> <<Min(I), Max(I)>>])
       ELSE IF c = <<>> THEN Raises
       ELSE Resolves([k \in {one} |-> Nearest(c, sel.value)])

LatPart(f, a) == AxisPart(f, a.lat, LatDims, "lat_index", "lat_indices")
LonPart(f, a) == AxisPart(f, a.lon, LonDims, "lon_index", "lon_indices")

(* cell_index and cell_indices. *)
CellPart(f, a) ==
    LET d == CellDim(f)
    IN IF a.cell.form = "none" THEN Resolves(<<>>)
       ELSE IF d = NoDim THEN Refuses("invalid_spec")
       ELSE IF a.cell.value \notin Positions(f, d) THEN Refuses("out_of_bounds")
       ELSE Resolves([cell_index |-> a.cell.value, cell_dim |-> d])

CellsOutAbove(f, d, cells) ==
    \E i \in ToSet(cells) : i < 0 \/ i > Size(f, d)

CellsOut(f, d, cells) == ~(ToSet(cells) \subseteq Positions(f, d))

CellsPart(f, a) ==
    LET d == CellDim(f)
    IN IF a.cells.form = "none" THEN Resolves(<<>>)
       ELSE IF d = NoDim THEN Refuses("invalid_spec")
       ELSE IF a.cells.value = <<>> THEN Refuses("empty_slice")
       ELSE IF CellsOut(f, d, a.cells.value) THEN Refuses("out_of_bounds")
       ELSE Resolves([cell_indices |-> a.cells.value, cell_dim |-> d])
-----------------------------------------------------------------------------
(* index_selectors.  The dimensions another selector has taken, in lower    *)
(* case: every vertical one once a level is resolved, and a cell dimension  *)
(* only under its MPAS name.                                                *)
OccupiedByPoints(f, r) ==
    LET taken(keys, D) == IF keys \cap DOMAIN r = {} THEN {}
                          ELSE {Lower(d) : d \in ToSet(f.dims) \cap D}
    IN UNION {taken({"time_index"}, TimeDims),
              taken({"level_index"}, Named(f, LevelDims)),
              taken({"lat_index"}, LatDims),
              taken({"lon_index"}, LonDims),
              taken({"cell_index", "cell_indices"}, Named(f, {"ncells"}))}

Occupied(f, r) ==
    LET taken(keys, D) == IF keys \cap DOMAIN r = {} THEN {}
                          ELSE {Lower(d) : d \in ToSet(f.dims) \cap D}
    IN UNION {taken({"time_index"}, TimeDims),
              taken({"level_index"}, Named(f, LevelDims)),
              taken({"lat_index", "lat_indices"}, LatDims),
              taken({"lon_index", "lon_indices"}, LonDims),
              taken({"cell_index", "cell_indices"}, Named(f, {"ncells"}))}

Stride(vals) == IF Len(vals) = 3 THEN vals[3] ELSE 1

SlabOutUnordered(f, d, vals) ==
    vals[1] \notin Positions(f, d) \/ vals[2] \notin Positions(f, d)

SlabOut(f, d, vals) ==
    \/ vals[1] \notin Positions(f, d)
    \/ vals[2] \notin vals[1] .. Size(f, d) - 1

SlabPart(f, r, slab) ==
    LET d == FirstDim(f, Named(f, {Lower(slab.dim)}))
    IN IF d = NoDim \/ Lower(d) \in Occupied(f, r) THEN Refuses("invalid_spec")
       ELSE IF SlabOut(f, d, slab.vals) THEN Refuses("out_of_bounds")
       ELSE Resolves([k \in {d} |->
                        <<slab.vals[1], slab.vals[2], Stride(slab.vals)>>])

(* Two names that differ in case only are one dimension: the last counts.   *)
SlabsPart(f, r, slabs) ==
    LET got == InOrder([i \in DOMAIN slabs |-> SlabPart(f, r, slabs[i])])
    IN IF slabs = <<>> THEN Resolves(<<>>)
       ELSE IF got.status # "ok" THEN got
       ELSE Resolves([index_selectors |-> got.keys])

SlabLenExclusive(v) == (v[2] - v[1]) \div v[3]

SlabLen(v) == (v[2] - v[1]) \div v[3] + 1

(* The slabs of a resolution, by dimension. *)
SlabsOf(r) == IF "index_selectors" \in DOMAIN r THEN r["index_selectors"] ELSE <<>>

(* The length of a dimension as slice_shape has it. *)
DimLen(f, r, d) ==
    LET About(key, D) == key \in DOMAIN r /\ d \in D
        span(key) == r[key][2] - r[key][1] + 1
        cells == Named(f, CellDims)
    IN IF d \in DOMAIN SlabsOf(r) THEN SlabLen(SlabsOf(r)[d])
       ELSE IF About("time_index", TimeDims) THEN 1
       ELSE IF About("level_index", LevelDimsShape) THEN 1
       ELSE IF About("lat_indices", LatDims) THEN span("lat_indices")
       ELSE IF About("lat_index", LatDims) THEN 1
       ELSE IF About("lon_indices", LonDims) THEN span("lon_indices")
       ELSE IF About("lon_index", LonDims) THEN 1
       ELSE IF About("cell_index", cells) THEN 1
       ELSE IF About("cell_indices", cells) THEN Len(r["cell_indices"])
       ELSE Size(f, d)

Shape(f, r) == [d \in ToSet(f.dims) |-> DimLen(f, r, d)]

(* The number of elements of an array with these lengths, as that of the    *)
(* tuples of positions in it.                                               *)
Product(lens) ==
    LET at(d) == 0 .. lens[d] - 1
    IN Cardinality({p \in [DOMAIN lens -> UNION {at(d) : d \in DOMAIN lens}] :
                        \A d \in DOMAIN lens : p[d] \in at(d)})

-----------------------------------------------------------------------------
(* What resolve_spec does before the selectors. *)

BadSlab(slab) == Len(slab.vals) \notin {2, 3} \/ Stride(slab.vals) < 1

BadTogether(a) ==
    \/ /\ a.cell.form # "none" \/ a.cells.form # "none"
       /\ a.lat.form # "none" \/ a.lon.form # "none"
    \/ a.cell.form # "none" /\ a.cells.form # "none"
    \/ \E i \in DOMAIN a.slabs : BadSlab(a.slabs[i])

MeshFits(f, mesh) == DimsFit([d \in DOMAIN f.coord |-> Size(f, d)], mesh)

(* The whole of resolve_spec.  The other tools have neither the cell        *)
(* selectors nor index_selectors: dispatch makes the TypeError an error.    *)
ResolveSpec(f, a) ==
    LET named == InOrder(<<TimePart(f, a), LevelPart(f, a), LatPart(f, a),
                           LonPart(f, a), CellPart(f, a), CellsPart(f, a)>>)
    IN IF /\ a.tool # "read_slice"
          /\ \/ a.cell.form # "none" \/ a.cells.form # "none"
             \/ a.slabs # <<>> \/ a.mesh # NoMesh
       THEN Refuses("internal_error")
       ELSE IF BadTogether(a) THEN Refuses("invalid_spec")
       ELSE IF f = Gone \/ a.mesh = Gone THEN Refuses("file_not_found")
       ELSE IF a.mesh # NoMesh /\ ~MeshFits(f, a.mesh)
            THEN Refuses("multi_file_combine_failed")
       ELSE IF ~a.known THEN Refuses("ambiguous")
       ELSE IF named.status # "ok" THEN named
       ELSE InOrder(<<named, SlabsPart(f, named.keys, a.slabs)>>)
-----------------------------------------------------------------------------
(* Reading.  A pick is what isel takes along a dimension: one position,     *)
(* which removes the dimension, or a sequence of them.                      *)

One(i) == [scalar |-> TRUE, at |-> <<i>>]
Many(s) == [scalar |-> FALSE, at |-> s]

(* slice(first, last + 1, step) on n elements. *)
Steps(first, last, step, n) ==
    LET end == IF last < n THEN last ELSE n - 1
    IN IF first > end THEN Many(<<>>)
       ELSE Many([k \in 1 .. (end - first) \div step + 1 |->
                    first + (k - 1) * step])

(* What _apply_selectors makes isel take along a dimension: where several   *)
(* keys name it, the one looked at later counts, here the one above.        *)
Pick(f, r, d) ==
    LET n == Size(f, d)
        slabs == SlabsOf(r)
        cell == IF "cell_dim" \in DOMAIN r THEN {r["cell_dim"]} ELSE {}
        About(key, D) == key \in DOMAIN r /\ d = FirstDim(f, D)
        box(key) == Steps(r[key][1], r[key][2], 1, n)
    IN IF d \in DOMAIN slabs
       THEN Steps(slabs[d][1], slabs[d][2], slabs[d][3], n)
       ELSE IF About("cell_indices", cell) THEN Many(r["cell_indices"])
       ELSE IF About("cell_index", cell) THEN One(r["cell_index"])
       ELSE IF About("lon_index", LonDims) THEN One(r["lon_index"])
       ELSE IF About("lon_indices", LonDims) THEN box("lon_indices")
       ELSE IF About("lat_index", LatDims) THEN One(r["lat_index"])
       ELSE IF About("lat_indices", LatDims) THEN box("lat_indices")
       ELSE IF About("level_index", Named(f, LevelDimsRead)) THEN One(r["level_index"])
       ELSE IF About("time_index", TimeDims) THEN One(r["time_index"])
       ELSE Steps(0, n - 1, 1, n)

(* What is read of each dimension of the variable. *)
Reading(f, r) == [d \in ToSet(f.dims) |-> Pick(f, r, d)]

(* Python counts a negative position from the end. *)
InBounds(f, picks) ==
    \A d \in DOMAIN picks : \A i \in ToSet(picks[d].at) :
        i \in -Size(f, d) .. Size(f, d) - 1

Elements(picks) == Product([d \in DOMAIN picks |-> Len(picks[d].at)])
-----------------------------------------------------------------------------
NoSpec == [status |-> "pending", code |-> "", keys |-> <<>>, shape |-> <<>>]
NoReply == [form |-> "pending", picks |-> <<>>]

SpecInit ==
    /\ data \in Files \union {Gone}
    /\ ask \in Asks
    /\ spec = NoSpec
    /\ reply = NoReply
    /\ stable = TRUE /\ refused = FALSE

Answers(form, picks) == reply' = [form |-> form, picks |-> picks]

(* resolve_spec, and the cap of peek on what it returned.                   *)
ResolveAsk ==
    /\ spec = NoSpec
    /\ LET got == ResolveSpec(data, ask)
           shape == IF got.status = "ok" THEN Shape(data, got.keys) ELSE <<>>
       IN /\ spec' = [status |-> got.status, code |-> got.code,
                      keys |-> got.keys, shape |-> shape]
          /\ IF got.status # "ok" THEN Answers(got.status, <<>>)
             ELSE IF ask.tool = "peek" /\ Product(shape) > PeekCap THEN Answers("error", <<>>)
             ELSE UNCHANGED reply
    /\ UNCHANGED <<data, ask, stable, refused>>

Reads == spec # NoSpec /\ reply = NoReply

(* The smallest of the values: of none, or of values that are not numbers, *)
(* it is an exception.  peek does not ask for it, and compute_stats not of *)
(* none.                                                                   *)
NoMinimum(picks) ==
    \/ ask.tool = "read_slice" /\ Elements(picks) = 0
    \/ ask.tool # "peek" /\ Elements(picks) > 0 /\ ~data.numeric

(* The second opening finds no file, or a file with too few positions, or  *)
(* the statistics raise.  Of an exception from numpy dispatch makes an      *)
(* error if it is a TypeError.                                              *)
ReadRaises ==
    /\ Reads
    /\ \/ data = Gone /\ Answers("raised", <<>>)
       \/ /\ data # Gone
          /\ LET picks == Reading(data, spec.keys)
             IN \/ /\ ~InBounds(data, picks) \/ NoMinimum(picks)
                   /\ Answers("raised", <<>>)
                \/ /\ InBounds(data, picks) /\ NoMinimum(picks) /\ ~data.numeric
                   /\ Answers("error", <<>>)
    /\ UNCHANGED <<data, ask, spec, stable, refused>>

(* The values: in the reply, in a slice file, or summarised. *)
Read ==
    /\ Reads
    /\ data # Gone
    /\ LET picks == Reading(data, spec.keys)
           size == Elements(picks)
       IN /\ InBounds(data, picks)
          /\ ~NoMinimum(picks)
          /\ Answers(IF ask.tool = "peek" THEN "inline"
                     ELSE IF ask.tool = "compute_stats"
                          THEN IF size = 0 THEN "error" ELSE "stats"
                     ELSE IF Product(spec.shape) > MaxInline THEN "file" ELSE "inline",
                     picks)
    /\ UNCHANGED <<data, ask, spec, stable, refused>>

(* The system refuses to open or to read the file, or read_slice its       *)
(* directory, the slice file or a stat of it (lines 160, 161 and 183): an  *)
(* OSError that nothing catches.                                           *)
IOFails ==
    /\ reply = NoReply
    /\ spec' = IF spec = NoSpec THEN [NoSpec EXCEPT !.status = "raised"] ELSE spec
    /\ Answers("raised", <<>>)
    /\ refused' = TRUE
    /\ UNCHANGED <<data, ask, stable>>

(* The file is replaced or removed between the two openings: before the     *)
(* first it would be another initial state, after the second it is too late.*)
Replace ==
    /\ Reads
    /\ \E f \in (Files \union {Gone}) \ {data} : data' = f
    /\ stable' = FALSE
    /\ UNCHANGED <<ask, spec, reply, refused>>

SpecNext == ResolveAsk \/ ReadRaises \/ Read \/ IOFails \/ Replace

SliceSpecSpec == SpecInit /\ [][SpecNext]_specVars
-----------------------------------------------------------------------------
ResolvedKeys == {"time_index", "level_index", "lat_index", "lat_indices",
                 "lon_index", "lon_indices", "cell_index", "cell_indices",
                 "cell_dim", "index_selectors"}

(* The types: a resolution ends in one of three ways, it has only the keys  *)
(* that the second half of a call uses, and no length of its shape is       *)
(* negative.                                                                *)
SpecTypeOK ==
    /\ data \in Files \union {Gone} /\ ask \in Asks
    /\ stable \in BOOLEAN /\ refused \in BOOLEAN
    /\ spec # NoSpec => /\ spec.status \in {"ok", "error", "raised"}
                        /\ DOMAIN spec.keys \subseteq ResolvedKeys
                        /\ \A d \in DOMAIN spec.shape : spec.shape[d] \in Nat
    /\ reply # NoReply =>
        reply.form \in {"error", "raised", "inline", "file", "stats"}

(* A dimension that a selector can mean no other dimension of the variable  *)
(* instead of.                                                              *)
Kinds(f) == {TimeDims, Named(f, LevelDims), LatDims, LonDims, Named(f, CellDims)}

OnlyOfKind(f, d) ==
    \A e \in ToSet(f.dims) \ {d} :
        Lower(e) # Lower(d) /\ \A D \in Kinds(f) : ~({d, e} \subseteq D)

OneOfEachKind(f) == \A d \in ToSet(f.dims) : OnlyOfKind(f, d)

(* A spec that resolve_spec returned can be read: when the second half of   *)
(* read_slice, peek or compute_stats raises, the system refused it a read   *)
(* or a write, or the file was replaced in between, or the variable has a   *)
(* dimension of length 0 (read_slice then takes the minimum of no values),  *)
(* or values that are not numbers (peek alone reads those), or two          *)
(* dimensions of one kind: the position of a level is that on the first     *)
(* vertical dimension, and is looked for on the first of those that         *)
(* _apply_selectors knows.  Otherwise the bounds the first half checks are  *)
(* those the second half needs.                                             *)
ReadRaisesForCause ==
    reply.form = "raised" /\ spec.status = "ok" =>
        \/ refused
        \/ ~stable
        \/ \E d \in ToSet(data.dims) : Size(data, d) = 0
        \/ ~data.numeric /\ ask.tool # "peek"
        \/ ~OneOfEachKind(data)

(* max_inline_bytes and peek's cap are decided by an estimate made before   *)
(* reading (resolve_spec.py:386-421), by code that does not share its lists *)
(* of dimensions with the code that reads: values that are returned inline  *)
(* are nevertheless never more than the limit, unless the file was replaced *)
(* or has two dimensions of one kind, which the estimate both counts as     *)
(* taken.                                                                   *)
InlineWithinLimit ==
    reply.form = "inline" /\ stable /\ OneOfEachKind(data)
        => Elements(reply.picks)
            <= (IF ask.tool = "peek" THEN PeekCap ELSE MaxInline)

(* What the selectors mean, by the grammar of the specification             *)
(* (docs/specs/2026-05-06-cycle-1-netcdf-reader.md, section 5): whether a   *)
(* call asks for position i.  A date is one that the file has: "does not    *)
(* silently snap" (line 159).                                               *)
Near(c, v) == {i - 1 : i \in {j \in DOMAIN c : \A k \in DOMAIN c :
                                Distance(c[j], v) <= Distance(c[k], v)}}

MeansTime(c, sel, i) ==
    CASE sel.form = "word" -> i = (IF sel.value = "first" THEN 0
                                   ELSE Len(c) - 1)
      [] sel.form = "date" -> c[i + 1] = sel.value
      [] sel.form = "dates" -> i \in Inside(c, sel.value)
      [] sel.form = "index" -> i = sel.value % Len(c)
      [] sel.form = "indices" -> i \in ToSet(sel.value)
      [] OTHER -> TRUE

(* The surface and the top are where the coordinate says they are: they are *)
(* "resolved using the vertical coord's monotonic direction" (line 168).    *)
MeansLevel(c, atMax, sel, i) ==
    CASE sel.form = "word" ->
            \A j \in DOMAIN c : IF atMax <=> sel.value = "surface"
                                THEN c[j] <= c[i + 1]
                                ELSE c[i + 1] <= c[j]
      [] sel.form = "number" -> i \in Near(c, sel.value)
      [] sel.form = "pair" -> \E v \in ToSet(sel.value) : i \in Near(c, v)
      [] sel.form = "index" -> i = sel.value % Len(c)
      [] sel.form = "indices" -> i \in ToSet(sel.value)
      [] OTHER -> TRUE

(* The nearest place, or the places in the box: on a curvilinear grid those *)
(* of the two-dimensional coordinates (line 180).                           *)
MeansAxis(places, sel, i) ==
    CASE sel.form = "number" ->
            \E x \in places[i + 1] : \A y \in UNION ToSet(places) :
                Distance(x, sel.value) <= Distance(y, sel.value)
      [] sel.form = "pair" ->
            \E x \in places[i + 1] : sel.value[1] <= x /\ x <= sel.value[2]
      [] sel.form = "slice" -> i \in sel.value[1] .. sel.value[2]
      [] OTHER -> TRUE

(* A slab is every stride-th position from start to stop, stop included.    *)
MeansSlab(vals, i) ==
    /\ i \in vals[1] .. vals[2]
    /\ (i - vals[1]) % Stride(vals) = 0

SlabsOn(a, d) == {i \in DOMAIN a.slabs : Lower(a.slabs[i].dim) = Lower(d)}

Asked(f, a, d) ==
    {i \in Positions(f, d) :
        /\ d \in TimeDims => MeansTime(f.coord[d], a.time, i)
        /\ Lower(d) \in LevelDims =>
            MeansLevel(f.coord[d], d \in f.surfaceAtMax, a.level, i)
        /\ d \in LatDims => MeansAxis(f.places[d], a.lat, i)
        /\ d \in LonDims => MeansAxis(f.places[d], a.lon, i)
        /\ Lower(d) \in CellDims =>
            /\ a.cell.form # "none" => i = a.cell.value
            /\ a.cells.form # "none" => i \in ToSet(a.cells.value)
        /\ \A k \in SlabsOn(a, d) : MeansSlab(a.slabs[k].vals, i)}

(* The positions read are those asked for; where several are equally near,  *)
(* one of them.                                                             *)
ReadsAsked(f, a, d, pick) ==
    LET got == {i % Size(f, d) : i \in ToSet(pick.at)}
    IN got = Asked(f, a, d) \/ (pick.scalar /\ got \subseteq Asked(f, a, d))

Answered == reply.picks # <<>> /\ stable

Monotonic(c) == \/ \A i, j \in DOMAIN c : i < j => c[i] < c[j]
                \/ \A i, j \in DOMAIN c : i < j => c[i] > c[j]

(* One latitude (longitude) at each position, the one of the coordinate.    *)
Regular(f, d) == \A i \in DOMAIN f.coord[d] : f.places[d][i] = {f.coord[d][i]}

(* "surface" and "top" of a plev are its largest and smallest value, of any *)
(* other dimension its first and last position (resolve_spec.py:222-227).   *)
SurfaceFirst(f, d) ==
    IF d = "plev" THEN d \in f.surfaceAtMax
    ELSE \A i, j \in DOMAIN f.coord[d] :
            i < j => IF d \in f.surfaceAtMax THEN f.coord[d][i] > f.coord[d][j]
                     ELSE f.coord[d][i] < f.coord[d][j]

(* What falls outside.  Where the code does other than the grammar says: a  *)
(* date the file has not is moved to the nearest, and read_slice does not   *)
(* say so; "surface" on a dimension other than plev that is not stored from *)
(* the surface up; lat and lon on a curvilinear grid, looked up among the   *)
(* positions of y and x.  Ranges, lists and index forms of the named        *)
(* selectors are parsed and dropped, and so is a level on a dimension       *)
(* _apply_selectors does not know.  A box on coordinates out of order also  *)
(* takes what lies between the first and the last position inside.  Two     *)
(* dimensions of one kind; two slabs whose names differ in case only; and a *)
(* slab on ni or ncol, which takes the place of a cell selector.            *)
Honoured(f, a, d) ==
    /\ d \in TimeDims =>
        /\ a.time.form \notin {"dates", "indices"}
        /\ a.time.form = "date" => a.time.value \in ToSet(f.coord[d])
    /\ Lower(d) \in LevelDims =>
        \/ a.level.form = "none"
        \/ /\ Lower(d) \in LevelDimsRead /\ a.level.form \in {"number", "word"}
           /\ a.level.form = "word" => SurfaceFirst(f, d)
    /\ d \in LatDims => a.lat.form # "slice"
    /\ d \in LonDims => a.lon.form # "slice"
    /\ a.lat.form # "none" /\ d \in LatDims => Regular(f, d)
    /\ a.lon.form # "none" /\ d \in LonDims => Regular(f, d)
    /\ a.lat.form = "pair" /\ d \in LatDims => Monotonic(f.coord[d])
    /\ a.lon.form = "pair" /\ d \in LonDims => Monotonic(f.coord[d])
    /\ OnlyOfKind(f, d)
    /\ \A j, k \in SlabsOn(a, d) : j = k
    /\ d \in {"ni", "ncol"} /\ SlabsOn(a, d) # {} =>
        a.cell.form = "none" /\ a.cells.form = "none"

(* Where a dimension is so addressed, what is read of it is exactly what    *)
(* the selectors mean together: boxes and slabs with both ends, no position *)
(* outside, and no selector displaced by another on the same dimension.     *)
ReadsWhatWasAsked ==
    Answered => \A d \in ToSet(data.dims) : Honoured(data, ask, d) =>
                    ReadsAsked(data, ask, d, reply.picks[d])
=============================================================================
