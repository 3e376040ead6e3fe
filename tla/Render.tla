------------------------------- MODULE Render -------------------------------
(***************************************************************************)
(* The four tools of the plot renderer, from the request to the answer:    *)
(* the data are taken from the request, the style template is applied key  *)
(* by key, what cannot be drawn is refused, the figure is drawn, and       *)
(* FigureSave puts it at the output.  render_map has five branches for     *)
(* unstructured meshes, picked by the look of the mesh file.               *)
(*                                                                         *)
(* A request is a record:                                                  *)
(*   tool              the tool called                                     *)
(*   lacks             the optional package its process has not            *)
(*   form              how the data are given: inline (one series, or      *)
(*                     values with their axis), slice (slice_ref), none,   *)
(*                     both, or gone (a slice_ref that cannot be loaded)   *)
(*   shaped, n         the values have the dimensions asked; how many      *)
(*                     series there are                                    *)
(*   fits              the axes have the length of the values              *)
(*   field, factor     the cells of the values, block by block, and how    *)
(*                     many are averaged into one that is drawn            *)
(*   lon, bounds       longitudes the requested convention shifts; how     *)
(*                     many of vmin and vmax it has                        *)
(*   mesh, domain      mesh_path: NoMesh, Unreadable (not there, or not to *)
(*                     be read), Foreign (of no format xarray knows) or a  *)
(*                     file; the coupler domain asked                      *)
(*   dycore            grid_kind = "dycore_spectral"                       *)
(*   given             the presentation fields it sets, Null if to null    *)
(*   template          style_template: NoTemplate, TextTemplate, or the    *)
(*                     sequence of its <<key, value>> pairs                *)
(*   out, format, dpi  output_path (or NoPath), format (Unset if it is not *)
(*                     given, Null if to null), whether dpi is in 72..600  *)
(*   pressure, trend   vertical_units is a pressure; the trendline or Null *)
(* dpi is an integer where it is given: schemas.py types it.               *)
(***************************************************************************)
EXTENDS FigureSave, Sequences, FiniteSets, MeshFile

CONSTANTS Loads,            \* workloads: the request of each call, Null if there is no call
          Null, Unset,      \* JSON null; a field nobody has set
          Bad,              \* a template value the field's mapper refuses
          NoMesh, Unreadable, Foreign, NoTemplate, TextTemplate

VARIABLES
    stage,     \* where each call is in its tool
    ask,       \* the request each call carries
    style,     \* resolved fields, keys left, keys applied and ignored
    drawn,     \* field drawn, range of colours, and warnings
    answer     \* the envelope each call is answered with

vars == <<saveVars, stage, ask, style, drawn, answer>>
toolVars == <<stage, ask, style, drawn, answer>>

Presentation == {"colormap", "colorbar_position", "gridlines", "font_scale", "aspect"}
Fields == Presentation \cup
          {"projection", "vcenter", "clip_pct", "legend_placement", "advisory",
           "log_scale", "invert_pressure"}

Pending == [code |-> "pending"]
Error(code) == [code |-> code]

Init ==
    /\ SaveInit
    /\ stage  = [c \in Calls |-> "idle"]
    /\ ask    \in Loads
    /\ style  = [c \in Calls |-> Null]
    /\ drawn  = [c \in Calls |-> Null]
    /\ answer = [c \in Calls |-> Pending]

InTool == {"take", "style", "check", "draw", "output", "save"}
Busy(s) == \E c \in Calls : ServerOf[c] = s /\ stage[c] \in InTool

(* The first test of a sequence of <<test, code>> that holds ends the call *)
(* with its code; "none" when all are passed.                              *)
FirstOf(tests) ==
    LET hits == {i \in DOMAIN tests : tests[i][1]}
    IN  IF hits = {} THEN "none"
        ELSE tests[CHOOSE i \in hits : \A j \in hits : i <= j][2]

(* An early return, or the exception handler around the tool.              *)
EndUnanswered(c, envelope) == stage' = [stage EXCEPT ![c] = "ended"] /\ UNCHANGED answer

End(c, envelope) ==
    /\ stage'  = [stage EXCEPT ![c] = "ended"]
    /\ answer' = [answer EXCEPT ![c] = envelope]

-----------------------------------------------------------------------------
(* dispatch: the process takes one call at a time, in any order.           *)
Tools == {"render_map", "render_timeseries", "render_profile", "render_section"}

Dispatch(c) ==
    /\ stage[c] = "idle"
    /\ ask[c] # Null
    /\ ~Busy(ServerOf[c])
    /\ \/ /\ ask[c].tool \in Tools
          /\ stage' = [stage EXCEPT ![c] = "take"]
          /\ UNCHANGED answer
       \/ ask[c].tool \notin Tools /\ End(c, Error("unknown_tool"))
    /\ UNCHANGED <<saveVars, ask, style, drawn>>

(* What stops a call before the style is looked at, by tool and branch.    *)
Unstructured(r) == r.tool = "render_map" /\ r.mesh # NoMesh

Loadable(r) == r.form # "gone"

MapTests(r) == <<
    <<r.form \in {"none", "both"} \/ ~Loadable(r) \/ ~r.shaped, "invalid_spec">>,
    <<r.field = << >>, "empty_slice">> >>

(* A cell is NaN, infinite, or finite: three ordinary values, and one more *)
(* than a million times as large.                                          *)
Cells == {"nan", "inf", "low", "mid", "high", "huge"}
NaNs(s)   == {i \in DOMAIN s : s[i] = "nan"}
Finite(s) == {i \in DOMAIN s : s[i] \notin {"nan", "inf"}}

AllNaN(s) == s # << >> /\ NaNs(s) = DOMAIN s

(* A mesh branch reads inline values only: without them it has one NaN.    *)
Values(r) ==
    IF Unstructured(r) /\ r.form \notin {"inline", "both"} THEN <<"nan">> ELSE r.field
CellsGiven(r) == Len(Values(r))
FlatGiven(r) == r.form \in {"inline", "both"} /\ r.shaped

(* _peek_grid_kind stands outside the tool's handler, and catches OSError: *)
(* the ValueError that xarray raises for a foreign file leaves dispatch.   *)
NotOpened(r) ==
    << <<r.mesh = Foreign, "raised">>,
       <<r.lacks = "uxarray", "uxarray_missing">>,
       <<TRUE, "mesh_path_unreadable">> >>

(* A branch opens the mesh, compares the cells, and then goes the common   *)
(* way of style, safety, drawing and saving; it differs in its tests.      *)
CellsTest(r, kind) == << <<CellsGiven(r) # CellCount(r.mesh, kind), "shape_mismatch">> >>

CiceBranch(r)  == CellsTest(r, "cice")
EamxxBranch(r) == CellsTest(r, "eamxx")
ElmBranch(r)   == CellsTest(r, "elm")

CplBranch(r) ==
    IF HasDomain(r.mesh, r.domain) THEN CellsTest(r, "cpl") ELSE << <<TRUE, "invalid_spec">> >>

MpasBranch(r) ==
    << <<r.lacks = "uxarray", "uxarray_missing">>,
       <<~UxReadable(r.mesh), "internal_render_error">>,
       <<~FlatGiven(r), "invalid_spec">> >> \o
    IF UxReadable(r.mesh) THEN CellsTest(r, "mpas") ELSE << >>

MeshTests(r) ==
    IF r.mesh \in {Foreign, Unreadable} THEN NotOpened(r)
    ELSE LET kind == PeekGridKind(r.mesh)
         IN  CASE kind = "cice"  -> CiceBranch(r)  [] kind = "eamxx" -> EamxxBranch(r)
               [] kind = "elm"   -> ElmBranch(r)   [] kind = "cpl"   -> CplBranch(r)
               [] kind = "mpas"  -> MpasBranch(r)

SeriesTests(r) == << <<r.form # "inline" \/ ~r.shaped \/ ~r.fits, "invalid_spec">> >>

SectionTests(r) == << <<r.form # "inline" \/ ~r.shaped, "invalid_spec">>,
                      <<~r.fits, "shape_mismatch">> >>

Refused(r) ==
    CASE r.tool = "render_map" ->
           LET early == FirstOf(<< <<r.lacks = "cartopy", "cartopy_missing">>,
                                   <<r.dycore, "unstructured_dycore_unsupported">> >>)
           IN  IF early # "none" THEN early
               ELSE FirstOf(IF Unstructured(r) THEN MeshTests(r) ELSE MapTests(r))
      [] r.tool \in {"render_timeseries", "render_profile"} -> FirstOf(SeriesTests(r))
      [] r.tool = "render_section" -> FirstOf(SectionTests(r))

Given(r, f) == f \in DOMAIN r.given /\ r.given[f] # Null

(* What a template holds: a JSON object, whose keys are unique, in order.  *)
Templated(r) == r.tool # "render_section" /\ r.template \notin {NoTemplate, TextTemplate}
Pairs(r) == IF Templated(r) THEN {r.template[i] : i \in DOMAIN r.template} ELSE {}

(* Taking the data; style.apply starts from a copy of the request.  A      *)
(* template that is a text raises there.                                   *)
Take(c) ==
    /\ stage[c] = "take"
    /\ LET r == ask[c]
           code == IF Refused(r) # "none" THEN Refused(r)
                   ELSE IF r.template = TextTemplate /\ r.tool # "render_section"
                        THEN "internal_render_error" ELSE "none"
           pairs == IF Templated(r) THEN r.template ELSE << >>
       IN  IF code # "none"
           THEN End(c, Error(code)) /\ UNCHANGED style
           ELSE /\ stage' = [stage EXCEPT ![c] = "style"]
                /\ style' = [style EXCEPT ![c] =
                     [resolved |-> [f \in Fields |->
                                      IF f \in DOMAIN r.given THEN r.given[f] ELSE Unset],
                      todo |-> pairs, applied |-> {}, ignored |-> {}]]
                /\ UNCHANGED answer
    /\ UNCHANGED <<saveVars, ask, drawn>>

-----------------------------------------------------------------------------
(* style.apply, one key of the template at a time and in its order.  One   *)
(* advisory key stands for the three.                                      *)
FieldOf == [colormap_name |-> "colormap", colormap_kind |-> "colormap",
            vcenter |-> "vcenter", clip_pct |-> "clip_pct",
            projection_family |-> "projection", gridlines |-> "gridlines",
            colorbar_position |-> "colorbar_position", aspect |-> "aspect",
            legend_placement |-> "legend_placement", font_scale |-> "font_scale",
            extent_hint |-> "advisory"]
Kinds == [sequential |-> "viridis", diverging |-> "RdBu_r", categorical |-> "tab10"]
Families == [plate_carree |-> "PlateCarree", robinson |-> "Robinson",
             polar_stereo_north |-> "NorthPolarStereo", mercator |-> "Mercator",
             polar_stereo_south |-> "SouthPolarStereo",
             lambert_conformal |-> "LambertConformal"]
Clamp(percent) == IF percent < 70 THEN 70 ELSE IF percent > 150 THEN 150 ELSE percent

(* The fields a key writes, with their values; none if it is not applicable*)
Written(k, v) ==
    CASE k \notin DOMAIN FieldOf \/ v = Bad -> {}
      [] k = "colormap_kind" /\ v # Bad ->
           {<<"colormap", Kinds[v]>>} \cup
           (IF v = "diverging" THEN {<<"vcenter", "zero">>} ELSE {})
      [] k = "projection_family" /\ v # Bad -> {<<"projection", Families[v]>>}
      [] k = "font_scale" /\ v # Bad -> {<<k, Clamp(v)>>}
      [] OTHER -> {<<FieldOf[k], v>>}

(* A value a mapper makes is never null; nobody gives a field for unset.   *)
ASSUME StylesAssumption ==
    /\ Null # Unset
    /\ \A l \in Loads, c \in Calls : l[c] # Null =>
          /\ \A f \in DOMAIN l[c].given : l[c].given[f] # Unset
          /\ Templated(l[c]) =>
               /\ l[c].template \in Seq(Pairs(l[c]))
               /\ \A i, j \in DOMAIN l[c].template :
                     l[c].template[i][1] = l[c].template[j][1] => i = j
          /\ \A x \in Pairs(l[c]) : x[2] # Null =>
               \A p \in Written(x[1], x[2]) : p[2] \notin {Null, Unset}

(* What the keys of these pairs write into a field.                        *)
ValuesFor(f, pairs) ==
    {p[2] : p \in {q \in UNION {Written(x[1], x[2]) : x \in pairs} : q[1] = f}}

IsMentioned(resolved, f) == resolved[f] # Unset

IsSet(resolved, f) == resolved[f] \notin {Unset, Null}

StyleKey(c) ==
    /\ stage[c] = "style"
    /\ style[c].todo # << >>
    /\ LET w == style[c]
           k == Head(w.todo)[1]
           v == Head(w.todo)[2]
           writes == Written(k, v)
           named == \E i \in DOMAIN ask[c].template :
                       /\ ask[c].template[i][1] = "colormap_name"
                       /\ ask[c].template[i][2] # Null
           reason == FirstOf(<<
               <<v = Null, "absent">>,
               <<k = "colormap_kind" /\ named, "colormap_name_takes_precedence">>,
               <<writes = {}, "not_applicable">>,
               <<writes # {} /\ IsSet(w.resolved, FieldOf[k]), "overridden_by_explicit_spec">> >>)
           put(f) == {p \in writes : p[1] = f /\ ~IsSet(w.resolved, f)}
       IN  style' = [style EXCEPT ![c] =
             [resolved |-> [f \in Fields |->
                              IF reason = "none" /\ put(f) # {}
                              THEN (CHOOSE p \in put(f) : TRUE)[2] ELSE w.resolved[f]],
              todo    |-> Tail(w.todo),
              applied |-> w.applied \cup (IF reason = "none" THEN {k} ELSE {}),
              ignored |-> w.ignored \cup
                          (IF reason \in {"none", "absent"} THEN {} ELSE {<<k, reason>>})]]
    /\ UNCHANGED <<saveVars, stage, ask, drawn, answer>>

(* _resolve_presentation fills in what is unset: a field set to null stays *)
(* null.  A section takes the colormap alone from its request.             *)
Defaults(r) ==
    LET pressure == r.tool = "render_profile" /\ r.pressure
    IN  [f \in Fields |->
          CASE f = "colormap" -> "viridis"           [] f = "projection" -> "PlateCarree"
            [] f = "colorbar_position" -> IF r.tool = "render_profile" THEN "none" ELSE "right"
            [] f = "gridlines" -> "light"
            [] f = "font_scale" -> 100               [] f = "aspect" -> "auto"
            [] f = "log_scale" -> pressure           [] f = "invert_pressure" -> pressure
            [] OTHER -> Unset]

Presented(r, resolved) ==
    [f \in Fields |->
        IF r.tool = "render_section"
        THEN IF f = "colormap" /\ IsSet(resolved, f) THEN resolved[f]
             ELSE IF f = "gridlines" THEN "default" ELSE Defaults(r)[f]
        ELSE IF resolved[f] = Unset THEN Defaults(r)[f] ELSE resolved[f]]

KnownCmaps == {"viridis", "RdBu_r", "tab10", "magma"}
Projections == {Families[k] : k \in DOMAIN Families}

(* What cannot be drawn: on every branch of render_map the same.           *)
StyleTests(r, res) ==
    << <<res["colormap"] \notin KnownCmaps, "unknown_colormap">>,
       <<res["projection"] \notin Projections, "unknown_projection">> >>

MapChecks(r, res) == StyleTests(r, res) \o << <<AllNaN(Values(r)), "all_nan">> >>

Check(c) ==
    /\ stage[c] = "style"
    /\ style[c].todo = << >>
    /\ LET res == Presented(ask[c], style[c].resolved)
           code == IF ask[c].tool # "render_map" THEN "none"
                   ELSE FirstOf(MapChecks(ask[c], res))
       IN  /\ style' = [style EXCEPT ![c].resolved = res]
           /\ IF code = "none"
              THEN stage' = [stage EXCEPT ![c] = "draw"] /\ UNCHANGED answer
              ELSE End(c, Error(code))
    /\ UNCHANGED <<saveVars, ask, drawn>>

-----------------------------------------------------------------------------
(* The safety pass and the drawing.  Only the rectilinear map shifts and   *)
(* coarsens; what is left of the last block is trimmed.                    *)
HighNaN(r)   == 2 * Cardinality(NaNs(Values(r))) > Len(Values(r))
Constant(r)  == LET s == Values(r) IN \E i \in Finite(s) : \A j \in Finite(s) : s[j] = s[i]
Shifted(r)   == r.lon /\ ~Unstructured(r)
Coarsened(r) == r.tool = "render_map" /\ ~Unstructured(r) /\ r.factor > 1

MeanOfFinite(B) == IF "huge" \in B THEN "huge"
                   ELSE IF \E x \in B : B = {x} THEN CHOOSE x \in B : TRUE ELSE "mid"

(* For a mutant: the mean of the cells that have a value, as np.nanmean.   *)
NanMean(B) == IF B \subseteq {"nan"} THEN "nan"
              ELSE IF "inf" \in B THEN "inf" ELSE MeanOfFinite(B \ {"nan"})

(* The mean of the cells of a block, as ndarray.mean has it.               *)
Mean(B) == IF "nan" \in B THEN "nan" ELSE IF "inf" \in B THEN "inf" ELSE MeanOfFinite(B)

Block(r, j) == IF Coarsened(r) THEN (j - 1) * r.factor + 1 .. j * r.factor ELSE {j}

Coarse(r) ==
    [j \in 1..(Len(r.field) \div r.factor) |-> Mean({r.field[i] : i \in Block(r, j)})]

FieldDrawn(r) == IF Coarsened(r) THEN Coarse(r) ELSE Values(r)

(* One value far above the median of what is drawn.                        *)
Extreme(s) ==
    LET huge == {i \in DOMAIN s : s[i] = "huge"}
    IN  huge # {} /\ 2 * Cardinality(huge) < Cardinality(Finite(s))

(* percentile_clip_if_extreme: one bound alone counts for nothing, except  *)
(* in a section, which takes each bound by itself.                         *)
Clipped(r, res) ==
    FirstOf(<< <<r.bounds = 2, "given">>, <<Finite(FieldDrawn(r)) = {}, "nan">>,
               <<res["clip_pct"] \notin {Unset, Null} \/ Extreme(FieldDrawn(r)), "clip">>,
               <<TRUE, "data">> >>)

RangeDrawn(r, res) ==
    CASE r.tool \in {"render_timeseries", "render_profile"} -> "none"
      [] r.tool = "render_section" -> IF r.bounds = 0 THEN "data" ELSE "given"
      [] r.tool = "render_map" -> Clipped(r, res)

MapWarnings(r, range) ==
    {w \in {"high_nan_fraction", "constant_field", "lon_shift_applied",
            "auto_downsampled", "percentile_clip_applied"} :
       \/ w = "high_nan_fraction" /\ HighNaN(r)
       \/ w = "constant_field" /\ Constant(r)
       \/ w = "lon_shift_applied" /\ Shifted(r)
       \/ w = "auto_downsampled" /\ Coarsened(r)
       \/ w = "percentile_clip_applied" /\ range = "clip"}

Warned(r, range) ==
    CASE r.tool = "render_map" -> MapWarnings(r, range)
      [] r.tool = "render_timeseries" /\ r.n > 10 -> {"color_cycle_exceeded"}
      [] OTHER -> {}

(* What the drawing itself stumbles over; n counts the series.             *)
MapDraw(r) == << <<~Unstructured(r) /\ ~r.fits, "internal_render_error">> >>

Trendline(r) == << <<r.trend = "lowess" /\ r.lacks = "scipy", "trendline_dependency_missing">> >>

TimeseriesDraw(r) == << <<r.trend # Null /\ r.n = 0, "internal_render_error">> >> \o Trendline(r)

ProfileDraw == << >>

SectionDraw(r, res) == << <<r.field = << >>, "internal_render_error">>,
                          <<res["colormap"] \notin KnownCmaps, "internal_render_error">> >>

DrawTests(r, res) ==
    CASE r.tool = "render_map"        -> MapDraw(r)
      [] r.tool = "render_timeseries" -> TimeseriesDraw(r)
      [] r.tool = "render_profile"    -> ProfileDraw
      [] r.tool = "render_section"    -> SectionDraw(r, res)

Draw(c) ==
    /\ stage[c] = "draw"
    /\ LET r == ask[c]
           res == style[c].resolved
           code == FirstOf(DrawTests(r, res))
       IN  IF code # "none" THEN End(c, Error(code)) /\ UNCHANGED drawn
           ELSE /\ stage' = [stage EXCEPT ![c] = "output"]
                /\ drawn' = [drawn EXCEPT ![c] =
                     [field |-> FieldDrawn(r), range |-> RangeDrawn(r, res),
                      warnings |-> Warned(r, RangeDrawn(r, res))]]
                /\ UNCHANGED answer
    /\ UNCHANGED <<saveVars, ask, style>>

-----------------------------------------------------------------------------
(* The output: a path is its name and its extension; auto_name derives the *)
(* name from the whole request.  validate_dpi and auto_name raise into the *)
(* tool's handler.                                                         *)
Supported == {"png", "pdf", "svg"}
Ext(p) == p[2]
Format(r) == IF r.format = Unset \/ (r.format = Null /\ r.tool = "render_section")
             THEN "png" ELSE r.format
AutoPath(r) == <<"auto", Format(r), r>>
PathOf(r) == IF r.out = NoPath THEN AutoPath(r) ELSE r.out

ASSUME LoadsAssumption ==
    \A l \in Loads, c \in Calls : l[c] # Null =>
        /\ PathOf(l[c]) \in Paths
        /\ l[c].field \in Seq(Cells) /\ l[c].factor \in Nat \ {0}

AgreesUnasked(r) == TRUE
Agrees(r) == r.format \in {Unset, Null, Ext(r.out)}

OutputTests(r) ==
    << <<~r.dpi, "internal_render_error">> >> \o
    IF r.out = NoPath THEN << <<Format(r) \notin Supported, "internal_render_error">> >>
    ELSE << <<Ext(r.out) = "", "output_path_invalid">>,
            <<Ext(r.out) \notin Supported, "unsupported_format">>,
            <<~Agrees(r), "format_extension_mismatch">> >>

Output(c) ==
    /\ stage[c] = "output"
    /\ LET code == FirstOf(OutputTests(ask[c]))
       IN  IF code # "none" THEN End(c, Error(code)) /\ UNCHANGED saveVars
           ELSE /\ stage' = [stage EXCEPT ![c] = "save"]
                /\ Begin(c, PathOf(ask[c]))
                /\ UNCHANGED answer
    /\ UNCHANGED <<ask, style, drawn>>

(* The oracle looks for the field's name among the keys: a template's      *)
(* colormap_name does not count as setting the colormap, nor its           *)
(* projection_family the projection.  A time series asks for the colormap  *)
(* by the beginning of the key.                                            *)
KeysForAnyField(tool, f) == {f, "colormap_name", "colormap_kind"}

KeysFor(tool, f) ==
    IF tool = "render_section" THEN {}
    ELSE IF tool = "render_timeseries" /\ f = "colormap"
         THEN {"colormap_name", "colormap_kind"} ELSE {f}

SourceFields(tool) == Presentation \cup (IF tool = "render_map" THEN {"projection"} ELSE {})

Source(c, f) ==
    IF Given(ask[c], f) THEN "explicit"
    ELSE IF KeysFor(ask[c].tool, f) \cap style[c].applied # {} THEN "style_template"
    ELSE "library_default"

Oracle(c) == [f \in SourceFields(ask[c].tool) |-> Source(c, f)]

(* A section, or a format of null, names the format by the file.           *)
FormatTold(c) ==
    IF ask[c].tool = "render_section" \/ ask[c].format = Null
    THEN Ext(dest[c]) ELSE Format(ask[c])

(* plotted: a smallest and a largest value are told, or none.              *)
Success(c) ==
    LET s == Values(ask[c])
    IN  [code |-> "ok", format |-> FormatTold(c), source |-> Oracle(c),
         nan |-> <<Cardinality(NaNs(s)), Len(s)>>, plotted |-> Finite(drawn[c].field) # {}]

Report(c) ==
    /\ stage[c] = "save"
    /\ \/ at[c] = "saved" /\ End(c, Success(c))
       \/ /\ at[c] = "failed"
          /\ End(c, Error(IF err[c] \in {"os", "stat"} THEN "output_dir_unwritable"
                          ELSE "internal_render_error"))
    /\ UNCHANGED <<saveVars, ask, style, drawn>>

(* The process dies during a call; it is started again for those left.     *)
Die(s) ==
    /\ Busy(s)
    /\ stage' = [c \in Calls |->
                   IF ServerOf[c] = s /\ stage[c] \in InTool THEN "dead" ELSE stage[c]]
    /\ \/ Crash(s)
       \/ ~(\E c \in Calls : Saving(c) /\ ServerOf[c] = s) /\ UNCHANGED saveVars
    /\ UNCHANGED <<ask, style, drawn, answer>>

Save(c) == SaveStep(c) /\ UNCHANGED toolVars

Next == \/ \E c \in Calls : \/ Dispatch(c) \/ Take(c) \/ StyleKey(c) \/ Check(c)
                             \/ Draw(c) \/ Output(c) \/ Save(c) \/ Report(c)
        \/ \E s \in Servers : Die(s)

Spec == Init /\ [][Next]_vars

-----------------------------------------------------------------------------
RenderTypeOK ==
    /\ SaveTypeOK
    /\ stage \in [Calls -> InTool \cup {"idle", "ended", "dead"}]
    /\ \A c \in Calls :
          /\ stage[c] # "idle" => ask[c] # Null
          /\ style[c] # Null =>
               /\ DOMAIN style[c].resolved = Fields
               /\ \A x \in style[c].ignored : x[1] \notin style[c].applied
          /\ drawn[c] # Null => drawn[c].range \in {"none", "given", "nan", "clip", "data"}
          /\ (answer[c] # Pending) = (stage[c] = "ended")

Resolved(c) == stage[c] = "draw" \/ answer[c].code = "ok"

(* Precedence of style.apply and the defaults: a field the request sets    *)
(* keeps its value; else the value is one that a key reported as applied   *)
(* writes; else it is the default, or the null the request gave.  Every    *)
(* key with a value is reported once, as applied or with a reason, and one *)
(* reported as overridden gave way to the request or to an earlier key of  *)
(* the template.  Whatever the order of the keys.                          *)
PrecedenceKept ==
    \A c \in Calls : Resolved(c) /\ Templated(ask[c]) =>
        LET r == ask[c]
            w == style[c]
            used == {x \in Pairs(r) : x[1] \in w.applied}
        IN  /\ \A f \in Fields :
                 /\ Given(r, f) => w.resolved[f] = r.given[f]
                 /\ ~Given(r, f) /\ ValuesFor(f, used) # {} =>
                      w.resolved[f] \in ValuesFor(f, used)
                 /\ ~Given(r, f) /\ ValuesFor(f, used) = {} =>
                      w.resolved[f] = IF f \in DOMAIN r.given THEN Null ELSE Defaults(r)[f]
            /\ \A x \in Pairs(r) : x[2] # Null =>
                 (x[1] \in w.applied) # (\E y \in w.ignored : y[1] = x[1])
            /\ \A y \in w.ignored : y[2] = "overridden_by_explicit_spec" =>
                 \/ Given(r, FieldOf[y[1]])
                 \/ ValuesFor(FieldOf[y[1]], used) # {}

(* The oracle tells where each presentation field's value comes from: from *)
(* the request if it says so, and from the template exactly if it says so. *)
(* It does not for the colormap and the projection that a template set,    *)
(* which a map and a profile call library defaults, nor for a section,     *)
(* which calls explicit what the request set and it ignored.               *)
OracleTellsSource ==
    \A c \in Calls : answer[c].code = "ok" =>
        \A f \in SourceFields(ask[c].tool) :
            LET r == ask[c]
                wrote == \E x \in Pairs(r) :
                            /\ x[1] \in style[c].applied
                            /\ \E p \in Written(x[1], x[2]) : p[1] = f
            IN  /\ answer[c].source[f] = "explicit" =>
                     \/ style[c].resolved[f] = r.given[f]
                     \/ r.tool = "render_section" /\ f # "colormap"
                /\ answer[c].source[f] = "style_template" => wrote /\ ~Given(r, f)
                /\ answer[c].source[f] = "library_default" =>
                     \/ ~wrote /\ ~Given(r, f)
                     \/ f \in {"colormap", "projection"} /\ r.tool # "render_timeseries"

(* What a call is told agrees with the file system, unless its save met    *)
(* another's on the same path: an answer of success names a figure that is *)
(* whole and its own when the call returns, with the format it was written *)
(* in (of an output_path given without a format it is not told), and any   *)
(* other answer has left the output as it was, except that a stat failing  *)
(* after the replace has the figure there called unwritable.  No exception *)
(* takes the place of the answer, but for a mesh file xarray knows not.    *)
AnswerTellsTheFile ==
    \A c \in Calls \ met :
        /\ answer[c].code = "raised" => ask[c].mesh = Foreign
        /\ answer[c].code = "ok" =>
             /\ WholeBy(file[c], c)
             /\ \/ answer[c].format = Ext(dest[c])
                \/ ask[c].out # NoPath /\ ask[c].format = Unset
        /\ stage[c] = "ended" /\ answer[c].code # "ok" /\ err[c] # "stat" =>
             \A i \in Calls : link[i] = "out" => NoneBy(i, c)

(* What is left out of the picture.  pcolormesh and scatter mask whatever  *)
(* is not finite; the polygons of an MPAS mesh show the infinite.          *)
MasksInf(r) == ~Unstructured(r) \/ PeekGridKind(r.mesh) # "mpas"
BlankIn(r, s) == NaNs(s) \cup IF MasksInf(r) THEN {i \in DOMAIN s : s[i] = "inf"} ELSE {}

(* What is told of the missing values is what the picture shows.  No drawn *)
(* cell has a value where one it stands for has none: gaps grow and are    *)
(* not painted over.  The share of NaN told is that of the cells left      *)
(* blank, and a picture of nothing is told by its having no smallest and   *)
(* largest value.  Two kinds of field are drawn with more blank than is    *)
(* told, or all blank where they should be refused as all_nan: one that is *)
(* coarsened, as NaN are counted before it, and one with infinite cells,   *)
(* which are masked and not counted.  A mesh of no cells is blank as well. *)
DrawnAsAssessed ==
    \A c \in Calls : answer[c].code = "ok" /\ ask[c].tool = "render_map" =>
        LET r == ask[c]
            s == Values(r)
            d == drawn[c].field
            seen == DOMAIN d \ BlankIn(r, d)
            apart == \/ "auto_downsampled" \in drawn[c].warnings
                     \/ s = << >> \/ \E i \in DOMAIN s : s[i] = "inf"
        IN  /\ \A j \in seen : Block(r, j) \cap BlankIn(r, s) = {}
            /\ MasksInf(r) => answer[c].plotted = (seen # {})
            /\ apart \/ answer[c].nan = <<Cardinality(DOMAIN d \ seen), Len(d)>>
            /\ apart \/ answer[c].plotted
=============================================================================
