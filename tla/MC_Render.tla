----------------------------- MODULE MC_Render -----------------------------
(* Two renderer processes on one directory, with a call each.  The parts of *)
(* a request that act on one another are varied together, the rest is as in *)
(* a plain request.                                                         *)
EXTENDS Render, SequencesExt

CONSTANTS a1, b1, A, B

Who == (a1 :> A) @@ (b1 :> B)

Even(k) == [i \in 1..k |-> IF i % 2 = 1 THEN "low" ELSE "high"]

Plain == [tool |-> "render_map", lacks |-> "nothing", form |-> "inline", shaped |-> TRUE,
          n |-> 6, fits |-> TRUE, field |-> Even(6), factor |-> 1, lon |-> FALSE,
          bounds |-> 0, mesh |-> NoMesh, domain |-> "doma", dycore |-> FALSE,
          given |-> << >>, template |-> NoTemplate, out |-> <<"fig", "png">>,
          format |-> Unset, dpi |-> TRUE, pressure |-> FALSE, trend |-> Null]

File(vars_, dims_) == [vars |-> vars_, dims |-> dims_, attrs |-> {}, flat |-> TRUE]
Meshes == {NoMesh, Unreadable, Foreign,
           File({"TLAT", "TLON"}, [nj |-> 2, ni |-> 3]),
           File({"latixy", "longxy"}, [gridcell |-> 6]),
           File({"domo_lat", "domo_lon"}, [domain_cells |-> 6]),
           File({"lat", "lon"}, [ncol |-> 6]),
           File({"latCell", "lonCell", "verticesOnCell"}, [nCells |-> 6]),
           File({"lat", "lon"}, [lat |-> 2, lon |-> 3])}

Forms == {"inline", "slice", "none", "both", "gone"}
MCFields == SeqOf({"nan", "inf", "low"}, 4) \cup
            [1..3 -> {"nan", "low", "high", "huge"}] \cup
            {Even(4) \o <<x, y>> : x \in Cells, y \in {"nan", "huge"}}

MeshFields == {Even(5), Even(6), [i \in 1..6 |-> "nan"], [i \in 1..6 |-> "inf"],
               Even(4) \o <<"nan", "inf">>}

(* The data, for every tool and branch.                                     *)
DataRequests ==
    {[Plain EXCEPT !.tool = t, !.form = fm, !.shaped = sh, !.fits = ft, !.lacks = lk] :
        t \in Tools \cup {"render_movie"}, fm \in Forms, sh \in BOOLEAN, ft \in BOOLEAN,
        lk \in {"nothing", "cartopy"}}
    \cup
    {[Plain EXCEPT !.mesh = m, !.form = fm, !.field = fd, !.lacks = lk, !.domain = d] :
        m \in Meshes, fm \in {"inline", "slice"}, fd \in MeshFields,
        lk \in {"nothing", "uxarray"}, d \in {"doma", "domo"}}
    \cup
    {[Plain EXCEPT !.field = fd, !.factor = k, !.lon = (b = 1), !.bounds = b] :
        fd \in MCFields, k \in {1, 2}, b \in 0..2}
    \cup
    {[Plain EXCEPT !.tool = "render_section", !.field = fd, !.bounds = b] :
        fd \in {<< >>, <<"nan">>, <<"inf", "low">>}, b \in 0..2}
    \cup
    {[Plain EXCEPT !.tool = t, !.n = k, !.trend = tr, !.lacks = lk, !.pressure = TRUE] :
        t \in {"render_timeseries", "render_profile"}, k \in {0, 1, 11},
        tr \in {Null, "linear", "lowess"}, lk \in {"nothing", "scipy"}}
    \cup {[Plain EXCEPT !.dycore = TRUE]}

(* The style: templates of up to two keys in either order, against what     *)
(* the request sets itself.                                                 *)
Keys == {<<"colormap_name", "magma">>, <<"colormap_name", "nomap">>,
         <<"colormap_name", Null>>, <<"colormap_kind", "diverging">>,
         <<"colormap_kind", Bad>>, <<"vcenter", "two">>, <<"gridlines", "heavy">>,
         <<"projection_family", "robinson">>, <<"font_scale", 300>>, <<"shade", "x">>}
Templates == {NoTemplate, TextTemplate} \cup {<<k>> : k \in Keys}
             \cup {t \in Keys \X Keys : t[1][1] # t[2][1]}
Givens == {<< >>, "colormap" :> "magma", "colormap" :> Null, "vcenter" :> "one",
           "projection" :> "Orthographic", "gridlines" :> "none"}
StyleRequests ==
    {[Plain EXCEPT !.tool = t, !.template = tp, !.given = g] :
        t \in {"render_map", "render_timeseries"}, tp \in Templates, g \in Givens}
    \cup
    {[Plain EXCEPT !.tool = t, !.template = <<k>>, !.given = g, !.pressure = p] :
        t \in {"render_profile", "render_section"}, k \in Keys, g \in Givens, p \in BOOLEAN}

OutputRequests ==
    {[Plain EXCEPT !.tool = t, !.out = o, !.format = f, !.dpi = d] :
        t \in Tools, d \in BOOLEAN, f \in {Unset, Null, "png", "pdf", "gif"},
        o \in {NoPath, <<"fig", "png">>, <<"fig", "pdf">>, <<"fig", "">>, <<"fig", "gif">>}}

(* Each request alone, and two processes at once with plain requests that   *)
(* save to one path, to two, or under names they derive.                    *)
Alone == {(a1 :> r) @@ (b1 :> Null) : r \in DataRequests \cup StyleRequests \cup OutputRequests}
Saves == {Plain, [Plain EXCEPT !.out = NoPath], [Plain EXCEPT !.field = <<"nan">>],
          [Plain EXCEPT !.tool = "render_section", !.out = <<"fig", "pdf">>]}
Both  == {(a1 :> r) @@ (b1 :> q) : r \in Saves, q \in Saves}
MCLoads == Alone \cup Both

MCPaths == ({"fig"} \X {"png", "pdf", "gif", ""}) \cup
           {AutoPath([Plain EXCEPT !.tool = t, !.out = NoPath, !.format = f, !.dpi = d]) :
               t \in Tools, f \in {Unset, Null, "png", "pdf", "gif"}, d \in BOOLEAN}
=============================================================================
