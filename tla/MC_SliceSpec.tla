---------------------------- MODULE MC_SliceSpec ----------------------------
(* Variables of six kinds of model output with two or three positions per   *)
(* dimension: one on a curvilinear grid whose s_rho is stored from the      *)
(* bottom up, one with an empty time dimension and pressures stored from    *)
(* the top down, one of characters whose latitudes are not in order, and    *)
(* one with three vertical dimensions; and calls that combine selectors of  *)
(* every form.                                                              *)
EXTENDS SliceSpec

Field(dims, coord) ==
    [dims |-> dims, coord |-> coord, numeric |-> TRUE,
     surfaceAtMax |-> {"plev", "s_rho"} \intersect DOMAIN coord,
     places |-> [d \in DOMAIN coord |->
                    [i \in DOMAIN coord[d] |-> {coord[d][i]}]]]

FileSet == {
    Field(<<"time", "plev", "lat", "lon">>,
          [time |-> <<10, 20>>, plev |-> <<1000, 500>>,
           lat |-> <<10, 20, 30>>, lon |-> <<0, 10>>]),
    Field(<<"Time", "NCells", "NVertLayers">>,
          [Time |-> <<10, 20>>, NCells |-> <<0, 1, 2>>,
           NVertLayers |-> <<0, 1>>, NEdges |-> <<0, 1>>]),
    [Field(<<"ocean_time", "s_rho", "y", "x">>,
           [ocean_time |-> <<10, 20>>, s_rho |-> <<0, 1>>,
            y |-> <<0, 1>>, x |-> <<0, 1>>])
        EXCEPT !.places.y = <<{10, 20}, {20, 30}>>],
    Field(<<"time", "ncat", "nj", "ni">>,
          [time |-> <<10, 20>>, ncat |-> <<0, 1>>, nj |-> <<0>>,
           ni |-> <<0, 1, 2>>]),
    [Field(<<"time", "ncol", "lev">>,
           [time |-> <<>>, ncol |-> <<0, 1, 2>>, lev |-> <<100, 500>>])
        EXCEPT !.surfaceAtMax = {"lev"}],
    [Field(<<"lat", "lev">>, [lat |-> <<10, 30, 20>>, lev |-> <<0, 1>>])
        EXCEPT !.numeric = FALSE],
    [Field(<<"lat", "lev">>, [lat |-> <<10, 30, 20>>, lev |-> <<9, 1>>])
        EXCEPT !.surfaceAtMax = {"lev"}],
    Field(<<"ilev", "level", "lev">>,
          [ilev |-> <<0, 1, 2>>, level |-> <<0, 1>>, lev |-> <<0, 1>>])}

Sel(form, value) == [form |-> form, value |-> value]
None == Sel("none", 0)

Times == {None, Sel("word", "first"), Sel("word", "last"), Sel("date", 18), Sel("date", 20),
          Sel("dates", <<10, 12>>), Sel("index", -1), Sel("index", 2),
          Sel("number", 1)}
Levels == {None, Sel("number", 600), Sel("word", "surface"),
           Sel("word", "top"), Sel("pair", <<0, 1>>)}
Boxes == {None, Sel("number", 12), Sel("pair", <<10, 20>>),
          Sel("pair", <<0, 1>>), Sel("pair", <<40, 50>>),
          Sel("slice", <<0, 0>>)}
Slab(dim, vals) == [dim |-> dim, vals |-> vals]
Slabs == {<<>>, <<Slab("time", <<0, 1>>)>>, <<Slab("NCells", <<0, 2, 2>>)>>,
          <<Slab("ni", <<1, 2>>), Slab("ncat", <<0, 0, 1>>)>>,
          <<Slab("lat", <<0, 2, 2>>)>>, <<Slab("Lat", <<2, 0>>)>>,
          <<Slab("lat", <<1, 2>>), Slab("Lat", <<0, 1, 1>>)>>,
          <<Slab("x", <<1, 2>>)>>, <<Slab("time", <<0, 1, 0>>)>>}
Cells == {None, Sel("cell", 1), Sel("cell", 3)}
CellLists == {None, Sel("cells", <<>>), Sel("cells", <<2, 0>>),
              Sel("cells", <<3>>)}
Meshes == {NoMesh, Gone, [nCells |-> 3, nEdges |-> 2], [nCells |-> 2],
           [nj |-> 3, ni |-> 1], [ncol |-> 3]}

(* Selectors by coordinate with slabs; by cell with slabs; each tool; mesh  *)
(* files.                                                                   *)
AskSet ==
    [tool : {"read_slice"}, known : {TRUE}, mesh : {NoMesh}, time : Times,
     level : Levels, lat : Boxes, lon : {None, Sel("pair", <<0, 1>>)},
     cell : {None}, cells : {None}, slabs : Slabs]
    \union
    [tool : {"read_slice"}, known : {TRUE}, mesh : {NoMesh},
     time : {None, Sel("date", 15)}, level : {None, Sel("word", "top")},
     lat : {None, Sel("number", 12)}, lon : {None},
     cell : Cells, cells : CellLists, slabs : Slabs]
    \union
    [tool : {"peek", "compute_stats"}, known : {TRUE}, mesh : {NoMesh},
     time : Times, level : Levels, lat : Boxes, lon : Boxes,
     cell : {None}, cells : {None},
     slabs : {<<>>, <<Slab("time", <<0, 1>>)>>}]
    \union
    [tool : {"read_slice"}, known : BOOLEAN, mesh : Meshes, time : {None},
     level : {None}, lat : {None}, lon : {None}, cell : Cells,
     cells : {None}, slabs : {<<>>}]
=============================================================================
