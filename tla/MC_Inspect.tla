----------------------------- MODULE MC_Inspect -----------------------------
(* One history, up to three files beside it of which each may be its mesh,  *)
(* another's mesh, an incomplete one, no NetCDF file, or absent.            *)
EXTENDS Inspect, TLC

File(vars_, coords_, dims_, attrs_) ==
    [vars |-> vars_ \cup coords_, coords |-> coords_, dims |-> dims_, attrs |-> attrs_,
     flat |-> TRUE, dated |-> coords_ \cap {"time", "Time"}]

Undated(f) == [f EXCEPT !.dated = {}]
Undecodable(f) == [f EXCEPT !.attrs = @ \cup {"times: undecodable"}]

Time == {"time"}
Mpas == File({"temperature"}, Time, [NCells |-> 6, NEdges |-> 9, time |-> 2], {})
Cice == File({"aicen", "vicen", "vsnon"}, {}, [nj |-> 1, ni |-> 6, Time |-> 1], {})
Eamxx == File({"T_mid"}, Time, [ncol |-> 6, time |-> 2], {"case: SCREAM"})
Both == File({"T_mid"}, Time, [ncol |-> 4, nj |-> 2, ni |-> 3, time |-> 2], {"source: EAMxx"})
Elm == File({"tsa"}, Time, [lat |-> 2, lon |-> 3, time |-> 2],
            {"source: E3SM land model", "case: SCREAM"})
Wrf == File({"Times", "XLAT"}, {}, [Time |-> 2], {"Times: text"})
Numbered == File({"Times"}, {"lat", "lon"}, [Time |-> 2, lat |-> 2, lon |-> 3], {})
Roms == File({"temp"}, {"lat_rho", "lon_rho"}, [s_rho |-> 3, ocean_time |-> 2], {})
Cpl == File({}, {}, [doma_nx |-> 6, doma_ny |-> 1], {})
Histories == {Mpas, Undated(Mpas), Undecodable(Mpas), Cice, Eamxx, Both, Elm, Wrf, Numbered, Roms, Cpl}

MpasMesh(n, edges) == File({"latCell", "lonCell", "verticesOnCell"}, {},
                           [nCells |-> n, nEdges |-> edges, Time |-> 1], {})
Centres == File({"latCell", "lonCell"}, {}, [nCells |-> 6], {})
Bare == File({"bottomDepth"}, {}, [nCells |-> 6, ncol |-> 6], {})
CiceGrid(nj_, ni_) == File({"TLAT", "TLON"}, {}, [nj |-> nj_, ni |-> ni_], {})
Physics(n) == File({"lat", "lon"}, {}, [ncol |-> n], {})
Mixed == File({"TLAT", "TLON", "lat", "lon"}, {}, [ncol |-> 6, nj |-> 2, ni |-> 2], {})
MixedMpas == File({"latCell", "lonCell", "verticesOnCell", "lat", "lon"}, {},
                  [nCells |-> 6, ncol |-> 5], {})
Common == {MpasMesh(6, 9), Bare, Gone, Unreadable}
Likely(h) ==
    CASE h = Mpas -> {MpasMesh(6, 9), MpasMesh(5, 9), MpasMesh(6, 8), Centres, MixedMpas}
      [] h = Cice -> {CiceGrid(2, 3), CiceGrid(1, 5)}
      [] h = Eamxx -> {Physics(6), Physics(5), Mixed, CiceGrid(2, 3)}

(* The history h has a name as meshes have; its candidates are grid.nc,     *)
(* x_mesh.nc by two patterns, and ne_pg2.nc.                                *)
MCListing == <<"far", "far2", "grid", "h", "ne_pg2", "x_mesh">>
MCHits == [far |-> {}, far2 |-> {}, grid |-> {3}, h |-> {5}, ne_pg2 |-> {10}, x_mesh |-> {4, 5}]

Place(h, g, m) == [far |-> h, far2 |-> Mpas, grid |-> g, h |-> h, ne_pg2 |-> Bare, x_mesh |-> m]
MCPlaces == UNION {{Place(h, g, m) : g \in Common \cup Likely(h), m \in Likely(h)} :
                       h \in {Mpas, Cice, Eamxx}}
            \cup {Place(h, MpasMesh(6, 9), Physics(4)) : h \in Histories}

Path(scheme_, form_, names_) == [scheme |-> scheme_, form |-> form_, names |-> names_]
MCPaths == {Path("file", "one", {"h"}), Path("file", "glob", {"far2", "h"}),
            Path("https", "one", {"far"}), Path("ssh", "one", {"far"}),
            Path("ssh", "glob", {"far", "far2"}), Path("ftp", "one", {"far"})}
MCMeshPaths == {Path("file", "one", {n}) : n \in {"grid", "x_mesh"}}
               \cup {Path("ssh", "glob", {"far2"})}
MCSizes == {2, 6, 12}
MCReplacements == [n \in {"far", "far2", "grid", "h", "ne_pg2", "x_mesh"} |->
                      CASE n = "grid" -> {MpasMesh(6, 9), Gone}
                        [] n = "h" -> {Cice}
                        [] OTHER -> {}]
=============================================================================
