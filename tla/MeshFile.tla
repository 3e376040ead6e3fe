------------------------------ MODULE MeshFile ------------------------------
(***************************************************************************)
(* The part of a NetCDF file that the reader's conventions and the         *)
(* renderer's branches look at:                                            *)
(*   vars   names of its variables,                                        *)
(*   dims   the size of each of its dimensions,                            *)
(*   attrs  what its global attributes say of the producer,                *)
(*   flat   its lat and lon have one dimension,                            *)
(* and, for the reader only,                                               *)
(*   coords those of the variables that xarray makes coordinates,          *)
(*   dated  those whose values are dates once decoded.                     *)
(* Both sides look into the same file by rules of their own.               *)
(***************************************************************************)
EXTENDS Naturals

HasDims(f, names) == names \subseteq DOMAIN f.dims
HasVars(f, names) == names \subseteq f.vars

LatOf == [doma |-> "doma_lat", doml |-> "doml_lat", domo |-> "domo_lat", domi |-> "domi_lat"]
LonOf == [doma |-> "doma_lon", doml |-> "doml_lon", domo |-> "domo_lon", domi |-> "domi_lon"]
CplDomains == DOMAIN LatOf
HasDomain(f, d) == HasVars(f, {LatOf[d], LonOf[d]})

(* The branch of render_map that draws on a mesh file that can be opened:  *)
(* the tests are tried in this order and "mpas" is what is left.           *)
PeekGridKind(f) ==
    IF HasVars(f, {"TLAT", "TLON"}) /\ HasDims(f, {"nj", "ni"}) THEN "cice"
    ELSE IF HasDims(f, {"gridcell"}) /\ HasVars(f, {"latixy", "longxy"}) THEN "elm"
    ELSE IF \E d \in CplDomains : HasDomain(f, d) THEN "cpl"
    ELSE IF HasVars(f, {"lat", "lon"}) /\ f.flat /\ HasDims(f, {"ncol"}) THEN "eamxx"
    ELSE "mpas"

(* uxarray: it makes out a Voronoi mesh by its connectivity, and has one   *)
(* face for each cell.                                                     *)
UxReadable(f) == HasVars(f, {"verticesOnCell"}) /\ HasDims(f, {"nCells"})

(* The cells a branch expects one value for; a CPL domain has the cells of *)
(* its nx by ny.                                                           *)
CellCount(f, kind) ==
    CASE kind = "cice"  -> f.dims["nj"] * f.dims["ni"]
      [] kind = "elm"   -> f.dims["gridcell"]
      [] kind = "cpl"   -> f.dims["domain_cells"]
      [] kind = "eamxx" -> f.dims["ncol"]
      [] kind = "mpas"  -> f.dims["nCells"]

(* MPAS writes its dimensions in two spellings, and a file has one of them. *)
Cell == {"nCells", "NCells"}
Edge == {"nEdges", "NEdges"}

(* The sizes of two files agree on what is one dimension under the given    *)
(* names, if both have it.                                                  *)
Agree(names, s, t) ==
    \A d \in names \cap DOMAIN s, e \in names \cap DOMAIN t : s[d] = t[e]

(* DimsFit that compares the edges of two MPAS files and not their cells.   *)
DimsFitByEdges(s, t) ==
    LET Both(names) == names \subseteq DOMAIN s /\ names \subseteq DOMAIN t
        Share(names) == names \cap DOMAIN s # {} /\ names \cap DOMAIN t # {}
    IN IF Share(Cell) THEN Agree(Edge, s, t)
       ELSE IF Both({"ncol"}) THEN s["ncol"] = t["ncol"]
       ELSE Both({"ni", "nj"}) /\ s["nj"] * s["ni"] = t["nj"] * t["ni"]

(* validate_mesh_pair on the sizes s of a history and t of a mesh: the first *)
(* kind of mesh both show decides.                                          *)
DimsFit(s, t) ==
    LET Both(names) == names \subseteq DOMAIN s /\ names \subseteq DOMAIN t
        Share(names) == names \cap DOMAIN s # {} /\ names \cap DOMAIN t # {}
    IN IF Share(Cell) THEN Agree(Cell, s, t) /\ Agree(Edge, s, t)
       ELSE IF Both({"ncol"}) THEN s["ncol"] = t["ncol"]
       ELSE Both({"ni", "nj"}) /\ s["nj"] * s["ni"] = t["nj"] * t["ni"]
=============================================================================
