---------------------------- MODULE Conventions ----------------------------
(***************************************************************************)
(* What inspect makes of an open dataset (the package conventions and      *)
(* detect_conventions of adapter.py): the producer it is from, the time    *)
(* axis and the geometry.  A file is as in MeshFile; attrs holds a tag for *)
(* each thing the detectors look for in the global attributes, and one for *)
(* a Times that is text.  Confidence and evidence of a detection are       *)
(* wording and left out, as are the vertical axis and the ranges of the    *)
(* coordinates.                                                            *)
(***************************************************************************)
EXTENDS MeshFile, Sequences, FiniteSetsExt

DataVars(f) == f.vars \ f.coords
Dims(f) == DOMAIN f.dims
-----------------------------------------------------------------------------
(* The detectors.                                                           *)

Staggered == {"west_east_stag", "south_north_stag", "bottom_top_stag"}
IsWrf(f) ==
    \/ {"title: WRF", "MMINLU"} \cap f.attrs # {}
    \/ Staggered \cap Dims(f) # {}
    \/ "Times" \in DataVars(f) /\ "Times: text" \in f.attrs

IsRoms(f) ==
    \/ "type: ROMS" \in f.attrs
    \/ {"s_rho", "s_w"} \cap Dims(f) # {}
    \/ {"Cs_r", "Cs_w"} \cap DataVars(f) # {}
    \/ {"lat_rho", "lon_rho", "lat_u", "lon_u"} \cap f.vars # {}

MpasCoords == {"latCell", "lonCell", "xCell", "yCell", "zCell",
               "verticesOnCell", "cellsOnVertex", "nEdgesOnCell"}
IsMpas(f) ==
    \/ {"Conventions: MPAS", "source: MPAS", "core_name: ocean"} \cap f.attrs # {}
    \/ Cell \cap Dims(f) # {}
    \/ MpasCoords \cap f.vars # {}

(* The name of a run is shared by the components of a coupled model: alone  *)
(* it says nothing, and a source that is another component excludes EAMxx.  *)
IsEamxx(f) ==
    /\ {"source: E3SM land model", "source: E3SM sea ice model"} \cap f.attrs = {}
    /\ \/ "source: EAMxx" \in f.attrs
       \/ /\ "case: SCREAM" \in f.attrs
          /\ HasDims(f, {"ncol"}) \/ HasDims(f, {"elem", "gp"})

IsElm(f) == "source: E3SM land model" \in f.attrs

(* Variables of a sea ice restart, one of each group of its names.          *)
CiceVars == {"aicen", "vicen", "vsnon", "Tsfcn", "uvel", "vvel",
             "stressp_1", "iceumask", "swvdr", "strocnxT"}
IsCice(f) == Cardinality(CiceVars \cap DataVars(f)) >= 3

MappingDims == {"a2x_ax_nx", "a2x_ax_ny", "i2x_ix_nx", "i2x_ix_ny"}
DomainDims == {"doma_nx", "doma_ny", "domo_nx", "domo_ny"}
IsCpl(f) ==
    \/ Cardinality(MappingDims \cap Dims(f)) >= 3
    \/ Cardinality(DomainDims \cap Dims(f)) >= 2

(* detect_conventions: the first that claims the file, and else CF, which   *)
(* stands for CMIP and for files without a convention as well.              *)
Detectors == <<"WRF", "ROMS", "MPAS", "EAMxx", "ELM", "CICE", "CPL">>
Producer(f) ==
    LET claims == [WRF |-> IsWrf(f), ROMS |-> IsRoms(f), MPAS |-> IsMpas(f),
                   EAMxx |-> IsEamxx(f), ELM |-> IsElm(f), CICE |-> IsCice(f),
                   CPL |-> IsCpl(f)]
        claiming == {i \in DOMAIN Detectors : claims[Detectors[i]]}
    IN IF claiming = {} THEN "CF" ELSE Detectors[Min(claiming)]

(* Their geometry is in a file of its own.                                  *)
Paired == {"MPAS", "CICE", "EAMxx"}
-----------------------------------------------------------------------------
(* Geometry: "raises" when the extractor does, "none" when it returns None, *)
(* "grid" for axes over a grid, else that of n cells.                       *)

None == [form |-> "none", n |-> 0]
Grid == [form |-> "grid", n |-> 0]
Raises == [form |-> "raises", n |-> 0]
Cells(count) == [form |-> "cells", n |-> count]

(* The second of two coordinates is taken for granted.                      *)
GridOf(f, lat, lon) ==
    IF ~HasVars(f, {lat}) THEN None ELSE IF HasVars(f, {lon}) THEN Grid ELSE Raises

WrfGeometry(f) == GridOf(f, "XLAT", "XLONG")
RomsGeometry(f) == GridOf(f, "lat_rho", "lon_rho")

(* ELM and CPL files are treated as CF files here and below.                *)
CfGeometry(f) ==
    LET axes == f.coords \cup Dims(f)
    IN IF /\ {"lat", "latitude", "y", "rlat", "nav_lat"} \cap axes # {}
          /\ {"lon", "longitude", "x", "rlon", "nav_lon"} \cap axes # {}
       THEN Grid ELSE None

OwnGeometry(f, producer) ==
    CASE producer = "WRF"  -> WrfGeometry(f)
      [] producer = "ROMS" -> RomsGeometry(f)
      [] OTHER -> CfGeometry(f)

MpasGeometry(f) ==
    IF Cell \cap Dims(f) # {} /\ HasVars(f, {"latCell", "lonCell"})
    THEN Cells(f.dims[CHOOSE d \in Cell \cap Dims(f) : TRUE])
    ELSE None

EamxxGeometry(history, grid) ==
    IF /\ HasVars(grid, {"lat", "lon"}) /\ HasDims(grid, {"ncol"}) /\ grid.flat
       /\ Agree({"ncol"}, history.dims, grid.dims)
    THEN Cells(grid.dims["ncol"]) ELSE None

CiceGeometry(history, grid) ==
    LET Area(f) == f.dims["nj"] * f.dims["ni"]
    IN IF /\ HasVars(grid, {"TLAT", "TLON"}) /\ HasDims(grid, {"nj", "ni"})
          /\ HasDims(history, {"nj", "ni"}) => Area(history) = Area(grid)
       THEN Cells(Area(grid)) ELSE None

PairGeometry(history, mesh, producer) ==
    CASE producer = "MPAS"  -> MpasGeometry(mesh)
      [] producer = "CICE"  -> CiceGeometry(history, mesh)
      [] producer = "EAMxx" -> EamxxGeometry(history, mesh)
-----------------------------------------------------------------------------
(* Time.                                                                    *)

TimeNames == <<"time", "Time", "T", "ocean_time">>

(* extract_time: the first name that is a coordinate or a dimension counts, *)
(* and has to hold dates.                                                   *)
CfTime(f) ==
    LET named == {i \in DOMAIN TimeNames : TimeNames[i] \in f.coords \cup Dims(f)}
    IN IF named # {} /\ TimeNames[Min(named)] \in f.dated THEN "dates" ELSE "none"

(* decode_times: a text that is no date raises.                             *)
WrfTimes(f) == IF "Times" \in f.dated THEN "dates" ELSE "raises"

TimeOf(f, producer) ==
    IF producer = "WRF" /\ "Times" \in DataVars(f) THEN WrfTimes(f) ELSE CfTime(f)

(* The dimensions for which a missing time is told.                         *)
Untimed(f) == {n \in Dims(f) \ f.vars : \E i \in DOMAIN TimeNames : TimeNames[i] = n}
=============================================================================
