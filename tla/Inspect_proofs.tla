--------------------------- MODULE Inspect_proofs ---------------------------
(***************************************************************************)
(* The invariants of Inspect, for every set of files, names and paths.     *)
(***************************************************************************)
EXTENDS Inspect, FiniteSetTheorems, TLAPS

(* A dataset an open leaves: times that do not decode are noted, and sizes  *)
(* are numbers.                                                             *)
Dataset(f) ==
    /\ DOMAIN f = FileFields /\ f.coords \subseteq f.vars
    /\ \A d \in DOMAIN f.dims : f.dims[d] \in Nat
    /\ "times: undecodable" \in f.attrs => "_metplot_time_decode_failed" \in f.attrs

-----------------------------------------------------------------------------
(* The order of the detectors.                                              *)

LEMMA LeastExists ==
    ASSUME NEW S \in SUBSET Nat, S # {}
    PROVE  /\ Min(S) \in S
           /\ \A i \in S : Min(S) <= i
<1> DEFINE R == {p \in Nat \X Nat : p[1] < p[2]}
<1>1. IsWellFoundedOn(R, Nat)
    BY NatLessThanWellFounded DEF OpToRel
<1>2. PICK i \in S : \A j \in S : <<j, i>> \notin R
    <2> HIDE DEF R
    <2> QED
        BY <1>1, WFMin
<1>3. ASSUME NEW j \in S PROVE i <= j
    <2>1. <<j, i>> \in Nat \X Nat /\ <<j, i>> \notin R
        BY <1>2
    <2>2. ~(j < i)
        BY <2>1
    <2> QED
        BY <2>2
<1>4. \E x \in S : \A y \in S : x <= y
    BY <1>3
<1>5. QED
    BY <1>4, Zenon DEF Min

(* A file of a family after MPAS was not claimed by MPAS.                   *)
LEMMA NotMpas ==
    ASSUME NEW f
    PROVE  /\ Producer(f) \in {"EAMxx", "CICE"} => ~IsMpas(f)
           /\ Producer(f) \in {"WRF", "ROMS", "MPAS", "EAMxx", "ELM", "CICE", "CPL", "CF"}
<1> DEFINE claims == [WRF |-> IsWrf(f), ROMS |-> IsRoms(f), MPAS |-> IsMpas(f),
                      EAMxx |-> IsEamxx(f), ELM |-> IsElm(f), CICE |-> IsCice(f),
                      CPL |-> IsCpl(f)]
           claiming == {i \in DOMAIN Detectors : claims[Detectors[i]]}
<1>1. Producer(f) = IF claiming = {} THEN "CF" ELSE Detectors[Min(claiming)]
    BY Zenon DEF Producer
<1>2. DOMAIN Detectors = 1 .. 7
    BY DEF Detectors
<1>3. claiming \subseteq 1 .. 7
    BY <1>2
<1>4. claiming # {} => Min(claiming) \in claiming /\ \A i \in claiming : Min(claiming) <= i
    BY <1>3, LeastExists
<1>5. IsMpas(f) => 3 \in claiming
    BY <1>2 DEF Detectors
<1> HIDE DEF claiming
<1>6. \A i \in 1 .. 7 : /\ Detectors[i] \in {"WRF", "ROMS", "MPAS", "EAMxx", "ELM", "CICE", "CPL"}
                        /\ Detectors[i] \in {"EAMxx", "CICE"} => i > 3
    BY DEF Detectors
<1>7. CASE claiming = {}
    BY <1>1, <1>7
<1>8. CASE claiming # {}
    <2> DEFINE i == Min(claiming)
    <2>1. i \in 1 .. 7 /\ Producer(f) = Detectors[i]
        BY <1>1, <1>3, <1>4, <1>8
    <2>2. IsMpas(f) => i <= 3
        BY <1>4, <1>5, <1>8
    <2> HIDE DEF i
    <2>3. QED
        BY <2>1, <2>2, <1>6
<1>9. QED
    BY <1>7, <1>8
-----------------------------------------------------------------------------
(* What opening does to a file.                                             *)

LEMMA DecodedParts ==
    ASSUME NEW f \in Files
    PROVE  /\ DOMAIN Decoded(f) = FileFields
           /\ Decoded(f).vars = f.vars /\ Decoded(f).coords = f.coords
           /\ Decoded(f).dims = f.dims /\ Decoded(f).flat = f.flat
           /\ "times: undecodable" \in Decoded(f).attrs =>
                 "_metplot_time_decode_failed" \in Decoded(f).attrs
           /\ \A a : a # "_metplot_time_decode_failed" =>
                 (a \in Decoded(f).attrs <=> a \in f.attrs)
    BY FilesAssumption DEF Decoded, FileFields

LEMMA DecodedDataset ==
    ASSUME NEW f \in Files
    PROVE  Dataset(Decoded(f)) /\ Decoded(f) # Gone
<1>1. \A d \in DOMAIN f.dims : f.dims[d] \in Nat
    BY FilesAssumption
<1>2. f.coords \subseteq f.vars /\ Decoded(f) # Gone
    BY FilesAssumption
<1>3. QED
    BY <1>1, <1>2, DecodedParts DEF Dataset

(* What the detectors look for is not what opening adds.                    *)
LEMMA SameProducer ==
    ASSUME NEW f \in Files
    PROVE  Producer(Decoded(f)) = Producer(f)
<1> DEFINE g == Decoded(f)
<1>1. g.vars = f.vars /\ g.coords = f.coords /\ g.dims = f.dims
    BY DecodedParts
<1>2. \A a : a # "_metplot_time_decode_failed" => (a \in g.attrs <=> a \in f.attrs)
    BY DecodedParts
<1> HIDE DEF g
<1>3. DataVars(g) = DataVars(f) /\ Dims(g) = Dims(f)
    BY <1>1 DEF DataVars, Dims
<1>4. IsWrf(g) = IsWrf(f)
    <2>1. {"title: WRF", "MMINLU"} \cap g.attrs = {"title: WRF", "MMINLU"} \cap f.attrs
        BY <1>2
    <2>2. "Times: text" \in g.attrs <=> "Times: text" \in f.attrs
        BY <1>2
    <2>3. QED
        BY <1>3, <2>1, <2>2, Zenon DEF IsWrf
<1>5. IsRoms(g) = IsRoms(f)
    <2>1. "type: ROMS" \in g.attrs <=> "type: ROMS" \in f.attrs
        BY <1>2
    <2>2. QED
        BY <1>1, <1>3, <2>1, Zenon DEF IsRoms
<1>6. IsMpas(g) = IsMpas(f)
    <2>1. {"Conventions: MPAS", "source: MPAS", "core_name: ocean"} \cap g.attrs
            = {"Conventions: MPAS", "source: MPAS", "core_name: ocean"} \cap f.attrs
        BY <1>2
    <2>2. QED
        BY <1>1, <1>3, <2>1, Zenon DEF IsMpas
<1>7. IsEamxx(g) = IsEamxx(f)
    <2>1. {"source: E3SM land model", "source: E3SM sea ice model"} \cap g.attrs
            = {"source: E3SM land model", "source: E3SM sea ice model"} \cap f.attrs
        BY <1>2
    <2>2. "source: EAMxx" \in g.attrs <=> "source: EAMxx" \in f.attrs
        BY <1>2
    <2>3. "case: SCREAM" \in g.attrs <=> "case: SCREAM" \in f.attrs
        BY <1>2
    <2>4. \A names : HasDims(g, names) = HasDims(f, names)
        BY <1>1 DEF HasDims
    <2>5. QED
        BY <2>1, <2>2, <2>3, <2>4, Zenon DEF IsEamxx
<1>8. IsElm(g) = IsElm(f)
    <2> DEFINE land(h) == "source: E3SM land model" \in h.attrs
    <2>1. land(g) <=> land(f)
        BY <1>2
    <2>2. land(g) \in BOOLEAN /\ land(f) \in BOOLEAN
        OBVIOUS
    <2>3. IsElm(g) = land(g) /\ IsElm(f) = land(f)
        BY Zenon DEF IsElm
    <2> HIDE DEF land
    <2>4. QED
        BY <2>1, <2>2, <2>3
<1>9. IsCice(g) = IsCice(f)
    BY <1>3, Zenon DEF IsCice
<1>10. IsCpl(g) = IsCpl(f)
    BY <1>3, Zenon DEF IsCpl
<1>11. Producer(g) = Producer(f)
    BY <1>4, <1>5, <1>6, <1>7, <1>8, <1>9, <1>10, Zenon DEF Producer
<1>12. QED
    BY <1>11 DEF g
-----------------------------------------------------------------------------
(* Geometries: what the extractors answer.                                  *)

Geometry == [form : {"none", "grid", "raises", "cells"}, n : Nat]

LEMMA AreaIsNumber ==
    ASSUME NEW f, Dataset(f), HasDims(f, {"nj", "ni"})
    PROVE  f.dims["nj"] * f.dims["ni"] \in Nat
<1>1. f.dims["nj"] \in Nat /\ f.dims["ni"] \in Nat
    BY DEF Dataset, HasDims
<1> DEFINE a == f.dims["nj"]
           b == f.dims["ni"]
<1>2. a \in Nat /\ b \in Nat
    BY <1>1
<1> HIDE DEF a, b
<1>3. a * b \in Nat
    BY <1>2
<1>4. QED
    BY <1>3 DEF a, b

LEMMA MpasGeometryType ==
    ASSUME NEW f, Dataset(f)
    PROVE  MpasGeometry(f) \in Geometry /\ MpasGeometry(f).form \in {"none", "cells"}
<1>1. CASE Cell \cap Dims(f) # {} /\ HasVars(f, {"latCell", "lonCell"})
    <2> DEFINE d == CHOOSE e \in Cell \cap Dims(f) : TRUE
    <2>1. d \in Cell \cap Dims(f)
        BY <1>1
    <2>2. MpasGeometry(f) = Cells(f.dims[d])
        BY <1>1, Zenon DEF MpasGeometry
    <2> HIDE DEF d
    <2>3. f.dims[d] \in Nat
        BY <2>1 DEF Dataset, Dims
    <2>4. QED
        BY <2>2, <2>3 DEF Cells, Geometry
<1>2. CASE ~(Cell \cap Dims(f) # {} /\ HasVars(f, {"latCell", "lonCell"}))
    <2>1. MpasGeometry(f) = None
        BY <1>2, Zenon DEF MpasGeometry
    <2>2. QED
        BY <2>1 DEF None, Geometry
<1>3. QED
    BY <1>1, <1>2

LEMMA PairGeometryType ==
    ASSUME NEW h, NEW f, Dataset(h), Dataset(f), NEW p \in Paired
    PROVE  PairGeometry(h, f, p) \in Geometry /\ PairGeometry(h, f, p).form \in {"none", "cells"}
<1>1. None \in Geometry /\ None.form = "none"
    BY DEF None, Geometry
<1>2. \A n \in Nat : Cells(n) \in Geometry /\ Cells(n).form = "cells"
    BY DEF Cells, Geometry
<1>3. CASE p = "MPAS"
    <2>1. PairGeometry(h, f, p) = MpasGeometry(f)
        BY <1>3 DEF PairGeometry
    <2>2. QED
        BY <2>1, MpasGeometryType
<1>4. CASE p = "CICE"
    <2>1. PairGeometry(h, f, p) = CiceGeometry(h, f)
        BY <1>4 DEF PairGeometry
    <2>2. \/ CiceGeometry(h, f) = None
          \/ /\ HasDims(f, {"nj", "ni"})
             /\ CiceGeometry(h, f) = Cells(f.dims["nj"] * f.dims["ni"])
        BY Zenon DEF CiceGeometry
    <2>3. QED
        BY <1>1, <1>2, <2>1, <2>2, AreaIsNumber
<1>5. CASE p = "EAMxx"
    <2>1. PairGeometry(h, f, p) = EamxxGeometry(h, f)
        BY <1>5 DEF PairGeometry
    <2>2. \/ EamxxGeometry(h, f) = None
          \/ /\ HasDims(f, {"ncol"})
             /\ EamxxGeometry(h, f) = Cells(f.dims["ncol"])
        BY Zenon DEF EamxxGeometry
    <2>3. HasDims(f, {"ncol"}) => f.dims["ncol"] \in Nat
        BY DEF Dataset, HasDims
    <2>4. QED
        BY <1>1, <1>2, <2>1, <2>2, <2>3
<1>6. QED
    BY <1>3, <1>4, <1>5 DEF Paired

LEMMA OwnGeometryType ==
    ASSUME NEW f, NEW p
    PROVE  OwnGeometry(f, p) \in Geometry /\ OwnGeometry(f, p).form # "cells"
<1>1. OwnGeometry(f, p) \in {None, Grid, Raises}
    <2>1. \A a, b : GridOf(f, a, b) \in {None, Grid, Raises}
        BY Zenon DEF GridOf
    <2>2. CfGeometry(f) \in {None, Grid, Raises}
        BY Zenon DEF CfGeometry
    <2>3. WrfGeometry(f) \in {None, Grid, Raises} /\ RomsGeometry(f) \in {None, Grid, Raises}
        BY <2>1, Zenon DEF WrfGeometry, RomsGeometry
    <2>4. \/ OwnGeometry(f, p) = WrfGeometry(f)
          \/ OwnGeometry(f, p) = RomsGeometry(f)
          \/ OwnGeometry(f, p) = CfGeometry(f)
        BY DEF OwnGeometry
    <2>5. QED
        BY <2>2, <2>3, <2>4
<1>2. QED
    BY <1>1 DEF None, Grid, Raises, Geometry

(* The cells of an accepted geometry are those of the history.              *)
LEMMA CellsMatch ==
    ASSUME NEW h, NEW m, DimsFit(h.dims, m.dims), Producer(h) \in Paired,
           PairGeometry(h, m, Producer(h)).form = "cells", OwnCells(h, Producer(h))
    PROVE  /\ PairGeometry(h, m, Producer(h)) = Cells(CellsOf(h))
           /\ Producer(h) = "MPAS" =>
                 \A d \in Cell \cap Dims(m) : m.dims[d] = CellsOf(h)
           /\ Producer(h) = "CICE" =>
                 /\ HasVars(m, {"TLAT", "TLON"}) /\ HasDims(m, {"nj", "ni"})
                 /\ m.dims["nj"] * m.dims["ni"] = CellsOf(h)
           /\ Producer(h) = "EAMxx" =>
                 /\ HasVars(m, {"lat", "lon"}) /\ HasDims(m, {"ncol"}) /\ m.flat
                 /\ m.dims["ncol"] = CellsOf(h)
<1>1. None.form # "cells"
    BY DEF None
<1>2. CASE Producer(h) = "MPAS"
    <2>1. PairGeometry(h, m, Producer(h)) = MpasGeometry(m)
        BY <1>2 DEF PairGeometry
    <2> DEFINE d == CHOOSE e \in Cell \cap Dims(m) : TRUE
               e == CHOOSE e \in Cell \cap Dims(h) : TRUE
    <2>2. Cell \cap Dims(m) # {} /\ MpasGeometry(m) = Cells(m.dims[d])
        BY <1>1, <2>1, Zenon DEF MpasGeometry
    <2>3. Cell \cap Dims(h) # {}
        BY <1>2 DEF OwnCells
    <2>4. CellsOf(h) = h.dims[e]
        BY <2>3, Zenon DEF CellsOf
    <2>5. d \in Cell \cap Dims(m) /\ e \in Cell \cap Dims(h)
        BY <2>2, <2>3
    <2> HIDE DEF d, e
    <2>6. \A a \in Cell \cap Dims(h), b \in Cell \cap Dims(m) : h.dims[a] = m.dims[b]
        BY <2>2, <2>3, Zenon DEF DimsFit, Dims, Agree
    <2>7. QED
        BY <1>2, <2>1, <2>2, <2>4, <2>5, <2>6
<1>3. ~IsMpas(h) => Cell \cap Dims(h) = {}
    BY Zenon DEF IsMpas
<1>4. CASE Producer(h) = "CICE"
    <2>1. PairGeometry(h, m, Producer(h)) = CiceGeometry(h, m)
        BY <1>4 DEF PairGeometry
    <2>2. HasDims(h, {"nj", "ni"}) /\ ~HasDims(h, {"ncol"})
        BY <1>4 DEF OwnCells
    <2>3. Cell \cap Dims(h) = {}
        BY <1>3, <1>4, NotMpas
    <2>4. CellsOf(h) = h.dims["nj"] * h.dims["ni"]
        BY <2>2, <2>3, Zenon DEF CellsOf
    <2>5. /\ HasVars(m, {"TLAT", "TLON"}) /\ HasDims(m, {"nj", "ni"})
          /\ h.dims["nj"] * h.dims["ni"] = m.dims["nj"] * m.dims["ni"]
          /\ CiceGeometry(h, m) = Cells(m.dims["nj"] * m.dims["ni"])
        BY <1>1, <2>1, <2>2, Zenon DEF CiceGeometry
    <2>6. QED
        BY <1>4, <2>1, <2>4, <2>5, Zenon
<1>5. CASE Producer(h) = "EAMxx"
    <2>1. PairGeometry(h, m, Producer(h)) = EamxxGeometry(h, m)
        BY <1>5 DEF PairGeometry
    <2>2. HasDims(h, {"ncol"})
        BY <1>5 DEF OwnCells
    <2>3. Cell \cap Dims(h) = {}
        BY <1>3, <1>5, NotMpas
    <2>4. CellsOf(h) = h.dims["ncol"]
        BY <2>2, <2>3, Zenon DEF CellsOf
    <2>5. /\ HasVars(m, {"lat", "lon"}) /\ HasDims(m, {"ncol"}) /\ m.flat
          /\ Agree({"ncol"}, h.dims, m.dims)
          /\ EamxxGeometry(h, m) = Cells(m.dims["ncol"])
        BY <1>1, <2>1, Zenon DEF EamxxGeometry
    <2>6. h.dims["ncol"] = m.dims["ncol"]
        BY <2>2, <2>5 DEF Agree, HasDims
    <2>7. QED
        BY <1>5, <2>1, <2>4, <2>5, <2>6
<1>6. QED
    BY <1>2, <1>4, <1>5 DEF Paired

(* The renderer draws on it, with the two exceptions of PairedThenDrawn.    *)
LEMMA DrawnMatch ==
    ASSUME NEW h, NEW m, DimsFit(h.dims, m.dims), Producer(h) \in Paired,
           PairGeometry(h, m, Producer(h)).form = "cells", OwnCells(h, Producer(h))
    PROVE  LET producer == Producer(h)
               branch == [MPAS |-> "mpas", CICE |-> "cice", EAMxx |-> "eamxx"]
               drawing == DrawnOn(m, CellsOf(h))
           IN \/ drawing = branch[producer]
              \/ drawing = "no mesh" /\ producer = "MPAS" /\ ~UxReadable(m)
              \/ AlsoLooksLike(m, producer) # {}
<1> DEFINE kind == PeekGridKind(m)
<1>1. kind \in {"cice", "elm", "cpl", "eamxx", "mpas"}
    BY Zenon DEF PeekGridKind
<1>2. DrawnOn(m, CellsOf(h)) =
        IF kind = "mpas" /\ ~UxReadable(m) THEN "no mesh"
        ELSE IF CellCount(m, kind) # CellsOf(h) THEN "shape_mismatch" ELSE kind
    BY Zenon DEF DrawnOn
<1>3. CASE Producer(h) = "MPAS"
    <2>1. kind # "mpas" => AlsoLooksLike(m, Producer(h)) # {}
        BY <1>1, <1>3 DEF AlsoLooksLike
    <2>2. kind = "mpas" /\ UxReadable(m) => CellCount(m, kind) = CellsOf(h)
        <3>1. UxReadable(m) => "nCells" \in Cell \cap Dims(m)
            BY DEF UxReadable, HasDims, Dims, Cell
        <3>2. kind = "mpas" => CellCount(m, kind) = m.dims["nCells"]
            BY DEF CellCount
        <3>3. QED
            BY <1>3, <3>1, <3>2, CellsMatch
    <2> HIDE DEF kind
    <2>3. CASE kind = "mpas" /\ ~UxReadable(m)
        BY <1>2, <1>3, <2>3
    <2>4. CASE kind = "mpas" /\ UxReadable(m)
        <3>1. DrawnOn(m, CellsOf(h)) = "mpas"
            BY <1>2, <2>2, <2>4
        <3>2. QED
            BY <1>3, <3>1
    <2>5. QED
        BY <2>1, <2>3, <2>4, Zenon
<1>4. CASE Producer(h) = "CICE"
    <2>1. kind = "cice"
        BY <1>4, CellsMatch, Zenon DEF PeekGridKind
    <2>2. CellCount(m, "cice") = m.dims["nj"] * m.dims["ni"]
        BY DEF CellCount
    <2>3. CellCount(m, kind) = CellsOf(h)
        BY <1>4, <2>1, <2>2, CellsMatch
    <2> HIDE DEF kind
    <2>4. QED
        BY <1>2, <1>4, <2>1, <2>3
<1>5. CASE Producer(h) = "EAMxx"
    <2>1. kind # "mpas"
        BY <1>5, CellsMatch, Zenon DEF PeekGridKind
    <2>2. kind # "eamxx" => AlsoLooksLike(m, Producer(h)) # {}
        BY <1>1, <1>5, <2>1 DEF AlsoLooksLike
    <2>3. CellCount(m, "eamxx") = m.dims["ncol"]
        BY DEF CellCount
    <2>4. kind = "eamxx" => CellCount(m, kind) = CellsOf(h)
        BY <1>5, <2>3, CellsMatch
    <2> HIDE DEF kind
    <2>5. QED
        BY <1>2, <1>5, <2>1, <2>2, <2>4
<1>6. QED
    BY <1>3, <1>4, <1>5 DEF Paired

(* The renderer opens the file as it is: to it the decoding is no matter.   *)
LEMMA SameDrawing ==
    ASSUME NEW f \in Files, NEW count
    PROVE  DrawnOn(Decoded(f), count) = DrawnOn(f, count)
<1> DEFINE g == Decoded(f)
<1>1. g.vars = f.vars /\ g.dims = f.dims /\ g.flat = f.flat
    BY DecodedParts
<1> HIDE DEF g
<1>2. PeekGridKind(g) = PeekGridKind(f)
    BY <1>1, Zenon DEF PeekGridKind, HasVars, HasDims, HasDomain
<1>3. UxReadable(g) = UxReadable(f)
    BY <1>1, Zenon DEF UxReadable, HasVars, HasDims
<1>4. \A kind : CellCount(g, kind) = CellCount(f, kind)
    BY <1>1, Zenon DEF CellCount
<1>5. DrawnOn(g, count) = DrawnOn(f, count)
    BY <1>2, <1>3, <1>4, Zenon DEF DrawnOn
<1>6. QED
    BY <1>5 DEF g
-----------------------------------------------------------------------------
(* Classifying and opening.                                                 *)

Contents == Files \cup {Gone, Unreadable}
PathSet == Paths \cup MeshPaths

Kinds == {"none", "refused", "local_single", "local_multi", "remote_url",
          "ssh_remote", "ssh_multi"}
Idle == {"none", "refused"}
Single == {"local_single", "remote_url", "ssh_remote"}
RefusalCodes == {"unsupported_path_scheme", "broker_required", "raised", "file_not_found"}
OpenCodes == {"file_not_found", "remote_file_not_found", "ssh_auth_needed", "internal_error"}

(* A source stands for names, for one if its kind says so.                  *)
SourceOK(src) ==
    /\ src \in [kind : Kinds, names : Seq(Names), code : {"ok"} \cup RefusalCodes]
    /\ src.kind \notin Idle => src.names # << >>
    /\ src.kind \in Single => Len(src.names) = 1

(* What a source tells of the path it came from.                            *)
FromPath(p, src) ==
    /\ src.kind # "none"
    /\ src.kind = "local_single" => /\ p.scheme = "file" /\ p.form = "one"
                                    /\ p.names = {src.names[1]}
    /\ p.scheme = "file" /\ p.form = "one" => src.kind \in {"local_single", "refused"}
    /\ src.kind = "refused" /\ src.code = "raised" => p.scheme = "ssh"
    /\ src.kind = "ssh_remote" => p.scheme = "ssh"
    /\ src.kind = "refused" => src.code \in RefusalCodes

LEMMA NamesFinite == IsFiniteSet(Names)
<1>1. Listing \in [1 .. Len(Listing) -> Names] /\ Len(Listing) \in Nat
    BY InspectAssumptions
<1>2. \A n \in Names : \E i \in 1 .. Len(Listing) : Listing[i] = n
    BY <1>1 DEF Names, ToSet
<1>3. Listing \in Surjection(1 .. Len(Listing), Names)
    BY <1>1, <1>2 DEF Surjection
<1>4. IsFiniteSet(1 .. Len(Listing))
    BY <1>1, FS_Interval
<1>5. QED
    BY <1>3, <1>4, FS_Surjection

(* Names go strictly in the order of the listing.                           *)
LEMMA EarlierStrict ==
    ASSUME NEW n
    PROVE  ~Earlier(n, n)
<1>1. SUFFICES ASSUME NEW i \in DOMAIN Listing, NEW j \in DOMAIN Listing,
                      i < j, Listing[i] = Listing[j]
               PROVE  FALSE
    BY Zenon DEF Earlier
<1>2. i = j
    BY <1>1, InspectAssumptions, Zenon DEF IsInjective
<1>3. DOMAIN Listing = 1 .. Len(Listing)
    BY InspectAssumptions
<1>4. QED
    BY <1>1, <1>2, <1>3

LEMMA SequenceOf ==
    ASSUME NEW S \in SUBSET Names, NEW s \in [1 .. Cardinality(S) -> S]
    PROVE  /\ s \in Seq(Names) /\ Len(s) = Cardinality(S)
           /\ DOMAIN s = 1 .. Cardinality(S) /\ Cardinality(S) \in Nat
           /\ S # {} => s # << >>
           /\ \A n : S = {n} => Len(s) = 1 /\ s[1] = n
<1>1. IsFiniteSet(S)
    BY NamesFinite, FS_Subset
<1>2. Cardinality(S) \in Nat
    BY <1>1, FS_CardinalityType
<1>3. s \in Seq(Names) /\ Len(s) = Cardinality(S)
    BY <1>2
<1>4. S # {} => Cardinality(S) # 0
    BY <1>1, FS_EmptySet
<1>5. \A n : S = {n} => Cardinality(S) = 1
    BY FS_Singleton
<1>6. S # {} => s # << >>
    BY <1>2, <1>3, <1>4
<1>7. ASSUME NEW n, S = {n} PROVE Len(s) = 1 /\ s[1] = n
    <2>1. Cardinality(S) = 1
        BY <1>5, <1>7
    <2>2. Len(s) = 1 /\ s[1] \in S
        BY <1>3, <2>1
    <2>3. QED
        BY <1>7, <2>2
<1>8. QED
    BY <1>2, <1>3, <1>6, <1>7

LEMMA ClassifiedRight ==
    ASSUME NEW p \in PathSet, NEW b, NEW src \in Classify(p, b)
    PROVE  SourceOK(src) /\ FromPath(p, src) /\ src.kind # "none"
<1> DEFINE found == {n \in p.names : place[n] # Gone}
           Sources(kind, names) == {Source(kind, s) : s \in Ordered(names, Earlier)}
           local == IF p.form = "one" THEN "local_single" ELSE "local_multi"
<1>1. /\ p.scheme \in {"file", "https", "ssh", "ftp"}
      /\ p.form \in {"one", "glob", "dir", "malformed"}
      /\ p.names \subseteq Names
      /\ \/ p.scheme = "file" /\ p.form \in {"glob", "dir"}
         \/ p.scheme = "ssh" /\ p.form = "glob"
         \/ \E n \in Names : p.names = {n}
    BY InspectAssumptions, Zenon DEF PathSet
<1>2. ASSUME NEW code \in RefusalCodes, src = Refusal(code), code = "raised" => p.scheme = "ssh"
      PROVE  SourceOK(src) /\ FromPath(p, src)
    <2>1. src = [kind |-> "refused", names |-> << >>, code |-> code]
        BY <1>2 DEF Refusal
    <2>2. QED
        BY <1>2, <2>1 DEF SourceOK, FromPath, Kinds, Idle, Single, RefusalCodes
<1>3. ASSUME NEW kind \in Kinds \ Idle, NEW S \in SUBSET p.names, S # {},
             src \in Sources(kind, S),
             kind \in Single => \E n : S = {n}
      PROVE  /\ SourceOK(src) /\ src.kind = kind
             /\ \A n : S = {n} => src.names[1] = n
    <2>1. PICK s \in Ordered(S, Earlier) : src = Source(kind, s)
        BY <1>3
    <2>2. s \in [1 .. Cardinality(S) -> S] /\ S \subseteq Names
        BY <1>1, <2>1 DEF Ordered
    <2>3. s \in Seq(Names) /\ s # << >> /\ \A n : S = {n} => Len(s) = 1 /\ s[1] = n
        BY <1>3, <2>2, SequenceOf
    <2>4. src = [kind |-> kind, names |-> s, code |-> "ok"]
        BY <2>1 DEF Source
    <2>5. QED
        BY <1>3, <2>3, <2>4 DEF SourceOK
<1>4. src \in IF p.form = "malformed" \/ p.scheme = "ftp" THEN {Refusal("unsupported_path_scheme")}
              ELSE IF p.scheme = "https" THEN Sources("remote_url", p.names)
              ELSE IF p.scheme = "ssh" /\ p.form # "glob" THEN Sources("ssh_remote", p.names)
              ELSE IF p.scheme = "ssh" /\ b = "absent" THEN {Refusal("broker_required")}
              ELSE IF p.scheme = "ssh" /\ b = "fails" THEN {Refusal("raised")}
              ELSE IF found = {} THEN {Refusal("file_not_found")}
              ELSE Sources(IF p.scheme = "ssh" THEN "ssh_multi" ELSE local, found)
    BY Zenon DEF Classify
<1>5. CASE \E code \in RefusalCodes : /\ src = Refusal(code)
                                      /\ code = "raised" => p.scheme = "ssh"
    <2>1. SourceOK(src) /\ FromPath(p, src)
        BY <1>2, <1>5
    <2>2. QED
        BY <2>1 DEF FromPath
<1> HIDE DEF Sources
<1>6. CASE p.scheme = "https" /\ src \in Sources("remote_url", p.names)
    <2>1. SourceOK(src) /\ src.kind = "remote_url"
        BY <1>1, <1>3, <1>6 DEF Kinds, Idle
    <2>2. QED
        BY <1>6, <2>1 DEF FromPath
<1>7. CASE p.scheme = "ssh" /\ p.form # "glob" /\ src \in Sources("ssh_remote", p.names)
    <2>1. SourceOK(src) /\ src.kind = "ssh_remote"
        BY <1>1, <1>3, <1>7 DEF Kinds, Idle
    <2>2. QED
        BY <1>7, <2>1 DEF FromPath
<1>8. CASE p.scheme = "ssh" /\ found # {} /\ src \in Sources("ssh_multi", found)
    <2>1. SourceOK(src) /\ src.kind = "ssh_multi"
        BY <1>3, <1>8 DEF Kinds, Idle, Single
    <2>2. QED
        BY <1>8, <2>1 DEF FromPath
<1>9. CASE p.scheme = "file" /\ p.form # "one" /\ found # {} /\ src \in Sources("local_multi", found)
    <2>1. SourceOK(src) /\ src.kind = "local_multi"
        BY <1>3, <1>9 DEF Kinds, Idle, Single
    <2>2. QED
        BY <1>9, <2>1 DEF FromPath
<1>10. CASE p.scheme = "file" /\ p.form = "one" /\ found # {} /\ src \in Sources("local_single", found)
    <2>1. PICK n \in Names : p.names = {n}
        BY <1>1, <1>10
    <2>2. found = {n}
        BY <1>10, <2>1
    <2>3. SourceOK(src) /\ src.kind = "local_single" /\ src.names[1] = n
        BY <1>3, <1>10, <2>2 DEF Kinds, Idle
    <2>4. QED
        BY <1>10, <2>1, <2>3 DEF FromPath
<1>11. QED
    BY <1>1, <1>4, <1>5, <1>6, <1>7, <1>8, <1>9, <1>10 DEF RefusalCodes

(* A file named by itself is found when it is there.                        *)
LEMMA ClassifiedFound ==
    ASSUME NEW p \in PathSet, NEW b, NEW src \in Classify(p, b), NEW n,
           p.scheme = "file", p.form = "one", p.names = {n}, place[n] # Gone
    PROVE  src.kind = "local_single"
<1>1. {m \in p.names : place[m] # Gone} = {n}
    OBVIOUS
<1>2. src \in {Source("local_single", s) : s \in Ordered({n}, Earlier)}
    BY <1>1 DEF Classify
<1>3. QED
    BY <1>2 DEF Source

LEMMA OneOpened ==
    ASSUME NEW f \in Contents, NEW got \in OpenOne(f)
    PROVE  /\ \/ f \in Files /\ got = Got(Decoded(f))
              \/ /\ f \notin Files
                 /\ got.code \in {"file_not_found", "internal_error"} /\ got.file = Gone
           /\ got.code \in {"ok"} \cup OpenCodes
           /\ got.code = "ok" => Dataset(got.file) /\ got.file # Gone
           /\ got.code # "ok" => got.file = Gone
<1>0. Gone \notin Files /\ Unreadable \notin Files
    BY DEF Files
<1>1. CASE f = Gone
    <2>1. got \in Failed({"file_not_found"}) /\ f \notin Files
        BY <1>0, <1>1 DEF OpenOne
    <2>2. QED
        BY <2>1 DEF Failed, OpenCodes
<1>2. CASE f # Gone /\ f = Unreadable
    <2>1. got \in Failed({"file_not_found", "internal_error"}) /\ f \notin Files
        BY <1>0, <1>2 DEF OpenOne
    <2>2. QED
        BY <2>1 DEF Failed, OpenCodes
<1>3. CASE f # Gone /\ f # Unreadable
    <2>1. got = Got(Decoded(f)) /\ f \in Files
        BY <1>3 DEF OpenOne, Contents
    <2>2. got.code = "ok" /\ got.file = Decoded(f)
        BY <2>1 DEF Got
    <2>3. QED
        BY <2>1, <2>2, DecodedDataset
<1>4. QED
    BY <1>1, <1>2, <1>3

LEMMA MembersOf ==
    ASSUME NEW S, NEW fs \in Seq(S), fs # << >>
    PROVE  ToSet(fs) \subseteq S /\ Head(fs) \in ToSet(fs)
    BY DEF ToSet

(* Combined of files is a dataset.                                          *)
LEMMA CombinedDataset ==
    ASSUME NEW fs \in Seq(Contents), fs # << >>, NEW shape \in Shapes(fs), NEW flat,
           Gone \notin ToSet(fs), Unreadable \notin ToSet(fs),
           \A f \in ToSet(fs) : "times: undecodable" \notin f.attrs
    PROVE  Dataset(Combined(fs, shape, flat))
<1> DEFINE files == ToSet(fs)
           vars == UNION {f.vars : f \in files}
           coords == UNION {f.coords : f \in files}
           dated == {n \in UNION {f.dated : f \in files} :
                        \A f \in files : HasVars(f, {n}) => n \in f.dated}
           g == Combined(fs, shape, flat)
<1>1. g = [vars |-> vars, coords |-> coords, dims |-> shape, attrs |-> Head(fs).attrs,
           flat |-> flat, dated |-> dated]
    BY Zenon DEF Combined
<1>2. \E all : shape \in [all -> Sizes]
    BY DEF Shapes
<1> HIDE DEF vars, coords, dated, g
<1>3. files \subseteq Contents
    BY MembersOf
<1>4. files \subseteq Files
    BY <1>3 DEF Contents
<1>5. Head(fs) \in files
    BY MembersOf
<1> HIDE DEF files
<1>6. coords \subseteq vars
    BY <1>4, FilesAssumption DEF coords, vars
<1>7. "times: undecodable" \notin Head(fs).attrs
    BY <1>5 DEF files
<1>8. /\ DOMAIN g = FileFields /\ g.vars = vars /\ g.coords = coords /\ g.dims = shape
      /\ g.attrs = Head(fs).attrs
    BY <1>1 DEF FileFields
<1>9. \A d \in DOMAIN g.dims : g.dims[d] \in Nat
    BY <1>2, <1>8, InspectAssumptions
<1>10. Dataset(g)
    BY <1>6, <1>7, <1>8, <1>9 DEF Dataset
<1>11. QED
    BY <1>10 DEF g

LEMMA ManyOpened ==
    ASSUME NEW fs \in Seq(Contents), fs # << >>, NEW got \in OpenMany(fs)
    PROVE  /\ got.code \in {"ok"} \cup OpenCodes
           /\ got.code = "ok" => Dataset(got.file)
           /\ got.code # "ok" => got.file = Gone
<1>1. CASE \E codes \in SUBSET OpenCodes : got \in Failed(codes)
    <2>1. got.code \in OpenCodes /\ got.file = Gone
        BY <1>1 DEF Failed
    <2>2. QED
        BY <2>1 DEF OpenCodes
<1>2. CASE /\ \E s \in Shapes(fs), flat \in {Head(fs).flat, FALSE} : got = Got(Combined(fs, s, flat))
           /\ Gone \notin ToSet(fs) /\ Unreadable \notin ToSet(fs)
           /\ \A f \in ToSet(fs) : "times: undecodable" \notin f.attrs
    <2>1. PICK s \in Shapes(fs), flat \in {Head(fs).flat, FALSE} : got = Got(Combined(fs, s, flat))
        BY <1>2
    <2>2. got.code = "ok" /\ got.file = Combined(fs, s, flat)
        BY <2>1 DEF Got
    <2>3. Dataset(Combined(fs, s, flat))
        BY <1>2, CombinedDataset
    <2>4. QED
        BY <2>2, <2>3
<1>3. QED
    <2> DEFINE outcomes == UNION {{Got(Combined(fs, s, flat)) : s \in Shapes(fs)} :
                                      flat \in {Head(fs).flat, FALSE}}
               right == /\ Gone \notin ToSet(fs) /\ Unreadable \notin ToSet(fs)
                        /\ \A f \in ToSet(fs) : "times: undecodable" \notin f.attrs
               shared == \E f \in ToSet(fs) : \E d \in Dims(f) : \A g \in ToSet(fs) : HasDims(g, {d})
               decodable == \A f \in ToSet(fs) : "times: undecodable" \notin f.attrs
    <2>1. got \in IF Gone \in ToSet(fs) THEN Failed({"file_not_found"})
                  ELSE IF Unreadable \in ToSet(fs) THEN Failed({"file_not_found", "internal_error"})
                  ELSE Failed({"internal_error"}) \cup (IF shared /\ decodable THEN outcomes ELSE {})
        BY Zenon DEF OpenMany
    <2> HIDE DEF outcomes, shared
    <2>2. \/ got \in Failed({"file_not_found"})
          \/ got \in Failed({"file_not_found", "internal_error"})
          \/ got \in Failed({"internal_error"})
          \/ got \in outcomes /\ right
        BY <2>1
    <2>3. got \in outcomes =>
            \E s \in Shapes(fs), flat \in {Head(fs).flat, FALSE} : got = Got(Combined(fs, s, flat))
        BY Zenon DEF outcomes
    <2>4. /\ {"file_not_found"} \in SUBSET OpenCodes /\ {"internal_error"} \in SUBSET OpenCodes
          /\ {"file_not_found", "internal_error"} \in SUBSET OpenCodes
        BY DEF OpenCodes
    <2> HIDE DEF right
    <2>5. (\E codes \in SUBSET OpenCodes : got \in Failed(codes)) \/ (got \in outcomes /\ right)
        BY <2>2, <2>4, Zenon
    <2>6. QED
        BY <1>1, <1>2, <2>3, <2>5 DEF right

LEMMA OpenedRight ==
    ASSUME place \in [Names -> Contents], NEW src, SourceOK(src), src.kind \notin Idle,
           NEW got \in Open(src)
    PROVE  /\ got.code \in {"ok"} \cup OpenCodes
           /\ got.code = "ok" => Dataset(got.file)
           /\ got.code # "ok" => got.file = Gone
           /\ got.code = "ok" /\ Len(src.names) = 1 =>
                 /\ place[src.names[1]] \in Files
                 /\ got.file = Decoded(place[src.names[1]])
           /\ src.kind = "local_single" /\ place[src.names[1]] \in Files =>
                 got.code = "ok" /\ got.file # Gone
<1> DEFINE fs == [i \in DOMAIN src.names |-> place[src.names[i]]]
           f == place[src.names[1]]
<1>1. /\ src.kind \in Kinds /\ src.names \in Seq(Names) /\ src.names # << >>
      /\ src.kind \in Single => Len(src.names) = 1
    BY DEF SourceOK
<1>2. fs \in Seq(Contents) /\ fs # << >> /\ Len(fs) = Len(src.names) /\ fs[1] = f /\ f \in Contents
    BY <1>1
<1>3. Open(src) = CASE src.kind = "local_single" -> OpenOne(fs[1])
                    [] src.kind = "local_multi" -> IF Len(fs) = 1 THEN OpenOne(fs[1]) ELSE OpenMany(fs)
                    [] src.kind = "remote_url" -> OpenOne(fs[1]) \cup Failed({"remote_file_not_found"})
                    [] src.kind = "ssh_remote" -> OpenSsh(fs[1])
                    [] src.kind = "ssh_multi" -> IF Len(fs) = 1 THEN OpenSsh(fs[1])
                                                 ELSE Failed({"file_not_found", "internal_error"})
    BY Zenon DEF Open
<1> HIDE DEF fs, f
<1>4. \/ got \in OpenOne(f)
      \/ src.kind = "local_multi" /\ Len(src.names) # 1 /\ got \in OpenMany(fs)
      \/ src.kind # "local_single" /\ \E codes \in SUBSET OpenCodes : got \in Failed(codes)
    <2>1. /\ {"file_not_found", "internal_error"} \in SUBSET OpenCodes
          /\ {"remote_file_not_found"} \in SUBSET OpenCodes
          /\ {"ssh_auth_needed", "remote_file_not_found", "internal_error"} \in SUBSET OpenCodes
        BY DEF OpenCodes
    <2>2. got \in OpenSsh(f) => \/ got \in OpenOne(f)
                                \/ \E codes \in SUBSET OpenCodes : got \in Failed(codes)
        BY <2>1, Zenon DEF OpenSsh
    <2>3. CASE src.kind = "local_single"
        BY <1>2, <1>3, <2>3
    <2>4. CASE src.kind = "local_multi"
        BY <1>2, <1>3, <2>4
    <2>5. CASE src.kind = "remote_url"
        <3>1. got \in OpenOne(f) \cup Failed({"remote_file_not_found"})
            BY <1>2, <1>3, <2>5
        <3>2. QED
            BY <2>1, <2>5, <3>1
    <2>6. CASE src.kind = "ssh_remote"
        <3>1. got \in OpenSsh(f)
            BY <1>2, <1>3, <2>6
        <3>2. QED
            BY <2>2, <2>6, <3>1
    <2>7. CASE src.kind = "ssh_multi"
        <3>1. got \in OpenSsh(f) \/ got \in Failed({"file_not_found", "internal_error"})
            BY <1>2, <1>3, <2>7
        <3>2. QED
            BY <2>1, <2>2, <2>7, <3>1
    <2>8. QED
        BY <1>1, <2>3, <2>4, <2>5, <2>6, <2>7 DEF Kinds, Idle
<1>5. CASE got \in OpenOne(f)
    <2>1. f \in Files => got.code = "ok" /\ got.file = Decoded(f)
        BY <1>2, <1>5, OneOpened DEF Got, OpenCodes
    <2>2. got.code = "ok" => f \in Files
        BY <1>2, <1>5, OneOpened
    <2>3. QED
        BY <1>2, <1>5, <2>1, <2>2, OneOpened DEF f
<1>6. CASE src.kind = "local_multi" /\ Len(src.names) # 1 /\ got \in OpenMany(fs)
    BY <1>2, <1>6, ManyOpened
<1>7. CASE src.kind # "local_single" /\ \E codes \in SUBSET OpenCodes : got \in Failed(codes)
    <2>1. got.code \in OpenCodes /\ got.file = Gone /\ got.code # "ok"
        BY <1>7 DEF Failed, OpenCodes
    <2>2. QED
        BY <1>7, <2>1
<1>8. QED
    BY <1>4, <1>5, <1>6, <1>7
-----------------------------------------------------------------------------
(* Answers.                                                                 *)

LEMMA ReplyParts ==
    ASSUME NEW code
    PROVE  /\ Reply(code).code = code /\ Reply(code).spatial = None /\ Reply(code).time = "none"
           /\ None \in Geometry
    BY DEF Reply, None, Geometry

LEMMA SummaryParts ==
    ASSUME NEW f, NEW sp \in Geometry
    PROVE  \/ /\ Summary(f, sp) = Reply("internal_error")
              /\ sp = Raises \/ TimeOf(f, Producer(f)) = "raises"
           \/ /\ Summary(f, sp).code = "success" /\ Summary(f, sp).spatial = sp
              /\ Summary(f, sp).time = TimeOf(f, Producer(f))
              /\ Summary(f, sp).warned <=>
                    \/ "_metplot_time_decode_failed" \in f.attrs
                    \/ TimeOf(f, Producer(f)) = "none" /\ Untimed(f) # {}
<1> DEFINE time == TimeOf(f, Producer(f))
           noted == "_metplot_time_decode_failed" \in f.attrs
           untimed == Untimed(f) # {}
<1>1. Summary(f, sp) = IF sp = Raises \/ time = "raises" THEN Reply("internal_error")
                       ELSE [code |-> "success", spatial |-> sp, time |-> time,
                             warned |-> noted \/ (time = "none" /\ untimed)]
    BY Zenon DEF Summary
<1> HIDE DEF time, noted, untimed
<1>2. CASE sp = Raises \/ time = "raises"
    BY <1>1, <1>2 DEF time
<1>3. CASE ~(sp = Raises \/ time = "raises")
    <2>1. Summary(f, sp) = [code |-> "success", spatial |-> sp, time |-> time,
                            warned |-> noted \/ (time = "none" /\ untimed)]
        BY <1>1, <1>3
    <2>2. /\ Summary(f, sp).code = "success" /\ Summary(f, sp).spatial = sp
          /\ Summary(f, sp).time = time
          /\ Summary(f, sp).warned = (noted \/ (time = "none" /\ untimed))
        BY <2>1
    <2> HIDE DEF time
    <2>3. QED
        BY <2>2, Zenon DEF time, noted, untimed
<1>4. QED
    BY <1>2, <1>3

(* Only texts of a WRF file that are no dates raise.                        *)
LEMMA RaisingTime ==
    ASSUME NEW f, TimeOf(f, Producer(f)) = "raises"
    PROVE  Producer(f) \notin Paired
<1>1. CfTime(f) \in {"dates", "none"}
    BY Zenon DEF CfTime
<1>2. QED
    BY <1>1 DEF TimeOf, Paired

(* Of a time that is missing although a dimension is named for it, either   *)
(* something is told or a variable of such a name holds no dates.           *)
LEMMA TimeMissing ==
    ASSUME NEW f, Dataset(f), TimeOf(f, Producer(f)) = "none",
           ToSet(TimeNames) \cap Dims(f) # {}, Untimed(f) = {}
    PROVE  \E n \in ToSet(TimeNames) \cap f.vars : n \notin f.dated
<1> DEFINE named == {i \in DOMAIN TimeNames : TimeNames[i] \in f.coords \cup Dims(f)}
           first == Min(named)
<1>1. DOMAIN TimeNames = 1 .. 4
    BY DEF TimeNames
<1>2. \A n : n \in ToSet(TimeNames) <=> \E i \in DOMAIN TimeNames : TimeNames[i] = n
    BY DEF ToSet
<1>3. named # {} /\ named \subseteq 1 .. 7
    BY <1>1, <1>2
<1>4. first \in named
    BY <1>3, LeastExists
<1>5. CfTime(f) = "none"
    BY DEF TimeOf, WrfTimes
<1>6. CfTime(f) = IF named # {} /\ TimeNames[first] \in f.dated THEN "dates" ELSE "none"
    BY Zenon DEF CfTime
<1>7. TimeNames[first] \notin f.dated
    BY <1>3, <1>5, <1>6
<1>8. TimeNames[first] \in f.vars
    <2>1. CASE TimeNames[first] \in f.coords
        BY <2>1 DEF Dataset
    <2>2. CASE TimeNames[first] \in Dims(f)
        BY <1>4, <2>2 DEF Untimed
    <2>3. QED
        BY <1>4, <2>1, <2>2
<1>9. QED
    BY <1>2, <1>4, <1>7, <1>8
-----------------------------------------------------------------------------
(* The inductive invariant.                                                 *)

PairTypes ==
    /\ place \in [Names -> Contents] /\ replaced \in 0 .. MaxReplaced
    /\ at \in {"idle", "opening", "pairing", "concluding", "ranking"}
    /\ call.path \in Paths \cup {NoPath} /\ call.mesh \in MeshPaths \cup {NoPath}
    /\ SourceOK(call.src) /\ SourceOK(call.geo)
    /\ call.path # NoPath => FromPath(call.path, call.src)
    /\ IF call.mesh # NoPath THEN FromPath(call.mesh, call.geo) ELSE call.geo = NoSource
    /\ touched \in [offer : BOOLEAN, mesh : BOOLEAN]

(* What a call has done by the place it is at.                              *)
Stages ==
    /\ at # "idle" => /\ call.path # NoPath /\ call.src.kind \notin Idle
                      /\ call.geo.kind # "refused"
    /\ at = "pairing" => call.mesh # NoPath
    /\ at \in {"pairing", "concluding"} => Dataset(ds)
    /\ mds # Gone => Dataset(mds)
    /\ at \in {"concluding", "ranking"} /\ call.geo.kind = "local_single" => mds # Gone

(* The candidates of a single local file, and which of them fit, until a    *)
(* file is replaced.                                                        *)
RankingFields == DOMAIN ranking = {"found", "history", "opened", "fit"}

Ranking ==
    /\ RankingFields
    /\ ranking.found \subseteq Names
    /\ ranking.opened \subseteq ranking.found /\ ranking.fit \subseteq ranking.opened
    /\ at = "ranking" =>
          /\ mds = Gone /\ offer.names = << >>
          /\ \E h \in Names :
                /\ call.path.names = {h} /\ call.path.scheme = "file" /\ call.path.form = "one"
                /\ h \notin ranking.found /\ \A n \in ranking.found : Hits[n] # {}
                /\ ~touched.offer =>
                      \/ Cardinality(ranking.found) < 2
                      \/ /\ ranking.history = place[h]
                         /\ \A n \in ranking.opened : n \in ranking.fit <=> Fits(h, n)

(* A summary is that of what is open.                                       *)
Summarised ==
    /\ Dataset(ds) /\ told = Summary(ds, told.spatial)
    /\ Producer(ds) \in Paired =>
          \/ /\ mds # Gone /\ DimsFit(ds.dims, mds.dims)
             /\ told.spatial = PairGeometry(ds, mds, Producer(ds))
          \/ mds = Gone /\ (call.src.kind # "local_single" \/ told.spatial # None)
    /\ Producer(ds) \notin Paired => told.spatial.form # "cells"

Telling ==
    /\ told.code \in Codes /\ told.spatial \in Geometry
    /\ told.spatial # None \/ told.time = "dates" => told.code = "success"
    /\ at # "idle" => told.code = "nothing"
    /\ told.code = "raised" =>
          \/ call.mesh = NoPath
          \/ ds = Gone /\ \E p \in {call.path, call.mesh} : p.scheme = "ssh"
    /\ told.code = "success" => Summarised

(* The first offer fits if any does, until a file is replaced.              *)
Offering ==
    /\ offer.names \in Seq(Names) /\ IsInjective(offer.names)
    /\ offer.path = NoPath => offer.names = << >>
    /\ offer.path # NoPath =>
          \E h \in Names :
             /\ offer.path \in Paths /\ offer.path.names = {h}
             /\ offer.path.scheme = "file" /\ offer.path.form = "one"
             /\ h \notin ToSet(offer.names)
             /\ ~touched.offer =>
                   \A n \in ToSet(offer.names) : Fits(h, n) => Fits(h, offer.names[1])

(* The call that takes the first offer, which fits, for the prompted path.  *)
Retry(h, m) ==
    /\ ~touched.offer /\ offer.names # << >> /\ m = offer.names[1]
    /\ call.path = offer.path /\ call.path.names = {h}
    /\ call.mesh # NoPath /\ call.mesh.scheme = "file" /\ call.mesh.form = "one"
    /\ call.mesh.names = {m}
    /\ Fits(h, m) /\ Producer(place[h]) \in Paired

Retrying ==
    \A h \in Names, m \in Names : Retry(h, m) =>
        /\ at # "idle" => call.src.kind = "local_single" /\ call.geo.kind = "local_single"
        /\ at \in {"pairing", "concluding"} => ds = Decoded(place[h])
        /\ at = "concluding" => mds = Decoded(place[m])
        /\ at = "idle" => told.code \in {"nothing", "success"}

(* The mesh that is open is the file, and what was drawn was drawn on it,   *)
(* until a file is replaced.                                                *)
Drawing ==
    /\ mds # Gone /\ ~touched.mesh /\ Len(call.geo.names) = 1 =>
          /\ place[call.geo.names[1]] \in Files
          /\ mds = Decoded(place[call.geo.names[1]])
    /\ drawn # "nothing" =>
          /\ at = "idle" /\ told.code = "success" /\ told.spatial.form = "cells"
          /\ mds # Gone /\ Len(call.geo.names) = 1
          /\ ~touched.mesh => drawn = DrawnOn(place[call.geo.names[1]], CellsOf(ds))

PairInv == PairTypes /\ Stages /\ Ranking /\ Telling /\ Offering /\ Retrying /\ Drawing

LEMMA InvInit ==
    ASSUME PairInit
    PROVE  PairInv
<1>1. /\ place \in [Names -> Contents] /\ replaced = 0 /\ at = "idle" /\ ds = Gone /\ mds = Gone
      /\ call = NoCall /\ told = Silent /\ offer = NoOffer /\ drawn = "nothing"
      /\ touched = [offer |-> FALSE, mesh |-> FALSE] /\ ranking = NoRanking
    BY InspectAssumptions, Zenon DEF PairInit, Contents
<1>2. /\ call.path = NoPath /\ call.mesh = NoPath /\ call.src = NoSource /\ call.geo = NoSource
      /\ offer.path = NoPath /\ offer.names = << >>
    BY <1>1 DEF NoCall, NoOffer
<1>3. SourceOK(NoSource)
    BY DEF SourceOK, NoSource, Source, Kinds, Idle, Single
<1>4. told.code = "nothing" /\ told.spatial = None /\ told.time = "none" /\ None \in Geometry
    BY <1>1, ReplyParts DEF Silent
<1>5. PairTypes
    BY <1>1, <1>2, <1>3, InspectAssumptions DEF PairTypes
<1>6. Stages
    BY <1>1 DEF Stages
<1>7. Telling
    BY <1>1, <1>4 DEF Telling, Codes
<1>8. Offering
    BY <1>2 DEF Offering, IsInjective
<1>9. Retrying
    BY <1>2 DEF Retrying, Retry
<1>10. Drawing
    BY <1>1 DEF Drawing
<1>11. Ranking
    BY <1>1 DEF Ranking, RankingFields, NoRanking
<1>12. QED
    BY <1>5, <1>6, <1>7, <1>8, <1>9, <1>10, <1>11 DEF PairInv

(* Fits and Retry depend on the files there are only.                       *)
LEMMA FitsKept ==
    ASSUME place' = place
    PROVE  \A h, m : Fits(h, m)' = Fits(h, m)
    BY Zenon DEF Fits, FitTogether

LEMMA CallStep ==
    ASSUME PairInv, NEW p \in Paths, NEW m \in MeshPaths \cup {NoPath}, Call(p, m)
    PROVE  PairInv'
<1> USE DEF PairInv
<1>1. /\ at = "idle" /\ ds' = Gone /\ mds' = Gone /\ drawn' = "nothing"
      /\ place' = place /\ replaced' = replaced /\ offer' = offer /\ touched' = touched
      /\ ranking' = ranking
    BY DEF Call
<1>2. PICK b \in Broker(p), c \in Broker(m) :
        \E src \in Classify(p, b), geo \in (IF m = NoPath THEN {NoSource} ELSE Classify(m, c)) :
             /\ call' = [path |-> p, mesh |-> m, src |-> src, geo |-> geo]
             /\ \/ src.kind = "refused" /\ Answer(Reply(src.code))
                \/ /\ src.kind # "refused" /\ geo.kind = "refused"
                   /\ Answer(Reply(IF geo.code = "broker_required" THEN "file_not_found"
                                   ELSE geo.code))
                \/ /\ src.kind = "ssh_remote" /\ geo.kind # "refused" /\ b # "absent"
                   /\ Answer(Reply(IF b = "up" THEN "header" ELSE "raised"))
                \/ /\ src.kind # "refused" /\ geo.kind # "refused"
                   /\ src.kind = "ssh_remote" => b # "fails"
                   /\ at' = "opening" /\ told' = Silent
    BY Zenon DEF Call
<1>3. PICK src \in Classify(p, b), geo \in (IF m = NoPath THEN {NoSource} ELSE Classify(m, c)) :
             /\ call' = [path |-> p, mesh |-> m, src |-> src, geo |-> geo]
             /\ \/ src.kind = "refused" /\ Answer(Reply(src.code))
                \/ /\ src.kind # "refused" /\ geo.kind = "refused"
                   /\ Answer(Reply(IF geo.code = "broker_required" THEN "file_not_found"
                                   ELSE geo.code))
                \/ /\ src.kind = "ssh_remote" /\ geo.kind # "refused" /\ b # "absent"
                   /\ Answer(Reply(IF b = "up" THEN "header" ELSE "raised"))
                \/ /\ src.kind # "refused" /\ geo.kind # "refused"
                   /\ src.kind = "ssh_remote" => b # "fails"
                   /\ at' = "opening" /\ told' = Silent
    BY <1>2, Zenon
<1>4. call'.path = p /\ call'.mesh = m /\ call'.src = src /\ call'.geo = geo
    BY <1>3
<1>5. p \in PathSet /\ p # NoPath /\ (m # NoPath => m \in PathSet)
    BY InspectAssumptions DEF PathSet
<1>6. SourceOK(src) /\ FromPath(p, src) /\ src.kind # "none"
    BY <1>5, ClassifiedRight
<1>7. /\ m # NoPath => SourceOK(geo) /\ FromPath(m, geo)
      /\ m = NoPath => geo = NoSource
    BY <1>5, ClassifiedRight
<1>8. SourceOK(NoSource) /\ NoSource.kind = "none"
    BY DEF SourceOK, NoSource, Source, Kinds, Idle, Single
<1>9. SourceOK(geo)
    BY <1>7, <1>8
<1>10. \/ /\ at' = "idle" /\ told'.spatial = None /\ told'.time = "none"
          /\ told'.code \in RefusalCodes \cup {"header"}
          /\ told'.code = "raised" => \E q \in {p, m} : q.scheme = "ssh"
          /\ \/ src.kind = "refused" \/ geo.kind = "refused" \/ src.kind = "ssh_remote"
       \/ /\ at' = "opening" /\ told' = Silent
          /\ src.kind # "refused" /\ geo.kind # "refused"
    <2>1. CASE src.kind = "refused" /\ Answer(Reply(src.code))
        <3>1. src.code \in RefusalCodes /\ (src.code = "raised" => p.scheme = "ssh")
            BY <1>6, <2>1 DEF FromPath
        <3>2. at' = "idle" /\ told' = Reply(src.code)
            BY <2>1 DEF Answer
        <3>3. QED
            BY <1>5, <2>1, <3>1, <3>2, ReplyParts
    <2>2. CASE /\ src.kind # "refused" /\ geo.kind = "refused"
               /\ Answer(Reply(IF geo.code = "broker_required" THEN "file_not_found"
                               ELSE geo.code))
        <3>1. m # NoPath
            BY <1>7, <1>8, <2>2
        <3>2. geo.code \in RefusalCodes /\ (geo.code = "raised" => m.scheme = "ssh")
            BY <1>7, <2>2, <3>1 DEF FromPath
        <3> DEFINE code == IF geo.code = "broker_required" THEN "file_not_found" ELSE geo.code
        <3>3. at' = "idle" /\ told' = Reply(code)
            BY <2>2 DEF Answer
        <3>4. code \in RefusalCodes /\ (code = "raised" => m.scheme = "ssh")
            BY <3>2 DEF RefusalCodes
        <3> HIDE DEF code
        <3>5. QED
            BY <2>2, <3>1, <3>3, <3>4, ReplyParts
    <2>3. CASE /\ src.kind = "ssh_remote" /\ geo.kind # "refused" /\ b # "absent"
               /\ Answer(Reply(IF b = "up" THEN "header" ELSE "raised"))
        <3> DEFINE code == IF b = "up" THEN "header" ELSE "raised"
        <3>1. at' = "idle" /\ told' = Reply(code)
            BY <2>3 DEF Answer
        <3>2. code \in RefusalCodes \cup {"header"}
            BY DEF RefusalCodes
        <3>3. p.scheme = "ssh"
            BY <1>6, <2>3 DEF FromPath
        <3> HIDE DEF code
        <3>4. QED
            BY <1>5, <2>3, <3>1, <3>2, <3>3, ReplyParts
    <2>4. CASE /\ src.kind # "refused" /\ geo.kind # "refused"
               /\ src.kind = "ssh_remote" => b # "fails"
               /\ at' = "opening" /\ told' = Silent
        BY <2>4
    <2>5. QED
        BY <1>3, <2>1, <2>2, <2>3, <2>4
<1>11. Silent.code = "nothing" /\ Silent.spatial = None /\ Silent.time = "none" /\ None \in Geometry
    BY ReplyParts DEF Silent
<1>12. PairTypes'
    <2>1. IF m # NoPath THEN FromPath(m, geo) ELSE geo = NoSource
        BY <1>7
    <2>2. at' \in {"idle", "opening", "pairing", "concluding"}
        BY <1>10
    <2>3. QED
        BY <1>1, <1>4, <1>6, <1>9, <2>1, <2>2 DEF PairTypes
<1>13. Stages'
    BY <1>1, <1>4, <1>5, <1>6, <1>10 DEF Stages, Idle
<1>14. Telling'
    <2>1. told'.code # "success" /\ told'.code \in Codes
        BY <1>10, <1>11 DEF RefusalCodes, Codes
    <2>2. told'.spatial = None /\ told'.time = "none"
        BY <1>10, <1>11
    <2>3. at' # "idle" => told'.code = "nothing"
        BY <1>10, <1>11
    <2>4. told'.code = "raised" => \E q \in {p, m} : q.scheme = "ssh"
        BY <1>10, <1>11
    <2>5. QED
        BY <1>1, <1>4, <1>11, <2>1, <2>2, <2>3, <2>4 DEF Telling
<1>15. Offering'
    BY <1>1, FitsKept DEF Offering
<1>16. Retrying'
    <2>1. SUFFICES ASSUME NEW h \in Names, NEW n \in Names, Retry(h, n)'
                   PROVE  /\ at' # "idle"
                          /\ src.kind = "local_single" /\ geo.kind = "local_single"
                          /\ at' = "opening"
        BY <1>4 DEF Retrying
    <2>2. /\ p.names = {h} /\ offer.path = p /\ m # NoPath
          /\ m.scheme = "file" /\ m.form = "one" /\ m.names = {n} /\ Fits(h, n)
        BY <1>1, <1>4, <2>1, FitsKept DEF Retry
    <2>3. p.scheme = "file" /\ p.form = "one"
        BY <1>5, <2>2 DEF Offering
    <2>4. place[h] # Gone /\ place[n] # Gone
        BY <2>2 DEF Fits, FitTogether, Files
    <2>5. src.kind = "local_single"
        BY <1>5, <2>2, <2>3, <2>4, ClassifiedFound
    <2>6. geo.kind = "local_single"
        BY <1>5, <2>2, <2>4, ClassifiedFound
    <2>7. QED
        BY <1>10, <2>5, <2>6
<1>17. Drawing'
    BY <1>1 DEF Drawing
<1>18. Ranking'
    BY <1>1, <1>10 DEF Ranking, RankingFields
<1>19. QED
    BY <1>12, <1>13, <1>14, <1>15, <1>16, <1>17, <1>18

LEMMA AskCacheStep ==
    ASSUME PairInv, AskCache
    PROVE  PairInv'
<1> USE DEF PairInv
<1>1. /\ at = "opening" /\ call.mesh = NoPath /\ at' = "idle" /\ told' = Reply("raised")
      /\ place' = place /\ replaced' = replaced /\ call' = call /\ ds' = ds /\ mds' = mds
      /\ ranking' = ranking /\ offer' = offer /\ touched' = touched /\ drawn' = drawn
    BY DEF AskCache, Answer
<1>2. /\ told'.code = "raised" /\ told'.spatial = None /\ told'.time = "none"
      /\ None \in Geometry
    BY <1>1, ReplyParts
<1>3. PairTypes'
    BY <1>1 DEF PairTypes
<1>4. Stages'
    BY <1>1 DEF Stages, Dataset
<1>5. Telling'
    BY <1>1, <1>2 DEF Telling, Codes
<1>6. Offering'
    BY <1>1, FitsKept DEF Offering
<1>7. Retrying'
    BY <1>1 DEF Retrying, Retry
<1>8. drawn = "nothing"
    BY <1>1 DEF Drawing
<1>9. Drawing'
    BY <1>1, <1>8 DEF Drawing
<1>10. Ranking'
    BY <1>1 DEF Ranking, RankingFields
<1>11. QED
    BY <1>3, <1>4, <1>5, <1>6, <1>7, <1>9, <1>10

LEMMA OpenHistoryStep ==
    ASSUME PairInv, OpenHistory
    PROVE  PairInv'
<1> USE DEF PairInv
<1>1. /\ at = "opening"
      /\ place' = place /\ replaced' = replaced /\ call' = call /\ mds' = mds
      /\ offer' = offer /\ touched' = touched /\ drawn' = drawn /\ ranking' = ranking
    BY DEF OpenHistory
<1>2. PICK got \in Open(call.src) :
          /\ ds' = got.file
          /\ IF got.code # "ok" THEN Answer(Reply(got.code))
             ELSE /\ at' = IF call.mesh = NoPath THEN "concluding" ELSE "pairing"
                  /\ UNCHANGED told
    BY Zenon DEF OpenHistory
<1>3. /\ call.path # NoPath /\ call.src.kind \notin Idle /\ call.geo.kind # "refused"
      /\ SourceOK(call.src) /\ place \in [Names -> Contents]
    BY <1>1 DEF Stages, PairTypes
<1>4. /\ got.code \in {"ok"} \cup OpenCodes
      /\ got.code = "ok" => Dataset(got.file)
      /\ got.code = "ok" /\ Len(call.src.names) = 1 =>
            /\ place[call.src.names[1]] \in Files
            /\ got.file = Decoded(place[call.src.names[1]])
      /\ call.src.kind = "local_single" /\ place[call.src.names[1]] \in Files => got.code = "ok"
    BY <1>3, OpenedRight
<1>5. \/ /\ got.code # "ok" /\ at' = "idle" /\ told'.code \in OpenCodes
         /\ told'.spatial = None /\ told'.time = "none"
      \/ /\ got.code = "ok" /\ at' = (IF call.mesh = NoPath THEN "concluding" ELSE "pairing")
         /\ told' = told
    BY <1>2, <1>4, ReplyParts DEF Answer
<1>6. told.code = "nothing"
    BY <1>1 DEF Telling
<1>7. PairTypes'
    BY <1>1, <1>5 DEF PairTypes
<1>8. Stages'
    <2>1. call.mesh = NoPath => call.geo.kind # "local_single"
        BY DEF PairTypes, NoSource, Source
    <2>2. at' # "idle" => Dataset(ds')
        BY <1>2, <1>4, <1>5
    <2>3. at' \in {"idle", "pairing", "concluding"}
        BY <1>5
    <2>4. at' = "pairing" => call.mesh # NoPath
        BY <1>5
    <2>5. at' = "concluding" => call.mesh = NoPath
        BY <1>5
    <2>6. Dataset(mds)' <=> Dataset(mds')
        BY DEF Dataset
    <2>7. Dataset(ds)' <=> Dataset(ds')
        BY DEF Dataset
    <2>8. QED
        BY <1>1, <1>3, <2>1, <2>2, <2>3, <2>4, <2>5, <2>6, <2>7 DEF Stages
<1>9. Telling'
    <2>1. told'.code # "success" /\ told'.code # "raised" /\ told'.code \in Codes
        BY <1>5, <1>6 DEF OpenCodes, Codes
    <2>2. told'.spatial \in Geometry /\ told'.spatial = None /\ told'.time # "dates"
        BY <1>5, <1>6, ReplyParts DEF Telling
    <2>3. at' # "idle" => told'.code = "nothing"
        BY <1>5, <1>6
    <2>4. QED
        BY <2>1, <2>2, <2>3 DEF Telling
<1>10. Offering'
    BY <1>1, FitsKept DEF Offering
<1>11. Retrying'
    <2>1. SUFFICES ASSUME NEW h \in Names, NEW m \in Names, Retry(h, m)'
                   PROVE  /\ at' # "idle" /\ at' # "concluding"
                          /\ call.src.kind = "local_single" /\ call.geo.kind = "local_single"
                          /\ ds' = Decoded(place[h])
        BY <1>1 DEF Retrying
    <2>2. Retry(h, m)
        BY <1>1, <2>1, FitsKept DEF Retry
    <2>3. call.src.kind = "local_single" /\ call.geo.kind = "local_single"
        BY <1>1, <2>2 DEF Retrying
    <2>4. call.path.names = {call.src.names[1]} /\ Len(call.src.names) = 1
        BY <1>3, <2>3 DEF PairTypes, FromPath, SourceOK, Single
    <2>5. call.src.names[1] = h /\ place[h] \in Files /\ call.mesh # NoPath
        BY <2>2, <2>4 DEF Retry, Fits, FitTogether
    <2>6. QED
        BY <1>2, <1>4, <1>5, <2>3, <2>4, <2>5
<1>12. Drawing'
    <2>1. drawn = "nothing"
        BY <1>1 DEF Drawing
    <2>2. QED
        BY <1>1, <2>1 DEF Drawing
<1>13. Ranking'
    BY <1>1, <1>5 DEF Ranking, RankingFields
<1>14. QED
    BY <1>7, <1>8, <1>9, <1>10, <1>11, <1>12, <1>13

LEMMA OpenMeshStep ==
    ASSUME PairInv, OpenMesh
    PROVE  PairInv'
<1> USE DEF PairInv
<1>1. /\ at = "pairing"
      /\ place' = place /\ replaced' = replaced /\ call' = call /\ ds' = ds
      /\ offer' = offer /\ touched' = [touched EXCEPT !.mesh = FALSE] /\ drawn' = drawn
      /\ ranking' = ranking
    BY DEF OpenMesh
<1>2. PICK got \in Open(call.geo) :
          /\ mds' = got.file
          /\ IF got.code # "ok"
             THEN Answer(Reply(IF got.code = "file_not_found" THEN got.code
                               ELSE "internal_error"))
             ELSE at' = "concluding" /\ UNCHANGED told
    BY Zenon DEF OpenMesh
<1>3. /\ call.path # NoPath /\ call.src.kind \notin Idle /\ call.geo.kind # "refused"
      /\ call.mesh # NoPath /\ FromPath(call.mesh, call.geo)
      /\ SourceOK(call.geo) /\ place \in [Names -> Contents] /\ Dataset(ds)
    BY <1>1 DEF Stages, PairTypes
<1>4. call.geo.kind \notin Idle
    BY <1>3 DEF FromPath, Idle
<1>5. /\ got.code \in {"ok"} \cup OpenCodes
      /\ got.code = "ok" => Dataset(got.file)
      /\ got.code # "ok" => got.file = Gone
      /\ got.code = "ok" /\ Len(call.geo.names) = 1 =>
            /\ place[call.geo.names[1]] \in Files
            /\ got.file = Decoded(place[call.geo.names[1]])
      /\ call.geo.kind = "local_single" /\ place[call.geo.names[1]] \in Files =>
            got.code = "ok"
    BY <1>3, <1>4, OpenedRight
<1>6. \/ /\ got.code # "ok" /\ at' = "idle" /\ told'.code \in {"file_not_found", "internal_error"}
         /\ told'.spatial = None /\ told'.time = "none"
      \/ got.code = "ok" /\ at' = "concluding" /\ told' = told
    BY <1>2, <1>5, ReplyParts DEF Answer
<1>7. told.code = "nothing"
    BY <1>1 DEF Telling
<1>8. touched'.mesh = FALSE /\ touched'.offer = touched.offer
      /\ touched' \in [offer : BOOLEAN, mesh : BOOLEAN]
    BY <1>1 DEF PairTypes
<1>9. PairTypes'
    BY <1>1, <1>6, <1>8 DEF PairTypes
<1>10. Dataset(mds)' <=> Dataset(mds')
    BY DEF Dataset
<1>11. Stages'
    <2>1. mds' # Gone => Dataset(mds')
        BY <1>2, <1>5
    <2>2. call.geo.kind = "local_single" /\ got.code = "ok" => mds' # Gone
        <3>1. call.geo.kind = "local_single" => Len(call.geo.names) = 1
            BY <1>3 DEF SourceOK, Single
        <3>2. QED
            BY <1>2, <1>5, <3>1, DecodedDataset
    <2>3. Dataset(ds)' <=> Dataset(ds')
        BY DEF Dataset
    <2>4. QED
        BY <1>1, <1>3, <1>6, <1>10, <2>1, <2>2, <2>3 DEF Stages
<1>12. Telling'
    <2>1. told'.code # "success" /\ told'.code # "raised" /\ told'.code \in Codes
        BY <1>6, <1>7 DEF Codes
    <2>2. told'.spatial \in Geometry /\ told'.spatial = None /\ told'.time # "dates"
        BY <1>6, <1>7, ReplyParts DEF Telling
    <2>3. at' # "idle" => told'.code = "nothing"
        BY <1>6, <1>7
    <2>4. QED
        BY <2>1, <2>2, <2>3 DEF Telling
<1>13. Offering'
    BY <1>1, <1>8, FitsKept DEF Offering
<1>14. Retrying'
    <2>1. SUFFICES ASSUME NEW h \in Names, NEW m \in Names, Retry(h, m)'
                   PROVE  /\ at' = "concluding"
                          /\ call.src.kind = "local_single" /\ call.geo.kind = "local_single"
                          /\ ds' = Decoded(place[h]) /\ mds' = Decoded(place[m])
        BY <1>1 DEF Retrying
    <2>2. Retry(h, m)
        BY <1>1, <1>8, <2>1, FitsKept DEF Retry
    <2>3. /\ call.src.kind = "local_single" /\ call.geo.kind = "local_single"
          /\ ds = Decoded(place[h])
        BY <1>1, <2>2 DEF Retrying
    <2>4. call.mesh.names = {call.geo.names[1]} /\ Len(call.geo.names) = 1
        BY <1>3, <2>3 DEF FromPath, SourceOK, Single
    <2>5. call.geo.names[1] = m /\ place[m] \in Files
        BY <2>2, <2>4 DEF Retry, Fits, FitTogether
    <2>6. QED
        BY <1>1, <1>2, <1>5, <1>6, <2>3, <2>4, <2>5
<1>15. Drawing'
    <2>1. drawn = "nothing"
        BY <1>1 DEF Drawing
    <2>2. mds' # Gone => got.code = "ok"
        BY <1>2, <1>5
    <2>3. QED
        BY <1>1, <1>2, <1>5, <2>1, <2>2 DEF Drawing
<1>16. Ranking'
    BY <1>1, <1>6 DEF Ranking, RankingFields
<1>17. QED
    BY <1>9, <1>11, <1>12, <1>13, <1>14, <1>15, <1>16

LEMMA DrawStep ==
    ASSUME PairInv, Draw
    PROVE  PairInv'
<1> USE DEF PairInv
<1>1. /\ place' = place /\ replaced' = replaced /\ at' = at /\ call' = call /\ ds' = ds
      /\ mds' = mds /\ told' = told /\ offer' = offer /\ touched' = touched /\ ranking' = ranking
    BY DEF Draw
<1>2. /\ at = "idle" /\ told.code = "success" /\ told.spatial.form = "cells" /\ mds # Gone
      /\ Len(call.geo.names) = 1
      /\ drawn' = DrawnOn(place[call.geo.names[1]], CellsOf(ds))
    BY DEF Draw
<1>3. PairTypes'
    BY <1>1 DEF PairTypes
<1>4. Stages'
    BY <1>1 DEF Stages, Dataset
<1>5. Telling'
    BY <1>1, Zenon DEF Telling, Summarised, Dataset
<1>6. Offering'
    BY <1>1, FitsKept DEF Offering
<1>7. Retrying'
    BY <1>1, FitsKept, Zenon DEF Retrying, Retry
<1>8. Drawing'
    BY <1>1, <1>2 DEF Drawing
<1>9. Ranking'
    BY <1>1, <1>2 DEF Ranking, RankingFields
<1>10. QED
    BY <1>3, <1>4, <1>5, <1>6, <1>7, <1>8, <1>9

LEMMA ReplaceStep ==
    ASSUME PairInv, NEW n \in Names, Replace(n)
    PROVE  PairInv'
<1> USE DEF PairInv
<1>1. /\ at' = at /\ call' = call /\ ds' = ds /\ mds' = mds /\ told' = told
      /\ offer' = offer /\ drawn' = drawn /\ ranking' = ranking
      /\ touched' = [offer |-> TRUE, mesh |-> TRUE]
      /\ replaced < MaxReplaced /\ replaced' = replaced + 1
    BY DEF Replace
<1>2. PICK f \in Replacements[n] : place' = [place EXCEPT ![n] = f]
    BY DEF Replace
<1>3. f \in Contents
    BY DEF Contents, Files
<1>4. PairTypes'
    BY <1>1, <1>2, <1>3, InspectAssumptions DEF PairTypes
<1>5. Stages'
    BY <1>1 DEF Stages, Dataset
<1>6. Telling'
    BY <1>1, Zenon DEF Telling, Summarised, Dataset
<1>7. touched'.offer = TRUE /\ touched'.mesh = TRUE
    BY <1>1
<1>8. Offering'
    BY <1>1, <1>7 DEF Offering
<1>9. Retrying'
    BY <1>7 DEF Retrying, Retry
<1>10. Drawing'
    BY <1>1, <1>7 DEF Drawing
<1>11. Ranking'
    BY <1>1, <1>7 DEF Ranking, RankingFields
<1>12. QED
    BY <1>4, <1>5, <1>6, <1>8, <1>9, <1>10, <1>11

LEMMA FewerThanTwo ==
    ASSUME NEW S, IsFiniteSet(S), Cardinality(S) < 2, NEW a \in S, NEW b \in S
    PROVE  a = b
<1>1. Cardinality(S) \in Nat
    BY FS_CardinalityType
<1>2. Cardinality(S) # 0
    BY FS_EmptySet
<1>3. Cardinality(S) = 1
    BY <1>1, <1>2
<1>4. \E x : S = {x}
    BY <1>3, FS_Singleton
<1>5. QED
    BY <1>4

LEMMA OpenCandidateStep ==
    ASSUME PairInv, NEW n \in Names, OpenCandidate(n)
    PROVE  PairInv'
<1> USE DEF PairInv
<1> DEFINE fit == IF FitTogether(ranking.history, n) THEN ranking.fit \cup {n} ELSE ranking.fit
<1>1. /\ at = "ranking" /\ n \in ranking.found \ ranking.opened
      /\ place' = place /\ replaced' = replaced /\ at' = at /\ call' = call /\ ds' = ds
      /\ mds' = mds /\ told' = told /\ offer' = offer /\ touched' = touched /\ drawn' = drawn
    BY DEF OpenCandidate
<1>2. ranking' = [ranking EXCEPT !.opened = @ \cup {n},
                                !.fit = IF FitTogether(ranking.history, n) THEN @ \cup {n} ELSE @]
    BY Zenon DEF OpenCandidate
<1>3. /\ ranking'.found = ranking.found /\ ranking'.history = ranking.history
      /\ ranking'.opened = ranking.opened \cup {n} /\ ranking'.fit = fit
    BY <1>2 DEF Ranking, RankingFields
<1>4. PairTypes'
    BY <1>1 DEF PairTypes
<1>5. Stages'
    BY <1>1 DEF Stages, Dataset
<1>6. Telling'
    BY <1>1, Zenon DEF Telling, Summarised, Dataset
<1>7. Offering'
    BY <1>1, FitsKept DEF Offering
<1>8. Retrying'
    BY <1>1, FitsKept, Zenon DEF Retrying, Retry
<1>9. Drawing'
    BY <1>1 DEF Drawing
<1>10. Ranking'
    <2>1. PICK h \in Names :
                /\ call.path.names = {h} /\ call.path.scheme = "file" /\ call.path.form = "one"
                /\ h \notin ranking.found /\ \A m \in ranking.found : Hits[m] # {}
                /\ ~touched.offer =>
                      \/ Cardinality(ranking.found) < 2
                      \/ /\ ranking.history = place[h]
                         /\ \A m \in ranking.opened : m \in ranking.fit <=> Fits(h, m)
        BY <1>1 DEF Ranking, RankingFields
    <2>2. fit \subseteq ranking.opened \cup {n} /\ \A m \in ranking.opened : m \in fit <=> m \in ranking.fit
        BY <1>1 DEF Ranking, RankingFields
    <2>3. ranking.history = place[h] => (n \in fit <=> Fits(h, n))
        BY <1>1 DEF Ranking, Fits
    <2>4. \A m : Fits(h, m)' = Fits(h, m)
        BY <1>1, FitsKept
    <2>5. RankingFields'
        BY <1>2 DEF Ranking, RankingFields
    <2> HIDE DEF fit
    <2>6. QED
        BY <1>1, <1>3, <2>1, <2>2, <2>3, <2>4, <2>5 DEF Ranking, RankingFields
<1>11. QED
    BY <1>4, <1>5, <1>6, <1>7, <1>8, <1>9, <1>10

(* The candidates go in the order of BetterIn, each once.                   *)
LEMMA CandidatesInOrder ==
    ASSUME NEW rank, rank.found \subseteq Names, \A n \in rank.found : Hits[n] # {},
           NEW s \in Candidates(rank)
    PROVE  /\ s \in Seq(Names) /\ IsInjective(s) /\ ToSet(s) \subseteq rank.found
           /\ \A n \in ToSet(s) : n \in rank.fit => s[1] \in rank.fit
           /\ \A n \in ToSet(s) : s[1] \in ToSet(s)
<1> DEFINE F == rank.found
           Less(m, n) == BetterIn(rank.fit, m, n)
<1>1. /\ s \in [1 .. Cardinality(F) -> F]
      /\ \A i, j \in 1 .. Cardinality(F) : i < j => Less(s[i], s[j])
    BY DEF Candidates, Ordered
<1> HIDE DEF F
<1>2. F \subseteq Names /\ \A n \in F : Hits[n] # {}
    BY DEF F
<1>3. /\ s \in Seq(Names) /\ DOMAIN s = 1 .. Cardinality(F) /\ Cardinality(F) \in Nat
    BY <1>1, <1>2, SequenceOf
<1>4. \A n \in F : First(n) \in Nat
    <2>1. \A n \in F : Hits[n] \in SUBSET Nat
        BY <1>2, InspectAssumptions
    <2>2. QED
        BY <1>2, <2>1, LeastExists DEF First
<1>5. \A n \in F : ~Less(n, n)
    <2>1. \A n \in F : ~(First(n) < First(n))
        BY <1>4
    <2>2. QED
        BY <2>1, EarlierStrict, Zenon DEF BetterIn, ByName
<1>6. IsInjective(s)
    <2>1. SUFFICES ASSUME NEW i \in 1 .. Cardinality(F), NEW j \in 1 .. Cardinality(F),
                          s[i] = s[j], i # j
                   PROVE  FALSE
        BY <1>3 DEF IsInjective
    <2>2. i < j \/ j < i
        BY <1>3, <2>1
    <2> HIDE DEF Less
    <2>3. Less(s[i], s[i])
        BY <1>1, <2>1, <2>2, Zenon
    <2>4. QED
        BY <1>1, <1>5, <2>3
<1>7. ToSet(s) \subseteq F
    BY <1>1, <1>3 DEF ToSet
<1>8. ASSUME NEW n \in ToSet(s)
      PROVE  s[1] \in ToSet(s) /\ (n \in rank.fit => s[1] \in rank.fit)
    <2>1. PICK i \in 1 .. Cardinality(F) : s[i] = n
        BY <1>3 DEF ToSet
    <2>2. 1 \in DOMAIN s
        BY <1>3
    <2>3. s[1] \in ToSet(s)
        BY <2>2 DEF ToSet
    <2>4. CASE i = 1
        BY <2>1, <2>3, <2>4
    <2>5. CASE i # 1
        <3>1. 1 \in 1 .. Cardinality(F) /\ 1 < i
            BY <1>3, <2>5
        <3>2. Less(s[1], n)
            BY <1>1, <2>1, <3>1, Zenon
        <3>3. QED
            BY <2>3, <3>2, Zenon DEF BetterIn
    <2>6. QED
        BY <2>4, <2>5
<1>9. QED
    BY <1>3, <1>6, <1>7, <1>8 DEF F

LEMMA OfferStep ==
    ASSUME PairInv, Offer
    PROVE  PairInv'
<1> USE DEF PairInv
<1>1. /\ at = "ranking" /\ ranking.opened = ranking.found
      /\ at' = "idle" /\ told' = Reply("mesh_pairing_required") /\ ranking' = NoRanking
      /\ place' = place /\ replaced' = replaced /\ call' = call /\ ds' = ds
      /\ mds' = mds /\ touched' = touched /\ drawn' = drawn
    BY DEF Offer, Answer
<1>2. PICK s \in Candidates(ranking) : offer' = [path |-> call.path, names |-> s]
    BY Zenon DEF Offer
<1>3. offer'.path = call.path /\ offer'.names = s
    BY <1>2
<1>4. PICK h \in Names :
                /\ call.path.names = {h} /\ call.path.scheme = "file" /\ call.path.form = "one"
                /\ h \notin ranking.found /\ \A m \in ranking.found : Hits[m] # {}
                /\ ~touched.offer =>
                      \/ Cardinality(ranking.found) < 2
                      \/ /\ ranking.history = place[h]
                         /\ \A m \in ranking.opened : m \in ranking.fit <=> Fits(h, m)
    BY <1>1 DEF Ranking, RankingFields
<1>5. ranking.found \subseteq Names /\ mds = Gone
    BY <1>1 DEF Ranking, RankingFields
<1>6. /\ s \in Seq(Names) /\ IsInjective(s) /\ ToSet(s) \subseteq ranking.found
      /\ \A n \in ToSet(s) : n \in ranking.fit => s[1] \in ranking.fit
      /\ \A n \in ToSet(s) : s[1] \in ToSet(s)
    BY <1>4, <1>5, CandidatesInOrder
<1>7. ASSUME ~touched.offer, NEW n \in ToSet(s), Fits(h, n)
      PROVE  Fits(h, s[1])
    <2>1. CASE Cardinality(ranking.found) < 2
        <3>1. n \in ranking.found /\ s[1] \in ranking.found
            BY <1>6, <1>7
        <3>2. IsFiniteSet(ranking.found)
            BY <1>5, NamesFinite, FS_Subset
        <3>3. n = s[1]
            BY <2>1, <3>1, <3>2, FewerThanTwo
        <3>4. QED
            BY <1>7, <3>3
    <2>2. CASE \A m \in ranking.opened : m \in ranking.fit <=> Fits(h, m)
        <3>1. n \in ranking.opened /\ s[1] \in ranking.opened
            BY <1>1, <1>6, <1>7
        <3>2. QED
            BY <1>6, <1>7, <2>2, <3>1
    <2>3. QED
        BY <1>4, <1>7, <2>1, <2>2
<1>8. call.path \in Paths /\ call.path # NoPath
    BY <1>1 DEF PairTypes, Stages
<1>9. PairTypes'
    BY <1>1 DEF PairTypes
<1>10. Stages'
    BY <1>1 DEF Stages, Dataset
<1>11. Telling'
    <2>1. /\ told'.code = "mesh_pairing_required" /\ told'.spatial = None
          /\ told'.time = "none" /\ None \in Geometry
        BY <1>1, ReplyParts
    <2>2. QED
        BY <1>1, <2>1 DEF Telling, Codes
<1>12. Offering'
    <2>1. ~touched'.offer => \A n \in ToSet(s) : Fits(h, n)' => Fits(h, s[1])'
        BY <1>1, <1>7, FitsKept
    <2>2. QED
        BY <1>3, <1>4, <1>6, <1>8, <2>1 DEF Offering
<1>13. Retrying'
    <2>1. SUFFICES ASSUME NEW g \in Names, NEW m \in Names, Retry(g, m)'
                   PROVE  FALSE
        BY DEF Retrying
    <2>2. call.mesh # NoPath /\ call.mesh.scheme = "file" /\ call.mesh.form = "one"
        BY <1>1, <2>1 DEF Retry
    <2>3. FromPath(call.mesh, call.geo)
        BY <2>2 DEF PairTypes
    <2>4. call.geo.kind \in {"local_single", "refused"}
        BY <2>2, <2>3 DEF FromPath
    <2>5. QED
        BY <1>1, <1>5, <2>4 DEF Stages
<1>14. Drawing'
    BY <1>1, <1>5 DEF Drawing
<1>15. Ranking'
    BY <1>1 DEF Ranking, RankingFields, NoRanking
<1>16. QED
    BY <1>9, <1>10, <1>11, <1>12, <1>13, <1>14, <1>15

(* A summary that was concluded is told as such.                            *)
LEMMA SummaryTold ==
    ASSUME PairInv, NEW sp \in Geometry, at' = "idle", told' \in Stored(Summary(ds, sp)),
           call' = call, ds' = ds, mds' = mds, Dataset(ds),
           Producer(ds) \in Paired =>
              \/ /\ mds # Gone /\ DimsFit(ds.dims, mds.dims)
                 /\ sp = PairGeometry(ds, mds, Producer(ds))
              \/ mds = Gone /\ (call.src.kind # "local_single" \/ sp # None),
           Producer(ds) \notin Paired => sp.form # "cells"
    PROVE  Telling'
<1>1. CASE told' = Reply("internal_error")
    <2>1. told'.code = "internal_error" /\ told'.spatial = None /\ told'.time = "none"
          /\ None \in Geometry
        BY <1>1, ReplyParts
    <2>2. QED
        BY <2>1 DEF Telling, Codes
<1>2. CASE told' = Summary(ds, sp) /\ told'.code = "success" /\ told'.spatial = sp
    <2>1. Summarised'
        BY <1>2, Zenon DEF Summarised, Dataset
    <2>2. QED
        BY <1>2, <2>1 DEF Telling, Codes
<1>3. CASE told' = Reply("raised") /\ call.mesh = NoPath
    <2>1. told'.code = "raised" /\ told'.spatial = None /\ told'.time = "none"
          /\ None \in Geometry
        BY <1>3, ReplyParts
    <2>2. QED
        BY <1>3, <2>1 DEF Telling, Codes
<1>4. told' = Summary(ds, sp) \/ (told' = Reply("raised") /\ call.mesh = NoPath)
    BY DEF Stored
<1>5. QED
    BY <1>1, <1>2, <1>3, <1>4, SummaryParts

LEMMA ConcludeStep ==
    ASSUME PairInv, Conclude
    PROVE  PairInv'
<1> USE DEF PairInv
<1> DEFINE producer == Producer(ds)
<1>1. /\ at = "concluding"
      /\ place' = place /\ replaced' = replaced /\ call' = call /\ ds' = ds /\ mds' = mds
      /\ drawn' = drawn
      /\ \/ producer \in Paired /\ (Prompt(producer) \/ Unprompted(producer) \/ Pair(producer))
         \/ /\ producer \notin Paired
            /\ \E reply \in Stored(Summary(ds, OwnGeometry(ds, producer))) : Answer(reply)
            /\ UNCHANGED <<ranking, offer, touched>>
    BY Zenon DEF Conclude
<1>2. /\ call.path # NoPath /\ call.path \in Paths /\ FromPath(call.path, call.src)
      /\ call.src.kind \notin Idle /\ SourceOK(call.src)
      /\ Dataset(ds) /\ (mds # Gone => Dataset(mds)) /\ drawn = "nothing"
    BY <1>1 DEF PairTypes, Stages, Drawing
<1>3. /\ at' \in {"idle", "ranking"} /\ touched'.mesh = touched.mesh
      /\ touched' \in [offer : BOOLEAN, mesh : BOOLEAN]
    BY <1>1, Zenon DEF PairTypes, Prompt, Unprompted, Pair, Answer
<1>4. PairTypes'
    BY <1>1, <1>3 DEF PairTypes
<1>5. Stages'
    BY <1>1, <1>3 DEF Stages, Dataset
<1>6. Drawing'
    BY <1>1, <1>2, <1>3 DEF Drawing
<1>7. ASSUME NEW h, NEW m, call.path.names = {h}, call.mesh # NoPath,
             call.mesh.scheme = "file", call.mesh.form = "one"
      PROVE  mds # Gone
    BY <1>1, <1>7 DEF PairTypes, Stages, FromPath
<1>8. CASE producer \in Paired /\ Prompt(producer)
    <2>1. /\ mds = Gone /\ call.src.kind = "local_single"
          /\ at' = "ranking" /\ told' = told /\ offer' = NoOffer
          /\ touched' = [touched EXCEPT !.offer = FALSE]
        BY <1>8 DEF Prompt
    <2>2. PICK h \in Names : h = call.src.names[1]
        BY <1>2, <2>1 DEF SourceOK, Single
    <2>3. /\ call.path.scheme = "file" /\ call.path.form = "one" /\ call.path.names = {h}
        BY <1>2, <2>1, <2>2 DEF FromPath
    <2>4. offer'.path = NoPath /\ offer'.names = << >>
        BY <2>1 DEF NoOffer
    <2>5. PICK ranked \in BOOLEAN :
            /\ ranked <=> place[h] \in Files /\ Cardinality(Found(h)) >= 2
            /\ ranking' = [found |-> Found(h), history |-> place[h],
                           opened |-> IF ranked THEN {} ELSE Found(h), fit |-> {}]
        BY <1>8, <2>2, Zenon DEF Prompt
    <2>6. Offering'
        BY <2>4 DEF Offering, IsInjective
    <2>7. Telling'
        BY <1>1, <1>2, <2>1, Zenon DEF Telling, Summarised, Dataset
    <2>8. Retrying'
        BY <2>4 DEF Retrying, Retry
    <2>9. Ranking'
        <3> DEFINE found == Found(h)
        <3>1. found \subseteq Names /\ h \notin found /\ \A n \in found : Hits[n] # {}
            BY DEF Found
        <3>2. Cardinality(found) \in Nat
            BY <3>1, NamesFinite, FS_Subset, FS_CardinalityType
        <3> HIDE DEF found
        <3>3. ranking' = [found |-> found, history |-> place[h],
                          opened |-> IF ranked THEN {} ELSE found, fit |-> {}]
            BY <2>5 DEF found
        <3>4. /\ ranking'.found = found /\ ranking'.history = place[h] /\ ranking'.fit = {}
              /\ ranking'.opened = IF ranked THEN {} ELSE found
              /\ RankingFields'
            BY <3>3 DEF RankingFields
        <3>5. \/ Cardinality(found) < 2
              \/ \A n \in ranking'.opened : ~Fits(h, n)'
            <4>1. ranked <=> place[h] \in Files /\ Cardinality(found) >= 2
                BY <2>5 DEF found
            <4>2. CASE ranked
                BY <3>4, <4>2
            <4>3. CASE ~ranked
                <5>1. place[h] \notin Files => \A n : ~Fits(h, n)
                    BY DEF Fits, FitTogether
                <5>2. \A n : Fits(h, n)' = Fits(h, n)
                    BY <1>1, FitsKept
                <5>3. QED
                    BY <3>2, <4>1, <4>3, <5>1, <5>2
            <4>4. QED
                BY <4>2, <4>3
        <3>6. QED
            BY <1>1, <2>1, <2>3, <2>4, <3>1, <3>4, <3>5 DEF Ranking
    <2>10. QED
        BY <1>4, <1>5, <1>6, <2>6, <2>7, <2>8, <2>9
<1>9. ASSUME offer' = offer, touched' = touched
      PROVE  Offering'
    BY <1>1, <1>9, FitsKept DEF Offering
<1>10. CASE producer \in Paired /\ Unprompted(producer)
    <2>1. /\ mds = Gone /\ (call.src.kind # "local_single" \/ Alone(producer) # None)
          /\ told' \in Stored(Summary(ds, Alone(producer)))
          /\ at' = "idle" /\ ranking' = ranking /\ offer' = offer /\ touched' = touched
        BY <1>10, Zenon DEF Unprompted, Answer
    <2>2. Alone(producer) \in Geometry
        BY <1>2, MpasGeometryType, ReplyParts DEF Alone
    <2>3. Telling'
        BY <1>1, <1>2, <1>3, <1>10, <2>1, <2>2, SummaryTold
    <2>4. Retrying'
        BY <1>1, <1>7, <2>1 DEF Retrying, Retry
    <2>5. Ranking'
        BY <1>1, <2>1 DEF Ranking, RankingFields
    <2>6. QED
        BY <1>4, <1>5, <1>6, <1>9, <2>1, <2>3, <2>4, <2>5
<1>11. CASE producer \in Paired /\ Pair(producer)
    <2> DEFINE sp == PairGeometry(ds, mds, producer)
    <2> DEFINE reply == IF DimsFit(ds.dims, mds.dims) THEN Summary(ds, sp)
                        ELSE Reply("multi_file_combine_failed")
    <2>1. /\ mds # Gone /\ offer' = offer /\ touched' = touched
          /\ at' = "idle" /\ ranking' = ranking /\ told' \in Stored(reply)
        BY <1>11, Zenon DEF Pair, Answer
    <2>2. sp \in Geometry /\ sp.form \in {"none", "cells"}
        BY <1>2, <1>11, <2>1, PairGeometryType
    <2>3. sp # Raises /\ TimeOf(ds, producer) # "raises"
        BY <1>11, <2>2, RaisingTime DEF Raises
    <2>4. Telling'
        <3>1. CASE DimsFit(ds.dims, mds.dims)
            BY <1>1, <1>2, <1>3, <1>11, <2>1, <2>2, <3>1, SummaryTold
        <3>2. CASE ~DimsFit(ds.dims, mds.dims)
            <4>1. reply = Reply("multi_file_combine_failed")
                BY <3>2
            <4> HIDE DEF reply
            <4>2. told' = Reply("multi_file_combine_failed")
                BY <2>1, <4>1, ReplyParts DEF Stored
            <4>3. /\ told'.code = "multi_file_combine_failed" /\ told'.spatial = None
                  /\ told'.time = "none" /\ None \in Geometry
                BY <4>2, ReplyParts
            <4>4. QED
                BY <2>1, <4>3 DEF Telling, Codes
        <3>3. QED
            BY <3>1, <3>2
    <2>5. Retrying'
        <3>1. SUFFICES ASSUME NEW h \in Names, NEW m \in Names, Retry(h, m)'
                       PROVE  told'.code = "success"
            BY <2>1 DEF Retrying
        <3>2. Retry(h, m)
            BY <1>1, <2>1, <3>1, FitsKept DEF Retry
        <3>3. ds = Decoded(place[h]) /\ mds = Decoded(place[m])
            BY <1>1, <3>2 DEF Retrying
        <3>4. place[h] \in Files /\ place[m] \in Files /\ DimsFit(place[h].dims, place[m].dims)
            BY <3>2 DEF Retry, Fits, FitTogether
        <3>5. DimsFit(ds.dims, mds.dims)
            BY <3>3, <3>4, DecodedParts
        <3>6. told' = Summary(ds, sp)
            <4>1. reply = Summary(ds, sp)
                BY <3>5
            <4>2. call.mesh # NoPath
                BY <3>2 DEF Retry
            <4> HIDE DEF reply, sp
            <4>3. QED
                BY <2>1, <4>1, <4>2 DEF Stored
        <3> HIDE DEF sp
        <3>7. QED
            BY <2>2, <2>3, <3>6, SummaryParts
    <2>6. Ranking'
        BY <1>1, <2>1 DEF Ranking, RankingFields
    <2>7. QED
        BY <1>4, <1>5, <1>6, <1>9, <2>1, <2>4, <2>5, <2>6
<1>12. CASE /\ producer \notin Paired
            /\ \E reply \in Stored(Summary(ds, OwnGeometry(ds, producer))) : Answer(reply)
            /\ UNCHANGED <<ranking, offer, touched>>
    <2> DEFINE sp == OwnGeometry(ds, producer)
    <2>1. /\ told' \in Stored(Summary(ds, sp)) /\ at' = "idle"
          /\ ranking' = ranking /\ offer' = offer /\ touched' = touched
        BY <1>12, Zenon DEF Answer
    <2>2. sp \in Geometry /\ sp.form # "cells"
        BY OwnGeometryType
    <2>3. Telling'
        BY <1>1, <1>2, <1>3, <1>12, <2>1, <2>2, SummaryTold
    <2>4. Retrying'
        <3>1. SUFFICES ASSUME NEW h \in Names, NEW m \in Names, Retry(h, m)'
                       PROVE  FALSE
            BY DEF Retrying
        <3>2. Retry(h, m)
            BY <1>1, <2>1, <3>1, FitsKept DEF Retry
        <3>3. ds = Decoded(place[h])
            BY <1>1, <3>2 DEF Retrying
        <3>4. place[h] \in Files /\ Producer(place[h]) \in Paired
            BY <3>2 DEF Retry, Fits, FitTogether
        <3>5. QED
            BY <1>12, <3>3, <3>4, SameProducer
    <2>5. Ranking'
        BY <1>1, <2>1 DEF Ranking, RankingFields
    <2>6. QED
        BY <1>4, <1>5, <1>6, <1>9, <2>1, <2>3, <2>4, <2>5
<1>13. QED
    BY <1>1, <1>8, <1>10, <1>11, <1>12, Zenon

LEMMA InvStep ==
    ASSUME PairInv, [PairNext]_pairVars
    PROVE  PairInv'
<1>1. CASE \E p \in Paths, m \in MeshPaths \cup {NoPath} : Call(p, m)
    BY <1>1, CallStep
<1>2. CASE OpenHistory
    BY <1>2, OpenHistoryStep
<1>3. CASE OpenMesh
    BY <1>3, OpenMeshStep
<1>4. CASE Conclude
    BY <1>4, ConcludeStep
<1>5. CASE Draw
    BY <1>5, DrawStep
<1>6. CASE \E n \in Names : OpenCandidate(n) \/ Replace(n)
    BY <1>6, OpenCandidateStep, ReplaceStep
<1>9. CASE AskCache
    BY <1>9, AskCacheStep
<1>10. CASE Offer
    BY <1>10, OfferStep
<1>7. CASE UNCHANGED pairVars
    <2>1. /\ place' = place /\ replaced' = replaced /\ at' = at /\ call' = call /\ ds' = ds
          /\ mds' = mds /\ told' = told /\ offer' = offer /\ touched' = touched /\ drawn' = drawn
          /\ ranking' = ranking
        BY <1>7 DEF pairVars
    <2>2. PairTypes' /\ Stages'
        BY <2>1 DEF PairInv, PairTypes, Stages, Dataset
    <2>3. Telling'
        BY <2>1, Zenon DEF PairInv, Telling, Summarised, Dataset
    <2>4. Retrying'
        BY <2>1, FitsKept, Zenon DEF PairInv, Retrying, Retry
    <2>8. Offering'
        BY <2>1, FitsKept DEF PairInv, Offering
    <2>5. Drawing'
        BY <2>1 DEF PairInv, Drawing
    <2>6. Ranking'
        BY <2>1, FitsKept, Zenon DEF PairInv, Ranking, RankingFields
    <2>7. QED
        BY <2>2, <2>3, <2>4, <2>5, <2>6, <2>8 DEF PairInv
<1>8. QED
    BY <1>1, <1>2, <1>3, <1>4, <1>5, <1>6, <1>7, <1>9, <1>10 DEF PairNext

(* The inductive invariant: types, stages of a call, what a summary is of,  *)
(* what the last prompt and the drawing still say of the files.             *)
THEOREM PairInvHolds == PairSpec => []PairInv
<1>1. PairInit => PairInv
    BY InvInit
<1>2. PairInv /\ [PairNext]_pairVars => PairInv'
    BY InvStep
<1>3. QED
    BY <1>1, <1>2, PTL DEF PairSpec

(* What was opened is a file, an answer is one of a call, and candidates    *)
(* are offered once and never for themselves.                               *)
THEOREM PairTypesHold == PairSpec => []PairTypeOK
<1>1. ASSUME PairInv
      PROVE  PairTypeOK
    <2>1. DOMAIN place = Names /\ replaced \in 0 .. MaxReplaced
          /\ at \in {"idle", "opening", "pairing", "concluding", "ranking"}
          /\ ranking.fit \subseteq ranking.opened /\ ranking.opened \subseteq ranking.found
        BY <1>1 DEF PairInv, PairTypes, Ranking
    <2>2. at # "idle" => call.src.kind \notin {"none", "refused"} /\ call.src.names # << >>
        BY <1>1 DEF PairInv, PairTypes, Stages, SourceOK, Idle
    <2>3. /\ told.code \in Codes /\ told.spatial.n \in Nat
          /\ told.spatial # None \/ told.time = "dates" => told.code = "success"
        BY <1>1 DEF PairInv, Telling, Geometry
    <2>4. IsInjective(offer.names) /\ ToSet(offer.names) \subseteq Names
        BY <1>1 DEF PairInv, Offering, ToSet
    <2>5. offer.path # NoPath => ToSet(offer.names) \cap offer.path.names = {}
        BY <1>1 DEF PairInv, Offering
    <2>6. QED
        BY <2>1, <2>2, <2>3, <2>4, <2>5 DEF PairTypeOK
<1>2. QED
    BY <1>1, PairInvHolds, PTL

(* The first candidate of a prompt is the one to take.                      *)
THEOREM FirstOfferIsTheOne == PairSpec => []FirstOfferLeads
<1>1. ASSUME PairInv
      PROVE  FirstOfferLeads
    <2>1. SUFFICES ASSUME at = "idle", offer.names # << >>, call.path = offer.path,
                          call.mesh # NoPath, call.mesh.scheme = "file",
                          call.mesh.form = "one", call.mesh.names = {Head(offer.names)},
                          told.code \notin {"nothing", "success"}, ~touched.offer,
                          NEW h \in call.path.names, NEW n \in ToSet(offer.names), Fits(h, n)
                   PROVE  place[h] \in Files /\ Producer(place[h]) \notin Paired
        BY Zenon DEF FirstOfferLeads
    <2>2. offer.names \in Seq(Names) /\ offer.path # NoPath
        BY <1>1, <2>1 DEF PairInv, Offering
    <2>3. PICK g \in Names : /\ offer.path.names = {g}
                             /\ \A k \in ToSet(offer.names) : Fits(g, k) => Fits(g, offer.names[1])
        BY <1>1, <2>1, <2>2 DEF PairInv, Offering
    <2>4. g = h /\ call.path.names = {h} /\ h \in Names
        BY <2>1, <2>3
    <2>5. Fits(h, offer.names[1]) /\ place[h] \in Files
        BY <2>1, <2>3, <2>4 DEF Fits, FitTogether
    <2>6. PICK m \in Names : m = offer.names[1] /\ m = Head(offer.names)
        BY <2>1, <2>2
    <2>7. Producer(place[h]) \in Paired => Retry(h, m)
        BY <2>1, <2>4, <2>5, <2>6 DEF Retry
    <2>8. ~Retry(h, m)
        BY <1>1, <2>1, <2>4 DEF PairInv, Retrying
    <2>9. QED
        BY <2>5, <2>7, <2>8
<1>2. QED
    BY <1>1, PairInvHolds, PTL

(* An accepted mesh has the cells of the history, and the renderer draws    *)
(* the history on it.                                                       *)
THEOREM PairIsDrawn == PairSpec => []PairedThenDrawn
<1>1. ASSUME PairInv
      PROVE  PairedThenDrawn
    <2> DEFINE producer == Producer(ds)
               branch == [MPAS |-> "mpas", CICE |-> "cice", EAMxx |-> "eamxx"]
               agreed == \/ drawn = branch[producer]
                         \/ drawn = "no mesh" /\ producer = "MPAS" /\ ~UxReadable(mds)
                         \/ AlsoLooksLike(mds, producer) # {}
    <2>1. SUFFICES ASSUME at = "idle", told.code = "success", mds # Gone,
                          told.spatial.form = "cells", OwnCells(ds, producer)
                   PROVE  /\ told.spatial.n = CellsOf(ds)
                          /\ drawn # "nothing" /\ ~touched.mesh => agreed
        BY Zenon DEF PairedThenDrawn
    <2>2. Summarised
        BY <1>1, <2>1 DEF PairInv, Telling
    <2>3. /\ producer \in Paired /\ DimsFit(ds.dims, mds.dims)
          /\ told.spatial = PairGeometry(ds, mds, producer)
        BY <2>1, <2>2 DEF Summarised
    <2>4. told.spatial = Cells(CellsOf(ds))
        BY <2>1, <2>3, CellsMatch
    <2>5. told.spatial.n = CellsOf(ds)
        BY <2>4 DEF Cells
    <2>6. ASSUME drawn # "nothing", ~touched.mesh
          PROVE  agreed
        <3>1. PICK f \in Files : mds = Decoded(f) /\ drawn = DrawnOn(f, CellsOf(ds))
            BY <1>1, <2>1, <2>6 DEF PairInv, Drawing
        <3>2. drawn = DrawnOn(mds, CellsOf(ds))
            BY <3>1, SameDrawing
        <3>3. QED
            BY <2>1, <2>3, <3>2, DrawnMatch
    <2>7. QED
        BY <2>5, <2>6
<1>2. QED
    BY <1>1, PairInvHolds, PTL

(* What a summary lacks has its reason.                                     *)
THEOREM NothingLacksUntold == PairSpec => []LacksForCause
<1>1. ASSUME PairInv
      PROVE  LacksForCause
    <2>1. ASSUME told.code = "success", told.spatial = None, Producer(ds) \in Paired
          PROVE  \/ call.src.kind # "local_single"
                 \/ mds # Gone /\ PairGeometry(ds, mds, Producer(ds)) = None
        BY <1>1, <2>1 DEF PairInv, Telling, Summarised
    <2>2. ASSUME told.code = "success", told.time = "none", ToSet(TimeNames) \cap Dims(ds) # {},
                 ~told.warned
          PROVE  /\ "times: undecodable" \notin ds.attrs
                 /\ \E n \in ToSet(TimeNames) \cap ds.vars : n \notin ds.dated
        <3> DEFINE sp == told.spatial
        <3>1. Dataset(ds) /\ told = Summary(ds, sp) /\ sp \in Geometry
            BY <1>1, <2>2 DEF PairInv, Telling, Summarised
        <3>2. told # Reply("internal_error")
            BY <2>2, ReplyParts
        <3> HIDE DEF sp
        <3>3. /\ told.time = TimeOf(ds, Producer(ds))
              /\ told.warned <=>
                    \/ "_metplot_time_decode_failed" \in ds.attrs
                    \/ TimeOf(ds, Producer(ds)) = "none" /\ Untimed(ds) # {}
            BY <3>1, <3>2, SummaryParts
        <3>4. "_metplot_time_decode_failed" \notin ds.attrs /\ Untimed(ds) = {}
            BY <2>2, <3>3
        <3>5. "times: undecodable" \notin ds.attrs
            BY <3>1, <3>4 DEF Dataset
        <3>6. \E n \in ToSet(TimeNames) \cap ds.vars : n \notin ds.dated
            BY <2>2, <3>1, <3>3, <3>4, TimeMissing
        <3>7. QED
            BY <3>5, <3>6
    <2>3. told.code = "raised" =>
              \/ call.mesh = NoPath
              \/ ds = Gone /\ \E p \in {call.path, call.mesh} : p.scheme = "ssh"
        BY <1>1 DEF PairInv, Telling
    <2>4. QED
        BY <2>1, <2>2, <2>3, Zenon DEF LacksForCause
<1>2. QED
    BY <1>1, PairInvHolds, PTL
=============================================================================
