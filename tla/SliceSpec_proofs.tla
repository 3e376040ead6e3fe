-------------------------- MODULE SliceSpec_proofs --------------------------
(***************************************************************************)
(* For any data files, calls and limits: a call that resolved can be read, *)
(* what is returned inline is within the limit, and what is read of a      *)
(* dimension is what the selectors mean, with the exceptions that the      *)
(* properties name.                                                        *)
(*                                                                         *)
(* Most of the proof is about operators.  Resolved(f, a, r) is all that a  *)
(* successful resolve_spec says of the entries r it returns, selector by   *)
(* selector (ResolvedRight).  From it follow, for each dimension, the pick *)
(* of _apply_selectors and the length of slice_shape, by the kind of the   *)
(* dimension (PickByKind, DimLenByKind); that the pick is in bounds and no *)
(* longer than that (PickFits); and that it is what was asked for          *)
(* (HonouredRight).  The number of elements is the size of a set of tuples *)
(* of positions, so the product of longer dimensions is no smaller without *)
(* an induction (ProductMonotone).                                         *)
(*                                                                         *)
(* The invariant joins the two halves of a call: what is resolved is so by *)
(* a file, the one that is there unless it was replaced.                   *)
(***************************************************************************)
EXTENDS SliceSpec, NaturalsInduction, WellFoundedInduction, FiniteSetTheorems, TLAPS

-----------------------------------------------------------------------------
(* The least and the greatest of a set of positions, and the items of a     *)
(* sequence that np.argmin and its kin find.                                *)

LEMMA LeastExists ==
    ASSUME NEW S \in SUBSET Nat, S # {}
    PROVE  /\ Min(S) \in S
           /\ \A i \in S : Min(S) <= i
<1> DEFINE R == {p \in Nat \X Nat : p[1] < p[2]}
<1>1. IsWellFoundedOn(R, Nat)
    BY NatLessThanWellFounded DEF OpToRel
<1>2. PICK i \in S : \A j \in S : <<j, i>> \notin R
    <2> HIDE DEF R
    <2> QED
        BY <1>1, WFMin
<1>3. ASSUME NEW j \in S PROVE i <= j
    <2>1. <<j, i>> \in Nat \X Nat /\ <<j, i>> \notin R
        BY <1>2
    <2>2. ~(j < i)
        BY <2>1
    <2> QED
        BY <2>2
<1>4. \E x \in S : \A y \in S : x <= y
    BY <1>3
<1>5. QED
    BY <1>4, Zenon DEF Min

(* A bounded set of naturals has a greatest member. *)
LEMMA GreatestExists ==
    ASSUME NEW n \in Nat, NEW S \in SUBSET (0 .. n), S # {}
    PROVE  /\ Max(S) \in S
           /\ \A i \in S : i <= Max(S)
<1> DEFINE T == {n - i : i \in S}
<1>1. \A i \in S : n - i \in Nat /\ i \in Nat /\ n - i \in T
    OBVIOUS
<1>2. T \in SUBSET Nat /\ T # {}
    BY <1>1
<1>3. Min(T) \in T /\ \A t \in T : Min(T) <= t
    BY <1>2, LeastExists
<1>4. PICK x \in S : Min(T) = n - x
    BY <1>3
<1> HIDE DEF T
<1>5. \A y \in S : n - x <= n - y
    BY <1>1, <1>3, <1>4
<1>6. \A y \in S : x >= y
    BY <1>1, <1>5
<1>7. Max(S) \in S /\ \A y \in S : Max(S) >= y
    BY <1>6, Zenon DEF Max
<1> QED
    BY <1>1, <1>7

(* A sequence of integers that is not empty has a greatest item. *)
LEMMA GreatestItem ==
    ASSUME NEW c \in Seq(Int), c # <<>>
    PROVE  \E i \in DOMAIN c : \A j \in DOMAIN c : c[j] <= c[i]
<1> DEFINE D == 1 .. Len(c)
           Top(n) == \E i \in 1 .. n : \A j \in 1 .. n : c[j] <= c[i]
           Bad == {n \in D : ~Top(n)}
<1>1. DOMAIN c = D /\ Len(c) \in D /\ \A i \in D : i \in Nat /\ i > 0
    OBVIOUS
<1>2. \A i \in D : c[i] \in Int
    OBVIOUS
<1>3. \A n \in D : \A i \in 1 .. n : i \in D
    OBVIOUS
<1>4. \A n \in D : n - 1 \in D \/ n = 1
    OBVIOUS
<1> HIDE DEF D
<1>5. Bad \in SUBSET Nat
    BY <1>1
<1>6. Bad # {} => FALSE
    <2>1. SUFFICES ASSUME Bad # {} PROVE FALSE
        OBVIOUS
    <2>2. Min(Bad) \in Bad /\ \A n \in Bad : Min(Bad) <= n
        BY <2>1, <1>5, LeastExists
    <2>3. PICK m \in D : ~Top(m) /\ \A n \in Bad : m <= n
        BY <2>2
    <2>4. m # 1
        <3>1. \A j \in 1 .. 1 : c[j] <= c[1]
            BY <1>1, <1>2, <1>3, <2>3
        <3> QED
            BY <2>3, <3>1
    <2>5. m - 1 \in D /\ m \in Nat /\ ~(m <= m - 1)
        BY <2>3, <2>4, <1>1, <1>4
    <2>6. Top(m - 1)
        BY <2>3, <2>5
    <2>7. PICK i \in 1 .. m - 1 : \A j \in 1 .. m - 1 : c[j] <= c[i]
        BY <2>6
    <2>8. \A j \in 1 .. m : j \in 1 .. m - 1 \/ j = m
        BY <2>5
    <2>9. i \in 1 .. m /\ m \in 1 .. m /\ c[i] \in Int /\ c[m] \in Int
        BY <2>3, <2>5, <2>7, <1>1, <1>2, <1>3
    <2>10. CASE c[m] <= c[i]
        <3>1. \A j \in 1 .. m : c[j] <= c[i]
            BY <2>7, <2>8, <2>10
        <3> QED
            BY <3>1, <2>3, <2>9
    <2>11. CASE c[i] <= c[m]
        <3>1. \A j \in 1 .. m : c[j] \in Int
            BY <1>2, <1>3, <2>3
        <3>2. ASSUME NEW j \in 1 .. m PROVE c[j] <= c[m]
            <4>1. c[j] <= c[i] \/ j = m
                BY <2>7, <2>8
            <4> QED
                BY <4>1, <3>1, <2>9, <2>11
        <3> QED
            BY <3>2, <2>3, <2>9
    <2>12. c[m] <= c[i] \/ c[i] <= c[m]
        BY <2>9
    <2> QED
        BY <2>10, <2>11, <2>12
<1>7. Top(Len(c))
    BY <1>1, <1>6
<1> QED
    BY <1>1, <1>7 DEF D

(* And a least one. *)
LEMMA LeastItem ==
    ASSUME NEW c \in Seq(Int), c # <<>>
    PROVE  \E i \in DOMAIN c : \A j \in DOMAIN c : c[i] <= c[j]
<1> DEFINE d == [i \in 1 .. Len(c) |-> -c[i]]
<1>1. d \in Seq(Int) /\ d # <<>> /\ DOMAIN d = DOMAIN c
    OBVIOUS
<1>2. PICK i \in DOMAIN d : \A j \in DOMAIN d : d[j] <= d[i]
    BY <1>1, GreatestItem
<1>3. \A j \in DOMAIN c : d[j] = -c[j] /\ c[j] \in Int
    OBVIOUS
<1>4. i \in DOMAIN c /\ \A j \in DOMAIN c : d[j] <= d[i]
    BY <1>1, <1>2
<1> HIDE DEF d
<1>5. \A j \in DOMAIN c : c[i] <= c[j]
    BY <1>3, <1>4
<1> QED
    BY <1>4, <1>5

(* np.argmin and np.argmax return a position that is in bounds and is what  *)
(* they are asked for.                                                      *)
LEMMA FirstOf ==
    ASSUME NEW c \in Seq(Int), NEW P \in SUBSET (DOMAIN c), P # {}
    PROVE  Min(P) - 1 \in 0 .. Len(c) - 1 /\ Min(P) \in P
<1>1. P \in SUBSET Nat
    OBVIOUS
<1>2. Min(P) \in P
    BY <1>1, LeastExists
<1> QED
    BY <1>2

LEMMA NearestRight ==
    ASSUME NEW c \in Seq(Int), c # <<>>, NEW v \in Int
    PROVE  Nearest(c, v) \in 0 .. Len(c) - 1 /\ Nearest(c, v) \in Near(c, v)
<1> DEFINE P == {i \in DOMAIN c : \A j \in DOMAIN c :
                    Distance(c[i], v) <= Distance(c[j], v)}
           e == [i \in 1 .. Len(c) |-> Distance(c[i], v)]
<1>1. e \in Seq(Int) /\ e # <<>> /\ DOMAIN e = DOMAIN c
    BY DEF Distance
<1>2. PICK i \in DOMAIN c : \A j \in DOMAIN c : e[i] <= e[j]
    <2> HIDE DEF e
    <2> QED
        BY <1>1, LeastItem
<1>3. i \in P
    <2>1. \A j \in DOMAIN c : e[j] = Distance(c[j], v)
        OBVIOUS
    <2> HIDE DEF e
    <2> QED
        BY <1>2, <2>1
<1>4. Nearest(c, v) = Min(P) - 1
    BY DEF Nearest
<1> HIDE DEF P
<1>5. P \in SUBSET (DOMAIN c)
    BY DEF P
<1>6. Min(P) - 1 \in 0 .. Len(c) - 1 /\ Min(P) \in P
    BY <1>3, <1>5, FirstOf
<1>7. Near(c, v) = {k - 1 : k \in P}
    BY DEF Near, P
<1> QED
    BY <1>4, <1>6, <1>7

LEMMA HighestRight ==
    ASSUME NEW c \in Seq(Int), c # <<>>
    PROVE  /\ Highest(c) \in 0 .. Len(c) - 1
           /\ \A j \in DOMAIN c : c[j] <= c[Highest(c) + 1]
<1> DEFINE P == {i \in DOMAIN c : \A j \in DOMAIN c : c[j] <= c[i]}
<1>1. P \in SUBSET (DOMAIN c) /\ P # {}
    BY GreatestItem
<1>2. Highest(c) = Min(P) - 1
    BY DEF Highest
<1>3. Min(P) - 1 \in 0 .. Len(c) - 1 /\ Min(P) \in P
    BY <1>1, FirstOf
<1>4. Highest(c) + 1 = Min(P)
    BY <1>2, <1>3
<1> QED
    BY <1>2, <1>3, <1>4

LEMMA LowestRight ==
    ASSUME NEW c \in Seq(Int), c # <<>>
    PROVE  /\ Lowest(c) \in 0 .. Len(c) - 1
           /\ \A j \in DOMAIN c : c[Lowest(c) + 1] <= c[j]
<1> DEFINE P == {i \in DOMAIN c : \A j \in DOMAIN c : c[i] <= c[j]}
<1>1. P \in SUBSET (DOMAIN c) /\ P # {}
    BY LeastItem
<1>2. Lowest(c) = Min(P) - 1
    BY DEF Lowest
<1>3. Min(P) - 1 \in 0 .. Len(c) - 1 /\ Min(P) \in P
    BY <1>1, FirstOf
<1>4. Lowest(c) + 1 = Min(P)
    BY <1>2, <1>3
<1> QED
    BY <1>2, <1>3, <1>4
-----------------------------------------------------------------------------
(* The dimensions of a variable.                                            *)

LEMMA DimFacts ==
    ASSUME NEW f \in Files, NEW d \in ToSet(f.dims)
    PROVE  /\ d # NoDim /\ d \in STRING
           /\ f.coord[d] \in Seq(Int)
           /\ Size(f, d) \in Nat /\ Size(f, d) = Len(f.coord[d])
           /\ DOMAIN f.coord[d] = 1 .. Size(f, d)
           /\ Positions(f, d) = 0 .. Size(f, d) - 1
<1>1. PICK i \in DOMAIN f.dims : d = f.dims[i]
    BY DEF ToSet
<1>2. f.dims \in Seq(STRING \ {NoDim}) /\ ToSet(f.dims) \subseteq DOMAIN f.coord
    BY DataFilesAssumption
<1>3. d \in STRING \ {NoDim}
    BY <1>1, <1>2
<1>4. f.coord[d] \in Seq(Int)
    BY <1>2, DataFilesAssumption
<1> QED
    BY <1>3, <1>4 DEF Size, Positions

LEMMA FirstDimRight ==
    ASSUME NEW f \in Files, NEW D
    PROVE  /\ FirstDim(f, D) = NoDim => ToSet(f.dims) \cap D = {}
           /\ FirstDim(f, D) # NoDim => FirstDim(f, D) \in ToSet(f.dims) \cap D
<1> DEFINE I == {i \in DOMAIN f.dims : f.dims[i] \in D}
<1>1. f.dims \in Seq(STRING \ {NoDim})
    BY DataFilesAssumption
<1>2. I \in SUBSET Nat
    BY <1>1
<1>3. ToSet(f.dims) \cap D = {f.dims[i] : i \in I}
    BY DEF ToSet
<1>4. FirstDim(f, D) = IF I = {} THEN NoDim ELSE f.dims[Min(I)]
    BY DEF FirstDim
<1>5. I # {} => Min(I) \in I
    BY <1>2, LeastExists
<1>6. \A i \in I : f.dims[i] # NoDim
    BY <1>1
<1> HIDE DEF I
<1>7. CASE I = {}
    BY <1>3, <1>4, <1>7
<1>8. CASE I # {}
    BY <1>3, <1>4, <1>5, <1>6, <1>8
<1> QED
    BY <1>7, <1>8

(* A dimension that is the only one of D is the first one of D.             *)
LEMMA FirstIsOnly ==
    ASSUME NEW f \in Files, NEW D, NEW d \in ToSet(f.dims), d \in D,
           \A e \in ToSet(f.dims) \cap D : e = d
    PROVE  FirstDim(f, D) = d
BY FirstDimRight

LEMMA DimOrNone ==
    ASSUME NEW f \in Files
    PROVE  \A d \in {TimeDim(f), LevelDim(f), CellDim(f)} :
                d = NoDim \/ d \in ToSet(f.dims)
BY FirstDimRight DEF TimeDim, LevelDim, CellDim
-----------------------------------------------------------------------------
(* What each selector that resolves has resolved to.                        *)

(* The positions resolve_spec gives a selector: the nearest of the times,   *)
(* and for "surface" and "top" an extreme value of plev, an end of any      *)
(* other vertical dimension.                                                *)
SnapTime(c, sel, i) ==
    CASE sel.form = "word" -> i = (IF sel.value = "first" THEN 0
                                   ELSE Len(c) - 1)
      [] sel.form = "date" -> i \in Near(c, sel.value)
      [] sel.form = "dates" -> i \in Inside(c, sel.value)
      [] sel.form = "index" -> i = sel.value % Len(c)
      [] sel.form = "indices" -> i \in ToSet(sel.value)
      [] OTHER -> TRUE

SnapLevel(c, d, sel, i) ==
    CASE sel.form = "word" ->
            IF d = "plev"
            THEN \A j \in DOMAIN c : IF sel.value = "surface" THEN c[i + 1] >= c[j]
                                     ELSE c[i + 1] <= c[j]
            ELSE i = (IF sel.value = "surface" THEN 0 ELSE Len(c) - 1)
      [] sel.form = "number" -> i \in Near(c, sel.value)
      [] sel.form = "pair" -> \E v \in ToSet(sel.value) : i \in Near(c, v)
      [] sel.form = "index" -> i = sel.value % Len(c)
      [] sel.form = "indices" -> i \in ToSet(sel.value)
      [] OTHER -> TRUE

(* The positions of a coordinate that lat and lon mean along it.            *)
OnAxis(c, sel, i) ==
    CASE sel.form = "number" -> i \in Near(c, sel.value)
      [] sel.form = "pair" -> i \in Inside(c, sel.value)
      [] sel.form = "slice" -> i \in sel.value[1] .. sel.value[2]
      [] OTHER -> TRUE

LEMMA KeysResolved ==
    ASSUME NEW keys
    PROVE  Resolves(keys).status = "ok" /\ Resolves(keys).keys = keys
BY DEF Resolves

LEMMA TimeRight ==
    ASSUME NEW f \in Files, NEW a \in Asks, TimePart(f, a).status = "ok"
    PROVE  LET keys == TimePart(f, a).keys
               d == TimeDim(f)
               i == keys["time_index"]
           IN \/ keys = <<>> /\ a.time.form \in {"none", "dates", "indices"}
              \/ /\ a.time.form \in {"word", "date", "index"}
                 /\ DOMAIN keys = {"time_index"} /\ d \in ToSet(f.dims)
                 /\ \/ /\ a.time.form = "index" /\ i = a.time.value
                       /\ i \in -Size(f, d) .. Size(f, d) - 1
                    \/ /\ a.time.form # "index" /\ i \in Positions(f, d)
                       /\ SnapTime(f.coord[d], a.time, i)
<1> DEFINE d == TimeDim(f)
           n == Size(f, d)
           sel == a.time
           At(i) == Resolves([time_index |-> i])
           part == TimePart(f, a)
<1>1. ASSUME NEW i PROVE /\ At(i).keys["time_index"] = i
                         /\ DOMAIN At(i).keys = {"time_index"}
    BY DEF Resolves
<1>2. Resolves(<<>>).keys = <<>> /\ Raises.status # "ok"
      /\ Refuses("internal_error").status # "ok"
    BY DEF Resolves, Raises, Refuses
<1>3. part = IF sel.form = "none" THEN Resolves(<<>>)
       ELSE IF sel.form \notin {"word", "date", "dates", "index", "indices"} THEN Raises
       ELSE IF d = NoDim THEN Refuses("internal_error")
       ELSE IF sel.form \in {"dates", "indices"} THEN Resolves(<<>>)
       ELSE IF sel.form = "index"
            THEN IF sel.value \in -n .. n - 1 THEN At(sel.value) ELSE Raises
       ELSE IF n = 0 THEN Raises
       ELSE IF sel.form = "date" THEN At(Nearest(f.coord[d], sel.value))
       ELSE At(IF sel.value = "first" THEN 0 ELSE n - 1)
    BY Zenon DEF TimePart
<1>4. d = NoDim \/ d \in ToSet(f.dims)
    BY DimOrNone
<1> HIDE DEF At, part, d, n
<1>5. CASE sel.form \in {"none", "dates", "indices"}
    BY <1>2, <1>3, <1>5 DEF part
<1>6. CASE sel.form = "index"
    <2>1. d # NoDim /\ sel.value \in -n .. n - 1 /\ part = At(sel.value)
        BY <1>2, <1>3, <1>6 DEF part
    <2> QED
        BY <2>1, <1>1, <1>4, <1>6 DEF part, d, n
<1>7. CASE sel.form \in {"word", "date"}
    <2>1. /\ d # NoDim /\ n # 0
          /\ part = IF sel.form = "date" THEN At(Nearest(f.coord[d], sel.value))
                    ELSE At(IF sel.value = "first" THEN 0 ELSE n - 1)
        BY <1>2, <1>3, <1>7 DEF part
    <2>2. d \in ToSet(f.dims)
        BY <2>1, <1>4
    <2>3. n \in Nat /\ n = Len(f.coord[d]) /\ f.coord[d] \in Seq(Int)
          /\ Positions(f, d) = 0 .. n - 1
        BY <2>2, DimFacts DEF n
    <2>4. CASE sel.form = "date"
        <3>1. sel.value \in Int /\ f.coord[d] # <<>>
            BY <2>1, <2>3, <2>4, AsksAssumption
        <3>2. /\ Nearest(f.coord[d], sel.value) \in 0 .. n - 1
              /\ Nearest(f.coord[d], sel.value) \in Near(f.coord[d], sel.value)
            BY <2>3, <3>1, NearestRight
        <3>3. part = At(Nearest(f.coord[d], sel.value))
            BY <2>1, <2>4
        <3>4. SnapTime(f.coord[d], sel, Nearest(f.coord[d], sel.value))
            BY <3>2, <2>4 DEF SnapTime
        <3> QED
            BY <3>2, <3>3, <3>4, <2>2, <2>3, <2>4, <1>1 DEF part, d
    <2>5. CASE sel.form = "word"
        <3> DEFINE i == IF sel.value = "first" THEN 0 ELSE n - 1
        <3>1. part = At(i) /\ i \in 0 .. n - 1
            BY <2>1, <2>3, <2>5
        <3>2. SnapTime(f.coord[d], sel, i)
            BY <2>3, <2>5 DEF SnapTime
        <3> HIDE DEF i
        <3> QED
            BY <3>1, <3>2, <2>2, <2>3, <2>5, <1>1 DEF part, d
    <2> QED
        BY <1>7, <2>4, <2>5
<1>8. CASE sel.form \notin {"none", "dates", "indices", "index", "word", "date"}
    BY <1>2, <1>3, <1>8 DEF part
<1> QED
    BY <1>5, <1>6, <1>7, <1>8

LEMMA LevelRight ==
    ASSUME NEW f \in Files, NEW a \in Asks, LevelPart(f, a).status = "ok"
    PROVE  LET keys == LevelPart(f, a).keys
               d == LevelDim(f)
               i == keys["level_index"]
           IN \/ keys = <<>> /\ a.level.form \notin {"number", "word"}
              \/ /\ a.level.form \in {"number", "word"}
                 /\ DOMAIN keys = {"level_index"} /\ d \in ToSet(f.dims)
                 /\ i \in Positions(f, d)
                 /\ SnapLevel(f.coord[d], d, a.level, i)
<1> DEFINE d == LevelDim(f)
           c == f.coord[d]
           sel == a.level
           At(i) == Resolves([level_index |-> i])
           part == LevelPart(f, a)
           high == IF sel.value = "surface" THEN Highest(c) ELSE Lowest(c)
           end == IF sel.value = "surface" THEN 0 ELSE Len(c) - 1
<1>1. ASSUME NEW i PROVE /\ At(i).keys["level_index"] = i
                         /\ DOMAIN At(i).keys = {"level_index"}
    BY DEF Resolves
<1>2. Resolves(<<>>).keys = <<>> /\ Raises.status # "ok"
      /\ Refuses("not_4d").status # "ok"
    BY DEF Resolves, Raises, Refuses
<1>3. part = IF sel.form = "none" THEN Resolves(<<>>)
       ELSE IF d = NoDim THEN Refuses("not_4d")
       ELSE IF sel.form \notin {"number", "pair", "index", "indices", "word"} THEN Raises
       ELSE IF sel.form \notin {"number", "word"} THEN Resolves(<<>>)
       ELSE IF c = <<>> THEN Raises
       ELSE IF sel.form = "number" THEN At(Nearest(c, sel.value))
       ELSE IF d = "plev" THEN At(high)
       ELSE At(end)
    BY Zenon DEF LevelPart
<1>4. d = NoDim \/ d \in ToSet(f.dims)
    BY DimOrNone
<1> HIDE DEF At, part, d
<1>5. CASE sel.form \notin {"number", "word"}
    <2> HIDE DEF c, high, end
    <2> QED
        BY <1>2, <1>3, <1>5 DEF part
<1>6. CASE sel.form \in {"number", "word"}
    <2>1. /\ d # NoDim /\ c # <<>>
          /\ part = IF sel.form = "number" THEN At(Nearest(c, sel.value))
                    ELSE IF d = "plev" THEN At(high) ELSE At(end)
        <3> HIDE DEF c, high, end
        <3> QED
            BY <1>2, <1>3, <1>6 DEF part
    <2>2. d \in ToSet(f.dims)
        BY <2>1, <1>4
    <2>3. c \in Seq(Int) /\ Positions(f, d) = 0 .. Len(c) - 1
        BY <2>2, DimFacts
    <2>4. PICK i \in 0 .. Len(c) - 1 : part = At(i) /\ SnapLevel(c, d, sel, i)
        <3> HIDE DEF c
        <3>1. CASE sel.form = "number"
            <4>1. sel.value \in Int
                BY <3>1, AsksAssumption
            <4>2. /\ Nearest(c, sel.value) \in 0 .. Len(c) - 1
                  /\ Nearest(c, sel.value) \in Near(c, sel.value)
                BY <2>1, <2>3, <4>1, NearestRight
            <4>3. SnapLevel(c, d, sel, Nearest(c, sel.value))
                BY <4>2, <3>1 DEF SnapLevel
            <4> QED
                BY <2>1, <3>1, <4>2, <4>3
        <3>2. CASE sel.form = "word" /\ d = "plev"
            <4>1. /\ Highest(c) \in 0 .. Len(c) - 1 /\ Lowest(c) \in 0 .. Len(c) - 1
                  /\ \A j \in DOMAIN c : c[j] <= c[Highest(c) + 1]
                  /\ \A j \in DOMAIN c : c[Lowest(c) + 1] <= c[j]
                BY <2>1, <2>3, HighestRight, LowestRight
            <4>2. \A j \in DOMAIN c : IF sel.value = "surface" THEN c[high + 1] >= c[j]
                                      ELSE c[high + 1] <= c[j]
                BY <4>1, <2>3
            <4>3. high \in 0 .. Len(c) - 1
                BY <4>1
            <4>4. SnapLevel(c, d, sel, high)
                BY <4>2, <3>2, Zenon DEF SnapLevel
            <4> QED
                BY <2>1, <3>2, <4>3, <4>4
        <3>3. CASE sel.form = "word" /\ d # "plev"
            <4>1. end \in 0 .. Len(c) - 1
                BY <2>1, <2>3
            <4>2. SnapLevel(c, d, sel, end)
                BY <3>3 DEF SnapLevel
            <4> QED
                BY <2>1, <3>3, <4>1, <4>2
        <3> QED
            BY <1>6, <3>1, <3>2, <3>3
    <2> QED
        BY <2>2, <2>3, <2>4, <1>1, <1>6 DEF part, d
<1> QED
    BY <1>5, <1>6

(* The positions inside a box, of coordinates in order, have no gaps.       *)
LEMMA InsideInOrder ==
    ASSUME NEW c \in Seq(Int), NEW box \in Int \X Int, Inside(c, box) # {}
    PROVE  LET I == Inside(c, box)
           IN /\ I \subseteq 0 .. Len(c) - 1
              /\ Min(I) \in I /\ Max(I) \in I /\ Min(I) <= Max(I)
              /\ Monotonic(c) => I = Min(I) .. Max(I)
<1> DEFINE I == Inside(c, box)
           lo == Min(I)
           hi == Max(I)
<1>1. \A k : k \in I <=> k + 1 \in DOMAIN c /\ k \in Int
                         /\ box[1] <= c[k + 1] /\ c[k + 1] <= box[2]
    BY DEF Inside
<1>2. \A k \in I : k \in 0 .. Len(c) - 1
    BY <1>1
<1>3. I \in SUBSET Nat /\ I \in SUBSET (0 .. Len(c)) /\ Len(c) \in Nat
    BY <1>2
<1> HIDE DEF I
<1>4. lo \in I /\ \A k \in I : lo <= k
    BY <1>3, LeastExists DEF I
<1>5. hi \in I /\ \A k \in I : k <= hi
    BY <1>3, GreatestExists DEF I
<1> HIDE DEF lo, hi
<1>6. I \subseteq lo .. hi
    BY <1>3, <1>4, <1>5
<1>7. lo <= hi /\ lo \in 0 .. Len(c) - 1 /\ hi \in 0 .. Len(c) - 1
    BY <1>2, <1>4, <1>5
<1>8. ASSUME Monotonic(c), NEW k \in lo .. hi PROVE k \in I
    <2>1. k + 1 \in DOMAIN c /\ lo + 1 \in DOMAIN c /\ hi + 1 \in DOMAIN c /\ k \in Int
        BY <1>7
    <2>2. c[k + 1] \in Int /\ c[lo + 1] \in Int /\ c[hi + 1] \in Int
          /\ box[1] \in Int /\ box[2] \in Int
        BY <2>1
    <2>3. /\ box[1] <= c[lo + 1] /\ c[lo + 1] <= box[2]
          /\ box[1] <= c[hi + 1] /\ c[hi + 1] <= box[2]
        BY <1>1, <1>4, <1>5
    <2>4. k = lo \/ k = hi \/ (lo + 1 < k + 1 /\ k + 1 < hi + 1)
        BY <1>7
    <2>5. CASE lo + 1 < k + 1 /\ k + 1 < hi + 1
        <3>1. \/ c[lo + 1] < c[k + 1] /\ c[k + 1] < c[hi + 1]
              \/ c[lo + 1] > c[k + 1] /\ c[k + 1] > c[hi + 1]
            BY <1>8, <2>1, <2>5 DEF Monotonic
        <3>2. box[1] <= c[k + 1] /\ c[k + 1] <= box[2]
            BY <3>1, <2>2, <2>3
        <3> QED
            BY <3>2, <2>1, <1>1
    <2> QED
        BY <2>4, <2>5, <1>4, <1>5
<1> QED
    BY <1>2, <1>4, <1>5, <1>6, <1>7, <1>8 DEF I, lo, hi

(* lat and lon, by the two keys either may have.                            *)
AxisResolved(f, sel, D, one, many, r) ==
    LET d == FirstDim(f, D)
    IN \/ /\ sel.form \in {"none", "slice"} \/ d = NoDim
          /\ one \notin DOMAIN r /\ many \notin DOMAIN r
       \/ /\ sel.form = "number" /\ one \in DOMAIN r /\ many \notin DOMAIN r
          /\ d \in ToSet(f.dims) /\ r[one] \in Positions(f, d)
          /\ r[one] \in Near(f.coord[d], sel.value)
       \/ /\ sel.form = "pair" /\ many \in DOMAIN r /\ one \notin DOMAIN r
          /\ d \in ToSet(f.dims)
          /\ \E lo, hi \in Positions(f, d) :
                /\ r[many] = <<lo, hi>> /\ lo <= hi
                /\ Monotonic(f.coord[d]) => Inside(f.coord[d], sel.value) = lo .. hi

LEMMA AxisRight ==
    ASSUME NEW f \in Files, NEW D, NEW one, NEW many, NEW sel,
           sel.form = "number" => sel.value \in Int,
           sel.form = "pair" => sel.value \in Int \X Int,
           one # many, AxisPart(f, sel, D, one, many).status = "ok"
    PROVE  LET keys == AxisPart(f, sel, D, one, many).keys
           IN AxisResolved(f, sel, D, one, many, keys) /\ DOMAIN keys \subseteq {one, many}
<1> DEFINE d == FirstDim(f, D)
           c == f.coord[d]
           I == Inside(c, sel.value)
           part == AxisPart(f, sel, D, one, many)
           OneAt(i) == Resolves([k \in {one} |-> i])
           ManyAt(v) == Resolves([k \in {many} |-> v])
<1>1. ASSUME NEW i PROVE /\ OneAt(i).keys[one] = i /\ DOMAIN OneAt(i).keys = {one}
                         /\ ManyAt(i).keys[many] = i /\ DOMAIN ManyAt(i).keys = {many}
    BY DEF Resolves
<1>2. Resolves(<<>>).keys = <<>> /\ Raises.status # "ok"
      /\ Refuses("empty_slice").status # "ok"
    BY DEF Resolves, Raises, Refuses
<1>3. part = IF sel.form = "none" \/ d = NoDim THEN Resolves(<<>>)
       ELSE IF sel.form \notin {"number", "pair", "slice"} THEN Raises
       ELSE IF sel.form = "slice" THEN Resolves(<<>>)
       ELSE IF sel.form = "pair"
            THEN IF I = {} THEN Refuses("empty_slice") ELSE ManyAt(<<Min(I), Max(I)>>)
       ELSE IF c = <<>> THEN Raises
       ELSE OneAt(Nearest(c, sel.value))
    BY Zenon DEF AxisPart
<1>4. d # NoDim => d \in ToSet(f.dims)
    BY FirstDimRight
<1>5. d # NoDim => c \in Seq(Int) /\ Positions(f, d) = 0 .. Len(c) - 1
    BY <1>4, DimFacts
<1> HIDE DEF OneAt, ManyAt, part, d, c, I
<1>6. CASE sel.form = "none" \/ d = NoDim
    <2>1. part.keys = <<>> /\ DOMAIN <<>> = {}
        BY <1>2, <1>3, <1>6
    <2> QED
        BY <2>1, <1>6 DEF part, d, AxisResolved
<1>7. CASE sel.form = "number" /\ d # NoDim
    <2>1. c # <<>> /\ part = OneAt(Nearest(c, sel.value))
        BY <1>2, <1>3, <1>7 DEF part
    <2>2. /\ Nearest(c, sel.value) \in 0 .. Len(c) - 1
          /\ Nearest(c, sel.value) \in Near(c, sel.value)
        BY <2>1, <1>5, <1>7, NearestRight
    <2> QED
        BY <2>1, <2>2, <1>1, <1>4, <1>5, <1>7 DEF part, d, c, AxisResolved
<1>8. CASE sel.form = "pair" /\ d # NoDim
    <2>1. I # {} /\ part = ManyAt(<<Min(I), Max(I)>>)
        BY <1>2, <1>3, <1>8 DEF part
    <2>2. /\ I \subseteq 0 .. Len(c) - 1 /\ Min(I) \in I /\ Max(I) \in I
          /\ Min(I) <= Max(I) /\ (Monotonic(c) => I = Min(I) .. Max(I))
        BY <2>1, <1>5, <1>8, InsideInOrder DEF I
    <2>3. part.keys[many] = <<Min(I), Max(I)>> /\ DOMAIN part.keys = {many}
        BY <2>1, <1>1
    <2>4. Min(I) \in Positions(f, d) /\ Max(I) \in Positions(f, d)
        BY <2>2, <1>5, <1>8
    <2>5. \E lo, hi \in Positions(f, d) :
                /\ part.keys[many] = <<lo, hi>> /\ lo <= hi
                /\ Monotonic(c) => I = lo .. hi
        BY <2>2, <2>3, <2>4
    <2> QED
        BY <2>3, <2>5, <1>4, <1>8 DEF part, d, c, I, AxisResolved
<1>9. CASE sel.form = "slice" /\ d # NoDim
    <2>1. part.keys = <<>> /\ DOMAIN <<>> = {}
        BY <1>2, <1>3, <1>9
    <2> QED
        BY <2>1, <1>9 DEF part, d, AxisResolved
<1>10. CASE sel.form \notin {"none", "number", "pair", "slice"} /\ d # NoDim
    BY <1>2, <1>3, <1>10 DEF part
<1> QED
    BY <1>6, <1>7, <1>8, <1>9, <1>10

(* Other keys beside make no difference.                                    *)
LEMMA AxisAmongOthers ==
    ASSUME NEW f, NEW sel, NEW D, NEW one, NEW many, NEW keys, NEW r,
           AxisResolved(f, sel, D, one, many, keys),
           \A k \in {one, many} : /\ k \in DOMAIN r <=> k \in DOMAIN keys
                                  /\ k \in DOMAIN r => r[k] = keys[k]
    PROVE  AxisResolved(f, sel, D, one, many, r)
BY DEF AxisResolved

LEMMA CellRight ==
    ASSUME NEW f \in Files, NEW a \in Asks, CellPart(f, a).status = "ok"
    PROVE  LET keys == CellPart(f, a).keys
               d == CellDim(f)
           IN \/ keys = <<>> /\ a.cell.form = "none"
              \/ /\ a.cell.form # "none" /\ DOMAIN keys = {"cell_index", "cell_dim"}
                 /\ d \in ToSet(f.dims) /\ keys["cell_dim"] = d
                 /\ keys["cell_index"] = a.cell.value /\ a.cell.value \in Positions(f, d)
<1>1. CellDim(f) = NoDim \/ CellDim(f) \in ToSet(f.dims)
    BY DimOrNone
<1>2. CASE a.cell.form = "none"
    BY <1>2 DEF CellPart, Resolves
<1>3. CASE a.cell.form # "none"
    <2>1. /\ CellDim(f) # NoDim /\ a.cell.value \in Positions(f, CellDim(f))
          /\ CellPart(f, a) = Resolves([cell_index |-> a.cell.value, cell_dim |-> CellDim(f)])
        BY <1>3 DEF CellPart, Refuses
    <2> DEFINE r == [cell_index |-> a.cell.value, cell_dim |-> CellDim(f)]
    <2>2. /\ DOMAIN r = {"cell_index", "cell_dim"}
          /\ r["cell_index"] = a.cell.value /\ r["cell_dim"] = CellDim(f)
        OBVIOUS
    <2>3. CellPart(f, a).keys = r
        BY <2>1, KeysResolved
    <2> HIDE DEF r
    <2> QED
        BY <2>1, <2>2, <2>3, <1>1, <1>3
<1> QED
    BY <1>2, <1>3

LEMMA CellsRight ==
    ASSUME NEW f \in Files, NEW a \in Asks, CellsPart(f, a).status = "ok"
    PROVE  LET keys == CellsPart(f, a).keys
               d == CellDim(f)
           IN \/ keys = <<>> /\ a.cells.form = "none"
              \/ /\ a.cells.form # "none" /\ DOMAIN keys = {"cell_indices", "cell_dim"}
                 /\ d \in ToSet(f.dims) /\ keys["cell_dim"] = d
                 /\ keys["cell_indices"] = a.cells.value
                 /\ a.cells.value \in Seq(Int) /\ a.cells.value # <<>>
                 /\ ToSet(a.cells.value) \subseteq Positions(f, d)
<1>1. CellDim(f) = NoDim \/ CellDim(f) \in ToSet(f.dims)
    BY DimOrNone
<1>2. CASE a.cells.form = "none"
    BY <1>2 DEF CellsPart, Resolves
<1>3. CASE a.cells.form # "none"
    <2>1. /\ CellDim(f) # NoDim /\ a.cells.value # <<>>
          /\ ~CellsOut(f, CellDim(f), a.cells.value)
          /\ CellsPart(f, a) = Resolves([cell_indices |-> a.cells.value,
                                         cell_dim |-> CellDim(f)])
        BY <1>3 DEF CellsPart, Refuses
    <2>2. a.cells.value \in Seq(Int)
        BY <1>3, AsksAssumption
    <2> DEFINE r == [cell_indices |-> a.cells.value, cell_dim |-> CellDim(f)]
    <2>3. /\ DOMAIN r = {"cell_indices", "cell_dim"}
          /\ r["cell_indices"] = a.cells.value /\ r["cell_dim"] = CellDim(f)
        OBVIOUS
    <2>4. CellsPart(f, a).keys = r
        BY <2>1, KeysResolved
    <2> HIDE DEF r
    <2> QED
        BY <2>1, <2>2, <2>3, <2>4, <1>1, <1>3 DEF CellsOut
<1> QED
    BY <1>2, <1>3
-----------------------------------------------------------------------------
(* What the parts have resolved together.                                   *)

LEMMA InOrderOk ==
    ASSUME NEW n \in Nat, NEW parts, DOMAIN parts = 1 .. n,
           InOrder(parts).status = "ok"
    PROVE  /\ \A i \in 1 .. n : parts[i].status = "ok"
           /\ InOrder(parts).keys = Entries(parts)
<1> DEFINE bad == {i \in 1 .. n : parts[i].status # "ok"}
<1>1. InOrder(parts) = IF bad # {} THEN parts[Min(bad)] ELSE Resolves(Entries(parts))
    BY DEF InOrder
<1>2. bad # {} => Min(bad) \in bad
    BY LeastExists
<1>3. bad = {}
    BY <1>1, <1>2
<1>4. InOrder(parts) = Resolves(Entries(parts))
    BY <1>1, <1>3
<1> QED
    BY <1>3, <1>4, KeysResolved

(* A key that one part alone can give is that part's.                       *)
LEMMA KeyOfOne ==
    ASSUME NEW n \in Nat, NEW parts, DOMAIN parts = 1 .. n, NEW k, NEW m \in 1 .. n,
           \A i \in 1 .. n : k \in DOMAIN parts[i].keys => i = m
    PROVE  /\ k \in DOMAIN Entries(parts) <=> k \in DOMAIN parts[m].keys
           /\ k \in DOMAIN Entries(parts) => Entries(parts)[k] = parts[m].keys[k]
<1> DEFINE I == {i \in 1 .. n : k \in DOMAIN parts[i].keys}
           all == UNION {DOMAIN parts[i].keys : i \in 1 .. n}
<1>1. DOMAIN Entries(parts) = all
    BY DEF Entries
<1>2. k \in all => Entries(parts)[k] = parts[Max(I)].keys[k]
    BY DEF Entries
<1>3. k \in all <=> k \in DOMAIN parts[m].keys
    OBVIOUS
<1>4. k \in all => I = {m}
    BY <1>3
<1>5. Max({m}) = m
    <2>1. {m} \in SUBSET (0 .. n) /\ {m} # {}
        OBVIOUS
    <2> QED
        BY <2>1, GreatestExists
<1> HIDE DEF I, all
<1> QED
    BY <1>1, <1>2, <1>3, <1>4, <1>5

(* And any key is that of the last part that gives it.                      *)
Giver(parts, n, k) == Max({i \in 1 .. n : k \in DOMAIN parts[i].keys})

LEMMA KeyOfSome ==
    ASSUME NEW n \in Nat, NEW parts, DOMAIN parts = 1 .. n, NEW k
    PROVE  LET m == Giver(parts, n, k)
           IN /\ k \in DOMAIN Entries(parts) =>
                    /\ m \in 1 .. n /\ k \in DOMAIN parts[m].keys
                    /\ Entries(parts)[k] = parts[m].keys[k]
              /\ \A i \in 1 .. n : k \in DOMAIN parts[i].keys => k \in DOMAIN Entries(parts)
<1> DEFINE I == {i \in 1 .. n : k \in DOMAIN parts[i].keys}
           all == UNION {DOMAIN parts[i].keys : i \in 1 .. n}
<1>1. DOMAIN Entries(parts) = all
    BY DEF Entries
<1>2. k \in all => Entries(parts)[k] = parts[Max(I)].keys[k]
    BY DEF Entries
<1>3. k \in all <=> I # {}
    OBVIOUS
<1>4. I # {} => Max(I) \in I
    <2>1. I \in SUBSET (0 .. n)
        OBVIOUS
    <2> HIDE DEF I
    <2> QED
        BY <2>1, GreatestExists
<1>5. \A i \in 1 .. n : k \in DOMAIN parts[i].keys => k \in all
    OBVIOUS
<1>6. k \in all => /\ Max(I) \in 1 .. n /\ k \in DOMAIN parts[Max(I)].keys
    BY <1>3, <1>4
<1>7. Giver(parts, n, k) = Max(I)
    BY DEF Giver
<1> HIDE DEF I, all
<1> QED
    BY <1>1, <1>2, <1>5, <1>6, <1>7

(* What resolve_spec has resolved before it looks at index_selectors.       *)
NamedRight(f, a, r) ==
    /\ \/ a.time.form \in {"none", "dates", "indices"} /\ "time_index" \notin DOMAIN r
       \/ LET d == TimeDim(f)
              i == r["time_index"]
          IN /\ a.time.form \in {"word", "date", "index"}
             /\ "time_index" \in DOMAIN r /\ d \in ToSet(f.dims)
             /\ \/ /\ a.time.form = "index" /\ i = a.time.value
                   /\ i \in -Size(f, d) .. Size(f, d) - 1
                \/ /\ a.time.form # "index" /\ i \in Positions(f, d)
                   /\ SnapTime(f.coord[d], a.time, i)
    /\ \/ a.level.form \notin {"number", "word"} /\ "level_index" \notin DOMAIN r
       \/ LET d == LevelDim(f)
              i == r["level_index"]
          IN /\ a.level.form \in {"number", "word"}
             /\ "level_index" \in DOMAIN r /\ d \in ToSet(f.dims)
             /\ i \in Positions(f, d) /\ SnapLevel(f.coord[d], d, a.level, i)

CellsResolved(f, a, r) ==
    LET d == CellDim(f)
    IN \/ /\ a.cell.form = "none" /\ a.cells.form = "none"
          /\ {"cell_index", "cell_indices", "cell_dim"} \cap DOMAIN r = {}
       \/ /\ a.cell.form # "none" /\ a.cells.form = "none"
          /\ {"cell_index", "cell_dim"} \subseteq DOMAIN r /\ "cell_indices" \notin DOMAIN r
          /\ d \in ToSet(f.dims) /\ r["cell_dim"] = d
          /\ r["cell_index"] = a.cell.value /\ a.cell.value \in Positions(f, d)
       \/ /\ a.cells.form # "none" /\ a.cell.form = "none"
          /\ {"cell_indices", "cell_dim"} \subseteq DOMAIN r /\ "cell_index" \notin DOMAIN r
          /\ d \in ToSet(f.dims) /\ r["cell_dim"] = d
          /\ r["cell_indices"] = a.cells.value
          /\ a.cells.value \in Seq(Int) /\ a.cells.value # <<>>
          /\ ToSet(a.cells.value) \subseteq Positions(f, d)

NamedResolved(f, a, r) ==
    /\ NamedRight(f, a, r)
    /\ AxisResolved(f, a.lat, LatDims, "lat_index", "lat_indices", r)
    /\ AxisResolved(f, a.lon, LonDims, "lon_index", "lon_indices", r)
    /\ CellsResolved(f, a, r)

NamedKeys == ResolvedKeys \ {"index_selectors"}

LEMMA NamedPartsRight ==
    ASSUME NEW f \in Files, NEW a \in Asks, ~BadTogether(a), NEW named,
           named = InOrder(<<TimePart(f, a), LevelPart(f, a), LatPart(f, a),
                             LonPart(f, a), CellPart(f, a), CellsPart(f, a)>>),
           named.status = "ok"
    PROVE  NamedResolved(f, a, named.keys) /\ DOMAIN named.keys \subseteq NamedKeys
<1> DEFINE parts == <<TimePart(f, a), LevelPart(f, a), LatPart(f, a),
                      LonPart(f, a), CellPart(f, a), CellsPart(f, a)>>
           r == named.keys
<1>1. /\ DOMAIN parts = 1 .. 6 /\ parts[1] = TimePart(f, a) /\ parts[2] = LevelPart(f, a)
      /\ parts[3] = LatPart(f, a) /\ parts[4] = LonPart(f, a)
      /\ parts[5] = CellPart(f, a) /\ parts[6] = CellsPart(f, a)
    OBVIOUS
<1> HIDE DEF parts
<1>2. (\A i \in 1 .. 6 : parts[i].status = "ok") /\ r = Entries(parts)
    BY <1>1, InOrderOk DEF parts
<1> HIDE DEF r
<1> DEFINE K(i) == DOMAIN parts[i].keys
<1>3. DOMAIN <<>> = {}
    OBVIOUS
<1>4. K(1) \subseteq {"time_index"}
    BY <1>1, <1>2, <1>3, TimeRight
<1>5. K(2) \subseteq {"level_index"}
    BY <1>1, <1>2, <1>3, LevelRight
<1>6. /\ AxisResolved(f, a.lat, LatDims, "lat_index", "lat_indices", LatPart(f, a).keys)
      /\ K(3) \subseteq {"lat_index", "lat_indices"}
    <2>1. LatPart(f, a).status = "ok"
        BY <1>1, <1>2
    <2>2. /\ a.lat.form = "number" => a.lat.value \in Int
          /\ a.lat.form = "pair" => a.lat.value \in Int \X Int
        BY AsksAssumption
    <2>3. AxisPart(f, a.lat, LatDims, "lat_index", "lat_indices").status = "ok"
        BY <2>1 DEF LatPart
    <2>4. LET keys == AxisPart(f, a.lat, LatDims, "lat_index", "lat_indices").keys
          IN /\ AxisResolved(f, a.lat, LatDims, "lat_index", "lat_indices", keys)
             /\ DOMAIN keys \subseteq {"lat_index", "lat_indices"}
        BY <2>2, <2>3, AxisRight
    <2> QED
        BY <2>4, <1>1 DEF LatPart
<1>7. /\ AxisResolved(f, a.lon, LonDims, "lon_index", "lon_indices", LonPart(f, a).keys)
      /\ K(4) \subseteq {"lon_index", "lon_indices"}
    <2>1. LonPart(f, a).status = "ok"
        BY <1>1, <1>2
    <2>2. /\ a.lon.form = "number" => a.lon.value \in Int
          /\ a.lon.form = "pair" => a.lon.value \in Int \X Int
        BY AsksAssumption
    <2>3. AxisPart(f, a.lon, LonDims, "lon_index", "lon_indices").status = "ok"
        BY <2>1 DEF LonPart
    <2>4. LET keys == AxisPart(f, a.lon, LonDims, "lon_index", "lon_indices").keys
          IN /\ AxisResolved(f, a.lon, LonDims, "lon_index", "lon_indices", keys)
             /\ DOMAIN keys \subseteq {"lon_index", "lon_indices"}
        BY <2>2, <2>3, AxisRight
    <2> QED
        BY <2>4, <1>1 DEF LonPart
<1>8. K(5) \subseteq {"cell_index", "cell_dim"}
    BY <1>1, <1>2, <1>3, CellRight
<1>9. K(6) \subseteq {"cell_indices", "cell_dim"}
    BY <1>1, <1>2, <1>3, CellsRight
<1>10. \A i \in 1 .. 6 : i = 1 \/ i = 2 \/ i = 3 \/ i = 4 \/ i = 5 \/ i = 6
    OBVIOUS
<1>11. \A k \in {"time_index"} : \A i \in 1 .. 6 : k \in K(i) => i = 1
    BY <1>4, <1>5, <1>6, <1>7, <1>8, <1>9, <1>10
<1>12. \A k \in {"level_index"} : \A i \in 1 .. 6 : k \in K(i) => i = 2
    BY <1>4, <1>5, <1>6, <1>7, <1>8, <1>9, <1>10
<1>13. \A k \in {"lat_index", "lat_indices"} : \A i \in 1 .. 6 : k \in K(i) => i = 3
    BY <1>4, <1>5, <1>6, <1>7, <1>8, <1>9, <1>10
<1>14. \A k \in {"lon_index", "lon_indices"} : \A i \in 1 .. 6 : k \in K(i) => i = 4
    BY <1>4, <1>5, <1>6, <1>7, <1>8, <1>9, <1>10
<1>15. \A i \in 1 .. 6 : /\ "cell_index" \in K(i) => i = 5
                         /\ "cell_indices" \in K(i) => i = 6
                         /\ "cell_dim" \in K(i) => i \in {5, 6}
    BY <1>4, <1>5, <1>6, <1>7, <1>8, <1>9, <1>10
<1> HIDE DEF K
<1>16. ASSUME NEW k, NEW m \in 1 .. 6, \A i \in 1 .. 6 : k \in K(i) => i = m
       PROVE  /\ k \in DOMAIN r <=> k \in DOMAIN parts[m].keys
              /\ k \in DOMAIN r => r[k] = parts[m].keys[k]
    <2>1. \A i \in 1 .. 6 : k \in DOMAIN parts[i].keys => i = m
        BY <1>16 DEF K
    <2>2. 6 \in Nat
        OBVIOUS
    <2>3. /\ k \in DOMAIN Entries(parts) <=> k \in DOMAIN parts[m].keys
          /\ k \in DOMAIN Entries(parts) => Entries(parts)[k] = parts[m].keys[k]
        BY <2>1, <2>2, <1>1, KeyOfOne
    <2> QED
        BY <2>3, <1>2
<1>17. NamedRight(f, a, r)
    <2>1. /\ "time_index" \in DOMAIN r <=> "time_index" \in DOMAIN TimePart(f, a).keys
          /\ "time_index" \in DOMAIN r => r["time_index"] = TimePart(f, a).keys["time_index"]
        BY <1>1, <1>11, <1>16
    <2>2. /\ "level_index" \in DOMAIN r <=> "level_index" \in DOMAIN LevelPart(f, a).keys
          /\ "level_index" \in DOMAIN r => r["level_index"] = LevelPart(f, a).keys["level_index"]
        BY <1>1, <1>12, <1>16
    <2>3. TimePart(f, a).status = "ok" /\ LevelPart(f, a).status = "ok"
        BY <1>1, <1>2
    <2> QED
        BY <2>1, <2>2, <2>3, <1>3, TimeRight, LevelRight DEF NamedRight
<1>18. AxisResolved(f, a.lat, LatDims, "lat_index", "lat_indices", r)
    <2>1. \A k \in {"lat_index", "lat_indices"} :
             /\ k \in DOMAIN r <=> k \in DOMAIN LatPart(f, a).keys
             /\ k \in DOMAIN r => r[k] = LatPart(f, a).keys[k]
        BY <1>1, <1>13, <1>16
    <2> QED
        BY <2>1, <1>6, AxisAmongOthers
<1>19. AxisResolved(f, a.lon, LonDims, "lon_index", "lon_indices", r)
    <2>1. \A k \in {"lon_index", "lon_indices"} :
             /\ k \in DOMAIN r <=> k \in DOMAIN LonPart(f, a).keys
             /\ k \in DOMAIN r => r[k] = LonPart(f, a).keys[k]
        BY <1>1, <1>14, <1>16
    <2> QED
        BY <2>1, <1>7, AxisAmongOthers
<1>20. CellsResolved(f, a, r)
    <2>1. ~(a.cell.form # "none" /\ a.cells.form # "none")
        BY DEF BadTogether
    <2>2. /\ "cell_index" \in DOMAIN r <=> "cell_index" \in DOMAIN CellPart(f, a).keys
          /\ "cell_index" \in DOMAIN r => r["cell_index"] = CellPart(f, a).keys["cell_index"]
        BY <1>1, <1>15, <1>16
    <2>3. /\ "cell_indices" \in DOMAIN r <=> "cell_indices" \in DOMAIN CellsPart(f, a).keys
          /\ "cell_indices" \in DOMAIN r => r["cell_indices"] = CellsPart(f, a).keys["cell_indices"]
        BY <1>1, <1>15, <1>16
    <2>4. /\ "cell_dim" \in DOMAIN r <=> \/ "cell_dim" \in DOMAIN CellPart(f, a).keys
                                         \/ "cell_dim" \in DOMAIN CellsPart(f, a).keys
          /\ "cell_dim" \in DOMAIN r =>
                \/ /\ "cell_dim" \in DOMAIN CellPart(f, a).keys
                   /\ r["cell_dim"] = CellPart(f, a).keys["cell_dim"]
                \/ /\ "cell_dim" \in DOMAIN CellsPart(f, a).keys
                   /\ r["cell_dim"] = CellsPart(f, a).keys["cell_dim"]
        <3>1. /\ \A i \in 1 .. 6 : "cell_dim" \in DOMAIN parts[i].keys => "cell_dim" \in DOMAIN r
              /\ "cell_dim" \in DOMAIN r =>
                    \E i \in 1 .. 6 : /\ "cell_dim" \in DOMAIN parts[i].keys
                                      /\ r["cell_dim"] = parts[i].keys["cell_dim"]
            <4>1. DOMAIN parts = 1 .. 6 /\ 6 \in Nat /\ r = Entries(parts)
                BY <1>1, <1>2
            <4> DEFINE m == Giver(parts, 6, "cell_dim")
            <4>2. /\ "cell_dim" \in DOMAIN r => /\ m \in 1 .. 6
                                                /\ "cell_dim" \in DOMAIN parts[m].keys
                                                /\ r["cell_dim"] = parts[m].keys["cell_dim"]
                  /\ \A i \in 1 .. 6 : "cell_dim" \in DOMAIN parts[i].keys => "cell_dim" \in DOMAIN r
                BY <4>1, KeyOfSome
            <4> HIDE DEF m
            <4> QED
                BY <4>2
        <3>2. \A i \in 1 .. 6 : "cell_dim" \in DOMAIN parts[i].keys => i = 5 \/ i = 6
            BY <1>15 DEF K
        <3> QED
            BY <3>1, <3>2, <1>1
    <2>5. CellPart(f, a).status = "ok" /\ CellsPart(f, a).status = "ok"
        BY <1>1, <1>2
    <2>6. CASE a.cell.form = "none" /\ a.cells.form = "none"
        BY <2>2, <2>3, <2>4, <2>5, <2>6, <1>3, CellRight, CellsRight DEF CellsResolved
    <2>7. CASE a.cell.form # "none" /\ a.cells.form = "none"
        BY <2>2, <2>3, <2>4, <2>5, <2>7, <1>3, CellRight, CellsRight DEF CellsResolved
    <2>8. CASE a.cell.form = "none" /\ a.cells.form # "none"
        BY <2>2, <2>3, <2>4, <2>5, <2>8, <1>3, CellRight, CellsRight DEF CellsResolved
    <2> QED
        BY <2>1, <2>6, <2>7, <2>8
<1>21. DOMAIN r \subseteq NamedKeys
    <2>1. ASSUME NEW k \in DOMAIN r PROVE k \in NamedKeys
        <3>1. DOMAIN parts = 1 .. 6 /\ 6 \in Nat /\ r = Entries(parts)
            BY <1>1, <1>2
        <3>2. Giver(parts, 6, k) \in 1 .. 6 /\ k \in DOMAIN parts[Giver(parts, 6, k)].keys
            BY <3>1, KeyOfSome
        <3>3. PICK i \in 1 .. 6 : k \in K(i)
            BY <3>2 DEF K
        <3> QED
            BY <3>3, <1>4, <1>5, <1>6, <1>7, <1>8, <1>9, <1>10 DEF NamedKeys, ResolvedKeys
    <2> QED
        BY <2>1
<1> QED
    BY <1>17, <1>18, <1>19, <1>20, <1>21 DEF NamedResolved, r
-----------------------------------------------------------------------------
(* index_selectors.                                                         *)

DimOfSlab(f, slab) == FirstDim(f, Named(f, {Lower(slab.dim)}))
Triple(vals) == <<vals[1], vals[2], Stride(vals)>>

LEMMA SlabRight ==
    ASSUME NEW f \in Files, NEW r, NEW slab, SlabPart(f, r, slab).status = "ok",
           slab.vals \in Seq(Int), ~BadSlab(slab)
    PROVE  LET d == DimOfSlab(f, slab)
               v == Triple(slab.vals)
           IN /\ SlabPart(f, r, slab).keys = [k \in {d} |-> v]
              /\ d \in ToSet(f.dims) /\ Lower(d) = Lower(slab.dim)
              /\ Lower(d) \notin Occupied(f, r)
              /\ v[1] \in 0 .. Size(f, d) - 1 /\ v[2] \in v[1] .. Size(f, d) - 1
              /\ v[3] \in Nat /\ v[3] >= 1
<1> DEFINE d == DimOfSlab(f, slab)
           v == Triple(slab.vals)
           vals == slab.vals
<1>1. SlabPart(f, r, slab) =
        IF d = NoDim \/ Lower(d) \in Occupied(f, r) THEN Refuses("invalid_spec")
        ELSE IF SlabOut(f, d, slab.vals) THEN Refuses("out_of_bounds")
        ELSE Resolves([k \in {d} |-> v])
    BY DEF SlabPart, DimOfSlab, Triple
<1>2. Refuses("invalid_spec").status # "ok" /\ Refuses("out_of_bounds").status # "ok"
    BY DEF Refuses
<1>3. d # NoDim => d \in ToSet(f.dims) /\ d \in Named(f, {Lower(slab.dim)})
    BY FirstDimRight DEF DimOfSlab
<1> HIDE DEF d, v
<1>4. /\ d # NoDim /\ Lower(d) \notin Occupied(f, r) /\ ~SlabOut(f, d, slab.vals)
      /\ SlabPart(f, r, slab) = Resolves([k \in {d} |-> v])
    BY <1>1, <1>2
<1>5. SlabPart(f, r, slab).keys = [k \in {d} |-> v]
    BY <1>4, KeysResolved
<1>6. d \in ToSet(f.dims) /\ Lower(d) = Lower(slab.dim)
    BY <1>3, <1>4 DEF Named
<1>7. v[1] = vals[1] /\ v[2] = vals[2] /\ v[3] = Stride(vals)
    BY DEF v, Triple
<1>8. Positions(f, d) = 0 .. Size(f, d) - 1
    BY <1>6, DimFacts
<1>9. v[1] \in 0 .. Size(f, d) - 1 /\ v[2] \in v[1] .. Size(f, d) - 1
    BY <1>4, <1>7, <1>8 DEF SlabOut
<1>10. Stride(vals) \in Int /\ ~(Stride(vals) < 1)
    BY DEF BadSlab, Stride
<1>11. v[3] \in Nat /\ v[3] >= 1
    BY <1>7, <1>10
<1> QED
    BY <1>4, <1>5, <1>6, <1>9, <1>11 DEF d, v

(* What is known of the slabs S that a call a has resolved, the named       *)
(* selectors having resolved to r.                                          *)
SlabsRight(f, a, r, S) ==
    /\ \A d \in DOMAIN S :
        /\ d \in ToSet(f.dims) /\ Lower(d) \notin Occupied(f, r)
        /\ S[d][1] \in 0 .. Size(f, d) - 1 /\ S[d][2] \in S[d][1] .. Size(f, d) - 1
        /\ S[d][3] \in Nat /\ S[d][3] >= 1
        /\ \E k \in DOMAIN a.slabs : /\ Lower(a.slabs[k].dim) = Lower(d)
                                     /\ S[d] = Triple(a.slabs[k].vals)
    /\ \A k \in DOMAIN a.slabs : DimOfSlab(f, a.slabs[k]) \in DOMAIN S

LEMMA SlabsResolved ==
    ASSUME NEW f \in Files, NEW a \in Asks, ~BadTogether(a), NEW r,
           SlabsPart(f, r, a.slabs).status = "ok"
    PROVE  \/ /\ a.slabs = <<>> /\ SlabsPart(f, r, a.slabs).keys = <<>>
           \/ \E S : /\ SlabsPart(f, r, a.slabs).keys = [index_selectors |-> S]
                     /\ SlabsRight(f, a, r, S)
<1> DEFINE slabs == a.slabs
           n == Len(slabs)
           parts == [i \in DOMAIN slabs |-> SlabPart(f, r, slabs[i])]
           got == InOrder(parts)
           S == Entries(parts)
<1>1. /\ slabs \in Seq([dim : STRING, vals : Seq(Int)])
      /\ DOMAIN slabs = 1 .. n /\ n \in Nat
      /\ \A i \in 1 .. n : slabs[i].vals \in Seq(Int) /\ ~BadSlab(slabs[i])
    <2>1. slabs \in Seq([dim : STRING, vals : Seq(Int)])
        BY AsksAssumption
    <2>2. DOMAIN slabs = 1 .. n /\ n \in Nat
        BY <2>1
    <2>3. \A i \in 1 .. n : slabs[i] \in [dim : STRING, vals : Seq(Int)]
        <3> DEFINE R == [dim : STRING, vals : Seq(Int)]
        <3> HIDE DEF R, slabs
        <3>1. slabs \in Seq(R)
            BY <2>1 DEF R
        <3>2. \A i \in 1 .. n : slabs[i] \in R
            BY <3>1
        <3> QED
            BY <3>2 DEF R
    <2>4. \A i \in 1 .. n : ~BadSlab(slabs[i])
        BY <2>2 DEF BadTogether
    <2> QED
        BY <2>1, <2>2, <2>3, <2>4
<1>2. SlabsPart(f, r, slabs) = IF slabs = <<>> THEN Resolves(<<>>)
                               ELSE IF got.status # "ok" THEN got
                               ELSE Resolves([index_selectors |-> got.keys])
    BY DEF SlabsPart
<1>3. CASE slabs = <<>>
    BY <1>2, <1>3, KeysResolved
<1>4. CASE slabs # <<>>
    <2>1. DOMAIN parts = 1 .. n /\ \A i \in 1 .. n : parts[i] = SlabPart(f, r, slabs[i])
        BY <1>1
    <2> HIDE DEF parts, slabs, n
    <2>2. got.status = "ok"
        BY <1>2, <1>4 DEF slabs
    <2>3. SlabsPart(f, r, slabs).keys = [index_selectors |-> got.keys]
        BY <1>2, <1>4, <2>2, KeysResolved
    <2>4. /\ \A i \in 1 .. n : parts[i].status = "ok"
          /\ got.keys = S
        BY <1>1, <2>1, <2>2, InOrderOk
    <2>5. ASSUME NEW i \in 1 .. n
          PROVE  LET d == DimOfSlab(f, slabs[i])
                     v == Triple(slabs[i].vals)
                 IN /\ parts[i].keys = [k \in {d} |-> v]
                    /\ d \in ToSet(f.dims) /\ Lower(d) = Lower(slabs[i].dim)
                    /\ Lower(d) \notin Occupied(f, r)
                    /\ v[1] \in 0 .. Size(f, d) - 1 /\ v[2] \in v[1] .. Size(f, d) - 1
                    /\ v[3] \in Nat /\ v[3] >= 1
        <3>1. /\ slabs[i].vals \in Seq(Int) /\ ~BadSlab(slabs[i])
              /\ SlabPart(f, r, slabs[i]).status = "ok"
              /\ parts[i].keys = SlabPart(f, r, slabs[i]).keys
            BY <1>1, <2>1, <2>4
        <3> DEFINE slab == slabs[i]
                   d == DimOfSlab(f, slab)
                   v == Triple(slab.vals)
        <3> HIDE DEF slab
        <3>2. /\ SlabPart(f, r, slab).keys = [k \in {d} |-> v]
              /\ d \in ToSet(f.dims) /\ Lower(d) = Lower(slab.dim)
              /\ Lower(d) \notin Occupied(f, r)
              /\ v[1] \in 0 .. Size(f, d) - 1 /\ v[2] \in v[1] .. Size(f, d) - 1
              /\ v[3] \in Nat /\ v[3] >= 1
            BY <3>1, SlabRight DEF slab
        <3> QED
            BY <3>1, <3>2 DEF slab
    <2> HIDE DEF S
    <2>6. ASSUME NEW d \in DOMAIN S
          PROVE  /\ d \in ToSet(f.dims) /\ Lower(d) \notin Occupied(f, r)
                 /\ S[d][1] \in 0 .. Size(f, d) - 1
                 /\ S[d][2] \in S[d][1] .. Size(f, d) - 1
                 /\ S[d][3] \in Nat /\ S[d][3] >= 1
                 /\ \E k \in DOMAIN slabs : /\ Lower(slabs[k].dim) = Lower(d)
                                            /\ S[d] = Triple(slabs[k].vals)
        <3> DEFINE m == Giver(parts, n, d)
                   v == Triple(slabs[m].vals)
        <3>1. m \in 1 .. n /\ d \in DOMAIN parts[m].keys /\ S[d] = parts[m].keys[d]
            BY <1>1, <2>1, KeyOfSome DEF S
        <3> HIDE DEF m
        <3>2. parts[m].keys = [k \in {DimOfSlab(f, slabs[m])} |-> v]
            BY <3>1, <2>5
        <3>3. d = DimOfSlab(f, slabs[m]) /\ S[d] = v
            BY <3>1, <3>2
        <3> HIDE DEF v
        <3> QED
            BY <3>1, <3>3, <2>5, <1>1 DEF v
    <2>7. ASSUME NEW k \in DOMAIN slabs PROVE DimOfSlab(f, slabs[k]) \in DOMAIN S
        <3>1. DimOfSlab(f, slabs[k]) \in DOMAIN parts[k].keys
            <4> DEFINE d == DimOfSlab(f, slabs[k])
                       v == Triple(slabs[k].vals)
            <4>1. parts[k].keys = [x \in {d} |-> v]
                BY <1>1, <2>5
            <4> HIDE DEF d, v
            <4>2. d \in DOMAIN parts[k].keys
                BY <4>1
            <4> QED
                BY <4>2 DEF d
        <3> QED
            BY <3>1, <1>1, <2>1, KeyOfSome DEF S
    <2>8. SlabsRight(f, a, r, S)
        BY <2>6, <2>7 DEF SlabsRight, slabs
    <2> QED
        BY <2>3, <2>4, <2>8 DEF slabs
<1> QED
    BY <1>3, <1>4

(* All that a resolution which succeeded says.                              *)
Resolved(f, a, r) ==
    /\ f \in Files /\ ~BadTogether(a)
    /\ NamedResolved(f, a, r) /\ DOMAIN r \subseteq ResolvedKeys
    /\ SlabsRight(f, a, r, SlabsOf(r))

LEMMA NamedAmongOthers ==
    ASSUME NEW f, NEW a, NEW q, NEW r, NamedResolved(f, a, q),
           \A k \in NamedKeys : /\ k \in DOMAIN r <=> k \in DOMAIN q
                                /\ k \in DOMAIN r => r[k] = q[k]
    PROVE  NamedResolved(f, a, r) /\ Occupied(f, r) = Occupied(f, q)
<1>1. \A k \in {"time_index", "level_index", "lat_index", "lat_indices", "lon_index",
                "lon_indices", "cell_index", "cell_indices", "cell_dim"} :
        /\ k \in DOMAIN r <=> k \in DOMAIN q
        /\ k \in DOMAIN r => r[k] = q[k]
    BY DEF NamedKeys, ResolvedKeys
<1>2. NamedRight(f, a, r)
    BY <1>1 DEF NamedResolved, NamedRight
<1>3. /\ AxisResolved(f, a.lat, LatDims, "lat_index", "lat_indices", r)
      /\ AxisResolved(f, a.lon, LonDims, "lon_index", "lon_indices", r)
    BY <1>1, AxisAmongOthers DEF NamedResolved
<1>4. CellsResolved(f, a, r)
    BY <1>1 DEF NamedResolved, CellsResolved
<1>5. Occupied(f, r) = Occupied(f, q)
    <2>1. /\ {"time_index"} \cap DOMAIN r = {"time_index"} \cap DOMAIN q
          /\ {"level_index"} \cap DOMAIN r = {"level_index"} \cap DOMAIN q
          /\ {"lat_index", "lat_indices"} \cap DOMAIN r = {"lat_index", "lat_indices"} \cap DOMAIN q
          /\ {"lon_index", "lon_indices"} \cap DOMAIN r = {"lon_index", "lon_indices"} \cap DOMAIN q
          /\ {"cell_index", "cell_indices"} \cap DOMAIN r =
                {"cell_index", "cell_indices"} \cap DOMAIN q
        BY <1>1
    <2> QED
        BY <2>1, Zenon DEF Occupied
<1> QED
    BY <1>2, <1>3, <1>4, <1>5 DEF NamedResolved

LEMMA ResolvedRight ==
    ASSUME NEW f \in Files \union {Gone}, NEW a \in Asks, ResolveSpec(f, a).status = "ok"
    PROVE  Resolved(f, a, ResolveSpec(f, a).keys)
<1> DEFINE named == InOrder(<<TimePart(f, a), LevelPart(f, a), LatPart(f, a),
                              LonPart(f, a), CellPart(f, a), CellsPart(f, a)>>)
           rest == SlabsPart(f, named.keys, a.slabs)
           parts == <<named, rest>>
           q == named.keys
           r == InOrder(parts).keys
           odd == /\ a.tool # "read_slice"
                  /\ \/ a.cell.form # "none" \/ a.cells.form # "none"
                     \/ a.slabs # <<>> \/ a.mesh # NoMesh
           nofile == f = Gone \/ a.mesh = Gone
           nomesh == a.mesh # NoMesh /\ ~MeshFits(f, a.mesh)
<1>1. ResolveSpec(f, a) =
        IF odd THEN Refuses("internal_error")
        ELSE IF BadTogether(a) THEN Refuses("invalid_spec")
        ELSE IF nofile THEN Refuses("file_not_found")
        ELSE IF nomesh THEN Refuses("multi_file_combine_failed")
        ELSE IF ~a.known THEN Refuses("ambiguous")
        ELSE IF named.status # "ok" THEN named
        ELSE InOrder(parts)
    BY Zenon DEF ResolveSpec
<1>2. \A code : Refuses(code).status # "ok"
    BY DEF Refuses
<1> HIDE DEF named, parts, odd, nofile, nomesh
<1>3. /\ ~BadTogether(a) /\ ~nofile /\ named.status = "ok"
      /\ ResolveSpec(f, a) = InOrder(parts)
    BY <1>1, <1>2
<1>4. f \in Files
    BY <1>3 DEF nofile
<1>5. NamedResolved(f, a, q) /\ DOMAIN q \subseteq NamedKeys
    BY <1>3, <1>4, NamedPartsRight DEF named
<1>6. DOMAIN parts = 1 .. 2 /\ 2 \in Nat /\ parts[1] = named /\ parts[2] = rest
    BY DEF parts
<1>7. rest.status = "ok" /\ r = Entries(parts)
    <2>1. InOrder(parts).status = "ok"
        BY <1>3
    <2>2. (\A i \in 1 .. 2 : parts[i].status = "ok") /\ r = Entries(parts)
        BY <1>6, <2>1, InOrderOk
    <2> HIDE DEF r, rest
    <2>3. 2 \in 1 .. 2
        OBVIOUS
    <2> QED
        BY <1>6, <2>2, <2>3
<1>8. PICK S : \/ a.slabs = <<>> /\ rest.keys = <<>>
               \/ rest.keys = [index_selectors |-> S] /\ SlabsRight(f, a, q, S)
    BY <1>3, <1>4, <1>7, SlabsResolved
<1> HIDE DEF q, r, rest
<1>9. DOMAIN rest.keys \subseteq {"index_selectors"}
    <2>1. DOMAIN <<>> = {} /\ DOMAIN [index_selectors |-> S] = {"index_selectors"}
        OBVIOUS
    <2> QED
        BY <1>8, <2>1
<1>10. "index_selectors" \notin NamedKeys
    BY DEF NamedKeys
<1>11. \A i \in 1 .. 2 : i = 1 \/ i = 2
    OBVIOUS
<1>12. ASSUME NEW k, NEW m \in 1 .. 2, \A i \in 1 .. 2 : k \in DOMAIN parts[i].keys => i = m
       PROVE  /\ k \in DOMAIN r <=> k \in DOMAIN parts[m].keys
              /\ k \in DOMAIN r => r[k] = parts[m].keys[k]
    <2>1. /\ k \in DOMAIN Entries(parts) <=> k \in DOMAIN parts[m].keys
          /\ k \in DOMAIN Entries(parts) => Entries(parts)[k] = parts[m].keys[k]
        BY <1>6, <1>12, KeyOfOne
    <2> QED
        BY <2>1, <1>7
<1>13. ASSUME NEW k \in NamedKeys PROVE /\ k \in DOMAIN r <=> k \in DOMAIN q
                                        /\ k \in DOMAIN r => r[k] = q[k]
    <2>1. \A i \in 1 .. 2 : k \in DOMAIN parts[i].keys => i = 1
        BY <1>6, <1>9, <1>10, <1>11
    <2>2. 1 \in 1 .. 2
        OBVIOUS
    <2> QED
        BY <2>1, <2>2, <1>6, <1>12 DEF q
<1>14. NamedResolved(f, a, r) /\ Occupied(f, r) = Occupied(f, q)
    BY <1>5, <1>13, NamedAmongOthers
<1>15. /\ "index_selectors" \in DOMAIN r <=> "index_selectors" \in DOMAIN rest.keys
       /\ "index_selectors" \in DOMAIN r => r["index_selectors"] = rest.keys["index_selectors"]
    <2>1. \A i \in 1 .. 2 : "index_selectors" \in DOMAIN parts[i].keys => i = 2
        BY <1>5, <1>6, <1>10, <1>11 DEF q
    <2>2. 2 \in 1 .. 2
        OBVIOUS
    <2> QED
        BY <2>1, <2>2, <1>6, <1>12
<1>16. SlabsRight(f, a, r, SlabsOf(r))
    <2>1. CASE a.slabs = <<>> /\ rest.keys = <<>>
        <3>1. SlabsOf(r) = <<>> /\ DOMAIN <<>> = {} /\ DOMAIN a.slabs = {}
            BY <2>1, <1>15 DEF SlabsOf
        <3> QED
            BY <3>1 DEF SlabsRight
    <2>2. CASE rest.keys = [index_selectors |-> S] /\ SlabsRight(f, a, q, S)
        <3>1. SlabsOf(r) = S
            BY <2>2, <1>15 DEF SlabsOf
        <3> QED
            BY <3>1, <2>2, <1>14 DEF SlabsRight
    <2> QED
        BY <1>8, <2>1, <2>2
<1>17. DOMAIN r \subseteq ResolvedKeys
    <2>1. ASSUME NEW k \in DOMAIN r PROVE k \in NamedKeys \union {"index_selectors"}
        <3>1. Giver(parts, 2, k) \in 1 .. 2 /\ k \in DOMAIN parts[Giver(parts, 2, k)].keys
            BY <1>6, <1>7, KeyOfSome
        <3> QED
            BY <3>1, <1>5, <1>6, <1>9, <1>11 DEF q
    <2> QED
        BY <2>1 DEF NamedKeys, ResolvedKeys
<1> QED
    BY <1>3, <1>4, <1>14, <1>16, <1>17 DEF Resolved, r
-----------------------------------------------------------------------------
(* The number of elements.                                                  *)

LEMMA FunctionsFinite ==
    ASSUME NEW D, IsFiniteSet(D), NEW V, IsFiniteSet(V)
    PROVE  IsFiniteSet([D -> V])
<1> DEFINE graph == [p \in [D -> V] |-> {<<d, p[d]>> : d \in D}]
<1>1. IsFiniteSet(SUBSET (D \X V))
    BY FS_Product, FS_SUBSET
<1>2. graph \in [[D -> V] -> SUBSET (D \X V)]
    OBVIOUS
<1>3. ASSUME NEW p \in [D -> V], NEW q \in [D -> V], graph[p] = graph[q] PROVE p = q
    <2>1. {<<d, p[d]>> : d \in D} = {<<d, q[d]>> : d \in D}
        BY <1>3
    <2>2. ASSUME NEW d \in D PROVE p[d] = q[d]
        <3>1. <<d, p[d]>> \in {<<e, q[e]>> : e \in D}
            BY <2>1
        <3>2. PICK e \in D : <<d, p[d]>> = <<e, q[e]>>
            BY <3>1
        <3> QED
            BY <3>2
    <2> QED
        BY <2>2
<1>4. graph \in Injection([D -> V], SUBSET (D \X V))
    <2> HIDE DEF graph
    <2> QED
        BY <1>2, <1>3 DEF Injection, IsInjective
<1> QED
    BY <1>1, <1>4, FS_Injection

Box(lens) ==
    {p \in [DOMAIN lens -> UNION {0 .. lens[d] - 1 : d \in DOMAIN lens}] :
        \A d \in DOMAIN lens : p[d] \in 0 .. lens[d] - 1}

LEMMA BoxFinite ==
    ASSUME NEW lens, IsFiniteSet(DOMAIN lens), \A d \in DOMAIN lens : lens[d] \in Int
    PROVE  IsFiniteSet(Box(lens))
<1> DEFINE D == DOMAIN lens
           W == {0 .. lens[d] - 1 : d \in D}
           each == [d \in D |-> 0 .. lens[d] - 1]
<1>1. each \in Surjection(D, W)
    BY DEF Surjection
<1>2. IsFiniteSet(W)
    BY <1>1, FS_Surjection
<1>3. \A w \in W : IsFiniteSet(w)
    <2>1. ASSUME NEW d \in D PROVE IsFiniteSet(0 .. lens[d] - 1)
        <3>1. 0 \in Int /\ lens[d] - 1 \in Int
            OBVIOUS
        <3> QED
            BY <3>1, FS_Interval
    <2> QED
        BY <2>1
<1>4. IsFiniteSet(UNION W)
    BY <1>2, <1>3, FS_UNION
<1>5. IsFiniteSet([D -> UNION W])
    BY <1>4, FunctionsFinite
<1>6. Box(lens) \in SUBSET [D -> UNION W]
    BY DEF Box
<1> QED
    BY <1>5, <1>6, FS_Subset

LEMMA ProductOfBox ==
    ASSUME NEW lens
    PROVE  Product(lens) = Cardinality(Box(lens))
BY DEF Product, Box

LEMMA ProductMonotone ==
    ASSUME NEW a, NEW b, DOMAIN a = DOMAIN b, IsFiniteSet(DOMAIN b),
           \A d \in DOMAIN b : a[d] \in Int /\ b[d] \in Int /\ a[d] <= b[d]
    PROVE  /\ Product(a) <= Product(b)
           /\ Product(a) \in Nat /\ Product(b) \in Nat
<1>1. Box(a) \subseteq Box(b)
    <2>1. ASSUME NEW p \in Box(a) PROVE p \in Box(b)
        <3>1. /\ p = [d \in DOMAIN b |-> p[d]]
              /\ \A d \in DOMAIN b : p[d] \in 0 .. a[d] - 1
            BY DEF Box
        <3>2. \A d \in DOMAIN b : p[d] \in 0 .. b[d] - 1
            BY <3>1
        <3>3. \A d \in DOMAIN b : p[d] \in UNION {0 .. b[e] - 1 : e \in DOMAIN b}
            BY <3>2
        <3> QED
            BY <3>1, <3>2, <3>3 DEF Box
    <2> QED
        BY <2>1
<1>2. IsFiniteSet(Box(b)) /\ IsFiniteSet(Box(a))
    BY BoxFinite
<1>3. Cardinality(Box(a)) <= Cardinality(Box(b))
    BY <1>1, <1>2, FS_Subset
<1>4. Cardinality(Box(a)) \in Nat /\ Cardinality(Box(b)) \in Nat
    BY <1>2, FS_CardinalityType
<1> QED
    BY <1>3, <1>4, ProductOfBox

LEMMA ProductNotZero ==
    ASSUME NEW lens, IsFiniteSet(DOMAIN lens),
           \A d \in DOMAIN lens : lens[d] \in Nat /\ lens[d] # 0
    PROVE  Product(lens) # 0
<1> DEFINE p == [d \in DOMAIN lens |-> 0]
<1>1. \A d \in DOMAIN lens : 0 \in 0 .. lens[d] - 1
    OBVIOUS
<1>2. p \in Box(lens)
    BY <1>1 DEF Box
<1>3. IsFiniteSet(Box(lens))
    BY BoxFinite
<1>4. Box(lens) # {}
    BY <1>2
<1>5. Cardinality(Box(lens)) # 0
    BY <1>3, <1>4, FS_EmptySet
<1> QED
    BY <1>5, ProductOfBox

LEMMA DimsFinite ==
    ASSUME NEW f \in Files
    PROVE  IsFiniteSet(ToSet(f.dims))
<1> DEFINE n == Len(f.dims)
<1>1. f.dims \in Seq(STRING \ {NoDim}) /\ n \in Nat /\ DOMAIN f.dims = 1 .. n
    BY DataFilesAssumption
<1>2. f.dims \in Surjection(1 .. n, ToSet(f.dims))
    BY <1>1 DEF Surjection, ToSet
<1>3. IsFiniteSet(1 .. n)
    <2>1. 1 \in Int /\ n \in Int
        BY <1>1
    <2> QED
        BY <2>1, FS_Interval
<1> QED
    BY <1>2, <1>3, FS_Surjection
-----------------------------------------------------------------------------
(* What isel takes along a dimension.                                       *)

Strided(p, first, last, step) ==
    /\ p.scalar = FALSE /\ p.at \in Seq(Int)
    /\ Len(p.at) = (last - first) \div step + 1
    /\ ToSet(p.at) = {i \in first .. last : (i - first) % step = 0}

LEMMA StepsRight ==
    ASSUME NEW n \in Nat, NEW first \in Nat, NEW last \in Int, NEW step \in Nat,
           last < n, step >= 1, first <= last
    PROVE  Strided(Steps(first, last, step, n), first, last, step)
<1> DEFINE m == (last - first) \div step + 1
           s == [k \in 1 .. m |-> first + (k - 1) * step]
<1>1. m \in Nat
    <2>1. last - first \in Nat
        OBVIOUS
    <2>2. (last - first) \div step \in Nat
        BY <2>1
    <2> QED
        BY <2>2
<1>2. Steps(first, last, step, n) = [scalar |-> FALSE, at |-> s]
    BY DEF Steps, Many
<1>3. \A k \in 1 .. m : first + (k - 1) * step \in Int
    BY <1>1
<1>4. s \in Seq(Int) /\ Len(s) = m /\ DOMAIN s = 1 .. m
    BY <1>1, <1>3
<1>5. ASSUME NEW k \in 1 .. m
      PROVE  /\ first + (k - 1) * step \in first .. last
             /\ ((first + (k - 1) * step) - first) % step = 0
    <2> DEFINE q == (last - first) \div step
    <2>1. q \in Nat /\ q * step <= last - first
        <3>1. last - first \in Nat
            OBVIOUS
        <3> QED
            BY <3>1
    <2>2. k - 1 \in Nat /\ k - 1 <= q
        BY <1>1
    <2> HIDE DEF q
    <2>3. (k - 1) * step <= q * step /\ (k - 1) * step \in Nat
        BY <2>1, <2>2
    <2>4. (first + (k - 1) * step) - first = (k - 1) * step
        BY <2>2
    <2>5. ((k - 1) * step) % step = 0
        BY <2>2
    <2> QED
        BY <2>1, <2>3, <2>4, <2>5
<1>6. ASSUME NEW i \in first .. last, (i - first) % step = 0
      PROVE  \E k \in 1 .. m : i = first + (k - 1) * step
    <2> DEFINE x == i - first
               y == last - first
    <2>1. x \in Nat /\ y \in Nat /\ x <= y
        OBVIOUS
    <2> HIDE DEF x, y
    <2>2. x \div step \in Nat /\ x = (x \div step) * step
        BY <2>1, <1>6 DEF x
    <2>3. x \div step <= y \div step
        BY <2>1
    <2> DEFINE k == x \div step + 1
    <2>4. k \in 1 .. m
        BY <2>2, <2>3, <2>1 DEF y
    <2>5. i = first + (k - 1) * step
        <3>1. k - 1 = x \div step
            BY <2>2
        <3> QED
            BY <3>1, <2>2 DEF x
    <2> QED
        BY <2>4, <2>5
<1> HIDE DEF m
<1>7. ToSet(s) = {first + (k - 1) * step : k \in 1 .. m}
    BY <1>4 DEF ToSet
<1>8. ToSet(s) = {i \in first .. last : (i - first) % step = 0}
    BY <1>5, <1>6, <1>7
<1> HIDE DEF s
<1> QED
    BY <1>2, <1>4, <1>8 DEF m, Strided

(* A box is a slab of stride 1, and so is all of a dimension.               *)
LEMMA BoxRight ==
    ASSUME NEW n \in Nat, NEW first \in Nat, NEW last \in Int, last < n, first <= last
    PROVE  LET p == Steps(first, last, 1, n)
           IN /\ p.scalar = FALSE /\ p.at \in Seq(Int)
              /\ Len(p.at) = last - first + 1 /\ ToSet(p.at) = first .. last
<1>1. ASSUME NEW step \in Nat, step = 1
      PROVE  LET q == Steps(first, last, step, n)
             IN /\ q.scalar = FALSE /\ q.at \in Seq(Int)
                /\ Len(q.at) = last - first + 1 /\ ToSet(q.at) = first .. last
    <2> DEFINE q == Steps(first, last, step, n)
    <2>1. /\ q.scalar = FALSE /\ q.at \in Seq(Int)
          /\ Len(q.at) = (last - first) \div step + 1
          /\ ToSet(q.at) = {i \in first .. last : (i - first) % step = 0}
        <3>1. Strided(q, first, last, step)
            <4>1. step >= 1
                BY <1>1
            <4> QED
                BY <4>1, StepsRight, Zenon
        <3> HIDE DEF q
        <3> QED
            BY <3>1 DEF Strided
    <2>2. (last - first) \div step = last - first
        BY <1>1
    <2>3. \A i \in first .. last : (i - first) % step = 0
        BY <1>1
    <2> HIDE DEF q
    <2> QED
        BY <2>1, <2>2, <2>3 DEF q
<1> QED
    BY <1>1

LEMMA WholeRight ==
    ASSUME NEW n \in Nat
    PROVE  LET p == Steps(0, n - 1, 1, n)
           IN /\ p.scalar = FALSE /\ p.at \in Seq(Int)
              /\ Len(p.at) = n /\ ToSet(p.at) = 0 .. n - 1
<1>1. CASE n = 0
    <2>1. Steps(0, n - 1, 1, n) = Many(<<>>)
        BY <1>1 DEF Steps
    <2>2. ToSet(<<>>) = {} /\ 0 .. n - 1 = {} /\ <<>> \in Seq(Int) /\ Len(<<>>) = 0
        BY <1>1 DEF ToSet
    <2>3. Many(<<>>).scalar = FALSE /\ Many(<<>>).at = <<>>
        BY DEF Many
    <2> QED
        BY <2>1, <2>2, <2>3, <1>1
<1>2. CASE n # 0
    <2> DEFINE p == Steps(0, n - 1, 1, n)
    <2>1. 0 \in Nat /\ n - 1 \in Int /\ n - 1 < n /\ 0 <= n - 1
        BY <1>2
    <2>2. /\ p.scalar = FALSE /\ p.at \in Seq(Int)
          /\ Len(p.at) = (n - 1) - 0 + 1 /\ ToSet(p.at) = 0 .. n - 1
        BY <2>1, BoxRight
    <2>3. (n - 1) - 0 + 1 = n
        OBVIOUS
    <2> HIDE DEF p
    <2> QED
        BY <2>2, <2>3 DEF p
<1> QED
    BY <1>1, <1>2

LEMMA OneRight ==
    ASSUME NEW i \in Int
    PROVE  /\ One(i).scalar = TRUE /\ One(i).at \in Seq(Int)
           /\ Len(One(i).at) = 1 /\ ToSet(One(i).at) = {i}
BY DEF One, ToSet

(* The kinds of dimensions exclude each other.                              *)
LEMMA KindsApart ==
    ASSUME NEW d
    PROVE  /\ d \in TimeDims => /\ Lower(d) \notin LevelDims \union CellDims
                                /\ d \notin LatDims \union LonDims
           /\ d \in LatDims => /\ Lower(d) \notin LevelDims \union CellDims
                               /\ d \notin LonDims
           /\ d \in LonDims => Lower(d) \notin LevelDims \union CellDims
           /\ Lower(d) \in LevelDims => Lower(d) \notin CellDims
           /\ Lower(d) \in {"ni", "ncol"} => Lower(d) = d
<1>1. /\ Lower("time") = "time" /\ Lower("Time") = "time"
      /\ Lower("ocean_time") = "ocean_time"
      /\ Lower("lat") = "lat" /\ Lower("latitude") = "latitude" /\ Lower("y") = "y"
      /\ Lower("lon") = "lon" /\ Lower("longitude") = "longitude" /\ Lower("x") = "x"
    BY DEF Lower
<1>2. Lower(d) \in {"ni", "ncol"} => Lower(d) = d
    BY DEF Lower
<1> QED
    BY <1>1, <1>2 DEF TimeDims, LatDims, LonDims, LevelDims, CellDims

(* The dimension that a kind of selector addresses.                         *)
LEMMA AddressedOnly ==
    ASSUME NEW f \in Files, NEW d \in ToSet(f.dims), OnlyOfKind(f, d)
    PROVE  /\ d \in TimeDims => FirstDim(f, TimeDims) = d /\ TimeDim(f) = d
           /\ d \in LatDims => FirstDim(f, LatDims) = d
           /\ d \in LonDims => FirstDim(f, LonDims) = d
           /\ Lower(d) \in LevelDims => LevelDim(f) = d
           /\ Lower(d) \in LevelDimsRead => FirstDim(f, Named(f, LevelDimsRead)) = d
           /\ Lower(d) \in CellDims => CellDim(f) = d
<1>1. ASSUME NEW D \in Kinds(f), d \in D PROVE FirstDim(f, D) = d
    BY <1>1, FirstIsOnly DEF OnlyOfKind
<1>2. {TimeDims, LatDims, LonDims, Named(f, LevelDims), Named(f, CellDims)} \subseteq Kinds(f)
    BY DEF Kinds
<1>3. LevelDimsRead \subseteq LevelDims
    BY DEF LevelDimsRead, LevelDims
<1>4. \A e, D : e \in Named(f, D) <=> e \in ToSet(f.dims) /\ Lower(e) \in D
    BY DEF Named
<1>5. ASSUME Lower(d) \in LevelDimsRead PROVE FirstDim(f, Named(f, LevelDimsRead)) = d
    <2>1. \A e \in ToSet(f.dims) \cap Named(f, LevelDimsRead) : e = d
        BY <1>2, <1>3, <1>4, <1>5 DEF OnlyOfKind
    <2>2. d \in Named(f, LevelDimsRead)
        BY <1>4, <1>5
    <2> QED
        BY <2>1, <2>2, FirstIsOnly
<1> QED
    BY <1>1, <1>2, <1>4, <1>5 DEF TimeDim, LevelDim, CellDim

LEMMA AddressedElsewhere ==
    ASSUME NEW f \in Files, NEW d \in ToSet(f.dims), NEW D, d \notin D
    PROVE  FirstDim(f, D) # d
BY FirstDimRight, DimFacts
Whole(f, d) == Steps(0, Size(f, d) - 1, 1, Size(f, d))
BoxOf(f, r, d, key) == Steps(r[key][1], r[key][2], 1, Size(f, d))

(* Where a dimension is the only one it can be taken for, the key that      *)
(* _apply_selectors goes by is the one of the dimension's kind.             *)
LEMMA PickByKind ==
    ASSUME NEW f \in Files, NEW a, NEW r, Resolved(f, a, r), NEW d \in ToSet(f.dims),
           OnlyOfKind(f, d), d \notin DOMAIN SlabsOf(r)
    PROVE  LET Has(key) == key \in DOMAIN r
               one(key) == One(r[key])
           IN /\ d \in TimeDims => Pick(f, r, d) =
                    IF Has("time_index") THEN one("time_index") ELSE Whole(f, d)
              /\ Lower(d) \in LevelDims => Pick(f, r, d) =
                    IF Has("level_index") /\ Lower(d) \in LevelDimsRead
                    THEN one("level_index") ELSE Whole(f, d)
              /\ d \in LatDims => Pick(f, r, d) =
                    IF Has("lat_index") THEN one("lat_index")
                    ELSE IF Has("lat_indices") THEN BoxOf(f, r, d, "lat_indices")
                    ELSE Whole(f, d)
              /\ d \in LonDims => Pick(f, r, d) =
                    IF Has("lon_index") THEN one("lon_index")
                    ELSE IF Has("lon_indices") THEN BoxOf(f, r, d, "lon_indices")
                    ELSE Whole(f, d)
              /\ Lower(d) \in CellDims => Pick(f, r, d) =
                    IF Has("cell_indices") THEN Many(r["cell_indices"])
                    ELSE IF Has("cell_index") THEN one("cell_index") ELSE Whole(f, d)
              /\ d \notin TimeDims \union LatDims \union LonDims
                 /\ Lower(d) \notin LevelDims \union CellDims =>
                    Pick(f, r, d) = Whole(f, d)
<1> DEFINE cell == IF "cell_dim" \in DOMAIN r THEN {r["cell_dim"]} ELSE {}
           time == d = FirstDim(f, TimeDims)
           level == d = FirstDim(f, Named(f, LevelDimsRead))
           lat == d = FirstDim(f, LatDims)
           lon == d = FirstDim(f, LonDims)
           cells == d = FirstDim(f, cell)
           Has(key) == key \in DOMAIN r
           one(key) == One(r[key])
           whole == Whole(f, d)
           latbox == BoxOf(f, r, d, "lat_indices")
           lonbox == BoxOf(f, r, d, "lon_indices")
           many == Many(r["cell_indices"])
<1>1. Pick(f, r, d) =
        IF Has("cell_indices") /\ cells THEN many
        ELSE IF Has("cell_index") /\ cells THEN one("cell_index")
        ELSE IF Has("lon_index") /\ lon THEN one("lon_index")
        ELSE IF Has("lon_indices") /\ lon THEN lonbox
        ELSE IF Has("lat_index") /\ lat THEN one("lat_index")
        ELSE IF Has("lat_indices") /\ lat THEN latbox
        ELSE IF Has("level_index") /\ level THEN one("level_index")
        ELSE IF Has("time_index") /\ time THEN one("time_index")
        ELSE whole
    BY DEF Pick, Whole, BoxOf
<1>2. time <=> d \in TimeDims
    BY AddressedOnly, AddressedElsewhere
<1>3. lat <=> d \in LatDims
    BY AddressedOnly, AddressedElsewhere
<1>4. lon <=> d \in LonDims
    BY AddressedOnly, AddressedElsewhere
<1>5. level <=> Lower(d) \in LevelDimsRead
    <2>1. d \in Named(f, LevelDimsRead) <=> Lower(d) \in LevelDimsRead
        BY DEF Named
    <2> QED
        BY <2>1, AddressedOnly, AddressedElsewhere
<1>6. LevelDimsRead \subseteq LevelDims
    BY DEF LevelDimsRead, LevelDims
<1>7. Has("cell_indices") \/ Has("cell_index") =>
        Has("cell_dim") /\ r["cell_dim"] = CellDim(f) /\ CellDim(f) \in ToSet(f.dims)
    BY DEF Resolved, NamedResolved, CellsResolved
<1>8. ASSUME Has("cell_indices") \/ Has("cell_index")
      PROVE  cells <=> Lower(d) \in CellDims
    <2>1. cell = {CellDim(f)} /\ CellDim(f) \in ToSet(f.dims)
        BY <1>7, <1>8
    <2>2. FirstDim(f, cell) = CellDim(f)
        <3>1. \A e \in ToSet(f.dims) \cap cell : e = CellDim(f)
            BY <2>1
        <3>2. CellDim(f) \in cell
            BY <2>1
        <3> HIDE DEF cell
        <3> QED
            BY <2>1, <3>1, <3>2, FirstIsOnly
    <2>3. Lower(CellDim(f)) \in CellDims
        <3>1. CellDim(f) # NoDim
            BY <2>1, DimFacts
        <3>2. CellDim(f) \in Named(f, CellDims)
            BY <3>1, FirstDimRight DEF CellDim
        <3> QED
            BY <3>2 DEF Named
    <2>4. Lower(d) \in CellDims => CellDim(f) = d
        BY AddressedOnly
    <2> QED
        BY <2>2, <2>3, <2>4
<1>9. /\ d \in TimeDims => ~lat /\ ~lon /\ ~level
                            /\ (Has("cell_indices") \/ Has("cell_index") => ~cells)
      /\ d \in LatDims => ~time /\ ~lon /\ ~level
                            /\ (Has("cell_indices") \/ Has("cell_index") => ~cells)
      /\ d \in LonDims => ~time /\ ~lat /\ ~level
                            /\ (Has("cell_indices") \/ Has("cell_index") => ~cells)
      /\ Lower(d) \in LevelDims => ~time /\ ~lat /\ ~lon
                            /\ (Has("cell_indices") \/ Has("cell_index") => ~cells)
      /\ Lower(d) \in CellDims => ~time /\ ~lat /\ ~lon /\ ~level
    <2> HIDE DEF time, lat, lon, level, cells
    <2> QED
        BY <1>2, <1>3, <1>4, <1>5, <1>6, <1>8, KindsApart
<1> HIDE DEF time, lat, lon, level, cells, one, whole, latbox, lonbox, many
<1>10. d \in TimeDims => Pick(f, r, d) =
            IF Has("time_index") THEN one("time_index") ELSE whole
    BY <1>1, <1>2, <1>9
<1>11. Lower(d) \in LevelDims => Pick(f, r, d) =
            IF Has("level_index") /\ Lower(d) \in LevelDimsRead
            THEN one("level_index") ELSE whole
    BY <1>1, <1>5, <1>9
<1>12. d \in LatDims => Pick(f, r, d) =
            IF Has("lat_index") THEN one("lat_index")
            ELSE IF Has("lat_indices") THEN latbox ELSE whole
    BY <1>1, <1>3, <1>9
<1>13. d \in LonDims => Pick(f, r, d) =
            IF Has("lon_index") THEN one("lon_index")
            ELSE IF Has("lon_indices") THEN lonbox ELSE whole
    BY <1>1, <1>4, <1>9
<1>14. Lower(d) \in CellDims => Pick(f, r, d) =
            IF Has("cell_indices") THEN many
            ELSE IF Has("cell_index") THEN one("cell_index") ELSE whole
    BY <1>1, <1>8, <1>9
<1>15. d \notin TimeDims \union LatDims \union LonDims
       /\ Lower(d) \notin LevelDims \union CellDims => Pick(f, r, d) = whole
    BY <1>1, <1>2, <1>3, <1>4, <1>5, <1>6, <1>8
<1> QED
    BY <1>10, <1>11, <1>12, <1>13, <1>14, <1>15, Zenon DEF one, whole, latbox, lonbox, many

(* The length slice_shape gives a dimension, by its kind.                   *)
LEMMA DimLenByKind ==
    ASSUME NEW f \in Files, NEW r, NEW d \in ToSet(f.dims), d \notin DOMAIN SlabsOf(r)
    PROVE  LET Has(key) == key \in DOMAIN r
               span(key) == r[key][2] - r[key][1] + 1
               n == Size(f, d)
           IN /\ d \in TimeDims => DimLen(f, r, d) = IF Has("time_index") THEN 1 ELSE n
              /\ Lower(d) \in LevelDims => DimLen(f, r, d) =
                    IF Has("level_index") /\ d \in LevelDimsShape THEN 1 ELSE n
              /\ d \in LatDims => DimLen(f, r, d) =
                    IF Has("lat_indices") THEN span("lat_indices")
                    ELSE IF Has("lat_index") THEN 1 ELSE n
              /\ d \in LonDims => DimLen(f, r, d) =
                    IF Has("lon_indices") THEN span("lon_indices")
                    ELSE IF Has("lon_index") THEN 1 ELSE n
              /\ Lower(d) \in CellDims => DimLen(f, r, d) =
                    IF Has("cell_index") THEN 1
                    ELSE IF Has("cell_indices") THEN Len(r["cell_indices"]) ELSE n
              /\ d \notin TimeDims \union LatDims \union LonDims
                 /\ Lower(d) \notin LevelDims \union CellDims => DimLen(f, r, d) = n
<1> DEFINE n == Size(f, d)
           lats == r["lat_indices"][2] - r["lat_indices"][1] + 1
           lons == r["lon_indices"][2] - r["lon_indices"][1] + 1
           many == Len(r["cell_indices"])
           Has(key) == key \in DOMAIN r
<1>1. DimLen(f, r, d) =
        IF Has("time_index") /\ d \in TimeDims THEN 1
        ELSE IF Has("level_index") /\ d \in LevelDimsShape THEN 1
        ELSE IF Has("lat_indices") /\ d \in LatDims THEN lats
        ELSE IF Has("lat_index") /\ d \in LatDims THEN 1
        ELSE IF Has("lon_indices") /\ d \in LonDims THEN lons
        ELSE IF Has("lon_index") /\ d \in LonDims THEN 1
        ELSE IF Has("cell_index") /\ d \in Named(f, CellDims) THEN 1
        ELSE IF Has("cell_indices") /\ d \in Named(f, CellDims) THEN many
        ELSE n
    BY DEF DimLen
<1>2. d \in Named(f, CellDims) <=> Lower(d) \in CellDims
    BY DEF Named
<1>3. d \in LevelDimsShape => Lower(d) \in LevelDims
    <2>1. /\ Lower("plev") = "plev" /\ Lower("lev") = "lev" /\ Lower("level") = "level"
          /\ Lower("bottom_top") = "bottom_top"
        BY DEF Lower
    <2> QED
        BY <2>1 DEF LevelDimsShape, LevelDims
<1> HIDE DEF n, lats, lons, many
<1>4. d \in TimeDims => DimLen(f, r, d) = IF Has("time_index") THEN 1 ELSE n
    BY <1>1, <1>2, <1>3, KindsApart
<1>5. Lower(d) \in LevelDims => DimLen(f, r, d) =
            IF Has("level_index") /\ d \in LevelDimsShape THEN 1 ELSE n
    BY <1>1, <1>2, <1>3, KindsApart
<1>6. d \in LatDims => DimLen(f, r, d) =
            IF Has("lat_indices") THEN lats ELSE IF Has("lat_index") THEN 1 ELSE n
    BY <1>1, <1>2, <1>3, KindsApart
<1>7. d \in LonDims => DimLen(f, r, d) =
            IF Has("lon_indices") THEN lons ELSE IF Has("lon_index") THEN 1 ELSE n
    BY <1>1, <1>2, <1>3, KindsApart
<1>8. Lower(d) \in CellDims => DimLen(f, r, d) =
            IF Has("cell_index") THEN 1
            ELSE IF Has("cell_indices") THEN many ELSE n
    BY <1>1, <1>2, <1>3, KindsApart
<1>9. d \notin TimeDims \union LatDims \union LonDims
      /\ Lower(d) \notin LevelDims \union CellDims => DimLen(f, r, d) = n
    BY <1>1, <1>2, <1>3
<1> QED
    BY <1>4, <1>5, <1>6, <1>7, <1>8, <1>9, Zenon DEF n, lats, lons, many

(* Each kind of dimension, what a resolution has of it, once more.          *)
LEMMA KeysOfDim ==
    ASSUME NEW f \in Files, NEW a, NEW r, Resolved(f, a, r), NEW d \in ToSet(f.dims),
           OnlyOfKind(f, d)
    PROVE  LET n == Size(f, d)
               Has(key) == key \in DOMAIN r
               Spans(key) == \E lo, hi \in 0 .. n - 1 : r[key] = <<lo, hi>> /\ lo <= hi
           IN /\ d \in TimeDims /\ Has("time_index") => r["time_index"] \in -n .. n - 1
              /\ Lower(d) \in LevelDims /\ Has("level_index") =>
                    r["level_index"] \in 0 .. n - 1
              /\ d \in LatDims =>
                    /\ Has("lat_index") => r["lat_index"] \in 0 .. n - 1 /\ ~Has("lat_indices")
                    /\ Has("lat_indices") => Spans("lat_indices")
              /\ d \in LonDims =>
                    /\ Has("lon_index") => r["lon_index"] \in 0 .. n - 1 /\ ~Has("lon_indices")
                    /\ Has("lon_indices") => Spans("lon_indices")
              /\ Lower(d) \in CellDims =>
                    /\ Has("cell_index") => r["cell_index"] \in 0 .. n - 1 /\ ~Has("cell_indices")
                    /\ Has("cell_indices") => /\ r["cell_indices"] \in Seq(Int)
                                              /\ r["cell_indices"] # <<>>
                                              /\ ToSet(r["cell_indices"]) \subseteq 0 .. n - 1
<1> DEFINE n == Size(f, d)
           Has(key) == key \in DOMAIN r
           Spans(key) == \E lo, hi \in 0 .. n - 1 : r[key] = <<lo, hi>> /\ lo <= hi
<1>1. n \in Nat /\ Positions(f, d) = 0 .. n - 1
    BY DimFacts
<1>2. NamedResolved(f, a, r)
    BY DEF Resolved
<1>3. ASSUME d \in TimeDims, Has("time_index") PROVE r["time_index"] \in -n .. n - 1
    <2>1. TimeDim(f) = d
        BY <1>3, AddressedOnly
    <2> QED
        BY <1>1, <1>2, <1>3, <2>1 DEF NamedResolved, NamedRight
<1>4. ASSUME Lower(d) \in LevelDims, Has("level_index")
      PROVE  r["level_index"] \in 0 .. n - 1
    <2>1. LevelDim(f) = d
        BY <1>4, AddressedOnly
    <2> QED
        BY <1>1, <1>2, <1>4, <2>1 DEF NamedResolved, NamedRight
<1>5. ASSUME NEW D, FirstDim(f, D) = d, NEW sel, NEW one, NEW many,
             AxisResolved(f, sel, D, one, many, r)
      PROVE  /\ Has(one) => r[one] \in 0 .. n - 1 /\ ~Has(many)
             /\ Has(many) => Spans(many)
    BY <1>1, <1>5 DEF AxisResolved
<1>6. d \in LatDims => /\ Has("lat_index") => r["lat_index"] \in 0 .. n - 1 /\ ~Has("lat_indices")
                       /\ Has("lat_indices") => Spans("lat_indices")
    BY <1>2, <1>5, AddressedOnly DEF NamedResolved
<1>7. d \in LonDims => /\ Has("lon_index") => r["lon_index"] \in 0 .. n - 1 /\ ~Has("lon_indices")
                       /\ Has("lon_indices") => Spans("lon_indices")
    BY <1>2, <1>5, AddressedOnly DEF NamedResolved
<1>8. ASSUME Lower(d) \in CellDims
      PROVE  /\ Has("cell_index") => r["cell_index"] \in 0 .. n - 1 /\ ~Has("cell_indices")
             /\ Has("cell_indices") => /\ r["cell_indices"] \in Seq(Int)
                                       /\ r["cell_indices"] # <<>>
                                       /\ ToSet(r["cell_indices"]) \subseteq 0 .. n - 1
    <2>1. CellDim(f) = d
        BY <1>8, AddressedOnly
    <2> QED
        BY <1>1, <1>2, <2>1 DEF NamedResolved, CellsResolved
<1> QED
    BY <1>3, <1>4, <1>6, <1>7, <1>8

(* A pick of dimension d that can be read, and is no longer than len.       *)
Fits(f, d, p, len) ==
    /\ p.at \in Seq(Int) /\ Len(p.at) <= len
    /\ ToSet(p.at) \subseteq -Size(f, d) .. Size(f, d) - 1
    /\ Size(f, d) # 0 => Len(p.at) # 0

LEMMA SlabFits ==
    ASSUME NEW f \in Files, NEW a, NEW r, Resolved(f, a, r), NEW d \in DOMAIN SlabsOf(r)
    PROVE  LET v == SlabsOf(r)[d]
           IN /\ Strided(Pick(f, r, d), v[1], v[2], v[3])
              /\ Fits(f, d, Pick(f, r, d), DimLen(f, r, d)) /\ DimLen(f, r, d) \in Nat
<1> DEFINE v == SlabsOf(r)[d]
           n == Size(f, d)
           p == Pick(f, r, d)
<1>1. /\ d \in ToSet(f.dims) /\ v[1] \in 0 .. n - 1 /\ v[2] \in v[1] .. n - 1
      /\ v[3] \in Nat /\ v[3] >= 1
    BY DEF Resolved, SlabsRight
<1>2. n \in Nat
    BY <1>1, DimFacts
<1>3. p = Steps(v[1], v[2], v[3], n) /\ DimLen(f, r, d) = SlabLen(v)
    BY DEF Pick, DimLen
<1> HIDE DEF v, n, p
<1>4. v[1] \in Nat /\ v[2] \in Int /\ v[2] < n /\ v[1] <= v[2]
    BY <1>1, <1>2
<1>5. Strided(p, v[1], v[2], v[3])
    BY <1>1, <1>2, <1>3, <1>4, StepsRight, Zenon
<1>6. (v[2] - v[1]) \div v[3] \in Nat
    BY <1>1, <1>4
<1>7. /\ p.at \in Seq(Int) /\ Len(p.at) = DimLen(f, r, d) /\ DimLen(f, r, d) \in Nat \ {0}
    BY <1>3, <1>5, <1>6 DEF Strided, SlabLen
<1>8. ToSet(p.at) \subseteq -n .. n - 1
    BY <1>2, <1>4, <1>5 DEF Strided
<1> QED
    BY <1>5, <1>7, <1>8 DEF Fits, v, n, p

(* What is read of a dimension is there, and no more than was estimated.    *)
LEMMA PickFits ==
    ASSUME NEW f \in Files, NEW a, NEW r, Resolved(f, a, r), NEW d \in ToSet(f.dims),
           OnlyOfKind(f, d)
    PROVE  Fits(f, d, Pick(f, r, d), DimLen(f, r, d))
<1> DEFINE n == Size(f, d)
           Has(key) == key \in DOMAIN r
<1>1. n \in Nat
    BY DimFacts
<1>2. ASSUME NEW i, i \in -n .. n - 1, NEW len, len = 1 \/ len = n PROVE Fits(f, d, One(i), len)
    <2> DEFINE p == One(i)
    <2>1. i \in Int /\ len \in Nat /\ 1 <= len
        BY <1>1, <1>2
    <2>2. p.at \in Seq(Int) /\ Len(p.at) = 1 /\ ToSet(p.at) = {i}
        BY <2>1, OneRight
    <2> HIDE DEF p
    <2> QED
        BY <1>2, <2>1, <2>2 DEF Fits, p
<1>3. Fits(f, d, Whole(f, d), n)
    <2> DEFINE p == Steps(0, n - 1, 1, n)
    <2>1. p.at \in Seq(Int) /\ Len(p.at) = n /\ ToSet(p.at) = 0 .. n - 1
        BY <1>1, WholeRight
    <2>2. Whole(f, d) = p
        BY DEF Whole
    <2> HIDE DEF p
    <2>3. ToSet(p.at) \subseteq -n .. n - 1 /\ Len(p.at) <= n /\ (n # 0 => Len(p.at) # 0)
        BY <1>1, <2>1
    <2> QED
        BY <2>1, <2>2, <2>3 DEF Fits
<1>4. \A i \in 0 .. n - 1 : i \in -n .. n - 1
    BY <1>1
<1>5. ASSUME NEW key, NEW lo \in 0 .. n - 1, NEW hi \in 0 .. n - 1, r[key] = <<lo, hi>>, lo <= hi
      PROVE  Fits(f, d, BoxOf(f, r, d, key), r[key][2] - r[key][1] + 1)
    <2> DEFINE q == Steps(lo, hi, 1, n)
    <2>1. BoxOf(f, r, d, key) = q /\ r[key][2] - r[key][1] + 1 = hi - lo + 1
        BY <1>5 DEF BoxOf
    <2>2. lo \in Nat /\ hi \in Int /\ hi < n
        BY <1>1
    <2>3. q.at \in Seq(Int) /\ Len(q.at) = hi - lo + 1 /\ ToSet(q.at) = lo .. hi
        BY <1>1, <1>5, <2>2, BoxRight
    <2> HIDE DEF q
    <2>4. ToSet(q.at) \subseteq -n .. n - 1 /\ Len(q.at) # 0
        BY <1>1, <1>5, <2>2, <2>3
    <2> QED
        BY <2>1, <2>2, <2>3, <2>4 DEF Fits
<1>6. ASSUME Has("cell_indices"), r["cell_indices"] \in Seq(Int), r["cell_indices"] # <<>>,
             ToSet(r["cell_indices"]) \subseteq 0 .. n - 1
      PROVE  Fits(f, d, Many(r["cell_indices"]), Len(r["cell_indices"]))
    <2> DEFINE s == r["cell_indices"]
    <2>1. Many(s).at = s
        BY DEF Many
    <2> HIDE DEF s
    <2>2. Len(s) \in Nat /\ Len(s) # 0
        BY <1>6 DEF s
    <2>3. ToSet(s) \subseteq -n .. n - 1
        BY <1>4, <1>6 DEF s
    <2> QED
        BY <1>6, <2>1, <2>2, <2>3 DEF Fits, s
<1>7. CASE d \in DOMAIN SlabsOf(r)
    BY <1>7, SlabFits
<1>8. CASE d \notin DOMAIN SlabsOf(r)
    <2>1. CASE d \in TimeDims
        <3> DEFINE p == Pick(f, r, d)
                   len == DimLen(f, r, d)
                   one == One(r["time_index"])
                   whole == Whole(f, d)
        <3>1. /\ p = IF Has("time_index") THEN one ELSE whole
              /\ len = IF Has("time_index") THEN 1 ELSE n
            BY <1>8, <2>1, PickByKind, DimLenByKind, Zenon
        <3>2. Has("time_index") => Fits(f, d, one, 1)
            BY <1>2, <2>1, KeysOfDim
        <3> HIDE DEF p, len, one, whole, n
        <3>3. Fits(f, d, whole, n)
            BY <1>3 DEF whole
        <3>4. Fits(f, d, p, len)
            BY <3>1, <3>2, <3>3
        <3> QED
            BY <3>4 DEF p, len
    <2>2. CASE Lower(d) \in LevelDims
        <3>1. d \in LevelDimsShape => Lower(d) \in LevelDimsRead
            <4>1. /\ Lower("plev") = "plev" /\ Lower("lev") = "lev" /\ Lower("level") = "level"
                  /\ Lower("bottom_top") = "bottom_top"
                BY DEF Lower
            <4> QED
                BY <4>1 DEF LevelDimsShape, LevelDimsRead
        <3> DEFINE p == Pick(f, r, d)
                   len == DimLen(f, r, d)
                   one == One(r["level_index"])
                   whole == Whole(f, d)
        <3>2. /\ p = IF Has("level_index") /\ Lower(d) \in LevelDimsRead THEN one ELSE whole
              /\ len = IF Has("level_index") /\ d \in LevelDimsShape THEN 1 ELSE n
            BY <1>8, <2>2, PickByKind, DimLenByKind
        <3>3. Has("level_index") => Fits(f, d, one, 1) /\ Fits(f, d, one, n)
            BY <1>2, <1>4, <2>2, KeysOfDim
        <3> HIDE DEF p, len, one, whole, n
        <3>4. Fits(f, d, whole, n)
            BY <1>3 DEF whole
        <3>5. Fits(f, d, p, len)
            BY <3>1, <3>2, <3>3, <3>4
        <3> QED
            BY <3>5 DEF p, len
    <2>3. CASE d \in LatDims
        <3> DEFINE p == Pick(f, r, d)
                   len == DimLen(f, r, d)
                   span == r["lat_indices"][2] - r["lat_indices"][1] + 1
                   one == One(r["lat_index"])
                   whole == Whole(f, d)
                   box == BoxOf(f, r, d, "lat_indices")
        <3>1. /\ p = IF Has("lat_index") THEN one ELSE IF Has("lat_indices") THEN box ELSE whole
              /\ len = IF Has("lat_indices") THEN span ELSE IF Has("lat_index") THEN 1 ELSE n
            BY <1>8, <2>3, PickByKind, DimLenByKind, Zenon
        <3>2. /\ Has("lat_index") => Fits(f, d, one, 1) /\ ~Has("lat_indices")
              /\ Has("lat_indices") => Fits(f, d, box, span)
            BY <1>2, <1>4, <1>5, <2>3, KeysOfDim
        <3> HIDE DEF p, len, one, whole, box, span, n
        <3>3. Fits(f, d, whole, n)
            BY <1>3 DEF whole
        <3>4. Fits(f, d, p, len)
            BY <3>1, <3>2, <3>3
        <3> QED
            BY <3>4 DEF p, len
    <2>4. CASE d \in LonDims
        <3> DEFINE p == Pick(f, r, d)
                   len == DimLen(f, r, d)
                   span == r["lon_indices"][2] - r["lon_indices"][1] + 1
                   one == One(r["lon_index"])
                   whole == Whole(f, d)
                   box == BoxOf(f, r, d, "lon_indices")
        <3>1. /\ p = IF Has("lon_index") THEN one ELSE IF Has("lon_indices") THEN box ELSE whole
              /\ len = IF Has("lon_indices") THEN span ELSE IF Has("lon_index") THEN 1 ELSE n
            BY <1>8, <2>4, PickByKind, DimLenByKind, Zenon
        <3>2. /\ Has("lon_index") => Fits(f, d, one, 1) /\ ~Has("lon_indices")
              /\ Has("lon_indices") => Fits(f, d, box, span)
            BY <1>2, <1>4, <1>5, <2>4, KeysOfDim
        <3> HIDE DEF p, len, one, whole, box, span, n
        <3>3. Fits(f, d, whole, n)
            BY <1>3 DEF whole
        <3>4. Fits(f, d, p, len)
            BY <3>1, <3>2, <3>3
        <3> QED
            BY <3>4 DEF p, len
    <2>5. CASE Lower(d) \in CellDims
        <3> DEFINE p == Pick(f, r, d)
                   len == DimLen(f, r, d)
                   span == Len(r["cell_indices"])
                   one == One(r["cell_index"])
                   whole == Whole(f, d)
                   many == Many(r["cell_indices"])
        <3>1. /\ p = IF Has("cell_indices") THEN many ELSE IF Has("cell_index") THEN one ELSE whole
              /\ len = IF Has("cell_index") THEN 1 ELSE IF Has("cell_indices") THEN span ELSE n
            BY <1>8, <2>5, PickByKind, DimLenByKind, Zenon
        <3>2. /\ Has("cell_index") => Fits(f, d, one, 1) /\ ~Has("cell_indices")
              /\ Has("cell_indices") => Fits(f, d, many, span)
            BY <1>2, <1>4, <1>6, <2>5, KeysOfDim
        <3> HIDE DEF p, len, one, whole, many, span, n
        <3>3. Fits(f, d, whole, n)
            BY <1>3 DEF whole
        <3>4. Fits(f, d, p, len)
            BY <3>1, <3>2, <3>3
        <3> QED
            BY <3>4 DEF p, len
    <2>6. CASE d \notin TimeDims \union LatDims \union LonDims
               /\ Lower(d) \notin LevelDims \union CellDims
        BY <1>3, <1>8, <2>6, PickByKind, DimLenByKind, Zenon
    <2> QED
        BY <2>1, <2>2, <2>3, <2>4, <2>5, <2>6
<1> QED
    BY <1>7, <1>8

LEMMA DimLenNat ==
    ASSUME NEW f \in Files, NEW a, NEW r, Resolved(f, a, r), NEW d \in ToSet(f.dims)
    PROVE  DimLen(f, r, d) \in Nat
<1> DEFINE n == Size(f, d)
           lats == r["lat_indices"][2] - r["lat_indices"][1] + 1
           lons == r["lon_indices"][2] - r["lon_indices"][1] + 1
           many == Len(r["cell_indices"])
           Has(key) == key \in DOMAIN r
           S == SlabsOf(r)
           slab == SlabLen(S[d])
<1>1. DimLen(f, r, d) =
        IF d \in DOMAIN S THEN slab
        ELSE IF Has("time_index") /\ d \in TimeDims THEN 1
        ELSE IF Has("level_index") /\ d \in LevelDimsShape THEN 1
        ELSE IF Has("lat_indices") /\ d \in LatDims THEN lats
        ELSE IF Has("lat_index") /\ d \in LatDims THEN 1
        ELSE IF Has("lon_indices") /\ d \in LonDims THEN lons
        ELSE IF Has("lon_index") /\ d \in LonDims THEN 1
        ELSE IF Has("cell_index") /\ d \in Named(f, CellDims) THEN 1
        ELSE IF Has("cell_indices") /\ d \in Named(f, CellDims) THEN many
        ELSE n
    BY DEF DimLen
<1>2. n \in Nat
    BY DimFacts
<1>3. d \in DOMAIN S => slab \in Nat
    <2>1. d \in DOMAIN S => DimLen(f, r, d) = slab
        BY <1>1
    <2> QED
        BY <2>1, SlabFits
<1>4. ASSUME NEW sel, NEW D, NEW one, NEW key, AxisResolved(f, sel, D, one, key, r), Has(key)
      PROVE  r[key][2] - r[key][1] + 1 \in Nat
    <2> DEFINE e == FirstDim(f, D)
    <2>1. /\ e \in ToSet(f.dims)
          /\ \E lo, hi \in Positions(f, e) : r[key] = <<lo, hi>> /\ lo <= hi
        BY <1>4 DEF AxisResolved
    <2>2. Positions(f, e) = 0 .. Size(f, e) - 1 /\ Size(f, e) \in Nat
        BY <2>1, DimFacts
    <2> HIDE DEF e
    <2> QED
        BY <2>1, <2>2
<1>5. (Has("lat_indices") => lats \in Nat) /\ (Has("lon_indices") => lons \in Nat)
    BY <1>4 DEF Resolved, NamedResolved
<1>6. Has("cell_indices") => many \in Nat
    <2>1. Has("cell_indices") => r["cell_indices"] \in Seq(Int)
        BY DEF Resolved, NamedResolved, CellsResolved
    <2> QED
        BY <2>1
<1> HIDE DEF n, lats, lons, many, slab
<1> QED
    BY <1>1, <1>2, <1>3, <1>5, <1>6

LEMMA ShapeRight ==
    ASSUME NEW f \in Files, NEW a, NEW r, Resolved(f, a, r)
    PROVE  /\ DOMAIN Shape(f, r) = ToSet(f.dims)
           /\ \A d \in ToSet(f.dims) : Shape(f, r)[d] \in Nat
BY DimLenNat DEF Shape

(* The same of the variable as a whole.                                     *)
LEMMA ReadingFits ==
    ASSUME NEW f \in Files, NEW a, NEW r, Resolved(f, a, r), OneOfEachKind(f)
    PROVE  /\ InBounds(f, Reading(f, r))
           /\ Elements(Reading(f, r)) <= Product(Shape(f, r))
           /\ Elements(Reading(f, r)) \in Nat /\ Product(Shape(f, r)) \in Nat
           /\ Elements(Reading(f, r)) = 0 => \E d \in ToSet(f.dims) : Size(f, d) = 0
<1> DEFINE D == ToSet(f.dims)
           picks == Reading(f, r)
           lens == [d \in D |-> Len(picks[d].at)]
           shape == Shape(f, r)
<1>1. \A d \in D : Fits(f, d, Pick(f, r, d), DimLen(f, r, d))
    BY PickFits DEF OneOfEachKind
<1>2. DOMAIN picks = D /\ \A d \in D : picks[d] = Pick(f, r, d)
    BY DEF Reading
<1>3. DOMAIN shape = D /\ \A d \in D : shape[d] = DimLen(f, r, d) /\ shape[d] \in Nat
    BY DimLenNat DEF Shape
<1>4. IsFiniteSet(D)
    BY DimsFinite
<1> HIDE DEF picks, shape
<1>5. \A d \in D : /\ picks[d].at \in Seq(Int) /\ Len(picks[d].at) <= shape[d]
                   /\ ToSet(picks[d].at) \subseteq -Size(f, d) .. Size(f, d) - 1
                   /\ Size(f, d) # 0 => Len(picks[d].at) # 0
    <2>1. \A d \in D : Fits(f, d, picks[d], shape[d])
        BY <1>1, <1>2, <1>3
    <2> QED
        BY <2>1 DEF Fits
<1>6. InBounds(f, picks)
    BY <1>2, <1>5 DEF InBounds
<1>7. Elements(picks) = Product(lens)
    BY <1>2 DEF Elements
<1>8. DOMAIN lens = D /\ \A d \in D : lens[d] = Len(picks[d].at) /\ lens[d] \in Nat
    BY <1>5
<1> HIDE DEF D, lens
<1>9. \A d \in D : lens[d] \in Int /\ shape[d] \in Int /\ lens[d] <= shape[d]
    BY <1>3, <1>5, <1>8
<1>10. /\ Product(lens) <= Product(shape)
       /\ Product(lens) \in Nat /\ Product(shape) \in Nat
    BY <1>3, <1>4, <1>8, <1>9, ProductMonotone
<1>11. Product(lens) = 0 => \E d \in D : Size(f, d) = 0
    <2>1. (\A d \in D : Size(f, d) # 0) => \A d \in D : lens[d] \in Nat /\ lens[d] # 0
        BY <1>5, <1>8
    <2> QED
        BY <1>4, <1>8, <2>1, ProductNotZero
<1> QED
    BY <1>6, <1>7, <1>10, <1>11 DEF picks, shape, D
-----------------------------------------------------------------------------
(* What is read of a dimension is what was asked for.                       *)

(* A slab on a dimension was resolved for it.                               *)
LEMMA SlabsOnDim ==
    ASSUME NEW f \in Files, NEW a, NEW r, Resolved(f, a, r), NEW d \in ToSet(f.dims),
           OnlyOfKind(f, d), d \notin DOMAIN SlabsOf(r)
    PROVE  SlabsOn(a, d) = {}
<1> SUFFICES ASSUME NEW k \in SlabsOn(a, d) PROVE FALSE
    OBVIOUS
<1>1. k \in DOMAIN a.slabs /\ Lower(a.slabs[k].dim) = Lower(d)
    BY DEF SlabsOn
<1> DEFINE D == Named(f, {Lower(d)})
<1>2. d \in D /\ \A e \in ToSet(f.dims) \cap D : e = d
    BY DEF Named, OnlyOfKind
<1> HIDE DEF D
<1>3. FirstDim(f, D) = d
    BY <1>2, FirstIsOnly
<1>4. DimOfSlab(f, a.slabs[k]) = d
    BY <1>1, <1>3 DEF DimOfSlab, D
<1> QED
    BY <1>1, <1>4 DEF Resolved, SlabsRight

(* What the selectors other than slabs ask for of a dimension.              *)
NamedAsk(f, a, d, i) ==
    /\ d \in TimeDims => SnapTime(f.coord[d], a.time, i)
    /\ Lower(d) \in LevelDims => SnapLevel(f.coord[d], d, a.level, i)
    /\ d \in LatDims => OnAxis(f.coord[d], a.lat, i)
    /\ d \in LonDims => OnAxis(f.coord[d], a.lon, i)
    /\ Lower(d) \in CellDims =>
        /\ a.cell.form # "none" => i = a.cell.value
        /\ a.cells.form # "none" => i \in ToSet(a.cells.value)

(* The same, by what the selectors mean.                                    *)
NamedMeant(f, a, d, i) ==
    /\ d \in TimeDims => MeansTime(f.coord[d], a.time, i)
    /\ Lower(d) \in LevelDims =>
        MeansLevel(f.coord[d], d \in f.surfaceAtMax, a.level, i)
    /\ d \in LatDims => MeansAxis(f.places[d], a.lat, i)
    /\ d \in LonDims => MeansAxis(f.places[d], a.lon, i)
    /\ Lower(d) \in CellDims =>
        /\ a.cell.form # "none" => i = a.cell.value
        /\ a.cells.form # "none" => i \in ToSet(a.cells.value)

LEMMA DistanceNat ==
    ASSUME NEW x \in Int, NEW v \in Int
    PROVE  /\ Distance(x, v) \in Int /\ Distance(x, v) >= 0
           /\ Distance(x, v) = 0 <=> x = v
BY DEF Distance

(* Positions count from 0, the items of a sequence from 1.                  *)
LEMMA FromZero ==
    ASSUME NEW P \in SUBSET Int, NEW i \in Int
    PROVE  i \in {j - 1 : j \in P} <=> i + 1 \in P
<1>1. i = (i + 1) - 1
    OBVIOUS
<1>2. i + 1 \in P => i \in {j - 1 : j \in P}
    BY <1>1, Zenon
<1> QED
    BY <1>2

(* A date the file has is the nearest one.                                  *)
LEMMA DateMeant ==
    ASSUME NEW c \in Seq(Int), NEW sel, NEW i \in 0 .. Len(c) - 1,
           sel.form = "date" => sel.value \in Int /\ sel.value \in ToSet(c)
    PROVE  SnapTime(c, sel, i) <=> MeansTime(c, sel, i)
<1> DEFINE v == sel.value
<1>1. ASSUME sel.form = "date" PROVE i \in Near(c, v) <=> c[i + 1] = v
    <2>1. PICK k \in DOMAIN c : c[k] = v
        BY <1>1 DEF ToSet
    <2>2. v \in Int /\ \A j \in DOMAIN c : c[j] \in Int
        BY <1>1
    <2>4. i + 1 \in DOMAIN c /\ i + 1 - 1 = i
        OBVIOUS
    <2>5. i \in Near(c, v) <=> \A j \in DOMAIN c : Distance(c[i + 1], v) <= Distance(c[j], v)
        <3> HIDE DEF v
        <3>1. \A m \in DOMAIN c : m - 1 = i => m = i + 1
            OBVIOUS
        <3> QED
            BY <3>1, <2>4 DEF Near
    <2> HIDE DEF v
    <2> DEFINE far(j) == Distance(c[j], v)
               least == \A j \in DOMAIN c : far(i + 1) <= far(j)
    <2>6. i \in Near(c, v) <=> least
        BY <2>5
    <2>7. \A j \in DOMAIN c : far(j) >= 0 /\ far(j) \in Int /\ (far(j) = 0 <=> c[j] = v)
        <3> SUFFICES ASSUME NEW j \in DOMAIN c
                     PROVE  far(j) >= 0 /\ far(j) \in Int /\ (far(j) = 0 <=> c[j] = v)
            OBVIOUS
        <3>1. c[j] \in Int /\ v \in Int
            BY <2>2
        <3> QED
            BY <3>1, DistanceNat, Zenon
    <2> HIDE DEF far
    <2>8. far(k) = 0 /\ k \in DOMAIN c
        BY <2>1, <2>7
    <2>9. far(i + 1) = 0 => least
        BY <2>7
    <2>10. least => far(i + 1) <= far(k)
        BY <2>8
    <2> HIDE DEF least
    <2>11. far(i + 1) \in Int /\ far(i + 1) >= 0 /\ (far(i + 1) = 0 <=> c[i + 1] = v)
        BY <2>4, <2>7
    <2>12. least <=> far(i + 1) = 0
        <3>1. least => far(i + 1) <= 0
            BY <2>8, <2>10
        <3> QED
            BY <2>9, <2>11, <3>1
    <2> QED
        BY <2>6, <2>11, <2>12
<1>2. CASE sel.form = "date"
    <2>1. SnapTime(c, sel, i) <=> i \in Near(c, v)
        BY <1>2 DEF SnapTime
    <2>2. MeansTime(c, sel, i) <=> c[i + 1] = v
        BY <1>2 DEF MeansTime
    <2> QED
        BY <2>1, <2>2, <1>1, <1>2
<1>3. CASE sel.form # "date"
    BY <1>3, Zenon DEF SnapTime, MeansTime
<1> QED
    BY <1>2, <1>3

(* In an order from the surface up, the ends are the extremes.              *)
LEMMA LevelMeant ==
    ASSUME NEW f \in Files, NEW d \in ToSet(f.dims), NEW sel, NEW i \in Positions(f, d),
           sel.form = "word" => SurfaceFirst(f, d)
    PROVE  SnapLevel(f.coord[d], d, sel, i)
             <=> MeansLevel(f.coord[d], d \in f.surfaceAtMax, sel, i)
<1> DEFINE c == f.coord[d]
           n == Len(c)
           falls == d \in f.surfaceAtMax
<1>1. c \in Seq(Int) /\ n \in Nat /\ i \in 0 .. n - 1 /\ DOMAIN c = 1 .. n
    BY DimFacts
<1>2. \A j \in 1 .. n : c[j] \in Int
    BY <1>1
<1>3. CASE sel.form # "word"
    BY <1>3, Zenon DEF SnapLevel, MeansLevel
<1>4. CASE sel.form = "word" /\ d = "plev"
    <2>1. falls
        BY <1>4 DEF SurfaceFirst
    <2>2. SnapLevel(c, d, sel, i) <=>
            \A j \in DOMAIN c : IF sel.value = "surface" THEN c[i + 1] >= c[j]
                               ELSE c[i + 1] <= c[j]
        BY <1>4 DEF SnapLevel
    <2>3. MeansLevel(c, falls, sel, i) <=>
            \A j \in DOMAIN c : IF sel.value = "surface" THEN c[j] <= c[i + 1]
                               ELSE c[i + 1] <= c[j]
        BY <2>1, <1>4 DEF MeansLevel
    <2>4. i + 1 \in DOMAIN c
        BY <1>1
    <2> HIDE DEF c, n, falls
    <2>5. \A j \in DOMAIN c : c[i + 1] >= c[j] <=> c[j] <= c[i + 1]
        BY <2>4, <1>1, <1>2
    <2> QED
        BY <2>2, <2>3, <2>5 DEF c, falls
<1>5. CASE sel.form = "word" /\ d # "plev"
    <2>1. \A j, k \in DOMAIN c : j < k => IF falls THEN c[j] > c[k] ELSE c[j] < c[k]
        BY <1>5 DEF SurfaceFirst
    <2>2. SnapLevel(c, d, sel, i) <=> i = (IF sel.value = "surface" THEN 0 ELSE n - 1)
        BY <1>5 DEF SnapLevel
    <2>3. MeansLevel(c, falls, sel, i) <=>
            \A j \in DOMAIN c : IF falls <=> sel.value = "surface"
                               THEN c[j] <= c[i + 1] ELSE c[i + 1] <= c[j]
        BY <1>5 DEF MeansLevel
    <2> HIDE DEF c, n, falls
    <2>4. i + 1 \in 1 .. n /\ 1 \in 1 .. n /\ n \in 1 .. n
        BY <1>1
    <2>5. CASE falls
        <3>1. \A j, k \in 1 .. n : j < k => c[k] < c[j]
            BY <2>1, <2>5, <1>1
        <3>2. (\A j \in 1 .. n : c[j] <= c[i + 1]) <=> i = 0
            BY <3>1, <2>4, <1>1, <1>2
        <3>3. (\A j \in 1 .. n : c[i + 1] <= c[j]) <=> i = n - 1
            BY <3>1, <2>4, <1>1, <1>2
        <3> QED
            BY <2>2, <2>3, <2>5, <3>2, <3>3, <1>1 DEF c, falls
    <2>6. CASE ~falls
        <3>1. \A j, k \in 1 .. n : j < k => c[j] < c[k]
            BY <2>1, <2>6, <1>1
        <3>2. (\A j \in 1 .. n : c[i + 1] <= c[j]) <=> i = 0
            BY <3>1, <2>4, <1>1, <1>2
        <3>3. (\A j \in 1 .. n : c[j] <= c[i + 1]) <=> i = n - 1
            BY <3>1, <2>4, <1>1, <1>2
        <3> QED
            BY <2>2, <2>3, <2>6, <3>2, <3>3, <1>1 DEF c, falls
    <2> QED
        BY <2>5, <2>6
<1> QED
    BY <1>3, <1>4, <1>5

(* On a regular grid the places of a position are its coordinate.           *)
LEMMA AxisMeant ==
    ASSUME NEW f \in Files, NEW d \in ToSet(f.dims), NEW sel, NEW i \in Positions(f, d),
           sel.form # "none" => Regular(f, d)
    PROVE  OnAxis(f.coord[d], sel, i) <=> MeansAxis(f.places[d], sel, i)
<1> DEFINE c == f.coord[d]
           p == f.places[d]
<1>1. /\ i \in Int /\ i + 1 \in DOMAIN c
      /\ \A j \in DOMAIN c : j \in Int
    BY DimFacts
<1>2. DOMAIN p = DOMAIN c
    <2>1. ToSet(f.dims) \subseteq DOMAIN f.coord
        BY DataFilesAssumption
    <2> QED
        BY <2>1, DataFilesAssumption
<1>3. CASE sel.form \notin {"number", "pair"}
    BY <1>3, Zenon DEF OnAxis, MeansAxis
<1>4. CASE sel.form \in {"number", "pair"}
    <2>1. \A m \in DOMAIN c : p[m] = {c[m]}
        BY <1>4 DEF Regular
    <2> DEFINE v == sel.value
    <2>2. CASE sel.form = "number"
        <3>1. OnAxis(c, sel, i) <=> i \in Near(c, v)
            BY <2>2 DEF OnAxis
        <3>2. MeansAxis(p, sel, i) <=>
                \E x \in p[i + 1] : \A y \in UNION ToSet(p) : Distance(x, v) <= Distance(y, v)
            BY <2>2 DEF MeansAxis
        <3> HIDE DEF c, p, v
        <3>3. i \in Near(c, v) <=> \A k \in DOMAIN c : Distance(c[i + 1], v) <= Distance(c[k], v)
            <4> DEFINE P == {j \in DOMAIN c : \A k \in DOMAIN c :
                                Distance(c[j], v) <= Distance(c[k], v)}
            <4>1. Near(c, v) = {j - 1 : j \in P} /\ P \subseteq DOMAIN c
                BY DEF Near
            <4>2. i + 1 \in P <=> \A k \in DOMAIN c : Distance(c[i + 1], v) <= Distance(c[k], v)
                BY <1>1
            <4> HIDE DEF P
            <4>3. P \in SUBSET Int /\ i \in Int
                BY <1>1, <4>1
            <4> QED
                BY <4>1, <4>2, <4>3, FromZero
        <3>4. \A y : y \in UNION ToSet(p) <=> \E k \in DOMAIN c : y = c[k]
            BY <1>2, <2>1 DEF ToSet
        <3>5. p[i + 1] = {c[i + 1]}
            BY <1>1, <2>1
        <3> QED
            BY <3>1, <3>2, <3>3, <3>4, <3>5, Zenon DEF c, p
    <2>3. CASE sel.form = "pair"
        <3>1. OnAxis(c, sel, i) <=> i \in Inside(c, v)
            BY <2>3 DEF OnAxis
        <3>2. MeansAxis(p, sel, i) <=> \E x \in p[i + 1] : v[1] <= x /\ x <= v[2]
            BY <2>3 DEF MeansAxis
        <3> HIDE DEF c, p, v
        <3>3. i \in Inside(c, v) <=> v[1] <= c[i + 1] /\ c[i + 1] <= v[2]
            <4> DEFINE P == {j \in DOMAIN c : v[1] <= c[j] /\ c[j] <= v[2]}
            <4>1. Inside(c, v) = {j - 1 : j \in P} /\ P \subseteq DOMAIN c
                BY DEF Inside
            <4>2. i + 1 \in P <=> v[1] <= c[i + 1] /\ c[i + 1] <= v[2]
                BY <1>1
            <4> HIDE DEF P
            <4>3. P \in SUBSET Int /\ i \in Int
                BY <1>1, <4>1
            <4> QED
                BY <4>1, <4>2, <4>3, FromZero
        <3>4. p[i + 1] = {c[i + 1]}
            BY <1>1, <2>1
        <3> QED
            BY <3>1, <3>2, <3>3, <3>4, Zenon DEF c, p
    <2> QED
        BY <1>4, <2>2, <2>3
<1> QED
    BY <1>3, <1>4

(* On a dimension where the grammar is honoured the two agree.              *)
LEMMA NamedAsMeant ==
    ASSUME NEW f \in Files, NEW a \in Asks, NEW d \in ToSet(f.dims), Honoured(f, a, d),
           NEW i \in Positions(f, d)
    PROVE  NamedAsk(f, a, d, i) <=> NamedMeant(f, a, d, i)
<1>1. /\ f.coord[d] \in Seq(Int) /\ Positions(f, d) = 0 .. Len(f.coord[d]) - 1
      /\ a.time.form = "date" => a.time.value \in Int
    BY DimFacts, AsksAssumption
<1>2. d \in TimeDims => (SnapTime(f.coord[d], a.time, i) <=> MeansTime(f.coord[d], a.time, i))
    <2> SUFFICES ASSUME d \in TimeDims
                 PROVE  SnapTime(f.coord[d], a.time, i) <=> MeansTime(f.coord[d], a.time, i)
        OBVIOUS
    <2>1. a.time.form = "date" => a.time.value \in ToSet(f.coord[d])
        BY DEF Honoured
    <2>2. i \in 0 .. Len(f.coord[d]) - 1
        BY <1>1
    <2>3. a.time.form = "date" => a.time.value \in Int /\ a.time.value \in ToSet(f.coord[d])
        BY <1>1, <2>1
    <2> QED
        BY <1>1, <2>2, <2>3, DateMeant
<1>3. Lower(d) \in LevelDims =>
        (SnapLevel(f.coord[d], d, a.level, i)
            <=> MeansLevel(f.coord[d], d \in f.surfaceAtMax, a.level, i))
    <2>1. Lower(d) \in LevelDims => (a.level.form = "word" => SurfaceFirst(f, d))
        BY DEF Honoured
    <2> QED
        BY <2>1, LevelMeant
<1>4. d \in LatDims => (OnAxis(f.coord[d], a.lat, i) <=> MeansAxis(f.places[d], a.lat, i))
    <2>1. d \in LatDims => (a.lat.form # "none" => Regular(f, d))
        BY DEF Honoured
    <2> QED
        BY <2>1, AxisMeant
<1>5. d \in LonDims => (OnAxis(f.coord[d], a.lon, i) <=> MeansAxis(f.places[d], a.lon, i))
    <2>1. d \in LonDims => (a.lon.form # "none" => Regular(f, d))
        BY DEF Honoured
    <2> QED
        BY <2>1, AxisMeant
<1> QED
    BY <1>2, <1>3, <1>4, <1>5, Zenon DEF NamedAsk, NamedMeant

LEMMA NoneAsked ==
    ASSUME NEW c, NEW d, NEW sel, sel.form = "none", NEW i
    PROVE  SnapTime(c, sel, i) /\ SnapLevel(c, d, sel, i) /\ OnAxis(c, sel, i)
<1>1. SnapTime(c, sel, i)
    BY DEF SnapTime
<1>2. SnapLevel(c, d, sel, i)
    BY DEF SnapLevel
<1>3. OnAxis(c, sel, i)
    BY DEF OnAxis
<1> QED
    BY <1>1, <1>2, <1>3

(* A pick whose positions are those asked for, counted from 0.              *)
LEMMA PickAsked ==
    ASSUME NEW f \in Files, NEW d \in ToSet(f.dims), NEW a, NEW p,
           ToSet(p.at) \subseteq Positions(f, d), ToSet(p.at) = Asked(f, a, d)
    PROVE  ReadsAsked(f, a, d, p)
<1>1. Size(f, d) \in Nat /\ Positions(f, d) = 0 .. Size(f, d) - 1
    BY DimFacts
<1>2. \A i \in Positions(f, d) : i % Size(f, d) = i
    BY <1>1
<1>3. {i % Size(f, d) : i \in ToSet(p.at)} = ToSet(p.at)
    BY <1>2
<1> QED
    BY <1>3 DEF ReadsAsked

LEMMA OneAsked ==
    ASSUME NEW f \in Files, NEW d \in ToSet(f.dims), NEW a,
           NEW i \in -Size(f, d) .. Size(f, d) - 1, i % Size(f, d) \in Asked(f, a, d)
    PROVE  ReadsAsked(f, a, d, One(i))
<1>1. i \in Int
    BY DimFacts
<1>2. ToSet(One(i).at) = {i} /\ One(i).scalar = TRUE
    BY <1>1, OneRight
<1>3. {j % Size(f, d) : j \in ToSet(One(i).at)} = {i % Size(f, d)}
    BY <1>2
<1> QED
    BY <1>2, <1>3 DEF ReadsAsked

(* A slab stands alone: a dimension that another selector has taken is      *)
(* refused to it.                                                           *)
LEMMA SlabAlone ==
    ASSUME NEW f \in Files, NEW a, NEW r, Resolved(f, a, r), NEW d \in DOMAIN SlabsOf(r),
           Honoured(f, a, d), NEW i
    PROVE  NamedAsk(f, a, d, i)
<1>1. d \in ToSet(f.dims) /\ Lower(d) \notin Occupied(f, r)
    BY DEF Resolved, SlabsRight
<1>2. OnlyOfKind(f, d) /\ NamedResolved(f, a, r)
    BY DEF Honoured, Resolved
<1> DEFINE low(D) == {Lower(e) : e \in ToSet(f.dims) \cap D}
<1>3. ASSUME NEW D, d \in D PROVE Lower(d) \in low(D)
    BY <1>1, <1>3
<1>4. /\ d \in TimeDims => "time_index" \notin DOMAIN r
      /\ Lower(d) \in LevelDims => "level_index" \notin DOMAIN r
      /\ d \in LatDims => "lat_index" \notin DOMAIN r /\ "lat_indices" \notin DOMAIN r
      /\ d \in LonDims => "lon_index" \notin DOMAIN r /\ "lon_indices" \notin DOMAIN r
      /\ Lower(d) = "ncells" => "cell_index" \notin DOMAIN r /\ "cell_indices" \notin DOMAIN r
    <2> DEFINE taken(keys, D) == IF keys \cap DOMAIN r = {} THEN {} ELSE low(D)
    <2>1. Occupied(f, r) = UNION {taken({"time_index"}, TimeDims),
              taken({"level_index"}, Named(f, LevelDims)),
              taken({"lat_index", "lat_indices"}, LatDims),
              taken({"lon_index", "lon_indices"}, LonDims),
              taken({"cell_index", "cell_indices"}, Named(f, {"ncells"}))}
        BY DEF Occupied
    <2>2. \A D : Lower(d) \in D => d \in Named(f, D)
        BY <1>1 DEF Named
    <2> HIDE DEF low
    <2>3. d \in TimeDims => {"time_index"} \cap DOMAIN r = {}
        BY <1>1, <1>3, <2>1
    <2>4. Lower(d) \in LevelDims => {"level_index"} \cap DOMAIN r = {}
        BY <1>1, <1>3, <2>1, <2>2
    <2>5. d \in LatDims => {"lat_index", "lat_indices"} \cap DOMAIN r = {}
        BY <1>1, <1>3, <2>1
    <2>6. d \in LonDims => {"lon_index", "lon_indices"} \cap DOMAIN r = {}
        BY <1>1, <1>3, <2>1
    <2>7. Lower(d) = "ncells" => {"cell_index", "cell_indices"} \cap DOMAIN r = {}
        BY <1>1, <1>3, <2>1, <2>2
    <2> QED
        BY <2>3, <2>4, <2>5, <2>6, <2>7
<1>5. ASSUME d \in TimeDims PROVE a.time.form = "none"
    BY <1>2, <1>4, <1>5 DEF NamedResolved, NamedRight, Honoured
<1>6. ASSUME Lower(d) \in LevelDims PROVE a.level.form = "none"
    BY <1>2, <1>4, <1>6 DEF NamedResolved, NamedRight, Honoured
<1>7. ASSUME d \in LatDims PROVE a.lat.form = "none"
    <2>1. FirstDim(f, LatDims) = d /\ d # NoDim
        BY <1>1, <1>2, <1>7, AddressedOnly, DimFacts
    <2> QED
        BY <1>2, <1>4, <1>7, <2>1 DEF NamedResolved, AxisResolved, Honoured
<1>8. ASSUME d \in LonDims PROVE a.lon.form = "none"
    <2>1. FirstDim(f, LonDims) = d /\ d # NoDim
        BY <1>1, <1>2, <1>8, AddressedOnly, DimFacts
    <2> QED
        BY <1>2, <1>4, <1>8, <2>1 DEF NamedResolved, AxisResolved, Honoured
<1>9. ASSUME Lower(d) \in CellDims PROVE a.cell.form = "none" /\ a.cells.form = "none"
    <2>1. CASE Lower(d) = "ncells"
        BY <1>2, <1>4, <2>1 DEF NamedResolved, CellsResolved
    <2>2. CASE Lower(d) \in {"ni", "ncol"}
        <3>1. d \in {"ni", "ncol"}
            BY <2>2, KindsApart
        <3>2. SlabsOn(a, d) # {}
            BY DEF Resolved, SlabsRight, SlabsOn
        <3> QED
            BY <3>1, <3>2 DEF Honoured
    <2> QED
        BY <1>9, <2>1, <2>2 DEF CellDims
<1> QED
    BY <1>5, <1>6, <1>7, <1>8, <1>9, NoneAsked DEF NamedAsk

LEMMA SlabAsked ==
    ASSUME NEW f \in Files, NEW a \in Asks, NEW r, Resolved(f, a, r), NEW d \in DOMAIN SlabsOf(r),
           Honoured(f, a, d)
    PROVE  ReadsAsked(f, a, d, Pick(f, r, d))
<1> DEFINE v == SlabsOf(r)[d]
           n == Size(f, d)
           p == Pick(f, r, d)
<1>1. /\ d \in ToSet(f.dims) /\ v[1] \in 0 .. n - 1 /\ v[2] \in v[1] .. n - 1
      /\ v[3] \in Nat /\ v[3] >= 1
    BY DEF Resolved, SlabsRight
<1>2. n \in Nat /\ Positions(f, d) = 0 .. n - 1
    BY <1>1, DimFacts
<1>3. PICK k \in DOMAIN a.slabs : /\ Lower(a.slabs[k].dim) = Lower(d)
                                  /\ v = Triple(a.slabs[k].vals)
    BY DEF Resolved, SlabsRight
<1> DEFINE vals == a.slabs[k].vals
<1>4. SlabsOn(a, d) = {k}
    BY <1>3 DEF SlabsOn, Honoured
<1>5. v[1] = vals[1] /\ v[2] = vals[2] /\ v[3] = Stride(vals)
    <2> HIDE DEF v, vals
    <2>1. v = Triple(vals)
        BY <1>3 DEF vals
    <2> QED
        BY <2>1 DEF Triple
<1>6. Strided(p, v[1], v[2], v[3])
    BY SlabFits
<1>7. \A i : NamedAsk(f, a, d, i)
    BY SlabAlone
<1> HIDE DEF v, n, p, vals
<1>8. Asked(f, a, d) = {i \in Positions(f, d) : MeansSlab(vals, i)}
    <2>1. Asked(f, a, d) = {i \in Positions(f, d) :
                NamedMeant(f, a, d, i) /\ \A j \in SlabsOn(a, d) : MeansSlab(a.slabs[j].vals, i)}
        BY DEF Asked, NamedMeant
    <2>2. \A i \in Positions(f, d) : NamedMeant(f, a, d, i)
        BY <1>1, <1>7, NamedAsMeant
    <2> QED
        BY <2>1, <2>2, <1>4 DEF vals
<1>9. ToSet(p.at) = {i \in v[1] .. v[2] : (i - v[1]) % v[3] = 0}
    BY <1>6 DEF Strided
<1>10. v[1] .. v[2] \subseteq Positions(f, d)
    BY <1>1, <1>2
<1>11. ToSet(p.at) \subseteq Positions(f, d)
    BY <1>9, <1>10
<1>12. ToSet(p.at) = Asked(f, a, d)
    BY <1>5, <1>8, <1>9, <1>10 DEF MeansSlab
<1>13. ReadsAsked(f, a, d, p)
    BY <1>1, <1>11, <1>12, PickAsked
<1> QED
    BY <1>13 DEF p

(* The other dimensions, by their kind.                                     *)
LEMMA NamedAsked ==
    ASSUME NEW f \in Files, NEW a \in Asks, NEW r, Resolved(f, a, r), NEW d \in ToSet(f.dims),
           Honoured(f, a, d), d \notin DOMAIN SlabsOf(r)
    PROVE  ReadsAsked(f, a, d, Pick(f, r, d))
<1> DEFINE n == Size(f, d)
           c == f.coord[d]
           p == Pick(f, r, d)
           whole == Whole(f, d)
           Has(key) == key \in DOMAIN r
<1>1. n \in Nat /\ Positions(f, d) = 0 .. n - 1 /\ Len(c) = n
    BY DimFacts
<1>2. OnlyOfKind(f, d) /\ NamedResolved(f, a, r) /\ d # NoDim
    BY DimFacts DEF Honoured, Resolved
<1>3. Asked(f, a, d) = {i \in 0 .. n - 1 : NamedAsk(f, a, d, i)}
    <2>1. SlabsOn(a, d) = {}
        BY <1>2, SlabsOnDim
    <2>2. Asked(f, a, d) = {i \in Positions(f, d) : NamedMeant(f, a, d, i)}
        BY <2>1 DEF Asked, NamedMeant
    <2>3. \A i \in Positions(f, d) : NamedAsk(f, a, d, i) <=> NamedMeant(f, a, d, i)
        BY NamedAsMeant
    <2> QED
        BY <1>1, <2>2, <2>3
<1>4. (\A i : NamedAsk(f, a, d, i)) => ReadsAsked(f, a, d, whole)
    <2>1. ToSet(whole.at) = 0 .. n - 1
        BY <1>1, WholeRight DEF Whole
    <2> HIDE DEF whole, n
    <2> QED
        BY <1>1, <1>3, <2>1, PickAsked
<1>5. ASSUME NEW i \in 0 .. n - 1, NamedAsk(f, a, d, i) PROVE ReadsAsked(f, a, d, One(i))
    <2>1. i % n = i /\ i \in -n .. n - 1
        BY <1>1
    <2> QED
        BY <1>3, <1>5, <2>1, OneAsked
<1>6. ASSUME NEW D, NEW one, NEW many, NEW sel, FirstDim(f, D) = d,
             sel.form # "slice", sel.form = "pair" => Monotonic(c),
             AxisResolved(f, sel, D, one, many, r),
             \A i : OnAxis(c, sel, i) => NamedAsk(f, a, d, i),
             \A i : NamedAsk(f, a, d, i) => OnAxis(c, sel, i),
             p = IF Has(one) THEN One(r[one])
                 ELSE IF Has(many) THEN BoxOf(f, r, d, many) ELSE whole
      PROVE  ReadsAsked(f, a, d, p)
    <2> HIDE DEF p, whole, n
    <2>1. CASE sel.form = "none" /\ ~Has(one) /\ ~Has(many)
        BY <1>4, <1>6, <2>1, NoneAsked
    <2>2. CASE sel.form = "number" /\ Has(one) /\ r[one] \in 0 .. n - 1
               /\ r[one] \in Near(c, sel.value)
        <3>1. OnAxis(c, sel, r[one])
            BY <2>2 DEF OnAxis
        <3> QED
            BY <3>1, <1>5, <1>6, <2>2
    <2>3. CASE sel.form = "pair" /\ Has(many) /\ ~Has(one)
               /\ \E lo, hi \in 0 .. n - 1 :
                    /\ r[many] = <<lo, hi>> /\ lo <= hi
                    /\ Monotonic(c) => Inside(c, sel.value) = lo .. hi
        <3>1. PICK lo \in 0 .. n - 1, hi \in 0 .. n - 1 :
                    /\ r[many] = <<lo, hi>> /\ lo <= hi
                    /\ Monotonic(c) => Inside(c, sel.value) = lo .. hi
            BY <2>3
        <3>2. p = Steps(lo, hi, 1, n)
            <4>1. r[many][1] = lo /\ r[many][2] = hi
                BY <3>1
            <4>2. p = BoxOf(f, r, d, many)
                BY <1>6, <2>3
            <4> QED
                BY <4>1, <4>2 DEF BoxOf, n
        <3>3. lo \in Nat /\ hi \in Int /\ hi < n
            BY <1>1
        <3>4. ToSet(p.at) = lo .. hi
            BY <1>1, <3>1, <3>2, <3>3, BoxRight
        <3>5. lo .. hi \subseteq 0 .. n - 1
            BY <1>1
        <3>6. \A i : NamedAsk(f, a, d, i) <=> i \in lo .. hi
            <4>1. \A i : OnAxis(c, sel, i) <=> i \in Inside(c, sel.value)
                BY <2>3 DEF OnAxis
            <4> QED
                BY <4>1, <1>6, <2>3, <3>1
        <3>7. Asked(f, a, d) = lo .. hi
            BY <1>3, <3>5, <3>6
        <3> QED
            BY <1>1, <3>4, <3>5, <3>7, PickAsked
    <2>4. \/ sel.form = "none" /\ ~Has(one) /\ ~Has(many)
          \/ /\ sel.form = "number" /\ Has(one) /\ r[one] \in 0 .. n - 1
             /\ r[one] \in Near(c, sel.value)
          \/ /\ sel.form = "pair" /\ Has(many) /\ ~Has(one)
             /\ \E lo, hi \in 0 .. n - 1 :
                    /\ r[many] = <<lo, hi>> /\ lo <= hi
                    /\ Monotonic(c) => Inside(c, sel.value) = lo .. hi
        BY <1>1, <1>2, <1>6 DEF AxisResolved
    <2> QED
        BY <2>1, <2>2, <2>3, <2>4
<1>7. CASE d \in TimeDims
    <2>1. p = IF Has("time_index") THEN One(r["time_index"]) ELSE whole
        BY <1>2, <1>7, PickByKind
    <2>2. TimeDim(f) = d
        BY <1>2, <1>7, AddressedOnly
    <2>3. \A i : NamedAsk(f, a, d, i) <=> SnapTime(c, a.time, i)
        BY <1>7, KindsApart DEF NamedAsk
    <2>4. CASE ~Has("time_index")
        <3>1. a.time.form = "none"
            BY <1>2, <1>7, <2>4 DEF NamedResolved, NamedRight, Honoured
        <3> QED
            BY <3>1, <1>4, <2>1, <2>3, <2>4, NoneAsked
    <2>5. CASE Has("time_index")
        <3> DEFINE i == r["time_index"]
        <3>1. \/ a.time.form = "index" /\ i = a.time.value /\ i \in -n .. n - 1
              \/ i \in 0 .. n - 1 /\ SnapTime(c, a.time, i)
            BY <1>1, <1>2, <2>2, <2>5 DEF NamedResolved, NamedRight
        <3>2. CASE a.time.form = "index" /\ i = a.time.value /\ i \in -n .. n - 1
            <4>1. i % n \in 0 .. n - 1
                <5> HIDE DEF i, n
                <5>1. i \in Int /\ n > 0
                    BY <1>1, <3>2
                <5> QED
                    BY <1>1, <5>1
            <4>2. SnapTime(c, a.time, i % n)
                BY <1>1, <3>2 DEF SnapTime
            <4>3. i % n \in Asked(f, a, d)
                BY <4>1, <4>2, <1>3, <2>3
            <4> QED
                BY <4>3, <3>2, <2>1, <2>5, OneAsked
        <3>3. CASE i \in 0 .. n - 1 /\ SnapTime(c, a.time, i)
            BY <3>3, <1>5, <2>1, <2>3, <2>5
        <3> QED
            BY <3>1, <3>2, <3>3
    <2> QED
        BY <2>4, <2>5
<1>8. CASE Lower(d) \in LevelDims
    <2>1. p = IF Has("level_index") /\ Lower(d) \in LevelDimsRead
              THEN One(r["level_index"]) ELSE whole
        BY <1>2, <1>8, PickByKind
    <2>2. LevelDim(f) = d
        BY <1>2, <1>8, AddressedOnly
    <2>3. \A i : NamedAsk(f, a, d, i) <=> SnapLevel(c, d, a.level, i)
        BY <1>8, KindsApart DEF NamedAsk
    <2>4. \/ a.level.form = "none" /\ ~Has("level_index")
          \/ /\ Has("level_index") /\ Lower(d) \in LevelDimsRead
             /\ r["level_index"] \in 0 .. n - 1
             /\ SnapLevel(c, d, a.level, r["level_index"])
        BY <1>1, <1>2, <1>8, <2>2 DEF NamedResolved, NamedRight, Honoured
    <2> QED
        BY <1>4, <1>5, <2>1, <2>3, <2>4, NoneAsked
<1>9. CASE d \in LatDims
    <2>1. p = IF Has("lat_index") THEN One(r["lat_index"])
              ELSE IF Has("lat_indices") THEN BoxOf(f, r, d, "lat_indices") ELSE whole
        BY <1>2, <1>9, PickByKind
    <2>2. FirstDim(f, LatDims) = d
        BY <1>2, <1>9, AddressedOnly
    <2>3. /\ \A i : OnAxis(c, a.lat, i) => NamedAsk(f, a, d, i)
          /\ \A i : NamedAsk(f, a, d, i) => OnAxis(c, a.lat, i)
        BY <1>9, KindsApart DEF NamedAsk
    <2>4. a.lat.form # "slice" /\ (a.lat.form = "pair" => Monotonic(c))
        BY <1>9 DEF Honoured
    <2>5. AxisResolved(f, a.lat, LatDims, "lat_index", "lat_indices", r)
        BY <1>2 DEF NamedResolved
    <2> HIDE DEF p, whole, n, c
    <2> QED
        BY <1>6, <2>1, <2>2, <2>3, <2>4, <2>5, Zenon DEF p
<1>10. CASE d \in LonDims
    <2>1. p = IF Has("lon_index") THEN One(r["lon_index"])
              ELSE IF Has("lon_indices") THEN BoxOf(f, r, d, "lon_indices") ELSE whole
        BY <1>2, <1>10, PickByKind
    <2>2. FirstDim(f, LonDims) = d
        BY <1>2, <1>10, AddressedOnly
    <2>3. /\ \A i : OnAxis(c, a.lon, i) => NamedAsk(f, a, d, i)
          /\ \A i : NamedAsk(f, a, d, i) => OnAxis(c, a.lon, i)
        BY <1>10, KindsApart DEF NamedAsk
    <2>4. a.lon.form # "slice" /\ (a.lon.form = "pair" => Monotonic(c))
        BY <1>10 DEF Honoured
    <2>5. AxisResolved(f, a.lon, LonDims, "lon_index", "lon_indices", r)
        BY <1>2 DEF NamedResolved
    <2> HIDE DEF p, whole, n, c
    <2> QED
        BY <1>6, <2>1, <2>2, <2>3, <2>4, <2>5, Zenon DEF p
<1>11. CASE Lower(d) \in CellDims
    <2>1. p = IF Has("cell_indices") THEN Many(r["cell_indices"])
              ELSE IF Has("cell_index") THEN One(r["cell_index"]) ELSE whole
        BY <1>2, <1>11, PickByKind
    <2>2. CellDim(f) = d
        BY <1>2, <1>11, AddressedOnly
    <2>3. \A i : NamedAsk(f, a, d, i) <=> /\ a.cell.form # "none" => i = a.cell.value
                                          /\ a.cells.form # "none" => i \in ToSet(a.cells.value)
        BY <1>11, KindsApart DEF NamedAsk
    <2>4. \/ /\ a.cell.form = "none" /\ a.cells.form = "none"
             /\ ~Has("cell_index") /\ ~Has("cell_indices")
          \/ /\ a.cells.form = "none" /\ Has("cell_index") /\ ~Has("cell_indices")
             /\ r["cell_index"] = a.cell.value /\ a.cell.value \in 0 .. n - 1
          \/ /\ a.cell.form = "none" /\ a.cells.form # "none" /\ Has("cell_indices")
             /\ r["cell_indices"] = a.cells.value
             /\ ToSet(a.cells.value) \subseteq 0 .. n - 1
        BY <1>1, <1>2, <2>2 DEF NamedResolved, CellsResolved
    <2> DEFINE many == Many(a.cells.value)
    <2>5. many.at = a.cells.value
        BY DEF Many
    <2> HIDE DEF p, whole, n, many
    <2>6. CASE /\ a.cell.form = "none" /\ a.cells.form = "none"
               /\ ~Has("cell_index") /\ ~Has("cell_indices")
        <3>1. \A i : NamedAsk(f, a, d, i)
            BY <2>3, <2>6
        <3>2. p = whole
            BY <2>1, <2>6
        <3> QED
            BY <3>1, <3>2, <1>4 DEF p
    <2>7. CASE /\ a.cells.form = "none" /\ Has("cell_index") /\ ~Has("cell_indices")
               /\ r["cell_index"] = a.cell.value /\ a.cell.value \in 0 .. n - 1
        <3>1. NamedAsk(f, a, d, a.cell.value)
            BY <2>3, <2>7
        <3>2. p = One(a.cell.value)
            BY <2>1, <2>7
        <3> QED
            BY <3>1, <3>2, <2>7, <1>5 DEF p
    <2>8. CASE /\ a.cell.form = "none" /\ a.cells.form # "none" /\ Has("cell_indices")
               /\ r["cell_indices"] = a.cells.value
               /\ ToSet(a.cells.value) \subseteq 0 .. n - 1
        <3>1. p = many
            BY <2>1, <2>8 DEF many
        <3>2. Asked(f, a, d) = ToSet(a.cells.value)
            BY <1>3, <2>3, <2>8
        <3> QED
            BY <1>1, <2>5, <2>8, <3>1, <3>2, PickAsked DEF p
    <2> QED
        BY <2>4, <2>6, <2>7, <2>8
<1>12. CASE d \notin TimeDims \union LatDims \union LonDims
            /\ Lower(d) \notin LevelDims \union CellDims
    <2>1. p = whole
        BY <1>2, <1>12, PickByKind
    <2>2. \A i : NamedAsk(f, a, d, i)
        BY <1>12 DEF NamedAsk
    <2> QED
        BY <2>1, <2>2, <1>4
<1> QED
    BY <1>7, <1>8, <1>9, <1>10, <1>11, <1>12

LEMMA HonouredRight ==
    ASSUME NEW f \in Files, NEW a \in Asks, NEW r, Resolved(f, a, r), NEW d \in ToSet(f.dims),
           Honoured(f, a, d)
    PROVE  ReadsAsked(f, a, d, Pick(f, r, d))
BY SlabAsked, NamedAsked
-----------------------------------------------------------------------------
(* What the parts of resolve_spec end in.                                   *)

Outcome(part) == /\ part.status \in {"ok", "error", "raised"}
                 /\ part.status # "ok" => part.keys = <<>>

LEMMA OutcomeKnown ==
    /\ \A keys : Outcome(Resolves(keys))
    /\ \A code : Outcome(Refuses(code))
    /\ Outcome(Raises)
BY DEF Outcome, Resolves, Refuses, Raises

LEMMA InOrderOutcome ==
    ASSUME NEW n \in Nat, NEW parts, DOMAIN parts = 1 .. n, \A i \in 1 .. n : Outcome(parts[i])
    PROVE  Outcome(InOrder(parts))
<1> DEFINE bad == {i \in DOMAIN parts : parts[i].status # "ok"}
<1>1. bad # {} => Min(bad) \in 1 .. n
    <2>1. bad \in SUBSET Nat
        OBVIOUS
    <2>2. bad # {} => Min(bad) \in bad
        BY <2>1, LeastExists
    <2> QED
        BY <2>2
<1>2. InOrder(parts) = IF bad # {} THEN parts[Min(bad)] ELSE Resolves(Entries(parts))
    BY DEF InOrder
<1> HIDE DEF bad
<1> QED
    BY <1>1, <1>2, OutcomeKnown

LEMMA ResolveOutcome ==
    ASSUME NEW f, NEW a \in Asks
    PROVE  Outcome(ResolveSpec(f, a))
<1>1. Outcome(TimePart(f, a))
    BY OutcomeKnown, Zenon DEF TimePart
<1>2. Outcome(LevelPart(f, a))
    BY OutcomeKnown, Zenon DEF LevelPart
<1>3. Outcome(LatPart(f, a)) /\ Outcome(LonPart(f, a))
    <2>1. \A sel, D, one, many : Outcome(AxisPart(f, sel, D, one, many))
        BY OutcomeKnown, Zenon DEF AxisPart
    <2> QED
        BY <2>1 DEF LatPart, LonPart
<1>4. Outcome(CellPart(f, a))
    BY OutcomeKnown, Zenon DEF CellPart
<1>5. Outcome(CellsPart(f, a))
    BY OutcomeKnown, Zenon DEF CellsPart
<1> DEFINE six == <<TimePart(f, a), LevelPart(f, a), LatPart(f, a),
                    LonPart(f, a), CellPart(f, a), CellsPart(f, a)>>
           named == InOrder(six)
<1>6. Outcome(named)
    <2>1. DOMAIN six = 1 .. 6 /\ 6 \in Nat
        OBVIOUS
    <2>2. \A i \in 1 .. 6 : Outcome(six[i])
        BY <1>1, <1>2, <1>3, <1>4, <1>5
    <2> HIDE DEF six
    <2> QED
        BY <2>1, <2>2, InOrderOutcome
<1>7. ASSUME NEW r PROVE Outcome(SlabsPart(f, r, a.slabs))
    <2> DEFINE parts == [i \in DOMAIN a.slabs |-> SlabPart(f, r, a.slabs[i])]
    <2>1. \A slab : Outcome(SlabPart(f, r, slab))
        BY OutcomeKnown, Zenon DEF SlabPart
    <2>2. Len(a.slabs) \in Nat /\ DOMAIN parts = 1 .. Len(a.slabs)
        BY AsksAssumption
    <2>3. \A i \in 1 .. Len(a.slabs) : Outcome(parts[i])
        BY <2>1, <2>2
    <2>4. SlabsPart(f, r, a.slabs) =
            IF a.slabs = <<>> THEN Resolves(<<>>)
            ELSE IF InOrder(parts).status # "ok" THEN InOrder(parts)
            ELSE Resolves([index_selectors |-> InOrder(parts).keys])
        BY DEF SlabsPart
    <2> HIDE DEF parts
    <2>5. Outcome(InOrder(parts))
        BY <2>2, <2>3, InOrderOutcome
    <2> QED
        BY <2>4, <2>5, OutcomeKnown, Zenon
<1> DEFINE two == <<named, SlabsPart(f, named.keys, a.slabs)>>
<1> HIDE DEF named
<1>8. Outcome(InOrder(two))
    <2>1. DOMAIN two = 1 .. 2 /\ 2 \in Nat
        OBVIOUS
    <2>2. \A i \in 1 .. 2 : Outcome(two[i])
        BY <1>6, <1>7
    <2> HIDE DEF two
    <2> QED
        BY <2>1, <2>2, InOrderOutcome
<1> QED
    BY <1>6, <1>8, OutcomeKnown, Zenon DEF ResolveSpec, named, two
-----------------------------------------------------------------------------
(* The inductive invariant: a call that is not answered has resolved the    *)
(* file as it is, unless that was replaced, and stands under peek's cap;    *)
(* an answer says what happened at the reading; and a call that the system  *)
(* refused the first opening has resolved nothing.                          *)

SpecTypes ==
    /\ data \in Files \union {Gone} /\ ask \in Asks
    /\ stable \in BOOLEAN /\ refused \in BOOLEAN

ResolvedBy(f) ==
    LET got == ResolveSpec(f, ask)
    IN /\ spec.status = got.status /\ spec.keys = got.keys
       /\ spec.shape = (IF got.status = "ok" THEN Shape(f, got.keys) ELSE <<>>)

ResolvedNone == spec.status = "raised" /\ spec.keys = <<>> /\ spec.shape = <<>>

Prepared == spec # NoSpec =>
    \/ \E f \in Files \union {Gone} : ResolvedBy(f) /\ (stable => f = data)
    \/ ResolvedNone

Passed == reply = NoReply /\ spec # NoSpec =>
    spec.status = "ok" /\ ~(ask.tool = "peek" /\ Product(spec.shape) > PeekCap)

CannotRead ==
    \/ data = Gone
    \/ ~InBounds(data, Reading(data, spec.keys))
    \/ NoMinimum(Reading(data, spec.keys))

Limit == IF ask.tool = "peek" THEN PeekCap ELSE MaxInline

Replied == reply # NoReply =>
    /\ spec # NoSpec
    /\ \/ reply.form = spec.status /\ spec.status # "ok" /\ reply.picks = <<>>
       \/ reply.form = "error" /\ reply.picks = <<>>
       \/ reply.form = "raised" /\ reply.picks = <<>> /\ (CannotRead \/ refused)
       \/ /\ reply.form \in {"error", "inline", "file", "stats"}
          /\ spec.status = "ok" /\ data # Gone
          /\ reply.picks = Reading(data, spec.keys)
          /\ reply.form = "inline" => ~(Product(spec.shape) > Limit)

SpecInv == SpecTypes /\ Prepared /\ Passed /\ Replied

LEMMA SpecInvInit == SpecInit => SpecInv
<1> SUFFICES ASSUME SpecInit PROVE SpecInv
    OBVIOUS
<1>1. SpecTypes /\ spec = NoSpec /\ reply = NoReply
    BY DEF SpecInit, SpecTypes
<1> QED
    BY <1>1 DEF SpecInv, Prepared, Passed, Replied

LEMMA SpecInvNext == SpecInv /\ [SpecNext]_specVars => SpecInv'
<1> SUFFICES ASSUME SpecInv, [SpecNext]_specVars PROVE SpecInv'
    OBVIOUS
<1>1. SpecTypes /\ Prepared /\ Passed /\ Replied
    BY DEF SpecInv
<1>2. ASSUME ResolveAsk PROVE SpecInv'
    <2> DEFINE got == ResolveSpec(data, ask)
               shape == IF got.status = "ok" THEN Shape(data, got.keys) ELSE <<>>
    <2>1. /\ spec' = [status |-> got.status, code |-> got.code,
                      keys |-> got.keys, shape |-> shape]
          /\ data' = data /\ ask' = ask /\ stable' = stable /\ refused' = refused
          /\ spec = NoSpec
          /\ IF got.status # "ok" THEN reply' = [form |-> got.status, picks |-> <<>>]
             ELSE IF ask.tool = "peek" /\ Product(shape) > PeekCap
                  THEN reply' = [form |-> "error", picks |-> <<>>]
             ELSE reply' = reply
        BY <1>2 DEF ResolveAsk, Answers
    <2>2. reply = NoReply
        BY <1>1, <2>1 DEF Replied
    <2>3. Outcome(got) /\ ask \in Asks
        BY <1>1, ResolveOutcome DEF SpecTypes
    <2> HIDE DEF got, shape
    <2>4. /\ spec'.status = got.status /\ spec'.keys = got.keys /\ spec'.shape = shape
          /\ spec' # NoSpec
        <3>1. spec'.status = got.status /\ spec'.keys = got.keys /\ spec'.shape = shape
            BY <2>1
        <3>2. NoSpec.status = "pending"
            BY DEF NoSpec
        <3> QED
            BY <2>3, <3>1, <3>2 DEF Outcome
    <2>5. SpecTypes'
        BY <1>1, <2>1 DEF SpecTypes
    <2>6. ResolvedBy(data)'
        BY <2>1, <2>4 DEF ResolvedBy, got, shape
    <2>7. Prepared'
        BY <1>1, <2>1, <2>6 DEF Prepared, SpecTypes
    <2>8. NoReply.form = "pending"
        BY DEF NoReply
    <2>9. CASE got.status # "ok"
        <3>1. reply'.form = got.status /\ reply'.picks = <<>>
            BY <2>1, <2>9
        <3>2. reply' # NoReply
            BY <2>3, <2>8, <3>1 DEF Outcome
        <3>3. Passed' /\ Replied'
            BY <2>4, <2>9, <3>1, <3>2 DEF Passed, Replied
        <3> QED
            BY <2>5, <2>7, <3>3 DEF SpecInv
    <2>10. CASE got.status = "ok" /\ ask.tool = "peek" /\ Product(shape) > PeekCap
        <3>1. reply'.form = "error" /\ reply'.picks = <<>>
            BY <2>1, <2>10
        <3>2. reply' # NoReply
            BY <2>8, <3>1
        <3>3. Passed' /\ Replied'
            BY <2>4, <3>1, <3>2 DEF Passed, Replied
        <3> QED
            BY <2>5, <2>7, <3>3 DEF SpecInv
    <2>11. CASE got.status = "ok" /\ ~(ask.tool = "peek" /\ Product(shape) > PeekCap)
        <3>1. reply' = NoReply
            BY <2>1, <2>2, <2>11
        <3>2. Passed' /\ Replied'
            BY <2>1, <2>4, <2>11, <3>1 DEF Passed, Replied
        <3> QED
            BY <2>5, <2>7, <3>2 DEF SpecInv
    <2> QED
        BY <2>9, <2>10, <2>11
<1>3. ASSUME ReadRaises PROVE SpecInv'
    <2>1. /\ spec # NoSpec /\ reply = NoReply
          /\ \/ CannotRead /\ reply' = [form |-> "raised", picks |-> <<>>]
             \/ reply' = [form |-> "error", picks |-> <<>>]
          /\ data' = data /\ ask' = ask /\ spec' = spec
          /\ stable' = stable /\ refused' = refused
        BY <1>3 DEF ReadRaises, Reads, Answers, CannotRead
    <2>2. /\ (reply'.form = "raised" /\ CannotRead) \/ reply'.form = "error"
          /\ reply'.picks = <<>> /\ reply' # NoReply
        BY <2>1 DEF NoReply
    <2>3. CannotRead' <=> CannotRead
        BY <2>1 DEF CannotRead, NoMinimum
    <2>4. SpecTypes'
        BY <1>1, <2>1 DEF SpecTypes
    <2>5. Prepared'
        BY <1>1, <2>1 DEF Prepared, ResolvedBy, ResolvedNone
    <2>6. Passed' /\ Replied'
        BY <2>1, <2>2, <2>3 DEF Passed, Replied
    <2> QED
        BY <2>4, <2>5, <2>6 DEF SpecInv
<1>4. ASSUME Read PROVE SpecInv'
    <2> DEFINE picks == Reading(data, spec.keys)
               size == Elements(picks)
               form == IF ask.tool = "peek" THEN "inline"
                       ELSE IF ask.tool = "compute_stats"
                            THEN IF size = 0 THEN "error" ELSE "stats"
                       ELSE IF Product(spec.shape) > MaxInline THEN "file" ELSE "inline"
    <2>1. /\ spec # NoSpec /\ reply = NoReply /\ data # Gone
          /\ reply' = [form |-> form, picks |-> picks]
          /\ data' = data /\ ask' = ask /\ spec' = spec
          /\ stable' = stable /\ refused' = refused
        BY <1>4 DEF Read, Reads, Answers
    <2>2. spec.status = "ok" /\ ~(ask.tool = "peek" /\ Product(spec.shape) > PeekCap)
        BY <1>1, <2>1 DEF Passed
    <2> HIDE DEF picks, size
    <2>3. /\ form \in {"error", "inline", "file", "stats"}
          /\ form = "inline" => ~(Product(spec.shape) > Limit)
        BY <2>2 DEF Limit
    <2> HIDE DEF form
    <2>4. reply'.form = form /\ reply'.picks = picks /\ reply' # NoReply
        <3>1. reply'.form = form /\ reply'.picks = picks
            BY <2>1
        <3>2. NoReply.form = "pending"
            BY DEF NoReply
        <3> QED
            BY <2>3, <3>1, <3>2
    <2>5. SpecTypes'
        BY <1>1, <2>1 DEF SpecTypes
    <2>6. Prepared'
        BY <1>1, <2>1 DEF Prepared, ResolvedBy, ResolvedNone
    <2>7. Passed' /\ Replied'
        <3>1. reply'.picks = Reading(data', spec'.keys)
            BY <2>1, <2>4 DEF picks
        <3>2. reply'.form = "inline" => ~(Product(spec'.shape) > Limit')
            BY <2>1, <2>3, <2>4 DEF Limit
        <3> QED
            BY <2>1, <2>2, <2>3, <2>4, <3>1, <3>2 DEF Passed, Replied
    <2> QED
        BY <2>5, <2>6, <2>7 DEF SpecInv
<1>5. ASSUME Replace PROVE SpecInv'
    <2>1. /\ spec # NoSpec /\ reply = NoReply /\ stable' = FALSE
          /\ data' \in Files \union {Gone}
          /\ ask' = ask /\ spec' = spec /\ reply' = reply /\ refused' = refused
        BY <1>5 DEF Replace, Reads
    <2>2. SpecTypes'
        BY <1>1, <2>1 DEF SpecTypes
    <2>3. Prepared'
        BY <1>1, <2>1 DEF Prepared, ResolvedBy, ResolvedNone
    <2>4. Passed' /\ Replied'
        BY <1>1, <2>1 DEF Passed, Replied
    <2> QED
        BY <2>2, <2>3, <2>4 DEF SpecInv
<1>6. ASSUME UNCHANGED specVars PROVE SpecInv'
    <2>1. data' = data /\ ask' = ask /\ spec' = spec /\ reply' = reply
          /\ stable' = stable /\ refused' = refused
        BY <1>6 DEF specVars
    <2> QED
        BY <1>1, <2>1 DEF SpecInv, SpecTypes, Prepared, ResolvedBy, ResolvedNone, Passed,
                          Replied, CannotRead, NoMinimum, Limit
<1>7. ASSUME IOFails PROVE SpecInv'
    <2>1. /\ reply = NoReply /\ refused' = TRUE
          /\ reply' = [form |-> "raised", picks |-> <<>>]
          /\ spec' = IF spec = NoSpec THEN [NoSpec EXCEPT !.status = "raised"] ELSE spec
          /\ data' = data /\ ask' = ask /\ stable' = stable
        BY <1>7 DEF IOFails, Answers
    <2>2. reply'.form = "raised" /\ reply'.picks = <<>> /\ reply' # NoReply
        BY <2>1 DEF NoReply
    <2>3. SpecTypes'
        BY <1>1, <2>1 DEF SpecTypes
    <2>4. CASE spec = NoSpec
        <3>1. /\ spec'.status = "raised" /\ spec'.keys = <<>> /\ spec'.shape = <<>>
              /\ spec' # NoSpec
            BY <2>1, <2>4 DEF NoSpec
        <3>2. Prepared' /\ Passed' /\ Replied'
            BY <2>2, <3>1 DEF Prepared, ResolvedNone, Passed, Replied
        <3> QED
            BY <2>3, <3>2 DEF SpecInv
    <2>5. CASE spec # NoSpec
        <3>1. spec' = spec
            BY <2>1, <2>5
        <3>2. Prepared'
            BY <1>1, <2>1, <3>1 DEF Prepared, ResolvedBy, ResolvedNone
        <3>3. Passed' /\ Replied'
            BY <2>1, <2>2, <2>5, <3>1 DEF Passed, Replied
        <3> QED
            BY <2>3, <3>2, <3>3 DEF SpecInv
    <2> QED
        BY <2>4, <2>5
<1> QED
    BY <1>2, <1>3, <1>4, <1>5, <1>6, <1>7 DEF SpecNext

THEOREM SpecInvHolds == SliceSpecSpec => []SpecInv
BY SpecInvInit, SpecInvNext, PTL DEF SliceSpecSpec

LEMMA SpecResolved ==
    ASSUME SpecInv, spec # NoSpec, spec.status = "ok"
    PROVE  \E f \in Files : /\ Resolved(f, ask, spec.keys) /\ spec.shape = Shape(f, spec.keys)
                            /\ stable => f = data
<1>1. PICK f \in Files \union {Gone} : ResolvedBy(f) /\ (stable => f = data)
    BY DEF SpecInv, Prepared, ResolvedNone
<1>2. /\ ResolveSpec(f, ask).status = "ok" /\ spec.keys = ResolveSpec(f, ask).keys
      /\ spec.shape = Shape(f, spec.keys) /\ ask \in Asks
    BY <1>1 DEF SpecInv, SpecTypes, ResolvedBy
<1>3. Resolved(f, ask, spec.keys)
    BY <1>2, ResolvedRight
<1> QED
    BY <1>1, <1>2, <1>3 DEF Resolved

(* A resolution ends in one of three ways, with the keys that reading       *)
(* knows and no negative length.                                            *)
THEOREM SpecTypesHold == SliceSpecSpec => []SpecTypeOK
<1>1. SpecInv => SpecTypeOK
    <2> SUFFICES ASSUME SpecInv PROVE SpecTypeOK
        OBVIOUS
    <2>1. SpecTypes /\ Prepared /\ Replied
        BY DEF SpecInv
    <2>2. ASSUME spec # NoSpec
          PROVE  /\ spec.status \in {"ok", "error", "raised"}
                 /\ DOMAIN spec.keys \subseteq ResolvedKeys
                 /\ \A d \in DOMAIN spec.shape : spec.shape[d] \in Nat
        <3>1. /\ spec.status \in {"ok", "error", "raised"}
              /\ spec.status # "ok" => spec.keys = <<>> /\ spec.shape = <<>>
            <4>1. CASE ResolvedNone
                BY <4>1 DEF ResolvedNone
            <4>2. CASE ~ResolvedNone
                <5>1. PICK f \in Files \union {Gone} : ResolvedBy(f)
                    BY <2>1, <2>2, <4>2 DEF Prepared
                <5>2. Outcome(ResolveSpec(f, ask))
                    BY <2>1, ResolveOutcome DEF SpecTypes
                <5> QED
                    BY <5>1, <5>2 DEF ResolvedBy, Outcome
            <4> QED
                BY <4>1, <4>2
        <3>4. CASE spec.status = "ok"
            <4>1. PICK g \in Files : /\ Resolved(g, ask, spec.keys)
                                     /\ spec.shape = Shape(g, spec.keys)
                BY <2>2, <3>4, SpecResolved
            <4>2. DOMAIN spec.keys \subseteq ResolvedKeys
                BY <4>1 DEF Resolved
            <4> QED
                BY <3>1, <4>1, <4>2, ShapeRight
        <3>5. CASE spec.status # "ok"
            <4>1. DOMAIN <<>> = {}
                OBVIOUS
            <4> QED
                BY <3>1, <3>5, <4>1
        <3> QED
            BY <3>4, <3>5
    <2>3. reply # NoReply => reply.form \in {"error", "raised", "inline", "file", "stats"}
        BY <2>1, <2>2 DEF Replied
    <2> QED
        BY <2>1, <2>2, <2>3 DEF SpecTypeOK, SpecTypes
<1> QED
    BY <1>1, SpecInvHolds, PTL

(* A spec that resolved can be read, but for the causes the property names. *)
THEOREM SpecCanBeRead == SliceSpecSpec => []ReadRaisesForCause
<1>1. SpecInv => ReadRaisesForCause
    <2> SUFFICES ASSUME SpecInv, reply.form = "raised", spec.status = "ok",
                        stable, ~refused, OneOfEachKind(data)
                 PROVE  \/ \E d \in ToSet(data.dims) : Size(data, d) = 0
                        \/ ~data.numeric /\ ask.tool # "peek"
        BY DEF ReadRaisesForCause
    <2>1. reply # NoReply
        BY DEF NoReply
    <2>2. CannotRead /\ spec # NoSpec
        BY <2>1 DEF SpecInv, Replied
    <2>3. data \in Files /\ Resolved(data, ask, spec.keys)
        BY <2>2, SpecResolved
    <2>4. data # Gone
        BY <2>3, SliceSpecAssumptions
    <2>5. /\ InBounds(data, Reading(data, spec.keys))
          /\ Elements(Reading(data, spec.keys)) = 0 =>
                \E d \in ToSet(data.dims) : Size(data, d) = 0
        BY <2>3, ReadingFits
    <2>6. NoMinimum(Reading(data, spec.keys))
        BY <2>2, <2>4, <2>5 DEF CannotRead
    <2> QED
        BY <2>5, <2>6 DEF NoMinimum
<1> QED
    BY <1>1, SpecInvHolds, PTL

(* The estimate is never below what is read, so the limits hold.            *)
THEOREM EstimateIsEnough == SliceSpecSpec => []InlineWithinLimit
<1>1. SpecInv => InlineWithinLimit
    <2> SUFFICES ASSUME SpecInv, reply.form = "inline", stable, OneOfEachKind(data)
                 PROVE  Elements(reply.picks) <= Limit
        BY DEF InlineWithinLimit, Limit
    <2>1. reply # NoReply
        BY DEF NoReply
    <2>2. spec # NoSpec
        BY <2>1 DEF SpecInv, Replied
    <2>3. spec.status \in {"ok", "error", "raised"}
        <3>1. CASE ResolvedNone
            BY <3>1 DEF ResolvedNone
        <3>2. CASE ~ResolvedNone
            <4>1. PICK f \in Files \union {Gone} : ResolvedBy(f)
                BY <2>2, <3>2 DEF SpecInv, Prepared
            <4> QED
                BY <4>1, ResolveOutcome DEF SpecInv, SpecTypes, ResolvedBy, Outcome
        <3> QED
            BY <3>1, <3>2
    <2>4. /\ spec # NoSpec /\ spec.status = "ok" /\ reply.picks = Reading(data, spec.keys)
          /\ ~(Product(spec.shape) > Limit)
        BY <2>1, <2>3 DEF SpecInv, Replied
    <2>5. /\ data \in Files /\ Resolved(data, ask, spec.keys)
          /\ spec.shape = Shape(data, spec.keys)
        BY <2>4, SpecResolved
    <2>6. /\ Elements(reply.picks) <= Product(spec.shape)
          /\ Elements(reply.picks) \in Nat /\ Product(spec.shape) \in Nat
        BY <2>4, <2>5, ReadingFits
    <2>7. Limit \in Nat
        BY SliceSpecAssumptions DEF Limit
    <2> QED
        BY <2>4, <2>6, <2>7
<1> QED
    BY <1>1, SpecInvHolds, PTL

(* Where a dimension is addressed by one selector that is honoured, what is *)
(* read of it is exactly what that selector means.                          *)
THEOREM SelectorsHonoured == SliceSpecSpec => []ReadsWhatWasAsked
<1>1. SpecInv => ReadsWhatWasAsked
    <2> SUFFICES ASSUME SpecInv, reply.picks # <<>>, stable,
                        NEW d \in ToSet(data.dims), Honoured(data, ask, d)
                 PROVE  ReadsAsked(data, ask, d, reply.picks[d])
        BY DEF ReadsWhatWasAsked, Answered
    <2>1. reply # NoReply
        BY DEF NoReply
    <2>2. spec # NoSpec /\ spec.status = "ok" /\ reply.picks = Reading(data, spec.keys)
        BY <2>1 DEF SpecInv, Replied
    <2>3. data \in Files /\ Resolved(data, ask, spec.keys)
        BY <2>2, SpecResolved
    <2>4. reply.picks[d] = Pick(data, spec.keys, d)
        BY <2>2 DEF Reading
    <2> QED
        BY <2>3, <2>4, HonouredRight DEF SpecInv, SpecTypes
<1> QED
    BY <1>1, SpecInvHolds, PTL
=============================================================================
