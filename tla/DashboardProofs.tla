--------------------------- MODULE DashboardProofs ---------------------------
(***************************************************************************)
(* What the dashboards show, proved: the public charts and their refresh   *)
(* (DashboardRollup), a bank's incremental counters (DashboardStats) and   *)
(* the stage labels its applications carry (StagePipeline), for any number *)
(* of applications, consents, banks, stages and workers.                   *)
(*                                                                         *)
(* A status with a blank in it, and "" itself, are left to Zenon and kept  *)
(* out of the other steps: hence Blank and Moving, and lemmas such as      *)
(* Scoped and Recorded that say what is needed of them.                    *)
(***************************************************************************)
EXTENDS DashboardStats, DashboardRollup, StagePipeline, FiniteSetTheorems, WellFoundedInduction, TLAPS

(***************************************************************************)
(* Counting.                                                               *)
(***************************************************************************)
(* Two sets that differ at most in x: their sizes do by whether x is in.   *)
LEMMA OneMoved ==
    ASSUME NEW A, NEW B, NEW x, IsFiniteSet(A), A \ {x} = B \ {x}
    PROVE  /\ Cardinality(A) \in Nat /\ Cardinality(B) \in Nat
           /\ Cardinality(B) = Cardinality(A) + (IF x \in B THEN 1 ELSE 0)
                                              - (IF x \in A THEN 1 ELSE 0)
<1>1. IsFiniteSet(B)
  <2>1. IsFiniteSet(A \cup {x})
    BY FS_AddElement
  <2>2. B \in SUBSET (A \cup {x})
    OBVIOUS
  <2> QED BY <2>1, <2>2, FS_Subset
<1>2. Cardinality(A) \in Nat /\ Cardinality(B) \in Nat
  BY <1>1, FS_CardinalityType
<1>3. Cardinality(A \ {x}) = IF x \in A THEN Cardinality(A) - 1 ELSE Cardinality(A)
  BY FS_RemoveElement
<1>4. Cardinality(B \ {x}) = IF x \in B THEN Cardinality(B) - 1 ELSE Cardinality(B)
  BY <1>1, FS_RemoveElement
<1> QED BY <1>2, <1>3, <1>4

(* The values of a function are no more than its arguments.                *)
LEMMA ImageOf ==
    ASSUME NEW S, IsFiniteSet(S), NEW f, f = [x \in S |-> f[x]]
    PROVE  IsFiniteSet({f[x] : x \in S}) /\ Cardinality({f[x] : x \in S}) <= Cardinality(S)
<1> DEFINE T == {f[x] : x \in S}
<1>1. f \in Surjection(S, T)
  BY DEF Surjection
<1> HIDE DEF T
<1>2. IsFiniteSet(T) /\ Cardinality(T) <= Cardinality(S)
  BY <1>1, FS_Surjection
<1> QED BY <1>2 DEF T

LEMMA Least ==
    ASSUME NEW T \in SUBSET Nat, T # {}
    PROVE  \E n \in T : \A m \in T : n <= m
<1>1. PICK n \in T : \A m \in T : ~(<<m, n>> \in OpToRel(<, Nat))
  BY WFMin, NatLessThanWellFounded, Zenon
<1>2. \A m \in T : ~(m < n)
  BY <1>1 DEF OpToRel
<1> QED BY <1>2

(***************************************************************************)
(* Totals.  A fold is a choice among the functions that satisfy its        *)
(* equation: there is one on any finite set, and what the equation says of *)
(* it is proved from a smallest set of rows that would not obey.           *)
(***************************************************************************)
Taken(s)     == CHOOSE r \in s : TRUE
Folded(it, s) == IF s = {} THEN 0 ELSE Taken(s).total + it[s \ {Taken(s)}]
IsFold(it, R) == it = [s \in SUBSET R |-> Folded(it, s)]

LEMMA TotalIsFold == \A R : Total(R) = (CHOOSE it : IsFold(it, R))[R]
BY DEF Total, MapThenSumSet, MapThenFoldSet, Taken, Folded, IsFold

LEMMA OneLess ==
    ASSUME NEW s, IsFiniteSet(s), s # {}
    PROVE  /\ Taken(s) \in s
           /\ Cardinality(s) \in Nat /\ Cardinality(s \ {Taken(s)}) = Cardinality(s) - 1
           /\ Cardinality(s \ {Taken(s)}) \in Nat
<1>1. Taken(s) \in s
  BY DEF Taken
<1>2. IsFiniteSet(s \ {Taken(s)}) /\ Cardinality(s \ {Taken(s)}) = Cardinality(s) - 1
  BY <1>1, FS_RemoveElement
<1> QED BY <1>1, <1>2, FS_CardinalityType

LEMMA FoldExists ==
    ASSUME NEW R, IsFiniteSet(R)
    PROVE  \E it : IsFold(it, R)
<1> DEFINE Upto(n, g) == \A s \in SUBSET R : Cardinality(s) <= n => g[s] = Folded(g, s)
           bad == {n \in Nat : ~ \E g : Upto(n, g)}
<1>1. \A s \in SUBSET R : IsFiniteSet(s) /\ Cardinality(s) \in Nat /\ (s = {} <=> Cardinality(s) = 0)
  BY FS_Subset, FS_CardinalityType, FS_EmptySet
<1>2. bad = {}
  <2> SUFFICES ASSUME bad # {} PROVE FALSE
    OBVIOUS
  <2>1. PICK n \in bad : \A m \in bad : n <= m
    BY Least
  <2>2. CASE n = 0
    <3> DEFINE g == [s \in SUBSET R |-> 0]
    <3>1. Upto(0, g)
      BY <1>1 DEF Folded
    <3> QED BY <2>1, <2>2, <3>1
  <2>3. CASE n > 0
    <3>1. n - 1 \in Nat /\ n - 1 \notin bad
      BY <2>1, <2>3
    <3>2. PICK g : Upto(n - 1, g)
      BY <3>1
    <3> DEFINE h == [s \in SUBSET R |-> IF Cardinality(s) <= n - 1 THEN g[s] ELSE Folded(g, s)]
    <3>3. ASSUME NEW s \in SUBSET R, Cardinality(s) <= n PROVE h[s] = Folded(h, s)
      <4>1. h[s] = Folded(g, s)
        BY <3>2
      <4>2. CASE s = {}
        BY <4>1, <4>2 DEF Folded
      <4>3. CASE s # {}
        <5>1. /\ s \ {Taken(s)} \in SUBSET R
              /\ Cardinality(s \ {Taken(s)}) <= n - 1
          BY <1>1, <2>1, <3>3, <4>3, OneLess
        <5>2. h[s \ {Taken(s)}] = g[s \ {Taken(s)}]
          BY <5>1
        <5> QED BY <4>1, <4>3, <5>2 DEF Folded
      <4> QED BY <4>2, <4>3
    <3>4. Upto(n, h)
      BY <3>3
    <3> QED BY <2>1, <3>4
  <2> QED BY <2>1, <2>2, <2>3
<1>3. PICK g : Upto(Cardinality(R), g)
  BY <1>1, <1>2
<1> DEFINE it == [s \in SUBSET R |-> g[s]]
<1>4. ASSUME NEW s \in SUBSET R PROVE it[s] = Folded(it, s)
  <2>1. g[s] = Folded(g, s)
    BY <1>3, FS_Subset
  <2>2. s # {} => it[s \ {Taken(s)}] = g[s \ {Taken(s)}]
    OBVIOUS
  <2> QED BY <2>1, <2>2 DEF Folded
<1>5. IsFold(it, R)
  BY <1>4 DEF IsFold
<1> QED BY <1>5

(* Rows that count the members of disjoint sets count their union.         *)
LEMMA TotalOfParts ==
    ASSUME NEW R, IsFiniteSet(R), NEW M,
           \A r \in R : IsFiniteSet(M[r]) /\ r.total = Cardinality(M[r]),
           \A r, q \in R : r # q => M[r] \cap M[q] = {}
    PROVE  Total(R) = Cardinality(UNION {M[r] : r \in R})
<1> DEFINE Union(s) == UNION {M[r] : r \in s}
           it == CHOOSE it : IsFold(it, R)
           good(s) == IsFiniteSet(Union(s)) /\ it[s] = Cardinality(Union(s))
           bad == {n \in Nat : \E s \in SUBSET R : ~good(s) /\ n = Cardinality(s)}
<1>1. IsFold(it, R)
  BY FoldExists
<1> HIDE DEF it
<1>2. \A s \in SUBSET R : it[s] = Folded(it, s)
  BY <1>1 DEF IsFold
<1>3. \A s \in SUBSET R : IsFiniteSet(s) /\ Cardinality(s) \in Nat
  BY FS_Subset, FS_CardinalityType
<1>4. bad = {}
  <2> SUFFICES ASSUME bad # {} PROVE FALSE
    OBVIOUS
  <2>1. PICK n \in bad : \A m \in bad : n <= m
    BY Least
  <2>2. PICK s \in SUBSET R : ~good(s) /\ n = Cardinality(s)
    OBVIOUS
  <2>3. CASE s = {}
    <3>1. Union(s) = {}
      BY <2>3
    <3>2. it[s] = 0
      BY <1>2, <2>3 DEF Folded
    <3> QED BY <2>2, <3>1, <3>2, FS_EmptySet
  <2>4. CASE s # {}
    <3> DEFINE x == Taken(s)
               rest == s \ {x}
    <3>1. /\ x \in s /\ rest \in SUBSET R /\ Cardinality(s) \in Nat
          /\ Cardinality(rest) = Cardinality(s) - 1
      BY <1>3, <2>4, OneLess
    <3>2. good(rest)
      <4>1. Cardinality(rest) \in Nat /\ ~(Cardinality(s) <= Cardinality(rest))
        BY <1>3, <3>1
      <4>2. Cardinality(rest) \notin bad
        BY <2>1, <2>2, <4>1
      <4> HIDE DEF rest, good
      <4> QED BY <3>1, <4>1, <4>2
    <3>3. Union(s) = M[x] \cup Union(rest)
      BY <3>1
    <3>4. M[x] \cap Union(rest) = {}
      BY <3>1
    <3>5. it[s] = Cardinality(M[x]) + Cardinality(Union(rest))
      BY <1>2, <2>4, <3>1, <3>2 DEF Folded
    <3> HIDE DEF x, rest, Union
    <3>6. /\ IsFiniteSet(Union(s))
          /\ Cardinality(Union(s)) = Cardinality(M[x]) + Cardinality(Union(rest)) - Cardinality({})
      BY <3>1, <3>2, <3>3, <3>4, FS_Union
    <3>7. Cardinality(M[x]) \in Nat /\ Cardinality(Union(rest)) \in Nat
      BY <3>1, <3>2, FS_CardinalityType
    <3> QED BY <2>2, <3>5, <3>6, <3>7, FS_EmptySet
  <2> QED BY <2>3, <2>4
<1>5. good(R)
  <2> HIDE DEF good
  <2> QED BY <1>3, <1>4
<1> QED BY <1>5, TotalIsFold DEF it

(***************************************************************************)
(* DashboardRollup.                                                        *)
(***************************************************************************)
(***************************************************************************)
(* Rows of a family.                                                       *)
(***************************************************************************)
Members(rowOf, row) == {m \in DOMAIN rowOf : rowOf[m] = row}

LEMMA GroupedRows ==
    ASSUME NEW rowOf, IsFiniteSet(DOMAIN rowOf)
    PROVE  /\ IsFiniteSet(Grouped(rowOf))
           /\ \A m \in DOMAIN rowOf : \E r \in Grouped(rowOf) : r.row = rowOf[m]
           /\ \A r \in Grouped(rowOf) : /\ IsFiniteSet(Members(rowOf, r.row))
                                        /\ r.total = Cardinality(Members(rowOf, r.row))
           /\ \A r, q \in Grouped(rowOf) : r.row = q.row => r = q
<1> DEFINE f == [m \in DOMAIN rowOf |-> [row |-> rowOf[m], total |-> Cardinality(Members(rowOf, rowOf[m]))]]
<1>1. Grouped(rowOf) = {f[m] : m \in DOMAIN rowOf}
  BY DEF Grouped, Members
<1>2. IsFiniteSet({f[m] : m \in DOMAIN rowOf})
  BY ImageOf
<1>3. \A m \in DOMAIN rowOf : /\ f[m].row = rowOf[m]
                              /\ f[m].total = Cardinality(Members(rowOf, rowOf[m]))
  OBVIOUS
<1>4. ASSUME NEW r \in Grouped(rowOf)
      PROVE  \E m \in DOMAIN rowOf : r = [row |-> rowOf[m], total |-> Cardinality(Members(rowOf, rowOf[m]))]
  BY <1>1
<1>5. \A r \in Grouped(rowOf) : r.total = Cardinality(Members(rowOf, r.row))
  BY <1>4
<1>6. \A r, q \in Grouped(rowOf) : r.row = q.row => r = q
  BY <1>4
<1>7. \A m \in DOMAIN rowOf : \E r \in Grouped(rowOf) : r.row = rowOf[m]
  BY <1>1, <1>3
<1>8. \A r : IsFiniteSet(Members(rowOf, r))
  BY FS_Subset DEF Members
<1> QED BY <1>1, <1>2, <1>5, <1>6, <1>7, <1>8

(* Some rows of a family count the members that those rows stand for.      *)
LEMMA RowsCount ==
    ASSUME NEW rowOf, IsFiniteSet(DOMAIN rowOf), NEW R \in SUBSET Grouped(rowOf),
           NEW S \in SUBSET DOMAIN rowOf,
           \A m \in DOMAIN rowOf : m \in S <=> \E r \in R : r.row = rowOf[m]
    PROVE  Total(R) = Cardinality(S)
<1> DEFINE M == [r \in R |-> Members(rowOf, r.row)]
<1>1. IsFiniteSet(R)
  BY GroupedRows, FS_Subset
<1>2. \A r \in R : IsFiniteSet(M[r]) /\ r.total = Cardinality(M[r])
  BY GroupedRows
<1>3. \A r, q \in R : r # q => M[r] \cap M[q] = {}
  BY GroupedRows DEF Members
<1>4. UNION {M[r] : r \in R} = S
  BY DEF Members
<1> HIDE DEF M
<1> QED BY <1>1, <1>2, <1>3, <1>4, TotalOfParts

IsParting(chart, R, D, valueOf) == chart = [d \in D |-> Total({r \in R : valueOf[r] = d})]

(* A chart that parts rows by one value of each adds up to the rows it     *)
(* shows.                                                                  *)
LEMMA Parted ==
    ASSUME NEW rowOf, IsFiniteSet(DOMAIN rowOf), NEW R \in SUBSET Grouped(rowOf),
           NEW D, IsFiniteSet(D), NEW valueOf, NEW chart, IsParting(chart, R, D, valueOf)
    PROVE  SumOf(chart) = Total({r \in R : valueOf[r] \in D})
<1> DEFINE bar == [d \in D |-> [row |-> d, total |-> chart[d]]]
           bars == {bar[d] : d \in D}
           ShownAs(d) == {m \in DOMAIN rowOf : \E r \in R : r.row = rowOf[m] /\ valueOf[r] = d}
           M == [b \in bars |-> ShownAs(b.row)]
           all == {m \in DOMAIN rowOf : \E r \in R : r.row = rowOf[m] /\ valueOf[r] \in D}
<1>0. chart = [d \in D |-> Total({r \in R : valueOf[r] = d})]
  BY DEF IsParting
<1>1. SumOf(chart) = Total(bars)
  BY <1>0 DEF SumOf
<1>2. IsFiniteSet(bars)
  <2> HIDE DEF bar
  <2>1. bar = [d \in D |-> bar[d]]
    BY DEF bar
  <2> QED BY <2>1, ImageOf
<1>3. \A d \in D : IsFiniteSet(ShownAs(d)) /\ chart[d] = Cardinality(ShownAs(d))
  <2> TAKE d \in D
  <2>1. Total({r \in R : valueOf[r] = d}) = Cardinality(ShownAs(d))
    BY RowsCount
  <2> QED BY <1>0, <2>1, FS_Subset
<1>4. \A b \in bars : b.row \in D /\ b.total = chart[b.row] /\ b = bar[b.row]
  <2> TAKE b \in bars
  <2>1. PICK d \in D : b = bar[d]
    OBVIOUS
  <2>2. bar[d] = [row |-> d, total |-> chart[d]]
    OBVIOUS
  <2> HIDE DEF bar, bars
  <2>3. b.row = d /\ b.total = chart[d]
    BY <2>1, <2>2
  <2> QED BY <2>1, <2>3
<1>5. \A b \in bars : IsFiniteSet(M[b]) /\ b.total = Cardinality(M[b])
  BY <1>3, <1>4
<1>6. \A b, c \in bars : b # c => M[b] \cap M[c] = {}
  <2> SUFFICES ASSUME NEW b \in bars, NEW c \in bars, NEW m \in M[b] \cap M[c] PROVE b = c
    OBVIOUS
  <2> HIDE DEF bars, bar
  <2>1. PICK r \in R : r.row = rowOf[m] /\ valueOf[r] = b.row
    OBVIOUS
  <2>2. PICK q \in R : q.row = rowOf[m] /\ valueOf[q] = c.row
    OBVIOUS
  <2>3. r = q
    BY <2>1, <2>2, GroupedRows
  <2> QED BY <1>4, <2>1, <2>2, <2>3
<1>7. UNION {M[b] : b \in bars} = all
  <2>1. \A d \in D : bar[d] \in bars /\ bar[d].row = d
    OBVIOUS
  <2> HIDE DEF bars, bar
  <2>2. ASSUME NEW m \in all PROVE m \in UNION {M[b] : b \in bars}
    <3>1. PICK r \in R : r.row = rowOf[m] /\ valueOf[r] \in D
      OBVIOUS
    <3>2. m \in M[bar[valueOf[r]]]
      BY <2>1, <3>1
    <3> QED BY <2>1, <3>1, <3>2
  <2>3. ASSUME NEW b \in bars, NEW m \in M[b] PROVE m \in all
    BY <1>4
  <2> QED BY <2>2, <2>3
<1>8. Total({r \in R : valueOf[r] \in D}) = Cardinality(all)
  BY RowsCount
<1> HIDE DEF bars, M, all
<1>9. Total(bars) = Cardinality(UNION {M[b] : b \in bars})
  BY <1>2, <1>5, <1>6, TotalOfParts
<1> QED BY <1>1, <1>7, <1>8, <1>9

LEMMA Pairs ==
    ASSUME NEW S, NEW T, NEW m \in S \X T
    PROVE  m = <<m[1], m[2]>> /\ m[1] \in S /\ m[2] \in T
OBVIOUS

(* Each member of S once, under the tag t.                                 *)
LEMMA Tagged ==
    ASSUME NEW S, IsFiniteSet(S), NEW t
    PROVE  IsFiniteSet({t} \X S) /\ Cardinality({t} \X S) = Cardinality(S)
<1>1. IsFiniteSet({t}) /\ Cardinality({t}) = 1 /\ Cardinality(S) \in Nat
  BY FS_Singleton, FS_CardinalityType
<1>2. IsFiniteSet({t} \X S) /\ Cardinality({t} \X S) = Cardinality({t}) * Cardinality(S)
  BY <1>1, FS_Product
<1> QED BY <1>1, <1>2

LEMMA Counts ==
    ASSUME NEW rowOf, IsFiniteSet(DOMAIN rowOf), NEW R \in SUBSET Grouped(rowOf),
           NEW S \in SUBSET DOMAIN rowOf,
           \A m \in DOMAIN rowOf : \A r \in Grouped(rowOf) : r.row = rowOf[m] => (m \in S <=> r \in R)
    PROVE  Total(R) = Cardinality(S) /\ IsFiniteSet(S)
<1>1. \A m \in DOMAIN rowOf : m \in S <=> \E r \in R : r.row = rowOf[m]
  BY GroupedRows
<1> QED BY <1>1, RowsCount, FS_Subset

(***************************************************************************)
(* The families: who is counted, and the row each member falls into.       *)
(***************************************************************************)
Blank == ""

AppRow(f) ==
    [a \in Submitted(f) |-> [bank |-> BankOf[a], place |-> Geo(a), outcome |-> Outcome(f.app[a]),
                             product |-> ProductOf[a], month |-> MonthOf[a]]]
FarmerMembers(f) == ({Blank} \X Profiles) \cup {<<BankOf[a], ApplicantOf[a]>> : a \in Submitted(f)}
FarmerRow(f)     == [m \in FarmerMembers(f) |-> [bank |-> m[1], place |-> PlaceOf[m[2]]]]
ConsentRow(f) ==
    [m \in Uses(Consents) |-> [bank |-> m[1], place |-> ConsentPlace(m[2]),
                               outcome |-> ConsentOutcome(f.consent[m[2]])]]
ShareRow(f) ==
    [m \in Uses(Shared(f)) |-> [bank |-> m[1], place |-> ConsentPlace(m[2]), first |-> FirstBank(m[2]),
                                outcome |-> ShareOutcome(f.consent[m[2]])]]
Carried(c) == IF FieldsOf[c] = {} THEN {"Unspecified"} ELSE FieldsOf[c]
DatasetMembers(f) == UNION {{<<m[1], m[2], d>> : d \in Carried(m[2])} : m \in Uses(Shared(f))}
DatasetRow(f) ==
    [m \in DatasetMembers(f) |-> [bank |-> m[1], place |-> ConsentPlace(m[2]), first |-> FirstBank(m[2]),
                                  outcome |-> ShareOutcome(f.consent[m[2]]), dataset |-> m[3]]]
Declined(f)   == {a \in Apps : f.app[a].status = "Rejected"}
DeclineRow(f) == [a \in Declined(f) |-> [bank |-> BankOf[a], place |-> Geo(a), reason |-> f.app[a].reason]]

LEMMA Families ==
    ASSUME NEW f
    PROVE  /\ ApplicationRows(f) = Grouped(AppRow(f)) /\ FarmerRows(f) = Grouped(FarmerRow(f))
           /\ ConsentRows(f) = Grouped(ConsentRow(f)) /\ ShareRows(f) = Grouped(ShareRow(f))
           /\ DatasetRows(f) = Grouped(DatasetRow(f)) /\ DeclineRows(f) = Grouped(DeclineRow(f))
<1>1. ApplicationRows(f) = Grouped(AppRow(f)) /\ FarmerRows(f) = Grouped(FarmerRow(f))
  BY Zenon DEF ApplicationRows, FarmerRows, AppRow, FarmerRow, FarmerMembers, Blank
<1>2. ConsentRows(f) = Grouped(ConsentRow(f)) /\ ShareRows(f) = Grouped(ShareRow(f))
  BY DEF ConsentRows, ShareRows, ConsentRow, ShareRow
<1>3. DatasetRows(f) = Grouped(DatasetRow(f)) /\ DeclineRows(f) = Grouped(DeclineRow(f))
  BY DEF DatasetRows, DeclineRows, DatasetRow, DatasetMembers, Carried, DeclineRow, Declined
<1> QED BY <1>1, <1>2, <1>3

LEMMA UsesFinite == \A consents \in SUBSET Consents : IsFiniteSet(Uses(consents))
<1> TAKE consents \in SUBSET Consents
<1>1. IsFiniteSet(Banks \cup {""}) /\ IsFiniteSet(consents)
  BY ChartsAssumption, FS_AddElement, FS_Subset
<1>2. IsFiniteSet((Banks \cup {""}) \X consents)
  BY <1>1, FS_Product
<1> QED BY <1>2, FS_Subset DEF Uses

LEMMA MembersFinite ==
    ASSUME NEW f
    PROVE  /\ IsFiniteSet(DOMAIN AppRow(f)) /\ IsFiniteSet(DOMAIN FarmerRow(f))
           /\ IsFiniteSet(DOMAIN ConsentRow(f)) /\ IsFiniteSet(DOMAIN ShareRow(f))
           /\ IsFiniteSet(DOMAIN DatasetRow(f)) /\ IsFiniteSet(DOMAIN DeclineRow(f))
<1>1. IsFiniteSet(Submitted(f)) /\ IsFiniteSet(Declined(f))
  BY ChartsAssumption, FS_Subset DEF Submitted, Declined
<1>2. IsFiniteSet(FarmerMembers(f))
  <2> DEFINE pair == [a \in Submitted(f) |-> <<BankOf[a], ApplicantOf[a]>>]
  <2>1. IsFiniteSet({pair[a] : a \in Submitted(f)})
    BY <1>1, ImageOf
  <2>2. IsFiniteSet({Blank} \X Profiles)
    BY ChartsAssumption, Tagged
  <2>3. FarmerMembers(f) = ({Blank} \X Profiles) \cup {pair[a] : a \in Submitted(f)}
    BY DEF FarmerMembers
  <2> DEFINE pairs == {pair[a] : a \in Submitted(f)}
             empty == {Blank} \X Profiles
  <2> HIDE DEF pair, pairs, empty
  <2>4. IsFiniteSet(empty \cup pairs)
    BY <2>1, <2>2, FS_Union DEF pairs, empty
  <2> QED BY <2>3, <2>4 DEF pairs, empty
<1>3. IsFiniteSet(Uses(Consents)) /\ IsFiniteSet(Uses(Shared(f)))
  BY UsesFinite DEF Shared
<1>4. IsFiniteSet(DatasetMembers(f))
  <2> DEFINE carried(m) == {<<m[1], m[2], d>> : d \in Carried(m[2])}
             sets == [m \in Uses(Shared(f)) |-> carried(m)]
  <2>1. ASSUME NEW m \in Uses(Shared(f)) PROVE IsFiniteSet(carried(m))
    <3>1. m[2] \in Consents
      BY DEF Uses, Shared
    <3>2. IsFiniteSet(Carried(m[2]))
      BY <3>1, ChartsAssumption, FS_Singleton DEF Carried
    <3> DEFINE triple == [d \in Carried(m[2]) |-> <<m[1], m[2], d>>]
    <3>3. IsFiniteSet({triple[d] : d \in Carried(m[2])})
      BY <3>2, ImageOf
    <3> QED BY <3>3
  <2>2. IsFiniteSet({sets[m] : m \in Uses(Shared(f))})
    <3> HIDE DEF sets
    <3>1. sets = [m \in Uses(Shared(f)) |-> sets[m]]
      BY DEF sets
    <3> QED BY <1>3, <3>1, ImageOf
  <2>3. \A T \in {sets[m] : m \in Uses(Shared(f))} : IsFiniteSet(T)
    BY <2>1
  <2>4. DatasetMembers(f) = UNION {sets[m] : m \in Uses(Shared(f))}
    BY DEF DatasetMembers
  <2> QED BY <2>2, <2>3, <2>4, FS_UNION
<1> QED BY <1>1, <1>2, <1>3, <1>4 DEF AppRow, FarmerRow, ConsentRow, ShareRow, DatasetRow, DeclineRow

(* _rows, family by family.                                                *)
PassedRow(row, scope) == (scope.provider # Blank => row.bank = scope.provider) /\ InPlaces(row.place, scope)
TaggedRow(row, scope) == row.bank = scope.provider /\ InPlaces(row.place, scope)

LEMMA SelectedRows ==
    ASSUME NEW f, NEW scope
    PROVE  /\ Rows(Snapshot(f), "application", scope) = {r \in Grouped(AppRow(f)) : PassedRow(r.row, scope)}
           /\ Rows(Snapshot(f), "decline", scope) = {r \in Grouped(DeclineRow(f)) : PassedRow(r.row, scope)}
           /\ Rows(Snapshot(f), "farmer", scope) = {r \in Grouped(FarmerRow(f)) : TaggedRow(r.row, scope)}
           /\ Rows(Snapshot(f), "consent", scope) = {r \in Grouped(ConsentRow(f)) : TaggedRow(r.row, scope)}
           /\ Rows(Snapshot(f), "share", scope) = {r \in Grouped(ShareRow(f)) : TaggedRow(r.row, scope)}
           /\ Rows(Snapshot(f), "dataset", scope) = {r \in Grouped(DatasetRow(f)) : TaggedRow(r.row, scope)}
<1> DEFINE s == Snapshot(f)
<1>1. /\ s["application"] = Grouped(AppRow(f)) /\ s["decline"] = Grouped(DeclineRow(f))
      /\ s["farmer"] = Grouped(FarmerRow(f)) /\ s["consent"] = Grouped(ConsentRow(f))
      /\ s["share"] = Grouped(ShareRow(f)) /\ s["dataset"] = Grouped(DatasetRow(f))
  BY Families DEF Snapshot
<1> HIDE DEF s
<1>2. Rows(s, "application", scope) = {r \in s["application"] : PassedRow(r.row, scope)}
  BY Zenon DEF Rows, DistinctFamilies, PassedRow, Blank
<1>3. Rows(s, "decline", scope) = {r \in s["decline"] : PassedRow(r.row, scope)}
  BY Zenon DEF Rows, DistinctFamilies, PassedRow, Blank
<1>4. \A family \in {"farmer", "consent", "share", "dataset"} :
         Rows(s, family, scope) = {r \in s[family] : TaggedRow(r.row, scope)}
  BY DEF Rows, DistinctFamilies, TaggedRow
<1>5. /\ Rows(s, "farmer", scope) = {r \in s["farmer"] : TaggedRow(r.row, scope)}
      /\ Rows(s, "consent", scope) = {r \in s["consent"] : TaggedRow(r.row, scope)}
      /\ Rows(s, "share", scope) = {r \in s["share"] : TaggedRow(r.row, scope)}
      /\ Rows(s, "dataset", scope) = {r \in s["dataset"] : TaggedRow(r.row, scope)}
  BY <1>4
<1> QED BY <1>1, <1>2, <1>3, <1>5 DEF s

(***************************************************************************)
(* Who the selected rows count.                                            *)
(***************************************************************************)
LEMMA SelectedFinite ==
    ASSUME NEW f, NEW scope
    PROVE  /\ IsFiniteSet(SelectedApps(f, scope)) /\ IsFiniteSet(SelectedFarmers(f, scope))
           /\ IsFiniteSet(SelectedConsents(scope))
BY ChartsAssumption, FS_Subset DEF SelectedApps, SelectedFarmers, SelectedConsents

LEMMA NamedBanks == Blank \notin Banks /\ \A a \in Apps : BankOf[a] \in Banks /\ BankOf[a] # Blank
<1>1. Blank \notin Banks
  BY ChartsAssumption, Zenon DEF Blank
<1>2. BankOf \in [Apps -> Banks]
  BY ChartsAssumption, Zenon
<1> QED BY <1>1, <1>2

LEMMA Scoped ==
    ASSUME NEW f, NEW scope
    PROVE  /\ \A a : a \in SelectedApps(f, scope) <=>
                 /\ a \in Submitted(f) /\ InPlaces(Geo(a), scope)
                 /\ scope.provider = Blank \/ scope.provider = BankOf[a]
           /\ \A p : p \in SelectedFarmers(f, scope) <=>
                 /\ p \in Profiles /\ InPlaces(PlaceOf[p], scope)
                 /\ scope.provider = Blank \/ \E a \in Submitted(f) : ApplicantOf[a] = p /\ BankOf[a] = scope.provider
           /\ \A c : c \in SelectedConsents(scope) <=>
                 /\ c \in Consents /\ InPlaces(ConsentPlace(c), scope)
                 /\ scope.provider = Blank \/ scope.provider \in BanksOf(c)
<1>1. \A a : a \in SelectedApps(f, scope) <=>
         /\ a \in Submitted(f) /\ InPlaces(Geo(a), scope)
         /\ scope.provider = Blank \/ scope.provider = BankOf[a]
  BY Zenon DEF SelectedApps, Submitted, Blank
<1>2. \A p : p \in SelectedFarmers(f, scope) <=>
         /\ p \in Profiles /\ InPlaces(PlaceOf[p], scope)
         /\ scope.provider = Blank \/ \E a \in Submitted(f) : ApplicantOf[a] = p /\ BankOf[a] = scope.provider
  BY Zenon DEF SelectedFarmers, Submitted, Blank
<1>3. \A c : c \in SelectedConsents(scope) <=>
         /\ c \in Consents /\ InPlaces(ConsentPlace(c), scope)
         /\ scope.provider = Blank \/ scope.provider \in BanksOf(c)
  BY Zenon DEF SelectedConsents, BanksOf, Blank
<1> QED BY <1>1, <1>2, <1>3

LEMMA TypedMaps ==
    /\ \A a \in Apps : ApplicantOf[a] \in Profiles
    /\ \A use : \A consents : use \in Uses(consents) <=>
          /\ use \in (Banks \cup {Blank}) \X consents
          /\ use[1] = Blank \/ use[1] \in BanksOf(use[2])
<1>1. ApplicantOf \in [Apps -> Profiles]
  BY ChartsAssumption, Zenon
<1>2. \A use : \A consents : use \in Uses(consents) <=>
         /\ use \in (Banks \cup {Blank}) \X consents
         /\ use[1] = Blank \/ use[1] \in BanksOf(use[2])
  BY Zenon DEF Uses, Blank
<1> QED BY <1>1, <1>2

(* Some of the selected applications' rows.                                *)
LEMMA AppsCounted ==
    ASSUME NEW f, NEW scope \in Scopes,
           NEW R \in SUBSET Rows(Snapshot(f), "application", scope),
           NEW S \in SUBSET SelectedApps(f, scope),
           \A a \in SelectedApps(f, scope) : \A r \in Rows(Snapshot(f), "application", scope) :
              r.row = AppRow(f)[a] => (a \in S <=> r \in R)
    PROVE  Total(R) = Cardinality(S) /\ IsFiniteSet(S)
<1> DEFINE rows == Rows(Snapshot(f), "application", scope)
           selected == SelectedApps(f, scope)
<1>1. rows = {r \in Grouped(AppRow(f)) : PassedRow(r.row, scope)}
  BY SelectedRows
<1>2. selected \subseteq DOMAIN AppRow(f)
  BY Scoped DEF AppRow
<1>3. ASSUME NEW a \in DOMAIN AppRow(f) PROVE a \in selected <=> PassedRow(AppRow(f)[a], scope)
  <2>1. a \in Apps /\ a \in Submitted(f)
    BY DEF AppRow, Submitted
  <2>2. AppRow(f)[a].bank = BankOf[a] /\ AppRow(f)[a].place = Geo(a)
    BY DEF AppRow
  <2>3. BankOf[a] # Blank
    BY <2>1, NamedBanks
  <2> QED BY <2>1, <2>2, <2>3, Scoped DEF PassedRow
<1> HIDE DEF rows, selected
<1>4. ASSUME NEW a \in DOMAIN AppRow(f), NEW r \in Grouped(AppRow(f)), r.row = AppRow(f)[a]
      PROVE  a \in S <=> r \in R
  <2>1. a \in selected <=> r \in rows
    BY <1>1, <1>3, <1>4
  <2> QED BY <1>4, <2>1 DEF rows, selected
<1> QED BY <1>1, <1>2, <1>4, MembersFinite, Counts DEF rows, selected

LEMMA DeclinesCounted ==
    ASSUME NEW f, NEW scope \in Scopes,
           NEW R \in SUBSET Rows(Snapshot(f), "decline", scope),
           NEW S \in SUBSET AppsWith(f, scope, "Rejected"),
           \A a \in AppsWith(f, scope, "Rejected") : \A r \in Rows(Snapshot(f), "decline", scope) :
              r.row = DeclineRow(f)[a] => (a \in S <=> r \in R)
    PROVE  Total(R) = Cardinality(S) /\ IsFiniteSet(S)
<1> DEFINE rows == Rows(Snapshot(f), "decline", scope)
           selected == AppsWith(f, scope, "Rejected")
<1>1. rows = {r \in Grouped(DeclineRow(f)) : PassedRow(r.row, scope)}
  BY SelectedRows
<1>2. selected \subseteq DOMAIN DeclineRow(f)
  BY Scoped DEF AppsWith, DeclineRow, Declined, Submitted
<1>3. ASSUME NEW a \in DOMAIN DeclineRow(f) PROVE a \in selected <=> PassedRow(DeclineRow(f)[a], scope)
  <2>1. a \in Apps /\ f.app[a].status = "Rejected"
    BY DEF DeclineRow, Declined
  <2>2. DeclineRow(f)[a].bank = BankOf[a] /\ DeclineRow(f)[a].place = Geo(a)
    BY DEF DeclineRow
  <2>3. BankOf[a] # Blank
    BY <2>1, NamedBanks
  <2> QED BY <2>1, <2>2, <2>3, Scoped DEF Submitted, AppsWith, PassedRow
<1> HIDE DEF rows, selected
<1>4. ASSUME NEW a \in DOMAIN DeclineRow(f), NEW r \in Grouped(DeclineRow(f)), r.row = DeclineRow(f)[a]
      PROVE  a \in S <=> r \in R
  <2>1. a \in selected <=> r \in rows
    BY <1>1, <1>3, <1>4
  <2> QED BY <1>4, <2>1 DEF rows, selected
<1> QED BY <1>1, <1>2, <1>4, MembersFinite, Counts DEF rows, selected

(* A family whose members carry the bank they are counted under: the       *)
(* members selected are those tagged with the provider.                    *)
IsPair(m) == m = <<m[1], m[2]>>
Selects(rowOf, t, S, R) ==
    \A m \in DOMAIN rowOf : \A r \in Grouped(rowOf) : r.row = rowOf[m] => (m[1] = t /\ m[2] \in S <=> r \in R)

LEMMA TaggedCounts ==
    ASSUME NEW rowOf, IsFiniteSet(DOMAIN rowOf), NEW R \in SUBSET Grouped(rowOf),
           NEW t, NEW S, IsFiniteSet(S), {t} \X S \in SUBSET DOMAIN rowOf,
           \A m \in DOMAIN rowOf : IsPair(m),
           Selects(rowOf, t, S, R)
    PROVE  Total(R) = Cardinality(S)
<1>1. \A m \in DOMAIN rowOf : m \in {t} \X S <=> m[1] = t /\ m[2] \in S
  BY DEF IsPair
<1>2. Total(R) = Cardinality({t} \X S)
  <2> DEFINE tagged == {t} \X S
  <2>1. tagged \in SUBSET DOMAIN rowOf
    OBVIOUS
  <2>2. \A m \in DOMAIN rowOf : \A r \in Grouped(rowOf) : r.row = rowOf[m] => (m \in tagged <=> r \in R)
    BY <1>1 DEF Selects
  <2> HIDE DEF tagged
  <2>3. Total(R) = Cardinality(tagged)
    BY <2>1, <2>2, Counts
  <2> QED BY <2>3 DEF tagged
<1> QED BY <1>2, Tagged

LEMMA FarmersCounted ==
    ASSUME NEW f, NEW scope \in Scopes,
           NEW R \in SUBSET Rows(Snapshot(f), "farmer", scope),
           NEW S \in SUBSET SelectedFarmers(f, scope),
           \A p \in SelectedFarmers(f, scope) : \A r \in Rows(Snapshot(f), "farmer", scope) :
              r.row.place = PlaceOf[p] => (p \in S <=> r \in R)
    PROVE  Total(R) = Cardinality(S) /\ IsFiniteSet(S)
<1> DEFINE rows == Rows(Snapshot(f), "farmer", scope)
           selected == SelectedFarmers(f, scope)
           t == scope.provider
<1>1. rows = {r \in Grouped(FarmerRow(f)) : TaggedRow(r.row, scope)}
  BY SelectedRows
<1>2. DOMAIN FarmerRow(f) = FarmerMembers(f)
  BY DEF FarmerRow
<1>3. ASSUME NEW m \in FarmerMembers(f)
      PROVE  /\ m = <<m[1], m[2]>> /\ m[2] \in Profiles
             /\ m[1] = Blank \/ \E a \in Submitted(f) : m[1] = BankOf[a] /\ m[2] = ApplicantOf[a]
             /\ FarmerRow(f)[m].bank = m[1] /\ FarmerRow(f)[m].place = PlaceOf[m[2]]
  <2>0. FarmerRow(f)[m].bank = m[1] /\ FarmerRow(f)[m].place = PlaceOf[m[2]]
    BY DEF FarmerRow
  <2>1. CASE m \in {Blank} \X Profiles
    <3>1. m = <<m[1], m[2]>> /\ m[1] \in {Blank} /\ m[2] \in Profiles
      BY <2>1, Pairs
    <3> QED BY <2>0, <3>1
  <2>2. CASE m \in {<<BankOf[a], ApplicantOf[a]>> : a \in Submitted(f)}
    <3>1. PICK a \in Submitted(f) : m = <<BankOf[a], ApplicantOf[a]>>
      BY <2>2
    <3>2. ApplicantOf[a] \in Profiles
      BY TypedMaps DEF Submitted
    <3> QED BY <2>0, <3>1, <3>2
  <2> QED BY <2>1, <2>2 DEF FarmerMembers
<1>4. ASSUME NEW m \in FarmerMembers(f) PROVE m[1] = t /\ m[2] \in selected <=> TaggedRow(FarmerRow(f)[m], scope)
  <2>1. FarmerRow(f)[m].bank = m[1] /\ FarmerRow(f)[m].place = PlaceOf[m[2]] /\ m[2] \in Profiles
    BY <1>3
  <2>2. m[1] = t => t = Blank \/ \E a \in Submitted(f) : ApplicantOf[a] = m[2] /\ BankOf[a] = t
    BY <1>3
  <2> QED BY <2>1, <2>2, Scoped DEF TaggedRow
<1>5. {t} \X selected \subseteq FarmerMembers(f)
  <2> SUFFICES ASSUME NEW p \in selected PROVE <<t, p>> \in FarmerMembers(f)
    OBVIOUS
  <2>1. p \in Profiles
    BY Scoped
  <2>2. CASE t = Blank
    BY <2>1, <2>2 DEF FarmerMembers
  <2>3. CASE t # Blank
    <3>1. PICK a \in Submitted(f) : ApplicantOf[a] = p /\ BankOf[a] = t
      BY <2>3, Scoped
    <3> QED BY <3>1 DEF FarmerMembers
  <2> QED BY <2>2, <2>3
<1>6. IsFiniteSet(S)
  BY SelectedFinite, FS_Subset
<1> HIDE DEF rows, selected, t
<1>7. ASSUME NEW m \in FarmerMembers(f), NEW r \in Grouped(FarmerRow(f)), r.row = FarmerRow(f)[m]
      PROVE  m[1] = t /\ m[2] \in S <=> r \in R
  <2>1. m[1] = t /\ m[2] \in selected <=> r \in rows
    BY <1>1, <1>4, <1>7
  <2>2. r.row.place = PlaceOf[m[2]]
    BY <1>3, <1>7
  <2> QED BY <2>1, <2>2 DEF rows, selected
<1>8. R \in SUBSET Grouped(FarmerRow(f)) /\ {t} \X S \in SUBSET DOMAIN FarmerRow(f)
  BY <1>1, <1>2, <1>5 DEF rows, selected
<1>9. \A m \in DOMAIN FarmerRow(f) : IsPair(m)
  BY <1>2, <1>3 DEF IsPair
<1>10. Selects(FarmerRow(f), t, S, R)
  BY <1>2, <1>7 DEF Selects
<1>11. IsFiniteSet(DOMAIN FarmerRow(f))
  BY MembersFinite
<1>12. Total(R) = Cardinality(S)
  BY <1>6, <1>8, <1>9, <1>10, <1>11, TaggedCounts
<1> QED BY <1>6, <1>12

(* A family of consents, each counted under the empty bank and under every *)
(* bank that used it.                                                      *)
IsUseRow(rowOf, consents) ==
    /\ DOMAIN rowOf = Uses(consents)
    /\ \A m \in Uses(consents) : rowOf[m].bank = m[1] /\ rowOf[m].place = ConsentPlace(m[2])
SelectsUses(rowOf, consents, scope, S, R) ==
    /\ R \in SUBSET {r \in Grouped(rowOf) : TaggedRow(r.row, scope)}
    /\ S \in SUBSET (SelectedConsents(scope) \cap consents)
    /\ \A c \in SelectedConsents(scope) \cap consents : \A r \in Grouped(rowOf) :
          TaggedRow(r.row, scope) /\ r.row = rowOf[<<scope.provider, c>>] => (c \in S <=> r \in R)

LEMMA UsesCounted ==
    ASSUME NEW consents \in SUBSET Consents, NEW rowOf, IsUseRow(rowOf, consents), NEW scope \in Scopes,
           NEW R, NEW S, SelectsUses(rowOf, consents, scope, S, R)
    PROVE  Total(R) = Cardinality(S) /\ IsFiniteSet(S)
<1> DEFINE rows == {r \in Grouped(rowOf) : TaggedRow(r.row, scope)}
           selected == SelectedConsents(scope) \cap consents
           t == scope.provider
<1>0. /\ DOMAIN rowOf = Uses(consents)
      /\ \A m \in Uses(consents) : rowOf[m].bank = m[1] /\ rowOf[m].place = ConsentPlace(m[2])
      /\ R \in SUBSET rows /\ S \in SUBSET selected
      /\ \A c \in selected : \A r \in rows : r.row = rowOf[<<t, c>>] => (c \in S <=> r \in R)
  BY DEF IsUseRow, SelectsUses
<1>1. t \in Banks \cup {Blank}
  BY Zenon DEF Scopes, Blank
<1>2. ASSUME NEW m \in Uses(consents)
      PROVE  m = <<m[1], m[2]>> /\ m[2] \in consents /\ (m[1] = Blank \/ m[1] \in BanksOf(m[2]))
  <2>1. m \in (Banks \cup {Blank}) \X consents /\ (m[1] = Blank \/ m[1] \in BanksOf(m[2]))
    BY TypedMaps
  <2> QED BY <2>1, Pairs
<1>3. ASSUME NEW m \in Uses(consents) PROVE m[1] = t /\ m[2] \in selected <=> TaggedRow(rowOf[m], scope)
  <2>1. rowOf[m].bank = m[1] /\ rowOf[m].place = ConsentPlace(m[2]) /\ m[2] \in consents /\ m[2] \in Consents
    BY <1>0, <1>2
  <2>2. m[1] = t => t = Blank \/ t \in BanksOf(m[2])
    BY <1>2
  <2> QED BY <2>1, <2>2, Scoped DEF TaggedRow
<1>4. {t} \X selected \in SUBSET Uses(consents)
  <2> SUFFICES ASSUME NEW c \in selected PROVE <<t, c>> \in Uses(consents)
    OBVIOUS
  <2>1. c \in consents /\ (t = Blank \/ t \in BanksOf(c))
    BY Scoped
  <2> HIDE DEF t
  <2> QED BY <1>1, <2>1, TypedMaps
<1>5. IsFiniteSet(S)
  BY <1>0, SelectedFinite, FS_Subset
<1> HIDE DEF rows, selected, t
<1>6. ASSUME NEW m \in Uses(consents), NEW r \in Grouped(rowOf), r.row = rowOf[m]
      PROVE  m[1] = t /\ m[2] \in S <=> r \in R
  <2>1. m[1] = t /\ m[2] \in selected <=> r \in rows
    BY <1>3, <1>6 DEF rows
  <2>2. m[1] = t => m = <<t, m[2]>>
    BY <1>2
  <2> QED BY <1>0, <1>6, <2>1, <2>2
<1>7. Selects(rowOf, t, S, R)
  BY <1>0, <1>6 DEF Selects
<1>8. \A m \in DOMAIN rowOf : IsPair(m)
  BY <1>0, <1>2 DEF IsPair
<1>9. R \in SUBSET Grouped(rowOf) /\ {t} \X S \in SUBSET DOMAIN rowOf
  BY <1>0, <1>4 DEF rows
<1>10. IsFiniteSet(DOMAIN rowOf)
  BY <1>0, UsesFinite
<1>11. Total(R) = Cardinality(S)
  BY <1>5, <1>7, <1>8, <1>9, <1>10, TaggedCounts
<1> QED BY <1>5, <1>11

LEMMA ConsentsCounted ==
    ASSUME NEW f, NEW scope \in Scopes,
           NEW R \in SUBSET Rows(Snapshot(f), "consent", scope),
           NEW S \in SUBSET SelectedConsents(scope),
           \A c \in SelectedConsents(scope) : \A r \in Rows(Snapshot(f), "consent", scope) :
              r.row.outcome = ConsentOutcome(f.consent[c]) => (c \in S <=> r \in R)
    PROVE  Total(R) = Cardinality(S) /\ IsFiniteSet(S)
<1> DEFINE rowOf == ConsentRow(f)
<1>1. DOMAIN rowOf = Uses(Consents)
  BY DEF ConsentRow
<1>2. \A m \in Uses(Consents) : /\ rowOf[m].bank = m[1] /\ rowOf[m].place = ConsentPlace(m[2])
                                /\ rowOf[m].outcome = ConsentOutcome(f.consent[m[2]])
  BY DEF ConsentRow
<1>3. Rows(Snapshot(f), "consent", scope) = {r \in Grouped(rowOf) : TaggedRow(r.row, scope)}
  BY SelectedRows
<1>4. \A c \in SelectedConsents(scope) : c \in Consents /\ <<scope.provider, c>> \in Uses(Consents)
  <2> TAKE c \in SelectedConsents(scope)
  <2>1. c \in Consents /\ (scope.provider = Blank \/ scope.provider \in BanksOf(c))
    BY Scoped
  <2>2. scope.provider \in Banks \cup {Blank}
    BY Zenon DEF Scopes, Blank
  <2> QED BY <2>1, <2>2, TypedMaps
<1> HIDE DEF rowOf
<1>5. ASSUME NEW c \in SelectedConsents(scope), NEW r \in Grouped(rowOf), TaggedRow(r.row, scope),
             r.row = rowOf[<<scope.provider, c>>]
      PROVE  c \in S <=> r \in R
  <2>1. r.row.outcome = ConsentOutcome(f.consent[c])
    BY <1>2, <1>4, <1>5
  <2> QED BY <1>3, <1>5, <2>1
<1>6. IsUseRow(rowOf, Consents)
  BY <1>1, <1>2 DEF IsUseRow
<1>7. SelectsUses(rowOf, Consents, scope, S, R)
  BY <1>3, <1>4, <1>5 DEF SelectsUses
<1> QED BY <1>6, <1>7, UsesCounted

LEMMA SharesCounted ==
    ASSUME NEW f, NEW scope \in Scopes,
           NEW R \in SUBSET Rows(Snapshot(f), "share", scope),
           NEW S \in SUBSET (SelectedConsents(scope) \cap Shared(f)),
           \A c \in SelectedConsents(scope) \cap Shared(f) : \A r \in Rows(Snapshot(f), "share", scope) :
              r.row.outcome = ShareOutcome(f.consent[c]) /\ r.row.first = FirstBank(c) => (c \in S <=> r \in R)
    PROVE  Total(R) = Cardinality(S) /\ IsFiniteSet(S)
<1> DEFINE rowOf == ShareRow(f)
           consents == Shared(f)
<1>1. DOMAIN rowOf = Uses(consents) /\ consents \in SUBSET Consents
  BY DEF ShareRow, Shared
<1>2. \A m \in Uses(consents) : /\ rowOf[m].bank = m[1] /\ rowOf[m].place = ConsentPlace(m[2])
                                /\ rowOf[m].outcome = ShareOutcome(f.consent[m[2]])
                                /\ rowOf[m].first = FirstBank(m[2])
  BY DEF ShareRow
<1>3. Rows(Snapshot(f), "share", scope) = {r \in Grouped(rowOf) : TaggedRow(r.row, scope)}
  BY SelectedRows
<1>4. \A c \in SelectedConsents(scope) \cap consents : <<scope.provider, c>> \in Uses(consents)
  <2> TAKE c \in SelectedConsents(scope) \cap consents
  <2>1. scope.provider = Blank \/ scope.provider \in BanksOf(c)
    BY Scoped
  <2>2. scope.provider \in Banks \cup {Blank}
    BY Zenon DEF Scopes, Blank
  <2> HIDE DEF consents
  <2> QED BY <2>1, <2>2, TypedMaps
<1> HIDE DEF rowOf
<1>5. ASSUME NEW c \in SelectedConsents(scope) \cap consents, NEW r \in Grouped(rowOf), TaggedRow(r.row, scope),
             r.row = rowOf[<<scope.provider, c>>]
      PROVE  c \in S <=> r \in R
  <2>1. r.row.outcome = ShareOutcome(f.consent[c]) /\ r.row.first = FirstBank(c)
    BY <1>2, <1>4, <1>5
  <2> QED BY <1>3, <1>5, <2>1
<1>6. IsUseRow(rowOf, consents)
  BY <1>1, <1>2 DEF IsUseRow
<1>7. SelectsUses(rowOf, consents, scope, S, R)
  BY <1>3, <1>5 DEF SelectsUses
<1> HIDE DEF consents
<1> QED BY <1>1, <1>6, <1>7, UsesCounted

(* A share is in the dataset family at least once: some field was carried. *)
LEMMA DatasetsCounted ==
    ASSUME NEW f, NEW scope \in Scopes,
           NEW R \in SUBSET Rows(Snapshot(f), "dataset", scope),
           NEW S \in SUBSET (SelectedConsents(scope) \cap Shared(f)),
           \A c \in S : \A r \in Rows(Snapshot(f), "dataset", scope) :
              r.row.outcome = ShareOutcome(f.consent[c]) => r \in R
    PROVE  Total(R) \in Nat /\ Cardinality(S) <= Total(R)
<1> DEFINE rowOf == DatasetRow(f)
           counted == {m \in DOMAIN rowOf : \E r \in R : r.row = rowOf[m]}
           second == [m \in counted |-> m[2]]
<1>1. DOMAIN rowOf = DatasetMembers(f) /\ IsFiniteSet(DOMAIN rowOf)
  BY MembersFinite DEF DatasetRow
<1>2. Rows(Snapshot(f), "dataset", scope) = {r \in Grouped(rowOf) : TaggedRow(r.row, scope)}
  BY SelectedRows
<1>3. Total(R) = Cardinality(counted) /\ IsFiniteSet(counted)
  <2> HIDE DEF rowOf
  <2>1. R \in SUBSET Grouped(rowOf) /\ counted \in SUBSET DOMAIN rowOf
    BY <1>2
  <2>2. \A m \in DOMAIN rowOf : m \in counted <=> \E r \in R : r.row = rowOf[m]
    OBVIOUS
  <2> HIDE DEF counted
  <2> QED BY <1>1, <2>1, <2>2, RowsCount, FS_Subset
<1>4. ASSUME NEW c \in S PROVE \E m \in counted : second[m] = c
  <2>1. PICK d : d \in Carried(c)
    BY DEF Carried
  <2> DEFINE m == <<scope.provider, c, d>>
  <2>2. <<scope.provider, c>> \in Uses(Shared(f))
    <3>1. scope.provider = Blank \/ scope.provider \in BanksOf(c)
      BY Scoped
    <3>2. scope.provider \in Banks \cup {Blank}
      BY Zenon DEF Scopes, Blank
    <3>3. c \in Shared(f)
      OBVIOUS
    <3> QED BY <3>1, <3>2, <3>3, TypedMaps
  <2>3. m \in DatasetMembers(f)
    BY <2>1, <2>2 DEF DatasetMembers
  <2>4. /\ rowOf[m].bank = scope.provider /\ rowOf[m].place = ConsentPlace(c)
        /\ rowOf[m].outcome = ShareOutcome(f.consent[c])
    BY <2>3 DEF DatasetRow
  <2> HIDE DEF m, rowOf
  <2>5. PICK r \in Grouped(rowOf) : r.row = rowOf[m]
    BY <1>1, <2>3, GroupedRows
  <2>6. TaggedRow(r.row, scope)
    <3>1. c \in SelectedConsents(scope)
      OBVIOUS
    <3>2. InPlaces(ConsentPlace(c), scope)
      BY <3>1, Scoped
    <3> QED BY <2>4, <2>5, <3>2 DEF TaggedRow
  <2>7. r \in R
    BY <1>2, <2>4, <2>5, <2>6
  <2>8. m \in counted /\ m[2] = c
    BY <1>1, <2>3, <2>5, <2>7 DEF m
  <2> QED BY <2>8
<1> HIDE DEF rowOf, counted
<1>5. /\ IsFiniteSet({second[m] : m \in counted})
      /\ Cardinality({second[m] : m \in counted}) <= Cardinality(counted)
  <2> HIDE DEF second
  <2>1. second = [m \in counted |-> second[m]]
    BY DEF second
  <2> QED BY <1>3, <2>1, ImageOf
<1>6. S \subseteq {second[m] : m \in counted}
  BY <1>4
<1> HIDE DEF second
<1>7. Cardinality(S) <= Cardinality({second[m] : m \in counted})
  BY <1>5, <1>6, FS_Subset
<1>8. Cardinality(S) \in Nat /\ Cardinality({second[m] : m \in counted}) \in Nat /\ Cardinality(counted) \in Nat
  BY <1>3, <1>5, <1>6, FS_Subset, FS_CardinalityType
<1> QED BY <1>3, <1>5, <1>7, <1>8

(* The outcomes, status by status.                                         *)
Outcomes == {"APPROVED", "DECLINED", "CANCELLED", "PENDING", "IN_PROGRESS"}
Moving   == "In Transition"

LEMMA OutcomeOf ==
    ASSUME NEW loan \in App, loan.status # "Active"
    PROVE  /\ Outcome(loan) = "APPROVED" <=> loan.status = "Completed"
           /\ Outcome(loan) = "DECLINED" <=> loan.status = "Rejected"
           /\ Outcome(loan) \in {"PENDING", "IN_PROGRESS"} <=> loan.status = Moving
<1>1. loan.status \in {"In Transition", "Completed", "Rejected", "Cancelled"}
  BY Zenon DEF App
<1>2. loan.status = "Completed" => Outcome(loan) = "APPROVED"
  BY Zenon DEF Outcome
<1>3. loan.status = "Rejected" => Outcome(loan) = "DECLINED"
  BY Zenon DEF Outcome
<1>4. loan.status = "Cancelled" => Outcome(loan) = "CANCELLED"
  BY Zenon DEF Outcome
<1>5. loan.status = "In Transition" => Outcome(loan) \in {"PENDING", "IN_PROGRESS"}
  BY Zenon DEF Outcome
<1> QED BY <1>1, <1>2, <1>3, <1>4, <1>5, Zenon DEF Moving

LEMMA ConsentOutcomeOf ==
    \A consent : /\ ConsentOutcome(consent) = "APPROVED" <=> consent.status = "Approved"
                 /\ ShareOutcome(consent) = "FAILED" <=> consent.status = "Failed"
BY Zenon DEF ConsentOutcome, ShareOutcome

LEMMA FactsOf ==
    ASSUME NEW f \in Facts
    PROVE  \A a \in Apps : f.app[a] \in App
BY Zenon DEF Facts

LEMMA OutcomeRows ==
    ASSUME NEW f \in Facts, NEW scope \in Scopes, NEW outcome, NEW status,
           \A a \in Submitted(f) : Outcome(f.app[a]) = outcome <=> f.app[a].status = status
    PROVE  Total(OfOutcome(Rows(Snapshot(f), "application", scope), outcome)) = Cardinality(AppsWith(f, scope, status))
<1> DEFINE rows == Rows(Snapshot(f), "application", scope)
           R == OfOutcome(rows, outcome)
           S == AppsWith(f, scope, status)
<1>1. R \in SUBSET rows /\ S \in SUBSET SelectedApps(f, scope)
  BY DEF OfOutcome, AppsWith
<1>2. ASSUME NEW a \in SelectedApps(f, scope), NEW r \in rows, r.row = AppRow(f)[a] PROVE a \in S <=> r \in R
  <2>1. a \in Submitted(f)
    BY Scoped
  <2>2. r.row.outcome = Outcome(f.app[a])
    BY <1>2, <2>1 DEF AppRow
  <2> QED BY <2>1, <2>2 DEF OfOutcome, AppsWith
<1> HIDE DEF rows, R, S
<1>3. Total(R) = Cardinality(S)
  BY <1>1, <1>2, AppsCounted DEF rows
<1> QED BY <1>3 DEF rows, R, S

LEMMA UnderWay ==
    ASSUME NEW f \in Facts, NEW scope \in Scopes
    PROVE  Total(OfOutcome(Rows(Snapshot(f), "application", scope), "PENDING"))
           + Total(OfOutcome(Rows(Snapshot(f), "application", scope), "IN_PROGRESS"))
           = Cardinality(AppsWith(f, scope, Moving))
<1> DEFINE rows == Rows(Snapshot(f), "application", scope)
           S(outcome) == {a \in SelectedApps(f, scope) : Outcome(f.app[a]) = outcome}
<1>1. ASSUME NEW outcome
      PROVE  Total(OfOutcome(rows, outcome)) = Cardinality(S(outcome)) /\ IsFiniteSet(S(outcome))
  <2> DEFINE R == OfOutcome(rows, outcome)
  <2>1. R \in SUBSET rows /\ S(outcome) \in SUBSET SelectedApps(f, scope)
    BY DEF OfOutcome
  <2>2. ASSUME NEW a \in SelectedApps(f, scope), NEW r \in rows, r.row = AppRow(f)[a]
        PROVE  a \in S(outcome) <=> r \in R
    <3>1. r.row.outcome = Outcome(f.app[a])
      BY <2>2, Scoped DEF AppRow
    <3> QED BY <3>1 DEF OfOutcome
  <2> HIDE DEF R, rows, S
  <2> QED BY <2>1, <2>2, AppsCounted DEF rows, R
<1>2. S("PENDING") \cap S("IN_PROGRESS") = {}
  OBVIOUS
<1>3. S("PENDING") \cup S("IN_PROGRESS") = AppsWith(f, scope, Moving)
  <2>1. ASSUME NEW a \in SelectedApps(f, scope)
        PROVE  Outcome(f.app[a]) \in {"PENDING", "IN_PROGRESS"} <=> f.app[a].status = Moving
    <3>1. a \in Apps /\ f.app[a].status # "Active"
      BY Scoped DEF Submitted
    <3> QED BY <3>1, FactsOf, OutcomeOf
  <2> QED BY <2>1 DEF AppsWith
<1> HIDE DEF S
<1>4. Cardinality(S("PENDING") \cup S("IN_PROGRESS"))
      = Cardinality(S("PENDING")) + Cardinality(S("IN_PROGRESS")) - Cardinality({})
  BY <1>1, <1>2, FS_Union
<1>5. Cardinality(S("PENDING")) \in Nat /\ Cardinality(S("IN_PROGRESS")) \in Nat /\ Cardinality({}) = 0
  BY <1>1, FS_CardinalityType, FS_EmptySet
<1>6. /\ Total(OfOutcome(rows, "PENDING")) = Cardinality(S("PENDING"))
      /\ Total(OfOutcome(rows, "IN_PROGRESS")) = Cardinality(S("IN_PROGRESS"))
  BY <1>1
<1> HIDE DEF rows
<1>7. Total(OfOutcome(rows, "PENDING")) + Total(OfOutcome(rows, "IN_PROGRESS"))
      = Cardinality(S("PENDING") \cup S("IN_PROGRESS"))
  BY <1>4, <1>5, <1>6
<1> QED BY <1>3, <1>7 DEF rows

LEMMA KpisCount ==
    ASSUME NEW f \in Facts, NEW scope \in Scopes
    PROVE  KpisExact(f, Snapshot(f), scope)
<1> DEFINE s == Snapshot(f)
           kpis == Kpis(s, scope)
<1>1. kpis.applications = Cardinality(SelectedApps(f, scope))
  <2>1. Total(Rows(s, "application", scope)) = Cardinality(SelectedApps(f, scope))
    BY AppsCounted
  <2> QED BY <2>1 DEF Kpis
<1>2. kpis.approved = Cardinality(AppsWith(f, scope, "Completed"))
  <2>1. Total(OfOutcome(Rows(s, "application", scope), "APPROVED")) = Cardinality(AppsWith(f, scope, "Completed"))
    BY OutcomeRows, OutcomeOf, FactsOf DEF Submitted
  <2> QED BY <2>1 DEF Kpis
<1>3. kpis.declined = Cardinality(AppsWith(f, scope, "Rejected"))
  <2>1. Total(OfOutcome(Rows(s, "application", scope), "DECLINED")) = Cardinality(AppsWith(f, scope, "Rejected"))
    BY OutcomeRows, OutcomeOf, FactsOf DEF Submitted
  <2> QED BY <2>1 DEF Kpis
<1>4. kpis.pending + kpis.in_progress = Cardinality(AppsWith(f, scope, Moving))
  BY UnderWay DEF Kpis
<1>5. kpis.farmers = Cardinality(SelectedFarmers(f, scope))
  <2>1. Total(Rows(s, "farmer", scope)) = Cardinality(SelectedFarmers(f, scope))
    BY FarmersCounted
  <2> QED BY <2>1 DEF Kpis
<1>6. kpis.consents = Cardinality(SelectedConsents(scope))
  <2>1. Total(Rows(s, "consent", scope)) = Cardinality(SelectedConsents(scope))
    BY ConsentsCounted
  <2> QED BY <2>1 DEF Kpis
<1>7. kpis.consented = Cardinality(ConsentsIn(f, scope, {"Approved"}))
  <2> DEFINE R == OfOutcome(Rows(s, "consent", scope), "APPROVED")
             S == ConsentsIn(f, scope, {"Approved"})
  <2>1. R \in SUBSET Rows(s, "consent", scope) /\ S \in SUBSET SelectedConsents(scope)
    BY DEF OfOutcome, ConsentsIn
  <2>2. \A c \in SelectedConsents(scope) : \A r \in Rows(s, "consent", scope) :
           r.row.outcome = ConsentOutcome(f.consent[c]) => (c \in S <=> r \in R)
    BY ConsentOutcomeOf DEF OfOutcome, ConsentsIn
  <2> HIDE DEF R, S, s
  <2>3. Total(R) = Cardinality(S)
    BY <2>1, <2>2, ConsentsCounted DEF s
  <2> QED BY <2>3 DEF Kpis, R, S
<1>8. kpis.shares = Cardinality(ConsentsIn(f, scope, {"Approved", "Failed"}))
  <2>1. SelectedConsents(scope) \cap Shared(f) = ConsentsIn(f, scope, {"Approved", "Failed"})
    BY Scoped DEF Shared, ConsentsIn
  <2>2. Total(Rows(s, "share", scope)) = Cardinality(SelectedConsents(scope) \cap Shared(f))
    BY SharesCounted
  <2> QED BY <2>1, <2>2 DEF Kpis
<1>9. kpis.failed = Cardinality(ConsentsIn(f, scope, {"Failed"}))
  <2> DEFINE R == OfOutcome(Rows(s, "share", scope), "FAILED")
             S == ConsentsIn(f, scope, {"Failed"})
  <2>1. R \in SUBSET Rows(s, "share", scope) /\ S \in SUBSET (SelectedConsents(scope) \cap Shared(f))
    BY Scoped DEF OfOutcome, ConsentsIn, Shared
  <2>2. \A c \in SelectedConsents(scope) \cap Shared(f) : \A r \in Rows(s, "share", scope) :
           r.row.outcome = ShareOutcome(f.consent[c]) /\ r.row.first = FirstBank(c) => (c \in S <=> r \in R)
    BY ConsentOutcomeOf DEF OfOutcome, ConsentsIn
  <2> HIDE DEF R, S, s
  <2>3. Total(R) = Cardinality(S)
    BY <2>1, <2>2, SharesCounted DEF s
  <2> QED BY <2>3 DEF Kpis, R, S
<1> QED BY <1>1, <1>2, <1>3, <1>4, <1>5, <1>6, <1>7, <1>8, <1>9, Zenon DEF KpisExact, Moving

(***************************************************************************)
(* Charts that part the rows: they add up to the selection.                *)
(***************************************************************************)
LEMMA ByAddsUp ==
    ASSUME NEW rowOf, IsFiniteSet(DOMAIN rowOf), NEW R \in SUBSET Grouped(rowOf), NEW dims
    PROVE  SumOf(By(R, dims)) = Total(R)
<1> DEFINE valueOf == [r \in R |-> [d \in dims |-> r.row[d]]]
           D == {valueOf[r] : r \in R}
           chart == [g \in D |-> Total({r \in R : valueOf[r] = g})]
<1>1. By(R, dims) = chart
  BY DEF By
<1>2. IsFiniteSet(D)
  <2>1. IsFiniteSet(R)
    BY GroupedRows, FS_Subset
  <2> HIDE DEF valueOf
  <2>2. valueOf = [r \in R |-> valueOf[r]]
    BY DEF valueOf
  <2> QED BY <2>1, <2>2, ImageOf
<1>3. {r \in R : valueOf[r] \in D} = R
  OBVIOUS
<1> HIDE DEF valueOf, D
<1>4. SumOf(chart) = Total({r \in R : valueOf[r] \in D})
  <2>1. R \in SUBSET Grouped(rowOf) /\ IsFiniteSet(DOMAIN rowOf)
    OBVIOUS
  <2>2. IsParting(chart, R, D, valueOf)
    BY DEF IsParting
  <2> HIDE DEF chart
  <2> QED BY <1>2, <2>1, <2>2, Parted
<1> QED BY <1>1, <1>3, <1>4

(* The rows of every family are such rows.                                 *)
LEMMA RowsOf ==
    ASSUME NEW f, NEW scope
    PROVE  /\ Rows(Snapshot(f), "application", scope) \in SUBSET Grouped(AppRow(f))
           /\ Rows(Snapshot(f), "decline", scope) \in SUBSET Grouped(DeclineRow(f))
           /\ Rows(Snapshot(f), "farmer", scope) \in SUBSET Grouped(FarmerRow(f))
           /\ Rows(Snapshot(f), "consent", scope) \in SUBSET Grouped(ConsentRow(f))
           /\ Rows(Snapshot(f), "share", scope) \in SUBSET Grouped(ShareRow(f))
           /\ Rows(Snapshot(f), "dataset", scope) \in SUBSET Grouped(DatasetRow(f))
BY SelectedRows

LEMMA SumsCount ==
    ASSUME NEW f \in Facts, NEW scope \in Scopes
    PROVE  SumsExact(f, Snapshot(f), scope)
<1> DEFINE s == Snapshot(f)
           kpis == Kpis(s, scope)
<1>1. KpisExact(f, s, scope)
  BY KpisCount
<1>2. ASSUME NEW dims PROVE SumOf(By(Rows(s, "application", scope), dims)) = Cardinality(SelectedApps(f, scope))
  <2>1. SumOf(By(Rows(s, "application", scope), dims)) = Total(Rows(s, "application", scope))
    BY RowsOf, MembersFinite, ByAddsUp
  <2>2. Total(Rows(s, "application", scope)) = Cardinality(SelectedApps(f, scope))
    BY AppsCounted
  <2> QED BY <2>1, <2>2
<1>3. SumOf(ConsentStatus(s, scope)) = Cardinality(SelectedConsents(scope))
  <2>1. SumOf(ConsentStatus(s, scope)) = Total(Rows(s, "consent", scope))
    BY RowsOf, MembersFinite, ByAddsUp DEF ConsentStatus
  <2>2. Total(Rows(s, "consent", scope)) = Cardinality(SelectedConsents(scope))
    BY ConsentsCounted
  <2> QED BY <2>1, <2>2
<1>4. SumOf(DeclineReasons(s, scope)) = Cardinality(AppsWith(f, scope, "Rejected"))
  <2> DEFINE R == Rows(s, "decline", scope)
             valueOf == [r \in R |-> Published(s, scope, r.row.reason)]
             D == {valueOf[r] : r \in R}
             chart == [p \in D |-> Total({r \in R : valueOf[r] = p})]
  <2>1. DeclineReasons(s, scope) = chart
    BY DEF DeclineReasons
  <2>2. R \in SUBSET Grouped(DeclineRow(f)) /\ IsFiniteSet(DOMAIN DeclineRow(f))
    BY RowsOf, MembersFinite
  <2>3. IsFiniteSet(D)
    <3>1. IsFiniteSet(R)
      BY <2>2, GroupedRows, FS_Subset
    <3> HIDE DEF valueOf, R
    <3>2. valueOf = [r \in R |-> valueOf[r]]
      BY DEF valueOf
    <3> QED BY <3>1, <3>2, ImageOf
  <2>4. {r \in R : valueOf[r] \in D} = R
    OBVIOUS
  <2>5. Total(R) = Cardinality(AppsWith(f, scope, "Rejected"))
    BY DeclinesCounted
  <2> HIDE DEF valueOf, D, R
  <2>6. IsParting(chart, R, D, valueOf)
    BY DEF IsParting
  <2> HIDE DEF chart
  <2>7. SumOf(chart) = Total({r \in R : valueOf[r] \in D})
    BY <2>2, <2>3, <2>6, Parted
  <2> QED BY <2>1, <2>4, <2>5, <2>7
<1>5. SumOf(LoansByPlace(s, scope)) <= kpis.approved
  <2> DEFINE R == OfOutcome(Rows(s, "application", scope), "APPROVED")
             valueOf == [r \in R |-> r.row.place]
             D == {r.row.place : r \in Rows(s, "farmer", scope) \cup Rows(s, "application", scope)} \ {Blank}
             chart == [p \in D |-> Total({r \in R : valueOf[r] = p})]
             placed == {r \in R : valueOf[r] \in D}
             S(rows) == {a \in DOMAIN AppRow(f) : \E r \in rows : r.row = AppRow(f)[a]}
  <2>1. LoansByPlace(s, scope) = chart
    <3>1. LoansByPlace(s, scope) = [p \in D |-> Total({r \in R : r.row.place = p})]
      BY Zenon DEF LoansByPlace, Blank
    <3>2. \A p : {r \in R : r.row.place = p} = {r \in R : valueOf[r] = p}
      OBVIOUS
    <3> QED BY <3>1, <3>2
  <2>2. R \in SUBSET Grouped(AppRow(f)) /\ IsFiniteSet(DOMAIN AppRow(f))
    BY RowsOf, MembersFinite DEF OfOutcome
  <2>3. IsFiniteSet(D)
    <3> DEFINE all == Rows(s, "farmer", scope) \cup Rows(s, "application", scope)
               placeOf == [r \in all |-> r.row.place]
    <3>1. IsFiniteSet(Rows(s, "farmer", scope)) /\ IsFiniteSet(Rows(s, "application", scope))
      BY RowsOf, MembersFinite, GroupedRows, FS_Subset
    <3>2. IsFiniteSet(all)
      BY <3>1, FS_Union
    <3> HIDE DEF all
    <3>3. IsFiniteSet({placeOf[r] : r \in all})
      BY <3>2, ImageOf
    <3>4. D \subseteq {placeOf[r] : r \in all}
      BY DEF all
    <3> QED BY <3>3, <3>4, FS_Subset
  <2> HIDE DEF valueOf, D, R
  <2>4. SumOf(chart) = Total(placed)
    <3>1. IsParting(chart, R, D, valueOf)
      BY DEF IsParting
    <3> HIDE DEF chart
    <3> QED BY <2>2, <2>3, <3>1, Parted
  <2>5. \A rows \in SUBSET R : Total(rows) = Cardinality(S(rows))
    BY <2>2, RowsCount
  <2>6. S(placed) \subseteq S(R) /\ IsFiniteSet(S(R))
    BY <2>2, FS_Subset
  <2> HIDE DEF placed, S
  <2>7. Total(placed) = Cardinality(S(placed)) /\ Total(R) = Cardinality(S(R))
    BY <2>5 DEF placed
  <2>8. Cardinality(S(placed)) <= Cardinality(S(R))
    BY <2>6, FS_Subset
  <2>9. kpis.approved = Total(R)
    BY DEF Kpis, R
  <2> QED BY <2>1, <2>4, <2>7, <2>8, <2>9
<1>6. SumOf(DataShares(s, scope)) >= kpis.shares
  <2> DEFINE R == Rows(s, "dataset", scope)
             S == SelectedConsents(scope) \cap Shared(f)
  <2>1. SumOf(DataShares(s, scope)) = Total(R)
    BY RowsOf, MembersFinite, ByAddsUp DEF DataShares
  <2>2. Total(R) \in Nat /\ Cardinality(S) <= Total(R)
    BY DatasetsCounted
  <2>3. S = ConsentsIn(f, scope, {"Approved", "Failed"})
    BY Scoped DEF Shared, ConsentsIn
  <2>4. IsFiniteSet(S)
    BY SelectedFinite, FS_Subset
  <2> HIDE DEF S, R
  <2>5. kpis.shares = Cardinality(S) /\ Cardinality(S) \in Nat
    BY <1>1, <2>3, <2>4, FS_CardinalityType DEF KpisExact
  <2> QED BY <2>1, <2>2, <2>5
<1>7. SumOf(DataShareFaults(s, scope)) >= kpis.failed
  <2> DEFINE R == OfOutcome(Rows(s, "dataset", scope), "FAILED")
             S == ConsentsIn(f, scope, {"Failed"})
  <2>1. R \in SUBSET Rows(s, "dataset", scope) /\ S \in SUBSET (SelectedConsents(scope) \cap Shared(f))
    BY Scoped DEF OfOutcome, ConsentsIn, Shared
  <2>2. \A c \in S : \A r \in Rows(s, "dataset", scope) : r.row.outcome = ShareOutcome(f.consent[c]) => r \in R
    BY ConsentOutcomeOf DEF OfOutcome, ConsentsIn
  <2>3. IsFiniteSet(S)
    BY SelectedFinite, FS_Subset DEF ConsentsIn
  <2>4. SumOf(DataShareFaults(s, scope)) = SumOf(By(R, {"first", "dataset"}))
    BY DEF DataShareFaults
  <2> HIDE DEF S, R
  <2>5. SumOf(By(R, {"first", "dataset"})) = Total(R)
    BY <2>1, RowsOf, MembersFinite, ByAddsUp
  <2>6. Total(R) \in Nat /\ Cardinality(S) <= Total(R)
    BY <2>1, <2>2, DatasetsCounted
  <2>7. kpis.failed = Cardinality(S) /\ Cardinality(S) \in Nat
    BY <1>1, <2>3, FS_CardinalityType DEF KpisExact, S
  <2> QED BY <2>4, <2>5, <2>6, <2>7
<1>8. \A chart \in {ApplicationStatus(s, scope), LoanProducts(s, scope), LoanTrend(s, scope)} :
         SumOf(chart) = Cardinality(SelectedApps(f, scope))
  BY <1>2 DEF ApplicationStatus, LoanProducts, LoanTrend
<1> QED BY <1>3, <1>4, <1>5, <1>6, <1>7, <1>8 DEF SumsExact

LEMMA PlacesCount ==
    ASSUME NEW f \in Facts, NEW scope \in Scopes
    PROVE  PlacesExact(f, Snapshot(f), scope)
<1> SUFFICES ASSUME NEW p \in Places
             PROVE  LocationFigures(Snapshot(f), scope, p).applications
                    = Cardinality({a \in SelectedApps(f, scope) : Geo(a) = p})
  BY DEF PlacesExact
<1> DEFINE rows == Rows(Snapshot(f), "application", scope)
           R == {r \in rows : r.row.place = p}
           S == {a \in SelectedApps(f, scope) : Geo(a) = p}
<1>1. R \in SUBSET rows /\ S \in SUBSET SelectedApps(f, scope)
  OBVIOUS
<1>2. ASSUME NEW a \in SelectedApps(f, scope), NEW r \in rows, r.row = AppRow(f)[a] PROVE a \in S <=> r \in R
  <2>1. r.row.place = Geo(a)
    BY <1>2, Scoped DEF AppRow
  <2> QED BY <2>1
<1>3. LocationFigures(Snapshot(f), scope, p).applications = Total(R)
  BY DEF LocationFigures
<1> HIDE DEF rows, R, S
<1>4. Total(R) = Cardinality(S)
  BY <1>1, <1>2, AppsCounted DEF rows
<1> QED BY <1>3, <1>4 DEF S

(* A consent that any bank used has a first one.                           *)
LEMMA FirstBanks == \A c \in Consents : FirstBank(c) \in Banks <=> BanksOf(c) # {}
<1> TAKE c \in Consents
<1>1. CASE BanksOf(c) = {}
  <2>1. FirstBank(c) = Blank
    BY <1>1, Zenon DEF FirstBank, Blank
  <2> QED BY <1>1, <2>1, NamedBanks
<1>2. CASE BanksOf(c) # {}
  <2> DEFINE users == {a \in Apps : ConsentOf[a] = c}
             times == {First[a] : a \in users}
             isFirst(a) == ConsentOf[a] = c /\ \A b \in Apps : ConsentOf[b] = c => First[a] <= First[b]
  <2>1. users # {}
    BY <1>2 DEF BanksOf
  <2>2. times \in SUBSET Nat /\ times # {}
    <3>1. \A a \in Apps : First[a] \in Nat
      <4>1. First \in [Apps -> Nat]
        BY ChartsAssumption, Zenon
      <4> QED BY <4>1
    <3> QED BY <2>1, <3>1
  <2> HIDE DEF times
  <2>3. PICK n \in times : \A m \in times : n <= m
    BY <2>2, Least
  <2>4. \E a \in Apps : isFirst(a)
    <3>1. PICK a \in users : n = First[a]
      BY DEF times
    <3> QED BY <2>3, <3>1 DEF times
  <2> HIDE DEF isFirst, users
  <2>5. (CHOOSE a \in Apps : isFirst(a)) \in Apps
    BY <2>4
  <2>6. FirstBank(c) = BankOf[CHOOSE a \in Apps : isFirst(a)]
    BY <1>2, Zenon DEF FirstBank, isFirst
  <2> QED BY <1>2, <2>5, <2>6, NamedBanks
<1> QED BY <1>1, <1>2

LEMMA ProvidersCount ==
    ASSUME NEW f \in Facts, NEW scope \in Scopes
    PROVE  ProvidersExact(f, Snapshot(f), scope)
<1> DEFINE s == Snapshot(f)
<1>1. ASSUME scope.provider = Blank, NEW b \in Banks
      PROVE  ProviderFigures(s, scope, b).applications = Cardinality({a \in SelectedApps(f, scope) : BankOf[a] = b})
  <2> DEFINE own == [scope EXCEPT !.provider = b]
  <2>1. own \in Scopes /\ own.provider = b /\ own.places = scope.places
    <3>1. Scopes = [provider : Banks \cup {Blank}, places : SUBSET Places]
      BY Zenon DEF Scopes, Blank
    <3> QED BY <3>1
  <2>2. ProviderFigures(s, scope, b).applications = Total(Rows(s, "application", own))
    BY DEF ProviderFigures
  <2> HIDE DEF own
  <2>3. Total(Rows(s, "application", own)) = Cardinality(SelectedApps(f, own))
    BY <2>1, AppsCounted
  <2>4. \A a : a \in SelectedApps(f, own) <=> a \in SelectedApps(f, scope) /\ BankOf[a] = b
    <3>1. \A place : InPlaces(place, own) <=> InPlaces(place, scope)
      BY <2>1 DEF InPlaces
    <3>2. b # Blank
      BY NamedBanks
    <3> QED BY <1>1, <2>1, <3>1, <3>2, Scoped
  <2>5. SelectedApps(f, own) = {a \in SelectedApps(f, scope) : BankOf[a] = b}
    BY <2>4
  <2> QED BY <2>2, <2>3, <2>5
<1>2. SumOf([b \in Banks |-> ProviderFigures(s, scope, b).faults])
      = Cardinality({c \in ConsentsIn(f, scope, {"Failed"}) : BanksOf(c) # {}})
  <2> DEFINE rows == Rows(s, "share", scope)
             R == OfOutcome(rows, "FAILED")
             valueOf == [r \in R |-> r.row.first]
             chart == [b \in Banks |-> Total({r \in R : valueOf[r] = b})]
             used == {r \in R : valueOf[r] \in Banks}
             S == {c \in ConsentsIn(f, scope, {"Failed"}) : BanksOf(c) # {}}
  <2>1. [b \in Banks |-> ProviderFigures(s, scope, b).faults] = chart
    <3>1. \A b : {r \in R : r.row.first = b} = {r \in R : valueOf[r] = b}
      OBVIOUS
    <3>2. \A b \in Banks : ProviderFigures(s, scope, b).faults = Total({r \in R : r.row.first = b})
      BY DEF ProviderFigures
    <3> QED BY <3>1, <3>2
  <2>2. R \in SUBSET Grouped(ShareRow(f)) /\ IsFiniteSet(DOMAIN ShareRow(f)) /\ IsFiniteSet(Banks)
    <3>1. R \in SUBSET Grouped(ShareRow(f))
      BY RowsOf DEF OfOutcome
    <3>2. IsFiniteSet(Banks)
      BY ChartsAssumption, Zenon
    <3> QED BY <3>1, <3>2, MembersFinite
  <2>3. used \in SUBSET rows /\ S \in SUBSET (SelectedConsents(scope) \cap Shared(f))
    BY Scoped DEF OfOutcome, ConsentsIn, Shared
  <2>4. ASSUME NEW c \in SelectedConsents(scope) \cap Shared(f), NEW r \in rows,
               r.row.outcome = ShareOutcome(f.consent[c]), r.row.first = FirstBank(c)
        PROVE  c \in S <=> r \in used
    <3>1. FirstBank(c) \in Banks <=> BanksOf(c) # {}
      BY FirstBanks DEF Shared
    <3>2. r.row.outcome = "FAILED" <=> f.consent[c].status = "Failed"
      BY <2>4, ConsentOutcomeOf
    <3> QED BY <2>4, <3>1, <3>2 DEF OfOutcome, ConsentsIn
  <2> HIDE DEF rows, R, valueOf, S, s
  <2>5. IsParting(chart, R, Banks, valueOf)
    BY DEF IsParting
  <2> HIDE DEF chart
  <2>6. SumOf(chart) = Total(used)
    BY <2>2, <2>5, Parted
  <2> HIDE DEF used
  <2>7. Total(used) = Cardinality(S)
    BY <2>3, <2>4, SharesCounted DEF rows, s
  <2> QED BY <2>1, <2>6, <2>7 DEF S
<1> QED BY <1>1, <1>2, Zenon DEF ProvidersExact, Blank

(* "Any filter combination stays exact", for any facts at all.             *)
THEOREM RowsKeepFigures == \A f \in Facts : AllExact(f)
<1> TAKE f \in Facts
<1>1. \A scope \in Scopes : /\ KpisExact(f, Snapshot(f), scope) /\ SumsExact(f, Snapshot(f), scope)
                            /\ PlacesExact(f, Snapshot(f), scope) /\ ProvidersExact(f, Snapshot(f), scope)
  BY KpisCount, SumsCount, PlacesCount, ProvidersCount
<1> QED BY <1>1 DEF AllExact

ReasonsHeld(f) ==
    \A scope \in Scopes : \A reason \in DOMAIN DeclineReasons(Snapshot(f), scope) \ {"", "Other"} :
       MinReason <= Cardinality({a \in AppsWith(f, scope, "Rejected") : f.app[a].reason = reason})

LEMMA ReasonsCount == \A f \in Facts : ReasonsHeld(f)
<1> TAKE f \in Facts
<1> SUFFICES ASSUME NEW scope \in Scopes, NEW reason \in DOMAIN DeclineReasons(Snapshot(f), scope),
                    reason # Blank, reason # "Other"
             PROVE  MinReason <= Cardinality({a \in AppsWith(f, scope, "Rejected") : f.app[a].reason = reason})
  BY Zenon DEF ReasonsHeld, Blank
<1> DEFINE s == Snapshot(f)
           rows == Rows(s, "decline", scope)
           R == {r \in rows : r.row.reason = reason}
           S == {a \in AppsWith(f, scope, "Rejected") : f.app[a].reason = reason}
<1>1. PICK q \in rows : Published(s, scope, q.row.reason) = reason
  BY DEF DeclineReasons
<1>2. q.row.reason = reason /\ (reason = Blank \/ Total(R) >= MinReason)
  <2>1. \/ Published(s, scope, q.row.reason) = "Other"
        \/ /\ Published(s, scope, q.row.reason) = q.row.reason
           /\ \/ q.row.reason = Blank
              \/ Total({r \in rows : r.row.reason = q.row.reason}) >= MinReason
    BY Zenon DEF Published, Blank
  <2> QED BY <1>1, <2>1
<1>3. R \in SUBSET rows /\ S \in SUBSET AppsWith(f, scope, "Rejected")
  OBVIOUS
<1>4. ASSUME NEW a \in AppsWith(f, scope, "Rejected"), NEW r \in rows, r.row = DeclineRow(f)[a]
      PROVE  a \in S <=> r \in R
  <2>1. r.row.reason = f.app[a].reason
    BY <1>4, Scoped DEF DeclineRow, Declined, AppsWith, Submitted
  <2> QED BY <2>1
<1> HIDE DEF rows, R, S, s
<1>5. Total(R) = Cardinality(S) /\ IsFiniteSet(S)
  BY <1>3, <1>4, DeclinesCounted DEF rows, s
<1>6. Cardinality(S) \in Nat /\ MinReason \in Nat
  <2>1. MinReason \in Nat
    BY ChartsAssumption, Zenon
  <2> QED BY <1>5, <2>1, FS_CardinalityType
<1> QED BY <1>2, <1>5, <1>6 DEF S

(***************************************************************************)
(* The refresh.                                                            *)
(***************************************************************************)
View == [facts : Facts \cup {None}, day : Nat, time : Nat, overtaken : BOOLEAN]
Refreshing == {"read", "wrote", "released", "failed"}

(* What is shown, written or about to be written was read from the tables. *)
RowsRead ==
    /\ facts \in Facts
    /\ pc \in [Workers -> {"idle", "begun"} \cup Refreshing]
    /\ view \in [Workers -> View]
    /\ snap \in [Days -> [facts : Facts \cup {None}, time : Nat]]
    /\ moves \in Nat /\ today \in Nat /\ asOf \in Nat
    /\ \A w \in Workers : pc[w] \in Refreshing => view[w].facts \in Facts
    /\ \A d \in Days : snap[d] # NoRows => snap[d].facts \in Facts

Writing == {"wrote", "released"}

(* Where the times stand: nobody who may still commit read before the last *)
(* commit.                                                                 *)
TimesOrdered ==
    /\ asOf <= moves
    /\ \A d \in Days : snap[d].time <= asOf
    /\ \A w \in Workers : view[w].time <= moves
    /\ \A w \in Workers : pc[w] \in Writing \/ (pc[w] = "read" /\ ~view[w].overtaken) => asOf <= view[w].time
    /\ \A v, w \in Workers : pc[v] \in Writing /\ pc[w] \in Writing => v = w

AppStatuses     == {"Active", "In Transition", "Completed", "Rejected", "Cancelled"}
ConsentStatuses == {"Pending OTP", "Approved", "Rejected", "Revoked", "Failed"}

LEMMA Recorded ==
    /\ App = [status : AppStatuses, entry : BOOLEAN, reason : Reasons \cup {Blank}]
    /\ Consent = [status : ConsentStatuses, delivered : BOOLEAN]
    /\ "In Transition" \in AppStatuses /\ "Completed" \in AppStatuses /\ "Rejected" \in AppStatuses
    /\ "Failed" \in ConsentStatuses
BY Zenon DEF App, Consent, AppStatuses, ConsentStatuses, Blank

LEMMA AppChanged ==
    ASSUME NEW loan \in App, NEW status \in AppStatuses, NEW reason \in Reasons
    PROVE  /\ [loan EXCEPT !.status = status] \in App
           /\ [loan EXCEPT !.entry = ~loan.entry] \in App
           /\ [loan EXCEPT !.status = status, !.reason = reason] \in App
<1>1. App = [status : AppStatuses, entry : BOOLEAN, reason : Reasons \cup {Blank}]
  BY Recorded, Zenon
<1>2. [loan EXCEPT !.status = status] \in App
  BY <1>1
<1>3. [loan EXCEPT !.status = status, !.reason = reason] \in App
  BY <1>1
<1>4. ASSUME NEW e \in BOOLEAN PROVE [loan EXCEPT !.entry = e] \in App
  BY <1>1
<1>5. (~loan.entry) \in BOOLEAN
  BY Zenon
<1> QED BY <1>2, <1>3, <1>4, <1>5

LEMMA MoveKeepsFacts ==
    ASSUME facts \in Facts, Move
    PROVE  facts' \in Facts
<1>1. ASSUME NEW a \in Apps, MoveApplication(a) PROVE facts' \in Facts
  <2>1. facts.app[a] \in App
    BY FactsOf
  <2>2. \E new \in App : facts' = [facts EXCEPT !.app[a] = new]
    <3> DEFINE loan == facts.app[a]
    <3>1. [loan EXCEPT !.status = "In Transition"] \in App
      BY <2>1, AppChanged, Recorded, Zenon
    <3>2. [loan EXCEPT !.status = "Completed"] \in App
      BY <2>1, AppChanged, Recorded, Zenon
    <3>3. [loan EXCEPT !.entry = ~loan.entry] \in App
      BY <2>1, AppChanged, Recorded, Zenon
    <3>4. \A reason \in Reasons : [loan EXCEPT !.status = "Rejected", !.reason = reason] \in App
      BY <2>1, AppChanged, Recorded, Zenon
    <3> QED BY <1>1, <3>1, <3>2, <3>3, <3>4, Zenon DEF MoveApplication
  <2>3. PICK new \in App : facts' = [facts EXCEPT !.app[a] = new]
    BY <2>2
  <2> QED BY <2>3 DEF Facts
<1>2. ASSUME NEW c \in Consents, MoveConsent(c) PROVE facts' \in Facts
  <2>1. PICK new \in Consent : facts' = [facts EXCEPT !.consent[c] = new]
    BY <1>2, Zenon DEF MoveConsent
  <2> QED BY <2>1 DEF Facts
<1> QED BY <1>1, <1>2, Zenon DEF Move

LEMMA RowsReadInit == RollupInit => RowsRead /\ TimesOrdered
<1> SUFFICES ASSUME RollupInit PROVE RowsRead /\ TimesOrdered
  OBVIOUS
<1>1. facts \in Facts
  BY RollupAssumption DEF RollupInit
<1>2. RowsRead
  BY <1>1 DEF RollupInit, RowsRead, View, NoView, NoRows, Refreshing
<1>3. TimesOrdered
  BY DEF RollupInit, TimesOrdered, NoView, NoRows, Writing
<1> QED BY <1>2, <1>3

LEMMA RowsReadStep == RowsRead /\ [RollupNext]_rollupVars => RowsRead'
<1> SUFFICES ASSUME RowsRead, [RollupNext]_rollupVars PROVE RowsRead'
  OBVIOUS
<1>1. CASE Move
  <2>1. facts' \in Facts
    BY <1>1, MoveKeepsFacts DEF RowsRead
  <2>2. moves' \in Nat /\ UNCHANGED refreshVars
    BY <1>1 DEF Move, RowsRead
  <2> QED BY <2>1, <2>2 DEF RowsRead, refreshVars
<1>2. CASE Midnight
  BY <1>2 DEF Midnight, RowsRead
<1>3. CASE ExpireLock
  BY <1>3 DEF ExpireLock, RowsRead
<1>4. ASSUME NEW w \in Workers, Begin(w) PROVE RowsRead'
  BY <1>4 DEF Begin, Goto, RowsRead, View, NoView, Refreshing
<1>5. ASSUME NEW w \in Workers, Read(w) PROVE RowsRead'
  <2> DEFINE seen == [view[w] EXCEPT !.facts = facts, !.time = moves, !.overtaken = FALSE]
  <2>1. view[w] \in View /\ facts \in Facts /\ moves \in Nat
    BY DEF RowsRead
  <2>2. seen \in View /\ seen.facts \in Facts
    BY <2>1 DEF View
  <2>3. view' = [view EXCEPT ![w] = seen]
    BY <1>5, <2>1 DEF Read
  <2>4. pc' = [pc EXCEPT ![w] = "read"] /\ UNCHANGED <<facts, moves, today, lock, snap, asOf, deaths>>
    BY <1>5 DEF Read, Goto
  <2> HIDE DEF seen
  <2> QED BY <2>2, <2>3, <2>4 DEF RowsRead, Refreshing
<1>6. ASSUME NEW w \in Workers, WriteRows(w) PROVE RowsRead'
  BY <1>6 DEF WriteRows, Goto, RowsRead, Refreshing
<1>7. ASSUME NEW w \in Workers, Release(w) PROVE RowsRead'
  <2>1. NoView \in View
    BY DEF NoView, View
  <2>2. CASE pc[w] = "wrote"
    BY <1>7, <2>2 DEF Release, Goto, RowsRead, Refreshing
  <2>3. CASE pc[w] = "failed"
    BY <1>7, <2>1, <2>3 DEF Release, Goto, RowsRead, Refreshing
  <2> QED BY <1>7, <2>2, <2>3 DEF Release
<1>8. ASSUME NEW w \in Workers, CommitRows(w) PROVE RowsRead'
  <2> DEFINE v == view[w]
             Later(u) == [view[u] EXCEPT !.overtaken = (pc[u] = "read")]
  <2>1. v \in View /\ v.facts \in Facts /\ v.time \in Nat
    BY <1>8 DEF CommitRows, RowsRead, View, Refreshing
  <2>2. [facts |-> v.facts, time |-> v.time].facts = v.facts
    OBVIOUS
  <2>3. ASSUME NEW u \in Workers PROVE Later(u) \in View /\ Later(u).facts = view[u].facts
    <3>1. view[u] \in View
      BY DEF RowsRead
    <3>2. (pc[u] = "read") \in BOOLEAN
      BY Zenon
    <3> QED BY <3>1, <3>2 DEF View
  <2>4. view' = [u \in Workers |-> IF u = w THEN NoView ELSE Later(u)]
    BY <1>8 DEF CommitRows
  <2>5. /\ snap' = [snap EXCEPT ![v.day] = [facts |-> v.facts, time |-> v.time]] /\ asOf' = v.time
        /\ pc' = [pc EXCEPT ![w] = "idle"] /\ UNCHANGED <<facts, moves, today, lock, deaths>>
    BY <1>8 DEF CommitRows, Goto
  <2>6. NoView \in View
    BY DEF NoView, View
  <2>7. view' \in [Workers -> View] /\ \A u \in Workers : u # w => view'[u].facts = view[u].facts
    BY <2>3, <2>4, <2>6
  <2>8. snap' \in [Days -> [facts : Facts \cup {None}, time : Nat]]
    BY <2>1, <2>5 DEF RowsRead
  <2>9. \A d \in Days : snap'[d] # NoRows => snap'[d].facts \in Facts
    BY <2>1, <2>5 DEF RowsRead
  <2>10. \A u \in Workers : pc'[u] \in Refreshing => view'[u].facts \in Facts
    BY <2>5, <2>7 DEF RowsRead, Refreshing
  <2> HIDE DEF v
  <2> QED BY <2>1, <2>5, <2>7, <2>8, <2>9, <2>10 DEF RowsRead
<1>9. ASSUME NEW w \in Workers, Die(w) PROVE RowsRead'
  BY <1>9 DEF Die, Goto, RowsRead, View, NoView, Refreshing
<1>10. CASE UNCHANGED rollupVars
  BY <1>10 DEF rollupVars, RowsRead
<1> QED BY <1>1, <1>2, <1>3, <1>4, <1>5, <1>6, <1>7, <1>8, <1>9, <1>10 DEF RollupNext

LEMMA TimesOrderedStep ==
    ASSUME SnapshotConflicts, RowsRead, TimesOrdered, [RollupNext]_rollupVars
    PROVE  TimesOrdered' /\ asOf' >= asOf /\ \A d \in Days : snap'[d].time >= snap[d].time
<1> DEFINE NotBack == asOf' >= asOf /\ \A d \in Days : snap'[d].time >= snap[d].time
<1>0. /\ moves \in Nat /\ asOf \in Nat
      /\ \A d \in Days : snap[d].time \in Nat
      /\ \A w \in Workers : view[w] \in View /\ view[w].time \in Nat
  BY DEF RowsRead, View
<1>1. ASSUME UNCHANGED <<snap, asOf>> PROVE NotBack
  BY <1>0, <1>1
<1>2. CASE Move
  <2>1. moves' = moves + 1 /\ UNCHANGED refreshVars
    BY <1>2 DEF Move
  <2> QED BY <1>0, <1>1, <2>1 DEF refreshVars, TimesOrdered
<1>3. CASE Midnight
  BY <1>1, <1>3 DEF Midnight, TimesOrdered
<1>4. CASE ExpireLock
  BY <1>1, <1>4 DEF ExpireLock, TimesOrdered
<1>5. ASSUME NEW w \in Workers, Begin(w) PROVE TimesOrdered' /\ NotBack
  <2> DEFINE fresh == [NoView EXCEPT !.day = today]
  <2>1. \A u \in Workers : view'[u] = IF u = w THEN fresh ELSE view[u]
    BY <1>5 DEF Begin, RowsRead
  <2>2. \A u \in Workers : pc'[u] = IF u = w THEN "begun" ELSE pc[u]
    BY <1>5 DEF Begin, Goto, RowsRead
  <2>3. fresh.time = 0
    BY DEF NoView
  <2>4. UNCHANGED <<moves, snap, asOf>>
    BY <1>5 DEF Begin
  <2> HIDE DEF fresh
  <2> QED BY <1>0, <1>1, <2>1, <2>2, <2>3, <2>4 DEF TimesOrdered, Writing
<1>6. ASSUME NEW w \in Workers, Read(w) PROVE TimesOrdered' /\ NotBack
  <2> DEFINE seen == [view[w] EXCEPT !.facts = facts, !.time = moves, !.overtaken = FALSE]
  <2>1. \A u \in Workers : view'[u] = IF u = w THEN seen ELSE view[u]
    BY <1>6 DEF Read, RowsRead
  <2>2. \A u \in Workers : pc'[u] = IF u = w THEN "read" ELSE pc[u]
    BY <1>6 DEF Read, Goto, RowsRead
  <2>3. seen.time = moves
    BY <1>0 DEF View
  <2>4. UNCHANGED <<moves, snap, asOf>>
    BY <1>6 DEF Read
  <2> HIDE DEF seen
  <2> QED BY <1>0, <1>1, <2>1, <2>2, <2>3, <2>4 DEF TimesOrdered, Writing
<1>7. ASSUME NEW w \in Workers, WriteRows(w) PROVE TimesOrdered' /\ NotBack
  <2>1. \A u \in Workers : pc'[u] = IF u = w THEN IF view[w].overtaken THEN "failed" ELSE "wrote" ELSE pc[u]
    BY <1>7 DEF WriteRows, Goto, RowsRead
  <2>2. pc[w] = "read" /\ \A v \in Workers : pc[v] \notin Writing
    BY <1>7 DEF WriteRows, Writing
  <2>3. UNCHANGED <<moves, view, snap, asOf>>
    BY <1>7 DEF WriteRows
  <2> QED BY <1>0, <1>1, <2>1, <2>2, <2>3 DEF TimesOrdered, Writing
<1>8. ASSUME NEW w \in Workers, Release(w) PROVE TimesOrdered' /\ NotBack
  <2>1. UNCHANGED <<moves, snap, asOf>>
    BY <1>8 DEF Release
  <2>2. CASE pc[w] = "wrote"
    <3>1. view' = view /\ \A u \in Workers : pc'[u] = IF u = w THEN "released" ELSE pc[u]
      BY <1>8, <2>2 DEF Release, Goto, RowsRead
    <3> QED BY <1>0, <1>1, <2>1, <2>2, <3>1 DEF TimesOrdered, Writing
  <2>3. CASE pc[w] = "failed"
    <3>1. \A u \in Workers : /\ view'[u] = IF u = w THEN NoView ELSE view[u]
                             /\ pc'[u] = IF u = w THEN "idle" ELSE pc[u]
      BY <1>8, <2>3 DEF Release, Goto, RowsRead
    <3>2. NoView.time = 0
      BY DEF NoView
    <3> QED BY <1>0, <1>1, <2>1, <3>1, <3>2 DEF TimesOrdered, Writing
  <2> QED BY <1>8, <2>2, <2>3 DEF Release
<1>9. ASSUME NEW w \in Workers, CommitRows(w) PROVE TimesOrdered' /\ NotBack
  <2> DEFINE v == view[w]
             Later(u) == [view[u] EXCEPT !.overtaken = (pc[u] = "read")]
  <2>1. pc[w] = "released" /\ asOf <= v.time /\ v.time <= moves
    BY <1>9 DEF CommitRows, TimesOrdered, Writing
  <2>2. \A u \in Workers : pc'[u] = IF u = w THEN "idle" ELSE pc[u]
    BY <1>9 DEF CommitRows, Goto, RowsRead
  <2>3. \A u \in Workers : u # w => pc[u] \notin Writing
    BY <2>1 DEF TimesOrdered, Writing
  <2>4. ASSUME NEW u \in Workers, u # w
        PROVE  view'[u].time = view[u].time /\ (pc[u] = "read" => view'[u].overtaken)
    <3>1. view'[u] = Later(u)
      BY <1>9, <2>4 DEF CommitRows
    <3>2. Later(u).time = view[u].time /\ Later(u).overtaken = (pc[u] = "read")
      BY <1>0 DEF View
    <3> QED BY <3>1, <3>2
  <2>5. view'[w].time = 0
    BY <1>9 DEF CommitRows, NoView
  <2>6. asOf' = v.time /\ moves' = moves /\ snap' = [snap EXCEPT ![v.day] = [facts |-> v.facts, time |-> v.time]]
    BY <1>9 DEF CommitRows
  <2>7. \A d \in Days : snap'[d].time = snap[d].time \/ snap'[d].time = v.time
    BY <2>6 DEF RowsRead
  <2> HIDE DEF v
  <2>8. v.time \in Nat
    BY <1>0 DEF v
  <2>9. asOf' >= asOf /\ \A d \in Days : snap'[d].time >= snap[d].time /\ snap'[d].time <= asOf'
    BY <1>0, <2>1, <2>6, <2>7, <2>8 DEF TimesOrdered
  <2>10. \A u \in Workers : pc'[u] \notin Writing /\ ~(pc'[u] = "read" /\ ~view'[u].overtaken)
    BY <2>2, <2>3, <2>4 DEF Writing
  <2>11. \A u \in Workers : view'[u].time <= moves'
    BY <1>0, <2>4, <2>5, <2>6 DEF TimesOrdered
  <2>12. asOf' <= moves'
    BY <2>1, <2>6
  <2> QED BY <2>9, <2>10, <2>11, <2>12 DEF TimesOrdered
<1>10. ASSUME NEW w \in Workers, Die(w) PROVE TimesOrdered' /\ NotBack
  <2>1. \A u \in Workers : /\ view'[u] = IF u = w THEN NoView ELSE view[u]
                           /\ pc'[u] = IF u = w THEN "idle" ELSE pc[u]
    BY <1>10 DEF Die, Goto, RowsRead
  <2>2. NoView.time = 0
    BY DEF NoView
  <2>3. UNCHANGED <<moves, snap, asOf>>
    BY <1>10 DEF Die
  <2> QED BY <1>0, <1>1, <2>1, <2>2, <2>3 DEF TimesOrdered, Writing
<1>11. CASE UNCHANGED rollupVars
  BY <1>1, <1>11 DEF rollupVars, TimesOrdered
<1> QED BY <1>2, <1>3, <1>4, <1>5, <1>6, <1>7, <1>8, <1>9, <1>10, <1>11 DEF RollupNext

(* Every chart of every selection shows what counting the tables would     *)
(* have given, at any time and for any number of applications, consents,   *)
(* banks and places.                                                       *)
THEOREM FiguresExact == RollupSpec => []ChartsExact
<1>1. RowsRead => ChartsExact
  <2> SUFFICES ASSUME RowsRead, NEW f \in Shown PROVE AllExact(f)
    BY DEF ChartsExact
  <2>1. PICK d \in Latest : f = snap[d].facts
    BY DEF Shown
  <2>2. f \in Facts
    BY <2>1 DEF RowsRead, Latest
  <2> QED BY <2>2, RowsKeepFigures
<1> QED BY <1>1, RowsReadInit, RowsReadStep, PTL DEF RollupSpec

(* A reason that a chart spells out was given to MinReason applications of *)
(* that very selection.                                                    *)
THEOREM ReasonsAreShared == RollupSpec => []ReasonsShared
<1>1. RowsRead => ReasonsShared
  <2> SUFFICES ASSUME RowsRead, NEW f \in Shown PROVE ReasonsHeld(f)
    BY Zenon DEF ReasonsShared, ReasonsHeld
  <2>1. PICK d \in Latest : f = snap[d].facts
    BY DEF Shown
  <2>2. f \in Facts
    BY <2>1 DEF RowsRead, Latest
  <2> QED BY <2>2, ReasonsCount
<1> QED BY <1>1, RowsReadInit, RowsReadStep, PTL DEF RollupSpec

(* Where the database refuses a write from behind a commit, refreshes that *)
(* overlap never take the figures or as_of back.                           *)
THEOREM NeverGoesBack ==
    ASSUME SnapshotConflicts
    PROVE  RollupSpec => NeverBack
<1> DEFINE Ordered == RowsRead /\ TimesOrdered
           NotBack == asOf' >= asOf /\ \A d \in Days : snap'[d].time >= snap[d].time
<1>1. RollupInit => Ordered
  BY RowsReadInit
<1>2. Ordered /\ [RollupNext]_rollupVars => Ordered' /\ [NotBack]_rollupVars
  BY RowsReadStep, TimesOrderedStep
<1>3. NeverBack <=> [][NotBack]_rollupVars
  BY PTL DEF NeverBack
<1> QED BY <1>1, <1>2, <1>3, PTL DEF RollupSpec

(***************************************************************************)
(* DashboardStats.                                                         *)
(***************************************************************************)
Offered(T)     == {p \in Products : T[p].status # Absent}
CountedApps(T) == {a \in Apps : Counted(T[a])}
FarmersOf(T)   == {T[a].farmer : a \in CountedApps(T)} \ {None}

LEMMA CountedFinite ==
    ASSUME NEW T
    PROVE  IsFiniteSet(Offered(T)) /\ IsFiniteSet(CountedApps(T)) /\ IsFiniteSet(FarmersOf(T))
<1>1. IsFiniteSet(Offered(T)) /\ IsFiniteSet(CountedApps(T))
  BY StatsAssumption, FS_Subset DEF Offered, CountedApps
<1>2. IsFiniteSet({T[a].farmer : a \in CountedApps(T)})
  <2> DEFINE f == [a \in CountedApps(T) |-> T[a].farmer]
  <2>1. IsFiniteSet({f[a] : a \in CountedApps(T)})
    BY <1>1, ImageOf
  <2> QED BY <2>1
<1>3. IsFiniteSet(FarmersOf(T))
  BY <1>2, FS_Subset DEF FarmersOf
<1> QED BY <1>1, <1>3

(* The sets that Compute counts.                                           *)
OfStatus(T, s)   == {p \in Offered(T) : T[p].status = s}
PendingApps(T)   == {a \in CountedApps(T) : Pending(T[a])}
InBucket(T, c)   == {a \in CountedApps(T) : Bucket(T[a]) = c}

LEMMA Figures ==
    ASSUME NEW T
    PROVE  /\ Compute(T)[TotalOf("products")] = Cardinality(Offered(T))
           /\ Compute(T)[TotalOf("applications")] = Cardinality(CountedApps(T))
           /\ Compute(T)[TotalOf("applicants")] = Cardinality(FarmersOf(T))
           /\ Compute(T)[PendingApplications] = Cardinality(PendingApps(T))
           /\ \A s \in ProductStates : Compute(T)[<<"product", s>>] = Cardinality(OfStatus(T, s))
           /\ \A c \in Buckets : Compute(T)[c] = Cardinality(InBucket(T, c))
<1>1. /\ {TotalOf("products"), TotalOf("applications"), TotalOf("applicants"), PendingApplications} \subseteq Counters
      /\ \A s \in ProductStates : <<"product", s>> \in Counters
      /\ \A c \in Buckets : c \in Counters /\ c[1] = "stage"
  BY DEF Counters, Scalars, Buckets
<1>2. Compute(T)[TotalOf("products")] = Cardinality(Offered(T))
  BY <1>1 DEF Compute, TotalOf, PendingApplications, Offered
<1>3. Compute(T)[TotalOf("applications")] = Cardinality(CountedApps(T))
  BY <1>1 DEF Compute, TotalOf, PendingApplications, CountedApps
<1>4. Compute(T)[TotalOf("applicants")] = Cardinality(FarmersOf(T))
  BY <1>1 DEF Compute, TotalOf, PendingApplications, CountedApps, FarmersOf
<1>5. Compute(T)[PendingApplications] = Cardinality(PendingApps(T))
  BY <1>1 DEF Compute, TotalOf, PendingApplications, CountedApps, PendingApps
<1>6. ASSUME NEW s \in ProductStates
      PROVE  Compute(T)[<<"product", s>>] = Cardinality(OfStatus(T, s))
  BY <1>1 DEF Compute, TotalOf, PendingApplications, Offered, OfStatus
<1>7. ASSUME NEW c \in Buckets PROVE Compute(T)[c] = Cardinality(InBucket(T, c))
  BY <1>1 DEF Compute, TotalOf, PendingApplications, CountedApps, InBucket
<1> QED BY <1>2, <1>3, <1>4, <1>5, <1>6, <1>7

(* There is no other counter.                                              *)
LEMMA CounterKinds ==
    ASSUME NEW c \in Counters
    PROVE  \/ c \in {TotalOf("products"), TotalOf("applications"), TotalOf("applicants"), PendingApplications}
           \/ \E s \in ProductStates : c = <<"product", s>>
           \/ c \in Buckets
BY DEF Counters, Scalars

LEMMA ComputeTyped == ASSUME NEW T PROVE Compute(T) \in [Counters -> Nat]
<1>1. ASSUME NEW c \in Counters PROVE Compute(T)[c] \in Nat
  <2>1. /\ \A S \in SUBSET Offered(T) : Cardinality(S) \in Nat
        /\ \A S \in SUBSET CountedApps(T) : Cardinality(S) \in Nat
        /\ Cardinality(FarmersOf(T)) \in Nat
    BY CountedFinite, FS_Subset, FS_CardinalityType
  <2>2. /\ Cardinality(Offered(T)) \in Nat /\ Cardinality(CountedApps(T)) \in Nat
        /\ Cardinality(PendingApps(T)) \in Nat /\ Cardinality(InBucket(T, c)) \in Nat
        /\ \A s \in ProductStates : Cardinality(OfStatus(T, s)) \in Nat
    BY <2>1 DEF PendingApps, InBucket, OfStatus
  <2> QED BY <2>1, <2>2, Figures, CounterKinds
<1> QED BY <1>1 DEF Compute

(***************************************************************************)
(* What a hook moves is what counting again would find.                    *)
(***************************************************************************)
LEMMA MovedAt ==
    ASSUME NEW steps, NEW c \in Counters
    PROVE  Moved(steps)[c] = (IF <<c, 1>> \in steps THEN 1 ELSE 0) - (IF <<c, -1>> \in steps THEN 1 ELSE 0)
BY DEF Moved

(* Nothing is cut off at zero when the counters were right.                *)
LEMMA Applied ==
    ASSUME NEW T, NEW U, NEW delta, \A c \in Counters : Compute(U)[c] = Compute(T)[c] + delta[c]
    PROVE  Apply(Compute(T), delta) = Compute(U)
<1>1. \A c \in Counters : Compute(U)[c] \in Nat /\ Compute(T)[c] \in Nat
  BY ComputeTyped
<1>2. Compute(U) = [c \in Counters |-> Compute(U)[c]]
  BY ComputeTyped
<1>3. ASSUME NEW c \in Counters
      PROVE  Compute(U)[c] = IF c \in Buckets /\ Compute(T)[c] + delta[c] < 0 THEN 0 ELSE Compute(T)[c] + delta[c]
  BY <1>1
<1> QED BY <1>2, <1>3 DEF Apply

(* Products and applications are counted apart.                            *)
LEMMA ProductsApart ==
    ASSUME NEW T \in [Keys -> Row], NEW p \in Products, NEW new
    PROVE  LET U == [T EXCEPT ![p] = new] IN
           /\ U[p] = new /\ \A q \in Products \ {p} : U[q] = T[q]
           /\ \A a \in Apps : U[a] = T[a]
BY StatsAssumption DEF Keys

LEMMA AppsApart ==
    ASSUME NEW T \in [Keys -> Row], NEW a \in Apps, NEW new
    PROVE  LET U == [T EXCEPT ![a] = new] IN
           /\ U[a] = new /\ \A b \in Apps \ {a} : U[b] = T[b]
           /\ \A p \in Products : U[p] = T[p]
BY StatsAssumption DEF Keys

(* on_product_change, on any change of a product.                          *)
LEMMA ProductHook ==
    ASSUME NEW T \in [Keys -> Row], NEW p \in Products, NEW new \in Row, new # T[p]
    PROVE  Apply(Compute(T), OnProductChange(T[p], new)) = Compute([T EXCEPT ![p] = new])
<1> DEFINE U == [T EXCEPT ![p] = new]
           delta == OnProductChange(T[p], new)
<1>1. /\ U[p] = new /\ \A q \in Products \ {p} : U[q] = T[q]
      /\ \A a \in Apps : U[a] = T[a]
  BY ProductsApart
<1>2. T[p].status # Absent \/ new.status # Absent
  BY DEF Row, Keys
<1> HIDE DEF U
<1>3. IsFiniteSet(Offered(T))
  BY CountedFinite
<1> DEFINE before == T[p].status
           steps  == {<<<<"product", before>>, -1>>, <<<<"product", new.status>>, 1>>}
                     \cup IF before = Absent THEN {<<TotalOf("products"), 1>>}
                          ELSE IF new.status = Absent THEN {<<TotalOf("products"), -1>>} ELSE {}
<1>4. delta = Moved(steps)
  BY DEF OnProductChange
<1>5. \A c : /\ <<c, 1>> \in steps <=> \/ c = <<"product", new.status>>
                                       \/ c = TotalOf("products") /\ before = Absent
             /\ <<c, -1>> \in steps <=> \/ c = <<"product", before>>
                                        \/ c = TotalOf("products") /\ before # Absent /\ new.status = Absent
  OBVIOUS
<1> HIDE DEF steps, delta
<1>6. Compute(U)[TotalOf("products")] = Compute(T)[TotalOf("products")] + delta[TotalOf("products")]
  <2> DEFINE c == TotalOf("products")
  <2>1. Offered(T) \ {p} = Offered(U) \ {p}
    BY <1>1 DEF Offered
  <2>2. /\ Cardinality(Offered(T)) \in Nat /\ Cardinality(Offered(U)) \in Nat
        /\ Cardinality(Offered(U)) = Cardinality(Offered(T)) + (IF p \in Offered(U) THEN 1 ELSE 0)
                                                             - (IF p \in Offered(T) THEN 1 ELSE 0)
    BY <1>3, <2>1, OneMoved
  <2>3. /\ p \in Offered(U) <=> new.status # Absent
        /\ p \in Offered(T) <=> before # Absent
    BY <1>1 DEF Offered
  <2>4. /\ <<c, 1>> \in steps <=> before = Absent
        /\ <<c, -1>> \in steps <=> before # Absent /\ new.status = Absent
    BY <1>5 DEF TotalOf
  <2>5. delta[c] = (IF before = Absent THEN 1 ELSE 0) - (IF before # Absent /\ new.status = Absent THEN 1 ELSE 0)
    BY <1>4, <2>4, MovedAt DEF Counters, Scalars
  <2> QED BY <1>2, <2>2, <2>3, <2>5, Figures
<1>7. ASSUME NEW s \in ProductStates
      PROVE  Compute(U)[<<"product", s>>] = Compute(T)[<<"product", s>>] + delta[<<"product", s>>]
  <2> DEFINE c == <<"product", s>>
  <2>1. IsFiniteSet(OfStatus(T, s)) /\ OfStatus(T, s) \ {p} = OfStatus(U, s) \ {p}
    BY <1>1, <1>3, FS_Subset DEF Offered, OfStatus
  <2>2. /\ Cardinality(OfStatus(T, s)) \in Nat /\ Cardinality(OfStatus(U, s)) \in Nat
        /\ Cardinality(OfStatus(U, s)) = Cardinality(OfStatus(T, s)) + (IF p \in OfStatus(U, s) THEN 1 ELSE 0)
                                                                     - (IF p \in OfStatus(T, s) THEN 1 ELSE 0)
    BY <2>1, OneMoved
  <2>3. /\ p \in OfStatus(U, s) <=> new.status = s
        /\ p \in OfStatus(T, s) <=> before = s
    BY <1>1 DEF Offered, OfStatus, ProductStates, Absent
  <2>4. /\ <<c, 1>> \in steps <=> new.status = s
        /\ <<c, -1>> \in steps <=> before = s
    BY <1>5 DEF TotalOf
  <2>5. delta[c] = (IF new.status = s THEN 1 ELSE 0) - (IF before = s THEN 1 ELSE 0)
    BY <1>4, <2>4, MovedAt DEF Counters, Scalars
  <2> QED BY <2>2, <2>3, <2>5, Figures
<1>8. ASSUME NEW c \in Counters,
             c \in {TotalOf("applications"), TotalOf("applicants"), PendingApplications} \/ c \in Buckets
      PROVE  Compute(U)[c] = Compute(T)[c] + delta[c]
  <2>1. CountedApps(U) = CountedApps(T)
    BY <1>1 DEF CountedApps
  <2>2. FarmersOf(U) = FarmersOf(T) /\ PendingApps(U) = PendingApps(T) /\ InBucket(U, c) = InBucket(T, c)
    BY <1>1, <2>1 DEF FarmersOf, CountedApps, PendingApps, InBucket
  <2>3. Compute(U)[c] = Compute(T)[c]
    BY <1>8, <2>1, <2>2, Figures
  <2>4. <<c, 1>> \notin steps /\ <<c, -1>> \notin steps
    BY <1>5, <1>8 DEF TotalOf, PendingApplications, Buckets
  <2>5. delta[c] = (IF <<c, 1>> \in steps THEN 1 ELSE 0) - (IF <<c, -1>> \in steps THEN 1 ELSE 0)
    BY <1>4, MovedAt
  <2>6. delta[c] = 0
    BY <2>4, <2>5
  <2> QED BY <2>3, <2>6, ComputeTyped
<1>9. \A c \in Counters : Compute(U)[c] = Compute(T)[c] + delta[c]
  BY <1>6, <1>7, <1>8, CounterKinds
<1> QED BY <1>9, Applied DEF U, delta

LEMMA PendingIsCounted ==
    /\ ~Counted(Gone) /\ ~Pending(Gone)
    /\ \A row : Pending(row) => Counted(row)
    /\ \A row : Pending(row) \in BOOLEAN
BY DEF Gone, Counted, Pending, Absent

(* on_application_change, when the farmer of a counted application stays.  *)
LEMMA ApplicationHook ==
    ASSUME NEW T \in [Keys -> Row], NEW a \in Apps, NEW new \in Row,
           new = Gone \/ ~Counted(T[a]) \/ new.farmer = T[a].farmer
    PROVE  Apply(Compute(T), OnApplicationChange([T EXCEPT ![a] = new], a, T[a], new))
           = Compute([T EXCEPT ![a] = new])
<1> DEFINE U      == [T EXCEPT ![a] = new]
           before == T[a]
           delta  == OnApplicationChange(U, a, before, new)
           fresh(f) == f # None /\ ~Represented(U, a, f)
           steps  == IF new = Gone
                     THEN IF Counted(before)
                          THEN {<<TotalOf("applications"), -1>>, <<Bucket(before), -1>>}
                               \cup Applicant(U, a, before, -1) \cup PendingFlip(before, new)
                          ELSE {}
                     ELSE Countability(U, a, before, new) \cup PendingFlip(before, new)
                          \cup StageMove(before, new)
<1>1. /\ U[a] = new /\ \A b \in Apps \ {a} : U[b] = T[b]
      /\ \A p \in Products : U[p] = T[p]
  BY AppsApart
<1>2. /\ new = Gone => ~Counted(new)
      /\ new = Gone => ~Pending(new)
      /\ Pending(new) => Counted(new)
      /\ Pending(before) => Counted(before)
  BY PendingIsCounted
<1>3. delta = Moved(steps)
  BY DEF OnApplicationChange
<1> HIDE DEF U, delta
<1>4. ASSUME NEW c
      PROVE  /\ <<c, 1>> \in steps <=>
                   \/ c = TotalOf("applications") /\ ~Counted(before) /\ Counted(new)
                   \/ c = TotalOf("applicants") /\ ~Counted(before) /\ Counted(new) /\ fresh(new.farmer)
                   \/ c = PendingApplications /\ ~Pending(before) /\ Pending(new)
                   \/ /\ c = Bucket(new) /\ Counted(new)
                      /\ (~Counted(before) \/ StageName(before) # StageName(new))
             /\ <<c, -1>> \in steps <=>
                   \/ c = TotalOf("applications") /\ Counted(before) /\ ~Counted(new)
                   \/ c = TotalOf("applicants") /\ Counted(before) /\ ~Counted(new) /\ fresh(before.farmer)
                   \/ c = PendingApplications /\ Pending(before) /\ ~Pending(new)
                   \/ /\ c = Bucket(before) /\ Counted(before)
                      /\ (~Counted(new) \/ StageName(before) # StageName(new))
  <2>1. ASSUME NEW row, NEW n \in {1, -1}, NEW i \in {1, -1}
        PROVE  <<c, i>> \in Applicant(U, a, row, n) <=> c = TotalOf("applicants") /\ i = n /\ fresh(row.farmer)
    BY DEF Applicant
  <2>2. /\ <<c, 1>> \in PendingFlip(before, new) <=> c = PendingApplications /\ ~Pending(before) /\ Pending(new)
        /\ <<c, -1>> \in PendingFlip(before, new) <=> c = PendingApplications /\ Pending(before) /\ ~Pending(new)
    BY PendingIsCounted DEF PendingFlip
  <2>3. CASE new = Gone
    <3>1. CASE Counted(before)
      BY <1>2, <2>1, <2>2, <2>3, <3>1
    <3>2. CASE ~Counted(before)
      BY <1>2, <2>3, <3>2
    <3> QED BY <3>1, <3>2
  <2>4. CASE new # Gone
    <3>1. /\ <<c, 1>> \in Countability(U, a, before, new)
                <=> /\ ~Counted(before) /\ Counted(new)
                    /\ c = TotalOf("applications") \/ (c = TotalOf("applicants") /\ fresh(new.farmer))
          /\ <<c, -1>> \in Countability(U, a, before, new)
                <=> /\ Counted(before) /\ ~Counted(new)
                    /\ c = TotalOf("applications") \/ (c = TotalOf("applicants") /\ fresh(before.farmer))
      <4>1. Counted(before) => new.farmer = before.farmer
        BY <2>4
      <4> QED BY <2>1, <4>1 DEF Countability, Counted
    <3>2. /\ <<c, 1>> \in StageMove(before, new)
                <=> c = Bucket(new) /\ Counted(new) /\ (~Counted(before) \/ StageName(before) # StageName(new))
          /\ <<c, -1>> \in StageMove(before, new)
                <=> c = Bucket(before) /\ Counted(before) /\ (~Counted(new) \/ StageName(before) # StageName(new))
      BY DEF StageMove, Counted
    <3> QED BY <2>2, <2>4, <3>1, <3>2
  <2> QED BY <2>3, <2>4
<1> HIDE DEF steps
<1>5. \A c \in Counters : delta[c] = (IF <<c, 1>> \in steps THEN 1 ELSE 0) - (IF <<c, -1>> \in steps THEN 1 ELSE 0)
  BY <1>3, MovedAt
<1>6. /\ IsFiniteSet(CountedApps(T)) /\ IsFiniteSet(FarmersOf(T)) /\ IsFiniteSet(PendingApps(T))
      /\ \A c : IsFiniteSet(InBucket(T, c))
      /\ CountedApps(T) \ {a} = CountedApps(U) \ {a}
      /\ a \in CountedApps(U) <=> Counted(new)
      /\ a \in CountedApps(T) <=> Counted(before)
  <2>1. IsFiniteSet(CountedApps(T)) /\ IsFiniteSet(FarmersOf(T))
    BY CountedFinite
  <2> QED BY <1>1, <2>1, FS_Subset DEF CountedApps, PendingApps, InBucket
<1>7. Compute(U)[TotalOf("applications")] = Compute(T)[TotalOf("applications")] + delta[TotalOf("applications")]
  <2>1. /\ Cardinality(CountedApps(T)) \in Nat /\ Cardinality(CountedApps(U)) \in Nat
        /\ Cardinality(CountedApps(U)) = Cardinality(CountedApps(T)) + (IF Counted(new) THEN 1 ELSE 0)
                                                                     - (IF Counted(before) THEN 1 ELSE 0)
    BY <1>6, OneMoved
  <2>2. /\ <<TotalOf("applications"), 1>> \in steps <=> ~Counted(before) /\ Counted(new)
        /\ <<TotalOf("applications"), -1>> \in steps <=> Counted(before) /\ ~Counted(new)
    BY <1>4 DEF TotalOf, PendingApplications, Bucket
  <2>3. TotalOf("applications") \in Counters
    BY DEF Counters, Scalars
  <2> QED BY <1>5, <2>1, <2>2, <2>3, Figures
<1>8. Compute(U)[PendingApplications] = Compute(T)[PendingApplications] + delta[PendingApplications]
  <2>1. PendingApps(T) \ {a} = PendingApps(U) \ {a}
    BY <1>1, <1>6 DEF PendingApps, CountedApps
  <2>2. (a \in PendingApps(U) <=> Pending(new)) /\ (a \in PendingApps(T) <=> Pending(before))
    BY <1>1, <1>2, <1>6 DEF PendingApps
  <2>3. /\ Cardinality(PendingApps(T)) \in Nat /\ Cardinality(PendingApps(U)) \in Nat
        /\ Cardinality(PendingApps(U)) = Cardinality(PendingApps(T)) + (IF Pending(new) THEN 1 ELSE 0)
                                                                     - (IF Pending(before) THEN 1 ELSE 0)
    BY <1>6, <2>1, <2>2, OneMoved
  <2>4. /\ <<PendingApplications, 1>> \in steps <=> ~Pending(before) /\ Pending(new)
        /\ <<PendingApplications, -1>> \in steps <=> Pending(before) /\ ~Pending(new)
    BY <1>4 DEF TotalOf, PendingApplications, Bucket
  <2>5. PendingApplications \in Counters
    BY DEF Counters, Scalars
  <2> QED BY <1>5, <2>3, <2>4, <2>5, Figures
<1>9. ASSUME NEW c \in Buckets PROVE Compute(U)[c] = Compute(T)[c] + delta[c]
  <2>1. InBucket(T, c) \ {a} = InBucket(U, c) \ {a}
    BY <1>1, <1>6 DEF InBucket, CountedApps
  <2>2. /\ a \in InBucket(U, c) <=> Counted(new) /\ Bucket(new) = c
        /\ a \in InBucket(T, c) <=> Counted(before) /\ Bucket(before) = c
    BY <1>1, <1>6 DEF InBucket
  <2>3. /\ Cardinality(InBucket(T, c)) \in Nat /\ Cardinality(InBucket(U, c)) \in Nat
        /\ Cardinality(InBucket(U, c))
              = Cardinality(InBucket(T, c)) + (IF Counted(new) /\ Bucket(new) = c THEN 1 ELSE 0)
                                            - (IF Counted(before) /\ Bucket(before) = c THEN 1 ELSE 0)
    BY <1>6, <2>1, <2>2, OneMoved
  <2>4. /\ <<c, 1>> \in steps
              <=> c = Bucket(new) /\ Counted(new) /\ (~Counted(before) \/ Bucket(before) # Bucket(new))
        /\ <<c, -1>> \in steps
              <=> c = Bucket(before) /\ Counted(before) /\ (~Counted(new) \/ Bucket(before) # Bucket(new))
    BY <1>4 DEF TotalOf, PendingApplications, Bucket, Buckets
  <2>5. c \in Counters
    BY DEF Counters
  <2> QED BY <1>5, <2>3, <2>4, <2>5, Figures
<1>10. Compute(U)[TotalOf("applicants")] = Compute(T)[TotalOf("applicants")] + delta[TotalOf("applicants")]
  <2> DEFINE c == TotalOf("applicants")
  <2>1. /\ <<c, 1>> \in steps <=> ~Counted(before) /\ Counted(new) /\ fresh(new.farmer)
        /\ <<c, -1>> \in steps <=> Counted(before) /\ ~Counted(new) /\ fresh(before.farmer)
    BY <1>4 DEF TotalOf, PendingApplications, Bucket
  <2>2. /\ c \in Counters
        /\ Compute(U)[c] = Cardinality(FarmersOf(U)) /\ Compute(T)[c] = Cardinality(FarmersOf(T))
    BY Figures DEF Counters, Scalars
  <2>3. Cardinality(FarmersOf(T)) \in Nat
    BY <1>6, FS_CardinalityType
  <2>4. ASSUME NEW f, f # None
        PROVE  /\ f \in FarmersOf(U) <=> (Counted(new) /\ new.farmer = f) \/ Represented(U, a, f)
               /\ f \in FarmersOf(T) <=> (Counted(before) /\ before.farmer = f) \/ Represented(U, a, f)
    BY <1>1, <1>6, <2>4 DEF FarmersOf, CountedApps, Represented
  <2>5. None \notin FarmersOf(U) /\ None \notin FarmersOf(T)
    BY DEF FarmersOf
  <2>6. CASE Counted(before) /\ Counted(new)
    <3>1. new.farmer = before.farmer
      BY <1>2, <2>6
    <3>2. FarmersOf(U) = FarmersOf(T)
      BY <2>4, <2>5, <2>6, <3>1
    <3> QED BY <1>5, <2>1, <2>2, <2>3, <2>6, <3>2
  <2>7. CASE ~Counted(before) /\ ~Counted(new)
    <3>1. FarmersOf(U) = FarmersOf(T)
      BY <2>4, <2>5, <2>7
    <3> QED BY <1>5, <2>1, <2>2, <2>3, <2>7, <3>1
  <2>8. CASE ~Counted(before) /\ Counted(new)
    <3> DEFINE f == new.farmer
    <3>1. FarmersOf(T) \ {f} = FarmersOf(U) \ {f}
      BY <2>4, <2>5, <2>8
    <3>2. /\ f \in FarmersOf(U) <=> f # None
          /\ f \in FarmersOf(T) <=> f # None /\ Represented(U, a, f)
      BY <2>4, <2>5, <2>8
    <3>3. /\ Cardinality(FarmersOf(U)) \in Nat
          /\ Cardinality(FarmersOf(U)) = Cardinality(FarmersOf(T)) + (IF f \in FarmersOf(U) THEN 1 ELSE 0)
                                                                   - (IF f \in FarmersOf(T) THEN 1 ELSE 0)
      BY <1>6, <3>1, OneMoved
    <3> QED BY <1>5, <2>1, <2>2, <2>3, <2>8, <3>2, <3>3
  <2>9. CASE Counted(before) /\ ~Counted(new)
    <3> DEFINE f == before.farmer
    <3>1. FarmersOf(T) \ {f} = FarmersOf(U) \ {f}
      BY <2>4, <2>5, <2>9
    <3>2. /\ f \in FarmersOf(T) <=> f # None
          /\ f \in FarmersOf(U) <=> f # None /\ Represented(U, a, f)
      BY <2>4, <2>5, <2>9
    <3>3. /\ Cardinality(FarmersOf(U)) \in Nat
          /\ Cardinality(FarmersOf(U)) = Cardinality(FarmersOf(T)) + (IF f \in FarmersOf(U) THEN 1 ELSE 0)
                                                                   - (IF f \in FarmersOf(T) THEN 1 ELSE 0)
      BY <1>6, <3>1, OneMoved
    <3> QED BY <1>5, <2>1, <2>2, <2>3, <2>9, <3>2, <3>3
  <2> QED BY <2>6, <2>7, <2>8, <2>9
<1>11. ASSUME NEW c \in Counters, c = TotalOf("products") \/ \E s \in ProductStates : c = <<"product", s>>
       PROVE  Compute(U)[c] = Compute(T)[c] + delta[c]
  <2>1. Offered(U) = Offered(T)
    BY <1>1 DEF Offered
  <2>2. \A s : OfStatus(U, s) = OfStatus(T, s)
    BY <1>1, <2>1 DEF OfStatus, Offered
  <2>3. Compute(U)[c] = Compute(T)[c]
    BY <1>11, <2>1, <2>2, Figures
  <2>4. <<c, 1>> \notin steps /\ <<c, -1>> \notin steps
    BY <1>4, <1>11 DEF TotalOf, PendingApplications, Bucket
  <2>5. delta[c] = 0
    BY <1>5, <2>4
  <2> QED BY <2>3, <2>5, ComputeTyped
<1>12. \A c \in Counters : Compute(U)[c] = Compute(T)[c] + delta[c]
  BY <1>7, <1>8, <1>9, <1>10, <1>11, CounterKinds
<1> QED BY <1>12, Applied DEF U, delta

(* on_stage_moved, on a counted application: nothing but its bucket moves. *)
LEMMA StageHook ==
    ASSUME NEW T \in [Keys -> Row], NEW a \in Apps, NEW new \in Row,
           Counted(T[a]), new.status = T[a].status, new.farmer = T[a].farmer
    PROVE  Apply(Compute(T), OnStageMoved(T[a], new)) = Compute([T EXCEPT ![a] = new])
<1> DEFINE U == [T EXCEPT ![a] = new]
<1>1. Counted(new) /\ new # Gone
  BY PendingIsCounted DEF Counted
<1>2. Countability(U, a, T[a], new) = {} /\ PendingFlip(T[a], new) = {}
  BY <1>1 DEF Countability, PendingFlip, Counted, Pending
<1>3. OnApplicationChange(U, a, T[a], new) = Moved(StageMove(T[a], new))
  BY <1>1, <1>2 DEF OnApplicationChange
<1>4. StageMove(T[a], new) = IF StageName(T[a]) = StageName(new) THEN {}
                             ELSE {<<Bucket(T[a]), -1>>, <<Bucket(new), 1>>}
  BY <1>1 DEF StageMove, Counted
<1>5. Moved({}) = Still
  BY DEF Moved, Still
<1>6. OnApplicationChange(U, a, T[a], new) = OnStageMoved(T[a], new)
  BY <1>3, <1>4, <1>5 DEF OnStageMoved
<1> QED BY <1>6, ApplicationHook

(***************************************************************************)
(* Types.                                                                  *)
(***************************************************************************)
LEMMA MovesTyped ==
    /\ \A steps : Moved(steps) \in [Counters -> Int]
    /\ \A before, after : OnProductChange(before, after) \in [Counters -> Int]
    /\ \A T, a, before, after : OnApplicationChange(T, a, before, after) \in [Counters -> Int]
    /\ \A before, after : OnStageMoved(before, after) \in [Counters -> Int]
    /\ Still \in [Counters -> Int]
<1>1. \A steps : Moved(steps) \in [Counters -> Int]
  BY DEF Moved
<1>2. Still \in [Counters -> Int]
  BY DEF Still
<1> QED BY <1>1, <1>2 DEF OnProductChange, OnApplicationChange, OnStageMoved

(* Each request is one write, of a row that can be.                        *)
LEMMA RequestWrites ==
    ASSUME TypeOK, NEW w \in Writers, Request(w)
    PROVE  \E k \in Keys, new \in Row, delta \in [Counters -> Int] : Write(w, k, new, delta)
<1>1. Gone \in Row /\ \A k \in Keys : table[k] \in Row
  BY DEF Gone, Row, TypeOK
<1>2. \A p \in Products : p \in Keys
  BY DEF Keys
<1>3. \A a \in Apps : a \in Keys
  BY DEF Keys
<1>4. ASSUME NEW status \in ProductStates PROVE [Gone EXCEPT !.status = status] \in Row
  BY DEF Gone, Row, ProductStates, Absent
<1>5. ASSUME NEW p \in Products, NEW s \in ProductStates,
             CreateProduct(w, p) \/ DeleteProduct(w, p) \/ SetProductStatus(w, p, s)
      PROVE  \E k \in Keys, new \in Row, delta \in [Counters -> Int] : Write(w, k, new, delta)
  <2>1. CASE DeleteProduct(w, p)
    BY <1>1, <1>2, <2>1, MovesTyped DEF DeleteProduct
  <2>2. ASSUME NEW status \in ProductStates, ProductWrite(w, p, status)
        PROVE  \E k \in Keys, new \in Row, delta \in [Counters -> Int] : Write(w, k, new, delta)
    BY <1>2, <1>4, <2>2, MovesTyped DEF ProductWrite
  <2>3. CASE CreateProduct(w, p)
    BY <2>2, <2>3 DEF CreateProduct, ProductStates
  <2>4. CASE SetProductStatus(w, p, s)
    BY <2>2, <2>4 DEF SetProductStatus
  <2> QED BY <1>5, <2>1, <2>3, <2>4
<1>6. ASSUME NEW a \in Apps, NEW new \in Row, ApplicationWrite(w, a, new)
      PROVE  \E k \in Keys, row \in Row, delta \in [Counters -> Int] : Write(w, k, row, delta)
  BY <1>3, <1>6, MovesTyped DEF ApplicationWrite
<1>7. ASSUME NEW a \in Apps, NEW f \in Farmers \cup {None}, CreateApplication(w, a, f)
      PROVE  \E k \in Keys, new \in Row, delta \in [Counters -> Int] : Write(w, k, new, delta)
  <2>1. [status |-> "Active", stage |-> None, farmer |-> f] \in Row
    BY DEF Row, Absent, ArchetypeStates
  <2> QED BY <1>6, <1>7, <2>1 DEF CreateApplication
<1>8. ASSUME NEW a \in Apps, table[a] # Gone,
             NEW s \in ArchetypeStates, NEW i \in Stages \cup ArchetypeStates \cup {None}
      PROVE  /\ [table[a] EXCEPT !.status = s, !.stage = i] \in Row
             /\ [table[a] EXCEPT !.stage = i] \in Row
  <2>1. table[a] \in Row /\ table[a].status # Absent /\ s # Absent
    BY <1>1, <1>3, <1>8 DEF Row, Absent, ArchetypeStates
  <2> QED BY <2>1 DEF Row
<1>9. ASSUME NEW a \in Apps, NEW s \in ArchetypeStates, NEW i \in Stages \cup {None},
             SaveApplication(w, a, s, i)
      PROVE  \E k \in Keys, new \in Row, delta \in [Counters -> Int] : Write(w, k, new, delta)
  BY <1>6, <1>8, <1>9 DEF SaveApplication
<1>10. ASSUME NEW a \in Apps, DeleteApplication(w, a)
       PROVE  \E k \in Keys, new \in Row, delta \in [Counters -> Int] : Write(w, k, new, delta)
  BY <1>1, <1>6, <1>10 DEF DeleteApplication
<1>11. ASSUME NEW a \in Apps, NEW i \in Stages \cup ArchetypeStates, UpdateLoanStatus(w, a, i)
       PROVE  \E k \in Keys, new \in Row, delta \in [Counters -> Int] : Write(w, k, new, delta)
  <2> DEFINE staged == [table[a] EXCEPT !.stage = i]
  <2>1. ArchetypeOf(i) \in ArchetypeStates
    BY StatsAssumption DEF ArchetypeOf
  <2>2. table[a] # Gone
    BY <1>11 DEF UpdateLoanStatus
  <2>3. staged \in Row /\ [staged EXCEPT !.status = ArchetypeOf(i)] \in Row
    <3>1. table[a] \in [status : ProductStates \cup ArchetypeStates \cup {Absent},
                        stage  : Stages \cup ArchetypeStates \cup {None},
                        farmer : Farmers \cup {None}]
      BY <1>1, <1>3 DEF Row
    <3>2. [staged EXCEPT !.status = ArchetypeOf(i)] = [table[a] EXCEPT !.status = ArchetypeOf(i), !.stage = i]
      BY <3>1
    <3> QED BY <1>8, <2>1, <2>2, <3>2
  <2> HIDE DEF staged
  <2>4. \/ Write(w, a, staged, IF DocStatus(ArchetypeOf(i)) = 0 THEN Still ELSE OnStageMoved(table[a], staged))
        \/ Write(w, a, [staged EXCEPT !.status = ArchetypeOf(i)], Still)
        \/ Write(w, a, staged, Still)
    BY <1>11 DEF UpdateLoanStatus, staged
  <2> QED BY <1>3, <2>3, <2>4, MovesTyped
<1> QED BY <1>5, <1>7, <1>9, <1>10, <1>11 DEF Request, ProductStates

LEMMA StatsTypeInit == Init => TypeOK
BY StatsAssumption DEF Init, TypeOK

LEMMA StatsTypeStep == TypeOK /\ [Next]_vars => TypeOK'
<1> SUFFICES ASSUME TypeOK, [Next]_vars PROVE TypeOK'
  OBVIOUS
<1>1. ASSUME NEW w \in Writers, NEW k \in Keys, NEW new \in Row, NEW delta \in [Counters -> Int],
             Write(w, k, new, delta)
      PROVE  TypeOK'
  <2>1. PICK m \in Surviving(w, delta) : cache' = IF cache = None THEN None ELSE Apply(cache, m)
    BY <1>1 DEF Write
  <2>2. m \in [Counters -> Int]
    BY <2>1 DEF Surviving
  <2>3. cache' \in {None} \cup [Counters -> Int]
    BY <2>1, <2>2 DEF TypeOK, Apply
  <2>4. txn' \in [Writers -> {None} \cup [key : Keys, row : Row]]
    BY <1>1 DEF Write, TypeOK
  <2>5. writes' \in 0..MaxWrites
    BY <1>1, StatsAssumption DEF Write, TypeOK
  <2> QED BY <1>1, <2>3, <2>4, <2>5 DEF Write, TypeOK
<1>2. ASSUME NEW w \in Writers, Request(w) PROVE TypeOK'
  BY <1>1, <1>2, RequestWrites
<1>3. ASSUME NEW w \in Writers, Commit(w) PROVE TypeOK'
  <2>1. txn[w] \in [key : Keys, row : Row]
    BY <1>3 DEF Commit, TypeOK
  <2>2. table' \in [Keys -> Row]
    BY <1>3, <2>1 DEF Commit, TypeOK
  <2> QED BY <1>3, <2>2 DEF Commit, TypeOK
<1>4. ASSUME NEW w \in Writers, Lose(w) PROVE TypeOK'
  BY <1>4 DEF Lose, TypeOK
<1>5. ASSUME NEW f \in Fillers, Count(f) PROVE TypeOK'
  BY <1>5, ComputeTyped DEF Count, TypeOK
<1>6. ASSUME NEW f \in Fillers, Store(f) PROVE TypeOK'
  <2>1. cache' \in [Counters -> Nat] /\ fill' \in [Fillers -> {None} \cup [Counters -> Nat]]
    BY <1>6 DEF Store, TypeOK
  <2> QED BY <1>6, <2>1 DEF Store, TypeOK
<1>7. CASE Evict
  BY <1>7 DEF Evict, TypeOK
<1>8. CASE UNCHANGED vars
  BY <1>8 DEF vars, TypeOK
<1> QED BY <1>2, <1>3, <1>4, <1>5, <1>6, <1>7, <1>8 DEF Next

(* Rows, requests under way and cached counters stay what they are, and a  *)
(* count is never of less than nothing, however hooks, commits, losses,    *)
(* refills and evictions interleave.                                       *)
THEOREM CountersTyped == Spec => []TypeOK
<1> QED BY StatsTypeInit, StatsTypeStep, PTL DEF Spec

(***************************************************************************)
(* A request that finds the counters right leaves them right.              *)
(***************************************************************************)
LEMMA IdleAhead == ASSUME TypeOK, ~Busy PROVE Ahead = table
<1>1. \A w \in Writers : txn[w] = None
  BY DEF Busy
<1>2. table = [k \in Keys |-> table[k]]
  BY DEF TypeOK
<1> QED BY <1>1, <1>2 DEF Ahead

(* Nothing is under way, so nothing of the move is lost.                   *)
LEMMA AheadAfterWrite ==
    ASSUME TypeOK, ~Busy, NEW w \in Writers, NEW k \in Keys, NEW new \in Row,
           NEW delta \in [Counters -> Int], Write(w, k, new, delta)
    PROVE  /\ Ahead' = [table EXCEPT ![k] = new]
           /\ cache' = IF cache = None THEN None ELSE Apply(cache, delta)
<1> DEFINE t == [key |-> k, row |-> new]
<1>1. /\ \A v \in Writers : txn[v] = None
      /\ txn' = [txn EXCEPT ![w] = t] /\ table' = table
  BY DEF Busy, Write
<1>2. t # None
  BY StatsAssumption
<1>3. txn'[w] = t /\ \A v \in Writers \ {w} : txn'[v] = None
  BY <1>1 DEF TypeOK
<1>4. ASSUME NEW j \in Keys
      PROVE  Ahead'[j] = IF j = k THEN new ELSE table[j]
  <2>1. (\E v \in Writers : txn'[v] # None /\ txn'[v].key = j) <=> j = k
    BY <1>2, <1>3
  <2>2. \A u \in {txn'[v] : v \in Writers} : u # None <=> u = t
    BY <1>2, <1>3
  <2>3. Ahead'[j] = IF \E v \in Writers : txn'[v] # None /\ txn'[v].key = j
                    THEN (CHOOSE u \in {txn'[v] : v \in Writers} : u # None /\ u.key = j).row
                    ELSE table'[j]
    BY DEF Ahead
  <2>4. CASE j = k
    <3>1. (CHOOSE u \in {txn'[v] : v \in Writers} : u # None /\ u.key = j) = t
      BY <1>3, <2>2, <2>4
    <3>2. Ahead'[j] = t.row
      BY <2>1, <2>3, <2>4, <3>1, Zenon
    <3> QED BY <2>4, <3>2
  <2>5. CASE j # k
    BY <1>1, <2>1, <2>3, <2>5
  <2> QED BY <2>4, <2>5
<1>5. Ahead' = [j \in Keys |-> Ahead'[j]]
  BY DEF Ahead
<1>6. Ahead' = [table EXCEPT ![k] = new]
  BY <1>4, <1>5 DEF TypeOK
<1>7. Surviving(w, delta) = {delta}
  <2>1. Surviving(w, delta) = {[c \in Counters |-> IF c \in lost THEN 0 ELSE delta[c]] : lost \in {{}}}
    BY <1>1 DEF Surviving
  <2>2. [c \in Counters |-> IF c \in {} THEN 0 ELSE delta[c]] = delta
    OBVIOUS
  <2> QED BY <2>1, <2>2
<1>8. cache' = IF cache = None THEN None ELSE Apply(cache, delta)
  BY <1>7 DEF Write
<1> QED BY <1>6, <1>8

LEMMA WriteAgrees ==
    ASSUME TypeOK, ~Busy, RightAhead, NEW w \in Writers, NEW k \in Keys, NEW new \in Row,
           NEW delta \in [Counters -> Int], Write(w, k, new, delta),
           Apply(Compute(table), delta) = Compute([table EXCEPT ![k] = new])
    PROVE  RightAhead'
<1>1. cache = None \/ cache = Compute(table)
  BY IdleAhead DEF RightAhead
<1>2. /\ Ahead' = [table EXCEPT ![k] = new]
      /\ cache' = IF cache = None THEN None ELSE Apply(cache, delta)
  BY AheadAfterWrite
<1>3. cache' = None \/ cache' = Compute(Ahead')
  BY <1>1, <1>2
<1> QED BY <1>3 DEF RightAhead

(* The requests whose hooks see the change.                                *)
LEMMA SaveAgrees ==
    ASSUME TypeOK, ~Busy, RightAhead, NEW w \in Writers, Saves(w)
    PROVE  RightAhead'
<1>1. Gone \in Row /\ table \in [Keys -> Row]
  BY DEF Gone, Row, TypeOK
<1>2. ASSUME NEW p \in Products, NEW new \in Row, new # table[p],
             Write(w, p, new, OnProductChange(table[p], new))
      PROVE  RightAhead'
  BY <1>1, <1>2, MovesTyped, ProductHook, WriteAgrees DEF Keys
<1>3. ASSUME NEW a \in Apps, NEW new \in Row, ApplicationWrite(w, a, new),
             new = Gone \/ ~Counted(table[a]) \/ new.farmer = table[a].farmer
      PROVE  RightAhead'
  BY <1>1, <1>3, MovesTyped, ApplicationHook, WriteAgrees DEF Keys, ApplicationWrite
<1>4. ASSUME NEW status \in ProductStates PROVE [Gone EXCEPT !.status = status] \in Row
  BY DEF Gone, Row, ProductStates, Absent
<1>5. ASSUME NEW p \in Products, NEW status \in ProductStates, ProductWrite(w, p, status),
             table[p].status # status
      PROVE  RightAhead'
  <2> DEFINE new == [Gone EXCEPT !.status = status]
  <2>1. new # table[p]
    BY <1>5 DEF Gone
  <2>2. Write(w, p, new, OnProductChange(table[p], new))
    BY <1>5 DEF ProductWrite
  <2> QED BY <1>2, <1>4, <2>1, <2>2
<1>6. ASSUME NEW p \in Products, CreateProduct(w, p) PROVE RightAhead'
  <2>1. table[p].status = Absent
    <3>1. table[p] = Gone
      BY <1>6 DEF CreateProduct
    <3> QED BY <3>1 DEF Gone
  <2>2. PICK status \in {"Active", "Pending Approval"} : ProductWrite(w, p, status)
    BY <1>6 DEF CreateProduct
  <2>3. status \in ProductStates /\ status # Absent
    BY DEF ProductStates, Absent
  <2> QED BY <1>5, <2>1, <2>2, <2>3
<1>7. ASSUME NEW p \in Products, DeleteProduct(w, p) PROVE RightAhead'
  BY <1>1, <1>2, <1>7 DEF DeleteProduct
<1>8. ASSUME NEW p \in Products, NEW s \in ProductStates, SetProductStatus(w, p, s) PROVE RightAhead'
  BY <1>5, <1>8 DEF SetProductStatus
<1>9. ASSUME NEW a \in Apps, DeleteApplication(w, a) PROVE RightAhead'
  BY <1>1, <1>3, <1>9 DEF DeleteApplication
<1>10. ASSUME NEW a \in Apps, NEW f \in Farmers \cup {None}, CreateApplication(w, a, f) PROVE RightAhead'
  <2>1. [status |-> "Active", stage |-> None, farmer |-> f] \in Row
    BY DEF Row, Absent, ArchetypeStates
  <2>2. ~Counted(table[a])
    BY <1>10, PendingIsCounted DEF CreateApplication
  <2> QED BY <1>3, <1>10, <2>1, <2>2 DEF CreateApplication
<1>11. ASSUME NEW a \in Apps, NEW s \in ArchetypeStates, NEW i \in Stages \cup {None},
              SaveApplication(w, a, s, i)
       PROVE  RightAhead'
  <2> DEFINE new == [table[a] EXCEPT !.status = s, !.stage = i]
  <2>1. table[a] \in Row /\ table[a].status # Absent
    BY <1>1, <1>11 DEF SaveApplication, Row, Keys
  <2>2. new \in Row /\ new.farmer = table[a].farmer
    BY <2>1 DEF Row, Absent, ArchetypeStates
  <2>3. ApplicationWrite(w, a, new)
    BY <1>11 DEF SaveApplication
  <2> QED BY <1>3, <2>2, <2>3
<1> QED BY <1>6, <1>7, <1>8, <1>9, <1>10, <1>11 DEF Saves

(* on_stage_moved, for a decided application: no other request moves one.  *)
LEMMA DecidedMoveAgrees ==
    ASSUME TypeOK, ~Busy, RightAhead, [Next]_vars, DecidedMove
    PROVE  RightAhead'
<1>1. PICK w \in Writers : Request(w)
  BY DEF DecidedMove, Next, vars, Commit, Lose, Count, Store, Evict
<1>2. CASE Saves(w)
  BY <1>2, SaveAgrees
<1>3. ASSUME NEW a \in Apps, NEW i \in Stages \cup ArchetypeStates, UpdateLoanStatus(w, a, i)
      PROVE  RightAhead'
  <2> DEFINE staged == [table[a] EXCEPT !.stage = i]
             target == ArchetypeOf(i)
  <2>1. PICK b \in Apps : /\ Ahead[b].status \in TerminalArchetypes
                          /\ Ahead'[b].status = Ahead[b].status
                          /\ Ahead'[b].stage # Ahead[b].stage
                          /\ ArchetypeOf(Ahead'[b].stage) = Ahead[b].status
    BY DEF DecidedMove
  <2>2. /\ table \in [Keys -> Row] /\ a \in Keys /\ b \in Keys
        /\ table[a] # Gone /\ target \in ArchetypeStates
    BY <1>3, StatsAssumption DEF TypeOK, Keys, UpdateLoanStatus, ArchetypeOf
  <2>3. table[a].status # Absent /\ table[a] \in Row
    BY <2>2 DEF Row
  <2>4. /\ staged \in Row /\ [staged EXCEPT !.status = target] \in Row
        /\ staged.stage = i /\ staged.status = table[a].status /\ staged.farmer = table[a].farmer
        /\ [staged EXCEPT !.status = target].stage = i
    BY <2>2, <2>3 DEF Row, Absent, ArchetypeStates
  <2> HIDE DEF staged, target
  <2>5. ASSUME NEW new \in Row, NEW delta \in [Counters -> Int], Write(w, a, new, delta), new.stage = i
        PROVE  b = a /\ table[a].status \in TerminalArchetypes /\ target = table[a].status
    BY <2>1, <2>2, <2>5, IdleAhead, AheadAfterWrite DEF target
  <2>6. \/ /\ table[a].status = target
           /\ Write(w, a, staged, IF DocStatus(target) = 0 THEN Still ELSE OnStageMoved(table[a], staged))
        \/ table[a].status # target /\ Write(w, a, [staged EXCEPT !.status = target], Still)
        \/ table[a].status # target /\ Write(w, a, staged, Still)
    BY <1>3 DEF UpdateLoanStatus, staged, target
  <2>7. /\ table[a].status = target /\ target \in TerminalArchetypes
        /\ Write(w, a, staged, IF DocStatus(target) = 0 THEN Still ELSE OnStageMoved(table[a], staged))
    <3>1. (IF DocStatus(target) = 0 THEN Still ELSE OnStageMoved(table[a], staged)) \in [Counters -> Int]
      BY MovesTyped
    <3> QED BY <2>4, <2>5, <2>6, <3>1, MovesTyped
  <2>8. DocStatus(target) # 0 /\ Counted(table[a])
    BY <2>7 DEF DocStatus, TerminalArchetypes, Counted, Absent
  <2>9. Write(w, a, staged, OnStageMoved(table[a], staged))
    BY <2>7, <2>8
  <2>10. Apply(Compute(table), OnStageMoved(table[a], staged)) = Compute([table EXCEPT ![a] = staged])
    BY <2>2, <2>4, <2>8, StageHook
  <2> QED BY <2>2, <2>4, <2>9, <2>10, MovesTyped, WriteAgrees
<1> QED BY <1>1, <1>2, <1>3 DEF Request, Saves

(* For any tables, any products, applications, stages and workers: the     *)
(* hooks of a request that runs alone agree with a cold recompute, be it   *)
(* several changes in one save, the first or last application of a farmer, *)
(* a deletion, or a move between the stages of an outcome.                 *)
THEOREM SavesKeepCounters == Spec => SavesAgree
<1>1. TypeOK /\ [Next]_vars
      => [RightAhead /\ ~Busy /\ (DecidedMove \/ \E w \in Writers : Saves(w)) => RightAhead']_vars
  BY SaveAgrees, DecidedMoveAgrees
<1> QED BY <1>1, CountersTyped, PTL DEF Spec, SavesAgree

(***************************************************************************)
(* StagePipeline: the labels that applications copy from their stages.     *)
(***************************************************************************)
EditType == [stage : [StageIds -> Stage], relabelled : SUBSET Apps]
MoveType == [app : Apps, to : Place, was : Place]
MapType  == [StageIds -> Labels \cup {None}]

(* An application on a stage has a label, and so has a move to a stage.    *)
Labelled ==
    /\ \A a \in Apps : app[a].stage # None => app[a].label \in Labels
    /\ \A w \in Movers : move[w] # None /\ move[w].to.stage # None => move[w].to.label \in Labels

(* The edit under way relabels applications of stages it keeps, and leaves *)
(* to the others, those apart that raced, the label they have.             *)
EditCovers ==
    edit # None =>
        /\ \A a \in edit.relabelled : app[a].stage \in StageIds /\ edit.stage[app[a].stage] \in Labels
        /\ \A a \in Apps \ raced :
               app[a].stage # None /\ a \notin edit.relabelled
               => edit.stage[app[a].stage] = app[a].label

(***************************************************************************)
(* Types.                                                                  *)
(***************************************************************************)
LEMMA StagesTyped ==
    PipelineTypeOK => /\ \A s \in StageIds : stage[s] \in Stage
                      /\ StageMap \in MapType
                      /\ None \notin StageIds /\ None \notin Labels
BY PipelineAssumption DEF PipelineTypeOK, StageMap, MapType, Existing

LEMMA PipelineTypeInit == PipelineInit => PipelineTypeOK
<1> SUFFICES ASSUME PipelineInit PROVE PipelineTypeOK
  OBVIOUS
<1>1. stage \in [StageIds -> Stage]
  BY DEF PipelineInit, Stage
<1>2. [stage |-> None, label |-> None] \in Place
  BY DEF Place
<1>3. app \in [Apps -> Place]
  BY <1>2 DEF PipelineInit
<1>4. /\ move \in [Movers -> {None} \cup MoveType] /\ map \in {None} \cup MapType
      /\ found \in [Readers -> {None} \cup MapType]
  BY DEF PipelineInit
<1> QED BY <1>1, <1>3, <1>4, PipelineAssumption DEF PipelineInit, PipelineTypeOK, MoveType, MapType

LEMMA EditTyped ==
    ASSUME PipelineTypeOK, NEW after \in [StageIds -> Stage], NEW relabelled \in SUBSET Apps, Edit(after, relabelled)
    PROVE  PipelineTypeOK'
<1>1. edit' \in EditType
  BY DEF Edit, EditType
<1>2. edits' \in 0..MaxEdits
  BY PipelineAssumption DEF Edit, PipelineTypeOK
<1>3. map' = None /\ UNCHANGED <<stage, app, move, found, raced>>
  BY DEF Edit
<1> QED BY <1>1, <1>2, <1>3 DEF PipelineTypeOK, EditType

LEMMA PipelineTypeStep == PipelineTypeOK /\ EditCovers /\ [PipelineNext]_pipelineVars => PipelineTypeOK'
<1> SUFFICES ASSUME PipelineTypeOK, EditCovers, [PipelineNext]_pipelineVars PROVE PipelineTypeOK'
  OBVIOUS
<1>1. ASSUME NEW s \in StageIds, NEW label \in Labels, AddStage(s, label) PROVE PipelineTypeOK'
  <2>1. [stage EXCEPT ![s] = label] \in [StageIds -> Stage]
    BY DEF PipelineTypeOK, Stage
  <2>2. {} \in SUBSET Apps
    OBVIOUS
  <2>3. Edit([stage EXCEPT ![s] = label], {})
    BY <1>1 DEF AddStage
  <2> QED BY <2>1, <2>2, <2>3, EditTyped
<1>2. ASSUME NEW D \in SUBSET StageIds, NEW want \in [D -> Labels], SyncStages(want) PROVE PipelineTypeOK'
  <2>1. PICK gone \in SUBSET StageIds :
            Edit([s \in StageIds |-> IF s \in DOMAIN want THEN want[s]
                                     ELSE IF s \in gone THEN "deleted" ELSE stage[s]],
                 Relabelled(want))
    BY <1>2 DEF SyncStages, Existing
  <2>2. [s \in StageIds |-> IF s \in DOMAIN want THEN want[s]
                            ELSE IF s \in gone THEN "deleted" ELSE stage[s]] \in [StageIds -> Stage]
    BY DEF PipelineTypeOK, Stage
  <2>3. Relabelled(want) \in SUBSET Apps
    BY DEF Relabelled, On
  <2> QED BY <2>1, <2>2, <2>3, EditTyped
<1>3. CASE CommitEdit
  <2>1. edit \in EditType
    BY <1>3 DEF CommitEdit, PipelineTypeOK, EditType
  <2>2. stage' \in [StageIds -> Stage]
    BY <1>3, <2>1 DEF CommitEdit, EditType
  <2>3. app' \in [Apps -> Place]
    <3>1. \A a \in edit.relabelled : edit.stage[app[a].stage] \in Labels
      BY <1>3 DEF CommitEdit, EditCovers
    <3>2. \A old \in Place, label \in Labels : [old EXCEPT !.label = label] \in Place
      BY DEF Place
    <3>3. \A a \in Apps : app[a] \in Place
      BY DEF PipelineTypeOK
    <3>4. \A a \in Apps : (IF a \in edit.relabelled
                            THEN [app[a] EXCEPT !.label = edit.stage[app[a].stage]] ELSE app[a]) \in Place
      BY <3>1, <3>2, <3>3
    <3> QED BY <1>3, <3>4 DEF CommitEdit
  <2> QED BY <1>3, <2>2, <2>3 DEF CommitEdit, PipelineTypeOK
<1>4. CASE LoseEdit
  BY <1>4 DEF LoseEdit, PipelineTypeOK
<1>5. ASSUME NEW w \in Movers, NEW a \in Apps, NEW s \in StageIds \cup Bare, Resolve(w, a, s) PROVE PipelineTypeOK'
  <2> DEFINE m == [app |-> a, to |-> Resolved(s), was |-> app[a]]
  <2>1. m \in MoveType
    <3>1. Resolved(s) \in Place
      BY <1>5 DEF Resolve, Resolved, Existing, Place
    <3>2. app[a] \in Place
      BY DEF PipelineTypeOK
    <3> QED BY <3>1, <3>2 DEF MoveType
  <2>2. move' = [move EXCEPT ![w] = m] /\ UNCHANGED <<stage, app, edit, map, found, raced, edits>>
    BY <1>5 DEF Resolve
  <2> HIDE DEF m
  <2>3. move' \in [Movers -> {None} \cup MoveType]
    BY <2>1, <2>2 DEF PipelineTypeOK, MoveType
  <2> QED BY <2>2, <2>3 DEF PipelineTypeOK, MoveType
<1>6. ASSUME NEW w \in Movers, WriteMove(w) PROVE PipelineTypeOK'
  <2>1. move[w] \in MoveType /\ UNCHANGED <<stage, edit, map, found, edits>>
    BY <1>6 DEF WriteMove, PipelineTypeOK, MoveType
  <2>2. move' \in [Movers -> {None} \cup MoveType]
    BY <1>6 DEF WriteMove, PipelineTypeOK, MoveType
  <2>3. app' \in [Apps -> Place] /\ raced' \subseteq Apps
    <3>1. move[w].app \in Apps /\ move[w].to \in Place
      BY <2>1 DEF MoveType
    <3> QED BY <1>6, <3>1 DEF WriteMove, PipelineTypeOK
  <2> QED BY <2>1, <2>2, <2>3 DEF PipelineTypeOK, MoveType
<1>7. ASSUME NEW r \in Readers, ReadMap(r) \/ CacheMap(r) PROVE PipelineTypeOK'
  <2>1. UNCHANGED <<stage, app, edit, move, raced, edits>>
    BY <1>7 DEF ReadMap, CacheMap
  <2>2. map \in {None} \cup MapType /\ found \in [Readers -> {None} \cup MapType]
    BY DEF PipelineTypeOK, MapType
  <2>3. found' \in [Readers -> {None} \cup MapType]
    BY <1>7, <2>2, StagesTyped DEF ReadMap, CacheMap
  <2>4. map' \in {None} \cup MapType
    BY <1>7, <2>2 DEF ReadMap, CacheMap
  <2> QED BY <2>1, <2>3, <2>4 DEF PipelineTypeOK, MapType
<1>8. CASE Expire
  BY <1>8 DEF Expire, PipelineTypeOK
<1>9. CASE UNCHANGED pipelineVars
  BY <1>9 DEF pipelineVars, PipelineTypeOK
<1> QED BY <1>1, <1>2, <1>3, <1>4, <1>5, <1>6, <1>7, <1>8, <1>9 DEF PipelineNext

(***************************************************************************)
(* Labels.                                                                 *)
(***************************************************************************)
PipelineInv == PipelineTypeOK /\ Labelled /\ EditCovers /\ OnlyRacesDrift

LEMMA LabelsInit == PipelineInit => PipelineInv
<1> SUFFICES ASSUME PipelineInit PROVE PipelineInv
  OBVIOUS
<1>1. Labelled /\ EditCovers /\ OnlyRacesDrift
  BY DEF PipelineInit, Labelled, EditCovers, OnlyRacesDrift
<1> QED BY <1>1, PipelineTypeInit DEF PipelineInv

(* An edit that relabels applications of stages it keeps, and alters no    *)
(* stage of another that has not raced, covers them all.                   *)
LEMMA EditInv ==
    ASSUME PipelineInv, NEW after, NEW relabelled \in SUBSET Apps, Edit(after, relabelled),
           \A a \in relabelled : app[a].stage \in StageIds /\ after[app[a].stage] \in Labels,
           \A a \in Apps \ raced : app[a].stage # None /\ a \notin relabelled
                                  => after[app[a].stage] = app[a].label
    PROVE  (Labelled /\ EditCovers /\ OnlyRacesDrift)'
<1>1. UNCHANGED <<stage, app, move, raced>> /\ edit' = [stage |-> after, relabelled |-> relabelled]
  BY DEF Edit
<1>2. EditCovers'
  BY <1>1 DEF EditCovers
<1>3. Labelled' /\ OnlyRacesDrift'
  BY <1>1 DEF Labelled, OnlyRacesDrift, PipelineInv
<1> QED BY <1>2, <1>3

LEMMA LabelsStep == PipelineInv /\ [PipelineNext]_pipelineVars => (Labelled /\ EditCovers /\ OnlyRacesDrift)'
<1> SUFFICES ASSUME PipelineInv, [PipelineNext]_pipelineVars PROVE (Labelled /\ EditCovers /\ OnlyRacesDrift)'
  OBVIOUS
<1> DEFINE Good == (Labelled /\ EditCovers /\ OnlyRacesDrift)'
<1> USE DEF PipelineInv
(* An application's stage exists, unless the application raced.            *)
<1>0. ASSUME NEW a \in Apps \ raced, app[a].stage # None
      PROVE  app[a].stage \in Existing /\ stage[app[a].stage] = app[a].label
  BY <1>0 DEF Labelled, OnlyRacesDrift, PipelineTypeOK, Place, Existing
<1>1. ASSUME NEW s \in StageIds, NEW label \in Labels, AddStage(s, label) PROVE Good
  <2> DEFINE after == [stage EXCEPT ![s] = label]
  <2>1. stage[s] \notin Labels
    BY <1>1, PipelineAssumption DEF AddStage
  <2>2. \A a \in Apps \ raced : app[a].stage # None => after[app[a].stage] = app[a].label
    BY <1>0, <2>1 DEF Existing, PipelineTypeOK
  <2>3. Edit(after, {}) /\ {} \in SUBSET Apps
    BY <1>1 DEF AddStage
  <2> HIDE DEF after
  <2> QED BY <2>2, <2>3, EditInv
<1>2. ASSUME NEW D \in SUBSET StageIds, NEW want \in [D -> Labels], SyncStages(want) PROVE Good
  <2>1. PICK gone \in SUBSET StageIds :
            /\ \A s \in gone : s \in Existing \ DOMAIN want /\ On(s) = {}
            /\ Edit([s \in StageIds |-> IF s \in DOMAIN want THEN want[s]
                                        ELSE IF s \in gone THEN "deleted" ELSE stage[s]],
                    Relabelled(want))
    BY <1>2 DEF SyncStages, Existing
  <2> DEFINE after == [s \in StageIds |-> IF s \in DOMAIN want THEN want[s]
                                          ELSE IF s \in gone THEN "deleted" ELSE stage[s]]
  <2>2. \A a \in Apps : a \in Relabelled(want) <=>
            /\ app[a].stage \in D /\ app[a].stage \in Existing
            /\ want[app[a].stage] # stage[app[a].stage]
    BY DEF Relabelled, On
  <2>3. Relabelled(want) \in SUBSET Apps
    BY DEF Relabelled, On
  <2>4. \A a \in Relabelled(want) : app[a].stage \in StageIds /\ after[app[a].stage] \in Labels
    BY <2>2, <2>3
  <2>5. ASSUME NEW a \in Apps \ raced, app[a].stage # None, a \notin Relabelled(want)
        PROVE  after[app[a].stage] = app[a].label
    <3>1. app[a].stage \in Existing /\ app[a].stage \in StageIds /\ stage[app[a].stage] = app[a].label
      BY <1>0, <2>5 DEF Existing
    <3>2. app[a].stage \notin gone
      BY <2>1 DEF On
    <3> QED BY <2>2, <2>5, <3>1, <3>2
  <2>6. Edit(after, Relabelled(want))
    BY <2>1
  <2> HIDE DEF after
  <2> QED BY <2>3, <2>4, <2>5, <2>6, EditInv
<1>3. CASE CommitEdit
  <2>1. ASSUME NEW a \in Apps
        PROVE  /\ a \in edit.relabelled => app'[a] = [app[a] EXCEPT !.label = edit.stage[app[a].stage]]
               /\ a \notin edit.relabelled => app'[a] = app[a]
    BY <1>3 DEF CommitEdit
  <2>2. /\ edit # None /\ edit' = None /\ stage' = edit.stage /\ move' = move
        /\ raced' = raced \ edit.relabelled
    BY <1>3 DEF CommitEdit
  <2>3. ASSUME NEW a \in Apps, a \in edit.relabelled
        PROVE  /\ app'[a].stage = app[a].stage /\ app'[a].label = stage'[app[a].stage]
               /\ app'[a].label \in Labels
    <3>1. app[a] \in Place /\ edit.stage[app[a].stage] \in Labels
      BY <2>2, <2>3 DEF EditCovers, PipelineTypeOK
    <3> QED BY <2>1, <2>2, <2>3, <3>1 DEF Place
  <2>4. ASSUME NEW a \in Apps, app'[a].stage # None PROVE app'[a].label \in Labels
    BY <2>1, <2>3, <2>4 DEF Labelled
  <2>5. ASSUME NEW a \in Apps \ raced', app'[a].stage # None PROVE stage'[app'[a].stage] = app'[a].label
    BY <2>1, <2>2, <2>3, <2>5 DEF EditCovers
  <2>6. Labelled'
    BY <2>2, <2>4 DEF Labelled
  <2>7. EditCovers' /\ OnlyRacesDrift'
    BY <2>2, <2>5 DEF EditCovers, OnlyRacesDrift
  <2> QED BY <2>6, <2>7
<1>4. CASE LoseEdit
  BY <1>4 DEF LoseEdit, Labelled, EditCovers, OnlyRacesDrift
<1>5. ASSUME NEW w \in Movers, NEW a \in Apps, NEW s \in StageIds \cup Bare, Resolve(w, a, s) PROVE Good
  <2>1. UNCHANGED <<stage, app, edit, raced>>
    BY <1>5 DEF Resolve
  <2>2. \A v \in Movers : move'[v] # None /\ move'[v].to.stage # None => move'[v].to.label \in Labels
    <3>1. Resolved(s).stage # None => Resolved(s).label \in Labels
      BY <1>5 DEF Resolve, Resolved, Existing
    <3> QED BY <1>5, <3>1 DEF Resolve, Labelled, PipelineTypeOK
  <2>3. Labelled'
    BY <2>1, <2>2 DEF Labelled
  <2>4. EditCovers' /\ OnlyRacesDrift'
    BY <2>1 DEF EditCovers, OnlyRacesDrift
  <2> QED BY <2>3, <2>4
<1>6. ASSUME NEW w \in Movers, WriteMove(w) PROVE Good
  <2> DEFINE m == move[w]
  <2>1. /\ m # None /\ m \in MoveType /\ UNCHANGED <<stage, edit>>
        /\ edit # None => m.app \notin edit.relabelled
        /\ move' = [move EXCEPT ![w] = None]
    BY <1>6 DEF WriteMove, PipelineTypeOK, MoveType
  <2>2. \A v \in Movers : move'[v] # None => move'[v] = move[v]
    BY <2>1 DEF PipelineTypeOK
  <2>3. CASE UNCHANGED <<app, raced>>
    BY <2>1, <2>2, <2>3 DEF Labelled, EditCovers, OnlyRacesDrift
  <2>4. CASE /\ app' = [app EXCEPT ![m.app] = m.to]
             /\ raced' = IF Races(m) THEN raced \cup {m.app} ELSE raced \ {m.app}
    <3>1. /\ app'[m.app] = m.to
          /\ \A a \in Apps \ {m.app} : app'[a] = app[a] /\ (a \in raced' <=> a \in raced)
          /\ m.app \in Apps
      BY <2>1, <2>4 DEF PipelineTypeOK, MoveType
    <3>2. m.app \notin raced' /\ m.to.stage # None
          => stage[m.to.stage] = m.to.label /\ (edit # None => edit.stage[m.to.stage] = m.to.label)
      BY <2>4 DEF Races
    <3>3. Labelled'
      BY <2>1, <2>2, <3>1 DEF Labelled
    <3>4. EditCovers'
      <4> SUFFICES ASSUME edit # None
                   PROVE  /\ \A a \in edit.relabelled :
                                 app'[a].stage \in StageIds /\ edit.stage[app'[a].stage] \in Labels
                          /\ \A a \in Apps \ raced' :
                                 app'[a].stage # None /\ a \notin edit.relabelled
                                 => edit.stage[app'[a].stage] = app'[a].label
        BY <2>1 DEF EditCovers
      <4>1. edit.relabelled \subseteq Apps \ {m.app}
        BY <2>1 DEF PipelineTypeOK
      <4>2. \A a \in edit.relabelled : app[a].stage \in StageIds /\ edit.stage[app[a].stage] \in Labels
        BY DEF EditCovers
      <4>3. ASSUME NEW a \in Apps \ raced', app'[a].stage # None, a \notin edit.relabelled
            PROVE  edit.stage[app'[a].stage] = app'[a].label
        <5>1. CASE a = m.app
          BY <3>1, <3>2, <4>3, <5>1
        <5>2. CASE a # m.app
          BY <3>1, <4>3, <5>2 DEF EditCovers
        <5> QED BY <5>1, <5>2
      <4> QED BY <3>1, <4>1, <4>2, <4>3
    <3>5. OnlyRacesDrift'
      BY <2>1, <3>1, <3>2 DEF OnlyRacesDrift
    <3> QED BY <3>3, <3>4, <3>5
  <2> QED BY <1>6, <2>3, <2>4 DEF WriteMove
<1>7. CASE Expire \/ \E r \in Readers : ReadMap(r) \/ CacheMap(r)
  <2>1. UNCHANGED <<stage, app, edit, move, raced>>
    BY <1>7 DEF Expire, ReadMap, CacheMap
  <2> QED BY <2>1 DEF Labelled, EditCovers, OnlyRacesDrift
<1>8. CASE UNCHANGED pipelineVars
  BY <1>8 DEF pipelineVars, Labelled, EditCovers, OnlyRacesDrift
<1> QED BY <1>1, <1>2, <1>3, <1>4, <1>5, <1>6, <1>7, <1>8 DEF PipelineNext

LEMMA PipelineInvariant == PipelineSpec => []PipelineInv
<1>1. PipelineInv /\ [PipelineNext]_pipelineVars => PipelineInv'
  BY PipelineTypeStep, LabelsStep DEF PipelineInv
<1> QED BY <1>1, LabelsInit, PTL DEF PipelineSpec

(* For any pipeline: tables, requests and maps are well typed, and a cached*)
(* map gives a label to stages only, never "deleted".                      *)
THEOREM PipelineTyped == PipelineSpec => []PipelineTypeOK
<1>1. PipelineInv => PipelineTypeOK
  BY DEF PipelineInv
<1> QED BY <1>1, PipelineInvariant, PTL

(* For any pipeline and any edits of it: an application is on a stage that *)
(* exists and carries its label, unless the request that put it there ran  *)
(* beside an edit of that stage.                                           *)
THEOREM LabelsFollow == PipelineSpec => []OnlyRacesDrift
<1>1. PipelineInv => OnlyRacesDrift
  BY DEF PipelineInv
<1> QED BY <1>1, PipelineInvariant, PTL
=============================================================================
