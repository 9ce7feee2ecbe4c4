------------------------ MODULE ReferenceContextProofs ------------------------
(***************************************************************************)
(* Lemmas about the lists of ReferenceContext: what a list keeps, where    *)
(* what it keeps comes from, and what its limit pushes out, for any rows,  *)
(* scores, keys and limits.                                                *)
(***************************************************************************)
EXTENDS ReferenceContext, FiniteSetTheorems, TLAPS

(* Ranks.  The rank of an element is the number of elements before it; in  *)
(* a finite set with a strict total order the ranks are 0, 1, 2, ...       *)

Before(S, order, x) == {y \in S : <<y, x>> \in order}

StrictOrder(S, order) ==
    /\ \A x \in S : <<x, x>> \notin order
    /\ \A x, y, z \in S : <<x, y>> \in order /\ <<y, z>> \in order => <<x, z>> \in order
    /\ \A x, y \in S : x # y => <<x, y>> \in order \/ <<y, x>> \in order

LEMMA RankGrows ==
    ASSUME NEW S, IsFiniteSet(S), NEW order, StrictOrder(S, order),
           NEW x \in S, NEW y \in S, <<x, y>> \in order
    PROVE  Cardinality(Before(S, order, x)) < Cardinality(Before(S, order, y))
<1> DEFINE A == Before(S, order, x)
           B == Before(S, order, y)
<1>1. A \subseteq B /\ x \in B /\ x \notin A
  BY DEF StrictOrder, Before
<1>2. B \in SUBSET S /\ A \in SUBSET B
  BY <1>1 DEF Before
<1> HIDE DEF A, B
<1>3. IsFiniteSet(B)
  BY <1>2, FS_Subset
<1>4. /\ IsFiniteSet(A) /\ Cardinality(A) <= Cardinality(B)
      /\ Cardinality(B) = Cardinality(A) => B = A
  BY <1>2, <1>3, FS_Subset
<1>5. Cardinality(A) \in Nat /\ Cardinality(B) \in Nat
  BY <1>3, <1>4, FS_CardinalityType
<1>6. Cardinality(A) < Cardinality(B)
  BY <1>1, <1>4, <1>5
<1> QED BY <1>6 DEF A, B

LEMMA RankBounded ==
    ASSUME NEW S, IsFiniteSet(S), NEW order, StrictOrder(S, order), NEW x \in S
    PROVE  Cardinality(Before(S, order, x)) \in 0..(Cardinality(S) - 1)
<1> DEFINE A == Before(S, order, x)
<1>1. A \in SUBSET S /\ x \notin A
  BY DEF StrictOrder, Before
<1> HIDE DEF A
<1>2. /\ IsFiniteSet(A) /\ Cardinality(A) <= Cardinality(S)
      /\ Cardinality(S) = Cardinality(A) => S = A
  BY <1>1, FS_Subset
<1>3. Cardinality(A) \in Nat /\ Cardinality(S) \in Nat
  BY <1>2, FS_CardinalityType
<1>4. Cardinality(A) \in 0..(Cardinality(S) - 1)
  BY <1>1, <1>2, <1>3
<1> QED BY <1>4 DEF A

\* Every rank is taken, by the pigeonhole principle.
LEMMA RankTaken ==
    ASSUME NEW S, IsFiniteSet(S), NEW order, StrictOrder(S, order), NEW k \in 1..Cardinality(S)
    PROVE  \E x \in S : Cardinality(Before(S, order, x)) = k - 1
<1> DEFINE rank == [x \in S |-> Cardinality(Before(S, order, x))]
           ranks == 0..(Cardinality(S) - 1)
<1>1. Cardinality(S) \in Nat
  BY FS_CardinalityType
<1>2. IsFiniteSet(ranks) /\ Cardinality(ranks) = Cardinality(S)
  <2>1. 0 \in Int /\ Cardinality(S) - 1 \in Int
    BY <1>1
  <2>2. /\ IsFiniteSet(0..(Cardinality(S) - 1))
        /\ Cardinality(0..(Cardinality(S) - 1)) =
              IF 0 > Cardinality(S) - 1 THEN 0 ELSE Cardinality(S) - 1 - 0 + 1
    BY <2>1, FS_Interval
  <2> QED BY <1>1, <2>2
<1>3. rank \in [S -> ranks]
  BY RankBounded
<1>4. ASSUME NEW x \in S, NEW y \in S, x # y PROVE rank[x] # rank[y]
  <2>1. rank[x] < rank[y] \/ rank[y] < rank[x]
    BY <1>4, RankGrows DEF StrictOrder
  <2> QED BY <1>1, <1>3, <2>1
<1>5. rank \in Injection(S, ranks)
  BY <1>3, <1>4 DEF Injection, IsInjective
<1> HIDE DEF rank, ranks
<1>6. rank \in Surjection(S, ranks)
  BY <1>2, <1>5, FS_Injection
<1>7. k - 1 \in ranks
  BY <1>1 DEF ranks
<1>8. PICK x \in S : rank[x] = k - 1
  BY <1>6, <1>7 DEF Surjection
<1> QED BY <1>8 DEF rank
-----------------------------------------------------------------------------
(* Places of a list.                                                       *)

LEMMA PlacesFinite ==
    ASSUME NEW n \in Nat, NEW places \in SUBSET (1..n)
    PROVE  IsFiniteSet(places) /\ Cardinality(places) \in 0..n
<1>1. IsFiniteSet(1..n) /\ Cardinality(1..n) = n
  <2>1. 1 \in Int /\ n \in Int
    OBVIOUS
  <2>2. IsFiniteSet(1..n) /\ Cardinality(1..n) = IF 1 > n THEN 0 ELSE n - 1 + 1
    BY <2>1, FS_Interval
  <2> QED BY <2>2
<1>2. IsFiniteSet(places) /\ Cardinality(places) <= n
  BY <1>1, FS_Subset
<1> QED BY <1>2, FS_CardinalityType

Earlier(places) == {pq \in places \X places : pq[1] < pq[2]}

LEMMA PlacesOrdered ==
    ASSUME NEW n \in Nat, NEW places \in SUBSET (1..n)
    PROVE  /\ StrictOrder(places, Earlier(places))
           /\ \A p \in places : Cardinality(Before(places, Earlier(places), p)) = Rank(places, p)
<1>1. StrictOrder(places, Earlier(places))
  BY DEF StrictOrder, Earlier
<1>2. ASSUME NEW p \in places
      PROVE  Before(places, Earlier(places), p) = {q \in places : q < p}
  BY DEF Earlier, Before
<1> QED BY <1>1, <1>2 DEF Rank

LEMMA RankOfPlace ==
    ASSUME NEW n \in Nat, NEW places \in SUBSET (1..n), NEW p \in places
    PROVE  /\ Rank(places, p) \in 0..(Cardinality(places) - 1)
           /\ \A q \in places : p < q => Rank(places, p) < Rank(places, q)
           /\ \A q \in places : Rank(places, p) = Rank(places, q) => p = q
<1>1. IsFiniteSet(places) /\ Cardinality(places) \in Nat
  BY PlacesFinite
<1>2. \A q \in places : Rank(places, q) \in 0..(Cardinality(places) - 1)
  <2> SUFFICES ASSUME NEW q \in places PROVE Rank(places, q) \in 0..(Cardinality(places) - 1)
    OBVIOUS
  <2>1. StrictOrder(places, Earlier(places))
    BY PlacesOrdered
  <2>2. Cardinality(Before(places, Earlier(places), q)) \in 0..(Cardinality(places) - 1)
    BY <1>1, <2>1, RankBounded
  <2>3. Cardinality(Before(places, Earlier(places), q)) = Rank(places, q)
    BY PlacesOrdered
  <2> QED BY <2>2, <2>3
<1>3. ASSUME NEW q \in places, NEW r \in places, q < r
      PROVE  Rank(places, q) < Rank(places, r)
  <2>1. <<q, r>> \in Earlier(places) /\ StrictOrder(places, Earlier(places))
    BY <1>3, PlacesOrdered DEF Earlier
  <2>2. Cardinality(Before(places, Earlier(places), q)) < Cardinality(Before(places, Earlier(places), r))
    BY <1>1, <2>1, RankGrows
  <2>3. /\ Cardinality(Before(places, Earlier(places), q)) = Rank(places, q)
        /\ Cardinality(Before(places, Earlier(places), r)) = Rank(places, r)
    BY PlacesOrdered
  <2> QED BY <2>2, <2>3
<1>4. ASSUME NEW q \in places, Rank(places, p) = Rank(places, q)
      PROVE  p = q
  <2>1. ~(p < q) /\ ~(q < p)
    BY <1>2, <1>3, <1>4
  <2> QED BY <2>1
<1> QED BY <1>2, <1>3, <1>4

\* The k-th place is one, and comes after k - 1 others.
LEMMA NthPlace ==
    ASSUME NEW n \in Nat, NEW places \in SUBSET (1..n), NEW k \in 1..Cardinality(places)
    PROVE  Nth(places, k) \in places /\ Rank(places, Nth(places, k)) = k - 1
<1>1. IsFiniteSet(places) /\ StrictOrder(places, Earlier(places))
  BY PlacesFinite, PlacesOrdered
<1>2. PICK p \in places : Cardinality(Before(places, Earlier(places), p)) = k - 1
  BY <1>1, RankTaken
<1>3. Rank(places, p) = k - 1
  BY <1>2, PlacesOrdered
<1> QED BY <1>3 DEF Nth

\* Places are taken in order, and every one of them.
LEMMA NthInOrder ==
    ASSUME NEW n \in Nat, NEW places \in SUBSET (1..n)
    PROVE  /\ \A j, k \in 1..Cardinality(places) : j < k => Nth(places, j) < Nth(places, k)
           /\ \A p \in places : \E k \in 1..Cardinality(places) : Nth(places, k) = p
<1>1. Cardinality(places) \in Nat
  BY PlacesFinite
<1>2. \A p \in places : /\ Rank(places, p) \in 0..(Cardinality(places) - 1)
                        /\ \A q \in places : p < q => Rank(places, p) < Rank(places, q)
                        /\ \A q \in places : Rank(places, p) = Rank(places, q) => p = q
  BY RankOfPlace
<1>3. \A k \in 1..Cardinality(places) :
         Nth(places, k) \in places /\ Rank(places, Nth(places, k)) = k - 1
  BY NthPlace
<1>4. ASSUME NEW j \in 1..Cardinality(places), NEW k \in 1..Cardinality(places), j < k
      PROVE  Nth(places, j) < Nth(places, k)
  <2>1. /\ Nth(places, j) \in places /\ Nth(places, k) \in places
        /\ Rank(places, Nth(places, j)) = j - 1 /\ Rank(places, Nth(places, k)) = k - 1
    BY <1>3
  <2>2. PICK p \in places, q \in places : p = Nth(places, j) /\ q = Nth(places, k)
    BY <2>1
  <2>3. Rank(places, p) < Rank(places, q)
    BY <1>4, <2>1, <2>2
  <2>4. p \in Int /\ q \in Int /\ Rank(places, p) \in Int /\ Rank(places, q) \in Int
    BY <1>1, <1>2
  <2>5. q < p => Rank(places, q) < Rank(places, p)
    BY <1>2
  <2>6. p < q
    BY <2>3, <2>4, <2>5
  <2> QED BY <2>2, <2>6
<1>5. ASSUME NEW p \in places
      PROVE  \E k \in 1..Cardinality(places) : Nth(places, k) = p
  <2> DEFINE k == Rank(places, p) + 1
  <2>1. k \in 1..Cardinality(places) /\ k - 1 = Rank(places, p)
    BY <1>1, <1>2
  <2> HIDE DEF k
  <2>2. Nth(places, k) \in places /\ Rank(places, Nth(places, k)) = k - 1
    BY <1>3, <2>1
  <2> QED BY <1>2, <2>1, <2>2
<1> QED BY <1>4, <1>5

LEMMA NthOfRank ==
    ASSUME NEW n \in Nat, NEW places \in SUBSET (1..n), NEW p \in places
    PROVE  /\ Rank(places, p) \in Nat /\ Rank(places, p) + 1 \in 1..Cardinality(places)
           /\ Nth(places, Rank(places, p) + 1) = p
<1> DEFINE k == Rank(places, p) + 1
<1>1. k \in 1..Cardinality(places) /\ k - 1 = Rank(places, p) /\ Rank(places, p) \in Nat
  <2>1. Cardinality(places) \in Nat
    BY PlacesFinite
  <2>2. Rank(places, p) \in 0..(Cardinality(places) - 1)
    BY RankOfPlace
  <2> QED BY <2>1, <2>2
<1> HIDE DEF k
<1>2. Nth(places, k) \in places /\ Rank(places, Nth(places, k)) = Rank(places, p)
  BY <1>1, NthPlace
<1>3. Nth(places, k) = p
  BY <1>2, RankOfPlace
<1> QED BY <1>1, <1>3 DEF k

\* Some place is the first.
LEMMA FirstPlace ==
    ASSUME NEW n \in Nat, NEW places \in SUBSET (1..n), places # {}
    PROVE  \E p \in places : \A q \in places : p <= q
<1>1. IsFiniteSet(places) /\ Cardinality(places) \in Nat
  BY PlacesFinite
<1>2. Cardinality(places) # 0
  BY <1>1, FS_EmptySet
<1>3. 1 \in 1..Cardinality(places)
  BY <1>1, <1>2
<1> DEFINE p == Nth(places, 1)
<1>4. p \in places /\ Rank(places, p) = 0
  BY <1>3, NthPlace
<1>5. ASSUME NEW q \in places PROVE ~(q < p)
  <2>1. /\ Rank(places, q) \in 0..(Cardinality(places) - 1)
        /\ q < p => Rank(places, q) < Rank(places, p)
    BY <1>4, RankOfPlace
  <2> QED BY <1>4, <2>1
<1> HIDE DEF p
<1>6. \A q \in places : q \in Int
  OBVIOUS
<1>7. \A q \in places : p <= q
  BY <1>4, <1>5, <1>6
<1> QED BY <1>4, <1>7
-----------------------------------------------------------------------------
(* Lists.                                                                  *)

\* One list takes some places of another, in order.
Takes(part, list, src) ==
    /\ part = [k \in 1..Len(part) |-> list[src[k]]] /\ Len(part) \in Nat
    /\ src \in [1..Len(part) -> DOMAIN list]
    /\ \A j, k \in 1..Len(part) : j < k => src[j] < src[k]

LEMMA PickTakes ==
    ASSUME NEW S, NEW list \in Seq(S), NEW places \in SUBSET DOMAIN list
    PROVE  /\ Pick(list, places) \in Seq(S) /\ Len(Pick(list, places)) = Cardinality(places)
           /\ \E src : /\ Takes(Pick(list, places), list, src)
                       /\ \A k \in 1..Len(Pick(list, places)) : src[k] \in places
                       /\ \A p \in places : \E k \in 1..Len(Pick(list, places)) : src[k] = p
<1> DEFINE c == Cardinality(places)
           src == [k \in 1..c |-> Nth(places, k)]
<1>1. Len(list) \in Nat /\ places \in SUBSET (1..Len(list)) /\ DOMAIN list = 1..Len(list)
  OBVIOUS
<1>2. c \in Nat
  BY <1>1, PlacesFinite
<1>3. \A k \in 1..c : Nth(places, k) \in places
  BY <1>1, NthPlace
<1>4. /\ \A j, k \in 1..c : j < k => Nth(places, j) < Nth(places, k)
      /\ \A p \in places : \E k \in 1..c : Nth(places, k) = p
  BY <1>1, NthInOrder
<1>5. Pick(list, places) = [k \in 1..c |-> list[Nth(places, k)]]
  BY DEF Pick
<1> HIDE DEF c
<1>6. Pick(list, places) \in Seq(S) /\ Len(Pick(list, places)) = c
  BY <1>1, <1>2, <1>3, <1>5
<1>7. Takes(Pick(list, places), list, src)
  BY <1>1, <1>2, <1>3, <1>4, <1>5, <1>6 DEF Takes
<1> QED BY <1>3, <1>4, <1>6, <1>7 DEF c

LEMMA CutList ==
    ASSUME NEW S, NEW list \in Seq(S), NEW limit \in Nat
    PROVE  /\ Cut(list, limit) \in Seq(S) /\ Len(Cut(list, limit)) <= limit
           /\ Len(Cut(list, limit)) <= Len(list)
           /\ Len(Cut(list, limit)) = limit \/ Len(Cut(list, limit)) = Len(list)
           /\ \A k \in 1..Len(Cut(list, limit)) : Cut(list, limit)[k] = list[k]
BY DEF Cut

\* A list whose keys are told apart and cut: its keys are distinct, and a key
\* is missing only if the list is full of items that come before it.
KeepsFirsts(part, list, key, limit) ==
    \E src :
        /\ Takes(part, list, src)
        /\ \A j, k \in 1..Len(part) : key[part[j]] = key[part[k]] => j = k
        /\ \A m \in DOMAIN list :
              \/ \E k \in 1..Len(part) : src[k] <= m /\ key[part[k]] = key[list[m]]
              \/ Len(part) = limit /\ \A k \in 1..Len(part) : src[k] < m

LEMMA FirstsCut ==
    ASSUME NEW S, NEW list \in Seq(S), NEW key, NEW limit \in Nat, NEW part,
           part = Cut(Pick(list, Firsts(list, key)), limit)
    PROVE  /\ part \in Seq(S) /\ Len(part) <= limit
           /\ KeepsFirsts(part, list, key, limit)
<1> DEFINE firsts == Firsts(list, key)
           all == Pick(list, firsts)
<1>1. firsts \in SUBSET DOMAIN list
  BY DEF Firsts
<1>2. \A p, q \in firsts : key[list[p]] = key[list[q]] => p = q
  BY DEF Firsts
<1>3. ASSUME NEW m \in DOMAIN list
      PROVE  \E p \in firsts : p <= m /\ key[list[p]] = key[list[m]]
  <2> DEFINE same == {p \in 1..m : key[list[p]] = key[list[m]]}
  <2>1. m \in Nat /\ same \in SUBSET (1..m) /\ m \in same
    OBVIOUS
  <2> HIDE DEF same
  <2>2. PICK p \in same : \A q \in same : p <= q
    BY <2>1, FirstPlace
  <2>3. \A n \in 1..(p - 1) : key[list[n]] # key[list[p]]
    BY <2>1, <2>2 DEF same
  <2>4. p \in DOMAIN list /\ p <= m /\ key[list[p]] = key[list[m]]
    BY <2>1, <2>2 DEF same
  <2> QED BY <2>3, <2>4 DEF Firsts
<1> HIDE DEF firsts
<1>4. /\ all \in Seq(S)
      /\ \E src : /\ Takes(all, list, src)
                  /\ \A k \in 1..Len(all) : src[k] \in firsts
                  /\ \A p \in firsts : \E k \in 1..Len(all) : src[k] = p
  BY <1>1, PickTakes
<1>5. PICK src : /\ Takes(all, list, src)
                 /\ \A k \in 1..Len(all) : src[k] \in firsts
                 /\ \A p \in firsts : \E k \in 1..Len(all) : src[k] = p
  BY <1>4
<1> HIDE DEF all
<1>6. /\ part \in Seq(S) /\ Len(part) <= limit /\ Len(part) <= Len(all)
      /\ Len(part) = limit \/ Len(part) = Len(all)
      /\ \A k \in 1..Len(part) : part[k] = all[k]
  BY <1>4, CutList DEF all, firsts
<1> DEFINE from == [k \in 1..Len(part) |-> src[k]]
<1>7. /\ Len(part) \in Nat /\ Len(all) \in Nat /\ 1..Len(part) \subseteq 1..Len(all)
      /\ part = [k \in 1..Len(part) |-> part[k]]
  BY <1>4, <1>6
<1>8. \A k \in 1..Len(all) : /\ src[k] \in DOMAIN list /\ src[k] \in Nat
                              /\ all[k] = list[src[k]]
                              /\ \A j \in 1..Len(all) : j < k => src[j] < src[k]
  BY <1>5 DEF Takes
<1>9. Takes(part, list, from)
  BY <1>6, <1>7, <1>8 DEF Takes
<1>10. \A j, k \in 1..Len(part) : key[part[j]] = key[part[k]] => j = k
  <2>1. \A j, k \in 1..Len(part) : key[part[j]] = key[part[k]] => src[j] = src[k]
    <3> SUFFICES ASSUME NEW j \in 1..Len(part), NEW k \in 1..Len(part),
                        key[part[j]] = key[part[k]]
                 PROVE  src[j] = src[k]
      OBVIOUS
    <3>1. src[j] \in firsts /\ src[k] \in firsts
      BY <1>5, <1>7
    <3>2. part[j] = list[src[j]] /\ part[k] = list[src[k]]
      BY <1>6, <1>7, <1>8
    <3> QED BY <1>2, <3>1, <3>2
  <2>2. \A j, k \in 1..Len(part) : src[j] = src[k] => j = k
    BY <1>7, <1>8
  <2> QED BY <2>1, <2>2
<1>11. ASSUME NEW m \in DOMAIN list
       PROVE  \/ \E k \in 1..Len(part) : from[k] <= m /\ key[part[k]] = key[list[m]]
              \/ Len(part) = limit /\ \A k \in 1..Len(part) : from[k] < m
  <2>1. PICK p \in firsts : p <= m /\ key[list[p]] = key[list[m]]
    BY <1>3
  <2>2. PICK k \in 1..Len(all) : src[k] = p
    BY <1>5
  <2>3. CASE k \in 1..Len(part)
    <3>1. from[k] = p /\ part[k] = list[p]
      BY <1>6, <1>7, <1>8, <2>2, <2>3
    <3> QED BY <2>1, <2>3, <3>1
  <2>4. CASE k \notin 1..Len(part)
    <3>1. Len(part) = limit /\ \A j \in 1..Len(part) : j < k
      BY <1>6, <1>7, <2>4
    <3>2. \A j \in 1..Len(part) : src[j] < src[k]
      BY <1>7, <1>8, <3>1
    <3>3. \A j \in 1..Len(part) : src[j] \in Nat /\ p \in Nat /\ m \in Nat
      BY <1>7, <1>8, <2>2
    <3>4. \A j \in 1..Len(part) : src[j] < m
      BY <2>1, <2>2, <3>2, <3>3
    <3> QED BY <3>1, <3>4
  <2> QED BY <2>3, <2>4
<1> QED BY <1>6, <1>9, <1>10, <1>11 DEF KeepsFirsts
-----------------------------------------------------------------------------
(* Rows, the best first.                                                   *)

LEMMA RowsFinite == IsFiniteSet(Policies) /\ IsFiniteSet(Incidents)
<1>1. ASSUME NEW S, NEW list \in Seq(S) PROVE IsFiniteSet(ToSet(list))
  <2>1. list \in Surjection(1..Len(list), ToSet(list))
    BY DEF Surjection, ToSet
  <2>2. 1..Len(list) \in SUBSET (1..Len(list)) /\ Len(list) \in Nat
    OBVIOUS
  <2>3. IsFiniteSet(1..Len(list))
    BY <2>2, PlacesFinite
  <2> QED BY <2>1, <2>3, FS_Surjection
<1> QED BY <1>1, RowsAreDistinct DEF Policies, Incidents

LEMMA PositionsDiffer ==
    /\ \A x \in Policies \cup Incidents : Position[x] \in Nat
    /\ \A x, y \in Policies \cup Incidents : Position[x] = Position[y] => x = y
<1> DEFINE rows == Catalogue \o Index
<1>1. ASSUME NEW x \in Policies \cup Incidents PROVE \E n \in DOMAIN rows : rows[n] = x
  <2>1. CASE x \in Policies
    <3>1. PICK n \in 1..Len(Catalogue) : Catalogue[n] = x
      BY <2>1, RowsAreDistinct DEF Policies, ToSet
    <3> QED BY <3>1, RowsAreDistinct
  <2>2. CASE x \in Incidents
    <3>1. PICK n \in 1..Len(Index) : Index[n] = x
      BY <2>2, RowsAreDistinct DEF Incidents, ToSet
    <3>2. rows[Len(Catalogue) + n] = x /\ Len(Catalogue) + n \in DOMAIN rows
      BY <3>1, RowsAreDistinct
    <3> QED BY <3>2
  <2> QED BY <2>1, <2>2
<1>2. DOMAIN rows \subseteq Nat
  BY RowsAreDistinct
<1>3. \A x \in Policies \cup Incidents : Position[x] \in DOMAIN rows /\ rows[Position[x]] = x
  BY <1>1 DEF Position
<1> QED BY <1>2, <1>3

\* Better matches, and among equal ones earlier rows, come first.
LEMMA OutranksOrders ==
    ASSUME NEW matches \in [Policies \cup Incidents -> 0..MaxScore],
           NEW x \in Policies \cup Incidents, NEW y \in Policies \cup Incidents
    PROVE  /\ ~Outranks(matches, x, x)
           /\ Outranks(matches, x, y) => ~Outranks(matches, y, x)
           /\ x # y => Outranks(matches, x, y) \/ Outranks(matches, y, x)
           /\ \A z \in Policies \cup Incidents :
                 Outranks(matches, x, y) /\ Outranks(matches, y, z) => Outranks(matches, x, z)
<1>1. MaxScore \in Nat
  BY LimitAssumption
<1>2. \A z \in Policies \cup Incidents : matches[z] \in Nat /\ Position[z] \in Nat
  BY <1>1, PositionsDiffer
<1> QED BY <1>2, PositionsDiffer DEF Outranks

\* The rank of a match is the number of better ones, and all ranks are taken.
LEMMA RankOfMatch ==
    ASSUME NEW rows \in SUBSET (Policies \cup Incidents), IsFiniteSet(rows),
           NEW matches \in [Policies \cup Incidents -> 0..MaxScore]
    PROVE  /\ Cardinality(Hits(rows, matches)) \in Nat
           /\ \A x \in Hits(rows, matches) : Cardinality(Better(rows, matches, x)) \in Nat
           /\ \A x, y \in Hits(rows, matches) : Outranks(matches, x, y) =>
                 Cardinality(Better(rows, matches, x)) < Cardinality(Better(rows, matches, y))
           /\ \A x \in Hits(rows, matches) :
                 Cardinality(Better(rows, matches, x)) < Cardinality(Hits(rows, matches))
           /\ \A k \in 1..Cardinality(Hits(rows, matches)) :
                 \E x \in Hits(rows, matches) : Cardinality(Better(rows, matches, x)) = k - 1
<1> DEFINE H == Hits(rows, matches)
           order == {xy \in H \X H : Outranks(matches, xy[1], xy[2])}
<1>1. H \in SUBSET (Policies \cup Incidents) /\ H \in SUBSET rows
  BY DEF Hits
<1>2. ASSUME NEW x \in H PROVE Before(H, order, x) = Better(rows, matches, x)
  BY DEF Before, Better
<1> HIDE DEF H
<1>3. IsFiniteSet(H) /\ Cardinality(H) \in Nat
  BY <1>1, FS_Subset, FS_CardinalityType
<1>4. \A x, y \in H : <<x, y>> \in order <=> Outranks(matches, x, y)
  OBVIOUS
<1>5. StrictOrder(H, order)
  <2> HIDE DEF order
  <2> QED BY <1>1, <1>4, OutranksOrders DEF StrictOrder
<1> HIDE DEF order
<1>6. ASSUME NEW x \in H
      PROVE  /\ Cardinality(Better(rows, matches, x)) \in Nat
             /\ Cardinality(Better(rows, matches, x)) < Cardinality(H)
  <2>1. Cardinality(Before(H, order, x)) \in 0..(Cardinality(H) - 1)
    BY <1>3, <1>5, RankBounded
  <2> QED BY <1>2, <1>3, <2>1
<1>7. ASSUME NEW x \in H, NEW y \in H, Outranks(matches, x, y)
      PROVE  Cardinality(Better(rows, matches, x)) < Cardinality(Better(rows, matches, y))
  <2>1. Cardinality(Before(H, order, x)) < Cardinality(Before(H, order, y))
    BY <1>3, <1>4, <1>5, <1>7, RankGrows
  <2> QED BY <1>2, <2>1
<1>8. ASSUME NEW k \in 1..Cardinality(H)
      PROVE  \E x \in H : Cardinality(Better(rows, matches, x)) = k - 1
  <2>1. PICK x \in H : Cardinality(Before(H, order, x)) = k - 1
    BY <1>3, <1>5, RankTaken
  <2> QED BY <1>2, <2>1
<1> QED BY <1>3, <1>6, <1>7, <1>8 DEF H

\* The best matches, cut: in order, and one that is missing is outranked by all
\* of a full list.
BestFirst(best, rows, matches, limit) ==
    /\ \A j, k \in 1..Len(best) : j < k => Outranks(matches, best[j], best[k])
    /\ \A k \in 1..Len(best) : Cardinality(Better(rows, matches, best[k])) < limit
    /\ \A x \in Hits(rows, matches) :
          \/ \E k \in 1..Len(best) : best[k] = x
          \/ /\ Len(best) = limit /\ limit <= Cardinality(Better(rows, matches, x))
             /\ \A k \in 1..Len(best) : Outranks(matches, best[k], x)

LEMMA RankedCut ==
    ASSUME NEW rows \in SUBSET (Policies \cup Incidents), IsFiniteSet(rows),
           NEW matches \in [Policies \cup Incidents -> 0..MaxScore],
           NEW limit \in Nat, NEW best, best = Cut(Ranked(rows, matches), limit)
    PROVE  /\ best \in Seq(Hits(rows, matches)) /\ Len(best) <= limit
           /\ BestFirst(best, rows, matches, limit)
<1> DEFINE H == Hits(rows, matches)
           rank(x) == Cardinality(Better(rows, matches, x))
           list == Ranked(rows, matches)
<1>1. H \in SUBSET (Policies \cup Incidents)
  BY DEF Hits
<1>2. /\ Cardinality(H) \in Nat
      /\ \A x \in H : rank(x) \in Nat /\ rank(x) < Cardinality(H)
      /\ \A x, y \in H : Outranks(matches, x, y) => rank(x) < rank(y)
      /\ \A k \in 1..Cardinality(H) : \E x \in H : rank(x) = k - 1
  BY RankOfMatch
<1>3. list = [k \in 1..Cardinality(H) |-> CHOOSE x \in H : rank(x) = k - 1]
  BY DEF Ranked
<1> HIDE DEF H, rank, list
<1>4. \A x, y \in H : rank(x) = rank(y) => x = y
  <2> SUFFICES ASSUME NEW x \in H, NEW y \in H, rank(x) = rank(y), x # y PROVE FALSE
    OBVIOUS
  <2>1. Outranks(matches, x, y) \/ Outranks(matches, y, x)
    BY <1>1, OutranksOrders
  <2> QED BY <1>2, <2>1
<1>5. /\ list \in Seq(H) /\ Len(list) = Cardinality(H)
      /\ \A k \in 1..Cardinality(H) : list[k] \in H /\ rank(list[k]) = k - 1
  BY <1>2, <1>3
<1>6. /\ best \in Seq(H) /\ Len(best) <= limit /\ Len(best) <= Len(list)
      /\ Len(best) = limit \/ Len(best) = Len(list)
      /\ \A k \in 1..Len(best) : best[k] = list[k]
  BY <1>5, CutList DEF list
<1>7. Len(best) \in Nat /\ 1..Len(best) \subseteq 1..Cardinality(H)
  BY <1>2, <1>5, <1>6
<1>8. \A k \in 1..Len(best) : best[k] \in H /\ rank(best[k]) = k - 1 /\ rank(best[k]) < limit
  BY <1>5, <1>6, <1>7
<1>9. \A x, y \in H : rank(x) < rank(y) => Outranks(matches, x, y)
  <2> SUFFICES ASSUME NEW x \in H, NEW y \in H, rank(x) < rank(y) PROVE Outranks(matches, x, y)
    OBVIOUS
  <2>1. x # y /\ ~Outranks(matches, y, x)
    BY <1>2
  <2> QED BY <1>1, <2>1, OutranksOrders
<1>10. \A j, k \in 1..Len(best) : j < k => Outranks(matches, best[j], best[k])
  BY <1>7, <1>8, <1>9
<1>11. ASSUME NEW x \in H, \A k \in 1..Len(best) : best[k] # x
       PROVE  /\ Len(best) = limit /\ limit <= rank(x)
              /\ \A k \in 1..Len(best) : Outranks(matches, best[k], x)
  <2>1. rank(x) + 1 \in 1..Cardinality(H) /\ rank(list[rank(x) + 1]) = rank(x)
    BY <1>2, <1>5
  <2>2. list[rank(x) + 1] = x
    BY <1>4, <1>5, <2>1
  <2>3. rank(x) + 1 \notin 1..Len(best)
    BY <1>6, <1>11, <2>2
  <2>4. Len(best) <= rank(x) /\ rank(x) \in Nat
    BY <1>2, <1>7, <2>3
  <2>5. Len(best) = limit
    BY <1>5, <1>6, <1>7, <2>1, <2>4
  <2>6. \A k \in 1..Len(best) : Outranks(matches, best[k], x)
    BY <1>7, <1>8, <1>9, <2>4
  <2> QED BY <2>4, <2>5, <2>6
<1> QED BY <1>6, <1>8, <1>10, <1>11 DEF H, rank, BestFirst
-----------------------------------------------------------------------------
(* What a profile asks for.                                                *)

LEMMA AskedList ==
    ASSUME NEW codes \in Seq(RuleCodes), NEW asked, asked = Asked(codes)
    PROVE  asked \in Seq(Policies) /\ Len(asked) <= ProfileLimit
<1> DEFINE I == {n \in Firsts(codes, Itself(codes)) : codes[n] \in Policies}
           list == Pick(codes, I)
<1>1. I \in SUBSET DOMAIN codes /\ \A n \in I : codes[n] \in Policies
  BY DEF Firsts
<1>2. asked = Cut(list, ProfileLimit)
  BY DEF Asked
<1> HIDE DEF I
<1>3. PICK src : /\ Takes(list, codes, src)
                 /\ \A k \in 1..Len(list) : src[k] \in I
  BY <1>1, PickTakes
<1>4. list \in Seq(RuleCodes)
  BY <1>1, PickTakes
<1> HIDE DEF list
<1>5. \A k \in 1..Len(list) : list[k] \in Policies
  BY <1>1, <1>3 DEF Takes
<1>6. list \in Seq(Policies) /\ ProfileLimit \in Nat
  BY <1>4, <1>5, LimitAssumption
<1> QED BY <1>2, <1>6, CutList

LEMMA AskedIsAskedFor ==
    ASSUME named \in Seq(RuleCodes), NEW asked, asked = Asked(named)
    PROVE  /\ asked \in Seq(Policies) /\ Len(asked) <= ProfileLimit
           /\ \A j, k \in 1..Len(asked) : asked[j] = asked[k] => j = k
           /\ ToSet(asked) = AskedFor
<1> DEFINE I == {n \in Firsts(named, Itself(named)) : named[n] \in Policies}
           exist == ToSet(named) \cap Policies
           list == Pick(named, I)
           before(p) == {q \in exist : NamedBefore(q, p)}
<1>1. /\ Len(named) \in Nat /\ DOMAIN named = 1..Len(named)
      /\ I \in SUBSET (1..Len(named)) /\ I \in SUBSET DOMAIN named
  BY DEF Firsts
<1>2. ASSUME NEW n \in DOMAIN named
      PROVE  n \in I <=> named[n] \in Policies /\ \A m \in 1..(n - 1) : named[m] # named[n]
  <2>1. \A m \in DOMAIN named : Itself(named)[named[m]] = named[m]
    BY DEF Itself, ToSet
  <2> QED BY <1>1, <2>1 DEF Firsts
<1>3. ASSUME NEW p \in exist PROVE \E n \in I : named[n] = p
  <2> DEFINE same == {n \in 1..Len(named) : named[n] = p}
  <2>1. same # {} /\ same \in SUBSET (1..Len(named))
    BY <1>1 DEF ToSet
  <2>2. PICK n \in same : \A m \in same : n <= m
    BY <1>1, <2>1, FirstPlace
  <2>3. n \in I
    BY <1>1, <1>2, <2>2
  <2> QED BY <2>2, <2>3
<1>4. ASSUME NEW m \in I, NEW n \in I PROVE named[m] = named[n] => m = n
  BY <1>1, <1>2
<1>5. ASSUME NEW m \in I, NEW n \in I PROVE NamedBefore(named[m], named[n]) <=> m < n
  <2>1. ASSUME m < n PROVE NamedBefore(named[m], named[n])
    BY <1>1, <1>2, <2>1 DEF NamedBefore
  <2>2. ASSUME NamedBefore(named[m], named[n]) PROVE m < n
    <3>1. PICK k \in DOMAIN named : named[k] = named[m] /\ \A j \in 1..k : named[j] # named[n]
      BY <2>2 DEF NamedBefore
    <3>2. m <= k /\ k < n
      BY <1>1, <1>2, <3>1
    <3> QED BY <1>1, <3>1, <3>2
  <2> QED BY <2>1, <2>2
<1>6. \A n \in I : named[n] \in exist
  BY <1>1 DEF ToSet
<1> HIDE DEF I, exist
<1>7. ASSUME NEW n \in I PROVE Cardinality(before(named[n])) = Rank(I, n)
  <2> DEFINE earlier == {m \in I : m < n}
             name == [m \in earlier |-> named[m]]
  <2>1. \A m \in earlier : named[m] \in before(named[n])
    BY <1>5, <1>6
  <2>2. \A q \in before(named[n]) : \E m \in earlier : named[m] = q
    BY <1>3, <1>5
  <2>3. name \in Bijection(earlier, before(named[n]))
    BY <1>4, <2>1, <2>2 DEF Bijection, Injection, Surjection, IsInjective
  <2>4. IsFiniteSet(earlier)
    BY <1>1, PlacesFinite
  <2> HIDE DEF earlier, name
  <2>5. Cardinality(before(named[n])) = Cardinality(earlier)
    BY <2>3, <2>4, FS_Bijection DEF ExistsBijection
  <2> QED BY <2>5 DEF Rank, earlier
<1>8. /\ Cardinality(I) \in Nat /\ list \in Seq(RuleCodes) /\ Len(list) = Cardinality(I)
      /\ \A k \in 1..Cardinality(I) : list[k] = named[Nth(I, k)]
  BY <1>1, PlacesFinite, PickTakes DEF Pick
<1>9. \A k \in 1..Cardinality(I) : Nth(I, k) \in I /\ Rank(I, Nth(I, k)) = k - 1
  BY <1>1, NthPlace
<1>10. \A n \in I : /\ Rank(I, n) \in Nat /\ Rank(I, n) + 1 \in 1..Cardinality(I)
                     /\ Nth(I, Rank(I, n) + 1) = n
  BY <1>1, NthOfRank
<1> HIDE DEF list
<1>11. /\ asked \in Seq(RuleCodes) /\ Len(asked) <= ProfileLimit /\ Len(asked) <= Cardinality(I)
       /\ Len(asked) = ProfileLimit \/ Len(asked) = Cardinality(I)
       /\ \A k \in 1..Len(asked) : asked[k] = list[k]
  <2>1. asked = Cut(list, ProfileLimit)
    BY DEF Asked, list, I
  <2> QED BY <1>8, <2>1, CutList, LimitAssumption
<1>12. Len(asked) \in Nat /\ 1..Len(asked) \subseteq 1..Cardinality(I) /\ ProfileLimit \in Nat
  BY <1>8, <1>11, LimitAssumption
<1>13. \A k \in 1..Len(asked) : /\ Nth(I, k) \in I /\ asked[k] = named[Nth(I, k)]
                                 /\ Rank(I, Nth(I, k)) = k - 1
  BY <1>8, <1>9, <1>11, <1>12
<1>14. \A j, k \in 1..Len(asked) : asked[j] = asked[k] => j = k
  <2>1. \A j, k \in 1..Len(asked) : asked[j] = asked[k] => Nth(I, j) = Nth(I, k)
    BY <1>4, <1>13
  <2>2. \A j, k \in 1..Len(asked) : Nth(I, j) = Nth(I, k) => j - 1 = k - 1
    BY <1>13
  <2> QED BY <1>12, <2>1, <2>2
<1>15. asked \in Seq(Policies)
  <2>1. \A k \in 1..Len(asked) : asked[k] \in Policies
    BY <1>6, <1>13 DEF exist
  <2> QED BY <1>11, <2>1
<1>16. AskedFor = {p \in exist : Cardinality(before(p)) < ProfileLimit}
  BY DEF AskedFor, exist
<1> HIDE DEF before
<1>17. ASSUME NEW k \in 1..Len(asked) PROVE asked[k] \in AskedFor
  <2>1. Nth(I, k) \in I /\ asked[k] = named[Nth(I, k)] /\ Rank(I, Nth(I, k)) = k - 1
    BY <1>13
  <2>2. asked[k] \in exist /\ Cardinality(before(asked[k])) = k - 1
    BY <1>6, <1>7, <2>1
  <2>3. k - 1 < ProfileLimit
    BY <1>11, <1>12
  <2> QED BY <1>16, <2>2, <2>3
<1>18. ASSUME NEW p \in AskedFor PROVE \E k \in 1..Len(asked) : asked[k] = p
  <2>1. PICK n \in I : named[n] = p
    BY <1>3, <1>16
  <2>2. Rank(I, n) < ProfileLimit
    BY <1>7, <1>16, <2>1
  <2>3. Rank(I, n) \in Nat /\ Rank(I, n) + 1 \in 1..Cardinality(I) /\ Nth(I, Rank(I, n) + 1) = n
    BY <1>10
  <2>4. Rank(I, n) + 1 \in 1..Len(asked)
    BY <1>8, <1>11, <1>12, <2>2, <2>3
  <2>5. asked[Rank(I, n) + 1] = p
    BY <1>13, <2>1, <2>3, <2>4
  <2> QED BY <2>4, <2>5
<1> QED BY <1>11, <1>14, <1>15, <1>17, <1>18 DEF ToSet
-----------------------------------------------------------------------------
(* Two lists merged and cut.                                               *)

LEMMA NoRoom ==
    ASSUME NEW n \in Nat, NEW m \in Nat, NEW f \in [1..n -> 1..m],
           \A j, k \in 1..n : f[j] = f[k] => j = k
    PROVE  n <= m
<1>1. /\ IsFiniteSet(1..n) /\ Cardinality(1..n) = n
      /\ IsFiniteSet(1..m) /\ Cardinality(1..m) = m
  <2>1. 1 \in Int /\ n \in Int /\ m \in Int
    OBVIOUS
  <2>2. /\ IsFiniteSet(1..n) /\ Cardinality(1..n) = IF 1 > n THEN 0 ELSE n - 1 + 1
        /\ IsFiniteSet(1..m) /\ Cardinality(1..m) = IF 1 > m THEN 0 ELSE m - 1 + 1
    BY <2>1, FS_Interval
  <2> QED BY <2>2
<1>2. f \in Injection(1..n, 1..m)
  BY DEF Injection, IsInjective
<1>3. Cardinality(1..n) <= Cardinality(1..m)
  BY <1>1, <1>2, FS_Injection
<1> QED BY <1>1, <1>3

\* Each key of the list that goes first survives if that list fits; a key of
\* the other is missing only if the list is full of what comes before it.
Merges(part, first, second, key, limit) ==
    /\ \A j, k \in 1..Len(part) : key[part[j]] = key[part[k]] => j = k
    /\ \A m \in 1..Len(first) : \E k \in 1..Len(part) : key[part[k]] = key[first[m]]
    /\ \A k \in 1..Len(part) : \/ \E m \in 1..Len(first) : part[k] = first[m]
                               \/ \E m \in 1..Len(second) : part[k] = second[m]
    /\ \A j \in 1..Len(second) :
          \/ \E k \in 1..Len(part) : key[part[k]] = key[second[j]]
          \/ /\ Len(part) = limit /\ limit < Len(first) + j
             /\ \A k \in 1..Len(part) : \/ \E m \in 1..Len(first) : part[k] = first[m]
                                        \/ \E m \in 1..(j - 1) : part[k] = second[m]

LEMMA MergedCut ==
    ASSUME NEW S, NEW first \in Seq(S), NEW second \in Seq(S), NEW key,
           NEW limit \in Nat, Len(first) <= limit,
           NEW list \in Seq(S), Len(list) = Len(first) + Len(second),
           \A m \in 1..Len(first) : list[m] = first[m],
           \A m \in 1..Len(second) : list[Len(first) + m] = second[m],
           NEW part, part = Cut(Pick(list, Firsts(list, key)), limit)
    PROVE  /\ part \in Seq(S) /\ Len(part) <= limit
           /\ Merges(part, first, second, key, limit)
<1>1. /\ Len(list) \in Nat /\ Len(list) = Len(first) + Len(second)
      /\ Len(first) \in Nat /\ Len(second) \in Nat /\ DOMAIN list = 1..Len(list)
  OBVIOUS
<1>2. part \in Seq(S) /\ Len(part) <= limit /\ KeepsFirsts(part, list, key, limit)
  BY FirstsCut
<1>3. PICK src :
            /\ Takes(part, list, src)
            /\ \A j, k \in 1..Len(part) : key[part[j]] = key[part[k]] => j = k
            /\ \A m \in DOMAIN list :
                  \/ \E k \in 1..Len(part) : src[k] <= m /\ key[part[k]] = key[list[m]]
                  \/ Len(part) = limit /\ \A k \in 1..Len(part) : src[k] < m
  BY <1>2 DEF KeepsFirsts
<1>4. /\ Len(part) \in Nat
      /\ \A k \in 1..Len(part) : /\ src[k] \in 1..Len(list) /\ part[k] = list[src[k]]
                                 /\ \A j \in 1..Len(part) : j < k => src[j] < src[k]
  <2>1. part = [k \in 1..Len(part) |-> list[src[k]]] /\ Len(part) \in Nat
    BY <1>3 DEF Takes
  <2>2. src \in [1..Len(part) -> 1..Len(list)]
    BY <1>1, <1>3 DEF Takes
  <2>3. \A j, k \in 1..Len(part) : j < k => src[j] < src[k]
    BY <1>3 DEF Takes
  <2> QED BY <2>1, <2>2, <2>3
\* The parts that are taken, and from which of the two.
<1>5. ASSUME NEW m \in 1..Len(list), Len(part) = limit, \A k \in 1..Len(part) : src[k] < m
      PROVE  limit < m
  <2> DEFINE f == [k \in 1..Len(part) |-> src[k]]
  <2>1. m - 1 \in Nat /\ f \in [1..Len(part) -> 1..(m - 1)]
    <3>1. m \in Nat \ {0}
      BY <1>1
    <3>2. ASSUME NEW k \in 1..Len(part) PROVE src[k] \in 1..(m - 1)
      <4>1. src[k] \in 1..Len(list) /\ src[k] < m
        BY <1>4, <1>5
      <4> QED BY <1>1, <3>1, <4>1
    <3> QED BY <3>1, <3>2
  <2>2. \A j, k \in 1..Len(part) : f[j] = f[k] => j = k
    <3> SUFFICES ASSUME NEW j \in 1..Len(part), NEW k \in 1..Len(part), src[j] = src[k]
                 PROVE  j = k
      OBVIOUS
    <3>1. src[j] \in Int /\ src[k] \in Int
      BY <1>1, <1>4
    <3>2. ~(j < k) /\ ~(k < j)
      BY <1>4, <3>1
    <3> QED BY <1>4, <3>2
  <2> HIDE DEF f
  <2>3. Len(part) <= m - 1
    BY <1>4, <2>1, <2>2, NoRoom
  <2> QED BY <1>1, <1>5, <2>3
<1>6. ASSUME NEW m \in 1..Len(first)
      PROVE  \E k \in 1..Len(part) : key[part[k]] = key[first[m]]
  <2>1. m \in 1..Len(list) /\ list[m] = first[m] /\ m <= limit
    BY <1>1
  <2>2. \/ \E k \in 1..Len(part) : key[part[k]] = key[list[m]]
        \/ Len(part) = limit /\ \A k \in 1..Len(part) : src[k] < m
    BY <1>1, <1>3, <2>1
  <2>3. ~(Len(part) = limit /\ \A k \in 1..Len(part) : src[k] < m)
    <3>1. m \in Nat /\ ~(limit < m)
      BY <1>1, <2>1
    <3> QED BY <1>5, <2>1, <3>1
  <2> QED BY <2>1, <2>2, <2>3
<1>7. ASSUME NEW k \in 1..Len(part), NEW n \in Nat, src[k] <= Len(first) + n
      PROVE  \/ \E m \in 1..Len(first) : part[k] = first[m]
             \/ \E m \in 1..n : m \in 1..Len(second) /\ part[k] = second[m]
  <2>1. src[k] \in 1..Len(list) /\ part[k] = list[src[k]]
    BY <1>4
  <2>2. CASE src[k] <= Len(first)
    <3>1. src[k] \in 1..Len(first) /\ part[k] = first[src[k]]
      BY <1>1, <2>1, <2>2
    <3> QED BY <3>1
  <2>3. CASE src[k] > Len(first)
    <3> DEFINE m == src[k] - Len(first)
    <3>1. m \in 1..n /\ m \in 1..Len(second) /\ src[k] = Len(first) + m
      BY <1>1, <1>7, <2>1, <2>3
    <3> HIDE DEF m
    <3>2. part[k] = second[m]
      BY <2>1, <3>1
    <3> QED BY <3>1, <3>2
  <2> QED BY <1>1, <2>1, <2>2, <2>3
<1>8. \A k \in 1..Len(part) : \/ \E m \in 1..Len(first) : part[k] = first[m]
                              \/ \E m \in 1..Len(second) : part[k] = second[m]
  <2> SUFFICES ASSUME NEW k \in 1..Len(part)
               PROVE  \/ \E m \in 1..Len(first) : part[k] = first[m]
                      \/ \E m \in 1..Len(second) : part[k] = second[m]
    OBVIOUS
  <2>1. src[k] <= Len(first) + Len(second) /\ Len(second) \in Nat
    BY <1>1, <1>4
  <2> QED BY <1>7, <2>1
<1>9. ASSUME NEW j \in 1..Len(second)
      PROVE  \/ \E k \in 1..Len(part) : key[part[k]] = key[second[j]]
             \/ /\ Len(part) = limit /\ limit < Len(first) + j
                /\ \A k \in 1..Len(part) : \/ \E m \in 1..Len(first) : part[k] = first[m]
                                           \/ \E m \in 1..(j - 1) : part[k] = second[m]
  <2>1. PICK m \in 1..Len(list) : m = Len(first) + j /\ list[m] = second[j]
    <3>1. Len(first) + j \in 1..Len(list)
      BY <1>1
    <3> QED BY <3>1
  <2>2. CASE \E k \in 1..Len(part) : key[part[k]] = key[list[m]]
    BY <2>1, <2>2
  <2>3. CASE Len(part) = limit /\ \A k \in 1..Len(part) : src[k] < m
    <3>1. limit < Len(first) + j
      BY <1>5, <2>1, <2>3
    <3>2. j - 1 \in Nat /\ \A k \in 1..Len(part) : src[k] <= Len(first) + (j - 1)
      BY <1>1, <1>4, <2>1, <2>3
    <3>3. \A k \in 1..Len(part) : \/ \E n \in 1..Len(first) : part[k] = first[n]
                                  \/ \E n \in 1..(j - 1) : part[k] = second[n]
      BY <1>7, <3>2
    <3> QED BY <2>3, <3>1, <3>3
  <2> QED BY <1>1, <1>3, <2>2, <2>3
<1> QED BY <1>2, <1>3, <1>6, <1>8, <1>9 DEF Merges

LEMMA SetOfDistinct ==
    ASSUME NEW S, NEW list \in Seq(S),
           \A j, k \in 1..Len(list) : list[j] = list[k] => j = k
    PROVE  IsFiniteSet(ToSet(list)) /\ Cardinality(ToSet(list)) = Len(list)
<1>1. 1 \in Int /\ Len(list) \in Int /\ Len(list) \in Nat
  OBVIOUS
<1>2. IsFiniteSet(1..Len(list)) /\ Cardinality(1..Len(list)) = Len(list)
  <2>1. /\ IsFiniteSet(1..Len(list))
        /\ Cardinality(1..Len(list)) = IF 1 > Len(list) THEN 0 ELSE Len(list) - 1 + 1
    BY <1>1, FS_Interval
  <2> QED BY <1>1, <2>1
<1>3. list \in Bijection(1..Len(list), ToSet(list))
  BY DEF Bijection, Injection, Surjection, IsInjective, ToSet
<1> QED BY <1>2, <1>3, FS_Bijection DEF ExistsBijection

LEMMA InList ==
    ASSUME NEW S, NEW list \in Seq(S)
    PROVE  /\ Len(list) \in Nat
           /\ \A x : x \in ToSet(list) <=> \E k \in 1..Len(list) : list[k] = x
BY DEF ToSet

LEMMA SeqWidens ==
    ASSUME NEW S, NEW T, S \subseteq T, NEW list \in Seq(S)
    PROVE  list \in Seq(T)
<1>1. \A k \in 1..Len(list) : list[k] \in T
  OBVIOUS
<1> QED BY <1>1

\* The policies that are offered: those asked for, then the best matches.
AskedThenBest(merged, asked, rows, matches) ==
    /\ Cardinality(ToSet(merged)) = Len(merged)
    /\ ToSet(asked) \subseteq ToSet(merged)
    /\ ToSet(merged) \subseteq ToSet(asked) \cup Hits(rows, matches)
    /\ \A p \in ToSet(merged) \ ToSet(asked), q \in Hits(rows, matches) \ ToSet(merged) :
          Outranks(matches, p, q)
    /\ Hits(rows, matches) \subseteq ToSet(merged) \/ Len(merged) = PolicyLimit

LEMMA PoliciesKept ==
    ASSUME NEW asked \in Seq(Policies), NEW rows \in SUBSET Policies,
           NEW matches \in [Policies \cup Incidents -> 0..MaxScore],
           NEW best \in Seq(Policies), BestFirst(best, rows, matches, PolicyLimit),
           \A k \in 1..Len(best) : best[k] \in Hits(rows, matches),
           NEW merged \in Seq(Policies), Len(merged) <= PolicyLimit,
           NEW key, \A x \in Policies : x \in ToSet(asked) \cup ToSet(best) => key[x] = x,
           Merges(merged, asked, best, key, PolicyLimit)
    PROVE  AskedThenBest(merged, asked, rows, matches)
<1>1. PolicyLimit \in Nat /\ Len(asked) \in Nat /\ Len(best) \in Nat /\ Len(merged) \in Nat
  BY LimitAssumption
<1>2. /\ \A x : x \in ToSet(asked) <=> \E k \in 1..Len(asked) : asked[k] = x
      /\ \A x : x \in ToSet(best) <=> \E k \in 1..Len(best) : best[k] = x
      /\ \A x : x \in ToSet(merged) <=> \E k \in 1..Len(merged) : merged[k] = x
  BY InList
<1>3. /\ \A m \in 1..Len(asked) : key[asked[m]] = asked[m] /\ asked[m] \in ToSet(asked)
      /\ \A m \in 1..Len(best) : key[best[m]] = best[m] /\ best[m] \in Policies
  BY <1>2
<1>4. \A k \in 1..Len(merged) : key[merged[k]] = merged[k] /\ merged[k] \in ToSet(merged)
  <2> SUFFICES ASSUME NEW k \in 1..Len(merged)
               PROVE  key[merged[k]] = merged[k] /\ merged[k] \in ToSet(merged)
    OBVIOUS
  <2>1. \/ \E m \in 1..Len(asked) : merged[k] = asked[m]
        \/ \E m \in 1..Len(best) : merged[k] = best[m]
    BY DEF Merges
  <2>2. key[merged[k]] = merged[k]
    BY <1>3, <2>1
  <2>3. merged[k] \in ToSet(merged)
    BY <1>2
  <2> QED BY <2>2, <2>3
<1>5. \A j, k \in 1..Len(merged) : merged[j] = merged[k] => j = k
  BY <1>4 DEF Merges
<1>6. Cardinality(ToSet(merged)) = Len(merged)
  BY <1>5, SetOfDistinct
<1>7. ToSet(asked) \subseteq ToSet(merged)
  <2> SUFFICES ASSUME NEW x \in ToSet(asked) PROVE x \in ToSet(merged)
    OBVIOUS
  <2>1. PICK m \in 1..Len(asked) : asked[m] = x
    BY <1>2
  <2>2. PICK k \in 1..Len(merged) : key[merged[k]] = key[asked[m]]
    BY DEF Merges
  <2>3. merged[k] = x
    BY <1>3, <1>4, <2>1, <2>2
  <2> QED BY <1>2, <2>3
<1>8. ToSet(merged) \subseteq ToSet(asked) \cup Hits(rows, matches)
  <2> SUFFICES ASSUME NEW x \in ToSet(merged) PROVE x \in ToSet(asked) \cup Hits(rows, matches)
    OBVIOUS
  <2>1. PICK k \in 1..Len(merged) : merged[k] = x
    BY <1>2
  <2>2. \/ \E m \in 1..Len(asked) : merged[k] = asked[m]
        \/ \E m \in 1..Len(best) : merged[k] = best[m]
    BY DEF Merges
  <2> QED BY <1>3, <2>1, <2>2
<1>9. ASSUME NEW p \in ToSet(merged) \ ToSet(asked)
      PROVE  \E k \in 1..Len(merged) :
                merged[k] = p /\ \A m \in 1..Len(asked) : asked[m] # p
  BY <1>2
\* A match that is missing: in the cut list or beyond it.
<1>10. ASSUME NEW q \in Hits(rows, matches), q \notin ToSet(merged)
       PROVE  /\ Len(merged) = PolicyLimit
              /\ \A p \in ToSet(merged) \ ToSet(asked) : Outranks(matches, p, q)
  <2>1. ASSUME NEW j \in 1..Len(best), best[j] = q
        PROVE  /\ Len(merged) = PolicyLimit
               /\ \A p \in ToSet(merged) \ ToSet(asked) : Outranks(matches, p, q)
    <3>1. ~ \E k \in 1..Len(merged) : key[merged[k]] = key[best[j]]
      BY <1>2, <1>3, <1>4, <1>10, <2>1
    <3>2. /\ Len(merged) = PolicyLimit
          /\ \A k \in 1..Len(merged) : \/ \E m \in 1..Len(asked) : merged[k] = asked[m]
                                       \/ \E m \in 1..(j - 1) : merged[k] = best[m]
      BY <3>1 DEF Merges
    <3>3. \A m \in 1..(j - 1) : Outranks(matches, best[m], q)
      <4>1. \A m \in 1..Len(best) : m < j => Outranks(matches, best[m], best[j])
        BY DEF BestFirst
      <4>2. \A m \in 1..(j - 1) : m \in 1..Len(best) /\ m < j
        BY <1>1
      <4> QED BY <2>1, <4>1, <4>2
    <3>4. ASSUME NEW p \in ToSet(merged) \ ToSet(asked) PROVE Outranks(matches, p, q)
      <4>1. PICK k \in 1..Len(merged) : merged[k] = p /\ \A m \in 1..Len(asked) : asked[m] # p
        BY <1>9
      <4>2. PICK m \in 1..(j - 1) : p = best[m]
        BY <3>2, <4>1
      <4> QED BY <3>3, <4>2
    <3> QED BY <3>2, <3>4
  <2>2. ASSUME \A j \in 1..Len(best) : best[j] # q
        PROVE  /\ Len(merged) = PolicyLimit
               /\ \A p \in ToSet(merged) \ ToSet(asked) : Outranks(matches, p, q)
    <3>1. Len(best) = PolicyLimit /\ \A k \in 1..Len(best) : Outranks(matches, best[k], q)
      BY <2>2 DEF BestFirst
    <3>2. ASSUME NEW p \in ToSet(merged) \ ToSet(asked) PROVE Outranks(matches, p, q)
      <4>1. PICK k \in 1..Len(merged) : merged[k] = p /\ \A m \in 1..Len(asked) : asked[m] # p
        BY <1>9
      <4>2. PICK m \in 1..Len(best) : p = best[m]
        BY <4>1 DEF Merges
      <4> QED BY <3>1, <4>2
    <3>3. Len(merged) = PolicyLimit
      <4>1. CASE \A j \in 1..Len(best) : \E k \in 1..Len(merged) : merged[k] = best[j]
        <5> DEFINE f == [j \in 1..Len(best) |-> CHOOSE k \in 1..Len(merged) : merged[k] = best[j]]
        <5>1. f \in [1..Len(best) -> 1..Len(merged)] /\ \A j \in 1..Len(best) : merged[f[j]] = best[j]
          BY <4>1
        <5> HIDE DEF f
        <5>2. ASSUME NEW j \in 1..Len(best), NEW k \in 1..Len(best), f[j] = f[k] PROVE j = k
          <6>1. best[j] = best[k] /\ best[j] \in Policies \cup Incidents
            <7>1. merged[f[j]] = best[j] /\ merged[f[k]] = best[k]
              BY <5>1
            <7> QED BY <1>3, <5>2, <7>1
          <6>2. ~ Outranks(matches, best[j], best[k]) /\ ~ Outranks(matches, best[k], best[j])
            BY <6>1, OutranksOrders
          <6>3. ~ (j < k) /\ ~ (k < j)
            BY <6>2 DEF BestFirst
          <6> QED BY <6>3
        <5>3. Len(best) <= Len(merged)
          BY <1>1, <5>1, <5>2, NoRoom
        <5> QED BY <1>1, <3>1, <5>3
      <4>2. CASE ~ \A j \in 1..Len(best) : \E k \in 1..Len(merged) : merged[k] = best[j]
        BY <1>3, <1>4, <4>2 DEF Merges
      <4> QED BY <4>1, <4>2
    <3> QED BY <3>2, <3>3
  <2> QED BY <2>1, <2>2
<1> QED BY <1>6, <1>7, <1>8, <1>10 DEF AskedThenBest

\* Two lists one after the other.
LEMMA Joined ==
    ASSUME NEW S, NEW first \in Seq(S), NEW second \in Seq(S)
    PROVE  /\ first \o second \in Seq(S) /\ Len(first \o second) = Len(first) + Len(second)
           /\ \A m \in 1..Len(first) : (first \o second)[m] = first[m]
           /\ \A m \in 1..Len(second) : (first \o second)[Len(first) + m] = second[m]
           /\ ToSet(first \o second) = ToSet(first) \cup ToSet(second)
<1>1. /\ first \o second \in Seq(S) /\ Len(first \o second) = Len(first) + Len(second)
      /\ Len(first) \in Nat /\ Len(second) \in Nat
  OBVIOUS
<1>2. /\ \A m \in 1..Len(first) : (first \o second)[m] = first[m]
      /\ \A m \in 1..Len(second) : (first \o second)[Len(first) + m] = second[m]
  OBVIOUS
<1> DEFINE list == first \o second
<1>3. /\ \A x : x \in ToSet(first) <=> \E k \in 1..Len(first) : first[k] = x
      /\ \A x : x \in ToSet(second) <=> \E k \in 1..Len(second) : second[k] = x
      /\ \A x : x \in ToSet(list) <=> \E k \in 1..Len(list) : list[k] = x
  <2>1. list \in Seq(S)
    BY <1>1
  <2> HIDE DEF list
  <2> QED BY <2>1, InList
<1>4. /\ list \in Seq(S) /\ Len(list) = Len(first) + Len(second)
      /\ \A m \in 1..Len(first) : list[m] = first[m]
      /\ \A m \in 1..Len(second) : list[Len(first) + m] = second[m]
  BY <1>1, <1>2
<1> HIDE DEF list
<1>5. \A m \in 1..Len(first) : first[m] \in ToSet(list)
  BY <1>1, <1>3, <1>4
<1>6. \A m \in 1..Len(second) : second[m] \in ToSet(list)
  <2> SUFFICES ASSUME NEW m \in 1..Len(second) PROVE second[m] \in ToSet(list)
    OBVIOUS
  <2>1. Len(first) + m \in 1..Len(list) /\ list[Len(first) + m] = second[m]
    BY <1>1, <1>4
  <2> QED BY <1>3, <2>1
<1>7. ASSUME NEW k \in 1..Len(list) PROVE list[k] \in ToSet(first) \cup ToSet(second)
  <2>1. CASE k <= Len(first)
    <3>1. k \in 1..Len(first)
      BY <1>1, <2>1
    <3> QED BY <1>3, <1>4, <3>1
  <2>2. CASE k > Len(first)
    <3>1. PICK m \in 1..Len(second) : k = Len(first) + m
      <4>1. k - Len(first) \in 1..Len(second) /\ k = Len(first) + (k - Len(first))
        BY <1>1, <1>4, <2>2
      <4> QED BY <4>1
    <3> QED BY <1>3, <1>4, <3>1
  <2> QED BY <1>1, <2>1, <2>2
<1>8. ToSet(list) = ToSet(first) \cup ToSet(second)
  BY <1>3, <1>5, <1>6, <1>7
<1> QED BY <1>1, <1>2, <1>8 DEF list

LEMMA PoliciesMerged ==
    ASSUME NEW asked \in Seq(Policies), Len(asked) <= PolicyLimit,
           NEW matches \in [Policies \cup Incidents -> 0..MaxScore],
           NEW merged,
           merged = MergePolicies(asked, Cut(Ranked(Policies \ Inactive, matches), PolicyLimit))
    PROVE  /\ merged \in Seq(Policies) /\ Len(merged) <= PolicyLimit
           /\ AskedThenBest(merged, asked, Policies \ Inactive, matches)
<1> DEFINE rows == Policies \ Inactive
           best == Cut(Ranked(rows, matches), PolicyLimit)
           list == asked \o best
           key == Itself(list)
<1>1. PolicyLimit \in Nat
  BY LimitAssumption
<1>2. rows \in SUBSET (Policies \cup Incidents) /\ rows \in SUBSET Policies /\ IsFiniteSet(rows)
  BY RowsFinite, FS_Subset
<1> HIDE DEF rows
<1>3. /\ best \in Seq(Hits(rows, matches)) /\ Len(best) <= PolicyLimit
      /\ BestFirst(best, rows, matches, PolicyLimit)
  BY <1>1, <1>2, RankedCut
<1>4. merged = Cut(Pick(list, Firsts(list, key)), PolicyLimit)
  BY DEF MergePolicies, rows
<1> HIDE DEF best
<1>5. \A k \in 1..Len(best) : best[k] \in Hits(rows, matches)
  BY <1>3
<1>6. best \in Seq(Policies)
  <2>1. Hits(rows, matches) \subseteq Policies
    BY <1>2 DEF Hits
  <2> QED BY <1>3, <2>1, SeqWidens
<1>7. /\ list \in Seq(Policies) /\ Len(list) = Len(asked) + Len(best)
      /\ \A m \in 1..Len(asked) : list[m] = asked[m]
      /\ \A m \in 1..Len(best) : list[Len(asked) + m] = best[m]
      /\ ToSet(list) = ToSet(asked) \cup ToSet(best)
  BY <1>6, Joined
<1> HIDE DEF list
<1>8. \A x \in Policies : x \in ToSet(asked) \cup ToSet(best) => key[x] = x
  BY <1>7 DEF Itself
<1> HIDE DEF key
<1>9. /\ merged \in Seq(Policies) /\ Len(merged) <= PolicyLimit
      /\ Merges(merged, asked, best, key, PolicyLimit)
  BY <1>1, <1>4, <1>6, <1>7, MergedCut
<1>10. AskedThenBest(merged, asked, rows, matches)
  BY <1>2, <1>3, <1>5, <1>6, <1>8, <1>9, PoliciesKept
<1> QED BY <1>9, <1>10 DEF rows

\* The incidents that are offered: those near to the text, then those its words
\* match; one article takes one place.
Worded(matches) ==
    {x \in Hits(Incidents, matches) : Cardinality(Better(Incidents, matches, x)) < KeywordLimit}

NearThenWords(merged, found, matches) ==
    /\ Articles(ToSet(found)) \subseteq Articles(ToSet(merged))
    /\ ToSet(merged) \subseteq ToSet(found) \cup Worded(matches)
    /\ \A x \in Worded(matches) : Page[x] \notin Articles(ToSet(merged)) =>
          /\ found # <<>>
          /\ Len(merged) = ContextLimit
          /\ \A y \in ToSet(merged) \ ToSet(found) : Outranks(matches, y, x)

\* The keyword search, cut.
LEMMA WordsCut ==
    ASSUME NEW matches \in [Policies \cup Incidents -> 0..MaxScore],
           NEW best, best = Cut(Ranked(Incidents, matches), KeywordLimit)
    PROVE  /\ best \in Seq(Incidents) /\ Len(best) <= KeywordLimit
           /\ BestFirst(best, Incidents, matches, KeywordLimit)
           /\ \A k \in 1..Len(best) : best[k] \in Worded(matches)
           /\ \A x \in Worded(matches) : \E k \in 1..Len(best) : best[k] = x
<1>1. KeywordLimit \in Nat
  BY LimitAssumption
<1>2. Incidents \in SUBSET (Policies \cup Incidents) /\ IsFiniteSet(Incidents)
  BY RowsFinite
<1>3. /\ best \in Seq(Hits(Incidents, matches)) /\ Len(best) <= KeywordLimit
      /\ BestFirst(best, Incidents, matches, KeywordLimit)
  BY <1>1, <1>2, RankedCut
<1>4. \A x \in Hits(Incidents, matches) : Cardinality(Better(Incidents, matches, x)) \in Nat
  BY <1>2, RankOfMatch
<1>5. \A k \in 1..Len(best) : best[k] \in Hits(Incidents, matches)
  BY <1>3
<1>6. Hits(Incidents, matches) \subseteq Incidents
  BY DEF Hits
<1>7. best \in Seq(Incidents)
  BY <1>3, <1>6, SeqWidens
<1>8. \A k \in 1..Len(best) : best[k] \in Worded(matches)
  BY <1>3, <1>5 DEF BestFirst, Worded
<1>9. ASSUME NEW x \in Worded(matches) PROVE \E k \in 1..Len(best) : best[k] = x
  <2>1. /\ x \in Hits(Incidents, matches)
        /\ Cardinality(Better(Incidents, matches, x)) < KeywordLimit
    BY DEF Worded
  <2>2. ~ (KeywordLimit <= Cardinality(Better(Incidents, matches, x)))
    BY <1>1, <1>4, <2>1
  <2> QED BY <1>3, <2>1, <2>2 DEF BestFirst
<1> QED BY <1>3, <1>7, <1>8, <1>9

LEMMA IncidentsKept ==
    ASSUME NEW found \in Seq(Incidents),
           NEW matches \in [Policies \cup Incidents -> 0..MaxScore],
           NEW best \in Seq(Incidents), Len(best) <= KeywordLimit,
           BestFirst(best, Incidents, matches, KeywordLimit),
           \A k \in 1..Len(best) : best[k] \in Worded(matches),
           \A x \in Worded(matches) : \E k \in 1..Len(best) : best[k] = x,
           NEW merged \in Seq(Incidents), Merges(merged, found, best, Page, ContextLimit)
    PROVE  NearThenWords(merged, found, matches)
<1>1. /\ ContextLimit \in Nat /\ KeywordLimit \in Nat /\ KeywordLimit <= ContextLimit
      /\ Len(found) \in Nat /\ Len(best) \in Nat /\ Len(merged) \in Nat
  BY LimitAssumption
<1>2. /\ \A x : x \in ToSet(found) <=> \E k \in 1..Len(found) : found[k] = x
      /\ \A x : x \in ToSet(best) <=> \E k \in 1..Len(best) : best[k] = x
      /\ \A x : x \in ToSet(merged) <=> \E k \in 1..Len(merged) : merged[k] = x
  BY InList
<1>3. ASSUME NEW x \in ToSet(found) PROVE Page[x] \in Articles(ToSet(merged))
  <2>1. PICK m \in 1..Len(found) : found[m] = x
    BY <1>2
  <2>2. PICK k \in 1..Len(merged) : Page[merged[k]] = Page[found[m]]
    BY DEF Merges
  <2> QED BY <1>2, <2>1, <2>2 DEF Articles
<1>4. Articles(ToSet(found)) \subseteq Articles(ToSet(merged))
  BY <1>3 DEF Articles
<1>5. ASSUME NEW x \in ToSet(merged) PROVE x \in ToSet(found) \cup Worded(matches)
  <2>1. PICK k \in 1..Len(merged) : merged[k] = x
    BY <1>2
  <2>2. \/ \E m \in 1..Len(found) : merged[k] = found[m]
        \/ \E m \in 1..Len(best) : merged[k] = best[m]
    BY DEF Merges
  <2> QED BY <1>2, <2>1, <2>2
<1>6. ASSUME NEW x \in Worded(matches), Page[x] \notin Articles(ToSet(merged))
      PROVE  /\ found # <<>>
             /\ Len(merged) = ContextLimit
             /\ \A y \in ToSet(merged) \ ToSet(found) : Outranks(matches, y, x)
  <2>1. PICK j \in 1..Len(best) : best[j] = x
    OBVIOUS
  <2>2. ~ \E k \in 1..Len(merged) : Page[merged[k]] = Page[best[j]]
    <3>1. \A k \in 1..Len(merged) : Page[merged[k]] \in Articles(ToSet(merged))
      BY <1>2 DEF Articles
    <3> QED BY <1>6, <2>1, <3>1
  <2>3. /\ Len(merged) = ContextLimit /\ ContextLimit < Len(found) + j
        /\ \A k \in 1..Len(merged) : \/ \E m \in 1..Len(found) : merged[k] = found[m]
                                     \/ \E m \in 1..(j - 1) : merged[k] = best[m]
    BY <2>2 DEF Merges
  <2>4. found # <<>>
    <3>1. Len(found) # 0
      BY <1>1, <2>3
    <3> QED BY <3>1
  <2>5. ASSUME NEW y \in ToSet(merged) \ ToSet(found) PROVE Outranks(matches, y, x)
    <3>1. PICK k \in 1..Len(merged) : merged[k] = y /\ \A m \in 1..Len(found) : found[m] # y
      BY <1>2
    <3>2. PICK m \in 1..(j - 1) : y = best[m]
      BY <2>3, <3>1
    <3>3. m \in 1..Len(best) /\ m < j
      BY <1>1
    <3>4. Outranks(matches, best[m], best[j])
      BY <3>3 DEF BestFirst
    <3> QED BY <2>1, <3>2, <3>4
  <2> QED BY <2>3, <2>4, <2>5
<1> QED BY <1>4, <1>5, <1>6 DEF NearThenWords

LEMMA IncidentsMerged ==
    ASSUME NEW matches \in [Policies \cup Incidents -> 0..MaxScore],
           NEW found \in Seq(Incidents), Len(found) <= VectorLimit,
           NEW merged,
           merged = MergeIncidents(Cut(Ranked(Incidents, matches), KeywordLimit), found)
    PROVE  /\ merged \in Seq(Incidents) /\ Len(merged) <= ContextLimit
           /\ NearThenWords(merged, found, matches)
<1> DEFINE best == Cut(Ranked(Incidents, matches), KeywordLimit)
           list == found \o best
<1>1. ContextLimit \in Nat /\ Len(found) \in Nat /\ Len(found) <= ContextLimit
  BY LimitAssumption
<1>2. /\ best \in Seq(Incidents) /\ Len(best) <= KeywordLimit
      /\ BestFirst(best, Incidents, matches, KeywordLimit)
      /\ \A k \in 1..Len(best) : best[k] \in Worded(matches)
      /\ \A x \in Worded(matches) : \E k \in 1..Len(best) : best[k] = x
  BY WordsCut
<1> HIDE DEF best
<1>3. /\ list \in Seq(Incidents) /\ Len(list) = Len(found) + Len(best)
      /\ \A m \in 1..Len(found) : list[m] = found[m]
      /\ \A m \in 1..Len(best) : list[Len(found) + m] = best[m]
  BY <1>2, Joined
<1>4. merged = Cut(Pick(list, Firsts(list, Page)), ContextLimit)
  BY DEF MergeIncidents, best
<1> HIDE DEF list
<1>5. /\ merged \in Seq(Incidents) /\ Len(merged) <= ContextLimit
      /\ Merges(merged, found, best, Page, ContextLimit)
  BY <1>1, <1>2, <1>3, <1>4, MergedCut
<1>6. NearThenWords(merged, found, matches)
  BY <1>2, <1>5, IncidentsKept
<1> QED BY <1>5, <1>6

\* What the words found, as it is, when there is no vector search.
LEMMA WordsAlone ==
    ASSUME NEW matches \in [Policies \cup Incidents -> 0..MaxScore],
           NEW best, best = Cut(Ranked(Incidents, matches), KeywordLimit)
    PROVE  /\ best \in Seq(Incidents) /\ Len(best) <= ContextLimit
           /\ NearThenWords(best, <<>>, matches)
<1>1. /\ best \in Seq(Incidents) /\ Len(best) <= KeywordLimit
      /\ \A k \in 1..Len(best) : best[k] \in Worded(matches)
      /\ \A x \in Worded(matches) : \E k \in 1..Len(best) : best[k] = x
  BY WordsCut
<1>2. \A x : x \in ToSet(best) <=> \E k \in 1..Len(best) : best[k] = x
  BY <1>1, InList
<1>3. Articles(ToSet(<<>>)) = {}
  BY DEF Articles, ToSet
<1>4. ToSet(best) \subseteq Worded(matches)
  BY <1>1, <1>2
<1>5. \A x \in Worded(matches) : Page[x] \in Articles(ToSet(best))
  BY <1>1, <1>2 DEF Articles
<1>6. Len(best) <= ContextLimit
  BY <1>1, LimitAssumption
<1> QED BY <1>1, <1>3, <1>4, <1>5, <1>6 DEF NearThenWords
=============================================================================
