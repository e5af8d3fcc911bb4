------------------------------ MODULE BTreeShape ------------------------------
(***************************************************************************)
(* The B+-tree's pages: what a tree is, level by level, and that inserts,  *)
(* removes, splits, new roots and merges make trees of trees.  No step of  *)
(* a thread is in this module; BTreeProofs has those.                      *)
(***************************************************************************)
EXTENDS BTree, FiniteSetTheorems, TLAPS

-------------------------------------------------------------------------------
(* Numbers and finite sets of them.                                         *)
\* Induction over the numbers, for a set of them instead of a predicate.
LEMMA SetInduction ==
  ASSUME NEW T, 0 \in T, \A n \in Nat : n \in T => n + 1 \in T
  PROVE  Nat \subseteq T
  <1> SUFFICES ASSUME NEW m \in Nat, m \notin T PROVE FALSE OBVIOUS
  <1> DEFINE B == {k \in 0..m : k \notin T}
             f == [k \in B |-> k - 1]
  <1>1. IsFiniteSet(B)
    <2>1. IsFiniteSet(0..m) BY FS_Interval
    <2>2. B \in SUBSET (0..m) OBVIOUS
    <2>3. QED BY <2>1, <2>2, FS_Subset
  <1>2. m \in B OBVIOUS
  <1>3. IsFiniteSet(B \ {m}) /\ Cardinality(B \ {m}) < Cardinality(B)
    <2>1. IsFiniteSet(B \ {m}) /\ Cardinality(B \ {m}) = Cardinality(B) - 1
      BY <1>1, <1>2, FS_RemoveElement
    <2>2. Cardinality(B) \in Nat BY <1>1, FS_CardinalityType
    <2>3. QED BY <2>1, <2>2
  <1>4. f \in [B -> B \ {m}]
    <2> SUFFICES ASSUME NEW k \in B PROVE k - 1 \in B \ {m} OBVIOUS
    <2>1. k # 0 OBVIOUS
    <2>2. k - 1 \in Nat /\ k - 1 \in 0..m /\ k - 1 # m BY <2>1
    <2>3. k - 1 \notin T
      <3> SUFFICES ASSUME k - 1 \in T PROVE FALSE OBVIOUS
      <3>1. (k - 1) + 1 \in T BY <2>2
      <3>2. (k - 1) + 1 = k OBVIOUS
      <3>3. QED BY <3>1, <3>2
    <2>4. QED BY <2>2, <2>3
  <1>5. \E x, y \in B : x # y /\ f[x] = f[y]
    <2> HIDE DEF B, f
    <2>1. QED BY <1>1, <1>3, <1>4, FS_PigeonHole
  <1>6. QED BY <1>5
LEMMA LeastElement ==
  ASSUME NEW S, S \subseteq Nat, S # {}
  PROVE  \E m \in S : \A n \in S : m <= n
  <1> SUFFICES ASSUME \A m \in S : \E n \in S : n < m PROVE FALSE OBVIOUS
  <1> DEFINE T == {n \in Nat : \A m \in 0..n : m \notin S}
  <1>1. 0 \in T
    <2> SUFFICES ASSUME 0 \in S PROVE FALSE OBVIOUS
    <2>1. PICK n \in S : n < 0 OBVIOUS
    <2>2. QED BY <2>1
  <1>2. ASSUME NEW n \in Nat, n \in T PROVE n + 1 \in T
    <2> SUFFICES ASSUME n + 1 \in S PROVE FALSE BY <1>2
    <2>1. PICK k \in S : k < n + 1 OBVIOUS
    <2>2. k \in 0..n BY <2>1
    <2>3. QED BY <1>2, <2>2
  <1>3. Nat \subseteq T
    <2> HIDE DEF T
    <2>1. QED BY <1>1, <1>2, SetInduction
  <1>4. PICK s : s \in S OBVIOUS
  <1>5. QED BY <1>3, <1>4

LEMMA MinIs ==
  ASSUME NEW S, S \subseteq Nat, S # {}
  PROVE  Min(S) \in S /\ \A n \in S : Min(S) <= n
  BY LeastElement DEF Min

LEMMA MinEquals ==
  ASSUME NEW S, S \subseteq Nat, NEW m \in S, \A n \in S : m <= n
  PROVE  Min(S) = m
  <1>1. Min(S) \in S /\ \A n \in S : Min(S) <= n BY MinIs
  <1>2. Min(S) \in Nat /\ m \in Nat /\ Min(S) <= m /\ m <= Min(S) BY <1>1
  <1>3. QED BY <1>2

(* A finite set of numbers has a greatest element: one without any bound    *)
(* would have the least cardinality of all.                                 *)
LEMMA FiniteBound ==
  ASSUME NEW S, S \subseteq Nat, IsFiniteSet(S)
  PROVE  \E m \in Nat : \A n \in S : n <= m
  <1> DEFINE Bad(n) == \E R \in SUBSET Nat : /\ IsFiniteSet(R) /\ Cardinality(R) = n
                                             /\ \A m \in Nat : \E k \in R : k > m
             B == {n \in Nat : Bad(n)}
  <1>1. SUFFICES ASSUME B # {} PROVE FALSE
    <2> SUFFICES ASSUME \A m \in Nat : \E k \in S : k > m PROVE Cardinality(S) \in B OBVIOUS
    <2>1. Cardinality(S) \in Nat BY FS_CardinalityType
    <2>2. QED BY <2>1
  <1>2. PICK n \in B : \A k \in B : n <= k
    <2> HIDE DEF B
    <2>0. B \subseteq Nat BY DEF B
    <2>1. QED BY <1>1, <2>0, LeastElement
  <1>3. PICK R \in SUBSET Nat : /\ IsFiniteSet(R) /\ Cardinality(R) = n
                                /\ \A m \in Nat : \E k \in R : k > m
    OBVIOUS
  <1>4. PICK r \in R : r > 0 BY <1>3
  <1>5. IsFiniteSet(R \ {r}) /\ Cardinality(R \ {r}) = n - 1 BY <1>3, <1>4, FS_RemoveElement
  <1>6. n - 1 \in Nat BY <1>5, FS_CardinalityType
  <1>7. \A m \in Nat : \E k \in R \ {r} : k > m
    <2> SUFFICES ASSUME NEW m \in Nat PROVE \E k \in R \ {r} : k > m OBVIOUS
    <2>1. m + r \in Nat OBVIOUS
    <2>2. PICK k \in R : k > m + r BY <1>3, <2>1
    <2>3. k # r /\ k > m BY <2>2
    <2>4. QED BY <2>3
  <1>8. n - 1 \in B BY <1>5, <1>6, <1>7
  <1>9. QED BY <1>2, <1>6, <1>8

LEMMA MaxIs ==
  ASSUME NEW S, S \subseteq Nat, S # {}, IsFiniteSet(S)
  PROVE  Max(S) \in S /\ \A n \in S : n <= Max(S)
  <1> DEFINE U == {m \in Nat : \A n \in S : n <= m}
  <1>1. U # {} BY FiniteBound
  <1>2. PICK m \in U : \A n \in U : m <= n
    <2> HIDE DEF U
    <2>0. U \subseteq Nat BY DEF U
    <2>1. QED BY <1>1, <2>0, LeastElement
  <1>3. m \in S
    <2> SUFFICES ASSUME m \notin S PROVE FALSE OBVIOUS
    <2>1. \A n \in S : n <= m - 1 OBVIOUS
    <2>2. m - 1 \in Nat
      <3>1. PICK s \in S : TRUE OBVIOUS
      <3>2. s \in Nat /\ s <= m - 1 BY <2>1, <3>1
      <3>3. QED BY <3>2
    <2>3. m - 1 \in U BY <2>1, <2>2
    <2>4. QED BY <1>2, <2>2, <2>3
  <1>4. \E x \in S : \A y \in S : x >= y BY <1>3
  <1>5. QED BY <1>4 DEF Max

(* In a finite set of numbers there is one with any smaller number of       *)
(* members below it.                                                        *)
LEMMA RankExists ==
  ASSUME NEW S, S \subseteq Nat, IsFiniteSet(S), NEW i \in Nat, i < Cardinality(S)
  PROVE  \E s \in S : Cardinality({r \in S : r < s}) = i
  <1> DEFINE Below(n) == {r \in S : r < n}
             U == {n \in Nat : Cardinality(Below(n)) > i}
  <1>0. ASSUME NEW n PROVE IsFiniteSet(Below(n)) /\ Cardinality(Below(n)) \in Nat
    <2>1. Below(n) \in SUBSET S OBVIOUS
    <2>2. IsFiniteSet(Below(n)) BY <2>1, FS_Subset
    <2>3. QED BY <2>2, FS_CardinalityType
  <1>1. U # {}
    <2>1. PICK m \in Nat : \A n \in S : n <= m BY FiniteBound
    <2>2. \A r \in S : r \in Nat /\ r < m + 1 BY <2>1
    <2>3. Below(m + 1) = S BY <2>2
    <2>4. Cardinality(Below(m + 1)) > i BY <2>3
    <2>5. QED BY <2>4
  <1>2. PICK n \in U : \A k \in U : n <= k
    <2> HIDE DEF U
    <2>0. U \subseteq Nat BY DEF U
    <2>1. QED BY <1>1, <2>0, LeastElement
  <1>3. n # 0
    <2>0. \A r \in S : r \in Nat /\ ~(r < 0) OBVIOUS
    <2>1. Below(0) = {} BY <2>0
    <2>2. Cardinality(Below(0)) = 0 BY <2>1, FS_EmptySet
    <2>3. QED BY <2>2
  <1>4. n - 1 \in Nat /\ n - 1 \notin U BY <1>2, <1>3
  <1>5. Cardinality(Below(n - 1)) <= i BY <1>0, <1>4
  <1>6. Below(n) = IF n - 1 \in S THEN Below(n - 1) \cup {n - 1} ELSE Below(n - 1)
    <2>1. \A r \in S : r \in Nat /\ (r < n <=> r < n - 1 \/ r = n - 1) BY <1>4
    <2>2. \A r : r \in Below(n) <=> r \in Below(n - 1) \/ (r = n - 1 /\ n - 1 \in S) BY <2>1
    <2>3. QED BY <2>2
  <1>7. Cardinality(Below(n)) > i OBVIOUS
  <1>8. n - 1 \in S
    <2> SUFFICES ASSUME n - 1 \notin S PROVE FALSE OBVIOUS
    <2>1. Cardinality(Below(n)) = Cardinality(Below(n - 1)) BY <1>6
    <2>2. QED BY <1>0, <1>5, <1>7, <2>1
  <1>9. n - 1 \notin Below(n - 1) BY <1>4
  <1>10. Cardinality(Below(n)) = Cardinality(Below(n - 1)) + 1
    <2> HIDE DEF Below
    <2>1. QED BY <1>0, <1>6, <1>8, <1>9, FS_AddElement
  <1>11. Cardinality(Below(n - 1)) = i
    <2> DEFINE c == Cardinality(Below(n - 1))
    <2>1. c \in Nat BY <1>0
    <2>2. c <= i BY <1>5
    <2>3. c + 1 > i BY <1>7, <1>10
    <2> HIDE DEF c
    <2>4. c = i BY <2>1, <2>2, <2>3
    <2>5. QED BY <2>4 DEF c
  <1>12. QED BY <1>8, <1>11

-------------------------------------------------------------------------------
(* The places of keys and of separators in the order, and what a tree nd of *)
(* pages 0..mk is: at[l][k] is the page of level l that the descent for k   *)
(* passes, h the level of the metadata page.                                *)
Places == 1..Top
SlotIn(kids, k) == Min({s \in DOMAIN kids : s >= k})
KidFor(nd, n, k) == nd[n].kids[SlotIn(nd[n].kids, k)]
HiFor(nd, n, s) == IF s = Top THEN nd[n].hi ELSE s

IsNode(r) == r = [leaf |-> r.leaf, keys |-> r.keys, kids |-> r.kids,
                  lo |-> r.lo, hi |-> r.hi, next |-> r.next]
Records(nd, mk) ==
  /\ nd = [p \in Pages |-> nd[p]] /\ mk \in Pages
  /\ \A p \in Pages : /\ IsNode(nd[p]) /\ nd[p].leaf \in BOOLEAN
                      /\ nd[p].keys \subseteq Keys /\ nd[p].next \in (1..mk) \cup {NoPage}
                      /\ nd[p].lo \in 0..Top /\ nd[p].hi \in 0..Top

\* The levels: the metadata page is alone on its own, and no page is on two.
Levels(mk, h, at) ==
  /\ h \in Nat \ {0} /\ at \in [0..h -> [Places -> Pages]]
  /\ \A k \in Places : at[h][k] = Meta
  /\ \A l \in 0..h, k \in Places : l < h => at[l][k] \in 1..mk
  /\ \A l, m \in 0..h, j, k \in Places : at[l][j] = at[m][k] => l = m

\* Of each level, the fences divide the keys, ever finer from level to level.
Fences(nd, h, at) ==
  /\ \A l \in 0..h, k \in Places : nd[at[l][k]].lo < k /\ k <= nd[at[l][k]].hi
  /\ \A l \in 0..h, j, k \in Places :
       nd[at[l][k]].lo < j /\ j <= nd[at[l][k]].hi => at[l][j] = at[l][k]
Nested(h, at) == \A l \in 0..h, j, k \in Places :
  l < h /\ at[l][j] = at[l][k] => at[l + 1][j] = at[l + 1][k]

\* The leaves are the pages of level 0, and those that are in no tree.
Kinds(nd, h, at) ==
  /\ \A l \in 0..h, k \in Places : nd[at[l][k]].leaf <=> l = 0
  /\ \A p \in Pages : ~nd[p].leaf => \E l \in 0..h, k \in Places : p = at[l][k]

\* The separators of an inner page lie between its fences, and are its children's.
Slots(nd) == \A p \in Pages : ~nd[p].leaf =>
  /\ nd[p].kids = [s \in DOMAIN nd[p].kids |-> nd[p].kids[s]]
  /\ DOMAIN nd[p].kids \subseteq Places /\ Top \in DOMAIN nd[p].kids
  /\ \A s \in DOMAIN nd[p].kids : s # Top => nd[p].lo < s /\ s < nd[p].hi
  /\ p = Meta => DOMAIN nd[p].kids = {Top}
KidsAt(nd, h, at) == \A l \in 0..h, k \in Places : l < h =>
  LET n == at[l + 1][k]
  IN /\ KidFor(nd, n, k) = at[l][k]
     /\ nd[at[l][k]].hi = HiFor(nd, n, SlotIn(nd[n].kids, k))

\* A leaf of the tree has keys between its fences, and points to the next one.
Chained(nd, at) == \A k \in Places :
  LET n == nd[at[0][k]]
  IN /\ n.next = IF n.hi < Top THEN at[0][n.hi + 1] ELSE NoPage
     /\ \A j \in n.keys : n.lo < j /\ j <= n.hi

Shape(nd, mk, h, at) ==
  /\ Records(nd, mk) /\ Levels(mk, h, at) /\ Fences(nd, h, at) /\ Nested(h, at)
  /\ Kinds(nd, h, at) /\ Slots(nd) /\ KidsAt(nd, h, at) /\ Chained(nd, at)
LEMMA TopFacts == /\ Top \in Nat /\ Top > 1 /\ Top \in Places
                  /\ \A k \in Keys : k \in Places /\ k < Top
  <1>1. Keys \subseteq Nat /\ Keys # {} /\ IsFiniteSet(Keys) BY KeysAssumption
  <1>2. Max(Keys) \in Keys /\ \A n \in Keys : n <= Max(Keys) BY <1>1, MaxIs
  <1>3. \A k \in Keys : k \in Nat \ {0} BY KeysAssumption
  <1>4. QED BY <1>2, <1>3 DEF Top, Places

LEMMA PagesFacts == /\ MaxPages \in Nat /\ Pages \subseteq Nat
                    /\ Pages = 0..MaxPages /\ NoPage \notin Pages /\ Meta \in Pages
  BY TreesAssumption DEF Pages, Meta, NoPage

(* The slot for a key: the least one that is not below it.                  *)
LEMMA SlotIs ==
  ASSUME NEW kids, DOMAIN kids \subseteq Places, Top \in DOMAIN kids, NEW k \in Places
  PROVE  /\ SlotIn(kids, k) \in DOMAIN kids /\ k <= SlotIn(kids, k)
         /\ SlotIn(kids, k) \in Places
         /\ \A s \in DOMAIN kids : s >= k => SlotIn(kids, k) <= s
  <1> DEFINE S == {s \in DOMAIN kids : s >= k}
  <1>1. S \subseteq Nat BY DEF Places
  <1>2. Top >= k BY TopFacts DEF Places
  <1>3. S # {} BY <1>2
  <1>4. Min(S) \in S /\ \A n \in S : Min(S) <= n
    <2> HIDE DEF S
    <2>1. QED BY <1>1, <1>3, MinIs
  <1>5. SlotIn(kids, k) = Min(S) BY DEF SlotIn
  <1>6. QED BY <1>4, <1>5

LEMMA SlotEquals ==
  ASSUME NEW kids, DOMAIN kids \subseteq Places, NEW k \in Places,
         NEW m \in DOMAIN kids, m >= k, \A s \in DOMAIN kids : s >= k => m <= s
  PROVE  SlotIn(kids, k) = m
  <1> DEFINE S == {s \in DOMAIN kids : s >= k}
  <1>1. S \subseteq Nat BY DEF Places
  <1>2. m \in S /\ \A s \in S : m <= s OBVIOUS
  <1>3. Min(S) = m
    <2> HIDE DEF S
    <2>1. QED BY <1>1, <1>2, MinEquals
  <1>4. QED BY <1>3 DEF SlotIn

(* What the shape says of the page at a level: its kind, its fences, and    *)
(* that its child lies within them.                                         *)
LEMMA AtFacts ==
  ASSUME NEW nd, NEW mk, NEW h, NEW at, Shape(nd, mk, h, at),
         NEW l \in 0..h, NEW k \in Places
  PROVE  /\ h \in Nat /\ at[l][k] \in Pages /\ at[l][k] \in 0..mk
         /\ nd[at[l][k]].lo \in 0..Top /\ nd[at[l][k]].hi \in Places
         /\ nd[at[l][k]].lo < k /\ k <= nd[at[l][k]].hi
  <1>1. h \in Nat /\ at[l][k] \in Pages BY DEF Shape, Levels
  <1>2. at[l][k] \in 0..mk
    <2>1. mk \in Nat BY PagesFacts DEF Shape, Records
    <2>2. l < h \/ l = h BY <1>1
    <2>3. QED BY <2>1, <2>2 DEF Shape, Levels, Meta
  <1>3. nd[at[l][k]].lo \in 0..Top /\ nd[at[l][k]].hi \in 0..Top BY <1>1 DEF Shape, Records
  <1>4. nd[at[l][k]].lo < k /\ k <= nd[at[l][k]].hi BY DEF Shape, Fences
  <1>5. QED BY <1>1, <1>2, <1>3, <1>4, TopFacts DEF Places

LEMMA WithinParent ==
  ASSUME NEW nd, NEW mk, NEW h, NEW at, Shape(nd, mk, h, at),
         NEW l \in 0..h, l < h, NEW k \in Places
  PROVE  /\ nd[at[l + 1][k]].lo <= nd[at[l][k]].lo
         /\ nd[at[l][k]].hi <= nd[at[l + 1][k]].hi
  <1> DEFINE c == at[l][k]
             p == at[l + 1][k]
  <1>0. l + 1 \in 0..h /\ h \in Nat BY AtFacts
  <1>1. /\ nd[c].lo \in 0..Top /\ nd[c].hi \in Places /\ nd[c].lo < k /\ k <= nd[c].hi
        /\ nd[p].lo \in 0..Top /\ nd[p].hi \in Places /\ nd[p].lo < k /\ k <= nd[p].hi
    BY AtFacts, <1>0
  <1>2. ASSUME NEW j \in Places, nd[c].lo < j, j <= nd[c].hi
        PROVE  nd[p].lo < j /\ j <= nd[p].hi
    <2>1. at[l][j] = c BY <1>2 DEF Shape, Fences
    <2>2. at[l + 1][j] = p BY <2>1 DEF Shape, Nested
    <2>3. QED BY <2>2, <1>0, AtFacts
  <1> HIDE DEF c, p
  <1>3. nd[c].hi <= nd[p].hi
    <2>1. nd[c].lo < nd[c].hi /\ nd[c].hi <= nd[c].hi BY <1>1, TopFacts DEF Places
    <2>2. QED BY <1>1, <1>2, <2>1
  <1>4. nd[c].lo + 1 \in Places BY <1>1, TopFacts DEF Places
  <1>5. nd[p].lo < nd[c].lo + 1
    <2>1. nd[c].lo < nd[c].lo + 1 /\ nd[c].lo + 1 <= nd[c].hi BY <1>1, TopFacts DEF Places
    <2>2. QED BY <1>2, <1>4, <2>1
  <1>6. QED BY <1>1, <1>3, <1>5, TopFacts DEF Places, c, p

(* An inner page sends a key that is beyond its fences where it sends the   *)
(* fence.                                                                   *)
Clamp(nd, n, k) == IF k > nd[n].hi THEN nd[n].hi
                   ELSE IF k <= nd[n].lo THEN nd[n].lo + 1 ELSE k

LEMMA ClampFacts ==
  ASSUME NEW nd, NEW mk, NEW h, NEW at, Shape(nd, mk, h, at),
         NEW l \in 0..h, l < h, NEW j \in Places, NEW k \in Places
  PROVE  LET n == at[l + 1][j]
             c == Clamp(nd, n, k)
         IN /\ c \in Places /\ at[l + 1][c] = n /\ KidFor(nd, n, k) = at[l][c]
            /\ l > 0 => Clamp(nd, at[l][c], k) \in Places
                        /\ at[l][Clamp(nd, at[l][c], k)] = at[l][c]
                        /\ at[0][Clamp(nd, at[l][c], k)] = at[0][c]
  <1> DEFINE n == at[l + 1][j]
             c == Clamp(nd, n, k)
  <1>0. l + 1 \in 0..h /\ h \in Nat /\ l \in Nat BY AtFacts
  <1>1. n \in Pages /\ nd[n].lo \in 0..Top /\ nd[n].hi \in Places /\ nd[n].lo < nd[n].hi
    BY <1>0, AtFacts, TopFacts DEF Places
  <1>2. c \in Places /\ nd[n].lo < c /\ c <= nd[n].hi
    BY <1>1, TopFacts DEF Places, Clamp
  <1>3. at[l + 1][c] = n BY <1>0, <1>2 DEF Shape, Fences
  <1>4. ~nd[n].leaf BY <1>0 DEF Shape, Kinds
  <1>5. /\ DOMAIN nd[n].kids \subseteq Places /\ Top \in DOMAIN nd[n].kids
        /\ \A s \in DOMAIN nd[n].kids : s # Top => nd[n].lo < s /\ s < nd[n].hi
    BY <1>1, <1>4 DEF Shape, Slots
  <1>6. SlotIn(nd[n].kids, k) = SlotIn(nd[n].kids, c)
    <2> DEFINE m == SlotIn(nd[n].kids, c)
    <2>1. m \in DOMAIN nd[n].kids /\ m >= c /\ \A s \in DOMAIN nd[n].kids : s >= c => m <= s
      BY <1>2, <1>5, SlotIs DEF Places
    <2>2. \A s \in DOMAIN nd[n].kids : s >= k <=> s >= c
      <3> SUFFICES ASSUME NEW s \in DOMAIN nd[n].kids PROVE s >= k <=> s >= c OBVIOUS
      <3> HIDE DEF n, m
      <3>1. s \in Places /\ (s # Top => nd[n].lo < s /\ s < nd[n].hi) BY <1>5
      <3>2. QED BY <3>1, <1>1, TopFacts DEF Places, Clamp
    <2>3. m >= k BY <2>1, <2>2
    <2> HIDE DEF m
    <2>4. SlotIn(nd[n].kids, k) = m BY <2>1, <2>2, <2>3, <1>5, SlotEquals
    <2>5. QED BY <2>4 DEF m
  <1>7. KidFor(nd, n, k) = at[l][c]
    <2>1. KidFor(nd, n, c) = at[l][c] BY <1>2, <1>3 DEF Shape, KidsAt
    <2>2. QED BY <2>1, <1>6 DEF KidFor
  <1>8. ASSUME l > 0
        PROVE  /\ Clamp(nd, at[l][c], k) \in Places
               /\ at[l][Clamp(nd, at[l][c], k)] = at[l][c]
               /\ at[0][Clamp(nd, at[l][c], k)] = at[0][c]
    <2> DEFINE m == at[l][c]
               d == Clamp(nd, m, k)
    <2>1. /\ nd[m].lo \in 0..Top /\ nd[m].hi \in Places
          /\ nd[m].lo < c /\ c <= nd[m].hi
      BY <1>0, <1>2, AtFacts
    <2>2. nd[n].lo <= nd[m].lo /\ nd[m].hi <= nd[n].hi BY <1>2, <1>3, WithinParent
    <2> HIDE DEF m, n
    <2>3. d = c BY <1>1, <1>2, <2>1, <2>2, TopFacts DEF Clamp, Places
    <2>4. QED BY <2>3, <1>2 DEF m
  <1>9. QED BY <1>2, <1>3, <1>7, <1>8

DownOf(nd, k) ==
  CHOOSE f : f = [n \in Pages |-> IF nd[n].leaf THEN n ELSE f[KidFor(nd, n, k)]]

LEMMA DownDefined ==
  ASSUME NEW nd, NEW mk, NEW h, NEW at, Shape(nd, mk, h, at), NEW k \in Places
  PROVE  \E f : f = [n \in Pages |-> IF nd[n].leaf THEN n ELSE f[KidFor(nd, n, k)]]
  <1> DEFINE f == [n \in Pages |-> IF nd[n].leaf THEN n ELSE at[0][Clamp(nd, n, k)]]
  <1>1. ASSUME NEW n \in Pages, ~nd[n].leaf PROVE f[n] = f[KidFor(nd, n, k)]
    <2>1. PICK m \in 0..h, j \in Places : n = at[m][j] BY <1>1 DEF Shape, Kinds
    <2>2. h \in Nat /\ m # 0 BY <2>1, <1>1, AtFacts DEF Shape, Kinds
    <2>3. PICK l \in 0..h : l < h /\ l + 1 = m BY <2>2
    <2> DEFINE c == Clamp(nd, n, k)
               kid == KidFor(nd, n, k)
    <2>4. /\ c \in Places /\ kid = at[l][c]
          /\ l > 0 => at[0][Clamp(nd, kid, k)] = at[0][c]
      <3>1. n = at[l + 1][j] BY <2>1, <2>3
      <3>2. /\ c \in Places /\ kid = at[l][c]
            /\ l > 0 => at[0][Clamp(nd, at[l][c], k)] = at[0][c]
        BY <2>3, <3>1, ClampFacts
      <3> HIDE DEF c, kid
      <3>3. QED BY <3>2
    <2>5. f[n] = at[0][c] BY <1>1
    <2>6. kid \in Pages /\ (nd[kid].leaf <=> l = 0) BY <2>4, AtFacts DEF Shape, Kinds
    <2>7. CASE l = 0 BY <2>4, <2>5, <2>6, <2>7
    <2>8. CASE l # 0
      <3>1. l > 0 BY <2>2, <2>8
      <3>2. f[kid] = at[0][Clamp(nd, kid, k)] BY <2>6, <2>8
      <3>3. QED BY <3>1, <3>2, <2>4, <2>5
    <2>9. QED BY <2>7, <2>8
  <1>2. f = [n \in Pages |-> IF nd[n].leaf THEN n ELSE f[KidFor(nd, n, k)]] BY <1>1
  <1>3. QED BY <1>2

LEMMA DescentEnds ==
  ASSUME NEW nd, NEW mk, NEW h, NEW at, Shape(nd, mk, h, at), NEW k \in Places
  PROVE  DownOf(nd, k)[Meta] = at[0][k]
  <1> DEFINE f == DownOf(nd, k)
             T == {l \in Nat : l <= h => f[at[l][k]] = at[0][k]}
  <1>1. f = [n \in Pages |-> IF nd[n].leaf THEN n ELSE f[KidFor(nd, n, k)]]
    BY DownDefined DEF DownOf
  <1>2. h \in Nat /\ 0 \in 0..h BY DEF Shape, Levels
  <1> HIDE DEF f
  <1>3. 0 \in T
    <2>1. at[0][k] \in Pages /\ nd[at[0][k]].leaf BY <1>2, AtFacts DEF Shape, Kinds
    <2>2. QED BY <1>1, <2>1
  <1>4. ASSUME NEW l \in Nat, l \in T PROVE l + 1 \in T
    <2> SUFFICES ASSUME l + 1 <= h PROVE f[at[l + 1][k]] = at[0][k] OBVIOUS
    <2>1. l \in 0..h /\ l < h /\ l + 1 \in 0..h BY <1>2
    <2>2. f[at[l][k]] = at[0][k] BY <1>4, <2>1
    <2>3. at[l + 1][k] \in Pages /\ ~nd[at[l + 1][k]].leaf BY <2>1, AtFacts DEF Shape, Kinds
    <2>4. KidFor(nd, at[l + 1][k], k) = at[l][k] BY <2>1 DEF Shape, KidsAt
    <2>5. QED BY <1>1, <2>2, <2>3, <2>4
  <1>5. Nat \subseteq T
    <2> HIDE DEF T
    <2>1. QED BY <1>3, <1>4, SetInduction
  <1>6. f[at[h][k]] = at[0][k] BY <1>2, <1>5
  <1>7. at[h][k] = Meta BY DEF Shape, Levels
  <1>8. QED BY <1>6, <1>7 DEF f

LEMMA LeafOfIs == \A k : LeafOf(k) = DownOf(nodes, k)[Meta] /\ LeafOf(k)' = DownOf(nodes', k)[Meta]
  BY DEF LeafOf, DownOf, KidFor, SlotIn, Child, Slot

-------------------------------------------------------------------------------
(* What the operations do to the tree.  A leaf takes other keys between its *)
(* fences.                                                                  *)
SameNode(a, b) == /\ a.leaf = b.leaf /\ a.kids = b.kids /\ a.next = b.next
                  /\ a.lo = b.lo /\ a.hi = b.hi

WithKeys(nd, n, ks) == [nd EXCEPT ![n].keys = ks]

LEMMA KeysChange ==
  ASSUME NEW nd, NEW mk, NEW h, NEW at, Shape(nd, mk, h, at),
         NEW k \in Places, NEW ks \in SUBSET Keys,
         \A j \in ks : nd[at[0][k]].lo < j /\ j <= nd[at[0][k]].hi
  PROVE  LET nd2 == WithKeys(nd, at[0][k], ks)
         IN /\ Shape(nd2, mk, h, at)
            /\ \A j \in Places : nd2[at[0][j]].keys = IF at[0][j] = at[0][k] THEN ks
                                                      ELSE nd[at[0][j]].keys
  <1> DEFINE n == at[0][k]
             nd2 == WithKeys(nd, n, ks)
  <1>1. h \in Nat /\ 0 \in 0..h /\ n \in Pages BY AtFacts DEF Shape, Levels
  <1>2. nd = [p \in Pages |-> nd[p]] /\ \A p \in Pages : IsNode(nd[p]) BY DEF Shape, Records
  <1>3. nd2 = [p \in Pages |-> nd2[p]] BY <1>2 DEF WithKeys
  <1>4. \A p \in Pages : p # n => nd2[p] = nd[p] BY <1>2 DEF WithKeys
  <1>5. nd2[n] = [nd[n] EXCEPT !.keys = ks] BY <1>1, <1>2 DEF WithKeys
  <1>6. IsNode(nd2[n]) /\ SameNode(nd2[n], nd[n]) /\ nd2[n].keys = ks
    BY <1>1, <1>2, <1>5 DEF IsNode, SameNode
  <1> HIDE DEF n, nd2
  <1>7. \A p \in Pages : /\ IsNode(nd2[p]) /\ SameNode(nd2[p], nd[p])
                         /\ nd2[p].keys = IF p = n THEN ks ELSE nd[p].keys
    BY <1>2, <1>4, <1>6 DEF SameNode
  <1>8. \A l \in 0..h, j \in Places : at[l][j] \in Pages BY AtFacts
  <1>9. Records(nd2, mk) BY <1>3, <1>7 DEF Shape, Records, SameNode
  <1>10. Fences(nd2, h, at) BY <1>7, <1>8 DEF Shape, Fences, SameNode
  <1>11. Kinds(nd2, h, at) BY <1>7, <1>8 DEF Shape, Kinds, SameNode
  <1>12. Slots(nd2) BY <1>7 DEF Shape, Slots, SameNode
  <1>13. KidsAt(nd2, h, at)
    <2> SUFFICES ASSUME NEW l \in 0..h, NEW j \in Places, l < h
                 PROVE  /\ KidFor(nd2, at[l + 1][j], j) = at[l][j]
                        /\ nd2[at[l][j]].hi
                             = HiFor(nd2, at[l + 1][j], SlotIn(nd2[at[l + 1][j]].kids, j))
      BY DEF KidsAt
    <2>1. l + 1 \in 0..h BY <1>1
    <2>2. at[l][j] \in Pages /\ at[l + 1][j] \in Pages BY <2>1, <1>8
    <2>3. QED BY <2>2, <1>7 DEF Shape, KidsAt, KidFor, HiFor, SameNode
  <1>14. Chained(nd2, at)
    <2> SUFFICES ASSUME NEW j \in Places
                 PROVE  /\ nd2[at[0][j]].next = IF nd2[at[0][j]].hi < Top
                                                THEN at[0][nd2[at[0][j]].hi + 1] ELSE NoPage
                        /\ \A i \in nd2[at[0][j]].keys : /\ nd2[at[0][j]].lo < i
                                                         /\ i <= nd2[at[0][j]].hi
      BY DEF Chained
    <2>1. at[0][j] \in Pages BY <1>1, <1>8
    <2>2. QED BY <2>1, <1>7 DEF Shape, Chained, SameNode, n
  <1>15. Shape(nd2, mk, h, at) BY <1>9, <1>10, <1>11, <1>12, <1>13, <1>14 DEF Shape
  <1>16. \A j \in Places : nd2[at[0][j]].keys = IF at[0][j] = n THEN ks ELSE nd[at[0][j]].keys
    BY <1>1, <1>7, <1>8
  <1>17. QED BY <1>15, <1>16 DEF n, nd2

(* A new root above the root.                                               *)
LEMMA RootChild ==
  ASSUME NEW nd, NEW mk, NEW h, NEW at, Shape(nd, mk, h, at)
  PROVE  /\ ~nd[Meta].leaf /\ DOMAIN nd[Meta].kids = {Top} /\ nd[Meta].lo = 0 /\ nd[Meta].hi = Top
         /\ h - 1 \in 0..h /\ nd[Meta].kids[Top] \in 1..mk
         /\ \A k \in Places : at[h - 1][k] = nd[Meta].kids[Top]
         /\ nd[nd[Meta].kids[Top]].lo = 0 /\ nd[nd[Meta].kids[Top]].hi = Top
  <1>1. h \in Nat /\ h # 0 /\ h \in 0..h /\ h - 1 \in 0..h /\ h - 1 < h /\ (h - 1) + 1 = h
    BY DEF Shape, Levels
  <1>2. \A k \in Places : at[h][k] = Meta BY DEF Shape, Levels
  <1>3. Meta \in Pages /\ 1 \in Places /\ Top \in Places /\ Top \in Nat
    BY PagesFacts, TopFacts DEF Places
  <1>4. ~nd[Meta].leaf BY <1>1, <1>2, <1>3 DEF Shape, Kinds
  <1>5. DOMAIN nd[Meta].kids = {Top} BY <1>3, <1>4 DEF Shape, Slots
  <1>6. nd[Meta].lo \in 0..Top /\ nd[Meta].hi \in Places /\ nd[Meta].lo < 1 /\ Top <= nd[Meta].hi
    BY <1>1, <1>2, <1>3, AtFacts
  <1>7. nd[Meta].lo = 0 /\ nd[Meta].hi = Top BY <1>3, <1>6 DEF Places
  <1>8. ASSUME NEW k \in Places
        PROVE  at[h - 1][k] = nd[Meta].kids[Top] /\ nd[at[h - 1][k]].hi = Top
    <2>1. SlotIn(nd[Meta].kids, k) = Top BY <1>3, <1>5, SlotIs
    <2>2. /\ KidFor(nd, at[(h - 1) + 1][k], k) = at[h - 1][k]
          /\ nd[at[h - 1][k]].hi = HiFor(nd, at[(h - 1) + 1][k],
                                         SlotIn(nd[at[(h - 1) + 1][k]].kids, k))
      BY <1>1 DEF Shape, KidsAt
    <2>3. at[(h - 1) + 1][k] = Meta BY <1>1, <1>2
    <2>4. QED BY <2>1, <2>2, <2>3, <1>7 DEF KidFor, HiFor
  <1>9. at[h - 1][1] \in 1..mk /\ nd[at[h - 1][1]].lo \in 0..Top /\ nd[at[h - 1][1]].lo < 1
    BY <1>1, <1>3, AtFacts DEF Shape, Levels
  <1>10. QED BY <1>1, <1>3, <1>4, <1>5, <1>7, <1>8, <1>9

GrownAt(h, at, g) == [l \in 0..(h + 1) |-> IF l < h THEN at[l]
                                           ELSE [k \in Places |-> IF l = h THEN g ELSE Meta]]
\* nd2 has a new root, the next page, above the root of nd.
MayGrow(nd, mk, h, at, nd2) ==
  /\ Shape(nd, mk, h, at) /\ mk + 1 \in Pages
  /\ nd2 = [p \in Pages |-> nd2[p]]
  /\ \A p \in Pages : p # Meta /\ p # mk + 1 => nd2[p] = nd[p]
  /\ IsNode(nd2[Meta]) /\ nd2[Meta].leaf = FALSE /\ nd2[Meta].keys = nd[Meta].keys
  /\ nd2[Meta].next = nd[Meta].next /\ nd2[Meta].lo = nd[Meta].lo /\ nd2[Meta].hi = nd[Meta].hi
  /\ nd2[Meta].kids = [s \in {Top} |-> mk + 1]
  /\ nd2[mk + 1] = InnerNode([s \in {Top} |-> nd[Meta].kids[Top]], 0, Top)

LEMMA RootGrows ==
  ASSUME NEW nd, NEW mk, NEW h, NEW at, NEW nd2, MayGrow(nd, mk, h, at, nd2)
  PROVE  /\ Shape(nd2, mk + 1, h + 1, GrownAt(h, at, mk + 1))
         /\ \A k \in Places : /\ GrownAt(h, at, mk + 1)[0][k] = at[0][k]
                              /\ nd2[at[0][k]] = nd[at[0][k]]
  <1> DEFINE g == mk + 1
             at2 == GrownAt(h, at, g)
             n == nd[Meta].kids[Top]
  <1> USE DEF MayGrow
  <1>0. /\ h \in Nat /\ h # 0 /\ h \in 0..h /\ mk \in Nat /\ mk \in Pages /\ g \in Pages
        /\ g # Meta /\ g \in 1..g /\ g \in Nat
    BY PagesFacts DEF Shape, Levels, Records, Meta
  <1>1. /\ DOMAIN nd[Meta].kids = {Top} /\ nd[Meta].lo = 0 /\ nd[Meta].hi = Top
        /\ n \in 1..mk /\ nd[n].lo = 0 /\ nd[n].hi = Top /\ n \in Pages
        /\ h - 1 \in 0..h /\ \A k \in Places : at[h - 1][k] = n
    BY RootChild, PagesFacts, <1>0 DEF Pages, Meta
  <1>2. Top \in Nat /\ Top > 1 /\ Top \in Places BY TopFacts
  <1>3. \A l \in 0..h, k \in Places : at[l][k] \in Pages /\ at[l][k] \in 0..mk BY AtFacts
  <1>4. \A l \in 0..h, k \in Places : l < h => at[l][k] # Meta /\ at[l][k] # g
    <2>1. \A l \in 0..h, k \in Places : l < h => at[l][k] \in 1..mk BY DEF Shape, Levels
    <2>2. QED BY <2>1, <1>0 DEF Meta
  <1>5. /\ \A l \in 0..h, k \in Places : l < h => at2[l][k] = at[l][k]
        /\ \A k \in Places : at2[h][k] = g /\ at2[h + 1][k] = Meta
    BY <1>0 DEF GrownAt
  <1>6. \A l \in 0..(h + 1) : (l \in 0..h /\ l < h) \/ l = h \/ l = h + 1 BY <1>0
  <1>7. \A l \in 0..h, k \in Places : l < h => nd2[at[l][k]] = nd[at[l][k]]
    BY <1>3, <1>4
  <1>8. /\ nd2[g].leaf = FALSE /\ nd2[g].keys = {} /\ nd2[g].kids = [s \in {Top} |-> n]
        /\ nd2[g].lo = 0 /\ nd2[g].hi = Top /\ nd2[g].next = NoPage /\ IsNode(nd2[g])
    BY DEF InnerNode, IsNode
  <1>9. \A p \in Pages : p # Meta /\ p # g => nd2[p] = nd[p] OBVIOUS
  <1>10. Records(nd2, g)
    <2> SUFFICES ASSUME NEW p \in Pages
                 PROVE  /\ IsNode(nd2[p]) /\ nd2[p].leaf \in BOOLEAN
                        /\ nd2[p].keys \subseteq Keys /\ nd2[p].next \in (1..g) \cup {NoPage}
                        /\ nd2[p].lo \in 0..Top /\ nd2[p].hi \in 0..Top
      BY <1>0 DEF Records
    <2>1. /\ IsNode(nd[p]) /\ nd[p].leaf \in BOOLEAN
          /\ nd[p].keys \subseteq Keys /\ nd[p].next \in (1..mk) \cup {NoPage}
          /\ nd[p].lo \in 0..Top /\ nd[p].hi \in 0..Top
      BY DEF Shape, Records
    <2>2. nd[p].next \in (1..g) \cup {NoPage} BY <2>1, <1>0
    <2>3. CASE p = Meta BY <2>1, <2>2, <2>3
    <2>4. CASE p = g
      <3>1. NoPage \in (1..g) \cup {NoPage} /\ 0 \in 0..Top /\ Top \in 0..Top BY <1>2
      <3> HIDE DEF g, n
      <3>2. QED BY <2>4, <3>1, <1>8
    <2>5. CASE p # Meta /\ p # g BY <2>1, <2>2, <2>5, <1>9
    <2>6. QED BY <2>3, <2>4, <2>5
  <1> HIDE DEF g, n
  <1>11. Levels(g, h + 1, at2)
    <2>1. at2 \in [0..(h + 1) -> [Places -> Pages]]
      <3>1. \A l \in 0..h : l < h => at[l] \in [Places -> Pages] BY DEF Shape, Levels
      <3>2. Meta \in Pages /\ g \in Pages BY <1>0, PagesFacts
      <3>3. QED BY <3>1, <3>2, <1>0, <1>6 DEF GrownAt
    <2>2. ASSUME NEW l \in 0..(h + 1), NEW k \in Places, l < h + 1 PROVE at2[l][k] \in 1..g
      <3>1. CASE l = h BY <3>1, <1>0, <1>5
      <3>2. CASE l < h
        <4>1. at[l][k] \in 1..mk BY <3>2, <1>0 DEF Shape, Levels
        <4>2. g = mk + 1 BY DEF g
        <4>3. at2[l][k] = at[l][k] BY <3>2, <1>0, <1>5
        <4>4. QED BY <4>1, <4>2, <4>3, <1>0
      <3>3. QED BY <3>1, <3>2, <2>2, <1>0
    <2>3. ASSUME NEW l \in 0..(h + 1), NEW m \in 0..(h + 1), NEW j \in Places, NEW k \in Places,
                 at2[l][j] = at2[m][k]
          PROVE  l = m
      <3>1. \A i \in 0..h, x \in Places : i < h => at2[i][x] # Meta /\ at2[i][x] # g
        BY <1>4, <1>5 DEF g
      <3>2. g # Meta BY <1>0
      <3>3. CASE l \in 0..h /\ l < h /\ m \in 0..h /\ m < h
        BY <3>3, <2>3, <1>5 DEF Shape, Levels
      <3>4. CASE ~(l \in 0..h /\ l < h)
        BY <3>1, <3>2, <3>4, <2>3, <1>5, <1>6
      <3>5. CASE ~(m \in 0..h /\ m < h)
        BY <3>1, <3>2, <3>5, <2>3, <1>5, <1>6
      <3>6. QED BY <3>3, <3>4, <3>5
    <2>4. QED BY <2>1, <2>2, <2>3, <1>0, <1>5 DEF Levels
  <1>12. \A l \in 0..(h + 1), k \in Places :
           /\ nd2[at2[l][k]].lo = IF l < h THEN nd[at[l][k]].lo ELSE 0
           /\ nd2[at2[l][k]].hi = IF l < h THEN nd[at[l][k]].hi ELSE Top
           /\ at2[l][k] \in Pages
    <2> SUFFICES ASSUME NEW l \in 0..(h + 1), NEW k \in Places
                 PROVE  /\ nd2[at2[l][k]].lo = IF l < h THEN nd[at[l][k]].lo ELSE 0
                        /\ nd2[at2[l][k]].hi = IF l < h THEN nd[at[l][k]].hi ELSE Top
                        /\ at2[l][k] \in Pages
      OBVIOUS
    <2>1. CASE l < h /\ l \in 0..h BY <2>1, <1>3, <1>5, <1>7
    <2>2. CASE l = h BY <2>2, <1>0, <1>5, <1>8
    <2>3. CASE l = h + 1 BY <2>3, <1>0, <1>1, <1>5, PagesFacts
    <2>4. QED BY <2>1, <2>2, <2>3, <1>6
  <1>13. Fences(nd2, h + 1, at2)
    <2>1. ASSUME NEW l \in 0..(h + 1), NEW k \in Places
          PROVE  nd2[at2[l][k]].lo < k /\ k <= nd2[at2[l][k]].hi
      <3>1. CASE l < h /\ l \in 0..h BY <3>1, <1>12 DEF Shape, Fences
      <3>2. CASE ~(l < h)
        <4>1. 0 < k /\ k <= Top BY <1>2 DEF Places
        <4>2. QED BY <3>2, <4>1, <1>12
      <3>3. QED BY <3>1, <3>2, <1>0, <1>6
    <2>2. ASSUME NEW l \in 0..(h + 1), NEW j \in Places, NEW k \in Places,
                 nd2[at2[l][k]].lo < j, j <= nd2[at2[l][k]].hi
          PROVE  at2[l][j] = at2[l][k]
      <3>1. CASE l < h /\ l \in 0..h
        <4>1. nd[at[l][k]].lo < j /\ j <= nd[at[l][k]].hi BY <3>1, <2>2, <1>12
        <4>2. at[l][j] = at[l][k] BY <3>1, <4>1 DEF Shape, Fences
        <4>3. QED BY <3>1, <4>2, <1>5
      <3>2. CASE l = h BY <3>2, <1>5
      <3>3. CASE l = h + 1 BY <3>3, <1>5
      <3>4. QED BY <3>1, <3>2, <3>3, <1>6
    <2>3. QED BY <2>1, <2>2 DEF Fences
  <1>14. Nested(h + 1, at2)
    <2> SUFFICES ASSUME NEW l \in 0..(h + 1), NEW j \in Places, NEW k \in Places,
                        l < h + 1, at2[l][j] = at2[l][k]
                 PROVE  at2[l + 1][j] = at2[l + 1][k]
      BY DEF Nested
    <2>1. CASE l = h BY <2>1, <1>5
    <2>2. CASE l < h /\ l + 1 < h /\ l \in 0..h /\ l + 1 \in 0..h
      <3>1. at[l][j] = at[l][k] BY <2>2, <1>5
      <3>2. at[l + 1][j] = at[l + 1][k] BY <2>2, <3>1 DEF Shape, Nested
      <3>3. QED BY <2>2, <3>2, <1>5
    <2>3. CASE l + 1 = h BY <2>3, <1>5
    <2>4. QED BY <2>1, <2>2, <2>3, <1>0
  <1>15. Kinds(nd2, h + 1, at2)
    <2>1. ASSUME NEW l \in 0..(h + 1), NEW k \in Places PROVE nd2[at2[l][k]].leaf <=> l = 0
      <3>1. CASE l < h /\ l \in 0..h
        <4>1. nd[at[l][k]].leaf <=> l = 0 BY <3>1 DEF Shape, Kinds
        <4>2. QED BY <3>1, <4>1, <1>5, <1>7
      <3>2. CASE l = h BY <3>2, <1>0, <1>5, <1>8
      <3>3. CASE l = h + 1 BY <3>3, <1>0, <1>5
      <3>4. QED BY <3>1, <3>2, <3>3, <1>6
    <2>2. ASSUME NEW p \in Pages, ~nd2[p].leaf
          PROVE  \E l \in 0..(h + 1), k \in Places : p = at2[l][k]
      <3>0. h \in 0..(h + 1) /\ h + 1 \in 0..(h + 1) BY <1>0
      <3>1. CASE p = Meta BY <3>0, <3>1, <1>2, <1>5
      <3>2. CASE p = g BY <3>0, <3>2, <1>2, <1>5
      <3>3. CASE p # Meta /\ p # g
        <4>1. ~nd[p].leaf BY <3>3, <2>2, <1>9 DEF g
        <4>2. PICK l \in 0..h, k \in Places : p = at[l][k] BY <4>1 DEF Shape, Kinds
        <4>3. l # h BY <3>3, <4>2 DEF Shape, Levels
        <4>4. l < h /\ l \in 0..(h + 1) BY <4>3, <1>0
        <4>5. QED BY <4>2, <4>4, <1>5
      <3>4. QED BY <3>1, <3>2, <3>3
    <2>3. QED BY <2>1, <2>2 DEF Kinds
  <1>16. Slots(nd2)
    <2> SUFFICES ASSUME NEW p \in Pages, ~nd2[p].leaf
                 PROVE  /\ nd2[p].kids = [s \in DOMAIN nd2[p].kids |-> nd2[p].kids[s]]
                        /\ DOMAIN nd2[p].kids \subseteq Places /\ Top \in DOMAIN nd2[p].kids
                        /\ \A s \in DOMAIN nd2[p].kids : s # Top => nd2[p].lo < s /\ s < nd2[p].hi
                        /\ p = Meta => DOMAIN nd2[p].kids = {Top}
      BY DEF Slots
    <2>1. CASE p = Meta BY <2>1, <1>2
    <2>2. CASE p = g BY <2>2, <1>0, <1>2, <1>8
    <2>3. CASE p # Meta /\ p # g
      <3>1. nd2[p] = nd[p] BY <2>3, <1>9 DEF g
      <3>2. QED BY <2>3, <3>1 DEF Shape, Slots
    <2>4. QED BY <2>1, <2>2, <2>3
  <1>17. KidsAt(nd2, h + 1, at2)
    <2> SUFFICES ASSUME NEW l \in 0..(h + 1), NEW k \in Places, l < h + 1
                 PROVE  /\ KidFor(nd2, at2[l + 1][k], k) = at2[l][k]
                        /\ nd2[at2[l][k]].hi
                             = HiFor(nd2, at2[l + 1][k], SlotIn(nd2[at2[l + 1][k]].kids, k))
      BY DEF KidsAt
    <2>1. CASE l = h
      <3>1. at2[l + 1][k] = Meta /\ at2[l][k] = g BY <2>1, <1>5
      <3>2. SlotIn(nd2[Meta].kids, k) = Top BY <1>2, SlotIs
      <3>3. QED BY <3>1, <3>2, <1>1, <1>8 DEF KidFor, HiFor, g
    <2>2. CASE l + 1 = h
      <3>1. at2[l + 1][k] = g /\ at2[l][k] = n /\ nd2[n].hi = Top
        <4>1. l = h - 1 /\ l < h /\ l \in 0..h BY <2>2, <1>0
        <4>2. at[l][k] = n /\ at2[l][k] = at[l][k] BY <4>1, <1>1, <1>5
        <4>3. QED BY <2>2, <4>1, <4>2, <1>1, <1>5, <1>7
      <3>2. SlotIn(nd2[g].kids, k) = Top BY <1>2, <1>8, SlotIs
      <3>3. QED BY <3>1, <3>2, <1>8 DEF KidFor, HiFor
    <2>3. CASE l < h /\ l + 1 < h /\ l \in 0..h /\ l + 1 \in 0..h
      <3>1. /\ at2[l + 1][k] = at[l + 1][k] /\ at2[l][k] = at[l][k]
            /\ nd2[at[l + 1][k]] = nd[at[l + 1][k]] /\ nd2[at[l][k]] = nd[at[l][k]]
        BY <2>3, <1>5, <1>7
      <3>2. QED BY <2>3, <3>1 DEF Shape, KidsAt, KidFor, HiFor
    <2>4. QED BY <2>1, <2>2, <2>3, <1>0
  <1>18. \A k \in Places : at2[0][k] = at[0][k] /\ nd2[at[0][k]] = nd[at[0][k]]
    BY <1>0, <1>5, <1>7
  <1>19. Chained(nd2, at2)
    <2> SUFFICES ASSUME NEW k \in Places
                 PROVE  /\ nd2[at[0][k]].next = IF nd2[at[0][k]].hi < Top
                                                THEN at2[0][nd2[at[0][k]].hi + 1] ELSE NoPage
                        /\ \A j \in nd2[at[0][k]].keys : /\ nd2[at[0][k]].lo < j
                                                         /\ j <= nd2[at[0][k]].hi
      BY <1>18 DEF Chained
    <2>1. nd2[at[0][k]] = nd[at[0][k]] BY <1>18
    <2>2. nd[at[0][k]].hi \in Places BY AtFacts, <1>0
    <2>3. nd[at[0][k]].hi < Top => nd[at[0][k]].hi + 1 \in Places BY <2>2, <1>2 DEF Places
    <2>4. QED BY <2>1, <2>3, <1>18 DEF Shape, Chained
  <1>20. Shape(nd2, g, h + 1, at2)
    BY <1>10, <1>11, <1>13, <1>14, <1>15, <1>16, <1>17, <1>19 DEF Shape
  <1>21. QED BY <1>18, <1>20 DEF g

-------------------------------------------------------------------------------
(* A page n splits at sep: page q takes its right half, and its parent p a  *)
(* slot for the left one.                                                   *)
SplitInto(nd, nd2, p, n, q, sep) ==
  /\ nd2 = [x \in Pages |-> nd2[x]]
  /\ \A x \in Pages : x \notin {p, n, q} => nd2[x] = nd[x]
  /\ IsNode(nd2[p]) /\ IsNode(nd2[n]) /\ IsNode(nd2[q])
  /\ nd2[p].leaf = FALSE /\ nd2[p].keys = nd[p].keys /\ nd2[p].next = nd[p].next
  /\ nd2[p].lo = nd[p].lo /\ nd2[p].hi = nd[p].hi
  /\ nd2[p].kids = SplitKids(nd[p].kids, n, sep, q)
  /\ nd2[n].leaf = nd[n].leaf /\ nd2[n].lo = nd[n].lo /\ nd2[n].hi = sep
  /\ nd2[q].leaf = nd[n].leaf /\ nd2[q].lo = sep /\ nd2[q].hi = nd[n].hi
  /\ nd[n].leaf => /\ nd2[n].keys = {k \in nd[n].keys : k <= sep} /\ nd2[n].next = q
                   /\ nd2[q].keys = {k \in nd[n].keys : k > sep} /\ nd2[q].next = nd[n].next
  /\ ~nd[n].leaf =>
       /\ nd2[n].keys = {} /\ nd2[q].keys = {} /\ nd2[n].next = NoPage /\ nd2[q].next = NoPage
       /\ nd2[n].kids = [s \in {r \in DOMAIN nd[n].kids \ {Top} : r < sep} \cup {Top} |->
                           nd[n].kids[IF s = Top THEN sep ELSE s]]
       /\ nd2[q].kids = Restrict(nd[n].kids, {s \in DOMAIN nd[n].kids : s > sep})

SplitAt(h, at, l, n, q, sep) ==
  [m \in 0..h |-> [k \in Places |-> IF m = l /\ at[m][k] = n /\ k > sep THEN q ELSE at[m][k]]]

\* What splits, and where.
MaySplit(nd, mk, h, at, nd2, l, i, sep) ==
  /\ Shape(nd, mk, h, at) /\ mk + 1 \in Pages
  /\ l \in 0..h /\ l + 1 \in 0..h /\ l + 1 < h /\ i \in Places
  /\ sep \in Places /\ nd[at[l][i]].lo < sep /\ sep < nd[at[l][i]].hi
  /\ ~nd[at[l][i]].leaf => sep \in DOMAIN nd[at[l][i]].kids
  /\ SplitInto(nd, nd2, at[l + 1][i], at[l][i], mk + 1, sep)

LEMMA SplitBasics ==
  ASSUME NEW nd, NEW mk, NEW h, NEW at, NEW nd2, NEW l, NEW i, NEW sep,
         MaySplit(nd, mk, h, at, nd2, l, i, sep)
  PROVE  LET n == at[l][i]
             p == at[l + 1][i]
             q == mk + 1
             at2 == SplitAt(h, at, l, n, q, sep)
         IN /\ h \in Nat /\ l \in Nat /\ l < h /\ mk \in Nat /\ q \in Nat /\ sep \in Nat
            /\ n \in 1..mk /\ p \in 1..mk /\ n \in Pages /\ p \in Pages /\ q \in Pages
            /\ n # p /\ n # q /\ p # q /\ ~nd[p].leaf /\ n # Meta /\ p # Meta /\ q # Meta
            /\ nd[n].lo \in 0..Top /\ nd[n].hi \in Places
            /\ nd[p].lo <= nd[n].lo /\ nd[n].hi <= nd[p].hi
            /\ \A m \in 0..h, k \in Places :
                 /\ at[m][k] \in Pages /\ at[m][k] \in 0..mk /\ at[m][k] # q
                 /\ at[m][k] = n => m = l
                 /\ at[m][k] = p => m = l + 1
                 /\ at2[m][k] = IF m = l /\ at[m][k] = n /\ k > sep THEN q ELSE at[m][k]
            /\ \A k \in Places : at[l][k] = n => at[l + 1][k] = p
            /\ \A k \in Places : at[l][k] = n <=> nd[n].lo < k /\ k <= nd[n].hi
            /\ \A m \in 0..h, k \in Places : LET x == at2[m][k] IN
                 /\ x \in Pages
                 /\ nd2[x].lo = IF m = l /\ at[m][k] = n /\ k > sep THEN sep ELSE nd[at[m][k]].lo
                 /\ nd2[x].hi = IF m = l /\ at[m][k] = n /\ k <= sep THEN sep ELSE nd[at[m][k]].hi
                 /\ nd2[x].leaf <=> nd[at[m][k]].leaf
  <1> DEFINE n == at[l][i]
             p == at[l + 1][i]
             q == mk + 1
             at2 == SplitAt(h, at, l, n, q, sep)
  <1>0. Shape(nd, mk, h, at) /\ SplitInto(nd, nd2, p, n, q, sep) BY DEF MaySplit
  <1>1. /\ h \in Nat /\ l \in Nat /\ l < h /\ mk \in Nat /\ q \in Nat /\ sep \in Nat
        /\ l \in 0..h /\ l + 1 \in 0..h /\ l + 1 < h /\ i \in Places /\ q \in Pages
    BY PagesFacts DEF MaySplit, Shape, Levels, Records, Places
  <1>2. n \in 1..mk /\ p \in 1..mk BY <1>0, <1>1 DEF Shape, Levels
  <1>3. n \in Pages /\ p \in Pages BY <1>0, <1>1, AtFacts
  <1>4. n # p BY <1>0, <1>1 DEF Shape, Levels
  <1>5. n # q /\ p # q /\ n # Meta /\ p # Meta /\ q # Meta BY <1>1, <1>2 DEF Meta
  <1>6. ~nd[p].leaf BY <1>0, <1>1 DEF Shape, Kinds
  <1>7. nd[n].lo \in 0..Top /\ nd[n].hi \in Places BY <1>0, <1>1, AtFacts
  <1>8. nd[p].lo <= nd[n].lo /\ nd[n].hi <= nd[p].hi BY <1>0, <1>1, WithinParent
  <1>9. ASSUME NEW m \in 0..h, NEW k \in Places
        PROVE  /\ at[m][k] \in Pages /\ at[m][k] \in 0..mk /\ at[m][k] # q
               /\ at[m][k] = n => m = l
               /\ at[m][k] = p => m = l + 1
               /\ at2[m][k] = IF m = l /\ at[m][k] = n /\ k > sep THEN q ELSE at[m][k]
    <2>1. at[m][k] \in Pages /\ at[m][k] \in 0..mk BY <1>0, AtFacts
    <2>2. at[m][k] # q BY <2>1, <1>1
    <2>3. at[m][k] = n => m = l BY <1>0, <1>1 DEF Shape, Levels
    <2>4. at[m][k] = p => m = l + 1 BY <1>0, <1>1 DEF Shape, Levels
    <2>5. at2[m][k] = IF m = l /\ at[m][k] = n /\ k > sep THEN q ELSE at[m][k] BY DEF SplitAt
    <2>6. QED BY <2>1, <2>2, <2>3, <2>4, <2>5
  <1>10. \A k \in Places : at[l][k] = n => at[l + 1][k] = p BY <1>0, <1>1 DEF Shape, Nested
  <1>11. \A k \in Places : at[l][k] = n <=> nd[n].lo < k /\ k <= nd[n].hi
    BY <1>0, <1>1 DEF Shape, Fences
  <1>12. ASSUME NEW m \in 0..h, NEW k \in Places
         PROVE  /\ at2[m][k] \in Pages
                /\ nd2[at2[m][k]].lo = IF m = l /\ at[m][k] = n /\ k > sep THEN sep ELSE nd[at[m][k]].lo
                /\ nd2[at2[m][k]].hi = IF m = l /\ at[m][k] = n /\ k <= sep THEN sep ELSE nd[at[m][k]].hi
                /\ nd2[at2[m][k]].leaf <=> nd[at[m][k]].leaf
    <2> HIDE DEF n, p, q, at2
    <2>0. k \in Nat BY DEF Places
    <2>1. CASE m = l /\ at[m][k] = n
      <3>1. /\ nd2[n].leaf = nd[n].leaf /\ nd2[n].lo = nd[n].lo /\ nd2[n].hi = sep
            /\ nd2[q].leaf = nd[n].leaf /\ nd2[q].lo = sep /\ nd2[q].hi = nd[n].hi
        BY <1>0 DEF SplitInto
      <3>2. CASE k > sep BY <2>1, <3>1, <3>2, <1>1, <1>9, <2>0
      <3>3. CASE k <= sep BY <2>1, <3>1, <3>3, <1>1, <1>3, <1>9, <2>0
      <3>4. QED BY <3>2, <3>3, <2>0, <1>1
    <2>2. CASE ~(m = l /\ at[m][k] = n)
      <3>1. at2[m][k] = at[m][k] /\ at[m][k] \in Pages /\ at[m][k] # n /\ at[m][k] # q
        BY <2>2, <1>9
      <3>2. CASE at[m][k] = p
        <4>1. nd2[p].leaf = FALSE /\ nd2[p].lo = nd[p].lo /\ nd2[p].hi = nd[p].hi
          BY <1>0 DEF SplitInto
        <4>2. QED BY <2>2, <3>1, <3>2, <4>1, <1>6
      <3>3. CASE at[m][k] # p
        <4>1. nd2[at[m][k]] = nd[at[m][k]] BY <3>1, <3>3, <1>0 DEF SplitInto
        <4>2. QED BY <2>2, <3>1, <4>1
      <3>4. QED BY <3>2, <3>3
    <2>3. QED BY <2>1, <2>2
  <1>13. QED BY <1>1, <1>2, <1>3, <1>4, <1>5, <1>6, <1>7, <1>8, <1>9, <1>10, <1>11, <1>12

\* A split leaves a tree: the new page covers what lies beyond sep.
LEMMA SplitShape ==
  ASSUME NEW nd, NEW mk, NEW h, NEW at, NEW nd2, NEW l, NEW i, NEW sep,
         MaySplit(nd, mk, h, at, nd2, l, i, sep)
  PROVE  Shape(nd2, mk + 1, h, SplitAt(h, at, l, at[l][i], mk + 1, sep))
  <1> DEFINE n == at[l][i]
             p == at[l + 1][i]
             q == mk + 1
             at2 == SplitAt(h, at, l, n, q, sep)
  <1>0. /\ Shape(nd, mk, h, at) /\ SplitInto(nd, nd2, p, n, q, sep) /\ q \in Pages
        /\ l \in 0..h /\ l + 1 \in 0..h /\ l + 1 < h /\ i \in Places
        /\ sep \in Places /\ nd[n].lo < sep /\ sep < nd[n].hi
        /\ ~nd[n].leaf => sep \in DOMAIN nd[n].kids
    BY DEF MaySplit
  <1>1. /\ h \in Nat /\ l \in Nat /\ l < h /\ mk \in Nat /\ q \in Nat /\ sep \in Nat
        /\ n \in 1..mk /\ p \in 1..mk /\ n \in Pages /\ p \in Pages /\ q \in Pages
        /\ n # p /\ n # q /\ p # q /\ ~nd[p].leaf /\ n # Meta /\ p # Meta /\ q # Meta
        /\ nd[n].lo \in 0..Top /\ nd[n].hi \in Places
        /\ nd[p].lo <= nd[n].lo /\ nd[n].hi <= nd[p].hi
        /\ \A m \in 0..h, k \in Places :
             /\ at[m][k] \in Pages /\ at[m][k] \in 0..mk /\ at[m][k] # q
             /\ at[m][k] = n => m = l
             /\ at[m][k] = p => m = l + 1
             /\ at2[m][k] = IF m = l /\ at[m][k] = n /\ k > sep THEN q ELSE at[m][k]
        /\ \A k \in Places : at[l][k] = n => at[l + 1][k] = p
        /\ \A k \in Places : at[l][k] = n <=> nd[n].lo < k /\ k <= nd[n].hi
    BY SplitBasics
  <1>2. \A m \in 0..h, k \in Places :
          /\ at2[m][k] \in Pages
          /\ nd2[at2[m][k]].lo = IF m = l /\ at[m][k] = n /\ k > sep THEN sep ELSE nd[at[m][k]].lo
          /\ nd2[at2[m][k]].hi = IF m = l /\ at[m][k] = n /\ k <= sep THEN sep ELSE nd[at[m][k]].hi
          /\ nd2[at2[m][k]].leaf <=> nd[at[m][k]].leaf
    BY SplitBasics
  <1>3. Top \in Nat /\ Top > 1 /\ Top \in Places /\ \A k \in Places : k \in Nat BY TopFacts DEF Places
  <1>q. q = mk + 1 OBVIOUS
  <1>at. at2 = SplitAt(h, at, l, n, q, sep) OBVIOUS
  <1>i. at[l][i] = n /\ at[l + 1][i] = p OBVIOUS
  <1> HIDE DEF n, p, q, at2
  <1>4. Records(nd2, q)
    <2> SUFFICES ASSUME NEW x \in Pages
                 PROVE  /\ IsNode(nd2[x]) /\ nd2[x].leaf \in BOOLEAN
                        /\ nd2[x].keys \subseteq Keys /\ nd2[x].next \in (1..q) \cup {NoPage}
                        /\ nd2[x].lo \in 0..Top /\ nd2[x].hi \in 0..Top
      BY <1>0 DEF Records, SplitInto
    <2>1. \A y \in Pages : /\ IsNode(nd[y]) /\ nd[y].leaf \in BOOLEAN
                           /\ nd[y].keys \subseteq Keys /\ nd[y].next \in (1..mk) \cup {NoPage}
                           /\ nd[y].lo \in 0..Top /\ nd[y].hi \in 0..Top
      BY <1>0 DEF Shape, Records
    <2>2. \A y \in Pages : nd[y].next \in (1..q) \cup {NoPage} BY <2>1, <1>1, <1>q
    <2>3. q \in 1..q /\ sep \in 0..Top BY <1>0, <1>1, <1>3, <1>q DEF Places
    <2>4. CASE x = p BY <2>1, <2>2, <2>4, <1>0, <1>1 DEF SplitInto
    <2>5. CASE x = n
      <3>1. /\ IsNode(nd2[n]) /\ nd2[n].leaf = nd[n].leaf /\ nd2[n].lo = nd[n].lo /\ nd2[n].hi = sep
        BY <1>0 DEF SplitInto
      <3>2. CASE nd[n].leaf
        <4>1. nd2[n].keys = {k \in nd[n].keys : k <= sep} /\ nd2[n].next = q
          BY <3>2, <1>0 DEF SplitInto
        <4>2. QED BY <2>1, <2>3, <2>5, <3>1, <4>1, <1>1
      <3>3. CASE ~nd[n].leaf
        <4>1. nd2[n].keys = {} /\ nd2[n].next = NoPage BY <3>3, <1>0 DEF SplitInto
        <4>2. QED BY <2>1, <2>3, <2>5, <3>1, <4>1, <1>1
      <3>4. QED BY <3>2, <3>3
    <2>6. CASE x = q
      <3>1. /\ IsNode(nd2[q]) /\ nd2[q].leaf = nd[n].leaf /\ nd2[q].lo = sep /\ nd2[q].hi = nd[n].hi
        BY <1>0 DEF SplitInto
      <3>2. CASE nd[n].leaf
        <4>1. nd2[q].keys = {k \in nd[n].keys : k > sep} /\ nd2[q].next = nd[n].next
          BY <3>2, <1>0 DEF SplitInto
        <4>2. QED BY <2>1, <2>2, <2>3, <2>6, <3>1, <4>1, <1>1
      <3>3. CASE ~nd[n].leaf
        <4>1. nd2[q].keys = {} /\ nd2[q].next = NoPage BY <3>3, <1>0 DEF SplitInto
        <4>2. QED BY <2>1, <2>3, <2>6, <3>1, <4>1, <1>1
      <3>4. QED BY <3>2, <3>3
    <2>7. CASE x \notin {p, n, q}
      <3>1. nd2[x] = nd[x] BY <2>7, <1>0 DEF SplitInto
      <3>2. QED BY <3>1, <2>1, <2>2
    <2>8. QED BY <2>4, <2>5, <2>6, <2>7
  <1>5. Levels(q, h, at2)
    <2>1. at2 \in [0..h -> [Places -> Pages]] BY <1>1, <1>at DEF SplitAt
    <2>2. \A k \in Places : at2[h][k] = Meta
      <3> SUFFICES ASSUME NEW k \in Places PROVE at2[h][k] = Meta OBVIOUS
      <3>1. h \in 0..h /\ h # l BY <1>1
      <3>2. at[h][k] = Meta BY <1>0 DEF Shape, Levels
      <3>3. QED BY <3>1, <3>2, <1>1
    <2>3. ASSUME NEW m \in 0..h, NEW k \in Places, m < h PROVE at2[m][k] \in 1..q
      <3>1. at[m][k] \in 1..mk BY <2>3, <1>0 DEF Shape, Levels
      <3>2. at[m][k] \in 1..q /\ q \in 1..q BY <3>1, <1>1, <1>q
      <3>3. QED BY <3>2, <1>1
    <2>4. ASSUME NEW m \in 0..h, NEW o \in 0..h, NEW j \in Places, NEW k \in Places,
                 at2[m][j] = at2[o][k]
          PROVE  m = o
      <3>1. /\ at2[m][j] = q => m = l
            /\ at2[o][k] = q => o = l
            /\ at2[m][j] # q => at2[m][j] = at[m][j]
            /\ at2[o][k] # q => at2[o][k] = at[o][k]
        BY <1>1
      <3>2. CASE at2[m][j] = q BY <3>1, <3>2, <2>4
      <3>3. CASE at2[m][j] # q
        <4>1. at[m][j] = at[o][k] BY <3>1, <3>3, <2>4
        <4>2. QED BY <4>1, <1>0 DEF Shape, Levels
      <3>4. QED BY <3>2, <3>3
    <2>5. h \in Nat \ {0} BY <1>0 DEF Shape, Levels
    <2>6. QED BY <2>1, <2>2, <2>3, <2>4, <2>5 DEF Levels
  <1>6. Fences(nd2, h, at2)
    <2>1. ASSUME NEW m \in 0..h, NEW k \in Places
          PROVE  nd2[at2[m][k]].lo < k /\ k <= nd2[at2[m][k]].hi
      <3>1. nd[at[m][k]].lo < k /\ k <= nd[at[m][k]].hi BY <1>0 DEF Shape, Fences
      <3>2. k \in Nat BY <1>3
      <3>3. QED BY <3>1, <3>2, <1>1, <1>2
    <2>2. ASSUME NEW m \in 0..h, NEW j \in Places, NEW k \in Places,
                 nd2[at2[m][k]].lo < j, j <= nd2[at2[m][k]].hi
          PROVE  at2[m][j] = at2[m][k]
      <3>0. j \in Nat /\ k \in Nat BY <1>3
      <3>1. CASE m = l /\ at[m][k] = n
        <4>1. nd[n].lo < j /\ j <= nd[n].hi
          <5>1. CASE k > sep
            <6>1. sep < j /\ j <= nd[n].hi BY <2>2, <3>1, <5>1, <3>0, <1>1, <1>2
            <6>2. QED BY <6>1, <3>0, <1>0, <1>1, <1>3 DEF Places
          <5>2. CASE k <= sep
            <6>1. nd[n].lo < j /\ j <= sep BY <2>2, <3>1, <5>2, <3>0, <1>1, <1>2
            <6>2. QED BY <6>1, <3>0, <1>0, <1>1, <1>3 DEF Places
          <5>3. QED BY <5>1, <5>2, <3>0, <1>1
        <4>2. at[m][j] = n BY <4>1, <3>1, <1>1
        <4>3. j > sep <=> k > sep BY <2>2, <3>1, <3>0, <1>1, <1>2
        <4>4. QED BY <3>1, <4>2, <4>3, <1>1
      <3>2. CASE ~(m = l /\ at[m][k] = n)
        <4>1. nd[at[m][k]].lo < j /\ j <= nd[at[m][k]].hi BY <2>2, <3>2, <1>2
        <4>2. at[m][j] = at[m][k] BY <4>1, <1>0 DEF Shape, Fences
        <4>3. QED BY <3>2, <4>2, <1>1
      <3>3. QED BY <3>1, <3>2
    <2>3. QED BY <2>1, <2>2 DEF Fences
  <1>7. ASSUME NEW m \in 0..h, NEW j \in Places, NEW k \in Places,
               m + 1 = l, at[m][j] = at[m][k], at[l][j] = n, at[l][k] = n, j <= sep
        PROVE  k <= sep
    <2> SUFFICES ASSUME k > sep PROVE FALSE BY <1>1, <1>3
    <2> DEFINE s == SlotIn(nd[n].kids, j)
               c == at[m][j]
    <2>0. j \in Nat /\ k \in Nat /\ m < h /\ m \in Nat BY <1>1, <1>3, <1>7
    <2>1. ~nd[n].leaf
      <3>1. l # 0 BY <2>0, <1>7
      <3>2. nd[at[l][i]].leaf <=> l = 0 BY <1>0 DEF Shape, Kinds
      <3>3. QED BY <3>1, <3>2, <1>i
    <2>2. /\ DOMAIN nd[n].kids \subseteq Places /\ Top \in DOMAIN nd[n].kids
      BY <2>1, <1>1, <1>0 DEF Shape, Slots
    <2>3. sep \in DOMAIN nd[n].kids /\ sep # Top BY <2>1, <1>0, <1>1, <1>3 DEF Places
    <2>4. s <= sep /\ s \in Places BY <2>2, <2>3, <1>7, SlotIs
    <2>5. s # Top BY <2>3, <2>4, <1>0, <1>3 DEF Places
    <2>6. nd[c].hi = HiFor(nd, at[m + 1][j], SlotIn(nd[at[m + 1][j]].kids, j))
      BY <2>0, <1>0 DEF Shape, KidsAt
    <2>7. nd[c].hi = s BY <2>5, <2>6, <1>7 DEF HiFor
    <2>8. k <= nd[at[m][k]].hi BY <1>0 DEF Shape, Fences
    <2>9. k <= s BY <2>7, <2>8, <1>7
    <2> HIDE DEF s
    <2>10. QED BY <2>9, <2>4, <2>0, <1>1, <1>3
  <1>8. Nested(h, at2)
    <2> SUFFICES ASSUME NEW m \in 0..h, NEW j \in Places, NEW k \in Places,
                        m < h, at2[m][j] = at2[m][k]
                 PROVE  at2[m + 1][j] = at2[m + 1][k]
      BY DEF Nested
    <2>0. m + 1 \in 0..h /\ j \in Nat /\ k \in Nat BY <1>1, <1>3
    <2>1. at[m][j] = at[m][k]
      <3>1. CASE at2[m][j] = q
        <4>1. at2[m][k] = q BY <3>1
        <4>2. at[m][j] = n /\ at[m][k] = n BY <3>1, <4>1, <1>1
        <4>3. QED BY <4>2
      <3>2. CASE at2[m][j] # q
        <4>1. at2[m][k] # q BY <3>2
        <4>2. at2[m][j] = at[m][j] /\ at2[m][k] = at[m][k] BY <3>2, <4>1, <1>1
        <4>3. QED BY <4>2
      <3>3. QED BY <3>1, <3>2
    <2>2. at[m + 1][j] = at[m + 1][k] BY <2>1, <1>0 DEF Shape, Nested
    <2>3. CASE m + 1 = l /\ at[m + 1][j] = n
      <3>1. at[l][j] = n /\ at[l][k] = n BY <2>2, <2>3
      <3>2. j <= sep <=> k <= sep BY <2>1, <2>3, <3>1, <1>7
      <3>3. j > sep <=> k > sep BY <3>2, <2>0, <1>1
      <3>4. QED BY <2>0, <2>2, <3>3, <1>1
    <2>4. CASE ~(m + 1 = l /\ at[m + 1][j] = n) BY <2>0, <2>2, <2>4, <1>1
    <2>5. QED BY <2>3, <2>4
  <1>9. Kinds(nd2, h, at2)
    <2>1. \A m \in 0..h, k \in Places : nd2[at2[m][k]].leaf <=> m = 0
      <3> SUFFICES ASSUME NEW m \in 0..h, NEW k \in Places PROVE nd2[at2[m][k]].leaf <=> m = 0
        OBVIOUS
      <3>1. nd[at[m][k]].leaf <=> m = 0 BY <1>0 DEF Shape, Kinds
      <3>2. QED BY <3>1, <1>2
    <2>2. ASSUME NEW x \in Pages, ~nd2[x].leaf
          PROVE  \E m \in 0..h, k \in Places : x = at2[m][k]
      <3>1. CASE x = q
        <4>1. nd[n].hi > sep /\ nd[n].hi \in Places /\ at[l][nd[n].hi] = n
          BY <1>0, <1>1, <1>3 DEF Places
        <4>2. at2[l][nd[n].hi] = q BY <4>1, <1>0, <1>1
        <4>3. QED BY <3>1, <4>1, <4>2, <1>0
      <3>2. CASE x = n
        <4>1. at[l][sep] = n BY <1>0, <1>1, <1>3 DEF Places
        <4>2. ~(sep > sep) BY <1>1
        <4>3. at2[l][sep] = n BY <4>1, <4>2, <1>0, <1>1
        <4>4. QED BY <3>2, <4>3, <1>0
      <3>3. CASE x # q /\ x # n
        <4>1. ~nd[x].leaf
          <5>1. CASE x = p BY <5>1, <1>1
          <5>2. CASE x # p
            <6>1. nd2[x] = nd[x] BY <3>3, <5>2, <1>0 DEF SplitInto
            <6>2. QED BY <6>1, <2>2
          <5>3. QED BY <5>1, <5>2
        <4>2. PICK m \in 0..h, k \in Places : x = at[m][k] BY <4>1, <1>0 DEF Shape, Kinds
        <4>3. QED BY <3>3, <4>2, <1>1
      <3>4. QED BY <3>1, <3>2, <3>3
    <2>3. QED BY <2>1, <2>2 DEF Kinds
  <1>10. /\ DOMAIN nd[p].kids \subseteq Places /\ Top \in DOMAIN nd[p].kids
         /\ \A s \in DOMAIN nd[p].kids : s # Top => nd[p].lo < s /\ s < nd[p].hi
    BY <1>0, <1>1 DEF Shape, Slots
  <1>11. /\ nd2[p].kids = [s \in DOMAIN nd[p].kids \cup {sep} |->
                             IF s = sep THEN n
                             ELSE IF s = SlotIn(nd[p].kids, sep) THEN q ELSE nd[p].kids[s]]
         /\ nd2[p].lo = nd[p].lo /\ nd2[p].hi = nd[p].hi
    BY <1>0 DEF SplitInto, SplitKids, SlotIn
  <1>12. ASSUME ~nd[n].leaf
         PROVE  /\ DOMAIN nd[n].kids \subseteq Places /\ Top \in DOMAIN nd[n].kids
                /\ \A s \in DOMAIN nd[n].kids : s # Top => nd[n].lo < s /\ s < nd[n].hi
                /\ sep \in DOMAIN nd[n].kids /\ sep # Top
                /\ DOMAIN nd2[n].kids = {r \in DOMAIN nd[n].kids \ {Top} : r < sep} \cup {Top}
                /\ DOMAIN nd2[q].kids = {s \in DOMAIN nd[n].kids : s > sep}
                /\ \A s \in DOMAIN nd2[n].kids : nd2[n].kids[s] = nd[n].kids[IF s = Top THEN sep ELSE s]
                /\ \A s \in DOMAIN nd2[q].kids : nd2[q].kids[s] = nd[n].kids[s]
                /\ nd2[n].kids = [s \in DOMAIN nd2[n].kids |-> nd2[n].kids[s]]
                /\ nd2[q].kids = [s \in DOMAIN nd2[q].kids |-> nd2[q].kids[s]]
    <2>1. /\ DOMAIN nd[n].kids \subseteq Places /\ Top \in DOMAIN nd[n].kids
          /\ \A s \in DOMAIN nd[n].kids : s # Top => nd[n].lo < s /\ s < nd[n].hi
      BY <1>0, <1>1, <1>12 DEF Shape, Slots
    <2>2. sep \in DOMAIN nd[n].kids /\ sep # Top BY <1>0, <1>1, <1>3, <1>12 DEF Places
    <2>3. /\ nd2[n].kids = [s \in {r \in DOMAIN nd[n].kids \ {Top} : r < sep} \cup {Top} |->
                              nd[n].kids[IF s = Top THEN sep ELSE s]]
          /\ nd2[q].kids = [s \in {s \in DOMAIN nd[n].kids : s > sep} |-> nd[n].kids[s]]
      BY <1>0, <1>12 DEF SplitInto, Restrict
    <2>4. QED BY <2>1, <2>2, <2>3
  <1>13. Slots(nd2)
    <2> SUFFICES ASSUME NEW x \in Pages, ~nd2[x].leaf
                 PROVE  /\ nd2[x].kids = [s \in DOMAIN nd2[x].kids |-> nd2[x].kids[s]]
                        /\ DOMAIN nd2[x].kids \subseteq Places /\ Top \in DOMAIN nd2[x].kids
                        /\ \A s \in DOMAIN nd2[x].kids : s # Top => nd2[x].lo < s /\ s < nd2[x].hi
                        /\ x = Meta => DOMAIN nd2[x].kids = {Top}
      BY DEF Slots
    <2>1. CASE x = p
      <3>1. nd[p].lo < sep /\ sep < nd[p].hi
        <4>1. nd[p].lo \in Nat /\ nd[p].hi \in Nat BY <1>0, <1>1, <1>i, AtFacts DEF Places
        <4>2. nd[n].lo \in Nat /\ nd[n].hi \in Nat BY <1>1, <1>3 DEF Places
        <4>3. QED BY <4>1, <4>2, <1>0, <1>1
      <3>2. QED BY <2>1, <3>1, <1>0, <1>1, <1>10, <1>11
    <2>2. CASE x = n
      <3>1. ~nd[n].leaf /\ nd2[n].lo = nd[n].lo /\ nd2[n].hi = sep
        BY <2>2, <1>0 DEF SplitInto
      <3>2. QED BY <2>2, <3>1, <1>1, <1>12
    <2>3. CASE x = q
      <3>1. ~nd[n].leaf /\ nd2[q].lo = sep /\ nd2[q].hi = nd[n].hi
        BY <2>3, <1>0 DEF SplitInto
      <3>2. Top > sep BY <1>0, <1>1, <1>3 DEF Places
      <3>3. QED BY <2>3, <3>1, <3>2, <1>1, <1>12
    <2>4. CASE x \notin {p, n, q}
      <3>1. nd2[x] = nd[x] BY <2>4, <1>0 DEF SplitInto
      <3>2. QED BY <3>1, <1>0 DEF Shape, Slots
    <2>5. QED BY <2>1, <2>2, <2>3, <2>4
  (* The parent's slots: the one the node had is the first not below sep.    *)
  <1>14. ASSUME NEW k \in Places, at[l + 1][k] = p
         PROVE  /\ KidFor(nd2, p, k) = at2[l][k]
                /\ nd2[at2[l][k]].hi = HiFor(nd2, p, SlotIn(nd2[p].kids, k))
    <2> DEFINE d == SlotIn(nd[p].kids, sep)
               e == SlotIn(nd[p].kids, k)
    <2>0. k \in Nat /\ sep \in Places BY <1>0, <1>3
    <2>1. /\ d \in DOMAIN nd[p].kids /\ sep <= d /\ d \in Places
          /\ \A s \in DOMAIN nd[p].kids : s >= sep => d <= s
      BY <1>0, <1>10, SlotIs
    <2>2. /\ e \in DOMAIN nd[p].kids /\ k <= e /\ e \in Places
          /\ \A s \in DOMAIN nd[p].kids : s >= k => e <= s
      BY <1>10, SlotIs
    <2>3. at[l][sep] = n /\ at[l + 1][sep] = p
      BY <2>0, <1>0, <1>1, <1>3 DEF Places
    <2>4. /\ nd[p].kids[d] = n /\ nd[n].hi = HiFor(nd, p, d)
      BY <2>0, <2>3, <1>0, <1>1 DEF Shape, KidsAt, KidFor
    <2>5. /\ nd[p].kids[e] = at[l][k] /\ nd[at[l][k]].hi = HiFor(nd, p, e)
      BY <1>0, <1>1, <1>14 DEF Shape, KidsAt, KidFor
    <2>6. sep # d
      <3> SUFFICES ASSUME sep = d PROVE FALSE OBVIOUS
      <3>1. d # Top BY <1>0, <1>1, <1>3 DEF Places
      <3>2. nd[n].hi = sep BY <2>4, <3>1 DEF HiFor
      <3>3. QED BY <3>2, <1>0, <1>1
    <2> HIDE DEF d, e
    <2>7. /\ DOMAIN nd2[p].kids = DOMAIN nd[p].kids \cup {sep}
          /\ DOMAIN nd2[p].kids \subseteq Places
          /\ \A s \in DOMAIN nd2[p].kids :
               nd2[p].kids[s] = IF s = sep THEN n ELSE IF s = d THEN q ELSE nd[p].kids[s]
      BY <2>0, <1>10, <1>11 DEF d
    <2>8. nd2[p].hi = nd[p].hi BY <1>11
    <2>9. CASE at[l][k] = n
      <3>1. nd[n].lo < k /\ k <= nd[n].hi BY <2>9, <1>1
      <3>2. e = d
        <4>1. nd[p].kids[e] = n BY <2>5, <2>9
        <4>2. HiFor(nd, p, e) = HiFor(nd, p, d) BY <2>4, <2>5, <2>9
        <4>3. \A s \in DOMAIN nd[p].kids : s # Top => s < nd[p].hi BY <1>10
        <4>4. QED BY <2>1, <2>2, <4>2, <4>3, <1>3 DEF HiFor, Places
      <3>3. CASE k <= sep
        <4>1. \A s \in DOMAIN nd2[p].kids : s >= k => sep <= s
          BY <2>1, <2>2, <2>7, <3>2, <3>3, <1>1, <1>3 DEF Places
        <4>2. SlotIn(nd2[p].kids, k) = sep BY <2>7, <3>3, <4>1, <2>0, SlotEquals
        <4>3. sep # Top BY <1>0, <1>1, <1>3 DEF Places
        <4>4. at2[l][k] = n /\ nd2[at2[l][k]].hi = sep
          BY <2>9, <3>3, <2>0, <1>0, <1>1, <1>2
        <4>5. QED BY <4>2, <4>3, <4>4, <2>7 DEF KidFor, HiFor
      <3>4. CASE k > sep
        <4>1. \A s \in DOMAIN nd2[p].kids : s >= k => d <= s
          BY <2>2, <2>7, <3>2, <3>4, <2>0, <1>1
        <4>2. SlotIn(nd2[p].kids, k) = d BY <2>1, <2>2, <2>7, <3>2, <4>1, SlotEquals
        <4>3. at2[l][k] = q /\ nd2[at2[l][k]].hi = nd[n].hi
          BY <2>9, <3>4, <2>0, <1>0, <1>1, <1>2
        <4>4. QED BY <4>2, <4>3, <2>1, <2>4, <2>6, <2>7, <2>8 DEF KidFor, HiFor
      <3>5. QED BY <3>3, <3>4, <2>0, <1>1
    <2>10. CASE at[l][k] # n
      <3>1. e # d BY <2>4, <2>5, <2>10
      <3>2. e # sep
        <4> SUFFICES ASSUME e = sep PROVE FALSE OBVIOUS
        <4>1. d <= e BY <2>1, <2>2, <1>1
        <4>2. QED BY <4>1, <2>1, <3>1, <1>1, <2>2 DEF Places
      <3>3. ~(k <= sep /\ sep < e)
        <4> SUFFICES ASSUME k <= sep, sep < e PROVE FALSE OBVIOUS
        <4>1. sep < nd[at[l][k]].hi
          <5>1. CASE e = Top
            <6>1. nd[at[l][k]].hi = nd[p].hi BY <5>1, <2>5 DEF HiFor
            <6>2. nd[p].hi \in Nat /\ nd[n].hi \in Nat BY <1>0, <1>1, <1>i, <1>3, AtFacts
            <6>3. QED BY <6>1, <6>2, <1>0, <1>1
          <5>2. CASE e # Top BY <5>2, <2>5 DEF HiFor
          <5>3. QED BY <5>1, <5>2
        <4>2. nd[at[l][k]].lo < sep
          <5>1. nd[at[l][k]].lo < k /\ nd[at[l][k]].lo \in Nat BY <1>0, AtFacts
          <5>2. QED BY <5>1, <2>0, <1>1
        <4>3. nd[at[l][k]].hi \in Nat BY <1>0, <1>3, AtFacts
        <4>4. at[l][sep] = at[l][k] BY <4>1, <4>2, <4>3, <2>0, <1>0, <1>1 DEF Shape, Fences
        <4>5. QED BY <4>4, <2>3, <2>10
      <3>4. \A s \in DOMAIN nd2[p].kids : s >= k => e <= s
        <4> SUFFICES ASSUME NEW s \in DOMAIN nd2[p].kids, s >= k PROVE e <= s OBVIOUS
        <4>1. CASE s \in DOMAIN nd[p].kids BY <4>1, <2>2
        <4>2. CASE s = sep BY <4>2, <3>2, <3>3, <2>0, <2>2, <1>1 DEF Places
        <4>3. QED BY <4>1, <4>2, <2>7
      <3>5. SlotIn(nd2[p].kids, k) = e BY <2>2, <2>7, <3>4, SlotEquals
      <3>6. at2[l][k] = at[l][k] /\ nd2[at2[l][k]].hi = nd[at[l][k]].hi
        BY <2>10, <1>0, <1>1, <1>2
      <3>7. nd2[p].kids[e] = nd[p].kids[e] BY <2>2, <2>7, <3>1, <3>2
      <3>8. QED BY <3>5, <3>6, <3>7, <2>5, <2>8 DEF KidFor, HiFor
    <2>11. QED BY <2>9, <2>10
  (* The halves' slots: the separator becomes the left one's last.           *)
  <1>15. ASSUME NEW m \in 0..h, m + 1 = l, NEW k \in Places, at[l][k] = n
         PROVE  /\ KidFor(nd2, at2[l][k], k) = at2[m][k]
                /\ nd2[at2[m][k]].hi
                     = HiFor(nd2, at2[l][k], SlotIn(nd2[at2[l][k]].kids, k))
    <2> DEFINE e == SlotIn(nd[n].kids, k)
    <2>0. k \in Nat /\ sep \in Places /\ m \in Nat /\ m < h
      <3>1. h \in Nat /\ l < h /\ l \in Nat /\ sep \in Places /\ k \in Nat BY <1>0, <1>1, <1>3
      <3>2. QED BY <3>1, <1>15
    <2>1. ~nd[n].leaf
      <3>1. l # 0 BY <2>0, <1>15
      <3>2. nd[at[l][i]].leaf <=> l = 0 BY <1>0 DEF Shape, Kinds
      <3>3. QED BY <3>1, <3>2, <1>i
    <2>2. /\ DOMAIN nd[n].kids \subseteq Places /\ Top \in DOMAIN nd[n].kids
          /\ \A s \in DOMAIN nd[n].kids : s # Top => nd[n].lo < s /\ s < nd[n].hi
          /\ sep \in DOMAIN nd[n].kids /\ sep # Top
          /\ DOMAIN nd2[n].kids = {r \in DOMAIN nd[n].kids \ {Top} : r < sep} \cup {Top}
          /\ DOMAIN nd2[q].kids = {s \in DOMAIN nd[n].kids : s > sep}
          /\ \A s \in DOMAIN nd2[n].kids : nd2[n].kids[s] = nd[n].kids[IF s = Top THEN sep ELSE s]
          /\ \A s \in DOMAIN nd2[q].kids : nd2[q].kids[s] = nd[n].kids[s]
      BY <2>1, <1>12
    <2>3. /\ e \in DOMAIN nd[n].kids /\ k <= e /\ e \in Places
          /\ \A s \in DOMAIN nd[n].kids : s >= k => e <= s
      BY <2>2, SlotIs
    <2>4. /\ nd[n].kids[e] = at[m][k] /\ nd[at[m][k]].hi = HiFor(nd, n, e)
      BY <2>0, <1>0, <1>15 DEF Shape, KidsAt, KidFor
    <2>5. at2[m][k] = at[m][k] /\ nd2[at[m][k]].hi = nd[at[m][k]].hi
      BY <1>1, <1>2, <2>0, <1>15
    <2>6. nd2[n].hi = sep /\ nd2[q].hi = nd[n].hi BY <1>0 DEF SplitInto
    <2> HIDE DEF e
    <2>7. Top > sep BY <1>0, <1>1, <1>3 DEF Places
    <2>8. CASE k <= sep
      <3>1. e <= sep BY <2>2, <2>3, <2>8
      <3>2. ~(k > sep) BY <2>8, <2>0, <1>1
      <3>3. at2[l][k] = n BY <3>2, <1>0, <1>1, <1>15
      <3>4. CASE e = sep
        <4>1. \A s \in DOMAIN nd2[n].kids : s >= k => Top <= s
          BY <2>2, <2>3, <3>4, <2>0, <1>1, <1>3 DEF Places
        <4>2. Top \in DOMAIN nd2[n].kids /\ DOMAIN nd2[n].kids \subseteq Places BY <2>2
        <4>3. k <= Top BY <1>3 DEF Places
        <4>4. SlotIn(nd2[n].kids, k) = Top BY <4>1, <4>2, <4>3, <1>3, <2>0, SlotEquals
        <4>5. nd2[n].kids[Top] = nd[n].kids[sep] BY <2>2, <4>2
        <4>6. nd[at[m][k]].hi = sep BY <2>4, <3>4, <2>2 DEF HiFor
        <4>7. QED BY <3>3, <3>4, <4>4, <4>5, <4>6, <2>4, <2>5, <2>6 DEF KidFor, HiFor
      <3>5. CASE e < sep
        <4>1. e # Top /\ e \in DOMAIN nd2[n].kids BY <3>5, <2>2, <2>3, <2>7, <1>1, <1>3 DEF Places
        <4>2. \A s \in DOMAIN nd2[n].kids : s >= k => e <= s
          BY <2>2, <2>3, <1>3 DEF Places
        <4>3. DOMAIN nd2[n].kids \subseteq Places BY <2>2
        <4>4. SlotIn(nd2[n].kids, k) = e BY <4>1, <4>2, <4>3, <2>3, SlotEquals
        <4>5. nd2[n].kids[e] = nd[n].kids[e] BY <2>2, <4>1
        <4>6. QED BY <3>3, <4>1, <4>4, <4>5, <2>4, <2>5 DEF KidFor, HiFor
      <3>6. QED BY <3>1, <3>4, <3>5, <2>3, <1>1, <1>3 DEF Places
    <2>9. CASE k > sep
      <3>1. at2[l][k] = q BY <2>9, <1>0, <1>1, <1>15
      <3>2. e \in DOMAIN nd2[q].kids BY <2>2, <2>3, <2>9, <2>0, <1>1 DEF Places
      <3>3. \A s \in DOMAIN nd2[q].kids : s >= k => e <= s BY <2>2, <2>3
      <3>4. DOMAIN nd2[q].kids \subseteq Places BY <2>2
      <3>5. SlotIn(nd2[q].kids, k) = e BY <3>2, <3>3, <3>4, <2>3, SlotEquals
      <3>6. nd2[q].kids[e] = nd[n].kids[e] BY <2>2, <3>2
      <3>7. QED BY <3>1, <3>5, <3>6, <2>4, <2>5, <2>6 DEF KidFor, HiFor
    <2>10. QED BY <2>8, <2>9, <2>0, <1>1
  <1>16. KidsAt(nd2, h, at2)
    <2> SUFFICES ASSUME NEW m \in 0..h, NEW k \in Places, m < h
                 PROVE  /\ KidFor(nd2, at2[m + 1][k], k) = at2[m][k]
                        /\ nd2[at2[m][k]].hi
                             = HiFor(nd2, at2[m + 1][k], SlotIn(nd2[at2[m + 1][k]].kids, k))
      BY DEF KidsAt
    <2>0. m + 1 \in 0..h /\ m \in Nat BY <1>1
    <2>1. CASE at[m + 1][k] = p
      <3>1. m + 1 = l + 1 BY <2>0, <2>1, <1>1
      <3>2. m = l BY <3>1, <2>0, <1>1
      <3>3. at2[m + 1][k] = p BY <2>0, <2>1, <3>2, <1>1
      <3>4. QED BY <2>1, <3>2, <3>3, <1>14
    <2>2. CASE at[m + 1][k] = n
      <3>1. m + 1 = l BY <2>0, <2>2, <1>1
      <3>2. QED BY <2>2, <3>1, <1>15
    <2>3. CASE at[m + 1][k] # p /\ at[m + 1][k] # n
      <3>1. at2[m + 1][k] = at[m + 1][k] BY <2>0, <2>3, <1>1
      <3>2. nd2[at[m + 1][k]] = nd[at[m + 1][k]] BY <2>0, <2>3, <1>0, <1>1 DEF SplitInto
      <3>3. ~(m = l /\ at[m][k] = n) BY <2>3, <1>1
      <3>4. at2[m][k] = at[m][k] /\ nd2[at[m][k]].hi = nd[at[m][k]].hi BY <3>3, <1>1, <1>2
      <3>5. QED BY <3>1, <3>2, <3>4, <1>0 DEF Shape, KidsAt, KidFor, HiFor
    <2>4. QED BY <2>1, <2>2, <2>3
  <1>17. Chained(nd2, at2)
    <2> SUFFICES ASSUME NEW k \in Places
                 PROVE  /\ nd2[at2[0][k]].next = IF nd2[at2[0][k]].hi < Top
                                                 THEN at2[0][nd2[at2[0][k]].hi + 1] ELSE NoPage
                        /\ \A j \in nd2[at2[0][k]].keys : /\ nd2[at2[0][k]].lo < j
                                                          /\ j <= nd2[at2[0][k]].hi
      BY DEF Chained
    <2>0. 0 \in 0..h /\ k \in Nat /\ 0 # l + 1 BY <1>1, <1>3
    <2> DEFINE x == at[0][k]
    <2>1. /\ nd[x].next = IF nd[x].hi < Top THEN at[0][nd[x].hi + 1] ELSE NoPage
          /\ \A j \in nd[x].keys : nd[x].lo < j /\ j <= nd[x].hi
      BY <1>0 DEF Shape, Chained
    <2>2. /\ x \in Pages /\ nd[x].lo \in 0..Top /\ nd[x].hi \in Places
          /\ nd[x].lo < k /\ k <= nd[x].hi /\ \A j \in nd[x].keys : j \in Nat
      <3>1. \A y \in Pages : nd[y].keys \subseteq Keys BY <1>0 DEF Shape, Records
      <3>2. x \in Pages BY <1>0, <2>0, AtFacts
      <3>3. \A j \in nd[x].keys : j \in Nat BY <3>1, <3>2, KeysAssumption
      <3>4. QED BY <3>2, <3>3, <1>0, <2>0, AtFacts
    <2>3. x # p BY <2>0, <1>1
    <2>4. nd[x].hi < Top => nd[x].hi + 1 \in Places BY <2>2, <1>3 DEF Places
    <2>5. CASE x # n
      <3>1. at2[0][k] = x BY <2>5, <2>0, <1>1
      <3>2. nd2[x] = nd[x] BY <2>3, <2>5, <2>0, <1>0, <1>1 DEF SplitInto
      <3>3. ASSUME nd[x].hi < Top, at2[0][nd[x].hi + 1] # at[0][nd[x].hi + 1] PROVE FALSE
        <4>1. /\ l = 0 /\ nd[x].hi + 1 > sep /\ nd[x].hi + 1 \in Places
              /\ at[0][nd[x].hi + 1] = n
          BY <3>3, <2>0, <2>4, <1>1
        <4>2. nd[n].lo < nd[x].hi + 1 /\ nd[x].hi + 1 <= nd[n].hi BY <4>1, <1>1
        <4>3. nd[x].hi \in Nat /\ nd[n].lo \in Nat /\ nd[n].hi \in Nat
          BY <2>2, <1>1, <1>3 DEF Places
        <4>4. nd[n].lo < nd[x].hi /\ nd[x].hi <= nd[n].hi BY <4>1, <4>2, <4>3, <1>0, <1>1
        <4>5. at[0][nd[x].hi] = n BY <4>1, <4>4, <2>2, <1>1
        <4>6. at[0][nd[x].hi] = x BY <2>0, <2>2, <4>3, <1>0 DEF Shape, Fences
        <4>7. QED BY <4>5, <4>6, <2>5
      <3> HIDE DEF x
      <3>4. QED BY <3>1, <3>2, <3>3, <2>1
    <2>6. CASE x = n
      <3>0. l = 0 /\ nd[n].leaf
        <4>1. l = 0 BY <2>0, <2>6, <1>1
        <4>2. QED BY <4>1, <2>6, <2>0, <1>0 DEF Shape, Kinds
      <3>1. /\ nd2[n].keys = {j \in nd[n].keys : j <= sep} /\ nd2[n].next = q
            /\ nd2[q].keys = {j \in nd[n].keys : j > sep} /\ nd2[q].next = nd[n].next
            /\ nd2[n].lo = nd[n].lo /\ nd2[n].hi = sep /\ nd2[q].lo = sep /\ nd2[q].hi = nd[n].hi
        BY <3>0, <1>0 DEF SplitInto
      <3>2. /\ nd[n].next = IF nd[n].hi < Top THEN at[0][nd[n].hi + 1] ELSE NoPage
            /\ \A j \in nd[n].keys : nd[n].lo < j /\ j <= nd[n].hi /\ j \in Nat
        BY <2>1, <2>2, <2>6
      <3>3. CASE k <= sep
        <4>1. at2[0][k] = n BY <2>6, <3>0, <3>3, <2>0, <1>1
        <4>2. sep + 1 \in Places /\ sep + 1 > sep /\ sep < Top BY <1>0, <1>1, <1>3 DEF Places
        <4>3. at[0][sep + 1] = n
          <5>1. nd[n].lo \in Nat /\ nd[n].hi \in Nat BY <1>1, <1>3 DEF Places
          <5>2. nd[n].lo < sep + 1 /\ sep + 1 <= nd[n].hi BY <5>1, <1>0, <1>1
          <5>3. QED BY <5>2, <4>2, <3>0, <1>1
        <4>4. at2[0][sep + 1] = q BY <4>2, <4>3, <3>0, <2>0, <1>1
        <4>5. QED BY <3>1, <3>2, <4>1, <4>2, <4>4
      <3>4. CASE k > sep
        <4>1. at2[0][k] = q BY <2>6, <3>0, <3>4, <2>0, <1>1
        <4>2. ASSUME nd[n].hi < Top PROVE at2[0][nd[n].hi + 1] = at[0][nd[n].hi + 1]
          <5>1. nd[n].hi + 1 \in Places /\ nd[n].hi \in Nat BY <4>2, <1>1, <1>3 DEF Places
          <5>2. at[0][nd[n].hi + 1] # n BY <5>1, <3>0, <1>1
          <5>3. QED BY <5>1, <5>2, <2>0, <1>1
        <4>3. QED BY <3>1, <3>2, <4>1, <4>2
      <3>5. QED BY <3>3, <3>4, <2>0, <1>1
    <2>7. QED BY <2>5, <2>6
  <1>18. Shape(nd2, q, h, at2)
    BY <1>4, <1>5, <1>6, <1>8, <1>9, <1>13, <1>16, <1>17 DEF Shape
  <1>19. QED BY <1>18, <1>at, <1>q, <1>i

LEMMA SplitContents ==
  ASSUME NEW nd, NEW mk, NEW h, NEW at, NEW nd2, NEW l, NEW i, NEW sep,
         MaySplit(nd, mk, h, at, nd2, l, i, sep), NEW k \in Places
  PROVE  LET at2 == SplitAt(h, at, l, at[l][i], mk + 1, sep)
         IN /\ k \in nd2[at2[0][k]].keys <=> k \in nd[at[0][k]].keys
            /\ at[0][k] # at[l][i] => at2[0][k] = at[0][k]
  <1> DEFINE n == at[l][i]
             p == at[l + 1][i]
             q == mk + 1
             at2 == SplitAt(h, at, l, n, q, sep)
  <1>1. /\ h \in Nat /\ l \in Nat /\ sep \in Nat /\ n # q /\ n # p /\ p # q /\ n \in Pages
        /\ \A m \in 0..h, j \in Places :
             /\ at[m][j] \in Pages /\ at[m][j] # q
             /\ at[m][j] = n => m = l
             /\ at[m][j] = p => m = l + 1
             /\ at2[m][j] = IF m = l /\ at[m][j] = n /\ j > sep THEN q ELSE at[m][j]
    BY SplitBasics
  <1>2. /\ SplitInto(nd, nd2, p, n, q, sep) /\ Shape(nd, mk, h, at) BY DEF MaySplit
  <1>3. 0 \in 0..h /\ k \in Nat /\ 0 # l + 1 BY <1>1 DEF Places
  <1> HIDE DEF n, p, q, at2
  <1>4. CASE at[0][k] # n
    <2>1. at2[0][k] = at[0][k] /\ at[0][k] \notin {p, n, q} BY <1>1, <1>3, <1>4
    <2>2. nd2[at[0][k]] = nd[at[0][k]] BY <2>1, <1>1, <1>2, <1>3 DEF SplitInto
    <2>3. QED BY <2>1, <2>2 DEF n, q, at2
  <1>5. CASE at[0][k] = n
    <2>1. l = 0 /\ nd[n].leaf
      <3>1. l = 0 BY <1>1, <1>3, <1>5
      <3>2. QED BY <3>1, <1>2, <1>3, <1>5 DEF Shape, Kinds
    <2>2. /\ nd2[n].keys = {j \in nd[n].keys : j <= sep}
          /\ nd2[q].keys = {j \in nd[n].keys : j > sep}
      BY <2>1, <1>2 DEF SplitInto
    <2>3. CASE k > sep
      <3>1. at2[0][k] = q BY <2>1, <2>3, <1>1, <1>3, <1>5
      <3>2. QED BY <2>2, <2>3, <3>1, <1>5 DEF n, q, at2
    <2>4. CASE k <= sep
      <3>1. at2[0][k] = n
        <4>1. ~(k > sep) BY <2>4, <1>1, <1>3
        <4>2. QED BY <4>1, <1>1, <1>3, <1>5
      <3>2. QED BY <2>2, <2>4, <3>1, <1>5 DEF n, q, at2
    <2>5. QED BY <2>3, <2>4, <1>1, <1>3
  <1>6. QED BY <1>4, <1>5

-------------------------------------------------------------------------------
(* A leaf n takes in its right neighbour r: the slot of r becomes the one   *)
(* of n, and r is in the tree no longer.                                    *)
MergeInto(nd, nd2, p, n, r, s, rs) ==
  /\ nd2 = [x \in Pages |-> nd2[x]]
  /\ \A x \in Pages : x \notin {p, n} => nd2[x] = nd[x]
  /\ IsNode(nd2[p]) /\ IsNode(nd2[n])
  /\ nd2[p].leaf = FALSE /\ nd2[p].keys = nd[p].keys /\ nd2[p].next = nd[p].next
  /\ nd2[p].lo = nd[p].lo /\ nd2[p].hi = nd[p].hi
  /\ nd2[p].kids = MergedKids(nd[p].kids, s, rs, n)
  /\ nd2[n].leaf = TRUE /\ nd2[n].lo = nd[n].lo /\ nd2[n].hi = nd[r].hi
  /\ nd2[n].keys = nd[n].keys \cup nd[r].keys /\ nd2[n].next = nd[r].next

MergeAt(h, at, n, r) ==
  [m \in 0..h |-> [k \in Places |-> IF m = 0 /\ at[m][k] = r THEN n ELSE at[m][k]]]

MayMerge(nd, mk, h, at, nd2, i, rs) ==
  /\ Shape(nd, mk, h, at) /\ 1 \in 0..h /\ 1 < h /\ i \in Places
  /\ LET p == at[1][i]
         s == SlotIn(nd[p].kids, i)
     IN /\ rs \in DOMAIN nd[p].kids /\ rs # Top /\ s < rs
        /\ \A d \in DOMAIN nd[p].kids : s < d => rs <= d
        /\ MergeInto(nd, nd2, p, at[0][i], nd[p].kids[rs], s, rs)

(* The pages of a merge: n and r under p, at the slots s and rs.             *)
MergeFacts(nd, nd2, mk, h, at, at2, n, p, s, r, rs) ==
  /\ h \in Nat /\ mk \in Nat /\ 0 \in 0..h
  /\ n \in 1..mk /\ p \in 1..mk /\ r \in 1..mk /\ n \in Pages /\ p \in Pages /\ r \in Pages
  /\ n # p /\ n # r /\ p # r /\ ~nd[p].leaf /\ nd[n].leaf /\ nd[r].leaf /\ p # Meta
  /\ s \in DOMAIN nd[p].kids /\ s # Top /\ s \in Nat /\ rs \in Nat
  /\ DOMAIN nd[p].kids \subseteq Places /\ Top \in DOMAIN nd[p].kids
  /\ \A d \in DOMAIN nd[p].kids : d # Top => nd[p].lo < d /\ d < nd[p].hi
  /\ nd[n].lo \in Nat /\ nd[n].hi = s /\ nd[r].lo = s /\ nd[r].hi = rs
  /\ at[0][rs] = r /\ at[0][s] = n /\ rs \in Places
  /\ \A k \in Places : at[0][k] = n <=> nd[n].lo < k /\ k <= s
  /\ \A k \in Places : at[0][k] = r <=> s < k /\ k <= rs
  /\ \A k \in Places : at[0][k] \in {n, r} => at[1][k] = p
  /\ \A m \in 0..h, k \in Places :
       /\ at[m][k] \in Pages
       /\ at[m][k] \in {n, r} => m = 0
       /\ at[m][k] = p => m = 1
       /\ at2[m][k] = IF m = 0 /\ at[m][k] = r THEN n ELSE at[m][k]
  /\ \A m \in 0..h, k \in Places : LET x == at2[m][k] IN
       /\ x \in Pages
       /\ nd2[x].lo = IF at[m][k] \in {n, r} THEN nd[n].lo ELSE nd[at[m][k]].lo
       /\ nd2[x].hi = IF at[m][k] \in {n, r} THEN rs ELSE nd[at[m][k]].hi
       /\ nd2[x].leaf <=> nd[at[m][k]].leaf

\* The pages of a merge, and the levels they are on.
LEMMA MergeBasics ==
  ASSUME NEW nd, NEW mk, NEW h, NEW at, NEW nd2, NEW i, NEW rs,
         MayMerge(nd, mk, h, at, nd2, i, rs)
  PROVE  LET n == at[0][i]
             p == at[1][i]
             s == SlotIn(nd[p].kids, i)
             r == nd[p].kids[rs]
         IN MergeFacts(nd, nd2, mk, h, at, MergeAt(h, at, n, r), n, p, s, r, rs)
  <1> DEFINE n == at[0][i]
             p == at[1][i]
             s == SlotIn(nd[p].kids, i)
             r == nd[p].kids[rs]
             at2 == MergeAt(h, at, n, r)
  <1>0. /\ Shape(nd, mk, h, at) /\ 1 \in 0..h /\ 1 < h /\ i \in Places
        /\ rs \in DOMAIN nd[p].kids /\ rs # Top /\ s < rs
        /\ \A d \in DOMAIN nd[p].kids : s < d => rs <= d
        /\ MergeInto(nd, nd2, p, n, r, s, rs)
    BY DEF MayMerge
  <1>1. h \in Nat /\ mk \in Nat /\ 0 \in 0..h /\ 0 < h /\ Top \in Nat
    BY <1>0, PagesFacts, TopFacts DEF Shape, Levels, Records
  <1>2. n \in 1..mk /\ p \in 1..mk /\ n \in Pages /\ p \in Pages /\ n # p /\ p # Meta
    <2>1. n \in 1..mk /\ p \in 1..mk BY <1>0, <1>1 DEF Shape, Levels
    <2>2. n \in Pages /\ p \in Pages BY <1>0, <1>1, AtFacts
    <2>3. n # p BY <1>0, <1>1 DEF Shape, Levels
    <2>4. p # Meta BY <2>1 DEF Meta
    <2>5. QED BY <2>1, <2>2, <2>3, <2>4
  <1>3. ~nd[p].leaf /\ nd[n].leaf BY <1>0, <1>1 DEF Shape, Kinds
  <1>4. /\ DOMAIN nd[p].kids \subseteq Places /\ Top \in DOMAIN nd[p].kids
        /\ \A d \in DOMAIN nd[p].kids : d # Top => nd[p].lo < d /\ d < nd[p].hi
    BY <1>0, <1>2, <1>3 DEF Shape, Slots
  <1>5. s \in DOMAIN nd[p].kids /\ s \in Places /\ i <= s
        /\ \A d \in DOMAIN nd[p].kids : d >= i => s <= d
    BY <1>0, <1>4, SlotIs
  <1>6. s \in Nat /\ rs \in Nat /\ rs \in Places /\ rs < Top /\ s # Top /\ i \in Nat
    <2>1. s \in Nat /\ rs \in Places /\ i \in Nat BY <1>0, <1>4, <1>5 DEF Places
    <2> HIDE DEF s
    <2>2. QED BY <2>1, <1>0, <1>1 DEF Places
  <1>7. nd[n].hi = s
    <2>1. nd[at[0][i]].hi = HiFor(nd, at[0 + 1][i], SlotIn(nd[at[0 + 1][i]].kids, i))
      BY <1>0, <1>1 DEF Shape, KidsAt
    <2>2. 0 + 1 = 1 OBVIOUS
    <2>3. QED BY <2>1, <2>2, <1>6 DEF HiFor
  <1>8. ASSUME NEW k \in Places, at[1][k] = p
        PROVE  /\ nd[p].kids[SlotIn(nd[p].kids, k)] = at[0][k]
               /\ nd[at[0][k]].hi = HiFor(nd, p, SlotIn(nd[p].kids, k))
    <2>1. /\ KidFor(nd, at[0 + 1][k], k) = at[0][k]
          /\ nd[at[0][k]].hi = HiFor(nd, at[0 + 1][k], SlotIn(nd[at[0 + 1][k]].kids, k))
      BY <1>0, <1>1 DEF Shape, KidsAt
    <2>2. 0 + 1 = 1 OBVIOUS
    <2>3. QED BY <2>1, <2>2, <1>8 DEF KidFor
  <1>9. nd[p].lo \in Nat /\ nd[p].hi \in Nat /\ nd[p].lo < i /\ i <= nd[p].hi
    BY <1>0, AtFacts DEF Places
  <1>10. \A k \in Places : nd[p].lo < k /\ k <= nd[p].hi => at[1][k] = p
    BY <1>0 DEF Shape, Fences
  <1>11. nd[n].lo \in Nat /\ nd[n].lo < i BY <1>0, <1>1, AtFacts
  <1>12. ASSUME NEW k \in Places PROVE at[0][k] = n <=> nd[n].lo < k /\ k <= s
    <2>1. nd[at[0][k]].lo < k /\ k <= nd[at[0][k]].hi BY <1>0, <1>1 DEF Shape, Fences
    <2>2. nd[n].lo < k /\ k <= nd[n].hi => at[0][k] = n BY <1>0, <1>1 DEF Shape, Fences
    <2>3. QED BY <2>1, <2>2, <1>7
  <1> HIDE DEF n, p, s
  <1>13. at[0][s] = n BY <1>5, <1>6, <1>11, <1>12
  <1>14. s + 1 \in Places /\ at[1][s + 1] = p /\ at[1][rs] = p
    <2>1. s + 1 \in Places BY <1>0, <1>1, <1>6 DEF Places
    <2>2. s + 1 <= nd[p].hi /\ rs <= nd[p].hi BY <1>0, <1>4, <1>6, <1>9
    <2>3. nd[p].lo < s + 1 /\ nd[p].lo < rs BY <1>0, <1>5, <1>6, <1>9
    <2>4. QED BY <2>1, <2>2, <2>3, <1>6, <1>10
  <1>15. SlotIn(nd[p].kids, s + 1) = rs /\ SlotIn(nd[p].kids, rs) = rs
    <2>1. s + 1 <= rs BY <1>0, <1>6
    <2>2. \A d \in DOMAIN nd[p].kids : d >= s + 1 => rs <= d
      BY <1>0, <1>4, <1>6 DEF Places
    <2>3. QED BY <2>1, <2>2, <1>0, <1>4, <1>6, <1>14, SlotEquals DEF Places
  <1>16. at[0][s + 1] = r /\ at[0][rs] = r /\ nd[r].hi = rs
    BY <1>0, <1>6, <1>8, <1>14, <1>15 DEF HiFor
  <1>17. n # r BY <1>0, <1>6, <1>7, <1>16
  <1>18. r \in 1..mk /\ r \in Pages /\ nd[r].leaf /\ p # r /\ nd[r].lo \in Nat /\ nd[r].lo < s + 1
    <2>1. r \in 1..mk BY <1>0, <1>1, <1>6, <1>16 DEF Shape, Levels
    <2>2. r \in Pages /\ nd[r].lo \in Nat /\ nd[r].lo < s + 1 BY <1>0, <1>1, <1>14, <1>16, AtFacts
    <2>3. nd[r].leaf BY <1>0, <1>1, <1>6, <1>16 DEF Shape, Kinds
    <2>4. QED BY <2>1, <2>2, <2>3, <1>3
  <1> HIDE DEF r
  <1>19. ASSUME NEW k \in Places PROVE at[0][k] = r <=> nd[r].lo < k /\ k <= rs
    <2>1. nd[at[0][k]].lo < k /\ k <= nd[at[0][k]].hi BY <1>0, <1>1 DEF Shape, Fences
    <2>2. nd[at[0][rs]].lo < k /\ k <= nd[at[0][rs]].hi => at[0][k] = at[0][rs]
      BY <1>0, <1>1, <1>6 DEF Shape, Fences
    <2>3. QED BY <2>1, <2>2, <1>16
  <1>20. nd[r].lo = s
    <2> SUFFICES ASSUME nd[r].lo < s PROVE FALSE BY <1>6, <1>18
    <2>1. at[0][s] = r BY <1>0, <1>5, <1>6, <1>19
    <2>2. QED BY <2>1, <1>13, <1>17
  <1>21. \A k \in Places : at[0][k] \in {n, r} => at[1][k] = p
    <2> SUFFICES ASSUME NEW k \in Places, at[0][k] \in {n, r} PROVE at[1][k] = p OBVIOUS
    <2>1. at[1][i] = p /\ at[0][i] = n BY DEF n, p
    <2>2. \A j \in Places : at[0][k] = at[0][j] => at[0 + 1][k] = at[0 + 1][j]
      BY <1>0, <1>1 DEF Shape, Nested
    <2>3. 0 + 1 = 1 OBVIOUS
    <2>4. QED BY <2>1, <2>2, <2>3, <1>0, <1>6, <1>14, <1>16
  <1>22. ASSUME NEW m \in 0..h, NEW k \in Places
         PROVE  /\ at[m][k] \in Pages
                /\ at[m][k] \in {n, r} => m = 0
                /\ at[m][k] = p => m = 1
                /\ at2[m][k] = IF m = 0 /\ at[m][k] = r THEN n ELSE at[m][k]
    <2>1. at[m][k] \in Pages BY <1>0, AtFacts
    <2>2. at[m][k] = at[0][i] => m = 0 BY <1>0, <1>1 DEF Shape, Levels
    <2>3. at[m][k] = at[0][rs] => m = 0 BY <1>0, <1>1, <1>6 DEF Shape, Levels
    <2>4. at[m][k] = at[1][i] => m = 1 BY <1>0, <1>1 DEF Shape, Levels
    <2>5. at2[m][k] = IF m = 0 /\ at[m][k] = r THEN n ELSE at[m][k] BY DEF MergeAt
    <2>6. QED BY <2>1, <2>2, <2>3, <2>4, <2>5, <1>16 DEF n, p
  <1> HIDE DEF at2
  <1>23. ASSUME NEW m \in 0..h, NEW k \in Places
         PROVE  /\ at2[m][k] \in Pages
                /\ nd2[at2[m][k]].lo = IF at[m][k] \in {n, r} THEN nd[n].lo ELSE nd[at[m][k]].lo
                /\ nd2[at2[m][k]].hi = IF at[m][k] \in {n, r} THEN rs ELSE nd[at[m][k]].hi
                /\ nd2[at2[m][k]].leaf <=> nd[at[m][k]].leaf
    <2>1. CASE at[m][k] \in {n, r}
      <3>1. at2[m][k] = n BY <2>1, <1>22
      <3>2. nd2[n].leaf = TRUE /\ nd2[n].lo = nd[n].lo /\ nd2[n].hi = rs
        BY <1>0, <1>16 DEF MergeInto
      <3>3. QED BY <2>1, <3>1, <3>2, <1>2, <1>3, <1>18
    <2>2. CASE at[m][k] \notin {n, r}
      <3>1. at2[m][k] = at[m][k] /\ at[m][k] \in Pages BY <2>2, <1>22
      <3>2. CASE at[m][k] = p
        <4>1. nd2[p].leaf = FALSE /\ nd2[p].lo = nd[p].lo /\ nd2[p].hi = nd[p].hi
          BY <1>0 DEF MergeInto
        <4>2. QED BY <2>2, <3>1, <3>2, <4>1, <1>3
      <3>3. CASE at[m][k] # p
        <4>1. nd2[at[m][k]] = nd[at[m][k]] BY <2>2, <3>1, <3>3, <1>0 DEF MergeInto
        <4>2. QED BY <2>2, <3>1, <4>1
      <3>4. QED BY <3>2, <3>3
    <2>3. QED BY <2>1, <2>2
  <1>24. \A k \in Places : at[0][k] = r <=> s < k /\ k <= rs BY <1>19, <1>20
  <1>25. MergeFacts(nd, nd2, mk, h, at, at2, n, p, s, r, rs)
    BY <1>0, <1>1, <1>2, <1>3, <1>4, <1>5, <1>6, <1>7, <1>11, <1>12, <1>13, <1>16, <1>17, <1>18,
       <1>20, <1>21, <1>22, <1>23, <1>24 DEF MergeFacts
  <1>26. QED BY <1>25 DEF n, p, s, r, at2

\* After the merge of n with its right neighbour r: a tree with the same keys, in which
\* only the descents to n and r end elsewhere.
MergedTree(nd, mk, h, at, nd2, n, r) ==
  LET at2 == MergeAt(h, at, n, r)
  IN /\ Shape(nd2, mk, h, at2)
     /\ \A k \in Places : /\ k \in nd2[at2[0][k]].keys <=> k \in nd[at[0][k]].keys
                          /\ at[0][k] \notin {n, r} => at2[0][k] = at[0][k]

\* A merge leaves a tree: n covers what the two pages did.
LEMMA MergeShape ==
  ASSUME NEW nd, NEW mk, NEW h, NEW at, NEW nd2, NEW i, NEW rs,
         MayMerge(nd, mk, h, at, nd2, i, rs)
  PROVE  MergedTree(nd, mk, h, at, nd2, at[0][i], nd[at[1][i]].kids[rs])
  <1> DEFINE n == at[0][i]
             p == at[1][i]
             s == SlotIn(nd[p].kids, i)
             r == nd[p].kids[rs]
             at2 == MergeAt(h, at, n, r)
  <1>0. /\ Shape(nd, mk, h, at) /\ 1 \in 0..h /\ 1 < h /\ i \in Places
        /\ rs \in DOMAIN nd[p].kids /\ rs # Top /\ s < rs
        /\ \A d \in DOMAIN nd[p].kids : s < d => rs <= d
        /\ MergeInto(nd, nd2, p, n, r, s, rs)
    BY DEF MayMerge
  <1>b. MergeFacts(nd, nd2, mk, h, at, at2, n, p, s, r, rs) BY MergeBasics
  <1>i. at[0][i] = n /\ at[1][i] = p /\ SlotIn(nd[p].kids, i) = s /\ nd[p].kids[rs] = r OBVIOUS
  <1>at. at2 = MergeAt(h, at, n, r) OBVIOUS
  <1> HIDE DEF n, p, s, r, at2
  <1>1. /\ h \in Nat /\ mk \in Nat /\ 0 \in 0..h
        /\ n \in 1..mk /\ p \in 1..mk /\ r \in 1..mk /\ n \in Pages /\ p \in Pages /\ r \in Pages
        /\ n # p /\ n # r /\ p # r /\ ~nd[p].leaf /\ nd[n].leaf /\ nd[r].leaf /\ p # Meta
        /\ s \in DOMAIN nd[p].kids /\ s # Top /\ s \in Nat /\ rs \in Nat
        /\ DOMAIN nd[p].kids \subseteq Places /\ Top \in DOMAIN nd[p].kids
        /\ \A d \in DOMAIN nd[p].kids : d # Top => nd[p].lo < d /\ d < nd[p].hi
        /\ nd[n].lo \in Nat /\ nd[n].hi = s /\ nd[r].lo = s /\ nd[r].hi = rs
        /\ at[0][rs] = r /\ at[0][s] = n /\ rs \in Places
    BY <1>b DEF MergeFacts
  <1>2. /\ \A k \in Places : at[0][k] = n <=> nd[n].lo < k /\ k <= s
        /\ \A k \in Places : at[0][k] = r <=> s < k /\ k <= rs
        /\ \A k \in Places : at[0][k] \in {n, r} => at[1][k] = p
        /\ \A m \in 0..h, k \in Places :
             /\ at[m][k] \in Pages
             /\ at[m][k] \in {n, r} => m = 0
             /\ at[m][k] = p => m = 1
             /\ at2[m][k] = IF m = 0 /\ at[m][k] = r THEN n ELSE at[m][k]
    BY <1>b DEF MergeFacts
  <1>3. \A m \in 0..h, k \in Places :
          /\ at2[m][k] \in Pages
          /\ nd2[at2[m][k]].lo = IF at[m][k] \in {n, r} THEN nd[n].lo ELSE nd[at[m][k]].lo
          /\ nd2[at2[m][k]].hi = IF at[m][k] \in {n, r} THEN rs ELSE nd[at[m][k]].hi
          /\ nd2[at2[m][k]].leaf <=> nd[at[m][k]].leaf
    BY <1>b DEF MergeFacts
  <1>4. Top \in Nat /\ Top > 1 /\ Top \in Places /\ \A k \in Places : k \in Nat BY TopFacts DEF Places
  <1>5. Records(nd2, mk)
    <2> SUFFICES ASSUME NEW x \in Pages
                 PROVE  /\ IsNode(nd2[x]) /\ nd2[x].leaf \in BOOLEAN
                        /\ nd2[x].keys \subseteq Keys /\ nd2[x].next \in (1..mk) \cup {NoPage}
                        /\ nd2[x].lo \in 0..Top /\ nd2[x].hi \in 0..Top
      BY <1>0 DEF Records, Shape, MergeInto
    <2>1. \A y \in Pages : /\ IsNode(nd[y]) /\ nd[y].leaf \in BOOLEAN
                           /\ nd[y].keys \subseteq Keys /\ nd[y].next \in (1..mk) \cup {NoPage}
                           /\ nd[y].lo \in 0..Top /\ nd[y].hi \in 0..Top
      BY <1>0 DEF Shape, Records
    <2>2. CASE x = p BY <2>1, <2>2, <1>0, <1>1 DEF MergeInto
    <2>3. CASE x = n
      <3>1. /\ IsNode(nd2[n]) /\ nd2[n].leaf = TRUE /\ nd2[n].lo = nd[n].lo /\ nd2[n].hi = nd[r].hi
            /\ nd2[n].keys = nd[n].keys \cup nd[r].keys /\ nd2[n].next = nd[r].next
        BY <1>0 DEF MergeInto
      <3>2. nd[n].keys \subseteq Keys /\ nd[r].keys \subseteq Keys BY <2>1, <1>1
      <3>3. nd2[n].keys \subseteq Keys BY <3>1, <3>2
      <3>4. QED BY <2>1, <2>3, <3>1, <3>3, <1>1
    <2>4. CASE x \notin {p, n}
      <3>1. nd2[x] = nd[x] BY <2>4, <1>0 DEF MergeInto
      <3>2. QED BY <3>1, <2>1
    <2>5. QED BY <2>2, <2>3, <2>4
  <1>6. Levels(mk, h, at2)
    <2>1. at2 \in [0..h -> [Places -> Pages]] BY <1>1, <1>2, <1>at DEF MergeAt
    <2>2. \A k \in Places : at2[h][k] = Meta
      <3> SUFFICES ASSUME NEW k \in Places PROVE at2[h][k] = Meta OBVIOUS
      <3>1. h \in 0..h /\ h # 0 BY <1>0, <1>1
      <3>2. at[h][k] = Meta BY <1>0 DEF Shape, Levels
      <3>3. QED BY <3>1, <3>2, <1>2
    <2>3. ASSUME NEW m \in 0..h, NEW k \in Places, m < h PROVE at2[m][k] \in 1..mk
      <3>1. at[m][k] \in 1..mk BY <2>3, <1>0 DEF Shape, Levels
      <3>2. QED BY <3>1, <1>1, <1>2
    <2>4. ASSUME NEW m \in 0..h, NEW o \in 0..h, NEW j \in Places, NEW k \in Places,
                 at2[m][j] = at2[o][k]
          PROVE  m = o
      <3>1. /\ at2[m][j] = n => m = 0
            /\ at2[o][k] = n => o = 0
            /\ at2[m][j] # n => at2[m][j] = at[m][j]
            /\ at2[o][k] # n => at2[o][k] = at[o][k]
        BY <1>2
      <3>2. CASE at2[m][j] = n BY <3>1, <3>2, <2>4
      <3>3. CASE at2[m][j] # n
        <4>1. at[m][j] = at[o][k] BY <3>1, <3>3, <2>4
        <4>2. QED BY <4>1, <1>0 DEF Shape, Levels
      <3>4. QED BY <3>2, <3>3
    <2>5. h \in Nat \ {0} BY <1>0 DEF Shape, Levels
    <2>6. QED BY <2>1, <2>2, <2>3, <2>4, <2>5, <1>0 DEF Levels
  <1>7. Fences(nd2, h, at2)
    <2>1. ASSUME NEW m \in 0..h, NEW k \in Places
          PROVE  nd2[at2[m][k]].lo < k /\ k <= nd2[at2[m][k]].hi
      <3>1. nd[at[m][k]].lo < k /\ k <= nd[at[m][k]].hi BY <1>0 DEF Shape, Fences
      <3>2. k \in Nat BY <1>4
      <3>3. CASE at[m][k] \in {n, r}
        <4>1. m = 0 BY <3>3, <1>2
        <4>2. nd[n].lo < s BY <1>1, <1>2, <1>4
        <4>3. nd[n].lo < k /\ k <= rs BY <3>2, <3>3, <4>1, <4>2, <1>0, <1>1, <1>2
        <4>4. QED BY <3>3, <4>3, <1>3
      <3>4. CASE at[m][k] \notin {n, r} BY <3>1, <3>4, <1>3
      <3>5. QED BY <3>3, <3>4
    <2>2. ASSUME NEW m \in 0..h, NEW j \in Places, NEW k \in Places,
                 nd2[at2[m][k]].lo < j, j <= nd2[at2[m][k]].hi
          PROVE  at2[m][j] = at2[m][k]
      <3>0. j \in Nat /\ k \in Nat BY <1>4
      <3>1. CASE at[m][k] \in {n, r}
        <4>1. m = 0 /\ at2[m][k] = n BY <3>1, <1>2
        <4>2. nd[n].lo < j /\ j <= rs BY <2>2, <3>1, <1>3
        <4>3. j <= s \/ s < j BY <3>0, <1>1
        <4>4. at[0][j] \in {n, r} BY <4>2, <4>3, <1>2
        <4>5. QED BY <4>1, <4>4, <1>2
      <3>2. CASE at[m][k] \notin {n, r}
        <4>1. nd[at[m][k]].lo < j /\ j <= nd[at[m][k]].hi BY <2>2, <3>2, <1>3
        <4>2. at[m][j] = at[m][k] BY <4>1, <1>0 DEF Shape, Fences
        <4>3. QED BY <3>2, <4>2, <1>2
      <3>3. QED BY <3>1, <3>2
    <2>3. QED BY <2>1, <2>2 DEF Fences
  <1>8. Nested(h, at2)
    <2> SUFFICES ASSUME NEW m \in 0..h, NEW j \in Places, NEW k \in Places,
                        m < h, at2[m][j] = at2[m][k]
                 PROVE  at2[m + 1][j] = at2[m + 1][k]
      BY DEF Nested
    <2>0. m + 1 \in 0..h /\ m + 1 # 0 BY <1>1
    <2>1. at2[m + 1][j] = at[m + 1][j] /\ at2[m + 1][k] = at[m + 1][k] BY <2>0, <1>2
    <2>2. CASE at2[m][j] = n
      <3>1. at2[m][k] = n BY <2>2
      <3>2. at[m][j] \in {n, r} /\ at[m][k] \in {n, r} BY <2>2, <3>1, <1>2
      <3>3. m = 0 BY <3>2, <1>2
      <3>4. 0 + 1 = 1 OBVIOUS
      <3>5. QED BY <2>1, <3>2, <3>3, <3>4, <1>2
    <2>3. CASE at2[m][j] # n
      <3>1. at2[m][k] # n BY <2>3
      <3>2. at2[m][j] = at[m][j] /\ at2[m][k] = at[m][k] BY <2>3, <3>1, <1>2
      <3>3. at[m][j] = at[m][k] BY <3>2
      <3>4. QED BY <2>1, <3>3, <1>0 DEF Shape, Nested
    <2>4. QED BY <2>2, <2>3
  <1>9. Kinds(nd2, h, at2)
    <2>1. \A m \in 0..h, k \in Places : nd2[at2[m][k]].leaf <=> m = 0
      <3> SUFFICES ASSUME NEW m \in 0..h, NEW k \in Places PROVE nd2[at2[m][k]].leaf <=> m = 0
        OBVIOUS
      <3>1. nd[at[m][k]].leaf <=> m = 0 BY <1>0 DEF Shape, Kinds
      <3>2. QED BY <3>1, <1>3
    <2>2. ASSUME NEW x \in Pages, ~nd2[x].leaf
          PROVE  \E m \in 0..h, k \in Places : x = at2[m][k]
      <3>1. x # n BY <2>2, <1>0 DEF MergeInto
      <3>2. ~nd[x].leaf
        <4>1. CASE x = p BY <4>1, <1>1
        <4>2. CASE x # p
          <5>1. nd2[x] = nd[x] BY <3>1, <4>2, <1>0 DEF MergeInto
          <5>2. QED BY <5>1, <2>2
        <4>3. QED BY <4>1, <4>2
      <3>3. x # r BY <3>2, <1>1
      <3>4. PICK m \in 0..h, k \in Places : x = at[m][k] BY <3>2, <1>0 DEF Shape, Kinds
      <3>5. QED BY <3>3, <3>4, <1>2
    <2>3. QED BY <2>1, <2>2 DEF Kinds
  <1>10. /\ nd2[p].kids = [d \in DOMAIN nd[p].kids \ {s} |-> IF d = rs THEN n ELSE nd[p].kids[d]]
         /\ nd2[p].lo = nd[p].lo /\ nd2[p].hi = nd[p].hi
    BY <1>0 DEF MergeInto, MergedKids
  <1>11. Slots(nd2)
    <2> SUFFICES ASSUME NEW x \in Pages, ~nd2[x].leaf
                 PROVE  /\ nd2[x].kids = [d \in DOMAIN nd2[x].kids |-> nd2[x].kids[d]]
                        /\ DOMAIN nd2[x].kids \subseteq Places /\ Top \in DOMAIN nd2[x].kids
                        /\ \A d \in DOMAIN nd2[x].kids : d # Top => nd2[x].lo < d /\ d < nd2[x].hi
                        /\ x = Meta => DOMAIN nd2[x].kids = {Top}
      BY DEF Slots
    <2>1. CASE x = p BY <2>1, <1>1, <1>10
    <2>2. CASE x = n BY <2>2, <1>0 DEF MergeInto
    <2>3. CASE x \notin {p, n}
      <3>1. nd2[x] = nd[x] BY <2>3, <1>0 DEF MergeInto
      <3>2. QED BY <3>1, <1>0 DEF Shape, Slots
    <2>4. QED BY <2>1, <2>2, <2>3
  <1>12. ASSUME NEW k \in Places, at[1][k] = p
         PROVE  /\ KidFor(nd2, p, k) = at2[0][k]
                /\ nd2[at2[0][k]].hi = HiFor(nd2, p, SlotIn(nd2[p].kids, k))
    <2> DEFINE e == SlotIn(nd[p].kids, k)
    <2>0. k \in Nat BY <1>4
    <2>1. /\ e \in DOMAIN nd[p].kids /\ k <= e /\ e \in Places
          /\ \A d \in DOMAIN nd[p].kids : d >= k => e <= d
      BY <1>1, SlotIs
    <2>2. /\ nd[p].kids[e] = at[0][k] /\ nd[at[0][k]].hi = HiFor(nd, p, e)
      <3>1. /\ KidFor(nd, at[0 + 1][k], k) = at[0][k]
            /\ nd[at[0][k]].hi = HiFor(nd, at[0 + 1][k], SlotIn(nd[at[0 + 1][k]].kids, k))
        BY <1>0, <1>1 DEF Shape, KidsAt
      <3>2. 0 + 1 = 1 OBVIOUS
      <3>3. QED BY <3>1, <3>2, <1>12 DEF KidFor
    <2> HIDE DEF e
    <2>3. /\ DOMAIN nd2[p].kids = DOMAIN nd[p].kids \ {s}
          /\ DOMAIN nd2[p].kids \subseteq Places
          /\ \A d \in DOMAIN nd2[p].kids : nd2[p].kids[d] = IF d = rs THEN n ELSE nd[p].kids[d]
          /\ nd2[p].hi = nd[p].hi
      BY <1>1, <1>10
    <2>4. \A d \in DOMAIN nd[p].kids : d \in Nat BY <1>1, <1>4
    <2>5. CASE at[0][k] \in {n, r}
      <3>1. nd[n].lo < k /\ k <= rs BY <2>0, <2>5, <1>0, <1>1, <1>2
      <3>2. at2[0][k] = n /\ nd2[at2[0][k]].hi = rs BY <2>5, <1>1, <1>2, <1>3
      <3>3. \A d \in DOMAIN nd2[p].kids : d >= k => rs <= d
        <4> SUFFICES ASSUME NEW d \in DOMAIN nd2[p].kids, d >= k PROVE rs <= d OBVIOUS
        <4>1. d \in DOMAIN nd[p].kids /\ d # s /\ d \in Nat BY <2>3, <2>4
        <4>2. s <= d
          <5>1. CASE at[0][k] = n
            <6>1. nd[n].hi = HiFor(nd, p, e) /\ nd[n].hi = s BY <2>2, <5>1, <1>1
            <6>2. CASE e = Top BY <6>2, <2>1, <4>1, <1>1, <1>4 DEF Places
            <6>3. CASE e # Top
              <7>1. e = s BY <6>1, <6>3 DEF HiFor
              <7>2. QED BY <7>1, <2>1, <4>1
            <6>4. QED BY <6>2, <6>3
          <5>2. CASE at[0][k] = r
            <6>1. s < k BY <5>2, <1>2
            <6>2. QED BY <6>1, <4>1, <2>0, <1>1
          <5>3. QED BY <2>5, <5>1, <5>2
        <4>3. QED BY <4>1, <4>2, <1>0, <1>1
      <3>4. rs \in DOMAIN nd2[p].kids BY <2>3, <1>0, <1>1
      <3>5. SlotIn(nd2[p].kids, k) = rs BY <2>3, <3>1, <3>3, <3>4, <2>0, <1>1, SlotEquals
      <3>6. QED BY <3>2, <3>4, <3>5, <2>3, <1>0 DEF KidFor, HiFor
    <2>6. CASE at[0][k] \notin {n, r}
      <3>1. e # s
        <4> SUFFICES ASSUME e = s PROVE FALSE OBVIOUS
        <4>1. /\ KidFor(nd, at[0 + 1][i], i) = at[0][i] BY <1>0, <1>1 DEF Shape, KidsAt
        <4>2. 0 + 1 = 1 OBVIOUS
        <4>3. nd[p].kids[s] = n BY <4>1, <4>2, <1>i DEF KidFor
        <4>4. QED BY <4>3, <2>2, <2>6
      <3>2. e # rs BY <2>2, <2>6, <1>i
      <3>3. e \in DOMAIN nd2[p].kids BY <2>1, <2>3, <3>1
      <3>4. SlotIn(nd2[p].kids, k) = e BY <2>1, <2>3, <3>3, SlotEquals
      <3>5. nd2[p].kids[e] = nd[p].kids[e] BY <2>3, <3>2, <3>3
      <3>6. at2[0][k] = at[0][k] /\ nd2[at2[0][k]].hi = nd[at[0][k]].hi BY <2>6, <1>1, <1>2, <1>3
      <3>7. QED BY <3>4, <3>5, <3>6, <2>2, <2>3 DEF KidFor, HiFor
    <2>7. QED BY <2>5, <2>6
  <1>13. KidsAt(nd2, h, at2)
    <2> SUFFICES ASSUME NEW m \in 0..h, NEW k \in Places, m < h
                 PROVE  /\ KidFor(nd2, at2[m + 1][k], k) = at2[m][k]
                        /\ nd2[at2[m][k]].hi
                             = HiFor(nd2, at2[m + 1][k], SlotIn(nd2[at2[m + 1][k]].kids, k))
      BY DEF KidsAt
    <2>0. m + 1 \in 0..h /\ m + 1 # 0 /\ m \in Nat BY <1>1
    <2>1. at2[m + 1][k] = at[m + 1][k] /\ at[m + 1][k] \in Pages /\ at[m + 1][k] \notin {n, r}
      BY <2>0, <1>2
    <2>2. CASE at[m + 1][k] = p
      <3>1. m + 1 = 1 BY <2>0, <2>2, <1>2
      <3>2. m = 0 BY <3>1, <2>0
      <3>3. QED BY <2>1, <2>2, <3>1, <3>2, <1>12
    <2>3. CASE at[m + 1][k] # p
      <3>1. nd2[at[m + 1][k]] = nd[at[m + 1][k]] BY <2>1, <2>3, <1>0 DEF MergeInto
      <3>2. at[m][k] \notin {n, r}
        <4> SUFFICES ASSUME at[m][k] \in {n, r} PROVE FALSE OBVIOUS
        <4>1. m = 0 /\ at[1][k] = p BY <1>2
        <4>2. m + 1 = 1 BY <4>1
        <4>3. QED BY <2>3, <4>1, <4>2
      <3>3. at2[m][k] = at[m][k] /\ nd2[at[m][k]].hi = nd[at[m][k]].hi BY <3>2, <1>2, <1>3
      <3>4. QED BY <2>1, <3>1, <3>3, <1>0 DEF Shape, KidsAt, KidFor, HiFor
    <2>4. QED BY <2>2, <2>3
  <1>14. \A x \in Pages : \A j \in nd[x].keys : j \in Nat
    <2>1. \A x \in Pages : nd[x].keys \subseteq Keys BY <1>0 DEF Shape, Records
    <2>2. QED BY <2>1, KeysAssumption
  <1>15. \A k \in Places :
           /\ nd[at[0][k]].next = IF nd[at[0][k]].hi < Top THEN at[0][nd[at[0][k]].hi + 1] ELSE NoPage
           /\ \A j \in nd[at[0][k]].keys : nd[at[0][k]].lo < j /\ j <= nd[at[0][k]].hi
    BY <1>0 DEF Shape, Chained
  <1>16. /\ nd2[n].keys = nd[n].keys \cup nd[r].keys /\ nd2[n].next = nd[r].next
         /\ nd2[n].lo = nd[n].lo /\ nd2[n].hi = rs
    BY <1>0, <1>1 DEF MergeInto
  <1>17. s \in Places BY <1>1
  <1>18. /\ \A j \in nd[n].keys : nd[n].lo < j /\ j <= s
         /\ \A j \in nd[r].keys : s < j /\ j <= rs
         /\ nd[r].next = IF rs < Top THEN at[0][rs + 1] ELSE NoPage
         /\ nd[n].lo < s
    BY <1>1, <1>2, <1>15, <1>17
  <1>19. rs < Top /\ rs + 1 \in Places BY <1>0, <1>1, <1>4 DEF Places
  <1>20. Chained(nd2, at2)
    <2> SUFFICES ASSUME NEW k \in Places
                 PROVE  /\ nd2[at2[0][k]].next = IF nd2[at2[0][k]].hi < Top
                                                 THEN at2[0][nd2[at2[0][k]].hi + 1] ELSE NoPage
                        /\ \A j \in nd2[at2[0][k]].keys : /\ nd2[at2[0][k]].lo < j
                                                          /\ j <= nd2[at2[0][k]].hi
      BY DEF Chained
    <2> DEFINE x == at[0][k]
    <2>1. CASE x \in {n, r}
      <3>1. at2[0][k] = n BY <2>1, <1>1, <1>2
      <3>2. at[0][rs + 1] \notin {n, r} BY <1>1, <1>0, <1>2, <1>19
      <3>3. at2[0][rs + 1] = at[0][rs + 1] BY <3>2, <1>1, <1>2, <1>19
      <3>4. \A j \in nd2[n].keys : nd2[n].lo < j /\ j <= nd2[n].hi
        <4> SUFFICES ASSUME NEW j \in nd2[n].keys PROVE nd[n].lo < j /\ j <= rs BY <1>16
        <4>1. CASE j \in nd[n].keys
          <5>1. j \in Nat BY <4>1, <1>1, <1>14
          <5>2. QED BY <4>1, <5>1, <1>0, <1>1, <1>18
        <4>2. CASE j \in nd[r].keys
          <5>1. j \in Nat BY <4>2, <1>1, <1>14
          <5>2. QED BY <4>2, <5>1, <1>0, <1>1, <1>18
        <4>3. QED BY <4>1, <4>2, <1>16
      <3>5. QED BY <3>1, <3>3, <3>4, <1>16, <1>18, <1>19
    <2>2. CASE x \notin {n, r}
      <3>1. at2[0][k] = x /\ nd2[x].hi = nd[x].hi /\ nd2[x].lo = nd[x].lo /\ x \in Pages
        BY <2>2, <1>1, <1>2, <1>3
      <3>2. nd2[x] = nd[x]
        <4>1. x # p BY <1>1, <1>2
        <4>2. QED BY <2>2, <3>1, <4>1, <1>0 DEF MergeInto
      <3>3. ASSUME nd[x].hi < Top PROVE at2[0][nd[x].hi + 1] = at[0][nd[x].hi + 1]
        <4>1. nd[x].hi \in Places /\ nd[x].hi \in Nat BY <1>0, <1>1, <1>4, AtFacts
        <4>2. nd[x].hi + 1 \in Places BY <3>3, <4>1, <1>4 DEF Places
        <4>3. nd[x].lo < nd[x].hi /\ nd[x].lo \in Nat
          <5>1. nd[x].lo < k /\ k <= nd[x].hi /\ nd[x].lo \in Nat /\ k \in Nat
            BY <1>0, <1>1, <1>4, AtFacts
          <5>2. QED BY <5>1, <4>1
        <4>4. at[0][nd[x].hi] = x BY <4>1, <4>3, <1>0, <1>1 DEF Shape, Fences
        <4>5. at[0][nd[x].hi + 1] # r
          <5> SUFFICES ASSUME at[0][nd[x].hi + 1] = r PROVE FALSE OBVIOUS
          <5>1. s < nd[x].hi + 1 /\ nd[x].hi + 1 <= rs BY <4>2, <1>2
          <5>2. nd[x].hi = s \/ (s < nd[x].hi /\ nd[x].hi <= rs) BY <4>1, <5>1, <1>1
          <5>3. at[0][nd[x].hi] \in {n, r} BY <4>1, <5>2, <1>1, <1>2
          <5>4. QED BY <4>4, <5>3, <2>2
        <4>6. QED
          <5> HIDE DEF x
          <5>1. QED BY <4>2, <4>5, <1>1, <1>2
      <3> HIDE DEF x
      <3>4. /\ nd[x].next = IF nd[x].hi < Top THEN at[0][nd[x].hi + 1] ELSE NoPage
            /\ \A j \in nd[x].keys : nd[x].lo < j /\ j <= nd[x].hi
        BY <1>15 DEF x
      <3>5. QED BY <3>1, <3>2, <3>3, <3>4
    <2>3. QED BY <2>1, <2>2
  <1>21. Shape(nd2, mk, h, at2)
    BY <1>5, <1>6, <1>7, <1>8, <1>9, <1>11, <1>13, <1>20 DEF Shape
  <1>22. ASSUME NEW k \in Places
         PROVE  /\ k \in nd2[at2[0][k]].keys <=> k \in nd[at[0][k]].keys
                /\ at[0][k] \notin {n, r} => at2[0][k] = at[0][k]
    <2>0. k \in Nat BY <1>4
    <2>1. CASE at[0][k] \notin {n, r}
      <3>1. at2[0][k] = at[0][k] /\ at[0][k] \notin {p, n} /\ at[0][k] \in Pages
        BY <2>1, <1>1, <1>2
      <3>2. nd2[at[0][k]] = nd[at[0][k]] BY <3>1, <1>0 DEF MergeInto
      <3>3. QED BY <3>1, <3>2
    <2>2. CASE at[0][k] = n
      <3>1. at2[0][k] = n /\ k <= s BY <2>2, <1>1, <1>2
      <3>2. k \notin nd[r].keys BY <3>1, <2>0, <1>1, <1>18
      <3>3. QED BY <2>2, <3>1, <3>2, <1>16
    <2>3. CASE at[0][k] = r
      <3>1. at2[0][k] = n /\ s < k BY <2>3, <1>1, <1>2
      <3>2. k \notin nd[n].keys BY <3>1, <2>0, <1>1, <1>18
      <3>3. QED BY <2>3, <3>1, <3>2, <1>16
    <2>4. QED BY <2>1, <2>2, <2>3
  <1>23. MergedTree(nd, mk, h, at, nd2, n, r) BY <1>21, <1>22 DEF at2, MergedTree
  <1>24. QED BY <1>23 DEF n, p, r

-------------------------------------------------------------------------------
(* The trees to start with: leaf i has the keys above its left neighbour's   *)
(* greatest one, up to its own.                                             *)
SepOf(leaves, i) == IF i = 0 THEN 0 ELSE IF i = Len(leaves) THEN Top ELSE Max(leaves[i])
LeafIndex(leaves, k) ==
  CHOOSE i \in 1..Len(leaves) : SepOf(leaves, i - 1) < k /\ k <= SepOf(leaves, i)
BuiltHeight(leaves) == IF Len(leaves) = 1 THEN 1 ELSE 2
BuiltAt(leaves) ==
  [l \in 0..BuiltHeight(leaves) |-> [k \in Places |->
     IF l = 0 THEN LeafIndex(leaves, k)
     ELSE IF l = BuiltHeight(leaves) THEN Meta ELSE Len(leaves) + 1]]
BuiltMade(leaves) == IF Len(leaves) = 1 THEN 1 ELSE Len(leaves) + 1

\* The separators of the leaves ascend with them.
LEMMA SepsAscend ==
  ASSUME NEW leaves \in Trees
  PROVE  /\ Len(leaves) \in Nat \ {0} /\ BuiltMade(leaves) \in 1..MaxPages
         /\ Len(leaves) \in 1..MaxPages
         /\ \A i \in 0..Len(leaves) : SepOf(leaves, i) \in 0..Top
         /\ \A i, j \in 0..Len(leaves) : i < j => SepOf(leaves, i) < SepOf(leaves, j)
         /\ \A i \in 1..Len(leaves) : leaves[i] \subseteq Keys
         /\ \A i \in 1..Len(leaves) : \A j \in leaves[i] :
              SepOf(leaves, i - 1) < j /\ j <= SepOf(leaves, i)
  <1> DEFINE N == Len(leaves)
             S(i) == SepOf(leaves, i)
  <1>1. /\ leaves \in Seq(SUBSET Keys) /\ N \in 1..MaxPages /\ (N > 1 => N < MaxPages)
        /\ MaxPages \in Nat
        /\ \A i, j \in 1..N : i < j => leaves[i] # {} /\ \A a \in leaves[i], b \in leaves[j] : a < b
    BY TreesAssumption
  <1>2. N \in Nat \ {0} /\ N \in 1..MaxPages BY <1>1
  <1>3. ASSUME NEW i \in 1..N PROVE leaves[i] \subseteq Keys BY <1>1, <1>3
  <1>4. Top \in Nat /\ Top > 1 /\ \A j \in Keys : j \in Nat /\ 1 <= j /\ j < Top
    BY TopFacts DEF Places
  <1>5. ASSUME NEW i \in 1..N, i < N
        PROVE  Max(leaves[i]) \in leaves[i] /\ \A j \in leaves[i] : j <= Max(leaves[i])
    <2>1. leaves[i] # {} BY <1>1, <1>2, <1>5
    <2>2. leaves[i] \subseteq Nat /\ IsFiniteSet(leaves[i])
      BY <1>3, KeysAssumption, FS_Subset
    <2>3. QED BY <2>1, <2>2, MaxIs
  <1>6. S(0) = 0 /\ S(N) = Top /\ \A i \in 1..N : i < N => S(i) = Max(leaves[i])
    BY <1>2 DEF SepOf
  <1>7. BuiltMade(leaves) \in 1..MaxPages
    <2>1. BuiltMade(leaves) = IF N = 1 THEN 1 ELSE N + 1 BY DEF BuiltMade
    <2> HIDE DEF N
    <2>2. N = 1 \/ N > 1 BY <1>2
    <2>3. QED BY <2>1, <2>2, <1>1
  <1>8. \A i \in 1..N : i < N => S(i) \in leaves[i] /\ \A j \in leaves[i] : j <= S(i)
    BY <1>5, <1>6
  <1> HIDE DEF S, N
  <1>9. ASSUME NEW i \in 0..N PROVE S(i) \in 0..Top
    <2>1. i = 0 \/ i = N \/ (i \in 1..N /\ i < N) BY <1>2
    <2>2. QED BY <2>1, <1>3, <1>4, <1>6, <1>8
  <1>10. ASSUME NEW i \in 0..N, NEW j \in 0..N, i < j PROVE S(i) < S(j)
    <2>1. j \in 1..N /\ j \in Nat /\ i \in Nat BY <1>2, <1>10
    <2>2. CASE i = 0
      <3>1. j = N \/ j < N BY <1>2
      <3>2. QED BY <2>1, <2>2, <3>1, <1>3, <1>4, <1>6, <1>8
    <2>3. CASE i # 0
      <3>1. i \in 1..N /\ i < N BY <1>2, <1>10, <2>1, <2>3
      <3>2. S(i) \in leaves[i] /\ S(i) \in Keys BY <3>1, <1>3, <1>8
      <3>3. CASE j = N BY <3>2, <3>3, <1>4, <1>6
      <3>4. CASE j # N
        <4>1. j < N BY <1>2, <2>1, <3>4
        <4>2. S(j) \in leaves[j] BY <2>1, <4>1, <1>8
        <4>3. QED BY <2>1, <3>1, <3>2, <4>2, <1>1, <1>10
      <3>5. QED BY <3>3, <3>4
    <2>4. QED BY <2>2, <2>3
  <1>11. ASSUME NEW i \in 1..N, NEW j \in leaves[i] PROVE S(i - 1) < j /\ j <= S(i)
    <2>1. j \in Keys /\ i \in Nat BY <1>2, <1>3
    <2>2. j <= S(i)
      <3>1. i = N \/ i < N BY <1>2
      <3>2. QED BY <2>1, <3>1, <1>4, <1>6, <1>8
    <2>3. CASE i = 1 BY <2>1, <2>2, <2>3, <1>4, <1>6
    <2>4. CASE i # 1
      <3>1. i - 1 \in 1..N /\ i - 1 < N /\ i - 1 < i BY <1>2, <2>4
      <3>2. S(i - 1) \in leaves[i - 1] BY <3>1, <1>8
      <3>3. QED BY <2>2, <3>1, <3>2, <1>1
    <2>5. QED BY <2>3, <2>4
  <1>12. QED BY <1>2, <1>3, <1>7, <1>9, <1>10, <1>11 DEF S, N

\* The leaf for a key: the first whose separator is not below the key.
LEMMA LeafIndexIs ==
  ASSUME NEW leaves \in Trees, NEW k \in Places
  PROVE  /\ LeafIndex(leaves, k) \in 1..Len(leaves)
         /\ SepOf(leaves, LeafIndex(leaves, k) - 1) < k /\ k <= SepOf(leaves, LeafIndex(leaves, k))
         /\ \A i \in 1..Len(leaves) : SepOf(leaves, i - 1) < k /\ k <= SepOf(leaves, i)
                                        => i = LeafIndex(leaves, k)
  <1> DEFINE N == Len(leaves)
             S(i) == SepOf(leaves, i)
             B == {i \in 1..N : k <= S(i)}
             x == LeafIndex(leaves, k)
  <1>1. /\ N \in Nat \ {0} /\ \A i \in 0..N : S(i) \in 0..Top
        /\ \A i, j \in 0..N : i < j => S(i) < S(j)
    BY SepsAscend
  <1>2. S(0) = 0 /\ S(N) = Top BY <1>1 DEF SepOf
  <1>3. k \in Nat /\ 0 < k /\ k <= Top /\ Top \in Nat BY TopFacts DEF Places
  <1> HIDE DEF N, S
  <1>4. B \subseteq Nat /\ N \in B BY <1>1, <1>2, <1>3
  <1>5. PICK m \in B : \A n \in B : m <= n
    <2> HIDE DEF B
    <2>1. QED BY <1>4, LeastElement
  <1>6. m \in 1..N /\ S(m - 1) < k /\ k <= S(m)
    <2>1. m \in 1..N /\ k <= S(m) BY <1>5
    <2>2. CASE m = 1 BY <2>1, <2>2, <1>2, <1>3
    <2>3. CASE m # 1
      <3>1. m - 1 \in 1..N /\ m - 1 \in 0..N /\ ~(m <= m - 1) BY <1>1, <2>1, <2>3
      <3>2. ~(k <= S(m - 1)) BY <3>1, <1>5
      <3>3. QED BY <2>1, <3>1, <3>2, <1>1, <1>3
    <2>4. QED BY <2>2, <2>3
  <1>7. x \in 1..N /\ S(x - 1) < k /\ k <= S(x) BY <1>6 DEF LeafIndex, N, S
  <1> HIDE DEF x, B
  <1>8. ASSUME NEW i \in 1..N, S(i - 1) < k, k <= S(i) PROVE i = x
    <2>1. /\ i \in 0..N /\ x \in 0..N /\ i - 1 \in 0..N /\ x - 1 \in 0..N
          /\ i \in Nat /\ x \in Nat
      BY <1>1, <1>7
    <2>2. S(i) \in Nat /\ S(x) \in Nat /\ S(i - 1) \in Nat /\ S(x - 1) \in Nat
      <3>1. S(i) \in 0..Top /\ S(x) \in 0..Top /\ S(i - 1) \in 0..Top /\ S(x - 1) \in 0..Top
        BY <1>1, <2>1
      <3>2. QED BY <3>1, <1>3
    <2>3. CASE i < x
      <3>1. i = x - 1 \/ i < x - 1 BY <2>1, <2>3
      <3>2. S(i) <= S(x - 1)
        <4>1. CASE i = x - 1 BY <4>1, <2>2
        <4>2. CASE i < x - 1 BY <4>2, <1>1, <2>1, <2>2
        <4>3. QED BY <3>1, <4>1, <4>2
      <3>3. QED BY <3>2, <2>2, <1>7, <1>8, <1>3
    <2>4. CASE x < i
      <3>1. x = i - 1 \/ x < i - 1 BY <2>1, <2>4
      <3>2. S(x) <= S(i - 1)
        <4>1. CASE x = i - 1 BY <4>1, <2>2
        <4>2. CASE x < i - 1 BY <4>2, <1>1, <2>1, <2>2
        <4>3. QED BY <3>1, <4>1, <4>2
      <3>3. QED BY <3>2, <2>2, <1>7, <1>8, <1>3
    <2>5. QED BY <2>1, <2>3, <2>4
  <1>9. QED BY <1>7, <1>8 DEF x, N, S

LEMMA BuildIs ==
  ASSUME NEW leaves \in Trees
  PROVE  LET nd == Build(leaves)
             N == Len(leaves)
             S(i) == SepOf(leaves, i)
         IN /\ nd = [p \in Pages |-> nd[p]]
            /\ N \in Nat \ {0} /\ N \in Pages /\ (N > 1 => N + 1 \in Pages)
            /\ nd[Meta] = InnerNode([s \in {Top} |-> IF N = 1 THEN 1 ELSE N + 1], 0, Top)
            /\ \A i \in 1..N : i \in Pages /\
                 nd[i] = LeafNode(leaves[i], S(i - 1), S(i), IF i = N THEN NoPage ELSE i + 1)
            /\ N > 1 => nd[N + 1] = InnerNode([s \in {S(i) : i \in 1..N} |->
                                                 CHOOSE i \in 1..N : S(i) = s], 0, Top)
            /\ \A p \in Pages : p # Meta /\ p \notin 1..N /\ ~(N > 1 /\ p = N + 1)
                                  => nd[p] = LeafNode({}, 0, 0, NoPage)
  <1> DEFINE nd == Build(leaves)
             N == Len(leaves)
             S(i) == SepOf(leaves, i)
             Root == IF N = 1 THEN 1 ELSE N + 1
  <1>1. nd = [p \in Pages |->
        IF p = Meta THEN InnerNode([s \in {Top} |-> Root], 0, Top)
        ELSE IF p \in 1..N
          THEN LeafNode(leaves[p], S(p - 1), S(p), IF p = N THEN NoPage ELSE p + 1)
        ELSE IF p = Root
          THEN InnerNode([s \in {S(i) : i \in 1..N} |-> CHOOSE i \in 1..N : S(i) = s], 0, Top)
        ELSE LeafNode({}, 0, 0, NoPage)]
    BY DEF Build, SepOf
  <1>2. N \in Nat \ {0} /\ N \in 1..MaxPages /\ BuiltMade(leaves) \in 1..MaxPages
    BY SepsAscend
  <1>3. /\ N \in Pages /\ (N > 1 => N + 1 \in Pages) /\ Meta \in Pages /\ Meta = 0
        /\ \A i \in 1..N : i \in Pages
    <2>1. BuiltMade(leaves) = IF N = 1 THEN 1 ELSE N + 1 BY DEF BuiltMade
    <2> HIDE DEF N
    <2>2. N > 1 => N + 1 \in 1..MaxPages BY <1>2, <2>1
    <2>3. QED BY <1>2, <2>2, PagesFacts DEF Meta
  <1>4. Root = (IF N = 1 THEN 1 ELSE N + 1) OBVIOUS
  <1> HIDE DEF nd, N, S, Root
  <1>5. nd[Meta] = InnerNode([s \in {Top} |-> Root], 0, Top) BY <1>1, <1>3
  <1>6. ASSUME NEW i \in 1..N
        PROVE  nd[i] = LeafNode(leaves[i], S(i - 1), S(i), IF i = N THEN NoPage ELSE i + 1)
    <2>1. i \in Pages /\ i # Meta BY <1>2, <1>3
    <2>2. QED BY <2>1, <1>1
  <1>7. ASSUME N > 1
        PROVE  nd[N + 1] = InnerNode([s \in {S(i) : i \in 1..N} |-> CHOOSE i \in 1..N : S(i) = s], 0, Top)
    <2>1. N + 1 \in Pages /\ N + 1 # Meta /\ N + 1 \notin 1..N /\ Root = N + 1
      BY <1>2, <1>3, <1>4, <1>7
    <2>2. QED BY <2>1, <1>1
  <1>8. ASSUME NEW p \in Pages, p # Meta, p \notin 1..N, ~(N > 1 /\ p = N + 1)
        PROVE  nd[p] = LeafNode({}, 0, 0, NoPage)
    <2>1. p # Root
      <3>1. N = 1 \/ N > 1 BY <1>2
      <3>2. QED BY <3>1, <1>2, <1>4, <1>8
    <2>2. QED BY <2>1, <1>1, <1>8
  <1>9. nd = [p \in Pages |-> nd[p]] BY <1>1
  <1>10. QED BY <1>2, <1>3, <1>4, <1>5, <1>6, <1>7, <1>8, <1>9 DEF nd, N, S, Root

\* Every tree of Trees has the shape, in the pages that Build gives it.
LEMMA BuildShape ==
  ASSUME NEW leaves \in Trees
  PROVE  Shape(Build(leaves), BuiltMade(leaves), BuiltHeight(leaves), BuiltAt(leaves))
  <1> DEFINE nd == Build(leaves)
             N == Len(leaves)
             S(i) == SepOf(leaves, i)
             h == BuiltHeight(leaves)
             at == BuiltAt(leaves)
             mk == BuiltMade(leaves)
             x(k) == LeafIndex(leaves, k)
  <1>1. /\ nd = [p \in Pages |-> nd[p]]
        /\ N \in Nat \ {0} /\ N \in Pages /\ (N > 1 => N + 1 \in Pages)
        /\ nd[Meta] = InnerNode([s \in {Top} |-> IF N = 1 THEN 1 ELSE N + 1], 0, Top)
        /\ \A i \in 1..N : i \in Pages /\
             nd[i] = LeafNode(leaves[i], S(i - 1), S(i), IF i = N THEN NoPage ELSE i + 1)
        /\ N > 1 => nd[N + 1] = InnerNode([s \in {S(i) : i \in 1..N} |->
                                             CHOOSE i \in 1..N : S(i) = s], 0, Top)
        /\ \A p \in Pages : p # Meta /\ p \notin 1..N /\ ~(N > 1 /\ p = N + 1)
                              => nd[p] = LeafNode({}, 0, 0, NoPage)
    BY BuildIs
  <1>2. /\ \A i \in 0..N : S(i) \in 0..Top
        /\ \A i, j \in 0..N : i < j => S(i) < S(j)
        /\ \A i \in 1..N : leaves[i] \subseteq Keys
        /\ \A i \in 1..N : \A j \in leaves[i] : S(i - 1) < j /\ j <= S(i)
        /\ mk \in 1..MaxPages
    BY SepsAscend
  <1>3. S(0) = 0 /\ S(N) = Top BY <1>1 DEF SepOf
  <1>4. /\ mk = (IF N = 1 THEN 1 ELSE N + 1) /\ h = (IF N = 1 THEN 1 ELSE 2)
        /\ at = [l \in 0..h |-> [k \in Places |->
                   IF l = 0 THEN x(k) ELSE IF l = h THEN Meta ELSE N + 1]]
    BY DEF BuiltMade, BuiltHeight, BuiltAt
  <1>5. \A k \in Places : /\ x(k) \in 1..N /\ S(x(k) - 1) < k /\ k <= S(x(k))
                          /\ \A i \in 1..N : S(i - 1) < k /\ k <= S(i) => i = x(k)
    BY LeafIndexIs
  <1> HIDE DEF nd, N, S, h, at, mk, x
  <1>6. /\ Top \in Nat /\ Top > 1 /\ Top \in Places /\ \A k \in Places : k \in Nat /\ 0 < k /\ k <= Top
        /\ MaxPages \in Nat /\ Pages = 0..MaxPages /\ NoPage \notin Pages /\ Meta \in Pages /\ Meta = 0
    BY TopFacts, PagesFacts DEF Places, Meta
  <1>7. /\ ~nd[Meta].leaf /\ nd[Meta].keys = {} /\ nd[Meta].lo = 0 /\ nd[Meta].hi = Top
        /\ nd[Meta].kids = [s \in {Top} |-> IF N = 1 THEN 1 ELSE N + 1]
        /\ nd[Meta].next = NoPage /\ IsNode(nd[Meta]) /\ nd[Meta].leaf \in BOOLEAN
    <2> DEFINE kd == [s \in {Top} |-> IF N = 1 THEN 1 ELSE N + 1]
    <2>1. nd[Meta] = InnerNode(kd, 0, Top) BY <1>1
    <2> HIDE DEF kd
    <2>2. /\ nd[Meta].leaf = FALSE /\ nd[Meta].keys = {} /\ nd[Meta].lo = 0 /\ nd[Meta].hi = Top
          /\ nd[Meta].kids = kd /\ nd[Meta].next = NoPage /\ IsNode(nd[Meta])
      BY <2>1 DEF InnerNode, IsNode
    <2>3. QED BY <2>2 DEF kd
  <1>8. ASSUME N > 1
        PROVE  /\ ~nd[N + 1].leaf /\ nd[N + 1].keys = {} /\ nd[N + 1].lo = 0 /\ nd[N + 1].hi = Top
               /\ nd[N + 1].kids = [s \in {S(i) : i \in 1..N} |-> CHOOSE i \in 1..N : S(i) = s]
               /\ nd[N + 1].next = NoPage /\ IsNode(nd[N + 1]) /\ nd[N + 1].leaf \in BOOLEAN
    <2> DEFINE kd == [s \in {S(i) : i \in 1..N} |-> CHOOSE i \in 1..N : S(i) = s]
    <2>1. nd[N + 1] = InnerNode(kd, 0, Top) BY <1>1, <1>8
    <2> HIDE DEF kd
    <2>2. /\ nd[N + 1].leaf = FALSE /\ nd[N + 1].keys = {} /\ nd[N + 1].lo = 0
          /\ nd[N + 1].hi = Top /\ nd[N + 1].kids = kd /\ nd[N + 1].next = NoPage
          /\ IsNode(nd[N + 1])
      BY <2>1 DEF InnerNode, IsNode
    <2>3. QED BY <2>2 DEF kd
  <1>9. ASSUME NEW i \in 1..N
        PROVE  /\ nd[i].leaf = TRUE /\ nd[i].keys = leaves[i] /\ nd[i].lo = S(i - 1)
               /\ nd[i].hi = S(i) /\ nd[i].next = (IF i = N THEN NoPage ELSE i + 1) /\ IsNode(nd[i])
               /\ i \in Nat /\ 1 <= i /\ i <= N /\ i - 1 \in 0..N /\ i \in 0..N
    <2>1. nd[i] = LeafNode(leaves[i], S(i - 1), S(i), IF i = N THEN NoPage ELSE i + 1) BY <1>1
    <2>2. i \in Nat /\ 1 <= i /\ i <= N /\ i - 1 \in 0..N /\ i \in 0..N BY <1>1
    <2> DEFINE nx == IF i = N THEN NoPage ELSE i + 1
    <2>3. nd[i] = LeafNode(leaves[i], S(i - 1), S(i), nx) BY <2>1
    <2> HIDE DEF nx
    <2>4. /\ nd[i].leaf = TRUE /\ nd[i].keys = leaves[i] /\ nd[i].lo = S(i - 1)
          /\ nd[i].hi = S(i) /\ nd[i].next = nx /\ IsNode(nd[i])
      BY <2>3 DEF LeafNode, IsNode
    <2>5. QED BY <2>2, <2>4 DEF nx
  <1>10. ASSUME NEW p \in Pages, p # Meta, p \notin 1..N, ~(N > 1 /\ p = N + 1)
         PROVE  /\ nd[p].leaf = TRUE /\ nd[p].keys = {} /\ nd[p].lo = 0 /\ nd[p].hi = 0
                /\ nd[p].next = NoPage /\ IsNode(nd[p])
    <2>1. nd[p] = LeafNode({}, 0, 0, NoPage) BY <1>1, <1>10
    <2>2. QED BY <2>1 DEF LeafNode, IsNode
  <1>11. /\ h \in Nat \ {0} /\ 0 \in 0..h /\ h \in 0..h /\ mk \in Nat /\ mk \in Pages
         /\ \A l \in 0..h : l = 0 \/ l = h \/ (l = 1 /\ N > 1 /\ h = 2)
         /\ N = 1 \/ N > 1
    BY <1>1, <1>2, <1>4, <1>6
  <1>12. \A k \in Places : /\ at[0][k] = x(k) /\ at[h][k] = Meta
                           /\ N > 1 => h = 2 /\ at[1][k] = N + 1
    BY <1>4, <1>11
  <1>13. ASSUME NEW i \in 1..N PROVE i <= mk /\ (i < N => i + 1 \in 1..mk /\ N > 1)
    BY <1>1, <1>4, <1>9, <1>11
  <1>14. Records(nd, mk)
    <2> SUFFICES ASSUME NEW p \in Pages
                 PROVE  /\ IsNode(nd[p]) /\ nd[p].leaf \in BOOLEAN
                        /\ nd[p].keys \subseteq Keys /\ nd[p].next \in (1..mk) \cup {NoPage}
                        /\ nd[p].lo \in 0..Top /\ nd[p].hi \in 0..Top
      BY <1>1, <1>11 DEF Records
    <2>1. 0 \in 0..Top /\ Top \in 0..Top BY <1>6
    <2>2. CASE p = Meta BY <2>1, <2>2, <1>7
    <2>3. CASE p \in 1..N
      <3>1. nd[p].next \in (1..mk) \cup {NoPage}
        <4>1. p = N \/ p < N BY <1>9, <2>3, <1>1
        <4>2. QED BY <4>1, <2>3, <1>9, <1>13
      <3>2. QED BY <3>1, <2>3, <1>2, <1>9
    <2>4. CASE N > 1 /\ p = N + 1 BY <2>1, <2>4, <1>8
    <2>5. CASE p # Meta /\ p \notin 1..N /\ ~(N > 1 /\ p = N + 1) BY <2>1, <2>5, <1>10
    <2>6. QED BY <2>2, <2>3, <2>4, <2>5
  <1>15. Levels(mk, h, at)
    <2>1. at \in [0..h -> [Places -> Pages]]
      <3>1. \A k \in Places : x(k) \in Pages BY <1>1, <1>5
      <3>2. \A l \in 0..h : l # 0 /\ l # h => N + 1 \in Pages BY <1>1, <1>11
      <3>3. QED BY <3>1, <3>2, <1>4, <1>6
    <2>2. \A l \in 0..h, k \in Places : l < h => at[l][k] \in 1..mk
      <3> SUFFICES ASSUME NEW l \in 0..h, NEW k \in Places, l < h PROVE at[l][k] \in 1..mk OBVIOUS
      <3>1. CASE l = 0 BY <3>1, <1>5, <1>12, <1>13, <1>9, <1>11
      <3>2. CASE l # 0
        <4>1. l = 1 /\ N > 1 /\ mk = N + 1 BY <3>2, <1>4, <1>11
        <4>2. QED BY <4>1, <1>1, <1>12
      <3>3. QED BY <3>1, <3>2
    <2>3. ASSUME NEW l \in 0..h, NEW m \in 0..h, NEW j \in Places, NEW k \in Places,
                 at[l][j] = at[m][k]
          PROVE  l = m
      <3>1. x(j) \in 1..N /\ x(k) \in 1..N BY <1>5
      <3>2. x(j) # Meta /\ x(k) # Meta /\ x(j) # N + 1 /\ x(k) # N + 1 /\ N + 1 # Meta
        BY <3>1, <1>1, <1>6
      <3>3. QED BY <3>2, <2>3, <1>11, <1>12
    <2>4. QED BY <2>1, <2>2, <2>3, <1>11, <1>12 DEF Levels
  <1>16. Fences(nd, h, at)
    <2>1. ASSUME NEW l \in 0..h, NEW k \in Places
          PROVE  /\ nd[at[l][k]].lo < k /\ k <= nd[at[l][k]].hi
                 /\ \A j \in Places : nd[at[l][k]].lo < j /\ j <= nd[at[l][k]].hi
                                        => at[l][j] = at[l][k]
      <3>1. CASE l = 0
        <4>1. x(k) \in 1..N /\ S(x(k) - 1) < k /\ k <= S(x(k)) BY <1>5
        <4>2. nd[x(k)].lo = S(x(k) - 1) /\ nd[x(k)].hi = S(x(k)) BY <4>1, <1>9
        <4>3. ASSUME NEW j \in Places, S(x(k) - 1) < j, j <= S(x(k)) PROVE x(j) = x(k)
          BY <4>1, <4>3, <1>5
        <4>4. QED BY <3>1, <4>1, <4>2, <4>3, <1>12
      <3>2. CASE l = h BY <3>2, <1>6, <1>7, <1>12
      <3>3. CASE l = 1 /\ N > 1 /\ h = 2 BY <3>3, <1>6, <1>8, <1>12
      <3>4. QED BY <3>1, <3>2, <3>3, <1>11
    <2>2. QED BY <2>1 DEF Fences
  <1>17. Nested(h, at)
    <2> SUFFICES ASSUME NEW l \in 0..h, NEW j \in Places, NEW k \in Places, l < h
                 PROVE  at[l + 1][j] = at[l + 1][k]
      BY DEF Nested
    <2>1. l + 1 = h \/ (l + 1 = 1 /\ N > 1) BY <1>11
    <2>2. QED BY <2>1, <1>12
  <1>18. Kinds(nd, h, at)
    <2>1. ASSUME NEW l \in 0..h, NEW k \in Places PROVE nd[at[l][k]].leaf <=> l = 0
      <3>1. CASE l = 0 BY <3>1, <1>5, <1>9, <1>12
      <3>2. CASE l = h BY <3>2, <1>7, <1>11, <1>12
      <3>3. CASE l = 1 /\ N > 1 /\ h = 2 BY <3>3, <1>8, <1>12
      <3>4. QED BY <3>1, <3>2, <3>3, <1>11
    <2>2. ASSUME NEW p \in Pages, ~nd[p].leaf PROVE \E l \in 0..h, k \in Places : p = at[l][k]
      <3>1. p = Meta \/ (N > 1 /\ p = N + 1) BY <2>2, <1>9, <1>10
      <3>2. CASE p = Meta
        <4>1. h \in 0..h /\ Top \in Places /\ p = at[h][Top] BY <3>2, <1>6, <1>11, <1>12
        <4>2. QED BY <4>1
      <3>3. CASE N > 1 /\ p = N + 1
        <4>1. 1 \in 0..h /\ Top \in Places /\ p = at[1][Top] BY <3>3, <1>6, <1>11, <1>12
        <4>2. QED BY <4>1
      <3>4. QED BY <3>1, <3>2, <3>3
    <2>3. QED BY <2>1, <2>2 DEF Kinds
  <1>19. Slots(nd)
    <2> SUFFICES ASSUME NEW p \in Pages, ~nd[p].leaf
                 PROVE  /\ nd[p].kids = [s \in DOMAIN nd[p].kids |-> nd[p].kids[s]]
                        /\ DOMAIN nd[p].kids \subseteq Places /\ Top \in DOMAIN nd[p].kids
                        /\ \A s \in DOMAIN nd[p].kids : s # Top => nd[p].lo < s /\ s < nd[p].hi
                        /\ p = Meta => DOMAIN nd[p].kids = {Top}
      BY DEF Slots
    <2>1. CASE p = Meta BY <2>1, <1>6, <1>7
    <2>2. CASE N > 1 /\ p = N + 1
      <3>1. DOMAIN nd[p].kids = {S(i) : i \in 1..N} /\ p # Meta BY <2>2, <1>1, <1>6, <1>8
      <3>2. \A i \in 1..N : S(i) \in Places
        <4> SUFFICES ASSUME NEW i \in 1..N PROVE S(i) \in Places OBVIOUS
        <4>1. 0 \in 0..N /\ i \in 0..N /\ 0 < i BY <1>1, <1>9
        <4>2. S(0) < S(i) /\ S(i) \in 0..Top BY <4>1, <1>2
        <4>3. QED BY <4>2, <1>3, <1>6 DEF Places
      <3>3. Top \in DOMAIN nd[p].kids BY <3>1, <1>1, <1>3
      <3>4. \A s \in DOMAIN nd[p].kids : s # Top => 0 < s /\ s < Top
        BY <3>1, <3>2, <1>6 DEF Places
      <3>5. nd[p].kids = [s \in DOMAIN nd[p].kids |-> nd[p].kids[s]] BY <2>2, <1>8
      <3>6. QED BY <3>1, <3>2, <3>3, <3>4, <3>5, <2>2, <1>8
    <2>3. QED BY <2>1, <2>2, <1>9, <1>10
  <1>20. KidsAt(nd, h, at)
    <2> SUFFICES ASSUME NEW l \in 0..h, NEW k \in Places, l < h
                 PROVE  /\ KidFor(nd, at[l + 1][k], k) = at[l][k]
                        /\ nd[at[l][k]].hi =
                             HiFor(nd, at[l + 1][k], SlotIn(nd[at[l + 1][k]].kids, k))
      BY DEF KidsAt
    <2>1. CASE l + 1 = h
      <3>1. SlotIn(nd[Meta].kids, k) = Top
        <4>1. DOMAIN nd[Meta].kids = {Top} BY <1>7
        <4>2. /\ DOMAIN nd[Meta].kids \subseteq Places /\ Top \in DOMAIN nd[Meta].kids /\ Top >= k
              /\ \A s \in DOMAIN nd[Meta].kids : s >= k => Top <= s
          BY <4>1, <1>6
        <4>3. QED BY <4>2, SlotEquals
      <3>2. at[l + 1][k] = Meta /\ KidFor(nd, Meta, k) = IF N = 1 THEN 1 ELSE N + 1
        BY <2>1, <3>1, <1>7, <1>12 DEF KidFor
      <3>3. HiFor(nd, Meta, Top) = Top BY <1>7 DEF HiFor
      <3>4. CASE N = 1
        <4>1. l = 0 /\ x(k) = 1 BY <2>1, <3>4, <1>4, <1>5
        <4>2. nd[1].hi = Top BY <3>4, <1>3, <1>9
        <4>3. QED BY <4>1, <4>2, <3>1, <3>2, <3>3, <3>4, <1>12
      <3>5. CASE N > 1
        <4>1. l = 1 /\ N # 1 BY <2>1, <3>5, <1>1, <1>4
        <4>2. QED BY <4>1, <3>1, <3>2, <3>3, <3>5, <1>8, <1>12
      <3>6. QED BY <3>4, <3>5, <1>11
    <2>2. CASE l + 1 # h
      <3>1. l = 0 /\ N > 1 /\ h = 2 /\ at[l + 1][k] = N + 1 /\ at[l][k] = x(k)
        BY <2>2, <1>11, <1>12
      <3> DEFINE i == x(k)
                 r == N + 1
      <3>2. i \in 1..N /\ S(i - 1) < k /\ k <= S(i) /\ i \in 0..N /\ i - 1 \in 0..N /\ i \in Nat
        BY <1>5, <1>9
      <3>3. /\ DOMAIN nd[r].kids = {S(m) : m \in 1..N} /\ S(i) \in DOMAIN nd[r].kids
            /\ r \in Pages /\ ~nd[r].leaf
        BY <3>1, <3>2, <1>1, <1>8
      <3>4. DOMAIN nd[r].kids \subseteq Places BY <3>3, <1>19 DEF Slots
      <3> HIDE DEF i, r
      <3>5. \A m \in 1..N : S(m) >= k => S(i) <= S(m)
        <4> SUFFICES ASSUME NEW m \in 1..N, S(m) >= k PROVE S(i) <= S(m) OBVIOUS
        <4>1. m \in 0..N /\ m \in Nat BY <1>9
        <4>2. S(m) \in Nat /\ S(i) \in Nat /\ S(i - 1) \in Nat
          <5>1. S(m) \in 0..Top /\ S(i) \in 0..Top /\ S(i - 1) \in 0..Top BY <3>2, <4>1, <1>2
          <5>2. QED BY <5>1
        <4>3. CASE m < i
          <5>1. m = i - 1 \/ m < i - 1 BY <4>1, <4>3, <3>2
          <5>2. S(m) <= S(i - 1) BY <5>1, <4>1, <4>2, <3>2, <1>2
          <5>3. QED BY <5>2, <4>2, <3>2, <1>6
        <4>4. CASE m = i BY <4>2, <4>4
        <4>5. CASE i < m BY <4>1, <4>2, <4>5, <3>2, <1>2
        <4>6. QED BY <4>1, <4>3, <4>4, <4>5, <3>2
      <3>6. SlotIn(nd[r].kids, k) = S(i)
        <4>1. \A s \in DOMAIN nd[r].kids : s >= k => S(i) <= s BY <3>3, <3>5
        <4>2. QED BY <4>1, <3>2, <3>3, <3>4, SlotEquals
      <3>7. (CHOOSE m \in 1..N : S(m) = S(i)) = i
        <4>1. ASSUME NEW m \in 1..N, S(m) = S(i) PROVE m = i
          <5>1. m \in 0..N /\ m \in Nat BY <1>9
          <5>2. S(i) \in 0..Top BY <3>2, <1>2
          <5>3. QED BY <5>1, <5>2, <4>1, <3>2, <1>2, <1>6
        <4>2. QED BY <4>1, <3>2
      <3>8. KidFor(nd, r, k) = i
        <4>1. nd[r].kids[S(i)] = i BY <3>1, <3>2, <3>7, <1>8 DEF r
        <4>2. QED BY <4>1, <3>6 DEF KidFor
      <3>9. nd[i].hi = S(i) /\ HiFor(nd, r, S(i)) = S(i)
        <4>1. nd[r].hi = Top BY <3>1, <1>8 DEF r
        <4>2. QED BY <4>1, <3>2, <1>9 DEF HiFor
      <3>10. QED BY <3>1, <3>6, <3>8, <3>9 DEF i, r
    <2>3. QED BY <2>1, <2>2
  <1>21. Chained(nd, at)
    <2> SUFFICES ASSUME NEW k \in Places
                 PROVE  /\ nd[at[0][k]].next = IF nd[at[0][k]].hi < Top
                                               THEN at[0][nd[at[0][k]].hi + 1] ELSE NoPage
                        /\ \A j \in nd[at[0][k]].keys : nd[at[0][k]].lo < j /\ j <= nd[at[0][k]].hi
      BY DEF Chained
    <2> DEFINE i == x(k)
    <2>1. /\ at[0][k] = i /\ i \in 1..N /\ nd[i].keys = leaves[i] /\ nd[i].lo = S(i - 1)
          /\ nd[i].hi = S(i) /\ nd[i].next = (IF i = N THEN NoPage ELSE i + 1)
          /\ i \in Nat /\ i \in 0..N /\ i <= N
      BY <1>5, <1>9, <1>12
    <2> HIDE DEF i
    <2>2. \A j \in leaves[i] : S(i - 1) < j /\ j <= S(i) BY <2>1, <1>2
    <2>3. CASE i = N BY <2>1, <2>2, <2>3, <1>3, <1>6
    <2>4. CASE i # N
      <3>1. i < N /\ N \in 0..N /\ i + 1 \in 1..N /\ i + 1 \in 0..N /\ i < i + 1 /\ (i + 1) - 1 = i
        BY <2>1, <2>4, <1>1
      <3>2. /\ S(i) < Top /\ S(i) \in Nat /\ S(i) + 1 \in Places
            /\ S(i + 1) \in Nat /\ S(i) < S(i + 1)
        <4>1. S(i) < S(N) /\ S(i) \in 0..Top /\ S(i + 1) \in 0..Top /\ S(i) < S(i + 1)
          BY <2>1, <3>1, <1>2
        <4>2. QED BY <4>1, <1>3, <1>6 DEF Places
      <3>3. S((i + 1) - 1) < S(i) + 1 /\ S(i) + 1 <= S(i + 1) BY <3>1, <3>2
      <3>4. i + 1 = x(S(i) + 1) BY <3>1, <3>2, <3>3, <1>5
      <3>5. at[0][S(i) + 1] = i + 1 BY <3>2, <3>4, <1>12
      <3>6. QED BY <2>1, <2>2, <2>4, <3>2, <3>5
    <2>5. QED BY <2>3, <2>4
  <1>22. Shape(nd, mk, h, at)
    BY <1>14, <1>15, <1>16, <1>17, <1>18, <1>19, <1>20, <1>21 DEF Shape
  <1>23. QED BY <1>22 DEF nd, mk, h, at

-------------------------------------------------------------------------------
(* What a page tells of where keys are, without the levels.                 *)
Tree(nd, mk) == \E h, at : Shape(nd, mk, h, at)
EndOf(nd, k) == DownOf(nd, k)[Meta]

LEMMA EndsAt ==
  ASSUME NEW nd, NEW mk, NEW h, NEW at, Shape(nd, mk, h, at)
  PROVE  \A k \in Places : EndOf(nd, k) = at[0][k]
  BY DescentEnds DEF EndOf

\* The leaf at which the descent for k ends.
LEMMA EndFacts ==
  ASSUME NEW nd, NEW mk, Tree(nd, mk), NEW k \in Places
  PROVE  LET n == EndOf(nd, k)
         IN /\ n \in 1..mk /\ n \in Pages /\ nd[n].leaf
            /\ nd[n].lo \in 0..Top /\ nd[n].hi \in Places /\ nd[n].lo < k /\ k <= nd[n].hi
            /\ nd[n].keys \subseteq Keys
            /\ \A j \in nd[n].keys : nd[n].lo < j /\ j <= nd[n].hi
            /\ \A j \in Places : nd[n].lo < j /\ j <= nd[n].hi => EndOf(nd, j) = n
            /\ nd[n].next = IF nd[n].hi < Top THEN EndOf(nd, nd[n].hi + 1) ELSE NoPage
            /\ nd[n].hi < Top => nd[n].hi + 1 \in Places
  <1>1. PICK h, at : Shape(nd, mk, h, at) BY DEF Tree
  <1> DEFINE n == at[0][k]
  <1>2. EndOf(nd, k) = n /\ \A j \in Places : EndOf(nd, j) = at[0][j] BY <1>1, EndsAt
  <1>3. /\ 0 \in 0..h /\ 0 < h /\ n \in 1..mk BY <1>1 DEF Shape, Levels
  <1>4. /\ n \in Pages /\ nd[n].lo \in 0..Top /\ nd[n].hi \in Places
        /\ nd[n].lo < k /\ k <= nd[n].hi
    BY <1>1, <1>3, AtFacts
  <1>5. nd[n].leaf BY <1>1, <1>3 DEF Shape, Kinds
  <1>6. nd[n].keys \subseteq Keys BY <1>1, <1>4 DEF Shape, Records
  <1>7. \A j \in Places : nd[n].lo < j /\ j <= nd[n].hi => at[0][j] = n
    BY <1>1, <1>3 DEF Shape, Fences
  <1>8. /\ nd[n].next = IF nd[n].hi < Top THEN at[0][nd[n].hi + 1] ELSE NoPage
        /\ \A j \in nd[n].keys : nd[n].lo < j /\ j <= nd[n].hi
    BY <1>1 DEF Shape, Chained
  <1> HIDE DEF n
  <1>9. nd[n].hi < Top => nd[n].hi + 1 \in Places BY <1>4, TopFacts DEF Places
  <1>10. QED BY <1>2, <1>3, <1>4, <1>5, <1>6, <1>7, <1>8, <1>9

LEMMA RootFacts ==
  ASSUME NEW nd, NEW mk, Tree(nd, mk)
  PROVE  /\ ~nd[Meta].leaf /\ nd[Meta].lo = 0 /\ nd[Meta].hi = Top /\ mk \in Nat /\ mk \in Pages
         /\ Meta \in 0..mk
  <1>1. PICK h, at : Shape(nd, mk, h, at) BY DEF Tree
  <1>2. mk \in Nat /\ mk \in Pages BY <1>1, PagesFacts DEF Shape, Records
  <1>3. QED BY <1>1, <1>2, RootChild DEF Meta

\* The child that an inner page has for a key between its fences.
LEMMA ChildAt ==
  ASSUME NEW nd, NEW mk, NEW h, NEW at, Shape(nd, mk, h, at), NEW n \in Pages, ~nd[n].leaf,
         NEW k \in Places, nd[n].lo < k, k <= nd[n].hi
  PROVE  \E l \in 0..h : l < h /\ at[l + 1][k] = n /\ KidFor(nd, n, k) = at[l][k]
  <1>1. PICK m \in 0..h, j \in Places : n = at[m][j] BY DEF Shape, Kinds
  <1>2. h \in Nat /\ m # 0 BY <1>1, AtFacts DEF Shape, Kinds
  <1>3. PICK l \in 0..h : l < h /\ l + 1 = m BY <1>2
  <1>4. at[l + 1][k] = n BY <1>1, <1>3 DEF Shape, Fences
  <1>5. KidFor(nd, n, k) = at[l][k] BY <1>3, <1>4 DEF Shape, KidsAt
  <1>6. QED BY <1>3, <1>4, <1>5

\* The child that a descent goes on to, and that a leaf is where it ends.
LEMMA ChildFacts ==
  ASSUME NEW nd, NEW mk, Tree(nd, mk), NEW n \in Pages, ~nd[n].leaf,
         NEW k \in Places, nd[n].lo < k, k <= nd[n].hi
  PROVE  LET c == KidFor(nd, n, k)
         IN /\ c \in 1..mk /\ c \in Pages /\ c # n
            /\ nd[c].lo < k /\ k <= nd[c].hi
            /\ nd[c].leaf => c = EndOf(nd, k)
  <1>1. PICK h, at : Shape(nd, mk, h, at) BY DEF Tree
  <1>2. PICK l \in 0..h : l < h /\ at[l + 1][k] = n /\ KidFor(nd, n, k) = at[l][k]
    BY <1>1, ChildAt
  <1>3. at[l][k] \in 1..mk BY <1>1, <1>2 DEF Shape, Levels
  <1>4. at[l][k] \in Pages /\ nd[at[l][k]].lo < k /\ k <= nd[at[l][k]].hi BY <1>1, AtFacts
  <1>5. nd[at[l][k]].leaf => l = 0 BY <1>1 DEF Shape, Kinds
  <1>6. at[l][k] # n
    <2>1. h \in Nat /\ l + 1 \in 0..h /\ l # l + 1 BY <1>1, <1>2 DEF Shape, Levels
    <2>2. QED BY <1>1, <1>2, <2>1 DEF Shape, Levels
  <1>7. QED BY <1>1, <1>2, <1>3, <1>4, <1>5, <1>6, EndsAt

-------------------------------------------------------------------------------
(* What a step may do to the tree that other threads see: pages outside C   *)
(* keep their contents, descents that ended outside C end there still, a    *)
(* page never turns from a leaf into an inner node or back, and the keys    *)
(* gone and come are all the difference.                                    *)
Effect(nd, mk, nd2, mk2, C, gone, come) ==
  /\ Tree(nd, mk) /\ Tree(nd2, mk2) /\ mk <= mk2
  /\ \A p \in 0..mk : p \notin C => nd2[p] = nd[p]
  /\ \A p \in 0..mk : nd2[p].leaf <=> nd[p].leaf
  /\ \A k \in Places : EndOf(nd, k) \notin C => EndOf(nd2, k) = EndOf(nd, k)
  /\ \A k \in Keys : k \in nd2[EndOf(nd2, k)].keys
                       <=> (k \in nd[EndOf(nd, k)].keys /\ k \notin gone) \/ k \in come

LEMMA EffectNone ==
  ASSUME NEW nd, NEW mk, Tree(nd, mk)
  PROVE  Effect(nd, mk, nd, mk, {}, {}, {})
  BY RootFacts DEF Effect

LEMMA EffectThen ==
  ASSUME NEW nd, NEW mk, NEW nd1, NEW mk1, NEW nd2, NEW mk2, NEW C1, NEW C2, NEW C,
         NEW gone, NEW come, C1 \subseteq C, \A p \in C2 : p \in 0..mk => p \in C,
         Effect(nd, mk, nd1, mk1, C1, gone, come), Effect(nd1, mk1, nd2, mk2, C2, {}, {})
  PROVE  Effect(nd, mk, nd2, mk2, C, gone, come)
  <1>1. mk \in Nat /\ mk1 \in Nat /\ mk2 \in Nat /\ mk <= mk1 /\ mk1 <= mk2
    BY RootFacts DEF Effect
  <1>2. \A p \in 0..mk : p \in 0..mk1 BY <1>1
  <1>3. \A p \in 0..mk : p \notin C => nd2[p] = nd[p] BY <1>2 DEF Effect
  <1>4. \A p \in 0..mk : nd2[p].leaf <=> nd[p].leaf BY <1>2 DEF Effect
  <1>5. ASSUME NEW k \in Places, EndOf(nd, k) \notin C PROVE EndOf(nd2, k) = EndOf(nd, k)
    <2>1. EndOf(nd, k) \in 1..mk BY EndFacts DEF Effect
    <2>2. EndOf(nd1, k) = EndOf(nd, k) BY <1>5 DEF Effect
    <2>3. EndOf(nd, k) \notin C2 BY <2>1, <1>1, <1>5
    <2>4. QED BY <2>2, <2>3 DEF Effect
  <1>6. \A k \in Keys : k \in nd2[EndOf(nd2, k)].keys
                          <=> (k \in nd[EndOf(nd, k)].keys /\ k \notin gone) \/ k \in come
    BY DEF Effect
  <1>7. QED BY <1>1, <1>3, <1>4, <1>5, <1>6 DEF Effect

\* A leaf that loses or gets the key for which it is the leaf.
LEMMA KeysEffect ==
  ASSUME NEW nd, NEW mk, NEW nd2, Tree(nd, mk), NEW k \in Keys, NEW gone \in SUBSET {k},
         NEW come \in SUBSET {k},
         nd2 = WithKeys(nd, EndOf(nd, k), (nd[EndOf(nd, k)].keys \ gone) \cup come)
  PROVE  Effect(nd, mk, nd2, mk, {EndOf(nd, k)}, gone, come)
  <1>1. PICK h, at : Shape(nd, mk, h, at) BY DEF Tree
  <1> DEFINE n == EndOf(nd, k)
             ks == (nd[n].keys \ gone) \cup come
  <1>2. k \in Places BY TopFacts
  <1>3. /\ n \in 1..mk /\ n \in Pages /\ nd[n].keys \subseteq Keys /\ nd[n].lo < k /\ k <= nd[n].hi
        /\ \A j \in nd[n].keys : nd[n].lo < j /\ j <= nd[n].hi
    BY <1>2, EndFacts
  <1>4. ks \in SUBSET Keys BY <1>3
  <1>5. \A j \in ks : nd[n].lo < j /\ j <= nd[n].hi BY <1>3
  <1>6. n = at[0][k] /\ \A j \in Places : EndOf(nd, j) = at[0][j] BY <1>1, <1>2, EndsAt
  <1>7. /\ Shape(nd2, mk, h, at)
        /\ \A j \in Places : nd2[at[0][j]].keys = IF at[0][j] = n THEN ks ELSE nd[at[0][j]].keys
    <2> HIDE DEF n, ks
    <2>1. nd2 = WithKeys(nd, at[0][k], ks) BY <1>6 DEF n, ks
    <2>2. \A j \in ks : nd[at[0][k]].lo < j /\ j <= nd[at[0][k]].hi BY <1>5, <1>6
    <2>3. LET z == WithKeys(nd, at[0][k], ks)
          IN /\ Shape(z, mk, h, at)
             /\ \A j \in Places : z[at[0][j]].keys = IF at[0][j] = at[0][k] THEN ks
                                                     ELSE nd[at[0][j]].keys
      BY <1>1, <1>2, <1>4, <2>2, KeysChange
    <2>4. QED BY <2>1, <2>3, <1>6
  <1>8. \A j \in Places : EndOf(nd2, j) = at[0][j] BY <1>7, EndsAt
  <1>9. nd = [p \in Pages |-> nd[p]] /\ (\A p \in Pages : IsNode(nd[p])) /\ mk \in Nat /\ mk \in Pages
    BY <1>1, PagesFacts DEF Shape, Records
  <1>10. \A p \in 0..mk : p \in Pages BY <1>9, PagesFacts
  <1> HIDE DEF n, ks
  <1>11. nd2 = [nd EXCEPT ![n].keys = ks] BY DEF n, ks, WithKeys
  <1>12. \A p \in 0..mk : p # n => nd2[p] = nd[p] BY <1>9, <1>10, <1>11
  <1>13. nd2[n].leaf <=> nd[n].leaf
    <2>1. nd2[n] = [nd[n] EXCEPT !.keys = ks] BY <1>3, <1>9, <1>11
    <2>2. QED BY <2>1, <1>3, <1>9 DEF IsNode
  <1>14. ASSUME NEW j \in Keys
         PROVE  j \in nd2[EndOf(nd2, j)].keys
                  <=> (j \in nd[EndOf(nd, j)].keys /\ j \notin gone) \/ j \in come
    <2>1. /\ j \in Places /\ EndOf(nd2, j) = at[0][j] /\ EndOf(nd, j) = at[0][j]
          /\ nd2[at[0][j]].keys = IF at[0][j] = n THEN ks ELSE nd[at[0][j]].keys
      BY <1>6, <1>7, <1>8, TopFacts
    <2>2. CASE at[0][j] = n BY <2>1, <2>2 DEF ks
    <2>3. CASE at[0][j] # n
      <3>1. j # k BY <2>3, <1>6
      <3>2. QED BY <2>1, <2>3, <3>1
    <2>4. QED BY <2>2, <2>3
  <1>15. Tree(nd2, mk) BY <1>7 DEF Tree
  <1>16. \A p \in 0..mk : nd2[p].leaf <=> nd[p].leaf BY <1>12, <1>13
  <1>17. \A j \in Places : EndOf(nd2, j) = EndOf(nd, j) BY <1>6, <1>8
  <1>18. mk <= mk BY <1>9
  <1>19. QED BY <1>12, <1>14, <1>15, <1>16, <1>17, <1>18 DEF Effect, n

\* A split moves keys to a new page, and changes none.
LEMMA SplitEffect ==
  ASSUME NEW nd, NEW mk, NEW h, NEW at, NEW nd2, NEW l, NEW i, NEW sep,
         MaySplit(nd, mk, h, at, nd2, l, i, sep)
  PROVE  Effect(nd, mk, nd2, mk + 1, {at[l][i], at[l + 1][i]}, {}, {})
  <1> DEFINE n == at[l][i]
             p == at[l + 1][i]
             q == mk + 1
             at2 == SplitAt(h, at, l, n, q, sep)
  <1>1. Shape(nd, mk, h, at) /\ SplitInto(nd, nd2, p, n, q, sep) BY DEF MaySplit
  <1>2. Shape(nd2, q, h, at2) BY SplitShape
  <1>3. \A k \in Places : /\ k \in nd2[at2[0][k]].keys <=> k \in nd[at[0][k]].keys
                          /\ at[0][k] # n => at2[0][k] = at[0][k]
    BY SplitContents
  <1>4. mk \in Nat /\ mk \in Pages BY <1>1, PagesFacts DEF Shape, Records
  <1>5. ~nd[p].leaf BY SplitBasics
  <1> HIDE DEF n, p, at2
  <1>6. \A k \in Places : EndOf(nd, k) = at[0][k] /\ EndOf(nd2, k) = at2[0][k]
    BY <1>1, <1>2, EndsAt
  <1>7. \A x \in 0..mk : x \in Pages /\ x # q BY <1>4, PagesFacts
  <1>8. \A x \in 0..mk : x \notin {n, p} => nd2[x] = nd[x] BY <1>1, <1>7 DEF SplitInto
  <1>9. \A x \in 0..mk : nd2[x].leaf <=> nd[x].leaf
    <2>1. nd2[p].leaf = FALSE /\ nd2[n].leaf = nd[n].leaf BY <1>1 DEF SplitInto
    <2>2. QED BY <2>1, <1>5, <1>8
  <1>10. \A k \in Keys : k \in Places BY TopFacts
  <1>11. mk <= q BY <1>4
  <1>12. Tree(nd, mk) /\ Tree(nd2, q) BY <1>1, <1>2 DEF Tree
  <1>13. Effect(nd, mk, nd2, q, {n, p}, {}, {})
    BY <1>3, <1>6, <1>8, <1>9, <1>10, <1>11, <1>12 DEF Effect
  <1>14. QED BY <1>13 DEF n, p

\* A new root changes nothing that a descent finds.
LEMMA RootEffect ==
  ASSUME NEW nd, NEW mk, NEW h, NEW at, NEW nd2, MayGrow(nd, mk, h, at, nd2)
  PROVE  Effect(nd, mk, nd2, mk + 1, {Meta}, {}, {})
  <1> DEFINE at2 == GrownAt(h, at, mk + 1)
  <1>1. /\ Shape(nd2, mk + 1, h + 1, at2)
        /\ \A k \in Places : at2[0][k] = at[0][k] /\ nd2[at[0][k]] = nd[at[0][k]]
    BY RootGrows
  <1>m. /\ Shape(nd, mk, h, at) /\ mk + 1 \in Pages /\ nd2[Meta].leaf = FALSE
        /\ \A p \in Pages : p # Meta /\ p # mk + 1 => nd2[p] = nd[p]
    BY DEF MayGrow
  <1> HIDE DEF at2
  <1>2. \A k \in Places : EndOf(nd, k) = at[0][k] /\ EndOf(nd2, k) = at2[0][k]
    BY <1>1, <1>m, EndsAt
  <1>3. mk \in Nat /\ mk \in Pages BY <1>m, PagesFacts DEF Shape, Records
  <1>4. \A x \in 0..mk : x # Meta => nd2[x] = nd[x] BY <1>3, <1>m, PagesFacts
  <1>5. ~nd[Meta].leaf BY <1>m, RootChild
  <1>6. \A x \in 0..mk : nd2[x].leaf <=> nd[x].leaf BY <1>4, <1>5, <1>m
  <1>7. \A k \in Keys : k \in Places BY TopFacts
  <1>8. mk <= mk + 1 BY <1>3
  <1>9. Tree(nd, mk) /\ Tree(nd2, mk + 1) BY <1>1, <1>m DEF Tree
  <1>10. \A k \in Places : EndOf(nd2, k) = EndOf(nd, k) /\ nd2[EndOf(nd, k)] = nd[EndOf(nd, k)]
    BY <1>1, <1>2
  <1>11. \A k \in Keys : k \in nd2[EndOf(nd2, k)].keys <=> k \in nd[EndOf(nd, k)].keys
    BY <1>7, <1>10
  <1>12. QED BY <1>4, <1>6, <1>8, <1>9, <1>10, <1>11 DEF Effect

\* A merge moves keys to the left neighbour, and changes none.
LEMMA MergeEffect ==
  ASSUME NEW nd, NEW mk, NEW h, NEW at, NEW nd2, NEW i, NEW rs,
         MayMerge(nd, mk, h, at, nd2, i, rs)
  PROVE  Effect(nd, mk, nd2, mk, {at[0][i], at[1][i], nd[at[1][i]].kids[rs]}, {}, {})
  <1> DEFINE n == at[0][i]
             p == at[1][i]
             r == nd[p].kids[rs]
             s == SlotIn(nd[p].kids, i)
             at2 == MergeAt(h, at, n, r)
  <1>1. Shape(nd, mk, h, at) /\ MergeInto(nd, nd2, p, n, r, s, rs) BY DEF MayMerge
  <1>2. /\ Shape(nd2, mk, h, at2)
        /\ \A k \in Places : /\ k \in nd2[at2[0][k]].keys <=> k \in nd[at[0][k]].keys
                             /\ at[0][k] \notin {n, r} => at2[0][k] = at[0][k]
    <2>1. MergedTree(nd, mk, h, at, nd2, n, r) BY MergeShape
    <2>2. QED BY <2>1 DEF MergedTree
  <1>3. ~nd[p].leaf /\ nd[n].leaf
    <2>1. MergeFacts(nd, nd2, mk, h, at, at2, n, p, s, r, rs) BY MergeBasics
    <2> HIDE DEF n, p, r, s, at2
    <2>2. QED BY <2>1 DEF MergeFacts
  <1> HIDE DEF n, p, r, s, at2
  <1>4. mk \in Nat /\ mk \in Pages BY <1>1, PagesFacts DEF Shape, Records
  <1>5. \A k \in Places : EndOf(nd, k) = at[0][k] /\ EndOf(nd2, k) = at2[0][k]
    BY <1>1, <1>2, EndsAt
  <1>6. \A x \in 0..mk : x \in Pages BY <1>4, PagesFacts
  <1>7. \A x \in 0..mk : x \notin {n, p, r} => nd2[x] = nd[x] BY <1>1, <1>6 DEF MergeInto
  <1>8. \A x \in 0..mk : nd2[x].leaf <=> nd[x].leaf
    <2>1. nd2[p].leaf = FALSE /\ nd2[n].leaf = TRUE BY <1>1 DEF MergeInto
    <2>2. \A x \in 0..mk : x \notin {n, p} => nd2[x] = nd[x] BY <1>1, <1>6 DEF MergeInto
    <2>3. QED BY <2>1, <2>2, <1>3
  <1>9. \A k \in Keys : k \in Places BY TopFacts
  <1>10. mk <= mk BY <1>4
  <1>11. Tree(nd, mk) /\ Tree(nd2, mk) BY <1>1, <1>2 DEF Tree
  <1>12. Effect(nd, mk, nd2, mk, {n, p, r}, {}, {})
    BY <1>2, <1>5, <1>7, <1>8, <1>9, <1>10, <1>11 DEF Effect
  <1>13. QED BY <1>12 DEF n, p, r

-------------------------------------------------------------------------------
(* The same of the tree as it is, and as a step leaves it.                  *)
LEMMA TreeOf ==
  /\ \A k : LeafOf(k) = EndOf(nodes, k) /\ LeafOf(k)' = EndOf(nodes', k)
  /\ \A n, k : Child(n, k) = KidFor(nodes, n, k) /\ Slot(n, k) = SlotIn(nodes[n].kids, k)
  /\ Contents = {k \in Keys : k \in nodes[EndOf(nodes, k)].keys}
  /\ Contents' = {k \in Keys : k \in nodes'[EndOf(nodes', k)].keys}
  <1>1. \A k : LeafOf(k) = EndOf(nodes, k) /\ LeafOf(k)' = EndOf(nodes', k)
    BY LeafOfIs DEF EndOf
  <1>2. \A n, k : Child(n, k) = KidFor(nodes, n, k) /\ Slot(n, k) = SlotIn(nodes[n].kids, k)
    BY DEF Child, KidFor, Slot, SlotIn
  <1>3. QED BY <1>1, <1>2 DEF Contents

LEMMA LeafFields ==
  ASSUME NEW r, NEW a, NEW b, NEW c, NEW d, r = LeafNode(a, b, c, d)
  PROVE  /\ r.leaf = TRUE /\ r.keys = a /\ r.lo = b /\ r.hi = c /\ r.next = d /\ IsNode(r)
  BY DEF LeafNode, IsNode

LEMMA KidsChange ==
  ASSUME NEW r, NEW r2, NEW kd, IsNode(r), r2 = [r EXCEPT !.kids = kd]
  PROVE  /\ r2.leaf = r.leaf /\ r2.keys = r.keys /\ r2.lo = r.lo /\ r2.hi = r.hi
         /\ r2.next = r.next /\ r2.kids = kd /\ IsNode(r2)
  <1>1. r = [leaf |-> r.leaf, keys |-> r.keys, kids |-> r.kids,
             lo |-> r.lo, hi |-> r.hi, next |-> r.next]
    BY DEF IsNode
  <1>2. r2 = [leaf |-> r.leaf, keys |-> r.keys, kids |-> kd,
              lo |-> r.lo, hi |-> r.hi, next |-> r.next]
    BY <1>1
  <1>3. QED BY <1>2 DEF IsNode

\* What insert, remove, a merge and the splits of this specification do.
LEMMA InsertEffect ==
  ASSUME NEW t, Tree(nodes, made), key[t] \in Keys, node[t] = LeafOf(key[t]), Insert(t)
  PROVE  Effect(nodes, made, nodes', made', {node[t]}, {}, {key[t]})
  <1>1. node[t] = EndOf(nodes, key[t]) BY TreeOf
  <1>2. nodes' = WithKeys(nodes, node[t], (nodes[node[t]].keys \ {}) \cup {key[t]}) /\ made' = made
    <2>1. nodes[node[t]].keys \ {} = nodes[node[t]].keys OBVIOUS
    <2>2. QED BY <2>1 DEF Insert, WithKeys
  <1>3. QED BY <1>1, <1>2, KeysEffect

LEMMA RemoveEffect ==
  ASSUME NEW t, Tree(nodes, made), key[t] \in Keys, node[t] = LeafOf(key[t]), made' = made,
         nodes' = [nodes EXCEPT ![node[t]].keys = @ \ {key[t]}]
  PROVE  Effect(nodes, made, nodes', made', {node[t]}, {key[t]}, {})
  <1>1. node[t] = EndOf(nodes, key[t]) BY TreeOf
  <1>2. nodes' = WithKeys(nodes, node[t], (nodes[node[t]].keys \ {key[t]}) \cup {})
    <2>1. (nodes[node[t]].keys \ {key[t]}) \cup {} = nodes[node[t]].keys \ {key[t]} OBVIOUS
    <2>2. QED BY <2>1 DEF WithKeys
  <1>3. QED BY <1>1, <1>2, KeysEffect

\* The guards that an operation has on the way for its goal, parent and child.
Coupled(nd, p, n, k) == /\ p \in Pages /\ ~nd[p].leaf /\ k \in Places
                        /\ nd[p].lo < k /\ k <= nd[p].hi /\ n = KidFor(nd, p, k)

\* A leaf that becomes underfull takes its right neighbour in.
TakesRight(t) ==
  /\ key[t] \in Keys /\ Coupled(nodes, par[t], node[t], key[t]) /\ nodes[node[t]].leaf
  /\ par[t] # Meta /\ RightSlots(t) # {} /\ Right(t) # node[t] /\ made' = made
  /\ nodes' = [nodes EXCEPT
       ![node[t]] = MergedLeaf(t, nodes[Right(t)]),
       ![par[t]].kids = MergedKids(@, Slot(par[t], key[t]), Min(RightSlots(t)), node[t])]

LEMMA UnderfullEffect ==
  ASSUME NEW t, Tree(nodes, made), TakesRight(t)
  PROVE  Effect(nodes, made, nodes', made', {node[t], par[t], Right(t)}, {key[t]}, {})
  <1> DEFINE n == node[t]
             p == par[t]
             k == key[t]
             r == Right(t)
             s == SlotIn(nodes[p].kids, k)
             rs == Min(RightSlots(t))
             ks == (nodes[n].keys \ {k}) \cup {}
             nd1 == WithKeys(nodes, n, ks)
  <1>0. /\ key[t] \in Keys /\ Coupled(nodes, p, n, k) /\ nodes[n].leaf
        /\ p # Meta /\ RightSlots(t) # {} /\ r # n /\ made' = made
    BY DEF TakesRight
  <1>1. PICK h, at : Shape(nodes, made, h, at) BY DEF Tree
  <1>2. k \in Places /\ p \in Pages /\ ~nodes[p].leaf /\ nodes[p].lo < k /\ k <= nodes[p].hi
        /\ n = KidFor(nodes, p, k)
    BY <1>0 DEF Coupled
  <1>3. PICK l \in 0..h : l < h /\ at[l + 1][k] = p /\ n = at[l][k] BY <1>1, <1>2, ChildAt
  <1>4. l = 0 /\ h \in Nat /\ 1 \in 0..h /\ 0 \in 0..h /\ at[1][k] = p /\ n = at[0][k] /\ 1 < h
    <2>1. l = 0 BY <1>0, <1>1, <1>2, <1>3 DEF Shape, Kinds
    <2>2. h \in Nat /\ at[h][k] = Meta BY <1>1, <1>2 DEF Shape, Levels
    <2>3. 0 + 1 = 1 OBVIOUS
    <2>4. QED BY <2>1, <2>2, <2>3, <1>0, <1>3
  <1>5. n = EndOf(nodes, k) BY <1>1, <1>2, <1>4, EndsAt
  <1>6. Effect(nodes, made, nd1, made, {n}, {k}, {}) BY <1>0, <1>5, KeysEffect
  <1>7. /\ n \in Pages /\ p # n /\ nodes[n].keys \subseteq Keys
        /\ \A j \in nodes[n].keys : nodes[n].lo < j /\ j <= nodes[n].hi
    <2>1. n \in Pages /\ nodes[n].keys \subseteq Keys BY <1>2, <1>5, EndFacts
    <2>2. \A j \in nodes[n].keys : nodes[n].lo < j /\ j <= nodes[n].hi BY <1>2, <1>5, EndFacts
    <2>3. QED BY <2>1, <2>2, <1>0, <1>2
  <1>8. Shape(nd1, made, h, at)
    <2>1. LET z == WithKeys(nodes, at[0][k], ks)
          IN /\ Shape(z, made, h, at)
             /\ \A j \in Places : z[at[0][j]].keys = IF at[0][j] = at[0][k] THEN ks
                                                     ELSE nodes[at[0][j]].keys
      <3>1. ks \in SUBSET Keys BY <1>7
      <3>2. \A j \in ks : nodes[at[0][k]].lo < j /\ j <= nodes[at[0][k]].hi BY <1>4, <1>7
      <3> HIDE DEF ks, n, p, k, r, s, rs, nd1
      <3>3. QED BY <3>1, <3>2, <1>1, <1>2, KeysChange
    <2>2. QED BY <2>1, <1>4
  <1>9. nodes = [x \in Pages |-> nodes[x]] /\ \A x \in Pages : IsNode(nodes[x])
    BY <1>1 DEF Shape, Records
  <1>10. /\ DOMAIN nodes[p].kids \subseteq Places /\ Top \in DOMAIN nodes[p].kids
    BY <1>1, <1>2 DEF Shape, Slots
  <1>11. rs \in DOMAIN nodes[p].kids /\ rs # Top /\ s < rs /\ r = nodes[p].kids[rs]
         /\ \A d \in DOMAIN nodes[p].kids : s < d => rs <= d
    <2>1. RightSlots(t) = {d \in DOMAIN nodes[p].kids \ {Top} : d > s}
      BY TreeOf DEF RightSlots, Seps
    <2>2. RightSlots(t) \subseteq Nat BY <2>1, <1>10 DEF Places
    <2>3. rs \in RightSlots(t) /\ \A d \in RightSlots(t) : rs <= d BY <1>0, <2>2, MinIs
    <2>4. s \in Nat BY <1>2, <1>10, SlotIs DEF Places
    <2> HIDE DEF rs, s
    <2>5. rs \in DOMAIN nodes[p].kids /\ rs # Top /\ s < rs BY <2>1, <2>3
    <2>6. rs <= Top BY <2>5, <1>10, TopFacts DEF Places
    <2>7. \A d \in DOMAIN nodes[p].kids : s < d => rs <= d BY <2>1, <2>3, <2>6
    <2>8. QED BY <2>5, <2>7 DEF Right, rs
  <1> HIDE DEF n, p, k, r, s, rs, ks
  <1>12. /\ nd1 = [x \in Pages |-> nd1[x]] /\ \A x \in Pages : x # n => nd1[x] = nodes[x]
         /\ nd1[n] = [nodes[n] EXCEPT !.keys = ks]
    BY <1>7, <1>9 DEF WithKeys
  <1>13. nd1[n].keys = ks /\ nd1[n].lo = nodes[n].lo BY <1>7, <1>9, <1>12 DEF IsNode
  <1> HIDE DEF nd1
  <1>14. nodes' = [nodes EXCEPT ![n] = MergedLeaf(t, nodes[r]),
                                ![p].kids = MergedKids(nodes[p].kids, s, rs, n)]
    BY TreeOf DEF TakesRight, n, p, k, r, s, rs
  <1>15. r \in Pages /\ r # n
    <2>1. r # n BY <1>0
    <2>2. rs \in Places BY <1>10, <1>11
    <2>3. r \in Pages
      <3>1. nodes[p].lo < rs /\ rs <= nodes[p].hi
        <4>1. rs # Top => nodes[p].lo < rs /\ rs < nodes[p].hi BY <1>1, <1>2, <1>11 DEF Shape, Slots
        <4>2. nodes[p].hi \in 0..Top BY <1>1, <1>2 DEF Shape, Records
        <4>3. QED BY <4>1, <4>2, <2>2, <1>11, TopFacts DEF Places
      <3>2. KidFor(nodes, p, rs) \in Pages BY <1>2, <2>2, <3>1, ChildFacts
      <3>3. SlotIn(nodes[p].kids, rs) = rs
        <4>1. rs >= rs /\ \A d \in DOMAIN nodes[p].kids : d >= rs => rs <= d
          BY <2>2, <1>10 DEF Places
        <4>2. QED BY <4>1, <2>2, <1>10, <1>11, SlotEquals
      <3>4. QED BY <3>2, <3>3, <1>11 DEF KidFor
    <2>4. QED BY <2>1, <2>3
  <1>16. nd1[p] = nodes[p] /\ nd1[r] = nodes[r] BY <1>2, <1>7, <1>12, <1>15
  <1>17. /\ nodes' = [x \in Pages |-> nodes'[x]]
         /\ \A x \in Pages : x \notin {p, n} => nodes'[x] = nodes[x]
         /\ nodes'[n] = MergedLeaf(t, nodes[r])
         /\ nodes'[p] = [nodes[p] EXCEPT !.kids = MergedKids(nodes[p].kids, s, rs, n)]
    BY <1>2, <1>7, <1>9, <1>14
  <1>18. MergedLeaf(t, nodes[r])
           = LeafNode(nd1[n].keys \cup nodes[r].keys, nodes[n].lo, nodes[r].hi, nodes[r].next)
    <2>1. ks = nodes[n].keys \ {k} BY DEF ks
    <2>2. QED BY <2>1, <1>13 DEF MergedLeaf, n, k
  <1>19. /\ nodes'[n].leaf = TRUE /\ nodes'[n].keys = nd1[n].keys \cup nd1[r].keys
         /\ nodes'[n].lo = nd1[n].lo /\ nodes'[n].hi = nd1[r].hi /\ nodes'[n].next = nd1[r].next
         /\ IsNode(nodes'[n])
    <2> DEFINE a == nd1[n].keys \cup nodes[r].keys
    <2>1. nodes'[n] = LeafNode(a, nodes[n].lo, nodes[r].hi, nodes[r].next) BY <1>17, <1>18
    <2> HIDE DEF a
    <2>2. /\ nodes'[n].leaf = TRUE /\ nodes'[n].keys = a /\ nodes'[n].lo = nodes[n].lo
          /\ nodes'[n].hi = nodes[r].hi /\ nodes'[n].next = nodes[r].next /\ IsNode(nodes'[n])
      BY <2>1 DEF LeafNode, IsNode
    <2>3. QED BY <2>2, <1>13, <1>16 DEF a
  <1>20. /\ nodes'[p].leaf = FALSE /\ nodes'[p].keys = nd1[p].keys /\ nodes'[p].next = nd1[p].next
         /\ nodes'[p].lo = nd1[p].lo /\ nodes'[p].hi = nd1[p].hi
         /\ nodes'[p].kids = MergedKids(nd1[p].kids, s, rs, n) /\ IsNode(nodes'[p])
    <2> DEFINE kd == MergedKids(nodes[p].kids, s, rs, n)
    <2>1. nodes'[p] = [nodes[p] EXCEPT !.kids = kd] BY <1>17
    <2>2. nd1[p] = nodes[p] /\ IsNode(nodes[p]) /\ ~nodes[p].leaf /\ nodes[p].leaf \in BOOLEAN
      BY <1>1, <1>2, <1>9, <1>16 DEF Shape, Records
    <2> HIDE DEF kd
    <2>3. /\ nodes'[p].leaf = FALSE /\ nodes'[p].keys = nd1[p].keys /\ nodes'[p].next = nd1[p].next
          /\ nodes'[p].lo = nd1[p].lo /\ nodes'[p].hi = nd1[p].hi
          /\ nodes'[p].kids = kd /\ IsNode(nodes'[p])
      BY <2>1, <2>2, KidsChange
    <2>4. QED BY <2>2, <2>3 DEF kd
  <1>21. MergeInto(nd1, nodes', p, n, r, s, rs)
    BY <1>12, <1>17, <1>19, <1>20 DEF MergeInto
  <1>22. MayMerge(nd1, made, h, at, nodes', k, rs)
    <2>1. SlotIn(nd1[p].kids, k) = s /\ nd1[p].kids[rs] = r /\ DOMAIN nd1[p].kids = DOMAIN nodes[p].kids
      BY <1>11, <1>16 DEF s
    <2>2. QED BY <2>1, <1>2, <1>4, <1>8, <1>11, <1>21 DEF MayMerge
  <1>23. Effect(nd1, made, nodes', made, {n, p, r}, {}, {})
    <2>1. Effect(nd1, made, nodes', made, {at[0][k], at[1][k], nd1[at[1][k]].kids[rs]}, {}, {})
      BY <1>22, MergeEffect
    <2>2. QED BY <2>1, <1>4, <1>11, <1>16
  <1>24. Effect(nodes, made, nodes', made, {n, p, r}, {k}, {})
    <2>1. {n} \subseteq {n, p, r} OBVIOUS
    <2>2. QED BY <2>1, <1>6, <1>23, EffectThen
  <1>25. QED BY <1>0, <1>24 DEF n, p, r, k

(* A separator lies strictly between a full node's fences, and an inner     *)
(* node's is one of its own.                                                *)
LEMMA LeafSlot ==
  ASSUME NEW S, S \subseteq Keys, Cardinality(S) >= 2
  PROVE  LET s == SplitSlot(S, TRUE)
             m == Min({k \in S : k > s})
         IN s \in S /\ m \in S /\ s < m
  <1> DEFINE C == Cardinality(S)
             i == (C - 1) \div 2
             s == SplitSlot(S, TRUE)
             B == {k \in S : k > s}
  <1>1. \A k \in Keys : k \in Nat BY TopFacts DEF Places
  <1>2. S \subseteq Nat /\ IsFiniteSet(S) /\ C \in Nat
    BY <1>1, KeysAssumption, FS_Subset, FS_CardinalityType
  <1>3. i \in Nat /\ i < C - 1 /\ i < C
    <2>1. C >= 2 OBVIOUS
    <2> HIDE DEF C
    <2>2. QED BY <1>2, <2>1
  <1>4. \E r \in S : Cardinality({x \in S : x < r}) = i
    <2> HIDE DEF i
    <2>1. QED BY <1>2, <1>3, RankExists
  <1>5. s \in S /\ Cardinality({x \in S : x < s}) = i BY <1>4 DEF SplitSlot
  <1> HIDE DEF s, i
  <1>6. B # {}
    <2> SUFFICES ASSUME B = {} PROVE FALSE OBVIOUS
    <2>1. {x \in S : x < s} = S \ {s}
      <3>1. \A x \in S : ~(x > s) OBVIOUS
      <3>2. \A x \in S : x < s <=> x # s BY <3>1, <1>2, <1>5
      <3>3. QED BY <3>2
    <2>2. Cardinality(S \ {s}) = C - 1 BY <1>2, <1>5, FS_RemoveElement
    <2> HIDE DEF C
    <2>3. QED BY <1>2, <1>3, <1>5, <2>1, <2>2
  <1>7. Min(B) \in B
    <2>1. B \subseteq Nat BY <1>2
    <2> HIDE DEF B
    <2>2. QED BY <1>6, <2>1, MinIs
  <1>8. QED BY <1>5, <1>7 DEF s

LEMMA InnerSlot ==
  ASSUME NEW S, S \subseteq Places, Cardinality(S) >= 2
  PROVE  SplitSlot(S, FALSE) \in S
  <1> DEFINE C == Cardinality(S)
             i == C \div 2
  <1>1. S \subseteq Nat /\ IsFiniteSet(S) /\ C \in Nat
    <2>1. IsFiniteSet(Places) BY TopFacts, FS_Interval DEF Places
    <2>2. S \subseteq Nat BY DEF Places
    <2>3. QED BY <2>1, <2>2, FS_Subset, FS_CardinalityType
  <1>2. i \in Nat /\ i < C
    <2>1. C >= 2 OBVIOUS
    <2> HIDE DEF C
    <2>2. QED BY <1>1, <2>1
  <1>3. \E r \in S : Cardinality({x \in S : x < r}) = i
    <2> HIDE DEF i
    <2>1. QED BY <1>1, <1>2, RankExists
  <1>4. QED BY <1>3 DEF SplitSlot

LEMMA SeparatorIs ==
  ASSUME NEW n, nodes[n].lo \in Nat, nodes[n].hi \in Nat, nodes[n].hi <= Top,
         nodes[n].leaf => /\ nodes[n].keys \subseteq Keys
                          /\ \A j \in nodes[n].keys : nodes[n].lo < j /\ j <= nodes[n].hi,
         ~nodes[n].leaf => /\ DOMAIN nodes[n].kids \subseteq Places
                           /\ \A d \in DOMAIN nodes[n].kids :
                                d # Top => nodes[n].lo < d /\ d < nodes[n].hi,
         ~HasSpace(n), NEW sep, sep \in Separators(n)
  PROVE  /\ sep \in Places /\ nodes[n].lo < sep /\ sep < nodes[n].hi
         /\ ~nodes[n].leaf => sep \in DOMAIN nodes[n].kids
  <1>1. Top \in Nat /\ \A k \in Keys : k \in Nat /\ 1 <= k /\ k < Top BY TopFacts DEF Places
  <1>2. CASE nodes[n].leaf
    <2> DEFINE S == nodes[n].keys
               s == SplitSlot(S, TRUE)
               m == Min({k \in S : k > s})
    <2>1. S \subseteq Keys /\ \A j \in S : nodes[n].lo < j /\ j <= nodes[n].hi BY <1>2
    <2>2. Cardinality(S) >= 2
      <3>1. LeafCap \in Nat \ {0, 1} /\ ~(Cardinality(S) < LeafCap)
        BY <1>2, CapAssumption DEF HasSpace
      <3>2. Cardinality(S) \in Nat BY <2>1, KeysAssumption, FS_Subset, FS_CardinalityType
      <3> HIDE DEF S
      <3>3. QED BY <3>1, <3>2
    <2>3. s \in S /\ m \in S /\ s < m
      <3> HIDE DEF S
      <3>1. QED BY <2>1, <2>2, LeafSlot
    <2>4. sep \in s..(m - 1) BY <1>2 DEF Separators
    <2> HIDE DEF s, m, S
    <2>5. s \in Nat /\ m \in Nat /\ 1 <= s BY <1>1, <2>1, <2>3
    <2>6. nodes[n].lo < s /\ m <= nodes[n].hi BY <2>1, <2>3
    <2>7. sep \in Nat /\ s <= sep /\ sep < m BY <2>4, <2>5
    <2>8. QED BY <2>5, <2>6, <2>7, <1>1, <1>2 DEF Places
  <1>3. CASE ~nodes[n].leaf
    <2> DEFINE S == Seps(n)
               s == SplitSlot(S, FALSE)
    <2>1. /\ S \subseteq Places /\ S \subseteq DOMAIN nodes[n].kids
          /\ \A d \in S : nodes[n].lo < d /\ d < nodes[n].hi
      BY <1>3 DEF Seps
    <2>2. Cardinality(S) >= 2
      <3>1. InnerCap \in Nat \ {0, 1, 2} /\ ~(Cardinality(S) < InnerCap)
        BY <1>3, CapAssumption DEF HasSpace
      <3>2. Cardinality(S) \in Nat
        <4>1. IsFiniteSet(Places) BY <1>1, FS_Interval DEF Places
        <4>2. QED BY <2>1, <4>1, FS_Subset, FS_CardinalityType
      <3> HIDE DEF S
      <3>3. QED BY <3>1, <3>2
    <2>3. s \in S
      <3> HIDE DEF S
      <3>1. QED BY <2>1, <2>2, InnerSlot
    <2>4. sep = s BY <1>3 DEF Separators
    <2> HIDE DEF s, S
    <2>5. QED BY <2>1, <2>3, <2>4, <1>3
  <1>4. QED BY <1>2, <1>3

\* What the shape says of a node that an operation has come to.
LEMMA NodeFacts ==
  ASSUME NEW nd, NEW mk, Tree(nd, mk), NEW p, NEW n, NEW g, Coupled(nd, p, n, g)
  PROVE  /\ n \in 1..mk /\ n \in Pages /\ nd[n].leaf \in BOOLEAN
         /\ nd[n].lo \in Nat /\ nd[n].hi \in Nat /\ nd[n].hi <= Top
         /\ nd[n].leaf => /\ nd[n].keys \subseteq Keys
                          /\ \A j \in nd[n].keys : nd[n].lo < j /\ j <= nd[n].hi
         /\ ~nd[n].leaf => /\ DOMAIN nd[n].kids \subseteq Places
                           /\ \A d \in DOMAIN nd[n].kids : d # Top => nd[n].lo < d /\ d < nd[n].hi
  <1>1. PICK h, at : Shape(nd, mk, h, at) BY DEF Tree
  <1>2. n \in 1..mk /\ n \in Pages /\ g \in Places /\ (nd[n].leaf => n = EndOf(nd, g))
    BY ChildFacts DEF Coupled
  <1>3. nd[n].leaf \in BOOLEAN /\ nd[n].lo \in 0..Top /\ nd[n].hi \in 0..Top
    BY <1>1, <1>2 DEF Shape, Records
  <1>4. nd[n].leaf => /\ nd[n].keys \subseteq Keys
                      /\ \A j \in nd[n].keys : nd[n].lo < j /\ j <= nd[n].hi
    BY <1>2, EndFacts
  <1>5. ~nd[n].leaf => /\ DOMAIN nd[n].kids \subseteq Places
                       /\ \A d \in DOMAIN nd[n].kids : d # Top => nd[n].lo < d /\ d < nd[n].hi
    BY <1>1, <1>2 DEF Shape, Slots
  <1>6. QED BY <1>2, <1>3, <1>4, <1>5, TopFacts

LEMMA SeparatorOf ==
  ASSUME NEW n, Tree(nodes, made), NEW p, NEW g, Coupled(nodes, p, n, g), ~HasSpace(n),
         NEW sep, sep \in Separators(n)
  PROVE  /\ sep \in Places /\ nodes[n].lo < sep /\ sep < nodes[n].hi
         /\ ~nodes[n].leaf => sep \in DOMAIN nodes[n].kids
  BY NodeFacts, SeparatorIs

\* The halves a and b of a node r.
Halves(r, a, b, sep, q) ==
  /\ IsNode(a) /\ IsNode(b) /\ a.leaf = r.leaf /\ b.leaf = r.leaf
  /\ a.lo = r.lo /\ a.hi = sep /\ b.lo = sep /\ b.hi = r.hi
  /\ r.leaf => /\ a.keys = {k \in r.keys : k <= sep} /\ a.next = q
               /\ b.keys = {k \in r.keys : k > sep} /\ b.next = r.next
  /\ ~r.leaf =>
       /\ a.keys = {} /\ b.keys = {} /\ a.next = NoPage /\ b.next = NoPage
       /\ a.kids = [s \in {x \in DOMAIN r.kids \ {Top} : x < sep} \cup {Top} |->
                      r.kids[IF s = Top THEN sep ELSE s]]
       /\ b.kids = Restrict(r.kids, {s \in DOMAIN r.kids : s > sep})

\* LeftHalf and RightHalf are halves.
LEMMA HalvesAre ==
  ASSUME NEW n, NEW sep, NEW q, NEW a, NEW b, a = LeftHalf(n, sep, q), b = RightHalf(n, sep),
         nodes[n].leaf \in BOOLEAN
  PROVE  Halves(nodes[n], a, b, sep, q)
  <1>1. CASE nodes[n].leaf
    <2>1. /\ a = LeafNode({k \in nodes[n].keys : k <= sep}, nodes[n].lo, sep, q)
          /\ b = LeafNode({k \in nodes[n].keys : k > sep}, sep, nodes[n].hi, nodes[n].next)
      BY <1>1 DEF LeftHalf, RightHalf
    <2> DEFINE ka == {k \in nodes[n].keys : k <= sep}
               kb == {k \in nodes[n].keys : k > sep}
    <2>2. /\ a = LeafNode(ka, nodes[n].lo, sep, q)
          /\ b = LeafNode(kb, sep, nodes[n].hi, nodes[n].next)
      BY <2>1
    <2> HIDE DEF ka, kb
    <2>3. IsNode(a) /\ a.leaf = TRUE /\ a.keys = ka /\ a.lo = nodes[n].lo /\ a.hi = sep /\ a.next = q
      BY <2>2 DEF LeafNode, IsNode
    <2>4. /\ IsNode(b) /\ b.leaf = TRUE /\ b.keys = kb /\ b.lo = sep /\ b.hi = nodes[n].hi
          /\ b.next = nodes[n].next
      BY <2>2 DEF LeafNode, IsNode
    <2>5. QED BY <2>3, <2>4, <1>1 DEF ka, kb, Halves
  <1>2. CASE ~nodes[n].leaf
    <2> DEFINE ka == [s \in {r \in DOMAIN nodes[n].kids \ {Top} : r < sep} \cup {Top} |->
                        nodes[n].kids[IF s = Top THEN sep ELSE s]]
               kb == Restrict(nodes[n].kids, {s \in DOMAIN nodes[n].kids : s > sep})
    <2>1. a = InnerNode(ka, nodes[n].lo, sep) BY <1>2 DEF LeftHalf, Seps
    <2>2. b = InnerNode(kb, sep, nodes[n].hi) BY <1>2 DEF RightHalf
    <2> HIDE DEF ka, kb
    <2>3. /\ IsNode(a) /\ a.leaf = FALSE /\ a.keys = {} /\ a.lo = nodes[n].lo /\ a.hi = sep
          /\ a.next = NoPage /\ a.kids = ka
      BY <2>1 DEF InnerNode, IsNode
    <2>4. /\ IsNode(b) /\ b.leaf = FALSE /\ b.keys = {} /\ b.lo = sep /\ b.hi = nodes[n].hi
          /\ b.next = NoPage /\ b.kids = kb
      BY <2>2 DEF InnerNode, IsNode
    <2>5. QED BY <2>3, <2>4, <1>2 DEF ka, kb, Halves
  <1>3. QED BY <1>1, <1>2

LEMMA SplitNodeEffect ==
  ASSUME NEW t, Tree(nodes, made), Coupled(nodes, par[t], node[t], goal[t]), ~HasSpace(node[t]),
         SplitNode(t)
  PROVE  Effect(nodes, made, nodes', made', {node[t], par[t]}, {}, {})
  <1> DEFINE n == node[t]
             p == par[t]
             q == made + 1
             i == goal[t]
  <1>1. PICK h, at : Shape(nodes, made, h, at) BY DEF Tree
  <1>2. /\ p \in Pages /\ ~nodes[p].leaf /\ i \in Places /\ nodes[p].lo < i /\ i <= nodes[p].hi
        /\ n = KidFor(nodes, p, i)
    BY DEF Coupled
  <1>3. PICK l \in 0..h : l < h /\ at[l + 1][i] = p /\ n = at[l][i] BY <1>1, <1>2, ChildAt
  <1>4. /\ p # Meta /\ q <= MaxPages /\ made' = q
        /\ \E sep \in Separators(n) :
             nodes' = [nodes EXCEPT ![p].kids = SplitKids(@, n, sep, q),
                                    ![q] = RightHalf(n, sep), ![n] = LeftHalf(n, sep, q)]
    BY DEF SplitNode
  <1>5. PICK sep \in Separators(n) :
          nodes' = [nodes EXCEPT ![p].kids = SplitKids(@, n, sep, q),
                                 ![q] = RightHalf(n, sep), ![n] = LeftHalf(n, sep, q)]
    BY <1>4
  <1>6. /\ sep \in Places /\ nodes[n].lo < sep /\ sep < nodes[n].hi
        /\ ~nodes[n].leaf => sep \in DOMAIN nodes[n].kids
    BY SeparatorOf
  <1>7. /\ h \in Nat /\ l \in 0..h /\ l + 1 \in 0..h /\ l + 1 < h
    <2>1. h \in Nat /\ at[h][i] = Meta BY <1>1, <1>2 DEF Shape, Levels
    <2>2. l + 1 # h BY <2>1, <1>3, <1>4
    <2>3. QED BY <2>1, <2>2, <1>3
  <1>8. made \in Nat /\ q \in Pages /\ n \in 0..made /\ p \in 0..made /\ n \in Pages
    <2>1. made \in Nat /\ n \in 0..made /\ p \in 0..made /\ n \in Pages
      BY <1>1, <1>2, <1>3, <1>7, AtFacts, RootFacts
    <2>2. q \in Pages BY <2>1, <1>4, PagesFacts
    <2>3. QED BY <2>1, <2>2
  <1>9. n # p /\ n # q /\ p # q
    <2>1. n # p BY <1>1, <1>2, <1>3, <1>7 DEF Shape, Levels
    <2>2. QED BY <2>1, <1>8
  <1>10. /\ nodes = [x \in Pages |-> nodes[x]] /\ \A x \in Pages : IsNode(nodes[x])
         /\ nodes[n].leaf \in BOOLEAN /\ nodes[p].leaf = FALSE
    BY <1>1, <1>2, <1>8 DEF Shape, Records
  <1> HIDE DEF n, p, q, i
  <1>11. /\ nodes' = [x \in Pages |-> nodes'[x]]
         /\ \A x \in Pages : x \notin {p, n, q} => nodes'[x] = nodes[x]
         /\ nodes'[n] = LeftHalf(n, sep, q) /\ nodes'[q] = RightHalf(n, sep)
         /\ nodes'[p] = [nodes[p] EXCEPT !.kids = SplitKids(nodes[p].kids, n, sep, q)]
    BY <1>2, <1>5, <1>8, <1>9, <1>10
  <1>12. Halves(nodes[n], nodes'[n], nodes'[q], sep, q) BY <1>10, <1>11, HalvesAre
  <1>14. /\ nodes'[p].leaf = FALSE /\ nodes'[p].keys = nodes[p].keys /\ nodes'[p].next = nodes[p].next
         /\ nodes'[p].lo = nodes[p].lo /\ nodes'[p].hi = nodes[p].hi /\ IsNode(nodes'[p])
         /\ nodes'[p].kids = SplitKids(nodes[p].kids, n, sep, q)
    <2> DEFINE kd == SplitKids(nodes[p].kids, n, sep, q)
    <2>1. nodes'[p] = [nodes[p] EXCEPT !.kids = kd] /\ IsNode(nodes[p]) BY <1>2, <1>10, <1>11
    <2> HIDE DEF kd
    <2>2. PICK c, d : c = nodes'[p] /\ d = nodes[p] OBVIOUS
    <2>3. c = [d EXCEPT !.kids = kd] /\ IsNode(d) BY <2>1, <2>2
    <2>4. /\ c.leaf = d.leaf /\ c.keys = d.keys /\ c.lo = d.lo /\ c.hi = d.hi
          /\ c.next = d.next /\ c.kids = kd /\ IsNode(c)
      BY <2>3, KidsChange
    <2>5. QED BY <2>2, <2>4, <1>10 DEF kd
  <1>15. SplitInto(nodes, nodes', p, n, q, sep)
    BY <1>11, <1>12, <1>14 DEF SplitInto, Halves
  <1>16. MaySplit(nodes, made, h, at, nodes', l, i, sep)
    BY <1>1, <1>2, <1>3, <1>6, <1>7, <1>8, <1>15 DEF MaySplit, q
  <1>17. Effect(nodes, made, nodes', made + 1, {at[l][i], at[l + 1][i]}, {}, {})
    BY <1>16, SplitEffect
  <1>18. QED BY <1>3, <1>4, <1>17 DEF n, p, q

LEMMA SplitRootEffect ==
  ASSUME NEW t, Tree(nodes, made), Coupled(nodes, par[t], node[t], goal[t]), ~HasSpace(node[t]),
         SplitRoot(t)
  PROVE  Effect(nodes, made, nodes', made', {node[t], par[t]}, {}, {})
  <1> DEFINE n == node[t]
             g == made + 1
             q == made + 2
             i == goal[t]
             kg == [s \in {Top} |-> n]
             km == [s \in {Top} |-> g]
             nd1 == [nodes EXCEPT ![Meta].kids = km, ![g] = InnerNode(kg, 0, Top)]
  <1>1. PICK h, at : Shape(nodes, made, h, at) BY DEF Tree
  <1>2. /\ par[t] = Meta /\ q <= MaxPages /\ made' = q
        /\ \E sep \in Separators(n) :
             nodes' = [nodes EXCEPT ![Meta].kids[Top] = g,
                                    ![g] = InnerNode(SplitKids([s \in {Top} |-> n], n, sep, q), 0, Top),
                                    ![q] = RightHalf(n, sep), ![n] = LeftHalf(n, sep, q)]
    BY DEF SplitRoot
  <1>3. PICK sep \in Separators(n) :
          nodes' = [nodes EXCEPT ![Meta].kids[Top] = g,
                                 ![g] = InnerNode(SplitKids(kg, n, sep, q), 0, Top),
                                 ![q] = RightHalf(n, sep), ![n] = LeftHalf(n, sep, q)]
    BY <1>2
  <1>4. /\ sep \in Places /\ nodes[n].lo < sep /\ sep < nodes[n].hi
        /\ ~nodes[n].leaf => sep \in DOMAIN nodes[n].kids
    BY SeparatorOf
  <1>5. /\ ~nodes[Meta].leaf /\ i \in Places /\ nodes[Meta].lo < i /\ i <= nodes[Meta].hi
        /\ n = KidFor(nodes, Meta, i) /\ Meta \in Pages
    BY <1>2 DEF Coupled
  <1>6. PICK l \in 0..h : l < h /\ at[l + 1][i] = Meta /\ n = at[l][i] BY <1>1, <1>5, ChildAt
  <1>7. h \in Nat /\ h # 0 /\ h \in 0..h /\ l + 1 = h
    <2>1. h \in Nat /\ h # 0 /\ h \in 0..h /\ at[h][i] = Meta BY <1>1, <1>5 DEF Shape, Levels
    <2>2. l + 1 \in 0..h BY <2>1, <1>6
    <2>3. QED BY <2>1, <2>2, <1>1, <1>5, <1>6 DEF Shape, Levels
  <1>8. made \in Nat /\ g \in Pages /\ q \in Pages /\ n \in 1..made /\ n \in Pages /\ Meta = 0
    <2>1. made \in Nat /\ n \in 1..made /\ n \in Pages BY NodeFacts, RootFacts
    <2>2. g \in Pages /\ q \in Pages BY <2>1, <1>2, PagesFacts
    <2>3. QED BY <2>1, <2>2 DEF Meta
  <1>9. n # Meta /\ n # g /\ n # q /\ g # q /\ g # Meta /\ q # Meta BY <1>8
  <1>10. /\ nodes = [x \in Pages |-> nodes[x]] /\ \A x \in Pages : IsNode(nodes[x])
         /\ nodes[n].leaf \in BOOLEAN /\ nodes[Meta].leaf = FALSE
    BY <1>1, <1>5, <1>8 DEF Shape, Records
  <1>11. /\ nodes[Meta].kids = [s \in DOMAIN nodes[Meta].kids |-> nodes[Meta].kids[s]]
         /\ DOMAIN nodes[Meta].kids = {Top} /\ nodes[Meta].kids[Top] = n
    <2>1. /\ nodes[Meta].kids = [s \in DOMAIN nodes[Meta].kids |-> nodes[Meta].kids[s]]
          /\ DOMAIN nodes[Meta].kids = {Top}
      BY <1>1, <1>5 DEF Shape, Slots
    <2>2. /\ h - 1 \in 0..h /\ \A k \in Places : at[h - 1][k] = nodes[Meta].kids[Top]
      BY <1>1, RootChild
    <2>3. h - 1 = l BY <1>6, <1>7
    <2>4. QED BY <2>1, <2>2, <2>3, <1>5, <1>6
  <1> HIDE DEF n, g, q, i, kg
  <1>12. [nodes[Meta].kids EXCEPT ![Top] = g] = km BY <1>11
  <1> HIDE DEF km
  <1>13. /\ nodes' = [x \in Pages |-> nodes'[x]]
         /\ \A x \in Pages : x \notin {Meta, n, g, q} => nodes'[x] = nodes[x]
         /\ nodes'[n] = LeftHalf(n, sep, q) /\ nodes'[q] = RightHalf(n, sep)
         /\ nodes'[g] = InnerNode(SplitKids(kg, n, sep, q), 0, Top)
         /\ nodes'[Meta] = [nodes[Meta] EXCEPT !.kids = km]
    <2>1. nodes' = [nodes EXCEPT ![Meta].kids = [@ EXCEPT ![Top] = g],
                                 ![g] = InnerNode(SplitKids(kg, n, sep, q), 0, Top),
                                 ![q] = RightHalf(n, sep), ![n] = LeftHalf(n, sep, q)]
      BY <1>3
    <2> DEFINE a == LeftHalf(n, sep, q)
               b == RightHalf(n, sep)
               c == InnerNode(SplitKids(kg, n, sep, q), 0, Top)
    <2>2. nodes' = [nodes EXCEPT ![Meta].kids = km, ![g] = c, ![q] = b, ![n] = a]
      BY <2>1, <1>12
    <2> HIDE DEF a, b, c
    <2>3. QED BY <2>2, <1>5, <1>8, <1>9, <1>10 DEF a, b, c
  <1>14. /\ nd1 = [x \in Pages |-> nd1[x]]
         /\ \A x \in Pages : x # Meta /\ x # g => nd1[x] = nodes[x]
         /\ nd1[g] = InnerNode(kg, 0, Top)
         /\ nd1[Meta] = [nodes[Meta] EXCEPT !.kids = km]
    <2> DEFINE c == InnerNode(kg, 0, Top)
    <2>1. nd1 = [nodes EXCEPT ![Meta].kids = km, ![g] = c] OBVIOUS
    <2> HIDE DEF nd1, c
    <2>2. QED BY <2>1, <1>5, <1>8, <1>9, <1>10 DEF c
  <1> HIDE DEF nd1
  <1>15. PICK mt : mt = nd1[Meta] OBVIOUS
  <1>16. /\ mt.leaf = nodes[Meta].leaf /\ mt.keys = nodes[Meta].keys /\ mt.lo = nodes[Meta].lo
         /\ mt.hi = nodes[Meta].hi /\ mt.next = nodes[Meta].next /\ mt.kids = km /\ IsNode(mt)
    <2>1. PICK d : d = nodes[Meta] OBVIOUS
    <2>2. mt = [d EXCEPT !.kids = km] /\ IsNode(d) BY <2>1, <1>5, <1>10, <1>14, <1>15
    <2>3. /\ mt.leaf = d.leaf /\ mt.keys = d.keys /\ mt.lo = d.lo /\ mt.hi = d.hi
          /\ mt.next = d.next /\ mt.kids = km /\ IsNode(mt)
      BY <2>2, KidsChange
    <2>4. QED BY <2>1, <2>3
  <1>17. MayGrow(nodes, made, h, at, nd1)
    <2>1. km = [s \in {Top} |-> made + 1] BY DEF km, g
    <2>2. nd1[made + 1] = InnerNode([s \in {Top} |-> nodes[Meta].kids[Top]], 0, Top)
      BY <1>11, <1>14 DEF g, kg
    <2>3. made + 1 \in Pages /\ \A x \in Pages : x # Meta /\ x # made + 1 => nd1[x] = nodes[x]
      BY <1>8, <1>14 DEF g
    <2>4. nd1 = [p \in Pages |-> nd1[p]] BY <1>14
    <2>5. QED BY <2>1, <2>2, <2>3, <2>4, <1>1, <1>10, <1>15, <1>16 DEF MayGrow
  <1>18. Effect(nodes, made, nd1, g, {Meta}, {}, {}) BY <1>17, RootEffect DEF g
  <1> DEFINE at2 == GrownAt(h, at, g)
  <1>19. Shape(nd1, g, h + 1, at2) BY <1>17, RootGrows DEF g
  <1>20. /\ l \in 0..(h + 1) /\ l + 1 \in 0..(h + 1) /\ l + 1 < h + 1
         /\ at2[l][i] = n /\ at2[l + 1][i] = g
    <2>1. l \in 0..(h + 1) /\ l + 1 \in 0..(h + 1) /\ l + 1 < h + 1 /\ l < h /\ ~(l + 1 < h)
      BY <1>6, <1>7
    <2>2. at2[l] = at[l] BY <2>1 DEF GrownAt
    <2>3. at2[l + 1] = [k \in Places |-> IF l + 1 = h THEN g ELSE Meta] BY <2>1 DEF GrownAt
    <2>4. QED BY <2>1, <2>2, <2>3, <1>5, <1>6, <1>7 DEF i
  <1> HIDE DEF at2
  <1>21. Halves(nodes[n], nodes'[n], nodes'[q], sep, q) BY <1>10, <1>13, HalvesAre
  <1>22. nd1[n] = nodes[n] BY <1>8, <1>9, <1>14
  <1>23. /\ nodes'[g].leaf = FALSE /\ nodes'[g].keys = nd1[g].keys /\ nodes'[g].next = nd1[g].next
         /\ nodes'[g].lo = nd1[g].lo /\ nodes'[g].hi = nd1[g].hi /\ IsNode(nodes'[g])
         /\ nodes'[g].kids = SplitKids(nd1[g].kids, n, sep, q)
    <2> DEFINE kd == SplitKids(kg, n, sep, q)
    <2>1. PICK c, d : c = nodes'[g] /\ d = nd1[g] OBVIOUS
    <2>2. c = InnerNode(kd, 0, Top) /\ d = InnerNode(kg, 0, Top) BY <2>1, <1>13, <1>14
    <2> HIDE DEF kd
    <2>3. /\ c.leaf = FALSE /\ c.keys = {} /\ c.next = NoPage /\ c.lo = 0 /\ c.hi = Top
          /\ c.kids = kd /\ IsNode(c)
      BY <2>2 DEF InnerNode, IsNode
    <2>4. /\ d.keys = {} /\ d.next = NoPage /\ d.lo = 0 /\ d.hi = Top /\ d.kids = kg
      BY <2>2 DEF InnerNode
    <2>5. QED BY <2>1, <2>3, <2>4 DEF kd
  <1>24. \A x \in Pages : x \notin {g, n, q} => nodes'[x] = nd1[x]
    BY <1>13, <1>14
  <1>25. SplitInto(nd1, nodes', g, n, q, sep)
    BY <1>13, <1>21, <1>22, <1>23, <1>24 DEF SplitInto, Halves
  <1>26. q = g + 1 BY <1>8 DEF g, q
  <1>27. MaySplit(nd1, g, h + 1, at2, nodes', l, i, sep)
    BY <1>4, <1>5, <1>8, <1>19, <1>20, <1>22, <1>25, <1>26 DEF MaySplit
  <1>28. Effect(nd1, g, nodes', q, {n, g}, {}, {})
    <2>1. Effect(nd1, g, nodes', g + 1, {at2[l][i], at2[l + 1][i]}, {}, {}) BY <1>27, SplitEffect
    <2>2. QED BY <2>1, <1>20, <1>26
  <1>29. Effect(nodes, made, nodes', q, {n, Meta}, {}, {})
    <2>1. {Meta} \subseteq {n, Meta} /\ \A x \in {n, g} : x \in 0..made => x \in {n, Meta}
      BY <1>8 DEF g
    <2>2. QED BY <2>1, <1>18, <1>28, EffectThen
  <1>30. QED BY <1>2, <1>29 DEF n
===============================================================================
