---------------------------- MODULE HashTableProofs ----------------------------
(***************************************************************************)
(* Proofs about HashTable, for any number of threads and pages and any     *)
(* finite heap.  The chain behind the head is defined by recursion; here   *)
(* it is the least set that the pointers do not leave (ChainLeast), and    *)
(* what insert and remove do to it follows from that.  The invariant,      *)
(* TableInv, has a part on the bucket's lock, one on the chain, one on the *)
(* latch words, one on the pages, and one on the walks that hold no lock:  *)
(* while the bucket's version is the one it has seen, a walk has behind it *)
(* only entries without its page.                                          *)
(***************************************************************************)
EXTENDS HashTable, FiniteSetTheorems, TLAPS

-------------------------------------------------------------------------------
(* Induction over the naturals, as a fact about sets: the predecessors of a *)
(* counterexample would be as many as themselves without the largest one.   *)
LEMMA SetInduction ==
  ASSUME NEW T, 0 \in T, \A n \in Nat : n \in T => n + 1 \in T
  PROVE  Nat \subseteq T
  <1> SUFFICES ASSUME NEW m \in Nat, m \notin T PROVE FALSE OBVIOUS
  <1> DEFINE B == {k \in 0..m : k \notin T}
             f == [k \in B |-> k - 1]
  <1>1. IsFiniteSet(B)
    <2>1. IsFiniteSet(0..m) BY FS_Interval
    <2>2. B \in SUBSET (0..m) OBVIOUS
    <2>3. QED BY <2>1, <2>2, FS_Subset
  <1>2. m \in B OBVIOUS
  <1>3. IsFiniteSet(B \ {m}) /\ Cardinality(B \ {m}) < Cardinality(B)
    <2>1. IsFiniteSet(B \ {m}) /\ Cardinality(B \ {m}) = Cardinality(B) - 1
      BY <1>1, <1>2, FS_RemoveElement
    <2>2. Cardinality(B) \in Nat BY <1>1, FS_CardinalityType
    <2>3. QED BY <2>1, <2>2
  <1>4. f \in [B -> B \ {m}]
    <2> SUFFICES ASSUME NEW k \in B PROVE k - 1 \in B \ {m} OBVIOUS
    <2>1. k # 0 OBVIOUS
    <2>2. k - 1 \in Nat /\ k - 1 \in 0..m /\ k - 1 # m BY <2>1
    <2>3. k - 1 \notin T
      <3> SUFFICES ASSUME k - 1 \in T PROVE FALSE OBVIOUS
      <3>1. (k - 1) + 1 \in T BY <2>2
      <3>2. (k - 1) + 1 = k OBVIOUS
      <3>3. QED BY <3>1, <3>2
    <2>4. QED BY <2>2, <2>3
  <1>5. \E x, y \in B : x # y /\ f[x] = f[y]
    <2> HIDE DEF B, f
    <2>1. QED BY <1>1, <1>3, <1>4, FS_PigeonHole
  <1>6. QED BY <1>5

-------------------------------------------------------------------------------
(* The chain of a table of pointers: the least set with the head that is    *)
(* closed under them.                                                       *)
Links == [Entries -> Entries \cup {Null}]
Grow(nxt, S) == S \cup ({nxt[e] : e \in S} \ {Null})
Reach(nxt) ==
  CHOOSE f : f = [n \in Nat |-> IF n = 0 THEN {Head}
                                ELSE f[n - 1] \cup ({nxt[e] : e \in f[n - 1]} \ {Null})]
ChainOf(nxt) == Reach(nxt)[Cardinality(Heap)]
Closed(nxt, S) == Head \in S /\ \A e \in S : nxt[e] \in S \cup {Null}

LEMMA ChainIs == Chain = ChainOf(next) /\ Chain' = ChainOf(next')
  BY DEF Chain, ChainOf, Within, Reach

(* Within is defined: by initial pieces, of which there is one of each length. *)
Piece(nxt, g, n) == /\ g \in [0..n -> SUBSET Entries]
                    /\ g[0] = {Head}
                    /\ \A i \in 0..n : i # 0 => g[i] = Grow(nxt, g[i - 1])

LEMMA GrowType ==
  ASSUME NEW nxt \in Links, NEW S \in SUBSET Entries
  PROVE  Grow(nxt, S) \in SUBSET Entries /\ S \subseteq Grow(nxt, S)
  BY DEF Links, Grow

LEMMA PieceExists ==
  ASSUME NEW nxt \in Links
  PROVE  \A n \in Nat : \E g : Piece(nxt, g, n)
  <1> DEFINE T == {n \in Nat : \E g : Piece(nxt, g, n)}
  <1>1. 0 \in T
    <2>1. Piece(nxt, [i \in 0..0 |-> {Head}], 0) BY DEF Piece, Entries
    <2>2. QED BY <2>1
  <1>2. ASSUME NEW n \in Nat, n \in T PROVE n + 1 \in T
    <2>1. PICK g : Piece(nxt, g, n) BY <1>2
    <2> DEFINE h == [i \in 0..(n + 1) |-> IF i = n + 1 THEN Grow(nxt, g[n]) ELSE g[i]]
    <2>2. \A i \in 0..n : g[i] \in SUBSET Entries BY <2>1 DEF Piece
    <2>3. h \in [0..(n + 1) -> SUBSET Entries]
      <3> SUFFICES ASSUME NEW i \in 0..(n + 1) PROVE h[i] \in SUBSET Entries OBVIOUS
      <3>1. CASE i = n + 1 BY <3>1, <2>2, GrowType
      <3>2. CASE i # n + 1
        <4>1. i \in 0..n BY <3>2
        <4>2. QED BY <4>1, <2>2, <3>2
      <3>3. QED BY <3>1, <3>2
    <2>4. h[0] = {Head} BY <2>1 DEF Piece
    <2>5. ASSUME NEW i \in 0..(n + 1), i # 0 PROVE h[i] = Grow(nxt, h[i - 1])
      <3>1. i - 1 \in 0..n /\ i - 1 # n + 1 BY <2>5
      <3>2. h[i - 1] = g[i - 1] BY <3>1
      <3>3. CASE i = n + 1 BY <3>2, <3>3
      <3>4. CASE i # n + 1
        <4>1. i \in 0..n BY <3>4
        <4>2. g[i] = Grow(nxt, g[i - 1]) BY <4>1, <2>1, <2>5 DEF Piece
        <4>3. h[i] = g[i] BY <3>4
        <4>4. QED BY <4>2, <4>3, <3>2
      <3>5. QED BY <3>3, <3>4
    <2>6. Piece(nxt, h, n + 1)
      <3> HIDE DEF h
      <3>1. QED BY <2>3, <2>4, <2>5 DEF Piece
    <2>7. QED BY <2>6
  <1>3. Nat \subseteq T
    <2> HIDE DEF T
    <2>1. QED BY <1>1, <1>2, SetInduction
  <1>4. QED BY <1>3

LEMMA PiecesAgree ==
  ASSUME NEW nxt, NEW n \in Nat, NEW m \in Nat, n <= m, NEW g, NEW h,
         Piece(nxt, g, n), Piece(nxt, h, m)
  PROVE  \A i \in 0..n : g[i] = h[i]
  <1> DEFINE T == {i \in Nat : i <= n => g[i] = h[i]}
  <1>1. 0 \in T BY DEF Piece
  <1>2. ASSUME NEW i \in Nat, i \in T PROVE i + 1 \in T
    <2> SUFFICES ASSUME i + 1 <= n PROVE g[i + 1] = h[i + 1] OBVIOUS
    <2>1. i + 1 \in 0..n /\ i + 1 \in 0..m /\ i + 1 # 0 /\ (i + 1) - 1 = i OBVIOUS
    <2>2. g[i] = h[i] BY <1>2
    <2>3. g[i + 1] = Grow(nxt, g[i]) BY <2>1 DEF Piece
    <2>4. h[i + 1] = Grow(nxt, h[i]) BY <2>1 DEF Piece
    <2>5. QED BY <2>2, <2>3, <2>4
  <1>3. Nat \subseteq T
    <2> HIDE DEF T
    <2>1. QED BY <1>1, <1>2, SetInduction
  <1>4. QED BY <1>3

LEMMA ReachDefined ==
  ASSUME NEW nxt \in Links
  PROVE  /\ Reach(nxt)[0] = {Head}
         /\ \A n \in Nat : /\ Reach(nxt)[n] \in SUBSET Entries
                           /\ Reach(nxt)[n + 1] = Grow(nxt, Reach(nxt)[n])
  <1> DEFINE P(n) == CHOOSE g : Piece(nxt, g, n)
             f == [n \in Nat |-> P(n)[n]]
  <1>1. \A n \in Nat : Piece(nxt, P(n), n)
    <2> SUFFICES ASSUME NEW n \in Nat PROVE Piece(nxt, P(n), n) OBVIOUS
    <2>1. \E g : Piece(nxt, g, n) BY PieceExists
    <2>2. QED BY <2>1
  <1> HIDE DEF P
  <1>2. f[0] = {Head} BY <1>1 DEF Piece
  <1>3. ASSUME NEW n \in Nat PROVE f[n] \in SUBSET Entries
    BY <1>1 DEF Piece
  <1>4. ASSUME NEW n \in Nat PROVE f[n + 1] = Grow(nxt, f[n])
    <2>1. Piece(nxt, P(n), n) /\ Piece(nxt, P(n + 1), n + 1) BY <1>1
    <2>2. n <= n + 1 /\ n \in 0..n /\ n + 1 \in Nat OBVIOUS
    <2>3. P(n)[n] = P(n + 1)[n] BY <2>1, <2>2, PiecesAgree
    <2>4. n + 1 \in 0..(n + 1) /\ n + 1 # 0 /\ (n + 1) - 1 = n OBVIOUS
    <2>5. P(n + 1)[n + 1] = Grow(nxt, P(n + 1)[n]) BY <2>1, <2>4 DEF Piece
    <2>6. QED BY <2>3, <2>5
  <1> DEFINE body(h) == [n \in Nat |-> IF n = 0 THEN {Head}
                                       ELSE h[n - 1] \cup ({nxt[e] : e \in h[n - 1]} \ {Null})]
  <1>5. f = body(f)
    <2>1. ASSUME NEW n \in Nat PROVE f[n] = body(f)[n]
      <3>1. CASE n = 0 BY <3>1, <1>2
      <3>2. CASE n # 0
        <4>1. n - 1 \in Nat /\ (n - 1) + 1 = n BY <3>2
        <4>2. f[n] = Grow(nxt, f[n - 1]) BY <4>1, <1>4
        <4> HIDE DEF f
        <4>3. body(f)[n] = Grow(nxt, f[n - 1]) BY <3>2 DEF Grow
        <4>4. QED BY <4>2, <4>3
      <3>3. QED BY <3>1, <3>2
    <2>2. QED BY <2>1
  <1>6. Reach(nxt) = body(Reach(nxt))
    <2> HIDE DEF f
    <2>1. QED BY <1>5 DEF Reach
  <1> DEFINE r == Reach(nxt)
  <1>7. r[0] = {Head} BY <1>6
  <1>8. ASSUME NEW n \in Nat PROVE r[n + 1] = Grow(nxt, r[n])
    <2>1. n + 1 \in Nat /\ n + 1 # 0 /\ (n + 1) - 1 = n OBVIOUS
    <2> HIDE DEF r
    <2>2. r = body(r) BY <1>6 DEF r
    <2>3. r[n + 1] = body(r)[n + 1] BY <2>2
    <2>4. body(r)[n + 1] = r[n] \cup ({nxt[e] : e \in r[n]} \ {Null}) BY <2>1
    <2>5. QED BY <2>3, <2>4 DEF Grow
  <1> HIDE DEF r
  <1>9. \A n \in Nat : r[n] \in SUBSET Entries
    <2> DEFINE T == {n \in Nat : r[n] \in SUBSET Entries}
    <2>1. 0 \in T BY <1>7 DEF Entries
    <2>2. ASSUME NEW n \in Nat, n \in T PROVE n + 1 \in T BY <2>2, <1>8, GrowType
    <2>3. Nat \subseteq T
      <3> HIDE DEF T
      <3>1. QED BY <2>1, <2>2, SetInduction
    <2>4. QED BY <2>3
  <1>10. QED BY <1>7, <1>8, <1>9 DEF r

(* Following as many pointers as there are heap entries is enough: each round *)
(* adds an entry until one adds none.                                         *)
LEMMA ChainStable ==
  ASSUME NEW nxt \in Links
  PROVE  Grow(nxt, ChainOf(nxt)) = ChainOf(nxt)
  <1> DEFINE r == Reach(nxt)
             N == Cardinality(Heap)
  <1>1. /\ r[0] = {Head}
        /\ \A n \in Nat : r[n] \in SUBSET Entries /\ r[n + 1] = Grow(nxt, r[n])
    BY ReachDefined
  <1>2. N \in Nat BY HeapAssumption, FS_CardinalityType
  <1>3. IsFiniteSet(Entries) /\ Cardinality(Entries) = N + 1
    BY HeapAssumption, EntriesAssumption, FS_AddElement DEF Entries
  <1> SUFFICES ASSUME Grow(nxt, r[N]) # r[N] PROVE FALSE BY DEF ChainOf
  <1> HIDE DEF r, N
  <1>4. ASSUME NEW i \in Nat, i <= N PROVE r[i + 1] # r[i]
    <2> SUFFICES ASSUME r[i + 1] = r[i] PROVE FALSE OBVIOUS
    <2> DEFINE T == {k \in Nat : r[i + k] = r[i]}
    <2>1. 0 \in T OBVIOUS
    <2>2. ASSUME NEW k \in Nat, k \in T PROVE k + 1 \in T
      <3>1. i + k \in Nat /\ i + (k + 1) = (i + k) + 1 OBVIOUS
      <3>2. r[i + k] = r[i] BY <2>2
      <3>3. r[i + (k + 1)] = Grow(nxt, r[i + k]) BY <3>1, <1>1
      <3>4. r[i + (k + 1)] = r[i + 1] BY <3>2, <3>3, <1>1
      <3>5. QED BY <3>4
    <2>3. Nat \subseteq T
      <3> HIDE DEF T
      <3>1. QED BY <2>1, <2>2, SetInduction
    <2>4. N - i \in Nat /\ i + (N - i) = N /\ (N + 1) - i \in Nat /\ i + ((N + 1) - i) = N + 1
      BY <1>2, <1>4
    <2>5. N - i \in T /\ (N + 1) - i \in T BY <2>3, <2>4
    <2>6. r[N] = r[i] /\ r[N + 1] = r[i] BY <2>4, <2>5
    <2>7. r[N + 1] = Grow(nxt, r[N]) BY <1>1, <1>2
    <2>8. QED BY <2>6, <2>7
  <1> DEFINE U == {i \in Nat : i <= N + 1 => IsFiniteSet(r[i]) /\ Cardinality(r[i]) >= i + 1}
  <1>5. 0 \in U
    <2>1. IsFiniteSet({Head}) /\ Cardinality({Head}) = 1 BY FS_Singleton
    <2>2. QED BY <2>1, <1>1
  <1>6. ASSUME NEW i \in Nat, i \in U PROVE i + 1 \in U
    <2> SUFFICES ASSUME i + 1 <= N + 1
                 PROVE  IsFiniteSet(r[i + 1]) /\ Cardinality(r[i + 1]) >= (i + 1) + 1
      OBVIOUS
    <2>1. i <= N BY <1>2
    <2>2. IsFiniteSet(r[i]) /\ Cardinality(r[i]) >= i + 1 BY <1>6, <2>1, <1>2
    <2>3. r[i] \subseteq r[i + 1] BY <1>1, GrowType
    <2>4. IsFiniteSet(r[i + 1])
      <3>1. r[i + 1] \in SUBSET Entries BY <1>1
      <3>2. QED BY <3>1, <1>3, FS_Subset
    <2>5. Cardinality(r[i]) <= Cardinality(r[i + 1]) /\ Cardinality(r[i]) # Cardinality(r[i + 1])
      <3>1. r[i] \in SUBSET r[i + 1] BY <2>3
      <3>2. r[i + 1] # r[i] BY <1>4, <2>1
      <3>3. QED BY <3>1, <3>2, <2>4, FS_Subset
    <2>6. Cardinality(r[i]) \in Nat /\ Cardinality(r[i + 1]) \in Nat BY <2>2, <2>4, FS_CardinalityType
    <2>7. QED BY <2>2, <2>4, <2>5, <2>6
  <1>7. Nat \subseteq U
    <2> HIDE DEF U
    <2>1. QED BY <1>5, <1>6, SetInduction
  <1>8. N + 1 \in Nat /\ Cardinality(r[N + 1]) >= (N + 1) + 1 BY <1>2, <1>7
  <1>9. Cardinality(r[N + 1]) <= N + 1
    <2>1. r[N + 1] \in SUBSET Entries BY <1>1, <1>8
    <2>2. QED BY <2>1, <1>3, FS_Subset
  <1>10. Cardinality(r[N + 1]) \in Nat
    <2>1. r[N + 1] \in SUBSET Entries BY <1>1, <1>8
    <2>2. QED BY <2>1, <1>3, FS_Subset, FS_CardinalityType
  <1>11. QED BY <1>2, <1>8, <1>9, <1>10

LEMMA ChainLeast ==
  ASSUME NEW nxt \in Links
  PROVE  /\ ChainOf(nxt) \in SUBSET Entries
         /\ Closed(nxt, ChainOf(nxt))
         /\ \A S : Closed(nxt, S) => ChainOf(nxt) \subseteq S
  <1> DEFINE r == Reach(nxt)
             N == Cardinality(Heap)
  <1>1. /\ r[0] = {Head}
        /\ \A n \in Nat : r[n] \in SUBSET Entries /\ r[n + 1] = Grow(nxt, r[n])
    BY ReachDefined
  <1>2. N \in Nat BY HeapAssumption, FS_CardinalityType
  <1>3. Grow(nxt, r[N]) = r[N] BY ChainStable DEF ChainOf
  <1> HIDE DEF r, N
  <1>4. \A n \in Nat : Head \in r[n]
    <2> DEFINE T == {n \in Nat : Head \in r[n]}
    <2>1. 0 \in T BY <1>1
    <2>2. ASSUME NEW n \in Nat, n \in T PROVE n + 1 \in T BY <2>2, <1>1, GrowType
    <2>3. Nat \subseteq T
      <3> HIDE DEF T
      <3>1. QED BY <2>1, <2>2, SetInduction
    <2>4. QED BY <2>3
  <1>5. Closed(nxt, r[N])
    <2>1. ASSUME NEW e \in r[N] PROVE nxt[e] \in r[N] \cup {Null} BY <1>3 DEF Grow
    <2>2. QED BY <2>1, <1>2, <1>4 DEF Closed
  <1>6. ASSUME NEW S, Closed(nxt, S) PROVE r[N] \subseteq S
    <2> DEFINE T == {n \in Nat : r[n] \subseteq S}
    <2>1. 0 \in T BY <1>1, <1>6 DEF Closed
    <2>2. ASSUME NEW n \in Nat, n \in T PROVE n + 1 \in T
      <3>1. r[n + 1] = Grow(nxt, r[n]) BY <1>1
      <3>2. Grow(nxt, r[n]) \subseteq S BY <2>2, <1>6 DEF Grow, Closed
      <3>3. QED BY <3>1, <3>2
    <2>3. Nat \subseteq T
      <3> HIDE DEF T
      <3>1. QED BY <2>1, <2>2, SetInduction
    <2>4. QED BY <2>3, <1>2
  <1>7. QED BY <1>1, <1>2, <1>5, <1>6 DEF ChainOf, r, N

(* insert: e, whose pointer is the head's, goes behind the head. *)
LEMMA ChainInsert ==
  ASSUME NEW nxt \in Links, NEW e \in Heap \ ChainOf(nxt), nxt[e] = nxt[Head]
  PROVE  ChainOf([nxt EXCEPT ![Head] = e]) = ChainOf(nxt) \cup {e}
  <1> DEFINE C == ChainOf(nxt)
             after == [nxt EXCEPT ![Head] = e]
  <1>1. after \in Links /\ Head \in Entries /\ e \in Entries /\ e # Head
    BY EntriesAssumption DEF Links, Entries
  <1>2. C \in SUBSET Entries /\ Closed(nxt, C) BY ChainLeast
  <1>3. Closed(after, C \cup {e})
    BY <1>1, <1>2 DEF Closed, Links
  <1>4. ASSUME NEW S \in SUBSET Entries, Closed(after, S) PROVE C \cup {e} \subseteq S
    <2>1. Head \in S /\ after[Head] = e BY <1>4, <1>1 DEF Closed, Links
    <2>2. e \in S BY <2>1, <1>4, <1>1, EntriesAssumption DEF Closed
    <2>3. \A x \in S : nxt[x] \in S \cup {Null} BY <2>1, <2>2, <1>1, <1>4 DEF Closed, Links
    <2>4. Closed(nxt, S) BY <2>1, <2>3 DEF Closed
    <2>5. QED BY <2>2, <2>4, ChainLeast
  <1>5. ChainOf(after) \in SUBSET Entries /\ Closed(after, ChainOf(after)) BY <1>1, ChainLeast
  <1>6. ChainOf(after) \subseteq C \cup {e} BY <1>1, <1>3, ChainLeast
  <1>7. C \cup {e} \subseteq ChainOf(after)
    <2> HIDE DEF C, after
    <2>1. QED BY <1>4, <1>5
  <1>8. QED BY <1>6, <1>7

Acyclic(nxt, C) == /\ \A x \in C : nxt[x] # Head
                   /\ \A x, y \in C : nxt[x] = nxt[y] /\ nxt[x] # Null => x = y

(* An entry in a loop would only be reached from the loop. *)
LEMMA NoLoops ==
  ASSUME NEW nxt \in Links, Acyclic(nxt, ChainOf(nxt)), NEW e \in ChainOf(nxt)
  PROVE  /\ nxt[e] # e
         /\ \A x \in ChainOf(nxt) : nxt[x] = e => nxt[e] # x
  <1> DEFINE C == ChainOf(nxt)
  <1>1. C \in SUBSET Entries /\ Closed(nxt, C) /\ \A S : Closed(nxt, S) => C \subseteq S
    BY ChainLeast
  <1>2. Head \in C /\ e # Null /\ Acyclic(nxt, C) /\ Null \notin C BY <1>1, EntriesAssumption DEF Closed
  <1> HIDE DEF C
  <1> USE DEF C
  <1>3. ASSUME nxt[e] = e PROVE FALSE
    <2>1. e # Head BY <1>2, <1>3 DEF Acyclic
    <2>2. Closed(nxt, C \ {e}) BY <2>1, <1>1, <1>2, <1>3 DEF Closed, Acyclic
    <2>3. QED BY <2>2, <1>1
  <1>4. ASSUME NEW x \in C, nxt[x] = e, nxt[e] = x PROVE FALSE
    <2>1. e # Head /\ x # Head BY <1>2, <1>4 DEF Acyclic
    <2>2. Closed(nxt, C \ {e, x}) BY <2>1, <1>1, <1>2, <1>4 DEF Closed, Acyclic
    <2>3. QED BY <2>2, <1>1
  <1>5. QED BY <1>3, <1>4

(* remove: whoever points to e points behind it. *)
LEMMA ChainUnlink ==
  ASSUME NEW nxt \in Links, Acyclic(nxt, ChainOf(nxt)), NEW e \in ChainOf(nxt) \ {Head},
         NEW after \in Links,
         after = [x \in Entries |-> IF x \in ChainOf(nxt) /\ nxt[x] = e THEN nxt[e] ELSE nxt[x]]
  PROVE  ChainOf(after) = ChainOf(nxt) \ {e} /\ Acyclic(after, ChainOf(after))
  <1> DEFINE C == ChainOf(nxt)
  <1>1. C \in SUBSET Entries /\ Closed(nxt, C) /\ \A S : Closed(nxt, S) => C \subseteq S
    BY ChainLeast
  <1>2. e \in Entries /\ e # Null /\ Head \in C /\ Head \in Entries
    BY <1>1, EntriesAssumption DEF Closed, Entries
  <1>3. nxt[e] # e /\ \A x \in C : nxt[x] = e => nxt[e] # x BY NoLoops
  <1>4. \A x \in C : after[x] = IF nxt[x] = e THEN nxt[e] ELSE nxt[x] BY <1>1
  <1>5. Closed(after, C \ {e})
    BY <1>1, <1>2, <1>3, <1>4 DEF Closed
  <1>6. ChainOf(after) \in SUBSET Entries /\ Closed(after, ChainOf(after))
        /\ ChainOf(after) \subseteq C \ {e}
    BY <1>5, ChainLeast
  <1> DEFINE D == ChainOf(after)
  <1> HIDE DEF C, D
  <1>7. C \subseteq D \cup {e}
    <2>1. CASE \E x \in D : nxt[x] = e
      <3>1. PICK x \in D : nxt[x] = e BY <2>1
      <3>2. x \in C /\ after[x] = nxt[e] BY <3>1, <1>4, <1>6 DEF D
      <3>3. nxt[e] \in D \cup {Null} BY <3>1, <3>2, <1>6 DEF Closed, D
      <3>4. \A y \in D : nxt[y] \in D \cup {e, Null}
        BY <1>4, <1>6 DEF Closed, D
      <3>5. Head \in D BY <1>6 DEF Closed, D
      <3>6. Closed(nxt, D \cup {e}) BY <3>3, <3>4, <3>5 DEF Closed
      <3>7. QED BY <3>6, <1>1
    <2>2. CASE ~ \E x \in D : nxt[x] = e
      <3>1. \A y \in D : nxt[y] \in D \cup {Null} BY <2>2, <1>4, <1>6 DEF Closed, D
      <3>2. Closed(nxt, D) BY <3>1, <1>6 DEF Closed, D
      <3>3. QED BY <3>2, <1>1
    <2>3. QED BY <2>1, <2>2
  <1>8. D = C \ {e} BY <1>6, <1>7 DEF D
  <1>9. Acyclic(after, C \ {e})
    <2>1. Acyclic(nxt, C) BY DEF C
    <2>2. ASSUME NEW x \in C \ {e} PROVE after[x] # Head
      BY <2>1, <1>2, <1>4, <1>1 DEF Acyclic, C
    <2>3. ASSUME NEW x \in C \ {e}, NEW y \in C \ {e}, after[x] = after[y], after[x] # Null PROVE x = y
      <3>1. nxt[e] # Null /\ nxt[x] = e => ~(nxt[y] = nxt[e]) BY <2>1, <1>2 DEF Acyclic, C
      <3>2. nxt[e] # Null /\ nxt[y] = e => ~(nxt[x] = nxt[e]) BY <2>1, <1>2 DEF Acyclic, C
      <3>3. nxt[x] = e /\ nxt[y] = e => x = y BY <2>1, <1>2 DEF Acyclic
      <3>4. QED BY <3>1, <3>2, <3>3, <2>1, <2>3, <1>4 DEF Acyclic
    <2>4. QED BY <2>2, <2>3 DEF Acyclic
  <1>10. QED BY <1>8, <1>9 DEF C, D

-------------------------------------------------------------------------------
(* The inductive invariant. *)

AtEntry == {"compare", "loadWord", "present", "follow", "checkWord", "hit", "fill", "link", "lockNew",
            "inserted", "holding", "removing", "find", "emptyHead", "emptied", "unlink", "unlinked",
            "invalidate", "recycle"}
InHandsAt == {"fill", "link", "unlinked", "invalidate", "recycle"}
Phases == AtEntry \cup {"idle", "load", "checkNext", "miss", "refused", "lockBucket", "insert"}

Types ==
  /\ bucket \in [version : Nat, locked : BOOLEAN]
  /\ pidOf \in [Entries -> Pids \cup {NoPid}] /\ next \in Links /\ word \in [Entries -> Word]
  /\ freeEntries \subseteq made /\ made \subseteq Heap
  /\ pc \in [Threads -> Phases] /\ want \in [Threads -> Pids \cup {NoPid}]
  /\ inserts \in [Threads -> BOOLEAN] /\ vBucket \in [Threads -> Nat]
  /\ cur \in [Threads -> Entries \cup {Null}] /\ vEntry \in [Threads -> Word]
  /\ \A t \in Threads : /\ pc[t] # "idle" => want[t] \in Pids
                        /\ pc[t] \in AtEntry => cur[t] \in Entries
                        /\ pc[t] \in InHandsAt \cup {"unlink"} => cur[t] \in Heap

(* The bucket's lock: one thread at a time changes the chain or the pages in it, *)
(* and no walk has seen a version to come.                                       *)
Critical == {"insert", "fill", "link", "lockNew", "inserted",
             "find", "emptyHead", "emptied", "unlink", "unlinked"}
BucketLock ==
  /\ \A t \in Threads : pc[t] \in Critical => bucket.locked
  /\ \A t, u \in Threads : pc[t] \in Critical /\ pc[u] \in Critical => t = u
  /\ \A t \in Threads : vBucket[t] <= bucket.version

(* The chain has no loop and is the head and made entries; what is not in it is free *)
(* or in the hands of one thread.                                                    *)
Shape ==
  /\ Acyclic(next, Chain) /\ Chain \ {Head} \subseteq made
  /\ freeEntries \cap Chain = {}
  /\ \A e \in made : \/ e \in Chain \/ e \in freeEntries
                     \/ \E t \in Threads : pc[t] \in InHandsAt /\ cur[t] = e
  /\ \A t \in Threads : pc[t] \in InHandsAt => cur[t] \in made \ (Chain \cup freeEntries)
  /\ \A t, u \in Threads :
       pc[t] \in InHandsAt /\ pc[u] \in InHandsAt /\ cur[t] = cur[u] => t = u
  /\ \A t \in Threads : pc[t] = "link" => next[cur[t]] = next[Head]

(* The latch words: only an entry of the chain with a page can be locked, and a locked *)
(* entry has one holder.                                                               *)
Holding == {"inserted", "holding", "removing", "find", "emptyHead", "unlink", "unlinked", "invalidate"}
Words ==
  /\ \A e \in Entries : word[e].state \in {Unlocked, Locked, Invalid}
  /\ \A e \in Entries : word[e].state = Unlocked => e \in Chain /\ pidOf[e] \in Pids
  /\ \A e \in Heap : e \in freeEntries \/ e \notin made => word[e].state = Invalid
  /\ pidOf[Head] = NoPid /\ (\A t \in Threads : pc[t] # "emptyHead") => word[Head].state = Invalid
  /\ \A t \in Threads : pc[t] \in {"fill", "link", "lockNew", "recycle"} => word[cur[t]].state = Invalid
  /\ \A t \in Threads : pc[t] \in Holding => word[cur[t]].state = Locked
  /\ \A t, u \in Threads :
       pc[t] \in Holding /\ pc[u] \in Holding /\ cur[t] = cur[u] => t = u

(* The pages: one entry each, and a holder's entry has its page. *)
Absent(p) == \A e \in Chain : pidOf[e] # p
Pages ==
  /\ \A x, y \in Chain : pidOf[x] = pidOf[y] /\ pidOf[x] \in Pids => x = y
  /\ \A t \in Threads :
       /\ pc[t] \in {"lockNew", "inserted", "holding", "removing", "find"} =>
            cur[t] \in Chain /\ pidOf[cur[t]] = want[t]
       /\ pc[t] \in {"fill", "link"} => pidOf[cur[t]] = want[t]
       /\ pc[t] \in {"emptyHead", "emptied"} => cur[t] = Head /\ pidOf[Head] = NoPid
       /\ pc[t] = "unlink" => cur[t] \in Chain /\ pidOf[cur[t]] = NoPid
       /\ pc[t] \in {"insert", "fill", "link"} => Absent(want[t])

(* A walk that nothing has disturbed: the entries behind it do not have its page. *)
Passed(t, S) == /\ S \subseteq Entries /\ \A e \in S : pidOf[e] # want[t]
                /\ Head \in S \cup {cur[t]}
                /\ \A e \in S : next[e] \in S \cup {cur[t], Null}
Walking(t) == cur[t] \in Chain \cup {Null} /\ \E S : Passed(t, S)
AtPage(t) == cur[t] \in Chain /\ pidOf[cur[t]] = want[t]
(* An entry found: it has the page until its word changes for good. *)
Kept(t) ==
  LockableX(vEntry[t]) =>
    \/ word[cur[t]].version > vEntry[t].version
    \/ word[cur[t]].version = vEntry[t].version /\ word[cur[t]].state = Locked
    \/ word[cur[t]] = vEntry[t] /\ pidOf[cur[t]] = want[t]
Walks ==
  \A t \in Threads :
    /\ Unchanged(t) =>
         /\ pc[t] \in {"compare", "follow", "checkNext"} => Walking(t)
         /\ pc[t] = "follow" => pidOf[cur[t]] # want[t]
         /\ pc[t] \in {"loadWord", "checkWord", "present"} => AtPage(t)
         /\ pc[t] = "checkWord" => Kept(t)
         /\ pc[t] = "lockBucket" => Absent(want[t])
    /\ pc[t] = "hit" => Kept(t)

TableInv == Types /\ BucketLock /\ Shape /\ Words /\ Pages /\ Walks
-------------------------------------------------------------------------------
(* The steps. *)

LEMMA ChainFacts ==
  ASSUME Types
  PROVE  /\ Chain \in SUBSET Entries /\ Closed(next, Chain)
         /\ \A S : Closed(next, S) => Chain \subseteq S
         /\ Head \in Chain /\ Null \notin Chain /\ Head \in Entries /\ Heap \subseteq Entries
         /\ \A e \in Chain \ {Head} : e \in Heap
         /\ next' = next => Chain' = Chain
  BY ChainIs, ChainLeast, EntriesAssumption DEF Types, Closed, Entries

LEMMA WordFacts ==
  /\ InitWord \in Word /\ InitWord.state = Invalid
  /\ Unlocked # Locked /\ Unlocked # Invalid /\ Locked # Invalid
  /\ \A w \in Word :
            /\ w.version \in Nat
            /\ \A s \in {Unlocked, Locked, Invalid} :
                 /\ SameVersion(w, s) \in Word /\ NextVersion(w, s) \in Word
                 /\ SameVersion(w, s).state = s /\ SameVersion(w, s).version = w.version
                 /\ NextVersion(w, s).state = s /\ NextVersion(w, s).version = w.version + 1
            /\ LockableX(w) => w.state # Locked /\ w.state # Invalid
  BY MaxSharedAssumption
     DEF InitWord, Word, Unlocked, Locked, Invalid, Marked, SameVersion, NextVersion, LockableX

(* A step changes what its own thread remembers. *)
Alone(t) ==
  \A u \in Threads \ {t} :
    /\ pc'[u] = pc[u] /\ want'[u] = want[u] /\ vBucket'[u] = vBucket[u]
    /\ cur'[u] = cur[u] /\ vEntry'[u] = vEntry[u]

LEMMA AloneStep ==
  ASSUME Types, NEW t \in Threads, Step(t)
  PROVE  Alone(t)
  <1> USE DEF Alone, Types
  <1>1. CASE \E p \in Pids : Call(t, p)
    BY <1>1 DEF Call, entries, pool, walk, Goto
  <1>2. CASE LoadBucket(t)
    BY <1>2 DEF LoadBucket, entries, pool, Goto
  <1>3. CASE ComparePid(t)
    BY <1>3 DEF ComparePid, entries, pool, walk, Found, Goto
  <1>4. CASE Follow(t)
    BY <1>4 DEF Follow, entries, pool, Goto
  <1>5. CASE CheckNext(t)
    BY <1>5 DEF CheckNext, entries, pool, walk, Followed, Goto, Restart, EndWalk
  <1>6. CASE LoadWord(t)
    BY <1>6 DEF LoadWord, entries, pool, Goto
  <1>7. CASE CheckWord(t)
    BY <1>7 DEF CheckWord, entries, pool, walk, Goto, Restart, EndWalk
  <1>8. CASE LockEntry(t)
    BY <1>8 DEF LockEntry, pool, Goto, Restart, EndWalk
  <1>9. CASE Drop(t)
    BY <1>9 DEF Drop, entries, pool, Goto, Done, EndWalk
  <1>10. CASE Fault(t)
    BY <1>10 DEF Fault, entries, pool, Restart, Goto, EndWalk
  <1>11. CASE CheckPresent(t)
    BY <1>11 DEF CheckPresent, entries, pool, walk, Goto, Restart, EndWalk
  <1>12. CASE Refused(t)
    BY <1>12 DEF Refused, entries, pool, Restart, Goto, EndWalk
  <1>13. CASE LockBucket(t)
    BY <1>13 DEF LockBucket, entries, pool, walk, SwapBucket, Goto, Restart, EndWalk
  <1>14. CASE InsertAtHead(t)
    BY <1>14 DEF InsertAtHead, pool, Goto
  <1>15. CASE TakeEntry(t)
    BY <1>15 DEF TakeEntry, Goto
  <1>16. CASE Fill(t)
    BY <1>16 DEF Fill, pool, walk, Goto
  <1>17. CASE Link(t)
    BY <1>17 DEF Link, pool, walk, Goto
  <1>18. CASE LockNew(t)
    BY <1>18 DEF LockNew, pool, walk, Goto
  <1>19. CASE UnlockInserted(t)
    BY <1>19 DEF UnlockInserted, entries, pool, UnlockBucket, Goto, EndWalk
  <1>20. CASE Release(t)
    BY <1>20 DEF Release, pool, Goto, Done, EndWalk
  <1>21. CASE Evict(t)
    BY <1>21 DEF Evict, entries, pool, walk, Goto
  <1>22. CASE LockToRemove(t)
    BY <1>22 DEF LockToRemove, entries, pool, walk, Goto
  <1>23. CASE FindAtHead(t)
    BY <1>23 DEF FindAtHead, pool, Goto
  <1>24. CASE InvalidateHead(t)
    BY <1>24 DEF InvalidateHead, pool, walk, Goto
  <1>25. CASE UnlockEmptied(t)
    BY <1>25 DEF UnlockEmptied, entries, pool, UnlockBucket, Goto, Done, EndWalk
  <1>26. CASE FindInChain(t)
    BY <1>26 DEF FindInChain, pool, Goto
  <1>27. CASE Unlink(t)
    BY <1>27 DEF Unlink, pool, walk, Goto
  <1>28. CASE UnlockUnlinked(t)
    BY <1>28 DEF UnlockUnlinked, entries, pool, walk, UnlockBucket, Goto
  <1>29. CASE Invalidate(t)
    BY <1>29 DEF Invalidate, pool, walk, Goto
  <1>30. CASE Recycle(t)
    BY <1>30 DEF Recycle, entries, Goto, Done, EndWalk
  <1>31. QED
    BY <1>1, <1>2, <1>3, <1>4, <1>5, <1>6, <1>7, <1>8, <1>9, <1>10, <1>11, <1>12, <1>13, <1>14,
       <1>15, <1>16, <1>17, <1>18, <1>19, <1>20, <1>21, <1>22, <1>23, <1>24, <1>25, <1>26,
       <1>27, <1>28, <1>29, <1>30 DEF Step

LEMMA TypesStep ==
  ASSUME TableInv, NEW t \in Threads, Step(t)
  PROVE  Types'
  <1> USE EntriesAssumption, WordFacts, ChainFacts
      DEF TableInv, Types, Links, Phases, AtEntry, InHandsAt, Entries
  <1>1. CASE \E p \in Pids : Call(t, p)
    BY <1>1 DEF Call, entries, pool, walk, Goto
  <1>2. CASE LoadBucket(t)
    BY <1>2 DEF LoadBucket, entries, pool, Goto
  <1>3. CASE ComparePid(t)
    BY <1>3 DEF ComparePid, entries, pool, walk, Found, Goto
  <1>4. CASE Follow(t)
    BY <1>4 DEF Follow, entries, pool, Goto
  <1>5. CASE CheckNext(t)
    BY <1>5 DEF CheckNext, entries, pool, walk, Followed, Goto, Restart, EndWalk
  <1>6. CASE LoadWord(t)
    BY <1>6 DEF LoadWord, entries, pool, Goto
  <1>7. CASE CheckWord(t)
    BY <1>7 DEF CheckWord, entries, pool, walk, Goto, Restart, EndWalk
  <1>8. CASE LockEntry(t)
    BY <1>8 DEF LockEntry, pool, Goto, Restart, EndWalk
  <1>9. CASE Drop(t)
    BY <1>9 DEF Drop, entries, pool, Goto, Done, EndWalk
  <1>10. CASE Fault(t)
    BY <1>10 DEF Fault, entries, pool, Restart, Goto, EndWalk
  <1>11. CASE CheckPresent(t)
    BY <1>11 DEF CheckPresent, entries, pool, walk, Goto, Restart, EndWalk
  <1>12. CASE Refused(t)
    BY <1>12 DEF Refused, entries, pool, Restart, Goto, EndWalk
  <1>13. CASE LockBucket(t)
    <2>1. bucket' \in [version : Nat, locked : BOOLEAN]
      BY <1>13 DEF LockBucket, SwapBucket
    <2>2. QED BY <2>1, <1>13 DEF LockBucket, Goto, Restart, EndWalk, entries, pool, walk
  <1>14. CASE InsertAtHead(t)
    BY <1>14 DEF InsertAtHead, pool, Goto
  <1>15. CASE TakeEntry(t)
    BY <1>15 DEF TakeEntry, Goto
  <1>16. CASE Fill(t)
    BY <1>16 DEF Fill, pool, walk, Goto
  <1>17. CASE Link(t)
    BY <1>17 DEF Link, pool, walk, Goto
  <1>18. CASE LockNew(t)
    BY <1>18 DEF LockNew, pool, walk, Goto
  <1>19. CASE UnlockInserted(t)
    BY <1>19 DEF UnlockInserted, entries, pool, UnlockBucket, Goto, EndWalk
  <1>20. CASE Release(t)
    BY <1>20 DEF Release, pool, Goto, Done, EndWalk
  <1>21. CASE Evict(t)
    BY <1>21 DEF Evict, entries, pool, walk, Goto
  <1>22. CASE LockToRemove(t)
    BY <1>22 DEF LockToRemove, entries, pool, walk, Goto
  <1>23. CASE FindAtHead(t)
    BY <1>23 DEF FindAtHead, pool, Goto
  <1>24. CASE InvalidateHead(t)
    BY <1>24 DEF InvalidateHead, pool, walk, Goto
  <1>25. CASE UnlockEmptied(t)
    BY <1>25 DEF UnlockEmptied, entries, pool, UnlockBucket, Goto, Done, EndWalk
  <1>26. CASE FindInChain(t)
    BY <1>26 DEF FindInChain, pool, Goto
  <1>27. CASE Unlink(t)
    BY <1>27 DEF Unlink, pool, walk, Goto
  <1>28. CASE UnlockUnlinked(t)
    BY <1>28 DEF UnlockUnlinked, entries, pool, walk, UnlockBucket, Goto
  <1>29. CASE Invalidate(t)
    BY <1>29 DEF Invalidate, pool, walk, Goto
  <1>30. CASE Recycle(t)
    <2>1. cur[t] \in made BY <1>30 DEF Recycle, Goto, Shape
    <2>2. QED BY <2>1, <1>30 DEF Recycle, Goto, Done, EndWalk, entries
  <1>31. QED
    BY <1>1, <1>2, <1>3, <1>4, <1>5, <1>6, <1>7, <1>8, <1>9, <1>10, <1>11, <1>12, <1>13, <1>14,
       <1>15, <1>16, <1>17, <1>18, <1>19, <1>20, <1>21, <1>22, <1>23, <1>24, <1>25, <1>26,
       <1>27, <1>28, <1>29, <1>30 DEF Step

LEMMA LockStep ==
  ASSUME TableInv, NEW t \in Threads, Step(t)
  PROVE  BucketLock'
  <1> USE AloneStep DEF Alone, TableInv, BucketLock, Critical
  <1>1. CASE \E p \in Pids : Call(t, p)
    BY <1>1 DEF Call, entries, pool, walk, Goto, Types, Unchanged
  <1>2. CASE LoadBucket(t)
    BY <1>2 DEF LoadBucket, entries, pool, Goto, Types, Unchanged
  <1>3. CASE ComparePid(t)
    BY <1>3 DEF ComparePid, entries, pool, walk, Found, Goto, Types, Unchanged
  <1>4. CASE Follow(t)
    BY <1>4 DEF Follow, entries, pool, Goto, Types, Unchanged
  <1>5. CASE CheckNext(t)
    BY <1>5 DEF CheckNext, entries, pool, walk, Followed, Goto, Restart, EndWalk, Types, Unchanged
  <1>6. CASE LoadWord(t)
    BY <1>6 DEF LoadWord, entries, pool, Goto, Types, Unchanged
  <1>7. CASE CheckWord(t)
    BY <1>7 DEF CheckWord, entries, pool, walk, Goto, Restart, EndWalk, Types, Unchanged
  <1>8. CASE LockEntry(t)
    BY <1>8 DEF LockEntry, pool, Goto, Restart, EndWalk, Types, Unchanged
  <1>9. CASE Drop(t)
    BY <1>9 DEF Drop, entries, pool, Goto, Done, EndWalk, Types, Unchanged
  <1>10. CASE Fault(t)
    BY <1>10 DEF Fault, entries, pool, Restart, Goto, EndWalk, Types, Unchanged
  <1>11. CASE CheckPresent(t)
    BY <1>11 DEF CheckPresent, entries, pool, walk, Goto, Restart, EndWalk, Types, Unchanged
  <1>12. CASE Refused(t)
    BY <1>12 DEF Refused, entries, pool, Restart, Goto, EndWalk, Types, Unchanged
  <1>13. CASE LockBucket(t)
    BY <1>13 DEF LockBucket, entries, pool, walk, SwapBucket, Goto, Restart, EndWalk, Types, Unchanged
  <1>14. CASE InsertAtHead(t)
    BY <1>14 DEF InsertAtHead, pool, Goto, Types, Unchanged
  <1>15. CASE TakeEntry(t)
    BY <1>15 DEF TakeEntry, Goto, Types, Unchanged
  <1>16. CASE Fill(t)
    BY <1>16 DEF Fill, pool, walk, Goto, Types, Unchanged
  <1>17. CASE Link(t)
    BY <1>17 DEF Link, pool, walk, Goto, Types, Unchanged
  <1>18. CASE LockNew(t)
    BY <1>18 DEF LockNew, pool, walk, Goto, Types, Unchanged
  <1>19. CASE UnlockInserted(t)
    BY <1>19 DEF UnlockInserted, entries, pool, UnlockBucket, Goto, EndWalk, Types, Unchanged
  <1>20. CASE Release(t)
    BY <1>20 DEF Release, pool, Goto, Done, EndWalk, Types, Unchanged
  <1>21. CASE Evict(t)
    BY <1>21 DEF Evict, entries, pool, walk, Goto, Types, Unchanged
  <1>22. CASE LockToRemove(t)
    BY <1>22 DEF LockToRemove, entries, pool, walk, Goto, Types, Unchanged
  <1>23. CASE FindAtHead(t)
    BY <1>23 DEF FindAtHead, pool, Goto, Types, Unchanged
  <1>24. CASE InvalidateHead(t)
    BY <1>24 DEF InvalidateHead, pool, walk, Goto, Types, Unchanged
  <1>25. CASE UnlockEmptied(t)
    BY <1>25 DEF UnlockEmptied, entries, pool, UnlockBucket, Goto, Done, EndWalk, Types, Unchanged
  <1>26. CASE FindInChain(t)
    BY <1>26 DEF FindInChain, pool, Goto, Types, Unchanged
  <1>27. CASE Unlink(t)
    BY <1>27 DEF Unlink, pool, walk, Goto, Types, Unchanged
  <1>28. CASE UnlockUnlinked(t)
    BY <1>28 DEF UnlockUnlinked, entries, pool, walk, UnlockBucket, Goto, Types, Unchanged
  <1>29. CASE Invalidate(t)
    BY <1>29 DEF Invalidate, pool, walk, Goto, Types, Unchanged
  <1>30. CASE Recycle(t)
    BY <1>30 DEF Recycle, entries, Goto, Done, EndWalk, Types, Unchanged
  <1>31. QED
    BY <1>1, <1>2, <1>3, <1>4, <1>5, <1>6, <1>7, <1>8, <1>9, <1>10, <1>11, <1>12, <1>13, <1>14,
       <1>15, <1>16, <1>17, <1>18, <1>19, <1>20, <1>21, <1>22, <1>23, <1>24, <1>25, <1>26,
       <1>27, <1>28, <1>29, <1>30 DEF Step

(* Pointers outside the chain do not matter. *)
LEMMA ChainElsewhere ==
  ASSUME NEW nxt \in Links, NEW after \in Links, \A e \in ChainOf(nxt) : after[e] = nxt[e]
  PROVE  ChainOf(after) = ChainOf(nxt)
  <1> DEFINE C == ChainOf(nxt)
             D == ChainOf(after)
  <1>1. Closed(nxt, C) /\ \A S : Closed(nxt, S) => C \subseteq S BY ChainLeast
  <1>2. Closed(after, D) /\ \A S : Closed(after, S) => D \subseteq S BY ChainLeast
  <1>3. D \subseteq C BY <1>1, <1>2 DEF Closed
  <1>4. Closed(nxt, D) BY <1>2, <1>3 DEF Closed
  <1>5. QED BY <1>1, <1>3, <1>4

(* What fill, link and unlink do to the chain. *)
LEMMA FillStep ==
  ASSUME TableInv, NEW t \in Threads, Fill(t)
  PROVE  Chain' = Chain /\ Acyclic(next, Chain)' /\ next'[cur[t]] = next'[Head]
  <1>1. Types /\ Types' /\ Shape BY TypesStep DEF TableInv, Step
  <1>2. cur[t] \in Entries /\ cur[t] \notin Chain
    BY <1>1 DEF Fill, Goto, Types, Shape, AtEntry, InHandsAt
  <1>3. next' = [next EXCEPT ![cur[t]] = next[Head]] BY DEF Fill
  <1>4. Chain' = Chain
    <2>1. \A e \in Chain : next'[e] = next[e] BY <1>1, <1>2, <1>3 DEF Types, Links
    <2>2. QED BY <1>1, <2>1, ChainIs, ChainElsewhere DEF Types
  <1>5. Chain \subseteq Entries /\ Head \in Chain BY <1>1, ChainFacts
  <1>6. QED BY <1>1, <1>2, <1>3, <1>4, <1>5 DEF Types, Links, Shape, Acyclic

LEMMA LinkStep ==
  ASSUME TableInv, NEW t \in Threads, Link(t)
  PROVE  Chain' = Chain \cup {cur[t]} /\ Acyclic(next, Chain)'
  <1>1. Types /\ Shape BY DEF TableInv
  <1>2. cur[t] \in Heap /\ cur[t] \notin Chain /\ next[cur[t]] = next[Head] /\ cur[t] # Head
    BY <1>1, EntriesAssumption DEF Link, Goto, Types, Shape, InHandsAt
  <1>3. next' = [next EXCEPT ![Head] = cur[t]] BY DEF Link
  <1>4. Chain' = Chain \cup {cur[t]}
    BY <1>1, <1>2, <1>3, ChainIs, ChainInsert DEF Types
  <1>5. /\ Chain \subseteq Entries /\ Head \in Chain /\ Closed(next, Chain) /\ cur[t] \in Entries
        /\ cur[t] # Null
    BY <1>1, <1>2, ChainFacts, EntriesAssumption
  <1>6. \A x \in Chain \cup {cur[t]} : next'[x] = IF x = Head THEN cur[t] ELSE next[x]
    BY <1>1, <1>3, <1>5 DEF Types, Links
  <1>7. next[cur[t]] = next[Head] /\ \A x \in Chain : next[x] # cur[t]
    BY <1>2, <1>5 DEF Closed
  <1>8. QED BY <1>1, <1>2, <1>4, <1>5, <1>6, <1>7 DEF Shape, Acyclic

LEMMA UnlinkStep ==
  ASSUME TableInv, NEW t \in Threads, Unlink(t)
  PROVE  Chain' = Chain \ {cur[t]} /\ Acyclic(next, Chain)'
  <1>1. Types /\ Types' /\ Shape /\ Pages BY TypesStep DEF TableInv, Step
  <1>2. cur[t] \in Chain \ {Head}
    BY <1>1, EntriesAssumption DEF Unlink, Goto, Types, Pages
  <1>3. next' = [e \in Entries |-> IF e \in Chain /\ next[e] = cur[t] THEN next[cur[t]] ELSE next[e]]
    BY DEF Unlink
  <1>4. Acyclic(next, ChainOf(next)) /\ cur[t] \in ChainOf(next) \ {Head}
        /\ next \in Links /\ next' \in Links
    BY <1>1, <1>2, ChainIs DEF Shape, Types
  <1>5. next' = [e \in Entries |-> IF e \in ChainOf(next) /\ next[e] = cur[t] THEN next[cur[t]] ELSE next[e]]
    BY <1>3, ChainIs
  <1>6. ChainOf(next') = ChainOf(next) \ {cur[t]} /\ Acyclic(next', ChainOf(next'))
    BY <1>4, <1>5, ChainUnlink
  <1>7. QED BY <1>6, ChainIs DEF Acyclic

LEMMA ShapeStep ==
  ASSUME TableInv, NEW t \in Threads, Step(t)
  PROVE  Shape'
  <1> USE AloneStep, ChainFacts DEF Alone, TableInv, Shape, InHandsAt
  <1>1. CASE \E p \in Pids : Call(t, p)
    BY <1>1 DEF Call, entries, pool, walk, Goto, Types, Acyclic
  <1>2. CASE LoadBucket(t)
    BY <1>2 DEF LoadBucket, entries, pool, Goto, Types, Acyclic
  <1>3. CASE ComparePid(t)
    BY <1>3 DEF ComparePid, entries, pool, walk, Found, Goto, Types, Acyclic
  <1>4. CASE Follow(t)
    BY <1>4 DEF Follow, entries, pool, Goto, Types, Acyclic
  <1>5. CASE CheckNext(t)
    BY <1>5 DEF CheckNext, entries, pool, walk, Followed, Goto, Restart, EndWalk, Types, Acyclic
  <1>6. CASE LoadWord(t)
    BY <1>6 DEF LoadWord, entries, pool, Goto, Types, Acyclic
  <1>7. CASE CheckWord(t)
    BY <1>7 DEF CheckWord, entries, pool, walk, Goto, Restart, EndWalk, Types, Acyclic
  <1>8. CASE LockEntry(t)
    BY <1>8 DEF LockEntry, pool, Goto, Restart, EndWalk, Types, Acyclic
  <1>9. CASE Drop(t)
    BY <1>9 DEF Drop, entries, pool, Goto, Done, EndWalk, Types, Acyclic
  <1>10. CASE Fault(t)
    BY <1>10 DEF Fault, entries, pool, Restart, Goto, EndWalk, Types, Acyclic
  <1>11. CASE CheckPresent(t)
    BY <1>11 DEF CheckPresent, entries, pool, walk, Goto, Restart, EndWalk, Types, Acyclic
  <1>12. CASE Refused(t)
    BY <1>12 DEF Refused, entries, pool, Restart, Goto, EndWalk, Types, Acyclic
  <1>13. CASE LockBucket(t)
    BY <1>13 DEF LockBucket, entries, pool, walk, SwapBucket, Goto, Restart, EndWalk, Types, Acyclic
  <1>14. CASE InsertAtHead(t)
    BY <1>14 DEF InsertAtHead, pool, Goto, Types, Acyclic
  <1>15. CASE TakeEntry(t)
    <2>1. PICK e \in freeEntries \cup (Heap \ made) :
            /\ freeEntries' = freeEntries \ {e} /\ made' = made \cup {e}
            /\ cur' = [cur EXCEPT ![t] = e]
      BY <1>15 DEF TakeEntry
    <2>9. e \notin Chain /\ Chain' = Chain /\ next' = next /\ pc' = [pc EXCEPT ![t] = "fill"]
      BY <1>15, EntriesAssumption DEF Types, TakeEntry, Goto
    <2>2. /\ pc[t] \in Critical /\ \A u \in Threads \ {t} : pc'[u] \notin Critical /\ cur'[u] = cur[u]
      BY <2>1, <2>9, <1>15 DEF TakeEntry, Goto, Types, BucketLock, Critical
    <2>3. Acyclic(next, Chain)' /\ Chain' \ {Head} \subseteq made' /\ freeEntries' \cap Chain' = {}
      BY <2>1, <2>9 DEF Types, Acyclic
    <2>4. ASSUME NEW x \in made'
          PROVE  \/ x \in Chain' \/ x \in freeEntries'
                 \/ \E u \in Threads : pc'[u] \in InHandsAt /\ cur'[u] = x
      <3>1. CASE x = e BY <3>1, <2>1, <2>9 DEF Types
      <3>2. CASE x # e /\ (x \in Chain \/ x \in freeEntries) BY <3>2, <2>1, <2>9
      <3>3. CASE \E u \in Threads : pc[u] \in InHandsAt /\ cur[u] = x
        <4>1. PICK u \in Threads : pc[u] \in InHandsAt /\ cur[u] = x BY <3>3
        <4>2. u # t BY <4>1, <1>15 DEF TakeEntry, Goto
        <4>3. QED BY <4>1, <4>2
      <3>4. QED BY <3>1, <3>2, <3>3, <2>1, <2>4
    <2>5. ASSUME NEW u \in Threads, pc'[u] \in InHandsAt
          PROVE  cur'[u] \in made' \ (Chain' \cup freeEntries')
      BY <2>1, <2>9, <2>5 DEF Types
    <2>6. ASSUME NEW u \in Threads, NEW v \in Threads,
                 pc'[u] \in InHandsAt, pc'[v] \in InHandsAt, cur'[u] = cur'[v]
          PROVE  u = v
      BY <2>1, <2>9, <2>6 DEF Types
    <2>7. ASSUME NEW u \in Threads, pc'[u] = "link" PROVE next'[cur'[u]] = next'[Head]
      BY <2>1, <2>9, <2>2, <2>7 DEF Types, Critical
    <2>8. QED BY <2>3, <2>4, <2>5, <2>6, <2>7
  <1>16. CASE Fill(t)
    <2>1. Chain' = Chain /\ Acyclic(next, Chain)' /\ next'[cur[t]] = next'[Head]
      BY <1>16, FillStep
    <2>2. /\ pc[t] \in Critical /\ \A u \in Threads \ {t} : pc'[u] \notin Critical /\ cur'[u] = cur[u]
      BY <1>16 DEF Fill, Goto, pool, walk, BucketLock, Critical
    <2>3. Acyclic(next, Chain)' /\ Chain' \ {Head} \subseteq made' /\ freeEntries' \cap Chain' = {}
      BY <2>1, <1>16 DEF Fill, Goto, pool, walk, Acyclic
    <2>4. ASSUME NEW x \in made'
          PROVE  \/ x \in Chain' \/ x \in freeEntries'
                 \/ \E u \in Threads : pc'[u] \in InHandsAt /\ cur'[u] = x
      BY <2>1, <1>16, <2>4 DEF Fill, Goto, pool, walk, Types
    <2>5. ASSUME NEW u \in Threads, pc'[u] \in InHandsAt
          PROVE  cur'[u] \in made' \ (Chain' \cup freeEntries')
      BY <2>1, <1>16, <2>5 DEF Fill, Goto, pool, walk, Types
    <2>6. ASSUME NEW u \in Threads, NEW v \in Threads,
                 pc'[u] \in InHandsAt, pc'[v] \in InHandsAt, cur'[u] = cur'[v]
          PROVE  u = v
      BY <2>1, <1>16, <2>6 DEF Fill, Goto, pool, walk, Types
    <2>7. ASSUME NEW u \in Threads, pc'[u] = "link" PROVE next'[cur'[u]] = next'[Head]
      BY <2>1, <1>16, <2>2, <2>7 DEF Fill, Goto, pool, walk, Types, Critical
    <2>8. QED BY <2>3, <2>4, <2>5, <2>6, <2>7
  <1>17. CASE Link(t)
    <2>1. Chain' = Chain \cup {cur[t]} /\ Acyclic(next, Chain)' /\ cur[t] \in made \ freeEntries
      BY <1>17, LinkStep DEF Link, Goto
    <2>2. /\ pc[t] \in Critical /\ \A u \in Threads \ {t} : pc'[u] \notin Critical /\ cur'[u] = cur[u]
      BY <1>17 DEF Link, Goto, pool, walk, BucketLock, Critical
    <2>3. Acyclic(next, Chain)' /\ Chain' \ {Head} \subseteq made' /\ freeEntries' \cap Chain' = {}
      BY <2>1, <1>17 DEF Link, Goto, pool, walk, Acyclic
    <2>4. ASSUME NEW x \in made'
          PROVE  \/ x \in Chain' \/ x \in freeEntries'
                 \/ \E u \in Threads : pc'[u] \in InHandsAt /\ cur'[u] = x
      BY <2>1, <1>17, <2>4 DEF Link, Goto, pool, walk, Types
    <2>5. ASSUME NEW u \in Threads, pc'[u] \in InHandsAt
          PROVE  cur'[u] \in made' \ (Chain' \cup freeEntries')
      BY <2>1, <1>17, <2>5 DEF Link, Goto, pool, walk, Types
    <2>6. ASSUME NEW u \in Threads, NEW v \in Threads,
                 pc'[u] \in InHandsAt, pc'[v] \in InHandsAt, cur'[u] = cur'[v]
          PROVE  u = v
      BY <2>1, <1>17, <2>6 DEF Link, Goto, pool, walk, Types
    <2>7. ASSUME NEW u \in Threads, pc'[u] = "link" PROVE next'[cur'[u]] = next'[Head]
      BY <2>1, <1>17, <2>2, <2>7 DEF Link, Goto, pool, walk, Types, Critical
    <2>8. QED BY <2>3, <2>4, <2>5, <2>6, <2>7
  <1>18. CASE LockNew(t)
    BY <1>18 DEF LockNew, pool, walk, Goto, Types, Acyclic
  <1>19. CASE UnlockInserted(t)
    BY <1>19 DEF UnlockInserted, entries, pool, UnlockBucket, Goto, EndWalk, Types, Acyclic
  <1>20. CASE Release(t)
    BY <1>20 DEF Release, pool, Goto, Done, EndWalk, Types, Acyclic
  <1>21. CASE Evict(t)
    BY <1>21 DEF Evict, entries, pool, walk, Goto, Types, Acyclic
  <1>22. CASE LockToRemove(t)
    BY <1>22 DEF LockToRemove, entries, pool, walk, Goto, Types, Acyclic
  <1>23. CASE FindAtHead(t)
    BY <1>23 DEF FindAtHead, pool, Goto, Types, Acyclic
  <1>24. CASE InvalidateHead(t)
    BY <1>24 DEF InvalidateHead, pool, walk, Goto, Types, Acyclic
  <1>25. CASE UnlockEmptied(t)
    BY <1>25 DEF UnlockEmptied, entries, pool, UnlockBucket, Goto, Done, EndWalk, Types, Acyclic
  <1>26. CASE FindInChain(t)
    BY <1>26 DEF FindInChain, pool, Goto, Types, Acyclic
  <1>27. CASE Unlink(t)
    <2>1. Chain' = Chain \ {cur[t]} /\ Acyclic(next, Chain)'
      BY <1>27, UnlinkStep
    <2>0. cur[t] \in Heap /\ cur[t] \in Chain /\ cur[t] # Head /\ cur[t] \in made \ freeEntries
      <3>1. cur[t] \in Heap /\ cur[t] \in Chain BY <1>27 DEF Unlink, Goto, Types, Pages
      <3>2. QED BY <3>1, EntriesAssumption
    <2>2. /\ pc[t] \in Critical /\ \A u \in Threads \ {t} : pc'[u] \notin Critical /\ cur'[u] = cur[u]
      BY <1>27 DEF Unlink, Goto, pool, walk, BucketLock, Critical
    <2>3. Acyclic(next, Chain)' /\ Chain' \ {Head} \subseteq made' /\ freeEntries' \cap Chain' = {}
      BY <2>0, <2>1, <1>27 DEF Unlink, Goto, pool, walk, Acyclic
    <2>4. ASSUME NEW x \in made'
          PROVE  \/ x \in Chain' \/ x \in freeEntries'
                 \/ \E u \in Threads : pc'[u] \in InHandsAt /\ cur'[u] = x
      BY <2>0, <2>1, <1>27, <2>4 DEF Unlink, Goto, pool, walk, Types
    <2>5. ASSUME NEW u \in Threads, pc'[u] \in InHandsAt
          PROVE  cur'[u] \in made' \ (Chain' \cup freeEntries')
      BY <2>0, <2>1, <1>27, <2>5 DEF Unlink, Goto, pool, walk, Types
    <2>6. ASSUME NEW u \in Threads, NEW v \in Threads,
                 pc'[u] \in InHandsAt, pc'[v] \in InHandsAt, cur'[u] = cur'[v]
          PROVE  u = v
      BY <2>0, <2>1, <1>27, <2>6 DEF Unlink, Goto, pool, walk, Types
    <2>7. ASSUME NEW u \in Threads, pc'[u] = "link" PROVE next'[cur'[u]] = next'[Head]
      BY <2>0, <2>1, <1>27, <2>2, <2>7 DEF Unlink, Goto, pool, walk, Types, Critical
    <2>8. QED BY <2>3, <2>4, <2>5, <2>6, <2>7
  <1>28. CASE UnlockUnlinked(t)
    BY <1>28 DEF UnlockUnlinked, entries, pool, walk, UnlockBucket, Goto, Types, Acyclic
  <1>29. CASE Invalidate(t)
    BY <1>29 DEF Invalidate, pool, walk, Goto, Types, Acyclic
  <1>30. CASE Recycle(t)
    BY <1>30 DEF Recycle, entries, Goto, Done, EndWalk, Types, Acyclic
  <1>31. QED
    BY <1>1, <1>2, <1>3, <1>4, <1>5, <1>6, <1>7, <1>8, <1>9, <1>10, <1>11, <1>12, <1>13, <1>14,
       <1>15, <1>16, <1>17, <1>18, <1>19, <1>20, <1>21, <1>22, <1>23, <1>24, <1>25, <1>26,
       <1>27, <1>28, <1>29, <1>30 DEF Step

LEMMA WordsStep ==
  ASSUME TableInv, NEW t \in Threads, Step(t)
  PROVE  Words'
  <1>1. Types /\ Types' /\ BucketLock /\ Shape /\ Words /\ Pages
    BY TypesStep DEF TableInv
  <1>2. /\ \A u \in Threads \ {t} : pc'[u] = pc[u] /\ cur'[u] = cur[u]
        /\ next' = next => Chain' = Chain
        /\ Heap \subseteq Entries /\ Head \in Entries /\ Chain \subseteq Entries
        /\ \A u \in Threads : pc[u] \in Holding \cup {"fill", "link", "lockNew", "recycle"} => cur[u] \in Entries
    BY <1>1, AloneStep, ChainFacts DEF Alone, Types, AtEntry, Holding
  <1>3. CASE \E p \in Pids : Call(t, p)
    BY <1>1, <1>2, WordFacts, EntriesAssumption, <1>3
       DEF Call, entries, pool, walk, Goto, Types, Words, Holding
  <1>4. CASE LoadBucket(t)
    BY <1>1, <1>2, WordFacts, EntriesAssumption, <1>4
       DEF LoadBucket, entries, pool, Goto, Types, Words, Holding
  <1>5. CASE ComparePid(t)
    BY <1>1, <1>2, WordFacts, EntriesAssumption, <1>5
       DEF ComparePid, entries, pool, walk, Found, Goto, Types, Words, Holding
  <1>6. CASE Follow(t)
    BY <1>1, <1>2, WordFacts, EntriesAssumption, <1>6
       DEF Follow, entries, pool, Goto, Types, Words, Holding
  <1>7. CASE CheckNext(t)
    BY <1>1, <1>2, WordFacts, EntriesAssumption, <1>7
       DEF CheckNext, entries, pool, walk, Followed, Goto, Restart, EndWalk, Types, Words, Holding
  <1>8. CASE LoadWord(t)
    BY <1>1, <1>2, WordFacts, EntriesAssumption, <1>8
       DEF LoadWord, entries, pool, Goto, Types, Words, Holding
  <1>9. CASE CheckWord(t)
    BY <1>1, <1>2, WordFacts, EntriesAssumption, <1>9
       DEF CheckWord, entries, pool, walk, Goto, Restart, EndWalk, Types, Words, Holding
  <1>10. CASE LockEntry(t)
    <2>1. CASE Restart(t, "hit") /\ UNCHANGED word
      BY <2>1, <1>10, <1>1, <1>2 DEF LockEntry, pool, Goto, Restart, EndWalk, Types, Words, Holding
    <2>2. CASE /\ Goto(t, "hit", "holding") /\ StillAsFound(t) /\ EndWalk(t, cur[t])
               /\ word' = [word EXCEPT ![cur[t]] = SameVersion(@, Locked)]
      <3>1. pc[t] = "hit" /\ cur[t] \in Entries /\ LockableX(word[cur[t]])
        BY <2>2, <1>1 DEF Goto, StillAsFound, Types, AtEntry
      <3>2. word[cur[t]].state = Unlocked
        BY <3>1, <1>1, WordFacts DEF Words, Types
      <3>3. cur[t] \in Chain /\ pidOf[cur[t]] \in Pids
        BY <3>1, <3>2, <1>1 DEF Words
      <3>4. pc' = [pc EXCEPT ![t] = "holding"] /\ cur'[t] = cur[t] /\ UNCHANGED <<pidOf, next, freeEntries, made>>
        BY <2>2, <1>10, <1>1 DEF LockEntry, Goto, EndWalk, pool, Types
      <3>5. word'[cur[t]].state = Locked /\ \A e \in Entries \ {cur[t]} : word'[e] = word[e]
        BY <2>2, <3>1, <1>1, WordFacts DEF Types
      <3>6. Unlocked # Locked /\ Unlocked # Invalid /\ Locked # Invalid /\ (cur[t] = Head => pidOf[Head] # NoPid)
        BY <3>3, WordFacts, EntriesAssumption
      <3>7. \A e \in Entries : word'[e].state \in {Unlocked, Locked, Invalid}
        BY <1>1, <1>2, <3>1, <3>2, <3>3, <3>4, <3>5, <3>6 DEF Words, Types
      <3>8. \A e \in Entries : word'[e].state = Unlocked => e \in Chain' /\ pidOf'[e] \in Pids
        BY <1>1, <1>2, <3>1, <3>2, <3>3, <3>4, <3>5, <3>6 DEF Words, Types
      <3>9. \A e \in Heap : e \in freeEntries' \/ e \notin made' => word'[e].state = Invalid
        BY <1>1, <1>2, <3>1, <3>2, <3>3, <3>4, <3>5, <3>6 DEF Words, Types
      <3>10. pidOf'[Head] = NoPid /\ (\A u \in Threads : pc'[u] # "emptyHead") => word'[Head].state = Invalid
        BY <1>1, <1>2, <3>1, <3>2, <3>3, <3>4, <3>5, <3>6 DEF Words, Types
      <3>11. \A u \in Threads : pc'[u] \in {"fill", "link", "lockNew", "recycle"} => word'[cur'[u]].state = Invalid
        BY <1>1, <1>2, <3>1, <3>2, <3>3, <3>4, <3>5, <3>6 DEF Words, Types
      <3>12. \A u \in Threads : pc'[u] \in Holding => word'[cur'[u]].state = Locked
        BY <1>1, <1>2, <3>1, <3>2, <3>3, <3>4, <3>5, <3>6 DEF Words, Types, Holding
      <3>13. \A u, v \in Threads : pc'[u] \in Holding /\ pc'[v] \in Holding /\ cur'[u] = cur'[v] => u = v
        BY <1>1, <1>2, <3>1, <3>2, <3>3, <3>4, <3>5, <3>6 DEF Words, Types, Holding
      <3>14. QED BY <3>7, <3>8, <3>9, <3>10, <3>11, <3>12, <3>13 DEF Words
    <2>3. QED BY <2>1, <2>2, <1>10 DEF LockEntry
  <1>11. CASE Drop(t)
    BY <1>1, <1>2, WordFacts, EntriesAssumption, <1>11
       DEF Drop, entries, pool, Goto, Done, EndWalk, Types, Words, Holding
  <1>12. CASE Fault(t)
    BY <1>1, <1>2, WordFacts, EntriesAssumption, <1>12
       DEF Fault, entries, pool, Restart, Goto, EndWalk, Types, Words, Holding
  <1>13. CASE CheckPresent(t)
    BY <1>1, <1>2, WordFacts, EntriesAssumption, <1>13
       DEF CheckPresent, entries, pool, walk, Goto, Restart, EndWalk, Types, Words, Holding
  <1>14. CASE Refused(t)
    BY <1>1, <1>2, WordFacts, EntriesAssumption, <1>14
       DEF Refused, entries, pool, Restart, Goto, EndWalk, Types, Words, Holding
  <1>15. CASE LockBucket(t)
    BY <1>1, <1>2, WordFacts, EntriesAssumption, <1>15
       DEF LockBucket, entries, pool, walk, SwapBucket, Goto, Restart, EndWalk, Types, Words, Holding
  <1>16. CASE InsertAtHead(t)
    <2>1. pc[t] = "insert" /\ pc' = [pc EXCEPT ![t] = "lockNew"] /\ UNCHANGED <<next, word, freeEntries, made>>
      BY <1>16 DEF InsertAtHead, Goto, pool
    <2>2. cur'[t] = Head /\ pidOf'[Head] \in Pids /\ \A e \in Entries \ {Head} : pidOf'[e] = pidOf[e]
      BY <1>16, <1>1 DEF InsertAtHead, Goto, Types, Entries
    <2>3. \A u \in Threads : pc[u] # "emptyHead"
      BY <2>1, <1>1 DEF BucketLock, Critical
    <2>4. word[Head].state = Invalid
      BY <2>3, <1>16, <1>1 DEF InsertAtHead, Words
    <2>5. Head \notin Heap /\ Unlocked # Locked /\ Unlocked # Invalid /\ Locked # Invalid /\ NoPid \notin Pids
      BY WordFacts, EntriesAssumption
    <2>6. \A e \in Entries : word'[e].state \in {Unlocked, Locked, Invalid}
      BY <1>1, <1>2, <2>1, <2>2, <2>3, <2>4, <2>5 DEF Words, Types
    <2>7. \A e \in Entries : word'[e].state = Unlocked => e \in Chain' /\ pidOf'[e] \in Pids
      BY <1>1, <1>2, <2>1, <2>2, <2>3, <2>4, <2>5 DEF Words, Types
    <2>8. \A e \in Heap : e \in freeEntries' \/ e \notin made' => word'[e].state = Invalid
      BY <1>1, <1>2, <2>1, <2>2, <2>3, <2>4, <2>5 DEF Words, Types
    <2>9. pidOf'[Head] = NoPid /\ (\A u \in Threads : pc'[u] # "emptyHead") => word'[Head].state = Invalid
      BY <1>1, <1>2, <2>1, <2>2, <2>3, <2>4, <2>5 DEF Words, Types
    <2>10. \A u \in Threads : pc'[u] \in {"fill", "link", "lockNew", "recycle"} => word'[cur'[u]].state = Invalid
      BY <1>1, <1>2, <2>1, <2>2, <2>3, <2>4, <2>5 DEF Words, Types
    <2>11. \A u \in Threads : pc'[u] \in Holding => word'[cur'[u]].state = Locked
      BY <1>1, <1>2, <2>1, <2>2, <2>3, <2>4, <2>5 DEF Words, Types, Holding
    <2>12. \A u, v \in Threads : pc'[u] \in Holding /\ pc'[v] \in Holding /\ cur'[u] = cur'[v] => u = v
      BY <1>1, <1>2, <2>1, <2>2, <2>3, <2>4, <2>5 DEF Words, Types, Holding
    <2>13. QED BY <2>6, <2>7, <2>8, <2>9, <2>10, <2>11, <2>12 DEF Words
  <1>17. CASE TakeEntry(t)
    BY <1>1, <1>2, WordFacts, EntriesAssumption, <1>17 DEF TakeEntry, Goto, Types, Words, Holding
  <1>18. CASE Fill(t)
    <2>1. pc[t] = "fill" /\ pc' = [pc EXCEPT ![t] = "link"] /\ UNCHANGED <<pidOf, word, cur, freeEntries, made>>
      BY <1>18 DEF Fill, Goto, pool, walk
    <2>2. Chain' = Chain
      BY <1>18, FillStep
    <2>3. \A e \in Entries : word'[e].state \in {Unlocked, Locked, Invalid}
      BY <1>1, <1>2, <2>1, <2>2 DEF Words, Types
    <2>4. \A e \in Entries : word'[e].state = Unlocked => e \in Chain' /\ pidOf'[e] \in Pids
      BY <1>1, <1>2, <2>1, <2>2 DEF Words, Types
    <2>5. \A e \in Heap : e \in freeEntries' \/ e \notin made' => word'[e].state = Invalid
      BY <1>1, <1>2, <2>1, <2>2 DEF Words, Types
    <2>6. pidOf'[Head] = NoPid /\ (\A u \in Threads : pc'[u] # "emptyHead") => word'[Head].state = Invalid
      BY <1>1, <1>2, <2>1, <2>2 DEF Words, Types
    <2>7. \A u \in Threads : pc'[u] \in {"fill", "link", "lockNew", "recycle"} => word'[cur'[u]].state = Invalid
      BY <1>1, <1>2, <2>1, <2>2 DEF Words, Types
    <2>8. \A u \in Threads : pc'[u] \in Holding => word'[cur'[u]].state = Locked
      BY <1>1, <1>2, <2>1, <2>2 DEF Words, Types, Holding
    <2>9. \A u, v \in Threads : pc'[u] \in Holding /\ pc'[v] \in Holding /\ cur'[u] = cur'[v] => u = v
      BY <1>1, <1>2, <2>1, <2>2 DEF Words, Types, Holding
    <2>10. QED BY <2>3, <2>4, <2>5, <2>6, <2>7, <2>8, <2>9 DEF Words
  <1>19. CASE Link(t)
    <2>1. pc[t] = "link" /\ pc' = [pc EXCEPT ![t] = "lockNew"] /\ UNCHANGED <<pidOf, word, cur, freeEntries, made>>
      BY <1>19 DEF Link, Goto, pool, walk
    <2>2. Chain \subseteq Chain'
      BY <1>19, LinkStep
    <2>3. \A e \in Entries : word'[e].state \in {Unlocked, Locked, Invalid}
      BY <1>1, <1>2, <2>1, <2>2 DEF Words, Types
    <2>4. \A e \in Entries : word'[e].state = Unlocked => e \in Chain' /\ pidOf'[e] \in Pids
      BY <1>1, <1>2, <2>1, <2>2 DEF Words, Types
    <2>5. \A e \in Heap : e \in freeEntries' \/ e \notin made' => word'[e].state = Invalid
      BY <1>1, <1>2, <2>1, <2>2 DEF Words, Types
    <2>6. pidOf'[Head] = NoPid /\ (\A u \in Threads : pc'[u] # "emptyHead") => word'[Head].state = Invalid
      BY <1>1, <1>2, <2>1, <2>2 DEF Words, Types
    <2>7. \A u \in Threads : pc'[u] \in {"fill", "link", "lockNew", "recycle"} => word'[cur'[u]].state = Invalid
      BY <1>1, <1>2, <2>1, <2>2 DEF Words, Types
    <2>8. \A u \in Threads : pc'[u] \in Holding => word'[cur'[u]].state = Locked
      BY <1>1, <1>2, <2>1, <2>2 DEF Words, Types, Holding
    <2>9. \A u, v \in Threads : pc'[u] \in Holding /\ pc'[v] \in Holding /\ cur'[u] = cur'[v] => u = v
      BY <1>1, <1>2, <2>1, <2>2 DEF Words, Types, Holding
    <2>10. QED BY <2>3, <2>4, <2>5, <2>6, <2>7, <2>8, <2>9 DEF Words
  <1>20. CASE LockNew(t)
    <2>1. pc[t] = "lockNew" /\ pc' = [pc EXCEPT ![t] = "inserted"] /\ UNCHANGED <<pidOf, next, cur, freeEntries, made>>
      BY <1>20 DEF LockNew, Goto, pool, walk
    <2>2. cur[t] \in Entries /\ word[cur[t]].state = Invalid
      BY <2>1, <1>1 DEF Types, AtEntry, Words
    <2>3. cur[t] \in Chain /\ pidOf[cur[t]] \in Pids
      BY <2>1, <1>1 DEF Types, Pages
    <2>4. word'[cur[t]].state = Locked /\ \A e \in Entries \ {cur[t]} : word'[e] = word[e]
      BY <1>20, <2>2, <1>1, WordFacts DEF LockNew, Types
    <2>5. cur[t] \notin freeEntries /\ (cur[t] = Head \/ cur[t] \in made)
      BY <2>3, <1>1 DEF Shape
    <2>6. \A u \in Threads \ {t} : pc[u] \in {"fill", "link", "lockNew"} => FALSE
      BY <2>1, <1>1 DEF BucketLock, Critical
    <2>7. \A u \in Threads : pc[u] = "recycle" => cur[u] # cur[t]
      BY <2>3, <1>1 DEF Shape, InHandsAt
    <2>8. Head \notin Heap /\ Unlocked # Locked /\ Unlocked # Invalid /\ Locked # Invalid /\ NoPid \notin Pids
      BY WordFacts, EntriesAssumption
    <2>9. \A e \in Entries : word'[e].state \in {Unlocked, Locked, Invalid}
      BY <1>1, <1>2, <2>1, <2>2, <2>3, <2>4, <2>5, <2>6, <2>7, <2>8 DEF Words, Types
    <2>10. \A e \in Entries : word'[e].state = Unlocked => e \in Chain' /\ pidOf'[e] \in Pids
      BY <1>1, <1>2, <2>1, <2>2, <2>3, <2>4, <2>5, <2>6, <2>7, <2>8 DEF Words, Types
    <2>11. \A e \in Heap : e \in freeEntries' \/ e \notin made' => word'[e].state = Invalid
      BY <1>1, <1>2, <2>1, <2>2, <2>3, <2>4, <2>5, <2>6, <2>7, <2>8 DEF Words, Types
    <2>12. pidOf'[Head] = NoPid /\ (\A u \in Threads : pc'[u] # "emptyHead") => word'[Head].state = Invalid
      BY <1>1, <1>2, <2>1, <2>2, <2>3, <2>4, <2>5, <2>6, <2>7, <2>8 DEF Words, Types
    <2>13. \A u \in Threads : pc'[u] \in {"fill", "link", "lockNew", "recycle"} => word'[cur'[u]].state = Invalid
      BY <1>1, <1>2, <2>1, <2>2, <2>3, <2>4, <2>5, <2>6, <2>7, <2>8 DEF Words, Types
    <2>14. \A u \in Threads : pc'[u] \in Holding => word'[cur'[u]].state = Locked
      BY <1>1, <1>2, <2>1, <2>2, <2>3, <2>4, <2>5, <2>6, <2>7, <2>8 DEF Words, Types, Holding
    <2>15. \A u, v \in Threads : pc'[u] \in Holding /\ pc'[v] \in Holding /\ cur'[u] = cur'[v] => u = v
      BY <1>1, <1>2, <2>1, <2>2, <2>3, <2>4, <2>5, <2>6, <2>7, <2>8 DEF Words, Types, Holding
    <2>16. QED BY <2>9, <2>10, <2>11, <2>12, <2>13, <2>14, <2>15 DEF Words
  <1>21. CASE UnlockInserted(t)
    BY <1>1, <1>2, WordFacts, EntriesAssumption, <1>21
       DEF UnlockInserted, entries, pool, UnlockBucket, Goto, EndWalk, Types, Words, Holding
  <1>22. CASE Release(t)
    <2>1. pc[t] = "holding" /\ pc' = [pc EXCEPT ![t] = "idle"] /\ UNCHANGED <<pidOf, next, freeEntries, made>>
      BY <1>22 DEF Release, Goto, pool
    <2>2. cur[t] \in Entries /\ word[cur[t]].state = Locked
      BY <2>1, <1>1 DEF Types, AtEntry, Words, Holding
    <2>3. cur[t] \in Chain /\ pidOf[cur[t]] \in Pids
      BY <2>1, <1>1 DEF Types, Pages
    <2>4. word'[cur[t]].state = Unlocked /\ \A e \in Entries \ {cur[t]} : word'[e] = word[e]
      BY <1>22, <2>2, <1>1, WordFacts DEF Release, Types
    <2>5. \A u \in Threads \ {t} : pc[u] \in Holding => cur[u] # cur[t]
      BY <2>1, <1>1 DEF Words, Holding
    <2>6. \A u \in Threads : pc'[u] \in Holding => pc[u] \in Holding /\ u # t /\ cur'[u] = cur[u]
      BY <2>1, <1>1, <1>2 DEF Holding, Types
    <2>7. Head \notin Heap /\ Unlocked # Locked /\ Unlocked # Invalid /\ Locked # Invalid /\ NoPid \notin Pids
      BY WordFacts, EntriesAssumption
    <2>8. \A e \in Entries : word'[e].state \in {Unlocked, Locked, Invalid}
      BY <1>1, <1>2, <2>1, <2>2, <2>3, <2>4, <2>5, <2>6, <2>7 DEF Words, Types
    <2>9. \A e \in Entries : word'[e].state = Unlocked => e \in Chain' /\ pidOf'[e] \in Pids
      BY <1>1, <1>2, <2>1, <2>2, <2>3, <2>4, <2>5, <2>6, <2>7 DEF Words, Types
    <2>10. \A e \in Heap : e \in freeEntries' \/ e \notin made' => word'[e].state = Invalid
      BY <1>1, <1>2, <2>1, <2>2, <2>3, <2>4, <2>5, <2>6, <2>7 DEF Words, Types
    <2>11. pidOf'[Head] = NoPid /\ (\A u \in Threads : pc'[u] # "emptyHead") => word'[Head].state = Invalid
      BY <1>1, <1>2, <2>1, <2>2, <2>3, <2>4, <2>5, <2>6, <2>7 DEF Words, Types
    <2>12. \A u \in Threads : pc'[u] \in {"fill", "link", "lockNew", "recycle"} => word'[cur'[u]].state = Invalid
      BY <1>1, <1>2, <2>1, <2>2, <2>3, <2>4, <2>5, <2>6, <2>7 DEF Words, Types
    <2>13. \A u \in Threads : pc'[u] \in Holding => word'[cur'[u]].state = Locked
      BY <1>1, <1>2, <2>1, <2>2, <2>3, <2>4, <2>5, <2>6, <2>7 DEF Words, Types, Holding
    <2>14. \A u, v \in Threads : pc'[u] \in Holding /\ pc'[v] \in Holding /\ cur'[u] = cur'[v] => u = v
      BY <1>1, <1>2, <2>1, <2>2, <2>3, <2>4, <2>5, <2>6, <2>7 DEF Words, Types, Holding
    <2>15. QED BY <2>8, <2>9, <2>10, <2>11, <2>12, <2>13, <2>14 DEF Words
  <1>23. CASE Evict(t)
    BY <1>1, <1>2, WordFacts, EntriesAssumption, <1>23
       DEF Evict, entries, pool, walk, Goto, Types, Words, Holding
  <1>24. CASE LockToRemove(t)
    BY <1>1, <1>2, WordFacts, EntriesAssumption, <1>24
       DEF LockToRemove, entries, pool, walk, Goto, Types, Words, Holding
  <1>25. CASE FindAtHead(t)
    <2>1. pc[t] = "find" /\ pc' = [pc EXCEPT ![t] = "emptyHead"] /\ UNCHANGED <<next, word, freeEntries, made>>
      BY <1>25 DEF FindAtHead, Goto, pool
    <2>2. cur[t] = Head
      BY <2>1, <1>25, <1>1, ChainFacts DEF FindAtHead, Types, Pages
    <2>3. cur'[t] = Head /\ \A e \in Entries \ {Head} : pidOf'[e] = pidOf[e]
      BY <1>25, <1>1, <2>2 DEF FindAtHead, Types, Entries
    <2>4. word[Head].state = Locked
      BY <2>1, <2>2, <1>1 DEF Words, Holding
    <2>5. Head \notin Heap /\ Unlocked # Locked /\ Unlocked # Invalid /\ Locked # Invalid /\ NoPid \notin Pids
      BY WordFacts, EntriesAssumption
    <2>6. \A e \in Entries : word'[e].state \in {Unlocked, Locked, Invalid}
      BY <1>1, <1>2, <2>1, <2>2, <2>3, <2>4, <2>5 DEF Words, Types
    <2>7. \A e \in Entries : word'[e].state = Unlocked => e \in Chain' /\ pidOf'[e] \in Pids
      BY <1>1, <1>2, <2>1, <2>2, <2>3, <2>4, <2>5 DEF Words, Types
    <2>8. \A e \in Heap : e \in freeEntries' \/ e \notin made' => word'[e].state = Invalid
      BY <1>1, <1>2, <2>1, <2>2, <2>3, <2>4, <2>5 DEF Words, Types
    <2>9. pidOf'[Head] = NoPid /\ (\A u \in Threads : pc'[u] # "emptyHead") => word'[Head].state = Invalid
      BY <1>1, <1>2, <2>1, <2>2, <2>3, <2>4, <2>5 DEF Words, Types
    <2>10. \A u \in Threads : pc'[u] \in {"fill", "link", "lockNew", "recycle"} => word'[cur'[u]].state = Invalid
      BY <1>1, <1>2, <2>1, <2>2, <2>3, <2>4, <2>5 DEF Words, Types
    <2>11. \A u \in Threads : pc'[u] \in Holding => word'[cur'[u]].state = Locked
      BY <1>1, <1>2, <2>1, <2>2, <2>3, <2>4, <2>5 DEF Words, Types, Holding
    <2>12. \A u, v \in Threads : pc'[u] \in Holding /\ pc'[v] \in Holding /\ cur'[u] = cur'[v] => u = v
      BY <1>1, <1>2, <2>1, <2>2, <2>3, <2>4, <2>5 DEF Words, Types, Holding
    <2>13. QED BY <2>6, <2>7, <2>8, <2>9, <2>10, <2>11, <2>12 DEF Words
  <1>26. CASE InvalidateHead(t)
    <2>1. pc[t] = "emptyHead" /\ pc' = [pc EXCEPT ![t] = "emptied"] /\ UNCHANGED <<pidOf, next, cur, freeEntries, made>>
      BY <1>26 DEF InvalidateHead, Goto, pool, walk
    <2>2. cur[t] = Head /\ Head \in Entries
      BY <2>1, <1>1, ChainFacts DEF Pages
    <2>3. word'[Head].state = Invalid /\ \A e \in Entries \ {Head} : word'[e] = word[e]
      BY <1>26, <2>2, <1>1, WordFacts DEF InvalidateHead, Types
    <2>4. \A u \in Threads \ {t} : pc[u] \in Holding => cur[u] # Head
      BY <2>1, <2>2, <1>1 DEF Words, Holding
    <2>5. \A u \in Threads : pc'[u] \in Holding => pc[u] \in Holding /\ u # t /\ cur'[u] = cur[u]
      BY <2>1, <1>1, <1>2 DEF Holding, Types
    <2>6. Head \notin Heap /\ Unlocked # Locked /\ Unlocked # Invalid /\ Locked # Invalid /\ NoPid \notin Pids
      BY WordFacts, EntriesAssumption
    <2>7. \A e \in Entries : word'[e].state \in {Unlocked, Locked, Invalid}
      BY <1>1, <1>2, <2>1, <2>2, <2>3, <2>4, <2>5, <2>6 DEF Words, Types
    <2>8. \A e \in Entries : word'[e].state = Unlocked => e \in Chain' /\ pidOf'[e] \in Pids
      BY <1>1, <1>2, <2>1, <2>2, <2>3, <2>4, <2>5, <2>6 DEF Words, Types
    <2>9. \A e \in Heap : e \in freeEntries' \/ e \notin made' => word'[e].state = Invalid
      BY <1>1, <1>2, <2>1, <2>2, <2>3, <2>4, <2>5, <2>6 DEF Words, Types
    <2>10. pidOf'[Head] = NoPid /\ (\A u \in Threads : pc'[u] # "emptyHead") => word'[Head].state = Invalid
      BY <1>1, <1>2, <2>1, <2>2, <2>3, <2>4, <2>5, <2>6 DEF Words, Types
    <2>11. \A u \in Threads : pc'[u] \in {"fill", "link", "lockNew", "recycle"} => word'[cur'[u]].state = Invalid
      BY <1>1, <1>2, <2>1, <2>2, <2>3, <2>4, <2>5, <2>6 DEF Words, Types
    <2>12. \A u \in Threads : pc'[u] \in Holding => word'[cur'[u]].state = Locked
      BY <1>1, <1>2, <2>1, <2>2, <2>3, <2>4, <2>5, <2>6 DEF Words, Types, Holding
    <2>13. \A u, v \in Threads : pc'[u] \in Holding /\ pc'[v] \in Holding /\ cur'[u] = cur'[v] => u = v
      BY <1>1, <1>2, <2>1, <2>2, <2>3, <2>4, <2>5, <2>6 DEF Words, Types, Holding
    <2>14. QED BY <2>7, <2>8, <2>9, <2>10, <2>11, <2>12, <2>13 DEF Words
  <1>27. CASE UnlockEmptied(t)
    BY <1>1, <1>2, WordFacts, EntriesAssumption, <1>27
       DEF UnlockEmptied, entries, pool, UnlockBucket, Goto, Done, EndWalk, Types, Words, Holding
  <1>28. CASE FindInChain(t)
    <2>1. pc[t] = "find" /\ pc' = [pc EXCEPT ![t] = "unlink"] /\ UNCHANGED <<next, word, freeEntries, made>>
      BY <1>28 DEF FindInChain, Goto, pool
    <2>2. cur[t] \in Chain /\ pidOf[cur[t]] = want[t] /\ want[t] \in Pids
      BY <2>1, <1>1 DEF Types, Pages
    <2>3. \E e \in Chain \ {Head} : pidOf[e] = want[t] /\ pidOf' = [pidOf EXCEPT ![e] = NoPid] /\ cur' = [cur EXCEPT ![t] = e]
      BY <1>28 DEF FindInChain
    <2>4. \A e \in Chain \ {Head} : pidOf[e] = want[t] => e = cur[t]
      BY <2>2, <1>1 DEF Pages
    <2>5. cur'[t] = cur[t] /\ cur[t] # Head /\ pidOf' = [pidOf EXCEPT ![cur[t]] = NoPid]
      BY <2>2, <2>3, <2>4, <1>1 DEF Types
    <2>6. /\ cur[t] \in Entries /\ word[cur[t]].state = Locked
          /\ \A e \in Entries \ {cur[t]} : pidOf'[e] = pidOf[e]
      BY <2>1, <2>5, <1>1 DEF Words, Holding, Types, AtEntry
    <2>7. pidOf'[Head] = pidOf[Head] /\ \A u \in Threads : pc'[u] = "emptyHead" <=> pc[u] = "emptyHead"
      BY <2>1, <2>5, <1>1 DEF Types, Entries
    <2>8. Head \notin Heap /\ Unlocked # Locked /\ Unlocked # Invalid /\ Locked # Invalid /\ NoPid \notin Pids
      BY WordFacts, EntriesAssumption
    <2>9. \A e \in Entries : word'[e].state \in {Unlocked, Locked, Invalid}
      BY <1>1, <1>2, <2>1, <2>2, <2>3, <2>4, <2>5, <2>6, <2>7, <2>8 DEF Words, Types
    <2>10. \A e \in Entries : word'[e].state = Unlocked => e \in Chain' /\ pidOf'[e] \in Pids
      BY <1>1, <1>2, <2>1, <2>2, <2>3, <2>4, <2>5, <2>6, <2>7, <2>8 DEF Words, Types
    <2>11. \A e \in Heap : e \in freeEntries' \/ e \notin made' => word'[e].state = Invalid
      BY <1>1, <1>2, <2>1, <2>2, <2>3, <2>4, <2>5, <2>6, <2>7, <2>8 DEF Words, Types
    <2>12. pidOf'[Head] = NoPid /\ (\A u \in Threads : pc'[u] # "emptyHead") => word'[Head].state = Invalid
      BY <1>1, <1>2, <2>1, <2>2, <2>3, <2>4, <2>5, <2>6, <2>7, <2>8 DEF Words, Types
    <2>13. \A u \in Threads : pc'[u] \in {"fill", "link", "lockNew", "recycle"} => word'[cur'[u]].state = Invalid
      BY <1>1, <1>2, <2>1, <2>2, <2>3, <2>4, <2>5, <2>6, <2>7, <2>8 DEF Words, Types
    <2>14. \A u \in Threads : pc'[u] \in Holding => word'[cur'[u]].state = Locked
      BY <1>1, <1>2, <2>1, <2>2, <2>3, <2>4, <2>5, <2>6, <2>7, <2>8 DEF Words, Types, Holding
    <2>15. \A u, v \in Threads : pc'[u] \in Holding /\ pc'[v] \in Holding /\ cur'[u] = cur'[v] => u = v
      BY <1>1, <1>2, <2>1, <2>2, <2>3, <2>4, <2>5, <2>6, <2>7, <2>8 DEF Words, Types, Holding
    <2>16. QED BY <2>9, <2>10, <2>11, <2>12, <2>13, <2>14, <2>15 DEF Words
  <1>29. CASE Unlink(t)
    <2>1. pc[t] = "unlink" /\ pc' = [pc EXCEPT ![t] = "unlinked"] /\ UNCHANGED <<pidOf, word, cur, freeEntries, made>>
      BY <1>29 DEF Unlink, Goto, pool, walk
    <2>2. Chain' = Chain \ {cur[t]}
      BY <1>29, UnlinkStep
    <2>3. cur[t] \in Entries /\ word[cur[t]].state = Locked
      BY <2>1, <1>1 DEF Types, AtEntry, Words, Holding
    <2>4. Head \notin Heap /\ Unlocked # Locked /\ Unlocked # Invalid /\ Locked # Invalid /\ NoPid \notin Pids
      BY WordFacts, EntriesAssumption
    <2>5. \A e \in Entries : word'[e].state \in {Unlocked, Locked, Invalid}
      BY <1>1, <1>2, <2>1, <2>2, <2>3, <2>4 DEF Words, Types
    <2>6. \A e \in Entries : word'[e].state = Unlocked => e \in Chain' /\ pidOf'[e] \in Pids
      BY <1>1, <1>2, <2>1, <2>2, <2>3, <2>4 DEF Words, Types
    <2>7. \A e \in Heap : e \in freeEntries' \/ e \notin made' => word'[e].state = Invalid
      BY <1>1, <1>2, <2>1, <2>2, <2>3, <2>4 DEF Words, Types
    <2>8. pidOf'[Head] = NoPid /\ (\A u \in Threads : pc'[u] # "emptyHead") => word'[Head].state = Invalid
      BY <1>1, <1>2, <2>1, <2>2, <2>3, <2>4 DEF Words, Types
    <2>9. \A u \in Threads : pc'[u] \in {"fill", "link", "lockNew", "recycle"} => word'[cur'[u]].state = Invalid
      BY <1>1, <1>2, <2>1, <2>2, <2>3, <2>4 DEF Words, Types
    <2>10. \A u \in Threads : pc'[u] \in Holding => word'[cur'[u]].state = Locked
      BY <1>1, <1>2, <2>1, <2>2, <2>3, <2>4 DEF Words, Types, Holding
    <2>11. \A u, v \in Threads : pc'[u] \in Holding /\ pc'[v] \in Holding /\ cur'[u] = cur'[v] => u = v
      BY <1>1, <1>2, <2>1, <2>2, <2>3, <2>4 DEF Words, Types, Holding
    <2>12. QED BY <2>5, <2>6, <2>7, <2>8, <2>9, <2>10, <2>11 DEF Words
  <1>30. CASE UnlockUnlinked(t)
    BY <1>1, <1>2, WordFacts, EntriesAssumption, <1>30
       DEF UnlockUnlinked, entries, pool, walk, UnlockBucket, Goto, Types, Words, Holding
  <1>31. CASE Invalidate(t)
    BY <1>1, <1>2, WordFacts, EntriesAssumption, <1>31
       DEF Invalidate, pool, walk, Goto, Types, Words, Holding
  <1>32. CASE Recycle(t)
    BY <1>1, <1>2, WordFacts, EntriesAssumption, <1>32
       DEF Recycle, entries, Goto, Done, EndWalk, Types, Words, Holding
  <1>33. QED
    BY <1>3, <1>4, <1>5, <1>6, <1>7, <1>8, <1>9, <1>10, <1>11, <1>12, <1>13, <1>14, <1>15,
       <1>16, <1>17, <1>18, <1>19, <1>20, <1>21, <1>22, <1>23, <1>24, <1>25, <1>26, <1>27,
       <1>28, <1>29, <1>30, <1>31, <1>32 DEF Step

LEMMA PagesStep ==
  ASSUME TableInv, NEW t \in Threads, Step(t)
  PROVE  Pages'
  <1>1. Types /\ Types' /\ BucketLock /\ Shape /\ Words /\ Pages /\ Walks
    BY TypesStep DEF TableInv
  <1>2. /\ \A u \in Threads \ {t} : pc'[u] = pc[u] /\ cur'[u] = cur[u] /\ want'[u] = want[u]
        /\ next' = next => Chain' = Chain
        /\ Head \in Chain /\ Chain \subseteq Entries
    BY <1>1, AloneStep, ChainFacts DEF Alone
  <1>3. CASE \E p \in Pids : Call(t, p)
    BY <1>1, <1>2, EntriesAssumption, <1>3 DEF Call, entries, pool, walk, Goto, Types, Pages, Absent
  <1>4. CASE LoadBucket(t)
    BY <1>1, <1>2, EntriesAssumption, <1>4 DEF LoadBucket, entries, pool, Goto, Types, Pages, Absent
  <1>5. CASE ComparePid(t)
    BY <1>1, <1>2, EntriesAssumption, <1>5
       DEF ComparePid, entries, pool, walk, Found, Goto, Types, Pages, Absent
  <1>6. CASE Follow(t)
    BY <1>1, <1>2, EntriesAssumption, <1>6 DEF Follow, entries, pool, Goto, Types, Pages, Absent
  <1>7. CASE CheckNext(t)
    BY <1>1, <1>2, EntriesAssumption, <1>7
       DEF CheckNext, entries, pool, walk, Followed, Goto, Restart, EndWalk, Types, Pages, Absent
  <1>8. CASE LoadWord(t)
    BY <1>1, <1>2, EntriesAssumption, <1>8 DEF LoadWord, entries, pool, Goto, Types, Pages, Absent
  <1>9. CASE CheckWord(t)
    BY <1>1, <1>2, EntriesAssumption, <1>9
       DEF CheckWord, entries, pool, walk, Goto, Restart, EndWalk, Types, Pages, Absent
  <1>10. CASE LockEntry(t)
    <2>1. CASE Restart(t, "hit") /\ UNCHANGED word
      BY <2>1, <1>10, <1>1, <1>2 DEF LockEntry, pool, Goto, Restart, EndWalk, Types, Pages, Absent
    <2>2. CASE /\ Goto(t, "hit", "holding") /\ StillAsFound(t) /\ EndWalk(t, cur[t])
               /\ word' = [word EXCEPT ![cur[t]] = SameVersion(@, Locked)]
      <3>1. pc[t] = "hit" /\ cur[t] \in Entries /\ LockableX(vEntry[t]) /\ word[cur[t]] = vEntry[t]
        BY <2>2, <1>1 DEF Goto, StillAsFound, Types, AtEntry
      <3>2. vEntry[t].state # Locked /\ vEntry[t].version \in Nat /\ word[cur[t]].state = Unlocked
        BY <3>1, <1>1, WordFacts DEF Words, Types
      <3>3. cur[t] \in Chain /\ pidOf[cur[t]] = want[t]
        BY <3>1, <3>2, <1>1 DEF Words, Walks, Kept
      <3>4. pc' = [pc EXCEPT ![t] = "holding"] /\ cur'[t] = cur[t] /\ UNCHANGED <<pidOf, next, want>>
        BY <2>2, <1>10, <1>1 DEF LockEntry, Goto, EndWalk, pool, Types
      <3>5. \A x, y \in Chain' : pidOf'[x] = pidOf'[y] /\ pidOf'[x] \in Pids => x = y
        BY <1>1, <1>2, <3>1, <3>2, <3>3, <3>4 DEF Pages, Types, Absent
      <3>6. \A u \in Threads : pc'[u] \in {"lockNew", "inserted", "holding", "removing", "find"} =>
          cur'[u] \in Chain' /\ pidOf'[cur'[u]] = want'[u]
        BY <1>1, <1>2, <3>1, <3>2, <3>3, <3>4 DEF Pages, Types
      <3>7. \A u \in Threads : pc'[u] \in {"fill", "link"} => pidOf'[cur'[u]] = want'[u]
        BY <1>1, <1>2, <3>1, <3>2, <3>3, <3>4 DEF Pages, Types
      <3>8. \A u \in Threads : pc'[u] \in {"emptyHead", "emptied"} => cur'[u] = Head /\ pidOf'[Head] = NoPid
        BY <1>1, <1>2, <3>1, <3>2, <3>3, <3>4 DEF Pages, Types
      <3>9. \A u \in Threads : pc'[u] = "unlink" => cur'[u] \in Chain' /\ pidOf'[cur'[u]] = NoPid
        BY <1>1, <1>2, <3>1, <3>2, <3>3, <3>4 DEF Pages, Types
      <3>10. \A u \in Threads : pc'[u] \in {"insert", "fill", "link"} => Absent(want[u])'
        BY <1>1, <1>2, <3>1, <3>2, <3>3, <3>4 DEF Pages, Types, Absent
      <3>11. QED BY <3>5, <3>6, <3>7, <3>8, <3>9, <3>10 DEF Pages
    <2>3. QED BY <2>1, <2>2, <1>10 DEF LockEntry
  <1>11. CASE Drop(t)
    BY <1>1, <1>2, EntriesAssumption, <1>11
       DEF Drop, entries, pool, Goto, Done, EndWalk, Types, Pages, Absent
  <1>12. CASE Fault(t)
    BY <1>1, <1>2, EntriesAssumption, <1>12
       DEF Fault, entries, pool, Restart, Goto, EndWalk, Types, Pages, Absent
  <1>13. CASE CheckPresent(t)
    BY <1>1, <1>2, EntriesAssumption, <1>13
       DEF CheckPresent, entries, pool, walk, Goto, Restart, EndWalk, Types, Pages, Absent
  <1>14. CASE Refused(t)
    BY <1>1, <1>2, EntriesAssumption, <1>14
       DEF Refused, entries, pool, Restart, Goto, EndWalk, Types, Pages, Absent
  <1>15. CASE LockBucket(t)
    <2>1. CASE Restart(t, "lockBucket")
      BY <2>1, <1>15, <1>1, <1>2
         DEF LockBucket, entries, pool, Goto, Restart, EndWalk, Types, Pages, Absent
    <2>2. CASE SwapBucket(t) /\ Goto(t, "lockBucket", "insert") /\ UNCHANGED walk
      <3>1. pc[t] = "lockBucket" /\ pc' = [pc EXCEPT ![t] = "insert"] /\ UNCHANGED <<pidOf, next, cur, want>>
        BY <2>2, <1>15 DEF LockBucket, Goto, entries, walk
      <3>2. Absent(want[t])
        BY <2>2, <3>1, <1>1 DEF SwapBucket, Walks
      <3>3. \A x, y \in Chain' : pidOf'[x] = pidOf'[y] /\ pidOf'[x] \in Pids => x = y
        BY <1>1, <1>2, <3>1, <3>2 DEF Pages, Types, Absent
      <3>4. \A u \in Threads : pc'[u] \in {"lockNew", "inserted", "holding", "removing", "find"} =>
          cur'[u] \in Chain' /\ pidOf'[cur'[u]] = want'[u]
        BY <1>1, <1>2, <3>1, <3>2 DEF Pages, Types
      <3>5. \A u \in Threads : pc'[u] \in {"fill", "link"} => pidOf'[cur'[u]] = want'[u]
        BY <1>1, <1>2, <3>1, <3>2 DEF Pages, Types
      <3>6. \A u \in Threads : pc'[u] \in {"emptyHead", "emptied"} => cur'[u] = Head /\ pidOf'[Head] = NoPid
        BY <1>1, <1>2, <3>1, <3>2 DEF Pages, Types
      <3>7. \A u \in Threads : pc'[u] = "unlink" => cur'[u] \in Chain' /\ pidOf'[cur'[u]] = NoPid
        BY <1>1, <1>2, <3>1, <3>2 DEF Pages, Types
      <3>8. \A u \in Threads : pc'[u] \in {"insert", "fill", "link"} => Absent(want[u])'
        BY <1>1, <1>2, <3>1, <3>2 DEF Pages, Types, Absent
      <3>9. QED BY <3>3, <3>4, <3>5, <3>6, <3>7, <3>8 DEF Pages
    <2>3. QED BY <2>1, <2>2, <1>15 DEF LockBucket
  <1>16. CASE InsertAtHead(t)
    <2>1. pc[t] = "insert" /\ pc' = [pc EXCEPT ![t] = "lockNew"] /\ UNCHANGED <<next, want>>
      BY <1>16 DEF InsertAtHead, Goto, pool, walk, entries
    <2>2. \A u \in Threads \ {t} :
          pc[u] \notin {"insert", "fill", "link", "lockNew", "inserted",
                         "find", "emptyHead", "emptied", "unlink"}
      BY <2>1, <1>1 DEF BucketLock, Critical
    <2>3. /\ pidOf[Head] = NoPid /\ cur'[t] = Head /\ pidOf'[Head] = want[t]
          /\ \A e \in Entries \ {Head} : pidOf'[e] = pidOf[e]
      BY <1>16, <1>1, <1>2 DEF InsertAtHead, Types
    <2>4. Absent(want[t])
      BY <2>1, <1>1 DEF Pages
    <2>5. \A u \in Threads \ {t} : pc[u] \in {"holding", "removing"} => want[u] \in Pids /\ cur[u] # Head
      BY <2>3, <1>1, EntriesAssumption DEF Pages, Types
    <2>6. NoPid \notin Pids
      BY EntriesAssumption
    <2>7. \A x, y \in Chain' : pidOf'[x] = pidOf'[y] /\ pidOf'[x] \in Pids => x = y
      BY <1>1, <1>2, <2>1, <2>2, <2>3, <2>4, <2>5, <2>6 DEF Pages, Types, Absent
    <2>8. \A u \in Threads : pc'[u] \in {"lockNew", "inserted", "holding", "removing", "find"} =>
        cur'[u] \in Chain' /\ pidOf'[cur'[u]] = want'[u]
      BY <1>1, <1>2, <2>1, <2>2, <2>3, <2>4, <2>5, <2>6 DEF Pages, Types
    <2>9. \A u \in Threads : pc'[u] \in {"fill", "link"} => pidOf'[cur'[u]] = want'[u]
      BY <1>1, <1>2, <2>1, <2>2, <2>3, <2>4, <2>5, <2>6 DEF Pages, Types
    <2>10. \A u \in Threads : pc'[u] \in {"emptyHead", "emptied"} => cur'[u] = Head /\ pidOf'[Head] = NoPid
      BY <1>1, <1>2, <2>1, <2>2, <2>3, <2>4, <2>5, <2>6 DEF Pages, Types
    <2>11. \A u \in Threads : pc'[u] = "unlink" => cur'[u] \in Chain' /\ pidOf'[cur'[u]] = NoPid
      BY <1>1, <1>2, <2>1, <2>2, <2>3, <2>4, <2>5, <2>6 DEF Pages, Types
    <2>12. \A u \in Threads : pc'[u] \in {"insert", "fill", "link"} => Absent(want[u])'
      BY <1>1, <1>2, <2>1, <2>2, <2>3, <2>4, <2>5, <2>6 DEF Pages, Types, Absent
    <2>13. QED BY <2>7, <2>8, <2>9, <2>10, <2>11, <2>12 DEF Pages
  <1>17. CASE TakeEntry(t)
    <2> PICK e \in freeEntries \cup (Heap \ made) :
          pidOf' = [pidOf EXCEPT ![e] = want[t]] /\ cur' = [cur EXCEPT ![t] = e]
      BY <1>17 DEF TakeEntry
    <2>1. pc[t] = "insert" /\ pc' = [pc EXCEPT ![t] = "fill"] /\ UNCHANGED <<next, want>>
      BY <1>17 DEF TakeEntry, Goto, pool, walk, entries
    <2>2. \A u \in Threads \ {t} :
          pc[u] \notin {"insert", "fill", "link", "lockNew", "inserted",
                         "find", "emptyHead", "emptied", "unlink"}
      BY <2>1, <1>1 DEF BucketLock, Critical
    <2>3. e \in Entries /\ e \notin Chain
      BY <1>1, EntriesAssumption DEF Types, Shape, Entries
    <2>4. cur'[t] = e /\ pidOf'[e] = want[t] /\ \A x \in Entries \ {e} : pidOf'[x] = pidOf[x]
      BY <2>3, <1>1 DEF Types
    <2>5. Absent(want[t])
      BY <2>1, <1>1 DEF Pages
    <2>6. NoPid \notin Pids
      BY EntriesAssumption
    <2>7. \A x, y \in Chain' : pidOf'[x] = pidOf'[y] /\ pidOf'[x] \in Pids => x = y
      BY <1>1, <1>2, <2>1, <2>2, <2>3, <2>4, <2>5, <2>6 DEF Pages, Types, Absent
    <2>8. \A u \in Threads : pc'[u] \in {"lockNew", "inserted", "holding", "removing", "find"} =>
        cur'[u] \in Chain' /\ pidOf'[cur'[u]] = want'[u]
      BY <1>1, <1>2, <2>1, <2>2, <2>3, <2>4, <2>5, <2>6 DEF Pages, Types
    <2>9. \A u \in Threads : pc'[u] \in {"fill", "link"} => pidOf'[cur'[u]] = want'[u]
      BY <1>1, <1>2, <2>1, <2>2, <2>3, <2>4, <2>5, <2>6 DEF Pages, Types
    <2>10. \A u \in Threads : pc'[u] \in {"emptyHead", "emptied"} => cur'[u] = Head /\ pidOf'[Head] = NoPid
      BY <1>1, <1>2, <2>1, <2>2, <2>3, <2>4, <2>5, <2>6 DEF Pages, Types
    <2>11. \A u \in Threads : pc'[u] = "unlink" => cur'[u] \in Chain' /\ pidOf'[cur'[u]] = NoPid
      BY <1>1, <1>2, <2>1, <2>2, <2>3, <2>4, <2>5, <2>6 DEF Pages, Types
    <2>12. \A u \in Threads : pc'[u] \in {"insert", "fill", "link"} => Absent(want[u])'
      BY <1>1, <1>2, <2>1, <2>2, <2>3, <2>4, <2>5, <2>6 DEF Pages, Types, Absent
    <2>13. QED BY <2>7, <2>8, <2>9, <2>10, <2>11, <2>12 DEF Pages
  <1>18. CASE Fill(t)
    <2>1. pc[t] = "fill" /\ pc' = [pc EXCEPT ![t] = "link"] /\ UNCHANGED <<pidOf, cur, want>>
      BY <1>18 DEF Fill, Goto, pool, walk, entries
    <2>2. \A u \in Threads \ {t} :
          pc[u] \notin {"insert", "fill", "link", "lockNew", "inserted",
                         "find", "emptyHead", "emptied", "unlink"}
      BY <2>1, <1>1 DEF BucketLock, Critical
    <2>3. Chain' = Chain
      BY <1>18, FillStep
    <2>4. \A x, y \in Chain' : pidOf'[x] = pidOf'[y] /\ pidOf'[x] \in Pids => x = y
      BY <1>1, <1>2, <2>1, <2>2, <2>3 DEF Pages, Types, Absent
    <2>5. \A u \in Threads : pc'[u] \in {"lockNew", "inserted", "holding", "removing", "find"} =>
        cur'[u] \in Chain' /\ pidOf'[cur'[u]] = want'[u]
      BY <1>1, <1>2, <2>1, <2>2, <2>3 DEF Pages, Types
    <2>6. \A u \in Threads : pc'[u] \in {"fill", "link"} => pidOf'[cur'[u]] = want'[u]
      BY <1>1, <1>2, <2>1, <2>2, <2>3 DEF Pages, Types
    <2>7. \A u \in Threads : pc'[u] \in {"emptyHead", "emptied"} => cur'[u] = Head /\ pidOf'[Head] = NoPid
      BY <1>1, <1>2, <2>1, <2>2, <2>3 DEF Pages, Types
    <2>8. \A u \in Threads : pc'[u] = "unlink" => cur'[u] \in Chain' /\ pidOf'[cur'[u]] = NoPid
      BY <1>1, <1>2, <2>1, <2>2, <2>3 DEF Pages, Types
    <2>9. \A u \in Threads : pc'[u] \in {"insert", "fill", "link"} => Absent(want[u])'
      BY <1>1, <1>2, <2>1, <2>2, <2>3 DEF Pages, Types, Absent
    <2>10. QED BY <2>4, <2>5, <2>6, <2>7, <2>8, <2>9 DEF Pages
  <1>19. CASE Link(t)
    <2>1. pc[t] = "link" /\ pc' = [pc EXCEPT ![t] = "lockNew"] /\ UNCHANGED <<pidOf, cur, want>>
      BY <1>19 DEF Link, Goto, pool, walk, entries
    <2>2. \A u \in Threads \ {t} :
          pc[u] \notin {"insert", "fill", "link", "lockNew", "inserted",
                         "find", "emptyHead", "emptied", "unlink"}
      BY <2>1, <1>1 DEF BucketLock, Critical
    <2>3. Chain' = Chain \cup {cur[t]}
      BY <1>19, LinkStep
    <2>4. Absent(want[t]) /\ pidOf[cur[t]] = want[t]
      BY <2>1, <1>1 DEF Pages
    <2>5. \A x, y \in Chain' : pidOf'[x] = pidOf'[y] /\ pidOf'[x] \in Pids => x = y
      BY <1>1, <1>2, <2>1, <2>2, <2>3, <2>4 DEF Pages, Types, Absent
    <2>6. \A u \in Threads : pc'[u] \in {"lockNew", "inserted", "holding", "removing", "find"} =>
        cur'[u] \in Chain' /\ pidOf'[cur'[u]] = want'[u]
      BY <1>1, <1>2, <2>1, <2>2, <2>3, <2>4 DEF Pages, Types
    <2>7. \A u \in Threads : pc'[u] \in {"fill", "link"} => pidOf'[cur'[u]] = want'[u]
      BY <1>1, <1>2, <2>1, <2>2, <2>3, <2>4 DEF Pages, Types
    <2>8. \A u \in Threads : pc'[u] \in {"emptyHead", "emptied"} => cur'[u] = Head /\ pidOf'[Head] = NoPid
      BY <1>1, <1>2, <2>1, <2>2, <2>3, <2>4 DEF Pages, Types
    <2>9. \A u \in Threads : pc'[u] = "unlink" => cur'[u] \in Chain' /\ pidOf'[cur'[u]] = NoPid
      BY <1>1, <1>2, <2>1, <2>2, <2>3, <2>4 DEF Pages, Types
    <2>10. \A u \in Threads : pc'[u] \in {"insert", "fill", "link"} => Absent(want[u])'
      BY <1>1, <1>2, <2>1, <2>2, <2>3, <2>4 DEF Pages, Types, Absent
    <2>11. QED BY <2>5, <2>6, <2>7, <2>8, <2>9, <2>10 DEF Pages
  <1>20. CASE LockNew(t)
    BY <1>1, <1>2, EntriesAssumption, <1>20 DEF LockNew, pool, walk, Goto, Types, Pages, Absent
  <1>21. CASE UnlockInserted(t)
    BY <1>1, <1>2, EntriesAssumption, <1>21
       DEF UnlockInserted, entries, pool, UnlockBucket, Goto, EndWalk, Types, Pages, Absent
  <1>22. CASE Release(t)
    BY <1>1, <1>2, EntriesAssumption, <1>22 DEF Release, pool, Goto, Done, EndWalk, Types, Pages, Absent
  <1>23. CASE Evict(t)
    BY <1>1, <1>2, EntriesAssumption, <1>23 DEF Evict, entries, pool, walk, Goto, Types, Pages, Absent
  <1>24. CASE LockToRemove(t)
    BY <1>1, <1>2, EntriesAssumption, <1>24
       DEF LockToRemove, entries, pool, walk, Goto, Types, Pages, Absent
  <1>25. CASE FindAtHead(t)
    <2>1. pc[t] = "find" /\ pc' = [pc EXCEPT ![t] = "emptyHead"] /\ UNCHANGED <<next, want>>
      BY <1>25 DEF FindAtHead, Goto, pool, walk, entries
    <2>2. \A u \in Threads \ {t} :
          pc[u] \notin {"insert", "fill", "link", "lockNew", "inserted",
                         "find", "emptyHead", "emptied", "unlink"}
      BY <2>1, <1>1 DEF BucketLock, Critical
    <2>3. \A u \in Threads \ {t} : pc[u] \in {"holding", "removing"} => cur[u] # cur[t]
      BY <2>1, <1>1 DEF Words, Holding
    <2>4. cur[t] = Head
      BY <2>1, <1>25, <1>1, <1>2 DEF FindAtHead, Types, Pages
    <2>5. cur'[t] = Head /\ pidOf'[Head] = NoPid /\ \A e \in Entries \ {Head} : pidOf'[e] = pidOf[e]
      BY <1>25, <1>1, <1>2 DEF FindAtHead, Types
    <2>6. NoPid \notin Pids
      BY EntriesAssumption
    <2>7. \A x, y \in Chain' : pidOf'[x] = pidOf'[y] /\ pidOf'[x] \in Pids => x = y
      BY <1>1, <1>2, <2>1, <2>2, <2>3, <2>4, <2>5, <2>6 DEF Pages, Types, Absent
    <2>8. \A u \in Threads : pc'[u] \in {"lockNew", "inserted", "holding", "removing", "find"} =>
        cur'[u] \in Chain' /\ pidOf'[cur'[u]] = want'[u]
      BY <1>1, <1>2, <2>1, <2>2, <2>3, <2>4, <2>5, <2>6 DEF Pages, Types
    <2>9. \A u \in Threads : pc'[u] \in {"fill", "link"} => pidOf'[cur'[u]] = want'[u]
      BY <1>1, <1>2, <2>1, <2>2, <2>3, <2>4, <2>5, <2>6 DEF Pages, Types
    <2>10. \A u \in Threads : pc'[u] \in {"emptyHead", "emptied"} => cur'[u] = Head /\ pidOf'[Head] = NoPid
      BY <1>1, <1>2, <2>1, <2>2, <2>3, <2>4, <2>5, <2>6 DEF Pages, Types
    <2>11. \A u \in Threads : pc'[u] = "unlink" => cur'[u] \in Chain' /\ pidOf'[cur'[u]] = NoPid
      BY <1>1, <1>2, <2>1, <2>2, <2>3, <2>4, <2>5, <2>6 DEF Pages, Types
    <2>12. \A u \in Threads : pc'[u] \in {"insert", "fill", "link"} => Absent(want[u])'
      BY <1>1, <1>2, <2>1, <2>2, <2>3, <2>4, <2>5, <2>6 DEF Pages, Types, Absent
    <2>13. QED BY <2>7, <2>8, <2>9, <2>10, <2>11, <2>12 DEF Pages
  <1>26. CASE InvalidateHead(t)
    BY <1>1, <1>2, EntriesAssumption, <1>26 DEF InvalidateHead, pool, walk, Goto, Types, Pages, Absent
  <1>27. CASE UnlockEmptied(t)
    BY <1>1, <1>2, EntriesAssumption, <1>27
       DEF UnlockEmptied, entries, pool, UnlockBucket, Goto, Done, EndWalk, Types, Pages, Absent
  <1>28. CASE FindInChain(t)
    <2>1. pc[t] = "find" /\ pc' = [pc EXCEPT ![t] = "unlink"] /\ UNCHANGED <<next, want>>
      BY <1>28 DEF FindInChain, Goto, pool, walk, entries
    <2>2. \A u \in Threads \ {t} :
          pc[u] \notin {"insert", "fill", "link", "lockNew", "inserted",
                         "find", "emptyHead", "emptied", "unlink"}
      BY <2>1, <1>1 DEF BucketLock, Critical
    <2>3. \A u \in Threads \ {t} : pc[u] \in {"holding", "removing"} => cur[u] # cur[t]
      BY <2>1, <1>1 DEF Words, Holding
    <2>4. \E e \in Chain \ {Head} : pidOf[e] = want[t] /\ pidOf' = [pidOf EXCEPT ![e] = NoPid] /\ cur' = [cur EXCEPT ![t] = e]
      BY <1>28 DEF FindInChain
    <2>5. cur[t] \in Chain /\ \A e \in Chain \ {Head} : pidOf[e] = want[t] => e = cur[t]
      BY <2>1, <1>1 DEF Pages, Types
    <2>6. /\ cur'[t] = cur[t] /\ pidOf'[cur[t]] = NoPid
          /\ \A e \in Entries \ {cur[t]} : pidOf'[e] = pidOf[e]
      BY <2>4, <2>5, <1>1, <1>2 DEF Types
    <2>7. NoPid \notin Pids
      BY EntriesAssumption
    <2>8. \A x, y \in Chain' : pidOf'[x] = pidOf'[y] /\ pidOf'[x] \in Pids => x = y
      BY <1>1, <1>2, <2>1, <2>2, <2>3, <2>4, <2>5, <2>6, <2>7 DEF Pages, Types, Absent
    <2>9. \A u \in Threads : pc'[u] \in {"lockNew", "inserted", "holding", "removing", "find"} =>
        cur'[u] \in Chain' /\ pidOf'[cur'[u]] = want'[u]
      BY <1>1, <1>2, <2>1, <2>2, <2>3, <2>4, <2>5, <2>6, <2>7 DEF Pages, Types
    <2>10. \A u \in Threads : pc'[u] \in {"fill", "link"} => pidOf'[cur'[u]] = want'[u]
      BY <1>1, <1>2, <2>1, <2>2, <2>3, <2>4, <2>5, <2>6, <2>7 DEF Pages, Types
    <2>11. \A u \in Threads : pc'[u] \in {"emptyHead", "emptied"} => cur'[u] = Head /\ pidOf'[Head] = NoPid
      BY <1>1, <1>2, <2>1, <2>2, <2>3, <2>4, <2>5, <2>6, <2>7 DEF Pages, Types
    <2>12. \A u \in Threads : pc'[u] = "unlink" => cur'[u] \in Chain' /\ pidOf'[cur'[u]] = NoPid
      BY <1>1, <1>2, <2>1, <2>2, <2>3, <2>4, <2>5, <2>6, <2>7 DEF Pages, Types
    <2>13. \A u \in Threads : pc'[u] \in {"insert", "fill", "link"} => Absent(want[u])'
      BY <1>1, <1>2, <2>1, <2>2, <2>3, <2>4, <2>5, <2>6, <2>7 DEF Pages, Types, Absent
    <2>14. QED BY <2>8, <2>9, <2>10, <2>11, <2>12, <2>13 DEF Pages
  <1>29. CASE Unlink(t)
    <2>1. pc[t] = "unlink" /\ pc' = [pc EXCEPT ![t] = "unlinked"] /\ UNCHANGED <<pidOf, cur, want>>
      BY <1>29 DEF Unlink, Goto, pool, walk, entries
    <2>2. \A u \in Threads \ {t} :
          pc[u] \notin {"insert", "fill", "link", "lockNew", "inserted",
                         "find", "emptyHead", "emptied", "unlink"}
      BY <2>1, <1>1 DEF BucketLock, Critical
    <2>3. \A u \in Threads \ {t} : pc[u] \in {"holding", "removing"} => cur[u] # cur[t]
      BY <2>1, <1>1 DEF Words, Holding
    <2>4. Chain' = Chain \ {cur[t]}
      BY <1>29, UnlinkStep
    <2>5. \A x, y \in Chain' : pidOf'[x] = pidOf'[y] /\ pidOf'[x] \in Pids => x = y
      BY <1>1, <1>2, <2>1, <2>2, <2>3, <2>4 DEF Pages, Types, Absent
    <2>6. \A u \in Threads : pc'[u] \in {"lockNew", "inserted", "holding", "removing", "find"} =>
        cur'[u] \in Chain' /\ pidOf'[cur'[u]] = want'[u]
      BY <1>1, <1>2, <2>1, <2>2, <2>3, <2>4 DEF Pages, Types
    <2>7. \A u \in Threads : pc'[u] \in {"fill", "link"} => pidOf'[cur'[u]] = want'[u]
      BY <1>1, <1>2, <2>1, <2>2, <2>3, <2>4 DEF Pages, Types
    <2>8. \A u \in Threads : pc'[u] \in {"emptyHead", "emptied"} => cur'[u] = Head /\ pidOf'[Head] = NoPid
      BY <1>1, <1>2, <2>1, <2>2, <2>3, <2>4 DEF Pages, Types
    <2>9. \A u \in Threads : pc'[u] = "unlink" => cur'[u] \in Chain' /\ pidOf'[cur'[u]] = NoPid
      BY <1>1, <1>2, <2>1, <2>2, <2>3, <2>4 DEF Pages, Types
    <2>10. \A u \in Threads : pc'[u] \in {"insert", "fill", "link"} => Absent(want[u])'
      BY <1>1, <1>2, <2>1, <2>2, <2>3, <2>4 DEF Pages, Types, Absent
    <2>11. QED BY <2>5, <2>6, <2>7, <2>8, <2>9, <2>10 DEF Pages
  <1>30. CASE UnlockUnlinked(t)
    BY <1>1, <1>2, EntriesAssumption, <1>30
       DEF UnlockUnlinked, entries, pool, walk, UnlockBucket, Goto, Types, Pages, Absent
  <1>31. CASE Invalidate(t)
    BY <1>1, <1>2, EntriesAssumption, <1>31 DEF Invalidate, pool, walk, Goto, Types, Pages, Absent
  <1>32. CASE Recycle(t)
    BY <1>1, <1>2, EntriesAssumption, <1>32
       DEF Recycle, entries, Goto, Done, EndWalk, Types, Pages, Absent
  <1>33. QED
    BY <1>3, <1>4, <1>5, <1>6, <1>7, <1>8, <1>9, <1>10, <1>11, <1>12, <1>13, <1>14, <1>15,
       <1>16, <1>17, <1>18, <1>19, <1>20, <1>21, <1>22, <1>23, <1>24, <1>25, <1>26, <1>27,
       <1>28, <1>29, <1>30, <1>31, <1>32 DEF Step

(* What a step does to a latch word: it counts on, or is locked as it is; and a page *)
(* changes under a word that nobody can lock.                                        *)
WordMoves(e) ==
  \/ word'[e] = word[e] /\ (pidOf'[e] = pidOf[e] \/ word[e].state \in {Locked, Invalid})
  \/ word'[e].version = word[e].version + 1
  \/ word'[e] = SameVersion(word[e], Locked) /\ pidOf'[e] = pidOf[e]

LEMMA WordHistory ==
  ASSUME TableInv, NEW t \in Threads, Step(t), NEW x \in Entries
  PROVE  WordMoves(x)
  <1>1. Types /\ BucketLock /\ Words /\ Pages BY DEF TableInv
  <1> USE DEF WordMoves
  <1>2. CASE \E p \in Pids : Call(t, p)
    BY <1>2 DEF Call, entries, pool, walk, Goto
  <1>3. CASE LoadBucket(t)
    BY <1>3 DEF LoadBucket, entries, pool, Goto
  <1>4. CASE ComparePid(t)
    BY <1>4 DEF ComparePid, entries, pool, walk, Found, Goto
  <1>5. CASE Follow(t)
    BY <1>5 DEF Follow, entries, pool, Goto
  <1>6. CASE CheckNext(t)
    BY <1>6 DEF CheckNext, entries, pool, walk, Followed, Goto, Restart, EndWalk
  <1>7. CASE LoadWord(t)
    BY <1>7 DEF LoadWord, entries, pool, Goto
  <1>8. CASE CheckWord(t)
    BY <1>8 DEF CheckWord, entries, pool, walk, Goto, Restart, EndWalk
  <1>9. CASE LockEntry(t)
    <2>1. CASE UNCHANGED word BY <2>1, <1>9 DEF LockEntry
    <2>2. CASE Goto(t, "hit", "holding") /\ word' = [word EXCEPT ![cur[t]] = SameVersion(@, Locked)]
      <3>1. cur[t] \in Entries BY <2>2, <1>1 DEF Goto, Types, AtEntry
      <3>2. UNCHANGED pidOf BY <1>9 DEF LockEntry
      <3>3. QED BY <2>2, <3>1, <3>2, <1>1 DEF Types
    <2>3. QED BY <2>1, <2>2, <1>9 DEF LockEntry
  <1>10. CASE Drop(t)
    BY <1>10 DEF Drop, entries, pool, Goto, Done, EndWalk
  <1>11. CASE Fault(t)
    BY <1>11 DEF Fault, entries, pool, Restart, Goto, EndWalk
  <1>12. CASE CheckPresent(t)
    BY <1>12 DEF CheckPresent, entries, pool, walk, Goto, Restart, EndWalk
  <1>13. CASE Refused(t)
    BY <1>13 DEF Refused, entries, pool, Restart, Goto, EndWalk
  <1>14. CASE LockBucket(t)
    BY <1>14 DEF LockBucket, entries, pool, walk, SwapBucket, Goto, Restart, EndWalk
  <1>15. CASE InsertAtHead(t)
    <2>1. \A u \in Threads : pc[u] # "emptyHead"
      BY <1>15, <1>1 DEF InsertAtHead, Goto, BucketLock, Critical
    <2>2. word[Head].state = Invalid BY <2>1, <1>15, <1>1 DEF InsertAtHead, Words
    <2>3. QED BY <2>2, <1>15, <1>1 DEF InsertAtHead, Types
  <1>16. CASE TakeEntry(t)
    <2>1. PICK e \in freeEntries \cup (Heap \ made) : pidOf' = [pidOf EXCEPT ![e] = want[t]]
      BY <1>16 DEF TakeEntry
    <2>2. word[e].state = Invalid BY <1>1 DEF Types, Words
    <2>3. QED BY <2>1, <2>2, <1>16, <1>1 DEF TakeEntry, Types
  <1>17. CASE Fill(t)
    BY <1>17 DEF Fill, pool, walk, Goto
  <1>18. CASE Link(t)
    BY <1>18 DEF Link, pool, walk, Goto
  <1>19. CASE LockNew(t)
    <2>1. cur[t] \in Entries BY <1>19, <1>1 DEF LockNew, Goto, Types, AtEntry
    <2>2. QED BY <1>19, <2>1, <1>1, WordFacts DEF LockNew, Types
  <1>20. CASE UnlockInserted(t)
    BY <1>20 DEF UnlockInserted, entries, pool, UnlockBucket, Goto, EndWalk
  <1>21. CASE Release(t)
    <2>1. cur[t] \in Entries BY <1>21, <1>1 DEF Release, Goto, Types, AtEntry
    <2>2. QED BY <1>21, <2>1, <1>1, WordFacts DEF Release, Types
  <1>22. CASE Evict(t)
    BY <1>22 DEF Evict, entries, pool, walk, Goto
  <1>23. CASE LockToRemove(t)
    BY <1>23 DEF LockToRemove, entries, pool, walk, Goto
  <1>24. CASE FindAtHead(t)
    <2>1. pc[t] = "find" /\ cur[t] = Head
      BY <1>24, <1>1, ChainFacts DEF FindAtHead, Goto, Types, Pages
    <2>2. word[Head].state = Locked BY <2>1, <1>1 DEF Words, Holding
    <2>3. QED BY <2>2, <1>24, <1>1 DEF FindAtHead, Types
  <1>25. CASE InvalidateHead(t)
    BY <1>25, <1>1, WordFacts, ChainFacts DEF InvalidateHead, Types
  <1>26. CASE UnlockEmptied(t)
    BY <1>26 DEF UnlockEmptied, entries, pool, UnlockBucket, Goto, Done, EndWalk
  <1>27. CASE FindInChain(t)
    <2>1. PICK e \in Chain \ {Head} : pidOf[e] = want[t] /\ pidOf' = [pidOf EXCEPT ![e] = NoPid]
      BY <1>27 DEF FindInChain
    <2>2. pc[t] = "find" /\ cur[t] = e
      BY <2>1, <1>27, <1>1 DEF FindInChain, Goto, Types, Pages
    <2>3. word[e].state = Locked BY <2>2, <1>1 DEF Words, Holding
    <2>4. QED BY <2>1, <2>3, <1>27, <1>1 DEF FindInChain, Types
  <1>28. CASE Unlink(t)
    BY <1>28 DEF Unlink, pool, walk, Goto
  <1>29. CASE UnlockUnlinked(t)
    BY <1>29 DEF UnlockUnlinked, entries, pool, walk, UnlockBucket, Goto
  <1>30. CASE Invalidate(t)
    <2>1. cur[t] \in Entries BY <1>30, <1>1 DEF Invalidate, Goto, Types, AtEntry
    <2>2. QED BY <1>30, <2>1, <1>1, WordFacts DEF Invalidate, Types
  <1>31. CASE Recycle(t)
    BY <1>31 DEF Recycle, entries, Goto, Done, EndWalk
  <1>32. QED
    BY <1>2, <1>3, <1>4, <1>5, <1>6, <1>7, <1>8, <1>9, <1>10, <1>11, <1>12, <1>13, <1>14, <1>15,
       <1>16, <1>17, <1>18, <1>19, <1>20, <1>21, <1>22, <1>23, <1>24, <1>25, <1>26, <1>27,
       <1>28, <1>29, <1>30, <1>31 DEF Step

LEMMA KeptStays ==
  ASSUME TableInv, NEW t \in Threads, Step(t), NEW u \in Threads,
         cur[u] \in Entries, Kept(u), cur'[u] = cur[u], vEntry'[u] = vEntry[u], want'[u] = want[u]
  PROVE  Kept(u)'
  <1> DEFINE e == cur[u]
             v == vEntry[u]
  <1>1. /\ word[e] \in Word /\ word'[e] \in Word /\ v \in Word /\ WordMoves(e)
    BY TypesStep, WordHistory DEF TableInv, Types
  <1>2. /\ word[e].version \in Nat /\ word'[e].version \in Nat /\ v.version \in Nat
        /\ SameVersion(word[e], Locked).state = Locked
        /\ SameVersion(word[e], Locked).version = word[e].version
        /\ LockableX(v) => v.state # Locked /\ v.state # Invalid
    BY <1>1, WordFacts
  <1> SUFFICES ASSUME LockableX(v)
               PROVE  \/ word'[e].version > v.version
                      \/ word'[e].version = v.version /\ word'[e].state = Locked
                      \/ word'[e] = v /\ pidOf'[e] = want[u]
    BY DEF Kept
  <1>3. \/ word[e].version > v.version
        \/ word[e].version = v.version /\ word[e].state = Locked
        \/ word[e] = v /\ pidOf[e] = want[u]
    BY DEF Kept
  <1> HIDE DEF e, v
  <1>4. QED BY <1>1, <1>2, <1>3 DEF WordMoves

(* Whoever changes the bucket makes the walks of others start over. *)
LEMMA Undisturbed ==
  ASSUME TableInv, NEW t \in Threads, Step(t), NEW u \in Threads \ {t}, Unchanged(u)'
  PROVE  Unchanged(u) /\ pidOf' = pidOf /\ next' = next
  <1>1. Types /\ BucketLock /\ vBucket'[u] = vBucket[u] BY AloneStep DEF TableInv, Alone
  <1>2. CASE \E p \in Pids : Call(t, p)
    BY <1>1, <1>2 DEF Call, entries, pool, walk, Goto, Unchanged, Types, BucketLock, Critical
  <1>3. CASE LoadBucket(t)
    BY <1>1, <1>3 DEF LoadBucket, entries, pool, Goto, Unchanged, Types, BucketLock, Critical
  <1>4. CASE ComparePid(t)
    BY <1>1, <1>4
       DEF ComparePid, entries, pool, walk, Found, Goto, Unchanged, Types, BucketLock, Critical
  <1>5. CASE Follow(t)
    BY <1>1, <1>5 DEF Follow, entries, pool, Goto, Unchanged, Types, BucketLock, Critical
  <1>6. CASE CheckNext(t)
    BY <1>1, <1>6
       DEF CheckNext, entries, pool, walk, Followed, Goto, Restart, EndWalk, Unchanged, Types,
           BucketLock, Critical
  <1>7. CASE LoadWord(t)
    BY <1>1, <1>7 DEF LoadWord, entries, pool, Goto, Unchanged, Types, BucketLock, Critical
  <1>8. CASE CheckWord(t)
    BY <1>1, <1>8
       DEF CheckWord, entries, pool, walk, Goto, Restart, EndWalk, Unchanged, Types, BucketLock, Critical
  <1>9. CASE LockEntry(t)
    BY <1>1, <1>9 DEF LockEntry, pool, Goto, Restart, EndWalk, Unchanged, Types, BucketLock, Critical
  <1>10. CASE Drop(t)
    BY <1>1, <1>10 DEF Drop, entries, pool, Goto, Done, EndWalk, Unchanged, Types, BucketLock, Critical
  <1>11. CASE Fault(t)
    BY <1>1, <1>11
       DEF Fault, entries, pool, Restart, Goto, EndWalk, Unchanged, Types, BucketLock, Critical
  <1>12. CASE CheckPresent(t)
    BY <1>1, <1>12
       DEF CheckPresent, entries, pool, walk, Goto, Restart, EndWalk, Unchanged, Types, BucketLock,
           Critical
  <1>13. CASE Refused(t)
    BY <1>1, <1>13
       DEF Refused, entries, pool, Restart, Goto, EndWalk, Unchanged, Types, BucketLock, Critical
  <1>14. CASE LockBucket(t)
    BY <1>1, <1>14
       DEF LockBucket, entries, pool, walk, SwapBucket, Goto, Restart, EndWalk, Unchanged, Types,
           BucketLock, Critical
  <1>15. CASE InsertAtHead(t)
    BY <1>1, <1>15 DEF InsertAtHead, pool, Goto, Unchanged, Types, BucketLock, Critical
  <1>16. CASE TakeEntry(t)
    BY <1>1, <1>16 DEF TakeEntry, Goto, Unchanged, Types, BucketLock, Critical
  <1>17. CASE Fill(t)
    BY <1>1, <1>17 DEF Fill, pool, walk, Goto, Unchanged, Types, BucketLock, Critical
  <1>18. CASE Link(t)
    BY <1>1, <1>18 DEF Link, pool, walk, Goto, Unchanged, Types, BucketLock, Critical
  <1>19. CASE LockNew(t)
    BY <1>1, <1>19 DEF LockNew, pool, walk, Goto, Unchanged, Types, BucketLock, Critical
  <1>20. CASE UnlockInserted(t)
    BY <1>1, <1>20
       DEF UnlockInserted, entries, pool, UnlockBucket, Goto, EndWalk, Unchanged, Types, BucketLock,
           Critical
  <1>21. CASE Release(t)
    BY <1>1, <1>21 DEF Release, pool, Goto, Done, EndWalk, Unchanged, Types, BucketLock, Critical
  <1>22. CASE Evict(t)
    BY <1>1, <1>22 DEF Evict, entries, pool, walk, Goto, Unchanged, Types, BucketLock, Critical
  <1>23. CASE LockToRemove(t)
    BY <1>1, <1>23 DEF LockToRemove, entries, pool, walk, Goto, Unchanged, Types, BucketLock, Critical
  <1>24. CASE FindAtHead(t)
    BY <1>1, <1>24 DEF FindAtHead, pool, Goto, Unchanged, Types, BucketLock, Critical
  <1>25. CASE InvalidateHead(t)
    BY <1>1, <1>25 DEF InvalidateHead, pool, walk, Goto, Unchanged, Types, BucketLock, Critical
  <1>26. CASE UnlockEmptied(t)
    BY <1>1, <1>26
       DEF UnlockEmptied, entries, pool, UnlockBucket, Goto, Done, EndWalk, Unchanged, Types,
           BucketLock, Critical
  <1>27. CASE FindInChain(t)
    BY <1>1, <1>27 DEF FindInChain, pool, Goto, Unchanged, Types, BucketLock, Critical
  <1>28. CASE Unlink(t)
    BY <1>1, <1>28 DEF Unlink, pool, walk, Goto, Unchanged, Types, BucketLock, Critical
  <1>29. CASE UnlockUnlinked(t)
    BY <1>1, <1>29
       DEF UnlockUnlinked, entries, pool, walk, UnlockBucket, Goto, Unchanged, Types, BucketLock,
           Critical
  <1>30. CASE Invalidate(t)
    BY <1>1, <1>30 DEF Invalidate, pool, walk, Goto, Unchanged, Types, BucketLock, Critical
  <1>31. CASE Recycle(t)
    BY <1>1, <1>31 DEF Recycle, entries, Goto, Done, EndWalk, Unchanged, Types, BucketLock, Critical
  <1>32. QED
    BY <1>2, <1>3, <1>4, <1>5, <1>6, <1>7, <1>8, <1>9, <1>10, <1>11, <1>12, <1>13, <1>14, <1>15,
       <1>16, <1>17, <1>18, <1>19, <1>20, <1>21, <1>22, <1>23, <1>24, <1>25, <1>26, <1>27,
       <1>28, <1>29, <1>30, <1>31 DEF Step

WalkOf(t) ==
  /\ Unchanged(t) =>
       /\ pc[t] \in {"compare", "follow", "checkNext"} => Walking(t)
       /\ pc[t] = "follow" => pidOf[cur[t]] # want[t]
       /\ pc[t] \in {"loadWord", "checkWord", "present"} => AtPage(t)
       /\ pc[t] = "checkWord" => Kept(t)
       /\ pc[t] = "lockBucket" => Absent(want[t])
  /\ pc[t] = "hit" => Kept(t)

LEMMA WalkStep ==
  ASSUME TableInv, NEW t \in Threads, Step(t)
  PROVE  WalkOf(t)'
  <1>1. Types /\ Types' /\ Walks BY TypesStep DEF TableInv
  <1>2. Head \in Chain /\ (next' = next => Chain' = Chain) BY <1>1, ChainFacts
  <1>3. Closed(next, Chain) /\ \A S : Closed(next, S) => Chain \subseteq S BY <1>1, ChainFacts
  <1> USE DEF WalkOf
  <1>4. CASE \E p \in Pids : Call(t, p)
    BY <1>1, <1>4 DEF Call, entries, pool, walk, Goto, Types
  <1>5. CASE LoadBucket(t)
    <2>1. cur'[t] = Head /\ pc'[t] = "compare" BY <1>5, <1>1 DEF LoadBucket, Goto, Types
    <2>2. Passed(t, {})' BY <2>1 DEF Passed
    <2>3. Walking(t)' BY <2>1, <2>2, <1>2, <1>5 DEF Walking, LoadBucket, entries
    <2>4. QED BY <2>1, <2>3
  <1>6. CASE ComparePid(t)
    <2>1. /\ pc[t] = "compare" /\ UNCHANGED <<bucket, pidOf, next, word, want, vBucket, cur, vEntry>>
          /\ \/ pc'[t] \in {"loadWord", "present"} /\ pidOf[cur[t]] = want[t]
             \/ pc'[t] = "follow" /\ pidOf[cur[t]] # want[t]
      BY <1>6, <1>1 DEF ComparePid, Found, Goto, Types, entries, walk
    <2>2. cur[t] \in Entries BY <2>1, <1>1 DEF Types, AtEntry
    <2>3. Unchanged(t)' => Walking(t) BY <2>1, <1>1 DEF Unchanged, Walks
    <2>4. Walking(t) => Walking(t)' BY <2>1, <1>2 DEF Walking, Passed
    <2>5. Walking(t) => cur[t] \in Chain BY <2>2, EntriesAssumption DEF Walking
    <2>6. QED BY <2>1, <2>3, <2>4, <2>5, <1>2 DEF AtPage
  <1>7. CASE Follow(t)
    <2>1. /\ pc[t] = "follow" /\ pc'[t] = "checkNext" /\ UNCHANGED <<bucket, pidOf, next, word, want, vBucket, vEntry>>
          /\ cur'[t] = next[cur[t]]
      BY <1>7, <1>1 DEF Follow, Goto, Types, entries
    <2>2. cur[t] \in Entries BY <2>1, <1>1 DEF Types, AtEntry
    <2>3. ASSUME Unchanged(t)' PROVE Walking(t)'
      <3>1. Walking(t) /\ pidOf[cur[t]] # want[t] BY <2>1, <2>3, <1>1 DEF Unchanged, Walks
      <3>2. PICK S : Passed(t, S) BY <3>1 DEF Walking
      <3> PICK R : R = S \cup {cur[t]} OBVIOUS
      <3>7. R \subseteq Entries /\ Head \in R /\ \A e \in R : pidOf[e] # want[t]
        BY <2>2, <3>1, <3>2 DEF Passed
      <3>8. \A e \in R : next[e] \in R \cup {next[cur[t]], Null} BY <3>2 DEF Passed
      <3>9. \E T : Passed(t, T)'
        <4>1. Passed(t, R)' BY <2>1, <3>7, <3>8 DEF Passed
        <4>2. QED BY <4>1
      <3>4. cur[t] \in Chain BY <3>1, <2>2, EntriesAssumption DEF Walking
      <3>5. cur'[t] \in Chain' \cup {Null} BY <2>1, <3>4, <1>2, <1>3 DEF Closed
      <3>6. QED BY <3>9, <3>5 DEF Walking
    <2>4. QED BY <2>1, <2>3
  <1>8. CASE CheckNext(t)
    <2>1. CASE Restart(t, "checkNext") BY <2>1, <1>1 DEF Restart, Goto, Types
    <2>2. CASE /\ Followed(t) /\ UNCHANGED walk
               /\ \/ cur[t] # Null /\ Goto(t, "checkNext", "compare")
                  \/ cur[t] = Null /\ Goto(t, "checkNext", "miss")
                  \/ cur[t] = Null /\ Goto(t, "checkNext", "lockBucket")
      <3>1. /\ pc[t] = "checkNext" /\ UNCHANGED <<bucket, pidOf, next, word, want, vBucket, cur, vEntry>>
            /\ pc'[t] \in {"compare", "miss", "lockBucket"} /\ (pc'[t] = "lockBucket" => cur[t] = Null)
        BY <2>2, <1>8, <1>1 DEF CheckNext, Goto, Types, entries, walk
      <3>2. Walking(t) BY <2>2, <3>1, <1>1 DEF Followed, Walks
      <3>3. PICK S : Passed(t, S) BY <3>2 DEF Walking
      <3>4. Walking(t)' BY <3>1, <3>2, <1>2 DEF Walking, Passed
      <3>5. ASSUME cur[t] = Null PROVE Absent(want[t])'
        <4>1. Closed(next, S) BY <3>3, <3>5, EntriesAssumption DEF Passed, Closed, Entries
        <4>2. Chain \subseteq S BY <4>1, <1>3
        <4>3. QED BY <3>1, <3>3, <4>2, <1>2 DEF Passed, Absent
      <3>6. QED BY <3>1, <3>4, <3>5
    <2>3. QED BY <2>1, <2>2, <1>8 DEF CheckNext
  <1>9. CASE LoadWord(t)
    <2>1. /\ pc[t] = "loadWord" /\ pc'[t] = "checkWord" /\ UNCHANGED <<bucket, pidOf, next, word, want, vBucket, cur>>
          /\ vEntry'[t] = word[cur[t]]
      BY <1>9, <1>1 DEF LoadWord, Goto, Types, entries
    <2>2. Unchanged(t)' => AtPage(t) BY <2>1, <1>1 DEF Unchanged, Walks
    <2>3. AtPage(t) => AtPage(t)' /\ Kept(t)' BY <2>1, <1>2 DEF AtPage, Kept
    <2>4. QED BY <2>1, <2>2, <2>3
  <1>10. CASE CheckWord(t)
    <2>1. CASE Restart(t, "checkWord") BY <2>1, <1>1 DEF Restart, Goto, Types
    <2>2. CASE Unchanged(t) /\ Goto(t, "checkWord", "hit") /\ UNCHANGED walk
      <3>1. /\ pc[t] = "checkWord" /\ pc'[t] = "hit" /\ UNCHANGED <<pidOf, word, want, cur, vEntry>>
        BY <2>2, <1>10, <1>1 DEF CheckWord, Goto, Types, entries, walk
      <3>2. Kept(t) BY <2>2, <3>1, <1>1 DEF Walks
      <3>3. Kept(t)' BY <3>1, <3>2 DEF Kept
      <3>4. QED BY <3>1, <3>3
    <2>3. QED BY <2>1, <2>2, <1>10 DEF CheckWord
  <1>11. CASE LockEntry(t)
    BY <1>1, <1>11 DEF LockEntry, pool, Goto, Restart, EndWalk, Types
  <1>12. CASE Drop(t)
    BY <1>1, <1>12 DEF Drop, entries, pool, Goto, Done, EndWalk, Types
  <1>13. CASE Fault(t)
    BY <1>1, <1>13 DEF Fault, entries, pool, Restart, Goto, EndWalk, Types
  <1>14. CASE CheckPresent(t)
    BY <1>1, <1>14 DEF CheckPresent, entries, pool, walk, Goto, Restart, EndWalk, Types
  <1>15. CASE Refused(t)
    BY <1>1, <1>15 DEF Refused, entries, pool, Restart, Goto, EndWalk, Types
  <1>16. CASE LockBucket(t)
    BY <1>1, <1>16 DEF LockBucket, entries, pool, walk, SwapBucket, Goto, Restart, EndWalk, Types
  <1>17. CASE InsertAtHead(t)
    BY <1>1, <1>17 DEF InsertAtHead, pool, Goto, Types
  <1>18. CASE TakeEntry(t)
    BY <1>1, <1>18 DEF TakeEntry, Goto, Types
  <1>19. CASE Fill(t)
    BY <1>1, <1>19 DEF Fill, pool, walk, Goto, Types
  <1>20. CASE Link(t)
    BY <1>1, <1>20 DEF Link, pool, walk, Goto, Types
  <1>21. CASE LockNew(t)
    BY <1>1, <1>21 DEF LockNew, pool, walk, Goto, Types
  <1>22. CASE UnlockInserted(t)
    BY <1>1, <1>22 DEF UnlockInserted, entries, pool, UnlockBucket, Goto, EndWalk, Types
  <1>23. CASE Release(t)
    BY <1>1, <1>23 DEF Release, pool, Goto, Done, EndWalk, Types
  <1>24. CASE Evict(t)
    BY <1>1, <1>24 DEF Evict, entries, pool, walk, Goto, Types
  <1>25. CASE LockToRemove(t)
    BY <1>1, <1>25 DEF LockToRemove, entries, pool, walk, Goto, Types
  <1>26. CASE FindAtHead(t)
    BY <1>1, <1>26 DEF FindAtHead, pool, Goto, Types
  <1>27. CASE InvalidateHead(t)
    BY <1>1, <1>27 DEF InvalidateHead, pool, walk, Goto, Types
  <1>28. CASE UnlockEmptied(t)
    BY <1>1, <1>28 DEF UnlockEmptied, entries, pool, UnlockBucket, Goto, Done, EndWalk, Types
  <1>29. CASE FindInChain(t)
    BY <1>1, <1>29 DEF FindInChain, pool, Goto, Types
  <1>30. CASE Unlink(t)
    BY <1>1, <1>30 DEF Unlink, pool, walk, Goto, Types
  <1>31. CASE UnlockUnlinked(t)
    BY <1>1, <1>31 DEF UnlockUnlinked, entries, pool, walk, UnlockBucket, Goto, Types
  <1>32. CASE Invalidate(t)
    BY <1>1, <1>32 DEF Invalidate, pool, walk, Goto, Types
  <1>33. CASE Recycle(t)
    BY <1>1, <1>33 DEF Recycle, entries, Goto, Done, EndWalk, Types
  <1>34. QED
    BY <1>4, <1>5, <1>6, <1>7, <1>8, <1>9, <1>10, <1>11, <1>12, <1>13, <1>14, <1>15, <1>16,
       <1>17, <1>18, <1>19, <1>20, <1>21, <1>22, <1>23, <1>24, <1>25, <1>26, <1>27, <1>28,
       <1>29, <1>30, <1>31, <1>32, <1>33 DEF Step

LEMMA WalksStep ==
  ASSUME TableInv, NEW t \in Threads, Step(t)
  PROVE  Walks'
  <1>1. Types /\ Walks BY DEF TableInv
  <1>2. ASSUME NEW u \in Threads \ {t} PROVE WalkOf(u)'
    <2>1. /\ pc'[u] = pc[u] /\ want'[u] = want[u] /\ vBucket'[u] = vBucket[u]
          /\ cur'[u] = cur[u] /\ vEntry'[u] = vEntry[u]
      BY <1>1, AloneStep DEF Alone
    <2>2. Unchanged(u)' => Unchanged(u) /\ pidOf' = pidOf /\ next' = next BY Undisturbed
    <2>3. next' = next => Chain' = Chain BY <1>1, ChainFacts
    <2>4. pc[u] \in {"checkWord", "hit"} /\ Kept(u) => Kept(u)'
      BY <2>1, <1>1, KeptStays DEF Types, AtEntry
    <2>5. Unchanged(u)' /\ Walking(u) => Walking(u)' BY <2>1, <2>2, <2>3 DEF Walking, Passed
    <2>6. Unchanged(u)' /\ AtPage(u) => AtPage(u)' BY <2>1, <2>2, <2>3 DEF AtPage
    <2>7. Unchanged(u)' /\ Absent(want[u]) => Absent(want[u])' BY <2>1, <2>2, <2>3 DEF Absent
    <2>8. QED BY <1>1, <2>1, <2>2, <2>4, <2>5, <2>6, <2>7 DEF Walks, WalkOf
  <1>3. WalkOf(t)' BY WalkStep
  <1>4. QED BY <1>2, <1>3 DEF Walks, WalkOf

-------------------------------------------------------------------------------
(* The invariant. *)

LEMMA TableInit == Init => TableInv
  <1> SUFFICES ASSUME Init PROVE TableInv OBVIOUS
  <1>1. Types
    BY WordFacts, EntriesAssumption DEF Init, Types, Links, Phases, AtEntry, InHandsAt, Entries
  <1>2. Chain = {Head}
    <2>1. Closed(next, {Head}) BY DEF Closed, Init, Entries
    <2>2. QED BY <1>1, <2>1, ChainFacts
  <1>3. BucketLock BY DEF Init, BucketLock, Critical
  <1>4. Shape BY <1>2, EntriesAssumption DEF Init, Shape, Acyclic, InHandsAt, Entries
  <1>5. Words BY <1>2, WordFacts, EntriesAssumption DEF Init, Words, Holding, Entries
  <1>6. Pages BY <1>2 DEF Init, Pages
  <1>7. Walks BY DEF Init, Walks
  <1>8. QED BY <1>1, <1>3, <1>4, <1>5, <1>6, <1>7 DEF TableInv

LEMMA TableStep == TableInv /\ [Next]_vars => TableInv'
  <1> SUFFICES ASSUME TableInv, [Next]_vars PROVE TableInv' OBVIOUS
  <1>1. CASE Next
    <2>1. PICK t \in Threads : Step(t) BY <1>1 DEF Next
    <2>2. QED BY <2>1, TypesStep, LockStep, ShapeStep, WordsStep, PagesStep, WalksStep DEF TableInv
  <1>2. CASE UNCHANGED vars
    <2>1. /\ UNCHANGED <<bucket, pidOf, next, word, freeEntries, made, pc, want, inserts, vBucket, cur, vEntry>>
          /\ Chain' = Chain
      BY <1>2, ChainFacts DEF vars, entries, pool, walk, TableInv
    <2>2. Types' /\ BucketLock' BY <2>1 DEF TableInv, Types, BucketLock
    <2>3. Shape' BY <2>1 DEF TableInv, Shape, Acyclic
    <2>4. Words' /\ Pages' BY <2>1 DEF TableInv, Words, Pages, Absent
    <2>5. Walks' BY <2>1 DEF TableInv, Walks, Unchanged, Walking, Passed, AtPage, Kept, Absent
    <2>6. QED BY <2>2, <2>3, <2>4, <2>5 DEF TableInv
  <1>3. QED BY <1>1, <1>2

(* The invariant holds in every behaviour of the bucket, for walks without the lock too. *)
THEOREM Invariant == Spec => []TableInv
  BY TableInit, TableStep, PTL DEF Spec

-------------------------------------------------------------------------------
(* The refinement. *)

Residents == {p \in Pids : InTable(p) # {}}
Answers == [t \in Threads |-> Answer(t)]
AbstractStep == Table!Next \/ UNCHANGED <<Residents, want, Answers>>

LEMMA AnswersStep ==
  ASSUME NEW t \in Threads, Types, Types', Alone(t)
  PROVE  Answers' = [Answers EXCEPT ![t] = Answer(t)'] /\ Answers[t] = Answer(t)
  BY DEF Alone, Answers, Answer

(* What a step of the table is to its callers: nothing, a question, its answer, the end *)
(* of an answer, an insertion or a removal.                                              *)
LEMMA StaysAs ==
  ASSUME NEW t \in Threads, Types, Types', Alone(t),
         \A p \in Pids : InTable(p)' = InTable(p), want' = want, Answer(t)' = Answer(t)
  PROVE  AbstractStep
  <1>1. Residents' = Residents BY DEF Residents
  <1>2. Answers' = Answers BY DEF Alone, Answers, Answer
  <1>3. QED BY <1>1, <1>2 DEF AbstractStep

LEMMA Asked ==
  ASSUME NEW t \in Threads, Types, Types', Alone(t), NEW p \in Pids,
         \A q \in Pids : InTable(q)' = InTable(q),
         want' = [want EXCEPT ![t] = p], Answer(t) = "none", Answer(t)' = "none"
  PROVE  AbstractStep
  <1>1. Residents' = Residents BY DEF Residents
  <1>2. Answers' = Answers /\ Answers[t] = "none" BY DEF Alone, Answers, Answer
  <1>3. Table!Ask(t, p) BY <1>1, <1>2 DEF Table!Ask, Residents, Answers
  <1>4. QED BY <1>3 DEF AbstractStep, Table!Next

LEMMA Told ==
  ASSUME NEW t \in Threads, Types, Types', Alone(t),
         \A p \in Pids : InTable(p)' = InTable(p), want' = want, want[t] \in Pids, Answer(t) = "none",
         \/ InTable(want[t]) # {} /\ Answer(t)' \in {"hit", "refused"}
         \/ InTable(want[t]) = {} /\ Answer(t)' = "miss"
  PROVE  AbstractStep
  <1>1. Residents' = Residents /\ (want[t] \in Residents <=> InTable(want[t]) # {}) BY DEF Residents
  <1>2. Answers' = [Answers EXCEPT ![t] = Answer(t)'] /\ Answers[t] = "none" BY AnswersStep
  <1>3. Table!Tell(t) BY <1>1, <1>2, EntriesAssumption DEF Table!Tell, Residents, Answers
  <1>4. QED BY <1>3 DEF AbstractStep, Table!Next

LEMMA Forgotten ==
  ASSUME NEW t \in Threads, Types, Types', Alone(t),
         \A p \in Pids : InTable(p)' = InTable(p), Answer(t)' = "none",
         want' = want \/ want' = [want EXCEPT ![t] = NoPid]
  PROVE  AbstractStep
  <1>1. Residents' = Residents BY DEF Residents
  <1>2. Answers' = [Answers EXCEPT ![t] = "none"] BY AnswersStep
  <1>3. \E p \in {want[t], NoPid} : want' = [want EXCEPT ![t] = p] BY DEF Types
  <1>4. Table!Forget(t) BY <1>1, <1>2, <1>3 DEF Table!Forget, Residents, Answers
  <1>5. QED BY <1>4 DEF AbstractStep, Table!Next

LEMMA Inserted ==
  ASSUME NEW t \in Threads, Types, Types', Alone(t),
         \A p \in Pids : InTable(p)' # {} <=> p = want[t] \/ InTable(p) # {},
         want[t] \in Pids, InTable(want[t]) = {}, want' = want, Answer(t) = "none", Answer(t)' = "none"
  PROVE  AbstractStep
  <1>1. want[t] \in Pids \ Residents /\ Residents' = Residents \cup {want[t]} BY DEF Residents
  <1>2. Answers' = Answers /\ Answers[t] = "none" BY DEF Alone, Answers, Answer
  <1>3. Table!Insert(t) BY <1>1, <1>2 DEF Table!Insert, Residents, Answers
  <1>4. QED BY <1>3 DEF AbstractStep, Table!Next

LEMMA Removed ==
  ASSUME NEW t \in Threads, Types, Types', Alone(t),
         \A p \in Pids : InTable(p)' # {} <=> p # want[t] /\ InTable(p) # {},
         want[t] \in Pids, InTable(want[t]) # {}, want' = want, Answer(t)' = Answer(t)
  PROVE  AbstractStep
  <1>1. want[t] \in Residents /\ Residents' = Residents \ {want[t]} BY DEF Residents
  <1>2. Answers' = Answers BY DEF Alone, Answers, Answer
  <1>3. Table!Remove(want[t]) BY <1>1, <1>2 DEF Table!Remove, Residents, Answers
  <1>4. QED BY <1>3 DEF AbstractStep, Table!Next

LEMMA RefinementStep ==
  ASSUME TableInv, NEW t \in Threads, Step(t)
  PROVE  AbstractStep
  <1>1. Types /\ Types' /\ BucketLock /\ Shape /\ Words /\ Pages /\ Walks /\ Alone(t)
    BY TypesStep, AloneStep DEF TableInv
  <1>2. (next' = next => Chain' = Chain) /\ Chain \subseteq Entries BY <1>1, ChainFacts
  <1>3. CASE \E p \in Pids : Call(t, p)
    <2>1. PICK p \in Pids : Call(t, p) BY <1>3
    <2>2. \A q \in Pids : InTable(q)' = InTable(q) BY <2>1, <1>2 DEF InTable, Call, entries
    <2>3. want' = [want EXCEPT ![t] = p] /\ Answer(t) = "none" /\ Answer(t)' = "none"
      BY <2>1, <1>1 DEF Call, Goto, Types, Answer
    <2>4. QED BY <2>2, <2>3, Asked, <1>1
  <1>4. CASE LoadBucket(t)
    <2>3. \A p \in Pids : InTable(p)' = InTable(p)
      BY <1>4, <1>2 DEF InTable, LoadBucket, entries, pool, Goto
    <2>4. want' = want /\ Answer(t)' = Answer(t)
      BY <1>4, <1>1 DEF Answer, Types, LoadBucket, entries, pool, Goto
    <2>5. QED BY <2>3, <2>4, StaysAs, <1>1
  <1>5. CASE ComparePid(t)
    <2>3. \A p \in Pids : InTable(p)' = InTable(p)
      BY <1>5, <1>2 DEF InTable, ComparePid, entries, pool, walk, Found, Goto
    <2>4. want' = want /\ Answer(t)' = Answer(t)
      BY <1>5, <1>1 DEF Answer, Types, ComparePid, entries, pool, walk, Found, Goto
    <2>5. QED BY <2>3, <2>4, StaysAs, <1>1
  <1>6. CASE Follow(t)
    <2>3. \A p \in Pids : InTable(p)' = InTable(p)
      BY <1>6, <1>2 DEF InTable, Follow, entries, pool, Goto
    <2>4. want' = want /\ Answer(t)' = Answer(t)
      BY <1>6, <1>1 DEF Answer, Types, Follow, entries, pool, Goto
    <2>5. QED BY <2>3, <2>4, StaysAs, <1>1
  <1>7. CASE CheckNext(t)
    <2>1. CASE Restart(t, "checkNext")
      <3>1. \A p \in Pids : InTable(p)' = InTable(p)
        BY <1>7, <1>2 DEF InTable, CheckNext, entries, pool, walk, Followed, Goto, Restart, EndWalk
      <3>2. want' = want /\ Answer(t)' = Answer(t)
        BY <2>1, <1>7, <1>1
           DEF Answer, Types, CheckNext, entries, pool, walk, Followed, Goto, Restart, EndWalk
      <3>3. QED BY <3>1, <3>2, StaysAs, <1>1
    <2>4. CASE UNCHANGED walk /\ Goto(t, "checkNext", "compare")
      <3>1. \A p \in Pids : InTable(p)' = InTable(p) BY <1>7, <1>2 DEF InTable, CheckNext, entries
      <3>2. want' = want /\ Answer(t)' = Answer(t) BY <2>4, <1>7, <1>1 DEF Answer, Types, CheckNext, Goto
      <3>3. QED BY <3>1, <3>2, StaysAs, <1>1
    <2>5. CASE UNCHANGED walk /\ Goto(t, "checkNext", "lockBucket")
      <3>1. \A p \in Pids : InTable(p)' = InTable(p) BY <1>7, <1>2 DEF InTable, CheckNext, entries
      <3>2. want' = want /\ Answer(t)' = Answer(t) BY <2>5, <1>7, <1>1 DEF Answer, Types, CheckNext, Goto
      <3>3. QED BY <3>1, <3>2, StaysAs, <1>1
    <2>2. CASE Followed(t) /\ cur[t] = Null /\ Goto(t, "checkNext", "miss")
      <3>1. pc[t] = "checkNext" /\ pc'[t] = "miss" /\ UNCHANGED <<pidOf, next, want>>
        BY <2>2, <1>7, <1>1 DEF CheckNext, entries, pool, walk, Followed, Goto, Restart, EndWalk, Types
      <3>2. Walking(t) BY <2>2, <3>1, <1>1 DEF Followed, Walks
      <3>7. PICK R : Passed(t, R) BY <3>2 DEF Walking
      <3>8. Closed(next, R) BY <3>7, <2>2, EntriesAssumption DEF Passed, Closed, Entries
      <3>9. Chain \subseteq R BY <3>8, <1>1, ChainFacts
      <3>3. InTable(want[t]) = {} BY <3>7, <3>9 DEF Passed, InTable
      <3>4. want[t] \in Pids /\ Answer(t) = "none" /\ Answer(t)' = "miss"
        BY <3>1, <1>1 DEF Types, Answer
      <3>5. \A p \in Pids : InTable(p)' = InTable(p) BY <3>1, <1>2 DEF InTable
      <3>6. QED BY <3>1, <3>3, <3>4, <3>5, Told, <1>1
    <2>3. QED BY <2>1, <2>2, <2>4, <2>5, <1>7 DEF CheckNext
  <1>8. CASE LoadWord(t)
    <2>3. \A p \in Pids : InTable(p)' = InTable(p)
      BY <1>8, <1>2 DEF InTable, LoadWord, entries, pool, Goto
    <2>4. want' = want /\ Answer(t)' = Answer(t)
      BY <1>8, <1>1 DEF Answer, Types, LoadWord, entries, pool, Goto
    <2>5. QED BY <2>3, <2>4, StaysAs, <1>1
  <1>9. CASE CheckWord(t)
    <2>1. CASE Restart(t, "checkWord")
      <3>1. \A p \in Pids : InTable(p)' = InTable(p)
        BY <1>9, <1>2 DEF InTable, CheckWord, entries, pool, walk, Goto, Restart, EndWalk
      <3>2. want' = want /\ Answer(t)' = Answer(t)
        BY <2>1, <1>9, <1>1 DEF Answer, Types, CheckWord, entries, pool, walk, Goto, Restart, EndWalk
      <3>3. QED BY <3>1, <3>2, StaysAs, <1>1
    <2>2. CASE Unchanged(t) /\ Goto(t, "checkWord", "hit")
      <3>1. pc[t] = "checkWord" /\ pc'[t] = "hit" /\ UNCHANGED <<pidOf, next, want>>
        BY <2>2, <1>9, <1>1 DEF CheckWord, entries, pool, walk, Goto, Restart, EndWalk, Types
      <3>3. InTable(want[t]) # {} BY <2>2, <3>1, <1>1 DEF Walks, AtPage, InTable
      <3>4. want[t] \in Pids /\ Answer(t) = "none" /\ Answer(t)' = "hit"
        BY <3>1, <1>1 DEF Types, Answer
      <3>5. \A p \in Pids : InTable(p)' = InTable(p) BY <3>1, <1>2 DEF InTable
      <3>6. QED BY <3>1, <3>3, <3>4, <3>5, Told, <1>1
    <2>3. QED BY <2>1, <2>2, <1>9 DEF CheckWord
  <1>10. CASE LockEntry(t)
    <2>1. want' = want BY <1>10 DEF LockEntry, pool, Goto, Restart, EndWalk
    <2>2. \A p \in Pids : InTable(p)' = InTable(p)
      BY <1>10, <1>2 DEF InTable, LockEntry, pool, Goto, Restart, EndWalk
    <2>3. Answer(t)' = "none" BY <1>10, <1>1 DEF Answer, Types, LockEntry, pool, Goto, Restart, EndWalk
    <2>4. QED BY <2>1, <2>2, <2>3, Forgotten, <1>1
  <1>11. CASE Drop(t)
    <2>1. want' = [want EXCEPT ![t] = NoPid] BY <1>11 DEF Drop, entries, pool, Goto, Done, EndWalk
    <2>2. \A p \in Pids : InTable(p)' = InTable(p)
      BY <1>11, <1>2 DEF InTable, Drop, entries, pool, Goto, Done, EndWalk
    <2>3. Answer(t)' = "none" BY <1>11, <1>1 DEF Answer, Types, Drop, entries, pool, Goto, Done, EndWalk
    <2>4. QED BY <2>1, <2>2, <2>3, Forgotten, <1>1
  <1>12. CASE Fault(t)
    <2>1. want' = want BY <1>12 DEF Fault, entries, pool, Restart, Goto, EndWalk
    <2>2. \A p \in Pids : InTable(p)' = InTable(p)
      BY <1>12, <1>2 DEF InTable, Fault, entries, pool, Restart, Goto, EndWalk
    <2>3. Answer(t)' = "none"
      BY <1>12, <1>1 DEF Answer, Types, Fault, entries, pool, Restart, Goto, EndWalk
    <2>4. QED BY <2>1, <2>2, <2>3, Forgotten, <1>1
  <1>13. CASE CheckPresent(t)
    <2>1. CASE Restart(t, "present")
      <3>1. \A p \in Pids : InTable(p)' = InTable(p)
        BY <1>13, <1>2 DEF InTable, CheckPresent, entries, pool, walk, Goto, Restart, EndWalk
      <3>2. want' = want /\ Answer(t)' = Answer(t)
        BY <2>1, <1>13, <1>1 DEF Answer, Types, CheckPresent, entries, pool, walk, Goto, Restart, EndWalk
      <3>3. QED BY <3>1, <3>2, StaysAs, <1>1
    <2>2. CASE Unchanged(t) /\ Goto(t, "present", "refused")
      <3>1. pc[t] = "present" /\ pc'[t] = "refused" /\ UNCHANGED <<pidOf, next, want>>
        BY <2>2, <1>13, <1>1 DEF CheckPresent, entries, pool, walk, Goto, Restart, EndWalk, Types
      <3>3. InTable(want[t]) # {} BY <2>2, <3>1, <1>1 DEF Walks, AtPage, InTable
      <3>4. want[t] \in Pids /\ Answer(t) = "none" /\ Answer(t)' = "refused"
        BY <3>1, <1>1 DEF Types, Answer
      <3>5. \A p \in Pids : InTable(p)' = InTable(p) BY <3>1, <1>2 DEF InTable
      <3>6. QED BY <3>1, <3>3, <3>4, <3>5, Told, <1>1
    <2>3. QED BY <2>1, <2>2, <1>13 DEF CheckPresent
  <1>14. CASE Refused(t)
    <2>1. want' = want BY <1>14 DEF Refused, entries, pool, Restart, Goto, EndWalk
    <2>2. \A p \in Pids : InTable(p)' = InTable(p)
      BY <1>14, <1>2 DEF InTable, Refused, entries, pool, Restart, Goto, EndWalk
    <2>3. Answer(t)' = "none"
      BY <1>14, <1>1 DEF Answer, Types, Refused, entries, pool, Restart, Goto, EndWalk
    <2>4. QED BY <2>1, <2>2, <2>3, Forgotten, <1>1
  <1>15. CASE LockBucket(t)
    <2>3. \A p \in Pids : InTable(p)' = InTable(p)
      BY <1>15, <1>2 DEF InTable, LockBucket, entries, pool, walk, SwapBucket, Goto, Restart, EndWalk
    <2>4. want' = want /\ Answer(t)' = Answer(t)
      BY <1>15, <1>1
         DEF Answer, Types, LockBucket, entries, pool, walk, SwapBucket, Goto, Restart, EndWalk
    <2>5. QED BY <2>3, <2>4, StaysAs, <1>1
  <1>16. CASE InsertAtHead(t)
    <2>1. Chain' = Chain /\ pidOf' = [pidOf EXCEPT ![Head] = want[t]] BY <1>16, <1>2 DEF InsertAtHead
    <2>2. pidOf[Head] = NoPid /\ NoPid \notin Pids /\ Head \in Chain /\ Head \in Entries
      BY <1>16, <1>1, ChainFacts, EntriesAssumption DEF InsertAtHead
    <2>3. \A p \in Pids : InTable(p)' # {} <=> p = want[t] \/ InTable(p) # {}
      BY <2>1, <2>2, <1>1, <1>2 DEF InTable, Types
    <2>4. want[t] \in Pids /\ InTable(want[t]) = {}
      BY <1>16, <1>1 DEF InsertAtHead, pool, Goto, Types, Pages, Absent, InTable
    <2>5. want' = want /\ Answer(t) = "none" /\ Answer(t)' = "none"
      BY <1>16, <1>1 DEF Answer, Types, InsertAtHead, pool, Goto
    <2>6. QED BY <2>3, <2>4, <2>5, Inserted, <1>1
  <1>17. CASE TakeEntry(t)
    <2>1. PICK e \in freeEntries \cup (Heap \ made) : pidOf' = [pidOf EXCEPT ![e] = want[t]]
      BY <1>17 DEF TakeEntry
    <2>2. e \notin Chain /\ Chain' = Chain
      BY <1>17, <1>1, <1>2, EntriesAssumption DEF Types, Shape, TakeEntry
    <2>3. \A p \in Pids : InTable(p)' = InTable(p) BY <2>1, <2>2, <1>1, <1>2 DEF InTable, Types
    <2>4. want' = want /\ Answer(t)' = Answer(t) BY <1>17, <1>1 DEF Answer, Types, TakeEntry, Goto
    <2>5. QED BY <2>3, <2>4, StaysAs, <1>1
  <1>18. CASE Fill(t)
    <2>1. Chain' = Chain /\ pidOf' = pidOf BY <1>18, FillStep DEF Fill
    <2>3. \A p \in Pids : InTable(p)' = InTable(p) BY <2>1 DEF InTable
    <2>4. want' = want /\ Answer(t)' = Answer(t) BY <1>18, <1>1 DEF Answer, Types, Fill, pool, walk, Goto
    <2>5. QED BY <2>3, <2>4, StaysAs, <1>1
  <1>19. CASE Link(t)
    <2>1. Chain' = Chain \cup {cur[t]} /\ pidOf' = pidOf BY <1>19, LinkStep DEF Link
    <2>2. pidOf[cur[t]] = want[t] BY <1>19, <1>1 DEF Link, Goto, Pages
    <2>3. \A p \in Pids : InTable(p)' # {} <=> p = want[t] \/ InTable(p) # {}
      BY <2>1, <2>2, <1>1, <1>2 DEF InTable, Types
    <2>4. want[t] \in Pids /\ InTable(want[t]) = {}
      BY <1>19, <1>1 DEF Link, pool, walk, Goto, Types, Pages, Absent, InTable
    <2>5. want' = want /\ Answer(t) = "none" /\ Answer(t)' = "none"
      BY <1>19, <1>1 DEF Answer, Types, Link, pool, walk, Goto
    <2>6. QED BY <2>3, <2>4, <2>5, Inserted, <1>1
  <1>20. CASE LockNew(t)
    <2>3. \A p \in Pids : InTable(p)' = InTable(p)
      BY <1>20, <1>2 DEF InTable, LockNew, pool, walk, Goto
    <2>4. want' = want /\ Answer(t)' = Answer(t)
      BY <1>20, <1>1 DEF Answer, Types, LockNew, pool, walk, Goto
    <2>5. QED BY <2>3, <2>4, StaysAs, <1>1
  <1>21. CASE UnlockInserted(t)
    <2>3. \A p \in Pids : InTable(p)' = InTable(p)
      BY <1>21, <1>2 DEF InTable, UnlockInserted, entries, pool, UnlockBucket, Goto, EndWalk
    <2>4. want' = want /\ Answer(t)' = Answer(t)
      BY <1>21, <1>1 DEF Answer, Types, UnlockInserted, entries, pool, UnlockBucket, Goto, EndWalk
    <2>5. QED BY <2>3, <2>4, StaysAs, <1>1
  <1>22. CASE Release(t)
    <2>1. want' = [want EXCEPT ![t] = NoPid] BY <1>22 DEF Release, pool, Goto, Done, EndWalk
    <2>2. \A p \in Pids : InTable(p)' = InTable(p)
      BY <1>22, <1>2 DEF InTable, Release, pool, Goto, Done, EndWalk
    <2>3. Answer(t)' = "none" BY <1>22, <1>1 DEF Answer, Types, Release, pool, Goto, Done, EndWalk
    <2>4. QED BY <2>1, <2>2, <2>3, Forgotten, <1>1
  <1>23. CASE Evict(t)
    <2>3. \A p \in Pids : InTable(p)' = InTable(p)
      BY <1>23, <1>2 DEF InTable, Evict, entries, pool, walk, Goto
    <2>4. want' = want /\ Answer(t)' = Answer(t)
      BY <1>23, <1>1 DEF Answer, Types, Evict, entries, pool, walk, Goto
    <2>5. QED BY <2>3, <2>4, StaysAs, <1>1
  <1>24. CASE LockToRemove(t)
    <2>3. \A p \in Pids : InTable(p)' = InTable(p)
      BY <1>24, <1>2 DEF InTable, LockToRemove, entries, pool, walk, Goto
    <2>4. want' = want /\ Answer(t)' = Answer(t)
      BY <1>24, <1>1 DEF Answer, Types, LockToRemove, entries, pool, walk, Goto
    <2>5. QED BY <2>3, <2>4, StaysAs, <1>1
  <1>25. CASE FindAtHead(t)
    <2> DEFINE e == Head
    <2>1. Chain' = Chain /\ e \in Chain /\ pidOf' = [pidOf EXCEPT ![e] = NoPid] /\ pidOf[e] = want[t]
      BY <1>25, <1>1, <1>2, ChainFacts DEF FindAtHead
    <2>2. want[t] \in Pids BY <1>25, <1>1 DEF FindAtHead, Goto, Types
    <2>3. \A p \in Pids : InTable(p)' # {} <=> p # want[t] /\ InTable(p) # {}
      <3>1. NoPid \notin Pids /\ \A x \in Chain : pidOf'[x] = IF x = e THEN NoPid ELSE pidOf[x]
        BY <2>1, <1>1, <1>2, EntriesAssumption DEF Types
      <3>2. \A x \in Chain : pidOf[x] = want[t] => x = e BY <2>1, <2>2, <1>1 DEF Pages
      <3>3. ASSUME NEW p \in Pids PROVE InTable(p)' # {} <=> p # want[t] /\ InTable(p) # {}
        BY <2>1, <2>2, <3>1, <3>2 DEF InTable
      <3>4. QED BY <3>3
    <2>4. want[t] \in Pids /\ InTable(want[t]) # {} BY <2>1, <2>2 DEF InTable
    <2>5. want' = want /\ Answer(t)' = Answer(t) BY <1>25, <1>1 DEF Answer, Types, FindAtHead, pool, Goto
    <2>6. QED BY <2>3, <2>4, <2>5, Removed, <1>1
  <1>26. CASE InvalidateHead(t)
    <2>3. \A p \in Pids : InTable(p)' = InTable(p)
      BY <1>26, <1>2 DEF InTable, InvalidateHead, pool, walk, Goto
    <2>4. want' = want /\ Answer(t)' = Answer(t)
      BY <1>26, <1>1 DEF Answer, Types, InvalidateHead, pool, walk, Goto
    <2>5. QED BY <2>3, <2>4, StaysAs, <1>1
  <1>27. CASE UnlockEmptied(t)
    <2>1. want' = [want EXCEPT ![t] = NoPid]
      BY <1>27 DEF UnlockEmptied, entries, pool, UnlockBucket, Goto, Done, EndWalk
    <2>2. \A p \in Pids : InTable(p)' = InTable(p)
      BY <1>27, <1>2 DEF InTable, UnlockEmptied, entries, pool, UnlockBucket, Goto, Done, EndWalk
    <2>3. Answer(t)' = "none"
      BY <1>27, <1>1 DEF Answer, Types, UnlockEmptied, entries, pool, UnlockBucket, Goto, Done, EndWalk
    <2>4. QED BY <2>1, <2>2, <2>3, Forgotten, <1>1
  <1>28. CASE FindInChain(t)
    <2> PICK e \in Chain \ {Head} : pidOf[e] = want[t] /\ pidOf' = [pidOf EXCEPT ![e] = NoPid]
      BY <1>28 DEF FindInChain
    <2>1. Chain' = Chain /\ e \in Chain /\ pidOf' = [pidOf EXCEPT ![e] = NoPid] /\ pidOf[e] = want[t]
      BY <1>28, <1>2 DEF FindInChain
    <2>2. want[t] \in Pids BY <1>28, <1>1 DEF FindInChain, Goto, Types
    <2>3. \A p \in Pids : InTable(p)' # {} <=> p # want[t] /\ InTable(p) # {}
      <3>1. NoPid \notin Pids /\ \A x \in Chain : pidOf'[x] = IF x = e THEN NoPid ELSE pidOf[x]
        BY <2>1, <1>1, <1>2, EntriesAssumption DEF Types
      <3>2. \A x \in Chain : pidOf[x] = want[t] => x = e BY <2>1, <2>2, <1>1 DEF Pages
      <3>3. ASSUME NEW p \in Pids PROVE InTable(p)' # {} <=> p # want[t] /\ InTable(p) # {}
        BY <2>1, <2>2, <3>1, <3>2 DEF InTable
      <3>4. QED BY <3>3
    <2>4. want[t] \in Pids /\ InTable(want[t]) # {} BY <2>1, <2>2 DEF InTable
    <2>5. want' = want /\ Answer(t)' = Answer(t)
      BY <1>28, <1>1 DEF Answer, Types, FindInChain, pool, Goto
    <2>6. QED BY <2>3, <2>4, <2>5, Removed, <1>1
  <1>29. CASE Unlink(t)
    <2>1. Chain' = Chain \ {cur[t]} /\ pidOf' = pidOf /\ pidOf[cur[t]] \notin Pids
      BY <1>29, UnlinkStep, <1>1, EntriesAssumption DEF Unlink, Goto, Pages
    <2>3. \A p \in Pids : InTable(p)' = InTable(p) BY <2>1 DEF InTable
    <2>4. want' = want /\ Answer(t)' = Answer(t)
      BY <1>29, <1>1 DEF Answer, Types, Unlink, pool, walk, Goto
    <2>5. QED BY <2>3, <2>4, StaysAs, <1>1
  <1>30. CASE UnlockUnlinked(t)
    <2>3. \A p \in Pids : InTable(p)' = InTable(p)
      BY <1>30, <1>2 DEF InTable, UnlockUnlinked, entries, pool, walk, UnlockBucket, Goto
    <2>4. want' = want /\ Answer(t)' = Answer(t)
      BY <1>30, <1>1 DEF Answer, Types, UnlockUnlinked, entries, pool, walk, UnlockBucket, Goto
    <2>5. QED BY <2>3, <2>4, StaysAs, <1>1
  <1>31. CASE Invalidate(t)
    <2>3. \A p \in Pids : InTable(p)' = InTable(p)
      BY <1>31, <1>2 DEF InTable, Invalidate, pool, walk, Goto
    <2>4. want' = want /\ Answer(t)' = Answer(t)
      BY <1>31, <1>1 DEF Answer, Types, Invalidate, pool, walk, Goto
    <2>5. QED BY <2>3, <2>4, StaysAs, <1>1
  <1>32. CASE Recycle(t)
    <2>1. want' = [want EXCEPT ![t] = NoPid] BY <1>32 DEF Recycle, entries, Goto, Done, EndWalk
    <2>2. \A p \in Pids : InTable(p)' = InTable(p)
      BY <1>32, <1>2 DEF InTable, Recycle, entries, Goto, Done, EndWalk
    <2>3. Answer(t)' = "none" BY <1>32, <1>1 DEF Answer, Types, Recycle, entries, Goto, Done, EndWalk
    <2>4. QED BY <2>1, <2>2, <2>3, Forgotten, <1>1
  <1>33. QED
    BY <1>3, <1>4, <1>5, <1>6, <1>7, <1>8, <1>9, <1>10, <1>11, <1>12, <1>13, <1>14, <1>15,
       <1>16, <1>17, <1>18, <1>19, <1>20, <1>21, <1>22, <1>23, <1>24, <1>25, <1>26, <1>27,
       <1>28, <1>29, <1>30, <1>31, <1>32 DEF Step

(* access, insert and remove, step by step and without the lock where the code has none, *)
(* are atomic operations on a set of pages: what a thread is told of its page was true   *)
(* at the instant it was told.                                                           *)
THEOREM PageTableImplemented == Spec => ImplementsPageTable
  <1>1. Init => Table!Init
    <2> SUFFICES ASSUME Init PROVE Table!Init OBVIOUS
    <2>1. TableInv BY TableInit
    <2>2. \A p \in Pids : InTable(p) = {}
      BY <2>1, ChainFacts, EntriesAssumption DEF Init, InTable, TableInv
    <2>3. [t \in Threads |-> Answer(t)] = [t \in Threads |-> "none"] BY DEF Init, Answer
    <2>4. QED BY <2>2, <2>3 DEF Init, Table!Init
  <1>2. TableInv /\ [Next]_vars => [Table!Next]_Table!vars
    <2> SUFFICES ASSUME TableInv, [Next]_vars PROVE AbstractStep
      BY DEF AbstractStep, Table!vars, Residents, Answers
    <2>1. CASE Next
      <3>1. PICK t \in Threads : Step(t) BY <2>1 DEF Next
      <3>2. QED BY <3>1, RefinementStep
    <2>2. CASE UNCHANGED vars
      <3>1. UNCHANGED <<pidOf, next, want, pc>> /\ Chain' = Chain
        BY <2>2, ChainFacts DEF vars, entries, TableInv
      <3>2. \A p \in Pids : InTable(p)' = InTable(p) BY <3>1 DEF InTable
      <3>3. Residents' = Residents /\ Answers' = Answers /\ want' = want
        BY <3>1, <3>2 DEF Residents, Answers, Answer
      <3>4. QED BY <3>3 DEF AbstractStep
    <2>3. QED BY <2>1, <2>2
  <1>3. QED BY <1>1, <1>2, Invariant, PTL DEF Spec, ImplementsPageTable, Table!Spec

-------------------------------------------------------------------------------
(* What the invariant says. *)

(* A page never has two entries, although two threads may fault on it at once (ht.hpp:100). *)
THEOREM OneEntryPerPage == Spec => []NoDuplicates
  <1>1. ASSUME TableInv PROVE NoDuplicates
    <2> SUFFICES ASSUME NEW p \in Pids PROVE Cardinality(InTable(p)) <= 1 BY DEF NoDuplicates
    <2>1. \A x, y \in InTable(p) : x = y BY <1>1 DEF TableInv, Pages, InTable
    <2>2. CASE InTable(p) = {} BY <2>2, FS_EmptySet
    <2>3. CASE InTable(p) # {}
      <3>1. PICK x : InTable(p) = {x} BY <2>1, <2>3
      <3>2. QED BY <3>1, FS_Singleton
    <2>4. QED BY <2>2, <2>3
  <1>2. QED BY <1>1, Invariant, PTL

(* remove finds the page of the entry its caller has locked, in that entry. *)
THEOREM HoldersAreFound == Spec => []HeldIsFound
  <1>1. TableInv => HeldIsFound
    BY DEF TableInv, Types, Pages, HeldIsFound, At, InTable
  <1>2. QED BY <1>1, Invariant, PTL

(* An entry that new made is in the chain, or on the free list, or in one thread's hands: *)
(* insert and remove neither lose nor share entries.                                      *)
THEOREM EntriesAccounted == Spec => []EntryAccounting
  <1>1. ASSUME TableInv PROVE EntryAccounting
    <2>1. Shape BY <1>1 DEF TableInv
    <2> SUFFICES ASSUME NEW e \in made
                 PROVE  Cardinality(InHands(e)) + (IF e \in Chain THEN 1 ELSE 0)
                          + (IF e \in freeEntries THEN 1 ELSE 0) = 1
      BY DEF EntryAccounting
    <2>2. InHands(e) = {t \in Threads : pc[t] \in InHandsAt /\ cur[t] = e}
      BY DEF InHands, At, InHandsAt
    <2>3. CASE e \in Chain \/ e \in freeEntries
      <3>1. InHands(e) = {} BY <2>1, <2>2, <2>3 DEF Shape
      <3>2. Cardinality(InHands(e)) = 0 BY <3>1, FS_EmptySet
      <3>3. ~(e \in Chain /\ e \in freeEntries) BY <2>1 DEF Shape
      <3>4. QED BY <2>3, <3>2, <3>3
    <2>4. CASE e \notin Chain /\ e \notin freeEntries
      <3>1. PICK t \in Threads : InHands(e) = {t} BY <2>1, <2>2, <2>4 DEF Shape
      <3>2. Cardinality(InHands(e)) = 1 BY <3>1, FS_Singleton
      <3>3. QED BY <2>4, <3>2
    <2>5. QED BY <2>3, <2>4
  <1>2. QED BY <1>1, Invariant, PTL

(* Whoever swaps the word of an entry that access found, however late, and succeeds, has   *)
(* the page it asked for: a removed and recycled entry has another version by then.        *)
THEOREM LateSwapsAreSafe == Spec => []HitIsOwn
  <1>1. ASSUME TableInv PROVE HitIsOwn
    <2> SUFFICES ASSUME NEW t \in Threads, pc[t] = "hit", StillAsFound(t) PROVE pidOf[cur[t]] = want[t]
      BY DEF HitIsOwn, At
    <2>1. Kept(t) /\ vEntry[t] \in Word BY <1>1 DEF TableInv, Walks, Types
    <2>2. LockableX(vEntry[t]) /\ word[cur[t]] = vEntry[t] BY DEF StillAsFound
    <2>3. vEntry[t].version \in Nat /\ vEntry[t].state # Locked BY <2>1, <2>2, WordFacts
    <2>4. QED BY <2>1, <2>2, <2>3 DEF Kept
  <1>2. QED BY <1>1, Invariant, PTL
================================================================================
