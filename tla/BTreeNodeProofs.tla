---------------------------- MODULE BTreeNodeProofs ---------------------------
(***************************************************************************)
(* What the pages of the tree promise for any byte-string keys, any page   *)
(* size and any layout within LayoutAssumption.                            *)
(*                                                                         *)
(* First byte strings and their order (SharedLen, Less, HeadOf) and the    *)
(* bytes of slots; then one page (PageOK): sorted slots, right hints, a    *)
(* search that finds its place, space that is counted exactly, and what    *)
(* insert, remove, split and merge make of a page; then the tree of the    *)
(* pages (Tree, by levels): a descent, a split and a merge.                *)
(***************************************************************************)
EXTENDS BTreeNode, FiniteSetTheorems, SequenceTheorems, TLAPS

-------------------------------------------------------------------------------
(* Numbers.                                                                      *)

\* Induction over the numbers, for a set of them instead of a predicate.
LEMMA SetInduction ==
  ASSUME NEW T, 0 \in T, \A n \in Nat : n \in T => n + 1 \in T
  PROVE  Nat \subseteq T
  <1> SUFFICES ASSUME NEW m \in Nat, m \notin T PROVE FALSE OBVIOUS
  <1> DEFINE B == {k \in 0..m : k \notin T}
             f == [k \in B |-> k - 1]
  <1>1. IsFiniteSet(B)
    <2>1. IsFiniteSet(0..m) BY FS_Interval
    <2>2. B \in SUBSET (0..m) OBVIOUS
    <2>3. QED BY <2>1, <2>2, FS_Subset
  <1>2. m \in B OBVIOUS
  <1>3. IsFiniteSet(B \ {m}) /\ Cardinality(B \ {m}) < Cardinality(B)
    <2>1. IsFiniteSet(B \ {m}) /\ Cardinality(B \ {m}) = Cardinality(B) - 1
      BY <1>1, <1>2, FS_RemoveElement
    <2>2. Cardinality(B) \in Nat BY <1>1, FS_CardinalityType
    <2>3. QED BY <2>1, <2>2
  <1>4. f \in [B -> B \ {m}]
    <2> SUFFICES ASSUME NEW k \in B PROVE k - 1 \in B \ {m} OBVIOUS
    <2>1. k # 0 OBVIOUS
    <2>2. k - 1 \in Nat /\ k - 1 \in 0..m /\ k - 1 # m BY <2>1
    <2>3. k - 1 \notin T
      <3> SUFFICES ASSUME k - 1 \in T PROVE FALSE OBVIOUS
      <3>1. (k - 1) + 1 \in T BY <2>2
      <3>2. (k - 1) + 1 = k OBVIOUS
      <3>3. QED BY <3>1, <3>2
    <2>4. QED BY <2>2, <2>3
  <1>5. \E x, y \in B : x # y /\ f[x] = f[y]
    <2> HIDE DEF B, f
    <2>1. QED BY <1>1, <1>3, <1>4, FS_PigeonHole
  <1>6. QED BY <1>5

\* Induction up to a bound.
LEMMA BoundedInduction ==
  ASSUME NEW T, NEW N \in Nat, 0 \in T, \A n \in 0..(N - 1) : n \in T => n + 1 \in T
  PROVE  0..N \subseteq T
  <1> DEFINE U == T \cup {n \in Nat : n > N}
  <1>1. 0 \in U OBVIOUS
  <1>2. \A n \in Nat : n \in U => n + 1 \in U OBVIOUS
  <1>3. Nat \subseteq U
    <2> HIDE DEF U
    <2>1. QED BY <1>1, <1>2, SetInduction
  <1>4. QED BY <1>3

LEMMA LeastElement ==
  ASSUME NEW S, S \subseteq Nat, S # {}
  PROVE  \E m \in S : \A n \in S : m <= n
  <1> SUFFICES ASSUME \A m \in S : \E n \in S : n < m PROVE FALSE OBVIOUS
  <1> DEFINE T == {n \in Nat : \A m \in 0..n : m \notin S}
  <1>1. 0 \in T
    <2> SUFFICES ASSUME 0 \in S PROVE FALSE OBVIOUS
    <2>1. PICK n \in S : n < 0 OBVIOUS
    <2>2. QED BY <2>1
  <1>2. ASSUME NEW n \in Nat, n \in T PROVE n + 1 \in T
    <2> SUFFICES ASSUME n + 1 \in S PROVE FALSE BY <1>2
    <2>1. PICK k \in S : k < n + 1 OBVIOUS
    <2>2. k \in 0..n BY <2>1
    <2>3. QED BY <1>2, <2>2
  <1>3. Nat \subseteq T
    <2> HIDE DEF T
    <2>1. QED BY <1>1, <1>2, SetInduction
  <1>4. PICK s : s \in S OBVIOUS
  <1>5. QED BY <1>3, <1>4

LEMMA MinIsLeast ==
  ASSUME NEW S, S \subseteq Nat, S # {}
  PROVE  Min(S) \in S /\ \A n \in S : Min(S) <= n
  BY LeastElement DEF Min

LEMMA MaxIsGreatest ==
  ASSUME NEW S, NEW N \in Nat, S \subseteq 0..N, S # {}
  PROVE  Max(S) \in S /\ \A n \in S : n <= Max(S)
  <1> DEFINE T == {n \in 0..N : N - n \in S}
  <1>1. T \subseteq Nat /\ T # {}
    <2>1. PICK s \in S : TRUE OBVIOUS
    <2>2. N - s \in T BY <2>1
    <2>3. QED BY <2>2
  <1>2. PICK m \in T : \A n \in T : m <= n
    <2> HIDE DEF T
    <2>1. QED BY <1>1, LeastElement
  <1>3. N - m \in S BY <1>2
  <1>4. \A n \in S : N - m >= n
    <2> SUFFICES ASSUME NEW n \in S PROVE N - m >= n OBVIOUS
    <2>1. N - n \in T OBVIOUS
    <2>2. m <= N - n BY <1>2, <2>1
    <2>3. QED BY <2>2
  <1>5. QED BY <1>3, <1>4 DEF Max

\* A function on 0..N by recursion: every value from the one before.
StepsOf(N, V) == [1..N -> [V -> V]]
Recursive(f, N, V, base, step) ==
  f \in [0..N -> V] /\ f[0] = base /\ \A i \in 1..N : f[i] = step[i][f[i - 1]]

LEMMA Recursion ==
  ASSUME NEW N \in Nat, NEW V, NEW base \in V, NEW step \in StepsOf(N, V)
  PROVE  \E f : Recursive(f, N, V, base, step)
  <1> USE DEF StepsOf
  <1> DEFINE Good(n, f) == f[0] = base /\ \A i \in 1..n : f[i] = step[i][f[i - 1]]
             T == {n \in 0..N : \E f \in [0..N -> V] : Good(n, f)}
  <1>1. 0 \in T
    <2> DEFINE g == [i \in 0..N |-> base]
    <2>1. g \in [0..N -> V] OBVIOUS
    <2>2. Good(0, g) OBVIOUS
    <2> HIDE DEF g, Good
    <2>3. QED BY <2>1, <2>2
  <1>2. ASSUME NEW n \in 0..(N - 1), n \in T PROVE n + 1 \in T
    <2>1. PICK f \in [0..N -> V] : Good(n, f) BY <1>2
    <2> DEFINE g == [f EXCEPT ![n + 1] = step[n + 1][f[n]]]
    <2>2. n + 1 \in 1..N /\ n \in 0..N OBVIOUS
    <2>3. g \in [0..N -> V] BY <2>2
    <2>4. \A i \in 0..n : g[i] = f[i] BY <2>2
    <2>5. g[n + 1] = step[n + 1][g[n]] BY <2>2, <2>4
    <2>6. Good(n + 1, g) BY <2>1, <2>2, <2>4, <2>5
    <2> HIDE DEF g, Good
    <2>7. QED BY <2>2, <2>3, <2>6
  <1>3. 0..N \subseteq T
    <2> HIDE DEF T
    <2>1. QED BY <1>1, <1>2, BoundedInduction
  <1>4. PICK f \in [0..N -> V] : Good(N, f) BY <1>3
  <1>5. QED BY <1>4 DEF Recursive

-------------------------------------------------------------------------------
(* Words: byte strings and their order.                                          *)

Words == Seq(0..(Byte - 1))
LessAt(a, b, i) == /\ i \in Nat /\ i <= Len(a) /\ i < Len(b)
                   /\ \A j \in 1..i : a[j] = b[j]
                   /\ i = Len(a) \/ a[i + 1] < b[i + 1]

LEMMA WordFacts ==
  ASSUME NEW a \in Words
  PROVE  /\ Len(a) \in Nat
         /\ \A j \in 1..Len(a) : a[j] \in Nat /\ a[j] < Byte
  <1>1. Byte \in Nat \ {0} BY SearchAssumption
  <1>2. QED BY <1>1 DEF Words

LEMMA SharedLenFacts ==
  ASSUME NEW a \in Words, NEW b \in Words
  PROVE  LET i == SharedLen(a, b) IN
         /\ i \in Nat /\ i <= Len(a) /\ i <= Len(b)
         /\ \A j \in 1..i : a[j] = b[j]
         /\ i < Len(a) /\ i < Len(b) => a[i + 1] # b[i + 1]
  <1> DEFINE S == {i \in 0..Len(a) : i <= Len(b) /\ \A j \in 1..i : a[j] = b[j]}
             m == Max(S)
  <1>1. Len(a) \in Nat /\ Len(b) \in Nat BY WordFacts
  <1>2. 0 \in S BY <1>1
  <1>3. S \subseteq 0..Len(a) OBVIOUS
  <1>4. m \in S /\ \A n \in S : n <= m
    <2> HIDE DEF S
    <2>1. QED BY <1>1, <1>2, <1>3, MaxIsGreatest
  <1>5. ASSUME m < Len(a), m < Len(b), a[m + 1] = b[m + 1] PROVE FALSE
    <2> HIDE DEF m
    <2>1. m + 1 \in S BY <1>1, <1>4, <1>5
    <2>2. QED BY <1>1, <1>4, <2>1
  <1>6. SharedLen(a, b) = m BY DEF SharedLen
  <1>7. QED BY <1>1, <1>4, <1>5, <1>6

LEMMA SharedLenIs ==
  ASSUME NEW a \in Words, NEW b \in Words, NEW i \in Nat, i <= Len(a), i <= Len(b),
         \A j \in 1..i : a[j] = b[j],
         i < Len(a) /\ i < Len(b) => a[i + 1] # b[i + 1]
  PROVE  SharedLen(a, b) = i
  <1> DEFINE m == SharedLen(a, b)
  <1>1. /\ m \in Nat /\ m <= Len(a) /\ m <= Len(b)
        /\ \A j \in 1..m : a[j] = b[j]
        /\ m < Len(a) /\ m < Len(b) => a[m + 1] # b[m + 1]
    BY SharedLenFacts
  <1>2. Len(a) \in Nat /\ Len(b) \in Nat BY WordFacts
  <1> HIDE DEF m
  <1>3. CASE m < i
    <2>1. m + 1 \in 1..i BY <1>1, <1>3
    <2>2. QED BY <1>1, <1>2, <1>3, <2>1
  <1>4. CASE i < m
    <2>1. i + 1 \in 1..m BY <1>1, <1>4
    <2>2. QED BY <1>1, <1>2, <1>4, <2>1
  <1>5. QED BY <1>1, <1>3, <1>4 DEF m

LEMMA LessIsAt ==
  ASSUME NEW a \in Words, NEW b \in Words
  PROVE  Less(a, b) <=> \E i \in Nat : LessAt(a, b, i)
  <1>1. ASSUME Less(a, b) PROVE LessAt(a, b, SharedLen(a, b))
    BY <1>1, SharedLenFacts, WordFacts DEF Less, LessAt
  <1>2. ASSUME NEW i \in Nat, LessAt(a, b, i) PROVE Less(a, b)
    <2>1. i < Len(a) => a[i + 1] \in Nat /\ b[i + 1] \in Nat /\ a[i + 1] < b[i + 1]
      BY <1>2, WordFacts DEF LessAt
    <2>2. SharedLen(a, b) = i BY <1>2, <2>1, SharedLenIs DEF LessAt
    <2>3. QED BY <1>2, <2>2 DEF Less, LessAt
  <1>3. QED BY <1>1, <1>2, SharedLenFacts

LEMMA LessIrreflexive ==
  ASSUME NEW a \in Words
  PROVE  ~Less(a, a)
  <1>1. ASSUME NEW i \in Nat, LessAt(a, a, i) PROVE FALSE BY <1>1, WordFacts DEF LessAt
  <1>2. QED BY <1>1, LessIsAt

LEMMA LessTransitive ==
  ASSUME NEW a \in Words, NEW b \in Words, NEW c \in Words, Less(a, b), Less(b, c)
  PROVE  Less(a, c)
  <1>1. PICK i \in Nat : LessAt(a, b, i) BY LessIsAt
  <1>2. PICK j \in Nat : LessAt(b, c, j) BY LessIsAt
  <1>3. /\ Len(a) \in Nat /\ Len(b) \in Nat /\ Len(c) \in Nat
        /\ \A k \in 1..Len(a) : a[k] \in Nat
        /\ \A k \in 1..Len(b) : b[k] \in Nat
        /\ \A k \in 1..Len(c) : c[k] \in Nat
    BY WordFacts
  <1>4. CASE i <= j
    <2>1. \A k \in 1..i : a[k] = c[k] BY <1>1, <1>2, <1>3, <1>4 DEF LessAt
    <2>2. i < Len(a) => a[i + 1] < c[i + 1] BY <1>1, <1>2, <1>3, <1>4 DEF LessAt
    <2>3. LessAt(a, c, i) BY <1>1, <1>2, <1>3, <1>4, <2>1, <2>2 DEF LessAt
    <2>4. QED BY <2>3, LessIsAt
  <1>5. CASE j < i
    <2>1. \A k \in 1..j : a[k] = c[k] BY <1>1, <1>2, <1>3, <1>5 DEF LessAt
    <2>2. a[j + 1] < c[j + 1] BY <1>1, <1>2, <1>3, <1>5 DEF LessAt
    <2>3. LessAt(a, c, j) BY <1>1, <1>2, <1>3, <1>5, <2>1, <2>2 DEF LessAt
    <2>4. QED BY <2>3, LessIsAt
  <1>6. QED BY <1>4, <1>5

LEMMA LessTotal ==
  ASSUME NEW a \in Words, NEW b \in Words
  PROVE  a = b \/ Less(a, b) \/ Less(b, a)
  <1> DEFINE i == SharedLen(a, b)
  <1>1. /\ i \in Nat /\ i <= Len(a) /\ i <= Len(b)
        /\ \A j \in 1..i : a[j] = b[j]
        /\ i < Len(a) /\ i < Len(b) => a[i + 1] # b[i + 1]
    BY SharedLenFacts
  <1> HIDE DEF i
  <1>2. /\ Len(a) \in Nat /\ Len(b) \in Nat
        /\ \A k \in 1..Len(a) : a[k] \in Nat
        /\ \A k \in 1..Len(b) : b[k] \in Nat
    BY WordFacts
  <1>3. CASE i = Len(a) /\ i = Len(b)
    BY <1>1, <1>3, SeqEqual DEF Words
  <1>4. CASE i < Len(b) /\ (i = Len(a) \/ a[i + 1] < b[i + 1])
    <2>1. LessAt(a, b, i) BY <1>1, <1>4 DEF LessAt
    <2>2. QED BY <1>1, <2>1, LessIsAt
  <1>5. CASE i < Len(a) /\ (i = Len(b) \/ b[i + 1] < a[i + 1])
    <2>1. LessAt(b, a, i) BY <1>1, <1>5 DEF LessAt
    <2>2. QED BY <1>1, <2>1, LessIsAt
  <1>6. CASE i < Len(a) /\ i < Len(b) BY <1>1, <1>2, <1>4, <1>5, <1>6
  <1>7. QED BY <1>1, <1>2, <1>3, <1>4, <1>5, <1>6

LEMMA LessAsymmetric ==
  ASSUME NEW a \in Words, NEW b \in Words, Less(a, b)
  PROVE  ~Less(b, a) /\ a # b
  BY LessIrreflexive, LessTransitive

\* What is not less is transitive too, and less of what is not less.
LEMMA NotLessTransitive ==
  ASSUME NEW a \in Words, NEW b \in Words, NEW c \in Words
  PROVE  /\ Less(a, b) /\ ~Less(c, b) => Less(a, c)
         /\ ~Less(b, a) /\ Less(b, c) => Less(a, c)
         /\ ~Less(b, a) /\ ~Less(c, b) => ~Less(c, a)
  BY LessIrreflexive, LessTransitive, LessTotal

\* The empty word is the least.
LEMMA EmptyIsLeast ==
  ASSUME NEW a \in Words
  PROVE  /\ <<>> \in Words /\ ~Less(a, <<>>)
         /\ a # <<>> => Less(<<>>, a)
         /\ SharedLen(<<>>, a) = 0 /\ SharedLen(a, <<>>) = 0
  <1>1. <<>> \in Words BY DEF Words
  <1>2. ~Less(a, <<>>) BY <1>1, LessIsAt, WordFacts DEF LessAt
  <1>3. SharedLen(<<>>, a) = 0 /\ SharedLen(a, <<>>) = 0 BY <1>1, SharedLenFacts, WordFacts
  <1>4. QED BY <1>1, <1>2, <1>3, LessTotal

\* Words put together and taken apart.
LEMMA ConcatWord ==
  ASSUME NEW p \in Words, NEW a \in Words
  PROVE  /\ p \o a \in Words /\ Len(p \o a) = Len(p) + Len(a)
         /\ \A j \in 1..Len(p) : (p \o a)[j] = p[j]
         /\ \A j \in 1..Len(a) : (p \o a)[Len(p) + j] = a[j]
         /\ \A j \in 1..(Len(p) + Len(a)) : (p \o a)[j] = IF j <= Len(p) THEN p[j] ELSE a[j - Len(p)]
         /\ p \o a = <<>> => p = <<>> /\ a = <<>>
  BY DEF Words

LEMMA SubWord ==
  ASSUME NEW w \in Words, NEW from \in 1..(Len(w) + 1), NEW to \in (from - 1)..Len(w)
  PROVE  /\ SubSeq(w, from, to) \in Words
         /\ Len(SubSeq(w, from, to)) = to - from + 1
         /\ \A j \in 1..(to - from + 1) : SubSeq(w, from, to)[j] = w[from + j - 1]
  <1>1. Len(w) \in Nat BY WordFacts
  <1>2. ASSUME NEW j \in from..to PROVE w[j] \in 0..(Byte - 1)
    <2>1. j \in 1..Len(w) BY <1>1
    <2>2. QED BY <2>1, ElementOfSeq DEF Words
  <1>3. QED BY <1>1, <1>2, SubSeqProperties DEF Words

LEMMA PrefixIs ==
  ASSUME NEW p \in Words, NEW w \in Words
  PROVE  IsPrefix(p, w) <=> Len(p) <= Len(w) /\ \A j \in 1..Len(p) : w[j] = p[j]
  <1>1. Len(p) \in Nat /\ Len(w) \in Nat BY WordFacts
  <1>2. CASE Len(p) <= Len(w)
    <2> DEFINE v == SubSeq(w, 1, Len(p))
               u == SubSeq(p, 1, Len(p))
    <2>1. /\ v \in Words /\ Len(v) = Len(p)
          /\ \A j \in 1..Len(p) : v[j] = w[j]
      BY <1>1, <1>2, SubWord
    <2>2. /\ u \in Words /\ Len(u) = Len(p)
          /\ \A j \in 1..Len(p) : u[j] = p[j]
      BY <1>1, SubWord
    <2> HIDE DEF v, u
    <2>3. u = v <=> \A j \in 1..Len(p) : w[j] = p[j] BY <1>1, <2>1, <2>2, SeqEqual DEF Words
    <2>4. QED BY <1>2, <2>3 DEF IsPrefix, u, v
  <1>3. QED BY <1>2 DEF IsPrefix

LEMMA RestOfConcat ==
  ASSUME NEW p \in Words, NEW a \in Words
  PROVE  SubSeq(p \o a, Len(p) + 1, Len(p \o a)) = a
  <1> DEFINE w == p \o a
             s == SubSeq(w, Len(p) + 1, Len(w))
  <1>1. Len(p) \in Nat /\ Len(a) \in Nat BY WordFacts
  <1>2. /\ w \in Words /\ Len(w) = Len(p) + Len(a)
        /\ \A j \in 1..Len(a) : w[Len(p) + j] = a[j]
    BY ConcatWord
  <1> HIDE DEF w
  <1>3. /\ s \in Words /\ Len(s) = Len(a)
        /\ \A j \in 1..Len(a) : s[j] = a[j]
    BY <1>1, <1>2, SubWord
  <1> HIDE DEF s
  <1>4. s = a BY <1>1, <1>3, SeqEqual DEF Words
  <1>5. QED BY <1>4 DEF s, w

LEMMA ConcatOfRest ==
  ASSUME NEW p \in Words, NEW w \in Words, IsPrefix(p, w)
  PROVE  /\ SubSeq(w, Len(p) + 1, Len(w)) \in Words
         /\ Len(SubSeq(w, Len(p) + 1, Len(w))) = Len(w) - Len(p)
         /\ p \o SubSeq(w, Len(p) + 1, Len(w)) = w
  <1> DEFINE s == SubSeq(w, Len(p) + 1, Len(w))
             v == p \o s
  <1>1. Len(p) \in Nat /\ Len(w) \in Nat BY WordFacts
  <1>2. Len(p) <= Len(w) /\ \A j \in 1..Len(p) : w[j] = p[j] BY PrefixIs
  <1>3. /\ s \in Words /\ Len(s) = Len(w) - Len(p)
        /\ \A j \in 1..(Len(w) - Len(p)) : s[j] = w[Len(p) + j]
    BY <1>1, <1>2, SubWord
  <1> HIDE DEF s
  <1>4. /\ v \in Words /\ Len(v) = Len(w)
        /\ \A j \in 1..Len(w) : v[j] = IF j <= Len(p) THEN p[j] ELSE s[j - Len(p)]
    <2>1. Len(p) + Len(s) = Len(w) BY <1>1, <1>3
    <2>2. QED BY <1>3, <2>1, ConcatWord
  <1> HIDE DEF v
  <1>5. ASSUME NEW j \in 1..Len(w) PROVE v[j] = w[j]
    <2>1. CASE j <= Len(p) BY <1>1, <1>2, <1>4, <2>1
    <2>2. CASE j > Len(p)
      <3>1. j - Len(p) \in 1..(Len(w) - Len(p)) /\ Len(p) + (j - Len(p)) = j BY <1>1, <2>2
      <3>2. s[j - Len(p)] = w[j] BY <1>3, <3>1
      <3>3. QED BY <1>1, <1>4, <2>2, <3>2
    <2>3. QED BY <1>1, <2>1, <2>2
  <1>6. v = w BY <1>1, <1>4, <1>5, SeqEqual DEF Words
  <1>7. QED BY <1>3, <1>6 DEF s, v

LEMMA LessConcat ==
  ASSUME NEW p \in Words, NEW a \in Words, NEW b \in Words
  PROVE  Less(p \o a, p \o b) <=> Less(a, b)
  <1>1. Len(p) \in Nat /\ Len(a) \in Nat /\ Len(b) \in Nat BY WordFacts
  <1> DEFINE v == p \o a
             w == p \o b
  <1>2. /\ v \in Words /\ Len(v) = Len(p) + Len(a)
        /\ \A j \in 1..Len(p) : v[j] = p[j]
        /\ \A j \in 1..Len(a) : v[Len(p) + j] = a[j]
    BY ConcatWord
  <1>3. /\ w \in Words /\ Len(w) = Len(p) + Len(b)
        /\ \A j \in 1..Len(p) : w[j] = p[j]
        /\ \A j \in 1..Len(b) : w[Len(p) + j] = b[j]
    BY ConcatWord
  <1>4. /\ \A j \in 1..Len(p) : p[j] \in Nat
        /\ \A j \in 1..Len(a) : a[j] \in Nat
        /\ \A j \in 1..Len(b) : b[j] \in Nat
    BY WordFacts
  <1> HIDE DEF v, w
  <1>5. ASSUME Less(a, b) PROVE Less(v, w)
    <2>1. PICK i \in Nat : LessAt(a, b, i) BY <1>5, LessIsAt
    <2>2. \A j \in 1..(Len(p) + i) : v[j] = w[j]
      <3> SUFFICES ASSUME NEW j \in 1..(Len(p) + i) PROVE v[j] = w[j] OBVIOUS
      <3>1. CASE j <= Len(p) BY <1>1, <1>2, <1>3, <3>1
      <3>2. CASE j > Len(p)
        <4>1. j - Len(p) \in 1..i /\ Len(p) + (j - Len(p)) = j BY <1>1, <3>2
        <4>2. PICK h \in 1..i : Len(p) + h = j BY <4>1
        <4>3. h \in 1..Len(a) /\ h \in 1..Len(b) /\ a[h] = b[h] BY <1>1, <2>1 DEF LessAt
        <4>4. v[Len(p) + h] = a[h] /\ w[Len(p) + h] = b[h] BY <1>2, <1>3, <4>3
        <4>5. QED BY <4>2, <4>3, <4>4
      <3>3. QED BY <1>1, <3>1, <3>2
    <2>3. i < Len(a) => v[Len(p) + i + 1] < w[Len(p) + i + 1]
      <3> SUFFICES ASSUME i < Len(a) PROVE v[Len(p) + i + 1] < w[Len(p) + i + 1] OBVIOUS
      <3>1. i + 1 \in 1..Len(a) /\ i + 1 \in 1..Len(b) BY <1>1, <2>1 DEF LessAt
      <3>2. v[Len(p) + (i + 1)] = a[i + 1] /\ w[Len(p) + (i + 1)] = b[i + 1] BY <1>2, <1>3, <3>1
      <3>3. QED BY <1>1, <2>1, <3>1, <3>2 DEF LessAt
    <2>4. LessAt(v, w, Len(p) + i) BY <1>1, <1>2, <1>3, <2>1, <2>2, <2>3 DEF LessAt
    <2>5. Len(p) + i \in Nat BY <1>1
    <2>6. QED BY <1>2, <1>3, <2>4, <2>5, LessIsAt
  <1>6. ASSUME Less(v, w) PROVE Less(a, b)
    <2>1. PICK m \in Nat : LessAt(v, w, m) BY <1>6, <1>2, <1>3, LessIsAt
    <2>2. m >= Len(p)
      <3> SUFFICES ASSUME m < Len(p) PROVE FALSE BY <1>1
      <3>1. m + 1 \in 1..Len(p) BY <1>1
      <3>2. v[m + 1] = w[m + 1] /\ v[m + 1] \in Nat BY <1>2, <1>3, <1>4, <3>1
      <3>3. QED BY <1>1, <1>2, <2>1, <3>2 DEF LessAt
    <2> DEFINE i == m - Len(p)
    <2>3. i \in Nat /\ m = Len(p) + i BY <1>1, <2>2
    <2> HIDE DEF i
    <2>4. i <= Len(a) /\ i < Len(b) BY <1>1, <1>2, <1>3, <2>1, <2>3 DEF LessAt
    <2>5. ASSUME NEW j \in 1..i PROVE a[j] = b[j]
      <3>1. j \in 1..Len(a) /\ j \in 1..Len(b) /\ Len(p) + j \in 1..m BY <1>1, <2>3, <2>4
      <3>2. v[Len(p) + j] = w[Len(p) + j] BY <2>1, <3>1 DEF LessAt
      <3>3. QED BY <1>2, <1>3, <3>1, <3>2
    <2>6. i < Len(a) => a[i + 1] < b[i + 1]
      <3> SUFFICES ASSUME i < Len(a) PROVE a[i + 1] < b[i + 1] OBVIOUS
      <3>1. i + 1 \in 1..Len(a) /\ i + 1 \in 1..Len(b) BY <1>1, <2>3, <2>4
      <3>2. v[Len(p) + (i + 1)] = a[i + 1] /\ w[Len(p) + (i + 1)] = b[i + 1] BY <1>2, <1>3, <3>1
      <3>3. v[m + 1] < w[m + 1] BY <1>1, <1>2, <2>1, <2>3 DEF LessAt
      <3>4. Len(p) + (i + 1) = m + 1 BY <1>1, <2>3
      <3>5. QED BY <3>2, <3>3, <3>4
    <2>7. LessAt(a, b, i) BY <1>1, <2>3, <2>4, <2>5, <2>6 DEF LessAt
    <2>8. QED BY <2>3, <2>7, LessIsAt
  <1>7. QED BY <1>5, <1>6 DEF v, w

\* A word that does not begin with p is below, or above, all words that do.
LEMMA OutsidePrefix ==
  ASSUME NEW p \in Words, NEW k \in Words, NEW r \in Words, ~IsPrefix(p, k)
  PROVE  /\ Less(k, p) => Less(k, p \o r)
         /\ ~Less(k, p) => Less(p \o r, k)
  <1> DEFINE w == p \o r
  <1>1. Len(p) \in Nat /\ Len(k) \in Nat /\ Len(r) \in Nat BY WordFacts
  <1>2. /\ w \in Words /\ Len(w) = Len(p) + Len(r)
        /\ \A j \in 1..Len(p) : w[j] = p[j]
    BY ConcatWord
  <1> HIDE DEF w
  <1>3. ASSUME Less(k, p) PROVE Less(k, w)
    <2>1. PICK i \in Nat : LessAt(k, p, i) BY <1>3, LessIsAt
    <2>2. LessAt(k, w, i) BY <1>1, <1>2, <2>1 DEF LessAt
    <2>3. QED BY <1>2, <2>2, LessIsAt
  <1>4. ASSUME ~Less(k, p) PROVE Less(w, k)
    <2>1. p # k BY <1>1, PrefixIs
    <2>2. Less(p, k) BY <1>4, <2>1, LessTotal
    <2>3. PICK i \in Nat : LessAt(p, k, i) BY <2>2, LessIsAt
    <2>4. i # Len(p)
      <3> SUFFICES ASSUME i = Len(p) PROVE FALSE OBVIOUS
      <3>1. Len(p) <= Len(k) /\ \A j \in 1..Len(p) : k[j] = p[j] BY <1>1, <2>3 DEF LessAt
      <3>2. QED BY <3>1, PrefixIs
    <2>5. LessAt(w, k, i) BY <1>1, <1>2, <2>3, <2>4 DEF LessAt
    <2>6. QED BY <1>2, <2>5, LessIsAt
  <1>5. QED BY <1>3, <1>4 DEF w

\* What lies between two words begins with what the two share.
LEMMA SharedByAllBetween ==
  ASSUME NEW a \in Words, NEW b \in Words, NEW w \in Words, Less(a, w) \/ a = w, ~Less(b, w)
  PROVE  /\ SharedLen(a, b) <= Len(w)
         /\ \A j \in 1..SharedLen(a, b) : w[j] = a[j]
  <1> DEFINE p == SharedLen(a, b)
  <1>1. /\ p \in Nat /\ p <= Len(a) /\ p <= Len(b)
        /\ \A j \in 1..p : a[j] = b[j]
    BY SharedLenFacts
  <1>2. Len(a) \in Nat /\ Len(b) \in Nat /\ Len(w) \in Nat BY WordFacts
  <1> HIDE DEF p
  <1>3. CASE a = w BY <1>1, <1>3 DEF p
  <1>4. CASE Less(a, w)
    <2>1. PICK m \in Nat : LessAt(a, w, m) BY <1>4, LessIsAt
    <2>2. CASE m >= p BY <1>1, <1>2, <2>1, <2>2 DEF LessAt, p
    <2>3. CASE m < p
      <3>1. m + 1 \in 1..p BY <1>1, <2>3
      <3>2. LessAt(b, w, m) BY <1>1, <1>2, <2>1, <2>3, <3>1 DEF LessAt
      <3>3. QED BY <3>2, LessIsAt
    <2>4. QED BY <1>1, <2>2, <2>3
  <1>5. QED BY <1>3, <1>4

-------------------------------------------------------------------------------
(* Heads.                                                                        *)

Digit(k, i) == IF i <= Len(k) THEN k[i] ELSE 0

LEMMA DigitFacts ==
  ASSUME NEW k \in Words, NEW i \in Nat \ {0}
  PROVE  Digit(k, i) \in Nat /\ Digit(k, i) < Byte
  BY WordFacts, SearchAssumption DEF Digit

LEMMA HeadRecursion ==
  ASSUME NEW k \in Words
  PROVE  \E h \in [0..HeadLen -> Nat] :
           /\ h[0] = 0
           /\ \A i \in 1..HeadLen : h[i] = h[i - 1] * Byte + Digit(k, i)
           /\ HeadOf(k) = h[HeadLen]
  <1> DEFINE step == [i \in 1..HeadLen |-> [v \in Nat |-> v * Byte + Digit(k, i)]]
             Eq(f) == f = [i \in 0..HeadLen |->
                             IF i = 0 THEN 0
                             ELSE f[i - 1] * Byte + (IF i <= Len(k) THEN k[i] ELSE 0)]
             h == CHOOSE f : Eq(f)
  <1>1. HeadLen \in Nat /\ Byte \in Nat BY SearchAssumption
  <1>2. step \in [1..HeadLen -> [Nat -> Nat]]
    <2> SUFFICES ASSUME NEW i \in 1..HeadLen, NEW v \in Nat PROVE v * Byte + Digit(k, i) \in Nat
      OBVIOUS
    <2>1. Digit(k, i) \in Nat BY <1>1, DigitFacts
    <2>2. QED BY <1>1, <2>1
  <1>3. PICK f : Recursive(f, HeadLen, Nat, 0, step)
    <2> HIDE DEF step
    <2>1. 0 \in Nat /\ step \in StepsOf(HeadLen, Nat) BY <1>2 DEF StepsOf
    <2>2. QED BY <1>1, <2>1, Recursion
  <1>4. Eq(f)
    <2>1. \A i \in 1..HeadLen : f[i] = f[i - 1] * Byte + Digit(k, i)
      <3> SUFFICES ASSUME NEW i \in 1..HeadLen PROVE f[i] = f[i - 1] * Byte + Digit(k, i) OBVIOUS
      <3>1. f[i] = step[i][f[i - 1]] BY <1>3 DEF Recursive
      <3>2. f[i - 1] \in Nat BY <1>1, <1>3 DEF Recursive
      <3>3. \A v \in Nat : step[i][v] = v * Byte + Digit(k, i) OBVIOUS
      <3> HIDE DEF step
      <3>4. QED BY <3>1, <3>2, <3>3
    <2>2. f[0] = 0 BY <1>3 DEF Recursive
    <2>3. QED BY <1>1, <1>3, <2>1, <2>2 DEF Digit, Recursive
  <1>5. Eq(h)
    <2> HIDE DEF Eq
    <2>1. QED BY <1>4
  <1>6. HeadOf(k) = h[HeadLen] BY DEF HeadOf
  <1> HIDE DEF h
  <1>7. h[0] = 0 /\ \A i \in 1..HeadLen : h[i] = h[i - 1] * Byte + Digit(k, i)
    BY <1>1, <1>5 DEF Digit
  <1>8. h \in [0..HeadLen -> Nat]
    <2> DEFINE T == {i \in 0..HeadLen : h[i] \in Nat}
    <2>1. 0 \in T BY <1>1, <1>7
    <2>2. ASSUME NEW i \in 0..(HeadLen - 1), i \in T PROVE i + 1 \in T
      <3>1. h[i + 1] = h[i] * Byte + Digit(k, i + 1) BY <1>1, <1>7
      <3>2. Digit(k, i + 1) \in Nat BY DigitFacts
      <3>3. h[i] * Byte \in Nat BY <1>1, <2>2
      <3>4. QED BY <1>1, <3>1, <3>2, <3>3
    <2>3. 0..HeadLen \subseteq T
      <3> HIDE DEF T
      <3>1. QED BY <1>1, <2>1, <2>2, BoundedInduction
    <2>4. \A i \in 0..HeadLen : h[i] \in Nat BY <2>3
    <2>5. QED BY <1>5, <2>4
  <1>9. QED BY <1>6, <1>7, <1>8

LEMMA HeadType == ASSUME NEW k \in Words PROVE HeadOf(k) \in Nat
  BY HeadRecursion, SearchAssumption

LEMMA MoreDigits ==
  ASSUME NEW u \in Nat, NEW v \in Nat, NEW d \in Nat, NEW e \in Nat, NEW B \in Nat, d < B
  PROVE  /\ u < v => u * B + d < v * B + e
         /\ u <= v /\ d <= e => u * B + d <= v * B + e
  <1>1. ASSUME u < v PROVE u * B + d < v * B + e
    <2>1. PICK w \in Nat : v = u + 1 + w
      <3>1. v - u - 1 \in Nat /\ v = u + 1 + (v - u - 1) BY <1>1
      <3>2. QED BY <3>1
    <2>2. v * B = u * B + B + w * B BY <2>1
    <2>3. u * B \in Nat /\ w * B \in Nat OBVIOUS
    <2>4. QED BY <2>2, <2>3
  <1>2. ASSUME u <= v, d <= e PROVE u * B + d <= v * B + e
    <2>1. PICK w \in Nat : v = u + w
      <3>1. v - u \in Nat /\ v = u + (v - u) BY <1>2
      <3>2. QED BY <3>1
    <2>2. v * B = u * B + w * B BY <2>1
    <2>3. u * B \in Nat /\ w * B \in Nat OBVIOUS
    <2>4. QED BY <1>2, <2>2, <2>3
  <1>3. QED BY <1>1, <1>2

\* A word that is not greater has no greater head.
LEMMA HeadMonotone ==
  ASSUME NEW a \in Words, NEW b \in Words, Less(a, b)
  PROVE  HeadOf(a) <= HeadOf(b)
  <1>1. PICK i \in Nat : LessAt(a, b, i) BY LessIsAt
  <1>2. PICK f \in [0..HeadLen -> Nat] :
           /\ f[0] = 0
           /\ \A j \in 1..HeadLen : f[j] = f[j - 1] * Byte + Digit(a, j)
           /\ HeadOf(a) = f[HeadLen]
    BY HeadRecursion
  <1>3. PICK g \in [0..HeadLen -> Nat] :
           /\ g[0] = 0
           /\ \A j \in 1..HeadLen : g[j] = g[j - 1] * Byte + Digit(b, j)
           /\ HeadOf(b) = g[HeadLen]
    BY HeadRecursion
  <1>4. HeadLen \in Nat /\ Byte \in Nat BY SearchAssumption
  <1>5. Len(a) \in Nat /\ Len(b) \in Nat /\ (\A j \in 1..Len(b) : b[j] \in Nat) BY WordFacts
  <1> DEFINE T == {j \in 0..HeadLen : f[j] <= g[j] /\ (j > i /\ i < Len(a) => f[j] < g[j])}
  <1>6. 0 \in T BY <1>1, <1>2, <1>3, <1>4
  <1>7. ASSUME NEW j \in 0..(HeadLen - 1), j \in T PROVE j + 1 \in T
    <2> DEFINE d == Digit(a, j + 1)
               e == Digit(b, j + 1)
    <2>1. /\ f[j + 1] = f[j] * Byte + d /\ g[j + 1] = g[j] * Byte + e
          /\ f[j] \in Nat /\ g[j] \in Nat
      BY <1>2, <1>3, <1>4
    <2>2. d \in Nat /\ e \in Nat /\ d < Byte BY DigitFacts
    <2>10. f[j] <= g[j] /\ (j > i /\ i < Len(a) => f[j] < g[j]) BY <1>7
    <2>11. d = Digit(a, j + 1) /\ e = Digit(b, j + 1) OBVIOUS
    <2> HIDE DEF d, e
    <2>3. /\ f[j] < g[j] => f[j + 1] < g[j + 1]
          /\ d <= e => f[j + 1] <= g[j + 1]
      <3>1. /\ f[j] < g[j] => f[j] * Byte + d < g[j] * Byte + e
            /\ f[j] <= g[j] /\ d <= e => f[j] * Byte + d <= g[j] * Byte + e
        BY <1>4, <2>1, <2>2, MoreDigits
      <3>2. QED BY <2>1, <2>10, <3>1
    <2>4. j + 1 \in 0..HeadLen /\ f[j + 1] \in Nat /\ g[j + 1] \in Nat BY <1>2, <1>3, <1>4
    <2>5. CASE j > i /\ i < Len(a) BY <2>3, <2>4, <2>5, <2>10
    <2>6. CASE j > i /\ i = Len(a)
      <3>1. d = 0 BY <1>5, <2>6, <2>11 DEF Digit
      <3>2. QED BY <2>2, <2>3, <2>4, <2>6, <3>1
    <2>7. CASE j = i
      <3>1. CASE i = Len(a)
        <4>1. d = 0 BY <1>5, <2>7, <2>11, <3>1 DEF Digit
        <4>2. QED BY <2>2, <2>3, <2>4, <2>7, <3>1, <4>1
      <3>2. CASE i < Len(a)
        <4>1. d < e BY <1>1, <1>5, <2>7, <2>11, <3>2 DEF Digit, LessAt
        <4>2. f[j] * Byte <= g[j] * Byte
          <5>1. f[j] * Byte + 0 <= g[j] * Byte + 0
            <6>1. CASE Byte = 0 BY <2>2, <6>1
            <6>2. CASE 0 < Byte BY <1>4, <2>1, <2>10, <6>2, MoreDigits
            <6>3. QED BY <1>4, <6>1, <6>2
          <5>2. f[j] * Byte \in Nat /\ g[j] * Byte \in Nat BY <1>4, <2>1
          <5>3. QED BY <5>1, <5>2
        <4>3. f[j] * Byte \in Nat /\ g[j] * Byte \in Nat BY <1>4, <2>1
        <4>4. f[j + 1] < g[j + 1] BY <2>1, <2>2, <4>1, <4>2, <4>3
        <4>5. QED BY <2>4, <2>7, <4>4
      <3>3. QED BY <1>1, <1>5, <3>1, <3>2 DEF LessAt
    <2>8. CASE j < i
      <3>1. j + 1 \in 1..i /\ j + 1 <= Len(a) /\ j + 1 <= Len(b) BY <1>1, <1>5, <2>8 DEF LessAt
      <3>2. d = e BY <1>1, <2>11, <3>1 DEF Digit, LessAt
      <3>3. QED BY <2>2, <2>3, <2>4, <2>8, <3>2
    <2>9. QED BY <1>1, <1>5, <2>5, <2>6, <2>7, <2>8 DEF LessAt
  <1>8. 0..HeadLen \subseteq T
    <2> HIDE DEF T
    <2>1. QED BY <1>4, <1>6, <1>7, BoundedInduction
  <1>9. HeadLen \in T BY <1>4, <1>8
  <1>10. QED BY <1>2, <1>3, <1>9

LEMMA HeadLess ==
  ASSUME NEW a \in Words, NEW b \in Words, HeadOf(a) < HeadOf(b)
  PROVE  Less(a, b)
  <1>1. HeadOf(a) \in Nat /\ HeadOf(b) \in Nat BY HeadType
  <1>2. a # b BY <1>1
  <1>3. ~Less(b, a) BY <1>1, HeadMonotone
  <1>4. QED BY <1>2, <1>3, LessTotal

-------------------------------------------------------------------------------
(* The bytes of slots.                                                           *)

SlotSet == [key : Words, pay : Int]

SizeEquation(f, slots, pay) ==
  f[0] = 0 /\ \A i \in 1..Len(slots) : f[i] = f[i - 1] + Len(slots[i].key) + pay

LEMMA SlotFacts ==
  ASSUME NEW slots \in Seq(SlotSet)
  PROVE  /\ Len(slots) \in Nat
         /\ \A i \in 1..Len(slots) : /\ slots[i] \in SlotSet /\ slots[i].key \in Words
                                     /\ slots[i].pay \in Int /\ Len(slots[i].key) \in Nat
  <1>1. ASSUME NEW i \in 1..Len(slots)
        PROVE  /\ slots[i] \in SlotSet /\ slots[i].key \in Words
               /\ slots[i].pay \in Int /\ Len(slots[i].key) \in Nat
    <2>1. slots[i] \in SlotSet BY ElementOfSeq
    <2>2. slots[i].key \in Words /\ slots[i].pay \in Int BY <2>1 DEF SlotSet
    <2>3. QED BY <2>1, <2>2, WordFacts
  <1>2. QED BY <1>1, LenProperties

LEMMA SizeRecursion ==
  ASSUME NEW slots \in Seq(SlotSet), NEW pay \in Nat
  PROVE  \E f \in [0..Len(slots) -> Nat] :
           SizeEquation(f, slots, pay) /\ SizeOf(slots, pay) = f[Len(slots)]
  <1> DEFINE N == Len(slots)
             step == [i \in 1..N |-> [v \in Nat |-> v + Len(slots[i].key) + pay]]
             Eq(f) == f = [i \in 0..Len(slots) |->
                             IF i = 0 THEN 0 ELSE f[i - 1] + Len(slots[i].key) + pay]
             h == CHOOSE f : Eq(f)
  <1>1. N \in Nat /\ \A i \in 1..N : Len(slots[i].key) \in Nat BY SlotFacts
  <1>2. step \in [1..N -> [Nat -> Nat]] BY <1>1
  <1>3. PICK f : Recursive(f, N, Nat, 0, step)
    <2> HIDE DEF step
    <2>1. 0 \in Nat /\ step \in StepsOf(N, Nat) BY <1>2 DEF StepsOf
    <2>2. QED BY <1>1, <2>1, Recursion
  <1>4. Eq(f)
    <2>1. \A i \in 1..N : f[i] = f[i - 1] + Len(slots[i].key) + pay
      <3> SUFFICES ASSUME NEW i \in 1..N PROVE f[i] = f[i - 1] + Len(slots[i].key) + pay OBVIOUS
      <3>1. f[i] = step[i][f[i - 1]] BY <1>3 DEF Recursive
      <3>2. f[i - 1] \in Nat BY <1>1, <1>3 DEF Recursive
      <3>3. \A v \in Nat : step[i][v] = v + Len(slots[i].key) + pay OBVIOUS
      <3> HIDE DEF step
      <3>4. QED BY <3>1, <3>2, <3>3
    <2>2. f[0] = 0 BY <1>3 DEF Recursive
    <2>3. QED BY <1>1, <1>3, <2>1, <2>2 DEF Recursive
  <1>5. Eq(h)
    <2> HIDE DEF Eq
    <2>1. QED BY <1>4
  <1>6. SizeOf(slots, pay) = h[N] BY DEF SizeOf
  <1> HIDE DEF h
  <1>7. SizeEquation(h, slots, pay) BY <1>1, <1>5 DEF SizeEquation
  <1>8. h \in [0..N -> Nat]
    <2> DEFINE T == {i \in 0..N : h[i] \in Nat}
    <2>1. 0 \in T BY <1>1, <1>7 DEF SizeEquation
    <2>2. ASSUME NEW i \in 0..(N - 1), i \in T PROVE i + 1 \in T
      <3>1. i + 1 \in 1..N /\ h[i + 1] = h[i] + Len(slots[i + 1].key) + pay
        BY <1>1, <1>7 DEF SizeEquation
      <3>2. Len(slots[i + 1].key) \in Nat BY <1>1, <3>1
      <3>3. QED BY <1>1, <2>2, <3>1, <3>2
    <2>3. 0..N \subseteq T
      <3> HIDE DEF T
      <3>1. QED BY <1>1, <2>1, <2>2, BoundedInduction
    <2>4. \A i \in 0..N : h[i] \in Nat BY <2>3
    <2>5. QED BY <1>5, <2>4
  <1>9. QED BY <1>6, <1>7, <1>8

LEMMA SizeType ==
  ASSUME NEW slots \in Seq(SlotSet), NEW pay \in Nat PROVE SizeOf(slots, pay) \in Nat
  BY SizeRecursion, SlotFacts

\* Any function with the equations of the sum is the sum.
LEMMA SizeIs ==
  ASSUME NEW slots \in Seq(SlotSet), NEW pay \in Nat, NEW g, SizeEquation(g, slots, pay)
  PROVE  SizeOf(slots, pay) = g[Len(slots)]
  <1>1. PICK f \in [0..Len(slots) -> Nat] :
          SizeEquation(f, slots, pay) /\ SizeOf(slots, pay) = f[Len(slots)]
    BY SizeRecursion
  <1>2. Len(slots) \in Nat BY SlotFacts
  <1> DEFINE T == {i \in 0..Len(slots) : f[i] = g[i]}
  <1>3. 0 \in T BY <1>1, <1>2 DEF SizeEquation
  <1>4. ASSUME NEW i \in 0..(Len(slots) - 1), i \in T PROVE i + 1 \in T
    BY <1>1, <1>2, <1>4 DEF SizeEquation
  <1>5. 0..Len(slots) \subseteq T
    <2> HIDE DEF T
    <2>1. QED BY <1>2, <1>3, <1>4, BoundedInduction
  <1>6. QED BY <1>1, <1>2, <1>5

LEMMA SizeConcat ==
  ASSUME NEW s \in Seq(SlotSet), NEW t \in Seq(SlotSet), NEW pay \in Nat
  PROVE  SizeOf(s \o t, pay) = SizeOf(s, pay) + SizeOf(t, pay)
  <1>1. PICK f \in [0..Len(s) -> Nat] : SizeEquation(f, s, pay) /\ SizeOf(s, pay) = f[Len(s)]
    BY SizeRecursion
  <1>2. PICK g \in [0..Len(t) -> Nat] : SizeEquation(g, t, pay) /\ SizeOf(t, pay) = g[Len(t)]
    BY SizeRecursion
  <1>3. /\ Len(s) \in Nat /\ Len(t) \in Nat
        /\ (\A i \in 1..Len(s) : Len(s[i].key) \in Nat)
        /\ (\A i \in 1..Len(t) : Len(t[i].key) \in Nat)
    BY SlotFacts
  <1>4. /\ s \o t \in Seq(SlotSet) /\ Len(s \o t) = Len(s) + Len(t)
        /\ \A i \in 1..(Len(s) + Len(t)) : (s \o t)[i] = IF i <= Len(s) THEN s[i] ELSE t[i - Len(s)]
    BY <1>3, ConcatProperties
  <1> DEFINE u == s \o t
             h == [i \in 0..(Len(s) + Len(t)) |-> IF i <= Len(s) THEN f[i] ELSE f[Len(s)] + g[i - Len(s)]]
  <1>5. u \in Seq(SlotSet) /\ Len(u) = Len(s) + Len(t) BY <1>4
  <1>6. \A i \in 1..(Len(s) + Len(t)) : u[i] = IF i <= Len(s) THEN s[i] ELSE t[i - Len(s)] BY <1>4
  <1>7. \A i \in 0..(Len(s) + Len(t)) : h[i] = IF i <= Len(s) THEN f[i] ELSE f[Len(s)] + g[i - Len(s)]
    OBVIOUS
  <1>8. h[Len(s) + Len(t)] = f[Len(s)] + g[Len(t)]
    <2>1. CASE Len(t) = 0 BY <1>1, <1>2, <1>3, <1>7, <2>1 DEF SizeEquation
    <2>2. CASE Len(t) # 0 BY <1>1, <1>2, <1>3, <1>7, <2>2
    <2>3. QED BY <2>1, <2>2
  <1> HIDE DEF u, h
  <1>9. h[0] = 0 BY <1>1, <1>3, <1>7 DEF SizeEquation
  <1>10. ASSUME NEW i \in 1..Len(u) PROVE h[i] = h[i - 1] + Len(u[i].key) + pay
    <2>1. CASE i <= Len(s)
      <3>1. i \in 1..Len(s) /\ h[i] = f[i] /\ h[i - 1] = f[i - 1] /\ u[i] = s[i]
        <4>1. /\ i \in 1..Len(s) /\ i \in 1..(Len(s) + Len(t)) /\ i \in 0..(Len(s) + Len(t))
              /\ i - 1 \in 0..(Len(s) + Len(t)) /\ i - 1 <= Len(s)
          BY <1>3, <1>5, <2>1
        <4>2. QED BY <1>6, <1>7, <2>1, <4>1
      <3>2. QED BY <1>1, <3>1 DEF SizeEquation
    <2>2. CASE i > Len(s)
      <3> DEFINE j == i - Len(s)
      <3>1. j \in 1..Len(t) /\ u[i] = t[j] /\ h[i] = f[Len(s)] + g[j] BY <1>3, <1>5, <1>6, <1>7, <2>2
      <3>2. h[i - 1] = f[Len(s)] + g[j - 1]
        <4>1. CASE i - 1 = Len(s)
          <5>1. i - 1 \in 0..(Len(s) + Len(t)) /\ j - 1 = 0 /\ Len(s) \in 0..Len(s) BY <1>3, <1>5, <4>1
          <5>2. h[i - 1] = f[Len(s)] BY <1>3, <1>7, <4>1, <5>1
          <5>3. g[0] = 0 BY <1>2 DEF SizeEquation
          <5>4. f[Len(s)] \in Nat BY <1>1, <5>1
          <5> HIDE DEF j
          <5>5. QED BY <5>1, <5>2, <5>3, <5>4
        <4>2. CASE i - 1 > Len(s)
          <5>1. (i - 1) - Len(s) = j - 1 /\ i - 1 \in 0..(Len(s) + Len(t)) BY <1>3, <1>5
          <5>2. QED BY <1>3, <1>7, <4>2, <5>1
        <4>3. QED BY <1>3, <2>2, <4>1, <4>2
      <3>3. g[j] = g[j - 1] + Len(t[j].key) + pay BY <1>2, <3>1 DEF SizeEquation
      <3> HIDE DEF j
      <3>6. j - 1 \in 0..Len(t) /\ Len(s) \in 0..Len(s) BY <1>3, <3>1
      <3>7. f[Len(s)] \in Nat BY <3>6
      <3>8. g[j - 1] \in Nat BY <3>6
      <3>4. f[Len(s)] \in Nat /\ g[j - 1] \in Nat /\ Len(t[j].key) \in Nat
        BY <1>3, <3>1, <3>7, <3>8
      <3> DEFINE x == f[Len(s)]
                 y == g[j - 1]
                 z == Len(t[j].key)
      <3>9. x \in Nat /\ y \in Nat /\ z \in Nat BY <3>4
      <3>10. h[i] = x + (y + z + pay) /\ h[i - 1] = x + y /\ Len(u[i].key) = z BY <3>1, <3>2, <3>3
      <3> HIDE DEF x, y, z
      <3>5. QED BY <3>9, <3>10
    <2>3. QED BY <1>3, <2>1, <2>2
  <1>11. SizeEquation(h, u, pay) BY <1>9, <1>10 DEF SizeEquation
  <1>12. SizeOf(u, pay) = h[Len(u)] BY <1>5, <1>11, SizeIs
  <1>13. QED BY <1>1, <1>2, <1>5, <1>8, <1>12 DEF u

\* Every key longer by the same number of bytes.
LEMMA SizeShift ==
  ASSUME NEW s \in Seq(SlotSet), NEW t \in Seq(SlotSet), NEW pay \in Nat, NEW d \in Int,
         Len(s) = Len(t), \A i \in 1..Len(s) : Len(s[i].key) = Len(t[i].key) + d
  PROVE  SizeOf(s, pay) = SizeOf(t, pay) + d * Len(t)
  <1>1. PICK g \in [0..Len(t) -> Nat] : SizeEquation(g, t, pay) /\ SizeOf(t, pay) = g[Len(t)]
    BY SizeRecursion
  <1>2. Len(t) \in Nat /\ \A i \in 1..Len(t) : Len(t[i].key) \in Nat BY SlotFacts
  <1> DEFINE h == [i \in 0..Len(t) |-> g[i] + d * i]
  <1>3. \A i \in 0..Len(t) : h[i] = g[i] + d * i OBVIOUS
  <1> HIDE DEF h
  <1>4. h[0] = 0 BY <1>1, <1>2, <1>3 DEF SizeEquation
  <1>5. ASSUME NEW i \in 1..Len(s) PROVE h[i] = h[i - 1] + Len(s[i].key) + pay
    <2>1. g[i] = g[i - 1] + Len(t[i].key) + pay BY <1>1 DEF SizeEquation
    <2>2. h[i] = g[i] + d * i /\ h[i - 1] = g[i - 1] + d * (i - 1) BY <1>2, <1>3
    <2>3. d * i = d * (i - 1) + d /\ d * (i - 1) \in Int BY <1>2
    <2>7. i \in 1..Len(t) /\ i - 1 \in 0..Len(t) BY <1>2
    <2>4. g[i - 1] \in Nat /\ Len(t[i].key) \in Nat BY <1>2, <2>7
    <2>5. Len(s[i].key) = Len(t[i].key) + d OBVIOUS
    <2>6. QED BY <2>1, <2>2, <2>3, <2>4, <2>5
  <1>6. SizeOf(s, pay) = h[Len(s)] BY <1>4, <1>5, SizeIs DEF SizeEquation
  <1>7. QED BY <1>1, <1>2, <1>3, <1>6

LEMMA SizeOfOne ==
  ASSUME NEW e \in SlotSet, NEW pay \in Nat
  PROVE  SizeOf(<<e>>, pay) = Len(e.key) + pay
  <1>1. Len(e.key) \in Nat BY WordFacts DEF SlotSet
  <1>2. <<e>> \in Seq(SlotSet) /\ Len(<<e>>) = 1 /\ <<e>>[1] = e OBVIOUS
  <1> DEFINE s == <<e>>
             g == [i \in 0..1 |-> IF i = 0 THEN 0 ELSE Len(e.key) + pay]
  <1>3. SizeEquation(g, s, pay) BY <1>1, <1>2 DEF SizeEquation
  <1> HIDE DEF s, g
  <1>4. SizeOf(s, pay) = g[1] BY <1>2, <1>3, SizeIs DEF s
  <1>5. QED BY <1>4 DEF g, s

LEMMA SizeOfNone ==
  ASSUME NEW pay \in Nat PROVE SizeOf(<<>>, pay) = 0
  <1> DEFINE s == <<>>
  <1>1. s \in Seq(SlotSet) /\ Len(s) = 0 OBVIOUS
  <1> DEFINE g == [i \in 0..0 |-> 0]
  <1>2. SizeEquation(g, s, pay) BY DEF SizeEquation
  <1> HIDE DEF s, g
  <1>3. SizeOf(s, pay) = g[0] BY <1>1, <1>2, SizeIs
  <1>4. QED BY <1>3 DEF g, s

LEMMA SubSlots ==
  ASSUME NEW s \in Seq(SlotSet), NEW from \in 1..(Len(s) + 1), NEW to \in (from - 1)..Len(s)
  PROVE  /\ SubSeq(s, from, to) \in Seq(SlotSet)
         /\ Len(SubSeq(s, from, to)) = to - from + 1
         /\ \A j \in 1..(to - from + 1) : SubSeq(s, from, to)[j] = s[from + j - 1]
  <1>1. Len(s) \in Nat BY SlotFacts
  <1>2. ASSUME NEW j \in from..to PROVE s[j] \in SlotSet
    <2>1. j \in 1..Len(s) BY <1>1
    <2>2. QED BY <2>1, SlotFacts
  <1>3. QED BY <1>1, <1>2, SubSeqProperties

LEMMA ConcatSlots ==
  ASSUME NEW s \in Seq(SlotSet), NEW t \in Seq(SlotSet)
  PROVE  /\ s \o t \in Seq(SlotSet) /\ Len(s \o t) = Len(s) + Len(t)
         /\ \A i \in 1..(Len(s) + Len(t)) : (s \o t)[i] = IF i <= Len(s) THEN s[i] ELSE t[i - Len(s)]
  BY ConcatProperties

LEMMA SizeSplit ==
  ASSUME NEW s \in Seq(SlotSet), NEW i \in 0..Len(s), NEW pay \in Nat
  PROVE  SizeOf(s, pay) = SizeOf(SubSeq(s, 1, i), pay) + SizeOf(SubSeq(s, i + 1, Len(s)), pay)
  <1>1. Len(s) \in Nat BY SlotFacts
  <1> DEFINE a == SubSeq(s, 1, i)
             b == SubSeq(s, i + 1, Len(s))
  <1>2. a \in Seq(SlotSet) /\ Len(a) = i /\ \A j \in 1..i : a[j] = s[j]
    BY <1>1, SubSlots
  <1>3. b \in Seq(SlotSet) /\ Len(b) = Len(s) - i /\ \A j \in 1..(Len(s) - i) : b[j] = s[i + j]
    <2>1. i + 1 \in 1..(Len(s) + 1) /\ Len(s) \in ((i + 1) - 1)..Len(s) BY <1>1
    <2>2. QED BY <1>1, <2>1, SubSlots
  <1> HIDE DEF a, b
  <1>4. a \o b = s
    <2> DEFINE u == a \o b
    <2>1. u \in Seq(SlotSet) /\ Len(u) = Len(s)
      <3>1. Len(a) + Len(b) = Len(s) BY <1>1, <1>2, <1>3
      <3>2. u \in Seq(SlotSet) /\ Len(u) = Len(a) + Len(b) BY <1>2, <1>3, ConcatSlots
      <3>3. QED BY <3>1, <3>2
    <2>2. \A j \in 1..Len(s) : u[j] = IF j <= i THEN a[j] ELSE b[j - i]
      <3>1. Len(a) + Len(b) = Len(s) BY <1>1, <1>2, <1>3
      <3>2. \A j \in 1..(Len(a) + Len(b)) : u[j] = IF j <= Len(a) THEN a[j] ELSE b[j - Len(a)]
        BY <1>2, <1>3, ConcatSlots
      <3> HIDE DEF u
      <3>3. QED BY <1>2, <3>1, <3>2
    <2> HIDE DEF u
    <2>3. ASSUME NEW j \in 1..Len(s) PROVE u[j] = s[j]
      <3>1. CASE j <= i BY <1>1, <1>2, <2>2, <3>1
      <3>2. CASE j > i
        <4>1. j - i \in 1..(Len(s) - i) /\ i + (j - i) = j BY <1>1, <3>2
        <4>2. b[j - i] = s[j] BY <1>3, <4>1
        <4>3. QED BY <2>2, <3>2, <4>2
      <3>3. QED BY <1>1, <3>1, <3>2
    <2>4. u = s BY <2>1, <2>3, SeqEqual
    <2>5. QED BY <2>4 DEF u
  <1>5. SizeOf(a \o b, pay) = SizeOf(a, pay) + SizeOf(b, pay) BY <1>2, <1>3, SizeConcat
  <1>6. SizeOf(s, pay) = SizeOf(a, pay) + SizeOf(b, pay) BY <1>4, <1>5
  <1>7. QED BY <1>6 DEF a, b

LEMMA SlotInserted ==
  ASSUME NEW s \in Seq(SlotSet), NEW i \in 1..(Len(s) + 1), NEW e \in SlotSet, NEW pay \in Nat
  PROVE  /\ InsertAt(s, i, e) \in Seq(SlotSet) /\ Len(InsertAt(s, i, e)) = Len(s) + 1
         /\ \A j \in 1..(Len(s) + 1) :
              InsertAt(s, i, e)[j] = IF j < i THEN s[j] ELSE IF j = i THEN e ELSE s[j - 1]
         /\ SizeOf(InsertAt(s, i, e), pay) = SizeOf(s, pay) + Len(e.key) + pay
  <1>1. Len(s) \in Nat BY SlotFacts
  <1> DEFINE a == SubSeq(s, 1, i - 1)
             b == SubSeq(s, i, Len(s))
             o == <<e>>
             ao == a \o o
             u == ao \o b
  <1>2. a \in Seq(SlotSet) /\ Len(a) = i - 1 /\ \A j \in 1..(i - 1) : a[j] = s[j]
    BY <1>1, SubSlots
  <1>3. b \in Seq(SlotSet) /\ Len(b) = Len(s) - i + 1 /\ \A j \in 1..(Len(s) - i + 1) : b[j] = s[i + j - 1]
    BY <1>1, SubSlots
  <1>4. o \in Seq(SlotSet) /\ Len(o) = 1 /\ o[1] = e OBVIOUS
  <1>5. SizeOf(o, pay) = Len(e.key) + pay BY SizeOfOne
  <1>6. SizeOf(s, pay) = SizeOf(a, pay) + SizeOf(b, pay)
    <2>1. i - 1 \in 0..Len(s) /\ (i - 1) + 1 = i BY <1>1
    <2>2. QED BY <2>1, SizeSplit
  <1>7. InsertAt(s, i, e) = u BY DEF InsertAt
  <1> HIDE DEF a, b, o
  <1>8. /\ ao \in Seq(SlotSet) /\ Len(ao) = i
        /\ \A j \in 1..i : ao[j] = IF j < i THEN a[j] ELSE e
    <2>1. Len(a) + Len(o) = i BY <1>1, <1>2, <1>4
    <2>2. /\ ao \in Seq(SlotSet) /\ Len(ao) = Len(a) + Len(o)
          /\ \A j \in 1..(Len(a) + Len(o)) : ao[j] = IF j <= Len(a) THEN a[j] ELSE o[j - Len(a)]
      BY <1>2, <1>4, ConcatSlots
    <2> HIDE DEF ao
    <2>3. ASSUME NEW j \in 1..i PROVE ao[j] = IF j < i THEN a[j] ELSE e
      <3>1. CASE j < i
        <4>1. j <= Len(a) BY <1>1, <1>2, <3>1
        <4>2. QED BY <2>1, <2>2, <3>1, <4>1
      <3>2. CASE j = i
        <4>1. ~(j <= Len(a)) /\ j - Len(a) = 1 BY <1>1, <1>2, <3>2
        <4>2. QED BY <1>4, <2>1, <2>2, <3>2, <4>1
      <3>3. QED BY <1>1, <3>1, <3>2
    <2>4. QED BY <2>1, <2>2, <2>3
  <1>9. SizeOf(ao, pay) = SizeOf(a, pay) + SizeOf(o, pay) BY <1>2, <1>4, SizeConcat
  <1> HIDE DEF ao
  <1>10. /\ u \in Seq(SlotSet) /\ Len(u) = Len(s) + 1
         /\ \A j \in 1..(Len(s) + 1) : u[j] = IF j <= i THEN ao[j] ELSE b[j - i]
    <2>1. Len(ao) + Len(b) = Len(s) + 1 BY <1>1, <1>3, <1>8
    <2>2. QED BY <1>3, <1>8, <2>1, ConcatSlots
  <1>11. SizeOf(u, pay) = SizeOf(ao, pay) + SizeOf(b, pay) BY <1>3, <1>8, SizeConcat
  <1> HIDE DEF u
  <1>12. ASSUME NEW j \in 1..(Len(s) + 1)
         PROVE  u[j] = IF j < i THEN s[j] ELSE IF j = i THEN e ELSE s[j - 1]
    <2>1. CASE j < i
      <3>1. j \in 1..(i - 1) /\ j \in 1..i BY <1>1, <2>1
      <3>2. QED BY <1>2, <1>8, <1>10, <2>1, <3>1
    <2>2. CASE j = i BY <1>1, <1>8, <1>10, <2>2
    <2>3. CASE j > i
      <3>1. j - i \in 1..(Len(s) - i + 1) /\ i + (j - i) - 1 = j - 1 BY <1>1, <2>3
      <3>2. b[j - i] = s[j - 1] BY <1>3, <3>1
      <3>3. QED BY <1>10, <2>3, <3>2
    <2>4. QED BY <1>1, <2>1, <2>2, <2>3
  <1>13. SizeOf(a, pay) \in Nat /\ SizeOf(b, pay) \in Nat /\ Len(e.key) \in Nat
    BY <1>2, <1>3, SizeType, WordFacts DEF SlotSet
  <1>14. SizeOf(u, pay) = SizeOf(s, pay) + Len(e.key) + pay BY <1>5, <1>6, <1>9, <1>11, <1>13
  <1>15. QED BY <1>7, <1>10, <1>12, <1>14

LEMMA SlotRemoved ==
  ASSUME NEW s \in Seq(SlotSet), NEW i \in 1..Len(s), NEW pay \in Nat
  PROVE  /\ RemoveAt(s, i) \in Seq(SlotSet) /\ Len(RemoveAt(s, i)) = Len(s) - 1
         /\ \A j \in 1..(Len(s) - 1) : RemoveAt(s, i)[j] = IF j < i THEN s[j] ELSE s[j + 1]
         /\ SizeOf(RemoveAt(s, i), pay) = SizeOf(s, pay) - Len(s[i].key) - pay
  <1>1. Len(s) \in Nat /\ s[i] \in SlotSet BY SlotFacts
  <1> DEFINE a == SubSeq(s, 1, i - 1)
             b == SubSeq(s, i + 1, Len(s))
             u == a \o b
             w == InsertAt(u, i, s[i])
  <1>2. a \in Seq(SlotSet) /\ Len(a) = i - 1 /\ \A j \in 1..(i - 1) : a[j] = s[j]
    BY <1>1, SubSlots
  <1>3. b \in Seq(SlotSet) /\ Len(b) = Len(s) - i /\ \A j \in 1..(Len(s) - i) : b[j] = s[i + j]
    <2>1. i + 1 \in 1..(Len(s) + 1) /\ Len(s) \in ((i + 1) - 1)..Len(s) BY <1>1
    <2>2. QED BY <1>1, <2>1, SubSlots
  <1>4. RemoveAt(s, i) = u BY DEF RemoveAt
  <1> HIDE DEF a, b
  <1>5. /\ u \in Seq(SlotSet) /\ Len(u) = Len(s) - 1
        /\ \A j \in 1..(Len(s) - 1) : u[j] = IF j <= i - 1 THEN a[j] ELSE b[j - (i - 1)]
    <2>1. Len(a) + Len(b) = Len(s) - 1 BY <1>1, <1>2, <1>3
    <2>2. /\ u \in Seq(SlotSet) /\ Len(u) = Len(a) + Len(b)
          /\ \A j \in 1..(Len(a) + Len(b)) : u[j] = IF j <= Len(a) THEN a[j] ELSE b[j - Len(a)]
      BY <1>2, <1>3, ConcatSlots
    <2> HIDE DEF u
    <2>3. QED BY <1>2, <2>1, <2>2
  <1> HIDE DEF u
  <1>6. ASSUME NEW j \in 1..(Len(s) - 1) PROVE u[j] = IF j < i THEN s[j] ELSE s[j + 1]
    <2>1. CASE j < i
      <3>1. j \in 1..(i - 1) BY <1>1, <2>1
      <3>2. QED BY <1>2, <1>5, <2>1, <3>1
    <2>2. CASE j >= i
      <3>1. j - (i - 1) \in 1..(Len(s) - i) /\ i + (j - (i - 1)) = j + 1 BY <1>1, <2>2
      <3>2. b[j - (i - 1)] = s[j + 1] BY <1>3, <3>1
      <3>3. QED BY <1>1, <1>5, <2>2, <3>2
    <2>3. QED BY <1>1, <2>1, <2>2
  <1>7. i \in 1..(Len(u) + 1) BY <1>1, <1>5
  <1>8. /\ w \in Seq(SlotSet) /\ Len(w) = Len(s)
        /\ \A j \in 1..Len(s) : w[j] = IF j < i THEN u[j] ELSE IF j = i THEN s[i] ELSE u[j - 1]
        /\ SizeOf(w, pay) = SizeOf(u, pay) + Len(s[i].key) + pay
    <2>1. Len(u) + 1 = Len(s) BY <1>1, <1>5
    <2> DEFINE e == s[i]
    <2>2. u \in Seq(SlotSet) /\ i \in 1..(Len(u) + 1) /\ e \in SlotSet /\ w = InsertAt(u, i, e)
      BY <1>1, <1>5, <1>7
    <2> HIDE DEF e, w
    <2>3. /\ w \in Seq(SlotSet) /\ Len(w) = Len(u) + 1
          /\ \A j \in 1..(Len(u) + 1) : w[j] = IF j < i THEN u[j] ELSE IF j = i THEN e ELSE u[j - 1]
          /\ SizeOf(w, pay) = SizeOf(u, pay) + Len(e.key) + pay
      BY <2>2, SlotInserted
    <2>4. QED BY <2>1, <2>3 DEF e
  <1> HIDE DEF w
  <1>9. ASSUME NEW j \in 1..Len(s) PROVE w[j] = s[j]
    <2>1. CASE j < i
      <3>1. j \in 1..(Len(s) - 1) BY <1>1, <2>1
      <3>2. QED BY <1>6, <1>8, <2>1, <3>1
    <2>2. CASE j = i BY <1>8, <2>2
    <2>3. CASE j > i
      <3>1. j - 1 \in 1..(Len(s) - 1) /\ ~(j - 1 < i) /\ (j - 1) + 1 = j BY <1>1, <2>3
      <3>2. u[j - 1] = s[j] BY <1>6, <3>1
      <3>3. QED BY <1>8, <2>3, <3>2
    <2>4. QED BY <1>1, <2>1, <2>2, <2>3
  <1>10. w = s BY <1>8, <1>9, SeqEqual
  <1>11. SizeOf(u, pay) \in Nat /\ Len(s[i].key) \in Nat BY <1>5, SizeType, SlotFacts
  <1>12. SizeOf(u, pay) = SizeOf(s, pay) - Len(s[i].key) - pay BY <1>8, <1>10, <1>11
  <1>13. QED BY <1>4, <1>5, <1>6, <1>12

-------------------------------------------------------------------------------
(* Pages.                                                                        *)

Page == [leaf : BOOLEAN, lower : Words, upper : Words, link : Int, slots : Seq(SlotSet),
         hints : [0..(HintCount - 1) -> Nat], used : Int, data : Int]

Prefix(n) == SubSeq(n.lower, 1, PrefixLen(n))
SlotsOf(n) == 0..(Count(n) - 1)

\* A key as large as the fences of a page let it be.
Within(n, w) == /\ n.lower = <<>> \/ Less(n.lower, w)
                /\ n.upper = <<>> \/ ~Less(n.upper, w)

Sorted(n) == \A i, j \in SlotsOf(n) : i < j => Less(FullKey(n, i), FullKey(n, j))
HintsRight(n) == \A i \in 0..(HintCount - 1) : n.hints[i] = HeadAt(n, HintDist(n) * (i + 1))

LEMMA PageFacts ==
  ASSUME NEW n \in Page
  PROVE  /\ n.leaf \in BOOLEAN /\ n.lower \in Words /\ n.upper \in Words /\ n.link \in Int
         /\ n.slots \in Seq(SlotSet) /\ n.hints \in [0..(HintCount - 1) -> Nat]
         /\ n.used \in Int /\ n.data \in Int
         /\ Count(n) \in Nat /\ PayLen(n) \in Nat
  <1>1. /\ n.leaf \in BOOLEAN /\ n.lower \in Words /\ n.upper \in Words /\ n.link \in Int
        /\ n.slots \in Seq(SlotSet) /\ n.hints \in [0..(HintCount - 1) -> Nat]
        /\ n.used \in Int /\ n.data \in Int
    BY DEF Page
  <1>2. Count(n) \in Nat BY <1>1, SlotFacts DEF Count
  <1>3. PayLen(n) \in Nat BY LayoutAssumption DEF PayLen
  <1>4. QED BY <1>1, <1>2, <1>3

LEMMA PrefixFacts ==
  ASSUME NEW n \in Page
  PROVE  /\ PrefixLen(n) \in Nat /\ PrefixLen(n) <= Len(n.lower) /\ PrefixLen(n) <= Len(n.upper)
         /\ Prefix(n) \in Words /\ Len(Prefix(n)) = PrefixLen(n)
         /\ \A j \in 1..PrefixLen(n) : Prefix(n)[j] = n.lower[j]
         /\ n.lower = <<>> \/ n.upper = <<>> => PrefixLen(n) = 0
  <1>1. n.lower \in Words /\ n.upper \in Words BY PageFacts
  <1>2. Len(n.lower) \in Nat /\ Len(n.upper) \in Nat BY <1>1, WordFacts
  <1>3. PrefixLen(n) \in Nat /\ PrefixLen(n) <= Len(n.lower) /\ PrefixLen(n) <= Len(n.upper)
    BY <1>1, SharedLenFacts DEF PrefixLen
  <1>4. /\ Prefix(n) \in Words /\ Len(Prefix(n)) = PrefixLen(n)
        /\ \A j \in 1..PrefixLen(n) : Prefix(n)[j] = n.lower[j]
    BY <1>1, <1>2, <1>3, SubWord DEF Prefix
  <1>5. n.lower = <<>> \/ n.upper = <<>> => PrefixLen(n) = 0
    BY <1>1, EmptyIsLeast DEF PrefixLen
  <1>6. QED BY <1>3, <1>4, <1>5

LEMMA SlotOfPage ==
  ASSUME NEW n \in Page, NEW i \in SlotsOf(n)
  PROVE  /\ i \in Nat /\ i < Count(n)
         /\ Slot(n, i) \in SlotSet /\ Slot(n, i).key \in Words /\ Slot(n, i).pay \in Int
         /\ Len(Slot(n, i).key) \in Nat
         /\ FullKey(n, i) = Prefix(n) \o Slot(n, i).key
         /\ FullKey(n, i) \in Words /\ Len(FullKey(n, i)) = PrefixLen(n) + Len(Slot(n, i).key)
  <1>1. n.slots \in Seq(SlotSet) /\ Count(n) \in Nat /\ Count(n) = Len(n.slots)
    BY PageFacts DEF Count
  <1>2. i \in Nat /\ i < Count(n) /\ i + 1 \in 1..Len(n.slots) BY <1>1 DEF SlotsOf
  <1>3. /\ Slot(n, i) \in SlotSet /\ Slot(n, i).key \in Words /\ Slot(n, i).pay \in Int
        /\ Len(Slot(n, i).key) \in Nat
    BY <1>1, <1>2, SlotFacts DEF Slot
  <1>4. FullKey(n, i) = Prefix(n) \o Slot(n, i).key BY DEF FullKey, Prefix
  <1>5. Prefix(n) \in Words /\ Len(Prefix(n)) = PrefixLen(n) BY PrefixFacts
  <1>6. FullKey(n, i) \in Words /\ Len(FullKey(n, i)) = PrefixLen(n) + Len(Slot(n, i).key)
    BY <1>3, <1>4, <1>5, ConcatWord
  <1>7. QED BY <1>2, <1>3, <1>4, <1>6

\* Whatever is between the fences begins with the prefix.
LEMMA WithinHasPrefix ==
  ASSUME NEW n \in Page, NEW w \in Words, Within(n, w)
  PROVE  IsPrefix(Prefix(n), w)
  <1>1. /\ n.lower \in Words /\ n.upper \in Words /\ Len(w) \in Nat
    BY PageFacts, WordFacts
  <1>2. /\ PrefixLen(n) \in Nat /\ Prefix(n) \in Words /\ Len(Prefix(n)) = PrefixLen(n)
        /\ \A j \in 1..PrefixLen(n) : Prefix(n)[j] = n.lower[j]
        /\ n.lower = <<>> \/ n.upper = <<>> => PrefixLen(n) = 0
    BY PrefixFacts
  <1>3. PrefixLen(n) <= Len(w) /\ \A j \in 1..PrefixLen(n) : w[j] = Prefix(n)[j]
    <2>1. CASE n.lower = <<>> \/ n.upper = <<>> BY <1>1, <1>2, <2>1
    <2>2. CASE n.lower # <<>> /\ n.upper # <<>>
      <3>1. Less(n.lower, w) /\ ~Less(n.upper, w) BY <2>2 DEF Within
      <3>2. PrefixLen(n) <= Len(w) /\ \A j \in 1..PrefixLen(n) : w[j] = n.lower[j]
        BY <1>1, <3>1, SharedByAllBetween DEF PrefixLen
      <3>3. QED BY <1>2, <3>2
    <2>3. QED BY <2>1, <2>2
  <1>4. QED BY <1>2, <1>3, PrefixIs

LEMMA RestOfKey ==
  ASSUME NEW n \in Page, NEW w \in Words, IsPrefix(Prefix(n), w)
  PROVE  /\ Rest(n, w) \in Words /\ Len(Rest(n, w)) = Len(w) - PrefixLen(n)
         /\ Prefix(n) \o Rest(n, w) = w /\ PrefixLen(n) <= Len(w)
  <1>1. Prefix(n) \in Words /\ Len(Prefix(n)) = PrefixLen(n) BY PrefixFacts
  <1>2. Len(Prefix(n)) <= Len(w) BY <1>1, PrefixIs
  <1>3. QED BY <1>1, <1>2, ConcatOfRest DEF Rest

\* The order of keys is the order of what is behind the prefix.
LEMMA SlotOrder ==
  ASSUME NEW n \in Page, NEW w \in Words, IsPrefix(Prefix(n), w), NEW i \in SlotsOf(n)
  PROVE  /\ Less(Slot(n, i).key, Rest(n, w)) <=> Less(FullKey(n, i), w)
         /\ Less(Rest(n, w), Slot(n, i).key) <=> Less(w, FullKey(n, i))
         /\ Slot(n, i).key = Rest(n, w) <=> FullKey(n, i) = w
  <1>1. /\ Slot(n, i).key \in Words /\ FullKey(n, i) = Prefix(n) \o Slot(n, i).key
        /\ FullKey(n, i) \in Words
    BY SlotOfPage
  <1>2. Rest(n, w) \in Words /\ Prefix(n) \o Rest(n, w) = w BY RestOfKey
  <1>3. Prefix(n) \in Words BY PrefixFacts
  <1>4. /\ Less(Prefix(n) \o Slot(n, i).key, Prefix(n) \o Rest(n, w)) <=> Less(Slot(n, i).key, Rest(n, w))
        /\ Less(Prefix(n) \o Rest(n, w), Prefix(n) \o Slot(n, i).key) <=> Less(Rest(n, w), Slot(n, i).key)
    BY <1>1, <1>2, <1>3, LessConcat
  <1>5. /\ Less(Slot(n, i).key, Rest(n, w)) <=> Less(FullKey(n, i), w)
        /\ Less(Rest(n, w), Slot(n, i).key) <=> Less(w, FullKey(n, i))
    BY <1>1, <1>2, <1>4
  <1>6. QED BY <1>1, <1>2, <1>5, LessTotal, LessIrreflexive

LEMMA SlotsAscend ==
  ASSUME NEW n \in Page, Sorted(n), NEW i \in SlotsOf(n), NEW j \in SlotsOf(n), i < j
  PROVE  Less(Slot(n, i).key, Slot(n, j).key)
  <1>1. Less(FullKey(n, i), FullKey(n, j)) BY DEF Sorted
  <1>2. Prefix(n) \in Words BY PrefixFacts
  <1> DEFINE x == Slot(n, i).key
             y == Slot(n, j).key
  <1>3. /\ x \in Words /\ FullKey(n, i) = Prefix(n) \o x
        /\ y \in Words /\ FullKey(n, j) = Prefix(n) \o y
    BY SlotOfPage
  <1> HIDE DEF x, y
  <1>4. Less(Prefix(n) \o x, Prefix(n) \o y) BY <1>1, <1>3
  <1>5. Less(x, y) BY <1>2, <1>3, <1>4, LessConcat
  <1>6. QED BY <1>5 DEF x, y

-------------------------------------------------------------------------------
(* The search in a page.                                                         *)

LEMMA DivFacts ==
  ASSUME NEW a \in Nat, NEW b \in Nat \ {0}
  PROVE  a \div b \in Nat /\ b * (a \div b) <= a /\ a < b * (a \div b) + b
  OBVIOUS

LEMMA ProductOrder ==
  ASSUME NEW d \in Nat, NEW i \in Nat, NEW j \in Nat, i <= j
  PROVE  d * i \in Nat /\ d * j \in Nat /\ d * i <= d * j /\ (i < j => d * i + d <= d * j)
  <1>1. PICK w \in Nat : j = i + w
    <2>1. j - i \in Nat /\ j = i + (j - i) OBVIOUS
    <2>2. QED BY <2>1
  <1>2. d * j = d * i + d * w BY <1>1
  <1>3. d * i \in Nat /\ d * w \in Nat BY <1>1
  <1>4. i < j => d <= d * w
    <2> SUFFICES ASSUME i < j PROVE d <= d * w OBVIOUS
    <2>1. PICK v \in Nat : w = v + 1
      <3>1. w - 1 \in Nat /\ w = (w - 1) + 1 BY <1>1
      <3>2. QED BY <3>1
    <2>2. d * w = d * v + d /\ d * v \in Nat BY <2>1
    <2>3. QED BY <2>2
  <1>5. QED BY <1>2, <1>3, <1>4

LEMMA HintDistance ==
  ASSUME NEW n \in Page, Count(n) > HintCount * 2
  PROVE  /\ HintDist(n) \in Nat \ {0}
         /\ \A i \in 0..(HintCount + 1) : HintDist(n) * i \in 0..Count(n)
         /\ \A i \in 0..(HintCount - 1) : HintDist(n) * (i + 1) \in SlotsOf(n)
  <1>1. Count(n) \in Nat /\ HintCount \in Nat \ {0} BY PageFacts, SearchAssumption
  <1> DEFINE d == HintDist(n)
             e == HintCount + 1
             c == Count(n)
  <1>2. d \in Nat /\ e * d <= c /\ c < e * d + e
    <2>1. e \in Nat \ {0} BY <1>1
    <2>2. QED BY <1>1, <2>1, DivFacts DEF HintDist
  <1>3. c > HintCount * 2 /\ e \in Nat /\ c \in Nat BY <1>1
  <1> HIDE DEF d, c
  <1>4. d # 0
    <2> SUFFICES ASSUME d = 0 PROVE FALSE OBVIOUS
    <2>1. e * d = 0 BY <1>3
    <2>2. QED BY <1>1, <1>2, <1>3, <2>1
  <1>5. ASSUME NEW i \in 0..e PROVE d * i \in 0..c
    <2>1. d * i \in Nat /\ d * i <= d * e BY <1>1, <1>2, ProductOrder
    <2>2. d * e = e * d BY <1>2, <1>3
    <2>3. QED BY <1>2, <1>3, <2>1, <2>2
  <1>6. ASSUME NEW i \in 0..(HintCount - 1) PROVE d * (i + 1) \in 0..(c - 1)
    <2>1. d * (i + 1) \in Nat /\ d * (i + 1) + d <= d * e BY <1>1, <1>2, ProductOrder
    <2>2. d * e = e * d BY <1>2, <1>3
    <2>3. QED BY <1>2, <1>3, <1>4, <2>1, <2>2
  <1>7. QED BY <1>2, <1>4, <1>5, <1>6 DEF d, c, SlotsOf

LEMMA HeadsAscend ==
  ASSUME NEW n \in Page, Sorted(n), NEW i \in SlotsOf(n), NEW j \in SlotsOf(n), i <= j
  PROVE  HeadAt(n, i) \in Nat /\ HeadAt(n, j) \in Nat /\ HeadAt(n, i) <= HeadAt(n, j)
  <1>1. /\ i \in Nat /\ j \in Nat /\ i < Count(n) /\ j < Count(n)
        /\ Slot(n, i).key \in Words /\ Slot(n, j).key \in Words
    BY SlotOfPage
  <1>2. HeadAt(n, i) = HeadOf(Slot(n, i).key) /\ HeadAt(n, j) = HeadOf(Slot(n, j).key)
    BY <1>1 DEF HeadAt
  <1>3. HeadAt(n, i) \in Nat /\ HeadAt(n, j) \in Nat BY <1>1, <1>2, HeadType
  <1>4. CASE i = j BY <1>3, <1>4
  <1>5. CASE i < j BY <1>1, <1>2, <1>3, <1>5, SlotsAscend, HeadMonotone
  <1>6. QED BY <1>1, <1>4, <1>5

\* Slots to search: those before are below r, those behind above.
RangeFor(n, r, lo, hi) ==
  /\ lo \in 0..Count(n) /\ hi \in 0..Count(n) /\ lo <= hi
  /\ \A i \in SlotsOf(n) : i < lo => Less(Slot(n, i).key, r)
  /\ \A i \in SlotsOf(n) : i >= hi => Less(r, Slot(n, i).key)

LEMMA HintsBound ==
  ASSUME NEW n \in Page, Sorted(n), HintsRight(n), NEW r \in Words
  PROVE  \E lo, hi : SearchHint(n, HeadOf(r)) = <<lo, hi>> /\ RangeFor(n, r, lo, hi)
  <1>1. Count(n) \in Nat /\ HintCount \in Nat \ {0} /\ n.hints \in [0..(HintCount - 1) -> Nat]
    BY PageFacts, SearchAssumption
  <1>2. CASE Count(n) <= HintCount * 2
    <2>1. SearchHint(n, HeadOf(r)) = <<0, Count(n)>> BY <1>2 DEF SearchHint
    <2>2. RangeFor(n, r, 0, Count(n)) BY <1>1 DEF RangeFor, SlotsOf
    <2>3. QED BY <2>1, <2>2
  <1>3. CASE Count(n) > HintCount * 2
    <2> DEFINE d == HintDist(n)
               head == HeadOf(r)
               S1 == {i \in 0..HintCount : i = HintCount \/ n.hints[i] >= head}
               pos == Min(S1)
               S2 == {i \in pos..HintCount : i = HintCount \/ n.hints[i] # head}
               pos2 == Min(S2)
               hi == IF pos2 < HintCount THEN (pos2 + 1) * d ELSE Count(n)
    <2>1. SearchHint(n, head) = <<pos * d, hi>> BY <1>1, <1>3 DEF SearchHint
    <2>2. /\ d \in Nat \ {0}
          /\ \A i \in 0..(HintCount + 1) : d * i \in 0..Count(n)
          /\ \A i \in 0..(HintCount - 1) : d * (i + 1) \in SlotsOf(n)
      BY <1>3, HintDistance
    <2>3. \A i \in 0..(HintCount - 1) : n.hints[i] = HeadAt(n, d * (i + 1)) /\ n.hints[i] \in Nat
      BY <1>1 DEF HintsRight
    <2>4. head \in Nat BY HeadType
    <2> HIDE DEF d, head
    <2>5. pos \in S1 /\ \A i \in S1 : pos <= i
      <3>1. S1 \subseteq Nat /\ HintCount \in S1 BY <1>1
      <3> HIDE DEF S1
      <3>2. QED BY <3>1, MinIsLeast
    <2>6. pos \in 0..HintCount /\ \A i \in 0..(HintCount - 1) : i < pos => n.hints[i] < head
      <3>1. pos \in 0..HintCount BY <2>5
      <3>2. ASSUME NEW i \in 0..(HintCount - 1), i < pos PROVE n.hints[i] < head
        <4>1. i \notin S1 BY <1>1, <2>5, <3>1, <3>2
        <4>2. QED BY <1>1, <2>3, <2>4, <4>1
      <3>3. QED BY <3>1, <3>2
    <2>7. pos < HintCount => n.hints[pos] >= head BY <2>5
    <2> HIDE DEF pos
    <2>8. pos2 \in S2
      <3>1. S2 \subseteq Nat /\ HintCount \in S2 BY <1>1, <2>6
      <3> HIDE DEF S2
      <3>2. QED BY <3>1, MinIsLeast
    <2>9. pos2 \in pos..HintCount /\ (pos2 < HintCount => n.hints[pos2] # head) BY <2>8
    <2> HIDE DEF pos2
    <2>10. pos2 < HintCount => head < n.hints[pos2]
      <3> SUFFICES ASSUME pos2 < HintCount PROVE head < n.hints[pos2] OBVIOUS
      <3>1. pos \in 0..(HintCount - 1) /\ pos2 \in 0..(HintCount - 1) /\ pos <= pos2
        BY <1>1, <2>6, <2>9
      <3>2. n.hints[pos] = HeadAt(n, d * (pos + 1)) /\ n.hints[pos2] = HeadAt(n, d * (pos2 + 1))
        BY <2>3, <3>1
      <3>3. d * (pos + 1) \in SlotsOf(n) /\ d * (pos2 + 1) \in SlotsOf(n) BY <2>2, <3>1
      <3>4. d * (pos + 1) <= d * (pos2 + 1) BY <1>1, <2>2, <3>1, ProductOrder
      <3>5. n.hints[pos] <= n.hints[pos2] BY <3>2, <3>3, <3>4, HeadsAscend
      <3>6. n.hints[pos] \in Nat /\ n.hints[pos2] \in Nat BY <2>3, <3>1
      <3>7. QED BY <1>1, <2>4, <2>7, <2>9, <3>1, <3>5, <3>6
    <2>11. pos * d = d * pos /\ d * pos \in 0..Count(n)
      <3>1. pos \in 0..(HintCount + 1) /\ pos \in Nat BY <1>1, <2>6
      <3>2. pos * d = d * pos BY <2>2, <3>1
      <3>3. QED BY <2>2, <3>1, <3>2
    <2>12. ASSUME NEW i \in SlotsOf(n), i < pos * d PROVE Less(Slot(n, i).key, r)
      <3>1. pos > 0 /\ pos - 1 \in 0..(HintCount - 1) /\ (pos - 1) + 1 = pos
        <4>1. pos # 0
          <5> SUFFICES ASSUME pos = 0 PROVE FALSE OBVIOUS
          <5>1. pos * d = 0 BY <2>2
          <5>2. QED BY <2>12, <5>1, SlotOfPage
        <4>2. QED BY <1>1, <2>6, <4>1
      <3>2. n.hints[pos - 1] = HeadAt(n, d * pos) /\ n.hints[pos - 1] < head
        <4>1. n.hints[pos - 1] = HeadAt(n, d * ((pos - 1) + 1)) BY <2>3, <3>1
        <4>2. pos - 1 < pos BY <3>1
        <4>3. QED BY <2>6, <3>1, <4>1, <4>2
      <3>3. d * pos \in SlotsOf(n)
        <4>1. d * ((pos - 1) + 1) \in SlotsOf(n) BY <2>2, <3>1
        <4>2. QED BY <3>1, <4>1
      <3>4. i <= d * pos /\ i \in Nat /\ i < Count(n) BY <2>11, <2>12, SlotOfPage
      <3>5. /\ HeadAt(n, i) <= HeadAt(n, d * pos)
            /\ HeadAt(n, i) \in Nat /\ HeadAt(n, d * pos) \in Nat
        BY <3>3, <3>4, HeadsAscend
      <3>6. HeadAt(n, i) = HeadOf(Slot(n, i).key) BY <3>4 DEF HeadAt
      <3>7. HeadOf(Slot(n, i).key) < HeadOf(r) BY <2>4, <3>2, <3>5, <3>6 DEF head
      <3>8. QED BY <3>7, SlotOfPage, HeadLess
    <2>13. CASE pos2 = HintCount
      <3>1. hi = Count(n) BY <1>1, <2>13
      <3>2. RangeFor(n, r, pos * d, hi) BY <1>1, <2>11, <2>12, <3>1 DEF RangeFor, SlotsOf
      <3>3. QED BY <2>1, <3>2 DEF head
    <2>14. CASE pos2 < HintCount
      <3>1. pos2 \in 0..(HintCount - 1) /\ pos <= pos2 /\ pos \in Nat BY <1>1, <2>6, <2>9, <2>14
      <3>2. hi = d * (pos2 + 1) /\ hi \in SlotsOf(n)
        <4>1. hi = (pos2 + 1) * d BY <2>14
        <4>2. (pos2 + 1) * d = d * (pos2 + 1) BY <2>2, <3>1
        <4>3. QED BY <2>2, <3>1, <4>1, <4>2
      <3>3. d * pos <= d * (pos2 + 1) BY <2>2, <3>1, ProductOrder
      <3>4. ASSUME NEW i \in SlotsOf(n), i >= hi PROVE Less(r, Slot(n, i).key)
        <4>1. head < HeadAt(n, hi) BY <2>3, <2>10, <2>14, <3>1, <3>2
        <4>2. /\ HeadAt(n, hi) <= HeadAt(n, i)
              /\ HeadAt(n, i) \in Nat /\ HeadAt(n, hi) \in Nat
          BY <3>2, <3>4, HeadsAscend, SlotOfPage
        <4>3. HeadAt(n, i) = HeadOf(Slot(n, i).key) BY SlotOfPage DEF HeadAt
        <4>4. HeadOf(r) < HeadOf(Slot(n, i).key) BY <2>4, <4>1, <4>2, <4>3 DEF head
        <4>5. QED BY <4>4, SlotOfPage, HeadLess
      <3>5. hi \in 0..Count(n) /\ pos * d <= hi BY <1>1, <2>11, <3>2, <3>3 DEF SlotsOf
      <3> HIDE DEF hi
      <3>6. RangeFor(n, r, pos * d, hi) BY <2>11, <2>12, <3>4, <3>5 DEF RangeFor
      <3>7. QED BY <2>1, <3>6 DEF head
    <2>15. QED BY <1>1, <2>9, <2>13, <2>14
  <1>4. QED BY <1>1, <1>2, <1>3

\* What the search returns: the first slot that is not less than r, and whether it is r.
Found(n, r, v) ==
  /\ v[1] \in 0..Count(n) /\ v[2] \in BOOLEAN /\ v = <<v[1], v[2]>>
  /\ \A i \in SlotsOf(n) : i < v[1] <=> Less(Slot(n, i).key, r)
  /\ v[2] <=> (v[1] \in SlotsOf(n) /\ Slot(n, v[1]).key = r)

\* The ranges of slots, and one step of the search.
RangesOf(n) == (0..Count(n)) \X (0..Count(n))
GoesLeft(r, at) == HeadOf(r) < HeadOf(at) \/ (HeadOf(r) = HeadOf(at) /\ Less(r, at))
Middle(lo, hi) == (hi - lo) \div 2 + lo
Searched(f, n, r, range) ==
  LET lo == range[1]  hi == range[2]
      mid == Middle(lo, hi)
      at == Slot(n, mid).key
  IN IF lo >= hi THEN <<lo, FALSE>>
     ELSE IF GoesLeft(r, at) THEN f[<<lo, mid>>]
     ELSE IF r # at THEN f[<<mid + 1, hi>>]
     ELSE <<mid, TRUE>>
Searches(f, n, r) == f = [range \in RangesOf(n) |-> Searched(f, n, r, range)]

LEMMA MiddleBetween ==
  ASSUME NEW lo \in Nat, NEW hi \in Nat, lo < hi
  PROVE  Middle(lo, hi) \in Nat /\ lo <= Middle(lo, hi) /\ Middle(lo, hi) < hi
  BY DEF Middle

LEMMA SearchIsChosen ==
  ASSUME NEW n, NEW r
  PROVE  SearchSlots(n, r) = (CHOOSE f : Searches(f, n, r))[SearchHint(n, HeadOf(r))]
  BY DEF SearchSlots, Searches, Searched, RangesOf, Middle, GoesLeft

LEMMA RangeFacts ==
  ASSUME NEW n \in Page, NEW x \in RangesOf(n)
  PROVE  x[1] \in Nat /\ x[2] \in Nat /\ x[1] <= Count(n) /\ x[2] <= Count(n)
  BY PageFacts DEF RangesOf

LEMMA HalfFacts ==
  ASSUME NEW n \in Page, NEW x \in RangesOf(n), x[1] < x[2]
  PROVE  LET m == Middle(x[1], x[2])
         IN /\ m \in Nat /\ m < Count(n) /\ x[1] <= m /\ m < x[2]
            /\ <<x[1], m>> \in RangesOf(n) /\ <<m + 1, x[2]>> \in RangesOf(n)
  <1> DEFINE m == Middle(x[1], x[2])
  <1>1. x[1] \in Nat /\ x[2] \in Nat /\ x[2] <= Count(n) /\ Count(n) \in Nat BY RangeFacts, PageFacts
  <1>2. m \in Nat /\ x[1] <= m /\ m < x[2] BY <1>1, MiddleBetween
  <1> HIDE DEF m
  <1>3. x[1] \in 0..Count(n) /\ x[2] \in 0..Count(n) /\ m \in 0..Count(n) /\ m + 1 \in 0..Count(n)
    BY <1>1, <1>2
  <1>4. <<x[1], m>> \in RangesOf(n) /\ <<m + 1, x[2]>> \in RangesOf(n) BY <1>3 DEF RangesOf
  <1>5. QED BY <1>1, <1>2, <1>4 DEF m

\* A step of the search stops, or goes on in one of the halves.
LEMMA SearchedCases ==
  ASSUME NEW n \in Page, NEW r, NEW x \in RangesOf(n), NEW f
  PROVE  LET m == Middle(x[1], x[2])
         IN /\ x[1] >= x[2] => Searched(f, n, r, x) = <<x[1], FALSE>>
            /\ x[1] < x[2] => Searched(f, n, r, x) \in {f[<<x[1], m>>], f[<<m + 1, x[2]>>], <<m, TRUE>>}
  <1>1. x[1] \in Nat /\ x[2] \in Nat BY RangeFacts
  <1>2. ASSUME x[1] >= x[2] PROVE Searched(f, n, r, x) = <<x[1], FALSE>> BY <1>2 DEF Searched
  <1>3. ASSUME x[1] < x[2]
        PROVE  Searched(f, n, r, x) \in {f[<<x[1], Middle(x[1], x[2])>>],
                                         f[<<Middle(x[1], x[2]) + 1, x[2]>>],
                                         <<Middle(x[1], x[2]), TRUE>>}
    <2>1. ~(x[1] >= x[2]) BY <1>1, <1>3
    <2>2. QED BY <2>1 DEF Searched
  <1>4. QED BY <1>2, <1>3

\* A step depends on the halves only.
LEMMA SearchedSame ==
  ASSUME NEW n \in Page, NEW r, NEW x \in RangesOf(n), NEW f, NEW g,
         LET m == Middle(x[1], x[2])
         IN x[1] < x[2] => f[<<x[1], m>>] = g[<<x[1], m>>] /\ f[<<m + 1, x[2]>>] = g[<<m + 1, x[2]>>]
  PROVE  Searched(f, n, r, x) = Searched(g, n, r, x)
  <1>1. x[1] \in Nat /\ x[2] \in Nat BY RangeFacts
  <1>2. CASE x[1] >= x[2] BY <1>2 DEF Searched
  <1>3. CASE x[1] < x[2]
    <2>1. ~(x[1] >= x[2]) BY <1>1, <1>3
    <2>2. QED BY <1>3, <2>1 DEF Searched
  <1>4. QED BY <1>1, <1>2, <1>3

LEMMA SearchExists ==
  ASSUME NEW n \in Page, NEW r \in Words
  PROVE  \E f : Searches(f, n, r)
  <1> DEFINE C == Count(n)
             D == RangesOf(n)
             V == (0..C) \X BOOLEAN
             Good(f, d) == \A x \in D : x[2] - x[1] <= d => f[x] = Searched(f, n, r, x)
             T == {d \in 0..C : \E f \in [D -> V] : Good(f, d)}
  <1>1. C \in Nat BY PageFacts
  <1>2. \A x \in D : x[1] \in Nat /\ x[2] \in Nat /\ x[1] <= C /\ x[2] <= C BY RangeFacts
  <1>3. ASSUME NEW f \in [D -> V], NEW x \in D PROVE Searched(f, n, r, x) \in V
    <2>1. CASE x[1] >= x[2]
      <3>1. Searched(f, n, r, x) = <<x[1], FALSE>> BY <2>1, SearchedCases
      <3>2. x[1] \in 0..C BY <1>1, <1>2
      <3>3. <<x[1], FALSE>> \in V BY <3>2
      <3>4. QED BY <3>1, <3>3
    <2>2. CASE x[1] < x[2]
      <3> DEFINE m == Middle(x[1], x[2])
                 y == <<x[1], m>>
                 z == <<m + 1, x[2]>>
      <3>1. m \in Nat /\ m < C /\ y \in D /\ z \in D BY <2>2, HalfFacts
      <3>2. Searched(f, n, r, x) \in {f[y], f[z], <<m, TRUE>>} BY <2>2, SearchedCases
      <3>3. m \in 0..C BY <1>1, <3>1
      <3>4. <<m, TRUE>> \in V BY <3>3
      <3> HIDE DEF y, z, m, D, V
      <3>5. f[y] \in V /\ f[z] \in V BY <3>1
      <3>6. QED BY <3>2, <3>4, <3>5
    <2>3. QED BY <1>2, <2>1, <2>2
  <1>4. 0 \in T
    <2> DEFINE f == [x \in D |-> <<x[1], FALSE>>]
    <2>1. ASSUME NEW x \in D PROVE <<x[1], FALSE>> \in V
      <3>1. x[1] \in 0..C BY <1>1, <1>2
      <3>2. QED BY <3>1
    <2> HIDE DEF V, D
    <2>2. f \in [D -> V] BY <2>1
    <2>3. ASSUME NEW x \in D, x[2] - x[1] <= 0 PROVE f[x] = Searched(f, n, r, x)
      <3>1. x[1] >= x[2] BY <1>2, <2>3
      <3>2. f[x] = <<x[1], FALSE>> OBVIOUS
      <3> HIDE DEF f
      <3>3. QED BY <3>1, <3>2, SearchedCases DEF D
    <2>4. Good(f, 0) BY <2>3
    <2> HIDE DEF f, Good
    <2>5. QED BY <1>1, <2>2, <2>4
  <1>5. ASSUME NEW d \in 0..(C - 1), d \in T PROVE d + 1 \in T
    <2>1. PICK f \in [D -> V] : Good(f, d) BY <1>5
    <2> DEFINE g == [x \in D |-> IF x[2] - x[1] <= d THEN f[x] ELSE Searched(f, n, r, x)]
    <2> HIDE DEF D, V
    <2>2. g \in [D -> V] BY <1>3
    <2>3. \A x \in D : g[x] = IF x[2] - x[1] <= d THEN f[x] ELSE Searched(f, n, r, x) OBVIOUS
    <2> HIDE DEF g
    <2>4. ASSUME NEW x \in D PROVE g[x] = Searched(f, n, r, x)
      <3>1. CASE x[2] - x[1] <= d BY <2>1, <2>3, <3>1
      <3>2. CASE ~(x[2] - x[1] <= d) BY <2>3, <3>2
      <3>3. QED BY <3>1, <3>2
    <2>5. ASSUME NEW x \in D, x[2] - x[1] <= d + 1 PROVE Searched(g, n, r, x) = Searched(f, n, r, x)
      <3> DEFINE m == Middle(x[1], x[2])
                 y == <<x[1], m>>
                 z == <<m + 1, x[2]>>
      <3>1. ASSUME x[1] < x[2] PROVE g[y] = f[y] /\ g[z] = f[z]
        <4>1. m \in Nat /\ m < C /\ x[1] <= m /\ m < x[2] /\ y \in D /\ z \in D
          BY <3>1, HalfFacts DEF D
        <4>2. y[1] = x[1] /\ y[2] = m /\ z[1] = m + 1 /\ z[2] = x[2] OBVIOUS
        <4> HIDE DEF m, y, z
        <4>3. y[2] - y[1] <= d /\ z[2] - z[1] <= d BY <1>1, <1>2, <2>5, <4>1, <4>2
        <4>4. QED BY <2>3, <4>1, <4>3
      <3>2. QED BY <3>1, SearchedSame DEF D
    <2>6. Good(g, d + 1) BY <2>4, <2>5
    <2>7. d + 1 \in 0..C BY <1>1
    <2> HIDE DEF Good
    <2>8. QED BY <2>2, <2>6, <2>7
  <1>6. 0..C \subseteq T
    <2> HIDE DEF T
    <2>1. QED BY <1>1, <1>4, <1>5, BoundedInduction
  <1>7. C \in T BY <1>1, <1>6
  <1>8. PICK f \in [D -> V] : Good(f, C) BY <1>7
  <1>9. ASSUME NEW x \in D PROVE f[x] = Searched(f, n, r, x)
    <2>1. x[2] - x[1] <= C BY <1>1, <1>2
    <2> HIDE DEF D
    <2>2. QED BY <1>8, <2>1
  <1>10. f = [x \in D |-> Searched(f, n, r, x)]
    <2> HIDE DEF D, V
    <2>1. QED BY <1>9
  <1>11. Searches(f, n, r) BY <1>10 DEF Searches
  <1>12. QED BY <1>11

\* The answer between lo and hi where lo has reached hi, or where r is found.
LEMMA FoundWhereMet ==
  ASSUME NEW n \in Page, NEW r \in Words, NEW lo, RangeFor(n, r, lo, lo)
  PROVE  Found(n, r, <<lo, FALSE>>)
  <1>1. \A i \in SlotsOf(n) : i \in Nat /\ Slot(n, i).key \in Words BY SlotOfPage
  <1>2. lo \in 0..Count(n) /\ lo \in Nat BY PageFacts DEF RangeFor
  <1>3. ASSUME NEW i \in SlotsOf(n) PROVE i < lo <=> Less(Slot(n, i).key, r)
    <2>1. CASE i < lo BY <2>1 DEF RangeFor
    <2>2. CASE i >= lo
      <3>1. Less(r, Slot(n, i).key) BY <2>2 DEF RangeFor
      <3>2. QED BY <1>1, <1>2, <2>2, <3>1, LessAsymmetric
    <2>3. QED BY <1>1, <1>2, <2>1, <2>2
  <1>4. ASSUME lo \in SlotsOf(n), Slot(n, lo).key = r PROVE FALSE
    <2>1. Less(r, Slot(n, lo).key) BY <1>2, <1>4 DEF RangeFor
    <2>2. QED BY <1>4, <2>1, LessIrreflexive
  <1> DEFINE v == <<lo, FALSE>>
  <1>5. v[1] = lo /\ v[2] = FALSE /\ v = <<v[1], v[2]>> OBVIOUS
  <1> HIDE DEF v
  <1>6. Found(n, r, v) BY <1>2, <1>3, <1>4, <1>5 DEF Found
  <1>7. QED BY <1>6 DEF v

LEMMA FoundWhereEqual ==
  ASSUME NEW n \in Page, Sorted(n), NEW mid \in SlotsOf(n)
  PROVE  Found(n, Slot(n, mid).key, <<mid, TRUE>>)
  <1>1. \A i \in SlotsOf(n) : i \in Nat /\ Slot(n, i).key \in Words /\ i \in 0..Count(n)
    BY PageFacts, SlotOfPage DEF SlotsOf
  <1>2. ASSUME NEW i \in SlotsOf(n) PROVE i < mid <=> Less(Slot(n, i).key, Slot(n, mid).key)
    <2>1. CASE i < mid BY <2>1, SlotsAscend
    <2>2. CASE i = mid BY <1>1, <2>2, LessIrreflexive
    <2>3. CASE mid < i
      <3>1. Less(Slot(n, mid).key, Slot(n, i).key) BY <2>3, SlotsAscend
      <3>2. QED BY <1>1, <2>3, <3>1, LessAsymmetric
    <2>4. QED BY <1>1, <2>1, <2>2, <2>3
  <1> DEFINE v == <<mid, TRUE>>
  <1>3. v[1] = mid /\ v[2] = TRUE /\ v = <<v[1], v[2]>> OBVIOUS
  <1> HIDE DEF v
  <1>4. Found(n, Slot(n, mid).key, v) BY <1>1, <1>2, <1>3 DEF Found
  <1>5. QED BY <1>4 DEF v

\* A half holds the answer if the whole does.
LEMMA HalfHolds ==
  ASSUME NEW n \in Page, Sorted(n), NEW r \in Words, NEW lo, NEW hi, RangeFor(n, r, lo, hi),
         NEW mid \in Nat, lo <= mid, mid < hi
  PROVE  /\ mid \in SlotsOf(n)
         /\ Less(r, Slot(n, mid).key) => RangeFor(n, r, lo, mid)
         /\ Less(Slot(n, mid).key, r) => RangeFor(n, r, mid + 1, hi)
  <1>1. /\ Count(n) \in Nat /\ lo \in 0..Count(n) /\ hi \in 0..Count(n)
        /\ mid \in 0..Count(n) /\ mid + 1 \in 0..Count(n)
    BY PageFacts DEF RangeFor
  <1>2. mid \in SlotsOf(n) BY <1>1 DEF SlotsOf
  <1>3. \A i \in SlotsOf(n) : i \in Nat /\ Slot(n, i).key \in Words BY SlotOfPage
  <1>4. ASSUME Less(r, Slot(n, mid).key), NEW i \in SlotsOf(n), i >= mid PROVE Less(r, Slot(n, i).key)
    <2>1. CASE i = mid BY <1>4, <2>1
    <2>2. CASE mid < i
      <3>1. Less(Slot(n, mid).key, Slot(n, i).key) BY <1>2, <2>2, SlotsAscend
      <3>2. QED BY <1>2, <1>3, <1>4, <3>1, LessTransitive
    <2>3. QED BY <1>3, <1>4, <2>1, <2>2
  <1>5. ASSUME Less(Slot(n, mid).key, r), NEW i \in SlotsOf(n), i < mid + 1 PROVE Less(Slot(n, i).key, r)
    <2>1. CASE i = mid BY <1>5, <2>1
    <2>2. CASE i < mid
      <3>1. Less(Slot(n, i).key, Slot(n, mid).key) BY <1>2, <2>2, SlotsAscend
      <3>2. QED BY <1>2, <1>3, <1>5, <3>1, LessTransitive
    <2>3. QED BY <1>3, <1>5, <2>1, <2>2
  <1>6. Less(r, Slot(n, mid).key) => RangeFor(n, r, lo, mid)
    BY <1>1, <1>4 DEF RangeFor
  <1>7. Less(Slot(n, mid).key, r) => RangeFor(n, r, mid + 1, hi)
    BY <1>1, <1>5 DEF RangeFor
  <1>8. QED BY <1>2, <1>6, <1>7

LEMMA SearchIsRight ==
  ASSUME NEW n \in Page, Sorted(n), NEW r \in Words, NEW f, Searches(f, n, r),
         NEW lo, NEW hi, RangeFor(n, r, lo, hi)
  PROVE  Found(n, r, f[<<lo, hi>>])
  <1> DEFINE C == Count(n)
             Right(x) == RangeFor(n, r, x[1], x[2]) => Found(n, r, f[x])
             T == {d \in 0..C : \A x \in RangesOf(n) : x[2] - x[1] <= d => Right(x)}
  <1>1. C \in Nat BY PageFacts
  <1>2. \A x \in RangesOf(n) : x[1] \in Nat /\ x[2] \in Nat /\ x[1] <= C /\ x[2] <= C BY RangeFacts
  <1>3. \A x \in RangesOf(n) : f[x] = Searched(f, n, r, x) BY DEF Searches
  <1>4. ASSUME NEW x \in RangesOf(n), x[1] >= x[2] PROVE Right(x)
    <2> SUFFICES ASSUME RangeFor(n, r, x[1], x[2]) PROVE Found(n, r, f[x]) OBVIOUS
    <2>1. x[1] = x[2] BY <1>2, <1>4 DEF RangeFor
    <2>2. f[x] = <<x[1], FALSE>>
      <3>1. f[x] = Searched(f, n, r, x) BY <1>3, <1>4
      <3>2. Searched(f, n, r, x) = <<x[1], FALSE>> BY <1>4, SearchedCases
      <3>3. QED BY <3>1, <3>2
    <2>3. Found(n, r, <<x[1], FALSE>>) BY <2>1, FoundWhereMet
    <2>4. QED BY <2>2, <2>3
  <1>5. 0 \in T
    <2>1. ASSUME NEW x \in RangesOf(n), x[2] - x[1] <= 0 PROVE x[1] >= x[2] BY <1>2, <2>1
    <2> HIDE DEF Right
    <2>2. QED BY <1>1, <1>4, <2>1
  <1>6. ASSUME NEW d \in 0..(C - 1), d \in T PROVE d + 1 \in T
    <2> SUFFICES ASSUME NEW x \in RangesOf(n), x[2] - x[1] <= d + 1 PROVE Right(x)
      <3> HIDE DEF Right
      <3>1. d + 1 \in 0..C BY <1>1
      <3>2. QED BY <3>1
    <2>1. CASE x[1] >= x[2] BY <1>4, <2>1
    <2>2. CASE x[1] < x[2]
      <3> SUFFICES ASSUME RangeFor(n, r, x[1], x[2]) PROVE Found(n, r, f[x]) OBVIOUS
      <3> DEFINE m == Middle(x[1], x[2])
                 y == <<x[1], m>>
                 z == <<m + 1, x[2]>>
                 at == Slot(n, m).key
      <3>1. m \in Nat /\ x[1] <= m /\ m < x[2] /\ y \in RangesOf(n) /\ z \in RangesOf(n)
        BY <2>2, HalfFacts
      <3>2. /\ m \in SlotsOf(n)
            /\ Less(r, at) => RangeFor(n, r, x[1], m)
            /\ Less(at, r) => RangeFor(n, r, m + 1, x[2])
        BY <3>1, HalfHolds
      <3>3. y[1] = x[1] /\ y[2] = m /\ z[1] = m + 1 /\ z[2] = x[2] OBVIOUS
      <3>4. ~(x[1] >= x[2]) BY <1>2, <2>2
      <3>5. /\ GoesLeft(r, at) => f[x] = f[y]
            /\ ~GoesLeft(r, at) /\ r # at => f[x] = f[z]
            /\ ~GoesLeft(r, at) /\ r = at => f[x] = <<m, TRUE>>
        <4>1. f[x] = Searched(f, n, r, x) BY <1>3
        <4>2. f[x] = IF GoesLeft(r, at) THEN f[y] ELSE IF r # at THEN f[z] ELSE <<m, TRUE>>
          BY <3>4, <4>1 DEF Searched
        <4> HIDE DEF m, y, z, at
        <4>3. QED BY <4>2
      <3>6. at \in Words BY <3>2, SlotOfPage
      <3>7. Found(n, at, <<m, TRUE>>) BY <3>2, FoundWhereEqual
      <3> HIDE DEF m, y, z, at
      <3>8. y[2] - y[1] <= d /\ z[2] - z[1] <= d BY <1>1, <1>2, <3>1, <3>3
      <3>9. Right(y) /\ Right(z)
        <4> HIDE DEF Right
        <4>1. QED BY <1>6, <3>1, <3>8
      <3>10. HeadOf(r) \in Nat /\ HeadOf(at) \in Nat BY <3>6, HeadType
      <3>11. CASE GoesLeft(r, at)
        <4>1. Less(r, at) BY <3>6, <3>11, HeadLess DEF GoesLeft
        <4>2. QED BY <3>2, <3>3, <3>5, <3>9, <3>11, <4>1
      <3>12. CASE ~GoesLeft(r, at) /\ r # at
        <4>1. Less(at, r)
          <5>1. CASE HeadOf(at) < HeadOf(r) BY <3>6, <5>1, HeadLess
          <5>2. CASE HeadOf(at) = HeadOf(r) BY <3>6, <3>12, <5>2, LessTotal DEF GoesLeft
          <5>3. ~(HeadOf(r) < HeadOf(at)) BY <3>12 DEF GoesLeft
          <5>4. HeadOf(at) < HeadOf(r) \/ HeadOf(at) = HeadOf(r) BY <3>10, <5>3
          <5>5. QED BY <5>1, <5>2, <5>4
        <4>2. QED BY <3>2, <3>3, <3>5, <3>9, <3>12, <4>1
      <3>13. CASE ~GoesLeft(r, at) /\ r = at BY <3>5, <3>7, <3>13
      <3>14. QED BY <3>11, <3>12, <3>13
    <2>3. QED BY <1>2, <2>1, <2>2
  <1>7. 0..C \subseteq T
    <2> HIDE DEF T
    <2>1. QED BY <1>1, <1>5, <1>6, BoundedInduction
  <1>8. C \in T BY <1>1, <1>7
  <1> DEFINE x == <<lo, hi>>
  <1>9. x \in RangesOf(n) /\ x[1] = lo /\ x[2] = hi BY DEF RangesOf, RangeFor
  <1> HIDE DEF x
  <1>10. x[2] - x[1] <= C BY <1>1, <1>2, <1>9
  <1>11. Right(x)
    <2> HIDE DEF Right
    <2>1. QED BY <1>8, <1>9, <1>10
  <1>12. QED BY <1>9, <1>11 DEF x

\* The position of a key in a page, and whether it is there.
IsLowerBound(n, k, v) ==
  /\ v[1] \in 0..Count(n) /\ v[2] \in BOOLEAN /\ v = <<v[1], v[2]>>
  /\ \A i \in SlotsOf(n) : i < v[1] <=> Less(FullKey(n, i), k)
  /\ v[2] <=> (v[1] \in SlotsOf(n) /\ FullKey(n, v[1]) = k)

\* The search with hints and heads finds the first key that is not less, in any page whose
\* slots ascend and whose hints are the heads they stand for, and for any key.
THEOREM LowerBoundIsRight ==
  ASSUME NEW n \in Page, Sorted(n), HintsRight(n), NEW k \in Words
  PROVE  IsLowerBound(n, k, LowerBound(n, k))
  <1>1. Prefix(n) \in Words /\ Count(n) \in Nat BY PrefixFacts, PageFacts
  <1>2. \A i \in SlotsOf(n) : /\ i \in Nat /\ i < Count(n) /\ Slot(n, i).key \in Words
                              /\ FullKey(n, i) = Prefix(n) \o Slot(n, i).key /\ FullKey(n, i) \in Words
    BY SlotOfPage
  <1>3. CASE IsPrefix(Prefix(n), k)
    <2> DEFINE r == Rest(n, k)
               f == CHOOSE g : Searches(g, n, r)
    <2>1. r \in Words BY <1>3, RestOfKey
    <2>2. LowerBound(n, k) = SearchSlots(n, r) BY <1>3 DEF LowerBound, Prefix
    <2>3. SearchSlots(n, r) = f[SearchHint(n, HeadOf(r))] BY SearchIsChosen
    <2>4. PICK lo, hi : SearchHint(n, HeadOf(r)) = <<lo, hi>> /\ RangeFor(n, r, lo, hi)
      BY <2>1, HintsBound
    <2>5. Searches(f, n, r)
      <3>1. \E g : Searches(g, n, r) BY <2>1, SearchExists
      <3>2. QED BY <3>1
    <2> HIDE DEF f
    <2>6. Found(n, r, LowerBound(n, k)) BY <2>1, <2>2, <2>3, <2>4, <2>5, SearchIsRight
    <2>7. \A i \in SlotsOf(n) : /\ Less(Slot(n, i).key, r) <=> Less(FullKey(n, i), k)
                                /\ Slot(n, i).key = r <=> FullKey(n, i) = k
      BY <1>3, SlotOrder
    <2> HIDE DEF r
    <2>8. QED BY <2>6, <2>7 DEF Found, IsLowerBound
  <1>4. CASE ~IsPrefix(Prefix(n), k) /\ Less(k, Prefix(n))
    <2> DEFINE v == <<0, FALSE>>
    <2>1. LowerBound(n, k) = v BY <1>4 DEF LowerBound, Prefix
    <2>2. \A i \in SlotsOf(n) : Less(k, FullKey(n, i)) BY <1>1, <1>2, <1>4, OutsidePrefix
    <2>3. \A i \in SlotsOf(n) : ~Less(FullKey(n, i), k) /\ FullKey(n, i) # k
      BY <1>2, <2>2, LessAsymmetric
    <2>4. v[1] = 0 /\ v[2] = FALSE /\ v = <<v[1], v[2]>> OBVIOUS
    <2> HIDE DEF v
    <2>5. \A i \in SlotsOf(n) : ~(i < v[1]) BY <1>2, <2>4
    <2>6. v[1] \in 0..Count(n) BY <1>1, <2>4
    <2>7. IsLowerBound(n, k, v) BY <2>3, <2>4, <2>5, <2>6 DEF IsLowerBound
    <2>8. QED BY <2>1, <2>7
  <1>5. CASE ~IsPrefix(Prefix(n), k) /\ ~Less(k, Prefix(n))
    <2> DEFINE v == <<Count(n), FALSE>>
    <2>1. LowerBound(n, k) = v BY <1>5 DEF LowerBound, Prefix
    <2>2. \A i \in SlotsOf(n) : Less(FullKey(n, i), k) BY <1>1, <1>2, <1>5, OutsidePrefix
    <2>3. v[1] = Count(n) /\ v[2] = FALSE /\ v = <<v[1], v[2]>> OBVIOUS
    <2>4. Count(n) \notin SlotsOf(n) /\ Count(n) \in 0..Count(n) BY <1>1 DEF SlotsOf
    <2> HIDE DEF v
    <2>5. IsLowerBound(n, k, v) BY <1>1, <1>2, <2>2, <2>3, <2>4 DEF IsLowerBound
    <2>6. QED BY <2>1, <2>5
  <1>6. QED BY <1>3, <1>4, <1>5

-------------------------------------------------------------------------------
(* What every page of the tree is.                                               *)

FencesAscend(n) == n.lower = <<>> \/ n.upper = <<>> \/ Less(n.lower, n.upper)
\* The lengths that insert accepts.
Short(w) == Len(w) + ValueLen <= MaxKVSize
KeyFits(n, k) == /\ k # <<>> /\ Short(k) /\ Within(n, k)
                 /\ n.leaf => k \in Keys
                 /\ ~n.leaf => k # n.upper
KeysFitIn(n) == \A i \in SlotsOf(n) : KeyFits(n, FullKey(n, i))
Counted(n) == /\ n.used = Len(n.lower) + Len(n.upper) + SizeOf(n.slots, PayLen(n))
              /\ n.data + n.used <= PageSize

\* A page whose hints may be old.
Loose(n) == /\ n \in Page /\ FencesAscend(n) /\ Short(n.lower) /\ Short(n.upper)
            /\ Sorted(n) /\ KeysFitIn(n) /\ Counted(n)
PageOK(n) == Loose(n) /\ HintsRight(n)

SameFences(m, n) == m.leaf = n.leaf /\ m.lower = n.lower /\ m.upper = n.upper

LEMMA SameFenceParts ==
  ASSUME NEW m, NEW n, SameFences(m, n)
  PROVE  /\ PrefixLen(m) = PrefixLen(n) /\ Prefix(m) = Prefix(n) /\ PayLen(m) = PayLen(n)
         /\ (FencesAscend(m) <=> FencesAscend(n))
         /\ (\A w : Within(m, w) <=> Within(n, w))
         /\ (\A w : KeyFits(m, w) <=> KeyFits(n, w))
         /\ (\A w : Rest(m, w) = Rest(n, w))
         /\ (\A i, j : Slot(m, i).key = Slot(n, j).key => FullKey(m, i) = FullKey(n, j))
  BY DEF SameFences, PrefixLen, Prefix, PayLen, FencesAscend, Within, KeyFits, Rest, FullKey

LEMMA SameSlotParts ==
  ASSUME NEW m, NEW n, m.slots = n.slots
  PROVE  /\ Count(m) = Count(n) /\ SlotsOf(m) = SlotsOf(n) /\ HintDist(m) = HintDist(n)
         /\ (\A i : Slot(m, i) = Slot(n, i))
         /\ (\A i : HeadAt(m, i) = HeadAt(n, i))
  BY DEF Count, SlotsOf, HintDist, Slot, HeadAt

LEMMA HeadAtType ==
  ASSUME NEW n \in Page, NEW i \in Nat PROVE HeadAt(n, i) \in Nat
  <1>1. CASE i < Count(n)
    <2>1. i \in SlotsOf(n) BY <1>1, PageFacts DEF SlotsOf
    <2>2. QED BY <1>1, <2>1, SlotOfPage, HeadType DEF HeadAt
  <1>2. CASE ~(i < Count(n)) BY <1>2 DEF HeadAt
  <1>3. QED BY <1>1, <1>2

\* Renewing hints leaves the rest of a page alone.
LEMMA HintsRenewed ==
  ASSUME NEW n \in Page, NEW b \in Int
  PROVE  LET m == HintsFrom(n, b)
         IN /\ m \in Page /\ SameFences(m, n) /\ m.slots = n.slots /\ m.link = n.link
            /\ m.used = n.used /\ m.data = n.data
            /\ \A i \in 0..(HintCount - 1) :
                 m.hints[i] = IF i < b THEN n.hints[i] ELSE HeadAt(n, HintDist(n) * (i + 1))
  <1> DEFINE h == [i \in 0..(HintCount - 1) |-> IF i < b THEN n.hints[i] ELSE HeadAt(n, HintDist(n) * (i + 1))]
             m == [n EXCEPT !.hints = h]
  <1>1. n.hints \in [0..(HintCount - 1) -> Nat] /\ HintCount \in Nat \ {0} /\ Count(n) \in Nat
    BY PageFacts, SearchAssumption
  <1>2. HintDist(n) \in Nat
    <2>1. HintCount + 1 \in Nat \ {0} BY <1>1
    <2>2. QED BY <1>1, <2>1, DivFacts DEF HintDist
  <1>3. HintsFrom(n, b) = m
    <2>1. DOMAIN n.hints = 0..(HintCount - 1) BY <1>1
    <2>2. QED BY <2>1 DEF HintsFrom
  <1>4. h \in [0..(HintCount - 1) -> Nat]
    <2> SUFFICES ASSUME NEW i \in 0..(HintCount - 1)
                 PROVE  (IF i < b THEN n.hints[i] ELSE HeadAt(n, HintDist(n) * (i + 1))) \in Nat
      OBVIOUS
    <2>1. n.hints[i] \in Nat BY <1>1
    <2>2. HintDist(n) * (i + 1) \in Nat BY <1>1, <1>2
    <2>3. HeadAt(n, HintDist(n) * (i + 1)) \in Nat BY <2>2, HeadAtType
    <2>4. QED BY <2>1, <2>3
  <1>5. \A i \in 0..(HintCount - 1) :
          h[i] = IF i < b THEN n.hints[i] ELSE HeadAt(n, HintDist(n) * (i + 1))
    OBVIOUS
  <1> HIDE DEF h
  <1>6. /\ m \in Page /\ m.slots = n.slots /\ m.link = n.link /\ m.used = n.used /\ m.data = n.data
        /\ m.leaf = n.leaf /\ m.lower = n.lower /\ m.upper = n.upper /\ m.hints = h
    BY <1>4 DEF Page
  <1> HIDE DEF m
  <1>7. QED BY <1>3, <1>5, <1>6 DEF SameFences

LEMMA HintsMade ==
  ASSUME NEW n \in Page
  PROVE  LET m == MakeHint(n)
         IN /\ m \in Page /\ SameFences(m, n) /\ m.slots = n.slots /\ m.link = n.link
            /\ m.used = n.used /\ m.data = n.data /\ HintsRight(m)
  <1> DEFINE m == HintsFrom(n, 0)
  <1>1. /\ m \in Page /\ SameFences(m, n) /\ m.slots = n.slots /\ m.link = n.link
        /\ m.used = n.used /\ m.data = n.data
        /\ \A i \in 0..(HintCount - 1) :
             m.hints[i] = IF i < 0 THEN n.hints[i] ELSE HeadAt(n, HintDist(n) * (i + 1))
    BY HintsRenewed
  <1> HIDE DEF m
  <1>2. HintDist(m) = HintDist(n) /\ \A i : HeadAt(m, i) = HeadAt(n, i) BY <1>1, SameSlotParts
  <1>3. \A i \in 0..(HintCount - 1) : m.hints[i] = HeadAt(m, HintDist(m) * (i + 1)) BY <1>1, <1>2
  <1>4. HintsRight(m) BY <1>3 DEF HintsRight
  <1>5. QED BY <1>1, <1>4 DEF MakeHint, m

-------------------------------------------------------------------------------
(* Copying slots.                                                                *)

FreshPage(m, leaf, lower, upper) ==
  /\ m \in Page /\ m.leaf = leaf /\ m.lower = lower /\ m.upper = upper
  /\ m.slots = <<>> /\ m.used = Len(lower) + Len(upper) /\ m.data + m.used = PageSize

LEMMA FreshIsPage ==
  ASSUME NEW leaf \in BOOLEAN, NEW lower \in Words, NEW upper \in Words
  PROVE  /\ FreshPage(Fresh(leaf, lower, upper), leaf, lower, upper)
         /\ Fresh(leaf, lower, upper).link = NoPage
         /\ \A i \in 0..(HintCount - 1) : Fresh(leaf, lower, upper).hints[i] = 0
  <1>1. Len(lower) \in Nat /\ Len(upper) \in Nat /\ PageSize \in Nat BY WordFacts, LayoutAssumption
  <1> DEFINE m == Fresh(leaf, lower, upper)
  <1>2. /\ m.leaf = leaf /\ m.lower = lower /\ m.upper = upper /\ m.link = -1 /\ m.slots = <<>>
        /\ m.hints = [i \in 0..(HintCount - 1) |-> 0]
        /\ m.used = Len(lower) + Len(upper) /\ m.data = PageSize - Len(lower) - Len(upper)
    BY DEF Fresh, NoPage
  <1>3. m \in Page
    <2>1. <<>> \in Seq(SlotSet) OBVIOUS
    <2>2. [i \in 0..(HintCount - 1) |-> 0] \in [0..(HintCount - 1) -> Nat] OBVIOUS
    <2>3. -1 \in Int /\ Len(lower) + Len(upper) \in Int /\ PageSize - Len(lower) - Len(upper) \in Int
      BY <1>1
    <2>4. QED BY <2>1, <2>2, <2>3 DEF Page, Fresh, NoPage
  <1> HIDE DEF m
  <1>4. m.data + m.used = PageSize BY <1>1, <1>2
  <1>5. \A i \in 0..(HintCount - 1) : m.hints[i] = 0 BY <1>2
  <1>6. m.link = NoPage BY <1>2 DEF NoPage
  <1>7. QED BY <1>2, <1>3, <1>4, <1>5, <1>6 DEF FreshPage, m

\* A page m that is page dst with the slots from..to of page src behind its own.
Copied(m, dst, src, from, to) ==
  /\ m \in Page /\ SameFences(m, dst) /\ m.link = dst.link
  /\ Count(m) = Count(dst) + (to - from + 1)
  /\ \A i \in SlotsOf(dst) : Slot(m, i) = Slot(dst, i) /\ FullKey(m, i) = FullKey(dst, i)
  /\ \A i \in 0..(to - from) : /\ FullKey(m, Count(dst) + i) = FullKey(src, from + i)
                               /\ Slot(m, Count(dst) + i).pay = Slot(src, from + i).pay
  /\ m.data + m.used = dst.data + dst.used
  /\ m.used = dst.used + SizeOf(SubSeq(src.slots, from + 1, to + 1), PayLen(src))
                + (PrefixLen(src) - PrefixLen(dst)) * (to - from + 1)
  /\ SizeOf(m.slots, PayLen(m)) = SizeOf(dst.slots, PayLen(dst)) + (m.used - dst.used)

LEMMA RangeCopied ==
  ASSUME NEW dst \in Page, NEW src \in Page, dst.leaf = src.leaf,
         NEW from \in 0..Count(src), NEW to \in (from - 1)..(Count(src) - 1),
         \A i \in from..to : IsPrefix(Prefix(dst), FullKey(src, i))
  PROVE  Copied(CopyRange(dst, src, from, to), dst, src, from, to)
  <1> DEFINE N == to - from + 1
             new == [i \in 1..N |-> [key |-> Rest(dst, FullKey(src, from + i - 1)),
                                     pay |-> Slot(src, from + i - 1).pay]]
             pay == PayLen(src)
             size == SizeOf(new, pay)
             m == [dst EXCEPT !.slots = @ \o new, !.used = @ + size, !.data = @ - size]
             old == SubSeq(src.slots, from + 1, to + 1)
             d == PrefixLen(src) - PrefixLen(dst)
  <1>1. /\ Count(src) \in Nat /\ Count(src) = Len(src.slots) /\ src.slots \in Seq(SlotSet)
        /\ pay \in Nat /\ N \in Nat
    BY PageFacts DEF Count
  <1>2. /\ Count(dst) \in Nat /\ Count(dst) = Len(dst.slots) /\ dst.slots \in Seq(SlotSet)
        /\ dst.used \in Int /\ dst.data \in Int /\ PayLen(dst) = pay
    BY PageFacts DEF Count, PayLen
  <1>3. ASSUME NEW i \in 1..N
        PROVE  /\ from + i - 1 \in SlotsOf(src) /\ from + i - 1 \in from..to
               /\ Rest(dst, FullKey(src, from + i - 1)) \in Words
               /\ Slot(src, from + i - 1).pay \in Int
               /\ Prefix(dst) \o Rest(dst, FullKey(src, from + i - 1)) = FullKey(src, from + i - 1)
               /\ Len(Rest(dst, FullKey(src, from + i - 1))) = Len(Slot(src, from + i - 1).key) + d
    <2> DEFINE j == from + i - 1
    <2>1. j \in from..to /\ j \in SlotsOf(src) BY <1>1 DEF SlotsOf
    <2> HIDE DEF j
    <2>2. /\ Slot(src, j).pay \in Int /\ FullKey(src, j) \in Words /\ Len(Slot(src, j).key) \in Nat
          /\ Len(FullKey(src, j)) = PrefixLen(src) + Len(Slot(src, j).key)
      BY <2>1, SlotOfPage
    <2>3. IsPrefix(Prefix(dst), FullKey(src, j)) BY <2>1
    <2>4. /\ Rest(dst, FullKey(src, j)) \in Words
          /\ Len(Rest(dst, FullKey(src, j))) = Len(FullKey(src, j)) - PrefixLen(dst)
          /\ Prefix(dst) \o Rest(dst, FullKey(src, j)) = FullKey(src, j)
      BY <2>2, <2>3, RestOfKey
    <2>5. PrefixLen(src) \in Nat /\ PrefixLen(dst) \in Nat BY PrefixFacts
    <2>6. Len(Rest(dst, FullKey(src, j))) = Len(Slot(src, j).key) + d BY <2>2, <2>4, <2>5
    <2>7. QED BY <2>1, <2>2, <2>4, <2>6 DEF j
  <1>4. /\ new \in Seq(SlotSet) /\ Len(new) = N
        /\ \A i \in 1..N : /\ new[i].key = Rest(dst, FullKey(src, from + i - 1))
                           /\ new[i].pay = Slot(src, from + i - 1).pay
    <2>1. \A i \in 1..N : [key |-> Rest(dst, FullKey(src, from + i - 1)),
                           pay |-> Slot(src, from + i - 1).pay] \in SlotSet
      BY <1>3 DEF SlotSet
    <2>2. new \in [1..N -> SlotSet] BY <2>1
    <2>3. \A i \in 1..N : /\ new[i].key = Rest(dst, FullKey(src, from + i - 1))
                           /\ new[i].pay = Slot(src, from + i - 1).pay
      OBVIOUS
    <2> HIDE DEF new, N
    <2>4. new \in Seq(SlotSet) /\ Len(new) = N BY <1>1, <2>2
    <2>5. QED BY <2>3, <2>4
  <1>18. from \in Nat /\ to \in Int /\ N = to - from + 1 BY <1>1
  <1> HIDE DEF new
  <1>5. size \in Nat BY <1>1, <1>4, SizeType
  <1>6. /\ old \in Seq(SlotSet) /\ Len(old) = N
        /\ \A i \in 1..N : old[i] = Slot(src, from + i - 1)
    <2>1. from + 1 \in 1..(Len(src.slots) + 1) /\ to + 1 \in ((from + 1) - 1)..Len(src.slots)
          /\ (to + 1) - (from + 1) + 1 = N
      BY <1>1
    <2>2. /\ old \in Seq(SlotSet) /\ Len(old) = N
          /\ \A i \in 1..N : old[i] = src.slots[(from + 1) + i - 1]
      BY <1>1, <2>1, SubSlots
    <2>3. \A i \in 1..N : (from + 1) + i - 1 = (from + i - 1) + 1 BY <1>1
    <2>4. QED BY <2>2, <2>3 DEF Slot
  <1> HIDE DEF old, d
  <1>7. size = SizeOf(old, pay) + d * N
    <2>1. d \in Int BY PrefixFacts DEF d
    <2>2. \A i \in 1..Len(new) : Len(new[i].key) = Len(old[i].key) + d BY <1>3, <1>4, <1>6
    <2>3. Len(new) = Len(old) /\ new \in Seq(SlotSet) /\ old \in Seq(SlotSet) /\ pay \in Nat
      BY <1>1, <1>4, <1>6
    <2>4. SizeOf(new, pay) = SizeOf(old, pay) + d * Len(old) BY <2>1, <2>2, <2>3, SizeShift
    <2>5. QED BY <1>6, <2>4
  <1>8. CopyRange(dst, src, from, to) = m BY DEF CopyRange, new
  <1> HIDE DEF size
  <1>9. /\ dst.slots \o new \in Seq(SlotSet) /\ Len(dst.slots \o new) = Count(dst) + N
        /\ \A i \in 1..(Count(dst) + N) :
             (dst.slots \o new)[i] = IF i <= Count(dst) THEN dst.slots[i] ELSE new[i - Count(dst)]
    <2>1. /\ dst.slots \o new \in Seq(SlotSet) /\ Len(dst.slots \o new) = Len(dst.slots) + Len(new)
          /\ \A i \in 1..(Len(dst.slots) + Len(new)) :
               (dst.slots \o new)[i] = IF i <= Len(dst.slots) THEN dst.slots[i] ELSE new[i - Len(dst.slots)]
      BY <1>2, <1>4, ConcatSlots
    <2>2. QED BY <1>2, <1>4, <2>1
  <1>10. /\ m \in Page /\ SameFences(m, dst) /\ m.link = dst.link /\ m.slots = dst.slots \o new
         /\ m.used = dst.used + size /\ m.data = dst.data - size
    <2>1. dst.used + size \in Int /\ dst.data - size \in Int BY <1>2, <1>5
    <2>2. m \in Page BY <1>9, <2>1 DEF Page
    <2>3. QED BY <2>2 DEF Page, SameFences
  <1> HIDE DEF m
  <1>11. Count(m) = Count(dst) + N BY <1>9, <1>10 DEF Count
  <1>12. ASSUME NEW i \in SlotsOf(dst) PROVE Slot(m, i) = Slot(dst, i) /\ FullKey(m, i) = FullKey(dst, i)
    <2>1. i + 1 \in 1..(Count(dst) + N) /\ i + 1 <= Count(dst)
      <3> HIDE DEF N
      <3>1. QED BY <1>1, <1>2 DEF SlotsOf
    <2>2. Slot(m, i) = Slot(dst, i) BY <1>9, <1>10, <2>1 DEF Slot
    <2>3. QED BY <1>10, <2>2, SameFenceParts
  <1>13. ASSUME NEW i \in 0..(to - from)
         PROVE  /\ FullKey(m, Count(dst) + i) = FullKey(src, from + i)
                /\ Slot(m, Count(dst) + i).pay = Slot(src, from + i).pay
    <2> DEFINE j == Count(dst) + i
    <2>1. /\ j + 1 \in 1..(Count(dst) + N) /\ ~(j + 1 <= Count(dst)) /\ (j + 1) - Count(dst) = i + 1
          /\ i + 1 \in 1..N /\ from + (i + 1) - 1 = from + i
      <3> HIDE DEF N
      <3>1. i \in Nat /\ i <= to - from BY <1>18
      <3>2. i + 1 \in Nat /\ i + 1 >= 1 /\ i + 1 <= N BY <1>18, <3>1
      <3>3. i + 1 \in 1..N BY <1>1, <3>2
      <3>4. from + (i + 1) - 1 = from + i BY <1>18, <3>1
      <3> HIDE DEF j
      <3>5. j = Count(dst) + i BY DEF j
      <3>6. j + 1 \in Nat /\ j + 1 >= 1 /\ j + 1 <= Count(dst) + N BY <1>1, <1>2, <3>1, <3>2, <3>5
      <3>7. j + 1 \in 1..(Count(dst) + N) BY <1>1, <1>2, <3>6
      <3>10. j \in Nat BY <1>2, <3>1, <3>5
      <3>11. ~(j + 1 <= Count(dst)) BY <1>2, <3>1, <3>5, <3>10
      <3>12. (j + 1) - Count(dst) = i + 1
        <4>1. \A c, x, y \in Nat : y = c + x => (y + 1) - c = x + 1 OBVIOUS
        <4>2. QED BY <1>2, <3>1, <3>5, <3>10, <4>1
      <3>8. ~(j + 1 <= Count(dst)) /\ (j + 1) - Count(dst) = i + 1 BY <3>11, <3>12
      <3>9. QED BY <3>3, <3>4, <3>7, <3>8
    <2>2. Slot(m, j) = new[i + 1] BY <1>9, <1>10, <2>1 DEF Slot
    <2>3. Slot(m, j).key = Rest(dst, FullKey(src, from + i)) /\ Slot(m, j).pay = Slot(src, from + i).pay
      BY <1>4, <2>1, <2>2
    <2>4. Prefix(dst) \o Rest(dst, FullKey(src, from + i)) = FullKey(src, from + i) BY <1>3, <2>1
    <2>5. FullKey(m, j) = Prefix(m) \o Slot(m, j).key BY DEF FullKey, Prefix
    <2>6. Prefix(m) = Prefix(dst) BY <1>10, SameFenceParts
    <2>7. QED BY <2>3, <2>4, <2>5, <2>6
  <1>14. m.data + m.used = dst.data + dst.used BY <1>2, <1>5, <1>10
  <1>15. SizeOf(m.slots, PayLen(m)) = SizeOf(dst.slots, PayLen(dst)) + (m.used - dst.used)
    <2>1. PayLen(m) = pay BY <1>2, <1>10, SameFenceParts
    <2>2. SizeOf(m.slots, pay) = SizeOf(dst.slots, pay) + size
      BY <1>1, <1>2, <1>4, <1>10, SizeConcat DEF size
    <2>3. m.used - dst.used = size BY <1>2, <1>5, <1>10
    <2>4. QED BY <1>2, <2>1, <2>2, <2>3
  <1>16. m.used = dst.used + SizeOf(old, pay) + d * N
    <2>1. d \in Int BY PrefixFacts DEF d
    <2>2. d * N \in Int /\ SizeOf(old, pay) \in Nat BY <1>1, <1>6, <2>1, SizeType
    <2>3. QED BY <1>2, <1>7, <1>10, <2>2
  <1>17. QED BY <1>8, <1>10, <1>11, <1>12, <1>13, <1>14, <1>15, <1>16 DEF Copied, old, d

-------------------------------------------------------------------------------
(* The operations on one page.                                                   *)

\* Pages with the same entries, at whatever place of the heap.
Same(m, n) == /\ SameFences(m, n) /\ m.link = n.link /\ Count(m) = Count(n)
              /\ \A i \in SlotsOf(n) : FullKey(m, i) = FullKey(n, i) /\ Slot(m, i).pay = Slot(n, i).pay

LEMMA SameContent ==
  ASSUME NEW n, Loose(n), NEW m \in Page, SameFences(m, n), m.slots = n.slots,
         m.used = n.used, m.data = n.data
  PROVE  /\ Loose(m) /\ Count(m) = Count(n) /\ SlotsOf(m) = SlotsOf(n)
         /\ FreeSpace(m) = FreeSpace(n) /\ FreeAfter(m) = FreeAfter(n)
         /\ \A i : FullKey(m, i) = FullKey(n, i) /\ Slot(m, i) = Slot(n, i)
  <1>1. /\ PayLen(m) = PayLen(n) /\ (FencesAscend(m) <=> FencesAscend(n))
        /\ (\A w : KeyFits(m, w) <=> KeyFits(n, w))
        /\ (\A i, j : Slot(m, i).key = Slot(n, j).key => FullKey(m, i) = FullKey(n, j))
    BY SameFenceParts
  <1>2. /\ Count(m) = Count(n) /\ SlotsOf(m) = SlotsOf(n)
        /\ (\A i : Slot(m, i) = Slot(n, i))
    BY SameSlotParts
  <1>3. \A i : FullKey(m, i) = FullKey(n, i) BY <1>1, <1>2
  <1>4. FreeSpace(m) = FreeSpace(n) /\ FreeAfter(m) = FreeAfter(n) BY <1>2 DEF FreeSpace, FreeAfter
  <1>5. Sorted(m) BY <1>2, <1>3 DEF Loose, Sorted
  <1>6. KeysFitIn(m) BY <1>1, <1>2, <1>3 DEF Loose, KeysFitIn
  <1>7. m.lower = n.lower /\ m.upper = n.upper BY DEF SameFences
  <1>8. Counted(m) BY <1>1, <1>7 DEF Loose, Counted
  <1>9. Loose(m) BY <1>1, <1>5, <1>6, <1>7, <1>8 DEF Loose
  <1>10. QED BY <1>2, <1>3, <1>4, <1>9

LEMMA Hinted ==
  ASSUME NEW n, Loose(n)
  PROVE  LET m == MakeHint(n)
         IN /\ PageOK(m) /\ Same(m, n) /\ m.slots = n.slots
            /\ m.used = n.used /\ m.data = n.data
  <1> DEFINE m == MakeHint(n)
  <1>1. n \in Page BY DEF Loose
  <1>2. /\ m \in Page /\ SameFences(m, n) /\ m.slots = n.slots /\ m.link = n.link
        /\ m.used = n.used /\ m.data = n.data /\ HintsRight(m)
    BY <1>1, HintsMade
  <1> HIDE DEF m
  <1>3. /\ Loose(m) /\ Count(m) = Count(n)
        /\ \A i : FullKey(m, i) = FullKey(n, i) /\ Slot(m, i) = Slot(n, i)
    BY <1>2, SameContent
  <1>4. PageOK(m) BY <1>2, <1>3 DEF PageOK
  <1>5. Same(m, n) BY <1>2, <1>3 DEF Same
  <1>6. QED BY <1>2, <1>4, <1>5 DEF m

LEMMA Relinked ==
  ASSUME NEW n, Loose(n), NEW link \in Int
  PROVE  LET m == [n EXCEPT !.link = link]
         IN /\ Loose(m) /\ SameFences(m, n) /\ m.slots = n.slots /\ m.link = link
            /\ m.used = n.used /\ m.data = n.data /\ m.hints = n.hints
            /\ Count(m) = Count(n) /\ \A i : FullKey(m, i) = FullKey(n, i) /\ Slot(m, i) = Slot(n, i)
  <1> DEFINE m == [n EXCEPT !.link = link]
  <1>1. n \in Page BY DEF Loose
  <1>2. /\ m \in Page /\ SameFences(m, n) /\ m.slots = n.slots /\ m.link = link
        /\ m.used = n.used /\ m.data = n.data /\ m.hints = n.hints
    BY <1>1 DEF Page, SameFences
  <1> HIDE DEF m
  <1>3. Loose(m) /\ Count(m) = Count(n) /\ \A i : FullKey(m, i) = FullKey(n, i) /\ Slot(m, i) = Slot(n, i)
    BY <1>2, SameContent
  <1>4. QED BY <1>2, <1>3 DEF m

\* What is copied behind a page of smaller keys makes it another such page.
LEMMA CopiedIsLoose ==
  ASSUME NEW dst, Loose(dst), NEW src, Loose(src), dst.leaf = src.leaf,
         NEW from \in 0..Count(src), NEW to \in (from - 1)..(Count(src) - 1),
         NEW m, Copied(m, dst, src, from, to),
         \A j \in from..to : /\ KeyFits(dst, FullKey(src, j))
                             /\ \A i \in SlotsOf(dst) : Less(FullKey(dst, i), FullKey(src, j))
  PROVE  Loose(m)
  <1> DEFINE c == Count(dst)
  <1>1. /\ m \in Page /\ SameFences(m, dst) /\ Count(m) = c + (to - from + 1)
        /\ \A i \in SlotsOf(dst) : Slot(m, i) = Slot(dst, i) /\ FullKey(m, i) = FullKey(dst, i)
        /\ \A i \in 0..(to - from) : FullKey(m, c + i) = FullKey(src, from + i)
        /\ m.data + m.used = dst.data + dst.used
        /\ SizeOf(m.slots, PayLen(m)) = SizeOf(dst.slots, PayLen(dst)) + (m.used - dst.used)
    BY DEF Copied
  <1>2. c \in Nat /\ Count(src) \in Nat BY PageFacts DEF Loose
  <1>3. ASSUME NEW i \in SlotsOf(m), ~(i < c)
        PROVE  /\ from + (i - c) \in from..to /\ from + (i - c) \in SlotsOf(src)
               /\ FullKey(m, i) = FullKey(src, from + (i - c))
    <2>1. i \in Nat /\ i < c + (to - from + 1) BY <1>1, <1>2 DEF SlotsOf
    <2>2. i - c \in 0..(to - from) /\ c + (i - c) = i BY <1>2, <1>3, <2>1
    <2>3. from + (i - c) \in from..to /\ from + (i - c) \in SlotsOf(src) BY <1>2, <2>2 DEF SlotsOf
    <2>4. FullKey(m, c + (i - c)) = FullKey(src, from + (i - c)) BY <1>1, <2>2
    <2>5. QED BY <2>2, <2>3, <2>4
  <1>4. ASSUME NEW i \in SlotsOf(m), i < c
        PROVE  i \in SlotsOf(dst) /\ FullKey(m, i) = FullKey(dst, i)
    <2>1. i \in Nat BY <1>1, <1>2 DEF SlotsOf
    <2>2. i \in SlotsOf(dst) BY <1>2, <1>4, <2>1 DEF SlotsOf
    <2>3. QED BY <1>1, <2>2
  <1>5. ASSUME NEW i \in SlotsOf(m) PROVE i \in Nat BY <1>1, <1>2 DEF SlotsOf
  <1>6. Sorted(m)
    <2> SUFFICES ASSUME NEW i \in SlotsOf(m), NEW j \in SlotsOf(m), i < j
                 PROVE  Less(FullKey(m, i), FullKey(m, j))
      BY DEF Sorted
    <2>1. CASE j < c
      <3>1. i < c BY <1>2, <1>5, <2>1
      <3>2. QED BY <1>4, <2>1, <3>1 DEF Loose, Sorted
    <2>2. CASE i < c /\ ~(j < c) BY <1>3, <1>4, <2>2
    <2>3. CASE ~(i < c) /\ ~(j < c)
      <3>1. from + (i - c) < from + (j - c) BY <1>2, <1>5
      <3>2. QED BY <1>3, <2>3, <3>1 DEF Loose, Sorted
    <2>4. QED BY <2>1, <2>2, <2>3
  <1>7. \A w : KeyFits(m, w) <=> KeyFits(dst, w) BY <1>1, SameFenceParts
  <1>8. KeysFitIn(m)
    <2> SUFFICES ASSUME NEW i \in SlotsOf(m) PROVE KeyFits(dst, FullKey(m, i))
      BY <1>7 DEF KeysFitIn
    <2>1. CASE i < c BY <1>4, <2>1 DEF Loose, KeysFitIn
    <2>2. CASE ~(i < c) BY <1>3, <2>2
    <2>3. QED BY <2>1, <2>2
  <1>9. m.lower = dst.lower /\ m.upper = dst.upper BY <1>1 DEF SameFences
  <1>10. Counted(m)
    <2> DEFINE a == Len(dst.lower)
               b == Len(dst.upper)
               s == SizeOf(dst.slots, PayLen(dst))
               t == SizeOf(m.slots, PayLen(m))
    <2>1. dst.used = a + b + s /\ dst.data + dst.used <= PageSize BY DEF Loose, Counted
    <2>2. dst.used \in Int /\ m.used \in Int /\ a \in Nat /\ b \in Nat /\ s \in Nat
      BY <1>1, PageFacts, SizeType, WordFacts DEF Loose
    <2>3. t = s + (m.used - dst.used) BY <1>1
    <2>4. Len(m.lower) = a /\ Len(m.upper) = b BY <1>9
    <2> HIDE DEF a, b, s, t
    <2>5. m.used = a + b + t BY <2>1, <2>2, <2>3
    <2>6. m.used = Len(m.lower) + Len(m.upper) + SizeOf(m.slots, PayLen(m)) BY <2>4, <2>5 DEF t
    <2>7. m.data + m.used <= PageSize BY <1>1, <2>1
    <2>8. QED BY <2>6, <2>7 DEF Counted
  <1>11. FencesAscend(m) BY <1>1, SameFenceParts DEF Loose
  <1>12. QED BY <1>1, <1>6, <1>8, <1>9, <1>10, <1>11 DEF Loose

LEMMA AllOfSlots == ASSUME NEW s \in Seq(SlotSet) PROVE SubSeq(s, 1, Len(s)) = s
  <1> DEFINE t == SubSeq(s, 1, Len(s))
  <1>1. Len(s) \in Nat BY SlotFacts
  <1>2. 1 \in 1..(Len(s) + 1) /\ Len(s) \in (1 - 1)..Len(s) /\ Len(s) - 1 + 1 = Len(s) BY <1>1
  <1>3. /\ t \in Seq(SlotSet) /\ Len(t) = Len(s)
        /\ \A j \in 1..Len(s) : t[j] = s[1 + j - 1]
    BY <1>2, SubSlots
  <1>4. \A j \in 1..Len(s) : 1 + j - 1 = j BY <1>1
  <1> HIDE DEF t
  <1>5. \A j \in 1..Len(s) : t[j] = s[j] BY <1>3, <1>4
  <1>6. t = s BY <1>3, <1>5, SeqEqual
  <1>7. QED BY <1>6 DEF t

LEMMA FreshIsOK ==
  ASSUME NEW leaf \in BOOLEAN, NEW lower \in Words, NEW upper \in Words, Short(lower), Short(upper),
         lower = <<>> \/ upper = <<>> \/ Less(lower, upper)
  PROVE  LET m == Fresh(leaf, lower, upper)
         IN PageOK(m) /\ FreshPage(m, leaf, lower, upper) /\ Count(m) = 0 /\ m.link = NoPage
  <1> DEFINE m == Fresh(leaf, lower, upper)
  <1>1. /\ FreshPage(m, leaf, lower, upper) /\ m.link = NoPage
        /\ \A i \in 0..(HintCount - 1) : m.hints[i] = 0
    BY FreshIsPage
  <1> HIDE DEF m
  <1>2. /\ m \in Page /\ m.lower = lower /\ m.upper = upper /\ m.slots = <<>>
        /\ m.used = Len(lower) + Len(upper) /\ m.data + m.used = PageSize
    BY <1>1 DEF FreshPage
  <1>3. Count(m) = 0 /\ SlotsOf(m) = {} BY <1>2 DEF Count, SlotsOf
  <1>4. FencesAscend(m) /\ Sorted(m) /\ KeysFitIn(m) BY <1>2, <1>3 DEF FencesAscend, Sorted, KeysFitIn
  <1>5. Counted(m)
    <2>1. SizeOf(m.slots, PayLen(m)) = 0 BY <1>2, SizeOfNone, PageFacts
    <2>2. Len(lower) \in Nat /\ Len(upper) \in Nat /\ PageSize \in Nat BY WordFacts, LayoutAssumption
    <2>3. m.used = Len(m.lower) + Len(m.upper) + SizeOf(m.slots, PayLen(m)) BY <1>2, <2>1, <2>2
    <2>4. m.data + m.used <= PageSize BY <1>2, <2>2
    <2>5. QED BY <2>3, <2>4 DEF Counted
  <1>6. HintsRight(m)
    <2> SUFFICES ASSUME NEW i \in 0..(HintCount - 1) PROVE HeadAt(m, HintDist(m) * (i + 1)) = 0
      BY <1>1 DEF HintsRight
    <2>1. HintCount + 1 \in Nat \ {0} /\ 0 \in Nat /\ HintCount \in Nat BY SearchAssumption
    <2>2. HintDist(m) \in Nat BY <1>3, <2>1, DivFacts DEF HintDist
    <2> DEFINE d == HintDist(m)
               e == i + 1
    <2>3. d \in Nat /\ e \in Nat BY <2>1, <2>2
    <2> HIDE DEF d, e
    <2>4. ~(d * e < Count(m))
      <3>1. d * e \in Nat BY <2>3
      <3>2. QED BY <1>3, <3>1
    <2>5. QED BY <2>4 DEF HeadAt, d, e
  <1>7. PageOK(m) BY <1>2, <1>4, <1>5, <1>6 DEF PageOK, Loose
  <1>8. QED BY <1>1, <1>3, <1>7 DEF m

LEMMA PrefixOfFittingKey ==
  ASSUME NEW n \in Page, NEW k \in Words, KeyFits(n, k) PROVE IsPrefix(Prefix(n), k)
  BY WithinHasPrefix DEF KeyFits

LEMMA CompactedIsSame ==
  ASSUME NEW n, Loose(n)
  PROVE  LET m == Compactified(n)
         IN /\ PageOK(m) /\ Same(m, n) /\ m.used = n.used
            /\ FreeSpace(m) = FreeAfter(n)
  <1> DEFINE f == Fresh(n.leaf, n.lower, n.upper)
             c == CopyAll(f, n)
             d == [c EXCEPT !.link = n.link]
             m == MakeHint(d)
             last == Count(n) - 1
  <1>1. /\ n \in Page /\ n.leaf \in BOOLEAN /\ n.lower \in Words /\ n.upper \in Words
        /\ n.link \in Int /\ Count(n) \in Nat /\ n.used \in Int /\ PayLen(n) \in Nat
        /\ n.slots \in Seq(SlotSet)
    BY PageFacts DEF Loose
  <1>2. PageOK(f) /\ FreshPage(f, n.leaf, n.lower, n.upper) /\ Count(f) = 0
    BY <1>1, FreshIsOK DEF Loose, FencesAscend
  <1> HIDE DEF f
  <1>3. /\ f \in Page /\ SameFences(f, n) /\ f.used = Len(n.lower) + Len(n.upper)
        /\ f.data + f.used = PageSize /\ SlotsOf(f) = {} /\ Loose(f)
    <2>1. SlotsOf(f) = {} BY <1>2 DEF SlotsOf
    <2>2. QED BY <1>2, <2>1 DEF FreshPage, SameFences, PageOK
  <1>4. /\ PrefixLen(f) = PrefixLen(n) /\ Prefix(f) = Prefix(n)
        /\ (\A w : KeyFits(f, w) <=> KeyFits(n, w))
    BY <1>3, SameFenceParts
  <1>5. \A i \in 0..last : /\ KeyFits(f, FullKey(n, i)) /\ IsPrefix(Prefix(f), FullKey(n, i))
    <2> SUFFICES ASSUME NEW i \in SlotsOf(n)
                 PROVE  KeyFits(f, FullKey(n, i)) /\ IsPrefix(Prefix(f), FullKey(n, i))
      BY DEF SlotsOf
    <2>1. KeyFits(n, FullKey(n, i)) BY DEF Loose, KeysFitIn
    <2>2. FullKey(n, i) \in Words BY <1>1, SlotOfPage
    <2>3. QED BY <1>1, <1>4, <2>1, <2>2, PrefixOfFittingKey
  <1>6. 0 \in 0..Count(n) /\ last \in (0 - 1)..(Count(n) - 1) /\ last - 0 + 1 = Count(n) BY <1>1
  <1>7. f.leaf = n.leaf BY <1>3 DEF SameFences
  <1>8. Copied(c, f, n, 0, last) BY <1>1, <1>3, <1>5, <1>6, <1>7, RangeCopied DEF CopyAll
  <1> HIDE DEF c
  <1>9. Loose(c) BY <1>3, <1>5, <1>6, <1>7, <1>8, CopiedIsLoose
  <1>10. /\ SameFences(c, n) /\ Count(c) = Count(n) /\ c.data + c.used = PageSize
         /\ \A i \in SlotsOf(n) : FullKey(c, i) = FullKey(n, i) /\ Slot(c, i).pay = Slot(n, i).pay
    <2>1. SameFences(c, f) /\ Count(c) = Count(f) + (last - 0 + 1) /\ c.data + c.used = f.data + f.used
      BY <1>8 DEF Copied
    <2>2. \A i \in 0..(last - 0) : /\ FullKey(c, Count(f) + i) = FullKey(n, 0 + i)
                                   /\ Slot(c, Count(f) + i).pay = Slot(n, 0 + i).pay
      BY <1>8 DEF Copied
    <2>3. SameFences(c, n) BY <1>3, <2>1 DEF SameFences
    <2>4. Count(c) = Count(n) BY <1>1, <1>2, <1>6, <2>1
    <2>5. ASSUME NEW i \in SlotsOf(n)
          PROVE  FullKey(c, i) = FullKey(n, i) /\ Slot(c, i).pay = Slot(n, i).pay
      <3>1. i \in 0..(last - 0) /\ Count(f) + i = i /\ 0 + i = i BY <1>1, <1>2 DEF SlotsOf
      <3>2. /\ FullKey(c, Count(f) + i) = FullKey(n, 0 + i)
            /\ Slot(c, Count(f) + i).pay = Slot(n, 0 + i).pay
        BY <2>2, <3>1
      <3>3. QED BY <3>1, <3>2
    <2>6. QED BY <1>3, <2>1, <2>3, <2>4, <2>5
  <1>11. c.used = n.used
    <2> DEFINE s == SizeOf(n.slots, PayLen(n))
               z == (PrefixLen(n) - PrefixLen(f)) * (last - 0 + 1)
    <2>1. c.used = f.used + SizeOf(SubSeq(n.slots, 0 + 1, last + 1), PayLen(n)) + z
      BY <1>8 DEF Copied
    <2>2. 0 + 1 = 1 /\ last + 1 = Len(n.slots) BY <1>1 DEF Count
    <2>3. SubSeq(n.slots, 0 + 1, last + 1) = n.slots BY <1>1, <2>2, AllOfSlots
    <2>4. z = 0
      <3>1. PrefixLen(n) \in Nat BY <1>1, PrefixFacts
      <3>2. PrefixLen(n) - PrefixLen(f) = 0 BY <1>4, <3>1
      <3>3. 0 * (last - 0 + 1) = 0 BY <1>1
      <3>4. QED BY <3>2, <3>3
    <2>5. c.used = f.used + s + z BY <2>1, <2>3
    <2>6. n.used = Len(n.lower) + Len(n.upper) + s BY DEF Loose, Counted
    <2>7. Len(n.lower) \in Nat /\ Len(n.upper) \in Nat /\ s \in Nat BY <1>1, SizeType, WordFacts
    <2> HIDE DEF s, z
    <2>8. QED BY <1>3, <2>4, <2>5, <2>6, <2>7
  <1>12. /\ Loose(d) /\ SameFences(d, c) /\ d.link = n.link /\ d.used = c.used /\ d.data = c.data
         /\ Count(d) = Count(c) /\ \A i : FullKey(d, i) = FullKey(c, i) /\ Slot(d, i) = Slot(c, i)
    BY <1>1, <1>9, Relinked
  <1> HIDE DEF d
  <1>13. PageOK(m) /\ Same(m, d) /\ m.used = d.used /\ m.data = d.data /\ m.slots = d.slots
    BY <1>12, Hinted
  <1> HIDE DEF m
  <1>14. Same(m, n)
    <2>1. SlotsOf(d) = SlotsOf(n) BY <1>10, <1>12 DEF SlotsOf
    <2>2. SameFences(m, n) /\ m.link = n.link /\ Count(m) = Count(n)
      BY <1>10, <1>12, <1>13 DEF Same, SameFences
    <2>3. \A i \in SlotsOf(n) : FullKey(m, i) = FullKey(n, i) /\ Slot(m, i).pay = Slot(n, i).pay
      BY <1>10, <1>12, <1>13, <2>1 DEF Same
    <2>4. QED BY <2>2, <2>3 DEF Same
  <1>15. m.used = n.used /\ FreeSpace(m) = FreeAfter(n)
    <2>1. m.used = n.used /\ m.data + m.used = PageSize /\ Count(m) = Count(n)
      BY <1>10, <1>11, <1>12, <1>13, <1>14 DEF Same
    <2>2. m.data \in Int /\ PageSize \in Nat /\ SlotSize * Count(n) \in Int
      BY <1>1, <1>13, PageFacts, LayoutAssumption DEF PageOK, Loose
    <2>3. m.data - SlotSize * Count(n) = PageSize - SlotSize * Count(n) - n.used BY <1>1, <2>1, <2>2
    <2>4. QED BY <2>1, <2>3 DEF FreeSpace, FreeAfter
  <1>16. Compactified(n) = m BY DEF Compactified, m, d, c, f
  <1>17. QED BY <1>13, <1>14, <1>15, <1>16

\* A page m that is page n with key k at slot pos.
Inserted(m, n, k, pay, pos) ==
  /\ SameFences(m, n) /\ m.link = n.link /\ pos \in 0..Count(n) /\ Count(m) = Count(n) + 1
  /\ \A i \in SlotsOf(n) : i < pos <=> Less(FullKey(n, i), k)
  /\ \A i \in SlotsOf(n) : i < pos => FullKey(m, i) = FullKey(n, i) /\ Slot(m, i).pay = Slot(n, i).pay
  /\ FullKey(m, pos) = k /\ Slot(m, pos).pay = pay
  /\ \A i \in SlotsOf(n) : ~(i < pos) =>
       FullKey(m, i + 1) = FullKey(n, i) /\ Slot(m, i + 1).pay = Slot(n, i).pay

EntryLen(n, k) == Len(Rest(n, k)) + PayLen(n)
WithEntry(n, k, pay, pos) ==
  [n EXCEPT !.slots = InsertAt(@, pos + 1, [key |-> Rest(n, k), pay |-> pay]),
            !.used = @ + EntryLen(n, k), !.data = @ - EntryLen(n, k)]

LEMMA EntrySet ==
  ASSUME NEW n, Loose(n), NEW k \in Words, KeyFits(n, k), NEW pay \in Int, NEW pos \in 0..Count(n),
         \A i \in SlotsOf(n) : (i < pos <=> Less(FullKey(n, i), k)) /\ FullKey(n, i) # k
  PROVE  LET m == WithEntry(n, k, pay, pos)
         IN /\ Loose(m) /\ Inserted(m, n, k, pay, pos) /\ m.hints = n.hints
            /\ \A i \in SlotsOf(n) : i < pos => Slot(m, i) = Slot(n, i)
            /\ FreeSpace(m) = FreeSpace(n) - SpaceNeeded(n, Len(k))
  <1> DEFINE e == [key |-> Rest(n, k), pay |-> pay]
             z == EntryLen(n, k)
             s == InsertAt(n.slots, pos + 1, e)
             m == WithEntry(n, k, pay, pos)
             c == Count(n)
  <1>1. /\ n \in Page /\ n.slots \in Seq(SlotSet) /\ n.used \in Int /\ n.data \in Int /\ c \in Nat
        /\ PayLen(n) \in Nat /\ c = Len(n.slots)
    BY PageFacts DEF Loose, Count
  <1>2. IsPrefix(Prefix(n), k) BY <1>1, PrefixOfFittingKey
  <1>3. /\ Rest(n, k) \in Words /\ Len(Rest(n, k)) = Len(k) - PrefixLen(n) /\ Prefix(n) \o Rest(n, k) = k
        /\ Len(Rest(n, k)) \in Nat /\ Len(k) \in Nat /\ PrefixLen(n) \in Nat
    BY <1>1, <1>2, RestOfKey, WordFacts, PrefixFacts
  <1>4. e \in SlotSet /\ e.key = Rest(n, k) /\ e.pay = pay BY <1>3 DEF SlotSet
  <1>5. z \in Nat /\ z = Len(k) - PrefixLen(n) + PayLen(n) /\ z = Len(e.key) + PayLen(n)
    BY <1>1, <1>3, <1>4 DEF EntryLen
  <1> HIDE DEF e
  <1>6. /\ s \in Seq(SlotSet) /\ Len(s) = c + 1
        /\ \A j \in 1..(c + 1) : s[j] = IF j < pos + 1 THEN n.slots[j]
                                        ELSE IF j = pos + 1 THEN e ELSE n.slots[j - 1]
        /\ SizeOf(s, PayLen(n)) = SizeOf(n.slots, PayLen(n)) + Len(e.key) + PayLen(n)
    <2> DEFINE q == pos + 1
    <2>1. q \in 1..(Len(n.slots) + 1) BY <1>1
    <2>2. s = InsertAt(n.slots, q, e) OBVIOUS
    <2> HIDE DEF s, q
    <2>3. /\ s \in Seq(SlotSet) /\ Len(s) = Len(n.slots) + 1
          /\ \A j \in 1..(Len(n.slots) + 1) :
               s[j] = IF j < q THEN n.slots[j] ELSE IF j = q THEN e ELSE n.slots[j - 1]
          /\ SizeOf(s, PayLen(n)) = SizeOf(n.slots, PayLen(n)) + Len(e.key) + PayLen(n)
      <3> DEFINE l == n.slots
                 pl == PayLen(n)
      <3>1. l \in Seq(SlotSet) /\ pl \in Nat /\ q \in 1..(Len(l) + 1) /\ s = InsertAt(l, q, e) BY <1>1, <2>1, <2>2
      <3> HIDE DEF l, pl
      <3>2. /\ s \in Seq(SlotSet) /\ Len(s) = Len(l) + 1
            /\ \A j \in 1..(Len(l) + 1) : s[j] = IF j < q THEN l[j] ELSE IF j = q THEN e ELSE l[j - 1]
            /\ SizeOf(s, pl) = SizeOf(l, pl) + Len(e.key) + pl
        BY <1>4, <3>1, SlotInserted
      <3>3. QED BY <3>2 DEF l, pl
    <2>4. QED BY <1>1, <2>3 DEF q
  <1> HIDE DEF s
  <1>7. m = [n EXCEPT !.slots = s, !.used = @ + z, !.data = @ - z] BY DEF WithEntry, s, e
  <1> HIDE DEF z
  <1>8. /\ m \in Page /\ SameFences(m, n) /\ m.link = n.link /\ m.slots = s /\ m.hints = n.hints
        /\ m.used = n.used + z /\ m.data = n.data - z
    <2>1. n.used + z \in Int /\ n.data - z \in Int BY <1>1, <1>5
    <2>2. QED BY <1>1, <1>6, <1>7, <2>1 DEF Page, SameFences
  <1> HIDE DEF m
  <1>9. Count(m) = c + 1 BY <1>6, <1>8 DEF Count
  <1>10. /\ PayLen(m) = PayLen(n) /\ Prefix(m) = Prefix(n) /\ (FencesAscend(m) <=> FencesAscend(n))
         /\ (\A w : KeyFits(m, w) <=> KeyFits(n, w))
         /\ (\A i, j : Slot(m, i).key = Slot(n, j).key => FullKey(m, i) = FullKey(n, j))
    BY <1>8, SameFenceParts
  <1>11. \A i \in SlotsOf(n) : i \in Nat /\ i < c BY <1>1 DEF SlotsOf
  <1>12. ASSUME NEW i \in SlotsOf(n), i < pos
         PROVE  Slot(m, i) = Slot(n, i) /\ FullKey(m, i) = FullKey(n, i)
    <2>1. i + 1 \in 1..(c + 1) /\ i + 1 < pos + 1 BY <1>1, <1>11, <1>12
    <2>2. Slot(m, i) = Slot(n, i) BY <1>6, <1>8, <2>1 DEF Slot
    <2>3. QED BY <1>10, <2>2
  <1>13. ASSUME NEW i \in SlotsOf(n), ~(i < pos)
         PROVE  Slot(m, i + 1) = Slot(n, i) /\ FullKey(m, i + 1) = FullKey(n, i)
    <2>1. i + 1 + 1 \in 1..(c + 1) /\ ~(i + 1 + 1 < pos + 1) /\ i + 1 + 1 # pos + 1
          /\ (i + 1 + 1) - 1 = i + 1
      BY <1>1, <1>11, <1>13
    <2>2. Slot(m, i + 1) = Slot(n, i) BY <1>6, <1>8, <2>1 DEF Slot
    <2>3. QED BY <1>10, <2>2
  <1>14. Slot(m, pos) = e /\ FullKey(m, pos) = k
    <2>1. pos + 1 \in 1..(c + 1) /\ ~(pos + 1 < pos + 1) BY <1>1
    <2>2. Slot(m, pos) = e BY <1>6, <1>8, <2>1 DEF Slot
    <2>3. FullKey(m, pos) = Prefix(m) \o Slot(m, pos).key BY DEF FullKey, Prefix
    <2>4. QED BY <1>3, <1>4, <1>10, <2>2, <2>3
  <1>15. Inserted(m, n, k, pay, pos) BY <1>4, <1>8, <1>9, <1>12, <1>13, <1>14 DEF Inserted
  <1>16. ASSUME NEW j \in SlotsOf(m)
         PROVE  /\ j \in Nat /\ j < c + 1
                /\ j < pos => j \in SlotsOf(n)
                /\ j > pos => j - 1 \in SlotsOf(n) /\ ~(j - 1 < pos) /\ (j - 1) + 1 = j
    BY <1>1, <1>9 DEF SlotsOf
  <1>17. ASSUME NEW j \in SlotsOf(m)
         PROVE  /\ j < pos => FullKey(m, j) = FullKey(n, j)
                /\ j = pos => FullKey(m, j) = k
                /\ j > pos => FullKey(m, j) = FullKey(n, j - 1)
    <2>1. CASE j < pos BY <1>12, <1>16, <2>1
    <2>2. CASE j = pos BY <1>14, <2>2
    <2>3. CASE j > pos
      <3>1. j - 1 \in SlotsOf(n) /\ ~(j - 1 < pos) /\ (j - 1) + 1 = j BY <1>16, <2>3
      <3>2. FullKey(m, (j - 1) + 1) = FullKey(n, j - 1) BY <1>13, <3>1
      <3>3. FullKey(m, j) = FullKey(n, j - 1) BY <3>1, <3>2
      <3>4. ~(j < pos) /\ j # pos BY <1>16, <2>3
      <3>5. QED BY <3>3, <3>4
    <2>4. QED BY <1>16, <2>1, <2>2, <2>3
  <1>18. ASSUME NEW i \in SlotsOf(n)
         PROVE  /\ FullKey(n, i) \in Words /\ KeyFits(n, FullKey(n, i))
                /\ i < pos => Less(FullKey(n, i), k)
                /\ ~(i < pos) => Less(k, FullKey(n, i))
    <2>1. FullKey(n, i) \in Words /\ KeyFits(n, FullKey(n, i))
      BY <1>1, SlotOfPage DEF Loose, KeysFitIn
    <2>2. QED BY <2>1, LessTotal
  <1>19. Sorted(m)
    <2> SUFFICES ASSUME NEW i \in SlotsOf(m), NEW j \in SlotsOf(m), i < j
                 PROVE  Less(FullKey(m, i), FullKey(m, j))
      BY DEF Sorted
    <2>1. i \in Nat /\ j \in Nat /\ pos \in Nat BY <1>1, <1>16
    <2>2. CASE j < pos
      <3>1. i < pos BY <2>1, <2>2
      <3>2. i \in SlotsOf(n) /\ j \in SlotsOf(n) BY <1>16, <2>2, <3>1
      <3>3. Less(FullKey(n, i), FullKey(n, j)) BY <3>2 DEF Loose, Sorted
      <3>4. QED BY <1>17, <2>2, <3>1, <3>3
    <2>3. CASE j = pos
      <3>1. i < pos BY <2>3
      <3>2. i \in SlotsOf(n) BY <1>16, <3>1
      <3>3. QED BY <1>17, <1>18, <2>3, <3>1, <3>2
    <2>4. CASE j > pos
      <3>1. j - 1 \in SlotsOf(n) /\ ~(j - 1 < pos) /\ FullKey(m, j) = FullKey(n, j - 1) BY <1>16, <1>17, <2>4
      <3>2. CASE i < pos
        <4>1. i \in SlotsOf(n) /\ FullKey(m, i) = FullKey(n, i) BY <1>16, <1>17, <3>2
        <4>2. i < j - 1 BY <2>1, <2>4, <3>2
        <4>3. QED BY <3>1, <4>1, <4>2 DEF Loose, Sorted
      <3>3. CASE i = pos BY <1>17, <1>18, <3>1, <3>3
      <3>4. CASE i > pos
        <4>1. i - 1 \in SlotsOf(n) /\ FullKey(m, i) = FullKey(n, i - 1) BY <1>16, <1>17, <3>4
        <4>2. i - 1 < j - 1 BY <2>1
        <4>3. QED BY <3>1, <4>1, <4>2 DEF Loose, Sorted
      <3>5. QED BY <2>1, <3>2, <3>3, <3>4
    <2>5. QED BY <2>1, <2>2, <2>3, <2>4
  <1>20. KeysFitIn(m)
    <2> SUFFICES ASSUME NEW j \in SlotsOf(m) PROVE KeyFits(n, FullKey(m, j)) BY <1>10 DEF KeysFitIn
    <2>1. CASE j < pos BY <1>16, <1>17, <1>18, <2>1
    <2>2. CASE j = pos BY <1>17, <2>2
    <2>3. CASE j > pos BY <1>16, <1>17, <1>18, <2>3
    <2>4. QED BY <1>16, <2>1, <2>2, <2>3
  <1>21. m.lower = n.lower /\ m.upper = n.upper BY <1>8 DEF SameFences
  <1>22. Counted(m)
    <2> DEFINE a == Len(n.lower)
               b == Len(n.upper)
               t == SizeOf(n.slots, PayLen(n))
    <2>1. n.used = a + b + t /\ n.data + n.used <= PageSize BY DEF Loose, Counted
    <2>2. a \in Nat /\ b \in Nat /\ t \in Nat BY <1>1, PageFacts, SizeType, WordFacts
    <2>3. SizeOf(m.slots, PayLen(m)) = t + z
      <3>1. SizeOf(m.slots, PayLen(m)) = t + Len(e.key) + PayLen(n) BY <1>6, <1>8, <1>10
      <3>2. Len(e.key) \in Nat BY <1>3, <1>4
      <3> HIDE DEF t
      <3>3. QED BY <1>1, <1>5, <2>2, <3>1, <3>2
    <2> HIDE DEF a, b, t
    <2>4. m.used = a + b + (t + z) BY <1>1, <1>5, <1>8, <2>1, <2>2
    <2>5. m.used = Len(m.lower) + Len(m.upper) + SizeOf(m.slots, PayLen(m)) BY <1>21, <2>3, <2>4 DEF a, b
    <2>6. m.data + m.used <= PageSize
      <3> DEFINE d == n.data
                 v == n.used
      <3>1. d \in Int /\ v \in Int /\ z \in Nat BY <1>1, <1>5
      <3>2. m.data = d - z /\ m.used = v + z /\ d + v <= PageSize BY <1>8, <2>1
      <3>3. PageSize \in Nat BY LayoutAssumption
      <3> HIDE DEF d, v
      <3>4. (d - z) + (v + z) = d + v BY <3>1
      <3>5. QED BY <3>2, <3>4
    <2>7. QED BY <2>5, <2>6 DEF Counted
  <1>23. Loose(m) BY <1>8, <1>10, <1>19, <1>20, <1>21, <1>22 DEF Loose
  <1>24. FreeSpace(m) = FreeSpace(n) - SpaceNeeded(n, Len(k))
    <2>1. SlotSize * (c + 1) = SlotSize * c + SlotSize /\ SlotSize * c \in Nat /\ SlotSize \in Nat
      BY <1>1, LayoutAssumption
    <2>2. FreeSpace(m) = m.data - SlotSize * (c + 1) BY <1>9 DEF FreeSpace
    <2> DEFINE x == SlotSize * c
    <2>3. FreeSpace(n) = n.data - x BY DEF FreeSpace
    <2>4. SpaceNeeded(n, Len(k)) = SlotSize + z BY <1>1, <1>3, <1>5, <2>1 DEF SpaceNeeded
    <2>5. FreeSpace(m) = (n.data - z) - (x + SlotSize) /\ x \in Nat BY <1>8, <2>1, <2>2
    <2> DEFINE y == n.data
    <2>6. y \in Int /\ z \in Nat /\ SlotSize \in Nat /\ x \in Nat BY <1>1, <1>5, <2>1
    <2>7. FreeSpace(m) = (y - z) - (x + SlotSize) /\ FreeSpace(n) = y - x BY <2>3, <2>5
    <2> HIDE DEF x, y
    <2>8. (y - z) - (x + SlotSize) = (y - x) - (SlotSize + z) BY <2>6
    <2>9. QED BY <2>4, <2>7, <2>8
  <1>25. QED BY <1>8, <1>12, <1>15, <1>23, <1>24 DEF m

\* The hints that updateHint keeps stand for slots before the new one.
LEMMA HintsUpdated ==
  ASSUME NEW n, PageOK(n), NEW m, Loose(m), m.hints = n.hints, Count(m) = Count(n) + 1,
         NEW pos \in 0..Count(n), \A i \in SlotsOf(n) : i < pos => Slot(m, i) = Slot(n, i)
  PROVE  LET u == UpdateHint(m, pos)
         IN PageOK(u) /\ Same(u, m) /\ u.slots = m.slots /\ u.used = m.used /\ u.data = m.data
  <1> DEFINE dist == HintDist(m)
             some == /\ Count(m) > HintCount * 2 + 1 /\ (Count(m) - 1) \div (HintCount + 1) = dist
                     /\ pos \div dist > 1
             b == IF some THEN pos \div dist - 1 ELSE 0
             u == HintsFrom(m, b)
  <1>1. /\ m \in Page /\ n \in Page /\ Count(n) \in Nat /\ Count(m) \in Nat
        /\ HintCount \in Nat /\ HintCount + 1 \in Nat \ {0}
    BY PageFacts, SearchAssumption DEF PageOK, Loose
  <1>2. dist \in Nat /\ HintDist(n) \in Nat BY <1>1, DivFacts DEF HintDist
  <1>3. UpdateHint(m, pos) = u BY DEF UpdateHint
  <1>4. some => /\ dist \in Nat \ {0} /\ dist = HintDist(n) /\ pos \div dist \in Nat
                /\ dist * (pos \div dist) <= pos
    <2> SUFFICES ASSUME some
                 PROVE  /\ dist \in Nat \ {0} /\ dist = HintDist(n) /\ pos \div dist \in Nat
                        /\ dist * (pos \div dist) <= pos
      OBVIOUS
    <2>1. Count(m) > HintCount * 2 BY <1>1
    <2>2. dist \in Nat \ {0} BY <1>1, <2>1, HintDistance
    <2>3. Count(m) - 1 = Count(n) BY <1>1
    <2>4. dist = HintDist(n) BY <2>3 DEF HintDist
    <2> HIDE DEF dist
    <2>5. pos \in Nat BY <1>1
    <2>6. QED BY <2>2, <2>4, <2>5, DivFacts
  <1>5. b \in Int BY <1>4
  <1> HIDE DEF dist
  <1>6. ASSUME NEW i \in 0..(HintCount - 1), i < b PROVE m.hints[i] = HeadAt(m, HintDist(m) * (i + 1))
    <2>1. some
      <3>1. b = 0 => FALSE BY <1>1, <1>6
      <3>2. QED BY <3>1
    <2>2. i \in Nat /\ i + 1 \in Nat /\ i + 1 < pos \div dist /\ i \in 0..(HintCount - 1)
      BY <1>1, <1>4, <1>6, <2>1
    <2> DEFINE at == dist * (i + 1)
               q == pos \div dist
    <2>3. dist \in Nat \ {0} /\ q \in Nat /\ dist * q <= pos BY <1>4, <2>1
    <2>4. dist * (i + 1) \in Nat /\ dist * (i + 1) + dist <= dist * q
      <3>1. i + 1 \in Nat /\ q \in Nat /\ i + 1 <= q /\ i + 1 < q BY <2>2, <2>3
      <3> HIDE DEF q
      <3>2. QED BY <2>3, <3>1, ProductOrder
    <2> HIDE DEF q, b
    <2>5. at \in Nat /\ at + dist <= dist * q /\ dist * q \in Int
      <3>1. dist * q \in Int BY <2>3
      <3>2. QED BY <2>4, <3>1
    <2> HIDE DEF at
    <2>6. at < pos BY <1>1, <2>3, <2>5
    <2>7. at \in SlotsOf(n) /\ at < Count(n) /\ at < Count(m) BY <1>1, <2>5, <2>6 DEF SlotsOf
    <2>8. HeadAt(m, at) = HeadAt(n, at) BY <2>6, <2>7 DEF HeadAt
    <2>9. n.hints[i] = HeadAt(n, HintDist(n) * (i + 1)) BY <2>2 DEF PageOK, HintsRight
    <2>10. HintDist(n) * (i + 1) = at /\ HintDist(m) * (i + 1) = at BY <1>4, <2>1 DEF at, dist
    <2>11. QED BY <2>8, <2>9, <2>10
  <1> HIDE DEF b
  <1>7. /\ u \in Page /\ SameFences(u, m) /\ u.slots = m.slots /\ u.link = m.link
        /\ u.used = m.used /\ u.data = m.data
        /\ \A i \in 0..(HintCount - 1) :
             u.hints[i] = IF i < b THEN m.hints[i] ELSE HeadAt(m, HintDist(m) * (i + 1))
    BY <1>1, <1>5, HintsRenewed
  <1> HIDE DEF u
  <1>8. \A i \in 0..(HintCount - 1) : u.hints[i] = HeadAt(m, HintDist(m) * (i + 1)) BY <1>6, <1>7
  <1>9. HintDist(u) = HintDist(m) /\ \A i : HeadAt(u, i) = HeadAt(m, i) BY <1>7, SameSlotParts
  <1>10. HintsRight(u) BY <1>8, <1>9 DEF HintsRight
  <1>11. /\ Loose(u) /\ Count(u) = Count(m)
         /\ \A i : FullKey(u, i) = FullKey(m, i) /\ Slot(u, i) = Slot(m, i)
    BY <1>7, SameContent
  <1>12. PageOK(u) BY <1>10, <1>11 DEF PageOK
  <1>13. Same(u, m) BY <1>7, <1>11 DEF Same
  <1>14. QED BY <1>3, <1>7, <1>12, <1>13

\* Inserted does not tell pages with the same entries apart.
LEMMA InsertedSame ==
  ASSUME NEW n, NEW n1, NEW m, NEW m1, NEW k, NEW pay, NEW pos, Count(n) \in Nat,
         Same(n1, n), Inserted(m1, n1, k, pay, pos), Same(m, m1)
  PROVE  Inserted(m, n, k, pay, pos)
  <1>1. /\ SlotsOf(n1) = SlotsOf(n) /\ SlotsOf(m1) = SlotsOf(m) /\ Count(m1) = Count(n) + 1
        /\ Count(n1) = Count(n) /\ Count(m) = Count(n) + 1 /\ pos \in 0..Count(n)
    BY DEF Same, SlotsOf, Inserted
  <1>2. SameFences(m, n) /\ m.link = n.link BY DEF Same, SameFences, Inserted
  <1>3. /\ pos \in SlotsOf(m1) /\ pos \in Nat
        /\ \A i \in SlotsOf(n) : i \in Nat /\ i \in SlotsOf(m1) /\ i + 1 \in SlotsOf(m1)
    BY <1>1 DEF SlotsOf
  <1>4. \A i \in SlotsOf(m1) : FullKey(m, i) = FullKey(m1, i) /\ Slot(m, i).pay = Slot(m1, i).pay
    BY DEF Same
  <1>5. \A i \in SlotsOf(n) : FullKey(n1, i) = FullKey(n, i) /\ Slot(n1, i).pay = Slot(n, i).pay
    BY DEF Same
  <1>6. FullKey(m, pos) = k /\ Slot(m, pos).pay = pay BY <1>3, <1>4 DEF Inserted
  <1>7. \A i \in SlotsOf(n) : i < pos <=> Less(FullKey(n, i), k) BY <1>1, <1>5 DEF Inserted
  <1>8. \A i \in SlotsOf(n) : i < pos => FullKey(m, i) = FullKey(n, i) /\ Slot(m, i).pay = Slot(n, i).pay
    BY <1>1, <1>3, <1>4, <1>5 DEF Inserted
  <1>9. \A i \in SlotsOf(n) : ~(i < pos) =>
          FullKey(m, i + 1) = FullKey(n, i) /\ Slot(m, i + 1).pay = Slot(n, i).pay
    BY <1>1, <1>3, <1>4, <1>5 DEF Inserted
  <1>10. QED BY <1>1, <1>2, <1>6, <1>7, <1>8, <1>9 DEF Inserted

LEMMA SameIsReflexive == \A n : Same(n, n) BY DEF Same, SameFences

LEMMA KeyInserted ==
  ASSUME NEW n, PageOK(n), NEW k \in Words, KeyFits(n, k), NEW pay \in Int,
         \A i \in SlotsOf(n) : FullKey(n, i) # k
  PROVE  LET m == InsertInPage(n, k, pay)
         IN /\ PageOK(m)
            /\ Inserted(m, n, k, pay, LowerBound(n, k)[1])
            /\ HasSpaceFor(n, Len(k)) => FreeSpace(m) >= 0
  <1> DEFINE c == IF SpaceNeeded(n, Len(k)) > FreeSpace(n) THEN Compactified(n) ELSE n
             pos == LowerBound(c, k)[1]
             e == WithEntry(c, k, pay, pos)
             m == UpdateHint(e, pos)
  <1>1. InsertInPage(n, k, pay) = m BY DEF InsertInPage, WithEntry, EntryLen
  <1>2. Loose(n) /\ n \in Page /\ Count(n) \in Nat BY PageFacts DEF PageOK, Loose
  <1>3. /\ PageOK(c) /\ Same(c, n)
        /\ HasSpaceFor(n, Len(k)) => SpaceNeeded(n, Len(k)) <= FreeSpace(c)
    <2>1. CASE SpaceNeeded(n, Len(k)) > FreeSpace(n)
      <3>1. c = Compactified(n) BY <2>1
      <3>2. PageOK(c) /\ Same(c, n) /\ FreeSpace(c) = FreeAfter(n) BY <1>2, <3>1, CompactedIsSame
      <3>3. QED BY <3>2 DEF HasSpaceFor
    <2>2. CASE ~(SpaceNeeded(n, Len(k)) > FreeSpace(n))
      <3>1. c = n BY <2>2
      <3>2. SpaceNeeded(n, Len(k)) \in Int /\ FreeSpace(n) \in Int
        <4>1. /\ Len(k) \in Nat /\ PrefixLen(n) \in Nat /\ PayLen(n) \in Nat /\ n.data \in Int
              /\ SlotSize \in Nat
          BY <1>2, WordFacts, PrefixFacts, PageFacts, LayoutAssumption
        <4>2. SlotSize * Count(n) \in Nat BY <1>2, <4>1
        <4>3. QED BY <4>1, <4>2 DEF SpaceNeeded, FreeSpace
      <3>3. SpaceNeeded(n, Len(k)) <= FreeSpace(n) BY <2>2, <3>2
      <3>4. QED BY <3>1, <3>3, SameIsReflexive
    <2>3. QED BY <2>1, <2>2
  <1> HIDE DEF c
  <1>4. Loose(c) /\ c \in Page /\ Count(c) = Count(n) /\ SlotsOf(c) = SlotsOf(n) /\ SameFences(c, n)
    BY <1>3 DEF PageOK, Loose, Same, SlotsOf
  <1>5. \A i \in SlotsOf(n) : FullKey(c, i) = FullKey(n, i) BY <1>3 DEF Same
  <1>6. KeyFits(c, k) /\ SpaceNeeded(c, Len(k)) = SpaceNeeded(n, Len(k))
    BY <1>4, SameFenceParts DEF SpaceNeeded
  <1>7. IsLowerBound(c, k, LowerBound(c, k)) /\ IsLowerBound(n, k, LowerBound(n, k))
    BY <1>2, <1>3, <1>4, LowerBoundIsRight DEF PageOK, Loose
  <1>8. pos \in 0..Count(c) /\ \A i \in SlotsOf(c) : i < pos <=> Less(FullKey(c, i), k)
    BY <1>7 DEF IsLowerBound
  <1>9. pos = LowerBound(n, k)[1]
    <2> DEFINE q == LowerBound(n, k)[1]
    <2>1. q \in 0..Count(n) /\ \A i \in SlotsOf(n) : i < q <=> Less(FullKey(n, i), k)
      BY <1>7 DEF IsLowerBound
    <2>2. \A i \in SlotsOf(n) : i < q <=> i < pos BY <1>4, <1>5, <1>8, <2>1
    <2> HIDE DEF q, pos
    <2>3. q \in Nat /\ pos \in Nat /\ q <= Count(n) /\ pos <= Count(n) BY <1>2, <1>4, <1>8, <2>1
    <2>4. ~(q < pos)
      <3> SUFFICES ASSUME q < pos PROVE FALSE OBVIOUS
      <3>1. q \in SlotsOf(n) BY <1>2, <2>3 DEF SlotsOf
      <3>2. QED BY <2>2, <2>3, <3>1
    <2>5. ~(pos < q)
      <3> SUFFICES ASSUME pos < q PROVE FALSE OBVIOUS
      <3>1. pos \in SlotsOf(n) BY <1>2, <2>3 DEF SlotsOf
      <3>2. QED BY <2>2, <2>3, <3>1
    <2>6. pos = q BY <2>3, <2>4, <2>5
    <2>7. QED BY <2>6 DEF q
  <1> HIDE DEF pos
  <1>10. /\ Loose(e) /\ Inserted(e, c, k, pay, pos) /\ e.hints = c.hints
         /\ \A i \in SlotsOf(c) : i < pos => Slot(e, i) = Slot(c, i)
         /\ FreeSpace(e) = FreeSpace(c) - SpaceNeeded(c, Len(k))
    BY <1>4, <1>5, <1>6, <1>8, EntrySet
  <1> HIDE DEF e
  <1>11. Count(e) = Count(c) + 1 BY <1>10 DEF Inserted
  <1>12. PageOK(m) /\ Same(m, e) /\ m.slots = e.slots /\ m.used = e.used /\ m.data = e.data
    BY <1>3, <1>8, <1>10, <1>11, HintsUpdated
  <1> HIDE DEF m
  <1>13. Inserted(m, n, k, pay, pos) BY <1>2, <1>3, <1>10, <1>12, InsertedSame
  <1>14. HasSpaceFor(n, Len(k)) => FreeSpace(m) >= 0
    <2>1. FreeSpace(m) = FreeSpace(e) BY <1>12 DEF FreeSpace, Same
    <2>2. FreeSpace(m) = FreeSpace(c) - SpaceNeeded(n, Len(k)) BY <1>6, <1>10, <2>1
    <2>3. FreeSpace(c) \in Int /\ SpaceNeeded(n, Len(k)) \in Int
      <3>1. /\ Len(k) \in Nat /\ PrefixLen(n) \in Nat /\ PayLen(n) \in Nat /\ c.data \in Int
            /\ SlotSize \in Nat
        BY <1>2, <1>4, WordFacts, PrefixFacts, PageFacts, LayoutAssumption
      <3>2. SlotSize * Count(c) \in Nat BY <1>2, <1>4, <3>1
      <3>3. QED BY <3>1, <3>2 DEF SpaceNeeded, FreeSpace
    <2>4. QED BY <1>3, <2>2, <2>3
  <1>15. QED BY <1>1, <1>9, <1>12, <1>13, <1>14

\* A page m that is page n without its slot.
Removed(m, n, slot) ==
  /\ SameFences(m, n) /\ m.link = n.link /\ Count(m) = Count(n) - 1
  /\ \A i \in SlotsOf(n) : i < slot => FullKey(m, i) = FullKey(n, i) /\ Slot(m, i).pay = Slot(n, i).pay
  /\ \A i \in SlotsOf(n) : i > slot =>
       FullKey(m, i - 1) = FullKey(n, i) /\ Slot(m, i - 1).pay = Slot(n, i).pay

LEMMA SlotTakenOut ==
  ASSUME NEW n, Loose(n), NEW slot \in SlotsOf(n)
  PROVE  LET m == RemoveSlot(n, slot)
         IN /\ PageOK(m) /\ Removed(m, n, slot)
            /\ FreeSpace(n) >= 0 => FreeSpace(m) >= 0
  <1> DEFINE s == RemoveAt(n.slots, slot + 1)
             z == EntrySize(n, slot)
             e == [n EXCEPT !.slots = s, !.used = @ - z]
             m == MakeHint(e)
             c == Count(n)
  <1>1. /\ n \in Page /\ n.slots \in Seq(SlotSet) /\ n.used \in Int /\ n.data \in Int /\ c \in Nat
        /\ PayLen(n) \in Nat /\ c = Len(n.slots)
    BY PageFacts DEF Loose, Count
  <1>2. \A i \in SlotsOf(n) : i \in Nat /\ i < c BY <1>1 DEF SlotsOf
  <1>3. z \in Nat /\ z = Len(Slot(n, slot).key) + PayLen(n) /\ Len(Slot(n, slot).key) \in Nat
    BY <1>1, SlotOfPage DEF EntrySize
  <1>4. /\ s \in Seq(SlotSet) /\ Len(s) = c - 1
        /\ \A j \in 1..(c - 1) : s[j] = IF j < slot + 1 THEN n.slots[j] ELSE n.slots[j + 1]
        /\ SizeOf(s, PayLen(n)) = SizeOf(n.slots, PayLen(n)) - Len(Slot(n, slot).key) - PayLen(n)
    <2> DEFINE q == slot + 1
    <2>1. q \in 1..Len(n.slots) BY <1>1, <1>2
    <2>2. s = RemoveAt(n.slots, q) /\ n.slots[q] = Slot(n, slot) BY DEF Slot
    <2> HIDE DEF s, q
    <2>3. /\ s \in Seq(SlotSet) /\ Len(s) = Len(n.slots) - 1
          /\ \A j \in 1..(Len(n.slots) - 1) : s[j] = IF j < q THEN n.slots[j] ELSE n.slots[j + 1]
          /\ SizeOf(s, PayLen(n)) = SizeOf(n.slots, PayLen(n)) - Len(n.slots[q].key) - PayLen(n)
      BY <1>1, <2>1, <2>2, SlotRemoved
    <2>4. QED BY <1>1, <2>2, <2>3 DEF q
  <1> HIDE DEF s, z
  <1>5. /\ e \in Page /\ SameFences(e, n) /\ e.link = n.link /\ e.slots = s
        /\ e.used = n.used - z /\ e.data = n.data
    <2>1. n.used - z \in Int BY <1>1, <1>3
    <2>2. QED BY <1>1, <1>4, <2>1 DEF Page, SameFences
  <1>6. RemoveSlot(n, slot) = m BY DEF RemoveSlot, s, z
  <1> HIDE DEF e
  <1>7. Count(e) = c - 1 BY <1>4, <1>5 DEF Count
  <1>8. /\ PayLen(e) = PayLen(n) /\ (FencesAscend(e) <=> FencesAscend(n))
        /\ (\A w : KeyFits(e, w) <=> KeyFits(n, w))
        /\ (\A i, j : Slot(e, i).key = Slot(n, j).key => FullKey(e, i) = FullKey(n, j))
    BY <1>5, SameFenceParts
  <1>9. ASSUME NEW i \in SlotsOf(n), i < slot
        PROVE  Slot(e, i) = Slot(n, i) /\ FullKey(e, i) = FullKey(n, i)
    <2>1. i + 1 \in 1..(c - 1) /\ i + 1 < slot + 1 BY <1>1, <1>2, <1>9
    <2>2. Slot(e, i) = Slot(n, i) BY <1>4, <1>5, <2>1 DEF Slot
    <2>3. QED BY <1>8, <2>2
  <1>10. ASSUME NEW i \in SlotsOf(n), i > slot
         PROVE  Slot(e, i - 1) = Slot(n, i) /\ FullKey(e, i - 1) = FullKey(n, i)
    <2>1. (i - 1) + 1 \in 1..(c - 1) /\ ~((i - 1) + 1 < slot + 1) /\ ((i - 1) + 1) + 1 = i + 1
      BY <1>1, <1>2, <1>10
    <2>2. Slot(e, i - 1) = Slot(n, i) BY <1>4, <1>5, <2>1 DEF Slot
    <2>3. QED BY <1>8, <2>2
  <1>11. ASSUME NEW j \in SlotsOf(e)
         PROVE  /\ j \in Nat
                /\ j < slot => j \in SlotsOf(n) /\ FullKey(e, j) = FullKey(n, j)
                /\ ~(j < slot) => j + 1 \in SlotsOf(n) /\ FullKey(e, j) = FullKey(n, j + 1)
    <2>1. j \in Nat /\ j < c - 1 BY <1>1, <1>7 DEF SlotsOf
    <2>2. CASE j < slot
      <3>1. j \in SlotsOf(n) BY <1>1, <2>1 DEF SlotsOf
      <3>2. QED BY <1>9, <2>1, <2>2, <3>1
    <2>3. CASE ~(j < slot)
      <3>1. j + 1 \in SlotsOf(n) /\ j + 1 > slot /\ (j + 1) - 1 = j BY <1>1, <1>2, <2>1, <2>3 DEF SlotsOf
      <3>2. FullKey(e, (j + 1) - 1) = FullKey(n, j + 1) BY <1>10, <3>1
      <3>3. FullKey(e, j) = FullKey(n, j + 1) BY <3>1, <3>2
      <3>4. QED BY <2>1, <2>3, <3>1, <3>3
    <2>4. QED BY <2>2, <2>3
  <1>12. Sorted(e)
    <2> SUFFICES ASSUME NEW i \in SlotsOf(e), NEW j \in SlotsOf(e), i < j
                 PROVE  Less(FullKey(e, i), FullKey(e, j))
      BY DEF Sorted
    <2>1. i \in Nat /\ j \in Nat /\ slot \in Nat BY <1>2, <1>11
    <2>2. CASE j < slot
      <3>1. i < slot BY <2>1, <2>2
      <3>2. QED BY <1>11, <2>2, <3>1 DEF Loose, Sorted
    <2>3. CASE i < slot /\ ~(j < slot)
      <3>1. i < j + 1 BY <2>1
      <3>2. QED BY <1>11, <2>3, <3>1 DEF Loose, Sorted
    <2>4. CASE ~(i < slot)
      <3>1. ~(j < slot) /\ i + 1 < j + 1 BY <2>1, <2>4
      <3>2. QED BY <1>11, <2>4, <3>1 DEF Loose, Sorted
    <2>5. QED BY <2>2, <2>3, <2>4
  <1>13. KeysFitIn(e)
    <2> SUFFICES ASSUME NEW j \in SlotsOf(e) PROVE KeyFits(n, FullKey(e, j)) BY <1>8 DEF KeysFitIn
    <2>1. QED BY <1>11 DEF Loose, KeysFitIn
  <1>14. e.lower = n.lower /\ e.upper = n.upper BY <1>5 DEF SameFences
  <1>15. Counted(e)
    <2> DEFINE a == Len(n.lower)
               b == Len(n.upper)
               t == SizeOf(n.slots, PayLen(n))
    <2>1. n.used = a + b + t /\ n.data + n.used <= PageSize BY DEF Loose, Counted
    <2>2. a \in Nat /\ b \in Nat /\ t \in Nat /\ PageSize \in Nat
      BY <1>1, PageFacts, SizeType, WordFacts, LayoutAssumption
    <2>3. SizeOf(e.slots, PayLen(e)) = t - z
      <3>1. SizeOf(e.slots, PayLen(e)) = t - Len(Slot(n, slot).key) - PayLen(n) BY <1>4, <1>5, <1>8
      <3> HIDE DEF t
      <3>2. QED BY <1>1, <1>3, <2>2, <3>1
    <2> HIDE DEF a, b, t
    <2>4. e.used = a + b + (t - z) BY <1>1, <1>3, <1>5, <2>1, <2>2
    <2>5. e.used = Len(e.lower) + Len(e.upper) + SizeOf(e.slots, PayLen(e)) BY <1>14, <2>3, <2>4 DEF a, b
    <2>6. e.data + e.used <= PageSize BY <1>1, <1>3, <1>5, <2>1, <2>2
    <2>7. QED BY <2>5, <2>6 DEF Counted
  <1>16. Loose(e) BY <1>5, <1>8, <1>12, <1>13, <1>14, <1>15 DEF Loose
  <1>17. PageOK(m) /\ Same(m, e) /\ m.data = e.data BY <1>16, Hinted
  <1> HIDE DEF m
  <1>18. Removed(m, n, slot)
    <2>1. SameFences(m, n) /\ m.link = n.link /\ Count(m) = c - 1
      BY <1>5, <1>7, <1>17 DEF Same, SameFences
    <2>2. \A i \in SlotsOf(n) : /\ i < slot => i \in SlotsOf(e)
                                /\ i > slot => i - 1 \in SlotsOf(e)
      BY <1>1, <1>2, <1>7 DEF SlotsOf
    <2>3. \A i \in SlotsOf(n) : i < slot => FullKey(m, i) = FullKey(n, i) /\ Slot(m, i).pay = Slot(n, i).pay
      BY <1>9, <1>17, <2>2 DEF Same
    <2>4. \A i \in SlotsOf(n) : i > slot =>
            FullKey(m, i - 1) = FullKey(n, i) /\ Slot(m, i - 1).pay = Slot(n, i).pay
      BY <1>10, <1>17, <2>2 DEF Same
    <2>5. QED BY <2>1, <2>3, <2>4 DEF Removed
  <1>19. FreeSpace(n) >= 0 => FreeSpace(m) >= 0
    <2> DEFINE x == SlotSize * c
               y == SlotSize * (c - 1)
    <2>1. x = y + SlotSize /\ x \in Nat /\ y \in Int /\ SlotSize \in Nat BY <1>1, LayoutAssumption
    <2>2. FreeSpace(n) = n.data - x /\ FreeSpace(m) = n.data - y
      BY <1>5, <1>17, <1>18 DEF FreeSpace, Removed
    <2> HIDE DEF x, y
    <2>3. QED BY <1>1, <2>1, <2>2
  <1>20. QED BY <1>6, <1>17, <1>18, <1>19

\* Another payload in a slot, as a child is replaced.
LEMMA SlotRepaid ==
  ASSUME NEW n, PageOK(n), NEW at \in SlotsOf(n), NEW pay \in Int
  PROVE  LET m == [n EXCEPT !.slots[at + 1].pay = pay]
         IN /\ PageOK(m) /\ SameFences(m, n) /\ m.link = n.link /\ Count(m) = Count(n)
            /\ m.used = n.used /\ m.data = n.data
            /\ \A i \in SlotsOf(n) : FullKey(m, i) = FullKey(n, i)
            /\ \A i \in SlotsOf(n) : Slot(m, i).pay = IF i = at THEN pay ELSE Slot(n, i).pay
  <1> DEFINE s == [n.slots EXCEPT ![at + 1].pay = pay]
             m == [n EXCEPT !.slots[at + 1].pay = pay]
             c == Count(n)
  <1>1. /\ n \in Page /\ n.slots \in Seq(SlotSet) /\ c \in Nat /\ PayLen(n) \in Nat /\ c = Len(n.slots)
    BY PageFacts DEF PageOK, Loose, Count
  <1>2. at + 1 \in 1..c /\ DOMAIN n.slots = 1..c /\ n.slots \in [1..c -> SlotSet] BY <1>1 DEF SlotsOf
  <1>3. /\ s \in [1..c -> SlotSet]
        /\ \A j \in 1..c : /\ s[j].key = n.slots[j].key
                           /\ s[j].pay = IF j = at + 1 THEN pay ELSE n.slots[j].pay
    BY <1>2 DEF SlotSet
  <1>4. m = [n EXCEPT !.slots = s] BY <1>1 DEF Page
  <1> HIDE DEF s
  <1>5. s \in Seq(SlotSet) /\ Len(s) = c BY <1>1, <1>3
  <1>6. /\ m \in Page /\ SameFences(m, n) /\ m.link = n.link /\ m.slots = s /\ m.hints = n.hints
        /\ m.used = n.used /\ m.data = n.data
    BY <1>1, <1>4, <1>5 DEF Page, SameFences
  <1> HIDE DEF m
  <1>7. Count(m) = c /\ SlotsOf(m) = SlotsOf(n) BY <1>5, <1>6 DEF Count, SlotsOf
  <1>8. /\ PayLen(m) = PayLen(n) /\ (FencesAscend(m) <=> FencesAscend(n))
        /\ (\A w : KeyFits(m, w) <=> KeyFits(n, w))
        /\ (\A i, j : Slot(m, i).key = Slot(n, j).key => FullKey(m, i) = FullKey(n, j))
    BY <1>6, SameFenceParts
  <1>9. ASSUME NEW i \in SlotsOf(n)
        PROVE  /\ Slot(m, i).key = Slot(n, i).key /\ FullKey(m, i) = FullKey(n, i)
               /\ Slot(m, i).pay = IF i = at THEN pay ELSE Slot(n, i).pay
    <2>1. i + 1 \in 1..c /\ (i + 1 = at + 1 <=> i = at) BY <1>1 DEF SlotsOf
    <2>2. /\ Slot(m, i).key = Slot(n, i).key
          /\ Slot(m, i).pay = IF i = at THEN pay ELSE Slot(n, i).pay
      BY <1>3, <1>6, <2>1 DEF Slot
    <2>3. QED BY <1>8, <2>2
  <1>10. Sorted(m) /\ KeysFitIn(m) BY <1>7, <1>8, <1>9 DEF PageOK, Loose, Sorted, KeysFitIn
  <1>11. m.lower = n.lower /\ m.upper = n.upper BY <1>6 DEF SameFences
  <1>12. Counted(m)
    <2>1. SizeOf(m.slots, PayLen(m)) = SizeOf(n.slots, PayLen(n))
      <3>1. \A j \in 1..Len(s) : Len(s[j].key) = Len(n.slots[j].key) + 0
        BY <1>1, <1>3, <1>5, SlotFacts
      <3>2. SizeOf(s, PayLen(n)) = SizeOf(n.slots, PayLen(n)) + 0 * Len(n.slots)
        <4>1. Len(s) = Len(n.slots) /\ 0 \in Int BY <1>1, <1>5
        <4>2. QED BY <1>1, <1>5, <3>1, <4>1, SizeShift
      <3>3. 0 * Len(n.slots) = 0 /\ SizeOf(n.slots, PayLen(n)) \in Nat BY <1>1, SizeType
      <3>4. SizeOf(s, PayLen(n)) = SizeOf(n.slots, PayLen(n)) BY <3>2, <3>3
      <3>5. QED BY <1>6, <1>8, <3>4
    <2>2. QED BY <1>6, <1>11, <2>1 DEF PageOK, Loose, Counted
  <1>13. HintsRight(m)
    <2>1. HintDist(m) = HintDist(n) BY <1>7 DEF HintDist
    <2>2. ASSUME NEW i \in Nat PROVE HeadAt(m, i) = HeadAt(n, i)
      <3>1. CASE i < c
        <4>1. i \in SlotsOf(n) BY <1>1, <3>1 DEF SlotsOf
        <4>2. QED BY <1>7, <1>9, <4>1 DEF HeadAt
      <3>2. CASE ~(i < c) BY <1>7, <3>2 DEF HeadAt
      <3>3. QED BY <3>1, <3>2
    <2>3. \A i \in 0..(HintCount - 1) : HintDist(n) * (i + 1) \in Nat
      <3>1. HintCount + 1 \in Nat \ {0} /\ HintCount \in Nat BY SearchAssumption
      <3>2. HintDist(n) \in Nat BY <1>1, <3>1, DivFacts DEF HintDist
      <3>3. QED BY <3>1, <3>2
    <2>4. QED BY <1>6, <2>1, <2>2, <2>3 DEF PageOK, HintsRight
  <1>14. PageOK(m) BY <1>6, <1>8, <1>10, <1>11, <1>12, <1>13 DEF PageOK, Loose
  <1>15. QED BY <1>6, <1>7, <1>9, <1>14 DEF m

-------------------------------------------------------------------------------
(* Separators.                                                                   *)

LEMMA HeadOfConcat ==
  ASSUME NEW p \in Words, NEW b \in Words, NEW m \in 0..Len(b)
  PROVE  SubSeq(p \o b, 1, Len(p) + m) = p \o SubSeq(b, 1, m)
  <1> DEFINE u == SubSeq(p \o b, 1, Len(p) + m)
             t == SubSeq(b, 1, m)
             v == p \o t
             w == p \o b
             l == Len(p) + m
  <1>1. Len(p) \in Nat /\ Len(b) \in Nat /\ m \in Nat BY WordFacts
  <1>2. w \in Words /\ Len(w) = Len(p) + Len(b)
        /\ \A j \in 1..(Len(p) + Len(b)) : w[j] = IF j <= Len(p) THEN p[j] ELSE b[j - Len(p)]
    BY ConcatWord
  <1>3. t \in Words /\ Len(t) = m /\ \A j \in 1..m : t[j] = b[j]
    <2>1. t \in Words /\ Len(t) = m - 1 + 1 /\ \A j \in 1..(m - 1 + 1) : t[j] = b[1 + j - 1]
      BY <1>1, SubWord
    <2> HIDE DEF t
    <2>2. QED BY <1>1, <2>1
  <1> HIDE DEF t, w
  <1>4. v \in Words /\ Len(v) = Len(p) + Len(t)
        /\ \A j \in 1..(Len(p) + Len(t)) : v[j] = IF j <= Len(p) THEN p[j] ELSE t[j - Len(p)]
    BY <1>3, ConcatWord
  <1>5. u = SubSeq(w, 1, l) BY DEF w
  <1>6. l \in Nat /\ l \in (1 - 1)..Len(w) BY <1>1, <1>2
  <1> HIDE DEF u, v, l
  <1>7. u \in Words /\ Len(u) = l /\ \A j \in 1..l : u[j] = w[j]
    <2>1. u \in Words /\ Len(u) = l - 1 + 1 /\ \A j \in 1..(l - 1 + 1) : u[j] = w[1 + j - 1]
      BY <1>2, <1>5, <1>6, SubWord
    <2>2. QED BY <1>6, <2>1
  <1>8. ASSUME NEW j \in 1..l PROVE u[j] = v[j]
    <2>1. j \in Nat /\ j >= 1 /\ j <= Len(p) + m BY <1>6 DEF l
    <2>2. j \in 1..(Len(p) + Len(b)) /\ j \in 1..(Len(p) + Len(t)) BY <1>1, <1>3, <2>1
    <2>3. CASE j <= Len(p) BY <1>2, <1>4, <1>7, <2>2, <2>3
    <2>4. CASE ~(j <= Len(p))
      <3>1. j - Len(p) \in 1..m BY <1>1, <2>1, <2>4
      <3>2. t[j - Len(p)] = b[j - Len(p)] BY <1>3, <3>1
      <3>3. QED BY <1>2, <1>4, <1>7, <2>2, <2>4, <3>2
    <2>5. QED BY <2>3, <2>4
  <1>9. Len(v) = l BY <1>3, <1>4 DEF l
  <1>10. u = v BY <1>4, <1>7, <1>8, <1>9, SeqEqual DEF Words
  <1>11. QED BY <1>10 DEF u, v, t

\* The first bytes of the greater of two keys up to the first difference, if there are more.
LEMMA FirstDifference ==
  ASSUME NEW a \in Words, NEW b \in Words, Less(a, b),
         Len(a) > SharedLen(a, b), Len(b) > SharedLen(a, b) + 1
  PROVE  LET t == SubSeq(b, 1, SharedLen(a, b) + 1)
         IN t \in Words /\ Len(t) = SharedLen(a, b) + 1 /\ Less(a, t) /\ Less(t, b)
  <1> DEFINE c == SharedLen(a, b)
             t == SubSeq(b, 1, c + 1)
  <1>1. /\ c \in Nat /\ c <= Len(a) /\ c <= Len(b) /\ Len(a) \in Nat /\ Len(b) \in Nat
        /\ \A j \in 1..c : a[j] = b[j]
    BY SharedLenFacts, WordFacts
  <1>2. a[c + 1] < b[c + 1] BY <1>1 DEF Less
  <1> HIDE DEF c
  <1>3. t \in Words /\ Len(t) = c + 1 /\ \A j \in 1..(c + 1) : t[j] = b[j]
    <2> DEFINE d == c + 1
    <2>1. d \in Nat /\ d \in (1 - 1)..Len(b) BY <1>1 DEF c
    <2> HIDE DEF d
    <2>2. /\ SubSeq(b, 1, d) \in Words /\ Len(SubSeq(b, 1, d)) = d - 1 + 1
          /\ \A j \in 1..(d - 1 + 1) : SubSeq(b, 1, d)[j] = b[1 + j - 1]
      BY <1>1, <2>1, SubWord
    <2>3. /\ SubSeq(b, 1, d) \in Words /\ Len(SubSeq(b, 1, d)) = d
          /\ \A j \in 1..d : SubSeq(b, 1, d)[j] = b[j]
      BY <2>1, <2>2
    <2>4. QED BY <2>3 DEF d
  <1> HIDE DEF t
  <1>4. \A j \in 1..c : j \in 1..(c + 1) BY <1>1
  <1>5. c + 1 \in 1..(c + 1) BY <1>1
  <1>6. LessAt(a, t, c) BY <1>1, <1>2, <1>3, <1>4, <1>5 DEF LessAt
  <1>7. LessAt(t, b, c + 1)
    <2>1. c + 1 < Len(b) BY DEF c
    <2>2. QED BY <1>1, <1>3, <2>1 DEF LessAt
  <1>8. Less(a, t) /\ Less(t, b) BY <1>1, <1>3, <1>6, <1>7, LessIsAt
  <1>9. QED BY <1>3, <1>8 DEF c, t

\* A separator: what is up to slot is not greater, what is behind it is.
Divides(n, slot, sep) ==
  /\ sep \in Words /\ sep # <<>> /\ Short(sep) /\ Within(n, sep) /\ sep # n.upper
  /\ Len(sep) <= Len(FullKey(n, slot))
  /\ ~Less(sep, FullKey(n, slot))
  /\ \A i \in SlotsOf(n) : i > slot => Less(sep, FullKey(n, i))
  /\ ~n.leaf => sep = FullKey(n, slot)

\* The order of the keys of a page.
LEMMA KeysAscend ==
  ASSUME NEW n, Loose(n), NEW i \in SlotsOf(n), NEW j \in SlotsOf(n)
  PROVE  /\ i \in Nat /\ j \in Nat
         /\ FullKey(n, i) \in Words /\ KeyFits(n, FullKey(n, i)) /\ Len(FullKey(n, i)) \in Nat
         /\ i < j => Less(FullKey(n, i), FullKey(n, j)) /\ ~Less(FullKey(n, j), FullKey(n, i))
         /\ i <= j => ~Less(FullKey(n, j), FullKey(n, i))
  <1>1. n \in Page /\ i \in Nat /\ j \in Nat BY SlotOfPage DEF Loose
  <1>2. FullKey(n, i) \in Words /\ FullKey(n, j) \in Words BY <1>1, SlotOfPage
  <1>3. KeyFits(n, FullKey(n, i)) /\ Len(FullKey(n, i)) \in Nat BY <1>2, WordFacts DEF Loose, KeysFitIn
  <1>4. i < j => Less(FullKey(n, i), FullKey(n, j)) BY DEF Loose, Sorted
  <1>5. i < j => ~Less(FullKey(n, j), FullKey(n, i)) BY <1>2, <1>4, LessAsymmetric
  <1>6. i = j => ~Less(FullKey(n, j), FullKey(n, i)) BY <1>2, LessIrreflexive
  <1>7. i <= j => ~Less(FullKey(n, j), FullKey(n, i)) BY <1>1, <1>5, <1>6
  <1>8. QED BY <1>1, <1>2, <1>3, <1>4, <1>5, <1>7

LEMMA SeparatorDivides ==
  ASSUME NEW n, Loose(n), NEW slot \in SlotsOf(n), n.leaf => slot + 1 \in SlotsOf(n)
  PROVE  LET sep == Separator(n, slot)
         IN /\ Divides(n, slot, sep)
            /\ n.leaf /\ ShortCopy(FullKey(n, slot), FullKey(n, slot + 1)) =>
                 Len(sep) <= Len(FullKey(n, slot + 1)) + ValueLen + SlotSize
  <1> DEFINE key == FullKey(n, slot)
             next == FullKey(n, slot + 1)
             a == Slot(n, slot).key
             b == Slot(n, slot + 1).key
             c == SharedLen(a, b)
             sep == Separator(n, slot)
             bound == n.leaf /\ ShortCopy(key, next) => Len(sep) <= Len(next) + ValueLen + SlotSize
             truncated == /\ n.leaf /\ slot + 1 < Count(n) /\ Len(a) > c /\ Len(b) > c + 1
  <1>1. n \in Page /\ slot \in Nat /\ Count(n) \in Nat /\ ValueLen \in Nat /\ SlotSize \in Nat
    BY PageFacts, SlotOfPage, LayoutAssumption DEF Loose
  <1>2. /\ a \in Words /\ key \in Words /\ key = Prefix(n) \o a /\ Len(a) \in Nat
        /\ Len(key) = PrefixLen(n) + Len(a)
    BY <1>1, SlotOfPage
  <1>3. Prefix(n) \in Words /\ Len(Prefix(n)) = PrefixLen(n) /\ PrefixLen(n) \in Nat BY <1>1, PrefixFacts
  <1>4. KeyFits(n, key) BY DEF Loose, KeysFitIn
  <1>5. sep = IF truncated THEN SubSeq(next, 1, PrefixLen(n) + c + 1) ELSE key
    BY DEF Separator, CommonPrefix
  <1>6. \A i \in SlotsOf(n) : /\ i \in Nat /\ FullKey(n, i) \in Words
                              /\ i > slot => Less(key, FullKey(n, i))
    BY KeysAscend
  <1>7. ~Less(key, key) BY <1>2, LessIrreflexive
  <1>8. n.leaf => /\ b \in Words /\ next \in Words /\ next = Prefix(n) \o b /\ Less(a, b)
                  /\ slot + 1 < Count(n) /\ Len(b) \in Nat /\ Len(next) = PrefixLen(n) + Len(b)
                  /\ Less(key, next) /\ KeyFits(n, next)
    <2> SUFFICES ASSUME n.leaf
                 PROVE  /\ b \in Words /\ next \in Words /\ next = Prefix(n) \o b /\ Less(a, b)
                        /\ slot + 1 < Count(n) /\ Len(b) \in Nat /\ Len(next) = PrefixLen(n) + Len(b)
                        /\ Less(key, next) /\ KeyFits(n, next)
      OBVIOUS
    <2>1. slot + 1 \in SlotsOf(n) /\ slot < slot + 1 BY <1>1
    <2>2. /\ b \in Words /\ next \in Words /\ next = Prefix(n) \o b /\ slot + 1 < Count(n)
          /\ Len(b) \in Nat /\ Len(next) = PrefixLen(n) + Len(b)
      BY <1>1, <2>1, SlotOfPage
    <2>3. Less(a, b) BY <1>1, <2>1, SlotsAscend DEF Loose
    <2>4. Less(key, next) /\ KeyFits(n, next) BY <2>1 DEF Loose, Sorted, KeysFitIn
    <2>5. QED BY <2>2, <2>3, <2>4
  <1> HIDE DEF key, next, a, b, sep
  <1>9. CASE truncated
    <2> DEFINE t == SubSeq(b, 1, c + 1)
    <2>1. n.leaf /\ Len(a) > c /\ Len(b) > c + 1 BY <1>9
    <2>2. t \in Words /\ Len(t) = c + 1 /\ Less(a, t) /\ Less(t, b) BY <1>2, <1>8, <2>1, FirstDifference
    <2>3. c \in Nat BY <1>2, <1>8, <2>1, SharedLenFacts
    <2> HIDE DEF truncated
    <2>4. sep = Prefix(n) \o t
      <3> DEFINE d == c + 1
      <3>1. d \in 0..Len(b) BY <1>8, <2>1, <2>3
      <3>5. Len(Prefix(n)) + d = PrefixLen(n) + c + 1
        <4> DEFINE l == PrefixLen(n)
        <4>1. l \in Nat BY <1>3
        <4> HIDE DEF l, c
        <4>2. l + (c + 1) = l + c + 1 BY <2>3, <4>1
        <4>3. QED BY <1>3, <4>2 DEF l
      <3> HIDE DEF d
      <3>2. SubSeq(Prefix(n) \o b, 1, Len(Prefix(n)) + d) = Prefix(n) \o SubSeq(b, 1, d)
        BY <1>3, <1>8, <2>1, <3>1, HeadOfConcat
      <3>3. sep = SubSeq(next, 1, PrefixLen(n) + c + 1) BY <1>5, <1>9
      <3>4. QED BY <1>8, <2>1, <3>2, <3>3, <3>5 DEF d
    <2> HIDE DEF t, c
    <2>5. sep \in Words /\ Len(sep) = PrefixLen(n) + (c + 1)
      <3>1. /\ Prefix(n) \o t \in Words /\ Len(Prefix(n) \o t) = Len(Prefix(n)) + Len(t)
        BY <1>3, <2>2, ConcatWord
      <3>2. QED BY <1>3, <2>2, <2>4, <3>1
    <2>6. Less(key, sep) /\ Less(sep, next) BY <1>2, <1>3, <1>8, <2>1, <2>2, <2>4, LessConcat
    <2>7. ~Less(sep, key) /\ sep # <<>>
      <3>1. ~Less(sep, key) BY <1>2, <2>5, <2>6, LessAsymmetric
      <3>2. QED BY <1>2, <2>6, <3>1, EmptyIsLeast
    <2>8. Len(sep) <= Len(key) /\ Len(sep) <= Len(next) BY <1>2, <1>3, <1>8, <2>1, <2>3, <2>5
    <2>9. Short(sep)
      <3>1. Short(key) /\ Len(key) \in Nat /\ Len(sep) \in Nat BY <1>2, <1>4, <2>5, WordFacts DEF KeyFits
      <3>2. MaxKVSize \in Int BY LayoutAssumption DEF MaxKVSize
      <3>3. QED BY <1>1, <2>8, <3>1, <3>2 DEF Short
    <2>10. n.lower \in Words /\ n.upper \in Words BY <1>1, PageFacts
    <2>11. n.lower = <<>> \/ Less(n.lower, sep)
      BY <1>2, <1>4, <2>5, <2>6, <2>10, LessTransitive DEF KeyFits, Within
    <2>12. n.upper = <<>> \/ Less(sep, n.upper)
      <3>1. n.upper = <<>> \/ ~Less(n.upper, next) BY <1>8, <2>1 DEF KeyFits, Within
      <3>2. QED BY <1>8, <2>1, <2>5, <2>6, <2>10, <3>1, NotLessTransitive
    <2>13. Within(n, sep) /\ sep # n.upper
      <3>1. n.upper = <<>> \/ (~Less(n.upper, sep) /\ sep # n.upper)
        BY <2>5, <2>10, <2>12, LessAsymmetric
      <3>2. QED BY <2>7, <2>11, <3>1 DEF Within
    <2>14. ASSUME NEW i \in SlotsOf(n), i > slot PROVE Less(sep, FullKey(n, i))
      <3>1. CASE i = slot + 1 BY <2>6, <3>1 DEF next
      <3>2. CASE i > slot + 1
        <4>1. Less(next, FullKey(n, i)) BY <2>1, <3>2 DEF Loose, Sorted, next
        <4>2. QED BY <1>6, <1>8, <2>1, <2>5, <2>6, <4>1, LessTransitive
      <3>3. i \in Nat BY <1>6
      <3>4. QED BY <1>1, <2>14, <3>1, <3>2, <3>3
    <2>15. Divides(n, slot, sep)
      BY <2>1, <2>5, <2>7, <2>8, <2>9, <2>13, <2>14 DEF Divides, key
    <2>16. bound
      <3>1. Len(sep) \in Nat /\ Len(next) \in Nat BY <1>8, <2>1, <2>5, WordFacts
      <3>2. QED BY <1>1, <2>8, <3>1
    <2>17. QED BY <2>15, <2>16 DEF key, next, sep
  <1>10. CASE ~truncated
    <2>1. sep = key BY <1>5, <1>10
    <2>2. key # <<>> /\ Short(key) /\ Within(n, key) BY <1>4 DEF KeyFits
    <2>3. key # n.upper
      <3>1. CASE ~n.leaf BY <1>4, <3>1 DEF KeyFits
      <3>2. CASE n.leaf
        <4>1. Less(key, next) /\ (n.upper = <<>> \/ ~Less(n.upper, next))
          BY <1>8, <3>2 DEF KeyFits, Within
        <4>2. QED BY <2>2, <4>1
      <3>3. n.leaf \in BOOLEAN BY <1>1, PageFacts
      <3>4. QED BY <3>1, <3>2, <3>3
    <2>4. Divides(n, slot, sep) BY <1>2, <1>6, <1>7, <2>1, <2>2, <2>3 DEF Divides, key
    <2>5. bound
      <3> SUFFICES ASSUME n.leaf, ShortCopy(key, next) PROVE Len(sep) <= Len(next) + ValueLen + SlotSize
        OBVIOUS
      <3>1. c \in Nat /\ c <= Len(a) /\ c <= Len(b) BY <1>2, <1>8, SharedLenFacts
      <3>2. ~(Len(a) > c /\ Len(b) > c + 1) BY <1>8, <1>10
      <3>3. SharedLen(key, next) = PrefixLen(n) + c
        <4>1. /\ \A j \in 1..c : a[j] = b[j]
              /\ c < Len(a) /\ c < Len(b) => a[c + 1] # b[c + 1]
          BY <1>2, <1>8, SharedLenFacts
        <4> DEFINE p == Prefix(n)
                   l == PrefixLen(n)
                   x == p \o a
                   y == p \o b
        <4>2. \A j \in 1..(l + Len(a)) : x[j] = IF j <= l THEN p[j] ELSE a[j - l]
          BY <1>2, <1>3, ConcatWord
        <4>3. \A j \in 1..(l + Len(b)) : y[j] = IF j <= l THEN p[j] ELSE b[j - l]
          BY <1>3, <1>8, ConcatWord
        <4>4. x = key /\ y = next BY <1>2, <1>8
        <4>5. l \in Nat /\ Len(a) \in Nat /\ Len(b) \in Nat /\ Len(x) = l + Len(a) /\ Len(y) = l + Len(b)
          BY <1>2, <1>3, <1>8, <4>4
        <4> HIDE DEF c, p, l, x, y
        <4>6. ASSUME NEW j \in 1..(l + c) PROVE x[j] = y[j]
          <5>1. j \in Nat /\ j >= 1 /\ j <= l + Len(a) /\ j <= l + Len(b) BY <3>1, <4>5
          <5>2. CASE j <= l BY <4>2, <4>3, <4>5, <5>1, <5>2
          <5>3. CASE ~(j <= l)
            <6>1. j - l \in 1..c BY <3>1, <4>5, <5>1, <5>3
            <6>2. a[j - l] = b[j - l] BY <4>1, <6>1
            <6>3. j \in 1..(l + Len(a)) /\ j \in 1..(l + Len(b)) BY <4>5, <5>1
            <6>4. QED BY <4>2, <4>3, <5>3, <6>2, <6>3
          <5>4. QED BY <5>2, <5>3
        <4>7. l + c < Len(x) /\ l + c < Len(y) => x[l + c + 1] # y[l + c + 1]
          <5> SUFFICES ASSUME l + c < Len(x), l + c < Len(y) PROVE x[l + c + 1] # y[l + c + 1]
            OBVIOUS
          <5>1. c < Len(a) /\ c < Len(b) BY <3>1, <4>5
          <5>2. l + c + 1 \in 1..(l + Len(a)) /\ l + c + 1 \in 1..(l + Len(b)) /\ ~(l + c + 1 <= l)
                /\ (l + c + 1) - l = c + 1
            BY <3>1, <4>5, <5>1
          <5>3. QED BY <4>1, <4>2, <4>3, <5>1, <5>2
        <4>8. l + c \in Nat /\ l + c <= Len(x) /\ l + c <= Len(y) BY <3>1, <4>5
        <4>9. SharedLen(x, y) = l + c BY <1>2, <1>8, <4>4, <4>6, <4>7, <4>8, SharedLenIs
        <4>10. QED BY <4>4, <4>9 DEF l
      <3> HIDE DEF c
      <3>4. Len(sep) = PrefixLen(n) + Len(a) /\ Len(next) = PrefixLen(n) + Len(b) BY <1>2, <1>8, <2>1
      <3>5. CASE Len(a) <= c
        <4> DEFINE la == Len(a)
                   lb == Len(b)
                   l == PrefixLen(n)
        <4>1. la \in Nat /\ l \in Nat BY <1>2, <1>3
        <4>2. lb \in Nat BY <1>8
        <4>3. la <= lb BY <3>1, <3>5, <4>1, <4>2
        <4>4. Len(sep) = l + la /\ Len(next) = l + lb BY <3>4
        <4>5. ValueLen \in Nat /\ SlotSize \in Nat BY <1>1
        <4> HIDE DEF la, lb, l
        <4>6. QED BY <4>1, <4>2, <4>3, <4>4, <4>5
      <3>6. CASE c < Len(a) /\ Len(b) = c + 1
        <4>1. SharedLen(key, next) < Len(key) BY <1>2, <1>3, <3>1, <3>3, <3>6
        <4>2. Len(next) = SharedLen(key, next) + 1 BY <1>3, <3>1, <3>3, <3>4, <3>6
        <4>3. QED BY <2>1, <4>1, <4>2 DEF ShortCopy
      <3>7. CASE c < Len(a) /\ Len(b) <= c
        <4>1. FALSE
          <5>1. c < Len(b) BY <1>8 DEF Less, c
          <5>2. QED BY <1>8, <3>1, <3>7, <5>1
        <4>2. QED BY <4>1
      <3>8. QED BY <1>2, <1>8, <3>1, <3>2, <3>5, <3>6, <3>7
    <2>6. QED BY <2>4, <2>5 DEF key, next, sep
  <1>11. QED BY <1>9, <1>10

-------------------------------------------------------------------------------
(* Halves.                                                                       *)

PartSize(n, from, to) == SizeOf(SubSeq(n.slots, from + 1, to + 1), PayLen(n))

\* A page m with the slots from..to of page n between the given fences.
Part(m, n, lower, upper, from, to) ==
  /\ m.leaf = n.leaf /\ m.lower = lower /\ m.upper = upper /\ Count(m) = to - from + 1
  /\ \A i \in 0..(to - from) : /\ FullKey(m, i) = FullKey(n, from + i)
                               /\ Slot(m, i).pay = Slot(n, from + i).pay
  /\ m.data + m.used = PageSize
  /\ m.used = Len(lower) + Len(upper) + PartSize(n, from, to)
                + (PrefixLen(n) - PrefixLen(m)) * (to - from + 1)

LEMMA PartCopied ==
  ASSUME NEW n, Loose(n), NEW lower \in Words, NEW upper \in Words, Short(lower), Short(upper),
         lower = <<>> \/ upper = <<>> \/ Less(lower, upper),
         NEW from \in 0..Count(n), NEW to \in (from - 1)..(Count(n) - 1), NEW link \in Int,
         \A i \in from..to : KeyFits(Fresh(n.leaf, lower, upper), FullKey(n, i))
  PROVE  LET m == MakeHint([CopyRange(Fresh(n.leaf, lower, upper), n, from, to) EXCEPT !.link = link])
         IN PageOK(m) /\ m.link = link /\ Part(m, n, lower, upper, from, to)
  <1> DEFINE f == Fresh(n.leaf, lower, upper)
             c == CopyRange(f, n, from, to)
             d == [c EXCEPT !.link = link]
             m == MakeHint(d)
  <1>1. n \in Page /\ n.leaf \in BOOLEAN /\ Count(n) \in Nat BY PageFacts DEF Loose
  <1>2. PageOK(f) /\ FreshPage(f, n.leaf, lower, upper) /\ Count(f) = 0 BY <1>1, FreshIsOK
  <1> HIDE DEF f
  <1>3. /\ f \in Page /\ f.leaf = n.leaf /\ f.lower = lower /\ f.upper = upper /\ Loose(f)
        /\ f.used = Len(lower) + Len(upper) /\ f.data + f.used = PageSize
    BY <1>2 DEF FreshPage, PageOK
  <1>4. SlotsOf(f) = {} BY <1>2 DEF SlotsOf
  <1>5. \A i \in from..to : KeyFits(f, FullKey(n, i)) BY DEF f
  <1>6. \A i \in from..to : IsPrefix(Prefix(f), FullKey(n, i))
    <2> SUFFICES ASSUME NEW i \in from..to PROVE IsPrefix(Prefix(f), FullKey(n, i)) OBVIOUS
    <2>1. i \in SlotsOf(n) BY <1>1 DEF SlotsOf
    <2>2. FullKey(n, i) \in Words BY <1>1, <2>1, SlotOfPage
    <2>3. QED BY <1>3, <1>5, <2>2, PrefixOfFittingKey
  <1>7. Copied(c, f, n, from, to) BY <1>1, <1>3, <1>6, RangeCopied
  <1> HIDE DEF c
  <1>8. Loose(c) BY <1>3, <1>4, <1>5, <1>7, CopiedIsLoose
  <1>9. /\ Loose(d) /\ SameFences(d, c) /\ d.link = link /\ d.used = c.used /\ d.data = c.data
        /\ Count(d) = Count(c) /\ \A i : FullKey(d, i) = FullKey(c, i) /\ Slot(d, i) = Slot(c, i)
    BY <1>8, Relinked
  <1> HIDE DEF d
  <1>10. PageOK(m) /\ Same(m, d) /\ m.used = d.used /\ m.data = d.data BY <1>9, Hinted
  <1> HIDE DEF m
  <1>11. /\ SameFences(c, f) /\ Count(c) = Count(f) + (to - from + 1) /\ c.data + c.used = f.data + f.used
         /\ c.used = f.used + PartSize(n, from, to) + (PrefixLen(n) - PrefixLen(f)) * (to - from + 1)
    BY <1>7 DEF Copied, PartSize
  <1>12. \A i \in 0..(to - from) : /\ FullKey(c, Count(f) + i) = FullKey(n, from + i)
                                   /\ Slot(c, Count(f) + i).pay = Slot(n, from + i).pay
    BY <1>7 DEF Copied
  <1>13. Count(m) = to - from + 1 /\ SlotsOf(d) = 0..(to - from)
    <2>1. Count(d) = to - from + 1 BY <1>2, <1>9, <1>11
    <2>2. Count(m) = to - from + 1 BY <1>10, <2>1 DEF Same
    <2>3. (to - from + 1) - 1 = to - from OBVIOUS
    <2>4. QED BY <2>1, <2>2, <2>3 DEF SlotsOf
  <1>14. ASSUME NEW i \in 0..(to - from)
         PROVE  FullKey(m, i) = FullKey(n, from + i) /\ Slot(m, i).pay = Slot(n, from + i).pay
    <2>1. Count(f) + i = i BY <1>2
    <2>2. FullKey(c, i) = FullKey(n, from + i) /\ Slot(c, i).pay = Slot(n, from + i).pay
      BY <1>12, <2>1
    <2>3. FullKey(m, i) = FullKey(d, i) /\ Slot(m, i).pay = Slot(d, i).pay BY <1>10, <1>13 DEF Same
    <2>4. QED BY <1>9, <2>2, <2>3
  <1>15. SameFences(m, f) BY <1>9, <1>10, <1>11 DEF Same, SameFences
  <1>16. /\ m.leaf = n.leaf /\ m.lower = lower /\ m.upper = upper /\ m.link = link
         /\ PrefixLen(m) = PrefixLen(f) /\ m.data + m.used = PageSize /\ m.used = c.used
    BY <1>3, <1>9, <1>10, <1>11, <1>15, SameFenceParts DEF SameFences, Same
  <1>17. Part(m, n, lower, upper, from, to) BY <1>3, <1>11, <1>13, <1>14, <1>16 DEF Part
  <1>18. QED BY <1>10, <1>16, <1>17 DEF m, d, c, f

\* The slot that stays last in the left half.
Kept(n, slot) == IF n.leaf THEN slot ELSE slot - 1

LEMMA LeftIsPart ==
  ASSUME NEW n, Loose(n), NEW slot \in SlotsOf(n), Divides(n, slot, Separator(n, slot)), NEW new \in Int
  PROVE  LET m == LeftHalf(n, slot, new)
         IN /\ PageOK(m) /\ m.link = (IF n.leaf THEN new ELSE Slot(n, slot).pay)
            /\ Part(m, n, n.lower, Separator(n, slot), 0, Kept(n, slot))
  <1> DEFINE sep == Separator(n, slot)
             link == IF n.leaf THEN new ELSE Slot(n, slot).pay
             f == Fresh(n.leaf, n.lower, sep)
             to == Kept(n, slot)
             m == MakeHint([CopyRange(f, n, 0, to) EXCEPT !.link = link])
  <1>1. /\ n \in Page /\ n.leaf \in BOOLEAN /\ Count(n) \in Nat /\ slot \in Nat /\ slot < Count(n)
        /\ n.lower \in Words /\ n.upper \in Words /\ Slot(n, slot).pay \in Int /\ FullKey(n, slot) \in Words
    BY PageFacts, SlotOfPage DEF Loose
  <1>2. LeftHalf(n, slot, new) = m BY DEF LeftHalf, Kept
  <1> HIDE DEF sep
  <1>3. /\ sep \in Words /\ sep # <<>> /\ Short(sep) /\ (n.lower = <<>> \/ Less(n.lower, sep))
        /\ Short(n.lower) /\ ~Less(sep, FullKey(n, slot)) /\ (~n.leaf => sep = FullKey(n, slot))
    BY DEF Divides, sep, Within, Loose
  <1>4. link \in Int BY <1>1
  <1>5. 0 \in 0..Count(n) /\ to \in (0 - 1)..(Count(n) - 1) BY <1>1 DEF Kept
  <1>6. FreshPage(f, n.leaf, n.lower, sep) BY <1>1, <1>3, FreshIsPage
  <1>7. f.leaf = n.leaf /\ f.lower = n.lower /\ f.upper = sep BY <1>6 DEF FreshPage
  <1>8. ASSUME NEW i \in 0..to PROVE KeyFits(f, FullKey(n, i))
    <2>1. i \in SlotsOf(n) /\ i <= slot BY <1>1, <1>5 DEF SlotsOf, Kept
    <2>2. KeyFits(n, FullKey(n, i)) /\ FullKey(n, i) \in Words BY <2>1, KeysAscend
    <2>3. ~Less(sep, FullKey(n, i)) /\ (~n.leaf => FullKey(n, i) # sep)
      <3>1. CASE n.leaf
        <4>1. ~Less(FullKey(n, slot), FullKey(n, i)) BY <2>1, KeysAscend
        <4>2. QED BY <1>1, <1>3, <2>2, <3>1, <4>1, NotLessTransitive
      <3>2. CASE ~n.leaf
        <4>1. i < slot BY <1>1, <3>2 DEF Kept
        <4>2. Less(FullKey(n, i), FullKey(n, slot)) BY <2>1, <4>1, KeysAscend
        <4>3. QED BY <1>3, <2>2, <3>2, <4>2, LessAsymmetric
      <3>3. QED BY <3>1, <3>2
    <2>4. Within(f, FullKey(n, i)) BY <1>3, <1>7, <2>2, <2>3 DEF KeyFits, Within
    <2>5. QED BY <1>7, <2>2, <2>3, <2>4 DEF KeyFits
  <1> HIDE DEF f, link, to
  <1>9. PageOK(m) /\ m.link = link /\ Part(m, n, n.lower, sep, 0, to)
    <2> USE DEF f
    <2>1. QED BY <1>1, <1>3, <1>4, <1>5, <1>8, PartCopied
  <1>10. QED BY <1>2, <1>9 DEF sep, link, to

LEMMA RightIsPart ==
  ASSUME NEW n, Loose(n), NEW slot \in SlotsOf(n), Divides(n, slot, Separator(n, slot))
  PROVE  LET m == RightHalf(n, slot)
         IN /\ PageOK(m) /\ m.link = n.link
            /\ Part(m, n, Separator(n, slot), n.upper, slot + 1, Count(n) - 1)
  <1> DEFINE sep == Separator(n, slot)
             f == Fresh(n.leaf, sep, n.upper)
             from == slot + 1
             to == Count(n) - 1
             m == MakeHint([CopyRange(f, n, from, to) EXCEPT !.link = n.link])
  <1>1. /\ n \in Page /\ n.leaf \in BOOLEAN /\ Count(n) \in Nat /\ slot \in Nat /\ slot < Count(n)
        /\ n.lower \in Words /\ n.upper \in Words /\ n.link \in Int
    BY PageFacts, SlotOfPage DEF Loose
  <1>2. RightHalf(n, slot) = m BY DEF RightHalf
  <1> HIDE DEF sep
  <1>3. /\ sep \in Words /\ sep # <<>> /\ Short(sep) /\ (n.upper = <<>> \/ ~Less(n.upper, sep))
        /\ sep # n.upper /\ Short(n.upper)
        /\ \A i \in SlotsOf(n) : i > slot => Less(sep, FullKey(n, i))
    BY DEF Divides, sep, Within, Loose
  <1>4. n.upper = <<>> \/ Less(sep, n.upper) BY <1>1, <1>3, LessTotal
  <1>5. from \in 0..Count(n) /\ to \in (from - 1)..(Count(n) - 1) BY <1>1
  <1>6. FreshPage(f, n.leaf, sep, n.upper) BY <1>1, <1>3, FreshIsPage
  <1>7. f.leaf = n.leaf /\ f.lower = sep /\ f.upper = n.upper BY <1>6 DEF FreshPage
  <1>8. ASSUME NEW i \in from..to PROVE KeyFits(f, FullKey(n, i))
    <2>1. i \in SlotsOf(n) /\ i > slot BY <1>1 DEF SlotsOf
    <2>2. KeyFits(n, FullKey(n, i)) /\ Less(sep, FullKey(n, i)) BY <1>3, <2>1, KeysAscend
    <2>3. Within(f, FullKey(n, i)) BY <1>7, <2>2 DEF KeyFits, Within
    <2>4. QED BY <1>7, <2>2, <2>3 DEF KeyFits
  <1> HIDE DEF f, from, to
  <1>9. PageOK(m) /\ m.link = n.link /\ Part(m, n, sep, n.upper, from, to)
    <2> USE DEF f
    <2>1. QED BY <1>1, <1>3, <1>4, <1>5, <1>8, PartCopied
  <1>10. QED BY <1>2, <1>9 DEF sep, from, to

LEMMA SharedAtLeast ==
  ASSUME NEW a \in Words, NEW b \in Words, NEW i \in Nat, i <= Len(a), i <= Len(b),
         \A j \in 1..i : a[j] = b[j]
  PROVE  i <= SharedLen(a, b)
  <1> DEFINE m == SharedLen(a, b)
  <1>1. /\ m \in Nat /\ m <= Len(a) /\ m <= Len(b)
        /\ m < Len(a) /\ m < Len(b) => a[m + 1] # b[m + 1]
    BY SharedLenFacts
  <1>2. Len(a) \in Nat /\ Len(b) \in Nat BY WordFacts
  <1> HIDE DEF m
  <1>3. CASE m < i
    <2>1. m + 1 \in 1..i BY <1>1, <1>3
    <2>2. QED BY <1>1, <1>2, <1>3, <2>1
  <1>4. QED BY <1>1, <1>3 DEF m

LEMMA SharedByPrefix ==
  ASSUME NEW p \in Words, NEW a \in Words, NEW b \in Words, IsPrefix(p, a), IsPrefix(p, b)
  PROVE  Len(p) <= SharedLen(a, b)
  <1>1. Len(p) \in Nat /\ Len(p) <= Len(a) /\ Len(p) <= Len(b) BY PrefixIs, WordFacts
  <1>2. \A j \in 1..Len(p) : a[j] = p[j] /\ b[j] = p[j] BY PrefixIs
  <1>3. QED BY <1>1, <1>2, SharedAtLeast

LEMMA FencesHavePrefix ==
  ASSUME NEW n \in Page PROVE IsPrefix(Prefix(n), n.lower) /\ IsPrefix(Prefix(n), n.upper)
  <1>1. /\ n.lower \in Words /\ n.upper \in Words BY PageFacts
  <1>2. /\ PrefixLen(n) \in Nat /\ Prefix(n) \in Words /\ Len(Prefix(n)) = PrefixLen(n)
        /\ PrefixLen(n) <= Len(n.lower) /\ PrefixLen(n) <= Len(n.upper)
        /\ \A j \in 1..PrefixLen(n) : Prefix(n)[j] = n.lower[j]
    BY PrefixFacts
  <1>3. \A j \in 1..PrefixLen(n) : n.lower[j] = n.upper[j] BY <1>1, SharedLenFacts DEF PrefixLen
  <1>4. QED BY <1>1, <1>2, <1>3, PrefixIs

LEMMA NarrowerPrefix ==
  ASSUME NEW n \in Page, NEW m \in Page, m.lower = n.lower \/ Within(n, m.lower),
         m.upper = n.upper \/ Within(n, m.upper)
  PROVE  PrefixLen(n) <= PrefixLen(m)
  <1>1. m.lower \in Words /\ m.upper \in Words /\ Prefix(n) \in Words /\ Len(Prefix(n)) = PrefixLen(n)
    BY PageFacts, PrefixFacts
  <1>2. IsPrefix(Prefix(n), m.lower) BY <1>1, FencesHavePrefix, WithinHasPrefix
  <1>3. IsPrefix(Prefix(n), m.upper) BY <1>1, FencesHavePrefix, WithinHasPrefix
  <1>4. QED BY <1>1, <1>2, <1>3, SharedByPrefix DEF PrefixLen

LEMMA SizeHasSlot ==
  ASSUME NEW s \in Seq(SlotSet), NEW i \in 1..Len(s), NEW pay \in Nat
  PROVE  SizeOf(s, pay) >= Len(s[i].key) + pay
  <1> DEFINE r == RemoveAt(s, i)
  <1>1. r \in Seq(SlotSet) /\ SizeOf(r, pay) = SizeOf(s, pay) - Len(s[i].key) - pay BY SlotRemoved
  <1> HIDE DEF r
  <1>2. SizeOf(r, pay) \in Nat /\ SizeOf(s, pay) \in Nat BY <1>1, SizeType
  <1>3. Len(s[i].key) \in Nat BY SlotFacts
  <1>4. QED BY <1>1, <1>2, <1>3

LEMMA NoMoreByFactor ==
  ASSUME NEW d \in Int, d <= 0, NEW c \in Nat PROVE d * c \in Int /\ d * c <= 0
  <1> DEFINE e == -d
  <1>1. e \in Nat /\ d = -e OBVIOUS
  <1> HIDE DEF e
  <1>2. e * c \in Nat BY <1>1
  <1>3. d * c = -(e * c) BY <1>1
  <1>4. QED BY <1>2, <1>3

LEMMA SpaceIsCounted ==
  ASSUME NEW n, Loose(n)
  PROVE  /\ SlotSize * Count(n) \in Nat /\ FreeSpace(n) \in Int /\ FreeAfter(n) \in Int
         /\ FreeSpace(n) <= FreeAfter(n)
         /\ n.used + SlotSize * Count(n) + FreeAfter(n) = PageSize
  <1>1. n.used \in Int /\ n.data \in Int /\ Count(n) \in Nat /\ SlotSize \in Nat /\ PageSize \in Nat
    BY PageFacts, LayoutAssumption DEF Loose
  <1> DEFINE x == SlotSize * Count(n)
  <1>2. x \in Nat BY <1>1
  <1>3. FreeSpace(n) = n.data - x /\ FreeAfter(n) = PageSize - x - n.used BY DEF FreeSpace, FreeAfter
  <1>4. n.data + n.used <= PageSize BY DEF Loose, Counted
  <1> HIDE DEF x
  <1>5. n.data - x <= PageSize - x - n.used BY <1>1, <1>2, <1>4
  <1>6. n.used + x + (PageSize - x - n.used) = PageSize BY <1>1, <1>2
  <1>7. QED BY <1>1, <1>2, <1>3, <1>5, <1>6 DEF x

\* A part of a page fits in a page.
LEMMA PartFits ==
  ASSUME NEW n, Loose(n), FreeSpace(n) >= 0, NEW m \in Page, NEW lower \in Words, NEW upper \in Words,
         NEW from \in Nat, NEW to \in Int, to - from + 1 \in Nat, to - from + 1 < Count(n),
         Part(m, n, lower, upper, from, to), PrefixLen(n) <= PrefixLen(m),
         NEW other \in Nat, SizeOf(n.slots, PayLen(n)) = PartSize(n, from, to) + other,
         PartSize(n, from, to) \in Nat,
         Len(lower) + Len(upper) <= Len(n.lower) + Len(n.upper) + other + SlotSize
  PROVE  FreeSpace(m) >= 0
  <1> DEFINE c == to - from + 1
             z == PartSize(n, from, to)
             d == (PrefixLen(n) - PrefixLen(m)) * c
             x == SlotSize * Count(n)
             y == SlotSize * c
             a == Len(lower) + Len(upper)
             b == Len(n.lower) + Len(n.upper)
  <1>1. n \in Page /\ Count(n) \in Nat /\ m.data \in Int /\ m.used \in Int /\ n.used \in Int
    BY PageFacts DEF Loose
  <1>2. a \in Nat /\ b \in Nat
    <2>1. n.lower \in Words /\ n.upper \in Words BY <1>1, PageFacts
    <2>2. Len(n.lower) \in Nat /\ Len(n.upper) \in Nat BY <2>1, WordFacts
    <2>3. Len(lower) \in Nat /\ Len(upper) \in Nat BY WordFacts
    <2>4. \A x1, x2 \in Nat : x1 + x2 \in Nat OBVIOUS
    <2>5. QED BY ONLY <2>2, <2>3, <2>4
  <1>3. SlotSize \in Nat /\ PageSize \in Nat BY LayoutAssumption
  <1>4. d \in Int /\ d <= 0
    <2>1. PrefixLen(n) - PrefixLen(m) \in Int /\ PrefixLen(n) - PrefixLen(m) <= 0
      BY <1>1, PrefixFacts
    <2>2. QED BY <2>1, NoMoreByFactor
  <1>5. x \in Nat /\ y \in Nat /\ y + SlotSize <= x BY <1>1, <1>3, ProductOrder
  <1>6. n.used = b + (z + other)
    <2>1. n.used = Len(n.lower) + Len(n.upper) + SizeOf(n.slots, PayLen(n)) BY DEF Loose, Counted
    <2>2. QED BY <2>1
  <1>7. n.used + x <= PageSize
    <2>1. FreeAfter(n) >= 0 BY SpaceIsCounted
    <2>2. n.used + x + FreeAfter(n) = PageSize /\ FreeAfter(n) \in Int BY SpaceIsCounted
    <2> HIDE DEF x
    <2>3. QED BY <1>1, <1>3, <1>5, <2>1, <2>2
  <1>8. m.used = a + z + d /\ m.data + m.used = PageSize /\ Count(m) = c BY DEF Part
  <1>9. FreeSpace(m) = m.data - y BY <1>8 DEF FreeSpace
  <1>10. a <= b + other + SlotSize OBVIOUS
  <1>11. z \in Nat OBVIOUS
  <1> HIDE DEF c, z, d, x, y, a, b
  <1>12. m.data - y >= 0 BY <1>1, <1>2, <1>3, <1>4, <1>5, <1>6, <1>7, <1>8, <1>10, <1>11
  <1>13. QED BY <1>9, <1>12

LEMMA LeftFits ==
  ASSUME NEW n, Loose(n), FreeSpace(n) >= 0, NEW slot \in SlotsOf(n), n.leaf => slot + 1 \in SlotsOf(n),
         NEW sep, Divides(n, slot, sep),
         n.leaf => Len(sep) <= Len(FullKey(n, slot + 1)) + ValueLen + SlotSize,
         NEW m \in Page, Part(m, n, n.lower, sep, 0, Kept(n, slot))
  PROVE  FreeSpace(m) >= 0
  <1> DEFINE to == Kept(n, slot)
             at == to + 1
             rest == SubSeq(n.slots, to + 2, Count(n))
             pay == PayLen(n)
             other == SizeOf(rest, pay)
  <1>1. /\ n \in Page /\ n.leaf \in BOOLEAN /\ Count(n) \in Nat /\ slot \in Nat /\ slot < Count(n)
        /\ n.lower \in Words /\ n.upper \in Words /\ n.slots \in Seq(SlotSet) /\ Count(n) = Len(n.slots)
        /\ pay \in Nat /\ ValueLen \in Nat /\ SlotSize \in Nat
    BY PageFacts, SlotOfPage, LayoutAssumption DEF Loose, Count
  <1>2. sep \in Words /\ Within(n, sep) BY DEF Divides
  <1>3. to \in Int /\ at \in Nat /\ at < Count(n) /\ to - 0 + 1 = at /\ to + 2 = at + 1
        /\ at \in SlotsOf(n) /\ (n.leaf => at = slot + 1) /\ (~n.leaf => at = slot)
    BY <1>1 DEF Kept, SlotsOf
  <1> HIDE DEF to, at
  <1>4. PrefixLen(n) <= PrefixLen(m)
    <2>1. m.lower = n.lower /\ m.upper = sep BY DEF Part
    <2>2. QED BY <1>1, <1>2, <2>1, NarrowerPrefix
  <1>5. /\ rest \in Seq(SlotSet) /\ Len(rest) = Count(n) - at
        /\ rest[1] = Slot(n, at)
    <2>1. at + 1 \in 1..(Len(n.slots) + 1) /\ Len(n.slots) \in ((at + 1) - 1)..Len(n.slots)
          /\ Len(n.slots) - (at + 1) + 1 = Count(n) - at
      BY <1>1, <1>3
    <2>2. /\ rest \in Seq(SlotSet) /\ Len(rest) = Count(n) - at
          /\ \A j \in 1..(Count(n) - at) : rest[j] = n.slots[(at + 1) + j - 1]
      BY <1>1, <1>3, <2>1, SubSlots
    <2>3. 1 \in 1..(Count(n) - at) /\ (at + 1) + 1 - 1 = at + 1 BY <1>1, <1>3
    <2>4. QED BY <2>2, <2>3 DEF Slot
  <1>6. SizeOf(n.slots, pay) = PartSize(n, 0, to) + other /\ PartSize(n, 0, to) \in Nat
    <2>1. at \in 0..Len(n.slots) /\ 0 + 1 = 1 /\ at = to + 1 BY <1>1, <1>3
    <2>2. SizeOf(n.slots, pay) = SizeOf(SubSeq(n.slots, 1, at), pay)
                                   + SizeOf(SubSeq(n.slots, at + 1, Len(n.slots)), pay)
      BY <1>1, <2>1, SizeSplit
    <2>3. SubSeq(n.slots, 1, at) \in Seq(SlotSet)
      <3>1. 1 \in 1..(Len(n.slots) + 1) /\ at \in (1 - 1)..Len(n.slots) BY <1>1, <1>3
      <3>2. QED BY <1>1, <3>1, SubSlots
    <2>4. SizeOf(SubSeq(n.slots, 1, at), pay) \in Nat BY <1>1, <2>3, SizeType
    <2>5. PartSize(n, 0, to) = SizeOf(SubSeq(n.slots, 1, at), pay) BY <2>1 DEF PartSize
    <2>6. SubSeq(n.slots, at + 1, Len(n.slots)) = rest BY <1>1, <1>3
    <2>7. QED BY <2>2, <2>4, <2>5, <2>6
  <1> HIDE DEF rest
  <1>7. other \in Nat /\ other >= Len(Slot(n, at).key) + pay
    <2>1. 1 \in 1..Len(rest) BY <1>1, <1>3, <1>5
    <2>2. SizeOf(rest, pay) \in Nat BY <1>1, <1>5, SizeType
    <2>3. SizeOf(rest, pay) >= Len(rest[1].key) + pay BY <1>1, <1>5, <2>1, SizeHasSlot
    <2>4. QED BY <1>5, <2>2, <2>3
  <1> HIDE DEF pay
  <1>8. Len(sep) <= Len(n.upper) + other + SlotSize
    <2>1. /\ Len(Slot(n, at).key) \in Nat /\ Len(FullKey(n, at)) = PrefixLen(n) + Len(Slot(n, at).key)
          /\ PrefixLen(n) \in Nat /\ PrefixLen(n) <= Len(n.upper) /\ Len(n.upper) \in Nat /\ Len(sep) \in Nat
      BY <1>1, <1>2, <1>3, SlotOfPage, PrefixFacts, WordFacts
    <2>2. CASE n.leaf
      <3>1. Len(sep) <= Len(FullKey(n, at)) + ValueLen + SlotSize /\ pay = ValueLen
        BY <1>3, <2>2 DEF PayLen, pay
      <3> DEFINE k == Len(Slot(n, at).key)
                 f == Len(FullKey(n, at))
                 s == Len(sep)
                 u == Len(n.upper)
                 p == PrefixLen(n)
      <3>2. k \in Nat /\ f = p + k /\ p \in Nat /\ p <= u /\ u \in Nat /\ s \in Nat /\ other >= k + pay
            /\ s <= f + ValueLen + SlotSize
        BY <1>7, <2>1, <3>1
      <3>3. other \in Nat BY <1>7
      <3> HIDE DEF k, f, s, u, p, other
      <3>4. s <= u + other + SlotSize BY <1>1, <3>1, <3>2, <3>3
      <3>5. QED BY <3>4 DEF s, u
    <2>3. CASE ~n.leaf
      <3>1. Len(sep) <= Len(FullKey(n, at)) BY <1>3, <2>3 DEF Divides
      <3> HIDE DEF other
      <3>2. QED BY <1>1, <1>7, <2>1, <3>1
    <2>4. QED BY <1>1, <2>2, <2>3
  <1>9. Len(n.lower) \in Nat /\ Len(n.upper) \in Nat /\ Len(sep) \in Nat BY <1>1, <1>2, WordFacts
  <1> HIDE DEF other
  <1>10. Len(n.lower) + Len(sep) <= Len(n.lower) + Len(n.upper) + other + SlotSize
    <2> DEFINE a == Len(n.lower)
               b == Len(n.upper)
               c == Len(sep)
    <2>1. a \in Nat /\ b \in Nat /\ c \in Nat /\ c <= b + other + SlotSize BY <1>8, <1>9
    <2> HIDE DEF a, b, c
    <2>2. a + c <= a + b + other + SlotSize BY <1>1, <1>7, <2>1
    <2>3. QED BY <2>2 DEF a, b, c
  <1>11. /\ to - 0 + 1 \in Nat /\ to - 0 + 1 < Count(n) /\ 0 \in Nat /\ to \in Int
    BY <1>3
  <1>12. Part(m, n, n.lower, sep, 0, to) BY DEF to
  <1>13. SizeOf(n.slots, PayLen(n)) = PartSize(n, 0, to) + other BY <1>6 DEF pay
  <1>14. QED BY <1>1, <1>2, <1>4, <1>6, <1>7, <1>10, <1>11, <1>12, <1>13, PartFits

LEMMA RightFits ==
  ASSUME NEW n, Loose(n), FreeSpace(n) >= 0, NEW slot \in SlotsOf(n), NEW sep, Divides(n, slot, sep),
         NEW m \in Page, Part(m, n, sep, n.upper, slot + 1, Count(n) - 1)
  PROVE  FreeSpace(m) >= 0
  <1> DEFINE at == slot + 1
             to == Count(n) - 1
             first == SubSeq(n.slots, 1, at)
             pay == PayLen(n)
             other == SizeOf(first, pay)
  <1>1. /\ n \in Page /\ Count(n) \in Nat /\ slot \in Nat /\ slot < Count(n)
        /\ n.lower \in Words /\ n.upper \in Words /\ n.slots \in Seq(SlotSet) /\ Count(n) = Len(n.slots)
        /\ pay \in Nat /\ SlotSize \in Nat
    BY PageFacts, SlotOfPage, LayoutAssumption DEF Loose, Count
  <1>2. sep \in Words /\ Within(n, sep) /\ Len(sep) <= Len(FullKey(n, slot)) BY DEF Divides
  <1>3. at \in Nat /\ at <= Count(n) /\ at >= 1 /\ to \in Int BY <1>1
  <1>4. PrefixLen(n) <= PrefixLen(m)
    <2>1. m.lower = sep /\ m.upper = n.upper BY DEF Part
    <2>2. QED BY <1>1, <1>2, <2>1, NarrowerPrefix
  <1>5. first \in Seq(SlotSet) /\ Len(first) = at /\ first[at] = Slot(n, slot)
    <2>1. 1 \in 1..(Len(n.slots) + 1) /\ at \in (1 - 1)..Len(n.slots) /\ at - 1 + 1 = at BY <1>1
    <2>2. /\ first \in Seq(SlotSet) /\ Len(first) = at
          /\ \A j \in 1..at : first[j] = n.slots[1 + j - 1]
      BY <1>1, <2>1, SubSlots
    <2> HIDE DEF first
    <2>3. at \in 1..at /\ 1 + at - 1 = slot + 1 BY <1>1
    <2>4. first[at] = n.slots[slot + 1] BY <2>2, <2>3
    <2>5. QED BY <2>2, <2>4 DEF Slot
  <1>6. SizeOf(n.slots, pay) = PartSize(n, at, to) + other /\ PartSize(n, at, to) \in Nat
    <2>1. at \in 0..Len(n.slots) /\ to + 1 = Len(n.slots) BY <1>1, <1>3
    <2>2. SizeOf(n.slots, pay) = SizeOf(first, pay) + SizeOf(SubSeq(n.slots, at + 1, Len(n.slots)), pay)
      BY <1>1, <2>1, SizeSplit
    <2>3. SubSeq(n.slots, at + 1, Len(n.slots)) \in Seq(SlotSet)
      <3>1. at + 1 \in 1..(Len(n.slots) + 1) /\ Len(n.slots) \in ((at + 1) - 1)..Len(n.slots)
        BY <1>1, <1>3
      <3>2. QED BY <1>1, <3>1, SubSlots
    <2>4. SizeOf(SubSeq(n.slots, at + 1, Len(n.slots)), pay) \in Nat BY <1>1, <2>3, SizeType
    <2>5. PartSize(n, at, to) = SizeOf(SubSeq(n.slots, at + 1, Len(n.slots)), pay)
      BY <2>1 DEF PartSize
    <2>6. SizeOf(first, pay) \in Nat BY <1>1, <1>5, SizeType
    <2> HIDE DEF first
    <2>7. QED BY <2>2, <2>4, <2>5, <2>6
  <1> HIDE DEF first
  <1>7. other \in Nat /\ other >= Len(Slot(n, slot).key) + pay
    <2>1. at \in 1..Len(first) BY <1>3, <1>5
    <2>2. SizeOf(first, pay) \in Nat BY <1>1, <1>5, SizeType
    <2>3. SizeOf(first, pay) >= Len(first[at].key) + pay BY <1>1, <1>5, <2>1, SizeHasSlot
    <2>4. QED BY <1>5, <2>2, <2>3
  <1> HIDE DEF pay, other
  <1>8. Len(sep) <= Len(n.lower) + other
    <2>1. /\ Len(Slot(n, slot).key) \in Nat
          /\ Len(FullKey(n, slot)) = PrefixLen(n) + Len(Slot(n, slot).key)
          /\ PrefixLen(n) \in Nat /\ PrefixLen(n) <= Len(n.lower) /\ Len(n.lower) \in Nat /\ Len(sep) \in Nat
      BY <1>1, <1>2, SlotOfPage, PrefixFacts, WordFacts
    <2>2. QED BY <1>1, <1>2, <1>7, <2>1
  <1>9. Len(n.lower) \in Nat /\ Len(n.upper) \in Nat /\ Len(sep) \in Nat BY <1>1, <1>2, WordFacts
  <1>10. Len(sep) + Len(n.upper) <= Len(n.lower) + Len(n.upper) + other + SlotSize
    <2> DEFINE a == Len(n.lower)
               b == Len(n.upper)
               c == Len(sep)
    <2>1. a \in Nat /\ b \in Nat /\ c \in Nat /\ c <= a + other BY <1>8, <1>9
    <2> HIDE DEF a, b, c
    <2>2. c + b <= a + b + other + SlotSize BY <1>1, <1>7, <2>1
    <2>3. QED BY <2>2 DEF a, b, c
  <1>11. to - at + 1 \in Nat /\ to - at + 1 < Count(n) BY <1>1, <1>3
  <1>12. Part(m, n, sep, n.upper, at, to) OBVIOUS
  <1>13. SizeOf(n.slots, PayLen(n)) = PartSize(n, at, to) + other BY <1>6 DEF pay
  <1> HIDE DEF at, to
  <1>14. QED BY <1>1, <1>2, <1>3, <1>4, <1>6, <1>7, <1>10, <1>11, <1>12, <1>13, PartFits

-------------------------------------------------------------------------------
(* Merged leaves.                                                                *)

Joined(m, a, b) ==
  /\ m.leaf = TRUE /\ m.lower = a.lower /\ m.upper = b.upper /\ m.link = b.link
  /\ Count(m) = Count(a) + Count(b)
  /\ \A i \in SlotsOf(a) : FullKey(m, i) = FullKey(a, i)
  /\ \A i \in SlotsOf(b) : FullKey(m, Count(a) + i) = FullKey(b, i)

LEMMA MergedIsJoined ==
  ASSUME NEW a, Loose(a), NEW b, Loose(b), a.leaf, b.leaf, a.upper # <<>>, a.upper = b.lower
  PROVE  LET m == Merged(a, b)
         IN /\ PageOK(m) /\ Joined(m, a, b)
            /\ MergedBound(a, b) <= PageSize => FreeSpace(m) >= 0
  <1> DEFINE f == Fresh(TRUE, a.lower, b.upper)
             c == CopyAll(f, a)
             d == CopyAll(c, b)
             e == [d EXCEPT !.link = b.link]
             m == MakeHint(e)
             la == Count(a) - 1
             lb == Count(b) - 1
  <1>1. /\ a \in Page /\ b \in Page /\ a.leaf = TRUE /\ b.leaf = TRUE
        /\ a.lower \in Words /\ a.upper \in Words /\ b.lower \in Words /\ b.upper \in Words
        /\ Count(a) \in Nat /\ Count(b) \in Nat /\ b.link \in Int
        /\ a.slots \in Seq(SlotSet) /\ b.slots \in Seq(SlotSet)
        /\ Short(a.lower) /\ Short(b.upper)
    BY PageFacts DEF Loose
  <1>2. a.lower = <<>> \/ Less(a.lower, a.upper) BY DEF Loose, FencesAscend
  <1>3. b.upper = <<>> \/ Less(a.upper, b.upper) BY DEF Loose, FencesAscend
  <1>4. a.lower = <<>> \/ b.upper = <<>> \/ Less(a.lower, b.upper) BY <1>1, <1>2, <1>3, LessTransitive
  <1>5. PageOK(f) /\ FreshPage(f, TRUE, a.lower, b.upper) /\ Count(f) = 0 BY <1>1, <1>4, FreshIsOK
  <1> HIDE DEF f
  <1>6. /\ f \in Page /\ Loose(f) /\ f.leaf = TRUE /\ f.lower = a.lower /\ f.upper = b.upper
        /\ f.used = Len(a.lower) + Len(b.upper) /\ f.data + f.used = PageSize /\ SlotsOf(f) = {}
    <2>1. SlotsOf(f) = {} BY <1>5 DEF SlotsOf
    <2>2. QED BY <1>5, <2>1 DEF FreshPage, PageOK
  <1>7. ASSUME NEW i \in SlotsOf(a)
        PROVE  /\ FullKey(a, i) \in Words /\ KeyFits(f, FullKey(a, i)) /\ ~Less(a.upper, FullKey(a, i))
    <2>1. FullKey(a, i) \in Words /\ KeyFits(a, FullKey(a, i)) BY KeysAscend
    <2>2. ~Less(a.upper, FullKey(a, i)) BY <2>1 DEF KeyFits, Within
    <2>3. b.upper = <<>> \/ ~Less(b.upper, FullKey(a, i))
      <3>1. b.upper # <<>> => Less(FullKey(a, i), b.upper) BY <1>1, <1>3, <2>1, <2>2, NotLessTransitive
      <3>2. QED BY <1>1, <2>1, <3>1, LessAsymmetric
    <2>4. KeyFits(f, FullKey(a, i)) BY <1>1, <1>6, <2>1, <2>3 DEF KeyFits, Within
    <2>5. QED BY <2>1, <2>2, <2>4
  <1>8. ASSUME NEW i \in SlotsOf(b)
        PROVE  FullKey(b, i) \in Words /\ KeyFits(f, FullKey(b, i)) /\ Less(a.upper, FullKey(b, i))
    <2>1. FullKey(b, i) \in Words /\ KeyFits(b, FullKey(b, i)) BY KeysAscend
    <2>2. Less(a.upper, FullKey(b, i)) BY <2>1 DEF KeyFits, Within
    <2>3. a.lower = <<>> \/ Less(a.lower, FullKey(b, i)) BY <1>1, <1>2, <2>1, <2>2, LessTransitive
    <2>4. KeyFits(f, FullKey(b, i)) BY <1>1, <1>6, <2>1, <2>3 DEF KeyFits, Within
    <2>5. QED BY <2>1, <2>2, <2>4
  <1>9. /\ 0 \in 0..Count(a) /\ la \in (0 - 1)..(Count(a) - 1) /\ 0..la = SlotsOf(a) /\ la - 0 + 1 = Count(a)
        /\ 0 \in 0..Count(b) /\ lb \in (0 - 1)..(Count(b) - 1) /\ 0..lb = SlotsOf(b) /\ lb - 0 + 1 = Count(b)
        /\ la - 0 = la /\ lb - 0 = lb
    BY <1>1 DEF SlotsOf
  <1> HIDE DEF la, lb
  <1>10. \A i \in 0..la : IsPrefix(Prefix(f), FullKey(a, i)) BY <1>6, <1>7, <1>9, PrefixOfFittingKey
  <1>11. Copied(c, f, a, 0, la)
    <2>1. f.leaf = a.leaf BY <1>1, <1>6
    <2>2. CopyAll(f, a) = CopyRange(f, a, 0, la) BY DEF CopyAll, la
    <2>3. QED BY <1>1, <1>6, <1>9, <1>10, <2>1, <2>2, RangeCopied
  <1> HIDE DEF c
  <1>12. Loose(c)
    <2>1. f.leaf = a.leaf BY <1>1, <1>6
    <2>2. \A j \in 0..la : /\ KeyFits(f, FullKey(a, j))
                           /\ \A i \in SlotsOf(f) : Less(FullKey(f, i), FullKey(a, j))
      BY <1>6, <1>7, <1>9
    <2>3. QED BY <1>6, <1>9, <1>11, <2>1, <2>2, CopiedIsLoose
  <1>13. /\ c \in Page /\ SameFences(c, f) /\ Count(c) = Count(a) /\ c.leaf = b.leaf
         /\ \A i \in SlotsOf(a) : FullKey(c, i) = FullKey(a, i)
         /\ c.data + c.used = f.data + f.used
    <2>1. /\ c \in Page /\ SameFences(c, f) /\ Count(c) = Count(f) + (la - 0 + 1)
          /\ c.data + c.used = f.data + f.used
          /\ \A i \in 0..(la - 0) : FullKey(c, Count(f) + i) = FullKey(a, 0 + i)
      BY <1>11 DEF Copied
    <2>2. Count(c) = Count(a) BY <1>1, <1>5, <1>9, <2>1
    <2>3. ASSUME NEW i \in SlotsOf(a) PROVE FullKey(c, i) = FullKey(a, i)
      <3>1. i \in 0..(la - 0) /\ Count(f) + i = i /\ 0 + i = i BY <1>5, <1>9, <1>1 DEF SlotsOf
      <3>2. FullKey(c, Count(f) + i) = FullKey(a, 0 + i) BY <2>1, <3>1
      <3>3. QED BY <3>1, <3>2
    <2>4. c.leaf = b.leaf BY <1>1, <1>6, <2>1 DEF SameFences
    <2>5. QED BY <2>1, <2>2, <2>3, <2>4
  <1>14. /\ PrefixLen(c) = PrefixLen(f) /\ Prefix(c) = Prefix(f)
         /\ (\A w : KeyFits(c, w) <=> KeyFits(f, w))
    BY <1>13, SameFenceParts
  <1>15. \A j \in 0..lb : IsPrefix(Prefix(c), FullKey(b, j))
    BY <1>6, <1>8, <1>9, <1>14, PrefixOfFittingKey
  <1>16. Copied(d, c, b, 0, lb)
    <2>1. CopyAll(c, b) = CopyRange(c, b, 0, lb) BY DEF CopyAll, lb
    <2>2. QED BY <1>1, <1>9, <1>13, <1>15, <2>1, RangeCopied
  <1> HIDE DEF d
  <1>17. SlotsOf(c) = SlotsOf(a) BY <1>13 DEF SlotsOf
  <1>18. Loose(d)
    <2>1. \A j \in 0..lb : /\ KeyFits(c, FullKey(b, j))
                           /\ \A i \in SlotsOf(c) : Less(FullKey(c, i), FullKey(b, j))
      <3> SUFFICES ASSUME NEW j \in SlotsOf(b)
                   PROVE  /\ KeyFits(c, FullKey(b, j))
                          /\ \A i \in SlotsOf(a) : Less(FullKey(a, i), FullKey(b, j))
        BY <1>9, <1>13, <1>17
      <3>1. FullKey(b, j) \in Words /\ KeyFits(c, FullKey(b, j)) /\ Less(a.upper, FullKey(b, j))
        BY <1>8, <1>14
      <3>2. \A i \in SlotsOf(a) : Less(FullKey(a, i), FullKey(b, j))
        BY <1>1, <1>7, <3>1, NotLessTransitive
      <3>3. QED BY <3>1, <3>2
    <2>2. QED BY <1>9, <1>12, <1>13, <1>16, <2>1, CopiedIsLoose
  <1>19. /\ Loose(e) /\ SameFences(e, d) /\ e.link = b.link /\ e.used = d.used /\ e.data = d.data
         /\ Count(e) = Count(d) /\ \A i : FullKey(e, i) = FullKey(d, i) /\ Slot(e, i) = Slot(d, i)
    BY <1>1, <1>18, Relinked
  <1> HIDE DEF e
  <1>20. PageOK(m) /\ Same(m, e) /\ m.used = e.used /\ m.data = e.data BY <1>19, Hinted
  <1> HIDE DEF m
  <1>21. /\ SameFences(d, c) /\ Count(d) = Count(a) + Count(b) /\ d.data + d.used = c.data + c.used
         /\ \A i \in SlotsOf(a) : FullKey(d, i) = FullKey(a, i)
         /\ \A i \in SlotsOf(b) : FullKey(d, Count(a) + i) = FullKey(b, i)
    <2>1. /\ SameFences(d, c) /\ Count(d) = Count(c) + (lb - 0 + 1) /\ d.data + d.used = c.data + c.used
          /\ \A i \in SlotsOf(c) : FullKey(d, i) = FullKey(c, i)
          /\ \A i \in 0..(lb - 0) : FullKey(d, Count(c) + i) = FullKey(b, 0 + i)
      BY <1>16 DEF Copied
    <2>2. Count(d) = Count(a) + Count(b) BY <1>9, <1>13, <2>1
    <2>3. \A i \in SlotsOf(a) : FullKey(d, i) = FullKey(a, i) BY <1>13, <1>17, <2>1
    <2>4. \A i \in SlotsOf(b) : i \in 0..(lb - 0) /\ 0 + i = i BY <1>1, <1>9 DEF SlotsOf
    <2>5. \A i \in SlotsOf(b) : FullKey(d, Count(a) + i) = FullKey(b, i) BY <1>13, <2>1, <2>4
    <2>6. QED BY <2>1, <2>2, <2>3, <2>5
  <1>22. Count(m) = Count(a) + Count(b) /\ SlotsOf(e) = 0..((Count(a) + Count(b)) - 1)
    <2>1. Count(e) = Count(a) + Count(b) BY <1>19, <1>21
    <2>2. Count(m) = Count(a) + Count(b) BY <1>20, <2>1 DEF Same
    <2>3. SlotsOf(e) = 0..((Count(a) + Count(b)) - 1) BY <2>1 DEF SlotsOf
    <2>4. QED BY <2>2, <2>3
  <1>23. Joined(m, a, b)
    <2>1. m.leaf = TRUE /\ m.lower = a.lower /\ m.upper = b.upper /\ m.link = b.link
      BY <1>6, <1>13, <1>19, <1>20, <1>21 DEF Same, SameFences
    <2>8. \A x, y \in Nat : /\ \A i \in 0..(x - 1) : i \in 0..((x + y) - 1)
                            /\ \A i \in 0..(y - 1) : x + i \in 0..((x + y) - 1)
      OBVIOUS
    <2>2. \A i \in SlotsOf(a) : i \in SlotsOf(e) BY <1>1, <1>22, <2>8 DEF SlotsOf
    <2>3. \A i \in SlotsOf(b) : Count(a) + i \in SlotsOf(e) BY <1>1, <1>22, <2>8 DEF SlotsOf
    <2>4. \A i \in SlotsOf(e) : FullKey(m, i) = FullKey(e, i) BY <1>20 DEF Same
    <2>5. \A i \in SlotsOf(a) : FullKey(m, i) = FullKey(a, i) BY <1>19, <1>21, <2>2, <2>4
    <2>6. \A i \in SlotsOf(b) : FullKey(m, Count(a) + i) = FullKey(b, i) BY <1>19, <1>21, <2>3, <2>4
    <2>7. QED BY <1>22, <2>1, <2>5, <2>6 DEF Joined
  <1>24. MergedBound(a, b) <= PageSize => FreeSpace(m) >= 0
    <2> DEFINE sa == SizeOf(a.slots, PayLen(a))
               sb == SizeOf(b.slots, PayLen(b))
               x == SlotSize * (Count(a) + Count(b))
               da == (PrefixLen(a) - PrefixLen(f)) * Count(a)
               db == (PrefixLen(b) - PrefixLen(f)) * Count(b)
               p == Len(a.lower)
               q == Len(a.upper)
               r == Len(b.upper)
    <2>1. c.used = f.used + sa + da
      <3>1. c.used = f.used + SizeOf(SubSeq(a.slots, 0 + 1, la + 1), PayLen(a))
                       + (PrefixLen(a) - PrefixLen(f)) * (la - 0 + 1)
        BY <1>11 DEF Copied
      <3>2. 0 + 1 = 1 /\ la + 1 = Len(a.slots) BY <1>1 DEF la, Count
      <3>3. SubSeq(a.slots, 0 + 1, la + 1) = a.slots BY <1>1, <3>2, AllOfSlots
      <3>4. QED BY <1>9, <3>1, <3>3
    <2>2. d.used = c.used + sb + db
      <3>1. d.used = c.used + SizeOf(SubSeq(b.slots, 0 + 1, lb + 1), PayLen(b))
                       + (PrefixLen(b) - PrefixLen(c)) * (lb - 0 + 1)
        BY <1>16 DEF Copied
      <3>2. 0 + 1 = 1 /\ lb + 1 = Len(b.slots) BY <1>1 DEF lb, Count
      <3>3. SubSeq(b.slots, 0 + 1, lb + 1) = b.slots BY <1>1, <3>2, AllOfSlots
      <3>4. QED BY <1>9, <1>14, <3>1, <3>3
    <2>3. a.used = p + q + sa /\ b.used = q + r + sb BY DEF Loose, Counted
    <2>4. /\ p \in Nat /\ q \in Nat /\ r \in Nat /\ sa \in Nat /\ sb \in Nat
      BY <1>1, WordFacts, SizeType, PageFacts
    <2>5. PrefixLen(f) = SharedLen(a.lower, b.upper) BY <1>6 DEF PrefixLen
    <2>6. MergedBound(a, b) = a.used + b.used + x + da + db BY <2>5 DEF MergedBound
    <2>7. FreeSpace(m) = m.data - x BY <1>22 DEF FreeSpace
    <2>8. m.data + m.used = PageSize /\ m.used = d.used /\ f.used = p + r
      BY <1>6, <1>13, <1>19, <1>20, <1>21
    <2>9. m.data \in Int /\ m.used \in Int /\ c.used \in Int /\ PageSize \in Nat
      BY <1>13, <1>20, PageFacts, LayoutAssumption DEF PageOK, Loose
    <2>10. x \in Nat
      <3>1. SlotSize \in Nat /\ Count(a) + Count(b) \in Nat BY <1>1, LayoutAssumption
      <3>2. QED BY <3>1
    <2>11. da \in Int /\ db \in Int
      <3>1. PrefixLen(a) - PrefixLen(f) \in Int /\ PrefixLen(b) - PrefixLen(f) \in Int
        BY <1>1, <1>6, PrefixFacts
      <3>2. QED BY <1>1, <3>1
    <2> HIDE DEF sa, sb, x, da, db, p, q, r
    <2>12. m.used = p + r + sa + da + sb + db BY <2>1, <2>2, <2>4, <2>8, <2>11
    <2>13. MergedBound(a, b) = (p + q + sa) + (q + r + sb) + x + da + db BY <2>3, <2>6
    <2>14. m.data = PageSize - (p + r + sa + da + sb + db) BY <2>4, <2>8, <2>9, <2>11, <2>12
    <2>15. MergedBound(a, b) <= PageSize => m.data - x >= 0
      BY <2>4, <2>9, <2>10, <2>11, <2>13, <2>14
    <2>16. QED BY <2>7, <2>15
  <1>25. Merged(a, b) = m BY DEF Merged, m, e, d, c, f
  <1>26. QED BY <1>20, <1>23, <1>24, <1>25

-------------------------------------------------------------------------------
(* When there is something to split.                                             *)

Splittable(n) == Count(n) >= 1 /\ (n.leaf => Count(n) >= 2)

LEMMA SplitSlotIsInside ==
  ASSUME NEW n \in Page, Splittable(n), NEW ordered \in BOOLEAN
  PROVE  LET slot == SplitSlot(n, ordered)
         IN slot \in SlotsOf(n) /\ (n.leaf => slot + 1 \in SlotsOf(n))
  <1> DEFINE c == Count(n)
             slot == SplitSlot(n, ordered)
  <1>1. c \in Nat /\ Many \in Nat \ {0, 1} /\ n.leaf \in BOOLEAN BY PageFacts, SearchAssumption
  <1>2. c \div 2 \in Nat /\ 2 * (c \div 2) <= c /\ (c - 1) \div 2 \in Int /\ 2 * ((c - 1) \div 2) <= c - 1
        /\ (c >= 1 => (c - 1) \div 2 \in Nat)
    BY <1>1
  <1>3. c >= 1 /\ (n.leaf => c >= 2) BY DEF Splittable
  <1>4. CASE ~n.leaf
    <2>1. slot = c \div 2 BY <1>4 DEF SplitSlot
    <2> HIDE DEF slot, c
    <2>2. slot \in 0..(c - 1) BY <1>1, <1>2, <1>3, <2>1
    <2>3. QED BY <1>4, <2>2 DEF slot, c, SlotsOf
  <1>5. CASE n.leaf /\ ordered
    <2>1. slot = c - 2 BY <1>5 DEF SplitSlot
    <2> HIDE DEF slot, c
    <2>2. slot \in 0..(c - 1) /\ slot + 1 \in 0..(c - 1) BY <1>1, <1>3, <1>5, <2>1
    <2>3. QED BY <2>2 DEF slot, c, SlotsOf
  <1>6. CASE n.leaf /\ ~ordered /\ c > Many
    <2> DEFINE upper == c \div 2
               lower == upper - c \div Many
               T(s) == s = upper \/ CommonPrefix(n, s, 0) # CommonPrefix(n, lower, 0)
               S == {s \in (lower + 1)..upper : T(s)}
    <2>1. slot = ShortSeparatorSlot(n) BY <1>6 DEF SplitSlot
    <2>2. slot = lower \/ slot = Min(S) BY <2>1 DEF ShortSeparatorSlot
    <2>3. upper \in Nat /\ lower \in Nat /\ lower < upper /\ 2 * upper <= c
      <3> DEFINE q == c \div Many
      <3>1. q \in Nat /\ Many * q <= c /\ c < Many * q + Many BY <1>1, DivFacts
      <3>2. q >= 1
        <4>1. q = 0 => Many * q = 0 BY <1>1
        <4>2. ~(q = 0)
          <5> HIDE DEF q
          <5>1. QED BY <1>1, <1>6, <3>1, <4>1
        <4> HIDE DEF q
        <4>3. QED BY <3>1, <4>2
      <3>3. 2 * q <= Many * q
        <4>1. q * 2 \in Nat /\ q * Many \in Nat /\ q * 2 <= q * Many
          <5>1. 2 \in Nat /\ Many \in Nat /\ 2 <= Many BY <1>1
          <5> HIDE DEF q
          <5>2. QED BY <3>1, <5>1, ProductOrder
        <4>2. q * 2 = 2 * q /\ q * Many = Many * q
          <5> HIDE DEF q
          <5>1. QED BY <1>1, <3>1
        <4> HIDE DEF q
        <4>3. QED BY <4>1, <4>2
      <3>4. 2 * q <= c
        <4> DEFINE mq == Many * q
        <4>1. mq <= c /\ 2 * q <= mq /\ mq \in Int BY <1>1, <3>1, <3>3
        <4> HIDE DEF mq, q
        <4>2. QED BY <1>1, <3>1, <4>1
      <3> HIDE DEF q, c
      <3>5. c \div 2 \in Nat /\ 2 * (c \div 2) <= c /\ c < 2 * (c \div 2) + 2 BY <1>1
      <3> DEFINE h == c \div 2
      <3>6. h \in Nat /\ 2 * h <= c /\ c < 2 * h + 2 BY <3>5
      <3> HIDE DEF h
      <3>7. q <= h BY <1>1, <3>1, <3>4, <3>6
      <3>8. h \in Nat /\ h - q \in Nat /\ h - q < h /\ 2 * h <= c BY <3>1, <3>2, <3>6, <3>7
      <3>9. QED BY <3>8 DEF h, q, c
    <2> HIDE DEF T, upper, lower
    <2>4. upper \in S BY <2>3 DEF T
    <2>5. S \subseteq Nat BY <2>3
    <2>6. Min(S) \in S
      <3> HIDE DEF S
      <3>1. QED BY <2>4, <2>5, MinIsLeast
    <2>7. slot \in lower..upper BY <2>2, <2>3, <2>6
    <2> HIDE DEF slot, c, S
    <2>8. slot \in 0..(c - 1) /\ slot + 1 \in 0..(c - 1)
      <3>1. c > 2 /\ slot \in Nat /\ slot <= upper BY <1>1, <1>3, <1>6, <2>3, <2>7
      <3>2. slot + 1 <= c - 1 BY <1>1, <2>3, <3>1
      <3>3. QED BY <1>1, <3>1, <3>2
    <2>9. QED BY <2>8 DEF slot, c, SlotsOf
  <1>7. CASE n.leaf /\ ~ordered /\ ~(c > Many)
    <2>1. slot = (c - 1) \div 2 BY <1>7 DEF SplitSlot
    <2> HIDE DEF slot, c
    <2>2. slot \in 0..(c - 1) /\ slot + 1 \in 0..(c - 1) BY <1>1, <1>2, <1>3, <1>7, <2>1
    <2>3. QED BY <2>2 DEF slot, c, SlotsOf
  <1>8. QED BY <1>1, <1>4, <1>5, <1>6, <1>7

LEMMA LayoutFacts ==
  /\ MaxKVSize \in Nat /\ 4 * MaxKVSize + 2 * SlotSize <= PageSize
  /\ PageSize \in Nat /\ SlotSize \in Nat /\ ValueLen \in Nat /\ PidLen \in Nat /\ PidLen <= MaxKVSize
  <1> DEFINE x == PageSize - 2 * SlotSize
  <1>1. PageSize \in Nat /\ SlotSize \in Nat /\ ValueLen \in Nat /\ PidLen \in Nat /\ PidLen <= MaxKVSize
    BY LayoutAssumption
  <1>2. x \in Int /\ MaxKVSize = x \div 4 BY <1>1 DEF MaxKVSize
  <1> HIDE DEF x
  <1>3. x \div 4 \in Int /\ 4 * (x \div 4) <= x BY <1>2
  <1>4. x = PageSize - 2 * SlotSize BY DEF x
  <1>5. MaxKVSize \in Nat BY <1>1, <1>2, <1>3
  <1>6. QED BY <1>1, <1>2, <1>3, <1>4, <1>5

\* A page has space for a key, unless it has what a split needs.
LEMMA FullIsSplittable ==
  ASSUME NEW n, Loose(n), NEW k \in Words, Short(k), ~HasSpaceFor(n, Len(k))
  PROVE  Splittable(n)
  <1> DEFINE M == MaxKVSize
             a == Len(n.lower)
             b == Len(n.upper)
             l == Len(k)
             p == PrefixLen(n)
             pay == PayLen(n)
             s == SizeOf(n.slots, pay)
             c == Count(n)
             x == SlotSize * c
  <1>1. n \in Page /\ c \in Nat /\ pay \in Nat /\ n.slots \in Seq(SlotSet) /\ n.leaf \in BOOLEAN
        /\ c = Len(n.slots) /\ n.used \in Int
    BY PageFacts DEF Loose, Count
  <1>2. a \in Nat /\ b \in Nat /\ l \in Nat /\ p \in Nat /\ s \in Nat
    BY <1>1, PageFacts, WordFacts, PrefixFacts, SizeType
  <1>3. M \in Nat /\ 4 * M + 2 * SlotSize <= PageSize /\ PageSize \in Nat /\ SlotSize \in Nat
        /\ ValueLen \in Nat /\ PidLen \in Nat /\ PidLen <= M
    BY LayoutFacts
  <1>4. a + ValueLen <= M /\ b + ValueLen <= M /\ l + ValueLen <= M BY DEF Loose, Short
  <1>5. n.used = a + b + s BY DEF Loose, Counted
  <1>6. SpaceNeeded(n, l) = SlotSize + (l - p) + pay /\ FreeAfter(n) = PageSize - x - n.used
    BY DEF SpaceNeeded, FreeAfter
  <1>7. ~(SpaceNeeded(n, l) <= FreeAfter(n)) BY DEF HasSpaceFor
  <1>8. pay <= M /\ (n.leaf => pay = ValueLen) BY <1>2, <1>3, <1>4 DEF PayLen
  <1>9. x \in Nat /\ (c = 0 => x = 0) /\ (c = 1 => x = SlotSize)
    <2> HIDE DEF c
    <2>1. SlotSize * c \in Nat BY <1>1, <1>3
    <2>2. c = 0 => SlotSize * c = 0 BY <1>3
    <2>3. c = 1 => SlotSize * c = SlotSize BY <1>3
    <2>4. QED BY <2>1, <2>2, <2>3
  <1>10. c = 0 => s = 0
    <2>1. n.slots \in Seq(SlotSet) /\ c = 0 => n.slots = <<>> BY <1>1, EmptySeq
    <2>2. QED BY <1>1, <2>1, SizeOfNone
  <1>11. n.leaf /\ c = 1 => s <= M
    <2> SUFFICES ASSUME n.leaf, c = 1 PROVE s <= M OBVIOUS
    <2> DEFINE e == n.slots[1]
    <2>1. e \in SlotSet /\ Len(e.key) \in Nat BY <1>1, SlotFacts
    <2>2. <<e>> = n.slots
      <3> HIDE DEF e
      <3>1. <<e>> \in Seq(SlotSet) /\ Len(<<e>>) = 1 /\ <<e>>[1] = e BY <2>1
      <3>2. \A j \in 1..1 : <<e>>[j] = n.slots[j] BY <3>1 DEF e
      <3>3. Len(n.slots) = 1 BY <1>1
      <3> DEFINE t == <<e>>
      <3>4. t \in Seq(SlotSet) /\ Len(t) = Len(n.slots) /\ \A j \in 1..Len(t) : t[j] = n.slots[j]
        BY <3>1, <3>2, <3>3
      <3> HIDE DEF t
      <3>5. t = n.slots BY <1>1, <3>4, SeqEqual
      <3>6. QED BY <3>5 DEF t
    <2>3. s = Len(e.key) + pay BY <1>1, <2>1, <2>2, SizeOfOne
    <2>4. 0 \in SlotsOf(n) /\ e = Slot(n, 0) BY <1>1 DEF SlotsOf, Slot
    <2>5. Len(FullKey(n, 0)) = p + Len(e.key) /\ Len(FullKey(n, 0)) + ValueLen <= M
      <3>1. Len(FullKey(n, 0)) = p + Len(e.key) BY <1>1, <2>4, SlotOfPage
      <3>2. QED BY <2>4, <3>1 DEF Loose, KeysFitIn, KeyFits, Short
    <2>6. pay = ValueLen BY <1>8
    <2> HIDE DEF s, e, p, M, pay
    <2>7. QED BY <1>2, <1>3, <2>1, <2>3, <2>5, <2>6
  <1> HIDE DEF M, a, b, l, p, pay, s, c, x
  <1>12. ~(SlotSize + (l - p) + pay <= PageSize - x - (a + b + s)) BY <1>5, <1>6, <1>7
  <1>13. c # 0
    <2> SUFFICES ASSUME c = 0 PROVE FALSE OBVIOUS
    <2>1. s = 0 /\ x = 0 BY <1>9, <1>10
    <2>2. SlotSize + (l - p) + pay <= PageSize - x - (a + b + s)
      <3>1. SlotSize + (l - p) + pay <= SlotSize + M + M BY <1>2, <1>3, <1>4, <1>8, <1>1
      <3>2. PageSize - x - (a + b + s) >= PageSize - M - M BY <1>2, <1>3, <1>4, <2>1
      <3>3. SlotSize + M + M <= PageSize - M - M BY <1>3
      <3> DEFINE u == SlotSize + (l - p) + pay
                 v == PageSize - x - (a + b + s)
      <3>4. u \in Int /\ v \in Int BY <1>1, <1>2, <1>3, <1>9
      <3>5. u <= SlotSize + M + M /\ v >= PageSize - M - M BY <3>1, <3>2
      <3> HIDE DEF u, v
      <3>6. u <= v BY <1>3, <3>3, <3>4, <3>5
      <3>7. QED BY <3>6 DEF u, v
    <2>3. QED BY <1>12, <2>2
  <1>14. n.leaf => c # 1
    <2> SUFFICES ASSUME n.leaf, c = 1 PROVE FALSE OBVIOUS
    <2>1. s <= M /\ x = SlotSize /\ pay = ValueLen BY <1>8, <1>9, <1>11
    <2>2. QED BY <1>2, <1>3, <1>4, <1>12, <2>1
  <1>15. c >= 1 /\ (n.leaf => c >= 2)
    <2>1. c \in Nat BY <1>1
    <2>2. c >= 1 BY <1>13, <2>1
    <2>3. c # 1 => c >= 2 BY <2>1, <2>2
    <2>4. QED BY <1>14, <2>2, <2>3
  <1>16. QED BY <1>15 DEF Splittable, c

LEMMA RootHasSpace ==
  ASSUME NEW k \in Words, Short(k), NEW link \in Int
  PROVE  LET r == [Fresh(FALSE, <<>>, <<>>) EXCEPT !.link = link]
         IN /\ PageOK(r) /\ r.leaf = FALSE /\ r.lower = <<>> /\ r.upper = <<>> /\ r.link = link
            /\ Count(r) = 0 /\ FreeSpace(r) >= 0 /\ HasSpaceFor(r, Len(k))
  <1> DEFINE f == Fresh(FALSE, <<>>, <<>>)
             r == [f EXCEPT !.link = link]
             l == Len(k)
  <1>1. MaxKVSize \in Nat /\ 4 * MaxKVSize + 2 * SlotSize <= PageSize /\ PageSize \in Nat /\ SlotSize \in Nat
        /\ ValueLen \in Nat /\ PidLen \in Nat /\ PidLen <= MaxKVSize
    BY LayoutFacts
  <1>2. l \in Nat /\ l + ValueLen <= MaxKVSize BY WordFacts DEF Short
  <1>3. <<>> \in Words /\ Len(<<>>) = 0 BY EmptyIsLeast
  <1>4. Short(<<>>) BY <1>1, <1>2, <1>3 DEF Short
  <1>5. PageOK(f) /\ FreshPage(f, FALSE, <<>>, <<>>) /\ Count(f) = 0 BY <1>3, <1>4, FreshIsOK
  <1> HIDE DEF f
  <1>6. /\ Loose(r) /\ SameFences(r, f) /\ r.slots = f.slots /\ r.link = link
        /\ r.used = f.used /\ r.data = f.data /\ r.hints = f.hints
        /\ Count(r) = Count(f) /\ \A i : FullKey(r, i) = FullKey(f, i) /\ Slot(r, i) = Slot(f, i)
    BY <1>5, Relinked DEF PageOK
  <1> HIDE DEF r
  <1>7. HintDist(r) = HintDist(f) /\ \A i : HeadAt(r, i) = HeadAt(f, i) BY <1>6, SameSlotParts
  <1>8. PageOK(r) BY <1>5, <1>6, <1>7 DEF PageOK, HintsRight
  <1>9. r.leaf = FALSE /\ r.lower = <<>> /\ r.upper = <<>> /\ Count(r) = 0 /\ r.used = 0 /\ r.data + r.used = PageSize
    BY <1>3, <1>5, <1>6 DEF FreshPage, SameFences
  <1>10. SlotSize * 0 = 0 BY <1>1
  <1>11. r.data \in Int /\ r.used \in Int BY <1>8, PageFacts DEF PageOK, Loose
  <1>12. FreeSpace(r) >= 0 BY <1>1, <1>9, <1>10, <1>11 DEF FreeSpace
  <1>13. HasSpaceFor(r, l)
    <2>1. PrefixLen(r) = 0 BY <1>3, <1>9, EmptyIsLeast DEF PrefixLen
    <2>2. PayLen(r) = PidLen BY <1>9 DEF PayLen
    <2>3. SpaceNeeded(r, l) = SlotSize + (l - 0) + PidLen BY <2>1, <2>2 DEF SpaceNeeded
    <2>4. FreeAfter(r) = PageSize - 0 - 0 BY <1>9, <1>10 DEF FreeAfter
    <2> HIDE DEF l
    <2>5. SlotSize + (l - 0) + PidLen <= PageSize - 0 - 0 BY <1>1, <1>2
    <2>6. QED BY <2>3, <2>4, <2>5 DEF HasSpaceFor
  <1>14. QED BY <1>6, <1>8, <1>9, <1>12, <1>13 DEF r, f, l

-------------------------------------------------------------------------------
(* The children of a page: child i has the keys up to key i, the last one the    *)
(* rest.                                                                         *)

Child(n, i) == IF i = Count(n) THEN n.link ELSE Slot(n, i).pay
Low(n, i) == IF i = 0 THEN n.lower ELSE FullKey(n, i - 1)
High(n, i) == IF i = Count(n) THEN n.upper ELSE FullKey(n, i)
InRange(n, i, w) == (Low(n, i) = <<>> \/ Less(Low(n, i), w)) /\ (High(n, i) = <<>> \/ ~Less(High(n, i), w))
\* The keys: the empty one is no key.
Names == Words \ {<<>>}

LEMMA RangeKeys ==
  ASSUME NEW n, Loose(n), NEW i \in 0..Count(n)
  PROVE  /\ Count(n) \in Nat /\ i \in Nat
         /\ i > 0 => /\ i - 1 \in SlotsOf(n) /\ Low(n, i) = FullKey(n, i - 1) /\ Low(n, i) # <<>>
         /\ i < Count(n) => /\ i \in SlotsOf(n) /\ High(n, i) = FullKey(n, i) /\ High(n, i) # <<>>
         /\ i = 0 => Low(n, i) = n.lower
         /\ i = Count(n) => High(n, i) = n.upper
         /\ Low(n, i) \in Words /\ High(n, i) \in Words
  <1>1. n \in Page /\ Count(n) \in Nat /\ n.lower \in Words /\ n.upper \in Words BY PageFacts DEF Loose
  <1>2. i \in Nat BY <1>1
  <1>3. i > 0 => /\ i - 1 \in SlotsOf(n) /\ Low(n, i) = FullKey(n, i - 1) /\ Low(n, i) # <<>>
                 /\ Low(n, i) \in Words
    <2> SUFFICES ASSUME i > 0
                 PROVE  /\ i - 1 \in SlotsOf(n) /\ Low(n, i) = FullKey(n, i - 1) /\ Low(n, i) # <<>>
                        /\ Low(n, i) \in Words
      OBVIOUS
    <2>1. i - 1 \in SlotsOf(n) BY <1>1, <1>2 DEF SlotsOf
    <2>2. Low(n, i) = FullKey(n, i - 1) BY <1>2 DEF Low
    <2>3. FullKey(n, i - 1) \in Words /\ FullKey(n, i - 1) # <<>> BY <2>1, KeysAscend DEF KeyFits
    <2>4. QED BY <2>1, <2>2, <2>3
  <1>4. i < Count(n) => /\ i \in SlotsOf(n) /\ High(n, i) = FullKey(n, i) /\ High(n, i) # <<>>
                        /\ High(n, i) \in Words
    <2> SUFFICES ASSUME i < Count(n)
                 PROVE  /\ i \in SlotsOf(n) /\ High(n, i) = FullKey(n, i) /\ High(n, i) # <<>>
                        /\ High(n, i) \in Words
      OBVIOUS
    <2>1. i \in SlotsOf(n) BY <1>1, <1>2 DEF SlotsOf
    <2>2. High(n, i) = FullKey(n, i) BY <1>1, <1>2 DEF High
    <2>3. FullKey(n, i) \in Words /\ FullKey(n, i) # <<>> BY <2>1, KeysAscend DEF KeyFits
    <2>4. QED BY <2>1, <2>2, <2>3
  <1>5. i = 0 => Low(n, i) = n.lower BY DEF Low
  <1>6. i = Count(n) => High(n, i) = n.upper BY DEF High
  <1>7. Low(n, i) \in Words BY <1>1, <1>2, <1>3, <1>5
  <1>8. High(n, i) \in Words BY <1>1, <1>2, <1>4, <1>6
  <1>9. QED BY <1>1, <1>2, <1>3, <1>4, <1>5, <1>6, <1>7, <1>8

LEMMA RangeInside ==
  ASSUME NEW n, Loose(n), NEW i \in 0..Count(n), NEW w \in Words, InRange(n, i, w)
  PROVE  Within(n, w)
  <1>1. n \in Page /\ Count(n) \in Nat /\ i \in Nat /\ n.lower \in Words /\ n.upper \in Words
    BY PageFacts DEF Loose
  <1>2. n.lower = <<>> \/ Less(n.lower, w)
    <2>1. CASE i = 0 BY <2>1, RangeKeys DEF InRange
    <2>2. CASE i > 0
      <3>1. i - 1 \in SlotsOf(n) /\ Less(FullKey(n, i - 1), w) BY <2>2, RangeKeys DEF InRange
      <3>2. FullKey(n, i - 1) \in Words /\ KeyFits(n, FullKey(n, i - 1)) BY <3>1, KeysAscend
      <3>3. QED BY <1>1, <3>1, <3>2, LessTransitive DEF KeyFits, Within
    <2>3. QED BY <1>1, <2>1, <2>2
  <1>3. n.upper = <<>> \/ ~Less(n.upper, w)
    <2>1. CASE i = Count(n) BY <2>1, RangeKeys DEF InRange
    <2>2. CASE i < Count(n)
      <3>1. i \in SlotsOf(n) /\ ~Less(FullKey(n, i), w) BY <2>2, RangeKeys DEF InRange
      <3>2. FullKey(n, i) \in Words /\ KeyFits(n, FullKey(n, i)) BY <3>1, KeysAscend
      <3>3. QED BY <1>1, <3>1, <3>2, NotLessTransitive DEF KeyFits, Within
    <2>3. QED BY <1>1, <2>1, <2>2
  <1>4. QED BY <1>2, <1>3 DEF Within

LEMMA RangesApart ==
  ASSUME NEW n, Loose(n), NEW i \in 0..Count(n), NEW j \in 0..Count(n), NEW w \in Words,
         InRange(n, i, w), InRange(n, j, w)
  PROVE  i = j
  <1>1. ASSUME NEW x \in 0..Count(n), NEW y \in 0..Count(n), InRange(n, x, w), InRange(n, y, w), x < y
        PROVE  FALSE
    <2>1. x \in Nat /\ y \in Nat /\ y > 0 /\ x < Count(n) /\ Count(n) \in Nat BY <1>1, RangeKeys
    <2>2. y - 1 \in SlotsOf(n) /\ Less(FullKey(n, y - 1), w) BY <1>1, <2>1, RangeKeys DEF InRange
    <2>3. x \in SlotsOf(n) /\ ~Less(FullKey(n, x), w) BY <1>1, <2>1, RangeKeys DEF InRange
    <2>4. x <= y - 1 BY <1>1, <2>1
    <2>5. ~Less(FullKey(n, y - 1), FullKey(n, x)) BY <2>2, <2>3, <2>4, KeysAscend
    <2>6. FullKey(n, x) \in Words /\ FullKey(n, y - 1) \in Words BY <2>2, <2>3, KeysAscend
    <2>7. QED BY <2>2, <2>3, <2>5, <2>6, NotLessTransitive
  <1>2. i \in Nat /\ j \in Nat BY RangeKeys
  <1>3. QED BY <1>1, <1>2

\* The search of an inner page goes to the child with the key's range.
LEMMA LookupFindsRange ==
  ASSUME NEW n, PageOK(n), NEW w \in Words
  PROVE  LET pos == LowerBound(n, w)[1]
         IN /\ pos \in 0..Count(n) /\ LookupInner(n, w) = Child(n, pos)
            /\ Within(n, w) => InRange(n, pos, w)
  <1> DEFINE pos == LowerBound(n, w)[1]
  <1>1. Loose(n) /\ n \in Page /\ Count(n) \in Nat BY PageFacts DEF PageOK, Loose
  <1>2. IsLowerBound(n, w, LowerBound(n, w)) BY <1>1, LowerBoundIsRight DEF PageOK, Loose
  <1>3. pos \in 0..Count(n) /\ \A i \in SlotsOf(n) : i < pos <=> Less(FullKey(n, i), w)
    BY <1>2 DEF IsLowerBound
  <1>4. LookupInner(n, w) = Child(n, pos) BY DEF LookupInner, Child
  <1> HIDE DEF pos
  <1>5. Within(n, w) => InRange(n, pos, w)
    <2> SUFFICES ASSUME Within(n, w) PROVE InRange(n, pos, w) OBVIOUS
    <2>1. Low(n, pos) = <<>> \/ Less(Low(n, pos), w)
      <3>1. CASE pos = 0 BY <3>1 DEF Within, Low
      <3>2. CASE pos > 0
        <4>1. pos - 1 \in SlotsOf(n) /\ Low(n, pos) = FullKey(n, pos - 1) BY <1>1, <1>3, <3>2, RangeKeys
        <4>2. pos - 1 < pos BY <1>1, <1>3
        <4>3. QED BY <1>3, <4>1, <4>2
      <3>3. QED BY <1>1, <1>3, <3>1, <3>2
    <2>2. High(n, pos) = <<>> \/ ~Less(High(n, pos), w)
      <3>1. CASE pos = Count(n) BY <3>1 DEF Within, High
      <3>2. CASE pos < Count(n)
        <4>1. pos \in SlotsOf(n) /\ High(n, pos) = FullKey(n, pos) BY <1>1, <1>3, <3>2, RangeKeys
        <4>2. ~(pos < pos) BY <1>1, <1>3
        <4>3. QED BY <1>3, <4>1, <4>2
      <3>3. QED BY <1>1, <1>3, <3>1, <3>2
    <2>3. QED BY <2>1, <2>2 DEF InRange
  <1>6. QED BY <1>3, <1>4, <1>5 DEF pos

LEMMA PositionInRange ==
  ASSUME NEW n, PageOK(n), NEW i \in 0..Count(n), NEW w \in Words, InRange(n, i, w)
  PROVE  LowerBound(n, w)[1] = i
  <1>1. Loose(n) BY DEF PageOK
  <1>2. Within(n, w) BY <1>1, RangeInside
  <1>3. LowerBound(n, w)[1] \in 0..Count(n) /\ InRange(n, LowerBound(n, w)[1], w)
    BY <1>2, LookupFindsRange
  <1> DEFINE pos == LowerBound(n, w)[1]
  <1> HIDE DEF pos
  <1>4. pos \in 0..Count(n) /\ InRange(n, pos, w) BY <1>3 DEF pos
  <1>5. pos = i BY <1>1, <1>4, RangesApart
  <1>6. QED BY <1>5 DEF pos

-------------------------------------------------------------------------------
(* The tree: lev is the level of a page, 0 for a leaf, negative for a page that  *)
(* is not in the tree.                                                           *)

IsChild(nds, lev, p, i) ==
  LET c == Child(nds[p], i)
  IN /\ c \in Pages /\ lev[c] = lev[p] - 1
     /\ nds[c].lower = Low(nds[p], i) /\ nds[c].upper = High(nds[p], i)
Linked(nds, lev) == \A p \in Pages : lev[p] > 0 => \A i \in 0..Count(nds[p]) : IsChild(nds, lev, p, i)
Apart(nds, lev) ==
  \A p, q \in Pages : lev[p] = lev[q] /\ lev[p] >= 0 =>
    \A w \in Names : Within(nds[p], w) /\ Within(nds[q], w) => p = q
Rooted(nds, rt, lev) ==
  /\ rt \in Pages /\ lev[rt] >= 0 /\ nds[rt].lower = <<>> /\ nds[rt].upper = <<>>
  /\ \A p \in Pages : lev[p] <= lev[rt]
Tree(nds, rt, lev) ==
  /\ nds \in [Pages -> Page] /\ lev \in [Pages -> Int]
  /\ \A p \in Pages : PageOK(nds[p])
  /\ \A p \in Pages : lev[p] <= 0 <=> nds[p].leaf
  /\ Rooted(nds, rt, lev) /\ Linked(nds, lev) /\ Apart(nds, lev)

LEMMA TreeFacts ==
  ASSUME NEW nds, NEW rt, NEW lev, Tree(nds, rt, lev), NEW p \in Pages
  PROVE  /\ nds[p] \in Page /\ PageOK(nds[p]) /\ Loose(nds[p]) /\ Count(nds[p]) \in Nat
         /\ lev[p] \in Int /\ nds[p].leaf \in BOOLEAN /\ (lev[p] <= 0 <=> nds[p].leaf)
         /\ ~nds[p].leaf => lev[p] > 0
  <1>1. nds[p] \in Page /\ PageOK(nds[p]) /\ lev[p] \in Int /\ (lev[p] <= 0 <=> nds[p].leaf) BY DEF Tree
  <1>2. nds[p].leaf \in BOOLEAN /\ Count(nds[p]) \in Nat BY <1>1, PageFacts
  <1>3. Loose(nds[p]) BY <1>1 DEF PageOK
  <1>4. QED BY <1>1, <1>2, <1>3

\* Between a child's fences is what is in its range.
LEMMA ChildRange ==
  ASSUME NEW nds, NEW rt, NEW lev, Tree(nds, rt, lev), NEW p \in Pages, lev[p] > 0,
         NEW i \in 0..Count(nds[p]), NEW w \in Words
  PROVE  /\ IsChild(nds, lev, p, i)
         /\ Within(nds[Child(nds[p], i)], w) <=> InRange(nds[p], i, w)
  <1>1. IsChild(nds, lev, p, i) BY DEF Tree, Linked
  <1>2. QED BY <1>1 DEF IsChild, Within, InRange

\* Two children of a page are two pages.
LEMMA ChildrenDiffer ==
  ASSUME NEW nds, NEW rt, NEW lev, Tree(nds, rt, lev), NEW p \in Pages, lev[p] > 0,
         NEW i \in 0..Count(nds[p]), NEW j \in 0..Count(nds[p]), Child(nds[p], i) = Child(nds[p], j)
  PROVE  i = j
  <1> DEFINE n == nds[p]
  <1>1. Loose(n) /\ Count(n) \in Nat BY TreeFacts
  <1>a. IsChild(nds, lev, p, i) /\ IsChild(nds, lev, p, j) BY DEF Tree, Linked
  <1>2. Low(n, i) = Low(n, j) /\ High(n, i) = High(n, j) BY <1>a DEF IsChild
  <1> HIDE DEF n
  <1>3. ASSUME NEW x \in 0..Count(n), NEW y \in 0..Count(n), Low(n, x) = Low(n, y), High(n, x) = High(n, y), x < y
        PROVE  FALSE
    <2>1. x \in Nat /\ y \in Nat /\ x < Count(n) BY <1>1, <1>3
    <2>2. x \in SlotsOf(n) /\ High(n, x) = FullKey(n, x) /\ High(n, x) # <<>> BY <1>1, <1>3, <2>1, RangeKeys
    <2>3. CASE y = Count(n)
      <3>1. FullKey(n, x) = n.upper BY <1>1, <1>3, <2>2, <2>3, RangeKeys
      <3>2. x + 1 \in 0..Count(n) /\ x + 1 > 0 /\ y > 0 BY <1>1, <1>3, <2>1
      <3>3. y - 1 \in SlotsOf(n) /\ Low(n, y) = FullKey(n, y - 1) BY <1>1, <1>3, <3>2, RangeKeys
      <3>4. CASE x > 0
        <4>1. x - 1 \in SlotsOf(n) /\ Low(n, x) = FullKey(n, x - 1) BY <1>1, <1>3, <3>4, RangeKeys
        <4>2. x - 1 < y - 1 BY <1>3, <2>1
        <4>3. Less(FullKey(n, x - 1), FullKey(n, y - 1)) /\ FullKey(n, x - 1) \in Words
          BY <1>1, <3>3, <4>1, <4>2, KeysAscend
        <4>4. QED BY <1>3, <3>3, <4>1, <4>3, LessIrreflexive
      <3>5. CASE x = 0
        <4>1. n.lower = FullKey(n, y - 1) BY <1>1, <1>3, <3>3, <3>5, RangeKeys
        <4>2. KeyFits(n, FullKey(n, y - 1)) /\ FullKey(n, y - 1) \in Words BY <1>1, <3>3, KeysAscend
        <4>3. QED BY <4>1, <4>2, LessIrreflexive DEF KeyFits, Within
      <3>6. QED BY <2>1, <3>4, <3>5
    <2>4. CASE y < Count(n)
      <3>1. y \in SlotsOf(n) /\ High(n, y) = FullKey(n, y) BY <1>1, <1>3, <2>4, RangeKeys
      <3>2. Less(FullKey(n, x), FullKey(n, y)) /\ FullKey(n, x) \in Words BY <1>1, <1>3, <2>2, <3>1, KeysAscend
      <3>3. QED BY <1>3, <2>2, <3>1, <3>2, LessIrreflexive
    <2>5. QED BY <1>1, <2>1, <2>3, <2>4
  <1>4. i \in Nat /\ j \in Nat BY <1>1 DEF n
  <1>5. i \in 0..Count(n) /\ j \in 0..Count(n) BY DEF n
  <1>6. QED BY <1>2, <1>3, <1>4, <1>5

\* A page has one parent.
LEMMA OneParent ==
  ASSUME NEW nds, NEW rt, NEW lev, Tree(nds, rt, lev), NEW p \in Pages, NEW q \in Pages, lev[p] > 0, lev[q] > 0,
         NEW i \in 0..Count(nds[p]), NEW j \in 0..Count(nds[q]), Child(nds[p], i) = Child(nds[q], j),
         NEW w \in Names, Within(nds[Child(nds[p], i)], w)
  PROVE  p = q /\ i = j
  <1>1. w \in Words BY DEF Names
  <1>2. InRange(nds[p], i, w) /\ IsChild(nds, lev, p, i) BY <1>1, ChildRange
  <1>3. InRange(nds[q], j, w) /\ IsChild(nds, lev, q, j) BY <1>1, ChildRange
  <1>4. Within(nds[p], w) /\ Within(nds[q], w) BY <1>1, <1>2, <1>3, RangeInside, TreeFacts
  <1>5. lev[p] = lev[q]
    <2>1. lev[p] \in Int /\ lev[q] \in Int BY TreeFacts
    <2>2. lev[p] - 1 = lev[q] - 1 BY <1>2, <1>3 DEF IsChild
    <2>3. QED BY <2>1, <2>2
  <1>6. lev[p] >= 0 BY TreeFacts
  <1>7. p = q BY <1>4, <1>5, <1>6 DEF Tree, Apart
  <1>8. i = j BY <1>7, ChildrenDiffer
  <1>9. QED BY <1>7, <1>8

-------------------------------------------------------------------------------
(* The descent to the leaf of a key.                                             *)

Below(nds, k, f, p) == IF nds[p].leaf THEN <<p>> ELSE <<p>> \o f[LookupInner(nds[p], k)]
Descends(nds, k, f) == f = [p \in Pages |-> Below(nds, k, f, p)]

LEMMA PathIsChosen ==
  ASSUME NEW k PROVE Path(k) = (CHOOSE f : Descends(nodes, k, f))[root]
  BY DEF Path, Descends, Below

LEMMA LookupIsChild ==
  ASSUME NEW nds, NEW rt, NEW lev, Tree(nds, rt, lev), NEW p \in Pages, ~nds[p].leaf, NEW k \in Words
  PROVE  LET c == LookupInner(nds[p], k)
             pos == LowerBound(nds[p], k)[1]
         IN /\ c \in Pages /\ lev[c] = lev[p] - 1 /\ lev[p] > 0
            /\ pos \in 0..Count(nds[p]) /\ c = Child(nds[p], pos)
            /\ Within(nds[p], k) => Within(nds[c], k) /\ InRange(nds[p], pos, k)
  <1> DEFINE c == LookupInner(nds[p], k)
             pos == LowerBound(nds[p], k)[1]
  <1>1. PageOK(nds[p]) /\ lev[p] > 0 BY TreeFacts
  <1>2. pos \in 0..Count(nds[p]) /\ c = Child(nds[p], pos) /\ (Within(nds[p], k) => InRange(nds[p], pos, k))
    BY <1>1, LookupFindsRange
  <1> HIDE DEF c, pos
  <1>3. IsChild(nds, lev, p, pos) /\ (Within(nds[Child(nds[p], pos)], k) <=> InRange(nds[p], pos, k))
    BY <1>1, <1>2, ChildRange
  <1>4. c \in Pages /\ lev[c] = lev[p] - 1 BY <1>2, <1>3 DEF IsChild
  <1>5. QED BY <1>1, <1>2, <1>3, <1>4 DEF c, pos

LEMMA DescentExists ==
  ASSUME NEW nds, NEW rt, NEW lev, Tree(nds, rt, lev), NEW k \in Words
  PROVE  \E f \in [Pages -> Seq(Pages)] : Descends(nds, k, f)
  <1> DEFINE h == lev[rt]
             Good(g, i) == \A p \in Pages : lev[p] <= i => g[p] = Below(nds, k, g, p)
             T == {i \in 0..h : \E g \in [Pages -> Seq(Pages)] : Good(g, i)}
  <1>1. h \in Nat /\ rt \in Pages /\ \A p \in Pages : lev[p] \in Int /\ lev[p] <= h
    BY TreeFacts DEF Tree, Rooted
  <1>2. ASSUME NEW g \in [Pages -> Seq(Pages)], NEW p \in Pages PROVE Below(nds, k, g, p) \in Seq(Pages)
    <2>1. <<p>> \in Seq(Pages) OBVIOUS
    <2>2. CASE nds[p].leaf BY <2>1, <2>2 DEF Below
    <2>3. CASE ~nds[p].leaf
      <3>1. LookupInner(nds[p], k) \in Pages BY <2>3, LookupIsChild
      <3>2. g[LookupInner(nds[p], k)] \in Seq(Pages) BY <3>1
      <3>3. <<p>> \o g[LookupInner(nds[p], k)] \in Seq(Pages) BY <2>1, <3>2, ConcatProperties
      <3>4. QED BY <2>3, <3>3 DEF Below
    <2>4. QED BY <2>2, <2>3
  <1>3. ASSUME NEW g \in [Pages -> Seq(Pages)], NEW i \in Int, Good(g, i - 1)
        PROVE  LET u == [p \in Pages |-> Below(nds, k, g, p)]
               IN u \in [Pages -> Seq(Pages)] /\ Good(u, i)
    <2> DEFINE u == [p \in Pages |-> Below(nds, k, g, p)]
    <2>1. u \in [Pages -> Seq(Pages)] BY <1>2
    <2>2. ASSUME NEW p \in Pages, lev[p] <= i PROVE u[p] = Below(nds, k, u, p)
      <3>1. CASE nds[p].leaf BY <3>1 DEF Below
      <3>2. CASE ~nds[p].leaf
        <4> DEFINE c == LookupInner(nds[p], k)
        <4>1. c \in Pages /\ lev[c] = lev[p] - 1 BY <3>2, LookupIsChild
        <4> HIDE DEF c
        <4>2. lev[c] <= i - 1 BY <1>1, <2>2, <4>1
        <4>3. g[c] = u[c] BY <1>3, <4>1, <4>2
        <4>4. Below(nds, k, g, p) = Below(nds, k, u, p) BY <3>2, <4>3 DEF Below, c
        <4>5. QED BY <4>4
      <3>3. QED BY <3>1, <3>2
    <2> HIDE DEF u
    <2>3. Good(u, i) BY <2>2
    <2>4. QED BY <2>1, <2>3 DEF u
  <1>4. 0 \in T
    <2>1. <<>> \in Seq(Pages) BY EmptySeq
    <2>2. PICK g \in [Pages -> Seq(Pages)] : g = [p \in Pages |-> Below(nds, k, [q \in Pages |-> <<>>], p)]
      <3>1. [q \in Pages |-> <<>>] \in [Pages -> Seq(Pages)] BY <2>1
      <3>2. QED BY <1>2, <3>1
    <2>3. Good(g, 0)
      <3>1. SUFFICES ASSUME NEW p \in Pages, lev[p] <= 0 PROVE g[p] = Below(nds, k, g, p) OBVIOUS
      <3>2. nds[p].leaf BY <3>1 DEF Tree
      <3>3. QED BY <2>2, <3>2 DEF Below
    <2>4. QED BY <1>1, <2>3
  <1>5. \A i \in 0..(h - 1) : i \in T => i + 1 \in T
    <2>1. SUFFICES ASSUME NEW i \in 0..(h - 1), i \in T PROVE i + 1 \in T OBVIOUS
    <2>2. PICK g \in [Pages -> Seq(Pages)] : Good(g, i) BY <2>1
    <2>3. i + 1 \in Int /\ (i + 1) - 1 = i /\ i + 1 \in 0..h BY <1>1
    <2>4. \E u \in [Pages -> Seq(Pages)] : Good(u, i + 1)
      <3>1. Good(g, (i + 1) - 1) BY <2>2, <2>3
      <3> DEFINE j == i + 1
      <3>2. j \in Int /\ Good(g, j - 1) BY <2>3, <3>1
      <3> HIDE DEF j, Good
      <3>3. \E u \in [Pages -> Seq(Pages)] : Good(u, j) BY <1>3, <3>2
      <3>4. QED BY <3>3 DEF j
    <2>5. QED BY <2>3, <2>4
  <1>6. h \in T
    <2> HIDE DEF T
    <2>1. 0..h \subseteq T BY <1>1, <1>4, <1>5, BoundedInduction
    <2>2. QED BY <1>1, <2>1
  <1>7. PICK g \in [Pages -> Seq(Pages)] : Good(g, h) BY <1>6
  <1>8. \A p \in Pages : g[p] = Below(nds, k, g, p) BY <1>1, <1>7
  <1>9. QED BY <1>8 DEF Descends

PathFrom(nds, lev, path, p, k) ==
  /\ path \in Seq(Pages) /\ Len(path) = lev[p] + 1 /\ path[1] = p
  /\ \A j \in 1..Len(path) : lev[path[j]] = Len(path) - j /\ Within(nds[path[j]], k)
  /\ \A j \in 1..(Len(path) - 1) : path[j + 1] = LookupInner(nds[path[j]], k)

LEMMA PathExtended ==
  ASSUME NEW nds, NEW rt, NEW lev, Tree(nds, rt, lev), NEW k \in Words, NEW p \in Pages, ~nds[p].leaf,
         Within(nds[p], k), NEW t, PathFrom(nds, lev, t, LookupInner(nds[p], k), k)
  PROVE  PathFrom(nds, lev, <<p>> \o t, p, k)
  <1> DEFINE c == LookupInner(nds[p], k)
             s == <<p>> \o t
  <1>1. c \in Pages /\ lev[c] = lev[p] - 1 /\ lev[p] \in Int /\ lev[p] > 0 BY LookupIsChild, TreeFacts
  <1>2. PathFrom(nds, lev, t, c, k) OBVIOUS
  <1>3. t \in Seq(Pages) /\ Len(t) = lev[c] + 1 /\ t[1] = c /\ Len(t) \in Nat BY <1>2 DEF PathFrom
  <1>4. <<p>> \in Seq(Pages) /\ Len(<<p>>) = 1 /\ <<p>>[1] = p OBVIOUS
  <1>5. s \in Seq(Pages) /\ Len(s) = 1 + Len(t)
        /\ \A j \in 1..(1 + Len(t)) : s[j] = IF j <= 1 THEN <<p>>[j] ELSE t[j - 1]
    BY <1>3, <1>4, ConcatProperties
  <1> HIDE DEF s
  <1>a. Len(t) \in Nat /\ Len(s) \in Nat /\ Len(s) = Len(t) + 1 BY <1>3, <1>5
  <1>6. s[1] = p /\ \A j \in 2..Len(s) : s[j] = t[j - 1] BY <1>3, <1>4, <1>5
  <1>7. ASSUME NEW j \in 1..Len(s) PROVE lev[s[j]] = Len(s) - j /\ Within(nds[s[j]], k)
    <2>1. CASE j = 1 BY <1>1, <1>3, <1>5, <1>6, <2>1
    <2>2. CASE j # 1
      <3>1. j - 1 \in 1..Len(t) /\ j \in 2..Len(s) BY <1>3, <1>5, <2>2
      <3>2. lev[t[j - 1]] = Len(t) - (j - 1) /\ Within(nds[t[j - 1]], k) BY <1>2, <3>1 DEF PathFrom
      <3>3. s[j] = t[j - 1] BY <1>6, <3>1
      <3>4. Len(t) - (j - 1) = Len(s) - j BY <1>a, <3>1
      <3>5. QED BY <3>2, <3>3, <3>4
    <2>3. QED BY <2>1, <2>2
  <1>8. ASSUME NEW j \in 1..(Len(s) - 1) PROVE s[j + 1] = LookupInner(nds[s[j]], k)
    <2>0. j \in Nat /\ (j + 1) - 1 = j /\ j + 1 \in 2..Len(s) BY <1>a
    <2>1. j + 1 \in 2..Len(s) /\ s[j + 1] = t[j] BY <1>6, <2>0
    <2>2. CASE j = 1 BY <1>3, <1>6, <2>1, <2>2
    <2>3. CASE j # 1
      <3>1. j - 1 \in 1..(Len(t) - 1) /\ j \in 2..Len(s) /\ (j - 1) + 1 = j BY <1>a, <2>0, <2>3
      <3>2. t[(j - 1) + 1] = LookupInner(nds[t[j - 1]], k) BY <1>2, <3>1 DEF PathFrom
      <3>3. QED BY <1>6, <2>1, <3>1, <3>2
    <2>4. QED BY <2>2, <2>3
  <1>9. Len(s) = lev[p] + 1 BY <1>1, <1>3, <1>5
  <1>10. QED BY <1>5, <1>6, <1>7, <1>8, <1>9 DEF PathFrom, s

\* The path of a key: one page of every level, each with the key between its fences.
LEMMA PathDescends ==
  ASSUME NEW rt, NEW lev, Tree(nodes, rt, lev), rt = root, NEW k \in Words
  PROVE  PathFrom(nodes, lev, Path(k), root, k)
  <1> DEFINE h == lev[rt]
             f == CHOOSE f : Descends(nodes, k, f)
             T == {i \in 0..h : \A p \in Pages : lev[p] >= 0 /\ lev[p] <= i /\ Within(nodes[p], k)
                                   => PathFrom(nodes, lev, f[p], p, k)}
  <1>1. h \in Nat /\ rt \in Pages /\ \A p \in Pages : lev[p] \in Int /\ lev[p] <= h
    BY TreeFacts DEF Tree, Rooted
  <1>2. Descends(nodes, k, f) BY DescentExists
  <1> HIDE DEF f
  <1>3. \A p \in Pages : f[p] = Below(nodes, k, f, p) BY <1>2 DEF Descends
  <1>4. ASSUME NEW p \in Pages, lev[p] = 0, Within(nodes[p], k) PROVE PathFrom(nodes, lev, f[p], p, k)
    <2>1. nodes[p].leaf BY <1>4, TreeFacts
    <2>2. f[p] = <<p>> BY <1>3, <2>1 DEF Below
    <2> DEFINE s == <<p>>
    <2>3. s \in Seq(Pages) /\ Len(s) = 1 /\ s[1] = p OBVIOUS
    <2> HIDE DEF s
    <2>4. PathFrom(nodes, lev, s, p, k) BY <1>4, <2>3 DEF PathFrom
    <2>5. QED BY <2>2, <2>4 DEF s
  <1>5. 0 \in T
    <2>1. \A p \in Pages : lev[p] >= 0 /\ lev[p] <= 0 => lev[p] = 0 BY <1>1
    <2>2. QED BY <1>1, <1>4, <2>1
  <1>6. \A i \in 0..(h - 1) : i \in T => i + 1 \in T
    <2>1. SUFFICES ASSUME NEW i \in 0..(h - 1), i \in T PROVE i + 1 \in T OBVIOUS
    <2>2. i \in Nat /\ i + 1 \in 0..h BY <1>1
    <2>3. ASSUME NEW p \in Pages, lev[p] >= 0, lev[p] <= i + 1, Within(nodes[p], k)
          PROVE  PathFrom(nodes, lev, f[p], p, k)
      <3>1. CASE lev[p] = 0 BY <1>4, <2>3, <3>1
      <3>2. CASE lev[p] # 0
        <4>1. ~nodes[p].leaf BY <1>1, <2>3, <3>2, TreeFacts
        <4> DEFINE c == LookupInner(nodes[p], k)
        <4>2. c \in Pages /\ lev[c] = lev[p] - 1 /\ lev[p] > 0 /\ Within(nodes[c], k)
          BY <2>3, <4>1, LookupIsChild
        <4> HIDE DEF c
        <4>3. lev[c] >= 0 /\ lev[c] <= i BY <1>1, <2>2, <2>3, <4>2
        <4>4. PathFrom(nodes, lev, f[c], c, k) BY <2>1, <4>2, <4>3
        <4>5. PathFrom(nodes, lev, <<p>> \o f[c], p, k) BY <2>3, <4>1, <4>4, PathExtended DEF c
        <4>6. f[p] = <<p>> \o f[c] BY <1>3, <4>1 DEF Below, c
        <4>7. QED BY <4>5, <4>6
      <3>3. QED BY <3>1, <3>2
    <2>4. QED BY <2>2, <2>3
  <1>7. h \in T
    <2> HIDE DEF T
    <2>1. 0..h \subseteq T BY <1>1, <1>5, <1>6, BoundedInduction
    <2>2. QED BY <1>1, <2>1
  <1>8. Within(nodes[rt], k) /\ lev[rt] >= 0 BY DEF Tree, Rooted, Within
  <1>9. PathFrom(nodes, lev, f[rt], rt, k) BY <1>1, <1>7, <1>8
  <1>10. Path(k) = f[rt] BY PathIsChosen DEF f
  <1>11. QED BY <1>9, <1>10

LEMMA PathFacts ==
  ASSUME NEW rt, NEW lev, Tree(nodes, rt, lev), rt = root, NEW k \in Words
  PROVE  LET path == Path(k)
         IN /\ PathFrom(nodes, lev, path, root, k)
            /\ path \in Seq(Pages) /\ Len(path) \in Nat /\ Len(path) >= 1
            /\ \A j \in 1..Len(path) : path[j] \in Pages
            /\ Last(path) = path[Len(path)] /\ Last(path) \in Pages
            /\ lev[Last(path)] = 0 /\ nodes[Last(path)].leaf /\ Within(nodes[Last(path)], k)
  <1> DEFINE path == Path(k)
  <1>1. PathFrom(nodes, lev, path, root, k) BY PathDescends
  <1> HIDE DEF path
  <1>2. path \in Seq(Pages) /\ Len(path) = lev[root] + 1 /\ Len(path) \in Nat BY <1>1 DEF PathFrom
  <1>3. root \in Pages /\ lev[root] >= 0 /\ lev[root] \in Int BY TreeFacts DEF Tree, Rooted
  <1>4. Len(path) >= 1 BY <1>2, <1>3
  <1>5. \A j \in 1..Len(path) : path[j] \in Pages BY <1>2
  <1>6. Last(path) = path[Len(path)] BY DEF Last
  <1>7. Len(path) \in 1..Len(path) BY <1>2, <1>4
  <1>8. Last(path) \in Pages BY <1>5, <1>6, <1>7
  <1>9. lev[Last(path)] = 0 /\ Within(nodes[Last(path)], k)
    <2> DEFINE m == Len(path)
    <2>1. m \in Nat /\ m \in 1..Len(path) /\ Last(path) = path[m] /\ m - m = 0 BY <1>2, <1>6, <1>7
    <2>2. lev[path[m]] = m - m /\ Within(nodes[path[m]], k) BY <1>1, <1>7 DEF PathFrom
    <2> HIDE DEF m
    <2>3. QED BY <2>1, <2>2
  <1>10. nodes[Last(path)].leaf BY <1>8, <1>9, TreeFacts
  <1>11. QED BY <1>1, <1>2, <1>4, <1>5, <1>6, <1>8, <1>9, <1>10 DEF path

-------------------------------------------------------------------------------
(* What a page holds.                                                            *)

Holds(n, k) == \E i \in SlotsOf(n) : FullKey(n, i) = k

LEMMA HoldsInserted ==
  ASSUME NEW n, NEW m, Count(n) \in Nat, NEW k, NEW pay, NEW pos, Inserted(m, n, k, pay, pos), NEW w
  PROVE  Holds(m, w) <=> Holds(n, w) \/ w = k
  <1>1. pos \in 0..Count(n) /\ pos \in Nat /\ Count(m) = Count(n) + 1 BY DEF Inserted
  <1>2. ASSUME Holds(n, w) PROVE Holds(m, w)
    <2>1. PICK i \in SlotsOf(n) : FullKey(n, i) = w BY <1>2 DEF Holds
    <2>2. i \in SlotsOf(m) /\ i + 1 \in SlotsOf(m) BY <1>1 DEF SlotsOf
    <2>3. CASE i < pos BY <2>1, <2>2, <2>3 DEF Inserted, Holds
    <2>4. CASE ~(i < pos) BY <2>1, <2>2, <2>4 DEF Inserted, Holds
    <2>5. QED BY <2>3, <2>4
  <1>3. ASSUME w = k PROVE Holds(m, w)
    <2>1. pos \in SlotsOf(m) BY <1>1 DEF SlotsOf
    <2>2. QED BY <1>3, <2>1 DEF Inserted, Holds
  <1>4. ASSUME Holds(m, w), w # k PROVE Holds(n, w)
    <2>1. PICK i \in SlotsOf(m) : FullKey(m, i) = w BY <1>4 DEF Holds
    <2>2. i \in Nat /\ i < Count(n) + 1 /\ i # pos BY <1>1, <1>4, <2>1 DEF SlotsOf, Inserted
    <2>3. CASE i < pos
      <3>1. i \in SlotsOf(n) BY <1>1, <2>2, <2>3 DEF SlotsOf
      <3>2. QED BY <2>1, <2>3, <3>1 DEF Inserted, Holds
    <2>4. CASE i > pos
      <3>1. i - 1 \in SlotsOf(n) /\ ~(i - 1 < pos) /\ (i - 1) + 1 = i BY <1>1, <2>2, <2>4 DEF SlotsOf
      <3>2. FullKey(m, (i - 1) + 1) = FullKey(n, i - 1) BY <3>1 DEF Inserted
      <3>3. QED BY <2>1, <3>1, <3>2 DEF Holds
    <2>5. QED BY <1>1, <2>2, <2>3, <2>4
  <1>5. QED BY <1>2, <1>3, <1>4

LEMMA HoldsRemoved ==
  ASSUME NEW n, Loose(n), NEW m, NEW slot \in SlotsOf(n), Removed(m, n, slot), NEW w
  PROVE  Holds(m, w) <=> Holds(n, w) /\ w # FullKey(n, slot)
  <1>1. Count(n) \in Nat /\ slot \in Nat /\ slot < Count(n) /\ Count(m) = Count(n) - 1
    BY PageFacts DEF Loose, SlotsOf, Removed
  <1>2. ASSUME Holds(n, w), w # FullKey(n, slot) PROVE Holds(m, w)
    <2>1. PICK i \in SlotsOf(n) : FullKey(n, i) = w BY <1>2 DEF Holds
    <2>2. i \in Nat /\ i < Count(n) /\ i # slot BY <1>1, <1>2, <2>1 DEF SlotsOf
    <2>3. CASE i < slot
      <3>1. i \in SlotsOf(m) BY <1>1, <2>2, <2>3 DEF SlotsOf
      <3>2. QED BY <2>1, <2>3, <3>1 DEF Removed, Holds
    <2>4. CASE i > slot
      <3>1. i - 1 \in SlotsOf(m) BY <1>1, <2>2, <2>4 DEF SlotsOf
      <3>2. QED BY <2>1, <2>4, <3>1 DEF Removed, Holds
    <2>5. QED BY <1>1, <2>2, <2>3, <2>4
  <1>3. ASSUME Holds(m, w) PROVE Holds(n, w) /\ w # FullKey(n, slot)
    <2>1. PICK i \in SlotsOf(m) : FullKey(m, i) = w BY <1>3 DEF Holds
    <2>2. i \in Nat /\ i < Count(n) - 1 BY <1>1 DEF SlotsOf
    <2>3. ASSUME NEW j \in SlotsOf(n), j # slot, FullKey(n, j) = w PROVE Holds(n, w) /\ w # FullKey(n, slot)
      <3>1. j \in Nat /\ (j < slot \/ slot < j) BY <1>1, <2>3 DEF SlotsOf
      <3>2. FullKey(n, j) # FullKey(n, slot) BY <3>1, KeysAscend, LessIrreflexive
      <3>3. QED BY <2>3, <3>2 DEF Holds
    <2>4. CASE i < slot
      <3>1. i \in SlotsOf(n) /\ i # slot BY <1>1, <2>2, <2>4 DEF SlotsOf
      <3>2. FullKey(n, i) = w BY <2>1, <2>4, <3>1 DEF Removed
      <3>3. QED BY <2>3, <3>1, <3>2
    <2>5. CASE ~(i < slot)
      <3>1. i + 1 \in SlotsOf(n) /\ i + 1 > slot /\ (i + 1) - 1 = i BY <1>1, <2>2, <2>5 DEF SlotsOf
      <3>2. FullKey(m, (i + 1) - 1) = FullKey(n, i + 1) BY <3>1 DEF Removed
      <3>3. FullKey(n, i + 1) = w /\ i + 1 # slot BY <1>1, <2>1, <3>1, <3>2
      <3>4. QED BY <2>3, <3>1, <3>3
    <2>6. QED BY <2>4, <2>5
  <1>4. QED BY <1>2, <1>3

LEMMA HoldsJoined ==
  ASSUME NEW a, Count(a) \in Nat, NEW b, Count(b) \in Nat, NEW m, Joined(m, a, b), NEW w
  PROVE  Holds(m, w) <=> Holds(a, w) \/ Holds(b, w)
  <1>1. Count(m) = Count(a) + Count(b) BY DEF Joined
  <1>2. ASSUME Holds(a, w) PROVE Holds(m, w)
    <2>1. PICK i \in SlotsOf(a) : FullKey(a, i) = w BY <1>2 DEF Holds
    <2>2. i \in SlotsOf(m) BY <1>1 DEF SlotsOf
    <2>3. QED BY <2>1, <2>2 DEF Joined, Holds
  <1>3. ASSUME Holds(b, w) PROVE Holds(m, w)
    <2>1. PICK i \in SlotsOf(b) : FullKey(b, i) = w BY <1>3 DEF Holds
    <2>2. Count(a) + i \in SlotsOf(m) BY <1>1 DEF SlotsOf
    <2>3. QED BY <2>1, <2>2 DEF Joined, Holds
  <1>4. ASSUME Holds(m, w) PROVE Holds(a, w) \/ Holds(b, w)
    <2>1. PICK i \in SlotsOf(m) : FullKey(m, i) = w BY <1>4 DEF Holds
    <2>2. i \in Nat /\ i < Count(a) + Count(b) BY <1>1 DEF SlotsOf
    <2>3. CASE i < Count(a)
      <3>1. i \in SlotsOf(a) BY <2>2, <2>3 DEF SlotsOf
      <3>2. QED BY <2>1, <3>1 DEF Joined, Holds
    <2>4. CASE ~(i < Count(a))
      <3>1. i - Count(a) \in SlotsOf(b) /\ Count(a) + (i - Count(a)) = i BY <2>2, <2>4 DEF SlotsOf
      <3>2. FullKey(m, Count(a) + (i - Count(a))) = FullKey(b, i - Count(a)) BY <3>1 DEF Joined
      <3>3. QED BY <2>1, <3>1, <3>2 DEF Holds
    <2>5. QED BY <2>3, <2>4
  <1>5. QED BY <1>2, <1>3, <1>4

\* The halves of a leaf.
LEMMA HoldsHalves ==
  ASSUME NEW n, Loose(n), n.leaf, NEW slot \in SlotsOf(n), NEW sep, NEW l, NEW r,
         Part(l, n, n.lower, sep, 0, Kept(n, slot)), Part(r, n, sep, n.upper, slot + 1, Count(n) - 1), NEW w
  PROVE  Holds(n, w) <=> Holds(l, w) \/ Holds(r, w)
  <1>1. Count(n) \in Nat /\ slot \in Nat /\ slot < Count(n) /\ Kept(n, slot) = slot
    BY PageFacts DEF Loose, SlotsOf, Kept
  <1>2. /\ Count(l) = slot + 1 /\ \A i \in 0..slot : FullKey(l, i) = FullKey(n, i)
    <2>1. Count(l) = slot - 0 + 1 /\ \A i \in 0..(slot - 0) : FullKey(l, i) = FullKey(n, 0 + i)
      BY <1>1 DEF Part
    <2>2. slot - 0 = slot /\ \A i \in 0..slot : 0 + i = i BY <1>1
    <2>3. QED BY <1>1, <2>1, <2>2
  <1>3. LET d == Count(n) - 1 - (slot + 1)
        IN Count(r) = d + 1 /\ \A i \in 0..d : FullKey(r, i) = FullKey(n, slot + 1 + i)
    BY DEF Part
  <1>4. Count(r) = Count(n) - (slot + 1)
    /\ \A i \in SlotsOf(r) : FullKey(r, i) = FullKey(n, (slot + 1) + i)
    <2>1. LET d == Count(n) - 1 - (slot + 1) IN d + 1 = Count(n) - (slot + 1) /\ d = (Count(n) - (slot + 1)) - 1
      BY <1>1
    <2>2. QED BY <1>1, <1>3, <2>1 DEF SlotsOf
  <1>5. ASSUME Holds(n, w) PROVE Holds(l, w) \/ Holds(r, w)
    <2>1. PICK i \in SlotsOf(n) : FullKey(n, i) = w BY <1>5 DEF Holds
    <2>2. i \in Nat /\ i < Count(n) BY <1>1 DEF SlotsOf
    <2>3. CASE i <= slot
      <3>1. i \in SlotsOf(l) /\ i \in 0..slot BY <1>1, <1>2, <2>2, <2>3 DEF SlotsOf
      <3>2. QED BY <1>2, <2>1, <3>1 DEF Holds
    <2>4. CASE ~(i <= slot)
      <3>1. i - (slot + 1) \in SlotsOf(r) /\ (slot + 1) + (i - (slot + 1)) = i
        BY <1>1, <1>4, <2>2, <2>4 DEF SlotsOf
      <3>2. FullKey(r, i - (slot + 1)) = w BY <1>4, <2>1, <3>1
      <3>3. QED BY <3>1, <3>2 DEF Holds
    <2>5. QED BY <2>3, <2>4
  <1>6. ASSUME Holds(l, w) PROVE Holds(n, w)
    <2>1. PICK i \in SlotsOf(l) : FullKey(l, i) = w BY <1>6 DEF Holds
    <2>2. i \in 0..slot /\ i \in SlotsOf(n) BY <1>1, <1>2 DEF SlotsOf
    <2>3. QED BY <1>2, <2>1, <2>2 DEF Holds
  <1>7. ASSUME Holds(r, w) PROVE Holds(n, w)
    <2>1. PICK i \in SlotsOf(r) : FullKey(r, i) = w BY <1>7 DEF Holds
    <2>2. (slot + 1) + i \in SlotsOf(n) BY <1>1, <1>4 DEF SlotsOf
    <2>3. QED BY <1>4, <2>1, <2>2 DEF Holds
  <1>8. QED BY <1>5, <1>6, <1>7

Contents(nds, lev, st) == \A k : k \in st <=> \E p \in Pages : lev[p] = 0 /\ Holds(nds[p], k)

\* A key is in the leaf where it fits, or in none.
LEMMA LeafHolds ==
  ASSUME NEW nds, NEW rt, NEW lev, Tree(nds, rt, lev), NEW st, Contents(nds, lev, st),
         NEW p \in Pages, lev[p] = 0, NEW k \in Words, Within(nds[p], k)
  PROVE  k \in st <=> Holds(nds[p], k)
  <1>1. ASSUME NEW q \in Pages, lev[q] = 0, Holds(nds[q], k) PROVE q = p
    <2>1. Loose(nds[q]) BY TreeFacts
    <2>2. PICK i \in SlotsOf(nds[q]) : FullKey(nds[q], i) = k BY <1>1 DEF Holds
    <2>3. KeyFits(nds[q], k) BY <2>1, <2>2, KeysAscend
    <2>4. k \in Names /\ Within(nds[q], k) BY <2>3 DEF KeyFits, Names
    <2>5. lev[p] = lev[q] /\ lev[p] >= 0 BY <1>1
    <2>6. QED BY <2>4, <2>5 DEF Tree, Apart
  <1>2. QED BY <1>1 DEF Contents

-------------------------------------------------------------------------------
(* Steps that leave the shape of the tree.                                       *)

LEMMA SameTree ==
  ASSUME NEW nds, NEW rt, NEW lev, Tree(nds, rt, lev), NEW nds2 \in [Pages -> Page],
         \A q \in Pages : /\ PageOK(nds2[q]) /\ SameFences(nds2[q], nds[q])
                          /\ lev[q] > 0 => nds2[q] = nds[q]
  PROVE  Tree(nds2, rt, lev)
  <1>1. \A q \in Pages : nds2[q].leaf = nds[q].leaf /\ nds2[q].lower = nds[q].lower /\ nds2[q].upper = nds[q].upper
    BY DEF SameFences
  <1>2. lev \in [Pages -> Int] /\ \A q \in Pages : lev[q] <= 0 <=> nds2[q].leaf BY <1>1 DEF Tree
  <1>3. Rooted(nds2, rt, lev) BY <1>1 DEF Tree, Rooted
  <1>4. Linked(nds2, lev)
    <2>1. SUFFICES ASSUME NEW p \in Pages, lev[p] > 0, NEW i \in 0..Count(nds2[p])
                   PROVE  IsChild(nds2, lev, p, i)
      BY DEF Linked
    <2>2. nds2[p] = nds[p] /\ IsChild(nds, lev, p, i) BY <2>1 DEF Tree, Linked
    <2>3. QED BY <1>1, <2>2 DEF IsChild
  <1>5. Apart(nds2, lev)
    <2>1. \A q \in Pages, w \in Names : Within(nds2[q], w) <=> Within(nds[q], w) BY <1>1 DEF Within
    <2>2. QED BY <2>1 DEF Tree, Apart
  <1>6. QED BY <1>2, <1>3, <1>4, <1>5 DEF Tree

LEMMA LeafReplaced ==
  ASSUME NEW nds, NEW rt, NEW lev, Tree(nds, rt, lev), NEW p \in Pages, nds[p].leaf,
         NEW m, PageOK(m), SameFences(m, nds[p])
  PROVE  Tree([nds EXCEPT ![p] = m], rt, lev)
  <1> DEFINE nds2 == [nds EXCEPT ![p] = m]
  <1>1. nds \in [Pages -> Page] /\ (\A q \in Pages : PageOK(nds[q])) /\ lev[p] <= 0 /\ lev[p] \in Int
    BY TreeFacts DEF Tree
  <1>2. m \in Page BY DEF PageOK, Loose
  <1>3. nds2 \in [Pages -> Page] BY <1>1, <1>2
  <1>4. ASSUME NEW q \in Pages
        PROVE  PageOK(nds2[q]) /\ SameFences(nds2[q], nds[q]) /\ (lev[q] > 0 => nds2[q] = nds[q])
    <2>1. CASE q = p
      <3>1. nds2[q] = m BY <1>1, <2>1
      <3>2. ~(lev[q] > 0) BY <1>1, <2>1
      <3>3. QED BY <2>1, <3>1, <3>2
    <2>2. CASE q # p
      <3>1. nds2[q] = nds[q] BY <1>1, <2>2
      <3>2. QED BY <1>1, <3>1 DEF SameFences
    <2>3. QED BY <2>1, <2>2
  <1> HIDE DEF nds2
  <1>5. Tree(nds2, rt, lev) BY <1>3, <1>4, SameTree
  <1>6. QED BY <1>5 DEF nds2

-------------------------------------------------------------------------------
(* A page is split.                                                              *)

SameChild(m, i, n, j) == Child(m, i) = Child(n, j) /\ Low(m, i) = Low(n, j) /\ High(m, i) = High(n, j)

\* The left half of an inner page has its children up to slot, the right half the others.
Halves(l, r, n, slot, sep) ==
  /\ PageOK(l) /\ l.leaf = n.leaf /\ l.lower = n.lower /\ l.upper = sep
  /\ PageOK(r) /\ r.leaf = n.leaf /\ r.lower = sep /\ r.upper = n.upper
  /\ ~n.leaf => /\ Count(l) = slot /\ Count(r) = Count(n) - (slot + 1)
                /\ \A i \in 0..slot : SameChild(l, i, n, i)
                /\ \A i \in 0..Count(r) : SameChild(r, i, n, (slot + 1) + i)

LEMMA LeftChildren ==
  ASSUME NEW n, Loose(n), ~n.leaf, NEW slot \in SlotsOf(n), NEW sep, Divides(n, slot, sep),
         NEW l, Part(l, n, n.lower, sep, 0, Kept(n, slot)), l.link = Slot(n, slot).pay
  PROVE  Count(l) = slot /\ \A i \in 0..slot : SameChild(l, i, n, i)
  <1>1. Count(n) \in Nat /\ slot \in Nat /\ slot < Count(n) /\ Kept(n, slot) = slot - 1
    BY PageFacts DEF Loose, SlotsOf, Kept
  <1>2. Count(l) = slot /\ l.lower = n.lower /\ l.upper = sep
        /\ \A i \in 0..(slot - 1) : FullKey(l, i) = FullKey(n, i) /\ Slot(l, i).pay = Slot(n, i).pay
    <2>1. Count(l) = slot - 1 - 0 + 1 /\ \A i \in 0..(slot - 1 - 0) :
            FullKey(l, i) = FullKey(n, 0 + i) /\ Slot(l, i).pay = Slot(n, 0 + i).pay
      BY <1>1 DEF Part
    <2>2. slot - 1 - 0 = slot - 1 /\ slot - 1 - 0 + 1 = slot /\ \A i \in 0..(slot - 1) : 0 + i = i BY <1>1
    <2>3. l.lower = n.lower /\ l.upper = sep BY DEF Part
    <2>4. QED BY <2>1, <2>2, <2>3
  <1>3. sep = FullKey(n, slot) BY DEF Divides
  <1>4. ASSUME NEW i \in 0..slot PROVE SameChild(l, i, n, i)
    <2>1. i \in Nat /\ i < Count(n) /\ i # Count(n) BY <1>1
    <2>2. Low(l, i) = Low(n, i)
      <3>1. CASE i = 0 BY <1>2, <3>1 DEF Low
      <3>2. CASE i # 0
        <4>1. i - 1 \in 0..(slot - 1) BY <1>1, <2>1, <3>2
        <4>2. QED BY <1>2, <3>2, <4>1 DEF Low
      <3>3. QED BY <3>1, <3>2
    <2>3. Child(l, i) = Child(n, i) /\ High(l, i) = High(n, i)
      <3>1. CASE i = slot BY <1>2, <1>3, <2>1, <3>1 DEF Child, High
      <3>2. CASE i # slot
        <4>1. i \in 0..(slot - 1) /\ i # slot BY <1>1, <2>1, <3>2
        <4>2. QED BY <1>2, <2>1, <4>1 DEF Child, High
      <3>3. QED BY <3>1, <3>2
    <2>4. QED BY <2>2, <2>3 DEF SameChild
  <1>5. QED BY <1>2, <1>4

LEMMA RightChildren ==
  ASSUME NEW n, Loose(n), ~n.leaf, NEW slot \in SlotsOf(n), NEW sep, Divides(n, slot, sep),
         NEW r, Part(r, n, sep, n.upper, slot + 1, Count(n) - 1), r.link = n.link
  PROVE  /\ Count(r) = Count(n) - (slot + 1)
         /\ \A i \in 0..Count(r) : SameChild(r, i, n, (slot + 1) + i)
  <1> DEFINE s == slot + 1
  <1>1. Count(n) \in Nat /\ s \in Nat /\ s >= 1 /\ s <= Count(n) /\ s - 1 = slot
    BY PageFacts DEF Loose, SlotsOf
  <1>2. /\ Count(r) = Count(n) - 1 - s + 1 /\ r.lower = sep /\ r.upper = n.upper
        /\ \A i \in 0..(Count(n) - 1 - s) : FullKey(r, i) = FullKey(n, s + i) /\ Slot(r, i).pay = Slot(n, s + i).pay
    BY DEF Part
  <1>3. sep = FullKey(n, s - 1) BY <1>1 DEF Divides
  <1> HIDE DEF s
  <1>4. Count(r) = Count(n) - s /\ Count(n) - 1 - s = Count(r) - 1 /\ Count(r) \in Nat BY <1>1, <1>2
  <1>5. \A i \in 0..(Count(r) - 1) : FullKey(r, i) = FullKey(n, s + i) /\ Slot(r, i).pay = Slot(n, s + i).pay
    BY <1>2, <1>4
  <1>6. ASSUME NEW i \in 0..Count(r) PROVE SameChild(r, i, n, s + i)
    <2>1. i \in Nat /\ s + i # 0 /\ (i = Count(r) <=> s + i = Count(n)) BY <1>1, <1>4
    <2>2. Low(r, i) = Low(n, s + i)
      <3>1. CASE i = 0
        <4>1. s + i = s BY <1>1, <3>1
        <4>2. QED BY <1>2, <1>3, <2>1, <3>1, <4>1 DEF Low
      <3>2. CASE i # 0
        <4>1. i - 1 \in 0..(Count(r) - 1) /\ s + (i - 1) = (s + i) - 1 BY <1>1, <1>4, <2>1, <3>2
        <4>2. FullKey(r, i - 1) = FullKey(n, (s + i) - 1) BY <1>5, <4>1
        <4>3. QED BY <2>1, <3>2, <4>2 DEF Low
      <3>3. QED BY <3>1, <3>2
    <2>3. Child(r, i) = Child(n, s + i) /\ High(r, i) = High(n, s + i)
      <3>1. CASE i = Count(r) BY <1>2, <2>1, <3>1 DEF Child, High
      <3>2. CASE i # Count(r)
        <4>1. i \in 0..(Count(r) - 1) BY <1>4, <2>1, <3>2
        <4>2. QED BY <1>5, <2>1, <3>2, <4>1 DEF Child, High
      <3>3. QED BY <3>1, <3>2
    <2>4. QED BY <2>2, <2>3 DEF SameChild
  <1>7. QED BY <1>4, <1>6 DEF s

LEMMA HalvesMade ==
  ASSUME NEW n, Loose(n), NEW slot \in SlotsOf(n), Divides(n, slot, Separator(n, slot)), NEW new \in Int
  PROVE  Halves(LeftHalf(n, slot, new), RightHalf(n, slot), n, slot, Separator(n, slot))
  <1> DEFINE l == LeftHalf(n, slot, new)
             r == RightHalf(n, slot)
             sep == Separator(n, slot)
  <1>1. PageOK(l) /\ l.link = (IF n.leaf THEN new ELSE Slot(n, slot).pay)
        /\ Part(l, n, n.lower, sep, 0, Kept(n, slot))
    BY LeftIsPart
  <1>2. PageOK(r) /\ r.link = n.link /\ Part(r, n, sep, n.upper, slot + 1, Count(n) - 1) BY RightIsPart
  <1>3. Divides(n, slot, sep) OBVIOUS
  <1> HIDE DEF l, r, sep
  <1>4. l.leaf = n.leaf /\ l.lower = n.lower /\ l.upper = sep BY <1>1 DEF Part
  <1>5. r.leaf = n.leaf /\ r.lower = sep /\ r.upper = n.upper BY <1>2 DEF Part
  <1>6. ASSUME ~n.leaf PROVE /\ Count(l) = slot /\ \A i \in 0..slot : SameChild(l, i, n, i)
    BY <1>1, <1>3, <1>6, LeftChildren
  <1>7. ASSUME ~n.leaf PROVE /\ Count(r) = Count(n) - (slot + 1)
                             /\ \A i \in 0..Count(r) : SameChild(r, i, n, (slot + 1) + i)
    BY <1>2, <1>3, <1>7, RightChildren
  <1>8. Halves(l, r, n, slot, sep) BY <1>1, <1>2, <1>4, <1>5, <1>6, <1>7 DEF Halves
  <1>9. QED BY <1>8 DEF l, r, sep

\* The parent of the halves: sep parts the range of child p, new has the upper part.
Parts(m, n, pos, sep, p, new) ==
  /\ PageOK(m) /\ SameFences(m, n) /\ Count(m) = Count(n) + 1
  /\ \A i \in 0..Count(n) : i < pos => SameChild(m, i, n, i)
  /\ Child(m, pos) = p /\ Low(m, pos) = Low(n, pos) /\ High(m, pos) = sep
  /\ Child(m, pos + 1) = new /\ Low(m, pos + 1) = sep /\ High(m, pos + 1) = High(n, pos)
  /\ \A i \in 0..Count(n) : i > pos => SameChild(m, i + 1, n, i)

\* Another child at pos.
Moved(m, n, pos, new) ==
  /\ SameFences(m, n) /\ Count(m) = Count(n)
  /\ \A i \in SlotsOf(n) : FullKey(m, i) = FullKey(n, i)
  /\ \A i \in 0..Count(n) : Child(m, i) = IF i = pos THEN new ELSE Child(n, i)

LEMMA PartsInserted ==
  ASSUME NEW n, Loose(n), NEW pos \in 0..Count(n), NEW new, NEW v, Moved(v, n, pos, new), NEW sep, NEW p,
         NEW m, PageOK(m), Inserted(m, v, sep, p, pos)
  PROVE  Parts(m, n, pos, sep, p, new)
  <1>1. Count(n) \in Nat /\ pos \in Nat /\ pos <= Count(n) BY PageFacts DEF Loose
  <1>2. Count(v) = Count(n) /\ SlotsOf(v) = SlotsOf(n) /\ v.lower = n.lower /\ v.upper = n.upper
        /\ v.leaf = n.leaf
    BY DEF Moved, SameFences, SlotsOf
  <1>3. Count(m) = Count(n) + 1 /\ m.lower = n.lower /\ m.upper = n.upper /\ m.leaf = n.leaf
        /\ m.link = v.link
    BY <1>2 DEF Inserted, SameFences
  <1>4. \A i \in SlotsOf(n) : FullKey(v, i) = FullKey(n, i) BY DEF Moved
  <1>5. \A i \in SlotsOf(n) : i < pos => FullKey(m, i) = FullKey(n, i) /\ Slot(m, i).pay = Slot(v, i).pay
    BY <1>2, <1>4 DEF Inserted
  <1>6. \A i \in SlotsOf(n) : ~(i < pos) =>
          FullKey(m, i + 1) = FullKey(n, i) /\ Slot(m, i + 1).pay = Slot(v, i).pay
    BY <1>2, <1>4 DEF Inserted
  <1>7. FullKey(m, pos) = sep /\ Slot(m, pos).pay = p BY DEF Inserted
  <1>8. \A i \in 0..Count(n) : Child(v, i) = IF i = pos THEN new ELSE Child(n, i) BY DEF Moved
  <1>9. \A i \in 0..Count(n) : (i < Count(n) <=> i \in SlotsOf(n)) /\ i \in Nat
    BY <1>1 DEF SlotsOf
  <1>10. \A i \in 0..Count(n) : ~(i < pos) => Child(m, i + 1) = Child(v, i) /\ High(m, i + 1) = High(n, i)
    <2>1. SUFFICES ASSUME NEW i \in 0..Count(n), ~(i < pos)
                   PROVE  Child(m, i + 1) = Child(v, i) /\ High(m, i + 1) = High(n, i)
      OBVIOUS
    <2>2. i + 1 = Count(m) <=> i = Count(n) BY <1>1, <1>3, <1>9
    <2>3. CASE i = Count(n) BY <1>2, <1>3, <2>2, <2>3 DEF Child, High
    <2>4. CASE i # Count(n)
      <3>1. i \in SlotsOf(n) BY <1>1, <1>9, <2>4
      <3>2. FullKey(m, i + 1) = FullKey(n, i) /\ Slot(m, i + 1).pay = Slot(v, i).pay BY <1>6, <2>1, <3>1
      <3>3. QED BY <1>2, <2>2, <2>4, <3>2 DEF Child, High
    <2>5. QED BY <2>3, <2>4
  <1>11. ASSUME NEW i \in 0..Count(n), i < pos PROVE SameChild(m, i, n, i)
    <2>1. i \in SlotsOf(n) /\ i # Count(n) /\ i # Count(m) /\ i \in Nat BY <1>1, <1>3, <1>9, <1>11
    <2>2. Child(m, i) = Child(v, i) /\ High(m, i) = High(n, i) BY <1>2, <1>5, <1>11, <2>1 DEF Child, High
    <2>3. Child(v, i) = Child(n, i) BY <1>1, <1>8, <1>11, <2>1
    <2>4. Low(m, i) = Low(n, i)
      <3>1. CASE i = 0 BY <1>3, <3>1 DEF Low
      <3>2. CASE i # 0
        <4>1. i - 1 \in SlotsOf(n) /\ i - 1 < pos BY <1>1, <1>11, <2>1, <3>2 DEF SlotsOf
        <4>2. QED BY <1>5, <3>2, <4>1 DEF Low
      <3>3. QED BY <3>1, <3>2
    <2>5. QED BY <2>2, <2>3, <2>4 DEF SameChild
  <1>12. ASSUME NEW i \in 0..Count(n), i > pos PROVE SameChild(m, i + 1, n, i)
    <2>1. ~(i < pos) /\ i # pos /\ i \in Nat /\ i + 1 # 0 /\ i # 0 /\ (i + 1) - 1 = (i - 1) + 1 BY <1>1, <1>12
    <2>2. Child(m, i + 1) = Child(n, i) /\ High(m, i + 1) = High(n, i) BY <1>8, <1>10, <2>1
    <2>3. i - 1 \in SlotsOf(n) /\ ~(i - 1 < pos) BY <1>1, <1>12, <2>1 DEF SlotsOf
    <2>4. FullKey(m, (i - 1) + 1) = FullKey(n, i - 1) BY <1>6, <2>3
    <2>5. Low(m, i + 1) = Low(n, i) BY <2>1, <2>4 DEF Low
    <2>6. QED BY <2>2, <2>5 DEF SameChild
  <1>13. Child(m, pos) = p /\ Low(m, pos) = Low(n, pos) /\ High(m, pos) = sep
    <2>1. pos # Count(m) BY <1>1, <1>3
    <2>2. Child(m, pos) = p /\ High(m, pos) = sep BY <1>7, <2>1 DEF Child, High
    <2>3. CASE pos = 0 BY <1>3, <2>2, <2>3 DEF Low
    <2>4. CASE pos # 0
      <3>1. pos - 1 \in SlotsOf(n) /\ pos - 1 < pos BY <1>1, <2>4 DEF SlotsOf
      <3>2. QED BY <1>5, <2>2, <2>4, <3>1 DEF Low
    <2>5. QED BY <2>3, <2>4
  <1>14. Child(m, pos + 1) = new /\ Low(m, pos + 1) = sep /\ High(m, pos + 1) = High(n, pos)
    <2>1. ~(pos < pos) /\ pos + 1 # 0 /\ (pos + 1) - 1 = pos BY <1>1
    <2>2. Child(m, pos + 1) = new /\ High(m, pos + 1) = High(n, pos) BY <1>8, <1>10, <2>1
    <2>3. Low(m, pos + 1) = sep BY <1>7, <2>1 DEF Low
    <2>4. QED BY <2>2, <2>3
  <1>15. SameFences(m, n) BY <1>3 DEF SameFences
  <1>16. QED BY <1>3, <1>11, <1>12, <1>13, <1>14, <1>15 DEF Parts

LEMMA ChildMoved ==
  ASSUME NEW n, PageOK(n), NEW pos \in 0..Count(n), NEW new \in Int
  PROVE  LET v == IF pos = Count(n) THEN [n EXCEPT !.link = new] ELSE [n EXCEPT !.slots[pos + 1].pay = new]
         IN /\ PageOK(v) /\ Moved(v, n, pos, new) /\ v.used = n.used /\ v.data = n.data
  <1>1. Loose(n) /\ Count(n) \in Nat /\ pos \in Nat BY PageFacts DEF PageOK, Loose
  <1>2. CASE pos = Count(n)
    <2> DEFINE v == [n EXCEPT !.link = new]
    <2>1. /\ Loose(v) /\ SameFences(v, n) /\ v.slots = n.slots /\ v.link = new
          /\ v.used = n.used /\ v.data = n.data /\ v.hints = n.hints /\ Count(v) = Count(n)
          /\ \A i : FullKey(v, i) = FullKey(n, i) /\ Slot(v, i) = Slot(n, i)
      BY <1>1, Relinked
    <2> HIDE DEF v
    <2>2. HintDist(v) = HintDist(n) /\ \A i : HeadAt(v, i) = HeadAt(n, i) BY <2>1, SameSlotParts
    <2>3. HintsRight(v) BY <2>1, <2>2 DEF PageOK, HintsRight
    <2>4. \A i \in 0..Count(n) : Child(v, i) = IF i = pos THEN new ELSE Child(n, i)
      BY <1>2, <2>1 DEF Child
    <2>5. PageOK(v) /\ Moved(v, n, pos, new) BY <2>1, <2>3, <2>4 DEF PageOK, Moved
    <2>6. QED BY <1>2, <2>1, <2>5 DEF v
  <1>3. CASE pos # Count(n)
    <2> DEFINE v == [n EXCEPT !.slots[pos + 1].pay = new]
    <2>1. pos \in SlotsOf(n) BY <1>1, <1>3 DEF SlotsOf
    <2>2. /\ PageOK(v) /\ SameFences(v, n) /\ v.link = n.link /\ Count(v) = Count(n)
          /\ v.used = n.used /\ v.data = n.data
          /\ \A i \in SlotsOf(n) : FullKey(v, i) = FullKey(n, i)
          /\ \A i \in SlotsOf(n) : Slot(v, i).pay = IF i = pos THEN new ELSE Slot(n, i).pay
      BY <2>1, SlotRepaid
    <2> HIDE DEF v
    <2>3. ASSUME NEW i \in 0..Count(n) PROVE Child(v, i) = IF i = pos THEN new ELSE Child(n, i)
      <3>1. CASE i = Count(n) BY <1>3, <2>2, <3>1 DEF Child
      <3>2. CASE i # Count(n)
        <4>1. i \in SlotsOf(n) BY <1>1, <3>2 DEF SlotsOf
        <4>2. QED BY <2>2, <3>2, <4>1 DEF Child
      <3>3. QED BY <3>1, <3>2
    <2>4. Moved(v, n, pos, new) BY <2>2, <2>3 DEF Moved
    <2>5. QED BY <1>3, <2>2, <2>4 DEF v
  <1>4. QED BY <1>2, <1>3

LEMMA MovedRange ==
  ASSUME NEW n, Loose(n), NEW pos \in 0..Count(n), NEW new, NEW v, Moved(v, n, pos, new)
  PROVE  Low(v, pos) = Low(n, pos) /\ High(v, pos) = High(n, pos)
  <1>1. Count(n) \in Nat /\ pos \in Nat BY PageFacts DEF Loose
  <1>2. Count(v) = Count(n) /\ v.lower = n.lower /\ v.upper = n.upper
        /\ \A i \in SlotsOf(n) : FullKey(v, i) = FullKey(n, i)
    BY DEF Moved, SameFences
  <1>3. Low(v, pos) = Low(n, pos)
    <2>1. CASE pos = 0 BY <1>2, <2>1 DEF Low
    <2>2. CASE pos # 0
      <3>1. pos - 1 \in SlotsOf(n) BY <1>1, <2>2 DEF SlotsOf
      <3>2. QED BY <1>2, <2>2, <3>1 DEF Low
    <2>3. QED BY <2>1, <2>2
  <1>4. High(v, pos) = High(n, pos)
    <2>1. CASE pos = Count(n) BY <1>2, <2>1 DEF High
    <2>2. CASE pos # Count(n)
      <3>1. pos \in SlotsOf(n) BY <1>1, <2>2 DEF SlotsOf
      <3>2. QED BY <1>2, <2>2, <3>1 DEF High
    <2>3. QED BY <2>1, <2>2
  <1>5. QED BY <1>3, <1>4

\* A key of a range, but for its upper end, is not in the page.
LEMMA InsideRangeIsNew ==
  ASSUME NEW n, Loose(n), NEW pos \in 0..Count(n), NEW w \in Words, InRange(n, pos, w), w # High(n, pos),
         NEW i \in SlotsOf(n)
  PROVE  FullKey(n, i) # w
  <1>1. SUFFICES ASSUME FullKey(n, i) = w PROVE FALSE OBVIOUS
  <1>2. Count(n) \in Nat /\ pos \in Nat /\ i \in Nat /\ i < Count(n) BY PageFacts DEF Loose, SlotsOf
  <1>3. CASE i < pos
    <2>1. pos > 0 /\ i <= pos - 1 BY <1>2, <1>3
    <2>2. pos - 1 \in SlotsOf(n) /\ Less(FullKey(n, pos - 1), w) BY <2>1, RangeKeys DEF InRange
    <2>3. ~Less(FullKey(n, pos - 1), FullKey(n, i)) BY <2>1, <2>2, KeysAscend
    <2>4. QED BY <1>1, <2>2, <2>3
  <1>4. CASE ~(i < pos)
    <2>1. pos < Count(n) BY <1>2, <1>4
    <2>2. pos \in SlotsOf(n) /\ High(n, pos) = FullKey(n, pos) /\ ~Less(FullKey(n, pos), w)
      BY <2>1, RangeKeys DEF InRange
    <2>3. CASE i = pos BY <1>1, <2>2, <2>3
    <2>4. CASE i > pos
      <3>1. Less(FullKey(n, pos), FullKey(n, i)) BY <2>2, <2>4, KeysAscend
      <3>2. QED BY <1>1, <2>2, <3>1
    <2>5. QED BY <1>2, <1>4, <2>3, <2>4
  <1>5. QED BY <1>3, <1>4

LEMMA ParentParted ==
  ASSUME NEW n, PageOK(n), NEW pos \in 0..Count(n), NEW sep \in Words, KeyFits(n, sep),
         InRange(n, pos, sep), sep # High(n, pos), NEW p \in Int, NEW new \in Int
  PROVE  LET m == ParentOfHalves(n, sep, p, new)
         IN /\ Parts(m, n, pos, sep, p, new)
            /\ HasSpaceFor(n, Len(sep)) => FreeSpace(m) >= 0
  <1> DEFINE v == IF pos = Count(n) THEN [n EXCEPT !.link = new] ELSE [n EXCEPT !.slots[pos + 1].pay = new]
             m == InsertInPage(v, sep, p)
  <1>1. Loose(n) BY DEF PageOK
  <1>2. PageOK(v) /\ Moved(v, n, pos, new) /\ v.used = n.used /\ v.data = n.data BY ChildMoved
  <1>3. LowerBound(n, sep)[1] = pos BY PositionInRange
  <1>4. ParentOfHalves(n, sep, p, new) = m BY <1>3 DEF ParentOfHalves
  <1> HIDE DEF v
  <1>5. Loose(v) /\ SameFences(v, n) /\ Count(v) = Count(n) /\ pos \in 0..Count(v)
    BY <1>2 DEF PageOK, Moved
  <1>6. InRange(v, pos, sep) /\ sep # High(v, pos) BY <1>1, <1>2, MovedRange DEF InRange
  <1>7. KeyFits(v, sep) /\ PrefixLen(v) = PrefixLen(n) /\ PayLen(v) = PayLen(n) BY <1>5, SameFenceParts
  <1>8. \A i \in SlotsOf(v) : FullKey(v, i) # sep BY <1>5, <1>6, InsideRangeIsNew
  <1>9. LowerBound(v, sep)[1] = pos BY <1>2, <1>5, <1>6, PositionInRange
  <1>10. PageOK(m) /\ Inserted(m, v, sep, p, pos) /\ (HasSpaceFor(v, Len(sep)) => FreeSpace(m) >= 0)
    BY <1>2, <1>7, <1>8, <1>9, KeyInserted
  <1>11. HasSpaceFor(v, Len(sep)) <=> HasSpaceFor(n, Len(sep))
    BY <1>2, <1>5, <1>7 DEF HasSpaceFor, SpaceNeeded, FreeAfter
  <1> HIDE DEF m
  <1>12. Parts(m, n, pos, sep, p, new) BY <1>1, <1>2, <1>10, PartsInserted
  <1>13. QED BY <1>4, <1>10, <1>11, <1>12

\* Two trees of which the second has page p of the first in two halves.
SplitStep(nds, lev, nds2, lev2, p, new, a, pos, slot, sep) ==
  /\ p \in Pages /\ new \in Pages /\ a \in Pages
  /\ lev[a] > 0 /\ lev[new] < 0 /\ pos \in 0..Count(nds[a]) /\ Child(nds[a], pos) = p
  /\ slot \in SlotsOf(nds[p]) /\ Divides(nds[p], slot, sep)
  /\ nds2 \in [Pages -> Page] /\ lev2 = [lev EXCEPT ![new] = lev[p]]
  /\ Halves(nds2[p], nds2[new], nds[p], slot, sep)
  /\ Parts(nds2[a], nds[a], pos, sep, p, new)
  /\ \A q \in Pages : q \notin {p, new, a} => nds2[q] = nds[q]

LEMMA SplitLevels ==
  ASSUME NEW nds, NEW rt, NEW lev, Tree(nds, rt, lev), NEW nds2, NEW lev2, NEW p, NEW new, NEW a,
         NEW pos, NEW slot, NEW sep, SplitStep(nds, lev, nds2, lev2, p, new, a, pos, slot, sep)
  PROVE  /\ p \in Pages /\ new \in Pages /\ a \in Pages
         /\ lev[p] = lev[a] - 1 /\ lev[p] >= 0 /\ new # p /\ new # a /\ p # a
         /\ lev2 \in [Pages -> Int] /\ lev2[new] = lev[p]
         /\ \A q \in Pages : lev[q] \in Int /\ (q # new => lev2[q] = lev[q])
  <1>1. p \in Pages /\ new \in Pages /\ a \in Pages /\ lev[a] > 0 /\ lev[new] < 0
        /\ pos \in 0..Count(nds[a]) /\ Child(nds[a], pos) = p /\ lev2 = [lev EXCEPT ![new] = lev[p]]
    BY DEF SplitStep
  <1>2. lev \in [Pages -> Int] BY DEF Tree
  <1>3. IsChild(nds, lev, a, pos) BY <1>1 DEF Tree, Linked
  <1>4. lev[p] = lev[a] - 1 BY <1>1, <1>3 DEF IsChild
  <1>5. lev[p] \in Int /\ lev[a] \in Int /\ lev[new] \in Int BY <1>1, <1>2
  <1>6. lev[p] >= 0 /\ new # p /\ new # a /\ p # a BY <1>1, <1>4, <1>5
  <1>7. lev2 \in [Pages -> Int] /\ lev2[new] = lev[p] /\ \A q \in Pages : q # new => lev2[q] = lev[q]
    BY <1>1, <1>2
  <1>8. QED BY <1>1, <1>2, <1>4, <1>6, <1>7

LEMMA SplitFences ==
  ASSUME NEW nds, NEW rt, NEW lev, Tree(nds, rt, lev), NEW nds2, NEW lev2, NEW p, NEW new, NEW a,
         NEW pos, NEW slot, NEW sep, SplitStep(nds, lev, nds2, lev2, p, new, a, pos, slot, sep),
         NEW q \in Pages
  PROVE  /\ PageOK(nds2[q]) /\ (q # new => nds2[q].leaf = nds[q].leaf)
         /\ nds2[new].leaf = nds[p].leaf
         /\ q \notin {p, new} => SameFences(nds2[q], nds[q])
         /\ q \notin {p, new, a} => nds2[q] = nds[q]
         /\ nds2[p].lower = nds[p].lower /\ nds2[p].upper = sep
         /\ nds2[new].lower = sep /\ nds2[new].upper = nds[p].upper
  <1>1. p \in Pages /\ new \in Pages /\ a \in Pages /\ new # p /\ new # a /\ p # a BY SplitLevels
  <1>2. /\ PageOK(nds2[p]) /\ nds2[p].leaf = nds[p].leaf
        /\ nds2[p].lower = nds[p].lower /\ nds2[p].upper = sep
        /\ PageOK(nds2[new]) /\ nds2[new].leaf = nds[p].leaf
        /\ nds2[new].lower = sep /\ nds2[new].upper = nds[p].upper
    BY DEF SplitStep, Halves
  <1>3. PageOK(nds2[a]) /\ SameFences(nds2[a], nds[a]) BY DEF SplitStep, Parts
  <1>4. q \notin {p, new, a} => nds2[q] = nds[q] BY DEF SplitStep
  <1>5. PageOK(nds[q]) BY TreeFacts
  <1>6. CASE q \notin {p, new, a} BY <1>2, <1>4, <1>5, <1>6 DEF SameFences
  <1>7. CASE q \in {p, new} BY <1>1, <1>2, <1>7
  <1>8. CASE q = a BY <1>1, <1>2, <1>3, <1>8 DEF SameFences
  <1>9. QED BY <1>6, <1>7, <1>8

\* A child that is not page p stays one.
LEMMA SplitKeepsChild ==
  ASSUME NEW nds, NEW rt, NEW lev, Tree(nds, rt, lev), NEW nds2, NEW lev2, NEW p, NEW new, NEW a,
         NEW pos, NEW slot, NEW sep, SplitStep(nds, lev, nds2, lev2, p, new, a, pos, slot, sep),
         NEW q \in Pages, NEW i, NEW q0 \in Pages, lev[q0] > 0, lev2[q] = lev[q0], NEW j \in 0..Count(nds[q0]),
         SameChild(nds2[q], i, nds[q0], j), Child(nds[q0], j) # p
  PROVE  IsChild(nds2, lev2, q, i)
  <1> DEFINE c == Child(nds[q0], j)
  <1>1. IsChild(nds, lev, q0, j) BY DEF Tree, Linked
  <1>2. c \in Pages /\ lev[c] = lev[q0] - 1 /\ nds[c].lower = Low(nds[q0], j) /\ nds[c].upper = High(nds[q0], j)
    BY <1>1 DEF IsChild
  <1>3. Child(nds2[q], i) = c /\ Low(nds2[q], i) = Low(nds[q0], j) /\ High(nds2[q], i) = High(nds[q0], j)
    BY DEF SameChild
  <1>4. c # p OBVIOUS
  <1> HIDE DEF c
  <1>5. lev[q0] \in Int /\ lev[c] \in Int BY <1>2, TreeFacts
  <1>6. lev[new] < 0 BY DEF SplitStep
  <1>7. c # new BY <1>2, <1>5, <1>6
  <1>8. lev2[c] = lev[c] BY <1>2, <1>7, SplitLevels
  <1>9. SameFences(nds2[c], nds[c]) BY <1>2, <1>4, <1>7, SplitFences
  <1>10. nds2[c].lower = nds[c].lower /\ nds2[c].upper = nds[c].upper BY <1>9 DEF SameFences
  <1>11. lev2[c] = lev2[q] - 1 BY <1>2, <1>8
  <1>12. QED BY <1>2, <1>3, <1>10, <1>11 DEF IsChild

LEMMA SplitLinked ==
  ASSUME NEW nds, NEW rt, NEW lev, Tree(nds, rt, lev), NEW nds2, NEW lev2, NEW p, NEW new, NEW a,
         NEW pos, NEW slot, NEW sep, SplitStep(nds, lev, nds2, lev2, p, new, a, pos, slot, sep)
  PROVE  Linked(nds2, lev2)
  <1>1. /\ p \in Pages /\ new \in Pages /\ a \in Pages
        /\ lev[p] = lev[a] - 1 /\ lev[p] >= 0 /\ new # p /\ new # a /\ p # a /\ lev2[new] = lev[p]
        /\ \A q \in Pages : lev[q] \in Int /\ (q # new => lev2[q] = lev[q])
    BY SplitLevels
  <1>2. /\ lev[a] > 0 /\ pos \in 0..Count(nds[a]) /\ Child(nds[a], pos) = p
        /\ slot \in SlotsOf(nds[p]) /\ Divides(nds[p], slot, sep)
        /\ Halves(nds2[p], nds2[new], nds[p], slot, sep) /\ Parts(nds2[a], nds[a], pos, sep, p, new)
    BY DEF SplitStep
  <1>3. IsChild(nds, lev, a, pos) BY <1>1, <1>2 DEF Tree, Linked
  <1>4. Count(nds[p]) \in Nat /\ Count(nds[a]) \in Nat /\ pos \in Nat /\ pos <= Count(nds[a])
        /\ slot \in Nat /\ slot < Count(nds[p])
    <2>1. Count(nds[p]) \in Nat /\ Count(nds[a]) \in Nat BY <1>1, TreeFacts
    <2>2. QED BY <1>2, <2>1 DEF SlotsOf
  <1>5. ASSUME NEW i \in 0..Count(nds[p]), lev[p] > 0 PROVE Child(nds[p], i) # p
    <2>1. IsChild(nds, lev, p, i) BY <1>1, <1>5 DEF Tree, Linked
    <2>2. QED BY <1>1, <2>1 DEF IsChild
  <1>6. ASSUME lev[p] > 0 PROVE ~nds[p].leaf BY <1>1, <1>6, TreeFacts
  <1>7. ASSUME NEW q \in Pages, lev2[q] > 0, NEW i \in 0..Count(nds2[q]) PROVE IsChild(nds2, lev2, q, i)
    <2>1. CASE q = p
      <3>1. lev[p] > 0 /\ lev2[p] = lev[p] BY <1>1, <1>7, <2>1
      <3>2. Count(nds2[p]) = slot /\ \A x \in 0..slot : SameChild(nds2[p], x, nds[p], x)
        BY <1>2, <1>6, <3>1 DEF Halves
      <3>3. i \in 0..Count(nds[p]) BY <1>4, <1>7, <2>1, <3>2
      <3>4. SameChild(nds2[p], i, nds[p], i) BY <1>7, <2>1, <3>2
      <3>5. Child(nds[p], i) # p BY <1>5, <3>1, <3>3
      <3>6. QED BY <2>1, <3>1, <3>3, <3>4, <3>5, <1>1, SplitKeepsChild
    <2>2. CASE q = new
      <3>1. lev[p] > 0 /\ lev2[new] = lev[p] BY <1>1, <1>7, <2>2
      <3>2. Count(nds2[new]) = Count(nds[p]) - (slot + 1)
            /\ \A x \in 0..Count(nds2[new]) : SameChild(nds2[new], x, nds[p], (slot + 1) + x)
        BY <1>2, <1>6, <3>1 DEF Halves
      <3> DEFINE j == (slot + 1) + i
      <3>3. j \in 0..Count(nds[p]) BY <1>4, <1>7, <2>2, <3>2
      <3>4. SameChild(nds2[new], i, nds[p], j) BY <1>7, <2>2, <3>2
      <3> HIDE DEF j
      <3>5. Child(nds[p], j) # p BY <1>5, <3>1, <3>3
      <3>6. QED BY <2>2, <3>1, <3>3, <3>4, <3>5, <1>1, SplitKeepsChild
    <2>3. CASE q = a
      <3>1. lev2[a] = lev[a] BY <1>1
      <3>2. Count(nds2[a]) = Count(nds[a]) + 1 BY <1>2 DEF Parts
      <3>3. i \in 0..(Count(nds[a]) + 1) /\ i \in Nat BY <1>4, <1>7, <2>3, <3>2
      <3>4. ASSUME NEW j \in 0..Count(nds[a]), j # pos, SameChild(nds2[a], i, nds[a], j)
            PROVE  IsChild(nds2, lev2, a, i)
        <4>1. Child(nds[a], j) # p BY <1>1, <1>2, <3>4, ChildrenDiffer
        <4>2. QED BY <1>1, <1>2, <3>1, <3>4, <4>1, SplitKeepsChild
      <3>5. CASE i < pos
        <4>1. i \in 0..Count(nds[a]) /\ i # pos BY <1>4, <3>3, <3>5
        <4>2. SameChild(nds2[a], i, nds[a], i) BY <1>2, <3>5, <4>1 DEF Parts
        <4>3. QED BY <2>3, <3>4, <4>1, <4>2
      <3>6. CASE i = pos
        <4>1. Child(nds2[a], i) = p /\ Low(nds2[a], i) = Low(nds[a], pos) /\ High(nds2[a], i) = sep
          BY <1>2, <3>6 DEF Parts
        <4>2. nds2[p].lower = nds[p].lower /\ nds2[p].upper = sep BY <1>1, SplitFences
        <4>3. nds[p].lower = Low(nds[a], pos) BY <1>2, <1>3 DEF IsChild
        <4>4. lev2[p] = lev2[a] - 1 BY <1>1
        <4>5. QED BY <1>1, <2>3, <4>1, <4>2, <4>3, <4>4 DEF IsChild
      <3>7. CASE i = pos + 1
        <4>1. Child(nds2[a], i) = new /\ Low(nds2[a], i) = sep /\ High(nds2[a], i) = High(nds[a], pos)
          BY <1>2, <3>7 DEF Parts
        <4>2. nds2[new].lower = sep /\ nds2[new].upper = nds[p].upper BY <1>1, SplitFences
        <4>3. nds[p].upper = High(nds[a], pos) BY <1>2, <1>3 DEF IsChild
        <4>4. lev2[new] = lev2[a] - 1 BY <1>1
        <4>5. QED BY <1>1, <2>3, <4>1, <4>2, <4>3, <4>4 DEF IsChild
      <3>8. CASE i > pos + 1
        <4> DEFINE j == i - 1
        <4>1. j \in 0..Count(nds[a]) /\ j # pos /\ j > pos /\ j + 1 = i BY <1>4, <3>3, <3>8
        <4> HIDE DEF j
        <4>2. SameChild(nds2[a], j + 1, nds[a], j) BY <1>2, <4>1 DEF Parts
        <4>3. QED BY <2>3, <3>4, <4>1, <4>2
      <3>9. QED BY <1>4, <3>3, <3>5, <3>6, <3>7, <3>8
    <2>4. CASE q \notin {p, new, a}
      <3>1. nds2[q] = nds[q] /\ lev2[q] = lev[q] /\ lev[q] > 0 BY <1>1, <1>7, <2>4, SplitFences
      <3>2. i \in 0..Count(nds[q]) BY <1>7, <3>1
      <3>3. SameChild(nds2[q], i, nds[q], i) BY <3>1 DEF SameChild
      <3>4. Child(nds[q], i) # p
        <4>1. sep \in Names /\ Within(nds[p], sep) BY <1>2 DEF Divides, Names
        <4>2. SUFFICES ASSUME Child(nds[q], i) = Child(nds[a], pos) PROVE FALSE BY <1>2
        <4>3. Within(nds[Child(nds[a], pos)], sep) BY <1>2, <4>1
        <4>4. a = q BY <1>1, <1>2, <3>1, <3>2, <4>1, <4>2, <4>3, OneParent
        <4>5. QED BY <2>4, <4>4
      <3>5. QED BY <1>7, <3>1, <3>2, <3>3, <3>4, SplitKeepsChild
    <2>5. QED BY <2>1, <2>2, <2>3, <2>4
  <1>8. QED BY <1>7 DEF Linked

LEMMA SplitApart ==
  ASSUME NEW nds, NEW rt, NEW lev, Tree(nds, rt, lev), NEW nds2, NEW lev2, NEW p, NEW new, NEW a,
         NEW pos, NEW slot, NEW sep, SplitStep(nds, lev, nds2, lev2, p, new, a, pos, slot, sep)
  PROVE  Apart(nds2, lev2)
  <1>1. /\ p \in Pages /\ new \in Pages /\ a \in Pages /\ lev[p] >= 0 /\ new # p /\ lev2[new] = lev[p]
        /\ \A q \in Pages : lev[q] \in Int /\ (q # new => lev2[q] = lev[q])
    BY SplitLevels
  <1>2. sep \in Words /\ sep # <<>> /\ Within(nds[p], sep) BY DEF SplitStep, Divides
  <1>3. nds[p].lower \in Words /\ nds[p].upper \in Words
    BY <1>1, TreeFacts, PageFacts
  <1> DEFINE Old(q) == IF q = new THEN p ELSE q
  <1>4. ASSUME NEW q \in Pages, NEW w \in Names, Within(nds2[q], w)
        PROVE  Old(q) \in Pages /\ lev[Old(q)] = lev2[q] /\ Within(nds[Old(q)], w)
               /\ (q = p => ~Less(sep, w)) /\ (q = new => Less(sep, w))
    <2>1. w \in Words BY DEF Names
    <2>2. CASE q = p
      <3>1. nds2[p].lower = nds[p].lower /\ nds2[p].upper = sep BY <1>1, SplitFences
      <3>2. (nds[p].lower = <<>> \/ Less(nds[p].lower, w)) /\ ~Less(sep, w)
        BY <1>2, <1>4, <2>2, <3>1 DEF Within
      <3>3. nds[p].upper = <<>> \/ ~Less(nds[p].upper, w)
        BY <1>2, <1>3, <2>1, <3>2, NotLessTransitive DEF Within
      <3>4. QED BY <1>1, <2>2, <3>2, <3>3 DEF Within
    <2>3. CASE q = new
      <3>1. nds2[new].lower = sep /\ nds2[new].upper = nds[p].upper BY <1>1, SplitFences
      <3>2. Less(sep, w) /\ (nds[p].upper = <<>> \/ ~Less(nds[p].upper, w))
        BY <1>2, <1>4, <2>3, <3>1 DEF Within
      <3>3. nds[p].lower = <<>> \/ Less(nds[p].lower, w)
        BY <1>2, <1>3, <2>1, <3>2, LessTransitive DEF Within
      <3>4. QED BY <1>1, <2>3, <3>2, <3>3 DEF Within
    <2>4. CASE q \notin {p, new}
      <3>1. SameFences(nds2[q], nds[q]) BY <2>4, SplitFences
      <3>2. Within(nds[q], w) BY <1>4, <3>1 DEF SameFences, Within
      <3>3. QED BY <1>1, <2>4, <3>2
    <2>5. QED BY <2>2, <2>3, <2>4
  <1>5. SUFFICES ASSUME NEW x \in Pages, NEW y \in Pages, lev2[x] = lev2[y], lev2[x] >= 0,
                        NEW w \in Names, Within(nds2[x], w), Within(nds2[y], w)
                 PROVE  x = y
    BY DEF Apart
  <1>6. Old(x) = Old(y)
    <2>1. Old(x) \in Pages /\ lev[Old(x)] = lev2[x] /\ Within(nds[Old(x)], w) BY <1>4, <1>5
    <2>2. Old(y) \in Pages /\ lev[Old(y)] = lev2[y] /\ Within(nds[Old(y)], w) BY <1>4, <1>5
    <2> HIDE DEF Old
    <2>3. QED BY <1>5, <2>1, <2>2 DEF Tree, Apart
  <1>7. ~(x = p /\ y = new) /\ ~(x = new /\ y = p) BY <1>4, <1>5
  <1>8. QED BY <1>6, <1>7

LEMMA TreeSplit ==
  ASSUME NEW nds, NEW rt, NEW lev, Tree(nds, rt, lev), NEW nds2, NEW lev2, NEW p, NEW new, NEW a,
         NEW pos, NEW slot, NEW sep, SplitStep(nds, lev, nds2, lev2, p, new, a, pos, slot, sep)
  PROVE  Tree(nds2, rt, lev2)
  <1>1. /\ p \in Pages /\ new \in Pages /\ a \in Pages /\ lev[p] = lev[a] - 1 /\ lev[p] >= 0
        /\ lev2 \in [Pages -> Int] /\ lev2[new] = lev[p]
        /\ \A q \in Pages : lev[q] \in Int /\ (q # new => lev2[q] = lev[q])
    BY SplitLevels
  <1>2. nds2 \in [Pages -> Page] BY DEF SplitStep
  <1>3. \A q \in Pages : PageOK(nds2[q]) BY SplitFences
  <1>4. ASSUME NEW q \in Pages PROVE lev2[q] <= 0 <=> nds2[q].leaf
    <2>1. CASE q = new
      <3>1. nds2[new].leaf = nds[p].leaf BY <1>1, SplitFences
      <3>2. lev[p] <= 0 <=> nds[p].leaf BY <1>1 DEF Tree
      <3>3. QED BY <1>1, <2>1, <3>1, <3>2
    <2>2. CASE q # new
      <3>1. nds2[q].leaf = nds[q].leaf BY <2>2, SplitFences
      <3>2. lev[q] <= 0 <=> nds[q].leaf BY DEF Tree
      <3>3. QED BY <1>1, <2>2, <3>1, <3>2
    <2>3. QED BY <2>1, <2>2
  <1>5. Rooted(nds2, rt, lev2)
    <2>1. rt \in Pages /\ lev[rt] >= 0 /\ nds[rt].lower = <<>> /\ nds[rt].upper = <<>>
          /\ \A q \in Pages : lev[q] <= lev[rt]
      BY DEF Tree, Rooted
    <2>2. lev[new] < 0 BY DEF SplitStep
    <2>3. rt # new /\ rt # p BY <1>1, <2>1, <2>2
    <2>4. SameFences(nds2[rt], nds[rt]) BY <2>1, <2>3, SplitFences
    <2>5. \A q \in Pages : lev2[q] <= lev2[rt] BY <1>1, <2>1, <2>3
    <2>6. lev2[rt] >= 0 BY <1>1, <2>1, <2>3
    <2>7. QED BY <2>1, <2>4, <2>5, <2>6 DEF Rooted, SameFences
  <1>6. Linked(nds2, lev2) BY SplitLinked
  <1>7. Apart(nds2, lev2) BY SplitApart
  <1>8. QED BY <1>1, <1>2, <1>3, <1>4, <1>5, <1>6, <1>7 DEF Tree

\* A tree under a new root.
LEMMA TreeGrown ==
  ASSUME NEW nds, NEW rt, NEW lev, Tree(nds, rt, lev), NEW above \in Pages, lev[above] < 0,
         NEW g, PageOK(g), ~g.leaf, g.lower = <<>>, g.upper = <<>>, g.link = rt, Count(g) = 0,
         NEW nds2, nds2 = [nds EXCEPT ![above] = g], NEW lev2, lev2 = [lev EXCEPT ![above] = lev[rt] + 1]
  PROVE  Tree(nds2, above, lev2)
  <1>1. /\ nds \in [Pages -> Page] /\ lev \in [Pages -> Int]
        /\ (\A q \in Pages : PageOK(nds[q])) /\ (\A q \in Pages : lev[q] <= 0 <=> nds[q].leaf)
        /\ Linked(nds, lev) /\ Apart(nds, lev)
    BY DEF Tree
  <1>2. /\ rt \in Pages /\ lev[rt] >= 0 /\ nds[rt].lower = <<>> /\ nds[rt].upper = <<>>
        /\ \A q \in Pages : lev[q] <= lev[rt]
    BY DEF Tree, Rooted
  <1>3. \A q \in Pages : lev[q] \in Int BY <1>1
  <1>4. g \in Page BY DEF PageOK, Loose
  <1>5. nds2 \in [Pages -> Page] /\ nds2[above] = g /\ \A q \in Pages : q # above => nds2[q] = nds[q]
    BY <1>1, <1>4
  <1>6. lev[rt] + 1 \in Int BY <1>2, <1>3
  <1>7. lev2 \in [Pages -> Int] /\ lev2[above] = lev[rt] + 1 /\ \A q \in Pages : q # above => lev2[q] = lev[q]
    BY <1>1, <1>6
  <1>8. \A q \in Pages : PageOK(nds2[q]) BY <1>1, <1>5
  <1>9. \A q \in Pages : lev2[q] <= 0 <=> nds2[q].leaf BY <1>1, <1>2, <1>3, <1>5, <1>7
  <1>10. Rooted(nds2, above, lev2) BY <1>2, <1>3, <1>5, <1>7 DEF Rooted
  <1>11. ASSUME NEW q \in Pages, lev2[q] > 0, NEW i \in 0..Count(nds2[q]) PROVE IsChild(nds2, lev2, q, i)
    <2>1. rt # above BY <1>2, <1>3
    <2>2. CASE q = above
      <3>1. i = 0 /\ Child(g, i) = rt /\ Low(g, i) = <<>> /\ High(g, i) = <<>>
        BY <1>5, <1>11, <2>2 DEF Child, Low, High
      <3>2. nds2[rt] = nds[rt] /\ lev2[rt] = lev2[above] - 1 BY <1>2, <1>3, <1>5, <1>7, <2>1
      <3>3. QED BY <1>2, <1>5, <2>2, <3>1, <3>2 DEF IsChild
    <2>3. CASE q # above
      <3>1. nds2[q] = nds[q] /\ lev2[q] = lev[q] BY <1>5, <1>7, <2>3
      <3>2. IsChild(nds, lev, q, i) BY <1>1, <1>11, <3>1 DEF Linked
      <3> DEFINE c == Child(nds[q], i)
      <3>3. c \in Pages /\ lev[c] = lev[q] - 1 /\ nds[c].lower = Low(nds[q], i) /\ nds[c].upper = High(nds[q], i)
        BY <3>2 DEF IsChild
      <3> HIDE DEF c
      <3>4. c # above BY <1>3, <1>11, <3>1, <3>3
      <3>5. nds2[c] = nds[c] /\ lev2[c] = lev[c] BY <1>5, <1>7, <3>3, <3>4
      <3>6. QED BY <3>1, <3>3, <3>5 DEF IsChild, c
    <2>4. QED BY <2>2, <2>3
  <1>12. Apart(nds2, lev2)
    <2>1. SUFFICES ASSUME NEW x \in Pages, NEW y \in Pages, lev2[x] = lev2[y], lev2[x] >= 0,
                          NEW w \in Names, Within(nds2[x], w), Within(nds2[y], w)
                   PROVE  x = y
      BY DEF Apart
    <2>2. \A q \in Pages : q # above => lev2[q] < lev2[above] BY <1>2, <1>3, <1>7
    <2>3. lev2[x] \in Int /\ lev2[above] \in Int BY <1>7
    <2>4. CASE x = above \/ y = above BY <2>1, <2>2, <2>3, <2>4
    <2>5. CASE x # above /\ y # above
      <3>1. nds2[x] = nds[x] /\ nds2[y] = nds[y] /\ lev2[x] = lev[x] /\ lev2[y] = lev[y] BY <1>5, <1>7, <2>5
      <3>2. QED BY <1>1, <2>1, <3>1 DEF Apart
    <2>6. QED BY <2>4, <2>5
  <1>13. Linked(nds2, lev2) BY <1>11 DEF Linked
  <1>14. QED BY <1>5, <1>7, <1>8, <1>9, <1>10, <1>12, <1>13 DEF Tree

-------------------------------------------------------------------------------
(* Two leaves are merged.                                                        *)

\* Page m is page n with p for the children at pos and pos + 1.
OneChild(m, n, pos, p) ==
  /\ PageOK(m) /\ SameFences(m, n) /\ Count(m) = Count(n) - 1
  /\ \A i \in 0..Count(n) : i < pos => SameChild(m, i, n, i)
  /\ Child(m, pos) = p /\ Low(m, pos) = Low(n, pos) /\ High(m, pos) = High(n, pos + 1)
  /\ \A i \in 0..Count(n) : i > pos + 1 => SameChild(m, i - 1, n, i)

LEMMA ChildrenJoined ==
  ASSUME NEW n, PageOK(n), NEW pos \in Nat, pos + 1 < Count(n), NEW p \in Int
  PROVE  LET m == RemoveSlot([n EXCEPT !.slots[pos + 2].pay = p], pos)
         IN /\ OneChild(m, n, pos, p)
            /\ FreeSpace(n) >= 0 => FreeSpace(m) >= 0
  <1> DEFINE at == pos + 1
             v == [n EXCEPT !.slots[at + 1].pay = p]
             m == RemoveSlot(v, pos)
  <1>1. Count(n) \in Nat /\ at \in Nat BY PageFacts DEF PageOK, Loose
  <1>2. at \in SlotsOf(n) /\ pos \in SlotsOf(n) BY <1>1 DEF SlotsOf
  <1>3. pos + 2 = at + 1 OBVIOUS
  <1>4. RemoveSlot([n EXCEPT !.slots[pos + 2].pay = p], pos) = m BY <1>3
  <1>5. at = pos + 1 OBVIOUS
  <1> HIDE DEF at
  <1>6. /\ PageOK(v) /\ SameFences(v, n) /\ v.link = n.link /\ Count(v) = Count(n)
        /\ v.used = n.used /\ v.data = n.data
        /\ \A i \in SlotsOf(n) : FullKey(v, i) = FullKey(n, i)
        /\ \A i \in SlotsOf(n) : Slot(v, i).pay = IF i = at THEN p ELSE Slot(n, i).pay
    BY <1>2, SlotRepaid
  <1> HIDE DEF v
  <1>7. Loose(v) /\ SlotsOf(v) = SlotsOf(n) /\ FreeSpace(v) = FreeSpace(n)
    BY <1>6 DEF PageOK, SlotsOf, FreeSpace
  <1>8. PageOK(m) /\ Removed(m, v, pos) /\ (FreeSpace(v) >= 0 => FreeSpace(m) >= 0)
    BY <1>2, <1>7, SlotTakenOut
  <1> HIDE DEF m
  <1>9. /\ m.leaf = n.leaf /\ m.lower = n.lower /\ m.upper = n.upper /\ m.link = n.link
        /\ Count(m) = Count(n) - 1
    BY <1>6, <1>8 DEF Removed, SameFences
  <1>10. \A i \in SlotsOf(n) : i < pos => FullKey(m, i) = FullKey(n, i) /\ Slot(m, i).pay = Slot(n, i).pay
    <2>1. \A i \in SlotsOf(n) : i < pos => i # at BY <1>1, <1>5 DEF SlotsOf
    <2>2. QED BY <1>6, <1>7, <1>8, <2>1 DEF Removed
  <1>11. \A i \in SlotsOf(n) : i > pos =>
           FullKey(m, i - 1) = FullKey(n, i) /\ Slot(m, i - 1).pay = IF i = at THEN p ELSE Slot(n, i).pay
    BY <1>6, <1>7, <1>8 DEF Removed
  <1>12. \A i \in 0..Count(n) : i > at => Child(m, i - 1) = Child(n, i) /\ High(m, i - 1) = High(n, i)
    <2>1. SUFFICES ASSUME NEW i \in 0..Count(n), i > at
                   PROVE  Child(m, i - 1) = Child(n, i) /\ High(m, i - 1) = High(n, i)
      OBVIOUS
    <2>2. i \in Nat /\ i > pos /\ i # at /\ (i - 1 = Count(m) <=> i = Count(n)) BY <1>1, <1>5, <1>9, <2>1
    <2>3. CASE i = Count(n) BY <1>9, <2>2, <2>3 DEF Child, High
    <2>4. CASE i # Count(n)
      <3>1. i \in SlotsOf(n) BY <1>1, <2>2, <2>4 DEF SlotsOf
      <3>2. FullKey(m, i - 1) = FullKey(n, i) /\ Slot(m, i - 1).pay = Slot(n, i).pay BY <1>11, <2>2, <3>1
      <3>3. QED BY <2>2, <2>4, <3>2 DEF Child, High
    <2>5. QED BY <2>3, <2>4
  <1>13. ASSUME NEW i \in 0..Count(n), i > at PROVE SameChild(m, i - 1, n, i)
    <2>1. i - 1 \in SlotsOf(n) /\ i - 1 > pos /\ i - 1 # 0 /\ i # 0 BY <1>1, <1>5, <1>13 DEF SlotsOf
    <2>2. FullKey(m, (i - 1) - 1) = FullKey(n, i - 1) BY <1>11, <2>1
    <2>3. Low(m, i - 1) = Low(n, i) BY <2>1, <2>2 DEF Low
    <2>4. QED BY <1>12, <1>13, <2>3 DEF SameChild
  <1>14. ASSUME NEW i \in 0..Count(n), i <= pos PROVE Low(m, i) = Low(n, i)
    <2>1. CASE i = 0 BY <1>9, <2>1 DEF Low
    <2>2. CASE i # 0
      <3>1. i - 1 \in SlotsOf(n) /\ i - 1 < pos BY <1>1, <1>14, <2>2 DEF SlotsOf
      <3>2. QED BY <1>10, <2>2, <3>1 DEF Low
    <2>3. QED BY <2>1, <2>2
  <1>15. ASSUME NEW i \in 0..Count(n), i < pos PROVE SameChild(m, i, n, i)
    <2>1. i \in SlotsOf(n) /\ i # Count(n) /\ i # Count(m) /\ i <= pos BY <1>1, <1>5, <1>9, <1>15 DEF SlotsOf
    <2>2. Child(m, i) = Child(n, i) /\ High(m, i) = High(n, i) BY <1>10, <1>15, <2>1 DEF Child, High
    <2>3. Low(m, i) = Low(n, i) BY <1>14, <2>1
    <2>4. QED BY <2>2, <2>3 DEF SameChild
  <1>16. Child(m, pos) = p /\ Low(m, pos) = Low(n, pos) /\ High(m, pos) = High(n, at)
    <2>1. pos # Count(m) /\ at # Count(n) /\ pos <= pos /\ pos \in 0..Count(n) /\ at > pos /\ at - 1 = pos
      BY <1>1, <1>5, <1>9
    <2>2. FullKey(m, at - 1) = FullKey(n, at) /\ Slot(m, at - 1).pay = p BY <1>2, <1>11, <2>1
    <2>3. Child(m, pos) = p /\ High(m, pos) = High(n, at) BY <2>1, <2>2 DEF Child, High
    <2>4. Low(m, pos) = Low(n, pos) BY <1>14, <2>1
    <2>5. QED BY <2>3, <2>4
  <1>17. SameFences(m, n) BY <1>9 DEF SameFences
  <1>18. OneChild(m, n, pos, p) BY <1>5, <1>8, <1>9, <1>13, <1>15, <1>16, <1>17 DEF OneChild
  <1>19. QED BY <1>4, <1>7, <1>8, <1>18

\* Two trees of which the second has leaf p for leaves p and next of the first.
MergeStep(nds, lev, nds2, lev2, p, next, a, pos) ==
  /\ p \in Pages /\ next \in Pages /\ a \in Pages
  /\ lev[p] = 0 /\ lev[a] > 0 /\ pos \in Nat /\ pos + 1 < Count(nds[a])
  /\ Child(nds[a], pos) = p /\ Child(nds[a], pos + 1) = next
  /\ nds2 \in [Pages -> Page] /\ lev2 = [lev EXCEPT ![next] = -1]
  /\ PageOK(nds2[p]) /\ nds2[p].leaf
  /\ nds2[p].lower = nds[p].lower /\ nds2[p].upper = nds[next].upper
  /\ OneChild(nds2[a], nds[a], pos, p)
  /\ \A q \in Pages : q \notin {p, a} => nds2[q] = nds[q]

LEMMA MergeFacts ==
  ASSUME NEW nds, NEW rt, NEW lev, Tree(nds, rt, lev), NEW nds2, NEW lev2, NEW p, NEW next, NEW a,
         NEW pos, MergeStep(nds, lev, nds2, lev2, p, next, a, pos)
  PROVE  /\ p \in Pages /\ next \in Pages /\ a \in Pages
         /\ pos \in Nat /\ pos + 1 < Count(nds[a]) /\ Count(nds[a]) \in Nat
         /\ pos \in 0..Count(nds[a]) /\ pos + 1 \in 0..Count(nds[a])
         /\ lev[p] = 0 /\ lev[next] = 0 /\ lev[a] = 1 /\ p # next /\ p # a /\ next # a
         /\ IsChild(nds, lev, a, pos) /\ IsChild(nds, lev, a, pos + 1)
         /\ nds[p].leaf /\ nds[next].leaf
         /\ nds[p].upper = nds[next].lower /\ nds[p].upper = FullKey(nds[a], pos)
         /\ nds[p].upper \in Names /\ Within(nds[p], nds[p].upper)
         /\ nds[next].upper \in Names /\ Within(nds[next], nds[next].upper)
         /\ lev2 \in [Pages -> Int] /\ lev2[next] = -1
         /\ \A q \in Pages : lev[q] \in Int /\ (q # next => lev2[q] = lev[q])
  <1>1. /\ p \in Pages /\ next \in Pages /\ a \in Pages
        /\ lev[p] = 0 /\ lev[a] > 0 /\ pos \in Nat /\ pos + 1 < Count(nds[a])
        /\ Child(nds[a], pos) = p /\ Child(nds[a], pos + 1) = next /\ lev2 = [lev EXCEPT ![next] = -1]
    BY DEF MergeStep
  <1>2. Loose(nds[a]) /\ Count(nds[a]) \in Nat BY <1>1, TreeFacts
  <1>3. lev \in [Pages -> Int] BY DEF Tree
  <1>4. pos \in 0..Count(nds[a]) /\ pos + 1 \in 0..Count(nds[a]) /\ pos < Count(nds[a]) BY <1>1, <1>2
  <1>5. IsChild(nds, lev, a, pos) /\ IsChild(nds, lev, a, pos + 1) BY <1>1, <1>4 DEF Tree, Linked
  <1>6. lev[p] = lev[a] - 1 /\ lev[next] = lev[a] - 1 BY <1>1, <1>5 DEF IsChild
  <1>7. lev[a] = 1 /\ lev[next] = 0 /\ p # a /\ next # a
    <2>1. lev[a] \in Int /\ lev[next] \in Int BY <1>1, <1>3
    <2>2. QED BY <1>1, <1>6, <2>1
  <1>8. p # next
    <2>1. pos # pos + 1 BY <1>1
    <2>2. QED BY <1>1, <1>4, <2>1, ChildrenDiffer
  <1>9. nds[p].leaf /\ nds[next].leaf BY <1>1, <1>7, TreeFacts
  <1> DEFINE n == nds[a]
  <1>10. /\ nds[p].lower = Low(n, pos) /\ nds[p].upper = High(n, pos)
         /\ nds[next].lower = Low(n, pos + 1) /\ nds[next].upper = High(n, pos + 1)
    BY <1>1, <1>5 DEF IsChild
  <1>11. Loose(n) /\ pos \in 0..Count(n) /\ pos + 1 \in 0..Count(n) /\ pos < Count(n) /\ pos + 1 < Count(n)
    BY <1>1, <1>2, <1>4
  <1> HIDE DEF n
  <1>12. pos \in SlotsOf(n) /\ High(n, pos) = FullKey(n, pos) /\ High(n, pos) # <<>>
    BY <1>11, RangeKeys
  <1> DEFINE at == pos + 1
  <1>13. at \in 0..Count(n) /\ at < Count(n) /\ at > 0 /\ at - 1 = pos /\ pos < at BY <1>1, <1>11
  <1> HIDE DEF at
  <1>14. at \in SlotsOf(n) /\ High(n, at) = FullKey(n, at) /\ High(n, at) # <<>> /\ Low(n, at) = FullKey(n, at - 1)
    BY <1>11, <1>13, RangeKeys
  <1>15. FullKey(n, pos) \in Words /\ FullKey(n, at) \in Words /\ Less(FullKey(n, pos), FullKey(n, at))
    BY <1>11, <1>12, <1>13, <1>14, KeysAscend
  <1>16. Low(n, pos) = <<>> \/ Less(Low(n, pos), FullKey(n, pos))
    <2>1. CASE pos = 0
      <3>1. KeyFits(n, FullKey(n, pos)) BY <1>11, <1>12, KeysAscend
      <3>2. QED BY <2>1, <3>1 DEF KeyFits, Within, Low
    <2>2. CASE pos # 0
      <3>1. pos - 1 \in SlotsOf(n) /\ Low(n, pos) = FullKey(n, pos - 1) BY <1>1, <1>11, <2>2, RangeKeys
      <3>2. pos - 1 < pos BY <1>1
      <3>3. QED BY <1>11, <1>12, <3>1, <3>2, KeysAscend
    <2>3. QED BY <2>1, <2>2
  <1>17. nds[p].upper = FullKey(n, pos) /\ nds[next].lower = FullKey(n, pos) /\ nds[next].upper = FullKey(n, at)
    BY <1>10, <1>12, <1>13, <1>14 DEF at
  <1>18. nds[p].upper \in Names /\ Within(nds[p], nds[p].upper)
    BY <1>10, <1>12, <1>15, <1>16, <1>17, LessIrreflexive DEF Names, Within
  <1>19. nds[next].upper \in Names /\ Within(nds[next], nds[next].upper)
    BY <1>14, <1>15, <1>17, LessIrreflexive DEF Names, Within
  <1>20. lev2 \in [Pages -> Int] /\ lev2[next] = -1 /\ \A q \in Pages : q # next => lev2[q] = lev[q]
    BY <1>1, <1>3
  <1>21. nds[p].upper = FullKey(nds[a], pos) BY <1>17 DEF n
  <1>22. QED BY <1>1, <1>2, <1>3, <1>4, <1>5, <1>7, <1>8, <1>9, <1>17, <1>18, <1>19, <1>20, <1>21

LEMMA MergeFences ==
  ASSUME NEW nds, NEW rt, NEW lev, Tree(nds, rt, lev), NEW nds2, NEW lev2, NEW p, NEW next, NEW a,
         NEW pos, MergeStep(nds, lev, nds2, lev2, p, next, a, pos), NEW q \in Pages
  PROVE  /\ PageOK(nds2[q]) /\ nds2[q].leaf = nds[q].leaf
         /\ q # p => SameFences(nds2[q], nds[q])
         /\ q \notin {p, a} => nds2[q] = nds[q]
         /\ nds2[p].lower = nds[p].lower /\ nds2[p].upper = nds[next].upper
  <1>1. p \in Pages /\ next \in Pages /\ a \in Pages /\ p # a /\ nds[p].leaf BY MergeFacts
  <1>2. PageOK(nds2[p]) /\ nds2[p].leaf /\ nds2[p].lower = nds[p].lower /\ nds2[p].upper = nds[next].upper
    BY DEF MergeStep
  <1>3. PageOK(nds2[a]) /\ SameFences(nds2[a], nds[a]) BY DEF MergeStep, OneChild
  <1>4. q \notin {p, a} => nds2[q] = nds[q] BY DEF MergeStep
  <1>5. PageOK(nds[q]) BY TreeFacts
  <1>6. nds2[p].leaf = nds[p].leaf
    <2>1. PageOK(nds[p]) /\ nds2[p].leaf \in BOOLEAN /\ nds[p].leaf \in BOOLEAN
      BY <1>1, <1>2, TreeFacts, PageFacts DEF PageOK, Loose
    <2>2. QED BY <1>1, <1>2, <2>1
  <1>7. CASE q \notin {p, a} BY <1>2, <1>4, <1>5, <1>7 DEF SameFences
  <1>8. CASE q = p BY <1>1, <1>2, <1>6, <1>8
  <1>9. CASE q = a BY <1>1, <1>2, <1>3, <1>9 DEF SameFences
  <1>10. QED BY <1>7, <1>8, <1>9

LEMMA MergeKeepsChild ==
  ASSUME NEW nds, NEW rt, NEW lev, Tree(nds, rt, lev), NEW nds2, NEW lev2, NEW p, NEW next, NEW a,
         NEW pos, MergeStep(nds, lev, nds2, lev2, p, next, a, pos),
         NEW q \in Pages, lev[q] > 0, NEW i, NEW j \in 0..Count(nds[q]),
         SameChild(nds2[q], i, nds[q], j), Child(nds[q], j) # p, Child(nds[q], j) # next
  PROVE  IsChild(nds2, lev2, q, i)
  <1> DEFINE c == Child(nds[q], j)
  <1>1. IsChild(nds, lev, q, j) BY DEF Tree, Linked
  <1>2. c \in Pages /\ lev[c] = lev[q] - 1 /\ nds[c].lower = Low(nds[q], j) /\ nds[c].upper = High(nds[q], j)
    BY <1>1 DEF IsChild
  <1>3. Child(nds2[q], i) = c /\ Low(nds2[q], i) = Low(nds[q], j) /\ High(nds2[q], i) = High(nds[q], j)
    BY DEF SameChild
  <1>4. c # p /\ c # next OBVIOUS
  <1> HIDE DEF c
  <1>5. q # next BY MergeFacts
  <1>6. lev2[c] = lev[c] /\ lev2[q] = lev[q] BY <1>2, <1>4, <1>5, MergeFacts
  <1>7. SameFences(nds2[c], nds[c]) BY <1>2, <1>4, MergeFences
  <1>8. nds2[c].lower = nds[c].lower /\ nds2[c].upper = nds[c].upper BY <1>7 DEF SameFences
  <1>9. lev2[c] = lev2[q] - 1 BY <1>2, <1>6
  <1>10. QED BY <1>2, <1>3, <1>8, <1>9 DEF IsChild

LEMMA MergeLinked ==
  ASSUME NEW nds, NEW rt, NEW lev, Tree(nds, rt, lev), NEW nds2, NEW lev2, NEW p, NEW next, NEW a,
         NEW pos, MergeStep(nds, lev, nds2, lev2, p, next, a, pos)
  PROVE  Linked(nds2, lev2)
  <1>1. /\ p \in Pages /\ next \in Pages /\ a \in Pages
        /\ pos \in Nat /\ pos + 1 < Count(nds[a]) /\ Count(nds[a]) \in Nat
        /\ pos \in 0..Count(nds[a]) /\ pos + 1 \in 0..Count(nds[a])
        /\ lev[p] = 0 /\ lev[next] = 0 /\ lev[a] = 1 /\ p # next /\ p # a /\ next # a
        /\ IsChild(nds, lev, a, pos) /\ IsChild(nds, lev, a, pos + 1)
        /\ lev2[next] = -1 /\ \A q \in Pages : lev[q] \in Int /\ (q # next => lev2[q] = lev[q])
    BY MergeFacts
  <1>2. /\ nds[p].upper \in Names /\ Within(nds[p], nds[p].upper)
        /\ nds[next].upper \in Names /\ Within(nds[next], nds[next].upper)
    BY MergeFacts
  <1>3. Child(nds[a], pos) = p /\ Child(nds[a], pos + 1) = next /\ OneChild(nds2[a], nds[a], pos, p)
    BY DEF MergeStep
  <1>4. ASSUME NEW q \in Pages, lev2[q] > 0, NEW i \in 0..Count(nds2[q]) PROVE IsChild(nds2, lev2, q, i)
    <2>1. q # next /\ q # p /\ lev[q] > 0 /\ lev2[q] = lev[q] BY <1>1, <1>4
    <2>2. CASE q = a
      <3>1. Count(nds2[a]) = Count(nds[a]) - 1 BY <1>3 DEF OneChild
      <3>2. i \in Nat /\ i <= Count(nds[a]) - 1 BY <1>1, <1>4, <2>2, <3>1
      <3>3. ASSUME NEW j \in 0..Count(nds[a]), j # pos, j # pos + 1, SameChild(nds2[a], i, nds[a], j)
            PROVE  IsChild(nds2, lev2, a, i)
        <4>1. Child(nds[a], j) # p /\ lev[a] > 0 BY <1>1, <1>3, <3>3, ChildrenDiffer
        <4>2. Child(nds[a], j) # next
          <5> DEFINE at == pos + 1
          <5>1. at \in 0..Count(nds[a]) /\ Child(nds[a], at) = next /\ j # at BY <1>1, <1>3, <3>3
          <5> HIDE DEF at
          <5>2. QED BY <1>1, <3>3, <4>1, <5>1, ChildrenDiffer
        <4>3. QED BY <1>1, <3>3, <4>1, <4>2, MergeKeepsChild
      <3>4. CASE i < pos
        <4>1. i \in 0..Count(nds[a]) /\ i # pos /\ i # pos + 1 BY <1>1, <3>2, <3>4
        <4>2. SameChild(nds2[a], i, nds[a], i) BY <1>3, <3>4, <4>1 DEF OneChild
        <4>3. QED BY <2>2, <3>3, <4>1, <4>2
      <3>5. CASE i = pos
        <4>1. Child(nds2[a], i) = p /\ Low(nds2[a], i) = Low(nds[a], pos) /\ High(nds2[a], i) = High(nds[a], pos + 1)
          BY <1>3, <3>5 DEF OneChild
        <4>2. nds2[p].lower = nds[p].lower /\ nds2[p].upper = nds[next].upper BY <1>1, MergeFences
        <4>3. nds[p].lower = Low(nds[a], pos) /\ nds[next].upper = High(nds[a], pos + 1)
          BY <1>1, <1>3 DEF IsChild
        <4>4. lev2[p] = lev2[a] - 1 BY <1>1
        <4>5. QED BY <1>1, <2>2, <4>1, <4>2, <4>3, <4>4 DEF IsChild
      <3>6. CASE i > pos
        <4> DEFINE j == i + 1
        <4>1. j \in 0..Count(nds[a]) /\ j # pos /\ j # pos + 1 /\ j > pos + 1 /\ j - 1 = i
          BY <1>1, <3>2, <3>6
        <4> HIDE DEF j
        <4>2. SameChild(nds2[a], j - 1, nds[a], j) BY <1>3, <4>1 DEF OneChild
        <4>3. QED BY <2>2, <3>3, <4>1, <4>2
      <3>7. QED BY <1>1, <3>2, <3>4, <3>5, <3>6
    <2>3. CASE q # a
      <3>1. nds2[q] = nds[q] BY <2>1, <2>3, MergeFences
      <3>2. i \in 0..Count(nds[q]) BY <1>4, <3>1
      <3>3. SameChild(nds2[q], i, nds[q], i) BY <3>1 DEF SameChild
      <3>4. ASSUME Child(nds[q], i) = p PROVE FALSE
        <4>1. Child(nds[q], i) = Child(nds[a], pos) /\ Within(nds[Child(nds[a], pos)], nds[p].upper) /\ lev[a] > 0
          BY <1>1, <1>2, <1>3, <3>4
        <4>2. a = q BY <1>1, <1>2, <2>1, <3>2, <4>1, OneParent
        <4>3. QED BY <2>3, <4>2
      <3>5. ASSUME Child(nds[q], i) = next PROVE FALSE
        <4> DEFINE at == pos + 1
        <4>1. at \in 0..Count(nds[a]) /\ Child(nds[q], i) = Child(nds[a], at)
              /\ Within(nds[Child(nds[a], at)], nds[next].upper) /\ lev[a] > 0
          BY <1>1, <1>2, <1>3, <3>5
        <4> HIDE DEF at
        <4>2. a = q BY <1>1, <1>2, <2>1, <3>2, <4>1, OneParent
        <4>3. QED BY <2>3, <4>2
      <3>6. QED BY <2>1, <3>2, <3>3, <3>4, <3>5, MergeKeepsChild
    <2>4. QED BY <2>2, <2>3
  <1>5. QED BY <1>4 DEF Linked

\* What is between the fences of the merged leaf is between those of one of the two.
LEMMA MergeWithin ==
  ASSUME NEW nds, NEW rt, NEW lev, Tree(nds, rt, lev), NEW nds2, NEW lev2, NEW p, NEW next, NEW a,
         NEW pos, MergeStep(nds, lev, nds2, lev2, p, next, a, pos), NEW w \in Words
  PROVE  Within(nds2[p], w) => Within(nds[p], w) \/ Within(nds[next], w)
  <1>1. nds2[p].lower = nds[p].lower /\ nds2[p].upper = nds[next].upper BY DEF MergeStep
  <1>2. nds[p].upper = nds[next].lower BY MergeFacts
  <1>3. QED BY <1>1, <1>2 DEF Within

LEMMA TreeMerged ==
  ASSUME NEW nds, NEW rt, NEW lev, Tree(nds, rt, lev), NEW nds2, NEW lev2, NEW p, NEW next, NEW a,
         NEW pos, MergeStep(nds, lev, nds2, lev2, p, next, a, pos)
  PROVE  Tree(nds2, rt, lev2)
  <1>1. /\ p \in Pages /\ next \in Pages /\ a \in Pages
        /\ lev[p] = 0 /\ lev[next] = 0 /\ lev[a] = 1 /\ p # next /\ nds[next].leaf
        /\ lev2 \in [Pages -> Int]
        /\ lev2[next] = -1 /\ \A q \in Pages : lev[q] \in Int /\ (q # next => lev2[q] = lev[q])
    BY MergeFacts
  <1>2. nds2 \in [Pages -> Page] BY DEF MergeStep
  <1>3. \A q \in Pages : PageOK(nds2[q]) /\ nds2[q].leaf = nds[q].leaf BY MergeFences
  <1>4. \A q \in Pages : lev2[q] <= 0 <=> nds2[q].leaf
    <2>1. \A q \in Pages : lev[q] <= 0 <=> nds[q].leaf BY DEF Tree
    <2>2. QED BY <1>1, <1>3, <2>1
  <1>5. Rooted(nds2, rt, lev2)
    <2>1. rt \in Pages /\ lev[rt] >= 0 /\ nds[rt].lower = <<>> /\ nds[rt].upper = <<>>
          /\ \A q \in Pages : lev[q] <= lev[rt]
      BY DEF Tree, Rooted
    <2>2. lev[rt] >= 1 BY <1>1, <2>1
    <2>3. rt # next /\ rt # p BY <1>1, <2>2
    <2>4. SameFences(nds2[rt], nds[rt]) BY <2>1, <2>3, MergeFences
    <2>5. \A q \in Pages : lev2[q] <= lev2[rt] BY <1>1, <2>1, <2>3
    <2>6. lev2[rt] >= 0 BY <1>1, <2>1, <2>3
    <2>7. QED BY <2>1, <2>4, <2>5, <2>6 DEF Rooted, SameFences
  <1>6. Linked(nds2, lev2) BY MergeLinked
  <1>7. Apart(nds2, lev2)
    <2>1. ASSUME NEW q \in Pages, lev2[q] >= 0, NEW w \in Names, Within(nds2[q], w)
          PROVE  /\ q # next /\ lev2[q] = lev[q]
                 /\ Within(nds[q], w) \/ (q = p /\ Within(nds[next], w))
      <3>1. q # next /\ lev2[q] = lev[q] /\ w \in Words BY <1>1, <2>1 DEF Names
      <3>2. CASE q = p BY <2>1, <3>1, <3>2, MergeWithin
      <3>3. CASE q # p
        <4>1. SameFences(nds2[q], nds[q]) BY <3>3, MergeFences
        <4>2. QED BY <2>1, <3>1, <4>1 DEF SameFences, Within
      <3>4. QED BY <3>2, <3>3
    <2>2. SUFFICES ASSUME NEW x \in Pages, NEW y \in Pages, lev2[x] = lev2[y], lev2[x] >= 0,
                          NEW w \in Names, Within(nds2[x], w), Within(nds2[y], w)
                   PROVE  x = y
      BY DEF Apart
    <2>3. /\ x # next /\ lev2[x] = lev[x] /\ (Within(nds[x], w) \/ (x = p /\ Within(nds[next], w)))
          /\ y # next /\ lev2[y] = lev[y] /\ (Within(nds[y], w) \/ (y = p /\ Within(nds[next], w)))
      BY <2>1, <2>2
    <2>4. \A u, v \in Pages : lev[u] = lev[v] /\ lev[u] >= 0 /\ Within(nds[u], w) /\ Within(nds[v], w) => u = v
      BY DEF Tree, Apart
    <2>5. lev[x] = lev[y] /\ lev[x] >= 0 BY <2>2, <2>3
    <2>6. CASE Within(nds[x], w) /\ Within(nds[y], w) BY <2>4, <2>5, <2>6
    <2>7. CASE x = p /\ y = p BY <2>7
    <2>8. CASE x = p /\ Within(nds[next], w) /\ Within(nds[y], w)
      <3>1. lev[y] = lev[next] BY <1>1, <2>5, <2>8
      <3>2. y = next BY <1>1, <2>4, <2>8, <3>1
      <3>3. QED BY <2>3, <3>2
    <2>9. CASE y = p /\ Within(nds[next], w) /\ Within(nds[x], w)
      <3>1. lev[x] = lev[next] BY <1>1, <2>5, <2>9
      <3>2. x = next BY <1>1, <2>4, <2>9, <3>1
      <3>3. QED BY <2>3, <3>2
    <2>10. QED BY <2>3, <2>6, <2>7, <2>8, <2>9
  <1>8. QED BY <1>1, <1>2, <1>3, <1>4, <1>5, <1>6, <1>7 DEF Tree

-------------------------------------------------------------------------------
(* The inductive invariant.                                                      *)

Dead(lev, md) == \A p \in Pages : p > md => lev[p] < 0

TreeOf(nds, rt, lev, md, st) == Tree(nds, rt, lev) /\ Dead(lev, md) /\ Contents(nds, lev, st)
TreeInv == /\ made \in 1..MaxPages /\ stored \subseteq Keys
           /\ \E lev : TreeOf(nodes, root, lev, made, stored)

\* Every page has the space it uses.
Fits == \A p \in Pages : FreeSpace(nodes[p]) >= 0

LEMMA KeyFacts ==
  ASSUME NEW k \in Keys PROVE k \in Words /\ k # <<>> /\ k \in Names /\ Short(k) /\ Len(k) \in Nat
  <1>1. k \in Words /\ k # <<>> BY KeysAssumption DEF Words
  <1>2. Short(k) BY KeysFit DEF Short
  <1>3. QED BY <1>1, <1>2 DEF Names, Words

LEMMA PageNumbers == /\ Pages = 1..MaxPages /\ MaxPages \in Nat /\ MaxPages >= 1 /\ NoPage \in Int
                     /\ \A p \in Pages : p \in Nat /\ p \in Int
  BY PagesAssumption DEF Pages, NoPage

LEMMA EmptyTree == Init => TreeInv /\ Fits
  <1> SUFFICES ASSUME Init PROVE TreeInv /\ Fits OBVIOUS
  <1> DEFINE e == Fresh(TRUE, <<>>, <<>>)
             lev == [p \in Pages |-> IF p = 1 THEN 0 ELSE -1]
  <1>1. nodes = [p \in Pages |-> e] /\ root = 1 /\ made = 1 /\ stored = {} BY DEF Init
  <1>2. <<>> \in Words /\ Short(<<>>)
    <2>1. <<>> \in Words /\ Len(<<>>) = 0 BY EmptySeq DEF Words
    <2>2. ValueLen \in Nat /\ ValueLen <= MaxKVSize BY LayoutAssumption
    <2>3. QED BY <2>1, <2>2 DEF Short
  <1>3. PageOK(e) /\ FreshPage(e, TRUE, <<>>, <<>>) /\ Count(e) = 0
    <2>1. TRUE \in BOOLEAN OBVIOUS
    <2>2. QED BY <1>2, <2>1, FreshIsOK
  <1> HIDE DEF e
  <1>4. e \in Page /\ Loose(e) /\ e.leaf /\ e.lower = <<>> /\ e.upper = <<>> /\ SlotsOf(e) = {}
    BY <1>3 DEF PageOK, Loose, FreshPage, SlotsOf
  <1>5. 1 \in Pages /\ \A p \in Pages : nodes[p] = e BY <1>1, PageNumbers
  <1>6. lev \in [Pages -> Int] /\ lev[1] = 0 /\ \A p \in Pages : p # 1 => lev[p] = -1
    BY <1>5
  <1> HIDE DEF lev
  <1>7. \A p \in Pages : lev[p] \in Int /\ lev[p] <= 0 /\ (lev[p] >= 0 <=> p = 1) BY <1>6
  <1>8. Tree(nodes, root, lev)
    <2>1. nodes \in [Pages -> Page] BY <1>1, <1>4
    <2>2. \A p \in Pages : PageOK(nodes[p]) /\ (lev[p] <= 0 <=> nodes[p].leaf) BY <1>3, <1>4, <1>5, <1>7
    <2>3. Rooted(nodes, root, lev) BY <1>1, <1>4, <1>5, <1>6, <1>7 DEF Rooted
    <2>4. Linked(nodes, lev)
      <3>1. \A p \in Pages : ~(lev[p] > 0) BY <1>7
      <3>2. QED BY <3>1 DEF Linked
    <2>5. Apart(nodes, lev)
      <3>1. \A p, q \in Pages : lev[p] = lev[q] /\ lev[p] >= 0 => p = q BY <1>7
      <3>2. QED BY <3>1 DEF Apart
    <2>6. QED BY <1>6, <2>1, <2>2, <2>3, <2>4, <2>5 DEF Tree
  <1>9. Dead(lev, made) BY <1>1, <1>7, PageNumbers DEF Dead
  <1>10. Contents(nodes, lev, stored) BY <1>1, <1>4, <1>5 DEF Contents, Holds
  <1>11. TreeInv
    <2>1. made \in 1..MaxPages /\ stored \subseteq Keys BY <1>1, PageNumbers
    <2>2. QED BY <1>8, <1>9, <1>10, <2>1 DEF TreeInv, TreeOf
  <1>12. FreeSpace(e) >= 0
    <2>1. e.data + e.used = PageSize /\ e.used = 0 /\ Count(e) = 0
      <3>1. Len(<<>>) = 0 OBVIOUS
      <3>2. QED BY <1>3, <3>1 DEF FreshPage
    <2>2. PageSize \in Nat /\ SlotSize \in Nat /\ e.data \in Int BY <1>4, PageFacts, LayoutAssumption
    <2>3. e.data = PageSize /\ SlotSize * 0 = 0 BY <2>1, <2>2
    <2>4. QED BY <2>1, <2>2, <2>3 DEF FreeSpace
  <1>13. Fits BY <1>5, <1>12 DEF Fits
  <1>14. QED BY <1>11, <1>13

-------------------------------------------------------------------------------
(* Insert.                                                                       *)

LEMMA InsertKeepsTree ==
  ASSUME TreeInv, NEW k \in Keys, InsertKey(k)
  PROVE  TreeInv' /\ (Fits => Fits')
  <1> DEFINE p == Last(Path(k))
             n == nodes[p]
             m == InsertInPage(n, k, NoPage)
  <1>1. k \in Words /\ k # <<>> /\ Short(k) BY KeyFacts
  <1>2. k \notin stored /\ HasSpaceFor(n, Len(k)) /\ nodes' = [nodes EXCEPT ![p] = m]
        /\ stored' = stored \cup {k} /\ root' = root /\ made' = made
    BY DEF InsertKey, LeafOf
  <1>3. made \in 1..MaxPages /\ stored \subseteq Keys BY DEF TreeInv
  <1>4. PICK lev : Tree(nodes, root, lev) /\ Dead(lev, made) /\ Contents(nodes, lev, stored)
    BY DEF TreeInv, TreeOf
  <1>5. p \in Pages /\ lev[p] = 0 /\ n.leaf /\ Within(n, k) BY <1>1, <1>4, PathFacts
  <1> HIDE DEF p
  <1>6. PageOK(n) /\ Loose(n) /\ Count(n) \in Nat BY <1>4, <1>5, TreeFacts
  <1>7. ~Holds(n, k) BY <1>1, <1>2, <1>4, <1>5, LeafHolds
  <1>8. KeyFits(n, k) BY <1>1, <1>5 DEF KeyFits
  <1>9. NoPage \in Int BY PageNumbers
  <1> HIDE DEF n
  <1>10. PageOK(m) /\ Inserted(m, n, k, NoPage, LowerBound(n, k)[1]) /\ FreeSpace(m) >= 0
    <2>1. \A i \in SlotsOf(n) : FullKey(n, i) # k BY <1>7 DEF Holds
    <2>2. QED BY <1>1, <1>2, <1>6, <1>8, <1>9, <2>1, KeyInserted
  <1> HIDE DEF m
  <1>11. SameFences(m, n) /\ \A w : Holds(m, w) <=> Holds(n, w) \/ w = k
    <2>1. SameFences(m, n) BY <1>10 DEF Inserted
    <2>2. QED BY <1>6, <1>10, <2>1, HoldsInserted
  <1>12. nodes \in [Pages -> Page] BY <1>4 DEF Tree
  <1>13. nodes'[p] = m /\ \A q \in Pages : q # p => nodes'[q] = nodes[q] BY <1>2, <1>5, <1>12
  <1>14. Tree(nodes', root', lev)
    <2>1. nodes[p].leaf /\ SameFences(m, nodes[p]) BY <1>5, <1>11 DEF n
    <2>2. Tree([nodes EXCEPT ![p] = m], root, lev) BY <1>4, <1>5, <1>10, <2>1, LeafReplaced
    <2>3. QED BY <1>2, <2>2
  <1>15. Contents(nodes', lev, stored')
    <2>1. SUFFICES ASSUME NEW w
                   PROVE  w \in stored' <=> \E q \in Pages : lev[q] = 0 /\ Holds(nodes'[q], w)
      BY DEF Contents
    <2>2. w \in stored <=> \E q \in Pages : lev[q] = 0 /\ Holds(nodes[q], w) BY <1>4 DEF Contents
    <2>3. Holds(nodes'[p], w) <=> Holds(nodes[p], w) \/ w = k BY <1>11, <1>13 DEF n
    <2>4. QED BY <1>2, <1>5, <1>13, <2>2, <2>3
  <1>16. TreeInv'
    <2>1. made' \in 1..MaxPages /\ stored' \subseteq Keys BY <1>2, <1>3
    <2>2. Dead(lev, made') BY <1>2, <1>4
    <2>3. \E l : TreeOf(nodes', root', l, made', stored') BY <1>14, <1>15, <2>2 DEF TreeOf
    <2>4. QED BY <2>1, <2>3 DEF TreeInv
  <1>17. Fits => Fits' BY <1>10, <1>13 DEF Fits
  <1>18. QED BY <1>16, <1>17

-------------------------------------------------------------------------------
(* Remove.                                                                       *)

LEMMA LowerBoundFinds ==
  ASSUME NEW n, PageOK(n), NEW k \in Words, Holds(n, k)
  PROVE  LowerBound(n, k)[1] \in SlotsOf(n) /\ FullKey(n, LowerBound(n, k)[1]) = k
  <1> DEFINE v == LowerBound(n, k)
             b == v[1]
  <1>1. Loose(n) /\ n \in Page /\ Sorted(n) /\ HintsRight(n) BY DEF PageOK, Loose
  <1>2. IsLowerBound(n, k, v) BY <1>1, LowerBoundIsRight
  <1> HIDE DEF v
  <1>3. b \in 0..Count(n) /\ \A i \in SlotsOf(n) : i < b <=> Less(FullKey(n, i), k) BY <1>2 DEF IsLowerBound
  <1> HIDE DEF b
  <1>4. PICK i \in SlotsOf(n) : FullKey(n, i) = k BY DEF Holds
  <1>5. Count(n) \in Nat /\ i \in Nat /\ i < Count(n) /\ b \in Nat BY <1>1, <1>3, PageFacts DEF SlotsOf
  <1>6. ~(i < b) BY <1>3, <1>4, LessIrreflexive
  <1>7. b \in SlotsOf(n) BY <1>5, <1>6 DEF SlotsOf
  <1>8. ~(b < i)
    <2>1. SUFFICES ASSUME b < i PROVE FALSE OBVIOUS
    <2>2. Less(FullKey(n, b), k) BY <1>1, <1>4, <1>7, <2>1, KeysAscend
    <2>3. b < b BY <1>3, <1>7, <2>2
    <2>4. QED BY <1>5, <2>3
  <1>9. b = i BY <1>5, <1>6, <1>8
  <1>10. QED BY <1>4, <1>7, <1>9 DEF b, v

\* The page before a page of the path is its parent, and the search in it finds the place.
LEMMA ParentOnPath ==
  ASSUME NEW lev, Tree(nodes, root, lev), NEW k \in Words, NEW i \in 2..Len(Path(k))
  PROVE  LET p == Path(k)[i]
             a == Path(k)[i - 1]
             pos == LowerBound(nodes[a], k)[1]
         IN /\ p \in Pages /\ a \in Pages /\ ~nodes[a].leaf /\ lev[a] > 0 /\ lev[p] = lev[a] - 1
            /\ pos \in 0..Count(nodes[a]) /\ Child(nodes[a], pos) = p
  <1> DEFINE path == Path(k)
             p == path[i]
             a == path[i - 1]
             pos == LowerBound(nodes[a], k)[1]
  <1>1. PathFrom(nodes, lev, path, root, k) /\ Len(path) \in Nat /\ \A j \in 1..Len(path) : path[j] \in Pages
    BY PathFacts
  <1> HIDE DEF path
  <1>2. i \in 1..Len(path) /\ i - 1 \in 1..Len(path) /\ i - 1 \in 1..(Len(path) - 1) /\ (i - 1) + 1 = i /\ i \in Nat
    BY <1>1 DEF path
  <1>3. p \in Pages /\ a \in Pages /\ lev[a] = Len(path) - (i - 1) /\ lev[p] = Len(path) - i
    BY <1>1, <1>2 DEF PathFrom
  <1>4. path[(i - 1) + 1] = LookupInner(nodes[path[i - 1]], k) BY <1>1, <1>2 DEF PathFrom
  <1>5. p = LookupInner(nodes[a], k) BY <1>2, <1>4
  <1> HIDE DEF p, a
  <1>6. lev[a] > 0 /\ lev[p] = lev[a] - 1 BY <1>1, <1>2, <1>3
  <1>7. ~nodes[a].leaf BY <1>3, <1>6, TreeFacts
  <1>8. pos \in 0..Count(nodes[a]) /\ p = Child(nodes[a], pos) BY <1>3, <1>5, <1>7, LookupIsChild
  <1>9. QED BY <1>3, <1>6, <1>7, <1>8 DEF p, a, path

LEMMA LeafLosesKey ==
  ASSUME NEW n, PageOK(n), NEW k \in Words, Holds(n, k)
  PROVE  LET m == RemoveSlot(n, LowerBound(n, k)[1])
         IN /\ PageOK(m) /\ SameFences(m, n) /\ Count(m) \in Nat
            /\ \A w : Holds(m, w) <=> Holds(n, w) /\ w # k
            /\ FreeSpace(n) >= 0 => FreeSpace(m) >= 0
  <1> DEFINE at == LowerBound(n, k)[1]
             m == RemoveSlot(n, at)
  <1>1. Loose(n) BY DEF PageOK
  <1>2. at \in SlotsOf(n) /\ FullKey(n, at) = k BY LowerBoundFinds
  <1> HIDE DEF at
  <1>3. PageOK(m) /\ Removed(m, n, at) /\ (FreeSpace(n) >= 0 => FreeSpace(m) >= 0) BY <1>1, <1>2, SlotTakenOut
  <1> HIDE DEF m
  <1>4. SameFences(m, n) BY <1>3 DEF Removed
  <1>5. \A w : Holds(m, w) <=> Holds(n, w) /\ w # k BY <1>1, <1>2, <1>3, HoldsRemoved
  <1>6. Count(m) \in Nat BY <1>3, PageFacts DEF PageOK, Loose
  <1>7. QED BY <1>3, <1>4, <1>5, <1>6 DEF m, at

\* What remove makes of the pages: the leaf loses the key, or it is merged with the next one.
Shrunk(p, left) == nodes' = [nodes EXCEPT ![p] = left]
Merges(p, left, a, pos, next) ==
  /\ pos + 1 < Count(nodes[a]) /\ next = Slot(nodes[a], pos + 1).pay
  /\ MergedBound(left, nodes[next]) <= PageSize
  /\ nodes' = [nodes EXCEPT ![p] = Merged(left, nodes[next]),
                            ![a] = RemoveSlot([@ EXCEPT !.slots[pos + 2].pay = p], pos)]

LEMMA RemoveCases ==
  ASSUME NEW k \in Keys, RemoveKey(k)
  PROVE  LET path == Path(k)
             p == Last(path)
             left == RemoveSlot(nodes[p], LowerBound(nodes[p], k)[1])
             a == path[Len(path) - 1]
             pos == LowerBound(nodes[a], k)[1]
         IN /\ k \in stored /\ stored' = stored \ {k} /\ root' = root /\ made' = made
            /\ Shrunk(p, left) \/ (Len(path) > 1 /\ Merges(p, left, a, pos, Slot(nodes[a], pos + 1).pay))
  BY DEF RemoveKey, Shrunk, Merges

LEMMA ShrunkKeepsTree ==
  ASSUME TreeInv, NEW k \in Keys, k \in stored, stored' = stored \ {k}, root' = root, made' = made,
         LET p == Last(Path(k)) IN Shrunk(p, RemoveSlot(nodes[p], LowerBound(nodes[p], k)[1]))
  PROVE  TreeInv' /\ (Fits => Fits')
  <1> DEFINE p == Last(Path(k))
             n == nodes[p]
             m == RemoveSlot(n, LowerBound(n, k)[1])
  <1>1. k \in Words BY KeyFacts
  <1>2. nodes' = [nodes EXCEPT ![p] = m] BY DEF Shrunk
  <1>3. made \in 1..MaxPages /\ stored \subseteq Keys BY DEF TreeInv
  <1>4. PICK lev : Tree(nodes, root, lev) /\ Dead(lev, made) /\ Contents(nodes, lev, stored)
    BY DEF TreeInv, TreeOf
  <1>5. p \in Pages /\ lev[p] = 0 /\ n.leaf /\ Within(n, k) BY <1>1, <1>4, PathFacts
  <1> HIDE DEF p
  <1>6. PageOK(n) BY <1>4, <1>5, TreeFacts
  <1>7. Holds(n, k) BY <1>1, <1>4, <1>5, LeafHolds
  <1> HIDE DEF n
  <1>8. /\ PageOK(m) /\ SameFences(m, n) /\ \A w : Holds(m, w) <=> Holds(n, w) /\ w # k
        /\ FreeSpace(n) >= 0 => FreeSpace(m) >= 0
    BY <1>1, <1>6, <1>7, LeafLosesKey
  <1> HIDE DEF m
  <1>9. nodes \in [Pages -> Page] BY <1>4 DEF Tree
  <1>10. nodes'[p] = m /\ nodes[p] = n /\ \A q \in Pages : q # p => nodes'[q] = nodes[q]
    BY <1>2, <1>5, <1>9 DEF n
  <1>11. Tree(nodes', root', lev)
    <2>1. Tree([nodes EXCEPT ![p] = m], root, lev) BY <1>4, <1>5, <1>8, <1>10, LeafReplaced
    <2>2. QED BY <1>2, <2>1
  <1>12. Contents(nodes', lev, stored')
    <2>1. SUFFICES ASSUME NEW w
                   PROVE  w \in stored' <=> \E q \in Pages : lev[q] = 0 /\ Holds(nodes'[q], w)
      BY DEF Contents
    <2>2. w \in stored <=> \E q \in Pages : lev[q] = 0 /\ Holds(nodes[q], w) BY <1>4 DEF Contents
    <2>3. Holds(nodes'[p], w) <=> Holds(nodes[p], w) /\ w # k BY <1>8, <1>10
    <2>4. ASSUME NEW q \in Pages, lev[q] = 0, Holds(nodes[q], k) PROVE q = p
      <3>1. PICK i \in SlotsOf(nodes[q]) : FullKey(nodes[q], i) = k BY <2>4 DEF Holds
      <3>2. Loose(nodes[q]) BY <1>4, TreeFacts
      <3>3. KeyFits(nodes[q], k) BY <3>1, <3>2, KeysAscend
      <3>4. k \in Names /\ Within(nodes[q], k) /\ Within(nodes[p], k) BY <1>5, <1>10, <3>3, KeyFacts DEF KeyFits
      <3>5. lev[q] = lev[p] /\ lev[q] >= 0 BY <1>5, <2>4
      <3>6. QED BY <1>4, <1>5, <3>4, <3>5 DEF Tree, Apart
    <2>5. CASE w = k
      <3>1. ~Holds(nodes'[p], k) BY <2>3, <2>5
      <3>2. \A q \in Pages : lev[q] = 0 => ~Holds(nodes'[q], k) BY <1>10, <2>4, <3>1
      <3>3. QED BY <2>5, <3>2
    <2>6. CASE w # k BY <1>5, <1>10, <2>2, <2>3, <2>6
    <2>7. QED BY <2>5, <2>6
  <1>13. TreeInv'
    <2>1. made' \in 1..MaxPages /\ stored' \subseteq Keys BY <1>3
    <2>2. Dead(lev, made') BY <1>4
    <2>3. \E l : TreeOf(nodes', root', l, made', stored') BY <1>11, <1>12, <2>2 DEF TreeOf
    <2>4. QED BY <2>1, <2>3 DEF TreeInv
  <1>14. Fits => Fits' BY <1>5, <1>8, <1>10 DEF Fits
  <1>15. QED BY <1>13, <1>14

\* The leaves and their parent after a merge.
LEMMA MergeHappens ==
  ASSUME NEW lev, Tree(nodes, root, lev), NEW k \in Words, Len(Path(k)) > 1,
         NEW p, p = Last(Path(k)), NEW a, a = Path(k)[Len(Path(k)) - 1],
         NEW pos, pos = LowerBound(nodes[a], k)[1], NEW next, NEW left,
         PageOK(left), SameFences(left, nodes[p]), Merges(p, left, a, pos, next)
  PROVE  /\ MergeStep(nodes, lev, nodes', [lev EXCEPT ![next] = -1], p, next, a, pos)
         /\ Joined(nodes'[p], left, nodes[next])
         /\ Fits => FreeSpace(nodes'[p]) >= 0 /\ FreeSpace(nodes'[a]) >= 0
  <1> DEFINE path == Path(k)
             n == nodes[a]
             lev2 == [lev EXCEPT ![next] = -1]
             m == Merged(left, nodes[next])
             u == RemoveSlot([n EXCEPT !.slots[pos + 2].pay = p], pos)
  <1>1. Len(path) \in Nat /\ p = path[Len(path)] /\ p \in Pages /\ lev[p] = 0 /\ nodes[p].leaf BY PathFacts
  <1>2. Len(path) \in 2..Len(path) BY <1>1
  <1>3. /\ a \in Pages /\ ~n.leaf /\ lev[a] > 0 /\ lev[p] = lev[a] - 1
        /\ pos \in 0..Count(n) /\ Child(n, pos) = p
    <2> DEFINE i == Len(path)
    <2>1. i \in 2..Len(Path(k)) /\ p = Path(k)[i] /\ a = Path(k)[i - 1] BY <1>1, <1>2
    <2> HIDE DEF i
    <2>2. LET pp == Path(k)[i]
              aa == Path(k)[i - 1]
              ps == LowerBound(nodes[aa], k)[1]
          IN /\ pp \in Pages /\ aa \in Pages /\ ~nodes[aa].leaf /\ lev[aa] > 0 /\ lev[pp] = lev[aa] - 1
             /\ ps \in 0..Count(nodes[aa]) /\ Child(nodes[aa], ps) = pp
      BY <2>1, ParentOnPath
    <2>3. QED BY <2>1, <2>2
  <1> HIDE DEF path
  <1>4. pos + 1 < Count(n) /\ next = Slot(n, pos + 1).pay /\ MergedBound(left, nodes[next]) <= PageSize
        /\ nodes' = [nodes EXCEPT ![p] = m, ![a] = u]
    BY DEF Merges
  <1>5. PageOK(n) /\ Loose(n) /\ Count(n) \in Nat /\ pos \in Nat /\ lev[a] \in Int BY <1>3, TreeFacts
  <1>6. Child(n, pos + 1) = next
    <2> DEFINE c == Count(n)
    <2>3. c \in Nat /\ pos \in Nat /\ pos + 1 < c BY <1>4, <1>5
    <2> HIDE DEF c
    <2>4. pos + 1 # c BY <2>3
    <2>1. pos + 1 # Count(n) BY <2>4 DEF c
    <2>2. QED BY <1>4, <2>1 DEF Child
  <1>7. p \in Int /\ NoPage \in Int BY <1>1, PageNumbers
  <1>8. OneChild(u, n, pos, p) /\ (FreeSpace(n) >= 0 => FreeSpace(u) >= 0)
    BY <1>4, <1>5, <1>7, ChildrenJoined
  <1> HIDE DEF u
  <1>9. pos \in 0..Count(n) /\ pos + 1 \in 0..Count(n) /\ pos < Count(n)
    <2> DEFINE c == Count(n)
    <2>1. c \in Nat /\ pos \in Nat /\ pos + 1 < c BY <1>4, <1>5
    <2> HIDE DEF c
    <2>2. pos \in 0..c /\ pos + 1 \in 0..c /\ pos < c BY <2>1
    <2>3. QED BY <2>2 DEF c
  <1>10. IsChild(nodes, lev, a, pos) /\ IsChild(nodes, lev, a, pos + 1) BY <1>3, <1>9 DEF Tree, Linked
  <1>11. next \in Pages /\ lev[next] = lev[a] - 1 /\ nodes[next].lower = Low(n, pos + 1)
         /\ nodes[p].upper = High(n, pos)
    BY <1>3, <1>6, <1>10 DEF IsChild
  <1>12. nodes[p].upper # <<>> /\ nodes[next].lower = nodes[p].upper
    <2>1. High(n, pos) = FullKey(n, pos) /\ High(n, pos) # <<>> BY <1>5, <1>9, RangeKeys
    <2>2. pos + 1 # 0 /\ (pos + 1) - 1 = pos BY <1>5
    <2>3. Low(n, pos + 1) = FullKey(n, pos) BY <2>2 DEF Low
    <2>4. QED BY <1>11, <2>1, <2>3
  <1>13. a # p BY <1>1, <1>3
  <1>14. lev[next] = 0 BY <1>1, <1>3, <1>11
  <1>15. Loose(nodes[next]) /\ nodes[next].leaf BY <1>11, <1>14, TreeFacts
  <1>16. Loose(left) /\ left.leaf /\ left.lower = nodes[p].lower /\ left.upper = nodes[p].upper
    <2>1. left.leaf = nodes[p].leaf /\ left.lower = nodes[p].lower /\ left.upper = nodes[p].upper
      BY DEF SameFences
    <2>2. QED BY <1>1, <2>1 DEF PageOK
  <1>17. PageOK(m) /\ Joined(m, left, nodes[next]) /\ FreeSpace(m) >= 0
    BY <1>4, <1>12, <1>15, <1>16, MergedIsJoined
  <1> HIDE DEF m
  <1>18. m \in Page /\ u \in Page BY <1>8, <1>17 DEF PageOK, Loose, OneChild
  <1>19. nodes \in [Pages -> Page] BY DEF Tree
  <1>20. nodes' \in [Pages -> Page] /\ nodes'[p] = m /\ nodes'[a] = u
         /\ \A q \in Pages : q \notin {p, a} => nodes'[q] = nodes[q]
    BY <1>1, <1>3, <1>4, <1>13, <1>18, <1>19
  <1>21. m.leaf /\ m.lower = nodes[p].lower /\ m.upper = nodes[next].upper BY <1>16, <1>17 DEF Joined
  <1>22. MergeStep(nodes, lev, nodes', lev2, p, next, a, pos)
    BY <1>1, <1>3, <1>4, <1>5, <1>6, <1>8, <1>11, <1>17, <1>20, <1>21 DEF MergeStep
  <1>23. Fits => FreeSpace(nodes'[p]) >= 0 /\ FreeSpace(nodes'[a]) >= 0
    BY <1>3, <1>8, <1>17, <1>20 DEF Fits
  <1>24. QED BY <1>17, <1>20, <1>22, <1>23

LEMMA MergedKeepsTree ==
  ASSUME TreeInv, NEW k \in Keys, k \in stored, stored' = stored \ {k}, root' = root, made' = made,
         Len(Path(k)) > 1,
         LET p == Last(Path(k))
             left == RemoveSlot(nodes[p], LowerBound(nodes[p], k)[1])
             a == Path(k)[Len(Path(k)) - 1]
             pos == LowerBound(nodes[a], k)[1]
         IN Merges(p, left, a, pos, Slot(nodes[a], pos + 1).pay)
  PROVE  TreeInv' /\ (Fits => Fits')
  <1> DEFINE p == Last(Path(k))
             n == nodes[p]
             left == RemoveSlot(n, LowerBound(n, k)[1])
             a == Path(k)[Len(Path(k)) - 1]
             pos == LowerBound(nodes[a], k)[1]
             next == Slot(nodes[a], pos + 1).pay
  <1>1. k \in Words BY KeyFacts
  <1>2. Merges(p, left, a, pos, next) OBVIOUS
  <1>3. made \in 1..MaxPages /\ stored \subseteq Keys BY DEF TreeInv
  <1>4. PICK lev : Tree(nodes, root, lev) /\ Dead(lev, made) /\ Contents(nodes, lev, stored)
    BY DEF TreeInv, TreeOf
  <1> DEFINE lev2 == [lev EXCEPT ![next] = -1]
  <1>5. p \in Pages /\ lev[p] = 0 /\ n.leaf /\ Within(n, k) BY <1>1, <1>4, PathFacts
  <1>6. PageOK(n) BY <1>4, <1>5, TreeFacts
  <1>7. Holds(n, k) BY <1>1, <1>4, <1>5, LeafHolds
  <1>8. /\ PageOK(left) /\ SameFences(left, n) /\ Count(left) \in Nat
        /\ \A w : Holds(left, w) <=> Holds(n, w) /\ w # k
    <2> HIDE DEF n
    <2>1. QED BY <1>1, <1>6, <1>7, LeafLosesKey
  <1>9. p = Last(Path(k)) /\ a = Path(k)[Len(Path(k)) - 1] /\ pos = LowerBound(nodes[a], k)[1]
        /\ SameFences(left, nodes[p]) /\ n = nodes[p]
    BY <1>8
  <1> HIDE DEF p, a, pos, next, left, n
  <1>10. /\ MergeStep(nodes, lev, nodes', lev2, p, next, a, pos)
         /\ Joined(nodes'[p], left, nodes[next])
         /\ Fits => FreeSpace(nodes'[p]) >= 0 /\ FreeSpace(nodes'[a]) >= 0
    BY <1>1, <1>2, <1>4, <1>8, <1>9, MergeHappens
  <1> HIDE DEF lev2
  <1>11. /\ p \in Pages /\ next \in Pages /\ a \in Pages /\ lev[next] = 0 /\ p # next /\ lev[a] = 1
         /\ lev2[next] = -1 /\ \A q \in Pages : q # next => lev2[q] = lev[q]
    BY <1>4, <1>10, MergeFacts
  <1>12. \A q \in Pages : q \notin {p, a} => nodes'[q] = nodes[q] BY <1>10 DEF MergeStep
  <1>13. Tree(nodes', root', lev2)
    <2>1. Tree(nodes', root, lev2) BY <1>4, <1>10, TreeMerged
    <2>2. QED BY <2>1
  <1>14. Dead(lev2, made')
    <2>1. \A q \in Pages : q > made => lev[q] < 0 BY <1>4 DEF Dead
    <2>2. \A q \in Pages : q > made => lev2[q] < 0 BY <1>11, <2>1
    <2>3. QED BY <2>2 DEF Dead
  <1>15. \A w : Holds(nodes'[p], w) <=> (Holds(nodes[p], w) /\ w # k) \/ Holds(nodes[next], w)
    <2>1. Count(nodes[next]) \in Nat BY <1>4, <1>11, TreeFacts
    <2>2. \A w : Holds(nodes'[p], w) <=> Holds(left, w) \/ Holds(nodes[next], w)
      BY <1>8, <1>10, <2>1, HoldsJoined
    <2>3. QED BY <1>8, <1>9, <2>2
  <1>16. ASSUME NEW q \in Pages, lev[q] = 0, Holds(nodes[q], k) PROVE q = p
    <2>1. PICK i \in SlotsOf(nodes[q]) : FullKey(nodes[q], i) = k BY <1>16 DEF Holds
    <2>2. Loose(nodes[q]) BY <1>4, TreeFacts
    <2>3. KeyFits(nodes[q], k) BY <2>1, <2>2, KeysAscend
    <2>4. k \in Names /\ Within(nodes[q], k) /\ Within(nodes[p], k) BY <1>5, <1>9, <2>3, KeyFacts DEF KeyFits
    <2>5. lev[q] = lev[p] /\ lev[q] >= 0 BY <1>5, <1>16
    <2>6. QED BY <1>4, <1>5, <2>4, <2>5 DEF Tree, Apart
  <1>17. Contents(nodes', lev2, stored')
    <2>1. SUFFICES ASSUME NEW w
                   PROVE  w \in stored' <=> \E q \in Pages : lev2[q] = 0 /\ Holds(nodes'[q], w)
      BY DEF Contents
    <2>2. w \in stored <=> \E q \in Pages : lev[q] = 0 /\ Holds(nodes[q], w) BY <1>4 DEF Contents
    <2>3. \A q \in Pages : lev2[q] = 0 <=> lev[q] = 0 /\ q # next BY <1>11
    <2>4. \A q \in Pages : lev[q] = 0 => q # a BY <1>11
    <2>5. lev2[p] = 0 BY <1>5, <1>11
    <2>6. ASSUME w \in stored' PROVE \E q \in Pages : lev2[q] = 0 /\ Holds(nodes'[q], w)
      <3>1. w \in stored /\ w # k BY <2>6
      <3>2. PICK q \in Pages : lev[q] = 0 /\ Holds(nodes[q], w) BY <2>2, <3>1
      <3>3. CASE q \in {p, next}
        <4>1. Holds(nodes'[p], w) BY <1>15, <3>1, <3>2, <3>3
        <4>2. QED BY <1>11, <2>5, <4>1
      <3>4. CASE q \notin {p, next}
        <4>1. nodes'[q] = nodes[q] /\ lev2[q] = 0 BY <1>12, <2>3, <2>4, <3>2, <3>4
        <4>2. QED BY <3>2, <4>1
      <3>5. QED BY <3>3, <3>4
    <2>7. ASSUME NEW q \in Pages, lev2[q] = 0, Holds(nodes'[q], w) PROVE w \in stored'
      <3>1. lev[q] = 0 /\ q # next /\ q # a BY <2>3, <2>4, <2>7
      <3>2. CASE q = p
        <4>1. CASE Holds(nodes[p], w) /\ w # k BY <1>5, <1>11, <2>2, <4>1
        <4>2. CASE Holds(nodes[next], w)
          <5>1. w # k BY <1>11, <1>16, <4>2
          <5>2. QED BY <1>11, <2>2, <4>2, <5>1
        <4>3. QED BY <1>15, <2>7, <3>2, <4>1, <4>2
      <3>3. CASE q # p
        <4>1. nodes'[q] = nodes[q] BY <1>12, <3>1, <3>3
        <4>2. w # k /\ Holds(nodes[q], w) BY <1>16, <2>7, <3>1, <3>3, <4>1
        <4>3. QED BY <2>2, <3>1, <4>2
      <3>4. QED BY <3>2, <3>3
    <2>8. QED BY <2>6, <2>7
  <1>18. TreeInv'
    <2>1. made' \in 1..MaxPages /\ stored' \subseteq Keys BY <1>3
    <2>2. \E l : TreeOf(nodes', root', l, made', stored') BY <1>13, <1>14, <1>17 DEF TreeOf
    <2>3. QED BY <2>1, <2>2 DEF TreeInv
  <1>19. Fits => Fits'
    <2>1. SUFFICES ASSUME Fits, NEW q \in Pages PROVE FreeSpace(nodes'[q]) >= 0 BY DEF Fits
    <2>2. CASE q \in {p, a} BY <1>10, <2>1, <2>2
    <2>3. CASE q \notin {p, a} BY <1>12, <2>1, <2>3 DEF Fits
    <2>4. QED BY <2>2, <2>3
  <1>20. QED BY <1>18, <1>19

LEMMA RemoveKeepsTree ==
  ASSUME TreeInv, NEW k \in Keys, RemoveKey(k)
  PROVE  TreeInv' /\ (Fits => Fits')
  <1> DEFINE p == Last(Path(k))
             left == RemoveSlot(nodes[p], LowerBound(nodes[p], k)[1])
             a == Path(k)[Len(Path(k)) - 1]
             pos == LowerBound(nodes[a], k)[1]
             next == Slot(nodes[a], pos + 1).pay
  <1>1. /\ k \in stored /\ stored' = stored \ {k} /\ root' = root /\ made' = made
        /\ Shrunk(p, left) \/ (Len(Path(k)) > 1 /\ Merges(p, left, a, pos, next))
    BY RemoveCases
  <1>2. CASE Shrunk(p, left) BY <1>1, <1>2, ShrunkKeepsTree
  <1>3. CASE Len(Path(k)) > 1 /\ Merges(p, left, a, pos, next) BY <1>1, <1>3, MergedKeepsTree
  <1>4. QED BY <1>1, <1>2, <1>3

-------------------------------------------------------------------------------
(* Split.                                                                        *)

LEMMA SeparatorFitsParent ==
  ASSUME NEW n, Loose(n), ~n.leaf, NEW pos \in 0..Count(n), NEW sep \in Words, sep # <<>>, Short(sep),
         InRange(n, pos, sep), sep # High(n, pos)
  PROVE  KeyFits(n, sep)
  <1>1. Within(n, sep) BY RangeInside
  <1>2. Count(n) \in Nat /\ pos \in Nat /\ n.upper \in Words BY PageFacts DEF Loose
  <1>3. sep # n.upper
    <2>1. CASE pos = Count(n) BY <2>1, RangeKeys
    <2>2. CASE pos # Count(n)
      <3>1. pos < Count(n) BY <1>2, <2>2
      <3>2. pos \in SlotsOf(n) /\ High(n, pos) = FullKey(n, pos) /\ FullKey(n, pos) # <<>> BY <3>1, RangeKeys
      <3>3. ~Less(FullKey(n, pos), sep) BY <3>2 DEF InRange
      <3>4. KeyFits(n, FullKey(n, pos)) /\ FullKey(n, pos) \in Words BY <3>2, KeysAscend
      <3>5. SUFFICES ASSUME sep = n.upper PROVE FALSE OBVIOUS
      <3>6. ~Less(sep, FullKey(n, pos)) BY <3>4, <3>5 DEF KeyFits, Within
      <3>7. QED BY <3>2, <3>3, <3>4, <3>6, LessTotal
    <2>3. QED BY <2>1, <2>2
  <1>4. QED BY <1>1, <1>3 DEF KeyFits

\* The halves of a page have the space they use if the separator is not too long a copy.
LEMMA HalvesFit ==
  ASSUME NEW n, Loose(n), FreeSpace(n) >= 0, ShortCopies, NEW slot \in SlotsOf(n),
         n.leaf => slot + 1 \in SlotsOf(n), NEW new \in Int
  PROVE  FreeSpace(LeftHalf(n, slot, new)) >= 0 /\ FreeSpace(RightHalf(n, slot)) >= 0
  <1> DEFINE sep == Separator(n, slot)
             l == LeftHalf(n, slot, new)
             r == RightHalf(n, slot)
  <1>1. Divides(n, slot, sep) BY SeparatorDivides
  <1>2. n.leaf => Len(sep) <= Len(FullKey(n, slot + 1)) + ValueLen + SlotSize
    <2> SUFFICES ASSUME n.leaf PROVE Len(sep) <= Len(FullKey(n, slot + 1)) + ValueLen + SlotSize OBVIOUS
    <2> DEFINE j == FullKey(n, slot)
               i == FullKey(n, slot + 1)
    <2>1. slot + 1 \in SlotsOf(n) OBVIOUS
    <2>2. slot < slot + 1 BY DEF SlotsOf
    <2>3. Less(j, i) /\ j \in Keys /\ i \in Keys BY <2>1, <2>2, KeysAscend DEF KeyFits
    <2>4. ShortCopy(j, i) BY <2>3 DEF ShortCopies
    <2>5. QED BY <2>1, <2>4, SeparatorDivides
  <1>3. /\ PageOK(l) /\ Part(l, n, n.lower, sep, 0, Kept(n, slot))
        /\ PageOK(r) /\ Part(r, n, sep, n.upper, slot + 1, Count(n) - 1)
    BY <1>1, LeftIsPart, RightIsPart
  <1> HIDE DEF l, r, sep
  <1>4. l \in Page /\ r \in Page BY <1>3 DEF PageOK, Loose
  <1>5. FreeSpace(l) >= 0 BY <1>1, <1>2, <1>3, <1>4, LeftFits
  <1>6. FreeSpace(r) >= 0 BY <1>1, <1>3, <1>4, RightFits
  <1>7. QED BY <1>5, <1>6 DEF l, r

\* A split of page p below page a.
SplitPages(nds2, nds, p, new, a, slot, sep) ==
  nds2 = [nds EXCEPT ![p] = LeftHalf(nds[p], slot, new), ![new] = RightHalf(nds[p], slot),
                     ![a] = ParentOfHalves(nds[a], sep, p, new)]
SplitShape(nds, lev, p, new, a, pos, slot, sep) ==
  /\ a \in Pages /\ lev[a] > 0 /\ pos \in 0..Count(nds[a]) /\ Child(nds[a], pos) = p
  /\ new \in Pages /\ lev[new] < 0
  /\ slot \in SlotsOf(nds[p]) /\ (nds[p].leaf => slot + 1 \in SlotsOf(nds[p]))
  /\ sep = Separator(nds[p], slot)

LEMMA SplitHappens ==
  ASSUME NEW nds, NEW rt, NEW lev, Tree(nds, rt, lev), NEW p, NEW new, NEW a, NEW pos, NEW slot, NEW sep,
         SplitShape(nds, lev, p, new, a, pos, slot, sep),
         NEW nds2, SplitPages(nds2, nds, p, new, a, slot, sep),
         NEW lev2, lev2 = [lev EXCEPT ![new] = lev[p]]
  PROVE  /\ SplitStep(nds, lev, nds2, lev2, p, new, a, pos, slot, sep)
         /\ HasSpaceFor(nds[a], Len(sep)) => FreeSpace(nds2[a]) >= 0
         /\ nds[p].leaf => \A w : Holds(nds[p], w) <=> Holds(nds2[p], w) \/ Holds(nds2[new], w)
         /\ ShortCopies /\ FreeSpace(nds[p]) >= 0 => FreeSpace(nds2[p]) >= 0 /\ FreeSpace(nds2[new]) >= 0
  <1> DEFINE n == nds[p]
             l == LeftHalf(n, slot, new)
             r == RightHalf(n, slot)
             m == ParentOfHalves(nds[a], sep, p, new)
  <1>0. /\ a \in Pages /\ lev[a] > 0 /\ pos \in 0..Count(nds[a]) /\ Child(nds[a], pos) = p
        /\ new \in Pages /\ lev[new] < 0
        /\ slot \in SlotsOf(n) /\ (n.leaf => slot + 1 \in SlotsOf(n)) /\ sep = Separator(n, slot)
    BY DEF SplitShape
  <1>1. IsChild(nds, lev, a, pos) BY <1>0 DEF Tree, Linked
  <1>2. /\ p \in Pages /\ lev[p] = lev[a] - 1 /\ nds[p].lower = Low(nds[a], pos)
        /\ nds[p].upper = High(nds[a], pos)
    BY <1>0, <1>1 DEF IsChild
  <1>3. PageOK(nds[a]) /\ Loose(nds[a]) /\ ~nds[a].leaf /\ Loose(n) BY <1>0, <1>2, TreeFacts
  <1>4. lev[a] \in Int /\ lev[p] \in Int /\ lev[new] \in Int BY <1>0, <1>2, TreeFacts
  <1>5. new # p /\ new # a /\ p # a BY <1>0, <1>2, <1>4
  <1>6. new \in Int /\ p \in Int BY <1>0, <1>2, PageNumbers
  <1>7. Divides(n, slot, sep) BY <1>0, <1>3, SeparatorDivides
  <1>8. sep \in Words /\ sep # <<>> /\ Short(sep) /\ Within(n, sep) /\ sep # n.upper BY <1>0, <1>7 DEF Divides
  <1>9. InRange(nds[a], pos, sep) /\ sep # High(nds[a], pos) BY <1>0, <1>2, <1>8, ChildRange
  <1>10. KeyFits(nds[a], sep) BY <1>0, <1>3, <1>8, <1>9, SeparatorFitsParent
  <1>11. Parts(m, nds[a], pos, sep, p, new) /\ (HasSpaceFor(nds[a], Len(sep)) => FreeSpace(m) >= 0)
    BY <1>0, <1>3, <1>6, <1>8, <1>9, <1>10, ParentParted
  <1>12. Halves(l, r, n, slot, sep) BY <1>0, <1>3, <1>6, <1>7, HalvesMade
  <1>13. n.leaf => \A w : Holds(n, w) <=> Holds(l, w) \/ Holds(r, w)
    <2> SUFFICES ASSUME n.leaf, NEW w PROVE Holds(n, w) <=> Holds(l, w) \/ Holds(r, w) OBVIOUS
    <2>1. Part(l, n, n.lower, sep, 0, Kept(n, slot)) /\ Part(r, n, sep, n.upper, slot + 1, Count(n) - 1)
      BY <1>0, <1>3, <1>6, <1>7, LeftIsPart, RightIsPart
    <2> HIDE DEF l, r, n
    <2>2. QED BY <1>0, <1>3, <2>1, HoldsHalves DEF n
  <1>14. ShortCopies /\ FreeSpace(n) >= 0 => FreeSpace(l) >= 0 /\ FreeSpace(r) >= 0
    BY <1>0, <1>3, <1>6, HalvesFit
  <1>15. n = nds[p] /\ nds2 = [nds EXCEPT ![p] = l, ![new] = r, ![a] = m] BY DEF SplitPages
  <1> HIDE DEF l, r, m, n
  <1>16. nds \in [Pages -> Page] BY DEF Tree
  <1>17. l \in Page /\ r \in Page /\ m \in Page BY <1>11, <1>12 DEF Halves, Parts, PageOK, Loose
  <1>18. /\ nds2 \in [Pages -> Page] /\ nds2[p] = l /\ nds2[new] = r /\ nds2[a] = m
         /\ \A q \in Pages : q \notin {p, new, a} => nds2[q] = nds[q]
    BY <1>0, <1>2, <1>5, <1>15, <1>16, <1>17
  <1>19. SplitStep(nds, lev, nds2, lev2, p, new, a, pos, slot, sep)
    BY <1>0, <1>2, <1>7, <1>11, <1>12, <1>15, <1>18 DEF SplitStep
  <1>20. QED BY <1>11, <1>13, <1>14, <1>15, <1>18, <1>19

LEMMA ContentsSplit ==
  ASSUME NEW nds, NEW rt, NEW lev, Tree(nds, rt, lev), NEW nds2, NEW lev2, NEW p, NEW new, NEW a,
         NEW pos, NEW slot, NEW sep, SplitStep(nds, lev, nds2, lev2, p, new, a, pos, slot, sep),
         nds[p].leaf => \A w : Holds(nds[p], w) <=> Holds(nds2[p], w) \/ Holds(nds2[new], w),
         NEW st, Contents(nds, lev, st)
  PROVE  Contents(nds2, lev2, st)
  <1>1. /\ p \in Pages /\ new \in Pages /\ a \in Pages
        /\ lev[p] = lev[a] - 1 /\ lev[p] >= 0 /\ new # p /\ new # a /\ p # a /\ lev2[new] = lev[p]
        /\ \A q \in Pages : lev[q] \in Int /\ (q # new => lev2[q] = lev[q])
    BY SplitLevels
  <1>2. lev[a] > 0 /\ lev[new] < 0 /\ \A q \in Pages : q \notin {p, new, a} => nds2[q] = nds[q] BY DEF SplitStep
  <1>3. SUFFICES ASSUME NEW w
                 PROVE  (\E q \in Pages : lev[q] = 0 /\ Holds(nds[q], w)) <=>
                        (\E q \in Pages : lev2[q] = 0 /\ Holds(nds2[q], w))
    BY DEF Contents
  <1>4. ASSUME lev[p] = 0
        PROVE  Holds(nds[p], w) <=> Holds(nds2[p], w) \/ Holds(nds2[new], w)
    <2>1. nds[p].leaf BY <1>1, <1>4, TreeFacts
    <2>2. QED BY <2>1
  <1>5. \A q \in Pages : (lev[q] = 0 /\ q # p => q \notin {p, new, a}) BY <1>1, <1>2
  <1>6. \A q \in Pages : (lev2[q] = 0 /\ q # p /\ q # new => q \notin {p, new, a}) BY <1>1, <1>2
  <1>7. ASSUME NEW q \in Pages, lev[q] = 0, Holds(nds[q], w)
        PROVE  \E x \in Pages : lev2[x] = 0 /\ Holds(nds2[x], w)
    <2>1. CASE q = p
      <3>1. lev2[p] = 0 /\ lev2[new] = 0 BY <1>1, <1>7, <2>1
      <3>2. QED BY <1>1, <1>4, <1>7, <2>1, <3>1
    <2>2. CASE q # p
      <3>1. nds2[q] = nds[q] /\ lev2[q] = lev[q] BY <1>1, <1>2, <1>5, <1>7, <2>2
      <3>2. QED BY <1>7, <3>1
    <2>3. QED BY <2>1, <2>2
  <1>8. ASSUME NEW q \in Pages, lev2[q] = 0, Holds(nds2[q], w)
        PROVE  \E x \in Pages : lev[x] = 0 /\ Holds(nds[x], w)
    <2>1. CASE q \in {p, new}
      <3>1. lev[p] = 0 BY <1>1, <1>8, <2>1
      <3>2. QED BY <1>1, <1>4, <1>8, <2>1, <3>1
    <2>2. CASE q \notin {p, new}
      <3>1. nds2[q] = nds[q] /\ lev2[q] = lev[q] BY <1>1, <1>2, <1>6, <1>8, <2>2
      <3>2. QED BY <1>8, <3>1
    <2>3. QED BY <2>1, <2>2
  <1>9. QED BY <1>7, <1>8

\* The way up to the page that is split.
SepAt(path, ordered, i) == Separator(nodes[path[i]], SplitSlot(nodes[path[i]], ordered))
Stops(path, ordered, i) == i = 1 \/ HasSpaceFor(nodes[path[i - 1]], Len(SepAt(path, ordered, i)))
Climbs(f, path, ordered) == f = [i \in 1..Len(path) |-> IF Stops(path, ordered, i) THEN i ELSE f[i - 1]]
SplitPlace(path, ordered) == (CHOOSE f : Climbs(f, path, ordered))[Len(path)]

SplitAs(path, ordered, at) ==
  LET p == path[at]
      new == made + 1
      slot == SplitSlot(nodes[p], ordered)
      above == IF at = 1 THEN made + 2 ELSE path[at - 1]
      parent == IF at = 1 THEN [Fresh(FALSE, <<>>, <<>>) EXCEPT !.link = p] ELSE nodes[above]
  IN /\ made' = IF at = 1 THEN made + 2 ELSE made + 1
     /\ root' = IF at = 1 THEN above ELSE root
     /\ nodes' = [nodes EXCEPT ![p] = LeftHalf(@, slot, new),
                               ![new] = RightHalf(nodes[p], slot),
                               ![above] = ParentOfHalves(parent, SepAt(path, ordered, at), p, new)]

LEMMA SplitIsAs ==
  ASSUME NEW path, NEW ordered, SplitOne(path, ordered)
  PROVE  SplitAs(path, ordered, SplitPlace(path, ordered))
  BY DEF SplitOne, SplitAs, SplitPlace, Climbs, Stops, SepAt

LEMMA ClimbExists ==
  ASSUME NEW path, Len(path) \in Nat, Len(path) >= 1, NEW ordered
  PROVE  \E f : Climbs(f, path, ordered)
  <1> DEFINE N == Len(path)
             S(i) == Stops(path, ordered, i)
             V == 1..N
             step == [i \in 1..N |-> [v \in V |-> IF S(i) THEN i ELSE v]]
  <1>1. N \in Nat /\ 1 \in V OBVIOUS
  <1>2. step \in StepsOf(N, V) BY DEF StepsOf
  <1>3. \A i \in 1..N, v \in V : step[i][v] = IF S(i) THEN i ELSE v OBVIOUS
  <1>4. S(1) BY DEF Stops
  <1> HIDE DEF step, S, N
  <1>5. PICK g : Recursive(g, N, V, 1, step) BY <1>1, <1>2, Recursion
  <1>6. g \in [0..N -> V] /\ g[0] = 1 /\ \A i \in 1..N : g[i] = step[i][g[i - 1]] BY <1>5 DEF Recursive
  <1> DEFINE f == [i \in 1..N |-> g[i]]
  <1>7. ASSUME NEW i \in 1..N PROVE f[i] = IF S(i) THEN i ELSE f[i - 1]
    <2>1. i - 1 \in 0..N /\ g[i - 1] \in V BY <1>1, <1>6
    <2>2. g[i] = IF S(i) THEN i ELSE g[i - 1] BY <1>3, <1>6, <2>1
    <2>3. CASE S(i) BY <2>2, <2>3
    <2>4. CASE ~S(i)
      <3>1. i - 1 \in 1..N BY <1>1, <1>4, <2>4
      <3>2. QED BY <2>2, <2>4, <3>1
    <2>5. QED BY <2>3, <2>4
  <1>8. f = [i \in 1..N |-> IF S(i) THEN i ELSE f[i - 1]]
    <2>1. f = [i \in 1..N |-> f[i]] OBVIOUS
    <2> HIDE DEF f
    <2>2. QED BY <1>7, <2>1
  <1>9. QED BY <1>8 DEF Climbs, S, N

\* What is split can be split, and its parent has space for the separator.
LEMMA SplitPlaceIsRight ==
  ASSUME NEW lev, Tree(nodes, root, lev), NEW k \in Keys, NEW ordered \in BOOLEAN,
         ~HasSpaceFor(LeafOf(k), Len(k))
  PROVE  LET at == SplitPlace(Path(k), ordered)
         IN /\ at \in 1..Len(Path(k)) /\ Stops(Path(k), ordered, at)
            /\ Splittable(nodes[Path(k)[at]])
  <1> DEFINE path == Path(k)
             N == Len(path)
             f == CHOOSE f : Climbs(f, path, ordered)
             Right(i, at) == at \in 1..i /\ Stops(path, ordered, at) /\ Splittable(nodes[path[at]])
             T == {i \in 0..N : i > 0 /\ Splittable(nodes[path[i]]) => Right(i, f[i])}
  <1>1. k \in Words /\ Short(k) BY KeyFacts
  <1>2. N \in Nat /\ N >= 1 /\ (\A j \in 1..N : path[j] \in Pages) /\ Last(path) = path[N]
    BY <1>1, PathFacts
  <1>3. Climbs(f, path, ordered) BY <1>2, ClimbExists
  <1> HIDE DEF f, path
  <1>4. \A i \in 1..N : f[i] = IF Stops(path, ordered, i) THEN i ELSE f[i - 1] BY <1>3 DEF Climbs
  <1>5. 0 \in T BY <1>2
  <1>6. ASSUME NEW i \in 0..(N - 1), i \in T PROVE i + 1 \in T
    <2> DEFINE j == i + 1
    <2>1. j \in 1..N /\ j \in 0..N /\ j - 1 = i /\ i \in Nat BY <1>2
    <2> HIDE DEF j
    <2>2. SUFFICES ASSUME Splittable(nodes[path[j]]) PROVE Right(j, f[j]) BY <2>1 DEF j
    <2>3. CASE Stops(path, ordered, j) BY <1>4, <2>1, <2>2, <2>3
    <2>4. CASE ~Stops(path, ordered, j)
      <3>1. j # 1 /\ ~HasSpaceFor(nodes[path[j - 1]], Len(SepAt(path, ordered, j))) BY <2>4 DEF Stops
      <3>2. f[j] = f[i] /\ i \in 1..N /\ i > 0 BY <1>2, <1>4, <2>1, <2>4, <3>1
      <3> DEFINE n == nodes[path[j]]
                 slot == SplitSlot(n, ordered)
                 sep == Separator(n, slot)
      <3>3. Loose(n) /\ n \in Page BY <1>2, <2>1, TreeFacts
      <3>4. slot \in SlotsOf(n) /\ (n.leaf => slot + 1 \in SlotsOf(n)) BY <2>2, <3>3, SplitSlotIsInside
      <3>5. Divides(n, slot, sep) BY <3>3, <3>4, SeparatorDivides
      <3>6. sep \in Words /\ Short(sep) BY <3>5 DEF Divides
      <3>7. sep = SepAt(path, ordered, j) BY DEF SepAt
      <3> HIDE DEF sep, slot, n
      <3>8. Loose(nodes[path[i]]) BY <1>2, <3>2, TreeFacts
      <3>9. ~HasSpaceFor(nodes[path[i]], Len(sep)) BY <2>1, <3>1, <3>7
      <3>10. Splittable(nodes[path[i]]) BY <3>6, <3>8, <3>9, FullIsSplittable
      <3>11. Right(i, f[i]) BY <1>6, <3>2, <3>10
      <3>12. f[i] \in 1..j BY <2>1, <3>11
      <3>13. QED BY <3>2, <3>11, <3>12
    <2>5. QED BY <2>3, <2>4
  <1>7. N \in T
    <2> HIDE DEF T
    <2>1. 0..N \subseteq T BY <1>2, <1>5, <1>6, BoundedInduction
    <2>2. QED BY <1>2, <2>1
  <1>8. Splittable(nodes[path[N]])
    <2>1. LeafOf(k) = nodes[path[N]] BY <1>2 DEF LeafOf, path
    <2>2. N \in 1..N BY <1>2
    <2>3. Loose(nodes[path[N]]) BY <1>2, <2>2, TreeFacts
    <2>4. QED BY <1>1, <2>1, <2>3, FullIsSplittable
  <1>9. Right(N, f[N]) BY <1>2, <1>7, <1>8
  <1>10. QED BY <1>9 DEF f, path, SplitPlace

\* A split below the root.
LEMMA InnerSplitKeepsTree ==
  ASSUME TreeInv, NEW k \in Keys, NEW ordered \in BOOLEAN, NEW at \in 2..Len(Path(k)),
         Stops(Path(k), ordered, at), Splittable(nodes[Path(k)[at]]), SplitAs(Path(k), ordered, at),
         made + 2 <= MaxPages, stored' = stored
  PROVE  TreeInv' /\ (ShortCopies /\ Fits => Fits')
  <1> DEFINE path == Path(k)
             p == path[at]
             a == path[at - 1]
             new == made + 1
             slot == SplitSlot(nodes[p], ordered)
             sep == Separator(nodes[p], slot)
             pos == LowerBound(nodes[a], k)[1]
  <1>1. k \in Words BY KeyFacts
  <1>2. made \in 1..MaxPages /\ stored \subseteq Keys BY DEF TreeInv
  <1>3. PICK lev : Tree(nodes, root, lev) /\ Dead(lev, made) /\ Contents(nodes, lev, stored)
    BY DEF TreeInv, TreeOf
  <1> DEFINE lev2 == [lev EXCEPT ![new] = lev[p]]
  <1>4. at # 1 OBVIOUS
  <1>5. HasSpaceFor(nodes[a], Len(sep)) BY <1>4 DEF Stops, SepAt
  <1>6. made' = made + 1 /\ root' = root
        /\ nodes' = [nodes EXCEPT ![p] = LeftHalf(nodes[p], slot, new), ![new] = RightHalf(nodes[p], slot),
                                  ![a] = ParentOfHalves(nodes[a], sep, p, new)]
    BY <1>4 DEF SplitAs, SepAt
  <1>7. /\ p \in Pages /\ a \in Pages /\ ~nodes[a].leaf /\ lev[a] > 0
        /\ pos \in 0..Count(nodes[a]) /\ Child(nodes[a], pos) = p
    BY <1>1, <1>3, ParentOnPath
  <1>8. new \in Pages /\ lev[new] < 0
    <2>1. new \in Pages /\ new > made BY <1>2, PageNumbers
    <2>2. QED BY <1>3, <2>1 DEF Dead
  <1>9. slot \in SlotsOf(nodes[p]) /\ (nodes[p].leaf => slot + 1 \in SlotsOf(nodes[p]))
    <2>1. nodes[p] \in Page /\ Splittable(nodes[p]) BY <1>3, <1>7, TreeFacts
    <2>2. QED BY <2>1, SplitSlotIsInside
  <1>10. sep = Separator(nodes[p], slot) OBVIOUS
  <1>11. new = made + 1 OBVIOUS
  <1> HIDE DEF p, a, new, slot, sep, pos
  <1>a. SplitPages(nodes', nodes, p, new, a, slot, sep) BY <1>6 DEF SplitPages
  <1>b. SplitShape(nodes, lev, p, new, a, pos, slot, sep) BY <1>7, <1>8, <1>9, <1>10 DEF SplitShape
  <1>12. /\ SplitStep(nodes, lev, nodes', lev2, p, new, a, pos, slot, sep)
         /\ HasSpaceFor(nodes[a], Len(sep)) => FreeSpace(nodes'[a]) >= 0
         /\ nodes[p].leaf => \A w : Holds(nodes[p], w) <=> Holds(nodes'[p], w) \/ Holds(nodes'[new], w)
         /\ ShortCopies /\ FreeSpace(nodes[p]) >= 0 => FreeSpace(nodes'[p]) >= 0 /\ FreeSpace(nodes'[new]) >= 0
    BY <1>3, <1>a, <1>b, SplitHappens
  <1> HIDE DEF lev2
  <1>13. Tree(nodes', root', lev2)
    <2>1. Tree(nodes', root, lev2) BY <1>3, <1>12, TreeSplit
    <2>2. QED BY <1>6, <2>1
  <1>14. Contents(nodes', lev2, stored') BY <1>3, <1>12, ContentsSplit
  <1>15. Dead(lev2, made')
    <2>1. \A q \in Pages : q # new => lev2[q] = lev[q] BY <1>3, <1>12, SplitLevels
    <2>2. \A q \in Pages : q > made + 1 => q # new /\ q > made BY <1>2, <1>11, PageNumbers
    <2>3. QED BY <1>3, <1>6, <2>1, <2>2 DEF Dead
  <1>16. TreeInv'
    <2>1. made' \in 1..MaxPages /\ stored' \subseteq Keys BY <1>2, <1>6, PageNumbers
    <2>2. \E l : TreeOf(nodes', root', l, made', stored') BY <1>13, <1>14, <1>15 DEF TreeOf
    <2>3. QED BY <2>1, <2>2 DEF TreeInv
  <1>17. ASSUME ShortCopies, Fits PROVE Fits'
    <2>1. SUFFICES ASSUME NEW q \in Pages PROVE FreeSpace(nodes'[q]) >= 0 BY DEF Fits
    <2>2. FreeSpace(nodes[p]) >= 0 BY <1>7, <1>17 DEF Fits
    <2>3. CASE q \in {p, new, a} BY <1>5, <1>12, <1>17, <2>2, <2>3
    <2>4. CASE q \notin {p, new, a}
      <3>1. nodes'[q] = nodes[q] BY <1>12, <2>4 DEF SplitStep
      <3>2. QED BY <1>17, <3>1 DEF Fits
    <2>5. QED BY <2>3, <2>4
  <1>18. QED BY <1>16, <1>17

\* A split of the root, below a new one.
LEMMA RootSplitKeepsTree ==
  ASSUME TreeInv, NEW k \in Keys, NEW ordered \in BOOLEAN, Splittable(nodes[Path(k)[1]]),
         SplitAs(Path(k), ordered, 1), made + 2 <= MaxPages, stored' = stored
  PROVE  TreeInv' /\ (ShortCopies /\ Fits => Fits')
  <1> DEFINE p == Path(k)[1]
             a == made + 2
             new == made + 1
             slot == SplitSlot(nodes[p], ordered)
             sep == Separator(nodes[p], slot)
             g == [Fresh(FALSE, <<>>, <<>>) EXCEPT !.link = p]
             nds == [nodes EXCEPT ![a] = g]
  <1>1. k \in Words BY KeyFacts
  <1>2. made \in 1..MaxPages /\ stored \subseteq Keys BY DEF TreeInv
  <1>3. PICK lev0 : Tree(nodes, root, lev0) /\ Dead(lev0, made) /\ Contents(nodes, lev0, stored)
    BY DEF TreeInv, TreeOf
  <1> DEFINE lev == [lev0 EXCEPT ![a] = lev0[root] + 1]
             lev2 == [lev EXCEPT ![new] = lev[p]]
  <1>4. made' = made + 2 /\ root' = a
        /\ nodes' = [nodes EXCEPT ![p] = LeftHalf(nodes[p], slot, new), ![new] = RightHalf(nodes[p], slot),
                                  ![a] = ParentOfHalves(g, sep, p, new)]
    BY DEF SplitAs, SepAt
  <1>5. p = root /\ p \in Pages
    <2>1. PathFrom(nodes, lev0, Path(k), root, k) /\ Len(Path(k)) \in Nat /\ Len(Path(k)) >= 1
          /\ \A j \in 1..Len(Path(k)) : Path(k)[j] \in Pages
      BY <1>1, <1>3, PathFacts
    <2>2. 1 \in 1..Len(Path(k)) BY <2>1
    <2>3. QED BY <2>1, <2>2 DEF PathFrom
  <1>6. /\ new \in Pages /\ a \in Pages /\ lev0[new] < 0 /\ lev0[a] < 0 /\ new # a
        /\ lev0[root] >= 0 /\ root \in Pages /\ lev0[root] \in Int
    <2>1. new \in Pages /\ a \in Pages /\ new > made /\ a > made /\ new # a BY <1>2, PageNumbers
    <2>2. root \in Pages /\ lev0[root] >= 0 BY <1>3 DEF Tree, Rooted
    <2>3. QED BY <1>3, <2>1, <2>2, TreeFacts DEF Dead
  <1>7. p # a /\ p # new BY <1>5, <1>6
  <1>8. Loose(nodes[p]) /\ nodes[p] \in Page BY <1>3, <1>5, TreeFacts
  <1>9. slot \in SlotsOf(nodes[p]) /\ (nodes[p].leaf => slot + 1 \in SlotsOf(nodes[p]))
    BY <1>8, SplitSlotIsInside
  <1>10. sep \in Words /\ Short(sep)
    <2>1. Divides(nodes[p], slot, sep) BY <1>8, <1>9, SeparatorDivides
    <2>2. QED BY <2>1 DEF Divides
  <1>11. p \in Int BY <1>5, PageNumbers
  <1>12. /\ PageOK(g) /\ ~g.leaf /\ g.lower = <<>> /\ g.upper = <<>> /\ g.link = p
         /\ Count(g) = 0 /\ HasSpaceFor(g, Len(sep))
    <2> HIDE DEF p, sep
    <2>1. QED BY <1>10, <1>11, RootHasSpace
  <1>13. sep = Separator(nodes[p], slot) /\ new = made + 1 /\ a = made + 2 OBVIOUS
  <1> HIDE DEF p, a, new, slot, sep, g
  <1>14. nodes \in [Pages -> Page] /\ lev0 \in [Pages -> Int] BY <1>3 DEF Tree
  <1>15. g \in Page BY <1>12 DEF PageOK, Loose
  <1>16. nds \in [Pages -> Page] /\ nds[a] = g /\ nds[p] = nodes[p] /\ \A q \in Pages : q # a => nds[q] = nodes[q]
    BY <1>5, <1>6, <1>7, <1>14, <1>15
  <1>17. lev[a] = lev0[root] + 1 /\ lev[new] = lev0[new] /\ \A q \in Pages : q # a => lev[q] = lev0[q]
    BY <1>6, <1>14
  <1>18. Tree(nds, a, lev) BY <1>3, <1>5, <1>6, <1>12, TreeGrown
  <1>19. nodes' = [nds EXCEPT ![p] = LeftHalf(nds[p], slot, new), ![new] = RightHalf(nds[p], slot),
                              ![a] = ParentOfHalves(nds[a], sep, p, new)]
    <2> DEFINE l == LeftHalf(nodes[p], slot, new)
               r == RightHalf(nodes[p], slot)
               m == ParentOfHalves(g, sep, p, new)
    <2>1. nodes' = [nodes EXCEPT ![p] = l, ![new] = r, ![a] = m] BY <1>4
    <2> HIDE DEF l, r, m
    <2>2. nodes' = [nds EXCEPT ![p] = l, ![new] = r, ![a] = m] BY <1>14, <2>1
    <2>3. QED BY <1>16, <2>2 DEF l, r, m
  <1>20. Contents(nds, lev, stored)
    <2>1. lev[a] # 0 BY <1>6, <1>17
    <2>2. \A q \in Pages : lev0[q] = 0 => q # a BY <1>6
    <2>3. SUFFICES ASSUME NEW w
                   PROVE  w \in stored <=> \E q \in Pages : lev[q] = 0 /\ Holds(nds[q], w)
      BY DEF Contents
    <2>4. w \in stored <=> \E q \in Pages : lev0[q] = 0 /\ Holds(nodes[q], w) BY <1>3 DEF Contents
    <2>5. \A q \in Pages : lev[q] = 0 /\ Holds(nds[q], w) <=> lev0[q] = 0 /\ Holds(nodes[q], w)
      BY <1>16, <1>17, <2>1, <2>2
    <2>6. QED BY <2>4, <2>5
  <1>21. lev[a] > 0 /\ lev[new] < 0 BY <1>6, <1>17
  <1>22. 0 \in 0..Count(nds[a]) /\ Child(nds[a], 0) = p BY <1>12, <1>16 DEF Child
  <1> HIDE DEF nds, lev
  <1> DEFINE pos == 0
  <1>23. pos \in 0..Count(nds[a]) /\ Child(nds[a], pos) = p /\ slot \in SlotsOf(nds[p])
         /\ (nds[p].leaf => slot + 1 \in SlotsOf(nds[p])) /\ sep = Separator(nds[p], slot)
    BY <1>9, <1>13, <1>16, <1>22
  <1> HIDE DEF pos
  <1>a. SplitPages(nodes', nds, p, new, a, slot, sep) BY <1>19 DEF SplitPages
  <1>b. SplitShape(nds, lev, p, new, a, pos, slot, sep) BY <1>6, <1>21, <1>23 DEF SplitShape
  <1>24. /\ SplitStep(nds, lev, nodes', lev2, p, new, a, pos, slot, sep)
         /\ HasSpaceFor(nds[a], Len(sep)) => FreeSpace(nodes'[a]) >= 0
         /\ nds[p].leaf => \A w : Holds(nds[p], w) <=> Holds(nodes'[p], w) \/ Holds(nodes'[new], w)
         /\ ShortCopies /\ FreeSpace(nds[p]) >= 0 => FreeSpace(nodes'[p]) >= 0 /\ FreeSpace(nodes'[new]) >= 0
    BY <1>18, <1>a, <1>b, SplitHappens
  <1> HIDE DEF lev2
  <1>25. Tree(nodes', root', lev2)
    <2>1. Tree(nodes', a, lev2) BY <1>18, <1>24, TreeSplit
    <2>2. QED BY <1>4, <2>1
  <1>26. Contents(nodes', lev2, stored') BY <1>18, <1>20, <1>24, ContentsSplit
  <1>27. Dead(lev2, made')
    <2>1. \A q \in Pages : q # new => lev2[q] = lev[q] BY <1>18, <1>24, SplitLevels
    <2>2. \A q \in Pages : q > made + 2 => q # new /\ q # a /\ q > made BY <1>2, <1>13, PageNumbers
    <2>3. QED BY <1>3, <1>4, <1>17, <2>1, <2>2 DEF Dead
  <1>28. TreeInv'
    <2>1. made' \in 1..MaxPages /\ stored' \subseteq Keys BY <1>2, <1>4, PageNumbers
    <2>2. \E l : TreeOf(nodes', root', l, made', stored') BY <1>25, <1>26, <1>27 DEF TreeOf
    <2>3. QED BY <2>1, <2>2 DEF TreeInv
  <1>29. ASSUME ShortCopies, Fits PROVE Fits'
    <2>1. SUFFICES ASSUME NEW q \in Pages PROVE FreeSpace(nodes'[q]) >= 0 BY DEF Fits
    <2>2. FreeSpace(nds[p]) >= 0 /\ HasSpaceFor(nds[a], Len(sep)) BY <1>5, <1>12, <1>16, <1>29 DEF Fits
    <2>3. CASE q \in {p, new, a} BY <1>24, <1>29, <2>2, <2>3
    <2>4. CASE q \notin {p, new, a}
      <3>1. nodes'[q] = nds[q] /\ nds[q] = nodes[q] BY <1>16, <1>24, <2>4 DEF SplitStep
      <3>2. QED BY <1>29, <3>1 DEF Fits
    <2>5. QED BY <2>3, <2>4
  <1>30. QED BY <1>28, <1>29

LEMMA SplitKeepsTree ==
  ASSUME TreeInv, NEW k \in Keys, Split(k)
  PROVE  TreeInv' /\ (ShortCopies /\ Fits => Fits')
  <1>1. PICK ordered \in BOOLEAN : SplitOne(Path(k), ordered) BY DEF Split
  <1>2. ~HasSpaceFor(LeafOf(k), Len(k)) /\ made + 2 <= MaxPages /\ stored' = stored BY DEF Split
  <1> DEFINE at == SplitPlace(Path(k), ordered)
  <1>3. SplitAs(Path(k), ordered, at) BY <1>1, SplitIsAs
  <1>4. PICK lev : Tree(nodes, root, lev) BY DEF TreeInv, TreeOf
  <1>5. at \in 1..Len(Path(k)) /\ Stops(Path(k), ordered, at) /\ Splittable(nodes[Path(k)[at]])
    BY <1>2, <1>4, SplitPlaceIsRight
  <1> HIDE DEF at
  <1>6. CASE at = 1
    <2>1. Splittable(nodes[Path(k)[1]]) /\ SplitAs(Path(k), ordered, 1) BY <1>3, <1>5, <1>6
    <2>2. QED BY <1>2, <2>1, RootSplitKeepsTree
  <1>7. CASE at # 1
    <2>1. at \in 2..Len(Path(k)) BY <1>5, <1>7
    <2>2. QED BY <1>2, <1>3, <1>5, <2>1, InnerSplitKeepsTree
  <1>8. QED BY <1>6, <1>7

-------------------------------------------------------------------------------
(* Every behaviour.                                                              *)

LEMMA StepKeepsTree ==
  ASSUME TreeInv, [Next]_vars
  PROVE  TreeInv' /\ (ShortCopies /\ Fits => Fits')
  <1>1. CASE UNCHANGED vars
    <2>1. nodes' = nodes /\ root' = root /\ made' = made /\ stored' = stored BY <1>1 DEF vars
    <2>2. QED BY <2>1 DEF TreeInv, Fits
  <1>2. CASE Next
    <2>1. PICK k \in Keys : InsertKey(k) \/ Split(k) \/ RemoveKey(k) BY <1>2 DEF Next
    <2>2. CASE InsertKey(k) BY <2>2, InsertKeepsTree
    <2>3. CASE Split(k) BY <2>3, SplitKeepsTree
    <2>4. CASE RemoveKey(k) BY <2>4, RemoveKeepsTree
    <2>5. QED BY <2>1, <2>2, <2>3, <2>4
  <1>3. QED BY <1>1, <1>2

(* The pages form a tree whose leaves hold the stored keys: insert, every kind  *)
(* of split (splitNode below an inner page or under a new root) and remove with *)
(* mergeNodes keep fences, separators, children and levels consistent.          *)
THEOREM AlwaysTree == Spec => []TreeInv
  <1>1. Init => TreeInv BY EmptyTree
  <1>2. TreeInv /\ [Next]_vars => TreeInv' BY StepKeepsTree
  <1>3. QED BY <1>1, <1>2, PTL DEF Spec

\* What lowerBound answers in a page: how many keys are less, and whether k is there.
SearchedRight(n, k) ==
  LET below == {i \in 0..(Count(n) - 1) : Less(FullKey(n, i), k)}
  IN LowerBound(n, k) = <<Cardinality(below), \E i \in 0..(Count(n) - 1) : FullKey(n, i) = k>>

LEMMA SearchCounts ==
  ASSUME NEW n, PageOK(n), NEW k \in Words
  PROVE  SearchedRight(n, k)
  <1> DEFINE below == {i \in 0..(Count(n) - 1) : Less(FullKey(n, i), k)}
             v == LowerBound(n, k)
  <1>1. Loose(n) /\ n \in Page /\ Sorted(n) /\ HintsRight(n) /\ Count(n) \in Nat
    BY PageFacts DEF PageOK, Loose
  <1>2. IsLowerBound(n, k, v) BY <1>1, LowerBoundIsRight
  <1>3. Holds(n, k) => v[1] \in SlotsOf(n) /\ FullKey(n, v[1]) = k BY LowerBoundFinds
  <1> HIDE DEF v
  <1>4. /\ v[1] \in 0..Count(n) /\ v[2] \in BOOLEAN /\ v = <<v[1], v[2]>>
        /\ \A i \in SlotsOf(n) : i < v[1] <=> Less(FullKey(n, i), k)
        /\ v[2] <=> (v[1] \in SlotsOf(n) /\ FullKey(n, v[1]) = k)
    BY <1>2 DEF IsLowerBound
  <1> DEFINE a == v[1]
             b == v[2]
  <1>5. a \in Nat /\ a <= Count(n) BY <1>1, <1>4
  <1>6. below = 0..(a - 1)
    <2>1. \A i \in 0..(Count(n) - 1) : i < a <=> Less(FullKey(n, i), k) BY <1>4 DEF SlotsOf
    <2> HIDE DEF a
    <2>2. QED BY <1>1, <1>5, <2>1
  <1>7. Cardinality(below) = a
    <2> HIDE DEF a, below
    <2> DEFINE z == a - 1
    <2>1. 0 \in Int /\ z \in Int /\ below = 0..z BY <1>5, <1>6
    <2> HIDE DEF z
    <2>2. Cardinality(0..z) = IF 0 > z THEN 0 ELSE z - 0 + 1 BY <2>1, FS_Interval
    <2>3. QED BY <1>5, <2>1, <2>2 DEF z
  <1>8. b \in BOOLEAN /\ (b <=> \E i \in 0..(Count(n) - 1) : FullKey(n, i) = k)
    BY <1>3, <1>4 DEF Holds, SlotsOf
  <1>9. b = \E i \in 0..(Count(n) - 1) : FullKey(n, i) = k
    <2> HIDE DEF b
    <2>1. QED BY <1>8
  <1>10. QED BY <1>4, <1>7, <1>9 DEF v, SearchedRight

LEMMA TreeSearchesRight == ASSUME TreeInv PROVE LowerBoundRight
  <1>1. SUFFICES ASSUME NEW k \in Keys, NEW p \in ToSet(Path(k))
                 PROVE  SearchedRight(nodes[p], k)
    BY DEF LowerBoundRight, SearchedRight
  <1>2. PICK lev : Tree(nodes, root, lev) BY DEF TreeInv, TreeOf
  <1>3. k \in Words BY KeyFacts
  <1>4. Path(k) \in Seq(Pages) BY <1>2, <1>3, PathFacts
  <1>5. p \in Pages
    <2> DEFINE path == Path(k)
    <2>1. p \in {path[i] : i \in DOMAIN path} /\ path \in Seq(Pages) BY <1>4 DEF ToSet
    <2> HIDE DEF path
    <2>2. DOMAIN path = 1..Len(path) /\ \A i \in 1..Len(path) : path[i] \in Pages
      BY <2>1, LenProperties, ElementOfSeq
    <2>3. QED BY <2>1, <2>2
  <1>6. PageOK(nodes[p]) BY <1>2, <1>5, TreeFacts
  <1>7. QED BY <1>3, <1>6, SearchCounts

(* lowerBound finds, in every page a descent passes, the first slot whose key   *)
(* is not less, whatever the hints, heads and truncated prefixes of the page.   *)
THEOREM AlwaysLowerBoundRight == Spec => []LowerBoundRight
  <1>1. TreeInv => LowerBoundRight BY TreeSearchesRight
  <1>2. QED BY <1>1, AlwaysTree, PTL

LEMMA TreeKeepsKeys == ASSUME TreeInv PROVE KeysKept
  <1>1. SUFFICES ASSUME NEW k \in Keys
                 PROVE  LET n == LeafOf(k)
                        IN /\ k \in stored <=> \E i \in 0..(Count(n) - 1) : FullKey(n, i) = k
                           /\ Within(n, k) /\ \A i \in 0..(Count(n) - 1) : Within(n, FullKey(n, i))
    BY DEF KeysKept, Within
  <1> DEFINE p == Last(Path(k))
  <1>2. PICK lev : Tree(nodes, root, lev) /\ Contents(nodes, lev, stored) BY DEF TreeInv, TreeOf
  <1>3. k \in Words BY KeyFacts
  <1>4. p \in Pages /\ lev[p] = 0 /\ Within(nodes[p], k) BY <1>2, <1>3, PathFacts
  <1>5. LeafOf(k) = nodes[p] BY DEF LeafOf
  <1> HIDE DEF p
  <1>6. k \in stored <=> Holds(nodes[p], k) BY <1>2, <1>3, <1>4, LeafHolds
  <1>7. Loose(nodes[p]) BY <1>2, <1>4, TreeFacts
  <1>8. \A i \in SlotsOf(nodes[p]) : Within(nodes[p], FullKey(nodes[p], i)) BY <1>7, KeysAscend DEF KeyFits
  <1>9. QED BY <1>4, <1>5, <1>6, <1>8 DEF Holds, SlotsOf

(* The leaf to which a key descends has it exactly if it was inserted and not   *)
(* removed, and encloses it: no split, separator or merge hides a key.          *)
THEOREM AlwaysKeysKept == Spec => []KeysKept
  <1>1. TreeInv => KeysKept BY TreeKeepsKeys
  <1>2. QED BY <1>1, AlwaysTree, PTL

\* What a page counts, and what compacting it yields.
BytesCounted ==
  \A p \in Pages :
    LET n == nodes[p]
    IN /\ n.used = Len(n.lower) + Len(n.upper) + SizeOf(n.slots, PayLen(n))
       /\ FreeSpace(Compactified(n)) = FreeAfter(n)

LEMMA TreeCountsBytes == ASSUME TreeInv PROVE BytesCounted
  <1>1. PICK lev : Tree(nodes, root, lev) BY DEF TreeInv, TreeOf
  <1>2. SUFFICES ASSUME NEW p \in Pages
                 PROVE  LET n == nodes[p]
                        IN /\ n.used = Len(n.lower) + Len(n.upper) + SizeOf(n.slots, PayLen(n))
                           /\ FreeSpace(Compactified(n)) = FreeAfter(n)
    BY DEF BytesCounted
  <1>3. Loose(nodes[p]) BY <1>1, TreeFacts
  <1>4. QED BY <1>3, CompactedIsSame DEF Loose, Counted

(* A page counts the bytes of its fences and entries exactly, and compactify    *)
(* gives all the space that freeSpaceAfterCompaction promised (its assertion).  *)
THEOREM AlwaysBytesCounted == Spec => []BytesCounted
  <1>1. TreeInv => BytesCounted BY TreeCountsBytes
  <1>2. QED BY <1>1, AlwaysTree, PTL

(* If no key is much longer than a key it shares all but the last byte with,    *)
(* the heap of a page never grows into its slots either.                        *)
THEOREM AlwaysSpaceAccounting == ASSUME ShortCopies PROVE Spec => []SpaceAccounting
  <1> DEFINE I == TreeInv /\ Fits
  <1>1. Init => I BY EmptyTree
  <1>2. I /\ [Next]_vars => I' BY StepKeepsTree
  <1>3. I => SpaceAccounting
    <2> SUFFICES ASSUME TreeInv, Fits PROVE SpaceAccounting OBVIOUS
    <2>1. BytesCounted BY TreeCountsBytes
    <2>2. 1..made \subseteq Pages BY PageNumbers DEF TreeInv
    <2>3. QED BY <2>1, <2>2 DEF SpaceAccounting, BytesCounted, Fits
  <1> HIDE DEF I
  <1>4. QED BY <1>1, <1>2, <1>3, PTL DEF Spec
===============================================================================
