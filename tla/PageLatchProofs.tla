--------------------------- MODULE PageLatchProofs ---------------------------
(***************************************************************************)
(* Proofs that the latch protocol of PageLatch keeps its inductive         *)
(* invariant and implements AtomicPage, for any number of threads, parts   *)
(* and versions.                                                           *)
(***************************************************************************)
EXTENDS PageLatchInv, FiniteSetTheorems, TLAPS

USE MaxSharedAssumption, ThreadsAssumption, PartsAssumption, BoundsAssumption

-------------------------------------------------------------------------------
(* Latch words. *)

LEMMA States == /\ Unlocked = 0 /\ Marked = MaxShared + 1 /\ Locked = MaxShared + 2
                /\ Invalid = MaxShared + 3 /\ Unlocked \in 0..Invalid /\ Marked \in 0..Invalid
                /\ Locked \in 0..Invalid /\ Invalid \in 0..Invalid /\ 1 \in 0..Invalid
BY DEF Unlocked, Marked, Locked, Invalid

LEMMA MakeWord ==
  ASSUME NEW w \in Word, NEW s \in 0..Invalid
  PROVE  /\ SameVersion(w, s) \in Word /\ NextVersion(w, s) \in Word
         /\ SameVersion(w, s).state = s /\ NextVersion(w, s).state = s
         /\ SameVersion(w, s).version = w.version
         /\ NextVersion(w, s).version = w.version + 1
BY DEF SameVersion, NextVersion, Word

LEMMA WordFields ==
  ASSUME NEW w \in Word
  PROVE  w.state \in 0..Invalid /\ w.version \in Nat
BY DEF Word

\* A shared holder more, or one less, stays within the states that count them.
LEMMA SharedWord ==
  ASSUME NEW w \in Word
  PROVE  /\ LockableS(w) => /\ AddShared(w) \in Word /\ AddShared(w).version = w.version
                            /\ AddShared(w).state = IF w.state = Marked THEN 1 ELSE w.state + 1
         /\ w.state \in 1..MaxShared => /\ DropShared(w) \in Word
                                        /\ DropShared(w).version = w.version
                                        /\ DropShared(w).state = w.state - 1
BY DEF LockableS, AddShared, DropShared, SameVersion, Word, Marked, Invalid

-------------------------------------------------------------------------------
(* Who holds the page after a thread has moved. *)

LEMMA Moves ==
  ASSUME NEW P, NEW t \in Threads, NEW to, pc \in [Threads -> PCs],
         pc' = [pc EXCEPT ![t] = to]
  PROVE  /\ pc[t] \in P /\ to \in P => Holders(P)' = Holders(P)
         /\ pc[t] \notin P /\ to \notin P => Holders(P)' = Holders(P)
         /\ pc[t] \notin P /\ to \in P => Holders(P)' = Holders(P) \cup {t}
         /\ pc[t] \in P /\ to \notin P => Holders(P)' = Holders(P) \ {t}
BY DEF Holders

LEMMA Counts ==
  ASSUME NEW P, NEW t \in Threads
  PROVE  /\ IsFiniteSet(Holders(P)) /\ Cardinality(Holders(P)) \in Nat
         /\ pc[t] \in P => /\ Cardinality(Holders(P)) > 0
                           /\ Cardinality(Holders(P) \ {t}) = Cardinality(Holders(P)) - 1
         /\ pc[t] \notin P => Cardinality(Holders(P) \cup {t}) = Cardinality(Holders(P)) + 1
<1>1. IsFiniteSet(Holders(P))
  BY FS_Subset DEF Holders
<1>2. Cardinality(Holders(P)) \in Nat
  BY <1>1, FS_CardinalityType
<1>3. pc[t] \in P <=> t \in Holders(P)
  BY DEF Holders
<1>4. t \in Holders(P) => Cardinality(Holders(P)) # 0
  BY <1>1, FS_EmptySet
<1>5. t \in Holders(P) => Cardinality(Holders(P) \ {t}) = Cardinality(Holders(P)) - 1
  BY <1>1, FS_RemoveElement
<1>6. t \notin Holders(P) => Cardinality(Holders(P) \cup {t}) = Cardinality(Holders(P)) + 1
  BY <1>1, FS_AddElement
<1> QED BY <1>1, <1>2, <1>3, <1>4, <1>5, <1>6
-------------------------------------------------------------------------------
(* Type correctness. *)

LEMMA TypeInit == Init => TypeOK
<1> SUFFICES ASSUME Init PROVE TypeOK
  OBVIOUS
<1> USE DEF Init
<1>1. InitWord \in Word
  BY DEF InitWord, Word, Invalid
<1>2. mem \in [Parts -> Nat] /\ disk \in [Parts -> Nat]
  OBVIOUS
<1>3. pc \in [Threads -> PCs]
  BY DEF PCs
<1>4. seen \in [Threads -> [Parts -> Nat \cup {None}]]
  BY DEF Nothing
<1> QED BY <1>1, <1>2, <1>3, <1>4 DEF TypeOK

LEMMA TypeStep == IInv /\ [Next]_vars => TypeOK'
<1> SUFFICES ASSUME TypeOK, LatchHeld, SnapOK, Next PROVE TypeOK'
  BY DEF IInv, TypeOK, vars
<1> USE DEF Next, Optimistic, FixOptimistic, FixOptimisticMarked, ClearMark, ReadOptimistic,
     CheckPasses, CheckFindsMark, CheckFails, CheckClearsMark, ReturnResult,
     Pessimistic, UpgradeX, UpgradeXLoad, UpgradeXLock, UpgradeS, FixX, FixXLock, FixS,
     FixSLock, UnfixS, SetDirty, WritePart, UnfixX,
     Faulting, Fault, ReadPage, PublishUnlocked, PublishShared,
     Evicting, EvictVisit, TryMark, EvictLockS, EvictUpgradeClean, EvictWrite, EvictWritten,
     EvictUpgradeDirty, EvictRemove, EvictUpgrade, ReuseFrame, page, local
<1>1. pc' \in [Threads -> PCs]
  BY DEF TypeOK, Load, Goto, SharedAt, FaultAt, ExclusiveAt, OptimisticAt, PCs
<1>2. written' \in [Threads -> 0..NParts] 
  BY DEF TypeOK, Forget
<1>3. dirty' \in BOOLEAN
  BY DEF TypeOK
<1>4. seen' \in [Threads -> [Parts -> Nat \cup {None}]]
  <2>1. Nothing \in [Parts -> Nat \cup {None}]
    BY DEF Nothing
  <2>2. ASSUME NEW t \in Threads, NEW p \in Parts, ReadOptimistic(t, p)
        PROVE  seen' \in [Threads -> [Parts -> Nat \cup {None}]]
    BY <2>2 DEF TypeOK
  <2> HIDE DEF Nothing, ReadOptimistic
  <2> QED BY <2>1, <2>2 DEF TypeOK, Forget
<1>5. mem' \in [Parts -> Nat] /\ disk' \in [Parts -> Nat]
  <2>1. ASSUME NEW t \in Threads, WritePart(t) PROVE mem' \in [Parts -> Nat]
    <3>1. written[t] + 1 \in Parts
      <4>1. written[t] \in 0..NParts
        BY DEF TypeOK
      <4>2. written[t] + 1 <= NParts
        BY <2>1
      <4> QED BY <4>1, <4>2 DEF Parts
    <3>2. ASSUME NEW p \in Parts PROVE (IF seen[t][p] = None THEN mem[p] ELSE seen[t][p]) + 1 \in Nat
      BY DEF TypeOK
    <3> QED BY <2>1, <3>1, <3>2 DEF TypeOK
  <2> HIDE DEF WritePart
  <2>2. ASSUME NEW t \in Threads, WritePart(t) PROVE disk' = disk
    BY <2>2 DEF WritePart
  <2> QED BY <2>1, <2>2 DEF TypeOK
<1>6. /\ \A w \in Word : /\ SameVersion(w, Unlocked) \in Word /\ SameVersion(w, Marked) \in Word
                         /\ SameVersion(w, Locked) \in Word /\ NextVersion(w, Unlocked) \in Word
                         /\ NextVersion(w, 1) \in Word /\ NextVersion(w, Invalid) \in Word
                         /\ LockableS(w) => AddShared(w) \in Word
      /\ \A t \in Threads : pc[t] \in SharedAt => DropShared(word) \in Word
  <2>1. ASSUME NEW t \in Threads, pc[t] \in SharedAt PROVE word.state \in 1..MaxShared
    <3>1. Cardinality(Holders(SharedAt)) \in Nat /\ Cardinality(Holders(SharedAt)) > 0
      BY <2>1, Counts
    <3> QED BY <3>1, WordFields DEF LatchHeld, TypeOK
  <2> QED BY <2>1, States, MakeWord, SharedWord DEF TypeOK
<1>7. snap' \in [Threads -> Word]
  BY <1>6 DEF TypeOK, Load, Goto
<1>8. word' \in Word
  <2> USE DEF CAS, CASFails, Goto
  <2>1. ASSUME NEW t \in Threads, Optimistic(t) PROVE word' \in Word
    BY <1>6, <2>1 DEF TypeOK
  <2>2. ASSUME NEW t \in Threads, Pessimistic(t) PROVE word' \in Word
    BY <1>6, <2>2 DEF TypeOK, SnapOK, SharedAt
  <2>3. ASSUME NEW t \in Threads, Faulting(t) PROVE word' \in Word
    BY <1>6, <2>3 DEF TypeOK
  <2>4. ASSUME NEW t \in Threads, Evicting(t) PROVE word' \in Word
    BY <1>6, <2>4 DEF TypeOK, SnapOK, SharedAt, LockableS
  <2>5. CASE ReuseFrame
    BY <2>5 DEF TypeOK
  <2> HIDE DEF Optimistic, Pessimistic, Faulting, Evicting, ReuseFrame
  <2> QED BY <2>1, <2>2, <2>3, <2>4, <2>5
<1> QED BY <1>1, <1>2, <1>3, <1>4, <1>5, <1>7, <1>8 DEF TypeOK
-------------------------------------------------------------------------------
(* Mutual exclusion.  Seen from the latch there are eight kinds of step, and *)
(* only the three that leave ExclusiveAt change the version.                 *)

Outside == PCs \ (SharedAt \cup ExclusiveAt)
MovesFrom(t, A, B) == /\ pc[t] \in A /\ pc' = [pc EXCEPT ![t] = pc'[t]] /\ pc'[t] \in B

Stays(t) == /\ \/ MovesFrom(t, Outside, Outside) \/ MovesFrom(t, SharedAt, SharedAt)
               \/ MovesFrom(t, ExclusiveAt, ExclusiveAt)
            /\ word'.state = word.state \/ {word.state, word'.state} \subseteq {Unlocked, Marked}
Enters(t) == MovesFrom(t, Outside, SharedAt) /\ LockableS(word) /\ word' = AddShared(word)
Leaves(t) == MovesFrom(t, SharedAt, Outside) /\ word' = DropShared(word)
Seizes(t) == /\ MovesFrom(t, Outside, ExclusiveAt)
             /\ word.state \in {Unlocked, Marked, Invalid} /\ word'.state = Locked
Upgrades(t) == MovesFrom(t, SharedAt, ExclusiveAt) /\ word.state = 1 /\ word'.state = Locked
Frees(t) == /\ MovesFrom(t, ExclusiveAt, Outside) /\ word'.state \in {Unlocked, Invalid}
            /\ word'.version = word.version + 1
Downgrades(t) == /\ MovesFrom(t, ExclusiveAt, SharedAt) /\ word'.state = 1
                 /\ word'.version = word.version + 1

Keeps(t) == Stays(t) \/ Enters(t) \/ Leaves(t) \/ Seizes(t) \/ Upgrades(t)

LEMMA Kinds ==
  ASSUME TypeOK, SnapOK, Next
  PROVE  \/ pc' = pc /\ word' = word
         \/ \E t \in Threads : Keeps(t) /\ word'.version = word.version
         \/ \E t \in Threads : Frees(t) \/ Downgrades(t)
<1> USE DEF PCs, SharedAt, ExclusiveAt, FaultAt, OptimisticAt, Outside, MovesFrom, Keeps,
            Stays, page, local
<1> USE DEF Load, Goto, CAS, CASFails
<1>1. ASSUME NEW t \in Threads, Optimistic(t)
      PROVE (pc' = pc /\ word' = word) \/ (Stays(t) /\ word'.version = word.version)
  <2>1. CASE ClearMark(t)
    BY <2>1, States DEF ClearMark, TypeOK, SnapOK, SameVersion
  <2>2. CASE CheckClearsMark(t)
    BY <2>2, States DEF CheckClearsMark, TypeOK, SnapOK, SameVersion
  <2>3. CASE \E p \in Parts : ReadOptimistic(t, p)
    BY <2>3 DEF ReadOptimistic
  <2> QED BY <1>1, <2>1, <2>2, <2>3 DEF Optimistic, FixOptimistic, FixOptimisticMarked, CheckPasses,
     CheckFindsMark, CheckFails, ReturnResult, TypeOK
<1>2. ASSUME NEW t \in Threads, Pessimistic(t)
      PROVE (Keeps(t) /\ word'.version = word.version) \/ Frees(t)
  <2>1. CASE UpgradeX(t) \/ FixX(t) \/ FixS(t) \/ SetDirty(t) \/ UpgradeXLoad(t)
    BY <2>1 DEF UpgradeX, UpgradeXLoad, FixX, FixS, SetDirty, TypeOK
  <2>2. CASE UpgradeXLock(t) \/ FixXLock(t)
    BY <2>2, States DEF UpgradeXLock, FixXLock, Seizes, TypeOK, SnapOK, LockableX, SameVersion
  <2>3. CASE UpgradeS(t)
    BY <2>3 DEF UpgradeS, Enters, AddShared, SameVersion, TypeOK
  <2>4. CASE FixSLock(t)
    BY <2>4 DEF FixSLock, Enters, AddShared, SameVersion, TypeOK, SnapOK
  <2>5. CASE UnfixS(t)
    BY <2>5 DEF UnfixS, Leaves, DropShared, SameVersion, TypeOK
  <2>6. CASE WritePart(t)
    BY <2>6 DEF WritePart, TypeOK
  <2>7. CASE UnfixX(t)
    BY <2>7 DEF UnfixX, Frees, NextVersion, TypeOK
  <2> QED BY <1>2, <2>1, <2>2, <2>3, <2>4, <2>5, <2>6, <2>7 DEF Pessimistic
<1>3. ASSUME NEW t \in Threads, Faulting(t)
      PROVE (Keeps(t) /\ word'.version = word.version) \/ Frees(t) \/ Downgrades(t)
  <2>1. CASE Fault(t)
    BY <2>1 DEF Fault, Seizes, SameVersion, TypeOK
  <2>2. CASE ReadPage(t)
    BY <2>2 DEF ReadPage, TypeOK
  <2>3. CASE PublishUnlocked(t)
    BY <2>3 DEF PublishUnlocked, Frees, NextVersion, TypeOK
  <2>4. CASE PublishShared(t)
    BY <2>4 DEF PublishShared, Downgrades, NextVersion, TypeOK
  <2> QED BY <1>3, <2>1, <2>2, <2>3, <2>4 DEF Faulting
<1>4. ASSUME NEW t \in Threads, Evicting(t)
      PROVE (Keeps(t) /\ word'.version = word.version) \/ Frees(t)
  <2>1. CASE EvictVisit(t) \/ EvictWrite(t) \/ EvictWritten(t)
    BY <2>1 DEF EvictVisit, EvictWrite, EvictWritten, TypeOK
  <2>2. CASE TryMark(t)
    BY <2>2, States DEF TryMark, SameVersion, TypeOK, SnapOK
  <2>3. CASE EvictLockS(t)
    BY <2>3 DEF EvictLockS, Enters, AddShared, SameVersion, LockableS, TypeOK, SnapOK
  <2>4. CASE EvictUpgradeClean(t)
    BY <2>4 DEF EvictUpgradeClean, EvictUpgrade, Leaves, Upgrades, DropShared, SameVersion, TypeOK
  <2>5. CASE EvictUpgradeDirty(t)
    BY <2>5 DEF EvictUpgradeDirty, EvictUpgrade, Leaves, Upgrades, DropShared, SameVersion, TypeOK
  <2>6. CASE EvictRemove(t)
    BY <2>6 DEF EvictRemove, Frees, NextVersion, TypeOK
  <2> QED BY <1>4, <2>1, <2>2, <2>3, <2>4, <2>5, <2>6 DEF Evicting
<1>5. CASE ReuseFrame
  BY <1>5 DEF ReuseFrame
<1> HIDE DEF Keeps
<1> QED BY <1>1, <1>2, <1>3, <1>4, <1>5 DEF Next, Keeps

LEMMA LatchStep == IInv /\ [Next]_vars => LatchHeld'
<1> SUFFICES ASSUME IInv, Next PROVE LatchHeld'
  BY DEF IInv, LatchHeld, Holders, vars
<1> DEFINE S == Holders(SharedAt)
           X == Holders(ExclusiveAt)
<1>1. TypeOK /\ SnapOK /\ LatchHeld
  BY DEF IInv
<1>2. TypeOK'
  BY TypeStep
<1>3. SharedAt \cap ExclusiveAt = {} /\ SharedAt \cap Outside = {} /\ ExclusiveAt \cap Outside = {}
  BY DEF SharedAt, ExclusiveAt, FaultAt, Outside
<1>4. CASE pc' = pc /\ word' = word
  BY <1>1, <1>4 DEF LatchHeld, Holders
<1>5. ASSUME NEW t \in Threads, Keeps(t) \/ Frees(t) \/ Downgrades(t) PROVE LatchHeld'
  <2>1. /\ pc[t] \in SharedAt /\ pc'[t] \in SharedAt => S' = S
        /\ pc[t] \notin SharedAt /\ pc'[t] \notin SharedAt => S' = S
        /\ pc[t] \notin SharedAt /\ pc'[t] \in SharedAt => S' = S \cup {t}
        /\ pc[t] \in SharedAt /\ pc'[t] \notin SharedAt => S' = S \ {t}
    BY <1>1, <1>5, Moves DEF TypeOK, Keeps, Stays, Enters, Leaves, Seizes, Upgrades, Frees,
       Downgrades, MovesFrom
  <2>2. /\ pc[t] \in ExclusiveAt /\ pc'[t] \in ExclusiveAt => X' = X
        /\ pc[t] \notin ExclusiveAt /\ pc'[t] \notin ExclusiveAt => X' = X
        /\ pc[t] \notin ExclusiveAt /\ pc'[t] \in ExclusiveAt => X' = X \cup {t}
        /\ pc[t] \in ExclusiveAt /\ pc'[t] \notin ExclusiveAt => X' = X \ {t}
    BY <1>1, <1>5, Moves DEF TypeOK, Keeps, Stays, Enters, Leaves, Seizes, Upgrades, Frees,
       Downgrades, MovesFrom
  <2>3. /\ IsFiniteSet(S) /\ Cardinality(S) \in Nat
        /\ pc[t] \in SharedAt => /\ Cardinality(S) > 0
                                 /\ Cardinality(S \ {t}) = Cardinality(S) - 1
        /\ pc[t] \notin SharedAt => Cardinality(S \cup {t}) = Cardinality(S) + 1
    BY Counts
  <2>4. pc[t] \in ExclusiveAt <=> t \in X
    BY DEF Holders
  <2>5. /\ word.state \in 0..Invalid /\ word'.state \in 0..Invalid
        /\ word.state = Locked <=> X # {}
        /\ \A u, v \in X : u = v
        /\ Cardinality(S) = IF word.state \in 1..MaxShared THEN word.state ELSE 0
    BY <1>1, <1>2, WordFields DEF TypeOK, LatchHeld
  <2>6. SUFFICES /\ word'.state = Locked <=> X' # {}
                 /\ \A u, v \in X' : u = v
                 /\ Cardinality(S') = IF word'.state \in 1..MaxShared THEN word'.state ELSE 0
    BY DEF LatchHeld
  <2> HIDE DEF S, X
  <2>7. CASE Stays(t)
    BY <1>3, <2>7, <2>1, <2>2, <2>5, States DEF Stays, MovesFrom
  <2>8. CASE Enters(t)
    <3>1. word'.state = IF word.state = Marked THEN 1 ELSE word.state + 1
      BY <1>1, <2>8, SharedWord DEF Enters, TypeOK
    <3>2. /\ word'.state \in 1..MaxShared /\ word.state # Locked
          /\ Cardinality(S) = word'.state - 1
      <4>1. word.state \in 0..(MaxShared - 1) \/ word.state = MaxShared + 1
        BY <2>8, <2>5, States DEF Enters, LockableS
      <4>2. word'.state \in 1..MaxShared /\ word.state # Locked
        BY <4>1, <3>1, States
      <4>3. Cardinality(S) = word'.state - 1
        BY <4>1, <3>1, <2>5, States
      <4> QED BY <4>2, <4>3
    <3>3. X' = {} /\ S' = S \cup {t} /\ Cardinality(S \cup {t}) = word'.state
      BY <1>3, <2>8, <3>2, <2>1, <2>2, <2>3, <2>5 DEF Enters, MovesFrom
    <3> QED BY <3>2, <3>3, States
  <2>9. CASE Leaves(t)
    <3>1. word.state \in 1..MaxShared
      BY <2>9, <2>3, <2>5 DEF Leaves, MovesFrom
    <3>2. word'.state = word.state - 1
      BY <1>1, <2>9, <3>1, SharedWord DEF Leaves, TypeOK
    <3>3. /\ X' = {} /\ S' = S \ {t} /\ Cardinality(S \ {t}) = word'.state
      BY <1>3, <2>9, <3>1, <3>2, <2>1, <2>2, <2>3, <2>5, States DEF Leaves, MovesFrom
    <3> QED BY <3>1, <3>2, <3>3, States
  <2>10. CASE Seizes(t)
    BY <1>3, <2>10, <2>1, <2>2, <2>5, States DEF Seizes, MovesFrom
  <2>11. CASE Upgrades(t)
    BY <1>3, <2>11, <2>1, <2>2, <2>3, <2>5, States DEF Upgrades, MovesFrom
  <2>12. CASE Frees(t)
    BY <1>3, <2>12, <2>1, <2>2, <2>4, <2>5, States DEF Frees, MovesFrom
  <2>13. CASE Downgrades(t)
    <3>1. X = {t} /\ word.state = Locked /\ Cardinality(S) = 0
      BY <2>13, <2>4, <2>5, States DEF Downgrades, MovesFrom
    <3>2. X' = {} /\ S' = S \cup {t} /\ Cardinality(S \cup {t}) = 1
      BY <1>3, <2>13, <3>1, <2>1, <2>2, <2>3 DEF Downgrades, MovesFrom
    <3> QED BY <2>13, <3>2, States DEF Downgrades
  <2> QED BY <1>5, <2>7, <2>8, <2>9, <2>10, <2>11, <2>12, <2>13 DEF Keeps
<1> QED BY <1>1, <1>4, <1>5, Kinds
-------------------------------------------------------------------------------
(* Versions never go back, and a word leaves Locked only to a higher one. *)

LEMMA VersionStep ==
  ASSUME IInv, Next
  PROVE  /\ word'.version >= word.version
         /\ word.state = Locked /\ word'.state # Locked => word'.version > word.version
<1>1. TypeOK /\ SnapOK /\ LatchHeld
  BY DEF IInv
<1>2. word.version \in Nat /\ word'.version \in Nat /\ word.state \in 0..Invalid
  BY <1>1, TypeStep, WordFields DEF TypeOK
<1>3. CASE pc' = pc /\ word' = word
  BY <1>2, <1>3
<1>4. ASSUME NEW t \in Threads, Keeps(t), word'.version = word.version
      PROVE  word.state = Locked => word'.state = Locked
  <2>1. CASE Leaves(t)
    <3>1. Cardinality(Holders(SharedAt)) > 0
      BY <2>1, Counts DEF Leaves, MovesFrom
    <3> QED BY <1>1, <1>2, <3>1, States DEF LatchHeld
  <2> QED BY <1>4, <2>1, <1>2, States DEF Keeps, Stays, Enters, Seizes, Upgrades, LockableS
<1>5. ASSUME NEW t \in Threads, Frees(t) \/ Downgrades(t) PROVE word'.version > word.version
  BY <1>5, <1>2 DEF Frees, Downgrades
<1>6. \/ pc' = pc /\ word' = word
      \/ \E t \in Threads : Keeps(t) /\ word'.version = word.version
      \/ \E t \in Threads : Frees(t) \/ Downgrades(t)
  BY <1>1, Kinds
<1>7. word'.version = word.version \/ word'.version > word.version
  BY <1>5, <1>6
<1>8. word.state = Locked /\ word'.state # Locked => word'.version > word.version
  BY <1>4, <1>5, <1>6
<1> QED BY <1>2, <1>7, <1>8

LEMMA SnapStep == IInv /\ [Next]_vars => SnapOK'
<1> SUFFICES ASSUME IInv, Next PROVE SnapOK'
  BY DEF IInv, SnapOK, SameVersionAs, vars
<1> USE DEF Next, Optimistic, FixOptimistic, FixOptimisticMarked, ClearMark, ReadOptimistic,
     CheckPasses, CheckFindsMark, CheckFails, CheckClearsMark, ReturnResult,
     Pessimistic, UpgradeX, UpgradeXLoad, UpgradeXLock, UpgradeS, FixX, FixXLock, FixS,
     FixSLock, UnfixS, SetDirty, WritePart, UnfixX,
     Faulting, Fault, ReadPage, PublishUnlocked, PublishShared, FaultAt,
     Evicting, EvictVisit, TryMark, EvictLockS, EvictUpgradeClean, EvictWrite, EvictWritten,
     EvictUpgradeDirty, EvictRemove, EvictUpgrade, ReuseFrame, page, local, Load, Goto
<1>1. TypeOK /\ SnapOK
  BY DEF IInv
<1>2. word.version \in Nat /\ word'.version \in Nat /\ word'.version >= word.version
  BY <1>1, TypeStep, VersionStep, WordFields DEF TypeOK
<1> SUFFICES ASSUME NEW u \in Threads
             PROVE  /\ snap'[u].version <= word'.version
                    /\ pc'[u] = "optimistic" => snap'[u].state <= MaxShared
                    /\ pc'[u] \in {"clearMark", "checkMark", "evictLockS"} => snap'[u].state = Marked
                    /\ pc'[u] \in {"upgradeLock", "fixX"} => LockableX(snap'[u])
                    /\ pc'[u] = "fixS" => LockableS(snap'[u])
                    /\ pc'[u] = "evictMark" => snap'[u].state = Unlocked
  BY DEF SnapOK
<1>3. snap[u].version \in Nat /\ snap[u].version <= word.version
  BY <1>1, WordFields DEF TypeOK, SnapOK
<1>4. \/ snap'[u] = snap[u] \/ snap'[u] = word \/ snap'[u] = SameVersion(snap[u], Unlocked)
  BY <1>1 DEF TypeOK
<1>5. snap'[u].version <= word'.version
  BY <1>2, <1>3, <1>4 DEF SameVersion
<1>6. pc'[u] = "optimistic" => snap'[u].state <= MaxShared
  <2>1. CASE \E t \in Threads : ClearMark(t)
    BY <1>1, <2>1 DEF TypeOK, SnapOK, SameVersion, Unlocked
  <2>2. CASE \E t \in Threads : FixOptimistic(t)
    <3> HIDE DEF Next
    <3>1. word.state <= MaxShared
      BY <2>2 DEF Unlocked
    <3>2. snap'[u] = word \/ (pc'[u] = pc[u] /\ snap'[u] = snap[u])
      BY <1>1, <2>2 DEF TypeOK
    <3> QED BY <1>1, <3>1, <3>2 DEF SnapOK
  <2>3. CASE /\ ~\E t \in Threads : ClearMark(t)
             /\ ~\E t \in Threads : FixOptimistic(t)
    <3> HIDE DEF ClearMark, FixOptimistic
    <3>1. pc'[u] = "optimistic" => pc[u] = "optimistic" /\ snap'[u] = snap[u]
      BY <1>1, <2>3 DEF TypeOK
    <3> QED BY <1>1, <3>1 DEF SnapOK
  <2> QED BY <2>1, <2>2, <2>3
<1>7. pc'[u] \in {"clearMark", "checkMark", "evictLockS"} => snap'[u].state = Marked
  BY <1>1, States DEF TypeOK, SnapOK
<1>8. pc'[u] \in {"upgradeLock", "fixX"} => LockableX(snap'[u])
  BY <1>1 DEF TypeOK, SnapOK
<1>9. pc'[u] = "fixS" => LockableS(snap'[u])
  BY <1>1 DEF TypeOK, SnapOK
<1>10. pc'[u] = "evictMark" => snap'[u].state = Unlocked
  BY <1>1 DEF TypeOK, SnapOK
<1> QED BY <1>5, <1>6, <1>7, <1>8, <1>9, <1>10

LEMMA LocalsStep == IInv /\ [Next]_vars => LocalsOK'
<1> SUFFICES ASSUME IInv, Next PROVE LocalsOK'
  BY DEF IInv, LocalsOK, vars
<1> USE DEF Next, Optimistic, FixOptimistic, FixOptimisticMarked, ClearMark, ReadOptimistic,
     CheckPasses, CheckFindsMark, CheckFails, CheckClearsMark, ReturnResult,
     Pessimistic, UpgradeX, UpgradeXLoad, UpgradeXLock, UpgradeS, FixX, FixXLock, FixS,
     FixSLock, UnfixS, SetDirty, WritePart, UnfixX,
     Faulting, Fault, ReadPage, PublishUnlocked, PublishShared, FaultAt,
     Evicting, EvictVisit, TryMark, EvictLockS, EvictUpgradeClean, EvictWrite, EvictWritten,
     EvictUpgradeDirty, EvictRemove, EvictUpgrade, ReuseFrame, page, local, Load, Goto, Forget
<1>1. TypeOK /\ LocalsOK
  BY DEF IInv
<1> SUFFICES ASSUME NEW u \in Threads
             PROVE  /\ pc'[u] # "writing" => written'[u] = 0
                    /\ pc'[u] \notin OptimisticAt \cup {"checked", "shared", "locked", "writing"}
                         => seen'[u] = Nothing
  BY DEF LocalsOK
<1>2. pc'[u] # "writing" => written'[u] = 0
  BY <1>1 DEF TypeOK, LocalsOK
<1>3. pc'[u] \notin OptimisticAt \cup {"checked", "shared", "locked", "writing"} => seen'[u] = Nothing
  <2> HIDE DEF Nothing
  <2> QED BY <1>1 DEF TypeOK, LocalsOK, OptimisticAt
<1> QED BY <1>2, <1>3
-------------------------------------------------------------------------------
(* Readers: the content changes only under a word that sends them away. *)

LEMMA Exclusive ==
  ASSUME IInv, NEW t \in Threads, pc[t] \in ExclusiveAt
  PROVE  word.state = Locked /\ \A u \in Threads : pc[u] \in ExclusiveAt => u = t
BY DEF IInv, LatchHeld, Holders

LEMMA ContentStep ==
  ASSUME IInv, Next
  PROVE  /\ mem' = mem \/ (word' = word /\ word.state \in {Locked, Invalid})
         /\ word.state = Invalid => word'.state \in {Invalid, Locked}
         /\ word.state # Locked => word'.version = word.version
<1>1. mem' = mem \/ (word' = word /\ word.state \in {Locked, Invalid})
  <2>1. ASSUME NEW t \in Threads, WritePart(t) \/ ReadPage(t)
        PROVE  word' = word /\ word.state = Locked
    BY <2>1, Exclusive DEF WritePart, ReadPage, Goto, ExclusiveAt, FaultAt
  <2>2. ASSUME ReuseFrame PROVE word' = word /\ word.state \in {Locked, Invalid}
    BY <2>2, Exclusive DEF ReuseFrame, ExclusiveAt
  <2>3. CASE ~ReuseFrame /\ \A t \in Threads : ~WritePart(t) /\ ~ReadPage(t)
    <3> USE DEF Next, Optimistic, FixOptimistic, FixOptimisticMarked, ClearMark, ReadOptimistic,
         CheckPasses, CheckFindsMark, CheckFails, CheckClearsMark, ReturnResult,
         Pessimistic, UpgradeX, UpgradeXLoad, UpgradeXLock, UpgradeS, FixX, FixXLock, FixS,
         FixSLock, UnfixS, SetDirty, UnfixX, Faulting, Fault, PublishUnlocked, PublishShared,
         Evicting, EvictVisit, TryMark, EvictLockS, EvictUpgradeClean, EvictWrite, EvictWritten,
         EvictUpgradeDirty, EvictRemove, EvictUpgrade, page
    <3> QED BY <2>3
  <2> QED BY <2>1, <2>2, <2>3
<1>2. TypeOK /\ SnapOK /\ LatchHeld /\ word.state \in 0..Invalid
  BY WordFields DEF IInv, TypeOK
<1>3. ASSUME NEW t \in Threads, Frees(t) \/ Downgrades(t) PROVE word.state = Locked
  BY <1>3, Exclusive DEF Frees, Downgrades, MovesFrom
<1>4. ASSUME NEW t \in Threads, Keeps(t), word.state = Invalid PROVE word'.state \in {Invalid, Locked}
  <2>1. ~Leaves(t)
    <3>1. Leaves(t) => Cardinality(Holders(SharedAt)) > 0
      BY Counts DEF Leaves, MovesFrom
    <3> QED BY <1>2, <1>4, <3>1, States DEF LatchHeld
  <2> QED BY <1>4, <2>1, States DEF Keeps, Stays, Enters, Seizes, Upgrades, LockableS
<1>5. \/ pc' = pc /\ word' = word
      \/ \E t \in Threads : Keeps(t) /\ word'.version = word.version
      \/ \E t \in Threads : Frees(t) \/ Downgrades(t)
  BY <1>2, Kinds
<1>6. word.state = Invalid => word'.state \in {Invalid, Locked}
  BY <1>3, <1>4, <1>5, States
<1>7. word.state # Locked => word'.version = word.version
  BY <1>3, <1>5
<1> QED BY <1>1, <1>6, <1>7

LEMMA ReadersStep == IInv /\ [Next]_vars => ReadersAgree'
<1> SUFFICES ASSUME IInv, Next PROVE ReadersAgree'
  BY DEF IInv, ReadersAgree, Agrees, Holders, SameVersionAs, vars
<1> SUFFICES ASSUME NEW u \in Threads, pc'[u] \in OptimisticAt,
                    word'.version = snap'[u].version, word'.state \notin {Locked, Invalid},
                    NEW p \in Parts, p > written'[u]
             PROVE  seen'[u][p] \in {None, mem'[p]}
  BY DEF ReadersAgree, Agrees, Holders, SameVersionAs
<1>1. TypeOK /\ SnapOK /\ LocalsOK /\ ReadersAgree
  BY DEF IInv
<1>2. /\ word.version \in Nat /\ word'.version \in Nat /\ snap[u].version \in Nat
      /\ snap[u].version <= word.version
  BY <1>1, TypeStep, WordFields DEF TypeOK, SnapOK
<1>3. /\ snap'[u].version <= word.version
      /\ \/ pc[u] \in OptimisticAt /\ snap'[u].version = snap[u].version
         \/ pc[u] \in {"idle", "clearMark"}
      /\ \/ seen'[u] = seen[u] \/ seen'[u] = Nothing
         \/ \E q \in Parts : seen'[u] = [seen[u] EXCEPT ![q] = mem[q]]
  <2> USE DEF Next, Optimistic, FixOptimistic, FixOptimisticMarked, ClearMark, ReadOptimistic,
       CheckPasses, CheckFindsMark, CheckFails, CheckClearsMark, ReturnResult,
       Pessimistic, UpgradeX, UpgradeXLoad, UpgradeXLock, UpgradeS, FixX, FixXLock, FixS,
       FixSLock, UnfixS, SetDirty, WritePart, UnfixX,
       Faulting, Fault, ReadPage, PublishUnlocked, PublishShared, FaultAt,
       Evicting, EvictVisit, TryMark, EvictLockS, EvictUpgradeClean, EvictWrite, EvictWritten,
       EvictUpgradeDirty, EvictRemove, EvictUpgrade, ReuseFrame, page, local, Load, Goto
  <2>1. snap'[u].version <= word.version
    <3>1. \/ snap'[u] = snap[u] \/ snap'[u] = word \/ snap'[u] = SameVersion(snap[u], Unlocked)
      BY <1>1 DEF TypeOK
    <3> HIDE DEF Next
    <3> QED BY <1>2, <3>1 DEF SameVersion
  <2>2. \/ pc[u] \in OptimisticAt /\ snap'[u].version = snap[u].version
        \/ pc[u] \in {"idle", "clearMark"}
    <3>1. pc[u] \in OptimisticAt \cup {"idle", "clearMark"}
      BY <1>1 DEF TypeOK, OptimisticAt
    <3>2. pc[u] \in OptimisticAt =>
            snap'[u] = snap[u] \/ (snap'[u] = word /\ word.version = snap[u].version)
      BY <1>1 DEF TypeOK, SameVersionAs, OptimisticAt
    <3> QED BY <3>1, <3>2
  <2>3. \/ seen'[u] = seen[u] \/ seen'[u] = Nothing
        \/ \E q \in Parts : seen'[u] = [seen[u] EXCEPT ![q] = mem[q]]
    <3> HIDE DEF Nothing
    <3> QED BY <1>1 DEF TypeOK, Forget
  <2> QED BY <2>1, <2>2, <2>3
<1>4. word.state \notin {Locked, Invalid} /\ mem' = mem /\ word'.version = word.version
  <2>1. word.state # Locked
    BY <1>2, <1>3, VersionStep
  <2> QED BY <2>1, ContentStep
<1>5. seen[u][p] \in {None, mem[p]}
  <2>1. CASE pc[u] \in OptimisticAt
    <3>1. written[u] = 0 /\ word.version = snap[u].version
      BY <1>1, <1>2, <1>3, <1>4, <2>1 DEF LocalsOK, OptimisticAt
    <3> QED BY <1>1, <1>4, <2>1, <3>1 DEF ReadersAgree, Agrees, Holders, SameVersionAs, Parts
  <2>2. CASE pc[u] \in {"idle", "clearMark"}
    BY <1>1, <2>2 DEF LocalsOK, OptimisticAt, Nothing
  <2> QED BY <1>3, <2>1, <2>2
<1>6. Nothing[p] = None /\ seen[u] \in [Parts -> Nat \cup {None}]
  BY <1>1 DEF Nothing, TypeOK
<1> QED BY <1>3, <1>4, <1>5, <1>6
-------------------------------------------------------------------------------
(* Writers. *)

LEMMA SharedNotLocked ==
  ASSUME IInv, NEW t \in Threads, pc[t] \in SharedAt
  PROVE  word.state \in 1..MaxShared /\ \A u \in Threads : pc[u] \notin ExclusiveAt
<1>1. Cardinality(Holders(SharedAt)) > 0
  BY Counts
<1>2. word.state \in 1..MaxShared
  BY <1>1, WordFields DEF IInv, TypeOK, LatchHeld
<1> QED BY <1>2, Exclusive, States

\* Nobody but the writer touches the page or its flag while it writes.
LEMMA WriterAlone ==
  ASSUME IInv, Next, NEW u \in Threads, pc[u] \in {"locked", "writing"}
  PROVE  /\ mem' = mem \/ WritePart(u)
         /\ disk' = disk
         /\ dirty' = dirty \/ SetDirty(u)
<1> USE DEF ExclusiveAt, FaultAt, SharedAt
<1>1. /\ ~ReuseFrame
      /\ \A t \in Threads : /\ WritePart(t) \/ SetDirty(t) => t = u
                            /\ ~ReadPage(t) /\ ~EvictWrite(t) /\ ~EvictWritten(t)
  <2>1. word.state = Locked /\ Locked # Invalid
    BY Exclusive, States
  <2>2. ~ReuseFrame
    BY <2>1, Exclusive DEF ReuseFrame
  <2>3. ASSUME NEW t \in Threads, WritePart(t) \/ SetDirty(t) PROVE t = u
    BY <2>3, Exclusive DEF WritePart, SetDirty, Goto
  <2>4. ASSUME NEW t \in Threads, ReadPage(t) PROVE FALSE
    BY <2>4, Exclusive DEF ReadPage, Goto
  <2>5. ASSUME NEW t \in Threads, EvictWrite(t) \/ EvictWritten(t) PROVE FALSE
    BY <2>5, SharedNotLocked DEF EvictWrite, EvictWritten, Goto
  <2> QED BY <2>2, <2>3, <2>4, <2>5
<1> USE DEF Next, Optimistic, FixOptimistic, FixOptimisticMarked, ClearMark, ReadOptimistic,
     CheckPasses, CheckFindsMark, CheckFails, CheckClearsMark, ReturnResult,
     Pessimistic, UpgradeX, UpgradeXLoad, UpgradeXLock, UpgradeS, FixX, FixXLock, FixS,
     FixSLock, UnfixS, UnfixX, Faulting, Fault, PublishUnlocked, PublishShared,
     Evicting, EvictVisit, TryMark, EvictLockS, EvictUpgradeClean, 
     EvictUpgradeDirty, EvictRemove, EvictUpgrade, page
<1>2. mem' = mem \/ WritePart(u)
  BY <1>1 DEF SetDirty
<1>3. disk' = disk
  BY <1>1 DEF SetDirty, WritePart
<1>4. dirty' = dirty \/ SetDirty(u)
  BY <1>1 DEF WritePart
<1> QED BY <1>2, <1>3, <1>4

LEMMA WriterStep == IInv /\ [Next]_vars => WriterAgrees'
<1> SUFFICES ASSUME IInv, Next PROVE WriterAgrees'
  BY DEF IInv, WriterAgrees, Agrees, Holders, vars
<1>1. TypeOK /\ LocalsOK /\ ReadersAgree /\ WriterAgrees /\ SnapOK
  BY DEF IInv
<1>2. ASSUME NEW u \in Threads, pc'[u] \in {"locked", "writing"}
      PROVE  /\ seen'[u] = seen[u]
             /\ pc[u] \in {"locked", "writing", "upgradeLock", "fixX", "faultX"}
             /\ pc'[u] = "writing" => pc[u] = "writing" \/ SetDirty(u)
             /\ pc[u] = "upgradeLock" => word = snap[u]
             /\ written'[u] = written[u] \/ WritePart(u)
  <2> USE <1>1, <1>2
  <2> USE DEF Next, Optimistic, FixOptimistic, FixOptimisticMarked, ClearMark, ReadOptimistic,
       CheckPasses, CheckFindsMark, CheckFails, CheckClearsMark, ReturnResult,
       Pessimistic, UpgradeX, UpgradeXLoad, UpgradeXLock, UpgradeS, FixX, FixXLock, FixS,
       FixSLock, UnfixS, SetDirty, WritePart, UnfixX,
       Faulting, Fault, ReadPage, PublishUnlocked, PublishShared, FaultAt,
       Evicting, EvictVisit, TryMark, EvictLockS, EvictUpgradeClean, EvictWrite, EvictWritten,
       EvictUpgradeDirty, EvictRemove, EvictUpgrade, ReuseFrame, page, local, Load, Goto
  <2>1. pc[u] \in {"locked", "writing", "upgradeLock", "fixX", "faultX"}
    BY DEF TypeOK
  <2>2. pc'[u] = "writing" => pc[u] = "writing" \/ SetDirty(u)
    BY DEF TypeOK
  <2>3. pc[u] = "upgradeLock" => word = snap[u]
    BY DEF TypeOK, CAS
  <2>4. seen'[u] = seen[u]
    <3> HIDE DEF Nothing
    <3> QED BY DEF TypeOK, Forget
  <2>5. written'[u] = written[u] \/ WritePart(u)
    BY DEF TypeOK, Forget
  <2> QED BY <2>1, <2>2, <2>3, <2>4, <2>5
<1>3. ASSUME NEW u \in Threads, pc'[u] \in {"locked", "writing"},
             NEW p \in Parts, p > written'[u]
      PROVE  seen'[u][p] \in {None, mem'[p]}
  <2>1. CASE WritePart(u)
    <3>1. pc[u] = "writing" /\ written'[u] = written[u] + 1 /\ written[u] \in 0..NParts
          /\ mem'[p] = mem[p]
      BY <1>1, <1>3, <2>1 DEF WritePart, TypeOK, Parts
    <3>2. p > written[u]
      BY <1>3, <3>1 DEF Parts
    <3> QED BY <1>1, <1>2, <1>3, <3>1, <3>2 DEF WriterAgrees, Agrees, Holders
  <2>2. CASE pc[u] \in {"locked", "writing"} /\ ~WritePart(u)
    BY <1>1, <1>2, <1>3, <2>2, WriterAlone DEF WriterAgrees, Agrees, Holders
  <2>3. CASE pc[u] = "upgradeLock"
    <3>1. word.state \notin {Locked, Invalid} /\ word.version = snap[u].version
      BY <1>1, <1>2, <1>3, <2>3, States DEF SnapOK, LockableX
    <3>2. mem' = mem
      BY <3>1, ContentStep
    <3>3. written[u] = 0 /\ Agrees(u)
      BY <1>1, <2>3, <3>1 DEF ReadersAgree, Holders, SameVersionAs, LocalsOK, OptimisticAt
    <3> QED BY <1>2, <1>3, <3>2, <3>3 DEF Agrees, Parts
  <2>4. CASE pc[u] \in {"fixX", "faultX"}
    BY <1>1, <1>2, <1>3, <2>4 DEF LocalsOK, OptimisticAt, Nothing
  <2> QED BY <1>2, <1>3, <2>1, <2>2, <2>3, <2>4
<1>4. ASSUME NEW u \in Threads, pc'[u] = "writing" PROVE dirty'
  <2>1. CASE SetDirty(u)
    BY <2>1 DEF SetDirty
  <2>2. CASE pc[u] = "writing"
    BY <1>1, <2>2, <2>1, WriterAlone DEF WriterAgrees, Holders
  <2> QED BY <1>2, <1>4, <2>1, <2>2
<1> QED BY <1>3, <1>4 DEF WriterAgrees, Agrees, Holders
-------------------------------------------------------------------------------
(* The page and its copy. *)

\* A page that is in its frame after a step was there before, or was just read.
LEMMA FrameStep ==
  ASSUME IInv, Next, InFrame', \A t \in Threads : ~ReadPage(t)
  PROVE  InFrame /\ (mem' = mem \/ \E t \in Threads : WritePart(t))
<1>1. TypeOK /\ SnapOK /\ LatchHeld /\ TypeOK' /\ LatchHeld'
  BY TypeStep, LatchStep DEF IInv
<1>2. word'.state # Invalid /\ \A t \in Threads : pc'[t] \notin FaultAt \cup {"evictDirty"}
  BY DEF InFrame, Holders
<1>3. ASSUME NEW t \in Threads, pc[t] \in FaultAt \cup {"evictDirty"} PROVE FALSE
  <2> USE DEF Next, Optimistic, FixOptimistic, FixOptimisticMarked, ClearMark, ReadOptimistic,
       CheckPasses, CheckFindsMark, CheckFails, CheckClearsMark, ReturnResult,
       Pessimistic, UpgradeX, UpgradeXLoad, UpgradeXLock, UpgradeS, FixX, FixXLock, FixS,
       FixSLock, UnfixS, SetDirty, WritePart, UnfixX,
       Faulting, Fault, PublishUnlocked, PublishShared, FaultAt,
       Evicting, EvictVisit, TryMark, EvictLockS, EvictUpgradeClean, EvictWrite, EvictWritten,
       EvictUpgradeDirty, EvictRemove, EvictUpgrade, ReuseFrame, page, local, Load, Goto
  <2>1. EvictRemove(t)
    BY <1>1, <1>2, <1>3 DEF TypeOK
  <2> QED BY <2>1, <1>2, <1>1, States, MakeWord DEF TypeOK
<1>4. ASSUME NEW t \in Threads, word.state = Invalid, pc'[t] \in ExclusiveAt, pc[t] \notin ExclusiveAt
      PROVE  FALSE
  <2>1. \A u \in Threads : pc[u] \in {"upgradeLock", "fixX"} => word # snap[u]
    BY <1>1, <1>4, States DEF SnapOK, LockableX
  <2>2. word.state # 1
    BY <1>4, States
  <2> USE DEF Next, Optimistic, FixOptimistic, FixOptimisticMarked, ClearMark, ReadOptimistic,
       CheckPasses, CheckFindsMark, CheckFails, CheckClearsMark, ReturnResult,
       Pessimistic, UpgradeX, UpgradeXLoad, UpgradeXLock, UpgradeS, FixX, FixXLock, FixS,
       FixSLock, UnfixS, SetDirty, WritePart, UnfixX,
       Faulting, Fault, PublishUnlocked, PublishShared, FaultAt,
       Evicting, EvictVisit, TryMark, EvictLockS, EvictUpgradeClean, EvictWrite, EvictWritten,
       EvictUpgradeDirty, EvictRemove, EvictUpgrade, ReuseFrame, page, local, Load, Goto
  <2> QED BY <1>1, <1>2, <1>4, <2>1, <2>2 DEF TypeOK, CAS, ExclusiveAt
<1>5. word.state # Invalid
  <2>1. ASSUME word.state = Invalid PROVE FALSE
    <3>1. word'.state = Locked
      BY <2>1, <1>2, ContentStep
    <3>2. PICK t \in Threads : pc'[t] \in ExclusiveAt
      BY <1>1, <3>1 DEF LatchHeld, Holders
    <3>3. pc[t] \notin ExclusiveAt
      BY <2>1, Exclusive, States
    <3> QED BY <1>4, <2>1, <3>2, <3>3
  <2> QED BY <2>1
<1>6. InFrame
  BY <1>3, <1>5 DEF InFrame, Holders
<1>7. ~ReuseFrame
  BY <1>3, <1>5 DEF ReuseFrame
<1>8. mem' = mem \/ \E t \in Threads : WritePart(t)
  <2> USE DEF Next, Optimistic, FixOptimistic, FixOptimisticMarked, ClearMark, ReadOptimistic,
       CheckPasses, CheckFindsMark, CheckFails, CheckClearsMark, ReturnResult,
       Pessimistic, UpgradeX, UpgradeXLoad, UpgradeXLock, UpgradeS, FixX, FixXLock, FixS,
       FixSLock, UnfixS, SetDirty, UnfixX,
       Faulting, Fault, PublishUnlocked, PublishShared, FaultAt,
       Evicting, EvictVisit, TryMark, EvictLockS, EvictUpgradeClean, EvictWrite, EvictWritten,
       EvictUpgradeDirty, EvictRemove, EvictUpgrade, page, local, Load, Goto
  <2> QED BY <1>7
<1> QED BY <1>6, <1>8

LEMMA SharedInFrame ==
  ASSUME IInv, NEW t \in Threads, pc[t] \in SharedAt
  PROVE  InFrame /\ Holders({"writing"}) = {} /\ Whole(mem)
<1>1. InFrame /\ Holders({"writing"}) = {}
  BY SharedNotLocked, States DEF InFrame, Holders, ExclusiveAt
<1> QED BY <1>1 DEF IInv, PageWhole

LEMMA PageStep == IInv /\ [Next]_vars => PageWhole'
<1> SUFFICES ASSUME IInv, Next PROVE PageWhole'
  BY DEF IInv, PageWhole, Whole, InFrame, Holders, vars
<1>1. TypeOK /\ LocalsOK /\ WriterAgrees /\ PageWhole /\ LatchHeld
  BY DEF IInv
<1>2. Whole(disk)'
  <2>1. ASSUME NEW t \in Threads, EvictWritten(t) PROVE disk' = mem /\ Whole(mem)
    BY <2>1, SharedInFrame DEF EvictWritten, Goto, SharedAt
  <2>2. CASE \A t \in Threads : ~EvictWritten(t)
    <3> USE DEF Next, Optimistic, FixOptimistic, FixOptimisticMarked, ClearMark, ReadOptimistic,
       CheckPasses, CheckFindsMark, CheckFails, CheckClearsMark, ReturnResult,
       Pessimistic, UpgradeX, UpgradeXLoad, UpgradeXLock, UpgradeS, FixX, FixXLock, FixS,
       FixSLock, UnfixS, SetDirty, WritePart, UnfixX,
       Faulting, Fault, ReadPage, PublishUnlocked, PublishShared, FaultAt,
       Evicting, EvictVisit, TryMark, EvictLockS, EvictUpgradeClean, EvictWrite,
       EvictUpgradeDirty, EvictRemove, EvictUpgrade, ReuseFrame, page, local, Load, Goto
    <3>1. disk' = disk
      BY <2>2
    <3> QED BY <1>1, <3>1 DEF PageWhole, Whole
  <2> QED BY <2>1, <2>2 DEF Whole
<1>3. ASSUME InFrame', \A t \in Threads : pc'[t] # "writing" PROVE Whole(mem)'
  <2>1. CASE \E t \in Threads : ReadPage(t)
    BY <1>1, <2>1 DEF ReadPage, PageWhole, Whole
  <2>2. CASE (\A t \in Threads : ~ReadPage(t)) /\ \E t \in Threads : pc[t] = "writing"
    <3>1. PICK t \in Threads : pc[t] = "writing"
      BY <2>2
    <3>2. UnfixX(t)
      <4> USE DEF Next, Optimistic, FixOptimistic, FixOptimisticMarked, ClearMark, ReadOptimistic,
           CheckPasses, CheckFindsMark, CheckFails, CheckClearsMark, ReturnResult,
           Pessimistic, UpgradeX, UpgradeXLoad, UpgradeXLock, UpgradeS, FixX, FixXLock, FixS,
           FixSLock, UnfixS, SetDirty, WritePart, UnfixX,
           Faulting, Fault, ReadPage, PublishUnlocked, PublishShared, FaultAt,
           Evicting, EvictVisit, TryMark, EvictLockS, EvictUpgradeClean, EvictWrite, EvictWritten,
           EvictUpgradeDirty, EvictRemove, EvictUpgrade, ReuseFrame, page, local, Load, Goto
      <4> QED BY <1>1, <1>3, <3>1 DEF TypeOK
    <3>3. mem' = mem /\ written[t] = NParts
      BY <3>2 DEF UnfixX, page
    <3>4. ASSUME NEW p \in Parts, NEW q \in Parts PROVE mem[p] = mem[q]
      <4>1. ~(p > NParts) /\ ~(q > NParts) /\ mem[q] \in Nat
        BY <1>1 DEF Parts, TypeOK
      <4>2. mem[p] = mem[q] + (IF p <= NParts /\ q > NParts THEN 1 ELSE 0)
                            - (IF q <= NParts /\ p > NParts THEN 1 ELSE 0)
        BY <1>1, <3>1, <3>3 DEF PageWhole, Holders
      <4> QED BY <4>1, <4>2
    <3> QED BY <3>3, <3>4 DEF Whole
  <2>3. CASE (\A t \in Threads : ~ReadPage(t)) /\ \A t \in Threads : pc[t] # "writing"
    <3>1. InFrame /\ mem' = mem
      BY <1>3, <2>3, FrameStep DEF WritePart
    <3> QED BY <1>1, <2>3, <3>1 DEF PageWhole, Whole, Holders
  <2> QED BY <2>1, <2>2, <2>3
<1>4. ASSUME NEW u \in Threads, pc'[u] = "writing", NEW p \in Parts, NEW q \in Parts
      PROVE  mem'[p] = mem'[q] + (IF p <= written'[u] /\ q > written'[u] THEN 1 ELSE 0)
                               - (IF q <= written'[u] /\ p > written'[u] THEN 1 ELSE 0)
  <2>1. CASE WritePart(u)
    <3> DEFINE n == written[u] + 1
    <3>1. /\ pc[u] = "writing" /\ written'[u] = n /\ n \in Parts /\ written[u] \in 0..NParts
          /\ mem' = [mem EXCEPT ![n] = (IF seen[u][n] = None THEN mem[n] ELSE seen[u][n]) + 1]
      BY <1>1, <2>1 DEF WritePart, TypeOK, Parts
    <3>2. seen[u][n] \in {None, mem[n]}
      BY <1>1, <3>1 DEF WriterAgrees, Agrees, Holders, Parts
    <3>3. /\ mem \in [Parts -> Nat] /\ mem' = [mem EXCEPT ![n] = mem[n] + 1]
      BY <1>1, <3>1, <3>2 DEF TypeOK
    <3>4. \A i, j \in Parts : mem[i] = mem[j] + (IF i <= written[u] /\ j > written[u] THEN 1 ELSE 0)
                                             - (IF j <= written[u] /\ i > written[u] THEN 1 ELSE 0)
      BY <1>1, <3>1 DEF PageWhole, Holders
    <3>5. p \in Nat /\ q \in Nat /\ n \in Nat /\ mem[p] \in Nat /\ mem[q] \in Nat /\ mem[n] \in Nat
      BY <3>1, <3>3 DEF Parts
    <3>6. /\ mem'[p] = IF p = n THEN mem[n] + 1 ELSE mem[p]
          /\ mem'[q] = IF q = n THEN mem[n] + 1 ELSE mem[q]
      BY <3>1, <3>3
    <3>7. /\ mem[p] = mem[q] + (IF p <= written[u] /\ q > written[u] THEN 1 ELSE 0)
                             - (IF q <= written[u] /\ p > written[u] THEN 1 ELSE 0)
          /\ mem[p] = mem[n] + (IF p <= written[u] /\ n > written[u] THEN 1 ELSE 0)
                             - (IF n <= written[u] /\ p > written[u] THEN 1 ELSE 0)
          /\ mem[q] = mem[n] + (IF q <= written[u] /\ n > written[u] THEN 1 ELSE 0)
                             - (IF n <= written[u] /\ q > written[u] THEN 1 ELSE 0)
      BY <3>1, <3>4
    <3> QED BY <3>1, <3>5, <3>6, <3>7
  <2>2. CASE SetDirty(u)
    <3>1. pc[u] = "locked" /\ mem' = mem /\ written'[u] = 0
      BY <1>1, <2>2 DEF SetDirty, Goto, local, LocalsOK
    <3>2. InFrame /\ Holders({"writing"}) = {}
      BY <3>1, Exclusive, States DEF InFrame, Holders, ExclusiveAt, FaultAt
    <3>3. mem[p] = mem[q] /\ mem[q] \in Nat
      BY <1>1, <3>2 DEF PageWhole, Whole, TypeOK
    <3> QED BY <3>1, <3>3 DEF Parts
  <2>3. CASE ~WritePart(u) /\ ~SetDirty(u)
    <3>1. pc[u] = "writing" /\ written'[u] = written[u]
      <4> USE DEF Next, Optimistic, FixOptimistic, FixOptimisticMarked, ClearMark, ReadOptimistic,
           CheckPasses, CheckFindsMark, CheckFails, CheckClearsMark, ReturnResult,
           Pessimistic, UpgradeX, UpgradeXLoad, UpgradeXLock, UpgradeS, FixX, FixXLock, FixS,
           FixSLock, UnfixS, SetDirty, WritePart, UnfixX,
           Faulting, Fault, ReadPage, PublishUnlocked, PublishShared, FaultAt,
           Evicting, EvictVisit, TryMark, EvictLockS, EvictUpgradeClean, EvictWrite, EvictWritten,
           EvictUpgradeDirty, EvictRemove, EvictUpgrade, ReuseFrame, page, local, Load, Goto
      <4>1. pc[u] = "writing"
        BY <1>1, <1>4, <2>3 DEF TypeOK
      <4>2. written'[u] = written[u]
        BY <1>1, <1>4, <2>3, <4>1 DEF TypeOK, Forget
      <4> QED BY <4>1, <4>2
    <3>2. mem' = mem
      BY <2>3, <3>1, WriterAlone
    <3> QED BY <1>1, <3>1, <3>2 DEF PageWhole, Holders
  <2> QED BY <2>1, <2>2, <2>3
<1> QED BY <1>2, <1>3, <1>4 DEF PageWhole, Holders

LEMMA CleanStep == IInv /\ [Next]_vars => CleanIsOnDisk'
<1> SUFFICES ASSUME IInv, Next, InFrame', ~dirty', \A t \in Threads : pc'[t] # "evictWriting"
             PROVE  disk' = mem'
  BY DEF IInv, CleanIsOnDisk, InFrame, Holders, vars
<1>1. TypeOK /\ CleanIsOnDisk /\ WriterAgrees
  BY DEF IInv
<1>2. CASE \E t \in Threads : ReadPage(t) \/ EvictWritten(t)
  BY <1>2 DEF ReadPage, EvictWritten
<1>3. CASE \A t \in Threads : ~ReadPage(t) /\ ~EvictWritten(t)
  <2>1. InFrame /\ (mem' = mem \/ \E t \in Threads : WritePart(t))
    BY <1>3, FrameStep
  <2>2. \A t \in Threads : ~WritePart(t)
    BY <1>1 DEF WritePart, WriterAgrees, Holders
  <2>3. ~ReuseFrame
    BY <2>1 DEF ReuseFrame, InFrame, Holders
  <2> USE DEF Next, Optimistic, FixOptimistic, FixOptimisticMarked, ClearMark, ReadOptimistic,
       CheckPasses, CheckFindsMark, CheckFails, CheckClearsMark, ReturnResult,
       Pessimistic, UpgradeX, UpgradeXLoad, UpgradeXLock, UpgradeS, FixX, FixXLock, FixS,
       FixSLock, UnfixS, SetDirty, UnfixX,
       Faulting, Fault, PublishUnlocked, PublishShared, FaultAt,
       Evicting, EvictVisit, TryMark, EvictLockS, EvictUpgradeClean, EvictWrite,
       EvictUpgradeDirty, EvictRemove, EvictUpgrade, page, local, Load, Goto
  <2>4. disk' = disk /\ ~dirty
    BY <1>1, <1>3, <2>2, <2>3 DEF TypeOK
  <2>5. \A t \in Threads : pc[t] # "evictWriting"
    BY <1>1, <1>3, <2>2, <2>3 DEF TypeOK
  <2> HIDE DEF Next
  <2> QED BY <1>1, <2>1, <2>2, <2>4, <2>5 DEF CleanIsOnDisk, Holders
<1> QED BY <1>2, <1>3

LEMMA ReadStep == IInv /\ [Next]_vars => ReadIsWhole'
<1> SUFFICES ASSUME IInv, Next PROVE ReadIsWhole'
  BY DEF IInv, ReadIsWhole, Holders, vars
<1> SUFFICES ASSUME NEW u \in Threads, pc'[u] = "checked", NEW p \in Parts, NEW q \in Parts,
                    seen'[u][p] # None, seen'[u][q] # None
             PROVE  seen'[u][p] = seen'[u][q]
  BY DEF ReadIsWhole, Holders
<1>1. TypeOK /\ SnapOK /\ LocalsOK /\ ReadersAgree /\ PageWhole /\ ReadIsWhole /\ LatchHeld
  BY DEF IInv
<1>2. /\ seen'[u] = seen[u]
      /\ pc[u] = "checked" \/ CheckPasses(u) \/ (CheckClearsMark(u) /\ word = snap[u])
  <2> USE DEF Next, Optimistic, FixOptimistic, FixOptimisticMarked, ClearMark, ReadOptimistic,
       CheckFindsMark, CheckFails, ReturnResult,
       Pessimistic, UpgradeX, UpgradeXLoad, UpgradeXLock, UpgradeS, FixX, FixXLock, FixS,
       FixSLock, UnfixS, SetDirty, WritePart, UnfixX,
       Faulting, Fault, ReadPage, PublishUnlocked, PublishShared, FaultAt,
       Evicting, EvictVisit, TryMark, EvictLockS, EvictUpgradeClean, EvictWrite, EvictWritten,
       EvictUpgradeDirty, EvictRemove, EvictUpgrade, ReuseFrame, page, local, Load, Goto
  <2>1. pc[u] = "checked" \/ CheckPasses(u) \/ (CheckClearsMark(u) /\ word = snap[u])
    <3>1. \A t \in Threads : CheckPasses(t) => pc' = [pc EXCEPT ![t] = "checked"]
      BY DEF CheckPasses
    <3>2. \A t \in Threads : CheckClearsMark(t) =>
            \/ pc' = [pc EXCEPT ![t] = "checked"] /\ word = snap[t]
            \/ pc' = [pc EXCEPT ![t] = "idle"]
      BY DEF CheckClearsMark, CAS
    <3> QED BY <1>1, <3>1, <3>2 DEF TypeOK
  <2>2. seen'[u] = seen[u]
    <3> HIDE DEF Nothing
    <3> QED BY <1>1 DEF TypeOK, Forget, CheckPasses, CheckClearsMark
  <2> QED BY <2>1, <2>2
<1>3. CASE pc[u] = "checked"
  BY <1>1, <1>2, <1>3 DEF ReadIsWhole, Holders
<1>4. CASE CheckPasses(u) \/ (CheckClearsMark(u) /\ word = snap[u])
  <2>1. /\ pc[u] \in OptimisticAt /\ word.version = snap[u].version
        /\ word.state \notin {Locked, Invalid}
    BY <1>1, <1>4, WordFields, States DEF CheckPasses, CheckClearsMark, Goto, OptimisticAt,
       SameVersionAs, SnapOK, TypeOK
  <2>2. written[u] = 0 /\ Agrees(u)
    BY <1>1, <2>1 DEF ReadersAgree, Holders, SameVersionAs, LocalsOK, OptimisticAt
  <2>3. Whole(mem)
    BY <1>1, <2>1 DEF LatchHeld, PageWhole, InFrame, Holders, ExclusiveAt
  <2> QED BY <1>2, <2>2, <2>3 DEF Agrees, Whole, Parts
<1> QED BY <1>2, <1>3, <1>4

-------------------------------------------------------------------------------
(* The theorems. *)

LEMMA InvInit == Init => IInv
<1> SUFFICES ASSUME Init PROVE IInv
  OBVIOUS
<1>1. TypeOK
  BY TypeInit
<1>2. word.state = Invalid /\ \A t \in Threads : pc[t] = "idle"
  BY DEF Init, InitWord
<1>3. \A P : "idle" \notin P => Holders(P) = {}
  BY <1>2 DEF Holders
<1>4. LatchHeld
  BY <1>2, <1>3, FS_EmptySet, States DEF LatchHeld, SharedAt, ExclusiveAt, FaultAt
<1>5. SnapOK
  BY <1>2 DEF SnapOK, Init, InitWord
<1>6. LocalsOK
  BY DEF LocalsOK, Init
<1>7. PageWhole
  BY <1>2 DEF PageWhole, Whole, InFrame, Holders, Init
<1> QED BY <1>1, <1>2, <1>4, <1>5, <1>6, <1>7 DEF IInv, ReadersAgree, WriterAgrees, Holders,
        OptimisticAt, CleanIsOnDisk, InFrame, ReadIsWhole

\* The conjunction that carries the proofs is an invariant of the latch protocol.
THEOREM Inductive == Spec => []IInv
<1>1. IInv /\ [Next]_vars => IInv'
  BY TypeStep, LatchStep, SnapStep, LocalsStep, ReadersStep, WriterStep, PageStep, CleanStep,
     ReadStep DEF IInv
<1> QED BY InvInit, <1>1, PTL DEF Spec

\* Every variable keeps its type.
THEOREM TypeCorrect == Spec => []TypeOK
<1>1. IInv => TypeOK
  BY DEF IInv
<1> QED BY Inductive, <1>1, PTL

\* Mutual exclusion: the state of the word is what the threads hold, for any number
\* of them and any limit of shared holders.
THEOREM MutualExclusion == Spec => []LatchHeld
<1>1. IInv => LatchHeld
  BY DEF IInv
<1> QED BY Inductive, <1>1, PTL

\* No read that passed its check is torn, whatever the number of parts.
THEOREM OptimisticReads == Spec => []ReadIsWhole
<1>1. IInv => ReadIsWhole
  BY DEF IInv
<1> QED BY Inductive, <1>1, PTL

\* No page is dropped from memory while its copy on the device is older.
THEOREM CleanPages == Spec => []CleanIsOnDisk
<1>1. IInv => CleanIsOnDisk
  BY DEF IInv
<1> QED BY Inductive, <1>1, PTL

-------------------------------------------------------------------------------
(***************************************************************************)
(* Proof that PageLatch implements AtomicPage: whatever the guards, the    *)
(* evictor and the fault handler do to the word, the frame and the device, *)
(* the content of the page changes only when the last part of an update is *)
(* written, and a read takes place at the moment of its check.             *)
(***************************************************************************)

(* The evictor relies on the page staying clean from the moment its write    *)
(* has begun, and the clean path on what it read before it had the lock.     *)

CleanAt == {"evictWriting", "evictWritten", "evictClean"}
EvictorClean == \A t \in Threads : pc[t] \in CleanAt => ~dirty

LEMMA EvictorStep == IInv /\ EvictorClean /\ [Next]_vars => EvictorClean'
<1> SUFFICES ASSUME IInv, EvictorClean, Next, NEW u \in Threads, pc'[u] \in CleanAt
             PROVE  ~dirty'
  BY DEF EvictorClean, vars
<1>1. TypeOK
  BY DEF IInv
<1>2. CASE \E t \in Threads : EvictWrite(t)
  BY <1>2 DEF EvictWrite
<1>3. CASE \A t \in Threads : ~EvictWrite(t)
  <2>1. ~dirty /\ (pc[u] \in CleanAt \/ pc[u] = "evictCandidate")
    <3>1. pc[u] \in CleanAt \/ EvictUpgradeClean(u)
      <4> USE DEF Next, Optimistic, FixOptimistic, FixOptimisticMarked, ClearMark, ReadOptimistic,
           CheckPasses, CheckFindsMark, CheckFails, CheckClearsMark, ReturnResult,
           Pessimistic, UpgradeX, UpgradeXLoad, UpgradeXLock, UpgradeS, FixX, FixXLock, FixS,
           FixSLock, UnfixS, SetDirty, WritePart, UnfixX,
           Faulting, Fault, ReadPage, PublishUnlocked, PublishShared, FaultAt,
           Evicting, EvictVisit, TryMark, EvictLockS, EvictWritten,
           EvictUpgradeDirty, EvictRemove, ReuseFrame, page, local, Load, Goto
      <4>1. ASSUME NEW t \in Threads, EvictUpgradeDirty(t)
            PROVE  /\ pc[t] = "evictWritten"
                   /\ pc' = [pc EXCEPT ![t] = "evictDirty"] \/ pc' = [pc EXCEPT ![t] = "idle"]
        BY <4>1 DEF EvictUpgrade
      <4>2. ASSUME NEW t \in Threads, EvictUpgradeClean(t), t # u PROVE pc'[u] = pc[u]
        BY <1>1, <4>2 DEF EvictUpgradeClean, EvictUpgrade, TypeOK
      <4> HIDE DEF EvictUpgradeDirty
      <4> QED BY <1>1, <1>3, <4>1, <4>2 DEF TypeOK, CleanAt
    <3> QED BY <3>1 DEF EvictorClean, EvictUpgradeClean, EvictUpgrade, Goto
  <2>2. pc[u] \in SharedAt \cup ExclusiveAt
    BY <2>1 DEF CleanAt, SharedAt, ExclusiveAt
  <2>3. \A t \in Threads : ~SetDirty(t)
    BY <2>1, <2>2, Exclusive, SharedNotLocked DEF SetDirty, Goto, ExclusiveAt, CleanAt
  <2>4. ~ReuseFrame
    <3>1. word.state # Invalid
      BY <2>2, Exclusive, SharedNotLocked, States
    <3>2. \A t \in Threads : pc[t] # "evictDirty"
      BY <2>1, <2>2, Exclusive, SharedNotLocked DEF ExclusiveAt, CleanAt
    <3> QED BY <3>1, <3>2 DEF ReuseFrame
  <2> USE DEF Next, Optimistic, FixOptimistic, FixOptimisticMarked, ClearMark, ReadOptimistic,
       CheckPasses, CheckFindsMark, CheckFails, CheckClearsMark, ReturnResult,
       Pessimistic, UpgradeX, UpgradeXLoad, UpgradeXLock, UpgradeS, FixX, FixXLock, FixS,
       FixSLock, UnfixS, WritePart, UnfixX,
       Faulting, Fault, ReadPage, PublishUnlocked, PublishShared,
       Evicting, EvictVisit, TryMark, EvictLockS, EvictUpgradeClean, EvictWritten,
       EvictUpgradeDirty, EvictRemove, EvictUpgrade, page
  <2> QED BY <1>3, <2>1, <2>3, <2>4
<1> QED BY <1>2, <1>3

-------------------------------------------------------------------------------
(* The content. *)

\* Only the removal of a page makes its word Invalid.
LEMMA RemovalOnly ==
  ASSUME IInv, Next, word.state # Invalid, \A t \in Threads : ~EvictRemove(t)
  PROVE  word'.state # Invalid
<1>1. TypeOK /\ SnapOK
  BY DEF IInv
<1>2. \A t \in Threads : UnfixX(t) \/ PublishUnlocked(t) => word'.state # Invalid
  BY States DEF UnfixX, PublishUnlocked, NextVersion
<1>3. ASSUME NEW t \in Threads, Keeps(t) PROVE word'.state # Invalid
  <2>1. CASE Leaves(t)
    BY <1>1, <2>1, SharedNotLocked, SharedWord, States DEF Leaves, MovesFrom, TypeOK
  <2>2. CASE Enters(t)
    BY <1>1, <2>2, SharedWord, WordFields, States DEF Enters, LockableS, TypeOK
  <2> QED BY <1>3, <2>1, <2>2, States DEF Keeps, Stays, Seizes, Upgrades
<1>4. ASSUME NEW t \in Threads, Frees(t) PROVE UnfixX(t) \/ PublishUnlocked(t)
  <2>1. pc[t] \in ExclusiveAt /\ pc'[t] \notin ExclusiveAt /\ pc'[t] \notin SharedAt
    BY <1>4 DEF Frees, MovesFrom, Outside
  <2> USE DEF Next, Optimistic, FixOptimistic, FixOptimisticMarked, ClearMark, ReadOptimistic,
       CheckPasses, CheckFindsMark, CheckFails, CheckClearsMark, ReturnResult,
       Pessimistic, UpgradeX, UpgradeXLoad, UpgradeXLock, UpgradeS, FixX, FixXLock, FixS,
       FixSLock, UnfixS, SetDirty, WritePart, UnfixX,
       Faulting, Fault, ReadPage, PublishUnlocked, PublishShared, FaultAt,
       Evicting, EvictVisit, TryMark, EvictLockS, EvictUpgradeClean, EvictWrite, EvictWritten,
       EvictUpgradeDirty, EvictUpgrade, ReuseFrame, page, local, Load, Goto
  <2> QED BY <1>1, <2>1 DEF TypeOK, ExclusiveAt, SharedAt
<1>5. \A t \in Threads : Downgrades(t) => word'.state # Invalid
  BY States DEF Downgrades
<1> QED BY <1>1, <1>2, <1>3, <1>4, <1>5, Kinds

\* A page that leaves its frame equals its copy on the device.
LEMMA LeavesClean ==
  ASSUME IInv, EvictorClean, Next, InFrame, ~InFrame'
  PROVE  mem = disk /\ disk' = disk
<1>1. TypeOK /\ LatchHeld /\ CleanIsOnDisk
  BY DEF IInv
<1>2. word.state # Invalid /\ \A t \in Threads : pc[t] \notin FaultAt \cup {"evictDirty"}
  BY DEF InFrame, Holders
<1>3. ASSUME NEW t \in Threads, EvictRemove(t) PROVE mem = disk /\ disk' = disk
  <2>1. pc[t] = "evictClean" /\ pc[t] \in ExclusiveAt
    BY <1>2, <1>3 DEF EvictRemove, Goto, ExclusiveAt
  <2>2. \A u \in Threads : pc[u] # "evictWriting"
    BY <2>1, Exclusive, SharedNotLocked, States DEF SharedAt
  <2> QED BY <1>1, <1>3, <2>1, <2>2 DEF CleanIsOnDisk, EvictorClean, CleanAt, Holders,
           EvictRemove, page
<1>4. ASSUME NEW t \in Threads, EvictUpgradeDirty(t), word.state = 1
      PROVE  mem = disk /\ disk' = disk
  <2>1. pc[t] = "evictWritten" /\ pc[t] \in SharedAt
    BY <1>4 DEF EvictUpgradeDirty, EvictUpgrade, Goto, SharedAt
  <2>2. Cardinality(Holders(SharedAt)) = 1
    BY <1>1, <1>4 DEF LatchHeld
  <2>3. \A u \in Threads : pc[u] \in SharedAt => u = t
    <3>1. /\ IsFiniteSet(Holders(SharedAt))
          /\ Cardinality(Holders(SharedAt) \ {t}) = Cardinality(Holders(SharedAt)) - 1
      BY <2>1, Counts
    <3>2. IsFiniteSet(Holders(SharedAt) \ {t})
      BY <3>1, FS_Subset
    <3>3. Holders(SharedAt) \ {t} = {}
      BY <2>2, <3>1, <3>2, FS_EmptySet
    <3> QED BY <3>3 DEF Holders
  <2>4. \A u \in Threads : pc[u] # "evictWriting"
    BY <2>1, <2>3 DEF SharedAt
  <2> QED BY <1>1, <1>4, <2>1, <2>4 DEF CleanIsOnDisk, EvictorClean, CleanAt, Holders,
           EvictUpgradeDirty, EvictUpgrade, page
<1>5. ASSUME \A t \in Threads : ~EvictRemove(t),
             \A t \in Threads : EvictUpgradeDirty(t) => word.state # 1
      PROVE  FALSE
  <2>1. word'.state # Invalid
    BY <1>2, <1>5, RemovalOnly
  <2>2. \A t \in Threads : pc'[t] \notin FaultAt \cup {"evictDirty"}
    <3> USE DEF Next, Optimistic, FixOptimistic, FixOptimisticMarked, ClearMark, ReadOptimistic,
         CheckPasses, CheckFindsMark, CheckFails, CheckClearsMark, ReturnResult,
         Pessimistic, UpgradeX, UpgradeXLoad, UpgradeXLock, UpgradeS, FixX, FixXLock, FixS,
         FixSLock, UnfixS, SetDirty, WritePart, UnfixX,
         Faulting, Fault, ReadPage, PublishUnlocked, PublishShared, FaultAt,
         Evicting, EvictVisit, TryMark, EvictLockS, EvictUpgradeClean, EvictWrite, EvictWritten,
         EvictUpgradeDirty, EvictUpgrade, ReuseFrame, page, local, Load, Goto
    <3> QED BY <1>1, <1>2, <1>5 DEF TypeOK
  <2> QED BY <2>1, <2>2 DEF InFrame, Holders
<1> QED BY <1>3, <1>4, <1>5

\* Only the write of the last part changes the content.
LEMMA ContentSame ==
  ASSUME IInv, EvictorClean, Next, \A t \in Threads : ~WritePart(t)
  PROVE  Content' = Content
<1>1. CASE \E t \in Threads : ReadPage(t)
  <2>1. PICK t \in Threads : ReadPage(t)
    BY <1>1
  <2>2. pc[t] \in FaultAt /\ mem' = disk /\ disk' = disk /\ word' = word
    BY <2>1 DEF ReadPage, Goto, FaultAt
  <2>3. ~InFrame
    BY <2>2 DEF InFrame, Holders
  <2>4. InFrame'
    <3>1. word'.state = Locked
      BY <2>2, Exclusive DEF ExclusiveAt
    <3>2. \A u \in Threads : u # t => pc[u] \notin ExclusiveAt /\ pc'[u] = pc[u]
      BY <2>1, <2>2, Exclusive DEF ExclusiveAt, IInv, TypeOK, ReadPage, Goto
    <3>3. pc'[t] \in {"loadedO", "loadedS", "locked"}
      BY <2>1 DEF ReadPage, Goto, IInv, TypeOK
    <3> QED BY <3>1, <3>2, <3>3, States DEF InFrame, Holders, FaultAt, ExclusiveAt
  <2> QED BY <2>2, <2>3, <2>4 DEF Content
<1>2. CASE InFrame' /\ \A t \in Threads : ~ReadPage(t)
  BY <1>2, FrameStep DEF Content
<1>3. CASE InFrame /\ ~InFrame'
  BY <1>3, LeavesClean DEF Content
<1>4. CASE ~InFrame /\ ~InFrame'
  <2>1. \A t \in Threads : ~EvictWritten(t)
    BY <1>4, SharedInFrame DEF EvictWritten, Goto, SharedAt
  <2>2. disk' = disk
    <3> USE DEF Next, Optimistic, FixOptimistic, FixOptimisticMarked, ClearMark, ReadOptimistic,
         CheckPasses, CheckFindsMark, CheckFails, CheckClearsMark, ReturnResult,
         Pessimistic, UpgradeX, UpgradeXLoad, UpgradeXLock, UpgradeS, FixX, FixXLock, FixS,
         FixSLock, UnfixS, SetDirty, WritePart, UnfixX,
         Faulting, Fault, ReadPage, PublishUnlocked, PublishShared,
         Evicting, EvictVisit, TryMark, EvictLockS, EvictUpgradeClean, EvictWrite,
         EvictUpgradeDirty, EvictRemove, EvictUpgrade, ReuseFrame, page
    <3> QED BY <2>1
  <2> QED BY <1>4, <2>2 DEF Content
<1> QED BY <1>1, <1>2, <1>3, <1>4

\* The write of a part advances the content if the part is the last one, and else
\* leaves it alone: the writer builds on what the page holds.
LEMMA ContentAdvances ==
  ASSUME IInv, NEW t \in Threads, WritePart(t)
  PROVE  Content' = Content \/ Content' = Content + 1
<1>1. TypeOK /\ WriterAgrees /\ LocalsOK
  BY DEF IInv
<1>2. pc[t] = "writing" /\ written[t] + 1 \in Parts
  BY <1>1 DEF WritePart, TypeOK, Parts
<1>3. /\ pc' = pc /\ word' = word /\ InFrame
  <2>1. word.state = Locked /\ \A u \in Threads : u # t => pc[u] \notin ExclusiveAt
    BY <1>2, Exclusive DEF ExclusiveAt
  <2> QED BY <1>2, <2>1, States DEF WritePart, InFrame, Holders, ExclusiveAt, FaultAt
<1>4. InFrame'
  BY <1>3 DEF InFrame, Holders
<1>5. seen[t][written[t] + 1] \in {None, mem[written[t] + 1]}
  BY <1>1, <1>2 DEF WriterAgrees, Agrees, Holders, TypeOK
<1>6. mem' = [mem EXCEPT ![written[t] + 1] = mem[written[t] + 1] + 1]
  BY <1>5 DEF WritePart
<1> QED BY <1>1, <1>3, <1>4, <1>6 DEF Content, TypeOK, Parts

-------------------------------------------------------------------------------
(* The results. *)

\* A step that is not about a checked read changes no result.
LEMMA ResultSame ==
  ASSUME IInv, Next, \A t \in Threads : ~CheckPasses(t) /\ ~CheckClearsMark(t) /\ ~ReturnResult(t)
  PROVE  Result' = Result
<1>1. TypeOK
  BY DEF IInv
<1>2. ASSUME NEW u \in Threads
      PROVE  /\ pc'[u] = "checked" <=> pc[u] = "checked"
             /\ pc[u] = "checked" => seen'[u] = seen[u]
  <2> USE DEF Next, Optimistic, FixOptimistic, FixOptimisticMarked, ClearMark, ReadOptimistic,
       CheckFindsMark, CheckFails,
       Pessimistic, UpgradeX, UpgradeXLoad, UpgradeXLock, UpgradeS, FixX, FixXLock, FixS,
       FixSLock, UnfixS, SetDirty, WritePart, UnfixX,
       Faulting, Fault, ReadPage, PublishUnlocked, PublishShared, FaultAt,
       Evicting, EvictVisit, TryMark, EvictLockS, EvictUpgradeClean, EvictWrite, EvictWritten,
       EvictUpgradeDirty, EvictRemove, EvictUpgrade, ReuseFrame, page, local, Load, Goto
  <2>1. pc'[u] = "checked" <=> pc[u] = "checked"
    BY <1>1 DEF TypeOK
  <2>2. pc[u] = "checked" => seen'[u] = seen[u]
    <3> HIDE DEF Nothing
    <3> QED BY <1>1 DEF TypeOK, Forget
  <2> QED BY <2>1, <2>2
<1> QED BY <1>2 DEF Result

\* A read that passes its check has read the content as it is at that moment.
LEMMA ResultRead ==
  ASSUME IInv, NEW t \in Threads, CheckPasses(t) \/ (CheckClearsMark(t) /\ pc'[t] = "checked")
  PROVE  /\ Result[t] = None
         /\ Result' = Result \/ Result' = [Result EXCEPT ![t] = Content]
<1>1. TypeOK /\ SnapOK /\ LocalsOK /\ ReadersAgree /\ LatchHeld
  BY DEF IInv
<1>2. /\ pc[t] \in OptimisticAt /\ pc' = [pc EXCEPT ![t] = "checked"] /\ seen' = seen
      /\ word.version = snap[t].version /\ word.state \in 0..Marked
  <2>1. CASE CheckPasses(t)
    BY <1>1, <2>1, WordFields, States DEF CheckPasses, Goto, OptimisticAt, SameVersionAs, TypeOK, local
  <2>2. CASE CheckClearsMark(t) /\ pc'[t] = "checked"
    BY <1>1, <2>2, WordFields, States DEF CheckClearsMark, CAS, Goto, OptimisticAt, SnapOK, TypeOK, local
  <2> QED BY <2>1, <2>2
<1>3. Result[t] = None
  BY <1>2 DEF Result, OptimisticAt
<1>4. written[t] = 0 /\ Agrees(t)
  BY <1>1, <1>2, States DEF ReadersAgree, Holders, SameVersionAs, LocalsOK, OptimisticAt
<1>5. Content = mem[NParts]
  <2>1. InFrame
    BY <1>1, <1>2, States DEF InFrame, LatchHeld, Holders, ExclusiveAt, FaultAt
  <2> QED BY <2>1 DEF Content
<1>6. seen[t][NParts] # None => seen[t][NParts] = Content
  BY <1>4, <1>5 DEF Agrees, Parts
<1>7. \A u \in Threads : u # t => Result'[u] = Result[u]
  BY <1>1, <1>2 DEF Result, TypeOK
<1>8. Result'[t] \in {None, Content}
  BY <1>1, <1>2, <1>6 DEF Result, TypeOK, Parts
<1> QED BY <1>3, <1>7, <1>8 DEF Result

\* A read that returns, or fails its check at the last moment, leaves no result.
LEMMA ResultForgotten ==
  ASSUME IInv, NEW t \in Threads,
         ReturnResult(t) \/ (CheckClearsMark(t) /\ pc'[t] # "checked")
  PROVE  Result' = [Result EXCEPT ![t] = None]
<1>1. TypeOK
  BY DEF IInv
<1>2. pc' = [pc EXCEPT ![t] = "idle"] /\ seen' = [seen EXCEPT ![t] = Nothing]
  BY <1>1 DEF ReturnResult, CheckClearsMark, Goto, Forget, TypeOK
<1>3. \A u \in Threads : u # t => Result'[u] = Result[u]
  BY <1>1, <1>2 DEF Result, TypeOK
<1>4. Result'[t] = None
  BY <1>1, <1>2 DEF Result, TypeOK
<1> QED BY <1>3, <1>4 DEF Result

-------------------------------------------------------------------------------
LEMMA Simulates ==
  ASSUME IInv, EvictorClean, [Next]_vars
  PROVE  [Abstract!Next]_(Abstract!vars)
<1>1. CASE UNCHANGED vars
  BY <1>1 DEF vars, Abstract!vars, Content, Result, InFrame, Holders
<1>2. CASE \E t \in Threads : WritePart(t)
  <2>1. PICK t \in Threads : WritePart(t)
    BY <1>2
  <2>2. Result' = Result
    BY <2>1 DEF WritePart, Result
  <2> QED BY <2>1, <2>2, ContentAdvances DEF Abstract!Next, Abstract!Update, Abstract!vars
<1>3. CASE Next /\ \A t \in Threads : ~WritePart(t)
  <2>1. Content' = Content
    BY <1>3, ContentSame
  <2>2. CASE \E t \in Threads : CheckPasses(t) \/ (CheckClearsMark(t) /\ pc'[t] = "checked")
    BY <2>1, <2>2, ResultRead DEF Abstract!Next, Abstract!Read, Abstract!vars
  <2>3. CASE \E t \in Threads : ReturnResult(t) \/ (CheckClearsMark(t) /\ pc'[t] # "checked")
    BY <2>1, <2>3, ResultForgotten DEF Abstract!Next, Abstract!Forget, Abstract!vars
  <2>4. CASE \A t \in Threads : ~CheckPasses(t) /\ ~CheckClearsMark(t) /\ ~ReturnResult(t)
    BY <1>3, <2>1, <2>4, ResultSame DEF Abstract!vars
  <2> QED BY <2>2, <2>3, <2>4
<1> QED BY <1>1, <1>2, <1>3

\* Latching one page implements AtomicPage, for any number of threads, parts and
\* shared holders: no update is lost or torn, and every checked read returns the
\* content of the moment of its check.
THEOREM Refinement == Spec => ImplementsAtomicPage
<1>1. Init => Abstract!Init
  <2> SUFFICES ASSUME Init PROVE Abstract!Init
    OBVIOUS
  <2>1. Content = 0
    BY DEF Init, InitWord, Content, InFrame, Parts
  <2>2. Result = [t \in Threads |-> None]
    BY DEF Init, Result
  <2> QED BY <2>1, <2>2 DEF Abstract!Init
<1>2. Init => EvictorClean
  BY DEF Init, EvictorClean, CleanAt
<1>3. IInv /\ EvictorClean /\ [Next]_vars => [Abstract!Next]_(Abstract!vars)
  BY Simulates
<1> QED BY Inductive, EvictorStep, <1>1, <1>2, <1>3, PTL DEF Spec, ImplementsAtomicPage,
        Abstract!Spec
==============================================================================
