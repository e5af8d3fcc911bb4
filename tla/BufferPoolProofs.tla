---------------------------- MODULE BufferPoolProofs ---------------------------
(***************************************************************************)
(* What the buffer manager promises for any number of pages, frames and    *)
(* threads: pages are held by one thread or by as many readers as the      *)
(* latch counts, eviction knows the pages that can be reached, intended    *)
(* slots are predicted right, and, as long as promoteLocked moves the page *)
(* that is in the slot, no frame has two pages.                            *)
(***************************************************************************)
EXTENDS BufferPool, FiniteSetTheorems, TLAPS

-------------------------------------------------------------------------------
(* Who holds what. *)

EvictPhases == {"getFree", "evict", "dropClean", "freeClean", "upgrade"}
MovePhases == {"placeMover", "moveCopy", "moveSwitch"}
PromotePhases == {"promote", "readMover", "lockMover", "copyHome", "switchHome", "unlock"}

\* A thread holds exclusively the page it works on, the page it moves away, and
\* the pages its eviction is to drop; it shares the pages its eviction writes.
HasPid(t, p) == /\ pid[t] = p
                /\ \/ pc[t] \in {"track", "place", "fill", "useX", "unfixX"}
                   \/ pc[t] \in EvictPhases \cup MovePhases \cup PromotePhases
HasMover(t, p) == mover[t] = p /\ pc[t] \in EvictPhases \cup MovePhases
HasX(t, p) == HasPid(t, p) \/ HasMover(t, p) \/ p \in toEvict[t]
HasS(t, p) == (pid[t] = p /\ pc[t] = "useS") \/ p \in toWrite[t]

Types == /\ setup \in Setup
         /\ owner \in [Frames -> Pids \cup {NoPid}]
         /\ latch \in [Pids -> 0..Invalid]
         /\ where \in [Pids -> Places] /\ inPlace \in [Pids -> BOOLEAN]
         /\ residentSet \subseteq Pids
         /\ pc \in [Threads -> Phases]
         /\ pid \in [Threads -> Pids \cup {0}]
         /\ mover \in [Threads -> Pids \cup {NoPid}]
         /\ spot \in [Threads -> Places]
         /\ toWrite \in [Threads -> SUBSET Pids]
         /\ toEvict \in [Threads -> SUBSET Pids]

\* What a thread's registers are at each place.
Registers(t) ==
  /\ pc[t] # "idle" => pid[t] \in Pids
  /\ toWrite[t] # {} => pc[t] \in {"evict", "dropClean", "freeClean", "upgrade"}
  /\ toEvict[t] # {} => pc[t] \in {"dropClean", "upgrade"}
  /\ pc[t] = "dropClean" => \A p, q \in toEvict[t] : p = q
  /\ mover[t] # NoPid => pc[t] \in EvictPhases \cup MovePhases \cup {"lockMover"}
  /\ pc[t] \in MovePhases => mover[t] \in Pids
Consistent == \A t \in Threads : Registers(t)

\* Exclusive holds: a page is in one role of one thread, and its latch is locked.
OneRole(t, p) == /\ HasPid(t, p) => ~HasMover(t, p) /\ p \notin toEvict[t]
                 /\ HasMover(t, p) => p \notin toEvict[t]
Exclusive == \A t \in Threads, p \in Pids :
               /\ OneRole(t, p)
               /\ HasX(t, p) => latch[p] = Locked /\ \A u \in Threads : HasX(u, p) => u = t

\* Shared holds: the latch counts them.
Sharers(p) == {t \in Threads : HasS(t, p)}
Count(s) == IF s <= MaxShared THEN s ELSE 0
Counted == \A p \in Pids : Cardinality(Sharers(p)) = Count(latch[p])

LatchInv == Types /\ Consistent /\ Exclusive /\ Counted

-------------------------------------------------------------------------------
\* Eviction knows the pages of the pool: a holder has put its page in the resident
\* set, unless it has just inserted it or is about to remove it.
Known(t) == /\ pc[t] = "track" => pid[t] \notin residentSet
            /\ \A p \in Pids : (HasPid(t, p) /\ pc[t] # "track") \/ HasMover(t, p) => p \in residentSet
Tracked == /\ \A p \in Pids : latch[p] <= Marked => p \in residentSet
           /\ \A p \in residentSet : latch[p] # Invalid
           /\ \A t \in Threads : Known(t)

-------------------------------------------------------------------------------
\* A page that has a frame: nobody holds it exclusively, or its holder has placed
\* it and not freed its frame yet.
KeepsPlace(t, p) ==
  \/ HasPid(t, p) /\ pc[t] \in {"fill", "useX", "unfixX"} \cup MovePhases \cup PromotePhases
  \/ HasPid(t, p) /\ pc[t] \in EvictPhases /\ mover[t] # NoPid
  \/ HasMover(t, p)
  \/ p \in toEvict[t] /\ pc[t] = "dropClean"
Placed(p) == latch[p] <= Marked \/ \E t \in Threads : KeepsPlace(t, p)

\* The page it moves has been, or is to be, in its home frame when intendedSlot is set.
Predicted(p) == inPlace[p] => where[p] = Home(p)
Predictions == /\ \A p \in Pids : latch[p] <= Marked => Predicted(p)
               /\ \A t \in Threads, p \in Pids :
                    /\ KeepsPlace(t, p) /\ ~HasMover(t, p) => Predicted(p)
                    /\ HasMover(t, p) /\ pc[t] = "placeMover" => Predicted(p)
                    /\ HasMover(t, p) /\ pc[t] # "placeMover" /\ inPlace[p] =>
                         pc[t] \in {"moveCopy", "moveSwitch"} /\ spot[t] = Home(p)

-------------------------------------------------------------------------------
\* The frames a thread has claimed beside those of the pages it has placed: the home
\* it promotes to, the frame it moves a page to, and the frame it is about to free.
Promotes(t) == pc[t] \in {"copyHome", "switchHome"}
Moves(t) == pc[t] \in {"moveCopy", "moveSwitch"}
Frees(t) == pc[t] = "freeClean"

Owned == /\ \A p \in Pids : Placed(p) => where[p] \in Frames /\ owner[where[p]] = p
         /\ \A t \in Threads :
              /\ Promotes(t) => owner[Home(pid[t])] = pid[t]
              /\ Moves(t) => spot[t] \in Frames /\ owner[spot[t]] = mover[t]
              /\ Frees(t) => spot[t] \in Frames /\ owner[spot[t]] # NoPid

\* A frame that is about to be freed is nobody else's, whatever page virtMemPids says.
Abandoned(f) == /\ \A p \in Pids : Placed(p) => where[p] # f
                /\ \A u \in Threads : /\ Promotes(u) => Home(pid[u]) # f
                                      /\ Moves(u) => spot[u] # f
FreedOnce == \A t \in Threads : Frees(t) =>
               /\ Abandoned(spot[t])
               /\ \A u \in Threads : Frees(u) /\ spot[u] = spot[t] => u = t

\* The page that is moved away is still in the slot.
InSlot == \A t \in Threads, p \in Pids : HasMover(t, p) => where[p] = Home(pid[t])

FrameInv == Owned /\ FreedOnce /\ InSlot

-------------------------------------------------------------------------------
(* The registers.  A step changes those of one thread. *)

Step(t) == Fixing(t) \/ Optimistic(t) \/ Promoting(t) \/ Evicting(t)

\* The registers that holds are made of.
Same(u) == /\ pc'[u] = pc[u] /\ pid'[u] = pid[u] /\ mover'[u] = mover[u] /\ spot'[u] = spot[u]
           /\ toWrite'[u] = toWrite[u] /\ toEvict'[u] = toEvict[u]
Alone(t) == \A u \in Threads \ {t} : Same(u)

LEMMA HomeIsFrame == ASSUME Types, NEW p \in Pids PROVE Home(p) \in Frames
  BY DEF Types, Setup, Home

LEMMA NoPidIsNone == NoPid \notin Pids
  <1>1. NoPid \in Nat BY PidsAssumption, FS_CardinalityType DEF NoPid
  <1>2. QED BY <1>1, PidsAssumption DEF NoPid

LEMMA TypesInit == Init => Types /\ Consistent
  <1> SUFFICES ASSUME Init PROVE Types /\ Consistent OBVIOUS
  <1>1. setup \in Setup BY SetupsAssumption DEF Init
  <1>2. Types BY <1>1, MaxSharedAssumption
    DEF Init, Types, Invalid, Places, Phases
  <1>3. Consistent
    BY DEF Init, Consistent, Registers, EvictPhases, MovePhases
  <1>4. QED BY <1>2, <1>3

LEMMA StepAlone ==
  ASSUME Types, NEW t \in Threads, Step(t) PROVE Alone(t)
  <1> USE DEF Types, Alone, Same, Goto, Done, frames, table, guard, promo, batch
  <1>1. CASE Fixing(t)
    BY <1>1 DEF Fixing, Alloc, Track, Place, Fill, Fault, FixX, FixS, Update, UnfixX, Unlock, UnfixS,
                ReadRole
  <1>2. CASE Optimistic(t)
    BY <1>2 DEF Optimistic, OptimisticStart, Access, ClearMark, ReadO, CheckO, ReleaseO, UpgradeX
  <1>3. CASE Promoting(t)
    BY <1>3 DEF Promoting, TryPromote, PromoteClaim, ReadMover, LockMover, PlaceMover, MoveCopy,
                MoveSwitch, CopyHome, SwitchHome, UnlockPromoted, Unlock
  <1>4. CASE Evicting(t)
    BY <1>4 DEF Evicting, TakeFree, Evict, EvictWrite, FreeClean, EvictDone, EvictVisit, EvictUpgrade,
                Untrack, Remove
  <1>5. QED BY <1>1, <1>2, <1>3, <1>4 DEF Step

LEMMA SetupFields ==
  ASSUME setup \in Setup
  PROVE  /\ setup.pages \subseteq Pids /\ setup.intended \in [Pids -> Frames]
         /\ setup.predicts \in BOOLEAN /\ setup.guards \subseteq {"O", "S", "X"}
  BY DEF Setup

\* A page with a sharer has a latch between 1 and MaxShared.
LEMMA SharedLatch ==
  ASSUME Types, Counted, NEW t \in Threads, NEW p \in Pids, HasS(t, p)
  PROVE  latch[p] \in 1..MaxShared
  <1>1. t \in Sharers(p) /\ IsFiniteSet(Sharers(p))
    BY ThreadsAssumption, FS_Subset DEF Sharers
  <1>2. Cardinality(Sharers(p)) \in Nat \ {0}
    BY <1>1, FS_CardinalityType, FS_EmptySet
  <1>3. QED BY <1>2, MaxSharedAssumption DEF Counted, Count, Types, Invalid

LEMMA StepTypes ==
  ASSUME Types, Consistent, Counted, NEW t \in Threads, Step(t), UNCHANGED setup
  PROVE  Types'
  <1> DEFINE p == pid[t]
  <1> USE SetupFields, MaxSharedAssumption, HomeIsFrame
      DEF Goto, Done, SetLatch, Invalid, Locked, Marked, Unlocked, Places, Claim
  <1>0. /\ setup' \in Setup
        /\ pc[t] # "idle" => p \in Pids
        /\ pc[t] \in MovePhases => mover[t] \in Pids
    BY DEF Types, Consistent, Registers
  <1>1. \A q \in Pids : HasS(t, q) => latch[q] \in 1..MaxShared BY SharedLatch
  <1>2. CASE Alloc(t)
    BY <1>0, <1>1, <1>2
    DEF Types, Phases, frames, table, guard, promo, batch, Alloc, InsertLocked
  <1>3. CASE \E q \in Pids, m \in setup.guards : Fault(t, q, m)
    BY <1>0, <1>1, <1>3
    DEF Types, Phases, frames, table, guard, promo, batch, Fault, InsertLocked
  <1>4. CASE Track(t)
    BY <1>0, <1>1, <1>4
    DEF Types, Phases, frames, table, guard, promo, batch, Track
  <1>5. CASE Place(t)
    BY <1>0, <1>1, <1>5
    DEF Types, Phases, frames, table, guard, promo, batch, Place
  <1>6. CASE Fill(t)
    BY <1>0, <1>1, <1>6
    DEF Types, Phases, frames, table, guard, promo, batch, Fill
  <1>7. CASE \E q \in Pids : FixX(t, q)
    BY <1>0, <1>1, <1>7
    DEF Types, Phases, frames, table, guard, promo, batch, FixX
  <1>8. CASE \E q \in Pids : FixS(t, q)
    BY <1>0, <1>1, <1>8
    DEF Types, Phases, frames, table, guard, promo, batch, FixS, AddSharer
  <1>9. CASE Update(t)
    BY <1>0, <1>1, <1>9
    DEF Types, Phases, frames, table, guard, promo, batch, Update
  <1>10. CASE UnfixX(t)
    BY <1>0, <1>1, <1>10
    DEF Types, Phases, frames, table, guard, promo, batch, UnfixX, Unlock
  <1>11. CASE UnfixS(t)
    BY <1>0, <1>1, <1>11
    DEF Types, Phases, frames, table, guard, promo, batch, UnfixS, HasS
  <1>12. CASE ReadRole(t)
    BY <1>0, <1>1, <1>12
    DEF Types, Phases, frames, table, guard, promo, batch, ReadRole
  <1>13. CASE \E q \in Pids : OptimisticStart(t, q)
    BY <1>0, <1>1, <1>13
    DEF Types, Phases, frames, table, guard, promo, batch, OptimisticStart
  <1>14. CASE Access(t)
    BY <1>0, <1>1, <1>14
    DEF Types, Phases, frames, table, guard, promo, batch, Access
  <1>15. CASE ClearMark(t)
    BY <1>0, <1>1, <1>15
    DEF Types, Phases, frames, table, guard, promo, batch, ClearMark
  <1>16. CASE ReadO(t)
    BY <1>0, <1>1, <1>16
    DEF Types, Phases, frames, table, guard, promo, batch, ReadO
  <1>17. CASE CheckO(t)
    BY <1>0, <1>1, <1>17
    DEF Types, Phases, frames, table, guard, promo, batch, CheckO
  <1>18. CASE ReleaseO(t)
    BY <1>0, <1>1, <1>18
    DEF Types, Phases, frames, table, guard, promo, batch, ReleaseO
  <1>19. CASE UpgradeX(t)
    BY <1>0, <1>1, <1>19
    DEF Types, Phases, frames, table, guard, promo, batch, UpgradeX
  <1>20. CASE TryPromote(t)
    BY <1>0, <1>1, <1>20
    DEF Types, Phases, frames, table, guard, promo, batch, TryPromote
  <1>21. CASE PromoteClaim(t)
    BY <1>0, <1>1, <1>21
    DEF Types, Phases, frames, table, guard, promo, batch, PromoteClaim
  <1>22. CASE ReadMover(t)
    BY <1>0, <1>1, <1>22
    DEF Types, Phases, frames, table, guard, promo, batch, ReadMover
  <1>23. CASE LockMover(t)
    BY <1>0, <1>1, <1>23
    DEF Types, Phases, frames, table, guard, promo, batch, LockMover, Resident
  <1>24. CASE PlaceMover(t)
    <2>1. mover[t] \in Pids /\ Home(mover[t]) \in Frames BY <1>0, <1>24 DEF PlaceMover, MovePhases
    <2>2. owner' \in [Frames -> Pids \cup {NoPid}] BY <2>1, <1>24 DEF Types, PlaceMover
    <2>3. pc' \in [Threads -> Phases] /\ spot' \in [Threads -> Places]
      BY <2>1, <1>24 DEF Types, PlaceMover, Phases, promo
    <2>4. inPlace' \in [Pids -> BOOLEAN] BY <2>1, <1>0, <1>24 DEF Types, PlaceMover
    <2>5. QED BY <1>0, <2>2, <2>3, <2>4, <1>24 DEF Types, PlaceMover, batch
  <1>25. CASE MoveCopy(t)
    BY <1>0, <1>1, <1>25
    DEF Types, Phases, frames, table, guard, promo, batch, MoveCopy, MovePhases
  <1>26. CASE MoveSwitch(t)
    BY <1>0, <1>1, <1>26
    DEF Types, Phases, frames, table, guard, promo, batch, MoveSwitch, MovePhases
  <1>27. CASE CopyHome(t)
    BY <1>0, <1>1, <1>27
    DEF Types, Phases, frames, table, guard, promo, batch, CopyHome
  <1>28. CASE SwitchHome(t)
    BY <1>0, <1>1, <1>28
    DEF Types, Phases, frames, table, guard, promo, batch, SwitchHome
  <1>29. CASE UnlockPromoted(t)
    BY <1>0, <1>1, <1>29
    DEF Types, Phases, frames, table, guard, promo, batch, UnlockPromoted, Unlock
  <1>30. CASE \E f \in Frames : TakeFree(t, f)
    <2> PICK f \in Frames : TakeFree(t, f) BY <1>30
    <2>1. /\ pc[t] = "getFree" /\ p \in Pids /\ mover[t] \in Pids \cup {NoPid}
          /\ (IF mover[t] = NoPid THEN p ELSE mover[t]) \in Pids
      BY <1>0 DEF TakeFree, Types
    <2>2. owner' \in [Frames -> Pids \cup {NoPid}] BY <2>1 DEF Types, TakeFree
    <2>3. pc' \in [Threads -> Phases] BY DEF Types, TakeFree, Phases
    <2>4. spot' \in [Threads -> Places] BY DEF Types, TakeFree
    <2>5. where' \in [Pids -> Places] BY DEF Types, TakeFree
    <2>6. inPlace' \in [Pids -> BOOLEAN]
      <3>1. \/ inPlace' = [inPlace EXCEPT ![p] = FALSE] \/ inPlace' = inPlace
        BY DEF TakeFree
      <3>2. QED BY <3>1 DEF Types
    <2>7. QED BY <1>0, <2>2, <2>3, <2>4, <2>5, <2>6 DEF Types, TakeFree, batch
  <1>31. CASE Evict(t)
    BY <1>0, <1>1, <1>31
    DEF Types, Phases, frames, table, guard, promo, batch, Evict
  <1>32. CASE EvictWrite(t)
    BY <1>0, <1>1, <1>32
    DEF Types, Phases, frames, table, guard, promo, batch, EvictWrite
  <1>33. CASE FreeClean(t)
    BY <1>0, <1>1, <1>33
    DEF Types, Phases, frames, table, guard, promo, batch, FreeClean
  <1>34. CASE EvictDone(t)
    BY <1>0, <1>1, <1>34
    DEF Types, Phases, frames, table, guard, promo, batch, EvictDone
  <1>35. CASE \E q \in Pids : EvictVisit(t, q)
    <2> PICK q \in Pids : EvictVisit(t, q) BY <1>35
    <2>1. latch' \in [Pids -> 0..Invalid] BY DEF Types, EvictVisit
    <2>2. toWrite' \in [Threads -> SUBSET Pids] BY DEF Types, EvictVisit, batch
    <2>3. toEvict' \in [Threads -> SUBSET Pids] BY DEF Types, EvictVisit, batch
    <2>4. pc' \in [Threads -> Phases] BY DEF Types, EvictVisit, Phases
    <2>5. QED BY <1>0, <2>1, <2>2, <2>3, <2>4 DEF Types, EvictVisit, frames, promo
  <1>36. CASE \E q \in Pids : EvictUpgrade(t, q)
    BY <1>0, <1>1, <1>36
    DEF Types, Phases, frames, table, guard, promo, batch, EvictUpgrade, HasS, EvictPhases
  <1>37. CASE \E q \in Pids : Untrack(t, q)
    BY <1>0, <1>1, <1>37
    DEF Types, Phases, frames, table, guard, promo, batch, Untrack
  <1>38. CASE \E q \in Pids : Remove(t, q)
    BY <1>0, <1>1, <1>38
    DEF Types, Phases, frames, table, guard, promo, batch, Remove
  <1>39. QED
    BY <1>2, <1>3, <1>4, <1>5, <1>6, <1>7, <1>8, <1>9, <1>10, <1>11, <1>12, <1>13, <1>14, <1>15, <1>16,
       <1>17, <1>18, <1>19, <1>20, <1>21, <1>22, <1>23, <1>24, <1>25, <1>26, <1>27, <1>28, <1>29, <1>30,
       <1>31, <1>32, <1>33, <1>34, <1>35, <1>36, <1>37, <1>38
    DEF Step, Fixing, Optimistic, Promoting, Evicting

LEMMA StepConsistent ==
  ASSUME Types, Consistent, NEW t \in Threads, Step(t), UNCHANGED setup
  PROVE  Consistent'
  <1> SUFFICES Registers(t)'
    <2>1. \A u \in Threads \ {t} : Registers(u)'
      BY StepAlone DEF Consistent, Registers, Alone, Same
    <2>2. QED BY <2>1 DEF Consistent
  <1> USE SetupFields DEF Goto, Done, Types, Registers, EvictPhases, MovePhases, frames, table, guard, promo, batch
  <1>1. Registers(t) BY DEF Consistent
  <1>2. CASE Alloc(t)
    BY <1>1, <1>2 DEF Alloc, InsertLocked
  <1>3. CASE \E q \in Pids, m \in setup.guards : Fault(t, q, m)
    BY <1>1, <1>3 DEF Fault, InsertLocked
  <1>4. CASE Track(t)
    BY <1>1, <1>4 DEF Track
  <1>5. CASE Place(t)
    BY <1>1, <1>5 DEF Place
  <1>6. CASE Fill(t)
    BY <1>1, <1>6 DEF Fill
  <1>7. CASE \E q \in Pids : FixX(t, q)
    BY <1>1, <1>7 DEF FixX
  <1>8. CASE \E q \in Pids : FixS(t, q)
    BY <1>1, <1>8 DEF FixS, AddSharer
  <1>9. CASE Update(t)
    BY <1>1, <1>9 DEF Update
  <1>10. CASE UnfixX(t)
    BY <1>1, <1>10 DEF UnfixX, Unlock
  <1>11. CASE UnfixS(t)
    BY <1>1, <1>11 DEF UnfixS
  <1>12. CASE ReadRole(t)
    BY <1>1, <1>12 DEF ReadRole
  <1>13. CASE \E q \in Pids : OptimisticStart(t, q)
    BY <1>1, <1>13 DEF OptimisticStart
  <1>14. CASE Access(t)
    BY <1>1, <1>14 DEF Access
  <1>15. CASE ClearMark(t)
    BY <1>1, <1>15 DEF ClearMark
  <1>16. CASE ReadO(t)
    BY <1>1, <1>16 DEF ReadO
  <1>17. CASE CheckO(t)
    BY <1>1, <1>17 DEF CheckO
  <1>18. CASE ReleaseO(t)
    BY <1>1, <1>18 DEF ReleaseO
  <1>19. CASE UpgradeX(t)
    BY <1>1, <1>19 DEF UpgradeX
  <1>20. CASE TryPromote(t)
    BY <1>1, <1>20 DEF TryPromote
  <1>21. CASE PromoteClaim(t)
    BY <1>1, <1>21 DEF PromoteClaim
  <1>22. CASE ReadMover(t)
    BY <1>1, <1>22 DEF ReadMover
  <1>23. CASE LockMover(t)
    BY <1>1, <1>23 DEF LockMover, Resident
  <1>24. CASE PlaceMover(t)
    BY <1>1, <1>24 DEF PlaceMover
  <1>25. CASE MoveCopy(t)
    BY <1>1, <1>25 DEF MoveCopy
  <1>26. CASE MoveSwitch(t)
    BY <1>1, <1>26 DEF MoveSwitch
  <1>27. CASE CopyHome(t)
    BY <1>1, <1>27 DEF CopyHome
  <1>28. CASE SwitchHome(t)
    BY <1>1, <1>28 DEF SwitchHome
  <1>29. CASE UnlockPromoted(t)
    BY <1>1, <1>29 DEF UnlockPromoted, Unlock
  <1>30. CASE \E f \in Frames : TakeFree(t, f)
    BY <1>1, <1>30 DEF TakeFree
  <1>31. CASE Evict(t)
    BY <1>1, <1>31 DEF Evict
  <1>32. CASE EvictWrite(t)
    BY <1>1, <1>32 DEF EvictWrite
  <1>33. CASE FreeClean(t)
    BY <1>1, <1>33 DEF FreeClean
  <1>34. CASE EvictDone(t)
    BY <1>1, <1>34 DEF EvictDone
  <1>35. CASE \E q \in Pids : EvictVisit(t, q)
    BY <1>1, <1>35 DEF EvictVisit
  <1>36. CASE \E q \in Pids : EvictUpgrade(t, q)
    BY <1>1, <1>36 DEF EvictUpgrade
  <1>37. CASE \E q \in Pids : Untrack(t, q)
    BY <1>1, <1>37 DEF Untrack
  <1>38. CASE \E q \in Pids : Remove(t, q)
    BY <1>1, <1>38 DEF Remove
  <1>39. QED
    BY <1>2, <1>3, <1>4, <1>5, <1>6, <1>7, <1>8, <1>9, <1>10, <1>11, <1>12, <1>13, <1>14,
       <1>15, <1>16, <1>17, <1>18, <1>19, <1>20, <1>21, <1>22, <1>23, <1>24, <1>25, <1>26, <1>27,
       <1>28, <1>29, <1>30, <1>31, <1>32, <1>33, <1>34, <1>35, <1>36, <1>37, <1>38
    DEF Step, Fixing, Optimistic, Promoting, Evicting

-------------------------------------------------------------------------------
(* The latches.  Seen from them there are seven kinds of step. *)

Xs(t) == {p \in Pids : HasX(t, p)}
Ss(t) == {p \in Pids : HasS(t, p)}

Keeping(t) == /\ Xs(t)' = Xs(t) /\ Ss(t)' = Ss(t)
              /\ \A p \in Pids : latch'[p] = latch[p] \/ {latch[p], latch'[p]} \subseteq {Unlocked, Marked}
Seizing(t, p) == /\ Xs(t)' = Xs(t) \cup {p} /\ Ss(t)' = Ss(t)
                 /\ latch[p] \in {Unlocked, Marked, Invalid} /\ SetLatch(p, Locked)
Freeing(t, p) == /\ Xs(t)' = Xs(t) \ {p} /\ Ss(t)' = Ss(t)
                 /\ p \in Xs(t) /\ (SetLatch(p, Unlocked) \/ SetLatch(p, Invalid))
Entering(t, p) == /\ Xs(t)' = Xs(t) /\ Ss(t)' = Ss(t) \cup {p} /\ p \notin Ss(t)
                  /\ (latch[p] < MaxShared \/ latch[p] = Marked) /\ AddSharer(p)
Leaving(t, p) == /\ Xs(t)' = Xs(t) /\ Ss(t)' = Ss(t) \ {p}
                 /\ p \in Ss(t) /\ SetLatch(p, latch[p] - 1)
Upgrading(t, p) == /\ Xs(t)' = Xs(t) \cup {p} /\ Ss(t)' = Ss(t) \ {p}
                   /\ p \in Ss(t) /\ latch[p] = 1 /\ SetLatch(p, Locked)
Downgrading(t, p) == /\ Xs(t)' = Xs(t) \ {p} /\ Ss(t)' = Ss(t) \cup {p}
                     /\ p \in Xs(t) /\ SetLatch(p, 1)
Kinds(t) == Keeping(t) \/ \E p \in Pids :
               \/ Seizing(t, p) \/ Freeing(t, p) \/ Entering(t, p) \/ Leaving(t, p)
               \/ Upgrading(t, p) \/ Downgrading(t, p)

LEMMA StepKinds ==
  ASSUME LatchInv, NEW t \in Threads, Step(t), UNCHANGED setup
  PROVE  Kinds(t)
  <1> USE SetupFields, NoPidIsNone
      DEF Goto, Done, Types, Registers, EvictPhases, MovePhases, PromotePhases, SetLatch, Phases,
          Xs, Ss, HasX, HasS, HasPid, HasMover, OneRole,
          Keeping, Seizing, Freeing, Entering, Leaving, Upgrading, Downgrading,
          frames, table, guard, promo, batch
  <1>1. /\ Types /\ Registers(t) /\ \A p \in Pids : OneRole(t, p)
        /\ pc[t] # "idle" => pid[t] \in Pids
    BY DEF LatchInv, Consistent, Exclusive
  <1>2. \A p \in Pids : HasX(t, p) => latch[p] = Locked BY DEF LatchInv, Exclusive
  <1>3. \A p \in Pids : HasS(t, p) => latch[p] \in 1..MaxShared BY SharedLatch DEF LatchInv
  <1>4. CASE Alloc(t)
    <2>1. allocCount \in Pids /\ Seizing(t, allocCount)
      BY <1>1, <1>4 DEF Alloc, InsertLocked
    <2>2. QED BY <2>1, <1>1 DEF Kinds
  <1>5. CASE \E q \in Pids, m \in setup.guards : Fault(t, q, m)
    <2> PICK q \in Pids, m \in setup.guards : Fault(t, q, m) BY <1>5
    <2>1. Seizing(t, q)
      BY <1>1 DEF Fault, InsertLocked
    <2>2. QED BY <2>1, <1>1 DEF Kinds
  <1>6. CASE Track(t)
    <2>1. Keeping(t)
      BY <1>1, <1>6 DEF Track
    <2>2. QED BY <2>1, <1>1 DEF Kinds
  <1>7. CASE Place(t)
    <2>1. Keeping(t)
      BY <1>1, <1>7 DEF Place
    <2>2. QED BY <2>1, <1>1 DEF Kinds
  <1>8. CASE Fill(t)
    <2>1. pid[t] \in Pids /\ (Keeping(t) \/ Downgrading(t, pid[t]) \/ Freeing(t, pid[t]))
      BY <1>1, <1>8 DEF Fill
    <2>2. QED BY <2>1, <1>1 DEF Kinds
  <1>9. CASE \E q \in Pids : FixX(t, q)
    <2> PICK q \in Pids : FixX(t, q) BY <1>9
    <2>1. Seizing(t, q)
      BY <1>1 DEF FixX
    <2>2. QED BY <2>1, <1>1 DEF Kinds
  <1>10. CASE \E q \in Pids : FixS(t, q)
    <2> PICK q \in Pids : FixS(t, q) BY <1>10
    <2>1. Entering(t, q)
      BY <1>1 DEF FixS, AddSharer
    <2>2. QED BY <2>1, <1>1 DEF Kinds
  <1>11. CASE Update(t)
    <2>1. Keeping(t)
      BY <1>1, <1>11 DEF Update
    <2>2. QED BY <2>1, <1>1 DEF Kinds
  <1>12. CASE UnfixX(t)
    <2>1. pid[t] \in Pids /\ (Keeping(t) \/ Freeing(t, pid[t]))
      BY <1>1, <1>12 DEF UnfixX, Unlock
    <2>2. QED BY <2>1, <1>1 DEF Kinds
  <1>13. CASE UnfixS(t)
    <2>1. pid[t] \in Pids /\ Leaving(t, pid[t])
      BY <1>1, <1>13 DEF UnfixS
    <2>2. QED BY <2>1, <1>1 DEF Kinds
  <1>14. CASE ReadRole(t)
    <2>1. Keeping(t)
      BY <1>1, <1>14 DEF ReadRole
    <2>2. QED BY <2>1, <1>1 DEF Kinds
  <1>15. CASE \E q \in Pids : OptimisticStart(t, q)
    <2> PICK q \in Pids : OptimisticStart(t, q) BY <1>15
    <2>1. Keeping(t)
      BY <1>1 DEF OptimisticStart
    <2>2. QED BY <2>1, <1>1 DEF Kinds
  <1>16. CASE Access(t)
    <2>1. Keeping(t)
      BY <1>1, <1>16 DEF Access
    <2>2. QED BY <2>1, <1>1 DEF Kinds
  <1>17. CASE ClearMark(t)
    <2>1. Keeping(t)
      BY <1>1, <1>17 DEF ClearMark
    <2>2. QED BY <2>1, <1>1 DEF Kinds
  <1>18. CASE ReadO(t)
    <2>1. Keeping(t)
      BY <1>1, <1>18 DEF ReadO
    <2>2. QED BY <2>1, <1>1 DEF Kinds
  <1>19. CASE CheckO(t)
    <2>1. Keeping(t)
      BY <1>1, <1>19 DEF CheckO
    <2>2. QED BY <2>1, <1>1 DEF Kinds
  <1>20. CASE ReleaseO(t)
    <2>1. Keeping(t)
      BY <1>1, <1>20 DEF ReleaseO
    <2>2. QED BY <2>1, <1>1 DEF Kinds
  <1>21. CASE UpgradeX(t)
    <2>1. pid[t] \in Pids /\ Seizing(t, pid[t])
      BY <1>1, <1>21 DEF UpgradeX
    <2>2. QED BY <2>1, <1>1 DEF Kinds
  <1>22. CASE TryPromote(t)
    <2>1. pid[t] \in Pids /\ (Keeping(t) \/ Seizing(t, pid[t]))
      BY <1>1, <1>22 DEF TryPromote
    <2>2. QED BY <2>1, <1>1 DEF Kinds
  <1>23. CASE PromoteClaim(t)
    <2>1. Keeping(t)
      BY <1>1, <1>23 DEF PromoteClaim
    <2>2. QED BY <2>1, <1>1 DEF Kinds
  <1>24. CASE ReadMover(t)
    <2>1. Keeping(t)
      BY <1>1, <1>24 DEF ReadMover
    <2>2. QED BY <2>1, <1>1 DEF Kinds
  <1>25. CASE LockMover(t)
    <2>1. Keeping(t) \/ (mover[t] \in Pids /\ Seizing(t, mover[t]))
      BY <1>1, <1>25 DEF LockMover, Resident
    <2>2. QED BY <2>1, <1>1 DEF Kinds
  <1>26. CASE PlaceMover(t)
    <2>1. Keeping(t)
      BY <1>1, <1>26 DEF PlaceMover
    <2>2. QED BY <2>1, <1>1 DEF Kinds
  <1>27. CASE MoveCopy(t)
    <2>1. Keeping(t)
      BY <1>1, <1>27 DEF MoveCopy
    <2>2. QED BY <2>1, <1>1 DEF Kinds
  <1>28. CASE MoveSwitch(t)
    <2>1. mover[t] \in Pids /\ Freeing(t, mover[t])
      BY <1>1, <1>28 DEF MoveSwitch
    <2>2. QED BY <2>1, <1>1 DEF Kinds
  <1>29. CASE CopyHome(t)
    <2>1. Keeping(t)
      BY <1>1, <1>29 DEF CopyHome
    <2>2. QED BY <2>1, <1>1 DEF Kinds
  <1>30. CASE SwitchHome(t)
    <2>1. Keeping(t)
      BY <1>1, <1>30 DEF SwitchHome
    <2>2. QED BY <2>1, <1>1 DEF Kinds
  <1>31. CASE UnlockPromoted(t)
    <2>1. pid[t] \in Pids /\ Freeing(t, pid[t])
      BY <1>1, <1>31 DEF UnlockPromoted, Unlock
    <2>2. QED BY <2>1, <1>1 DEF Kinds
  <1>32. CASE \E f \in Frames : TakeFree(t, f)
    <2> PICK f \in Frames : TakeFree(t, f) BY <1>32
    <2>1. Keeping(t)
      BY <1>1 DEF TakeFree
    <2>2. QED BY <2>1, <1>1 DEF Kinds
  <1>33. CASE Evict(t)
    <2>1. Keeping(t)
      BY <1>1, <1>33 DEF Evict
    <2>2. QED BY <2>1, <1>1 DEF Kinds
  <1>34. CASE EvictWrite(t)
    <2>1. Keeping(t)
      BY <1>1, <1>34 DEF EvictWrite
    <2>2. QED BY <2>1, <1>1 DEF Kinds
  <1>35. CASE FreeClean(t)
    <2>1. Keeping(t)
      BY <1>1, <1>35 DEF FreeClean
    <2>2. QED BY <2>1, <1>1 DEF Kinds
  <1>36. CASE EvictDone(t)
    <2>1. Keeping(t)
      BY <1>1, <1>36 DEF EvictDone
    <2>2. QED BY <2>1, <1>1 DEF Kinds
  <1>37. CASE \E q \in Pids : EvictVisit(t, q)
    <2> PICK q \in Pids : EvictVisit(t, q) BY <1>37
    <2>0. Marked # Unlocked BY MaxSharedAssumption DEF Marked, Unlocked
    <2>1. CASE latch[q] = Unlocked
      <3>1. SetLatch(q, Marked) /\ UNCHANGED <<pc, pid, mover, toWrite, toEvict>>
        BY <2>0, <2>1 DEF EvictVisit
      <3>2. Xs(t)' = Xs(t) /\ Ss(t)' = Ss(t) BY <3>1
      <3>3. \A p \in Pids : latch'[p] = latch[p] \/ {latch[p], latch'[p]} \subseteq {Unlocked, Marked}
        BY <1>1, <2>1, <3>1
      <3>4. QED BY <3>2, <3>3 DEF Kinds
    <2>2. CASE latch[q] # Unlocked /\ content[where[q]].dirty
      <3>0. /\ latch[q] = Marked /\ SetLatch(q, 1) /\ pc[t] = "evict"
            /\ toWrite' = [toWrite EXCEPT ![t] = toWrite[t] \cup {q}] /\ UNCHANGED <<pc, toEvict>>
        BY <2>2 DEF EvictVisit
      <3>1. AddSharer(q) BY <3>0 DEF AddSharer
      <3>2. q \notin Ss(t) BY <1>3, <3>0, MaxSharedAssumption DEF Marked
      <3>3. Ss(t)' = Ss(t) \cup {q} BY <1>1, <3>0 DEF EvictVisit
      <3>4. Xs(t)' = Xs(t) BY <1>1, <3>0 DEF EvictVisit
      <3>5. Entering(t, q) BY <3>0, <3>1, <3>2, <3>3, <3>4
      <3>6. QED BY <3>5 DEF Kinds
    <2>3. CASE latch[q] # Unlocked /\ ~content[where[q]].dirty
      <3>0. /\ latch[q] = Marked /\ SetLatch(q, Locked) /\ Goto(t, "evict", "dropClean")
            /\ toEvict' = [toEvict EXCEPT ![t] = {q}] /\ UNCHANGED toWrite
        BY <2>3 DEF EvictVisit
      <3>1. toEvict[t] = {} /\ toEvict'[t] = {q} /\ pc[t] = "evict" /\ pc'[t] = "dropClean"
        BY <1>1, <3>0
      <3>2. pid'[t] = pid[t] /\ mover'[t] = mover[t] /\ toWrite'[t] = toWrite[t]
        BY <3>0 DEF EvictVisit
      <3>3. Xs(t)' = Xs(t) \cup {q} BY <3>1, <3>2
      <3>4. Ss(t)' = Ss(t) BY <3>1, <3>2
      <3>5. Seizing(t, q) BY <3>0, <3>3, <3>4
      <3>6. QED BY <3>5 DEF Kinds
    <2>4. QED BY <2>1, <2>2, <2>3
  <1>38. CASE \E q \in Pids : EvictUpgrade(t, q)
    <2> PICK q \in Pids : EvictUpgrade(t, q) BY <1>38
    <2>1. Upgrading(t, q) \/ Leaving(t, q)
      BY <1>1 DEF EvictUpgrade
    <2>2. QED BY <2>1, <1>1 DEF Kinds
  <1>39. CASE \E q \in Pids : Untrack(t, q)
    <2> PICK q \in Pids : Untrack(t, q) BY <1>39
    <2>1. Keeping(t)
      BY <1>1 DEF Untrack
    <2>2. QED BY <2>1, <1>1 DEF Kinds
  <1>40. CASE \E q \in Pids : Remove(t, q)
    <2> PICK q \in Pids : Remove(t, q) BY <1>40
    <2>1. Freeing(t, q)
      BY <1>1 DEF Remove
    <2>2. QED BY <2>1, <1>1 DEF Kinds
  <1>41. QED
    BY <1>4, <1>5, <1>6, <1>7, <1>8, <1>9, <1>10, <1>11, <1>12, <1>13, <1>14, <1>15, <1>16,
       <1>17, <1>18, <1>19, <1>20, <1>21, <1>22, <1>23, <1>24, <1>25, <1>26, <1>27, <1>28, <1>29,
       <1>30, <1>31, <1>32, <1>33, <1>34, <1>35, <1>36, <1>37, <1>38, <1>39, <1>40
    DEF Step, Fixing, Optimistic, Promoting, Evicting

\* A page stays in one role of its holder.
LEMMA StepRoles ==
  ASSUME LatchInv, NEW t \in Threads, Step(t), UNCHANGED setup
  PROVE  \A p \in Pids : OneRole(t, p)'
  <1> USE SetupFields, NoPidIsNone, MaxSharedAssumption
      DEF Goto, Done, Types, Registers, EvictPhases, MovePhases, PromotePhases, SetLatch, Phases,
          HasPid, HasMover, OneRole, frames, table, guard, promo, batch, Unlocked, Locked, Marked, Invalid
  <1>1. Types /\ Registers(t) /\ \A p \in Pids : OneRole(t, p)
    BY DEF LatchInv, Consistent, Exclusive
  <1>2. \A p \in Pids : HasPid(t, p) \/ HasMover(t, p) \/ p \in toEvict[t] => latch[p] = Locked
    BY DEF LatchInv, Exclusive, HasX
  <1>3. \A p \in Pids : p \in toWrite[t] => latch[p] \in 1..MaxShared
    BY SharedLatch DEF LatchInv, HasS
  <1>4. CASE Alloc(t)
    BY <1>1, <1>2, <1>3, <1>4 DEF Alloc, InsertLocked
  <1>5. CASE \E q \in Pids, m \in setup.guards : Fault(t, q, m)
    BY <1>1, <1>2, <1>3, <1>5 DEF Fault, InsertLocked
  <1>6. CASE Track(t)
    BY <1>1, <1>2, <1>3, <1>6 DEF Track
  <1>7. CASE Place(t)
    BY <1>1, <1>2, <1>3, <1>7 DEF Place
  <1>8. CASE Fill(t)
    BY <1>1, <1>2, <1>3, <1>8 DEF Fill
  <1>9. CASE \E q \in Pids : FixX(t, q)
    BY <1>1, <1>2, <1>3, <1>9 DEF FixX
  <1>10. CASE \E q \in Pids : FixS(t, q)
    BY <1>1, <1>2, <1>3, <1>10 DEF FixS, AddSharer
  <1>11. CASE Update(t)
    BY <1>1, <1>2, <1>3, <1>11 DEF Update
  <1>12. CASE UnfixX(t)
    BY <1>1, <1>2, <1>3, <1>12 DEF UnfixX, Unlock
  <1>13. CASE UnfixS(t)
    BY <1>1, <1>2, <1>3, <1>13 DEF UnfixS
  <1>14. CASE ReadRole(t)
    BY <1>1, <1>2, <1>3, <1>14 DEF ReadRole
  <1>15. CASE \E q \in Pids : OptimisticStart(t, q)
    BY <1>1, <1>2, <1>3, <1>15 DEF OptimisticStart
  <1>16. CASE Access(t)
    BY <1>1, <1>2, <1>3, <1>16 DEF Access
  <1>17. CASE ClearMark(t)
    BY <1>1, <1>2, <1>3, <1>17 DEF ClearMark
  <1>18. CASE ReadO(t)
    BY <1>1, <1>2, <1>3, <1>18 DEF ReadO
  <1>19. CASE CheckO(t)
    BY <1>1, <1>2, <1>3, <1>19 DEF CheckO
  <1>20. CASE ReleaseO(t)
    BY <1>1, <1>2, <1>3, <1>20 DEF ReleaseO
  <1>21. CASE UpgradeX(t)
    BY <1>1, <1>2, <1>3, <1>21 DEF UpgradeX
  <1>22. CASE TryPromote(t)
    BY <1>1, <1>2, <1>3, <1>22 DEF TryPromote
  <1>23. CASE PromoteClaim(t)
    BY <1>1, <1>2, <1>3, <1>23 DEF PromoteClaim
  <1>24. CASE ReadMover(t)
    BY <1>1, <1>2, <1>3, <1>24 DEF ReadMover
  <1>25. CASE LockMover(t)
    BY <1>1, <1>2, <1>3, <1>25 DEF LockMover, Resident
  <1>26. CASE PlaceMover(t)
    BY <1>1, <1>2, <1>3, <1>26 DEF PlaceMover
  <1>27. CASE MoveCopy(t)
    BY <1>1, <1>2, <1>3, <1>27 DEF MoveCopy
  <1>28. CASE MoveSwitch(t)
    BY <1>1, <1>2, <1>3, <1>28 DEF MoveSwitch
  <1>29. CASE CopyHome(t)
    BY <1>1, <1>2, <1>3, <1>29 DEF CopyHome
  <1>30. CASE SwitchHome(t)
    BY <1>1, <1>2, <1>3, <1>30 DEF SwitchHome
  <1>31. CASE UnlockPromoted(t)
    BY <1>1, <1>2, <1>3, <1>31 DEF UnlockPromoted, Unlock
  <1>32. CASE \E f \in Frames : TakeFree(t, f)
    BY <1>1, <1>2, <1>3, <1>32 DEF TakeFree
  <1>33. CASE Evict(t)
    BY <1>1, <1>2, <1>3, <1>33 DEF Evict
  <1>34. CASE EvictWrite(t)
    BY <1>1, <1>2, <1>3, <1>34 DEF EvictWrite
  <1>35. CASE FreeClean(t)
    BY <1>1, <1>2, <1>3, <1>35 DEF FreeClean
  <1>36. CASE EvictDone(t)
    BY <1>1, <1>2, <1>3, <1>36 DEF EvictDone
  <1>37. CASE \E q \in Pids : EvictVisit(t, q)
    BY <1>1, <1>2, <1>3, <1>37 DEF EvictVisit
  <1>38. CASE \E q \in Pids : EvictUpgrade(t, q)
    BY <1>1, <1>2, <1>3, <1>38 DEF EvictUpgrade
  <1>39. CASE \E q \in Pids : Untrack(t, q)
    BY <1>1, <1>2, <1>3, <1>39 DEF Untrack
  <1>40. CASE \E q \in Pids : Remove(t, q)
    BY <1>1, <1>2, <1>3, <1>40 DEF Remove
  <1>41. QED
    BY <1>4, <1>5, <1>6, <1>7, <1>8, <1>9, <1>10, <1>11, <1>12, <1>13, <1>14, <1>15, <1>16,
       <1>17, <1>18, <1>19, <1>20, <1>21, <1>22, <1>23, <1>24, <1>25, <1>26, <1>27, <1>28, <1>29,
       <1>30, <1>31, <1>32, <1>33, <1>34, <1>35, <1>36, <1>37, <1>38, <1>39, <1>40
    DEF Step, Fixing, Optimistic, Promoting, Evicting

\* Nobody else's holds change.
LEMMA OthersHold ==
  ASSUME NEW t \in Threads, Alone(t), NEW u \in Threads \ {t}, NEW p
  PROVE  (HasX(u, p)' <=> HasX(u, p)) /\ (HasS(u, p)' <=> HasS(u, p)) /\ (OneRole(u, p)' <=> OneRole(u, p))
  BY DEF Alone, Same, HasX, HasS, HasPid, HasMover, OneRole

LEMMA StepExclusive ==
  ASSUME LatchInv, NEW t \in Threads, Step(t), UNCHANGED setup
  PROVE  Exclusive'
  <1> USE DEF Unlocked, Locked, Marked, Invalid
  <1>1. Alone(t) /\ Kinds(t) /\ \A p \in Pids : OneRole(t, p)'
    BY StepAlone, StepKinds, StepRoles DEF LatchInv
  <1>2. \A u \in Threads \ {t}, p \in Pids :
          (HasX(u, p)' <=> HasX(u, p)) /\ (OneRole(u, p)' <=> OneRole(u, p))
    BY <1>1, OthersHold
  <1>3. \A u \in Threads, p \in Pids : OneRole(u, p)'
    BY <1>1, <1>2 DEF LatchInv, Exclusive
  <1>4. \A u \in Threads, p \in Pids : HasX(u, p) => latch[p] = Locked /\ \A v \in Threads : HasX(v, p) => v = u
    BY DEF LatchInv, Exclusive
  <1>5. \A u \in Threads, p \in Pids : HasS(u, p) => latch[p] \in 1..MaxShared
    BY SharedLatch DEF LatchInv
  <1>6. ASSUME NEW p \in Pids
        PROVE  /\ HasX(t, p)' => latch'[p] = Locked /\ (HasX(t, p) \/ latch[p] # Locked)
               /\ latch'[p] = latch[p] \/ latch[p] # Locked \/ HasX(t, p)
    BY <1>1, <1>4, <1>5, MaxSharedAssumption
    DEF LatchInv, Types, Kinds, Keeping, Seizing, Freeing, Entering, Leaving, Upgrading, Downgrading,
        Xs, Ss, SetLatch, AddSharer
  <1>7. ASSUME NEW u \in Threads, NEW p \in Pids, HasX(u, p)'
        PROVE  latch'[p] = Locked /\ \A v \in Threads : HasX(v, p)' => v = u
    BY <1>2, <1>4, <1>6, <1>7
  <1>8. QED BY <1>3, <1>7 DEF Exclusive

LEMMA StepCounted ==
  ASSUME LatchInv, NEW t \in Threads, Step(t), UNCHANGED setup
  PROVE  Counted'
  <1> SUFFICES ASSUME NEW p \in Pids PROVE Cardinality(Sharers(p))' = Count(latch'[p])
    BY DEF Counted, Count
  <1> USE MaxSharedAssumption DEF Unlocked, Locked, Marked, Invalid
  <1>1. Alone(t) /\ Kinds(t) BY StepAlone, StepKinds DEF LatchInv
  <1>2. \A u \in Threads \ {t} : HasS(u, p)' <=> HasS(u, p) BY <1>1, OthersHold
  <1>3. IsFiniteSet(Sharers(p)) /\ Cardinality(Sharers(p)) = Count(latch[p]) /\ latch[p] \in 0..Invalid
    BY ThreadsAssumption, FS_Subset DEF Sharers, LatchInv, Counted, Types
  <1>4. HasX(t, p) => latch[p] = Locked BY DEF LatchInv, Exclusive
  <1>5. HasS(t, p) => latch[p] \in 1..MaxShared BY SharedLatch DEF LatchInv
  <1>6. CASE (HasS(t, p)' <=> HasS(t, p)) /\ Count(latch'[p]) = Count(latch[p])
    <2>1. Sharers(p)' = Sharers(p) BY <1>2, <1>6 DEF Sharers
    <2>2. QED BY <1>3, <1>6, <2>1
  <1>7. CASE ~HasS(t, p) /\ HasS(t, p)' /\ Count(latch'[p]) = Count(latch[p]) + 1
    <2>1. Sharers(p)' = Sharers(p) \cup {t} /\ t \notin Sharers(p) BY <1>2, <1>7 DEF Sharers
    <2>2. QED BY <1>3, <1>7, <2>1, FS_AddElement
  <1>8. CASE HasS(t, p) /\ ~HasS(t, p)' /\ Count(latch'[p]) = Count(latch[p]) - 1
    <2>1. Sharers(p)' = Sharers(p) \ {t} /\ t \in Sharers(p) BY <1>2, <1>8 DEF Sharers
    <2>2. QED BY <1>3, <1>8, <2>1, FS_RemoveElement
  <1>9. Types BY DEF LatchInv
  <1>10. \/ (HasS(t, p)' <=> HasS(t, p)) /\ Count(latch'[p]) = Count(latch[p])
         \/ ~HasS(t, p) /\ HasS(t, p)' /\ Count(latch'[p]) = Count(latch[p]) + 1
         \/ HasS(t, p) /\ ~HasS(t, p)' /\ Count(latch'[p]) = Count(latch[p]) - 1
    <2> USE DEF Types, Count, Xs, Ss, SetLatch
    <2>1. CASE Keeping(t) BY <1>9, <2>1 DEF Keeping
    <2>2. CASE \E q \in Pids : Seizing(t, q) BY <1>9, <2>2 DEF Seizing
    <2>3. CASE \E q \in Pids : Freeing(t, q) \/ Upgrading(t, q) \/ Downgrading(t, q)
      BY <1>4, <1>5, <1>9, <2>3 DEF Freeing, Upgrading, Downgrading
    <2>4. CASE \E q \in Pids : Entering(t, q) BY <1>9, <2>4 DEF Entering, AddSharer
    <2>5. CASE \E q \in Pids : Leaving(t, q) BY <1>5, <1>9, <2>5 DEF Leaving
    <2>6. QED BY <1>1, <2>1, <2>2, <2>3, <2>4, <2>5 DEF Kinds
  <1>11. QED BY <1>6, <1>7, <1>8, <1>10

LEMMA LatchInit == Init => LatchInv
  <1> SUFFICES ASSUME Init PROVE LatchInv OBVIOUS
  <1>1. Types /\ Consistent BY TypesInit
  <1>2. Exclusive
    BY NoPidIsNone DEF Init, Exclusive, OneRole, HasX, HasPid, HasMover, EvictPhases, MovePhases, PromotePhases
  <1>3. Counted
    <2>1. \A p \in Pids : Sharers(p) = {} BY DEF Init, Sharers, HasS
    <2>2. \A p \in Pids : Cardinality(Sharers(p)) = 0 BY <2>1, FS_EmptySet
    <2>3. \A p \in Pids : Count(latch[p]) = 0 BY MaxSharedAssumption DEF Init, Count, Invalid
    <2>4. QED BY <2>2, <2>3 DEF Counted
  <1>4. QED BY <1>1, <1>2, <1>3 DEF LatchInv

\* A page is held by one thread exclusively or by as many as its latch counts.
THEOREM LatchesHold == Spec => []LatchInv
  <1>1. Init => LatchInv BY LatchInit
  <1>2. LatchInv /\ [Next]_vars => LatchInv'
    <2> SUFFICES ASSUME LatchInv, [Next]_vars PROVE LatchInv' OBVIOUS
    <2>1. CASE UNCHANGED vars
      BY <2>1 DEF vars, frames, table, guard, promo, batch, LatchInv, Types, Consistent, Registers, Exclusive,
                  OneRole, HasX, HasPid, HasMover, Counted, Sharers, HasS
    <2>2. ASSUME NEW t \in Threads, Step(t), UNCHANGED setup PROVE LatchInv'
      BY <2>2, StepTypes, StepConsistent, StepExclusive, StepCounted DEF LatchInv
    <2>3. ASSUME Next PROVE LatchInv' BY <2>2, <2>3 DEF Next, Step
    <2>4. QED BY <2>1, <2>3
  <1>3. QED BY <1>1, <1>2, PTL DEF Spec

-------------------------------------------------------------------------------
(* The resident set. *)

\* A step puts a page into the set, or takes it out, that its thread holds.
LEMMA SetOfHeld ==
  ASSUME LatchInv, NEW t \in Threads, Step(t), NEW p \in Pids, ~HasX(t, p)
  PROVE  p \in residentSet' <=> p \in residentSet
  <1> USE DEF table
  <1>1. CASE Track(t)
    <2>1. HasX(t, pid[t]) BY <1>1 DEF Track, Goto, HasX, HasPid
    <2>2. QED BY <1>1, <2>1 DEF Track
  <1>2. CASE \E q \in Pids : Untrack(t, q) BY <1>2 DEF Untrack, HasX
  <1>3. CASE residentSet' = residentSet BY <1>3
  <1>4. Fixing(t) => Track(t) \/ residentSet' = residentSet
    BY DEF Fixing, Alloc, Fault, InsertLocked, Place, Fill, FixX, FixS, Update, UnfixX, UnfixS, ReadRole
  <1>5. Optimistic(t) => residentSet' = residentSet
    BY DEF Optimistic, OptimisticStart, Access, ClearMark, ReadO, CheckO, ReleaseO, UpgradeX
  <1>6. Promoting(t) => residentSet' = residentSet
    BY DEF Promoting, TryPromote, PromoteClaim, ReadMover, LockMover, PlaceMover, MoveCopy,
           MoveSwitch, CopyHome, SwitchHome, UnlockPromoted
  <1>7. Evicting(t) => (\E q \in Pids : Untrack(t, q)) \/ residentSet' = residentSet
    BY DEF Evicting, TakeFree, Evict, EvictWrite, FreeClean, EvictDone, EvictVisit, EvictUpgrade, Remove
  <1>8. QED BY <1>1, <1>2, <1>3, <1>4, <1>5, <1>6, <1>7 DEF Step

LEMMA OthersKnown ==
  ASSUME LatchInv, Tracked, NEW t \in Threads, Step(t), NEW u \in Threads \ {t}
  PROVE  Known(u)'
  <1>1. Same(u) BY StepAlone DEF LatchInv, Alone
  <1>2. pc[u] = "track" => pid[u] \in Pids /\ HasX(u, pid[u])
    BY DEF LatchInv, Consistent, Registers, HasX, HasPid
  <1>3. \A p \in Pids : HasX(u, p) => (p \in residentSet' <=> p \in residentSet)
    BY SetOfHeld DEF LatchInv, Exclusive
  <1>4. QED BY <1>1, <1>2, <1>3 DEF Tracked, Known, Same, HasX, HasPid, HasMover

LEMMA StepTracked ==
  ASSUME LatchInv, Tracked, NEW t \in Threads, Step(t), UNCHANGED setup
  PROVE  Tracked'
  <1> SUFFICES /\ \A p \in Pids : latch'[p] <= Marked => p \in residentSet'
               /\ \A p \in residentSet' : latch'[p] # Invalid
               /\ Known(t)'
    BY OthersKnown DEF Tracked, Marked, Invalid
  <1> USE SetupFields, NoPidIsNone, MaxSharedAssumption
      DEF Goto, Done, Types, Registers, EvictPhases, MovePhases, PromotePhases, SetLatch, Phases,
          HasX, HasPid, HasMover, OneRole, HasS, frames, table, guard, promo, batch,
          Unlocked, Locked, Marked, Invalid, Known
  <1>1. Types /\ Registers(t) /\ \A p \in Pids : OneRole(t, p)
    BY DEF LatchInv, Consistent, Exclusive
  <1>2. \A p \in Pids : HasX(t, p) => latch[p] = Locked
    BY DEF LatchInv, Exclusive
  <1>3. \A p \in Pids : HasS(t, p) => latch[p] \in 1..MaxShared
    BY SharedLatch DEF LatchInv
  <1>4. /\ \A p \in Pids : latch[p] <= Marked => p \in residentSet
        /\ \A p \in residentSet : latch[p] # Invalid
        /\ Known(t)
    BY DEF Tracked
  <1>6. CASE Alloc(t)
    BY <1>1, <1>2, <1>3, <1>4, <1>6 DEF Alloc, InsertLocked
  <1>7. CASE \E q \in Pids, m \in setup.guards : Fault(t, q, m)
    BY <1>1, <1>2, <1>3, <1>4, <1>7 DEF Fault, InsertLocked
  <1>8. CASE Track(t)
    BY <1>1, <1>2, <1>3, <1>4, <1>8 DEF Track
  <1>9. CASE Place(t)
    BY <1>1, <1>2, <1>3, <1>4, <1>9 DEF Place
  <1>10. CASE Fill(t)
    BY <1>1, <1>2, <1>3, <1>4, <1>10 DEF Fill
  <1>11. CASE \E q \in Pids : FixX(t, q)
    BY <1>1, <1>2, <1>3, <1>4, <1>11 DEF FixX
  <1>12. CASE \E q \in Pids : FixS(t, q)
    BY <1>1, <1>2, <1>3, <1>4, <1>12 DEF FixS, AddSharer
  <1>13. CASE Update(t)
    BY <1>1, <1>2, <1>3, <1>4, <1>13 DEF Update
  <1>14. CASE UnfixX(t)
    BY <1>1, <1>2, <1>3, <1>4, <1>14 DEF UnfixX, Unlock
  <1>15. CASE UnfixS(t)
    BY <1>1, <1>2, <1>3, <1>4, <1>15 DEF UnfixS
  <1>16. CASE ReadRole(t)
    BY <1>1, <1>2, <1>3, <1>4, <1>16 DEF ReadRole
  <1>17. CASE \E q \in Pids : OptimisticStart(t, q)
    BY <1>1, <1>2, <1>3, <1>4, <1>17 DEF OptimisticStart
  <1>18. CASE Access(t)
    BY <1>1, <1>2, <1>3, <1>4, <1>18 DEF Access
  <1>19. CASE ClearMark(t)
    BY <1>1, <1>2, <1>3, <1>4, <1>19 DEF ClearMark
  <1>20. CASE ReadO(t)
    BY <1>1, <1>2, <1>3, <1>4, <1>20 DEF ReadO
  <1>21. CASE CheckO(t)
    BY <1>1, <1>2, <1>3, <1>4, <1>21 DEF CheckO
  <1>22. CASE ReleaseO(t)
    BY <1>1, <1>2, <1>3, <1>4, <1>22 DEF ReleaseO
  <1>23. CASE UpgradeX(t)
    BY <1>1, <1>2, <1>3, <1>4, <1>23 DEF UpgradeX
  <1>24. CASE TryPromote(t)
    BY <1>1, <1>2, <1>3, <1>4, <1>24 DEF TryPromote
  <1>25. CASE PromoteClaim(t)
    BY <1>1, <1>2, <1>3, <1>4, <1>25 DEF PromoteClaim
  <1>26. CASE ReadMover(t)
    BY <1>1, <1>2, <1>3, <1>4, <1>26 DEF ReadMover
  <1>27. CASE LockMover(t)
    BY <1>1, <1>2, <1>3, <1>4, <1>27 DEF LockMover, Resident
  <1>28. CASE PlaceMover(t)
    BY <1>1, <1>2, <1>3, <1>4, <1>28 DEF PlaceMover
  <1>29. CASE MoveCopy(t)
    BY <1>1, <1>2, <1>3, <1>4, <1>29 DEF MoveCopy
  <1>30. CASE MoveSwitch(t)
    BY <1>1, <1>2, <1>3, <1>4, <1>30 DEF MoveSwitch
  <1>31. CASE CopyHome(t)
    BY <1>1, <1>2, <1>3, <1>4, <1>31 DEF CopyHome
  <1>32. CASE SwitchHome(t)
    BY <1>1, <1>2, <1>3, <1>4, <1>32 DEF SwitchHome
  <1>33. CASE UnlockPromoted(t)
    BY <1>1, <1>2, <1>3, <1>4, <1>33 DEF UnlockPromoted, Unlock
  <1>34. CASE \E f \in Frames : TakeFree(t, f)
    BY <1>1, <1>2, <1>3, <1>4, <1>34 DEF TakeFree
  <1>35. CASE Evict(t)
    BY <1>1, <1>2, <1>3, <1>4, <1>35 DEF Evict
  <1>36. CASE EvictWrite(t)
    BY <1>1, <1>2, <1>3, <1>4, <1>36 DEF EvictWrite
  <1>37. CASE FreeClean(t)
    BY <1>1, <1>2, <1>3, <1>4, <1>37 DEF FreeClean
  <1>38. CASE EvictDone(t)
    BY <1>1, <1>2, <1>3, <1>4, <1>38 DEF EvictDone
  <1>39. CASE \E q \in Pids : EvictVisit(t, q)
    BY <1>1, <1>2, <1>3, <1>4, <1>39 DEF EvictVisit
  <1>40. CASE \E q \in Pids : EvictUpgrade(t, q)
    BY <1>1, <1>2, <1>3, <1>4, <1>40 DEF EvictUpgrade
  <1>41. CASE \E q \in Pids : Untrack(t, q)
    BY <1>1, <1>2, <1>3, <1>4, <1>41 DEF Untrack
  <1>42. CASE \E q \in Pids : Remove(t, q)
    BY <1>1, <1>2, <1>3, <1>4, <1>42 DEF Remove
  <1>43. QED
    BY <1>6, <1>7, <1>8, <1>9, <1>10, <1>11, <1>12, <1>13, <1>14, <1>15, <1>16, <1>17, <1>18,
       <1>19, <1>20, <1>21, <1>22, <1>23, <1>24, <1>25, <1>26, <1>27, <1>28, <1>29, <1>30, <1>31,
       <1>32, <1>33, <1>34, <1>35, <1>36, <1>37, <1>38, <1>39, <1>40, <1>41, <1>42
    DEF Step, Fixing, Optimistic, Promoting, Evicting

LEMMA TrackedInit == Init => Tracked
  BY MaxSharedAssumption, NoPidIsNone
  DEF Init, Tracked, Known, HasPid, HasMover, Marked, Invalid, EvictPhases, MovePhases, PromotePhases

THEOREM PagesTracked == Spec => []Tracked
  <1>1. Init => Tracked BY TrackedInit
  <1>2. LatchInv /\ Tracked /\ [Next]_vars => Tracked'
    <2> SUFFICES ASSUME LatchInv, Tracked, [Next]_vars PROVE Tracked' OBVIOUS
    <2>1. CASE UNCHANGED vars
      BY <2>1 DEF vars, table, guard, promo, Tracked, Known, HasPid, HasMover
    <2>2. CASE Next BY <2>2, StepTracked DEF Next, Step
    <2>3. QED BY <2>1, <2>2
  <1>3. QED BY <1>1, <1>2, LatchesHold, PTL DEF Spec

\* Eviction can find every page that can be reached, and residentSet.insert never
\* meets the page it inserts.
THEOREM ResidentAreTracked == Spec => []ResidentIsTracked
  <1>1. Tracked => ResidentIsTracked BY DEF Tracked, Known, ResidentIsTracked, Usable
  <1>2. QED BY <1>1, PagesTracked, PTL

-------------------------------------------------------------------------------
(* The prediction. *)

\* A step moves a page, or predicts its place, only if its thread holds it.
LEMMA PlaceOfHeld ==
  ASSUME LatchInv, NEW t \in Threads, Step(t), NEW p \in Pids, ~HasX(t, p)
  PROVE  inPlace'[p] = inPlace[p] /\ where'[p] = where[p]
  <1>1. Types BY DEF LatchInv
  <1> USE DEF Goto, Types, table, HasX, HasPid, HasMover, EvictPhases, MovePhases, PromotePhases
  <1>2. CASE Fixing(t)
    BY <1>1, <1>2 DEF Fixing, Alloc, Fault, InsertLocked, Track, Place, Fill, FixX, FixS, Update, UnfixX,
                      UnfixS, ReadRole
  <1>3. CASE Optimistic(t)
    BY <1>3 DEF Optimistic, OptimisticStart, Access, ClearMark, ReadO, CheckO, ReleaseO, UpgradeX
  <1>4. CASE Promoting(t)
    BY <1>1, <1>4 DEF Promoting, TryPromote, PromoteClaim, ReadMover, LockMover, PlaceMover, MoveCopy,
           MoveSwitch, CopyHome, SwitchHome, UnlockPromoted
  <1>5. CASE Evicting(t)
    BY <1>1, <1>5 DEF Evicting, TakeFree, Evict, EvictWrite, FreeClean, EvictDone, EvictVisit, EvictUpgrade,
           Untrack, Remove
  <1>6. QED BY <1>2, <1>3, <1>4, <1>5 DEF Step

\* What Predictions says of one thread.
PredictedBy(t) == \A p \in Pids :
  /\ KeepsPlace(t, p) /\ ~HasMover(t, p) => Predicted(p)
  /\ HasMover(t, p) /\ pc[t] = "placeMover" => Predicted(p)
  /\ HasMover(t, p) /\ pc[t] # "placeMover" /\ inPlace[p] =>
       pc[t] \in {"moveCopy", "moveSwitch"} /\ spot[t] = Home(p)

LEMMA OthersPredicted ==
  ASSUME LatchInv, Predictions, NEW t \in Threads, Step(t), UNCHANGED setup, NEW u \in Threads \ {t}
  PROVE  PredictedBy(u)'
  <1>1. Same(u) BY StepAlone DEF LatchInv, Alone
  <1>2. \A p \in Pids : HasX(u, p) => inPlace'[p] = inPlace[p] /\ where'[p] = where[p]
    BY PlaceOfHeld DEF LatchInv, Exclusive
  <1>3. PredictedBy(u) BY DEF Predictions, PredictedBy
  <1>4. QED BY <1>1, <1>2, <1>3
    DEF PredictedBy, Predicted, KeepsPlace, Same, HasX, HasPid, HasMover, Home

LEMMA StepPredictions ==
  ASSUME LatchInv, Predictions, NEW t \in Threads, Step(t), UNCHANGED setup
  PROVE  Predictions'
  <1> SUFFICES /\ \A p \in Pids : latch'[p] <= Marked => Predicted(p)'
               /\ PredictedBy(t)'
    BY OthersPredicted DEF Predictions, PredictedBy, Marked
  <1> USE SetupFields, NoPidIsNone, MaxSharedAssumption
      DEF Goto, Done, Types, Registers, EvictPhases, MovePhases, PromotePhases, SetLatch, Phases,
          HasX, HasPid, HasMover, OneRole, HasS, KeepsPlace, Predicted, PredictedBy, Home,
          frames, table, guard, promo, batch, Unlocked, Locked, Marked, Invalid
  <1>1. Types /\ Registers(t) /\ \A p \in Pids : OneRole(t, p)
    BY DEF LatchInv, Consistent, Exclusive
  <1>2. \A p \in Pids : HasX(t, p) => latch[p] = Locked
    BY DEF LatchInv, Exclusive
  <1>3. \A p \in Pids : HasS(t, p) => latch[p] \in 1..MaxShared
    BY SharedLatch DEF LatchInv
  <1>4. PredictedBy(t) /\ \A p \in Pids : latch[p] <= Marked => Predicted(p)
    BY DEF Predictions
  <1>6. CASE Alloc(t)
    BY <1>1, <1>2, <1>3, <1>4, <1>6 DEF Alloc, InsertLocked
  <1>7. CASE \E q \in Pids, m \in setup.guards : Fault(t, q, m)
    BY <1>1, <1>2, <1>3, <1>4, <1>7 DEF Fault, InsertLocked
  <1>8. CASE Track(t)
    BY <1>1, <1>2, <1>3, <1>4, <1>8 DEF Track
  <1>9. CASE Place(t)
    BY <1>1, <1>2, <1>3, <1>4, <1>9 DEF Place
  <1>10. CASE Fill(t)
    BY <1>1, <1>2, <1>3, <1>4, <1>10 DEF Fill
  <1>11. CASE \E q \in Pids : FixX(t, q)
    BY <1>1, <1>2, <1>3, <1>4, <1>11 DEF FixX
  <1>12. CASE \E q \in Pids : FixS(t, q)
    BY <1>1, <1>2, <1>3, <1>4, <1>12 DEF FixS, AddSharer
  <1>13. CASE Update(t)
    BY <1>1, <1>2, <1>3, <1>4, <1>13 DEF Update
  <1>14. CASE UnfixX(t)
    BY <1>1, <1>2, <1>3, <1>4, <1>14 DEF UnfixX, Unlock
  <1>15. CASE UnfixS(t)
    BY <1>1, <1>2, <1>3, <1>4, <1>15 DEF UnfixS
  <1>16. CASE ReadRole(t)
    BY <1>1, <1>2, <1>3, <1>4, <1>16 DEF ReadRole
  <1>17. CASE \E q \in Pids : OptimisticStart(t, q)
    BY <1>1, <1>2, <1>3, <1>4, <1>17 DEF OptimisticStart
  <1>18. CASE Access(t)
    BY <1>1, <1>2, <1>3, <1>4, <1>18 DEF Access
  <1>19. CASE ClearMark(t)
    BY <1>1, <1>2, <1>3, <1>4, <1>19 DEF ClearMark
  <1>20. CASE ReadO(t)
    BY <1>1, <1>2, <1>3, <1>4, <1>20 DEF ReadO
  <1>21. CASE CheckO(t)
    BY <1>1, <1>2, <1>3, <1>4, <1>21 DEF CheckO
  <1>22. CASE ReleaseO(t)
    BY <1>1, <1>2, <1>3, <1>4, <1>22 DEF ReleaseO
  <1>23. CASE UpgradeX(t)
    BY <1>1, <1>2, <1>3, <1>4, <1>23 DEF UpgradeX
  <1>24. CASE TryPromote(t)
    BY <1>1, <1>2, <1>3, <1>4, <1>24 DEF TryPromote
  <1>25. CASE PromoteClaim(t)
    BY <1>1, <1>2, <1>3, <1>4, <1>25 DEF PromoteClaim
  <1>26. CASE ReadMover(t)
    BY <1>1, <1>2, <1>3, <1>4, <1>26 DEF ReadMover
  <1>27. CASE LockMover(t)
    BY <1>1, <1>2, <1>3, <1>4, <1>27 DEF LockMover, Resident
  <1>28. CASE PlaceMover(t)
    BY <1>1, <1>2, <1>3, <1>4, <1>28 DEF PlaceMover
  <1>29. CASE MoveCopy(t)
    BY <1>1, <1>2, <1>3, <1>4, <1>29 DEF MoveCopy
  <1>30. CASE MoveSwitch(t)
    BY <1>1, <1>2, <1>3, <1>4, <1>30 DEF MoveSwitch
  <1>31. CASE CopyHome(t)
    BY <1>1, <1>2, <1>3, <1>4, <1>31 DEF CopyHome
  <1>32. CASE SwitchHome(t)
    BY <1>1, <1>2, <1>3, <1>4, <1>32 DEF SwitchHome
  <1>33. CASE UnlockPromoted(t)
    BY <1>1, <1>2, <1>3, <1>4, <1>33 DEF UnlockPromoted, Unlock
  <1>34. CASE \E f \in Frames : TakeFree(t, f)
    BY <1>1, <1>2, <1>3, <1>4, <1>34 DEF TakeFree
  <1>35. CASE Evict(t)
    BY <1>1, <1>2, <1>3, <1>4, <1>35 DEF Evict
  <1>36. CASE EvictWrite(t)
    BY <1>1, <1>2, <1>3, <1>4, <1>36 DEF EvictWrite
  <1>37. CASE FreeClean(t)
    BY <1>1, <1>2, <1>3, <1>4, <1>37 DEF FreeClean
  <1>38. CASE EvictDone(t)
    BY <1>1, <1>2, <1>3, <1>4, <1>38 DEF EvictDone
  <1>39. CASE \E q \in Pids : EvictVisit(t, q)
    BY <1>1, <1>2, <1>3, <1>4, <1>39 DEF EvictVisit
  <1>40. CASE \E q \in Pids : EvictUpgrade(t, q)
    BY <1>1, <1>2, <1>3, <1>4, <1>40 DEF EvictUpgrade
  <1>41. CASE \E q \in Pids : Untrack(t, q)
    BY <1>1, <1>2, <1>3, <1>4, <1>41 DEF Untrack
  <1>42. CASE \E q \in Pids : Remove(t, q)
    BY <1>1, <1>2, <1>3, <1>4, <1>42 DEF Remove
  <1>43. QED
    BY <1>6, <1>7, <1>8, <1>9, <1>10, <1>11, <1>12, <1>13, <1>14, <1>15, <1>16, <1>17, <1>18,
       <1>19, <1>20, <1>21, <1>22, <1>23, <1>24, <1>25, <1>26, <1>27, <1>28, <1>29, <1>30, <1>31,
       <1>32, <1>33, <1>34, <1>35, <1>36, <1>37, <1>38, <1>39, <1>40, <1>41, <1>42
    DEF Step, Fixing, Optimistic, Promoting, Evicting


LEMMA PredictionsInit == Init => Predictions
  BY MaxSharedAssumption, NoPidIsNone
  DEF Init, Predictions, Predicted, KeepsPlace, HasPid, HasMover, Marked, Invalid, EvictPhases, MovePhases,
      PromotePhases

\* intendedSlot is right about every page that can be reached, also while pages
\* are displaced: whether or not the page that is moved was in the slot.
THEOREM PredictionsHold == Spec => []PredictionHolds
  <1>1. Init => Predictions BY PredictionsInit
  <1>2. LatchInv /\ Predictions /\ [Next]_vars => Predictions'
    <2> SUFFICES ASSUME LatchInv, Predictions, [Next]_vars PROVE Predictions' OBVIOUS
    <2>1. CASE UNCHANGED vars
      BY <2>1 DEF vars, table, guard, promo, batch, Predictions, Predicted, KeepsPlace, HasPid, HasMover, Home
    <2>2. CASE Next BY <2>2, StepPredictions DEF Next, Step
    <2>3. QED BY <2>1, <2>2
  <1>3. Predictions => PredictionHolds BY DEF Predictions, Predicted, PredictionHolds, Usable
  <1>4. QED BY <1>1, <1>2, <1>3, LatchesHold, PTL DEF Spec

-------------------------------------------------------------------------------
(* The frames.  A step of a thread changes the owner of a frame that nobody has *)
(* claimed or that the thread has, and gives the thread only such frames.       *)

HasFrame(t, f) == \/ \E p \in Pids : KeepsPlace(t, p) /\ f = where[p]
                  \/ Promotes(t) /\ f = Home(pid[t])
                  \/ (Moves(t) \/ Frees(t)) /\ f = spot[t]
Obtains(t, f) == HasFrame(t, f) \/ owner[f] = NoPid

\* Whom it takes frames from, and what its own pages and claims are afterwards.
OwnerStep(t) ==
  \A f \in Frames : \/ owner'[f] = owner[f] \/ Obtains(t, f)
                    \/ \E p \in Pids : HasS(t, p) /\ HasX(t, p)' /\ f = where[p]
PageStep(t) ==
  \A p \in Pids : (HasX(t, p) \/ HasX(t, p)') /\ (latch'[p] <= Marked \/ KeepsPlace(t, p)') =>
    /\ where'[p] \in Frames /\ owner'[where'[p]] = p
    /\ Obtains(t, where'[p]) \/ (latch[p] <= Marked /\ where'[p] = where[p])
ClaimStep(t) ==
  /\ Promotes(t)' => /\ owner'[Home(pid'[t])] = pid'[t] /\ Obtains(t, Home(pid'[t]))
  /\ Moves(t)' => /\ spot'[t] \in Frames /\ owner'[spot'[t]] = mover'[t] /\ Obtains(t, spot'[t])
  /\ Frees(t)' => \E q \in Pids : KeepsPlace(t, q) /\ spot'[t] = where[q] /\ latch'[q] = Invalid /\ owner' = owner
  /\ \A p \in Pids : HasMover(t, p)' => where'[p] = Home(pid'[t])

LEMMA StepFrames ==
  ASSUME LatchInv, FrameInv, MoverIsInSlot', NEW t \in Threads, Step(t), UNCHANGED setup
  PROVE  OwnerStep(t) /\ PageStep(t) /\ ClaimStep(t)
  <1> USE SetupFields, NoPidIsNone, MaxSharedAssumption, HomeIsFrame
      DEF Goto, Done, Types, Registers, EvictPhases, MovePhases, PromotePhases, SetLatch, Claim,
          HasX, HasPid, HasMover, OneRole, HasS, KeepsPlace, Promotes, Moves, Frees,
          HasFrame, Obtains, OwnerStep, PageStep, ClaimStep,
          frames, table, guard, promo, batch, Unlocked, Locked, Marked, Invalid
  <1>1. Types /\ Registers(t) /\ \A p \in Pids : OneRole(t, p)
    BY DEF LatchInv, Consistent, Exclusive
  <1>2. \A p \in Pids : HasX(t, p) => latch[p] = Locked
    BY DEF LatchInv, Exclusive
  <1>3. \A p \in Pids : HasS(t, p) => latch[p] \in 1..MaxShared
    BY SharedLatch DEF LatchInv
  <1>4. /\ \A p \in Pids : latch[p] <= Marked \/ KeepsPlace(t, p) => where[p] \in Frames /\ owner[where[p]] = p
        /\ Promotes(t) => owner[Home(pid[t])] = pid[t]
        /\ Moves(t) => spot[t] \in Frames /\ owner[spot[t]] = mover[t]
        /\ Frees(t) => spot[t] \in Frames /\ owner[spot[t]] # NoPid
    BY DEF FrameInv, Owned, Placed
  <1>5. /\ \A p \in Pids : HasMover(t, p) => where[p] = Home(pid[t])
        /\ \A p \in Pids : Home(p)' = Home(p)
    BY DEF FrameInv, InSlot, Home
  <1>6. pc'[t] = "placeMover" => where'[mover'[t]] = Home(pid'[t]) BY DEF MoverIsInSlot, Home
  <1>7. Frees(t) => \A p \in Pids : KeepsPlace(t, p) => where[p] # spot[t]
    BY DEF FrameInv, FreedOnce, Abandoned, Placed
  <1>8. CASE Alloc(t)
    BY <1>1, <1>2, <1>3, <1>4, <1>5, <1>8 DEF Alloc, InsertLocked
  <1>9. CASE \E q \in Pids, m \in setup.guards : Fault(t, q, m)
    BY <1>1, <1>2, <1>3, <1>4, <1>5, <1>9 DEF Fault, InsertLocked
  <1>10. CASE Track(t)
    BY <1>1, <1>2, <1>3, <1>4, <1>5, <1>10 DEF Track
  <1>11. CASE Place(t)
    BY <1>1, <1>2, <1>3, <1>4, <1>5, <1>11 DEF Place
  <1>12. CASE Fill(t)
    BY <1>1, <1>2, <1>3, <1>4, <1>5, <1>12 DEF Fill
  <1>13. CASE \E q \in Pids : FixX(t, q)
    BY <1>1, <1>2, <1>3, <1>4, <1>5, <1>13 DEF FixX
  <1>14. CASE \E q \in Pids : FixS(t, q)
    BY <1>1, <1>2, <1>3, <1>4, <1>5, <1>14 DEF FixS, AddSharer
  <1>15. CASE Update(t)
    BY <1>1, <1>2, <1>3, <1>4, <1>5, <1>15 DEF Update
  <1>16. CASE UnfixX(t)
    BY <1>1, <1>2, <1>3, <1>4, <1>5, <1>16 DEF UnfixX, Unlock
  <1>17. CASE UnfixS(t)
    BY <1>1, <1>2, <1>3, <1>4, <1>5, <1>17 DEF UnfixS
  <1>18. CASE ReadRole(t)
    BY <1>1, <1>2, <1>3, <1>4, <1>5, <1>18 DEF ReadRole
  <1>19. CASE \E q \in Pids : OptimisticStart(t, q)
    BY <1>1, <1>2, <1>3, <1>4, <1>5, <1>19 DEF OptimisticStart
  <1>20. CASE Access(t)
    BY <1>1, <1>2, <1>3, <1>4, <1>5, <1>20 DEF Access
  <1>21. CASE ClearMark(t)
    BY <1>1, <1>2, <1>3, <1>4, <1>5, <1>21 DEF ClearMark
  <1>22. CASE ReadO(t)
    BY <1>1, <1>2, <1>3, <1>4, <1>5, <1>22 DEF ReadO
  <1>23. CASE CheckO(t)
    BY <1>1, <1>2, <1>3, <1>4, <1>5, <1>23 DEF CheckO
  <1>24. CASE ReleaseO(t)
    BY <1>1, <1>2, <1>3, <1>4, <1>5, <1>24 DEF ReleaseO
  <1>25. CASE UpgradeX(t)
    BY <1>1, <1>2, <1>3, <1>4, <1>5, <1>25 DEF UpgradeX
  <1>26. CASE TryPromote(t)
    BY <1>1, <1>2, <1>3, <1>4, <1>5, <1>26 DEF TryPromote
  <1>27. CASE PromoteClaim(t)
    BY <1>1, <1>2, <1>3, <1>4, <1>5, <1>27 DEF PromoteClaim
  <1>28. CASE ReadMover(t)
    BY <1>1, <1>2, <1>3, <1>4, <1>5, <1>28 DEF ReadMover
  <1>29. CASE LockMover(t)
    BY <1>1, <1>2, <1>3, <1>4, <1>5, <1>6, <1>29 DEF LockMover, Resident
  <1>30. CASE PlaceMover(t)
    BY <1>1, <1>2, <1>3, <1>4, <1>5, <1>30 DEF PlaceMover
  <1>31. CASE MoveCopy(t)
    BY <1>1, <1>2, <1>3, <1>4, <1>5, <1>31 DEF MoveCopy
  <1>32. CASE MoveSwitch(t)
    BY <1>1, <1>2, <1>3, <1>4, <1>5, <1>32 DEF MoveSwitch
  <1>33. CASE CopyHome(t)
    BY <1>1, <1>2, <1>3, <1>4, <1>5, <1>33 DEF CopyHome
  <1>34. CASE SwitchHome(t)
    BY <1>1, <1>2, <1>3, <1>4, <1>5, <1>34 DEF SwitchHome
  <1>35. CASE UnlockPromoted(t)
    BY <1>1, <1>2, <1>3, <1>4, <1>5, <1>35 DEF UnlockPromoted, Unlock
  <1>36. CASE \E f \in Frames : TakeFree(t, f)
    BY <1>1, <1>2, <1>3, <1>4, <1>5, <1>36 DEF TakeFree
  <1>37. CASE Evict(t)
    BY <1>1, <1>2, <1>3, <1>4, <1>5, <1>37 DEF Evict
  <1>38. CASE EvictWrite(t)
    BY <1>1, <1>2, <1>3, <1>4, <1>5, <1>38 DEF EvictWrite
  <1>39. CASE FreeClean(t)
    BY <1>1, <1>2, <1>3, <1>4, <1>5, <1>7, <1>39 DEF FreeClean
  <1>40. CASE EvictDone(t)
    BY <1>1, <1>2, <1>3, <1>4, <1>5, <1>40 DEF EvictDone
  <1>41. CASE \E q \in Pids : EvictVisit(t, q)
    BY <1>1, <1>2, <1>3, <1>4, <1>5, <1>41 DEF EvictVisit
  <1>42. CASE \E q \in Pids : EvictUpgrade(t, q)
    BY <1>1, <1>2, <1>3, <1>4, <1>5, <1>42 DEF EvictUpgrade
  <1>43. CASE \E q \in Pids : Untrack(t, q)
    BY <1>1, <1>2, <1>3, <1>4, <1>5, <1>43 DEF Untrack
  <1>44. CASE \E q \in Pids : Remove(t, q)
    BY <1>1, <1>2, <1>3, <1>4, <1>5, <1>44 DEF Remove
  <1>45. QED
    BY <1>8, <1>9, <1>10, <1>11, <1>12, <1>13, <1>14, <1>15, <1>16, <1>17, <1>18, <1>19, <1>20,
       <1>21, <1>22, <1>23, <1>24, <1>25, <1>26, <1>27, <1>28, <1>29, <1>30, <1>31, <1>32, <1>33,
       <1>34, <1>35, <1>36, <1>37, <1>38, <1>39, <1>40, <1>41, <1>42, <1>43, <1>44
    DEF Step, Fixing, Optimistic, Promoting, Evicting

\* A page that can be reached after a step could be before, or its thread held it.
LEMMA StaysReachable ==
  ASSUME LatchInv, NEW t \in Threads, Step(t), UNCHANGED setup,
         NEW p \in Pids, ~HasX(t, p), latch'[p] <= Marked
  PROVE  latch[p] <= Marked
  <1> USE MaxSharedAssumption DEF Types, Xs, SetLatch, Unlocked, Marked, Locked, Invalid
  <1>0. Types BY DEF LatchInv
  <1>1. ASSUME Keeping(t) PROVE latch[p] <= Marked
    BY <1>0, <1>1 DEF Keeping
  <1>2. ASSUME \E q \in Pids : Seizing(t, q) \/ Upgrading(t, q) PROVE latch[p] <= Marked
    BY <1>0, <1>2 DEF Seizing, Upgrading
  <1>3. ASSUME \E q \in Pids : Freeing(t, q) \/ Downgrading(t, q) PROVE latch[p] <= Marked
    BY <1>0, <1>3 DEF Freeing, Downgrading
  <1>4. ASSUME \E q \in Pids : Entering(t, q) PROVE latch[p] <= Marked
    BY <1>0, <1>4 DEF Entering, AddSharer
  <1>5. ASSUME \E q \in Pids : Leaving(t, q) PROVE latch[p] <= Marked
    <2>1. PICK q \in Pids : Leaving(t, q) BY <1>5
    <2>2. latch[q] \in 1..MaxShared BY <2>1, SharedLatch DEF Leaving, Ss, LatchInv
    <2>3. QED BY <1>0, <2>1, <2>2 DEF Leaving
  <1>6. Kinds(t) BY StepKinds
  <1>7. QED BY <1>1, <1>2, <1>3, <1>4, <1>5, <1>6 DEF Kinds

\* A page that is not in the hash table after a step was not before, or its thread held it.
LEMMA StaysAbsent ==
  ASSUME LatchInv, NEW t \in Threads, Step(t), UNCHANGED setup,
         NEW p \in Pids, ~HasX(t, p), latch'[p] = Invalid
  PROVE  latch[p] = Invalid
  <1> USE MaxSharedAssumption DEF Types, Xs, SetLatch, Unlocked, Marked, Locked, Invalid
  <1>0. Types BY DEF LatchInv
  <1>1. ASSUME Keeping(t) PROVE latch[p] = Invalid
    BY <1>0, <1>1 DEF Keeping
  <1>2. ASSUME \E q \in Pids : Seizing(t, q) \/ Upgrading(t, q) PROVE latch[p] = Invalid
    BY <1>0, <1>2 DEF Seizing, Upgrading
  <1>3. ASSUME \E q \in Pids : Freeing(t, q) \/ Downgrading(t, q) PROVE latch[p] = Invalid
    BY <1>0, <1>3 DEF Freeing, Downgrading
  <1>4. ASSUME \E q \in Pids : Entering(t, q) PROVE latch[p] = Invalid
    BY <1>0, <1>4 DEF Entering, AddSharer
  <1>5. ASSUME \E q \in Pids : Leaving(t, q) PROVE latch[p] = Invalid
    <2>1. PICK q \in Pids : Leaving(t, q) BY <1>5
    <2>2. latch[q] \in 1..MaxShared BY <2>1, SharedLatch DEF Leaving, Ss, LatchInv
    <2>3. QED BY <1>0, <2>1, <2>2 DEF Leaving
  <1>6. Kinds(t) BY StepKinds
  <1>7. QED BY <1>1, <1>2, <1>3, <1>4, <1>5, <1>6 DEF Kinds

\* A page that the thread neither held nor holds has kept its place.
LEMMA ForeignPage ==
  ASSUME LatchInv, NEW t \in Threads, Step(t), UNCHANGED setup,
         NEW p \in Pids, ~HasX(t, p), ~HasX(t, p)', Placed(p)'
  PROVE  Placed(p) /\ where'[p] = where[p]
  <1>1. where'[p] = where[p] BY PlaceOfHeld
  <1>2. Alone(t) /\ Kinds(t) BY StepAlone, StepKinds DEF LatchInv
  <1>3. CASE latch'[p] <= Marked
    <2>1. latch[p] <= Marked BY <1>3, StaysReachable
    <2>2. QED BY <1>1, <2>1 DEF Placed
  <1>4. CASE \E u \in Threads : KeepsPlace(u, p)'
    <2>1. PICK u \in Threads : KeepsPlace(u, p)' BY <1>4
    <2>2. HasX(u, p)' BY <2>1 DEF KeepsPlace, HasX
    <2>3. u \in Threads \ {t} BY <2>2
    <2>4. KeepsPlace(u, p) BY <1>2, <2>1, <2>3 DEF Alone, Same, KeepsPlace, HasPid, HasMover
    <2>5. QED BY <1>1, <2>4 DEF Placed
  <1>5. QED BY <1>3, <1>4 DEF Placed, Marked

\* A frame that the thread has no claim to, and that a step of it leaves alone.
Foreign(t, f) == /\ f \in Frames /\ owner[f] # NoPid /\ ~HasFrame(t, f)
                 /\ \A p \in Pids : HasS(t, p) /\ HasX(t, p)' => f # where[p]

\* A page that a thread holds it alone holds; one that has a frame owns it.
LEMMA Holders ==
  ASSUME LatchInv, FrameInv, NEW t \in Threads
  PROVE  /\ \A p \in Pids : HasX(t, p) => latch[p] = Locked /\ \A u \in Threads \ {t} : ~HasX(u, p)
         /\ \A p \in Pids : HasS(t, p) => latch[p] <= MaxShared /\ Placed(p)
         /\ \A p \in Pids : KeepsPlace(t, p) => HasX(t, p) /\ Placed(p)
         /\ Promotes(t) => pid[t] \in Pids /\ HasX(t, pid[t])
         /\ Moves(t) => mover[t] \in Pids /\ HasX(t, mover[t])
  <1>1. \A p \in Pids : HasX(t, p) => latch[p] = Locked /\ \A u \in Threads \ {t} : ~HasX(u, p)
    BY DEF LatchInv, Exclusive
  <1>2. \A p \in Pids : HasS(t, p) => latch[p] <= MaxShared /\ Placed(p)
    BY SharedLatch, MaxSharedAssumption DEF LatchInv, Placed, Marked
  <1>3. \A p \in Pids : KeepsPlace(t, p) => HasX(t, p) /\ Placed(p)
    BY DEF KeepsPlace, HasX, Placed
  <1>4. /\ Promotes(t) => pid[t] \in Pids /\ HasX(t, pid[t])
        /\ Moves(t) => mover[t] \in Pids /\ HasX(t, mover[t])
    BY DEF LatchInv, Consistent, Registers, Promotes, Moves, HasX, HasPid, HasMover, PromotePhases, MovePhases
  <1>5. QED BY <1>1, <1>2, <1>3, <1>4

LEMMA ForeignPlace ==
  ASSUME LatchInv, FrameInv, NEW t \in Threads,
         NEW p \in Pids, ~HasX(t, p), ~HasX(t, p)', Placed(p)
  PROVE  Foreign(t, where[p])
  <1>1. where[p] \in Frames /\ owner[where[p]] = p BY DEF FrameInv, Owned
  <1>2. ASSUME NEW q \in Pids, Placed(q), where[q] = where[p] PROVE q = p
    BY <1>1, <1>2 DEF FrameInv, Owned
  <1>3. ~HasFrame(t, where[p])
    <2>1. Frees(t) => spot[t] # where[p] BY DEF FrameInv, FreedOnce, Abandoned
    <2>2. Promotes(t) => Home(pid[t]) # where[p] BY <1>1, Holders DEF FrameInv, Owned
    <2>3. Moves(t) => spot[t] # where[p] BY <1>1, Holders DEF FrameInv, Owned
    <2>4. \A q \in Pids : KeepsPlace(t, q) => where[q] # where[p] BY <1>2, Holders
    <2>5. QED BY <2>1, <2>2, <2>3, <2>4 DEF HasFrame
  <1>4. \A q \in Pids : HasS(t, q) /\ HasX(t, q)' => where[p] # where[q]
    BY <1>2, Holders
  <1>5. QED BY <1>1, <1>3, <1>4, NoPidIsNone DEF Foreign

LEMMA ForeignClaim ==
  ASSUME LatchInv, FrameInv, NEW t \in Threads, NEW u \in Threads \ {t},
         \A p \in Pids : HasX(u, p) => ~HasX(t, p)'
  PROVE  /\ Promotes(u) => Foreign(t, Home(pid[u]))
         /\ Moves(u) => Foreign(t, spot[u])
         /\ Frees(u) => Foreign(t, spot[u])
  <1>1. ASSUME NEW p \in Pids, HasX(u, p), NEW f \in Frames, owner[f] = p, Frees(t) => spot[t] # f
        PROVE  Foreign(t, f)
    <2>1. ~HasX(t, p) /\ ~HasS(t, p) /\ ~HasX(t, p)'
      BY <1>1, Holders, MaxSharedAssumption DEF Locked
    <2>2. \A q \in Pids : Placed(q) /\ where[q] = f => q = p BY <1>1 DEF FrameInv, Owned
    <2>3. Promotes(t) => Home(pid[t]) # f BY <1>1, <2>1, Holders DEF FrameInv, Owned
    <2>4. Moves(t) => spot[t] # f BY <1>1, <2>1, Holders DEF FrameInv, Owned
    <2>5. \A q \in Pids : KeepsPlace(t, q) => where[q] # f BY <2>1, <2>2, Holders
    <2>6. \A q \in Pids : HasS(t, q) => where[q] # f BY <2>1, <2>2, Holders
    <2>7. QED BY <1>1, <2>3, <2>4, <2>5, <2>6, NoPidIsNone DEF Foreign, HasFrame
  <1>2. Promotes(u) => Foreign(t, Home(pid[u]))
    <2>1. Frees(t) /\ Promotes(u) => spot[t] # Home(pid[u]) BY DEF FrameInv, FreedOnce, Abandoned
    <2>2. Promotes(u) => Home(pid[u]) \in Frames /\ owner[Home(pid[u])] = pid[u]
      BY Holders, HomeIsFrame DEF LatchInv, FrameInv, Owned
    <2>3. QED BY <1>1, <2>1, <2>2, Holders
  <1>3. Moves(u) => Foreign(t, spot[u])
    <2>1. Frees(t) /\ Moves(u) => spot[t] # spot[u] BY DEF FrameInv, FreedOnce, Abandoned
    <2>2. Moves(u) => spot[u] \in Frames /\ owner[spot[u]] = mover[u] BY DEF FrameInv, Owned
    <2>3. QED BY <1>1, <2>1, <2>2, Holders
  <1>4. ASSUME Frees(u) PROVE Foreign(t, spot[u])
    <2>1. spot[u] \in Frames /\ owner[spot[u]] # NoPid BY <1>4 DEF FrameInv, Owned
    <2>2. \A p \in Pids : Placed(p) => where[p] # spot[u] BY <1>4 DEF FrameInv, FreedOnce, Abandoned
    <2>3. /\ Promotes(t) => Home(pid[t]) # spot[u]
          /\ Moves(t) => spot[t] # spot[u]
          /\ Frees(t) => spot[t] # spot[u]
      BY <1>4 DEF FrameInv, FreedOnce, Abandoned
    <2>4. QED BY <2>1, <2>2, <2>3, Holders DEF Foreign, HasFrame
  <1>5. QED BY <1>2, <1>3, <1>4

LEMMA ForeignStays ==
  ASSUME NEW t \in Threads, OwnerStep(t), NEW f, Foreign(t, f)
  PROVE  owner'[f] = owner[f] /\ ~Obtains(t, f)
  BY DEF OwnerStep, Foreign, Obtains

LEMMA StepOwned ==
  ASSUME LatchInv, LatchInv', FrameInv, NEW t \in Threads, Step(t), UNCHANGED setup,
         OwnerStep(t), PageStep(t), ClaimStep(t)
  PROVE  Owned'
  <1>1. Alone(t) BY StepAlone DEF LatchInv
  <1>2. ASSUME NEW p \in Pids, Placed(p)' PROVE where'[p] \in Frames /\ owner'[where'[p]] = p
    <2>1. CASE HasX(t, p) \/ HasX(t, p)'
      <3>1. ASSUME NEW u \in Threads \ {t} PROVE ~KeepsPlace(u, p)'
        <4>1. KeepsPlace(u, p)' => HasX(u, p) /\ HasX(u, p)'
          BY <1>1 DEF Alone, Same, KeepsPlace, HasX, HasPid, HasMover
        <4>2. QED BY <2>1, <4>1 DEF LatchInv, Exclusive
      <3>2. latch'[p] <= Marked \/ KeepsPlace(t, p)' BY <1>2, <3>1 DEF Placed, Marked
      <3>3. QED BY <2>1, <3>2 DEF PageStep
    <2>2. CASE ~HasX(t, p) /\ ~HasX(t, p)'
      <3>1. Placed(p) /\ where'[p] = where[p] BY <1>2, <2>2, ForeignPage
      <3>2. Foreign(t, where[p]) BY <2>2, <3>1, ForeignPlace
      <3>3. QED BY <3>1, <3>2, ForeignStays DEF FrameInv, Owned
    <2>3. QED BY <2>1, <2>2
  <1>3. ASSUME NEW u \in Threads \ {t}
        PROVE  /\ Promotes(u)' => owner'[Home(pid'[u])] = pid'[u]
               /\ Moves(u)' => spot'[u] \in Frames /\ owner'[spot'[u]] = mover'[u]
               /\ Frees(u)' => spot'[u] \in Frames /\ owner'[spot'[u]] # NoPid
    <2>1. Same(u) BY <1>1 DEF Alone
    <2>2. \A p \in Pids : HasX(u, p) => ~HasX(t, p)'
      <3>1. \A p \in Pids : HasX(u, p) => HasX(u, p)' BY <2>1 DEF Same, HasX, HasPid, HasMover
      <3>2. QED BY <3>1 DEF LatchInv, Exclusive
    <2>3. /\ Promotes(u) => Foreign(t, Home(pid[u]))
          /\ Moves(u) => Foreign(t, spot[u])
          /\ Frees(u) => Foreign(t, spot[u])
      BY <2>2, ForeignClaim
    <2>4. QED BY <2>1, <2>3, ForeignStays DEF FrameInv, Owned, Same, Promotes, Moves, Frees
  <1>4. /\ Promotes(t)' => owner'[Home(pid'[t])] = pid'[t]
        /\ Moves(t)' => spot'[t] \in Frames /\ owner'[spot'[t]] = mover'[t]
    BY DEF ClaimStep
  <1>5. Frees(t)' => spot'[t] \in Frames /\ owner'[spot'[t]] # NoPid
    BY Holders, NoPidIsNone DEF ClaimStep, FrameInv, Owned
  <1>6. \A u \in Threads : Promotes(u)' => owner'[Home(pid'[u])] = pid'[u]
    BY <1>3, <1>4
  <1>7. \A u \in Threads : (Promotes(u) => owner[Home(pid[u])] = pid[u])'
    BY <1>6 DEF Home
  <1>8. ASSUME NEW u \in Threads
        PROVE  /\ Moves(u)' => spot'[u] \in Frames /\ owner'[spot'[u]] = mover'[u]
               /\ Frees(u)' => spot'[u] \in Frames /\ owner'[spot'[u]] # NoPid
    BY <1>3, <1>4, <1>5
  <1>9. QED BY <1>2, <1>7, <1>8 DEF Owned

LEMMA StepFreedOnce ==
  ASSUME LatchInv, LatchInv', FrameInv, Owned', NEW t \in Threads, Step(t), UNCHANGED setup,
         OwnerStep(t), PageStep(t), ClaimStep(t)
  PROVE  FreedOnce'
  <1>1. Alone(t) BY StepAlone DEF LatchInv
  <1>2. ASSUME NEW u \in Threads \ {t}, Frees(u), NEW p \in Pids, Placed(p)'
        PROVE  where'[p] # spot[u]
    <2>1. Same(u) BY <1>1 DEF Alone
    <2>2. \A q \in Pids : HasX(u, q) => ~HasX(t, q)'
      <3>1. \A q \in Pids : HasX(u, q) => HasX(u, q)' BY <2>1 DEF Same, HasX, HasPid, HasMover
      <3>2. QED BY <3>1 DEF LatchInv, Exclusive
    <2>3. ~Obtains(t, spot[u]) BY <1>2, <2>2, ForeignClaim, ForeignStays
    <2>4. Placed(p) => where[p] # spot[u] BY <1>2 DEF FrameInv, FreedOnce, Abandoned
    <2>5. CASE HasX(t, p) \/ HasX(t, p)'
      <3>1. ASSUME NEW v \in Threads \ {t} PROVE ~KeepsPlace(v, p)'
        <4>1. KeepsPlace(v, p)' => HasX(v, p) /\ HasX(v, p)'
          BY <1>1 DEF Alone, Same, KeepsPlace, HasX, HasPid, HasMover
        <4>2. QED BY <2>5, <4>1 DEF LatchInv, Exclusive
      <3>2. latch'[p] <= Marked \/ KeepsPlace(t, p)' BY <1>2, <3>1 DEF Placed, Marked
      <3>3. Obtains(t, where'[p]) \/ (latch[p] <= Marked /\ where'[p] = where[p])
        BY <2>5, <3>2 DEF PageStep
      <3>4. QED BY <2>3, <2>4, <3>3 DEF Placed
    <2>6. CASE ~HasX(t, p) /\ ~HasX(t, p)' BY <1>2, <2>4, <2>6, ForeignPage
    <2>7. QED BY <2>5, <2>6
  <1>3. ASSUME NEW u \in Threads \ {t}, Frees(u), NEW v \in Threads
        PROVE  /\ Promotes(v)' => Home(pid'[v]) # spot[u]
               /\ Moves(v)' => spot'[v] # spot[u]
               /\ Frees(v)' /\ spot'[v] = spot[u] => v = u
    <2>1. Same(u) BY <1>1 DEF Alone
    <2>2. CASE v = t
      <3>1. \A q \in Pids : HasX(u, q) => ~HasX(t, q)'
        <4>1. \A q \in Pids : HasX(u, q) => HasX(u, q)' BY <2>1 DEF Same, HasX, HasPid, HasMover
        <4>2. QED BY <4>1 DEF LatchInv, Exclusive
      <3>2. ~Obtains(t, spot[u]) BY <1>3, <3>1, ForeignClaim, ForeignStays
      <3>3. \A q \in Pids : KeepsPlace(t, q) => where[q] # spot[u]
        BY <1>3, Holders DEF FrameInv, FreedOnce, Abandoned
      <3>4. QED BY <2>2, <3>2, <3>3 DEF ClaimStep
    <2>3. CASE v # t
      <3>1. Same(v) BY <1>1, <2>3 DEF Alone
      <3>2. QED BY <1>3, <3>1 DEF Same, Promotes, Moves, Frees, FrameInv, FreedOnce, Abandoned
    <2>4. QED BY <2>2, <2>3
  <1>4. ASSUME Frees(t)'
        PROVE  /\ \A p \in Pids : Placed(p)' => where'[p] # spot'[t]
               /\ \A v \in Threads : /\ Promotes(v)' => Home(pid'[v]) # spot'[t]
                                     /\ Moves(v)' => spot'[v] # spot'[t]
                                     /\ Frees(v)' /\ spot'[v] = spot'[t] => v = t
    <2>1. PICK q \in Pids : KeepsPlace(t, q) /\ spot'[t] = where[q] /\ latch'[q] = Invalid /\ owner' = owner
      BY <1>4 DEF ClaimStep
    <2>2. where[q] \in Frames /\ owner[where[q]] = q BY <2>1, Holders DEF FrameInv, Owned
    <2>3. \A v \in Threads : ~HasX(v, q)'
      BY <2>1, MaxSharedAssumption DEF LatchInv, Exclusive, Locked, Invalid
    <2>4. ~Placed(q)'
      BY <2>1, <2>3, MaxSharedAssumption DEF Placed, KeepsPlace, HasX, Marked, Invalid
    <2>5. \A p \in Pids : Placed(p)' => where'[p] # spot'[t] BY <2>1, <2>2, <2>4 DEF Owned
    <2>6. ASSUME NEW v \in Threads PROVE Promotes(v)' => Home(pid'[v]) # spot'[t]
      <3>1. Promotes(v)' => HasX(v, pid[v])' BY DEF Promotes, HasX, HasPid, PromotePhases
      <3>2. (Promotes(v) => owner[Home(pid[v])] = pid[v])' BY DEF Owned
      <3>3. Promotes(v)' => owner'[Home(pid'[v])] = pid'[v] BY <3>2 DEF Home
      <3>4. Promotes(v)' => pid'[v] # q BY <2>3, <3>1
      <3>5. QED BY <2>1, <2>2, <3>3, <3>4
    <2>7. ASSUME NEW v \in Threads, Moves(v)' PROVE spot'[v] # spot'[t]
      <3>1. HasX(v, mover[v])' BY <2>7 DEF Moves, HasX, HasMover, MovePhases
      <3>2. owner'[spot'[v]] = mover'[v] BY <2>7 DEF Owned
      <3>3. mover'[v] # q BY <2>3, <3>1
      <3>4. QED BY <2>1, <2>2, <3>2, <3>3
    <2>8. ASSUME NEW v \in Threads \ {t}, Frees(v)' PROVE spot'[v] # spot'[t]
      <3>1. Frees(v) /\ spot'[v] = spot[v] BY <1>1, <2>8 DEF Alone, Same, Frees
      <3>2. spot[v] # where[q] BY <2>1, <3>1, Holders DEF FrameInv, FreedOnce, Abandoned
      <3>3. QED BY <2>1, <3>1, <3>2
    <2>9. QED BY <2>5, <2>6, <2>7, <2>8
  <1>5. ASSUME NEW u \in Threads, Frees(u)'
        PROVE  /\ \A p \in Pids : Placed(p)' => where'[p] # spot'[u]
               /\ \A v \in Threads : /\ Promotes(v)' => Home(pid'[v]) # spot'[u]
                                     /\ Moves(v)' => spot'[v] # spot'[u]
                                     /\ Frees(v)' /\ spot'[v] = spot'[u] => v = u
    <2>1. CASE u = t BY <1>4, <1>5, <2>1
    <2>2. CASE u # t
      <3>1. Frees(u) /\ spot'[u] = spot[u] BY <1>1, <1>5, <2>2 DEF Alone, Same, Frees
      <3>2. QED BY <1>2, <1>3, <2>2, <3>1
    <2>3. QED BY <2>1, <2>2
  <1>6. ASSUME NEW u \in Threads, Frees(u)', NEW v \in Threads
        PROVE  (Promotes(v) => Home(pid[v]) # spot[u])'
    BY <1>5, <1>6 DEF Home
  <1>7. QED BY <1>5, <1>6 DEF FreedOnce, Abandoned

LEMMA StepInSlot ==
  ASSUME LatchInv, FrameInv, NEW t \in Threads, Step(t), UNCHANGED setup, ClaimStep(t)
  PROVE  InSlot'
  <1>1. Alone(t) BY StepAlone DEF LatchInv
  <1>2. ASSUME NEW u \in Threads, NEW p \in Pids, HasMover(u, p)' PROVE where'[p] = Home(pid'[u])
    <2>1. CASE u = t BY <1>2, <2>1 DEF ClaimStep
    <2>2. CASE u # t
      <3>1. HasMover(u, p) /\ pid'[u] = pid[u] BY <1>1, <1>2, <2>2 DEF Alone, Same, HasMover
      <3>2. ~HasX(t, p) BY <2>2, <3>1, Holders DEF HasX
      <3>3. QED BY <3>1, <3>2, PlaceOfHeld DEF FrameInv, InSlot
    <2>3. QED BY <2>1, <2>2
  <1>3. ASSUME NEW u \in Threads, NEW p \in Pids PROVE (HasMover(u, p) => where[p] = Home(pid[u]))'
    BY <1>2 DEF Home
  <1>4. QED BY <1>3 DEF InSlot

LEMMA FrameInit == Init => FrameInv
  <1> SUFFICES ASSUME Init PROVE FrameInv OBVIOUS
  <1>1. \A t \in Threads : ~Promotes(t) /\ ~Moves(t) /\ ~Frees(t) /\ \A p \in Pids : ~HasMover(t, p)
    BY DEF Init, Promotes, Moves, Frees, HasMover, EvictPhases, MovePhases
  <1>2. \A p \in Pids : ~Placed(p)
    BY MaxSharedAssumption, <1>1
    DEF Init, Placed, KeepsPlace, HasPid, Marked, Invalid, EvictPhases, MovePhases, PromotePhases
  <1>3. QED BY <1>1, <1>2 DEF FrameInv, Owned, FreedOnce, InSlot

THEOREM FramesOwned == Spec /\ []MoverIsInSlot => []FrameInv
  <1>1. Init => FrameInv BY FrameInit
  <1>2. LatchInv /\ LatchInv' /\ MoverIsInSlot' /\ FrameInv /\ [Next]_vars => FrameInv'
    <2> SUFFICES ASSUME LatchInv, LatchInv', MoverIsInSlot', FrameInv, [Next]_vars PROVE FrameInv'
      OBVIOUS
    <2>1. CASE UNCHANGED vars
      BY <2>1 DEF vars, frames, table, guard, promo, batch, FrameInv, Owned, FreedOnce, Abandoned, InSlot,
                  Placed, KeepsPlace, HasPid, HasMover, Promotes, Moves, Frees, Home
    <2>2. ASSUME NEW t \in Threads, Step(t), UNCHANGED setup PROVE FrameInv'
      <3>1. OwnerStep(t) /\ PageStep(t) /\ ClaimStep(t) BY <2>2, StepFrames
      <3>2. Owned' BY <2>2, <3>1, StepOwned
      <3>3. FreedOnce' BY <2>2, <3>1, <3>2, StepFreedOnce
      <3>4. InSlot' BY <2>2, <3>1, StepInSlot
      <3>5. QED BY <3>2, <3>3, <3>4 DEF FrameInv
    <2>3. CASE Next BY <2>2, <2>3 DEF Next, Step
    <2>4. QED BY <2>1, <2>3
  <1>3. QED BY <1>1, <1>2, LatchesHold, PTL DEF Spec

\* As long as promoteLocked moves the page that is in the slot (which finding 2 shows
\* it not always to do), every page that can be reached has a frame of its own.
THEOREM FramesHaveOnePage == Spec /\ []MoverIsInSlot => []FrameOwnership
  <1>1. LatchInv /\ FrameInv => FrameOwnership
    BY DEF LatchInv, FrameInv, Owned, FrameOwnership, Settled, Usable, Placed, KeepsPlace, HasPid
  <1>2. QED BY <1>1, FramesOwned, LatchesHold, PTL

-------------------------------------------------------------------------------
(* Where nothing is displaced: pages are not promoted, or each has a bucket of  *)
(* its own, in which promoteLocked finds no other page.                         *)

Undisplaced == \A s \in Setups : s.promotes =>
                 \A p, q \in Pids : s.bucket[p] = s.bucket[q] => p = q
Unmoved(t) == /\ pc[t] \notin MovePhases
              /\ pc[t] \in EvictPhases => mover[t] = NoPid
              /\ pc[t] \in {"readRoleAway", "tryPromote", "promote", "readMover", "lockMover"} => setup.promotes
NothingMoves == setup \in Setups /\ \A t \in Threads : Unmoved(t)

LEMMA StepUnmoved ==
  ASSUME Undisplaced, LatchInv, NothingMoves, NEW t \in Threads, Step(t), UNCHANGED setup
  PROVE  NothingMoves'
  <1> SUFFICES Unmoved(t)'
    <2>1. \A u \in Threads \ {t} : Unmoved(u)'
      BY StepAlone DEF LatchInv, NothingMoves, Unmoved, Alone, Same
    <2>2. QED BY <2>1 DEF NothingMoves
  <1> USE SetupFields, NoPidIsNone, MaxSharedAssumption
      DEF Goto, Done, Types, Registers, EvictPhases, MovePhases, Unmoved, frames, table, guard, promo, batch,
          Unlocked, Locked
  <1>1. Types /\ Registers(t) BY DEF LatchInv, Consistent
  <1>2. Unmoved(t) BY DEF NothingMoves
  <1>3. pc[t] = "lockMover" =>
          /\ latch[pid[t]] = Locked
          /\ \A q \in Pids : setup.bucket[q] = setup.bucket[pid[t]] => q = pid[t]
    <2>1. pc[t] = "lockMover" => pid[t] \in Pids /\ setup.promotes /\ HasX(t, pid[t])
      BY <1>1, <1>2 DEF HasX, HasPid, PromotePhases
    <2>2. QED BY <2>1 DEF LatchInv, Exclusive, Undisplaced, NothingMoves
  <1>4. CASE Alloc(t)
    BY <1>1, <1>2, <1>3, <1>4 DEF Alloc, InsertLocked
  <1>5. CASE \E q \in Pids, m \in setup.guards : Fault(t, q, m)
    BY <1>1, <1>2, <1>3, <1>5 DEF Fault, InsertLocked
  <1>6. CASE Track(t)
    BY <1>1, <1>2, <1>3, <1>6 DEF Track
  <1>7. CASE Place(t)
    BY <1>1, <1>2, <1>3, <1>7 DEF Place
  <1>8. CASE Fill(t)
    BY <1>1, <1>2, <1>3, <1>8 DEF Fill
  <1>9. CASE \E q \in Pids : FixX(t, q)
    BY <1>1, <1>2, <1>3, <1>9 DEF FixX
  <1>10. CASE \E q \in Pids : FixS(t, q)
    BY <1>1, <1>2, <1>3, <1>10 DEF FixS, AddSharer
  <1>11. CASE Update(t)
    BY <1>1, <1>2, <1>3, <1>11 DEF Update
  <1>12. CASE UnfixX(t)
    BY <1>1, <1>2, <1>3, <1>12 DEF UnfixX, Unlock
  <1>13. CASE UnfixS(t)
    BY <1>1, <1>2, <1>3, <1>13 DEF UnfixS
  <1>14. CASE ReadRole(t)
    BY <1>1, <1>2, <1>3, <1>14 DEF ReadRole
  <1>15. CASE \E q \in Pids : OptimisticStart(t, q)
    BY <1>1, <1>2, <1>3, <1>15 DEF OptimisticStart
  <1>16. CASE Access(t)
    BY <1>1, <1>2, <1>3, <1>16 DEF Access
  <1>17. CASE ClearMark(t)
    BY <1>1, <1>2, <1>3, <1>17 DEF ClearMark
  <1>18. CASE ReadO(t)
    BY <1>1, <1>2, <1>3, <1>18 DEF ReadO
  <1>19. CASE CheckO(t)
    BY <1>1, <1>2, <1>3, <1>19 DEF CheckO
  <1>20. CASE ReleaseO(t)
    BY <1>1, <1>2, <1>3, <1>20 DEF ReleaseO
  <1>21. CASE UpgradeX(t)
    BY <1>1, <1>2, <1>3, <1>21 DEF UpgradeX
  <1>22. CASE TryPromote(t)
    BY <1>1, <1>2, <1>3, <1>22 DEF TryPromote
  <1>23. CASE PromoteClaim(t)
    BY <1>1, <1>2, <1>3, <1>23 DEF PromoteClaim
  <1>24. CASE ReadMover(t)
    BY <1>1, <1>2, <1>3, <1>24 DEF ReadMover
  <1>25. CASE LockMover(t)
    BY <1>1, <1>2, <1>3, <1>25 DEF LockMover, Resident
  <1>26. CASE PlaceMover(t)
    BY <1>1, <1>2, <1>3, <1>26 DEF PlaceMover
  <1>27. CASE MoveCopy(t)
    BY <1>1, <1>2, <1>3, <1>27 DEF MoveCopy
  <1>28. CASE MoveSwitch(t)
    BY <1>1, <1>2, <1>3, <1>28 DEF MoveSwitch
  <1>29. CASE CopyHome(t)
    BY <1>1, <1>2, <1>3, <1>29 DEF CopyHome
  <1>30. CASE SwitchHome(t)
    BY <1>1, <1>2, <1>3, <1>30 DEF SwitchHome
  <1>31. CASE UnlockPromoted(t)
    BY <1>1, <1>2, <1>3, <1>31 DEF UnlockPromoted, Unlock
  <1>32. CASE \E f \in Frames : TakeFree(t, f)
    BY <1>1, <1>2, <1>3, <1>32 DEF TakeFree
  <1>33. CASE Evict(t)
    BY <1>1, <1>2, <1>3, <1>33 DEF Evict
  <1>34. CASE EvictWrite(t)
    BY <1>1, <1>2, <1>3, <1>34 DEF EvictWrite
  <1>35. CASE FreeClean(t)
    BY <1>1, <1>2, <1>3, <1>35 DEF FreeClean
  <1>36. CASE EvictDone(t)
    BY <1>1, <1>2, <1>3, <1>36 DEF EvictDone
  <1>37. CASE \E q \in Pids : EvictVisit(t, q)
    BY <1>1, <1>2, <1>3, <1>37 DEF EvictVisit
  <1>38. CASE \E q \in Pids : EvictUpgrade(t, q)
    BY <1>1, <1>2, <1>3, <1>38 DEF EvictUpgrade
  <1>39. CASE \E q \in Pids : Untrack(t, q)
    BY <1>1, <1>2, <1>3, <1>39 DEF Untrack
  <1>40. CASE \E q \in Pids : Remove(t, q)
    BY <1>1, <1>2, <1>3, <1>40 DEF Remove
  <1>41. QED
    BY <1>4, <1>5, <1>6, <1>7, <1>8, <1>9, <1>10, <1>11, <1>12, <1>13, <1>14, <1>15, <1>16,
       <1>17, <1>18, <1>19, <1>20, <1>21, <1>22, <1>23, <1>24, <1>25, <1>26, <1>27, <1>28, <1>29,
       <1>30, <1>31, <1>32, <1>33, <1>34, <1>35, <1>36, <1>37, <1>38, <1>39, <1>40
    DEF Step, Fixing, Optimistic, Promoting, Evicting

LEMMA NothingDisplaced == Undisplaced => (Spec => []MoverIsInSlot)
  <1> SUFFICES ASSUME Undisplaced PROVE Spec => []MoverIsInSlot OBVIOUS
  <1>1. Init => NothingMoves
    BY NoPidIsNone DEF Init, NothingMoves, Unmoved, MovePhases, EvictPhases
  <1>2. LatchInv /\ NothingMoves /\ [Next]_vars => NothingMoves'
    <2> SUFFICES ASSUME LatchInv, NothingMoves, [Next]_vars PROVE NothingMoves' OBVIOUS
    <2>1. CASE UNCHANGED vars BY <2>1 DEF vars, guard, promo, NothingMoves, Unmoved
    <2>2. CASE Next BY <2>2, StepUnmoved DEF Next, Step
    <2>3. QED BY <2>1, <2>2
  <1>3. NothingMoves => MoverIsInSlot BY DEF NothingMoves, Unmoved, MovePhases, MoverIsInSlot
  <1>4. QED BY <1>1, <1>2, <1>3, LatchesHold, PTL DEF Spec

-------------------------------------------------------------------------------
(* No frame leaks. *)

\* A page without a frame has no address, and a page that eviction has freed the frame
\* of does not own it.
Homeless(t) == pc[t] \in {"track", "place"} \/ (pc[t] \in EvictPhases /\ mover[t] = NoPid)
LeavesFrame(t) == /\ Homeless(t) => where[pid[t]] = Nowhere
                  /\ pc[t] = "upgrade" => \A q \in toEvict[t] : where[q] \in Frames /\ owner[where[q]] # q
Accounts == /\ freeList \in [Frames -> 0..QueueCap] /\ FrameAccounting
            /\ \A p \in Pids : latch[p] = Invalid => where[p] = Nowhere
            /\ \A t \in Threads : LeavesFrame(t)

\* Frame f is in the hands of another thread.
Elsewhere(t, f) == \E u \in Threads \ {t} : InTransit(u, f, owner[f])

\* A step queues the frames it frees, gives frames to pages of its thread, and keeps
\* account of all others.
QueueStep(t) ==
  /\ freeList' \in [Frames -> 0..QueueCap]
  /\ \A f \in Frames : owner'[f] = NoPid /\ (owner[f] = NoPid => freeList[f] > 0) => freeList'[f] > 0
GiveStep(t) ==
  \A f \in Frames : \/ owner'[f] = owner[f] \/ owner'[f] = NoPid
                    \/ owner'[f] \in Pids /\ HasX(t, owner'[f])
KeepStep(t) ==
  \A f \in setup.frames : owner'[f] # NoPid =>
    \/ where'[owner'[f]] = f \/ InTransit(t, f, owner[f])'
    \/ owner'[f] = owner[f] /\ Elsewhere(t, f)
LeaveStep(t) == LeavesFrame(t)' /\ \A p \in Pids : HasX(t, p) /\ latch'[p] = Invalid => where'[p] = Nowhere

LEMMA StepAccounts ==
  ASSUME LatchInv, FrameInv, Accounts, NEW t \in Threads, Step(t), UNCHANGED setup
  PROVE  QueueStep(t) /\ GiveStep(t) /\ KeepStep(t) /\ LeaveStep(t)
  <1> USE SetupFields, NoPidIsNone, MaxSharedAssumption, HomeIsFrame, NowhereAssumption, QueueCapAssumption
      DEF Goto, Done, Types, Registers, EvictPhases, MovePhases, PromotePhases, SetLatch, Claim, Queued,
          HasX, HasPid, HasMover, OneRole, HasS, Homeless, LeavesFrame, InTransit,
          QueueStep, GiveStep, KeepStep, LeaveStep,
          frames, table, guard, promo, batch, Unlocked, Locked, Marked, Invalid
  <1>1. Types /\ Registers(t) /\ (\A p \in Pids : OneRole(t, p)) /\ setup.frames \subseteq Frames
    BY DEF LatchInv, Consistent, Exclusive, Setup
  <1>2. \A p \in Pids : HasX(t, p) => latch[p] = Locked
    BY DEF LatchInv, Exclusive
  <1>3. \A p \in Pids : HasS(t, p) => latch[p] \in 1..MaxShared
    BY SharedLatch DEF LatchInv
  <1>4. /\ \A p \in Pids : latch[p] <= Marked \/ KeepsPlace(t, p) => where[p] \in Frames /\ owner[where[p]] = p
        /\ Promotes(t) => owner[Home(pid[t])] = pid[t]
        /\ Moves(t) => spot[t] \in Frames /\ owner[spot[t]] = mover[t]
        /\ Frees(t) => spot[t] \in Frames /\ owner[spot[t]] # NoPid
    BY DEF FrameInv, Owned, Placed
  <1>5. /\ \A p \in Pids : HasMover(t, p) => where[p] = Home(pid[t])
        /\ \A p \in Pids : Home(p)' = Home(p)
    BY DEF FrameInv, InSlot, Home
  <1>6. /\ freeList \in [Frames -> 0..QueueCap] /\ LeavesFrame(t)
        /\ \A p \in Pids : latch[p] = Invalid => where[p] = Nowhere
    BY DEF Accounts
  <1>7. \A f \in setup.frames : owner[f] # NoPid =>
          where[owner[f]] = f \/ InTransit(t, f, owner[f]) \/ Elsewhere(t, f)
    BY DEF Accounts, FrameAccounting, Elsewhere
  <1>8. CASE Alloc(t)
    BY <1>1, <1>2, <1>3, <1>4, <1>5, <1>6, <1>7, <1>8 DEF Alloc, InsertLocked, KeepsPlace, Promotes, Moves, Frees
  <1>9. CASE \E q \in Pids, m \in setup.guards : Fault(t, q, m)
    BY <1>1, <1>2, <1>3, <1>4, <1>5, <1>6, <1>7, <1>9 DEF Fault, InsertLocked, KeepsPlace, Promotes, Moves, Frees
  <1>10. CASE Track(t)
    BY <1>1, <1>2, <1>3, <1>4, <1>5, <1>6, <1>7, <1>10 DEF Track, KeepsPlace, Promotes, Moves, Frees
  <1>11. CASE Place(t)
    BY <1>1, <1>2, <1>3, <1>4, <1>5, <1>6, <1>7, <1>11 DEF Place, KeepsPlace, Promotes, Moves, Frees
  <1>12. CASE Fill(t)
    BY <1>1, <1>2, <1>3, <1>4, <1>5, <1>6, <1>7, <1>12 DEF Fill, KeepsPlace, Promotes, Moves, Frees
  <1>13. CASE \E q \in Pids : FixX(t, q)
    BY <1>1, <1>2, <1>3, <1>4, <1>5, <1>6, <1>7, <1>13 DEF FixX, KeepsPlace, Promotes, Moves, Frees
  <1>14. CASE \E q \in Pids : FixS(t, q)
    BY <1>1, <1>2, <1>3, <1>4, <1>5, <1>6, <1>7, <1>14 DEF FixS, AddSharer, KeepsPlace, Promotes, Moves, Frees
  <1>15. CASE Update(t)
    BY <1>1, <1>2, <1>3, <1>4, <1>5, <1>6, <1>7, <1>15 DEF Update, KeepsPlace, Promotes, Moves, Frees
  <1>16. CASE UnfixX(t)
    BY <1>1, <1>2, <1>3, <1>4, <1>5, <1>6, <1>7, <1>16 DEF UnfixX, Unlock, KeepsPlace, Promotes, Moves, Frees
  <1>17. CASE UnfixS(t)
    BY <1>1, <1>2, <1>3, <1>4, <1>5, <1>6, <1>7, <1>17 DEF UnfixS, KeepsPlace, Promotes, Moves, Frees
  <1>18. CASE ReadRole(t)
    BY <1>1, <1>2, <1>3, <1>4, <1>5, <1>6, <1>7, <1>18 DEF ReadRole, KeepsPlace, Promotes, Moves, Frees
  <1>19. CASE \E q \in Pids : OptimisticStart(t, q)
    BY <1>1, <1>2, <1>3, <1>4, <1>5, <1>6, <1>7, <1>19 DEF OptimisticStart, KeepsPlace, Promotes, Moves, Frees
  <1>20. CASE Access(t)
    BY <1>1, <1>2, <1>3, <1>4, <1>5, <1>6, <1>7, <1>20 DEF Access, KeepsPlace, Promotes, Moves, Frees
  <1>21. CASE ClearMark(t)
    BY <1>1, <1>2, <1>3, <1>4, <1>5, <1>6, <1>7, <1>21 DEF ClearMark, KeepsPlace, Promotes, Moves, Frees
  <1>22. CASE ReadO(t)
    BY <1>1, <1>2, <1>3, <1>4, <1>5, <1>6, <1>7, <1>22 DEF ReadO, KeepsPlace, Promotes, Moves, Frees
  <1>23. CASE CheckO(t)
    BY <1>1, <1>2, <1>3, <1>4, <1>5, <1>6, <1>7, <1>23 DEF CheckO, KeepsPlace, Promotes, Moves, Frees
  <1>24. CASE ReleaseO(t)
    BY <1>1, <1>2, <1>3, <1>4, <1>5, <1>6, <1>7, <1>24 DEF ReleaseO, KeepsPlace, Promotes, Moves, Frees
  <1>25. CASE UpgradeX(t)
    BY <1>1, <1>2, <1>3, <1>4, <1>5, <1>6, <1>7, <1>25 DEF UpgradeX, KeepsPlace, Promotes, Moves, Frees
  <1>26. CASE TryPromote(t)
    BY <1>1, <1>2, <1>3, <1>4, <1>5, <1>6, <1>7, <1>26 DEF TryPromote, KeepsPlace, Promotes, Moves, Frees
  <1>27. CASE PromoteClaim(t)
    <2>1. QueueStep(t) BY <1>1, <1>4, <1>6, <1>27 DEF PromoteClaim, KeepsPlace
    <2>2. GiveStep(t) BY <1>1, <1>27 DEF PromoteClaim
    <2>3. KeepStep(t) BY <1>1, <1>4, <1>5, <1>7, <1>27 DEF PromoteClaim, KeepsPlace, Promotes, Moves
    <2>4. LeaveStep(t) BY <1>1, <1>2, <1>5, <1>6, <1>27 DEF PromoteClaim
    <2>5. QED BY <2>1, <2>2, <2>3, <2>4
  <1>28. CASE ReadMover(t)
    BY <1>1, <1>2, <1>3, <1>4, <1>5, <1>6, <1>7, <1>28 DEF ReadMover, KeepsPlace, Promotes, Moves, Frees
  <1>29. CASE LockMover(t)
    BY <1>1, <1>2, <1>3, <1>4, <1>5, <1>6, <1>7, <1>29 DEF LockMover, Resident, KeepsPlace, Promotes, Moves, Frees
  <1>30. CASE PlaceMover(t)
    <2>1. QueueStep(t) BY <1>1, <1>4, <1>6, <1>30 DEF PlaceMover, KeepsPlace
    <2>2. GiveStep(t) BY <1>1, <1>30 DEF PlaceMover
    <2>3. KeepStep(t) BY <1>1, <1>4, <1>5, <1>7, <1>30 DEF PlaceMover, KeepsPlace, Promotes, Moves
    <2>4. LeaveStep(t) BY <1>1, <1>2, <1>5, <1>6, <1>30 DEF PlaceMover
    <2>5. QED BY <2>1, <2>2, <2>3, <2>4
  <1>31. CASE MoveCopy(t)
    <2>1. QueueStep(t) BY <1>1, <1>4, <1>6, <1>31 DEF MoveCopy, KeepsPlace
    <2>2. GiveStep(t) BY <1>1, <1>31 DEF MoveCopy
    <2>3. KeepStep(t) BY <1>1, <1>4, <1>5, <1>7, <1>31 DEF MoveCopy, KeepsPlace, Promotes, Moves
    <2>4. LeaveStep(t) BY <1>1, <1>2, <1>5, <1>6, <1>31 DEF MoveCopy
    <2>5. QED BY <2>1, <2>2, <2>3, <2>4
  <1>32. CASE MoveSwitch(t)
    <2>1. QueueStep(t) BY <1>1, <1>4, <1>6, <1>32 DEF MoveSwitch, KeepsPlace
    <2>2. GiveStep(t) BY <1>1, <1>32 DEF MoveSwitch
    <2>3. KeepStep(t) BY <1>1, <1>4, <1>5, <1>7, <1>32 DEF MoveSwitch, KeepsPlace, Promotes, Moves
    <2>4. LeaveStep(t) BY <1>1, <1>2, <1>5, <1>6, <1>32 DEF MoveSwitch
    <2>5. QED BY <2>1, <2>2, <2>3, <2>4
  <1>33. CASE CopyHome(t)
    <2>1. QueueStep(t) BY <1>1, <1>4, <1>6, <1>33 DEF CopyHome, KeepsPlace
    <2>2. GiveStep(t) BY <1>1, <1>33 DEF CopyHome
    <2>3. KeepStep(t) BY <1>1, <1>4, <1>5, <1>7, <1>33 DEF CopyHome, KeepsPlace, Promotes, Moves
    <2>4. LeaveStep(t) BY <1>1, <1>2, <1>5, <1>6, <1>33 DEF CopyHome
    <2>5. QED BY <2>1, <2>2, <2>3, <2>4
  <1>34. CASE SwitchHome(t)
    BY <1>1, <1>2, <1>3, <1>4, <1>5, <1>6, <1>7, <1>34 DEF SwitchHome, KeepsPlace, Promotes, Moves, Frees
  <1>35. CASE UnlockPromoted(t)
    BY <1>1, <1>2, <1>3, <1>4, <1>5, <1>6, <1>7, <1>35 DEF UnlockPromoted, Unlock, KeepsPlace, Promotes, Moves, Frees
  <1>36. CASE \E f \in Frames : TakeFree(t, f)
    <2> PICK g \in Frames : TakeFree(t, g) BY <1>36
    <2>1. QueueStep(t) BY <1>1, <1>6 DEF TakeFree
    <2>2. GiveStep(t) BY <1>1 DEF TakeFree
    <2>3. KeepStep(t) BY <1>1, <1>6, <1>7 DEF TakeFree
    <2>4. LeaveStep(t) BY <1>1, <1>2, <1>6 DEF TakeFree
    <2>5. QED BY <2>1, <2>2, <2>3, <2>4
  <1>37. CASE Evict(t)
    BY <1>1, <1>2, <1>3, <1>4, <1>5, <1>6, <1>7, <1>37 DEF Evict, KeepsPlace, Promotes, Moves, Frees
  <1>38. CASE EvictWrite(t)
    BY <1>1, <1>2, <1>3, <1>4, <1>5, <1>6, <1>7, <1>38 DEF EvictWrite, KeepsPlace, Promotes, Moves, Frees
  <1>39. CASE FreeClean(t)
    BY <1>1, <1>2, <1>3, <1>4, <1>5, <1>6, <1>7, <1>39 DEF FreeClean, KeepsPlace, Promotes, Moves, Frees
  <1>40. CASE EvictDone(t)
    BY <1>1, <1>2, <1>3, <1>4, <1>5, <1>6, <1>7, <1>40 DEF EvictDone, KeepsPlace, Promotes, Moves, Frees
  <1>41. CASE \E q \in Pids : EvictVisit(t, q)
    BY <1>1, <1>2, <1>3, <1>4, <1>5, <1>6, <1>7, <1>41 DEF EvictVisit, KeepsPlace, Promotes, Moves, Frees
  <1>42. CASE \E q \in Pids : EvictUpgrade(t, q)
    BY <1>1, <1>2, <1>3, <1>4, <1>5, <1>6, <1>7, <1>42 DEF EvictUpgrade, KeepsPlace, Promotes, Moves, Frees
  <1>43. CASE \E q \in Pids : Untrack(t, q)
    BY <1>1, <1>2, <1>3, <1>4, <1>5, <1>6, <1>7, <1>43 DEF Untrack, KeepsPlace, Promotes, Moves, Frees
  <1>44. CASE \E q \in Pids : Remove(t, q)
    BY <1>1, <1>2, <1>3, <1>4, <1>5, <1>6, <1>7, <1>44 DEF Remove, KeepsPlace, Promotes, Moves, Frees
  <1>45. QED
    BY <1>8, <1>9, <1>10, <1>11, <1>12, <1>13, <1>14, <1>15, <1>16, <1>17, <1>18, <1>19, <1>20,
       <1>21, <1>22, <1>23, <1>24, <1>25, <1>26, <1>27, <1>28, <1>29, <1>30, <1>31, <1>32, <1>33,
       <1>34, <1>35, <1>36, <1>37, <1>38, <1>39, <1>40, <1>41, <1>42, <1>43, <1>44
    DEF Step, Fixing, Optimistic, Promoting, Evicting

LEMMA StepAccounted ==
  ASSUME LatchInv, LatchInv', FrameInv, Accounts, NEW t \in Threads, Step(t), UNCHANGED setup
  PROVE  Accounts'
  <1>1. QueueStep(t) /\ GiveStep(t) /\ KeepStep(t) /\ LeaveStep(t) BY StepAccounts
  <1>2. Alone(t) BY StepAlone DEF LatchInv
  <1>3. freeList' \in [Frames -> 0..QueueCap] BY <1>1 DEF QueueStep
  <1>4. ASSUME NEW f \in setup.frames
        PROVE  IF owner'[f] = NoPid THEN freeList'[f] > 0
               ELSE where'[owner'[f]] = f \/ \E u \in Threads : InTransit(u, f, owner[f])'
    <2>1. f \in Frames BY DEF LatchInv, Types, Setup
    <2>2. CASE owner'[f] = NoPid BY <1>1, <1>4, <2>1, <2>2 DEF QueueStep, Accounts, FrameAccounting
    <2>3. CASE owner'[f] # NoPid
      <3>1. ASSUME owner'[f] = owner[f], Elsewhere(t, f) PROVE \E u \in Threads : InTransit(u, f, owner[f])'
        <4>1. PICK u \in Threads \ {t} : InTransit(u, f, owner[f]) BY <3>1 DEF Elsewhere
        <4>2. InTransit(u, f, owner[f])' BY <1>2, <3>1, <4>1 DEF InTransit, Alone, Same, Home
        <4>3. QED BY <4>2
      <3>2. QED BY <1>1, <1>4, <2>3, <3>1 DEF KeepStep
    <2>4. QED BY <2>2, <2>3
  <1>5. ASSUME NEW p \in Pids, latch'[p] = Invalid PROVE where'[p] = Nowhere
    <2>1. CASE HasX(t, p) BY <1>1, <1>5, <2>1 DEF LeaveStep
    <2>2. CASE ~HasX(t, p) BY <1>5, <2>2, StaysAbsent, PlaceOfHeld DEF Accounts
    <2>3. QED BY <2>1, <2>2
  <1>6. ASSUME NEW u \in Threads \ {t} PROVE LeavesFrame(u)'
    <2>1. Same(u) /\ LeavesFrame(u) /\ Registers(u) BY <1>2 DEF Alone, Accounts, LatchInv, Consistent
    <2>2. \A p \in Pids : HasX(u, p) => ~HasX(t, p) /\ where'[p] = where[p]
      BY PlaceOfHeld DEF LatchInv, Exclusive
    <2>3. Homeless(u) => pid[u] \in Pids /\ HasX(u, pid[u])
      BY <2>1 DEF Homeless, Registers, HasX, HasPid, EvictPhases
    <2>4. ASSUME NEW q \in toEvict[u], where[q] \in Frames, owner[where[q]] # q
          PROVE  where'[q] \in Frames /\ owner'[where'[q]] # q
      <3>1. q \in Pids /\ HasX(u, q) BY DEF LatchInv, Types, HasX
      <3>2. where'[q] = where[q] /\ ~HasX(t, q) BY <2>2, <3>1
      <3>3. QED BY <1>1, <2>4, <3>1, <3>2, NoPidIsNone DEF GiveStep
    <2>5. QED BY <2>1, <2>2, <2>3, <2>4 DEF LeavesFrame, Same, Homeless
  <1>7. LeavesFrame(t)' BY <1>1 DEF LeaveStep
  <1>8. QED BY <1>3, <1>4, <1>5, <1>6, <1>7 DEF Accounts, FrameAccounting

LEMMA AccountsInit == Init => Accounts
  <1> SUFFICES ASSUME Init PROVE Accounts OBVIOUS
  <1>1. \A t \in Threads : LeavesFrame(t) BY DEF Init, LeavesFrame, Homeless, EvictPhases
  <1>2. setup.frames \subseteq Frames BY SetupsAssumption DEF Init, Setup
  <1>3. QED BY <1>1, <1>2, QueueCapAssumption DEF Init, Accounts, FrameAccounting

\* As long as promoteLocked moves the page that is in the slot, every frame that is claimed has
\* a page or is on its way to one or to the free list, and every other one is in the free list.
THEOREM FramesAccounted == Spec /\ []MoverIsInSlot => []FrameAccounting
  <1>1. Init => Accounts BY AccountsInit
  <1>2. LatchInv /\ LatchInv' /\ FrameInv /\ Accounts /\ [Next]_vars => Accounts'
    <2> SUFFICES ASSUME LatchInv, LatchInv', FrameInv, Accounts, [Next]_vars PROVE Accounts' OBVIOUS
    <2>1. CASE UNCHANGED vars
      BY <2>1 DEF vars, frames, table, guard, promo, batch, Accounts, FrameAccounting, LeavesFrame, Homeless,
                  InTransit, Home
    <2>2. CASE Next BY <2>2, StepAccounted DEF Next, Step
    <2>3. QED BY <2>1, <2>2
  <1>3. Accounts => FrameAccounting BY DEF Accounts
  <1>4. QED BY <1>1, <1>2, <1>3, FramesOwned, LatchesHold, PTL DEF Spec

\* Without displacement, no frame ever has two pages, and none leaks.
THEOREM FramesUndisplaced == Undisplaced => (Spec => []FrameOwnership /\ []FrameAccounting)
  BY NothingDisplaced, FramesHaveOnePage, FramesAccounted, PTL

-------------------------------------------------------------------------------
(***************************************************************************)
(* No update is lost and optimistic readers get what they asked for, for   *)
(* any number of pages, frames and threads, as long as promoteLocked moves *)
(* the page that is in the slot and guards have the address of their page. *)
(***************************************************************************)

\* A GuardO whose version is current has the address of its page.  (With prediction
\* it can have another one: finding 1.)
Attached(t) == fresh[t] /\ Usable(pid[t])
OwnAddress == \A t \in Threads :
  pc[t] \in {"clearMark", "read", "check"} /\ Attached(t) => ptr[t] = where[pid[t]]

DataTypes == /\ content \in [Frames -> Copies]
             /\ disk \in [Pids -> {0, 1}] /\ latest \in [Pids -> {0, 1}]
             /\ ptr \in [Threads -> Places] /\ fresh \in [Threads -> BOOLEAN]
             /\ DOMAIN seen = Threads

\* The frame of a page holds its last update, and the device, too, unless it is dirty.
Good(p) == /\ content[where[p]].pid = p /\ content[where[p]].val = latest[p]
           /\ ~content[where[p]].dirty => disk[p] = latest[p]
OnDisk(p) == disk[p] = latest[p]

\* What a thread knows of the data of the pages it holds: those that have a frame are
\* good there, those that it reads from the device or drops are good there, and the
\* copies that a promotion makes are equal.
Faults(t) == pc[t] \in {"track", "place", "fill"} \/ (pc[t] \in EvictPhases /\ mover[t] = NoPid)
Filling(t, p) == pid[t] = p /\ pc[t] = "fill"
DataOf(t) ==
  /\ \A p \in Pids : KeepsPlace(t, p) /\ ~Filling(t, p) => Good(p)
  /\ Faults(t) => OnDisk(pid[t])
  /\ \A q \in toEvict[t] : OnDisk(q)
  /\ pc[t] = "upgrade" => \A q \in toWrite[t] : ~content[where[q]].dirty
  /\ pc[t] = "moveSwitch" => content[spot[t]] = content[Home(pid[t])]
  /\ pc[t] = "switchHome" => content[Home(pid[t])] = content[where[pid[t]]]
  /\ pc[t] = "useX" => ptr[t] = where[pid[t]]
DataInv == /\ \A p \in Pids : latch[p] <= Marked => Good(p)
           /\ \A p \in Pids : latch[p] = Invalid => OnDisk(p)
           /\ \A t \in Threads : DataOf(t)

\* What a GuardO has read is its page's last update while its version is current, and
\* a copy of its page once it has passed the check.
ReadOf(t) == /\ pc[t] \in {"check", "checked"} /\ Attached(t) =>
                  seen[t].pid = pid[t] /\ seen[t].val = latest[pid[t]]
             /\ pc[t] = "checked" => seen[t].pid = pid[t]

-------------------------------------------------------------------------------
\* What a step does to the data: it changes the frames of its thread, and eviction
\* writes pages that it shares.
ContentStep(t) ==
  \A f \in Frames : \/ content'[f] = content[f] \/ HasFrame(t, f)
                    \/ \E q \in toWrite[t] : /\ f = where[q] /\ disk'[q] = content[f].val
                                             /\ content'[f] = [content[f] EXCEPT !.dirty = FALSE]
DiskStep(t) ==
  \A p \in Pids : /\ latest'[p] = latest[p] \/ HasX(t, p)
                  /\ disk'[p] = disk[p] \/ (p \in toWrite[t] /\ disk'[p] = content[where[p]].val)

LEMMA StepContent ==
  ASSUME LatchInv, FrameInv, DataTypes, NEW t \in Threads, DataOf(t), Step(t), UNCHANGED setup
  PROVE  ContentStep(t) /\ DiskStep(t)
  <1> USE DEF Goto, Done, Types, Registers, EvictPhases, MovePhases, PromotePhases,
          HasX, HasPid, HasMover, KeepsPlace, Promotes, Moves, Frees, HasFrame, ContentStep, DiskStep,
          DataTypes, frames, table, guard, promo, batch
  <1>1. Types /\ Registers(t) BY DEF LatchInv, Consistent
  <1>2. pc[t] = "useX" => ptr[t] = where[pid[t]] BY DEF DataOf
  <1>3. CASE Alloc(t)
    BY <1>1, <1>2, <1>3 DEF Alloc, InsertLocked
  <1>4. CASE \E q \in Pids, m \in setup.guards : Fault(t, q, m)
    BY <1>1, <1>2, <1>4 DEF Fault, InsertLocked
  <1>5. CASE Track(t)
    BY <1>1, <1>2, <1>5 DEF Track
  <1>6. CASE Place(t)
    BY <1>1, <1>2, <1>6 DEF Place
  <1>7. CASE Fill(t)
    BY <1>1, <1>2, <1>7 DEF Fill
  <1>8. CASE \E q \in Pids : FixX(t, q)
    BY <1>1, <1>2, <1>8 DEF FixX
  <1>9. CASE \E q \in Pids : FixS(t, q)
    BY <1>1, <1>2, <1>9 DEF FixS, AddSharer
  <1>10. CASE Update(t)
    BY <1>1, <1>2, <1>10 DEF Update
  <1>11. CASE UnfixX(t)
    BY <1>1, <1>2, <1>11 DEF UnfixX, Unlock
  <1>12. CASE UnfixS(t)
    BY <1>1, <1>2, <1>12 DEF UnfixS
  <1>13. CASE ReadRole(t)
    BY <1>1, <1>2, <1>13 DEF ReadRole
  <1>14. CASE \E q \in Pids : OptimisticStart(t, q)
    BY <1>1, <1>2, <1>14 DEF OptimisticStart
  <1>15. CASE Access(t)
    BY <1>1, <1>2, <1>15 DEF Access
  <1>16. CASE ClearMark(t)
    BY <1>1, <1>2, <1>16 DEF ClearMark
  <1>17. CASE ReadO(t)
    BY <1>1, <1>2, <1>17 DEF ReadO
  <1>18. CASE CheckO(t)
    BY <1>1, <1>2, <1>18 DEF CheckO
  <1>19. CASE ReleaseO(t)
    BY <1>1, <1>2, <1>19 DEF ReleaseO
  <1>20. CASE UpgradeX(t)
    BY <1>1, <1>2, <1>20 DEF UpgradeX
  <1>21. CASE TryPromote(t)
    BY <1>1, <1>2, <1>21 DEF TryPromote
  <1>22. CASE PromoteClaim(t)
    BY <1>1, <1>2, <1>22 DEF PromoteClaim
  <1>23. CASE ReadMover(t)
    BY <1>1, <1>2, <1>23 DEF ReadMover
  <1>24. CASE LockMover(t)
    BY <1>1, <1>2, <1>24 DEF LockMover, Resident
  <1>25. CASE PlaceMover(t)
    BY <1>1, <1>2, <1>25 DEF PlaceMover
  <1>26. CASE MoveCopy(t)
    BY <1>1, <1>2, <1>26 DEF MoveCopy
  <1>27. CASE MoveSwitch(t)
    BY <1>1, <1>2, <1>27 DEF MoveSwitch
  <1>28. CASE CopyHome(t)
    BY <1>1, <1>2, <1>28 DEF CopyHome
  <1>29. CASE SwitchHome(t)
    BY <1>1, <1>2, <1>29 DEF SwitchHome
  <1>30. CASE UnlockPromoted(t)
    BY <1>1, <1>2, <1>30 DEF UnlockPromoted, Unlock
  <1>31. CASE \E f \in Frames : TakeFree(t, f)
    BY <1>1, <1>2, <1>31 DEF TakeFree
  <1>32. CASE Evict(t)
    BY <1>1, <1>2, <1>32 DEF Evict
  <1>33. CASE EvictWrite(t)
    BY <1>1, <1>2, <1>33 DEF EvictWrite
  <1>34. CASE FreeClean(t)
    BY <1>1, <1>2, <1>34 DEF FreeClean
  <1>35. CASE EvictDone(t)
    BY <1>1, <1>2, <1>35 DEF EvictDone
  <1>36. CASE \E q \in Pids : EvictVisit(t, q)
    BY <1>1, <1>2, <1>36 DEF EvictVisit
  <1>37. CASE \E q \in Pids : EvictUpgrade(t, q)
    BY <1>1, <1>2, <1>37 DEF EvictUpgrade
  <1>38. CASE \E q \in Pids : Untrack(t, q)
    BY <1>1, <1>2, <1>38 DEF Untrack
  <1>39. CASE \E q \in Pids : Remove(t, q)
    BY <1>1, <1>2, <1>39 DEF Remove
  <1>40. QED
    BY <1>3, <1>4, <1>5, <1>6, <1>7, <1>8, <1>9, <1>10, <1>11, <1>12, <1>13, <1>14, <1>15,
       <1>16, <1>17, <1>18, <1>19, <1>20, <1>21, <1>22, <1>23, <1>24, <1>25, <1>26, <1>27, <1>28,
       <1>29, <1>30, <1>31, <1>32, <1>33, <1>34, <1>35, <1>36, <1>37, <1>38, <1>39
    DEF Step, Fixing, Optimistic, Promoting, Evicting

\* What an update makes of the frames.
LEMMA UpdatedCopies ==
  ASSUME NEW c \in [Frames -> Copies], NEW f \in Frames, NEW v \in {0, 1}
  PROVE  [c EXCEPT ![f].val = v, ![f].dirty = TRUE] \in [Frames -> Copies]
  <1> USE DEF Copies
  <1> DEFINE copy == [c[f] EXCEPT !.val = v]
             half == [c EXCEPT ![f] = copy]
  <1>1. copy \in Copies OBVIOUS
  <1>2. half \in [Frames -> Copies] BY <1>1
  <1>3. QED BY <1>2

LEMMA UpdatedCopy ==
  ASSUME NEW c \in [Frames -> Copies], NEW f \in Frames, NEW v,
         content' = [c EXCEPT ![f].val = v, ![f].dirty = TRUE]
  PROVE  content'[f].pid = c[f].pid /\ content'[f].val = v /\ content'[f].dirty = TRUE
  <1> USE DEF Copies
  <1> DEFINE copy == [c[f] EXCEPT !.val = v]
             half == [c EXCEPT ![f] = copy]
  <1>1. copy.pid = c[f].pid /\ copy.val = v OBVIOUS
  <1>2. half[f] = copy OBVIOUS
  <1>3. content'[f] = [half[f] EXCEPT !.dirty = TRUE] OBVIOUS
  <1>4. QED BY <1>1, <1>2, <1>3

LEMMA NewVersionType ==
  ASSUME NEW p, fresh \in [Threads -> BOOLEAN], NewVersion(p) PROVE fresh' \in [Threads -> BOOLEAN]
  BY Zenon DEF NewVersion

LEMMA StepDataTypes ==
  ASSUME LatchInv, FrameInv, DataTypes, NEW t \in Threads, Step(t), UNCHANGED setup
  PROVE  DataTypes'
  <1> USE SetupFields, NoPidIsNone, HomeIsFrame, MaxSharedAssumption
      DEF Goto, Done, Forget, Types, Registers, EvictPhases, MovePhases, PromotePhases, Places, Copies,
          FreshCopy, DataTypes, frames, table, guard, promo, batch
  <1>1. Types /\ Registers(t) BY DEF LatchInv, Consistent
  <1>2. CASE Alloc(t)
    BY <1>1, <1>2 DEF Alloc, InsertLocked
  <1>3. CASE \E q \in Pids, m \in setup.guards : Fault(t, q, m)
    BY <1>1, <1>3 DEF Fault, InsertLocked
  <1>4. CASE Track(t)
    BY <1>1, <1>4 DEF Track
  <1>5. CASE Place(t)
    BY <1>1, <1>5 DEF Place
  <1>6. CASE Fill(t)
    <2>1. content' \in [Frames -> Copies]
      <3>1. pid[t] \in Pids BY <1>1, <1>6 DEF Fill
      <3>2. [pid |-> pid[t], val |-> disk[pid[t]], dirty |-> mode[t] = "A"] \in Copies BY <3>1
      <3>3. QED BY <3>2, <1>6 DEF Fill
    <2>2. fresh' \in [Threads -> BOOLEAN] BY <1>6, NewVersionType DEF Fill
    <2>3. ptr' \in [Threads -> Places]
      <3>1. ptr' = ptr \/ ptr' = [ptr EXCEPT ![t] = where[pid[t]]] BY <1>6 DEF Fill
      <3>2. where[pid[t]] \in Places BY <1>1, <1>6 DEF Fill
      <3>3. QED BY <3>1, <3>2
    <2>4. QED BY <2>1, <2>2, <2>3, <1>6 DEF Fill
  <1>7. CASE \E q \in Pids : FixX(t, q)
    BY <1>1, <1>7 DEF FixX
  <1>8. CASE \E q \in Pids : FixS(t, q)
    BY <1>1, <1>8 DEF FixS, AddSharer
  <1>9. CASE Update(t)
    <2>1. content' \in [Frames -> Copies]
      <3> DEFINE f == ptr[t]
                 v == 1 - content[f].val
      <3>1. content' = [content EXCEPT ![f].val = v, ![f].dirty = TRUE] BY <1>9 DEF Update
      <3>2. CASE f \in Frames
        <4>1. v \in {0, 1} BY <3>2
        <4>2. QED BY <3>1, <3>2, <4>1, UpdatedCopies
      <3>3. CASE f \notin Frames
        <4>1. content' = content BY <3>1, <3>3
        <4>2. QED BY <4>1
      <3>4. QED BY <3>2, <3>3
    <2>2. latest' \in [Pids -> {0, 1}]
      <3>1. latest' = [latest EXCEPT ![pid[t]] = 1 - latest[pid[t]]] /\ pid[t] \in Pids
        BY <1>1, <1>9 DEF Update
      <3>2. QED BY <3>1
    <2>3. ptr' \in [Threads -> Places] /\ DOMAIN seen' = Threads BY <1>9 DEF Update
    <2>4. QED BY <2>1, <2>2, <2>3, <1>9 DEF Update
  <1>10. CASE UnfixX(t)
    <2>1. UNCHANGED <<content, disk, latest>> BY <1>10 DEF UnfixX
    <2>2. fresh' \in [Threads -> BOOLEAN] BY <1>10, NewVersionType DEF UnfixX, Unlock
    <2>3. ptr' \in [Threads -> Places] /\ DOMAIN seen' = Threads BY <1>10 DEF UnfixX, Unlock
    <2>4. QED BY <2>1, <2>2, <2>3
  <1>11. CASE UnfixS(t)
    BY <1>1, <1>11 DEF UnfixS
  <1>12. CASE ReadRole(t)
    BY <1>1, <1>12 DEF ReadRole
  <1>13. CASE \E q \in Pids : OptimisticStart(t, q)
    BY <1>1, <1>13 DEF OptimisticStart
  <1>14. CASE Access(t)
    BY <1>1, <1>14 DEF Access
  <1>15. CASE ClearMark(t)
    BY <1>1, <1>15 DEF ClearMark
  <1>16. CASE ReadO(t)
    BY <1>1, <1>16 DEF ReadO
  <1>17. CASE CheckO(t)
    BY <1>1, <1>17 DEF CheckO
  <1>18. CASE ReleaseO(t)
    BY <1>1, <1>18 DEF ReleaseO
  <1>19. CASE UpgradeX(t)
    BY <1>1, <1>19 DEF UpgradeX
  <1>20. CASE TryPromote(t)
    BY <1>1, <1>20 DEF TryPromote
  <1>21. CASE PromoteClaim(t)
    BY <1>1, <1>21 DEF PromoteClaim
  <1>22. CASE ReadMover(t)
    BY <1>1, <1>22 DEF ReadMover
  <1>23. CASE LockMover(t)
    BY <1>1, <1>23 DEF LockMover, Resident
  <1>24. CASE PlaceMover(t)
    BY <1>1, <1>24 DEF PlaceMover
  <1>25. CASE MoveCopy(t)
    BY <1>1, <1>25 DEF MoveCopy
  <1>26. CASE MoveSwitch(t)
    <2>1. fresh' \in [Threads -> BOOLEAN] BY <1>26, NewVersionType DEF MoveSwitch
    <2>2. QED BY <2>1, <1>1, <1>26 DEF MoveSwitch
  <1>27. CASE CopyHome(t)
    <2>1. pid[t] \in Pids /\ KeepsPlace(t, pid[t]) BY <1>1, <1>27 DEF CopyHome, KeepsPlace, HasPid
    <2>2. where[pid[t]] \in Frames BY <2>1, Holders DEF FrameInv, Owned
    <2>3. content' \in [Frames -> Copies] BY <2>2, <1>27 DEF CopyHome
    <2>4. QED BY <2>3, <1>27 DEF CopyHome
  <1>28. CASE SwitchHome(t)
    BY <1>1, <1>28 DEF SwitchHome
  <1>29. CASE UnlockPromoted(t)
    <2>1. fresh' \in [Threads -> BOOLEAN] BY <1>29, NewVersionType DEF UnlockPromoted, Unlock
    <2>2. QED BY <2>1, <1>1, <1>29 DEF UnlockPromoted, Unlock
  <1>30. CASE \E f \in Frames : TakeFree(t, f)
    BY <1>1, <1>30 DEF TakeFree
  <1>31. CASE Evict(t)
    BY <1>1, <1>31 DEF Evict
  <1>32. CASE EvictWrite(t)
    <2>1. \A q \in toWrite[t] : where[q] \in Frames BY <1>1, Holders DEF HasS, FrameInv, Owned
    <2>2. disk' \in [Pids -> {0, 1}] BY <2>1, <1>32 DEF EvictWrite
    <2>3. \A f \in Frames : content'[f] \in Copies BY <1>32 DEF EvictWrite
    <2>4. content' \in [Frames -> Copies] BY <2>3, <1>32 DEF EvictWrite
    <2>5. QED BY <2>2, <2>4, <1>32 DEF EvictWrite
  <1>33. CASE FreeClean(t)
    BY <1>1, <1>33 DEF FreeClean
  <1>34. CASE EvictDone(t)
    BY <1>1, <1>34 DEF EvictDone
  <1>35. CASE \E q \in Pids : EvictVisit(t, q)
    BY <1>1, <1>35 DEF EvictVisit
  <1>36. CASE \E q \in Pids : EvictUpgrade(t, q)
    BY <1>1, <1>36 DEF EvictUpgrade
  <1>37. CASE \E q \in Pids : Untrack(t, q)
    BY <1>1, <1>37 DEF Untrack
  <1>38. CASE \E q \in Pids : Remove(t, q)
    <2>1. fresh' \in [Threads -> BOOLEAN] BY <1>38, NewVersionType DEF Remove
    <2>2. QED BY <2>1, <1>1, <1>38 DEF Remove
  <1>39. QED
    BY <1>2, <1>3, <1>4, <1>5, <1>6, <1>7, <1>8, <1>9, <1>10, <1>11, <1>12, <1>13, <1>14,
       <1>15, <1>16, <1>17, <1>18, <1>19, <1>20, <1>21, <1>22, <1>23, <1>24, <1>25, <1>26, <1>27,
       <1>28, <1>29, <1>30, <1>31, <1>32, <1>33, <1>34, <1>35, <1>36, <1>37, <1>38
    DEF Step, Fixing, Optimistic, Promoting, Evicting

-------------------------------------------------------------------------------
(* The pages that the thread of a step does not hold. *)

\* A step changes what its own guard has read, and where.
LEMMA StepReads ==
  ASSUME DOMAIN ptr = Threads, DOMAIN seen = Threads, NEW t \in Threads, Step(t)
  PROVE  \A u \in Threads \ {t} : ptr'[u] = ptr[u] /\ seen'[u] = seen[u]
  <1> USE DEF Done, guard
  <1>1. CASE Fixing(t)
    BY <1>1 DEF Fixing, Alloc, Track, Place, Fill, Fault, FixX, FixS, Update, UnfixX, Unlock, UnfixS,
                ReadRole
  <1>2. CASE Optimistic(t)
    BY <1>2 DEF Optimistic, OptimisticStart, Access, ClearMark, ReadO, CheckO, ReleaseO, UpgradeX
  <1>3. CASE Promoting(t)
    BY <1>3 DEF Promoting, TryPromote, PromoteClaim, ReadMover, LockMover, PlaceMover, MoveCopy,
                MoveSwitch, CopyHome, SwitchHome, UnlockPromoted, Unlock
  <1>4. CASE Evicting(t)
    BY <1>4 DEF Evicting, TakeFree, Evict, EvictWrite, FreeClean, EvictDone, EvictVisit, EvictUpgrade,
                Untrack, Remove
  <1>5. QED BY <1>1, <1>2, <1>3, <1>4 DEF Step

\* Its page in a frame stays good,
LEMMA GoodStays ==
  ASSUME LatchInv, FrameInv, DataTypes,
         NEW t \in Threads, Step(t), UNCHANGED setup, ContentStep(t), DiskStep(t),
         NEW p \in Pids, ~HasX(t, p), ~HasX(t, p)', Placed(p), Good(p)
  PROVE  Good(p)'
  <1> DEFINE f == where[p]
  <1>1. f \in Frames /\ owner[f] = p /\ where'[p] = f BY PlaceOfHeld DEF FrameInv, Owned
  <1>2. ~HasFrame(t, f) BY ForeignPlace DEF Foreign
  <1>3. latest'[p] = latest[p] /\ (disk'[p] = disk[p] \/ disk'[p] = latest[p]) BY DEF DiskStep, Good
  <1>4. CASE content'[f] = content[f] BY <1>1, <1>3, <1>4 DEF Good
  <1>5. ASSUME NEW q \in toWrite[t], f = where[q], disk'[q] = content[f].val,
               content'[f] = [content[f] EXCEPT !.dirty = FALSE]
        PROVE  Good(p)'
    <2>1. q \in Pids /\ Placed(q) BY <1>5, Holders DEF HasS, LatchInv, Types
    <2>2. q = p BY <1>1, <1>5, <2>1 DEF FrameInv, Owned
    <2>3. content[f] \in Copies BY <1>1 DEF DataTypes
    <2>4. content'[f].pid = content[f].pid /\ content'[f].val = content[f].val
      BY <2>3, <1>5 DEF Copies
    <2>5. QED BY <1>1, <1>3, <1>5, <2>2, <2>4 DEF Good
  <1>6. QED BY <1>1, <1>2, <1>4, <1>5 DEF ContentStep

\* the device keeps the last update of a page,
LEMMA DiskStays ==
  ASSUME LatchInv, FrameInv, \A p \in Pids : latch[p] <= Marked => Good(p),
         NEW t \in Threads, DiskStep(t), NEW p \in Pids, ~HasX(t, p), OnDisk(p)
  PROVE  OnDisk(p)'
  <1>1. p \in toWrite[t] => Good(p)
    BY Holders, MaxSharedAssumption DEF HasS, Marked, LatchInv, Types, Invalid
  <1>2. QED BY <1>1 DEF DiskStep, OnDisk, Good

\* and a frame of a page that another thread holds keeps its content.
LEMMA FrameStays ==
  ASSUME LatchInv, FrameInv, NEW t \in Threads, ContentStep(t), NEW u \in Threads, NEW f \in Frames,
         Foreign(t, f), owner[f] \in Pids, HasX(u, owner[f])
  PROVE  content'[f] = content[f]
  <1>1. ASSUME NEW q \in toWrite[t], f = where[q] PROVE FALSE
    <2>1. q \in Pids /\ latch[q] <= MaxShared /\ Placed(q) BY Holders DEF HasS, LatchInv, Types
    <2>2. owner[f] = q BY <1>1, <2>1 DEF FrameInv, Owned
    <2>3. latch[q] = Locked BY <2>2, Holders
    <2>4. QED BY <2>1, <2>3, MaxSharedAssumption DEF Locked
  <1>2. QED BY <1>1 DEF ContentStep, Foreign

\* The latch of a shared page, after a step.
LEMMA SharedLatchNext ==
  ASSUME Types', Counted', NEW t \in Threads, NEW p \in Pids, HasS(t, p)'
  PROVE  latch'[p] \in 1..MaxShared
  <1>1. t \in Sharers(p)' /\ IsFiniteSet(Sharers(p)')
    BY ThreadsAssumption, FS_Subset DEF Sharers
  <1>2. Cardinality(Sharers(p)') \in Nat \ {0}
    BY <1>1, FS_CardinalityType, FS_EmptySet
  <1>3. QED BY <1>2, MaxSharedAssumption DEF Counted, Count, Types, Invalid

LEMMA OthersData ==
  ASSUME LatchInv, LatchInv', FrameInv, DataTypes, DataInv,
         NEW t \in Threads, Step(t), UNCHANGED setup, ContentStep(t), DiskStep(t), NEW u \in Threads \ {t}
  PROVE  DataOf(u)'
  <1>1. Same(u) /\ ptr'[u] = ptr[u] BY StepAlone, StepReads DEF LatchInv, Alone, DataTypes
  <1>2. DataOf(u) BY DEF DataInv
  <1>3. \A p \in Pids : HasX(u, p) => ~HasX(t, p) /\ ~HasX(t, p)' /\ where'[p] = where[p]
    <2> SUFFICES ASSUME NEW p \in Pids, HasX(u, p) PROVE ~HasX(t, p) /\ ~HasX(t, p)' /\ where'[p] = where[p]
      OBVIOUS
    <2>1. HasX(u, p)' BY <1>1 DEF Same, HasX, HasPid, HasMover
    <2>2. ~HasX(t, p) /\ ~HasX(t, p)' BY <2>1 DEF LatchInv, Exclusive
    <2>3. QED BY <2>2, PlaceOfHeld
  <1>4. Registers(u) /\ Types BY DEF LatchInv, Consistent
  <1>5. \A p \in Pids : KeepsPlace(u, p)' /\ ~Filling(u, p)' => Good(p)'
    <2> SUFFICES ASSUME NEW p \in Pids, KeepsPlace(u, p)', ~Filling(u, p)' PROVE Good(p)' OBVIOUS
    <2>1. KeepsPlace(u, p) /\ ~Filling(u, p)
      BY <1>1 DEF Same, KeepsPlace, HasPid, HasMover, Filling
    <2>2. Good(p) /\ Placed(p) /\ HasX(u, p) BY <2>1, <1>2, Holders DEF DataOf
    <2>3. QED BY <2>2, <1>3, GoodStays
  <1>6. (Faults(u) => OnDisk(pid[u]))' /\ \A q \in toEvict'[u] : OnDisk(q)'
    <2>1. Faults(u) => pid[u] \in Pids /\ HasX(u, pid[u])
      BY <1>4 DEF Faults, Registers, HasX, HasPid, EvictPhases
    <2>2. \A q \in toEvict[u] : q \in Pids /\ HasX(u, q) BY <1>4 DEF Types, HasX
    <2>3. \A p \in Pids : HasX(u, p) /\ OnDisk(p) => OnDisk(p)' BY <1>3, DiskStays DEF DataInv
    <2>4. QED BY <2>1, <2>2, <2>3, <1>1, <1>2 DEF Same, DataOf, Faults
  <1>7. pc'[u] = "upgrade" => \A q \in toWrite'[u] : ~content'[where'[q]].dirty
    <2> SUFFICES ASSUME pc[u] = "upgrade", NEW q \in toWrite[u] PROVE ~content'[where'[q]].dirty
      BY <1>1 DEF Same
    <2>1. q \in Pids /\ HasS(u, q) /\ HasS(u, q)' BY <1>1, <1>4 DEF Types, HasS, Same
    <2>2. latch[q] \in 1..MaxShared /\ Placed(q) BY <2>1, SharedLatch, Holders DEF LatchInv
    <2>3. latch'[q] \in 1..MaxShared BY <2>1, SharedLatchNext DEF LatchInv
    <2>4. ~HasX(t, q) /\ ~HasX(t, q)'
      <3>1. (HasX(t, q) => latch[q] = Locked) /\ (HasX(t, q)' => latch'[q] = Locked)
        BY <2>1 DEF LatchInv, Exclusive, Locked
      <3>2. QED BY <3>1, <2>2, <2>3, MaxSharedAssumption DEF Locked
    <2>5. where'[q] = where[q] /\ where[q] \in Frames BY <2>1, <2>2, <2>4, PlaceOfHeld DEF FrameInv, Owned
    <2>6. ~HasFrame(t, where[q]) BY <2>1, <2>2, <2>4, ForeignPlace DEF Foreign
    <2>7. ~content[where[q]].dirty /\ content[where[q]] \in Copies BY <1>2, <2>5 DEF DataOf, DataTypes
    <2>8. [content[where[q]] EXCEPT !.dirty = FALSE].dirty = FALSE BY <2>7 DEF Copies
    <2>9. \/ content'[where[q]] = content[where[q]]
          \/ content'[where[q]] = [content[where[q]] EXCEPT !.dirty = FALSE]
      BY <2>5, <2>6 DEF ContentStep
    <2>10. QED
      <3>1. CASE content'[where[q]] = content[where[q]] BY <3>1, <2>5, <2>7
      <3>2. CASE content'[where[q]] = [content[where[q]] EXCEPT !.dirty = FALSE] BY <3>2, <2>5, <2>8
      <3>3. QED BY <2>9, <3>1, <3>2
  <1>8. \A p \in Pids : HasX(u, p) => ~HasX(t, p)' BY <1>3
  <1>9. pc'[u] = "moveSwitch" => content'[spot'[u]] = content'[Home(pid[u])']
    <2> SUFFICES ASSUME pc[u] = "moveSwitch" PROVE content'[spot[u]] = content'[Home(pid[u])]
      BY <1>1 DEF Same, Home
    <2> DEFINE q == mover[u]
    <2>1. /\ q \in Pids /\ HasMover(u, q) /\ KeepsPlace(u, q) /\ HasX(u, q)
      BY <1>4 DEF Registers, MovePhases, HasMover, KeepsPlace, HasX
    <2>2. where[q] = Home(pid[u]) /\ where[q] \in Frames /\ owner[where[q]] = q
      BY <2>1, Holders DEF FrameInv, InSlot, Owned
    <2>3. Foreign(t, where[q]) BY <2>1, <1>3, Holders, ForeignPlace
    <2>4. spot[u] \in Frames /\ owner[spot[u]] = q /\ Foreign(t, spot[u])
      BY <1>8, ForeignClaim DEF Moves, FrameInv, Owned
    <2>5. content'[where[q]] = content[where[q]] /\ content'[spot[u]] = content[spot[u]]
      BY <2>1, <2>2, <2>3, <2>4, FrameStays
    <2>6. QED BY <2>2, <2>5, <1>2 DEF DataOf
  <1>10. pc'[u] = "switchHome" => content'[Home(pid[u])'] = content'[where'[pid'[u]]]
    <2> SUFFICES ASSUME pc[u] = "switchHome" PROVE content'[Home(pid[u])] = content'[where'[pid[u]]]
      BY <1>1 DEF Same, Home
    <2> DEFINE p == pid[u]
    <2>1. p \in Pids /\ HasX(u, p) /\ KeepsPlace(u, p)
      BY <1>4 DEF Registers, PromotePhases, HasPid, KeepsPlace, HasX
    <2>2. where'[p] = where[p] /\ where[p] \in Frames /\ owner[where[p]] = p
      BY <2>1, <1>3, Holders DEF FrameInv, Owned
    <2>3. Foreign(t, where[p]) BY <2>1, <1>3, Holders, ForeignPlace
    <2>4. Home(p) \in Frames /\ owner[Home(p)] = p /\ Foreign(t, Home(p))
      BY <1>4, <1>8, <2>1, HomeIsFrame, ForeignClaim DEF Promotes, FrameInv, Owned
    <2>5. content'[where[p]] = content[where[p]] /\ content'[Home(p)] = content[Home(p)]
      BY <2>1, <2>2, <2>3, <2>4, FrameStays
    <2>6. QED BY <2>2, <2>5, <1>2 DEF DataOf
  <1>11. pc'[u] = "useX" => ptr'[u] = where'[pid'[u]]
    <2> SUFFICES ASSUME pc[u] = "useX" PROVE ptr[u] = where'[pid[u]] BY <1>1 DEF Same
    <2>1. pid[u] \in Pids /\ HasX(u, pid[u]) BY <1>4 DEF Registers, HasX, HasPid
    <2>2. QED BY <2>1, <1>2, <1>3 DEF DataOf
  <1>12. QED BY <1>5, <1>6, <1>7, <1>9, <1>10, <1>11 DEF DataOf

-------------------------------------------------------------------------------
(* The pages that it holds. *)

\* A page that the thread held, or holds after the step, is good where it can be reached
\* or has a frame.
HeldData(t) ==
  \A p \in Pids : HasX(t, p) \/ HasX(t, p)' =>
    /\ latch'[p] <= Marked \/ (KeepsPlace(t, p)' /\ ~Filling(t, p)') => Good(p)'
    /\ latch'[p] = Invalid => OnDisk(p)'
RestData(t) == /\ (Faults(t) => OnDisk(pid[t]))'
               /\ \A q \in toEvict'[t] : OnDisk(q)'
               /\ pc'[t] = "upgrade" => \A q \in toWrite'[t] : ~content'[where'[q]].dirty
               /\ pc'[t] = "moveSwitch" => content'[spot'[t]] = content'[Home(pid[t])']
               /\ pc'[t] = "switchHome" => content'[Home(pid[t])'] = content'[where'[pid'[t]]]
               /\ pc'[t] = "useX" => ptr'[t] = where'[pid'[t]]

LEMMA StepData ==
  ASSUME LatchInv, FrameInv, DataTypes, DataInv, OwnAddress, NEW t \in Threads, Step(t), UNCHANGED setup
  PROVE  HeldData(t) /\ RestData(t)
  <1> USE SetupFields, NoPidIsNone, MaxSharedAssumption, HomeIsFrame
      DEF Goto, Done, Types, Registers, EvictPhases, MovePhases, PromotePhases, SetLatch,
          HasX, HasPid, HasMover, OneRole, HasS, KeepsPlace, Good, OnDisk, Faults, Filling, HeldData, RestData,
          frames, table, guard, promo, batch, Unlocked, Locked, Marked, Invalid
  <1>1. Types /\ Registers(t) /\ \A p \in Pids : OneRole(t, p)
    BY DEF LatchInv, Consistent, Exclusive
  <1>2. \A p \in Pids : HasX(t, p) => latch[p] = Locked
    BY DEF LatchInv, Exclusive
  <1>3. \A p \in Pids : HasS(t, p) => latch[p] \in 1..MaxShared
    BY SharedLatch DEF LatchInv
  <1>4. \A p \in Pids : latch[p] <= Marked \/ KeepsPlace(t, p) => where[p] \in Frames /\ owner[where[p]] = p
    BY DEF FrameInv, Owned, Placed
  <1>5. \A p \in Pids : (latch[p] <= Marked => Good(p)) /\ (latch[p] = Invalid => OnDisk(p))
    BY DEF DataInv
  <1>6. DataOf(t) BY DEF DataInv
  <1>7. Home(pid[t])' = Home(pid'[t]) BY DEF Home
  <1>8. CASE Alloc(t)
    BY <1>1, <1>2, <1>3, <1>4, <1>5, <1>6, <1>8 DEF Alloc, InsertLocked, DataOf
  <1>9. CASE \E q \in Pids, m \in setup.guards : Fault(t, q, m)
    BY <1>1, <1>2, <1>3, <1>4, <1>5, <1>6, <1>9 DEF Fault, InsertLocked, DataOf
  <1>10. CASE Track(t)
    BY <1>1, <1>2, <1>3, <1>4, <1>5, <1>6, <1>10 DEF Track, DataOf
  <1>11. CASE Place(t)
    BY <1>1, <1>2, <1>3, <1>4, <1>5, <1>6, <1>11 DEF Place, DataOf
  <1>12. CASE Fill(t)
    <2> PICK p \in Pids, f \in Frames : p = pid[t] /\ f = where[p] BY <1>1, <1>4, <1>12 DEF Fill
    <2>1. disk[p] = latest[p] /\ pc[t] = "fill" BY <1>6, <1>12 DEF Fill, DataOf
    <2>2. /\ content' = [content EXCEPT ![f] = [pid |-> p, val |-> disk[p], dirty |-> mode[t] = "A"]]
          /\ UNCHANGED <<where, disk, latest>>
      BY <1>12 DEF Fill
    <2>3. content'[f] = [pid |-> p, val |-> disk[p], dirty |-> mode[t] = "A"] BY <2>2 DEF DataTypes
    <2>4. Good(p)' BY <2>1, <2>2, <2>3
    <2>5. /\ \A q \in Pids : HasX(t, q) \/ HasX(t, q)' => q = p
          /\ latch'[p] # Invalid /\ toEvict'[t] = {}
          /\ pc'[t] \in {"useX", "useS", "access"} /\ pid'[t] = p
      BY <1>1, <1>2, <2>1, <1>12 DEF Fill
    <2>6. pc'[t] = "useX" => ptr'[t] = where'[p]
      <3>1. pc'[t] = "useX" => ptr' = [ptr EXCEPT ![t] = f] BY <1>1, <1>12 DEF Fill
      <3>2. QED BY <3>1, <2>2 DEF DataTypes
    <2>7. QED BY <2>4, <2>5, <2>6
  <1>13. CASE \E q \in Pids : FixX(t, q)
    <2> PICK q \in Pids : FixX(t, q) BY <1>13
    <2>1. HeldData(t) BY <1>1, <1>2, <1>3, <1>4, <1>5, <1>6 DEF FixX, DataOf
    <2>2. pc'[t] = "useX" /\ ptr'[t] = where'[pid'[t]] /\ toEvict'[t] = toEvict[t]
      BY <1>1 DEF FixX, DataTypes
    <2>3. toEvict[t] = {} BY <1>1 DEF FixX
    <2>4. QED BY <2>1, <2>2, <2>3
  <1>14. CASE \E q \in Pids : FixS(t, q)
    BY <1>1, <1>2, <1>3, <1>4, <1>5, <1>6, <1>14 DEF FixS, AddSharer, DataOf
  <1>15. CASE Update(t)
    <2> PICK p \in Pids, f \in Frames : p = pid[t] /\ f = where[p] BY <1>1, <1>4, <1>15 DEF Update
    <2> PICK v : v = 1 - content[f].val OBVIOUS
    <2>1. ptr[t] = f /\ Good(p) BY <1>6, <1>15 DEF Update, DataOf
    <2>2. /\ content' = [content EXCEPT ![f].val = v, ![f].dirty = TRUE]
          /\ latest' = [latest EXCEPT ![p] = 1 - latest[p]] /\ UNCHANGED <<where, disk>>
      BY <2>1, <1>15 DEF Update
    <2>3. content'[f].pid = p /\ content'[f].val = v /\ content'[f].dirty = TRUE
      <3>1. content \in [Frames -> Copies] /\ f \in Frames BY DEF DataTypes
      <3>2. content'[f].pid = content[f].pid /\ content'[f].val = v /\ content'[f].dirty = TRUE
        BY ONLY <2>2, <3>1, UpdatedCopy
      <3>3. QED BY <2>1, <3>2
    <2>4. latest'[p] = v BY <2>1, <2>2 DEF DataTypes
    <2>5. Good(p)' BY <2>2, <2>3, <2>4
    <2>6. /\ \A q \in Pids : HasX(t, q) \/ HasX(t, q)' => q = p
          /\ latch'[p] # Invalid /\ toEvict'[t] = {} /\ pc'[t] = "unfixX"
      BY <1>1, <1>2, <2>1, <1>15 DEF Update
    <2>7. QED BY <2>5, <2>6
  <1>16. CASE UnfixX(t)
    BY <1>1, <1>2, <1>3, <1>4, <1>5, <1>6, <1>16 DEF UnfixX, Unlock, DataOf
  <1>17. CASE UnfixS(t)
    BY <1>1, <1>2, <1>3, <1>4, <1>5, <1>6, <1>17 DEF UnfixS, DataOf
  <1>18. CASE ReadRole(t)
    BY <1>1, <1>2, <1>3, <1>4, <1>5, <1>6, <1>18 DEF ReadRole, DataOf
  <1>19. CASE \E q \in Pids : OptimisticStart(t, q)
    BY <1>1, <1>2, <1>3, <1>4, <1>5, <1>6, <1>19 DEF OptimisticStart, DataOf
  <1>20. CASE Access(t)
    BY <1>1, <1>2, <1>3, <1>4, <1>5, <1>6, <1>20 DEF Access, DataOf
  <1>21. CASE ClearMark(t)
    BY <1>1, <1>2, <1>3, <1>4, <1>5, <1>6, <1>21 DEF ClearMark, DataOf
  <1>22. CASE ReadO(t)
    BY <1>1, <1>2, <1>3, <1>4, <1>5, <1>6, <1>22 DEF ReadO, DataOf
  <1>23. CASE CheckO(t)
    BY <1>1, <1>2, <1>3, <1>4, <1>5, <1>6, <1>23 DEF CheckO, DataOf
  <1>24. CASE ReleaseO(t)
    BY <1>1, <1>2, <1>3, <1>4, <1>5, <1>6, <1>24 DEF ReleaseO, DataOf
  <1>25. CASE UpgradeX(t)
    <2>1. ptr[t] = where[pid[t]] BY <1>1, <1>25 DEF UpgradeX, OwnAddress, Attached, Usable
    <2>2. QED BY <1>1, <1>2, <1>3, <1>4, <1>5, <1>6, <2>1, <1>25 DEF UpgradeX, DataOf
  <1>26. CASE TryPromote(t)
    BY <1>1, <1>2, <1>3, <1>4, <1>5, <1>6, <1>26 DEF TryPromote, DataOf
  <1>27. CASE PromoteClaim(t)
    BY <1>1, <1>2, <1>3, <1>4, <1>5, <1>6, <1>27 DEF PromoteClaim, DataOf
  <1>28. CASE ReadMover(t)
    BY <1>1, <1>2, <1>3, <1>4, <1>5, <1>6, <1>28 DEF ReadMover, DataOf
  <1>29. CASE LockMover(t)
    BY <1>1, <1>2, <1>3, <1>4, <1>5, <1>6, <1>29 DEF LockMover, Resident, DataOf
  <1>30. CASE PlaceMover(t)
    BY <1>1, <1>2, <1>3, <1>4, <1>5, <1>6, <1>30 DEF PlaceMover, DataOf
  <1>31. CASE MoveCopy(t)
    <2> PICK p \in Pids, q \in Pids, h \in Frames : p = pid[t] /\ q = mover[t] /\ h = Home(p)
      BY <1>1, <1>31 DEF MoveCopy
    <2> PICK f \in Frames : f = spot[t] /\ owner[f] = q
      BY <1>31 DEF MoveCopy, FrameInv, Owned, Moves
    <2>1. p # q /\ pc[t] = "moveCopy" /\ KeepsPlace(t, p) /\ KeepsPlace(t, q)
      BY <1>1, <1>31 DEF MoveCopy
    <2>2. where[q] = h BY <2>1 DEF FrameInv, InSlot
    <2>3. content' = [content EXCEPT ![f] = content[h]] /\ UNCHANGED <<where, disk, latest, latch, toEvict>>
      BY <1>31 DEF MoveCopy
    <2>4. content'[f] = content[h] /\ content'[h] = content[h] BY <2>3 DEF DataTypes
    <2>5. where[p] # f /\ Good(p) /\ Good(q) BY <1>4, <1>6, <2>1 DEF DataOf
    <2>6. content'[where[p]] = content[where[p]] BY <2>5, <2>3 DEF DataTypes
    <2>7. Good(p)' /\ Good(q)' BY <2>2, <2>3, <2>4, <2>5, <2>6
    <2>8. /\ \A x \in Pids : HasX(t, x) \/ HasX(t, x)' => x = p \/ x = q
          /\ toEvict'[t] = {} /\ pc'[t] = "moveSwitch" /\ spot'[t] = f /\ Home(pid[t])' = h
      BY <1>1, <2>1, <1>31 DEF MoveCopy, Home
    <2>9. latch'[p] # Invalid /\ latch'[q] # Invalid BY <1>2, <2>1, <2>3
    <2>10. QED BY <2>4, <2>7, <2>8, <2>9
  <1>32. CASE MoveSwitch(t)
    <2> PICK p \in Pids, q \in Pids, h \in {Home(pid[t])}, f \in {spot[t]} : p = pid[t] /\ q = mover[t]
      BY <1>1, <1>32 DEF MoveSwitch
    <2>1. p # q /\ pc[t] = "moveSwitch" /\ KeepsPlace(t, p) /\ KeepsPlace(t, q)
      BY <1>1, <1>32 DEF MoveSwitch
    <2>2. where[q] = h /\ content[f] = content[h] BY <1>6, <2>1 DEF FrameInv, InSlot, DataOf
    <2>3. where' = [where EXCEPT ![q] = f] /\ UNCHANGED <<content, disk, latest, toEvict>>
      BY <1>32 DEF MoveSwitch
    <2>4. where'[p] = where[p] /\ where'[q] = f BY <1>1, <2>1, <2>3
    <2>5. Good(p) /\ Good(q) BY <1>6, <2>1 DEF DataOf
    <2>6. Good(p)' /\ Good(q)' BY <2>2, <2>3, <2>4, <2>5
    <2>7. /\ \A x \in Pids : HasX(t, x) \/ HasX(t, x)' => x = p \/ x = q
          /\ toEvict'[t] = {} /\ pc'[t] = "copyHome" /\ latch'[p] # Invalid /\ latch'[q] # Invalid
      BY <1>1, <1>2, <2>1, <1>32 DEF MoveSwitch
    <2>8. QED BY <2>6, <2>7
  <1>33. CASE CopyHome(t)
    <2> PICK p \in Pids, h \in Frames : p = pid[t] /\ h = Home(p) BY <1>1, <1>33 DEF CopyHome
    <2>1. KeepsPlace(t, p) /\ pc[t] = "copyHome" BY <1>1, <1>33 DEF CopyHome
    <2>2. content' = [content EXCEPT ![h] = content[where[p]]] /\ UNCHANGED <<where, disk, latest, latch, toEvict>>
      BY <1>33 DEF CopyHome
    <2>3. content'[h] = content[where[p]] /\ content'[where[p]] = content[where[p]]
      BY <2>1, <2>2, <1>4 DEF DataTypes
    <2>4. Good(p) BY <1>6, <2>1 DEF DataOf
    <2>5. Good(p)' BY <2>2, <2>3, <2>4
    <2>6. /\ \A x \in Pids : HasX(t, x) \/ HasX(t, x)' => x = p
          /\ toEvict'[t] = {} /\ pc'[t] = "switchHome" /\ pid'[t] = p /\ Home(pid[t])' = h /\ latch'[p] # Invalid
      BY <1>1, <1>2, <2>1, <1>33 DEF CopyHome, Home
    <2>7. QED BY <2>2, <2>3, <2>5, <2>6
  <1>34. CASE SwitchHome(t)
    BY <1>1, <1>2, <1>3, <1>4, <1>5, <1>6, <1>34 DEF SwitchHome, DataOf
  <1>35. CASE UnlockPromoted(t)
    BY <1>1, <1>2, <1>3, <1>4, <1>5, <1>6, <1>35 DEF UnlockPromoted, Unlock, DataOf
  <1>36. CASE \E f \in Frames : TakeFree(t, f)
    BY <1>1, <1>2, <1>3, <1>4, <1>5, <1>6, <1>36 DEF TakeFree, DataOf
  <1>37. CASE Evict(t)
    BY <1>1, <1>2, <1>3, <1>4, <1>5, <1>6, <1>37 DEF Evict, DataOf
  <1>38. CASE EvictWrite(t)
    BY <1>1, <1>2, <1>3, <1>4, <1>5, <1>6, <1>38 DEF EvictWrite, DataOf
  <1>39. CASE FreeClean(t)
    BY <1>1, <1>2, <1>3, <1>4, <1>5, <1>6, <1>39 DEF FreeClean, DataOf
  <1>40. CASE EvictDone(t)
    BY <1>1, <1>2, <1>3, <1>4, <1>5, <1>6, <1>40 DEF EvictDone, DataOf
  <1>41. CASE \E q \in Pids : EvictVisit(t, q)
    BY <1>1, <1>2, <1>3, <1>4, <1>5, <1>6, <1>41 DEF EvictVisit, DataOf
  <1>42. CASE \E q \in Pids : EvictUpgrade(t, q)
    BY <1>1, <1>2, <1>3, <1>4, <1>5, <1>6, <1>42 DEF EvictUpgrade, DataOf
  <1>43. CASE \E q \in Pids : Untrack(t, q)
    BY <1>1, <1>2, <1>3, <1>4, <1>5, <1>6, <1>43 DEF Untrack, DataOf
  <1>44. CASE \E q \in Pids : Remove(t, q)
    BY <1>1, <1>2, <1>3, <1>4, <1>5, <1>6, <1>44 DEF Remove, DataOf
  <1>45. QED
    BY <1>8, <1>9, <1>10, <1>11, <1>12, <1>13, <1>14, <1>15, <1>16, <1>17, <1>18, <1>19, <1>20,
       <1>21, <1>22, <1>23, <1>24, <1>25, <1>26, <1>27, <1>28, <1>29, <1>30, <1>31, <1>32, <1>33,
       <1>34, <1>35, <1>36, <1>37, <1>38, <1>39, <1>40, <1>41, <1>42, <1>43, <1>44
    DEF Step, Fixing, Optimistic, Promoting, Evicting

-------------------------------------------------------------------------------
(* Updates. *)

LEMMA DataInit == Init => DataTypes /\ DataInv
  <1> SUFFICES ASSUME Init PROVE DataTypes /\ DataInv OBVIOUS
  <1>1. DataTypes BY DEF Init, DataTypes, Copies, FreshCopy, Places
  <1>2. \A p \in Pids : latch[p] = Invalid /\ OnDisk(p) BY DEF Init, OnDisk
  <1>3. ~(Invalid <= Marked) BY MaxSharedAssumption DEF Invalid, Marked
  <1>4. \A t \in Threads : DataOf(t)
    BY DEF Init, DataOf, KeepsPlace, HasPid, HasMover, Faults, EvictPhases, MovePhases, PromotePhases
  <1>5. QED BY <1>1, <1>2, <1>3, <1>4 DEF DataInv

LEMMA StepDataInv ==
  ASSUME LatchInv, LatchInv', FrameInv, DataTypes, DataInv, OwnAddress,
         NEW t \in Threads, Step(t), UNCHANGED setup
  PROVE  DataInv'
  <1>1. ContentStep(t) /\ DiskStep(t) BY StepContent DEF DataInv
  <1>2. HeldData(t) /\ RestData(t) BY StepData
  <1>3. \A p \in Pids : HasX(t, p)' => latch'[p] = Locked BY DEF LatchInv, Exclusive
  <1>4. ASSUME NEW p \in Pids, latch'[p] <= Marked PROVE Good(p)'
    <2>1. CASE HasX(t, p) BY <2>1, <1>2, <1>4 DEF HeldData
    <2>2. CASE ~HasX(t, p)
      <3>1. ~HasX(t, p)' BY <1>3, <1>4, MaxSharedAssumption DEF Locked, Marked
      <3>2. latch[p] <= Marked BY <2>2, <1>4, StaysReachable
      <3>3. QED BY <1>1, <2>2, <3>1, <3>2, GoodStays DEF DataInv, Placed
    <2>3. QED BY <2>1, <2>2
  <1>5. ASSUME NEW p \in Pids, latch'[p] = Invalid PROVE OnDisk(p)'
    <2>1. CASE HasX(t, p) BY <2>1, <1>2, <1>5 DEF HeldData
    <2>2. CASE ~HasX(t, p)
      <3>1. latch[p] = Invalid BY <2>2, <1>5, StaysAbsent
      <3>2. QED BY <1>1, <2>2, <3>1, DiskStays DEF DataInv
    <2>3. QED BY <2>1, <2>2
  <1>6. \A p \in Pids : KeepsPlace(t, p)' /\ ~Filling(t, p)' => Good(p)'
    <2>1. \A p \in Pids : KeepsPlace(t, p)' => HasX(t, p)' BY DEF KeepsPlace, HasX
    <2>2. QED BY <2>1, <1>2 DEF HeldData
  <1>7. DataOf(t)' BY <1>2, <1>6 DEF DataOf, RestData
  <1>8. \A u \in Threads \ {t} : DataOf(u)' BY <1>1, OthersData
  <1>9. QED BY <1>4, <1>5, <1>7, <1>8 DEF DataInv

\* As long as promoteLocked moves the page that is in the slot and guards have the
\* address of their page, the frames and the device hold what DataInv says.
THEOREM DataHeld == Spec /\ []MoverIsInSlot /\ []OwnAddress => [](DataTypes /\ DataInv)
  <1> DEFINE Inv == DataTypes /\ DataInv
  <1>1. Init => Inv BY DataInit
  <1>2. LatchInv /\ LatchInv' /\ FrameInv /\ OwnAddress /\ Inv /\ [Next]_vars => Inv'
    <2> SUFFICES ASSUME LatchInv, LatchInv', FrameInv, OwnAddress, DataTypes, DataInv, [Next]_vars PROVE Inv'
      OBVIOUS
    <2>1. CASE UNCHANGED vars
      BY <2>1 DEF vars, frames, table, guard, promo, batch, DataTypes, DataInv, DataOf, Good, OnDisk, Faults, Filling,
                  KeepsPlace, HasPid, HasMover, Home
    <2>2. CASE Next BY <2>2, StepDataTypes, StepDataInv DEF Next, Step
    <2>3. QED BY <2>1, <2>2
  <1>3. QED BY <1>1, <1>2, FramesOwned, LatchesHold, PTL DEF Spec

\* Then no update is lost: eviction writes what it drops, promotion copies what it
\* frees, and nothing is written to the frame of another page.
THEOREM UpdatesKept == Spec /\ []MoverIsInSlot /\ []OwnAddress => []NoLostUpdate
  <1>1. LatchInv /\ FrameInv /\ DataInv => NoLostUpdate
    <2> SUFFICES ASSUME LatchInv, FrameInv, DataInv, NEW p \in Pids
                 PROVE  /\ Settled(p) => where[p] \in Frames /\ Good(p)
                        /\ latch[p] = Invalid => OnDisk(p)
      BY DEF NoLostUpdate, Good, OnDisk
    <2>1. ASSUME NEW t \in Threads, pid[t] = p, pc[t] \in {"useX", "unfixX"}
          PROVE  Good(p) /\ Placed(p)
      BY <2>1 DEF DataInv, DataOf, KeepsPlace, HasPid, Filling, Placed
    <2>2. Settled(p) => Good(p) /\ Placed(p) BY <2>1 DEF Settled, Usable, DataInv, Placed
    <2>3. QED BY <2>2 DEF FrameInv, Owned, DataInv
  <1>2. QED BY <1>1, DataHeld, FramesOwned, LatchesHold, PTL

-------------------------------------------------------------------------------
(* Optimistic readers. *)

\* A version that another thread remembers gets old when a page is released.
FreshStep(t) ==
  \A u \in Threads \ {t} : fresh'[u] =>
    fresh[u] /\ \A p \in Pids : HasX(t, p) /\ latch'[p] <= Marked => pid[u] # p
FreshTypes == /\ fresh \in [Threads -> BOOLEAN] /\ DOMAIN ptr = Threads
              /\ DOMAIN seen = Threads /\ DOMAIN mode = Threads

LEMMA VersionsAge ==
  ASSUME NEW p, NewVersion(p) PROVE \A u \in Threads : fresh'[u] => fresh[u] /\ pid[u] # p
  BY Zenon DEF NewVersion

LEMMA StepFresh ==
  ASSUME LatchInv, FreshTypes, NEW t \in Threads, Step(t), UNCHANGED setup
  PROVE  FreshStep(t)
  <1> USE SetupFields, NoPidIsNone, MaxSharedAssumption
      DEF Goto, Done, Forget, NewVersion, Types, Registers, EvictPhases, MovePhases, PromotePhases, SetLatch,
          HasX, HasPid, HasMover, FreshStep, FreshTypes,
          frames, table, guard, promo, batch, Unlocked, Locked, Marked, Invalid
  <1>1. Types /\ Registers(t) BY DEF LatchInv, Consistent
  <1>2. \A p \in Pids : HasX(t, p) => latch[p] = Locked BY DEF LatchInv, Exclusive
  <1>3. \A p \in Pids : HasS(t, p) => latch[p] \in 1..MaxShared BY SharedLatch DEF LatchInv
  <1>4. CASE Alloc(t)
    BY <1>1, <1>2, <1>3, <1>4 DEF Alloc, InsertLocked
  <1>5. CASE \E q \in Pids, m \in setup.guards : Fault(t, q, m)
    BY <1>1, <1>2, <1>3, <1>5 DEF Fault, InsertLocked
  <1>6. CASE Track(t)
    BY <1>1, <1>2, <1>3, <1>6 DEF Track
  <1>7. CASE Place(t)
    BY <1>1, <1>2, <1>3, <1>7 DEF Place
  <1>8. CASE Fill(t)
    <2> PICK q \in Pids : q = pid[t] BY <1>1, <1>8 DEF Fill
    <2>1. \A p \in Pids : HasX(t, p) /\ latch'[p] <= Marked => p = q BY <1>1, <1>2, <1>8 DEF Fill
    <2>2. CASE NewVersion(pid[t])
      <3>1. \A u \in Threads : fresh'[u] => fresh[u] /\ pid[u] # q BY <2>2, VersionsAge
      <3>2. QED BY <2>1, <3>1
    <2>3. CASE UNCHANGED <<latch, fresh>> BY <2>3, <1>2
    <2>4. QED BY <2>2, <2>3, <1>8 DEF Fill
  <1>9. CASE \E q \in Pids : FixX(t, q)
    BY <1>1, <1>2, <1>3, <1>9 DEF FixX
  <1>10. CASE \E q \in Pids : FixS(t, q)
    BY <1>1, <1>2, <1>3, <1>10 DEF FixS, AddSharer
  <1>11. CASE Update(t)
    BY <1>1, <1>2, <1>3, <1>11 DEF Update
  <1>12. CASE UnfixX(t)
    <2> PICK q \in Pids : q = pid[t] BY <1>1, <1>12 DEF UnfixX, Unlock
    <2>1. \A p \in Pids : HasX(t, p) /\ latch'[p] <= Marked => p = q BY <1>1, <1>2, <1>12 DEF UnfixX, Unlock
    <2>2. CASE Unlock(t, "unfixX")
      <3>1. \A u \in Threads : fresh'[u] => fresh[u] /\ pid[u] # q BY <2>2, VersionsAge DEF Unlock
      <3>2. QED BY <2>1, <3>1
    <2>3. CASE UNCHANGED <<latch, fresh>> BY <2>3, <1>2
    <2>4. QED BY <2>2, <2>3, <1>12 DEF UnfixX
  <1>13. CASE UnfixS(t)
    BY <1>1, <1>2, <1>3, <1>13 DEF UnfixS
  <1>14. CASE ReadRole(t)
    BY <1>1, <1>2, <1>3, <1>14 DEF ReadRole
  <1>15. CASE \E q \in Pids : OptimisticStart(t, q)
    BY <1>1, <1>2, <1>3, <1>15 DEF OptimisticStart
  <1>16. CASE Access(t)
    BY <1>1, <1>2, <1>3, <1>16 DEF Access
  <1>17. CASE ClearMark(t)
    BY <1>1, <1>2, <1>3, <1>17 DEF ClearMark
  <1>18. CASE ReadO(t)
    BY <1>1, <1>2, <1>3, <1>18 DEF ReadO
  <1>19. CASE CheckO(t)
    BY <1>1, <1>2, <1>3, <1>19 DEF CheckO
  <1>20. CASE ReleaseO(t)
    BY <1>1, <1>2, <1>3, <1>20 DEF ReleaseO
  <1>21. CASE UpgradeX(t)
    BY <1>1, <1>2, <1>3, <1>21 DEF UpgradeX
  <1>22. CASE TryPromote(t)
    BY <1>1, <1>2, <1>3, <1>22 DEF TryPromote
  <1>23. CASE PromoteClaim(t)
    BY <1>1, <1>2, <1>3, <1>23 DEF PromoteClaim
  <1>24. CASE ReadMover(t)
    BY <1>1, <1>2, <1>3, <1>24 DEF ReadMover
  <1>25. CASE LockMover(t)
    BY <1>1, <1>2, <1>3, <1>25 DEF LockMover, Resident
  <1>26. CASE PlaceMover(t)
    BY <1>1, <1>2, <1>3, <1>26 DEF PlaceMover
  <1>27. CASE MoveCopy(t)
    BY <1>1, <1>2, <1>3, <1>27 DEF MoveCopy
  <1>28. CASE MoveSwitch(t)
    <2> PICK q \in Pids : q = mover[t] BY <1>1, <1>28 DEF MoveSwitch
    <2>1. \A u \in Threads : fresh'[u] => fresh[u] /\ pid[u] # q BY <1>28, VersionsAge DEF MoveSwitch
    <2>2. \A p \in Pids : HasX(t, p) /\ latch'[p] <= Marked => p = q BY <1>1, <1>2, <1>28 DEF MoveSwitch
    <2>3. QED BY <2>1, <2>2
  <1>29. CASE CopyHome(t)
    BY <1>1, <1>2, <1>3, <1>29 DEF CopyHome
  <1>30. CASE SwitchHome(t)
    BY <1>1, <1>2, <1>3, <1>30 DEF SwitchHome
  <1>31. CASE UnlockPromoted(t)
    BY <1>1, <1>2, <1>3, <1>31 DEF UnlockPromoted, Unlock
  <1>32. CASE \E f \in Frames : TakeFree(t, f)
    BY <1>1, <1>2, <1>3, <1>32 DEF TakeFree
  <1>33. CASE Evict(t)
    BY <1>1, <1>2, <1>3, <1>33 DEF Evict
  <1>34. CASE EvictWrite(t)
    BY <1>1, <1>2, <1>3, <1>34 DEF EvictWrite
  <1>35. CASE FreeClean(t)
    BY <1>1, <1>2, <1>3, <1>35 DEF FreeClean
  <1>36. CASE EvictDone(t)
    BY <1>1, <1>2, <1>3, <1>36 DEF EvictDone
  <1>37. CASE \E q \in Pids : EvictVisit(t, q)
    BY <1>1, <1>2, <1>3, <1>37 DEF EvictVisit
  <1>38. CASE \E q \in Pids : EvictUpgrade(t, q)
    BY <1>1, <1>2, <1>3, <1>38 DEF EvictUpgrade, HasS
  <1>39. CASE \E q \in Pids : Untrack(t, q)
    BY <1>1, <1>2, <1>3, <1>39 DEF Untrack
  <1>40. CASE \E q \in Pids : Remove(t, q)
    BY <1>1, <1>2, <1>3, <1>40 DEF Remove
  <1>41. QED
    BY <1>4, <1>5, <1>6, <1>7, <1>8, <1>9, <1>10, <1>11, <1>12, <1>13, <1>14, <1>15, <1>16,
       <1>17, <1>18, <1>19, <1>20, <1>21, <1>22, <1>23, <1>24, <1>25, <1>26, <1>27, <1>28, <1>29,
       <1>30, <1>31, <1>32, <1>33, <1>34, <1>35, <1>36, <1>37, <1>38, <1>39, <1>40
    DEF Step, Fixing, Optimistic, Promoting, Evicting

\* While the version that another thread's GuardO remembers is current, its page stays
\* what it was.
LEMMA StepAttached ==
  ASSUME LatchInv, FreshTypes, NEW t \in Threads, Step(t), UNCHANGED setup,
         NEW u \in Threads \ {t}, pc[u] # "idle", Attached(u)'
  PROVE  Attached(u) /\ where'[pid'[u]] = where[pid[u]] /\ pid[u] \in Pids /\ ~HasX(t, pid[u])
  <1>1. Same(u) BY StepAlone DEF LatchInv, Alone
  <1>2. PICK p \in Pids : p = pid[u] BY DEF LatchInv, Consistent, Registers
  <1>3. fresh'[u] /\ latch'[p] <= Marked BY <1>1, <1>2 DEF Attached, Usable, Same
  <1>4. fresh[u] /\ ~HasX(t, p) BY <1>2, <1>3, StepFresh DEF FreshStep
  <1>5. latch[p] <= Marked /\ where'[p] = where[p] BY <1>3, <1>4, StaysReachable, PlaceOfHeld
  <1>6. QED BY <1>1, <1>2, <1>4, <1>5 DEF Attached, Usable, Same

ReadInv == \A t \in Threads : ReadOf(t)

\* Only reading and checking take a thread to the places after them.
LEMMA StepLeavesRead ==
  ASSUME Types, NEW t \in Threads, Step(t), ~ReadO(t), ~CheckO(t)
  PROVE  pc'[t] \notin {"check", "checked"}
  <1> USE DEF Types, Goto, guard, promo, batch
  <1>1. CASE Fixing(t)
    BY <1>1 DEF Fixing, Alloc, Track, Place, Fill, Fault, FixX, FixS, Update, UnfixX, Unlock, UnfixS,
                ReadRole
  <1>2. CASE Optimistic(t)
    BY <1>2 DEF Optimistic, OptimisticStart, Access, ClearMark, ReleaseO, UpgradeX
  <1>3. CASE Promoting(t)
    BY <1>3 DEF Promoting, TryPromote, PromoteClaim, ReadMover, LockMover, PlaceMover, MoveCopy,
                MoveSwitch, CopyHome, SwitchHome, UnlockPromoted, Unlock
  <1>4. CASE Evicting(t)
    BY <1>4 DEF Evicting, TakeFree, Evict, EvictWrite, FreeClean, EvictDone, EvictVisit, EvictUpgrade,
                Untrack, Remove
  <1>5. QED BY <1>1, <1>2, <1>3, <1>4 DEF Step

LEMMA StepReadInv ==
  ASSUME LatchInv, FrameInv, DataTypes, FreshTypes, DataInv, OwnAddress, ReadInv,
         NEW t \in Threads, Step(t), UNCHANGED setup
  PROVE  ReadInv'
  <1>1. ASSUME NEW u \in Threads \ {t} PROVE ReadOf(u)'
    <2>1. Same(u) /\ seen'[u] = seen[u] BY StepAlone, StepReads DEF LatchInv, Alone, DataTypes
    <2>2. ReadOf(u) BY DEF ReadInv
    <2>3. DiskStep(t) BY StepContent DEF DataInv
    <2>4. ASSUME pc'[u] \in {"check", "checked"}, Attached(u)'
          PROVE  Attached(u) /\ latest'[pid[u]] = latest[pid[u]]
      <3>1. pc[u] # "idle" BY <2>1, <2>4 DEF Same
      <3>2. Attached(u) /\ pid[u] \in Pids /\ ~HasX(t, pid[u]) BY <2>4, <3>1, StepAttached
      <3>3. QED BY <2>3, <3>2 DEF DiskStep
    <2>5. QED BY <2>1, <2>2, <2>4 DEF ReadOf, Same
  <1>2. ReadOf(t)'
    <2>1. ReadOf(t) /\ Registers(t) /\ Types BY DEF ReadInv, LatchInv, Consistent
    <2>2. CASE ReadO(t)
      <3>1. /\ seen'[t] = content[ptr[t]] /\ pc'[t] = "check" /\ pc[t] = "read"
            /\ UNCHANGED <<pid, fresh, latch, latest>>
        BY <2>1, <2>2 DEF ReadO, Goto, DataTypes, Types, table
      <3>2. Attached(t) => ptr[t] = where[pid[t]] /\ pid[t] \in Pids /\ latch[pid[t]] <= Marked
        BY <2>1, <3>1 DEF OwnAddress, Registers, Attached, Usable
      <3>3. Attached(t) => seen'[t].pid = pid[t] /\ seen'[t].val = latest[pid[t]]
        BY <3>1, <3>2 DEF DataInv, Good
      <3>4. QED BY <3>1, <3>3 DEF ReadOf, Attached, Usable
    <2>3. CASE CheckO(t)
      <3>1. pc[t] = "check" /\ UNCHANGED latest /\ pc'[t] \in {"checked", "idle"}
        BY <2>1, <2>3 DEF CheckO, Goto, Types
      <3>2. pc'[t] = "checked" => Attached(t) /\ UNCHANGED <<seen, pid>>
        BY <2>1, <2>3 DEF CheckO, Goto, Types, Attached, Usable, guard
      <3>3. QED BY <2>1, <3>1, <3>2 DEF ReadOf
    <2>4. CASE ~ReadO(t) /\ ~CheckO(t)
      <3>1. pc'[t] \notin {"check", "checked"} BY <2>1, <2>4, StepLeavesRead DEF LatchInv
      <3>2. QED BY <3>1 DEF ReadOf
    <2>5. QED BY <2>2, <2>3, <2>4
  <1>3. QED BY <1>1, <1>2 DEF ReadInv

LEMMA StepFreshTypes ==
  ASSUME FreshTypes, NEW t \in Threads, Step(t)
  PROVE  FreshTypes'
  <1> USE DEF Done, Forget, FreshTypes, guard
  <1>1. CASE Alloc(t)
    BY <1>1 DEF Alloc, InsertLocked
  <1>2. CASE \E q \in Pids, m \in setup.guards : Fault(t, q, m)
    BY <1>2 DEF Fault, InsertLocked
  <1>3. CASE Track(t)
    BY <1>3 DEF Track
  <1>4. CASE Place(t)
    BY <1>4 DEF Place
  <1>5. CASE Fill(t)
    <2>1. fresh' \in [Threads -> BOOLEAN] BY <1>5, NewVersionType DEF Fill
    <2>2. QED BY <2>1, <1>5 DEF Fill
  <1>6. CASE \E q \in Pids : FixX(t, q)
    BY <1>6 DEF FixX
  <1>7. CASE \E q \in Pids : FixS(t, q)
    BY <1>7 DEF FixS, AddSharer
  <1>8. CASE Update(t)
    BY <1>8 DEF Update
  <1>9. CASE UnfixX(t)
    <2>1. fresh' \in [Threads -> BOOLEAN] BY <1>9, NewVersionType DEF UnfixX, Unlock
    <2>2. QED BY <2>1, <1>9 DEF UnfixX, Unlock
  <1>10. CASE UnfixS(t)
    BY <1>10 DEF UnfixS
  <1>11. CASE ReadRole(t)
    BY <1>11 DEF ReadRole
  <1>12. CASE \E q \in Pids : OptimisticStart(t, q)
    BY <1>12 DEF OptimisticStart
  <1>13. CASE Access(t)
    BY <1>13 DEF Access
  <1>14. CASE ClearMark(t)
    BY <1>14 DEF ClearMark
  <1>15. CASE ReadO(t)
    BY <1>15 DEF ReadO
  <1>16. CASE CheckO(t)
    BY <1>16 DEF CheckO
  <1>17. CASE ReleaseO(t)
    BY <1>17 DEF ReleaseO
  <1>18. CASE UpgradeX(t)
    BY <1>18 DEF UpgradeX
  <1>19. CASE TryPromote(t)
    BY <1>19 DEF TryPromote
  <1>20. CASE PromoteClaim(t)
    BY <1>20 DEF PromoteClaim
  <1>21. CASE ReadMover(t)
    BY <1>21 DEF ReadMover
  <1>22. CASE LockMover(t)
    BY <1>22 DEF LockMover, Resident
  <1>23. CASE PlaceMover(t)
    BY <1>23 DEF PlaceMover
  <1>24. CASE MoveCopy(t)
    BY <1>24 DEF MoveCopy
  <1>25. CASE MoveSwitch(t)
    <2>1. fresh' \in [Threads -> BOOLEAN] BY <1>25, NewVersionType DEF MoveSwitch
    <2>2. QED BY <2>1, <1>25 DEF MoveSwitch
  <1>26. CASE CopyHome(t)
    BY <1>26 DEF CopyHome
  <1>27. CASE SwitchHome(t)
    BY <1>27 DEF SwitchHome
  <1>28. CASE UnlockPromoted(t)
    <2>1. fresh' \in [Threads -> BOOLEAN] BY <1>28, NewVersionType DEF UnlockPromoted, Unlock
    <2>2. QED BY <2>1, <1>28 DEF UnlockPromoted, Unlock
  <1>29. CASE \E f \in Frames : TakeFree(t, f)
    BY <1>29 DEF TakeFree
  <1>30. CASE Evict(t)
    BY <1>30 DEF Evict
  <1>31. CASE EvictWrite(t)
    BY <1>31 DEF EvictWrite
  <1>32. CASE FreeClean(t)
    BY <1>32 DEF FreeClean
  <1>33. CASE EvictDone(t)
    BY <1>33 DEF EvictDone
  <1>34. CASE \E q \in Pids : EvictVisit(t, q)
    BY <1>34 DEF EvictVisit
  <1>35. CASE \E q \in Pids : EvictUpgrade(t, q)
    BY <1>35 DEF EvictUpgrade
  <1>36. CASE \E q \in Pids : Untrack(t, q)
    BY <1>36 DEF Untrack
  <1>37. CASE \E q \in Pids : Remove(t, q)
    <2>1. fresh' \in [Threads -> BOOLEAN] /\ UNCHANGED <<ptr, mode>> BY <1>37, NewVersionType DEF Remove
    <2>2. UNCHANGED seen BY <1>37 DEF Remove
    <2>3. QED BY <2>1, <2>2
  <1>38. QED
    BY <1>1, <1>2, <1>3, <1>4, <1>5, <1>6, <1>7, <1>8, <1>9, <1>10, <1>11, <1>12, <1>13,
       <1>14, <1>15, <1>16, <1>17, <1>18, <1>19, <1>20, <1>21, <1>22, <1>23, <1>24, <1>25, <1>26,
       <1>27, <1>28, <1>29, <1>30, <1>31, <1>32, <1>33, <1>34, <1>35, <1>36, <1>37
    DEF Step, Fixing, Optimistic, Promoting, Evicting

LEMMA FreshTyped == Spec => []FreshTypes
  <1>1. Init => FreshTypes BY DEF Init, FreshTypes
  <1>2. FreshTypes /\ [Next]_vars => FreshTypes'
    <2> SUFFICES ASSUME FreshTypes, [Next]_vars PROVE FreshTypes' OBVIOUS
    <2>1. CASE UNCHANGED vars BY <2>1 DEF vars, guard, FreshTypes
    <2>2. CASE Next BY <2>2, StepFreshTypes DEF Next, Step
    <2>3. QED BY <2>1, <2>2
  <1>3. QED BY <1>1, <1>2, PTL DEF Spec

\* Then a validated read is of the page that was asked for, and of its last update
\* unless the page has changed since.
THEOREM ReadsValid == Spec /\ []MoverIsInSlot /\ []OwnAddress => []ReadsOwnPage
  <1>1. Init => ReadInv BY DEF Init, ReadInv, ReadOf
  <1>2. LatchInv /\ FrameInv /\ DataTypes /\ FreshTypes /\ DataInv /\ OwnAddress /\ ReadInv /\ [Next]_vars => ReadInv'
    <2> SUFFICES ASSUME LatchInv, FrameInv, DataTypes, FreshTypes, DataInv, OwnAddress, ReadInv, [Next]_vars
                 PROVE  ReadInv'
      OBVIOUS
    <2>1. CASE UNCHANGED vars
      BY <2>1 DEF vars, table, guard, ReadInv, ReadOf, Attached, Usable
    <2>2. CASE Next BY <2>2, StepReadInv DEF Next, Step
    <2>3. QED BY <2>1, <2>2
  <1>3. ReadInv => ReadsOwnPage BY DEF ReadInv, ReadOf, ReadsOwnPage, Attached
  <1>4. QED BY <1>1, <1>2, <1>3, DataHeld, FreshTyped, FramesOwned, LatchesHold, PTL DEF Spec

-------------------------------------------------------------------------------
(* Where addresses are not predicted, or no GuardO is used. *)

Unpredicted == \A s \in Setups : s.predicts => "O" \notin s.guards
Optimist(t) == pc[t] \in {"access", "clearMark", "read", "check", "checked"} \/ mode[t] = "O"
Unforeseen == /\ setup \in Setups
              /\ \A t \in Threads : Optimist(t) => "O" \in setup.guards
              /\ ~setup.predicts => \A p \in Pids : ~inPlace[p]

LEMMA StepUnforeseen ==
  ASSUME LatchInv, FreshTypes, Unforeseen, NEW t \in Threads, Step(t), UNCHANGED setup
  PROVE  Unforeseen'
  <1> USE DEF Goto, Done, Types, FreshTypes, Unforeseen, Optimist, frames, table, guard, promo, batch
  <1>1. Types BY DEF LatchInv
  <1>2. CASE Alloc(t)
    BY <1>1, <1>2 DEF Alloc, InsertLocked
  <1>3. CASE \E q \in Pids, m \in setup.guards : Fault(t, q, m)
    BY <1>1, <1>3 DEF Fault, InsertLocked
  <1>4. CASE Track(t)
    BY <1>1, <1>4 DEF Track
  <1>5. CASE Place(t)
    BY <1>1, <1>5 DEF Place
  <1>6. CASE Fill(t)
    BY <1>1, <1>6 DEF Fill
  <1>7. CASE \E q \in Pids : FixX(t, q)
    BY <1>1, <1>7 DEF FixX
  <1>8. CASE \E q \in Pids : FixS(t, q)
    BY <1>1, <1>8 DEF FixS, AddSharer
  <1>9. CASE Update(t)
    BY <1>1, <1>9 DEF Update
  <1>10. CASE UnfixX(t)
    BY <1>1, <1>10 DEF UnfixX, Unlock
  <1>11. CASE UnfixS(t)
    BY <1>1, <1>11 DEF UnfixS
  <1>12. CASE ReadRole(t)
    BY <1>1, <1>12 DEF ReadRole
  <1>13. CASE \E q \in Pids : OptimisticStart(t, q)
    BY <1>1, <1>13 DEF OptimisticStart
  <1>14. CASE Access(t)
    BY <1>1, <1>14 DEF Access
  <1>15. CASE ClearMark(t)
    BY <1>1, <1>15 DEF ClearMark
  <1>16. CASE ReadO(t)
    BY <1>1, <1>16 DEF ReadO
  <1>17. CASE CheckO(t)
    BY <1>1, <1>17 DEF CheckO
  <1>18. CASE ReleaseO(t)
    BY <1>1, <1>18 DEF ReleaseO
  <1>19. CASE UpgradeX(t)
    BY <1>1, <1>19 DEF UpgradeX
  <1>20. CASE TryPromote(t)
    BY <1>1, <1>20 DEF TryPromote
  <1>21. CASE PromoteClaim(t)
    BY <1>1, <1>21 DEF PromoteClaim
  <1>22. CASE ReadMover(t)
    BY <1>1, <1>22 DEF ReadMover
  <1>23. CASE LockMover(t)
    BY <1>1, <1>23 DEF LockMover, Resident
  <1>24. CASE PlaceMover(t)
    BY <1>1, <1>24 DEF PlaceMover
  <1>25. CASE MoveCopy(t)
    BY <1>1, <1>25 DEF MoveCopy
  <1>26. CASE MoveSwitch(t)
    BY <1>1, <1>26 DEF MoveSwitch
  <1>27. CASE CopyHome(t)
    BY <1>1, <1>27 DEF CopyHome
  <1>28. CASE SwitchHome(t)
    BY <1>1, <1>28 DEF SwitchHome
  <1>29. CASE UnlockPromoted(t)
    BY <1>1, <1>29 DEF UnlockPromoted, Unlock
  <1>30. CASE \E f \in Frames : TakeFree(t, f)
    BY <1>1, <1>30 DEF TakeFree
  <1>31. CASE Evict(t)
    BY <1>1, <1>31 DEF Evict
  <1>32. CASE EvictWrite(t)
    BY <1>1, <1>32 DEF EvictWrite
  <1>33. CASE FreeClean(t)
    BY <1>1, <1>33 DEF FreeClean
  <1>34. CASE EvictDone(t)
    BY <1>1, <1>34 DEF EvictDone
  <1>35. CASE \E q \in Pids : EvictVisit(t, q)
    BY <1>1, <1>35 DEF EvictVisit
  <1>36. CASE \E q \in Pids : EvictUpgrade(t, q)
    BY <1>1, <1>36 DEF EvictUpgrade
  <1>37. CASE \E q \in Pids : Untrack(t, q)
    BY <1>1, <1>37 DEF Untrack
  <1>38. CASE \E q \in Pids : Remove(t, q)
    BY <1>1, <1>38 DEF Remove
  <1>39. QED
    BY <1>2, <1>3, <1>4, <1>5, <1>6, <1>7, <1>8, <1>9, <1>10, <1>11, <1>12, <1>13, <1>14,
       <1>15, <1>16, <1>17, <1>18, <1>19, <1>20, <1>21, <1>22, <1>23, <1>24, <1>25, <1>26, <1>27,
       <1>28, <1>29, <1>30, <1>31, <1>32, <1>33, <1>34, <1>35, <1>36, <1>37, <1>38
    DEF Step, Fixing, Optimistic, Promoting, Evicting

LEMMA StepLeavesAddress ==
  ASSUME Types, NEW t \in Threads, Step(t), ~Access(t), ~ClearMark(t), ~ReadO(t)
  PROVE  pc'[t] \notin {"clearMark", "read", "check"}
  <1> USE DEF Types, Goto, guard, promo, batch
  <1>1. CASE Fixing(t)
    BY <1>1 DEF Fixing, Alloc, Track, Place, Fill, Fault, FixX, FixS, Update, UnfixX, Unlock, UnfixS,
                ReadRole
  <1>2. CASE Optimistic(t)
    BY <1>2 DEF Optimistic, OptimisticStart, CheckO, ReleaseO, UpgradeX
  <1>3. CASE Promoting(t)
    BY <1>3 DEF Promoting, TryPromote, PromoteClaim, ReadMover, LockMover, PlaceMover, MoveCopy,
                MoveSwitch, CopyHome, SwitchHome, UnlockPromoted, Unlock
  <1>4. CASE Evicting(t)
    BY <1>4 DEF Evicting, TakeFree, Evict, EvictWrite, FreeClean, EvictDone, EvictVisit, EvictUpgrade,
                Untrack, Remove
  <1>5. QED BY <1>1, <1>2, <1>3, <1>4 DEF Step

LEMMA StepAddress ==
  ASSUME Unpredicted, LatchInv, FreshTypes, Unforeseen, OwnAddress,
         NEW t \in Threads, Step(t), UNCHANGED setup
  PROVE  OwnAddress'
  <1>1. ASSUME NEW u \in Threads \ {t}, pc'[u] \in {"clearMark", "read", "check"}, Attached(u)'
        PROVE  ptr'[u] = where'[pid'[u]]
    <2>1. Same(u) /\ ptr'[u] = ptr[u] BY StepAlone, StepReads DEF LatchInv, Alone, FreshTypes
    <2>2. Attached(u) /\ where'[pid'[u]] = where[pid[u]] BY <1>1, <2>1, StepAttached DEF Same
    <2>3. QED BY <1>1, <2>1, <2>2 DEF OwnAddress, Same
  <1>2. ASSUME pc'[t] \in {"clearMark", "read", "check"}, Attached(t)'
        PROVE  ptr'[t] = where'[pid'[t]]
    <2>1. Registers(t) /\ Types BY DEF LatchInv, Consistent
    <2>2. CASE Access(t)
      <3>1. pid[t] \in Pids /\ "O" \in setup.guards
        BY <2>1, <2>2 DEF Access, Goto, Registers, Unforeseen, Optimist
      <3>2. ~inPlace[pid[t]] BY <3>1 DEF Unforeseen, Unpredicted
      <3>3. ptr'[t] = where[pid[t]] /\ UNCHANGED <<pid, where>>
        BY <3>2, <2>2 DEF Access, FreshTypes, table
      <3>4. QED BY <3>3
    <2>3. CASE ClearMark(t) \/ ReadO(t)
      <3>1. pc[t] \in {"clearMark", "read"} /\ UNCHANGED <<pid, ptr, fresh, where>>
        BY <2>3 DEF ClearMark, ReadO, Goto, guard, table
      <3>2. ReadO(t) => UNCHANGED latch BY DEF ReadO, table
      <3>3. ClearMark(t) => pc'[t] = "access" \/ (fresh[t] /\ latch[pid[t]] = Marked)
        BY <2>1 DEF ClearMark, Goto, Types
      <3>4. Attached(t)
        BY <1>2, <2>3, <3>1, <3>2, <3>3, MaxSharedAssumption DEF Attached, Usable, Marked
      <3>5. QED BY <3>1, <3>4 DEF OwnAddress
    <2>4. CASE ~Access(t) /\ ~ClearMark(t) /\ ~ReadO(t)
      <3>1. pc'[t] \notin {"clearMark", "read", "check"} BY <2>1, <2>4, StepLeavesAddress
      <3>2. QED BY <3>1, <1>2
    <2>5. QED BY <2>2, <2>3, <2>4
  <1>3. QED BY <1>1, <1>2 DEF OwnAddress

\* Without prediction, or without GuardO, a guard has the address of its page.
THEOREM AddressesOwn == Unpredicted => (Spec => []OwnAddress)
  <1> SUFFICES ASSUME Unpredicted PROVE Spec => []OwnAddress OBVIOUS
  <1> DEFINE Inv == Unforeseen /\ OwnAddress
  <1>1. Init => Inv BY DEF Init, Unforeseen, Optimist, OwnAddress
  <1>2. LatchInv /\ FreshTypes /\ Inv /\ [Next]_vars => Inv'
    <2> SUFFICES ASSUME LatchInv, FreshTypes, Unforeseen, OwnAddress, [Next]_vars PROVE Inv' OBVIOUS
    <2>1. CASE UNCHANGED vars
      BY <2>1 DEF vars, table, guard, Unforeseen, Optimist, OwnAddress, Attached, Usable
    <2>2. CASE Next BY <2>2, StepUnforeseen, StepAddress DEF Next, Step
    <2>3. QED BY <2>1, <2>2
  <1>3. QED BY <1>1, <1>2, FreshTyped, LatchesHold, PTL DEF Spec

\* Where nothing is displaced and no address is predicted, no update is lost and every
\* validated read is of its own page.
THEOREM DataSafe == Undisplaced /\ Unpredicted => (Spec => []NoLostUpdate /\ []ReadsOwnPage)
  <1> SUFFICES ASSUME Undisplaced, Unpredicted PROVE Spec => []NoLostUpdate /\ []ReadsOwnPage OBVIOUS
  <1>1. Spec => []MoverIsInSlot BY NothingDisplaced
  <1>2. Spec => []OwnAddress BY AddressesOwn
  <1>3. QED BY <1>1, <1>2, UpdatesKept, ReadsValid, PTL

-------------------------------------------------------------------------------
(* The other types: what a guard reads through is never a null address.      *)

\* A GuardO has an address from its start on, also while it faults its page in.
PointsSomewhere(t) == pc[t] \in {"access", "clearMark", "read", "check"} \/ mode[t] = "O" => ptr[t] \in Frames

RestTypes == /\ allocCount \in 0..NoPid /\ inlined \in [Pids -> BOOLEAN]
             /\ pid \in [Threads -> Pids] /\ mode \in [Threads -> {"X", "S", "O", "A", "P"}]
             /\ seen \in [Threads -> Copies]
             /\ \A t \in Threads : PointsSomewhere(t)

\* What a step of thread t does to these registers.
RestStep(t) == /\ allocCount' \in 0..NoPid /\ pid' \in [Threads -> Pids]
               /\ mode' \in [Threads -> {"X", "S", "O", "A", "P"}] /\ seen' \in [Threads -> Copies]
               /\ PointsSomewhere(t)' /\ \A u \in Threads \ {t} : mode'[u] = mode[u]

\* Who is unlocked or shared can be reached through a frame.
LEMMA ReachableFrame ==
  ASSUME FrameInv, NEW p \in Pids, latch[p] <= Marked PROVE where[p] \in Frames
  BY DEF FrameInv, Owned, Placed

\* The inlined flags stay flags.
LEMMA StepInlined ==
  ASSUME RestTypes, NEW t \in Threads, Step(t) PROVE inlined' \in [Pids -> BOOLEAN]
  <1> USE DEF RestTypes, table
  <1>1. ASSUME NEW p, InsertLocked(p) PROVE inlined' \in [Pids -> BOOLEAN]
    BY <1>1, Zenon DEF InsertLocked
  <1>2. CASE Fixing(t)
    BY <1>1, <1>2 DEF Fixing, Alloc, Track, Place, Fill, Fault, FixX, FixS, Update, UnfixX, Unlock, UnfixS,
                ReadRole
  <1>3. CASE Optimistic(t)
    BY <1>3 DEF Optimistic, OptimisticStart, Access, ClearMark, ReadO, CheckO, ReleaseO, UpgradeX
  <1>4. CASE Promoting(t)
    BY <1>4 DEF Promoting, TryPromote, PromoteClaim, ReadMover, LockMover, PlaceMover, MoveCopy,
                MoveSwitch, CopyHome, SwitchHome, UnlockPromoted, Unlock
  <1>5. CASE Evicting(t)
    BY <1>5 DEF Evicting, TakeFree, Evict, EvictWrite, FreeClean, EvictDone, EvictVisit, EvictUpgrade,
                Untrack, Remove
  <1> QED BY <1>2, <1>3, <1>4, <1>5 DEF Step

LEMMA StepRest ==
  ASSUME LatchInv, FrameInv, DataTypes, RestTypes, NEW t \in Threads, Step(t), UNCHANGED setup
  PROVE  RestStep(t)
  <1> USE SetupFields, NoPidIsNone, HomeIsFrame, MaxSharedAssumption, PidsAssumption
      DEF Goto, Done, Types, Registers, FreshCopy, DataTypes, RestTypes, RestStep, PointsSomewhere,
          guard
  <1>1. /\ Types /\ Registers(t) /\ FreshCopy \in Copies /\ NoPid \in Nat /\ Pids = 0..(NoPid - 1)
        /\ PointsSomewhere(t)
    BY PidsAssumption, FS_CardinalityType DEF LatchInv, Consistent, NoPid, Copies
  <1>2. \A p \in Pids : latch[p] <= MaxShared \/ latch[p] \in {Unlocked, Marked} => where[p] \in Frames
    BY <1>1, ReachableFrame DEF Unlocked, Marked
  <1>3. CASE Alloc(t)
    BY <1>1, <1>2, <1>3 DEF Alloc, InsertLocked
  <1>4. CASE \E q \in Pids, m \in setup.guards : Fault(t, q, m)
    <2>1. PICK q \in Pids, m \in setup.guards : Fault(t, q, m) BY <1>4
    <2>2. m \in {"O", "S", "X"} BY <1>1
    <2>3. /\ mode' = [mode EXCEPT ![t] = m] /\ pid' = [pid EXCEPT ![t] = q]
          /\ UNCHANGED <<allocCount, ptr, seen>> /\ (m = "O" => pc[t] = "access")
          /\ pc'[t] = "track"
      BY <1>1, <2>1 DEF Fault
    <2>4. QED BY <1>1, <2>2, <2>3
  <1>5. CASE Track(t)
    BY <1>1, <1>2, <1>5 DEF Track
  <1>6. CASE Place(t)
    BY <1>1, <1>2, <1>6 DEF Place
  <1>7. CASE Fill(t)
    BY <1>1, <1>2, <1>7 DEF Fill
  <1>8. CASE \E q \in Pids : FixX(t, q)
    <2>1. PICK q \in Pids : FixX(t, q) BY <1>8
    <2>2. /\ pid' = [pid EXCEPT ![t] = q] /\ ptr' = [ptr EXCEPT ![t] = where[q]]
          /\ UNCHANGED <<allocCount, mode, seen>> /\ where[q] \in Frames
      BY <1>2, <2>1 DEF FixX
    <2>3. QED BY <1>1, <2>2
  <1>9. CASE \E q \in Pids : FixS(t, q)
    <2>1. PICK q \in Pids : FixS(t, q) BY <1>9
    <2>2. pid' = [pid EXCEPT ![t] = q] /\ UNCHANGED <<allocCount, guard>> /\ pc'[t] = "useS"
      BY <1>1, <2>1 DEF FixS
    <2>3. QED BY <1>1, <2>2
  <1>10. CASE Update(t)
    BY <1>1, <1>2, <1>10 DEF Update
  <1>11. CASE UnfixX(t)
    <2>1. UNCHANGED allocCount BY <1>11 DEF UnfixX
    <2>2. CASE Unlock(t, "unfixX") BY <1>1, <2>1, <2>2 DEF Unlock
    <2>3. CASE UNCHANGED <<guard, pid>> /\ pc'[t] = "promote" BY <1>1, <2>1, <2>3
    <2>4. QED BY <1>1, <1>11, <2>2, <2>3 DEF UnfixX
  <1>12. CASE UnfixS(t)
    BY <1>1, <1>2, <1>12 DEF UnfixS
  <1>13. CASE ReadRole(t)
    BY <1>1, <1>2, <1>13 DEF ReadRole
  <1>14. CASE \E q \in Pids : OptimisticStart(t, q)
    <2>1. PICK q \in Pids : OptimisticStart(t, q) BY <1>14
    <2>2. /\ pid' = [pid EXCEPT ![t] = q] /\ ptr' = [ptr EXCEPT ![t] = Home(q)]
          /\ UNCHANGED <<allocCount, mode, seen>>
      BY <2>1 DEF OptimisticStart
    <2>3. Home(q) \in Frames BY <1>1
    <2>4. QED BY <1>1, <2>2, <2>3
  <1>15. CASE Access(t)
    BY <1>1, <1>2, <1>15 DEF Access
  <1>16. CASE ClearMark(t)
    BY <1>1, <1>2, <1>16 DEF ClearMark
  <1>17. CASE ReadO(t)
    BY <1>1, <1>2, <1>17 DEF ReadO
  <1>18. CASE CheckO(t)
    <2>1. UNCHANGED allocCount BY <1>18 DEF CheckO
    <2>2. CASE Done(t) /\ pc'[t] = "idle" BY <1>1, <2>1, <2>2
    <2>3. CASE UNCHANGED <<guard, pid>> /\ pc[t] = "check" BY <1>1, <2>1, <2>3
    <2>4. QED BY <1>1, <1>18, <2>2, <2>3 DEF CheckO
  <1>19. CASE ReleaseO(t)
    BY <1>1, <1>2, <1>19 DEF ReleaseO
  <1>20. CASE UpgradeX(t)
    BY <1>1, <1>2, <1>20 DEF UpgradeX
  <1>21. CASE TryPromote(t)
    BY <1>1, <1>2, <1>21 DEF TryPromote
  <1>22. CASE PromoteClaim(t)
    BY <1>1, <1>2, <1>22 DEF PromoteClaim
  <1>23. CASE ReadMover(t)
    BY <1>1, <1>2, <1>23 DEF ReadMover
  <1>24. CASE LockMover(t)
    BY <1>1, <1>2, <1>24 DEF LockMover
  <1>25. CASE PlaceMover(t)
    BY <1>1, <1>2, <1>25 DEF PlaceMover
  <1>26. CASE MoveCopy(t)
    BY <1>1, <1>2, <1>26 DEF MoveCopy
  <1>27. CASE MoveSwitch(t)
    BY <1>1, <1>2, <1>27 DEF MoveSwitch
  <1>28. CASE CopyHome(t)
    BY <1>1, <1>2, <1>28 DEF CopyHome
  <1>29. CASE SwitchHome(t)
    BY <1>1, <1>2, <1>29 DEF SwitchHome
  <1>30. CASE UnlockPromoted(t)
    BY <1>1, <1>2, <1>30 DEF UnlockPromoted, Unlock
  <1>31. CASE \E f \in Frames : TakeFree(t, f)
    BY <1>1, <1>2, <1>31 DEF TakeFree
  <1>32. CASE Evict(t)
    BY <1>1, <1>2, <1>32 DEF Evict
  <1>33. CASE EvictWrite(t)
    BY <1>1, <1>2, <1>33 DEF EvictWrite
  <1>34. CASE FreeClean(t)
    BY <1>1, <1>2, <1>34 DEF FreeClean
  <1>35. CASE EvictDone(t)
    BY <1>1, <1>2, <1>35 DEF EvictDone
  <1>36. CASE \E q \in Pids : EvictVisit(t, q)
    BY <1>1, <1>2, <1>36 DEF EvictVisit
  <1>37. CASE \E q \in Pids : EvictUpgrade(t, q)
    BY <1>1, <1>2, <1>37 DEF EvictUpgrade
  <1>38. CASE \E q \in Pids : Untrack(t, q)
    BY <1>1, <1>2, <1>38 DEF Untrack
  <1>39. CASE \E q \in Pids : Remove(t, q)
    <2>1. PICK q \in Pids : Remove(t, q) BY <1>39
    <2>2. UNCHANGED <<allocCount, pid, guard>> /\ pc'[t] \in {"upgrade", "freeClean"}
      BY <1>1, <2>1 DEF Remove
    <2>3. QED BY <1>1, <2>2
  <1>40. QED
    BY <1>3, <1>4, <1>5, <1>6, <1>7, <1>8, <1>9, <1>10, <1>11, <1>12, <1>13, <1>14, <1>15, <1>16, <1>17,
       <1>18, <1>19, <1>20, <1>21, <1>22, <1>23, <1>24, <1>25, <1>26, <1>27, <1>28, <1>29, <1>30, <1>31,
       <1>32, <1>33, <1>34, <1>35, <1>36, <1>37, <1>38, <1>39
    DEF Step, Fixing, Optimistic, Promoting, Evicting

LEMMA StepRestTypes ==
  ASSUME LatchInv, FrameInv, DataTypes, RestTypes, NEW t \in Threads, Step(t), UNCHANGED setup
  PROVE  RestTypes'
  <1>1. RestStep(t) /\ inlined' \in [Pids -> BOOLEAN] BY StepRest, StepInlined
  <1>2. Alone(t) /\ \A u \in Threads \ {t} : ptr'[u] = ptr[u] /\ seen'[u] = seen[u]
    BY StepAlone, StepReads DEF LatchInv, DataTypes
  <1>3. \A u \in Threads \ {t} : PointsSomewhere(u)'
    BY <1>1, <1>2 DEF RestStep, RestTypes, Alone, Same, PointsSomewhere
  <1> QED BY <1>1, <1>3 DEF RestStep, RestTypes

LEMMA RestInit == Init => RestTypes
  <1> SUFFICES ASSUME Init PROVE RestTypes OBVIOUS
  <1>1. 0 \in Pids /\ NoPid \in Nat BY PidsAssumption, FS_CardinalityType DEF NoPid
  <1>2. QED BY <1>1 DEF Init, RestTypes, PointsSomewhere, FreshCopy, Copies

\* Every variable keeps its type, as long as promoteLocked moves the page that is in the slot.
\* In particular no guard reads through the address of a page without a frame.
THEOREM TypeCorrect == Spec /\ []MoverIsInSlot => []TypeOK
  <1>1. Init => setup \in Setups /\ Accounts /\ DataTypes /\ RestTypes
    BY RestInit, AccountsInit, DataInit DEF Init
  <1>2. /\ LatchInv /\ LatchInv' /\ FrameInv /\ setup \in Setups /\ Accounts /\ DataTypes /\ RestTypes
        /\ [Next]_vars
        => (setup \in Setups /\ Accounts /\ DataTypes /\ RestTypes)'
    <2> SUFFICES ASSUME LatchInv, LatchInv', FrameInv, setup \in Setups, Accounts, DataTypes, RestTypes,
                        [Next]_vars
                 PROVE  (setup \in Setups /\ Accounts /\ DataTypes /\ RestTypes)'
      OBVIOUS
    <2>1. CASE UNCHANGED vars
      <3>1. (setup \in Setups)' /\ DataTypes' BY <2>1 DEF vars, frames, guard, DataTypes
      <3>2. Accounts' BY <2>1 DEF vars, frames, table, guard, promo, batch, Accounts, FrameAccounting,
                              LeavesFrame, Homeless, InTransit, Home
      <3>3. RestTypes' BY <2>1 DEF vars, table, guard, RestTypes, PointsSomewhere
      <3>4. QED BY <3>1, <3>2, <3>3
    <2>2. CASE Next
      <3>1. PICK t \in Threads : Step(t) /\ UNCHANGED setup BY <2>2 DEF Next, Step
      <3>2. QED BY <3>1, StepAccounted, StepDataTypes, StepRestTypes
    <2>3. QED BY <2>1, <2>2
  <1>3. LatchInv /\ setup \in Setups /\ Accounts /\ DataTypes /\ RestTypes => TypeOK
    BY DEF LatchInv, Types, Accounts, DataTypes, RestTypes, TypeOK
  <1>4. QED BY <1>1, <1>2, <1>3, FramesOwned, LatchesHold, PTL DEF Spec

\* Without displacement the types hold without conditions.
THEOREM TypesUndisplaced == Undisplaced => (Spec => []TypeOK)
  BY NothingDisplaced, TypeCorrect, PTL
===============================================================================
