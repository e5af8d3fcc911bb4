------------------------------ MODULE PageLatch ------------------------------
(***************************************************************************)
(* One page of the buffer pool and the hybrid latch of its buffer frame,   *)
(* used by worker threads through the guards of guards.hpp: optimistic     *)
(* (GuardO), shared (GuardS) and exclusive (GuardX), while any thread may  *)
(* also run the evictor (buffer_manager.hpp, evict) and whoever finds the  *)
(* page absent reads it back (handleFault).                                *)
(*                                                                         *)
(* The content of a page has NParts parts that are read and written one at *)
(* a time, as any structure of more than one word is.  Every operation     *)
(* that loads the latch word and then compare-and-swaps it is two steps.   *)
(* Where the frame is, and what finds it, belongs to BufferPool.           *)
(***************************************************************************)
EXTENDS PageState, FiniteSets

CONSTANTS Threads,    \* worker threads
          NParts,     \* the number of separately written parts of a page
          None,       \* a part not yet read
          Garbage,    \* what the reuse of a freed frame may leave in it
          MaxVersion  \* bound: no exclusive access starts at this version

ASSUME ThreadsAssumption == IsFiniteSet(Threads)
ASSUME PartsAssumption == NParts \in Nat \ {0} /\ None \notin Nat
ASSUME BoundsAssumption == Garbage \subseteq Nat /\ MaxVersion \in Nat

Parts == 1..NParts

VARIABLES word,    \* bf.state.stateAndVersion
          mem,     \* the parts of the page in its frame
          dirty,   \* page->dirty
          disk,    \* the parts of the page on the block device
          pc,      \* pc[t]: where thread t is in its guard, eviction or fault
          snap,    \* snap[t]: the word t last loaded (GuardO::version)
          seen,    \* seen[t]: the parts t has read under its GuardO
          written  \* written[t]: how many parts t has written under its GuardX

vars == <<word, mem, dirty, disk, pc, snap, seen, written>>
page == <<mem, dirty, disk>>
local == <<seen, written>>

\* The places where a thread owns one shared count of the word, or the word.
SharedAt == {"shared", "evictCandidate", "evictWriting", "evictWritten"}
FaultAt == {"faultO", "faultS", "faultX"}
ExclusiveAt == {"locked", "writing", "loadedO", "loadedS", "evictClean", "evictDirty"}
                 \cup FaultAt
OptimisticAt == {"optimistic", "checkMark", "upgrade", "upgradeLock"}
PCs == {"idle", "checked", "clearMark", "fixX", "fixS", "evictMark", "evictLockS"}
         \cup SharedAt \cup ExclusiveAt \cup OptimisticAt

Nothing == [p \in Parts |-> None]

Init == /\ word = InitWord
        /\ mem \in [Parts -> Garbage]
        /\ dirty \in BOOLEAN
        /\ disk = [p \in Parts |-> 0]
        /\ pc = [t \in Threads |-> "idle"]
        /\ snap = [t \in Threads |-> InitWord]
        /\ seen = [t \in Threads |-> Nothing]
        /\ written = [t \in Threads |-> 0]

Goto(t, from, to) == pc[t] = from /\ pc' = [pc EXCEPT ![t] = to]

\* Load the word and go where its value says.
Load(t, from, to) == Goto(t, from, to) /\ snap' = [snap EXCEPT ![t] = word]

\* compare_exchange: install new if the word is still the one t loaded.
CAS(t, new) == word = snap[t] /\ word' = new
CASFails(t) == word # snap[t] /\ UNCHANGED word

\* The guard is given up: what was read or written under it is forgotten.
Forget(t) == /\ seen' = [seen EXCEPT ![t] = Nothing]
             /\ written' = [written EXCEPT ![t] = 0]

SameVersionAs(t) == word.version = snap[t].version

-------------------------------------------------------------------------------
(* GuardO: construction, reads, and the check every use of it ends with. *)

\* GuardO::init finds the page unlocked or shared and keeps the word.
FixOptimistic(t) == /\ word.state \in Unlocked..MaxShared
                    /\ Load(t, "idle", "optimistic")
                    /\ UNCHANGED <<word, page, local>>

\* GuardO::init finds the page marked: it takes the mark away first.
FixOptimisticMarked(t) == /\ word.state = Marked
                          /\ Load(t, "idle", "clearMark")
                          /\ UNCHANGED <<word, page, local>>

ClearMark(t) == LET cleared == SameVersion(snap[t], Unlocked) IN
  \/ /\ Goto(t, "clearMark", "optimistic") /\ CAS(t, cleared)
     /\ snap' = [snap EXCEPT ![t] = cleared]
     /\ UNCHANGED <<page, local>>
  \/ /\ Goto(t, "clearMark", "idle") /\ CASFails(t)
     /\ UNCHANGED <<snap, page, local>>

ReadOptimistic(t, p) == /\ pc[t] = "optimistic" /\ seen[t][p] = None
                        /\ seen' = [seen EXCEPT ![t][p] = mem[p]]
                        /\ UNCHANGED <<word, page, pc, snap, written>>

\* Variant: the version is not compared.
CheckNoVersion(t) == /\ word.state <= MaxShared /\ Goto(t, "optimistic", "checked")
                     /\ UNCHANGED <<word, snap, page, local>>
\* checkVersionAndRestart accepts a word of the same version that is not held
\* exclusively; a mark set since then must be cleared again.
CheckPasses(t) == /\ SameVersionAs(t) /\ word.state <= MaxShared
                  /\ Goto(t, "optimistic", "checked")
                  /\ UNCHANGED <<word, snap, page, local>>

CheckFindsMark(t) == /\ SameVersionAs(t) /\ word.state = Marked
                     /\ Load(t, "optimistic", "checkMark")
                     /\ UNCHANGED <<word, page, local>>

\* Otherwise the operation restarts (OLCRestartException).
CheckFails(t) == /\ ~SameVersionAs(t) \/ word.state \in {Locked, Invalid}
                 /\ Goto(t, "optimistic", "idle") /\ Forget(t)
                 /\ UNCHANGED <<word, snap, page>>

CheckClearsMark(t) ==
  \/ /\ Goto(t, "checkMark", "checked") /\ CAS(t, SameVersion(snap[t], Unlocked))
     /\ UNCHANGED <<snap, page, local>>
  \/ /\ Goto(t, "checkMark", "idle") /\ CASFails(t) /\ Forget(t)
     /\ UNCHANGED <<snap, page>>

\* The caller is done with what it read.
ReturnResult(t) == /\ Goto(t, "checked", "idle") /\ Forget(t)
                   /\ UNCHANGED <<word, snap, page>>

-------------------------------------------------------------------------------
(* GuardX and GuardS. *)

\* GuardX(GuardO&&) repeats until it has the lock: a moved version restarts the
\* operation, a word held by others is waited for.
UpgradeX(t) == /\ Goto(t, "optimistic", "upgrade") /\ snap[t].version < MaxVersion
               /\ UNCHANGED <<word, snap, page, local>>

\* Variant: the version of the GuardO is forgotten.
UpgradeXNoVersion(t) == /\ LockableX(word) /\ Load(t, "upgrade", "upgradeLock")
                        /\ UNCHANGED <<word, page, local>>
UpgradeXLoad(t) ==
  \/ /\ SameVersionAs(t) /\ LockableX(word) /\ Load(t, "upgrade", "upgradeLock")
     /\ UNCHANGED <<word, page, local>>
  \/ /\ ~SameVersionAs(t) /\ Goto(t, "upgrade", "idle") /\ Forget(t)
     /\ UNCHANGED <<word, snap, page>>

UpgradeXLock(t) ==
  \/ /\ Goto(t, "upgradeLock", "locked") /\ CAS(t, SameVersion(snap[t], Locked))
     /\ UNCHANGED <<snap, page, local>>
  \/ /\ Goto(t, "upgradeLock", "upgrade") /\ CASFails(t)
     /\ UNCHANGED <<snap, page, local>>

\* GuardS(GuardO&&): one tryLockS with the version of the GuardO, or a restart.
UpgradeS(t) ==
  \/ /\ Goto(t, "optimistic", "shared")
     /\ LockableS(snap[t]) /\ CAS(t, AddShared(snap[t]))
     /\ UNCHANGED <<snap, page, local>>
  \/ /\ Goto(t, "optimistic", "idle")
     /\ (~LockableS(snap[t]) /\ UNCHANGED word) \/ CASFails(t)
     /\ Forget(t)
     /\ UNCHANGED <<snap, page>>

FixX(t) == /\ LockableX(word) /\ word.version < MaxVersion
           /\ Load(t, "idle", "fixX")
           /\ UNCHANGED <<word, page, local>>

FixXLock(t) ==
  \/ /\ Goto(t, "fixX", "locked") /\ CAS(t, SameVersion(snap[t], Locked))
     /\ UNCHANGED <<snap, page, local>>
  \/ /\ Goto(t, "fixX", "idle") /\ CASFails(t)
     /\ UNCHANGED <<snap, page, local>>

FixS(t) == /\ LockableS(word)
           /\ Load(t, "idle", "fixS")
           /\ UNCHANGED <<word, page, local>>

FixSLock(t) ==
  \/ /\ Goto(t, "fixS", "shared") /\ CAS(t, AddShared(snap[t]))
     /\ UNCHANGED <<snap, page, local>>
  \/ /\ Goto(t, "fixS", "idle") /\ CASFails(t)
     /\ UNCHANGED <<snap, page, local>>

\* unlockS retries its CAS until it succeeds, so it is one step.
UnfixS(t) == /\ Goto(t, "shared", "idle") /\ word' = DropShared(word) /\ Forget(t)
             /\ UNCHANGED <<snap, page>>

\* Variant: the flag is not set.
SetDirtyNot(t) == Goto(t, "locked", "writing") /\ UNCHANGED <<word, snap, page, local>>
SetDirty(t) == /\ Goto(t, "locked", "writing") /\ dirty' = TRUE
               /\ UNCHANGED <<word, snap, mem, disk, local>>

\* Every update makes the next value from what was read under the GuardO, or,
\* where nothing was read, from the page itself.
WritePart(t) == LET p == written[t] + 1
                    old == IF seen[t][p] = None THEN mem[p] ELSE seen[t][p] IN
  /\ pc[t] = "writing" /\ p <= NParts
  /\ mem' = [mem EXCEPT ![p] = old + 1]
  /\ written' = [written EXCEPT ![t] = p]
  /\ UNCHANGED <<word, dirty, disk, pc, snap, seen>>

\* Variant: the unlock keeps the version.
UnfixXSameVersion(t) == /\ Goto(t, "writing", "idle") /\ written[t] = NParts
                        /\ word' = SameVersion(word, Unlocked) /\ Forget(t)
                        /\ UNCHANGED <<snap, page>>
UnfixX(t) == /\ Goto(t, "writing", "idle") /\ written[t] = NParts
             /\ word' = NextVersion(word, Unlocked) /\ Forget(t)
             /\ UNCHANGED <<snap, page>>

-------------------------------------------------------------------------------
(* handleFault: ht.insert locks the frame, the page is read, the frame published. *)

\* The insertion runs under the bucket lock, so its CAS on the word succeeds.
Fault(t) == /\ word.state = Invalid /\ word' = SameVersion(word, Locked)
            /\ \E kind \in FaultAt : Goto(t, "idle", kind)
            /\ UNCHANGED <<snap, page, local>>

\* readPageToHTCache: the copy on the device is never marked dirty.
ReadPage(t) == /\ mem' = disk /\ dirty' = FALSE
               /\ \/ Goto(t, "faultO", "loadedO")
                  \/ Goto(t, "faultS", "loadedS")
                  \/ Goto(t, "faultX", "locked")
               /\ UNCHANGED <<word, disk, snap, local>>

PublishUnlocked(t) == /\ Goto(t, "loadedO", "idle") /\ word' = NextVersion(word, Unlocked)
                      /\ UNCHANGED <<snap, page, local>>

PublishShared(t) == /\ Goto(t, "loadedS", "shared") /\ word' = NextVersion(word, 1)
                    /\ UNCHANGED <<snap, page, local>>

-------------------------------------------------------------------------------
(* evict: mark, then lock shared, write back if dirty, upgrade, remove. *)

EvictVisit(t) == \/ /\ word.state = Unlocked /\ Load(t, "idle", "evictMark")
                    /\ UNCHANGED <<word, page, local>>
                 \/ /\ word.state = Marked /\ word.version < MaxVersion
                    /\ Load(t, "idle", "evictLockS")
                    /\ UNCHANGED <<word, page, local>>

TryMark(t) == /\ Goto(t, "evictMark", "idle")
              /\ CAS(t, SameVersion(snap[t], Marked)) \/ CASFails(t)
              /\ UNCHANGED <<snap, page, local>>

EvictLockS(t) ==
  \/ /\ Goto(t, "evictLockS", "evictCandidate") /\ CAS(t, AddShared(snap[t]))
     /\ UNCHANGED <<snap, page, local>>
  \/ /\ Goto(t, "evictLockS", "idle") /\ CASFails(t)
     /\ UNCHANGED <<snap, page, local>>

\* Variant: the other holders are not looked at.
EvictUpgradeAny(t, from, to) == /\ Goto(t, from, to) /\ word' = SameVersion(word, Locked)
                                /\ UNCHANGED <<snap, page, local>>
\* Variant: the other holders are waited for.
EvictUpgradeWaits(t, from, to) == word.state = 1 /\ EvictUpgradeAny(t, from, to)
\* The only shared holder becomes the exclusive one, keeping the version; with
\* any other holder the evictor gives its share back.
EvictUpgrade(t, from, to) ==
  \/ /\ word.state = 1 /\ Goto(t, from, to) /\ word' = SameVersion(word, Locked)
     /\ UNCHANGED <<snap, page, local>>
  \/ /\ word.state # 1 /\ Goto(t, from, "idle") /\ word' = DropShared(word)
     /\ UNCHANGED <<snap, page, local>>

EvictUpgradeClean(t) == ~dirty /\ EvictUpgrade(t, "evictCandidate", "evictClean")

\* writePages clears the flag before the page is copied to the device.
EvictWrite(t) == /\ dirty /\ Goto(t, "evictCandidate", "evictWriting") /\ dirty' = FALSE
                 /\ UNCHANGED <<word, snap, mem, disk, local>>

EvictWritten(t) == /\ Goto(t, "evictWriting", "evictWritten") /\ disk' = mem
                   /\ UNCHANGED <<word, snap, mem, dirty, local>>

EvictUpgradeDirty(t) == EvictUpgrade(t, "evictWritten", "evictDirty")

\* ht.remove: unlockXInvalid.
EvictRemove(t) == /\ Goto(t, "evictClean", "idle") \/ Goto(t, "evictDirty", "idle")
                  /\ word' = NextVersion(word, Invalid)
                  /\ UNCHANGED <<snap, page, local>>

\* The frame is somebody else's once it is in the free list, which on the dirty
\* path is before the page is removed.
ReuseFrame == /\ word.state = Invalid \/ \E t \in Threads : pc[t] = "evictDirty"
              /\ mem' \in [Parts -> Garbage] /\ dirty' \in BOOLEAN
              /\ UNCHANGED <<word, disk, pc, snap, local>>

-------------------------------------------------------------------------------
Optimistic(t) == \/ FixOptimistic(t) \/ FixOptimisticMarked(t) \/ ClearMark(t)
                 \/ \E p \in Parts : ReadOptimistic(t, p)
                 \/ CheckPasses(t) \/ CheckFindsMark(t) \/ CheckFails(t)
                 \/ CheckClearsMark(t) \/ ReturnResult(t)

Pessimistic(t) == \/ UpgradeX(t) \/ UpgradeXLoad(t) \/ UpgradeXLock(t) \/ UpgradeS(t)
                  \/ FixX(t) \/ FixXLock(t) \/ FixS(t) \/ FixSLock(t) \/ UnfixS(t)
                  \/ SetDirty(t) \/ WritePart(t) \/ UnfixX(t)

Faulting(t) == Fault(t) \/ ReadPage(t) \/ PublishUnlocked(t) \/ PublishShared(t)

Evicting(t) == \/ EvictVisit(t) \/ TryMark(t) \/ EvictLockS(t) \/ EvictUpgradeClean(t)
               \/ EvictWrite(t) \/ EvictWritten(t) \/ EvictUpgradeDirty(t) \/ EvictRemove(t)

Next == \/ \E t \in Threads : Optimistic(t) \/ Pessimistic(t) \/ Faulting(t) \/ Evicting(t)
        \/ ReuseFrame

Spec == Init /\ [][Next]_vars

-------------------------------------------------------------------------------
(* Properties. *)

\* Every variable has its type.
TypeOK == /\ word \in Word
          /\ mem \in [Parts -> Nat] /\ disk \in [Parts -> Nat] /\ dirty \in BOOLEAN
          /\ pc \in [Threads -> PCs]
          /\ snap \in [Threads -> Word]
          /\ seen \in [Threads -> [Parts -> Nat \cup {None}]]
          /\ written \in [Threads -> 0..NParts]

Holders(places) == {t \in Threads : pc[t] \in places}

\* The word says who holds the page, whatever mixture of compare-and-swaps and
\* stores the guards, the fault handler and the evictor put into it: it is Locked
\* exactly while one thread has the page to itself, and otherwise its state counts
\* the shared holders, the evictor among them.
LatchHeld ==
  /\ word.state = Locked <=> Holders(ExclusiveAt) # {}
  /\ \A t, u \in Holders(ExclusiveAt) : t = u
  /\ Cardinality(Holders(SharedAt)) = IF word.state \in 1..MaxShared THEN word.state ELSE 0

\* An optimistic read that passed its check saw one value: no part of it comes from
\* before and another from after an update, an eviction or the reuse of the frame.
ReadIsWhole == \A t \in Holders({"checked"}) : \A p, q \in Parts :
                 (seen[t][p] # None /\ seen[t][q] # None) => seen[t][p] = seen[t][q]

\* The page is in its frame: not absent, not still being loaded, and not already
\* dropped by the evictor.
InFrame == word.state # Invalid /\ Holders(FaultAt \cup {"evictDirty"}) = {}

\* evict frees the frame of a clean page without writing it: whoever holds the page,
\* however it was loaded, updated and written back, a page in its frame is dirty, is
\* being written back, or equals its copy on the device.
CleanIsOnDisk == InFrame /\ ~dirty /\ Holders({"evictWriting"}) = {} => disk = mem

\* The content is in the frame or on the device.  Parts are written in order, so an
\* update happens when its last part is written.
Content == IF InFrame THEN mem[NParts] ELSE disk[NParts]
Result == [t \in Threads |-> IF pc[t] = "checked" /\ \A p \in Parts : seen[t][p] # None
                             THEN seen[t][NParts] ELSE None]

Abstract == INSTANCE AtomicPage WITH val <- Content, result <- Result

\* Latching one page implements AtomicPage: no update is lost when a GuardX grows
\* out of a GuardO, is evicted or read back, and every checked read returns the
\* value of the moment of its check.
ImplementsAtomicPage == Abstract!Spec

\* Each thread that is inside an operation keeps running.
Running(t) == /\ pc[t] # "idle"
              /\ Optimistic(t) \/ Pessimistic(t) \/ Faulting(t) \/ Evicting(t)
Fairness == \A t \in Threads : WF_vars(Running(t))
FairSpec == Spec /\ Fairness

\* Whoever holds the page in any way lets go of it without waiting for another
\* thread: in particular the evictor gives up its share when a reader joined it.
HoldersLetGo == \A t \in Threads : pc[t] \in SharedAt \cup ExclusiveAt ~> pc[t] = "idle"
==============================================================================
