------------------------------ MODULE BufferPool -----------------------------
(***************************************************************************)
(* The buffer manager (buffer_manager.hpp): pages move between the block   *)
(* device and a fixed set of frames.  Every page has a preferred frame     *)
(* (intendedFrame); it sits there if it can, or in any frame taken from    *)
(* the free list, and promotion moves it home later.                       *)
(*                                                                         *)
(* A frame belongs to the page that virtMemPids names; claiming it is the  *)
(* compare-and-swap of trySetPresent.  The free list only hints at frames  *)
(* that may be free.  A page's BufferFrame holds the latch of PageState    *)
(* (without its version: fresh says whose remembered version is current).  *)
(* A load of the latch followed by a compare-and-swap is one step here;    *)
(* PageLatch takes them apart.                                             *)
(***************************************************************************)
EXTENDS PageState, FiniteSets

CONSTANTS Pids,       \* page ids, 0..n, in the order of allocation
          Frames,     \* the frames of virtMem
          Threads,
          Setups,     \* how the buffer manager may be set up, and what runs on it
          Nowhere,    \* a null Page*
          QueueCap    \* bound: how many copies of one frame the free list counts

Setup == [pages : SUBSET Pids,            \* the pages there will be, allocated in order
          frames : SUBSET Frames,         \* the frames there are
          intended : [Pids -> Frames],    \* intendedFrame(hashPID(pid, frameCount))
          bucket : [Pids -> Nat],         \* ht.index(hashPID(pid, frameCount))
          guards : SUBSET {"O", "S", "X"},\* which guards the workload takes
          promotes : BOOLEAN,             \* whether releasing a page may promote it
          predicts : BOOLEAN,             \* not DISABLE_PRED=1
          perClass : BOOLEAN]             \* PERCLASS=1

\* Page 0, the metadata page, is always there.
ASSUME PidsAssumption == IsFiniteSet(Pids) /\ 0 \in Pids /\ Pids = 0..(Cardinality(Pids) - 1)
ASSUME ThreadsAssumption == IsFiniteSet(Threads)
ASSUME SetupsAssumption == \A s \in Setups : s \in Setup
ASSUME NowhereAssumption == Nowhere \notin Frames
ASSUME QueueCapAssumption == QueueCap \in Nat \ {0}

NoPid == Cardinality(Pids)   \* numeric_limits<PID>::max() in virtMemPids

VARIABLES
  setup,      \* the options it was started with
  owner,      \* virtMemPids: the page a frame is claimed by
  content,    \* virtMem: the page copy a frame holds, [pid, val, dirty]
  freeList,   \* ht.freeList: how many copies of each frame are queued
  disk,       \* the value of every page on the block device
  allocCount, \* the next page id
  latch,      \* bf.state, Invalid when the page is not in the hash table
  where,      \* bf.page
  inPlace,    \* bf.intendedSlot
  inlined,    \* ht.isInlined(bf)
  residentSet,
  pc, pid,    \* where a thread is, and the page it is working on
  mode,       \* the guard it is constructing: "X", "S", "O", or "A" for AllocGuard
  ptr,        \* the address its guard reads and writes through
  fresh,      \* fresh[t]: the version t's GuardO remembers is still the current one
  seen,       \* what it read through its GuardO
  mover,      \* the page promoteLocked moves away
  spot,       \* the frame promoteLocked moves it to, or evict frees
  toWrite,    \* htEntriesToWrite: dirty pages its evict holds shared
  toEvict,    \* toEvict: written pages its evict holds exclusively
  latest      \* history: the value of the last update of every page

frames == <<owner, content, freeList>>
table == <<latch, where, inPlace, inlined, residentSet>>
guard == <<mode, ptr, seen>>
promo == <<mover, spot>>
batch == <<toWrite, toEvict>>
vars == <<setup, frames, disk, allocCount, table, pc, pid, guard, fresh, promo, batch, latest>>

FreshCopy == [pid |-> NoPid, val |-> 0, dirty |-> FALSE]

\* An empty pool: every frame is in the free list, no page exists.
Init == /\ setup \in Setups
        /\ owner = [f \in Frames |-> NoPid]
        /\ content = [f \in Frames |-> FreshCopy]
        /\ freeList = [f \in Frames |-> IF f \in setup.frames THEN 1 ELSE 0]
        /\ disk = [p \in Pids |-> 0]
        /\ allocCount = 0
        /\ latch = [p \in Pids |-> Invalid]
        /\ where = [p \in Pids |-> Nowhere]
        /\ inPlace = [p \in Pids |-> FALSE]
        /\ inlined = [p \in Pids |-> FALSE]
        /\ residentSet = {}
        /\ pc = [t \in Threads |-> "idle"]
        /\ pid = [t \in Threads |-> 0]
        /\ mode = [t \in Threads |-> "X"]
        /\ ptr = [t \in Threads |-> Nowhere]
        /\ fresh = [t \in Threads |-> FALSE]
        /\ seen = [t \in Threads |-> FreshCopy]
        /\ mover = [t \in Threads |-> NoPid]
        /\ spot = [t \in Threads |-> Nowhere]
        /\ toWrite = [t \in Threads |-> {}]
        /\ toEvict = [t \in Threads |-> {}]
        /\ latest = [p \in Pids |-> 0]

-------------------------------------------------------------------------------
(* Shorthands. *)

Resident(p) == p \in Pids /\ latch[p] # Invalid
Home(p) == setup.intended[p]

Goto(t, from, to) == pc[t] = from /\ pc' = [pc EXCEPT ![t] = to]
SetLatch(p, s) == latch' = [latch EXCEPT ![p] = s]
AddSharer(p) == SetLatch(p, IF latch[p] = Marked THEN 1 ELSE latch[p] + 1)

\* Variant: the unlock keeps the version.
SameOldVersion(p) == fresh' = [t \in Threads |-> fresh[t]]
\* Ending an exclusive hold gives the page a new version.
NewVersion(p) == fresh' = [t \in Threads |-> fresh[t] /\ pid[t] # p]

Claim(f, p) == owner[f] = NoPid /\ owner' = [owner EXCEPT ![f] = p]
Queued(list, f) == [list EXCEPT ![f] = IF @ < QueueCap THEN @ + 1 ELSE @]

\* The registers of a thread that no longer matter are reset.
Done(t) == /\ ptr' = [ptr EXCEPT ![t] = Nowhere]
           /\ seen' = [seen EXCEPT ![t] = FreshCopy]
           /\ mode' = [mode EXCEPT ![t] = "X"]
           /\ pid' = [pid EXCEPT ![t] = IF pc'[t] = "idle" THEN 0 ELSE @]
Forget(t) == fresh' = [fresh EXCEPT ![t] = FALSE]

-------------------------------------------------------------------------------
(* allocPage and handleFault.  The thread holds the page's frame exclusively  *)
(* from the insertion into the hash table on.                                 *)

\* ht.insert: the first page of a bucket goes into the bucket's inlined entry.
InsertLocked(p) == /\ latch[p] = Invalid /\ SetLatch(p, Locked)
                   /\ inlined' = [inlined EXCEPT ![p] =
                        ~\E q \in Pids : setup.bucket[q] = setup.bucket[p] /\ Resident(q) /\ inlined[q]]
                   /\ UNCHANGED <<where, inPlace, residentSet>>

Alloc(t) == /\ allocCount \in setup.pages /\ allocCount' = allocCount + 1
            /\ InsertLocked(allocCount)
            /\ Goto(t, "idle", "track") /\ pid' = [pid EXCEPT ![t] = allocCount]
            /\ mode' = [mode EXCEPT ![t] = "A"]
            /\ UNCHANGED <<frames, disk, ptr, fresh, seen, promo, batch, latest>>

\* fixX, fixS or GuardO find the page absent.
Fault(t, p, m) == /\ p < allocCount /\ InsertLocked(p)
                  /\ \/ m \in {"X", "S"} /\ Goto(t, "idle", "track")
                     \/ m = "O" /\ p = pid[t] /\ Goto(t, "access", "track")
                  /\ pid' = [pid EXCEPT ![t] = p]
                  /\ mode' = [mode EXCEPT ![t] = m]
                  /\ UNCHANGED <<frames, disk, allocCount, ptr, fresh, seen, promo, batch, latest>>

Track(t) == /\ Goto(t, "track", "place") /\ residentSet' = residentSet \cup {pid[t]}
            /\ UNCHANGED <<frames, disk, allocCount, latch, where, inPlace, inlined, pid,
                           guard, fresh, promo, batch, latest>>

\* The page goes home if its frame is free, and else wherever there is room.
Place(t) == LET p == pid[t] IN
  /\ \/ /\ Goto(t, "place", "fill") /\ Claim(Home(p), p)
        /\ where' = [where EXCEPT ![p] = Home(p)]
        /\ inPlace' = [inPlace EXCEPT ![p] = setup.predicts]
     \/ /\ Goto(t, "place", "getFree") /\ owner[Home(p)] # NoPid
        /\ UNCHANGED <<owner, where, inPlace>>
  /\ UNCHANGED <<content, freeList, disk, allocCount, latch, inlined, residentSet, pid, guard,
                 fresh, promo, batch, latest>>

\* What the frame holds from now on: a new dirty page, or the copy on the device.
\* A faulting fixX keeps its lock, fixS downgrades it, GuardO unlocks and retries.
Fill(t) == LET p == pid[t] IN
  /\ content' = [content EXCEPT ![where[p]] =
                   [pid |-> p, val |-> disk[p], dirty |-> mode[t] = "A"]]
  /\ \/ /\ mode[t] \in {"A", "X"} /\ Goto(t, "fill", "useX")
        /\ ptr' = [ptr EXCEPT ![t] = where[p]] /\ UNCHANGED <<latch, fresh>>
     \/ /\ mode[t] = "S" /\ Goto(t, "fill", "useS") /\ SetLatch(p, 1) /\ NewVersion(p)
        /\ UNCHANGED ptr
     \/ /\ mode[t] = "O" /\ Goto(t, "fill", "access") /\ SetLatch(p, Unlocked) /\ NewVersion(p)
        /\ UNCHANGED ptr
  /\ mode' = [mode EXCEPT ![t] = IF @ = "O" THEN @ ELSE "X"]
  /\ UNCHANGED <<owner, freeList, disk, allocCount, where, inPlace, inlined, residentSet, pid,
                 seen, promo, batch, latest>>

-------------------------------------------------------------------------------
(* fixX and fixS on a page that is in the hash table, and the work done.  *)

FixX(t, p) == /\ "X" \in setup.guards /\ latch[p] \in {Unlocked, Marked} /\ SetLatch(p, Locked)
              /\ Goto(t, "idle", "useX") /\ pid' = [pid EXCEPT ![t] = p]
              /\ ptr' = [ptr EXCEPT ![t] = where[p]]
              /\ UNCHANGED <<frames, disk, allocCount, where, inPlace, inlined, residentSet,
                             mode, fresh, seen, promo, batch, latest>>

FixS(t, p) == /\ "S" \in setup.guards /\ (latch[p] < MaxShared \/ latch[p] = Marked)
              /\ AddSharer(p)
              /\ Goto(t, "idle", "useS") /\ pid' = [pid EXCEPT ![t] = p]
              /\ UNCHANGED <<frames, disk, allocCount, where, inPlace, inlined, residentSet,
                             guard, fresh, promo, batch, latest>>

\* An update through a GuardX; values alternate, so that one lost update shows.
Update(t) == LET p == pid[t]
                 new == 1 - content[ptr[t]].val IN
  /\ Goto(t, "useX", "unfixX")
  /\ content' = [content EXCEPT ![ptr[t]].val = new, ![ptr[t]].dirty = TRUE]
  /\ latest' = [latest EXCEPT ![p] = 1 - @]
  /\ Done(t)
  /\ UNCHANGED <<owner, freeList, disk, allocCount, table, fresh, promo, batch>>

Unlock(t, from) == /\ Goto(t, from, "idle") /\ SetLatch(pid[t], Unlocked) /\ NewVersion(pid[t])
                   /\ Done(t)

\* unfixX promotes the page before it unlocks it, if it is away from home, its entry
\* is inlined and the dice say so.
UnfixX(t) == LET p == pid[t] IN
  /\ \/ Unlock(t, "unfixX")
     \/ /\ setup.promotes /\ inlined[p] /\ where[p] # Home(p)
        /\ Goto(t, "unfixX", "promote") /\ UNCHANGED <<latch, fresh, guard, pid>>
  /\ UNCHANGED <<frames, disk, allocCount, where, inPlace, inlined, residentSet, promo, batch,
                 latest>>

\* unfixS: whether the page is at home is read before the unlock; with PERCLASS the
\* role that decides about the promotion is read from the page after it.
UnfixS(t) == LET p == pid[t]
                 may == setup.promotes /\ inlined[p] /\ where[p] # Home(p) IN
  /\ SetLatch(p, latch[p] - 1)
  /\ \/ Goto(t, "useS", "idle") /\ ~setup.perClass
     \/ Goto(t, "useS", "tryPromote") /\ ~setup.perClass /\ may
     \/ Goto(t, "useS", IF may THEN "readRoleAway" ELSE "readRole") /\ setup.perClass
  /\ Done(t)
  /\ UNCHANGED <<frames, disk, allocCount, where, inPlace, inlined, residentSet, fresh, promo,
                 batch, latest>>

ReadRole(t) == /\ where[pid[t]] # Nowhere
               /\ \/ Goto(t, "readRole", "idle")
                  \/ Goto(t, "readRoleAway", "idle")
                  \/ Goto(t, "readRoleAway", "tryPromote")
               /\ Done(t)
               /\ UNCHANGED <<frames, disk, allocCount, table, fresh, promo, batch, latest>>

-------------------------------------------------------------------------------
(* GuardO. *)

OptimisticStart(t, p) == /\ "O" \in setup.guards /\ p < allocCount
                         /\ Goto(t, "idle", "access") /\ pid' = [pid EXCEPT ![t] = p]
                         /\ ptr' = [ptr EXCEPT ![t] = Home(p)]
                         /\ UNCHANGED <<frames, disk, allocCount, table, mode, seen, fresh, promo,
                                        batch, latest>>

\* The predictive path keeps the address the guard holds; the others take bf.page.
\* A marked page is unmarked first.  Mode "P" allows promotion, "O" blocks it for good.
Access(t) == LET p == pid[t] IN
  /\ \/ /\ latch[p] = Unlocked /\ inPlace[p] /\ Goto(t, "access", "read")
        /\ UNCHANGED <<ptr, mode>>
     \/ /\ latch[p] <= MaxShared /\ ~(latch[p] = Unlocked /\ inPlace[p])
        /\ Goto(t, "access", "read") /\ ptr' = [ptr EXCEPT ![t] = where[p]]
        /\ mode' = [mode EXCEPT ![t] = IF @ = "O" THEN @ ELSE "P"]
     \/ /\ latch[p] = Marked /\ UNCHANGED mode
        /\ Goto(t, "access", "clearMark") /\ ptr' = [ptr EXCEPT ![t] = where[p]]
  /\ fresh' = [fresh EXCEPT ![t] = TRUE]
  /\ UNCHANGED <<frames, disk, allocCount, table, pid, seen, promo, batch, latest>>

ClearMark(t) == LET p == pid[t] IN
  /\ \/ /\ fresh[t] /\ latch[p] = Marked /\ SetLatch(p, Unlocked)
        /\ Goto(t, "clearMark", "read")
     \/ /\ ~(fresh[t] /\ latch[p] = Marked)
        /\ Goto(t, "clearMark", "access") /\ UNCHANGED latch
  /\ UNCHANGED <<frames, disk, allocCount, where, inPlace, inlined, residentSet, pid, guard,
                 fresh, promo, batch, latest>>

ReadO(t) == /\ Goto(t, "read", "check") /\ seen' = [seen EXCEPT ![t] = content[ptr[t]]]
            /\ UNCHANGED <<frames, disk, allocCount, table, pid, mode, ptr, fresh, promo, batch,
                           latest>>

CheckO(t) == LET p == pid[t] IN
  /\ \/ /\ fresh[t] /\ latch[p] <= Marked /\ Goto(t, "check", "checked")
        /\ SetLatch(p, IF latch[p] = Marked THEN Unlocked ELSE latch[p])
        /\ UNCHANGED <<guard, pid, fresh>>
     \/ /\ ~(fresh[t] /\ latch[p] <= Marked)
        /\ Goto(t, "check", "idle") /\ Done(t) /\ Forget(t) /\ UNCHANGED latch
  /\ UNCHANGED <<frames, disk, allocCount, where, inPlace, inlined, residentSet, promo, batch,
                 latest>>

ReleaseO(t) == LET p == pid[t] IN
  /\ \/ Goto(t, "checked", "idle")
     \/ /\ setup.promotes /\ inlined[p] /\ mode[t] = "P"
        /\ Goto(t, "checked", "tryPromote")
  /\ Done(t) /\ Forget(t)
  /\ UNCHANGED <<frames, disk, allocCount, table, promo, batch, latest>>

\* GuardX(GuardO&&) writes through the address of the GuardO.
UpgradeX(t) == LET p == pid[t] IN
  /\ "X" \in setup.guards /\ fresh[t] /\ latch[p] \in {Unlocked, Marked}
  /\ SetLatch(p, Locked) /\ Goto(t, "check", "useX")
  /\ UNCHANGED <<frames, disk, allocCount, where, inPlace, inlined, residentSet, pid, guard,
                 fresh, promo, batch, latest>>

-------------------------------------------------------------------------------
(* tryPromote and promoteLocked. *)

\* tryPromote gives up on a page that is absent, at home or busy for too long.
TryPromote(t) == LET p == pid[t] IN
  /\ \/ /\ latch[p] \in {Unlocked, Marked} /\ where[p] # Home(p)
        /\ SetLatch(p, Locked)
        /\ Goto(t, "tryPromote", IF owner[Home(p)] = p THEN "unlock" ELSE "promote")
     \/ Goto(t, "tryPromote", "idle") /\ UNCHANGED latch
  /\ Done(t)
  /\ UNCHANGED <<frames, disk, allocCount, where, inPlace, inlined, residentSet, fresh, promo,
                 batch, latest>>

PromoteClaim(t) == LET p == pid[t] IN
  /\ \/ Goto(t, "promote", "copyHome") /\ Claim(Home(p), p)
     \/ Goto(t, "promote", "readMover") /\ owner[Home(p)] # NoPid /\ UNCHANGED owner
  /\ UNCHANGED <<content, freeList, disk, allocCount, table, pid, guard, fresh, promo, batch,
                 latest>>

ReadMover(t) == /\ Goto(t, "readMover", "lockMover")
                /\ mover' = [mover EXCEPT ![t] = owner[Home(pid[t])]]
                /\ UNCHANGED <<frames, disk, allocCount, table, pid, guard, fresh, spot, batch,
                               latest>>

\* The page in the way is looked up with the hash of the page that is promoted.
LockMover(t) == LET q == mover[t]
                    found == Resident(q) /\ setup.bucket[q] = setup.bucket[pid[t]] IN
  /\ \/ /\ found /\ latch[q] = Unlocked /\ SetLatch(q, Locked)
        /\ Goto(t, "lockMover", "placeMover") /\ UNCHANGED mover
     \/ /\ ~(found /\ latch[q] = Unlocked) /\ UNCHANGED latch
        /\ Goto(t, "lockMover", "unlock") /\ mover' = [mover EXCEPT ![t] = NoPid]
  /\ UNCHANGED <<frames, disk, allocCount, where, inPlace, inlined, residentSet, pid, guard,
                 fresh, spot, batch, latest>>

\* Variant: the moved page keeps its intendedSlot.
PlaceMoverKept(t) == LET q == mover[t] IN
  /\ \/ /\ Goto(t, "placeMover", "moveCopy") /\ Claim(Home(q), q)
        /\ spot' = [spot EXCEPT ![t] = Home(q)]
     \/ /\ Goto(t, "placeMover", "getFree") /\ owner[Home(q)] # NoPid
        /\ UNCHANGED <<owner, spot>>
  /\ UNCHANGED <<content, freeList, disk, allocCount, table, pid, guard, fresh, mover, batch,
                 latest>>
PlaceMover(t) == LET q == mover[t] IN
  /\ \/ /\ Goto(t, "placeMover", "moveCopy") /\ Claim(Home(q), q)
        /\ spot' = [spot EXCEPT ![t] = Home(q)]
        /\ inPlace' = [inPlace EXCEPT ![q] = setup.predicts]
     \/ /\ Goto(t, "placeMover", "getFree") /\ owner[Home(q)] # NoPid
        /\ inPlace' = [inPlace EXCEPT ![q] = FALSE] /\ UNCHANGED <<owner, spot>>
  /\ UNCHANGED <<content, freeList, disk, allocCount, latch, where, inlined, residentSet, pid,
                 guard, fresh, mover, batch, latest>>

MoveCopy(t) == /\ Goto(t, "moveCopy", "moveSwitch")
               /\ content' = [content EXCEPT ![spot[t]] = content[Home(pid[t])]]
               /\ UNCHANGED <<owner, freeList, disk, allocCount, table, pid, guard, fresh, promo,
                              batch, latest>>

\* Variant: the BufferFrame of the moved page is not redirected.
MoveSwitchNot(t) == LET q == mover[t] IN
  /\ Goto(t, "moveSwitch", "copyHome")
  /\ owner' = [owner EXCEPT ![spot[t]] = q, ![Home(pid[t])] = pid[t]]
  /\ SetLatch(q, Unlocked) /\ NewVersion(q)
  /\ mover' = [mover EXCEPT ![t] = NoPid] /\ spot' = [spot EXCEPT ![t] = Nowhere]
  /\ UNCHANGED <<content, freeList, disk, allocCount, where, inPlace, inlined, residentSet, pid,
                 guard, batch, latest>>
MoveSwitch(t) == LET q == mover[t] IN
  /\ Goto(t, "moveSwitch", "copyHome")
  /\ owner' = [owner EXCEPT ![spot[t]] = q, ![Home(pid[t])] = pid[t]]
  /\ where' = [where EXCEPT ![q] = spot[t]]
  /\ SetLatch(q, Unlocked) /\ NewVersion(q)
  /\ mover' = [mover EXCEPT ![t] = NoPid] /\ spot' = [spot EXCEPT ![t] = Nowhere]
  /\ UNCHANGED <<content, freeList, disk, allocCount, inPlace, inlined, residentSet, pid, guard,
                 batch, latest>>

CopyHome(t) == LET p == pid[t] IN
  /\ Goto(t, "copyHome", "switchHome")
  /\ content' = [content EXCEPT ![Home(p)] = content[where[p]]]
  /\ UNCHANGED <<owner, freeList, disk, allocCount, table, pid, guard, fresh, promo, batch, latest>>

SwitchHome(t) == LET p == pid[t] IN
  /\ Goto(t, "switchHome", "unlock")
  /\ owner' = [owner EXCEPT ![where[p]] = NoPid, ![Home(p)] = p]
  /\ freeList' = Queued(freeList, where[p])
  /\ where' = [where EXCEPT ![p] = Home(p)] /\ inPlace' = [inPlace EXCEPT ![p] = setup.predicts]
  /\ UNCHANGED <<content, disk, allocCount, latch, inlined, residentSet, pid, guard, fresh, promo,
                 batch, latest>>

UnlockPromoted(t) == /\ Unlock(t, "unlock")
                     /\ UNCHANGED <<frames, disk, allocCount, where, inPlace, inlined,
                                    residentSet, promo, batch, latest>>

-------------------------------------------------------------------------------
(* getFreePageHTCache and evict. *)

\* Variant: the result of try_dequeue is ignored.
TakeUnfound(t, f) ==
  /\ freeList' = [freeList EXCEPT ![f] = @ - 1]
  /\ \/ /\ Claim(f, pid[t]) /\ Goto(t, "getFree", "fill")
        /\ where' = [where EXCEPT ![pid[t]] = f]
     \/ owner[f] # NoPid /\ pc[t] = "getFree" /\ UNCHANGED <<owner, where, pc>>
  /\ UNCHANGED <<content, disk, allocCount, latch, inPlace, inlined, residentSet, pid, guard, fresh,
                 promo, batch, latest>>
\* The dequeued frame may have been claimed by its own page meanwhile: then the
\* entry is dropped and the loop goes on.
TakeFree(t, f) == LET wanted == IF mover[t] = NoPid THEN pid[t] ELSE mover[t] IN
  /\ freeList[f] > 0 /\ freeList' = [freeList EXCEPT ![f] = @ - 1]
  /\ \/ /\ Claim(f, wanted) /\ mover[t] = NoPid /\ Goto(t, "getFree", "fill")
        /\ where' = [where EXCEPT ![wanted] = f] /\ inPlace' = [inPlace EXCEPT ![wanted] = FALSE]
        /\ UNCHANGED spot
     \/ /\ Claim(f, wanted) /\ mover[t] # NoPid /\ Goto(t, "getFree", "moveCopy")
        /\ spot' = [spot EXCEPT ![t] = f] /\ UNCHANGED <<where, inPlace>>
     \/ /\ owner[f] # NoPid /\ pc[t] = "getFree"
        /\ UNCHANGED <<owner, where, inPlace, spot, pc>>
  /\ UNCHANGED <<content, disk, allocCount, latch, inlined, residentSet, pid, guard, fresh, mover,
                 batch, latest>>

Evict(t) == /\ \A f \in Frames : freeList[f] = 0
            /\ Goto(t, "getFree", "evict")
            /\ UNCHANGED <<frames, disk, allocCount, table, pid, guard, fresh, promo, batch, latest>>

\* One page of iterateClockBatch: a page not used since the last visit is taken,
\* shared to be written if dirty, exclusively to be dropped if clean.
EvictVisit(t, q) ==
  /\ q \in residentSet
  /\ \/ /\ latch[q] = Unlocked /\ SetLatch(q, Marked) /\ pc[t] = "evict"
        /\ UNCHANGED <<pc, batch>>
     \/ /\ latch[q] = Marked /\ content[where[q]].dirty /\ SetLatch(q, 1) /\ pc[t] = "evict"
        /\ toWrite' = [toWrite EXCEPT ![t] = @ \cup {q}] /\ UNCHANGED <<pc, toEvict>>
     \/ /\ latch[q] = Marked /\ ~content[where[q]].dirty /\ SetLatch(q, Locked)
        /\ Goto(t, "evict", "dropClean")
        /\ toEvict' = [toEvict EXCEPT ![t] = {q}] /\ UNCHANGED toWrite
  /\ UNCHANGED <<frames, disk, allocCount, where, inPlace, inlined, residentSet, pid, guard, fresh,
                 promo, latest>>

EvictWrite(t) == LET written == {where[q] : q \in toWrite[t]} IN
  /\ Goto(t, "evict", "upgrade")
  /\ disk' = [q \in Pids |-> IF q \in toWrite[t] THEN content[where[q]].val ELSE disk[q]]
  /\ content' = [f \in Frames |-> IF f \in written THEN [content[f] EXCEPT !.dirty = FALSE]
                                  ELSE content[f]]
  /\ UNCHANGED <<owner, freeList, allocCount, table, pid, guard, fresh, promo, batch, latest>>

\* Variant: the other holders are not waited for.
EvictUpgradeShared(t, q) ==
  /\ pc[t] = "upgrade" /\ q \in toWrite[t]
  /\ toWrite' = [toWrite EXCEPT ![t] = @ \ {q}]
  /\ SetLatch(q, Locked)
  /\ owner' = [owner EXCEPT ![where[q]] = NoPid]
  /\ freeList' = Queued(freeList, where[q])
  /\ toEvict' = [toEvict EXCEPT ![t] = @ \cup {q}]
  /\ UNCHANGED <<content, disk, allocCount, where, inPlace, inlined, residentSet, pc, pid, guard,
                 fresh, promo, latest>>
\* try_upgrade: the frame of a page only the evictor holds is free from here on.
EvictUpgrade(t, q) ==
  /\ pc[t] = "upgrade" /\ q \in toWrite[t]
  /\ toWrite' = [toWrite EXCEPT ![t] = @ \ {q}]
  /\ \/ /\ latch[q] = 1 /\ SetLatch(q, Locked)
        /\ owner' = [owner EXCEPT ![where[q]] = NoPid]
        /\ freeList' = Queued(freeList, where[q])
        /\ toEvict' = [toEvict EXCEPT ![t] = @ \cup {q}]
     \/ /\ latch[q] # 1 /\ SetLatch(q, latch[q] - 1) /\ UNCHANGED <<owner, freeList, toEvict>>
  /\ UNCHANGED <<content, disk, allocCount, where, inPlace, inlined, residentSet, pc, pid, guard,
                 fresh, promo, latest>>

\* residentSet.remove and then ht.remove, which ends the exclusive hold.
Untrack(t, q) == /\ q \in toEvict[t] \cap residentSet
                 /\ (pc[t] = "dropClean" \/ (pc[t] = "upgrade" /\ toWrite[t] = {}))
                 /\ residentSet' = residentSet \ {q}
                 /\ UNCHANGED <<frames, disk, allocCount, latch, where, inPlace, inlined, pc, pid,
                                guard, fresh, promo, batch, latest>>

\* Variant: the address of the frame is read after the entry has been cleared.
RemoveFirst(t, q) ==
  /\ q \in toEvict[t] \ residentSet
  /\ \/ /\ pc[t] = "upgrade" /\ toWrite[t] = {} /\ UNCHANGED <<pc, spot>>
     \/ /\ Goto(t, "dropClean", "freeClean") /\ spot' = [spot EXCEPT ![t] = Nowhere]
  /\ toEvict' = [toEvict EXCEPT ![t] = @ \ {q}]
  /\ SetLatch(q, Invalid) /\ NewVersion(q)
  /\ where' = [where EXCEPT ![q] = Nowhere]
  /\ inlined' = [inlined EXCEPT ![q] = FALSE]
  /\ UNCHANGED <<frames, disk, allocCount, inPlace, residentSet, pid, guard, mover, toWrite, latest>>
\* Variant: the page leaves the hash table before the resident set.
RemoveEarly(t, q) ==
  /\ q \in toEvict[t]
  /\ pc[t] = "upgrade" /\ toWrite[t] = {}
  /\ toEvict' = [toEvict EXCEPT ![t] = @ \ {q}]
  /\ SetLatch(q, Invalid) /\ NewVersion(q)
  /\ where' = [where EXCEPT ![q] = Nowhere]
  /\ inlined' = [inlined EXCEPT ![q] = FALSE]
  /\ UNCHANGED <<frames, disk, allocCount, inPlace, residentSet, pc, pid, guard, promo, toWrite,
                 latest>>
Remove(t, q) == /\ q \in toEvict[t] \ residentSet
                /\ \/ /\ pc[t] = "upgrade" /\ toWrite[t] = {} /\ UNCHANGED <<pc, spot>>
                   \/ /\ Goto(t, "dropClean", "freeClean")
                      /\ spot' = [spot EXCEPT ![t] = where[q]]
                /\ toEvict' = [toEvict EXCEPT ![t] = @ \ {q}]
                /\ SetLatch(q, Invalid) /\ NewVersion(q)
                /\ where' = [where EXCEPT ![q] = Nowhere]
                /\ inlined' = [inlined EXCEPT ![q] = FALSE]
                /\ UNCHANGED <<frames, disk, allocCount, inPlace, residentSet, pid, guard, mover,
                               toWrite, latest>>

FreeClean(t) == /\ Goto(t, "freeClean", "evict")
                /\ owner' = [owner EXCEPT ![spot[t]] = NoPid]
                /\ freeList' = Queued(freeList, spot[t])
                /\ spot' = [spot EXCEPT ![t] = Nowhere]
                /\ UNCHANGED <<content, disk, allocCount, table, pid, guard, fresh, mover, batch,
                               latest>>

EvictDone(t) == /\ toWrite[t] = {} /\ toEvict[t] = {} /\ Goto(t, "upgrade", "getFree")
                /\ UNCHANGED <<frames, disk, allocCount, table, pid, guard, fresh, promo, batch,
                               latest>>

-------------------------------------------------------------------------------
Fixing(t) == \/ Alloc(t) \/ Track(t) \/ Place(t) \/ Fill(t)
             \/ \E p \in Pids, m \in setup.guards : Fault(t, p, m)
             \/ \E p \in Pids : FixX(t, p) \/ FixS(t, p)
             \/ Update(t) \/ UnfixX(t) \/ UnfixS(t) \/ ReadRole(t)
Optimistic(t) == \/ \E p \in Pids : OptimisticStart(t, p)
                 \/ Access(t) \/ ClearMark(t) \/ ReadO(t) \/ CheckO(t) \/ ReleaseO(t) \/ UpgradeX(t)
Promoting(t) == \/ TryPromote(t) \/ PromoteClaim(t) \/ ReadMover(t) \/ LockMover(t)
                \/ PlaceMover(t) \/ MoveCopy(t) \/ MoveSwitch(t) \/ CopyHome(t) \/ SwitchHome(t)
                \/ UnlockPromoted(t)
Evicting(t) == \/ \E f \in Frames : TakeFree(t, f)
               \/ Evict(t) \/ EvictWrite(t) \/ FreeClean(t) \/ EvictDone(t)
               \/ \E q \in Pids : EvictVisit(t, q) \/ EvictUpgrade(t, q) \/ Untrack(t, q) \/ Remove(t, q)

Next == /\ \E t \in Threads : Fixing(t) \/ Optimistic(t) \/ Promoting(t) \/ Evicting(t)
        /\ UNCHANGED setup

Spec == Init /\ [][Next]_vars

-------------------------------------------------------------------------------
(* Properties. *)

Phases == {"idle", "track", "place", "getFree", "fill", "useX", "useS", "unfixX", "readRole",
           "readRoleAway", "access", "clearMark", "read", "check", "checked", "tryPromote",
           "promote", "readMover", "lockMover", "placeMover", "moveCopy", "moveSwitch",
           "copyHome", "switchHome", "unlock", "evict", "dropClean", "freeClean", "upgrade"}
Places == Frames \cup {Nowhere}
Copies == [pid : Pids \cup {NoPid}, val : {0, 1}, dirty : BOOLEAN]

\* Every variable has its type.
TypeOK ==
  /\ setup \in Setups
  /\ owner \in [Frames -> Pids \cup {NoPid}] /\ content \in [Frames -> Copies]
  /\ freeList \in [Frames -> 0..QueueCap] /\ disk \in [Pids -> {0, 1}]
  /\ allocCount \in 0..NoPid /\ latch \in [Pids -> 0..Invalid]
  /\ where \in [Pids -> Places] /\ inPlace \in [Pids -> BOOLEAN]
  /\ inlined \in [Pids -> BOOLEAN] /\ residentSet \subseteq Pids
  /\ pc \in [Threads -> Phases] /\ pid \in [Threads -> Pids]
  /\ mode \in [Threads -> {"X", "S", "O", "A", "P"}] /\ ptr \in [Threads -> Places]
  /\ fresh \in [Threads -> BOOLEAN] /\ seen \in [Threads -> Copies]
  /\ mover \in [Threads -> Pids \cup {NoPid}] /\ spot \in [Threads -> Places]
  /\ toWrite \in [Threads -> SUBSET Pids] /\ toEvict \in [Threads -> SUBSET Pids]
  /\ latest \in [Pids -> {0, 1}]

Usable(p) == latch[p] <= Marked

\* A page that a guard can reach, and a page a GuardX is at work on, has a frame of its own.
Settled(p) == Usable(p) \/ \E t \in Threads : pid[t] = p /\ pc[t] \in {"useX", "unfixX"}

\* Two pages never share a frame, and virtMemPids agrees with the BufferFrames: whatever
\* faults, evictions and promotions do at the same time, the frame of a page that can be
\* reached is claimed by that page (handleFault, evict and promoteLocked each change one
\* before the other).
FrameOwnership == \A p \in Pids : Settled(p) => where[p] \in Frames /\ owner[where[p]] = p

\* No update is lost: the frame of a page that can be reached holds the last update, the
\* block device holds it when no frame does, and a clean frame may be dropped because the
\* device holds it too (evict writes before it drops, promotion copies before it frees).
NoLostUpdate ==
  \A p \in Pids :
    /\ Settled(p) => LET copy == content[where[p]] IN
                       /\ where[p] \in Frames
                       /\ copy.pid = p /\ copy.val = latest[p]
                       /\ ~copy.dirty => disk[p] = latest[p]
    /\ latch[p] = Invalid => disk[p] = latest[p]

\* A thread has claimed frame f for page p, or still has to free it.
InTransit(t, f, p) ==
  \/ pid[t] = p /\ f = Home(p) /\ pc[t] \in {"copyHome", "switchHome"}
  \/ mover[t] = p /\ spot[t] = f /\ pc[t] \in {"moveCopy", "moveSwitch"}
  \/ spot[t] = f /\ pc[t] = "freeClean"

\* No frame leaks: a claimed frame holds its page or is about to be filled or freed, and
\* a frame nobody has claimed can be found in the free list, although home claims leave
\* stale entries there and getFreePageHTCache throws entries away.
FrameAccounting ==
  \A f \in setup.frames :
    IF owner[f] = NoPid THEN freeList[f] > 0
    ELSE where[owner[f]] = f \/ \E t \in Threads : InTransit(t, f, owner[f])

\* Eviction can find every page that can be reached, and finds no page the hash table has
\* forgotten; a page that faults in again is not in the set yet (ResidentPageSet::insert
\* asserts it).
ResidentIsTracked ==
  /\ \A p \in Pids : Usable(p) => p \in residentSet
  /\ \A p \in residentSet : latch[p] # Invalid
  /\ \A t \in Threads : pc[t] = "track" => pid[t] \notin residentSet

\* The prediction is never wrong about a reachable page: intendedSlot is set only while
\* the page is in its home frame.
PredictionHolds == \A p \in Pids : Usable(p) /\ inPlace[p] => where[p] = Home(p)

\* A validated optimistic read returned the page it asked for, and its last update unless
\* the page has changed since (guards.hpp: checkVersionAndRestart).
ReadsOwnPage ==
  \A t \in Threads : pc[t] = "checked" =>
    /\ seen[t].pid = pid[t]
    /\ fresh[t] /\ Usable(pid[t]) => seen[t].val = latest[pid[t]]

-------------------------------------------------------------------------------
(* What the comments and the documentation say of promotion and of the guards. *)

\* buffer_manager.hpp:442 "There's a page in the slot that we have to move away": the
\* page promoteLocked has locked is the one in the slot.
MoverIsInSlot ==
  \A t \in Threads : pc[t] = "placeMover" => where[mover[t]] = Home(pid[t])

\* NARRATIVE_REPORT.md:23 "if a displacement is required": promoteLocked does displace the
\* page in the slot, unless that page is gone, moved or latched.
PromotionDisplaces ==
  [][\A t \in Threads : pc[t] = "lockMover" /\ pc'[t] = "unlock" =>
       ~(latch[mover[t]] = Unlocked /\ where[mover[t]] = Home(pid[t]))]_vars
==============================================================================
