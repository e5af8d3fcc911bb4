# PrediCache in TLA+

PrediCache is a buffer manager with *predictive translation*: every page has a
preferred frame that is computed from its page id, a reader first tries the page
there, and a page that sits elsewhere is moved home ("promoted") now and then.
The repository adds controllers that tune how often. This directory holds TLA+
models of its concurrent core, TLC runs that check them on small instances, and
TLAPS proofs of what matters most. Source paths below are relative to
`src/repo/PrediCache/`.

## 1. Inventory

| Component | State | Operations | Interacts with | Hard behaviour | What makes it correct |
|---|---|---|---|---|---|
| Page latch (`page.hpp`, `PageState`) | one 64-bit word: state (unlocked, n sharers, marked, locked, invalid) and version | tryLockX/S, unlockX/S, tryMark, downgrade, unlockXInvalid | everything | words are loaded, then compared and swapped later; sharers count up to a limit next to other states | mutual exclusion; the word counts its holders |
| Guards (`guards.hpp`) | address, frame and remembered version | GuardO/S/X, upgrades, validation, restart by exception | latch, pool | optimistic reads race with writers, evictions and frame moves; upgrades | validated reads are whole and of the page asked for; no lost update |
| Buffer pool (`buffer_manager.hpp`) | frames, `virtMemPids`, free list, `allocCount` | allocPage, handleFault, fixX/S, unfixX/S, evict, getFreePageHTCache, readPage | hash table, resident set, device | three tables that disagree while a page moves; batch eviction; stale hints | one page per frame and one frame per page; nothing lost, no frame leaked; eviction finds every page |
| Promotion (`buffer_manager.hpp:401-482`) | `intendedSlot` | tryPromote, promoteLocked | pool, controllers | two pages move at once under readers | the prediction is never wrong about a reachable page |
| Hash table (`ht.hpp`, `versioned_lock.hpp`) | buckets of an inlined head and a chain, versioned lock, entry free list | access, insert, remove | pool, guards | walks without lock over entries that are unlinked and recycled | a set with atomic operations; a page has one entry; a word returned is the asked page's |
| Resident set (`page.hpp`, `ResidentPageSet`) | open addressing with tombstones, clock position | insert, remove, iterateClockBatch, iterateAll | evict, flush | lock-free probing against concurrent removal; batches of several clocks | each page once; removal finds it; the clock is fair |
| Block device (`libaio_interface.hpp`, `uring_interface.hpp`) | request blocks per worker | readPage, writePages | pool | dirty flag cleared before the copy; results of requests ignored | a clean page is on the device |
| B+-tree (`btree.hpp`, `btree.cpp`) | nodes in pages, roots in page 0 | lookup, insert, updateInPlace, remove, scans, splits, merges | guards | optimistic lock coupling; several latches in different orders; prefixes, heads and hints at their boundaries | a set of keys with atomic operations; scans miss nothing; no deadlock |
| TPB controller (`cbp.hpp:248-301`) | base and probe rung, sandwich phase, direction | tpbOnWindow once per second | stat thread calls it, workers read `tpb_lc_active` | a protocol over windows, a sentinel value, history-dependent direction | compares what it measured; stays on the ladder; settles on the better of its rungs |
| CBP v3, v4 (`cbp.hpp:135-240`) | relaxed counters, two arms or 64 classes | noteAttempt, noteAccess, maskFor | workers | counters read and reset while others add | arms adjacent and on the ladder; decisions spaced; samples counted once |
| Flush and clear (`buffer_manager.hpp:655-708`) | none of its own | flush, clear | pool | batches at the I/O limit; removal without a lock | every page clean; nothing left behind |
| Driver (`benchmarks/Benchmark.hpp`) | progress counters, `keepRunning` | parallel_for, stat thread | workers, TPB | last window, empty ranges | every transaction counted |
| Workloads, generators, main, scripts | keys, records, environment | — | B+-tree | — | not part of the core |

How they fit: a worker asks the B+-tree, which takes guards on pages; a guard asks
the hash table for the page's `BufferFrame` and its latch word; a page that is
not there is inserted, given a frame (its home, or one of the free list, after
evicting a batch) and read from the device. Releasing a page may promote it
with a chance that a controller sets; the controller hears from the stat thread.

## 2. Modules

| Module | What it is |
|---|---|
| `PageState` | the latch word and its transitions, shared by the other modules |
| `AtomicPage` | abstract: a page is a value, updated one at a time, read atomically |
| `PageLatch` | the guards, fault and eviction on one page, one load or compare-and-swap per step |
| `PageLatchInv`, `PageLatchProofs` | its inductive invariant; proofs of it and that PageLatch implements `AtomicPage` |
| `BufferPool` | frames, faults, promotion and eviction of several pages |
| `BufferPoolProofs` | who holds pages and owns frames, and what frames hold: proofs |
| `PageTable` | abstract: the set of resident pages with atomic lookups |
| `HashTable`, `HashTableProofs` | one bucket, one pointer or word per step; proofs that it implements `PageTable` |
| `KeySet` | abstract: a set with atomic insert and remove, whose answers are true |
| `ResidentSet`, `ResidentSetProofs` | the resident page set and its clock; proofs that it implements `KeySet` |
| `BTree` | the B+-tree under concurrent calls: descents, latches, splits, merges, scans; implements `KeySet` |
| `BTreeShape`, `BTreeProofs` | what splits and merges do to a tree of any depth; what threads know of it: proofs |
| `BTreeNode`, `BTreeNodeProofs` | the bytes of its pages, one call at a time; proofs for any keys, page size and layout |
| `TPB` | the throughput-probed bandit |
| `CBP`, `CBPProofs` | all controllers behind one interface: `TPB`, the two-armed bandit v4, the hill climber v3; the proofs |
| `MC*` | instances, symmetry sets and workloads for TLC |

### PageLatch (one page)

`word` is `bf.state`, `mem` and `disk` are the page's copy in its frame and on the
device, split in `NParts` parts so that reads and writes can tear, `dirty` is its flag.
`pc[t]` is where thread t is; `snap[t]` is the word it loaded last, `seen[t]` what
its GuardO has read, `written[t]` how many parts of its update are done. Every
action is the code between two shared accesses: a load of the word and the
compare-and-swap that uses it are two actions. The operations are GuardO
(init, read, `checkVersionAndRestart`, the clearing of a mark), the upgrades to
GuardX and GuardS, fixX and fixS, a fault that publishes the page unlocked,
shared or exclusive, and the eviction of dirty and clean pages. A frame that was
freed is overwritten with `Garbage`.

`ImplementsAtomicPage` is the summary: with `val` mapped to the content (in the
frame, or on the device when the page is not in memory) and `result` to what a
checked read has seen, PageLatch implements AtomicPage.

### BufferPool (several pages)

`owner` is `virtMemPids`; `content` is the frames; `freeList` how many copies of a
frame the free list holds; `latch`, `where`, `inPlace` and `inlined` are the
BufferFrame of a page (`state`, `page`, `intendedSlot`, `isInlined`); `residentSet` the
clock's set. A load of the latch and its compare-and-swap are one step here, since
PageLatch takes them apart, and versions are reduced to `fresh[t]`: whether the
version t remembers is still the current one. What stays apart is everything between
two of the pool's tables: claiming a frame, setting `bf.page`, filling the frame,
tracking the page, copying, switching, freeing.

A page here has one BufferFrame. That is what the hash table promises
(`NoDuplicates`, `HitIsOwn`): the entry may change, but whoever comes back with an
unchanged word comes back to the same page. A page's value is one bit (an update
flips it), which tells a lost update from a kept one.

Over-approximations: eviction visits resident pages in any order (`ResidentSet` has the
clock and its batches) and may stop its batch at any visit. `evict` visits each
page once per batch entry; all `Untrack`/`Remove` pairs of a batch may interleave.
GuardS grown out of GuardO is modelled only in PageLatch.

What the environment decides once (`DISABLE_PRED`, `PERCLASS`, how many pages and frames
there are, which hash to one bucket) is the record `setup`, chosen by `Init`.

### HashTable (one bucket)

`bucket` is the versioned lock; `pidOf`, `next` and `word` the entries; `freeEntries` the
entry free list, `made` the entries ever allocated. A thread's walk (`vBucket`,
`cur`, `vEntry`) is shared by access and insert, which differ in what they do at its end.
Around it stands what the buffer manager does: look up, lock with the word that was
returned, fault, release, evict. The move of a chained entry to an empty head is not an
action, because its condition is never true (finding 4). `remove` returning false is
not an action either: `HeldIsFound` shows that it cannot happen to a caller that holds
the page.

`ImplementsPageTable` is the summary: although lookups hold no lock, what they
report was true at the instant of their last version check, and insertion and
removal happen at one instant each (when the page id is stored).

### ResidentSet (the pages in frames)

`ht` is the array of slots, `size` and `clockPos` its counters; `pid[t]`, `pos[t]` and `curr[t]` are the
locals of `insert` and `remove`, `scanPos[t]` and `left[t]` those of `iterateClockBatch`. Every load and
compare-and-swap is an action. The buffer manager inserts a page while it holds the page's
latch to fault it in and removes it while it holds the latch to evict it, so that no two
threads work on one page (`Free`), a page is inserted only when it is not in the set and removed
only when it is. evict removes clean pages inside the callback of its clock batch
(`RemoveStart` from "visit") and written pages after it. `claims` is a history variable: how often each slot was in
a batch. `ImplementsSet` says that the array implements KeySet: inserting and removing happen at the compare-and-swaps, and a
remove that returns true has taken its page out. `iterateAll` changes nothing and is used only by `flush` and `clear`.

### BTree (concurrent calls)

`nodes` are the pages: keys of a leaf, children of an inner node by separator, fences and
right neighbour. Page 0 is the metadata page. `par[t]` and `node[t]` are the two guards of a descent,
`fresh[t]` those whose remembered version is still current, `xHeld` and `readers` the latches,
`held[t]` the leaf of a scan. `Descend`, `Acquire`, `Validate` take GuardO(pid, parent) apart: read the
child's id and check the parent, take the child's version, check the parent again. `insert` and
`remove` keep the parent's guard: `LockLeaf`, `LockFull`, `LockParent`, `LockNode` and
`RemoveUnderfull` are the places where a GuardX waits. `Restart` is OLCRestartException.

Abstractions: a change of pages that are held exclusively, and the unlocking that
follows, are one step (nobody can see the pages in between); `updateInPlace` locks, writes and unlocks in
one step; entries have one size, so that space is a number of entries, and what depends on
bytes is a choice: a leaf's separator is any value between the halves, a merge may be
refused although the neighbour is empty enough. GuardS of a leaf may fail whenever there are other
readers. `ensureSpace` recognises the node to split by its page, where the code compares frame
addresses. insert is called for keys that are not in the tree, as the workloads do (it does not
look). Each thread makes one call.

`ImplementsKeySet` is the summary for insert, remove, lookup and updateInPlace, `ScansComplete` for scans. In KeySet a
call that answers "found" to a remove is the step that takes the key out, and every other answer needs an instant of the
call at which it was true: `was[c]` collects, for the key of a pending call, the truth values of each instant. The tree gives
`was` through its history variables (`sure` and `maybe`, the keys at all and at some instants of a call), so a remove that
returns true and leaves the key, or removes it and returns false, is no behaviour of KeySet. `AnswersAtomic`
says the same of the answers alone, on the histories.

### BTreeNode (pages)

A key is a sequence of bytes; a page has fences, slots, hints, and counts `used` (`spaceUsed`)
and `data` (`dataOffset`) as the code does. The prefix is what the fences share. `LowerBound`
searches with the hints and heads of the code, `Separator` truncates as `findSeparator` and `getSep` do,
`Compactified`, `LeftHalf`, `RightHalf`, `ParentOfHalves` and `Merged` build pages by copying slots. `InsertKey`, `Split` and `RemoveKey`
use them as btree.cpp does; one `Split` is the split that the recursion of `trySplit` and
`ensureSpace` ends in: the lowest node on the path whose parent has space. Slots past the count, which makeHint may
read, are taken to be 0: the hints made of them are not used, since searchHint needs more
than twice as many slots as hints. `LayoutAssumption`, `SearchAssumption` and `KeysFit` are what the header and the `ensure` of insert
give: a value or a child fits the largest entry, and a page has room for four such entries
(`maxKVSize`); `KeysAssumption` excludes the empty key, which stands for an open fence.

### TPB and CBP (the controllers)

TPB has one action per kind of window: `MeasureProbe` (second of a sandwich), `Decide`
(third), `OpenSandwich` (first) and `Baseline`. A workload is a function from rungs
to the throughputs a window may show: a singleton for a steady workload, several for
noise, 0 for a stall. `windowIdx` counts modulo `ProbeEvery` (the code's 32-bit counter
wraps after 136 years). `measuredAt` is a history variable. Doubles are replaced by
exact integer comparisons.

CBP extends TPB by the other modes; `mode` is what `init` reads from the environment and `Log(c)` the chance
that `maskFor` derives. In mode "v4" a worker whose accumulator is full adds it to `total` and `hits`,
counts an `epoch`, and may adapt the arms `armLc`: the load of the epochs, the load of the mark
`lastDecision`, the compare-and-swap, the loads of the sums, of the arms, and each store are actions. The unit
of the counters is a flush of 4096 accesses, all of them hits or none. In mode "v3", `clTotal` and the
other `cl` variables are one class (classes share nothing); "static" counts and starts
over. The increment of the attempts in mode "tpb", which nothing reads, is left out. `armStart` is the `CBP_LOG` that `init`
has accepted, any rung of the ladder (`ArmStarts`).
`overlapped`, `late`, `samples` and `windowed` are history variables; `late` holds the workers that have read the epochs
and then seen another worker's decision pass before their own compare-and-swap.

`DecisionsSpaced` states what `cbp.hpp:159` says, an adaptation every NUM_DECISION_EPOCHS new epochs, as far as it holds: a late worker may
decide at once, and may set the mark back, because its sum lies behind the mark and the unsigned difference wraps (`cbp.hpp:164`).
Nothing else makes decisions come early. Without the exception for late workers TLC finds the property violated.

## 3. Runs

| Run | Asks | Bounds and why they are enough |
|---|---|---|
| `page_latch` | the word counts its holders, whole reads, no dropped dirty page, the invariant of the proofs, refinement of AtomicPage; holders let go | 2 threads, 2 parts (tearing needs two), 2 shared holders: evictor and reader share the page and meet the limit; versions to 3: load, update, evict, load and update again |
| `pool` | ownership, no lost update, no leaked frame, tracking, prediction, validated reads of the page asked for | four setups: 3 pages in 2 frames under fixX, two with one home (every fault may need an eviction or a promotion); the same pages under GuardO and GuardS with `DISABLE_PRED=1` (clean pages are dropped); 2 pages that take turns in 1 frame under every guard and the upgrade; 2 pages of one bucket and 3 frames (the only pages the code displaces), with `PERCLASS=1` |
| `table_safety` | lookups are atomic, entries unique and accounted for | 2 threads, 3 pages (a chain of two behind the head), 2 heap entries (recycled), bucket versions to 4, entry versions to 3 |
| `resident_set` | the array implements a set; removal finds its page and ends; a fair clock; the invariant of the proofs | 3 pages that collide across the end of 4 slots, 2 threads: probes that wrap, pass tombstones and meet slots that change under them; batches of 3 slots overlap and do not divide the array |
| `tree` | the tree implements a set of keys; answers; leaf chain; scans; who may wait for whom | a root that is a full leaf, and a full root over full and underfull leaves of up to 3 entries: splits of leaf, inner node and root, merges, restarts of `ensureSpace`; 2 threads with any of 8 calls, or two inserts, or an insert, a merging remove and a reader |
| `btree_node` | searches, space, no key lost | 8 keys of 1 to 3 bytes over two values, which are prefixes of each other and share heads; heads of one byte, one hint (used from 3 slots on), separators sought from 5 slots on, pages of 18 bytes: leaves that compact, split and merge, inner nodes whose prefix grows; 8 pages, 2 removes |
| `controllers` | TPB: sandwich shape, the two rungs, measured adoption, settles. v4: chance on the ladder, decisions, arms. v3: samples | the real ladder 1..14. TPB with the code's cadence 8 and tolerance 15 %, start at the end of the ladder, where probes are turned around; five throughputs that agree, disagree and win by more and less than the margin; steady hills of every peak and three slopes. v4 and v3 start at the other end and next to it (13, 14); 2 workers; 5 flushes with a decision every 2; 6 samples in windows of 2, with one window of warmup and a warmup counter that wraps at 3 |

Runs that show a disagreement between the code and what the repository says of it:

| Run | Finding |
|---|---|
| `pool_stale_address` | 1. GuardO can pair an old frame address with a new version (`guards.hpp:68`) |
| `pool_mover_moves` | 2. promoteLocked locks the page in the way after reading which it is, and does not look again (`buffer_manager.hpp:450`) |
| `pool_no_displace` | 3. it looks that page up with the wrong hash, and so hardly ever displaces (`:445`) |
| `table_head` | 4. empty heads are never refilled: `& 7 == 0` is `& (7 == 0)` (`ht.hpp:229`) |
| `tree_deadlock` | 5. an insert into a full leaf and a remove that merges that leaf into its left neighbour wait for each other for ever (`btree.cpp:125`) |

Findings 2 and 3 limit each other: because of the wrong hash, only pages of one bucket
displace each other, so the missing recheck is rarely reached. Finding 5 is the only kind of circle:
`CyclesMerge` holds, so that without merges latch coupling is free of deadlock.

Noticed while modelling, and not the subject of a run:

- with `PERCLASS=1` unfixS reads the page after unlocking it, when an eviction may have set `bf.page` to null
  (`buffer_manager.hpp:501`; `ReadRole` would be stuck there, and no setup combines `PERCLASS=1` with eviction);
- a page is placed in its home frame on its first access when that is free (`:342`), where
  `paper/tpb.tex:169` says an arbitrary one;
- a probe window without a transaction makes the next window count as the probe (`cbp.hpp:254`), so that
  `AdoptsWhatItMeasured` is stated for busy workloads;
- the repository's README.md:140 has TPB converge to the static optimum; `BaseNearStart`, checked and proved, says
  that it only ever chooses between two neighbouring rungs, since the direction is turned on acceptance only (`cbp.hpp:275`);
- two workers of v4 can adapt at once (an epoch sum read before the other's compare-and-swap wraps at `cbp.hpp:164`) and leave
  arms that are not neighbours, which `cbp.hpp:85` says they are: hence `overlapped` in `ArmsTogether` and `late` in `DecisionsSpaced`;
- `CBP_LOG=14` starts the second arm of v4 past the ladder (`cbp.hpp:372`): the one exception in `ChanceOnLadder`;
- `assert(sepSlot > 0)` (`btree.hpp:378`) fails for a leaf of two entries of maximal size between
  fences of maximal size, and `assert(count > 1)` (`:436`) for an inner node of one such separator;
- a separator is the whole left key if the right key ends at the byte in which they differ (`btree.hpp:465` does not shorten it then).
  As the new upper fence of the left half it may be much longer than the entries that left, and
  the assertions on space in `insertFence` (`:361`) and `copyKeyValueRange` (`:349`) can fail. `ShortCopies` rules that out: it holds for keys of
  one length, and for those of TPC-C, whose strings end in a byte 0 (`Types.hpp:100`): a key that ends with a string
  has no smaller key that first differs from it in its last byte, and two keys that end with a number and differ there only have one length. `btree_node` checks that its keys satisfy it.

**Further bounds.** `QueueCap = 1` copy of a frame in the free list is counted (more copies
are thrown away by getFreePageHTCache one by one). `MaxShared = 2` stands for 252.
`MaxVersion` stops the *start* of further locking, so that started operations finish.

**No deadlock check.** `tree`, `tree_deadlock`, `btree_node` and `controllers` stop: threads make one call,
pages and flushes are bounded. All other runs check for deadlock.

**Fairness.** `page_latch` has weak fairness of each
thread that is inside an operation: the scheduler keeps running workers, and no
step of the code sleeps on another thread (waiting is a spin with `yield`). Nothing
is assumed of idle threads. `resident_set` has weak fairness of each thread inside insert or remove, and
`tree_deadlock` of each thread inside a call, for the same reason. `controllers` assumes that the stat thread
keeps reporting windows, which it does once a second while the benchmark runs, and nothing of the workers;
`table_head` that the thread keeps using the table.

**Mutants.** Definitions named in a comment "Variant: ..." are plausible bugs of the
definition below them; each property fails when one of them takes its place.

## 4. Proofs

`PageLatchProofs` proves, for every number of threads, parts, shared holders and versions
(assumptions `MaxSharedAssumption` and those named in `PageLatch`):

- `TypeCorrect`, `MutualExclusion` (`LatchHeld`), `OptimisticReads` (`ReadIsWhole`),
  `CleanPages` (`CleanIsOnDisk`), all from `Inductive`: `Spec => []IInv`.

None of the properties is inductive alone. What carries them is `ReadersAgree`: while
the word still has the version of a thread's GuardO and nobody holds the page exclusively,
what the thread has seen is what the page holds. It survives because a word
leaves Locked only with a higher version (`SnapOK` bounds what threads remember by the
current version), and because the page changes only under an exclusive hold
(`LatchHeld`). `WriterAgrees` and `PageWhole` say that a half-written page exists only
in the hands of its writer. `page_latch` checks `IInv` on the small instance.

Its second part proves `Refinement`: `Spec => ImplementsAtomicPage`, under the same
assumptions. Each step is mapped to a step of AtomicPage or to a stutter: writing the
last part is `Update` (the writer builds on what the page holds, `WriterAgrees`), passing the check is
`Read` (`ReadersAgree`), and everything else leaves the content alone. The hard steps are those where the
content changes its place: a page read back (`ReadPage`), and a page dropped (`LeavesClean`), which
needs one more invariant, `EvictorClean`: a page stays clean from the moment the evictor
starts to write it to the moment it is removed. `EvictUpgradeDirty` preserves it only because the
evictor is then the only holder.

The first part of `CBPProofs` is about TPB. It proves, for every ladder, start, cadence, tolerance and set of workloads
(`LadderAssumption`, `CadenceAssumption`, `LoadsAssumption`):

- `TypeCorrect`: the rung workers read is on the ladder;
- `StaysNearStart`: the base never leaves the pair of rungs it starts with. The
  invariant is `Inward`: base plus direction is always in the pair; a rejection changes
  neither, an adoption swaps the rungs and turns around;
- `SandwichHolds` and `AdoptsMeasured`, for workloads in which every window completes a
  transaction (`Busy`, which a probe window without one shows to be necessary).

`ResidentSetProofs` proves, for every number of slots, threads and pages, every hash function and batch
(`CountAssumption`, `HashAssumption`, `MarksAssumption`, `BatchAssumption`):

- `SetInvariant` (`Spec => []IInv`), `RemovalsSucceed` (`RemovesFind`: the assertion on `remove` in evict) and
  `ArrayImplementsSet` (the refinement of KeySet: no insert or remove takes effect twice, and none returns without its effect);
- `ClockIsEven` (`EvenClock`). The invariant is `EvenTurn`: the slots before `clockPos` have been in one batch more than those
  from it on. A batch is claimed by a compare-and-swap on `clockPos`, so it begins there, and it either ends before the end of the
  array or goes once around it (`BatchSlots`).

That a probe finds its page is about a path through the array, which would ask for an
induction. `Reaches(r, s)` states it without one: s is in every set of slots that holds r and is
closed under a step over a slot that is not empty. A slot that was taken is never empty again (a
removed page leaves a tombstone), so a set that is closed after a step of the program was closed before it: what was reached
stays reached (`FoundFromHash`, and `Working` for the probes on their way). `Exclusive`, the latch of the page, keeps two threads
from inserting one page twice (`Unique`).

The second part of `CBPProofs` proves, for any number of workers, any window length and any distance between decisions (the
assumptions of TPB, `ArmAssumption`; `WorkersAssumption`, that the workers are finitely many, for the last; none
of the bounds `MaxFlushes` and `MaxSamples` is used):

- `ChancesOnLadder`: what `maskFor` derives is on the ladder, in every mode and from every start that `init` accepts, but
  for the upper arm of v4 where `init` puts it past the end (`CBP_LOG=14`), which no step takes further;
- `DecisionsAreSpaced`: decisions are NUM_DECISION_EPOCHS flushes apart, except for those of late workers;
- `ArmsStayTogether`: unless two workers have adapted at once, the arms are neighbours when nobody adapts them;
- `SamplesAreConserved`: v3 counts each sample in one window.

The modes share only the workers' places and locals, so each has an invariant of its own. `V4Inv` says what a
worker holds at each place: a sum of epochs that the epochs have reached since (`Sums`) and that, unless the worker is late, has reached the mark
(`Timely`), a pair of neighbours on the ladder once it has chosen new arms (`ArmsKept`), and, while nobody overlaps, being the only one to adapt
and having stored the lower arm of its pair between the two stores (`Together`). `V3Inv` says that a worker about to store `log_chance` holds a rung
(`Climbing`) and that a sample is in the total, in a closed window or on its way between the two counters (`Counted`).

`BufferPoolProofs` proves, for any number of pages, frames and threads (`PidsAssumption`, `ThreadsAssumption`: finitely many;
`SetupsAssumption`, `MaxSharedAssumption`, `NowhereAssumption`, `QueueCapAssumption`):

- `LatchesHold` (`LatchInv`): a page is held exclusively by one thread in one role (the page it works on, the page it moves away, a page
  it is about to drop), and its latch counts those who share it;
- `ResidentAreTracked` (`ResidentIsTracked`) and `PredictionsHold` (`PredictionHolds`);
- `FramesHaveOnePage` (`FrameOwnership`) and `FramesAccounted` (`FrameAccounting`), in every behaviour in which promoteLocked only moves
  the page that is in the slot (`MoverIsInSlot`). The condition is needed: finding 2 shows it to fail, and then a page is copied
  over another one;
- `FramesUndisplaced`: both without the condition, where promotion is off or no two pages hash to one bucket.

`LatchInv` comes first, because all else is a page's record changed by the one who holds it. `FrameInv` then says which frames a thread
has claimed beyond those of the pages that can be reached (`Placed`): the home it promotes to, the frame it moves a page to, the frame
it is about to free. Two threads cannot claim one frame, because a claim is a compare-and-swap on `virtMemPids`; a frame
cannot be freed twice (`FreedOnce`), although FreeClean frees a frame whose page has already left the hash table and may
even have faulted in again: what is freed is `Abandoned` by everyone. `Accounts` adds that a page without a frame has no
address and that one whose frame was freed ahead of its removal (EvictUpgrade) does not own it any more.

Its second part proves, under the same assumptions:

- `UpdatesKept` (`NoLostUpdate`) and `ReadsValid` (`ReadsOwnPage`), in every behaviour with `MoverIsInSlot` in which
  a GuardO whose version is current has the address of its page (`OwnAddress`). This condition is needed, too: finding 1
  is a GuardO with the address of another frame;
- `AddressesOwn`: the second condition holds with `DISABLE_PRED`, and where no GuardO is used;
- `DataSafe`: both properties without conditions, for pools that never displace and use no GuardO together with prediction;
- `TypeCorrect` (`TypeOK`), in every behaviour with `MoverIsInSlot`, and `TypesUndisplaced` without it where nothing displaces. Two
  parts of it are not bookkeeping: what is read through a GuardO is a frame's content (`PointsSomewhere`: its address
  comes from a page that can be reached, and such a page has a frame), and the free list is never taken from when empty.

`DataInv` follows a page's last update through its places: in the frame of a page that can be reached or is held
(`Good`), on the device while the page is absent, faults or is about to be dropped (`OnDisk`), and in both copies while a promotion
switches from one to the other. A step changes only frames of its own thread (`StepContent`), of which no other
page is (`ForeignPlace`), so that the pages of others stay good (`OthersData`). A reader needs no latch: what ends an exclusive hold
takes the version away (`StepFresh`), so that while a version is current its page has neither moved nor changed (`StepAttached`).

`HashTableProofs` proves, for any number of threads and pages and any finite heap (`EntriesAssumption`,
`HeapAssumption`; none of the bounds `MaxVersion` and `MaxWord` is used):

- `OneEntryPerPage` (`NoDuplicates`, the assertion of ht.hpp:100), `HoldersAreFound` (`HeldIsFound`),
  `EntriesAccounted` (`EntryAccounting`) and `LateSwapsAreSafe` (`HitIsOwn`), all from `Invariant`: `Spec => []TableInv`;
- `PageTableImplemented`: the bucket implements `PageTable`.

The chain behind the head is what a recursive definition reaches. Induction over the naturals is available as
a fact about sets (`SetInduction`, from the pigeonhole principle on finite sets), and is needed for one fact: the chain is the least set that
holds the head and that no pointer leaves (`ChainLeast`). What insert and remove do to the chain is then a matter of closed sets (`ChainInsert`, `ChainUnlink`, and
`NoLoops`, without which the entry behind a removed one could be itself). The same idea describes a walk that holds no
lock: while the bucket's version is the one it has seen, there is a set of entries without its page that contains the head and that
only the pointer it stands on leaves (`Passed`); at the end of the chain that set is closed, so the page is `Absent` and
may be inserted. Whoever changes the bucket has locked it, so that no other walk's version is current (`Undisturbed`). For `HitIsOwn`, a word
that was unlocked when it was read can be followed by its locked form and by later versions only, and a page leaves its entry only
under a locked word (`WordHistory`, `Kept`).

`BTreeShape` and `BTreeProofs` prove, for every tree to start with (any number of leaves with any keys), any threads and calls, any
capacities and page bound, and any finite set of keys (`KeysAssumption`, `CapAssumption`, `PlansAssumption`, `TreesAssumption`):

- `TypeCorrect` (`TypeOK`), `LeavesStayChained` (`LeavesChained`) and `ScansAreComplete` (`ScansComplete`), all from
  `Invariance`: `Spec => []Inv`;
- `AnswersAreAtomic` (`AnswersAtomic`) and `TreeIsKeySet` (`ImplementsKeySet`, the refinement of KeySet, with effects and answers);
- `WaitsAreForMerges` (`CyclesMerge`).

A tree has any depth, and what a descent reaches would ask for an induction over it. `Shape(nd, mk, h, at)` describes the tree by
its levels instead: `at[l][k]` is the page that a descent for k is on at level l, for l up to the height h. That the pages, fences, separators
and neighbours fit together is then a statement about each level and the next (`Fences`, `Nested`, `KidsAt`, `Chained`), without
recursion. `BTreeShape` shows of each change of the tree that it leaves a shape, and which: `RootGrows` adds a level, `SplitShape` and
`MergeShape` give the leaves or inner nodes their new pages, and `BuildShape` is for the tree to start with. `LeafOf`, which is a recursive function, is tied to
the shape once: `DescentEnds`, from the leaf upwards, by the induction over the naturals that is available as a fact
about sets (`SetInduction`).

What other threads may rely on is `Effect(nd, mk, nd2, mk2, C, gone, come)`: pages outside C keep their contents, a leaf stays a leaf,
descents that ended outside C still end there, and the keys change by `gone` and `come` (`KeysEffect`, `SplitNodeEffect`,
`SplitRootEffect`, `UnderfullEffect`). A step that changes the pages of C holds them all exclusively, so that no other guard's version of them is
current afterwards; `Spares` says so, and `OthersKeep` concludes once for all steps that what another thread knows stays true.

What it knows (`ThreadInv`) is: what its call looks for (`CallInv`), which latches it has (`OwnInv`), where
the leaf of a scan lies and what the scan has reported (`HeldInv`), that the guards whose versions are current are a step of the descent for its goal (`GuardInv`),
what a remove or an insert has found and locked (`LockInv`), and how the keys in the tree relate to those at some and at all times of the call
(`HistoryInv`). The hard steps are those where
the goal is not the key of the call: `ensureSpace` descends for an inner node, and a scan to the left descends for the lower fence of
the leaf it has left, which may have been split or merged meanwhile.

`CyclesMerge`: without a remove about to merge, whoever holds a leaf exclusively and waits, waits for its parent, and whoever holds a parent
waits for an inner node one level below (`HolderWaits`). The levels are numbers, so one of those who hold parents is lowest, and its
wait is not for another one (`NoParentHeld`); the scans, which hold leaves shared, wait only for pages that are held exclusively.

`BTreeNodeProofs` proves, for any finite or infinite set of byte-string keys, any page and slot sizes, head length, number of hints
and page bound (`LayoutAssumption`, `SearchAssumption`, `PagesAssumption`, `KeysAssumption`, `KeysFit`):

- `LowerBoundIsRight`: on a page whose slots are sorted and whose hints are right, `LowerBound` is the first slot whose key is not less;
- `AlwaysTree` (`Spec => []TreeInv`), from which follow `AlwaysLowerBoundRight` (`LowerBoundRight`) and
  `AlwaysKeysKept` (`KeysKept`);
- `AlwaysBytesCounted`: the two parts of `SpaceAccounting` that say that bytes are counted exactly and that compactify keeps its promise;
- `AlwaysSpaceAccounting` (`SpaceAccounting`), for keys that satisfy `ShortCopies`: its third part, that heap and slots do not
  overlap, needs that condition (see "Noticed while modelling").

The proof has three layers. The first is about byte strings: that `Less` is a total order, that a shared prefix can be
taken away from both sides (`Rest`), that `HeadOf` never contradicts the order, and that `SizeOf` adds up over
concatenation, insertion and removal of slots. What these functions compute by recursion is tied down once each by
`SetInduction`. The second is one page: `PageOK` says that the fences are in order and share the prefix, that slots are sorted between
the fences, that hints are those of the slots and that `used` and `data` count the bytes. Each page operation gives a page
that is `PageOK` again, with its keys known (`Holds`). Truncation makes this more than copying: a half's prefix can only grow
(its fences lie between those of the page), a merged leaf's can only shrink, and a separator, whole or
truncated, divides the slots (`Divides`). The third is the tree, described by a level for each page (negative for pages
that are not in it) rather than by recursion: the children of a page lie one level below and have its separators as their fences
(`Linked`), and pages of one level do not overlap (`Apart`). `SplitStep` and `MergeStep` keep that; `ClimbExists` shows that the split that
the recursion of `trySplit` ends in is of a page on the path whose parent has space, or of the root. The hard case is a
split of an inner page, whose middle separator moves up and leaves no trace in the halves. `Contents` then says that `stored` is what the leaves hold,
and `PathFacts` that a descent ends in the only leaf that may hold its key.

Only model-checked: liveness (`HoldersLetGo`, `TPBSettles`, `RemovesReturn`), which is out of the prover's reach. Every
invariant and every other action property or refinement of a passing run is stated by a theorem.

## 5. Not modelled

- **Memory order below sequential consistency.** The code's relaxed loads are on x86,
  where loads are not reordered with loads; the models interleave.
- **Failing I/O.** The code ignores the results of requests.
- **A pool whose frames are all fixed.** getFreePageHTCache then evicts for ever; the code
  gives no bound on fixed pages.
- **Wrap-around of versions** (56 bits for pages, 63 for buckets).
- **flush and clear** (`buffer_manager.hpp:655-708`): nothing in the repository calls them. clear
  removes pages it does not hold and enqueues `bf.page` after `ht.remove` has cleared it, so that it could only be
  modelled together with a caller that stops all workers.
- **The request blocks of the devices** (striping, submission, polling): pure I/O of one
  thread; its sizes are constants of the caller.
- **The tree on the pool.** BTree takes guards as PageLatch and BufferPool show them to be; the tree on pages that are
  evicted and moved at the same time is beyond TLC.
- **The driver**: it only measures. `yield`, statistics, `ADD_LOCK_DEBUG_INFO`, the masks made from the environment at
  startup, workloads, generators, scripts.

## 6. Plan

Done: PageLatch, its invariants and its refinement proved; BufferPool, its latches,
frames, data and types proved; HashTable and its refinement, proved; TPB, proved; ResidentSet with its clock,
proved; BTree and its refinement, proved; BTreeNode, its searches, contents and space proved; CBP with v3 and v4, proved.

Left, in this order: the driver's last window; a theorem that ties the pages of BTreeNode to the leaves of BTree; request
blocks with a failing device, once the code has a behaviour for it.
