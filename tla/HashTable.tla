------------------------------ MODULE HashTable ------------------------------
(***************************************************************************)
(* One bucket of the buffer manager's hash table (ht.hpp): an inlined head *)
(* entry, a chain of heap entries behind it, a versioned lock, and the     *)
(* free list of entries all buckets share.  Lookups walk the bucket        *)
(* without the lock and check its version after every pointer they follow; *)
(* what they return is an entry and its latch word, which the caller       *)
(* compares and swaps later, when the entry may belong to another page.    *)
(*                                                                         *)
(* Around it, what the buffer manager does with the table: fixX looks a    *)
(* page up and inserts it when it is not there, and eviction removes a     *)
(* page it has locked.  Shared holds are left to PageLatch.                *)
(*                                                                         *)
(* access() would move a chained entry into an empty head with chance 1/8, *)
(* but its condition getRandU64() & 7 == 0 is getRandU64() & (7 == 0),     *)
(* which is never true: the move is dead code and has no action here.      *)
(***************************************************************************)
EXTENDS PageState, FiniteSets

CONSTANTS Threads, Pids,
          Head,       \* the bucket's inlined entry
          Heap,       \* the entries new may make
          Null,       \* a null Entry*
          NoPid,      \* numeric_limits<u64>::max()
          MaxVersion, \* bound: nobody starts to lock the bucket at that version
          MaxWord     \* bound: nobody locks an entry found at that version

Entries == Heap \cup {Head}

ASSUME EntriesAssumption == Head \notin Heap /\ Null \notin Entries /\ NoPid \notin Pids
ASSUME HeapAssumption == IsFiniteSet(Heap)

VARIABLES
  bucket,    \* bucket.lock: [version, locked]
  pidOf,     \* entry.bf.pid
  next,      \* entry.next
  word,      \* entry.bf.state
  freeEntries, \* entryFreeList
  made,      \* the heap entries made so far
  pc, want,  \* where a thread is, and the page it is after
  inserts,   \* whether its walk is insert's or access's
  vBucket,   \* the bucket version of its walk
  cur,       \* the entry it stands on, or holds
  vEntry     \* the latch word access returns

entries == <<pidOf, next, word>>
pool == <<freeEntries, made>>
walk == <<vBucket, cur, vEntry>>
vars == <<bucket, entries, pool, pc, want, inserts, walk>>

Init == /\ bucket = [version |-> 0, locked |-> FALSE]
        /\ pidOf = [e \in Entries |-> NoPid]
        /\ next = [e \in Entries |-> Null]
        /\ word = [e \in Entries |-> InitWord]
        /\ freeEntries = {} /\ made = {}
        /\ pc = [t \in Threads |-> "idle"]
        /\ want = [t \in Threads |-> NoPid]
        /\ inserts = [t \in Threads |-> FALSE]
        /\ vBucket = [t \in Threads |-> 0]
        /\ cur = [t \in Threads |-> Null]
        /\ vEntry = [t \in Threads |-> InitWord]

Goto(t, from, to) == pc[t] = from /\ pc' = [pc EXCEPT ![t] = to]

\* What a walk remembers is reset when it ends: at an entry the thread holds, or
\* at none to start over.
EndWalk(t, e) == /\ vBucket' = [vBucket EXCEPT ![t] = 0]
                 /\ vEntry' = [vEntry EXCEPT ![t] = InitWord]
                 /\ cur' = [cur EXCEPT ![t] = e]
Restart(t, from) == Goto(t, from, "load") /\ EndWalk(t, Null)
Done(t) == want' = [want EXCEPT ![t] = NoPid] /\ EndWalk(t, Null)

\* The chain, by the number of pointers to follow from the head.
Within[n \in Nat] == IF n = 0 THEN {Head}
                     ELSE Within[n - 1] \cup ({next[e] : e \in Within[n - 1]} \ {Null})
Chain == Within[Cardinality(Heap)]

-----------------------------------------------------------------------------
(* VersionedLock *)

Unchanged(t) == bucket = [version |-> vBucket[t], locked |-> FALSE]

\* Variant: the lock bit alone decides, whatever happened since the walk.
SwapBucketAny(t) == ~bucket.locked /\ bucket' = [bucket EXCEPT !.locked = TRUE]
\* tryLock(v) of a version that was unlocked
SwapBucket(t) == Unchanged(t) /\ bucket' = [bucket EXCEPT !.locked = TRUE]

UnlockBucket == bucket' = [version |-> bucket.version + 1, locked |-> FALSE]

-----------------------------------------------------------------------------
(* The walk that access and insert share. *)

\* fixX, tryPromote or evict ask for a page.
Call(t, p) == /\ Goto(t, "idle", "load")
              /\ want' = [want EXCEPT ![t] = p]
              /\ UNCHANGED <<bucket, entries, pool, inserts, walk>>

\* A locked bucket makes the thread yield and load again.
LoadBucket(t) == /\ Goto(t, "load", "compare") /\ ~bucket.locked
                 /\ vBucket' = [vBucket EXCEPT ![t] = bucket.version]
                 /\ cur' = [cur EXCEPT ![t] = Head]
                 /\ UNCHANGED <<bucket, entries, pool, want, inserts, vEntry>>

Found(t) == pidOf[cur[t]] = want[t]

ComparePid(t) ==
  /\ \/ Goto(t, "compare", "loadWord") /\ Found(t) /\ ~inserts[t]
     \/ Goto(t, "compare", "present") /\ Found(t) /\ inserts[t]
     \/ Goto(t, "compare", "follow") /\ ~Found(t)
  /\ UNCHANGED <<bucket, entries, pool, want, inserts, walk>>

Follow(t) == /\ Goto(t, "follow", "checkNext")
             /\ cur' = [cur EXCEPT ![t] = next[cur[t]]]
             /\ UNCHANGED <<bucket, entries, pool, want, inserts, vBucket, vEntry>>

\* Variant: the pointer is trusted without a look at the version.
FollowedBlindly(t) == TRUE
Followed(t) == Unchanged(t)

CheckNext(t) ==
  /\ \/ ~Followed(t) /\ Restart(t, "checkNext")
     \/ /\ Followed(t) /\ UNCHANGED walk
        /\ \/ cur[t] # Null /\ Goto(t, "checkNext", "compare")
           \/ cur[t] = Null /\ ~inserts[t] /\ Goto(t, "checkNext", "miss")
           \/ cur[t] = Null /\ inserts[t] /\ Goto(t, "checkNext", "lockBucket")
  /\ UNCHANGED <<bucket, entries, pool, want, inserts>>

-----------------------------------------------------------------------------
(* access: the entry and its word, validated together. *)

LoadWord(t) == /\ Goto(t, "loadWord", "checkWord")
               /\ vEntry' = [vEntry EXCEPT ![t] = word[cur[t]]]
               /\ UNCHANGED <<bucket, entries, pool, want, inserts, vBucket, cur>>

CheckWord(t) ==
  /\ \/ Unchanged(t) /\ Goto(t, "checkWord", "hit") /\ UNCHANGED walk
     \/ ~Unchanged(t) /\ Restart(t, "checkWord")
  /\ UNCHANGED <<bucket, entries, pool, want, inserts>>

\* fixX: lock the entry with the word, or look the page up again.
StillAsFound(t) == LockableX(vEntry[t]) /\ word[cur[t]] = vEntry[t]

LockEntry(t) ==
  /\ vEntry[t].version < MaxWord
  /\ \/ /\ Goto(t, "hit", "holding") /\ StillAsFound(t)
        /\ word' = [word EXCEPT ![cur[t]] = SameVersion(@, Locked)]
        /\ EndWalk(t, cur[t])
     \/ /\ Restart(t, "hit") /\ ~StillAsFound(t)
        /\ UNCHANGED word
  /\ UNCHANGED <<bucket, pidOf, next, pool, want, inserts>>

\* Callers that only look (tryPromote, evict) drop what they found or missed.
Drop(t) == /\ Goto(t, "hit", "idle") \/ Goto(t, "miss", "idle")
           /\ Done(t)
           /\ UNCHANGED <<bucket, entries, pool, inserts>>

\* handleFault: insert a page that access did not find.
Fault(t) == /\ Restart(t, "miss")
            /\ bucket.version < MaxVersion
            /\ inserts' = [inserts EXCEPT ![t] = TRUE]
            /\ UNCHANGED <<bucket, entries, pool, want>>

-----------------------------------------------------------------------------
(* insert: returns nullptr for a page that is there, else a locked entry. *)

CheckPresent(t) ==
  /\ \/ Unchanged(t) /\ Goto(t, "present", "refused") /\ UNCHANGED walk
     \/ ~Unchanged(t) /\ Restart(t, "present")
  /\ UNCHANGED <<bucket, entries, pool, want, inserts>>

\* handleFault returns nullptr, and fixX starts over with access.
Refused(t) == /\ Restart(t, "refused")
              /\ inserts' = [inserts EXCEPT ![t] = FALSE]
              /\ UNCHANGED <<bucket, entries, pool, want>>

LockBucket(t) ==
  /\ \/ SwapBucket(t) /\ Goto(t, "lockBucket", "insert") /\ UNCHANGED walk
     \/ ~Unchanged(t) /\ Restart(t, "lockBucket") /\ UNCHANGED bucket
  /\ UNCHANGED <<entries, pool, want, inserts>>

InsertAtHead(t) ==
  /\ Goto(t, "insert", "lockNew") /\ pidOf[Head] = NoPid
  /\ pidOf' = [pidOf EXCEPT ![Head] = want[t]]
  /\ cur' = [cur EXCEPT ![t] = Head]
  /\ UNCHANGED <<bucket, next, word, pool, want, inserts, vBucket, vEntry>>

\* An entry of the free list, or a new one: try_dequeue may come back empty-handed
\* from a queue that is not empty.
TakeEntry(t) ==
  /\ Goto(t, "insert", "fill") /\ pidOf[Head] # NoPid
  /\ \E e \in freeEntries \cup (Heap \ made) :
       /\ freeEntries' = freeEntries \ {e} /\ made' = made \cup {e}
       /\ pidOf' = [pidOf EXCEPT ![e] = want[t]]
       /\ cur' = [cur EXCEPT ![t] = e]
  /\ UNCHANGED <<bucket, next, word, want, inserts, vBucket, vEntry>>

\* Variant: the rest of the chain is forgotten.
FillNothing(t) == /\ Goto(t, "fill", "link")
                  /\ UNCHANGED <<bucket, entries, pool, want, inserts, walk>>
Fill(t) == /\ Goto(t, "fill", "link")
           /\ next' = [next EXCEPT ![cur[t]] = next[Head]]
           /\ UNCHANGED <<bucket, pidOf, word, pool, want, inserts, walk>>

Link(t) == /\ Goto(t, "link", "lockNew")
           /\ next' = [next EXCEPT ![Head] = cur[t]]
           /\ UNCHANGED <<bucket, pidOf, word, pool, want, inserts, walk>>

LockNew(t) == /\ Goto(t, "lockNew", "inserted")
              /\ word' = [word EXCEPT ![cur[t]] = SameVersion(@, Locked)]
              /\ UNCHANGED <<bucket, pidOf, next, pool, want, inserts, walk>>

UnlockInserted(t) == /\ Goto(t, "inserted", "holding")
                     /\ UnlockBucket
                     /\ inserts' = [inserts EXCEPT ![t] = FALSE]
                     /\ EndWalk(t, cur[t])
                     /\ UNCHANGED <<entries, pool, want>>

-----------------------------------------------------------------------------
(* The holder of an entry unlocks it (unlockX) or removes its page. *)

Release(t) == /\ Goto(t, "holding", "idle")
              /\ word' = [word EXCEPT ![cur[t]] = NextVersion(@, Unlocked)]
              /\ Done(t)
              /\ UNCHANGED <<bucket, pidOf, next, pool, inserts>>

Evict(t) == /\ Goto(t, "holding", "removing")
            /\ bucket.version < MaxVersion
            /\ UNCHANGED <<bucket, entries, pool, want, inserts, walk>>

\* remove: a locked bucket, and a failed tryLock, make it try again.
LockToRemove(t) == /\ Goto(t, "removing", "find")
                   /\ ~bucket.locked /\ bucket' = [bucket EXCEPT !.locked = TRUE]
                   /\ UNCHANGED <<entries, pool, want, inserts, walk>>

\* The page is in the head: the head stays, empty.
FindAtHead(t) == /\ Goto(t, "find", "emptyHead") /\ pidOf[Head] = want[t]
                 /\ pidOf' = [pidOf EXCEPT ![Head] = NoPid]
                 /\ cur' = [cur EXCEPT ![t] = Head]
                 /\ UNCHANGED <<bucket, next, word, pool, want, inserts, vBucket, vEntry>>

InvalidateHead(t) == /\ Goto(t, "emptyHead", "emptied")
                     /\ word' = [word EXCEPT ![Head] = NextVersion(@, Invalid)]
                     /\ UNCHANGED <<bucket, pidOf, next, pool, want, inserts, walk>>

UnlockEmptied(t) == /\ Goto(t, "emptied", "idle")
                    /\ UnlockBucket
                    /\ Done(t)
                    /\ UNCHANGED <<entries, pool, inserts>>

\* The page is in the chain.  (That it is nowhere, when remove returns false,
\* cannot happen to a page whose entry is locked: HeldIsFound.)
FindInChain(t) ==
  /\ Goto(t, "find", "unlink") /\ pidOf[Head] # want[t]
  /\ \E e \in Chain \ {Head} :
       /\ pidOf[e] = want[t]
       /\ pidOf' = [pidOf EXCEPT ![e] = NoPid]
       /\ cur' = [cur EXCEPT ![t] = e]
  /\ UNCHANGED <<bucket, next, word, pool, want, inserts, vBucket, vEntry>>

\* Variant: the entry stays in the chain.
UnlinkNothing(t) == /\ Goto(t, "unlink", "unlinked")
                    /\ UNCHANGED <<bucket, entries, pool, want, inserts, walk>>
Unlink(t) == /\ Goto(t, "unlink", "unlinked")
             /\ next' = [e \in Entries |-> IF e \in Chain /\ next[e] = cur[t]
                                           THEN next[cur[t]] ELSE next[e]]
             /\ UNCHANGED <<bucket, pidOf, word, pool, want, inserts, walk>>

UnlockUnlinked(t) == /\ Goto(t, "unlinked", "invalidate")
                     /\ UnlockBucket
                     /\ UNCHANGED <<entries, pool, want, inserts, walk>>

\* Variant: the word of a removed entry keeps its version.
InvalidateSameVersion(t) == /\ Goto(t, "invalidate", "recycle")
                            /\ word' = [word EXCEPT ![cur[t]] = InitWord]
                            /\ UNCHANGED <<bucket, pidOf, next, pool, want, inserts, walk>>
Invalidate(t) == /\ Goto(t, "invalidate", "recycle")
                 /\ word' = [word EXCEPT ![cur[t]] = NextVersion(@, Invalid)]
                 /\ UNCHANGED <<bucket, pidOf, next, pool, want, inserts, walk>>

Recycle(t) == /\ Goto(t, "recycle", "idle")
              /\ freeEntries' = freeEntries \cup {cur[t]}
              /\ Done(t)
              /\ UNCHANGED <<bucket, entries, made, inserts>>

-----------------------------------------------------------------------------
Step(t) ==
  \/ \E p \in Pids : Call(t, p)
  \/ LoadBucket(t) \/ ComparePid(t) \/ Follow(t) \/ CheckNext(t)
  \/ LoadWord(t) \/ CheckWord(t) \/ LockEntry(t) \/ Drop(t) \/ Fault(t)
  \/ CheckPresent(t) \/ Refused(t) \/ LockBucket(t)
  \/ InsertAtHead(t) \/ TakeEntry(t) \/ Fill(t) \/ Link(t) \/ LockNew(t)
  \/ UnlockInserted(t) \/ Release(t) \/ Evict(t) \/ LockToRemove(t)
  \/ FindAtHead(t) \/ InvalidateHead(t) \/ UnlockEmptied(t)
  \/ FindInChain(t) \/ Unlink(t) \/ UnlockUnlinked(t) \/ Invalidate(t) \/ Recycle(t)

Next == \E t \in Threads : Step(t)

Spec == Init /\ [][Next]_vars

(* Every thread keeps running, and keeps using the table. *)
FairSpec == Spec /\ \A t \in Threads : WF_vars(Step(t))

-----------------------------------------------------------------------------
InTable(p) == {e \in Chain : pidOf[e] = p}
At(places) == {t \in Threads : pc[t] \in places}

(* A page has one entry (the assertion of ht.hpp:100), although two threads may
   fault on it at once. *)
NoDuplicates == \A p \in Pids : Cardinality(InTable(p)) <= 1

(* The page of a thread that holds an entry is found in that entry, so that
   remove removes what its caller has locked and never returns false. *)
HeldIsFound ==
  \A t \in At({"holding", "removing", "find"}) : InTable(want[t]) = {cur[t]}

(* A heap entry that was made is in the chain, or on the free list, or in the
   hands of the one thread that is inserting or removing it. *)
InHands(e) == {t \in At({"fill", "link", "unlinked", "invalidate", "recycle"}) : cur[t] = e}
EntryAccounting ==
  \A e \in made :
    Cardinality(InHands(e)) + (IF e \in Chain THEN 1 ELSE 0)
      + (IF e \in freeEntries THEN 1 ELSE 0) = 1

(* Whoever comes back with the word that access returned, however late, and
   finds it unchanged, finds the page it asked for: the entry may have been
   removed and recycled in between, but then its word is another one. *)
HitIsOwn ==
  \A t \in At({"hit"}) :
    StillAsFound(t) => pidOf[cur[t]] = want[t]

(* The bucket is a set of pages with atomic operations: what a thread is told
   was true at the instant it was told. *)
Answer(t) == IF pc[t] \in {"hit", "miss", "refused"} THEN pc[t] ELSE "none"
Table == INSTANCE PageTable WITH
  resident <- {p \in Pids : InTable(p) # {}},
  asked <- want,
  answer <- [t \in Threads |-> Answer(t)]
ImplementsPageTable == Table!Spec

(* What the comments of access and remove say of an empty head: lookups that keep
   finding chained entries fill it in the end. *)
HeadIsSkipped == pidOf[Head] = NoPid /\ next[Head] # Null
ChainIsUsed == \E t \in Threads : pc[t] = "hit" /\ cur[t] # Head
FillsHead == []<>ChainIsUsed => []<>~HeadIsSkipped
=============================================================================
