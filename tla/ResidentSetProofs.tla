-------------------------- MODULE ResidentSetProofs --------------------------
(* The probes of ResidentSet find what they look for and its clock is even,    *)
(* for every number of slots, pages and threads and every hash.                *)
EXTENDS ResidentSet, TLAPS

\* The slot after a slot is a slot (page.hpp: pos = (pos + 1) & mask).
LEMMA SuccType == ASSUME NEW s \in Slots PROVE Succ(s) \in Slots
  BY CountAssumption DEF Slots, Succ

\* A probe is where it starts.
LEMMA ReachesStart == ASSUME NEW r \in Slots PROVE Reaches(r, r)
  BY DEF Reaches

\* A probe passes a slot that is not empty.
LEMMA ReachesNext ==
  ASSUME NEW r \in Slots, NEW s \in Slots, Reaches(r, s), ht[s] # Empty
  PROVE Reaches(r, Succ(s))
  BY DEF Reaches, Closed

\* A probe that has not found its slot yet finds it later on.
LEMMA ReachesPast ==
  ASSUME NEW r \in Slots, NEW s \in Slots, Reaches(r, s), s # r
  PROVE Reaches(Succ(r), s)
<1>1. SUFFICES ASSUME NEW S \in SUBSET Slots, Succ(r) \in S, Closed(S)
               PROVE s \in S
  BY DEF Reaches
<1>2. r \in S \cup {r} /\ S \cup {r} \in SUBSET Slots /\ Closed(S \cup {r})
  BY <1>1 DEF Closed
<1>3. QED
  BY <1>2 DEF Reaches

\* A probe ends at an empty slot.
LEMMA ReachesNoFurther ==
  ASSUME NEW r \in Slots, NEW s \in Slots, Reaches(r, s), ht[r] = Empty
  PROVE s = r
<1>1. r \in {r} /\ {r} \in SUBSET Slots /\ Closed({r})
  BY DEF Closed
<1>2. QED
  BY <1>1 DEF Reaches

\* No slot becomes empty again, so that what a probe reached it reaches for ever.
LEMMA ReachesKept ==
  ASSUME NEW r \in Slots, NEW s \in Slots, Reaches(r, s),
         \A x \in Slots : ht[x] # Empty => ht'[x] # Empty
  PROVE Reaches(r, s)'
<1>1. SUFFICES ASSUME NEW S \in SUBSET Slots, r \in S, Closed(S)'
               PROVE s \in S
  BY DEF Reaches, Slots
<1>2. Closed(S)
  BY <1>1 DEF Closed, Succ
<1>3. QED
  BY <1>1, <1>2 DEF Reaches

-------------------------------------------------------------------------------
(* What a step of thread t leaves true. *)

USE CountAssumption, HashAssumption, MarksAssumption

\* Working, for one thread.
Knows(t) == /\ pc[t] \in {"insert", "claim"} => Inserting(t)
            /\ pc[t] \in {"remove", "clear"} => Removing(t)
            /\ pc[t] \in {"inserted", "removed"} => pid[t] \in Pids

\* A thread's compare-and-swap changes one slot, which held no other page than its own.
Swaps(t) == \E c \in Slots, v \in {pid[t], Tombstone} :
              /\ ht' = [ht EXCEPT ![c] = v]
              /\ ht[c] \in {Empty, Tombstone, pid[t]}

\* After a swap every page that was found from its hash still is.
LEMMA SwapKeepsReach ==
  ASSUME TypeOK, NEW t \in Threads, pid[t] \in Pids, Swaps(t),
         NEW r \in Slots, NEW s \in Slots, Reaches(r, s)
  PROVE Reaches(r, s)'
<1>1. \A x \in Slots : ht[x] # Empty => ht'[x] # Empty
  BY DEF Swaps, TypeOK
<1>2. QED
  BY <1>1, ReachesKept

\* A swap disturbs nothing that another thread knows.
LEMMA SwapKeepsOthers ==
  ASSUME IInv, NEW t \in Threads, pid[t] \in Pids, Swaps(t),
         NEW u \in Threads, u # t,
         pc'[u] = pc[u], pid'[u] = pid[u], pos'[u] = pos[u], curr'[u] = curr[u]
  PROVE Knows(u)'
<1> PICK c \in Slots, v \in {pid[t], Tombstone} : /\ ht' = [ht EXCEPT ![c] = v]
                                                 /\ ht[c] \in {Empty, Tombstone, pid[t]}
  BY DEF Swaps
<1> TypeOK /\ Knows(u)
  BY DEF IInv, Working, Knows
<1>1. pid[u] \in Pids => pid[u] # pid[t]
  BY DEF IInv, Exclusive
<1>2. ASSUME pc[u] \in {"insert", "claim"} PROVE Inserting(u)'
  <2>1. pid[u] \in Pids \ Members /\ Reaches(Hash[pid[u]], pos[u])
    BY <1>2 DEF Knows, Inserting
  <2>2. pid[u] \notin Members'
    BY <2>1, <1>1 DEF Members, TypeOK
  <2>3. Reaches(Hash[pid[u]], pos[u])'
    <3>1. Hash[pid[u]] \in Slots /\ pos[u] \in Slots
      BY <2>1 DEF TypeOK
    <3>2. Reaches(Hash[pid[u]], pos[u])' <=> \A S \in SUBSET Slots : Hash[pid[u]] \in S /\ Closed(S)' => pos[u] \in S
      BY DEF Reaches, Slots
    <3>3. \A x \in Slots : ht[x] # Empty => ht'[x] # Empty
      BY DEF TypeOK
    <3>4. \A S \in SUBSET Slots : Closed(S)' => Closed(S)
      BY <3>3 DEF Closed, Succ
    <3> QED
      BY <3>2, <3>4, <2>1 DEF Reaches
  <2>4. pc[u] = "claim" => curr[u] \in {Empty, Tombstone} /\ (ht'[pos[u]] = Empty => curr[u] = Empty)
    BY <1>2 DEF Knows, Inserting, TypeOK
  <2> QED
    BY <1>2, <2>1, <2>2, <2>3, <2>4 DEF Inserting, Knows
<1>3. ASSUME pc[u] \in {"remove", "clear"} PROVE Removing(u)'
  <2>1. pid[u] \in Pids /\ pid[u] # pid[t]
    BY <1>1, <1>3 DEF Knows, Removing
  <2>2. PICK s \in Slots : ht[s] = pid[u] /\ Reaches(pos[u], s)
    BY <1>3 DEF Knows, Removing
  <2>3. ht'[s] = pid[u]
    BY <2>1, <2>2 DEF TypeOK
  <2>4. \A x \in Slots : ht[x] # Empty => ht'[x] # Empty
    BY DEF TypeOK
  <2>5. \A S \in SUBSET Slots : Closed(S)' => Closed(S)
    BY <2>4 DEF Closed, Succ
  <2>6. Reaches(pos[u], s)'
    BY <2>2, <2>5 DEF Reaches, Slots
  <2>7. pc[u] = "clear" => ht'[pos[u]] = pid[u] /\ curr[u] = pid[u]
    BY <1>3, <2>1 DEF Knows, Removing, TypeOK
  <2> QED
    BY <2>1, <2>2, <2>3, <2>6, <2>7 DEF Removing, Slots
<1>4. QED
  BY <1>2, <1>3 DEF Knows

\* Nor does a step that changes no slot.
LEMMA ProbeKeepsOthers ==
  ASSUME NEW u \in Threads, Knows(u), ht' = ht,
         pc'[u] = pc[u], pid'[u] = pid[u], pos'[u] = pos[u], curr'[u] = curr[u]
  PROVE Knows(u)'
  BY DEF Knows, Inserting, Removing, Members, Reaches, Closed, Succ, Slots

\* A step of thread t that changes no slot.
LEMMA ProbeStep ==
  ASSUME IInv, RemovesFind, TypeOK', ht' = ht, NEW t \in Threads,
         \A u \in Threads \ {t} : /\ pc'[u] = pc[u] /\ pid'[u] = pid[u]
                                  /\ pos'[u] = pos[u] /\ curr'[u] = curr[u],
         pid'[t] \in Pids => pid'[t] = pid[t] \/ Free(pid'[t]),
         Knows(t)', pc'[t] # "failed"
  PROVE IInv' /\ RemovesFind'
<1>1. Unique'
  BY DEF IInv, Unique, Slots
<1>2. Exclusive'
  BY DEF IInv, Exclusive, Free
<1>3. FoundFromHash'
  BY DEF IInv, FoundFromHash, Reaches, Closed, Succ, Slots
<1>4. Working'
  <2>1. \A u \in Threads : Knows(u)'
    BY ProbeKeepsOthers DEF IInv, Working, Knows
  <2> QED
    BY <2>1 DEF Working, Knows
<1> QED
  BY <1>1, <1>2, <1>3, <1>4 DEF IInv, RemovesFind

\* A compare-and-swap of thread t.
LEMMA SwapStep ==
  ASSUME IInv, RemovesFind, TypeOK', NEW t \in Threads, pid[t] \in Pids, Swaps(t),
         Unique', FoundFromHash', pid' = pid,
         \A u \in Threads \ {t} : pc'[u] = pc[u] /\ pos'[u] = pos[u] /\ curr'[u] = curr[u],
         Knows(t)', pc'[t] # "failed"
  PROVE IInv' /\ RemovesFind'
<1>1. Exclusive'
  BY DEF IInv, Exclusive
<1>2. Working'
  <2>1. \A u \in Threads : Knows(u)'
    BY SwapKeepsOthers
  <2> QED
    BY <2>1 DEF Working, Knows
<1> QED
  BY <1>1, <1>2 DEF IInv, RemovesFind

-------------------------------------------------------------------------------
(* The actions. *)

LEMMA InsertStartInv ==
  ASSUME IInv, RemovesFind, NEW t \in Threads, NEW p \in Pids, InsertStart(t, p)
  PROVE IInv' /\ RemovesFind'
<1>1. TypeOK'
  BY DEF IInv, TypeOK, clock, InsertStart, Goto, Phases, Marks, Slots
<1>2. Hash[p] \in Slots /\ pc'[t] = "insert" /\ pid'[t] = p /\ pos'[t] = Hash[p] /\ ht' = ht
  BY DEF IInv, TypeOK, clock, InsertStart, Goto
<1>3. Inserting(t)'
  <2>1. Reaches(Hash[p], Hash[p])
    BY <1>2, ReachesStart
  <2>2. Reaches(Hash[pid[t]], pos[t])'
    BY <1>2, <2>1 DEF Reaches, Closed, Succ, Slots
  <2> QED
    BY <1>2, <2>2 DEF Inserting, InsertStart, Members, Slots
<1>4. Knows(t)'
  BY <1>2, <1>3 DEF Knows
<1> QED
  BY <1>1, <1>2, <1>4, ProbeStep DEF InsertStart, Goto, IInv, TypeOK

LEMMA InsertLoadInv ==
  ASSUME IInv, RemovesFind, NEW t \in Threads, InsertLoad(t)
  PROVE IInv' /\ RemovesFind'
<1>0. TypeOK /\ ht' = ht /\ pid' = pid /\ Inserting(t) /\ pos[t] \in Slots /\ Succ(pos[t]) \in Slots
  BY SuccType DEF IInv, TypeOK, clock, InsertLoad, Goto, Working
<1>1. TypeOK'
  BY <1>0 DEF TypeOK, clock, InsertLoad, Goto, Forward, Phases
<1>2. Inserting(t)'
  <2>1. ht[pos[t]] \in Pids => Reaches(Hash[pid[t]], Succ(pos[t]))
    BY <1>0, ReachesNext DEF Inserting
  <2>2. Reaches(Hash[pid[t]], pos'[t])
    BY <1>0, <2>1 DEF Inserting, InsertLoad, Forward, TypeOK
  <2>3. Reaches(Hash[pid[t]], pos[t])'
    BY <1>0, <2>2 DEF Reaches, Closed, Succ, Slots
  <2> QED
    BY <1>0, <2>3 DEF Inserting, InsertLoad, Goto, TypeOK, Members, Slots
<1>3. Knows(t)' /\ pc'[t] # "failed"
  BY <1>0, <1>2 DEF Knows, InsertLoad, Goto, TypeOK
<1> QED
  BY <1>0, <1>1, <1>3, ProbeStep DEF InsertLoad, Goto, Forward, TypeOK

LEMMA InsertClaimInv ==
  ASSUME IInv, RemovesFind, NEW t \in Threads, InsertClaim(t)
  PROVE IInv' /\ RemovesFind'
<1>0. /\ TypeOK /\ pid' = pid /\ Inserting(t) /\ pid[t] \in Pids
      /\ pos[t] \in Slots /\ Succ(pos[t]) \in Slots /\ curr[t] \in {Empty, Tombstone}
  BY SuccType DEF IInv, TypeOK, clock, InsertClaim, Goto, Working, Inserting
<1>1. CASE ht[pos[t]] = curr[t]
  <2>1. TypeOK'
    BY <1>0, <1>1 DEF TypeOK, clock, InsertClaim, Goto, Phases, Marks
  <2>2. ht' = [ht EXCEPT ![pos[t]] = pid[t]] /\ pc'[t] = "inserted" /\ Swaps(t)
    BY <1>0, <1>1 DEF TypeOK, clock, InsertClaim, Goto, Swaps
  <2>3. Unique'
    BY <1>0, <2>2 DEF IInv, Unique, TypeOK, Inserting, Members, Slots
  <2>4. FoundFromHash'
    <3>1. \A s \in Slots : ht'[s] \in Pids => Reaches(Hash[ht'[s]], s)
      BY <1>0, <2>2 DEF IInv, FoundFromHash, TypeOK, Inserting
    <3>2. \A s \in Slots : ht'[s] \in Pids => Hash[ht'[s]] \in Slots
      OBVIOUS
    <3>3. \A x \in Slots : ht[x] # Empty => ht'[x] # Empty
      BY <1>0, <2>2 DEF TypeOK
    <3>4. \A S \in SUBSET Slots : Closed(S)' => Closed(S)
      BY <3>3 DEF Closed, Succ
    <3> QED
      BY <3>1, <3>4 DEF FoundFromHash, Reaches, Slots
  <2>5. Knows(t)'
    BY <1>0, <2>2 DEF Knows
  <2> QED
    BY <1>0, <2>1, <2>2, <2>3, <2>4, <2>5, SwapStep DEF InsertClaim, Goto, TypeOK
<1>2. CASE ht[pos[t]] # curr[t]
  <2>1. TypeOK'
    BY <1>0, <1>2 DEF TypeOK, clock, InsertClaim, Goto, Forward, Phases
  <2>2. ht' = ht /\ pc'[t] = "insert" /\ pos'[t] = Succ(pos[t])
    BY <1>0, <1>2 DEF TypeOK, clock, InsertClaim, Goto, Forward
  <2>3. Inserting(t)'
    <3>1. ht[pos[t]] # Empty
      BY <1>0, <1>2 DEF Inserting, InsertClaim, Goto
    <3>2. Reaches(Hash[pid[t]], Succ(pos[t]))
      BY <1>0, <3>1, ReachesNext DEF Inserting
    <3>3. Reaches(Hash[pid[t]], pos[t])'
      BY <1>0, <2>2, <3>2 DEF Reaches, Closed, Succ, Slots
    <3> QED
      BY <1>0, <2>2, <3>3 DEF Inserting, Members, Slots
  <2>4. Knows(t)'
    BY <2>2, <2>3 DEF Knows
  <2> QED
    BY <1>0, <2>1, <2>2, <2>4, ProbeStep DEF InsertClaim, Goto, Forward, TypeOK
<1> QED
  BY <1>1, <1>2

LEMMA InsertedInv ==
  ASSUME IInv, RemovesFind, NEW t \in Threads, Inserted(t)
  PROVE IInv' /\ RemovesFind'
<1>1. TypeOK'
  BY DEF IInv, TypeOK, clock, Inserted, Returned, Phases, Marks, Slots
<1>2. /\ ht' = ht /\ pid'[t] = Empty /\ pc'[t] \in {"visit", "idle"}
      /\ \A u \in Threads \ {t} : /\ pc'[u] = pc[u] /\ pid'[u] = pid[u]
                                  /\ pos'[u] = pos[u] /\ curr'[u] = curr[u]
  BY DEF IInv, TypeOK, clock, Inserted, Returned
<1> QED
  BY <1>1, <1>2, ProbeStep DEF Knows

LEMMA RemoveStartInv ==
  ASSUME IInv, RemovesFind, NEW t \in Threads, NEW p \in Pids, RemoveStart(t, p)
  PROVE IInv' /\ RemovesFind'
<1>0. TypeOK /\ ht' = ht
  BY DEF IInv, RemoveStart
<1>1. TypeOK'
  BY <1>0 DEF TypeOK, clock, RemoveStart, Goto, Phases, Slots
<1>2. Hash[p] \in Slots /\ pc'[t] = "remove" /\ pid'[t] = p /\ pos'[t] = Hash[p]
  BY <1>0 DEF TypeOK, clock, RemoveStart, Goto
<1>3. Removing(t)'
  <2>1. PICK s \in Slots : ht[s] = p
    BY DEF RemoveStart, Members
  <2>2. Reaches(Hash[p], s)
    BY <2>1 DEF IInv, FoundFromHash
  <2>3. Reaches(Hash[p], s)'
    BY <1>0, <2>2 DEF Reaches, Closed, Succ, Slots
  <2> QED
    BY <1>0, <1>2, <2>1, <2>3 DEF Removing, Slots
<1>4. Knows(t)'
  BY <1>2, <1>3 DEF Knows
<1> QED
  BY <1>0, <1>1, <1>2, <1>4, ProbeStep DEF RemoveStart, Goto, TypeOK

LEMMA RemoveLoadInv ==
  ASSUME IInv, RemovesFind, NEW t \in Threads, RemoveLoad(t)
  PROVE IInv' /\ RemovesFind'
<1>0. TypeOK /\ ht' = ht /\ pid' = pid /\ Removing(t) /\ pos[t] \in Slots /\ Succ(pos[t]) \in Slots
  BY SuccType DEF IInv, TypeOK, clock, RemoveLoad, Goto, Working
<1>1. TypeOK'
  BY <1>0 DEF TypeOK, clock, RemoveLoad, Goto, Forward, Phases
<1>2. PICK s \in Slots : ht[s] = pid[t] /\ Reaches(pos[t], s)
  BY <1>0 DEF Removing
<1>3. CASE ht[pos[t]] = pid[t]
  <2>1. pc'[t] = "clear" /\ pos'[t] = pos[t] /\ curr'[t] = pid[t] /\ pid[t] \in Pids
    BY <1>0, <1>3 DEF TypeOK, clock, RemoveLoad, Goto, Removing
  <2>2. Reaches(pos[t], s)'
    BY <1>0, <1>2, <2>1 DEF Reaches, Closed, Succ, Slots
  <2>3. Removing(t)' /\ Knows(t)'
    BY <1>0, <1>2, <1>3, <2>1, <2>2 DEF Removing, Knows, Slots
  <2> QED
    BY <1>0, <1>1, <2>1, <2>3, ProbeStep DEF RemoveLoad, Goto, TypeOK
<1>4. CASE ht[pos[t]] # pid[t]
  <2>1. s # pos[t]
    BY <1>2, <1>4
  <2>2. ht[pos[t]] # Empty
    BY <1>0, <1>2, <2>1, ReachesNoFurther
  <2>3. Reaches(Succ(pos[t]), s)
    BY <1>0, <1>2, <2>1, ReachesPast
  <2>4. pc'[t] = "remove" /\ pos'[t] = Succ(pos[t])
    BY <1>0, <1>4, <2>2 DEF TypeOK, clock, RemoveLoad, Goto, Forward
  <2>5. Reaches(pos[t], s)'
    BY <1>0, <2>3, <2>4 DEF Reaches, Closed, Succ, Slots
  <2>6. Removing(t)' /\ Knows(t)'
    BY <1>0, <1>2, <2>4, <2>5 DEF Removing, Knows, Slots
  <2> QED
    BY <1>0, <1>1, <1>4, <2>4, <2>6, ProbeStep DEF RemoveLoad, Goto, Forward, TypeOK
<1> QED
  BY <1>3, <1>4

LEMMA ClearInv ==
  ASSUME IInv, RemovesFind, NEW t \in Threads, Clear(t)
  PROVE IInv' /\ RemovesFind'
<1>0. TypeOK /\ pid' = pid /\ pid[t] \in Pids /\ pos[t] \in Slots /\ ht[pos[t]] = curr[t] /\ curr[t] = pid[t]
  BY DEF IInv, TypeOK, clock, Clear, Goto, Working, Removing
<1>1. /\ ht' = [ht EXCEPT ![pos[t]] = Tombstone] /\ pos' = pos /\ curr' = curr
      /\ pc' = [pc EXCEPT ![t] = "removed"]
  BY <1>0 DEF Clear, Goto
<1>2. TypeOK'
  BY <1>0, <1>1 DEF TypeOK, Clear, clock, Phases, Marks
<1>3. Swaps(t)
  BY <1>0, <1>1 DEF Swaps
<1>4. Unique'
  BY <1>0, <1>1 DEF IInv, Unique, TypeOK, Slots
<1>5. FoundFromHash'
  <2>1. \A s \in Slots : ht'[s] \in Pids => Reaches(Hash[ht'[s]], s)
    BY <1>0, <1>1 DEF IInv, FoundFromHash, TypeOK
  <2>2. \A x \in Slots : ht[x] # Empty => ht'[x] # Empty
    BY <1>0, <1>1 DEF TypeOK
  <2>3. \A S \in SUBSET Slots : Closed(S)' => Closed(S)
    BY <2>2 DEF Closed, Succ
  <2> QED
    BY <2>1, <2>3 DEF FoundFromHash, Reaches, Slots
<1>6. Knows(t)' /\ pc'[t] # "failed"
  BY <1>0, <1>1 DEF Knows, TypeOK
<1>7. \A u \in Threads \ {t} : pc'[u] = pc[u] /\ pos'[u] = pos[u] /\ curr'[u] = curr[u]
  BY <1>0, <1>1 DEF TypeOK
<1> QED
  BY <1>0, <1>2, <1>3, <1>4, <1>5, <1>6, <1>7, SwapStep

LEMMA RemovedInv ==
  ASSUME IInv, RemovesFind, NEW t \in Threads, Removed(t)
  PROVE IInv' /\ RemovesFind'
<1>1. TypeOK'
  BY DEF IInv, TypeOK, clock, Removed, Returned, Phases, Marks, Slots
<1>2. /\ ht' = ht /\ pid'[t] = Empty /\ pc'[t] \in {"visit", "idle"}
      /\ \A u \in Threads \ {t} : /\ pc'[u] = pc[u] /\ pid'[u] = pid[u]
                                  /\ pos'[u] = pos[u] /\ curr'[u] = curr[u]
  BY DEF IInv, TypeOK, clock, Removed, Returned
<1> QED
  BY <1>1, <1>2, ProbeStep DEF Knows

LEMMA ClockingInv ==
  ASSUME IInv, RemovesFind, NEW t \in Threads, Clocking(t)
  PROVE IInv' /\ RemovesFind'
<1>1. /\ ht' = ht /\ pid' = pid /\ pos' = pos /\ curr' \in [Threads -> Marks]
      /\ pc' \in [Threads -> Phases] /\ pc'[t] \in {"clock", "scan", "visit", "idle"}
      /\ clockPos' \in Slots /\ scanPos' \in [Threads -> Slots]
      /\ \A u \in Threads \ {t} : pc'[u] = pc[u] /\ curr'[u] = curr[u]
  <2>0. \A s \in Slots : Succ(s) \in Slots /\ (s + Batch) % Count \in Slots /\ 0 \in Slots
    BY SuccType, BatchAssumption DEF Slots
  <2>1. CASE ClockLoad(t)
    BY <2>0, <2>1 DEF IInv, TypeOK, clock, ClockLoad, Goto, Phases
  <2>2. CASE ClockClaim(t)
    BY <2>0, <2>2 DEF IInv, TypeOK, clock, ClockClaim, Goto, Phases
  <2>3. CASE Visit(t)
    BY <2>3 DEF IInv, TypeOK, clock, Visit, Goto, Phases
  <2>4. CASE Visited(t)
    <3>1. scanPos' \in [Threads -> Slots]
      BY <2>0, <2>4 DEF IInv, TypeOK, Visited
    <3>2. pc' \in [Threads -> Phases] /\ pc'[t] \in {"scan", "idle"}
      BY <2>4 DEF IInv, TypeOK, Visited, Goto, Phases
    <3> QED
      BY <2>4, <3>1, <3>2 DEF IInv, TypeOK, Visited, Goto, Marks
  <2> QED
    BY <2>1, <2>2, <2>3, <2>4 DEF Clocking
<1>2. TypeOK'
  BY <1>1 DEF IInv, TypeOK
<1> QED
  BY <1>1, <1>2, ProbeStep DEF Knows

LEMMA InitInv == Init => IInv /\ RemovesFind
<1> SUFFICES ASSUME Init PROVE IInv /\ RemovesFind
  OBVIOUS
<1>1. TypeOK
  BY DEF Init, TypeOK, Phases, Marks, Slots
<1> QED
  BY <1>1 DEF Init, IInv, RemovesFind, Unique, Exclusive, Working, FoundFromHash

LEMMA NextInv == IInv /\ RemovesFind /\ [Next]_vars => IInv' /\ RemovesFind'
<1> SUFFICES ASSUME IInv, RemovesFind, [Next]_vars PROVE IInv' /\ RemovesFind'
  OBVIOUS
<1>1. CASE UNCHANGED vars
  <2>1. ht' = ht /\ pc' = pc /\ pid' = pid /\ pos' = pos /\ curr' = curr
    BY <1>1 DEF vars, probe
  <2>2. TypeOK'
    BY <1>1, <2>1 DEF IInv, TypeOK, vars, clock, Slots
  <2>3. Unique' /\ Exclusive' /\ RemovesFind'
    BY <2>1 DEF IInv, Unique, Exclusive, RemovesFind, Slots
  <2>4. FoundFromHash'
    BY <2>1 DEF IInv, FoundFromHash, Reaches, Closed, Succ, Slots
  <2>5. Working'
    <3>1. \A t \in Threads : Knows(t)'
      BY <2>1, ProbeKeepsOthers DEF IInv, Working, Knows
    <3> QED
      BY <3>1 DEF Working, Knows
  <2> QED
    BY <2>2, <2>3, <2>4, <2>5 DEF IInv
<1>2. ASSUME NEW t \in Threads, Probing(t) PROVE IInv' /\ RemovesFind'
  BY <1>2, InsertLoadInv, InsertClaimInv, InsertedInv, RemoveLoadInv, ClearInv, RemovedInv DEF Probing
<1>3. ASSUME NEW t \in Threads, Clocking(t) PROVE IInv' /\ RemovesFind'
  BY <1>3, ClockingInv
<1>4. ASSUME NEW t \in Threads, NEW p \in Pids, InsertStart(t, p) \/ RemoveStart(t, p)
      PROVE IInv' /\ RemovesFind'
  BY <1>4, InsertStartInv, RemoveStartInv
<1> QED
  BY <1>1, <1>2, <1>3, <1>4 DEF Next

-------------------------------------------------------------------------------
(* The theorems. *)

\* Every page in the set stays where a probe from its hash finds it (ResidentPageSet's
\* tombstones), and no page is in it twice.
THEOREM SetInvariant == Spec => []IInv
<1>1. Init => IInv /\ RemovesFind
  BY InitInv
<1>2. IInv /\ RemovesFind /\ [Next]_vars => IInv' /\ RemovesFind'
  BY NextInv
<1> QED
  BY <1>1, <1>2, PTL DEF Spec

\* The removal of a page that is in the set never fails, as evict asserts
\* (buffer_manager.hpp:633).
THEOREM RemovalsSucceed == Spec => []RemovesFind
<1>1. Init => IInv /\ RemovesFind
  BY InitInv
<1>2. IInv /\ RemovesFind /\ [Next]_vars => IInv' /\ RemovesFind'
  BY NextInv
<1> QED
  BY <1>1, <1>2, PTL DEF Spec

-------------------------------------------------------------------------------
(* The refinement: every step is a step of the abstract set or changes nothing. *)

\* A step that leaves the slots alone, and neither begins nor ends an operation, is a stutter.
LEMMA QuietStep ==
  ASSUME TypeOK, NEW t \in Threads, ht' = ht, pid'[t] = pid[t] \/ pc'[t] \notin {"insert", "claim", "remove", "clear"},
         \A u \in Threads \ {t} : pc'[u] = pc[u] /\ pid'[u] = pid[u],
         \/ {pc[t], pc'[t]} \subseteq {"insert", "claim"}
         \/ {pc[t], pc'[t]} \subseteq {"remove", "clear"}
         \/ {pc[t], pc'[t]} \cap {"insert", "claim", "remove", "clear", "removed", "failed"} = {}
  PROVE UNCHANGED <<Members, Todo, Was>>
<1>1. Members' = Members
  BY DEF Members, Slots
<1>2. \A u \in Threads : Todo'[u] = Todo[u]
  BY DEF Todo
<1>3. \A u \in Threads : Was'[u] = Was[u]
  BY DEF Was
<1>4. Todo' = [u \in Threads |-> Todo'[u]] /\ Todo = [u \in Threads |-> Todo[u]]
  BY DEF Todo
<1>5. Was' = [u \in Threads |-> Was'[u]] /\ Was = [u \in Threads |-> Was[u]]
  BY DEF Was
<1> HIDE DEF Todo, Was
<1> QED
  BY <1>1, <1>2, <1>3, <1>4, <1>5

\* The page of an insert is not in the set before its end, that of a remove is: the caller
\* has its latch, and nobody else puts it in or takes it out.
LEMMA Observed ==
  ASSUME IInv', NEW t \in Threads, \A u \in Threads \ {t} : pc'[u] = pc[u],
         ~(pc[t] \in {"insert", "claim"} /\ pc'[t] \in {"remove", "clear"}),
         ~(pc[t] \in {"remove", "clear"} /\ pc'[t] \in {"insert", "claim"})
  PROVE Set!Observe
<1>1. ASSUME NEW u \in Threads
      PROVE  Was'[u] = IF Todo'[u][1] \in Set!Calls THEN Was[u] \cup {Todo'[u][2] \in Members'} ELSE {}
  <2>1. CASE pc'[u] \in {"insert", "claim"}
    <3>1. Todo'[u] = <<"insert", pid'[u]>> /\ Was'[u] = {FALSE}
      BY <2>1 DEF Todo, Was
    <3>2. pid'[u] \notin Members'
      BY <2>1 DEF IInv, Working, Inserting
    <3>3. Was[u] = {} \/ Was[u] = {FALSE}
      BY <2>1 DEF Was
    <3>4. (pid'[u] \in Members') = FALSE
      BY <3>2
    <3>5. {pid'[u] \in Members'} = {FALSE}
      BY <3>4
    <3>6. Todo'[u][1] \in Set!Calls /\ Todo'[u][2] = pid'[u]
      BY <3>1 DEF Set!Calls
    <3> QED
      BY <3>1, <3>3, <3>5, <3>6
  <2>2. CASE pc'[u] \in {"remove", "clear"}
    <3>1. Todo'[u] = <<"remove", pid'[u]>> /\ Was'[u] = {TRUE}
      BY <2>2 DEF Todo, Was
    <3>2. pid'[u] \in Members'
      BY <2>2 DEF IInv, Working, Removing, Members
    <3>3. Was[u] = {} \/ Was[u] = {TRUE}
      BY <2>2 DEF Was
    <3>4. (pid'[u] \in Members') = TRUE
      BY <3>2
    <3>5. {pid'[u] \in Members'} = {TRUE}
      BY <3>4
    <3>6. Todo'[u][1] \in Set!Calls /\ Todo'[u][2] = pid'[u]
      BY <3>1 DEF Set!Calls
    <3> QED
      BY <3>1, <3>3, <3>5, <3>6
  <2>3. CASE pc'[u] \notin {"insert", "claim", "remove", "clear"}
    <3>1. Todo'[u] \in {<<"found", 0>>, <<"missing", 0>>, <<"none", 0>>} /\ Was'[u] = {}
      BY <2>3 DEF Todo, Was
    <3> QED
      BY <3>1 DEF Set!Calls
  <2> QED
    BY <2>1, <2>2, <2>3
<1>2. Was' = [u \in Threads |-> Was'[u]]
  BY DEF Was
<1> HIDE DEF Was, Todo
<1> QED
  BY <1>1, <1>2 DEF Set!Observe

\* Each step of insert, remove and the clock is a step of the abstract set or a stutter.
LEMMA SetStep == IInv /\ IInv' /\ RemovesFind' /\ [Next]_vars => [Set!Next]_<<Members, Todo, Was>>
<1> SUFFICES ASSUME IInv, IInv', RemovesFind', [Next]_vars PROVE [Set!Next]_<<Members, Todo, Was>>
  OBVIOUS
<1>0. TypeOK
  BY DEF IInv
<1>1. CASE UNCHANGED vars
  BY <1>1 DEF vars, probe, Members, Todo, Was, Slots
<1>2. ASSUME NEW t \in Threads, NEW p \in Pids, InsertStart(t, p) PROVE Set!Next
  <2>1. Members' = Members
    BY <1>2 DEF InsertStart, Members, Slots
  <2>2. Todo[t] = <<"none", 0>> /\ Todo' = [Todo EXCEPT ![t] = <<"insert", p>>]
    BY <1>0, <1>2 DEF InsertStart, Goto, Todo, TypeOK
  <2>3. Set!Call(t, "insert", p)
    BY <2>1, <2>2 DEF Set!Call, Set!Nothing, Set!Answer
  <2>4. Set!Observe
    BY <1>0, <1>2, Observed DEF InsertStart, Goto, TypeOK
  <2> QED
    BY <2>3, <2>4 DEF Set!Next, Set!Step, Set!Calls
<1>3. ASSUME NEW t \in Threads, NEW p \in Pids, RemoveStart(t, p) PROVE Set!Next
  <2>1. Members' = Members
    BY <1>3 DEF RemoveStart, Members, Slots
  <2>2. Todo[t] = <<"none", 0>> /\ Todo' = [Todo EXCEPT ![t] = <<"remove", p>>]
    BY <1>0, <1>3 DEF RemoveStart, Goto, Todo, TypeOK
  <2>3. Set!Call(t, "remove", p)
    BY <2>1, <2>2 DEF Set!Call, Set!Nothing, Set!Answer
  <2>4. Set!Observe
    BY <1>0, <1>3, Observed DEF RemoveStart, Goto, TypeOK
  <2> QED
    BY <2>3, <2>4 DEF Set!Next, Set!Step, Set!Calls
<1>4. ASSUME NEW t \in Threads, InsertClaim(t), ht[pos[t]] = curr[t] PROVE Set!Next
  <2>1. Inserting(t) /\ ht' = [ht EXCEPT ![pos[t]] = pid[t]] /\ pos[t] \in Slots
    BY <1>0, <1>4 DEF InsertClaim, Goto, IInv, Working, TypeOK
  <2>2. curr[t] \in {Empty, Tombstone} /\ pid[t] \in Pids \ Members
    BY <1>4, <2>1 DEF Inserting, InsertClaim, Goto
  <2>3. Members' = Members \cup {pid[t]}
    BY <1>0, <1>4, <2>1, <2>2 DEF Members, TypeOK, Slots
  <2>4. Todo[t] = <<"insert", pid[t]>> /\ Todo' = [Todo EXCEPT ![t] = <<"none", 0>>]
    <3>1. pc[t] = "claim" /\ pc' = [pc EXCEPT ![t] = "inserted"] /\ pid' = pid
      BY <1>4 DEF InsertClaim, Goto
    <3> QED
      BY <1>0, <3>1 DEF Todo, TypeOK
  <2>5. Set!Insert(t)
    BY <2>2, <2>3, <2>4 DEF Set!Insert, Set!Nothing, Set!Answer
  <2>6. Set!Observe
    BY <1>0, <1>4, Observed DEF InsertClaim, Goto, TypeOK
  <2> QED
    BY <2>5, <2>6 DEF Set!Next, Set!Step
<1>5. ASSUME NEW t \in Threads, Clear(t) PROVE Set!Next
  <2>1. Removing(t) /\ ht[pos[t]] = pid[t] /\ curr[t] = pid[t] /\ pos[t] \in Slots /\ pid[t] \in Pids
    BY <1>0, <1>5 DEF Clear, Goto, IInv, Working, Removing, TypeOK
  <2>2. ht' = [ht EXCEPT ![pos[t]] = Tombstone] /\ pid' = pid /\ pc' = [pc EXCEPT ![t] = "removed"]
    BY <1>5, <2>1 DEF Clear, Goto
  <2>3. Members' = Members \ {pid[t]}
    BY <1>0, <2>1, <2>2 DEF Members, TypeOK, Slots, IInv, Unique
  <2>4. Todo[t] = <<"remove", pid[t]>> /\ Todo' = [Todo EXCEPT ![t] = <<"found", 0>>]
    BY <1>0, <1>5, <2>2 DEF Clear, Goto, Todo, TypeOK
  <2>5. pid[t] \in Members
    BY <2>1 DEF Members
  <2>6. Set!Remove(t)
    BY <2>3, <2>4, <2>5 DEF Set!Remove, Set!Answer
  <2>7. Set!Observe
    BY <1>0, <2>2, Observed DEF TypeOK
  <2> QED
    BY <2>6, <2>7 DEF Set!Next, Set!Step
<1>6. ASSUME NEW t \in Threads, InsertClaim(t), ht[pos[t]] # curr[t]
      PROVE UNCHANGED <<Members, Todo, Was>>
  BY <1>0, <1>6, QuietStep DEF InsertClaim, Goto, TypeOK
<1>7. ASSUME NEW t \in Threads, InsertLoad(t) PROVE UNCHANGED <<Members, Todo, Was>>
  BY <1>0, <1>7, QuietStep DEF InsertLoad, Goto, TypeOK
<1>8. ASSUME NEW t \in Threads, RemoveLoad(t) PROVE UNCHANGED <<Members, Todo, Was>>
  <2>1. /\ pc[t] = "remove" /\ pc'[t] \in {"remove", "clear"} /\ ht' = ht /\ pid' = pid
        /\ \A u \in Threads \ {t} : pc'[u] = pc[u]
    BY <1>0, <1>8 DEF RemoveLoad, Goto, TypeOK, RemovesFind
  <2> QED
    BY <1>0, <2>1, QuietStep
<1>9. ASSUME NEW t \in Threads, Inserted(t) PROVE UNCHANGED <<Members, Todo, Was>>
  BY <1>0, <1>9, QuietStep DEF Inserted, Returned, TypeOK
<1>10. ASSUME NEW t \in Threads, Removed(t) PROVE Set!Next
  <2>1. Members' = Members
    BY <1>10 DEF Removed, Members, Slots
  <2>2. pc[t] = "removed" /\ pc'[t] \in {"visit", "idle"} /\ \A u \in Threads \ {t} : pc'[u] = pc[u]
    BY <1>0, <1>10 DEF Removed, Returned, TypeOK
  <2>3. Todo[t] = <<"found", 0>> /\ Todo' = [Todo EXCEPT ![t] = <<"none", 0>>]
    BY <1>0, <1>10, <2>2 DEF Removed, Returned, Todo, TypeOK
  <2>4. Set!Return(t)
    BY <2>1, <2>3 DEF Set!Return, Set!Answer, Set!Nothing
  <2>5. Set!Observe
    BY <2>2, Observed
  <2> QED
    BY <2>4, <2>5 DEF Set!Next, Set!Step
<1>11. ASSUME NEW t \in Threads, Clocking(t) PROVE UNCHANGED <<Members, Todo, Was>>
  <2>1. /\ ht' = ht /\ pid' = pid /\ \A u \in Threads \ {t} : pc'[u] = pc[u]
        /\ pc[t] \in {"idle", "clock", "scan", "visit"} /\ pc'[t] \in {"idle", "clock", "scan", "visit"}
    BY <1>0, <1>11 DEF Clocking, ClockLoad, ClockClaim, Visit, Visited, Goto, TypeOK, clock
  <2> QED
    BY <1>0, <2>1, QuietStep
<1> QED
  BY <1>1, <1>2, <1>3, <1>4, <1>5, <1>6, <1>7, <1>8, <1>9, <1>10, <1>11 DEF Next, Probing

\* The array with its compare-and-swaps implements a set (ResidentPageSet): each page that
\* insert or remove reports is put in or taken out once, at one instant of the call.
THEOREM ArrayImplementsSet == Spec => ImplementsSet
<1>1. Init => Set!Init
  BY DEF Init, Set!Init, Set!Nothing, Members, Todo, Was
<1>2. IInv /\ IInv' /\ RemovesFind' /\ [Next]_vars => [Set!Next]_<<Members, Todo, Was>>
  BY SetStep
<1>3. Spec => []IInv /\ []RemovesFind
  BY SetInvariant, RemovalsSucceed
<1> QED
  BY <1>1, <1>2, <1>3, PTL DEF Spec, ImplementsSet, Set!Spec

-------------------------------------------------------------------------------
(* The clock.  Every batch begins where the last one ended, whoever claimed it, *)
(* so that the slots before the clock's position have been in one batch more    *)
(* than those behind it.                                                        *)

EvenTurn == /\ clockPos \in Slots
            /\ claims = [s \in Slots |-> IF s < clockPos THEN 1 ELSE 0]

\* The slots of a batch are those that lie less than Batch ahead of its first.
LEMMA BatchSlots ==
  ASSUME NEW from \in Slots, NEW s \in Slots
  PROVE  (\E i \in 0..(Batch - 1) : s = (from + i) % Count)
           <=> \/ from <= s /\ s - from < Batch
               \/ s < from /\ s + Count - from < Batch
<1> USE BatchAssumption DEF Slots
<1>1. \A i \in 0..(Batch - 1) :
        (from + i) % Count = IF from + i < Count THEN from + i ELSE from + i - Count
  OBVIOUS
<1>2. ASSUME NEW i \in 0..(Batch - 1), s = (from + i) % Count
      PROVE  (from <= s /\ s - from < Batch) \/ (s < from /\ s + Count - from < Batch)
  BY <1>1, <1>2
<1>3. ASSUME from <= s, s - from < Batch PROVE \E i \in 0..(Batch - 1) : s = (from + i) % Count
  <2>1. s - from \in 0..(Batch - 1) /\ s = (from + (s - from)) % Count
    BY <1>1, <1>3
  <2> QED
    BY <2>1
<1>4. ASSUME s < from, s + Count - from < Batch PROVE \E i \in 0..(Batch - 1) : s = (from + i) % Count
  <2>1. s + Count - from \in 0..(Batch - 1)
    BY <1>4
  <2>2. s = (from + (s + Count - from)) % Count
    BY <1>1, <1>4, <2>1
  <2> QED
    BY <2>1, <2>2
<1> QED
  BY <1>2, <1>3, <1>4

\* A batch that begins at the clock's position keeps the turn even.
LEMMA BatchKeepsTurn ==
  ASSUME EvenTurn, clockPos' = (clockPos + Batch) % Count, Counted(clockPos)
  PROVE  EvenTurn'
<1> USE BatchAssumption
<1> DEFINE range == {(clockPos + i) % Count : i \in 0..(Batch - 1)}
           more == [s \in Slots |-> IF s \in range THEN claims[s] + 1 ELSE claims[s]]
<1>1. claims' = IF \A s \in Slots : more[s] > 0 THEN [s \in Slots |-> more[s] - 1] ELSE more
  BY DEF Counted
<1>2. clockPos \in Slots /\ \A s \in Slots : claims[s] = IF s < clockPos THEN 1 ELSE 0
  BY DEF EvenTurn
<1>3. \A s \in Slots : s \in range <=> \/ clockPos <= s /\ s - clockPos < Batch
                                       \/ s < clockPos /\ s + Count - clockPos < Batch
  BY <1>2, BatchSlots
<1>4. \A s \in Slots : more[s] = IF s \in range THEN claims[s] + 1 ELSE claims[s]
  OBVIOUS
<1> HIDE DEF range, more
<1>5. CASE clockPos + Batch < Count
  <2>1. clockPos' = clockPos + Batch
    BY <1>2, <1>5 DEF Slots
  <2>2. \A s \in Slots : more[s] = IF s < clockPos' THEN 1 ELSE 0
    BY <1>2, <1>3, <1>4, <1>5, <2>1 DEF Slots
  <2>3. Count - 1 \in Slots /\ ~(more[Count - 1] > 0)
    BY <1>2, <1>5, <2>1, <2>2 DEF Slots
  <2>4. claims' = more /\ clockPos' \in Slots
    BY <1>1, <1>2, <1>5, <2>1, <2>3 DEF Slots
  <2>5. claims' = [s \in Slots |-> IF s < clockPos' THEN 1 ELSE 0]
    BY <2>2, <2>4 DEF more
  <2> QED
    BY <2>4, <2>5 DEF EvenTurn, Slots
<1>6. CASE clockPos + Batch >= Count
  <2>1. clockPos' = clockPos + Batch - Count
    BY <1>2, <1>6 DEF Slots
  <2>2. \A s \in Slots : more[s] = IF s < clockPos' THEN 2 ELSE 1
    BY <1>2, <1>3, <1>4, <1>6, <2>1 DEF Slots
  <2>3. claims' = [s \in Slots |-> more[s] - 1]
    BY <1>1, <2>2
  <2>4. claims' = [s \in Slots |-> IF s < clockPos' THEN 1 ELSE 0]
    BY <2>2, <2>3
  <2> QED
    BY <1>2, <1>6, <2>1, <2>4 DEF EvenTurn, Slots
<1> QED
  BY <1>2, <1>5, <1>6 DEF Slots

\* The clock is fair: however many threads claim batches at once, no slot is in two
\* batches before every other one has been in one (iterateClockBatch).
THEOREM ClockIsEven == Spec => []EvenClock
<1>1. Init => EvenTurn
  BY DEF Init, EvenTurn, Slots
<1>2. EvenTurn /\ [Next]_vars => EvenTurn'
  <2> SUFFICES ASSUME EvenTurn, [Next]_vars PROVE EvenTurn'
    OBVIOUS
  <2>1. ASSUME NEW t \in Threads, ClockClaim(t) PROVE EvenTurn'
    <3>1. CASE clockPos = scanPos[t]
      BY <2>1, <3>1, BatchKeepsTurn DEF ClockClaim
    <3>2. CASE clockPos # scanPos[t]
      BY <2>1, <3>2 DEF ClockClaim, EvenTurn
    <3> QED
      BY <3>1, <3>2
  <2>2. CASE UNCHANGED <<clockPos, claims>>
    BY <2>2 DEF EvenTurn
  <2>3. ASSUME Next PROVE (\E t \in Threads : ClockClaim(t)) \/ UNCHANGED <<clockPos, claims>>
    BY <2>3 DEF Next, Probing, Clocking, InsertStart, RemoveStart, InsertLoad, InsertClaim, Inserted,
                RemoveLoad, Clear, Removed, ClockLoad, Visit, Visited, clock
  <2> QED
    BY <2>1, <2>2, <2>3 DEF vars, clock
<1>3. EvenTurn => EvenClock
  BY DEF EvenTurn, EvenClock
<1> QED
  BY <1>1, <1>2, <1>3, PTL DEF Spec
==============================================================================
