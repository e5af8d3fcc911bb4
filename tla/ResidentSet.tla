----------------------------- MODULE ResidentSet -----------------------------
(***************************************************************************)
(* ResidentPageSet (page.hpp): the set of the pages in frames, an array    *)
(* that threads probe, fill and clear with compare-and-swaps, and over     *)
(* which the clock of the eviction runs in batches.                        *)
(*                                                                         *)
(* Its caller is the buffer manager: a page is inserted by the thread that *)
(* faults it in and removed by the one that evicts it, each while it holds *)
(* the page's latch exclusively.                                           *)
(***************************************************************************)
EXTENDS Integers, FiniteSets

CONSTANTS Pids, Threads,
          Count,    \* the number of slots, a power of two in the code
          Hash,     \* Hash[p]: hash(p) & mask
          Batch,    \* the slots one call of iterateClockBatch looks at
          Empty, Tombstone

Slots == 0..(Count - 1)

ASSUME CountAssumption == Count \in Nat \ {0}
ASSUME HashAssumption == Hash \in [Pids -> Slots]
ASSUME MarksAssumption == Empty \notin Pids /\ Tombstone \notin Pids /\ Empty # Tombstone
ASSUME BatchAssumption == Batch \in 1..Count

VARIABLES
  ht,        \* ht[s].pid: a page, Empty or Tombstone
  size, clockPos,
  pc, pid,   \* where a thread is, and the page it inserts or removes
  pos,       \* the slot its probe is at
  curr,      \* what it loaded: a slot's pid
  scanPos, left,  \* the slot its clock batch is at, and how many are left
  claims     \* history: how often each slot was in a batch, less the minimum

probe == <<pc, pid, pos, curr>>
clock == <<clockPos, scanPos, left, claims>>
vars == <<ht, size, probe, clock>>

Init == /\ ht = [s \in Slots |-> Empty] /\ size = 0 /\ clockPos = 0
        /\ pc = [t \in Threads |-> "idle"] /\ pid = [t \in Threads |-> Empty]
        /\ pos = [t \in Threads |-> 0] /\ curr = [t \in Threads |-> Empty]
        /\ scanPos = [t \in Threads |-> 0] /\ left = [t \in Threads |-> 0]
        /\ claims = [s \in Slots |-> 0]

Succ(s) == (s + 1) % Count
Members == {ht[s] : s \in Slots} \cap Pids

Goto(t, from, to) == pc[t] = from /\ pc' = [pc EXCEPT ![t] = to]

\* Nobody else holds the latch of the page.
Free(p) == \A t \in Threads : pid[t] # p

\* Back to the caller: to the batch, when the page was removed while it was visited.
Returned(t) == /\ pc' = [pc EXCEPT ![t] = IF left[t] > 0 THEN "visit" ELSE "idle"]
               /\ pid' = [pid EXCEPT ![t] = Empty] /\ pos' = [pos EXCEPT ![t] = 0]
               /\ curr' = [curr EXCEPT ![t] = Empty]

\* Variant: the probe goes on two slots at a time.
ForwardTwo(t) == pos' = [pos EXCEPT ![t] = Succ(Succ(@))]
Forward(t) == pos' = [pos EXCEPT ![t] = Succ(@)]

-------------------------------------------------------------------------------
(* insert. *)

InsertStart(t, p) == /\ p \notin Members /\ Free(p)
                     /\ Goto(t, "idle", "insert")
                     /\ pid' = [pid EXCEPT ![t] = p] /\ pos' = [pos EXCEPT ![t] = Hash[p]]
                     /\ UNCHANGED <<ht, size, curr, clock>>

InsertLoad(t) == /\ \/ ht[pos[t]] \in {Empty, Tombstone} /\ Goto(t, "insert", "claim") /\ UNCHANGED pos
                    \/ ht[pos[t]] \in Pids /\ pc[t] = "insert" /\ Forward(t) /\ UNCHANGED pc
                 /\ curr' = [curr EXCEPT ![t] = ht[pos[t]]]
                 /\ UNCHANGED <<ht, size, pid, clock>>

InsertClaim(t) == /\ \/ /\ Goto(t, "claim", "inserted") /\ ht[pos[t]] = curr[t]
                        /\ ht' = [ht EXCEPT ![pos[t]] = pid[t]] /\ UNCHANGED pos
                     \/ Goto(t, "claim", "insert") /\ ht[pos[t]] # curr[t] /\ Forward(t) /\ UNCHANGED ht
                  /\ UNCHANGED <<size, pid, curr, clock>>

Inserted(t) == /\ pc[t] = "inserted" /\ size' = size + 1 /\ Returned(t)
               /\ UNCHANGED <<ht, clock>>

-------------------------------------------------------------------------------
(* remove. *)

\* evict removes the pages it has written after the batches, and a clean page while the
\* batch visits it.
RemoveStart(t, p) == /\ p \in Members /\ Free(p)
                     /\ \/ Goto(t, "idle", "remove")
                        \/ Goto(t, "visit", "remove") /\ curr[t] = p
                     /\ pid' = [pid EXCEPT ![t] = p] /\ pos' = [pos EXCEPT ![t] = Hash[p]]
                     /\ UNCHANGED <<ht, size, curr, clock>>

\* Variant: a page that is found counts as removed.
RemoveFinds(t) == LET found == ht[pos[t]] = pid[t] IN
  /\ Goto(t, "remove", IF found THEN "removed" ELSE IF ht[pos[t]] = Empty THEN "failed" ELSE "remove")
  /\ IF found THEN UNCHANGED pos ELSE Forward(t)
  /\ curr' = [curr EXCEPT ![t] = ht[pos[t]]]
  /\ UNCHANGED <<ht, size, pid, clock>>
\* Variant: a tombstone is not passed.
RemoveWaits(t) == LET found == ht[pos[t]] = pid[t] IN
  /\ Goto(t, "remove", IF found THEN "clear" ELSE IF ht[pos[t]] = Empty THEN "failed" ELSE "remove")
  /\ IF found \/ ht[pos[t]] = Tombstone THEN UNCHANGED pos ELSE Forward(t)
  /\ curr' = [curr EXCEPT ![t] = ht[pos[t]]]
  /\ UNCHANGED <<ht, size, pid, clock>>
RemoveLoad(t) == LET found == ht[pos[t]] = pid[t] IN
  /\ Goto(t, "remove", IF found THEN "clear" ELSE IF ht[pos[t]] = Empty THEN "failed" ELSE "remove")
  /\ IF found THEN UNCHANGED pos ELSE Forward(t)
  /\ curr' = [curr EXCEPT ![t] = ht[pos[t]]]
  /\ UNCHANGED <<ht, size, pid, clock>>

\* Variant: the slot becomes empty again.
ClearToEmpty(t) == LET won == ht[pos[t]] = curr[t] IN
  /\ Goto(t, "clear", IF won THEN "removed" ELSE "remove")
  /\ IF won THEN ht' = [ht EXCEPT ![pos[t]] = Empty] /\ UNCHANGED pos ELSE Forward(t) /\ UNCHANGED ht
  /\ UNCHANGED <<size, pid, curr, clock>>
Clear(t) == LET won == ht[pos[t]] = curr[t] IN
  /\ Goto(t, "clear", IF won THEN "removed" ELSE "remove")
  /\ IF won THEN ht' = [ht EXCEPT ![pos[t]] = Tombstone] /\ UNCHANGED pos ELSE Forward(t) /\ UNCHANGED ht
  /\ UNCHANGED <<size, pid, curr, clock>>

Removed(t) == /\ pc[t] = "removed" /\ size' = size - 1 /\ Returned(t)
              /\ UNCHANGED <<ht, clock>>

-------------------------------------------------------------------------------
(* iterateClockBatch. *)

ClockLoad(t) == /\ Goto(t, "idle", "clock") /\ scanPos' = [scanPos EXCEPT ![t] = clockPos]
                /\ UNCHANGED <<ht, size, pid, pos, curr, clockPos, left, claims>>

\* The slots from..from+Batch-1 are claimed once more.
Counted(from) ==
  LET range == {(from + i) % Count : i \in 0..(Batch - 1)}
      more == [s \in Slots |-> IF s \in range THEN claims[s] + 1 ELSE claims[s]]
  IN claims' = IF \A s \in Slots : more[s] > 0 THEN [s \in Slots |-> more[s] - 1] ELSE more

\* Variant: the new position is stored whatever others did meanwhile.
ClockStore(t) == /\ Goto(t, "clock", "scan") /\ left' = [left EXCEPT ![t] = Batch]
                 /\ clockPos' = (scanPos[t] + Batch) % Count /\ Counted(scanPos[t])
                 /\ UNCHANGED <<ht, size, pid, pos, curr, scanPos>>
ClockClaim(t) == /\ \/ /\ Goto(t, "clock", "scan") /\ clockPos = scanPos[t]
                       /\ left' = [left EXCEPT ![t] = Batch]
                       /\ clockPos' = (clockPos + Batch) % Count /\ Counted(clockPos)
                       /\ UNCHANGED scanPos
                    \/ /\ pc[t] = "clock" /\ clockPos # scanPos[t]
                       /\ scanPos' = [scanPos EXCEPT ![t] = clockPos]
                       /\ UNCHANGED <<pc, left, clockPos, claims>>
                 /\ UNCHANGED <<ht, size, pid, pos, curr>>

\* One slot; the callback gets a page that the slot held a moment ago.
Visit(t) == /\ Goto(t, "scan", "visit")
            /\ curr' = [curr EXCEPT ![t] = ht[scanPos[t]]]
            /\ UNCHANGED <<ht, size, pid, pos, clock>>

Visited(t) == /\ Goto(t, "visit", IF left[t] = 1 THEN "idle" ELSE "scan")
              /\ left' = [left EXCEPT ![t] = @ - 1]
              /\ scanPos' = [scanPos EXCEPT ![t] = IF left[t] = 1 THEN 0 ELSE Succ(@)]
              /\ curr' = [curr EXCEPT ![t] = Empty]
              /\ UNCHANGED <<ht, size, pid, pos, clockPos, claims>>

-------------------------------------------------------------------------------
Probing(t) == InsertLoad(t) \/ InsertClaim(t) \/ Inserted(t) \/ RemoveLoad(t) \/ Clear(t) \/ Removed(t)
Clocking(t) == ClockLoad(t) \/ ClockClaim(t) \/ Visit(t) \/ Visited(t)

Next == \E t \in Threads : \/ Probing(t) \/ Clocking(t)
                           \/ \E p \in Pids : InsertStart(t, p) \/ RemoveStart(t, p)

Spec == Init /\ [][Next]_vars

\* A thread that is probing goes on: the loops of insert and remove have no other wait.
FairSpec == Spec /\ \A t \in Threads : WF_vars(Probing(t))

-------------------------------------------------------------------------------
(* Properties. *)

Phases == {"idle", "insert", "claim", "inserted", "remove", "clear", "removed", "failed",
           "clock", "scan", "visit"}
Marks == Pids \cup {Empty, Tombstone}

\* The array, the registers of the threads and the clock have their types.
TypeOK == /\ ht \in [Slots -> Marks]
          /\ pc \in [Threads -> Phases] /\ pid \in [Threads -> Pids \cup {Empty}]
          /\ pos \in [Threads -> Slots] /\ curr \in [Threads -> Marks]
          /\ clockPos \in Slots /\ scanPos \in [Threads -> Slots]

\* No page is in two slots, and no two threads work on one page.
Unique == \A r, s \in Slots : ht[r] \in Pids /\ ht[r] = ht[s] => r = s
Exclusive == \A t, u \in Threads : pid[t] \in Pids /\ pid[t] = pid[u] => t = u

\* A probe from slot r gets to slot s over slots that are not empty: s is in every set of
\* slots that holds r and is closed under the probe's step.
Closed(S) == \A x \in S : ht[x] # Empty => Succ(x) \in S
Reaches(r, s) == \A S \in SUBSET Slots : r \in S /\ Closed(S) => s \in S

\* What a thread that inserts or removes a page knows of it.
Inserting(t) == /\ pid[t] \in Pids \ Members /\ Reaches(Hash[pid[t]], pos[t])
                /\ pc[t] = "claim" => /\ curr[t] \in {Empty, Tombstone}
                                      /\ ht[pos[t]] = Empty => curr[t] = Empty
Removing(t) == /\ \E s \in Slots : ht[s] = pid[t] /\ Reaches(pos[t], s)
               /\ pid[t] \in Pids
               /\ pc[t] = "clear" => ht[pos[t]] = pid[t] /\ curr[t] = pid[t]
Working == \A t \in Threads :
             /\ pc[t] \in {"insert", "claim"} => Inserting(t)
             /\ pc[t] \in {"remove", "clear"} => Removing(t)
             /\ pc[t] \in {"inserted", "removed"} => pid[t] \in Pids

\* Every page in the set is found by a probe that starts at its hash, although threads
\* insert and remove other pages on its way meanwhile.
FoundFromHash == \A s \in Slots : ht[s] \in Pids => Reaches(Hash[ht[s]], s)

\* The inductive invariant of the set.
IInv == TypeOK /\ Unique /\ Exclusive /\ Working /\ FoundFromHash

\* The removal of a page that is in the set succeeds, whatever others do to the slots of
\* the probe (buffer_manager.hpp:633 asserts it).
RemovesFind == \A t \in Threads : pc[t] # "failed"

\* The clock is fair: between two batches that visit a slot, every other slot is visited,
\* however many threads evict at the same time (second chance would fail otherwise).
EvenClock == \A s \in Slots : claims[s] <= 1

\* A removal ends although others keep changing the slots.
RemovesReturn == \A t \in Threads : pc[t] = "remove" ~> pc[t] \in {"idle", "visit"}

\* What a thread has yet to do to the set, and then its answer.
Todo == [t \in Threads |-> IF pc[t] \in {"insert", "claim"} THEN <<"insert", pid[t]>>
                          ELSE IF pc[t] \in {"remove", "clear"} THEN <<"remove", pid[t]>>
                          ELSE IF pc[t] = "removed" THEN <<"found", 0>>
                          ELSE IF pc[t] = "failed" THEN <<"missing", 0>>
                          ELSE <<"none", 0>>]

\* The caller holds the page's latch: a page that is inserted is out of the set until then,
\* and one that is removed is in it.
Was == [t \in Threads |-> IF pc[t] \in {"insert", "claim"} THEN {FALSE}
                         ELSE IF pc[t] \in {"remove", "clear"} THEN {TRUE} ELSE {}]

\* The array is a set: each insert puts its page in once, each remove that answers "removed"
\* has taken its page out once, and one that answers "not found" was right at some instant.
Set == INSTANCE KeySet WITH Callers <- Threads, Keys <- Pids,
                            keys <- Members, todo <- Todo, was <- Was
ImplementsSet == Set!Spec
==============================================================================
