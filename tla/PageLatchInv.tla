----------------------------- MODULE PageLatchInv ----------------------------
(***************************************************************************)
(* The inductive invariant behind the safety properties of PageLatch.      *)
(* Everything an optimistic reader may rely on hangs on one fact: while    *)
(* the word keeps the version of its GuardO and is not held exclusively,   *)
(* what the reader has seen is what the page holds (ReadersAgree).  That   *)
(* fact survives because a word leaves Locked only to a higher version.    *)
(***************************************************************************)
EXTENDS PageLatch

\* What the last load of a thread tells where the code relies on it.
SnapOK == \A t \in Threads :
  /\ snap[t].version <= word.version
  /\ pc[t] = "optimistic" => snap[t].state <= MaxShared
  /\ pc[t] \in {"clearMark", "checkMark", "evictLockS"} => snap[t].state = Marked
  /\ pc[t] \in {"upgradeLock", "fixX"} => LockableX(snap[t])
  /\ pc[t] = "fixS" => LockableS(snap[t])
  /\ pc[t] = "evictMark" => snap[t].state = Unlocked

\* Only threads with a guard remember anything.
LocalsOK == \A t \in Threads :
  /\ pc[t] # "writing" => written[t] = 0
  /\ pc[t] \notin OptimisticAt \cup {"checked", "shared", "locked", "writing"}
       => seen[t] = Nothing

\* What t has seen and has not yet overwritten is what the page holds.
Agrees(t) == \A p \in Parts : p > written[t] => seen[t][p] \in {None, mem[p]}

ReadersAgree == \A t \in Holders(OptimisticAt) :
  (SameVersionAs(t) /\ word.state \notin {Locked, Invalid}) => Agrees(t)

\* A writer builds on what the page holds, and has said that the page is dirty.
WriterAgrees == /\ \A t \in Holders({"locked", "writing"}) : Agrees(t)
                /\ Holders({"writing"}) # {} => dirty

\* A copy of the page is whole unless a writer is in the middle of it; then the
\* parts it has written are one ahead of the others.
Whole(copy) == \A p, q \in Parts : copy[p] = copy[q]
PageWhole ==
  /\ Whole(disk)
  /\ InFrame /\ Holders({"writing"}) = {} => Whole(mem)
  /\ \A t \in Holders({"writing"}) : \A p, q \in Parts :
       mem[p] = mem[q] + (IF p <= written[t] /\ q > written[t] THEN 1 ELSE 0)
                       - (IF q <= written[t] /\ p > written[t] THEN 1 ELSE 0)

\* The inductive invariant: every step of any thread preserves the conjunction, from
\* which the invariants of PageLatch follow.
IInv == /\ TypeOK /\ LatchHeld /\ SnapOK /\ LocalsOK /\ ReadersAgree /\ WriterAgrees
        /\ PageWhole /\ CleanIsOnDisk /\ ReadIsWhole
==============================================================================
