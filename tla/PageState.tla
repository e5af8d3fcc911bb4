------------------------------ MODULE PageState ------------------------------
(***************************************************************************)
(* The latch word of a buffer frame (page.hpp, struct PageState): a state  *)
(* and a version packed in one 64-bit integer that every operation changes *)
(* with one compare-and-swap or one store.  The code has MaxShared = 252;  *)
(* here it is a parameter, so that the limit is reached with few threads.  *)
(* The version has 56 bits in the code and is an unbounded natural here.   *)
(***************************************************************************)
EXTENDS Integers

CONSTANT MaxShared

ASSUME MaxSharedAssumption == MaxShared \in Nat \ {0}

Unlocked == 0
Marked   == MaxShared + 1
Locked   == MaxShared + 2
Invalid  == MaxShared + 3

Word == [state : 0..Invalid, version : Nat]

\* sameVersion and nextVersion: the two ways a new word is made from an old one.
SameVersion(w, s) == [state |-> s, version |-> w.version]
NextVersion(w, s) == [state |-> s, version |-> w.version + 1]

InitWord == [state |-> Invalid, version |-> 0]

\* The states in which the callers of tryLockX try it.
LockableX(w) == w.state \in {Unlocked, Marked}

\* tryLockS succeeds below the limit, and on a marked page, whose mark it clears.
LockableS(w) == w.state < MaxShared \/ w.state = Marked
AddShared(w) == SameVersion(w, IF w.state = Marked THEN 1 ELSE w.state + 1)
DropShared(w) == SameVersion(w, w.state - 1)
==============================================================================
