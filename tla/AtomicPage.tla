----------------------------- MODULE AtomicPage ------------------------------
(***************************************************************************)
(* What latching promises to the users of one page: its content is a value *)
(* that updates advance one at a time, and every completed read returns    *)
(* the whole value of one instant.  Fixing, evicting, faulting, tearing    *)
(* and restarting do not exist at this level.                              *)
(***************************************************************************)
EXTENDS Naturals

CONSTANTS Threads, \* the worker threads
          None     \* no result

VARIABLES val,     \* the content of the page
          result   \* result[t]: what thread t's last read returned, or None

vars == <<val, result>>

Init == val = 0 /\ result = [t \in Threads |-> None]

Update == val' = val + 1 /\ UNCHANGED result

Read(t) == result[t] = None /\ result' = [result EXCEPT ![t] = val] /\ UNCHANGED val

Forget(t) == result' = [result EXCEPT ![t] = None] /\ UNCHANGED val

Next == Update \/ \E t \in Threads : Read(t) \/ Forget(t)

Spec == Init /\ [][Next]_vars
==============================================================================
