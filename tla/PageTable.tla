------------------------------ MODULE PageTable ------------------------------
(***************************************************************************)
(* What the hash table promises to the buffer manager: a set of resident   *)
(* pages that insertions and removals change in one step, and answers that *)
(* were true at one instant between the question and the answer.           *)
(***************************************************************************)
CONSTANTS Threads, Pids, NoPid

VARIABLES resident, \* the pages in the table
          asked,    \* asked[t]: the page thread t looks up or inserts
          answer    \* "hit", "miss", "refused" (it is there already), or "none"

vars == <<resident, asked, answer>>

Init == /\ resident = {}
        /\ asked = [t \in Threads |-> NoPid]
        /\ answer = [t \in Threads |-> "none"]

Ask(t, p) == /\ answer[t] = "none"
             /\ asked' = [asked EXCEPT ![t] = p]
             /\ UNCHANGED <<resident, answer>>

Tell(t) == /\ answer[t] = "none" /\ asked[t] # NoPid
           /\ \E a \in IF asked[t] \in resident THEN {"hit", "refused"} ELSE {"miss"} :
                answer' = [answer EXCEPT ![t] = a]
           /\ UNCHANGED <<resident, asked>>

Forget(t) == /\ answer' = [answer EXCEPT ![t] = "none"]
             /\ \E p \in {asked[t], NoPid} : asked' = [asked EXCEPT ![t] = p]
             /\ UNCHANGED resident

Insert(t) == /\ asked[t] \in Pids \ resident /\ answer[t] = "none"
             /\ resident' = resident \cup {asked[t]}
             /\ UNCHANGED <<asked, answer>>

Remove(p) == p \in resident /\ resident' = resident \ {p} /\ UNCHANGED <<asked, answer>>

Next == \/ \E t \in Threads : Tell(t) \/ Forget(t) \/ Insert(t) \/ \E p \in Pids : Ask(t, p)
        \/ \E p \in Pids : Remove(p)

Spec == Init /\ [][Next]_vars
==============================================================================
