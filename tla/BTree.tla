-------------------------------- MODULE BTree --------------------------------
(***************************************************************************)
(* The B+-tree (btree.hpp, btree.cpp) under concurrent lookups, inserts,   *)
(* removes and scans.  Threads descend with GuardO: read the child, check  *)
(* the version, take the child's version, check the parent again.  Writers *)
(* turn guards into GuardX; scans hold a leaf with GuardS while they take  *)
(* the next one.                                                           *)
(*                                                                         *)
(* Keys are numbers and all entries of one size; BTreeNode has the bytes.  *)
(* A version is reduced to fresh: whether the one a thread remembers is    *)
(* still the page's.  A change of pages held exclusively and the unlocking *)
(* that follows are one step.  Page 0 is the metadata page, an inner node  *)
(* whose only child is the root.                                           *)
(***************************************************************************)
EXTENDS Integers, Sequences, FiniteSets, FiniteSetsExt, Functions

CONSTANTS Threads, Keys,
          Plans,     \* what threads may call: plan[t] is an <<operation, key>>
          Trees,     \* the trees to start with, as sequences of the leaves' keys
          LeafCap,   \* entries a leaf has space for
          InnerCap,  \* separators an inner node has space for
          MaxPages   \* bound: the page ids there are

ASSUME KeysAssumption == Keys \subseteq Nat \ {0} /\ Keys # {} /\ IsFiniteSet(Keys)
ASSUME CapAssumption == LeafCap \in Nat \ {0, 1} /\ InnerCap \in Nat \ {0, 1, 2}

Operations == {"lookup", "update", "insert", "remove", "asc", "desc"}
ASSUME PlansAssumption ==
  \A plan \in Plans : plan \in [Threads -> {<<"none", 0>>} \cup (Operations \X Keys)]

\* The leaves of a tree are in order, and only the last one, or the only one, may be empty.
ASSUME TreesAssumption ==
  /\ MaxPages \in Nat
  /\ \A leaves \in Trees :
       /\ leaves \in Seq(SUBSET Keys)
       /\ Len(leaves) \in 1..MaxPages /\ (Len(leaves) > 1 => Len(leaves) < MaxPages)
       /\ \A i, j \in 1..Len(leaves) : i < j =>
            leaves[i] # {} /\ \A a \in leaves[i], b \in leaves[j] : a < b

Meta == 0           \* metadataPageId
NoPage == -1        \* noNeighbour, and a guard that has been moved from
Pages == Meta..MaxPages
Top == Max(Keys) + 1

VARIABLES
  nodes,      \* the pages
  made,       \* the last page id given out
  xHeld,      \* xHeld[p]: who holds p exclusively
  readers,    \* readers[p]: who holds p shared
  pc,
  op, key,    \* the call of a thread
  goal,       \* the key its descent looks for
  toSplit,    \* in ensureSpace: the inner node to split, and else NoPage
  par, node,  \* the pages of its GuardO (or GuardX) parent and node
  fresh,      \* of these, the ones whose remembered version is the current one
  held,       \* the leaf its scan holds shared
  seen,       \* the keys its scan has reported
  sure, maybe \* history: keys in the tree all the time, or at some time, during its call

tree == <<nodes, made>>
latches == <<xHeld, readers>>
call == <<op, key>>
guards == <<par, node>>
scan == <<held, seen>>
history == <<sure, maybe>>
vars == <<tree, latches, pc, call, goal, toSplit, guards, fresh, scan, history>>

-------------------------------------------------------------------------------
(* Nodes.  The child for separator s, or for Top, holds the keys up to it.      *)

LeafNode(ks, lo, hi, next) ==
  [leaf |-> TRUE, keys |-> ks, kids |-> <<>>, lo |-> lo, hi |-> hi, next |-> next]
InnerNode(kids, lo, hi) ==
  [leaf |-> FALSE, keys |-> {}, kids |-> kids, lo |-> lo, hi |-> hi, next |-> NoPage]

Seps(n) == DOMAIN nodes[n].kids \ {Top}
Slot(n, k) == Min({s \in DOMAIN nodes[n].kids : s >= k})
Child(n, k) == nodes[n].kids[Slot(n, k)]

\* findLeafO without anybody else around; the keys that a lookup finds.
LeafOf(k) == LET Down[n \in Pages] == IF nodes[n].leaf THEN n ELSE Down[Child(n, k)]
             IN Down[Meta]
Contents == {k \in Keys : k \in nodes[LeafOf(k)].keys}

\* The tree whose leaves hold the sets of the sequence, in pages 1, 2, ...
Build(leaves) ==
  LET N == Len(leaves)
      Sep(i) == IF i = 0 THEN 0 ELSE IF i = N THEN Top ELSE Max(leaves[i])
      Root == IF N = 1 THEN 1 ELSE N + 1
  IN [p \in Pages |->
        IF p = Meta THEN InnerNode([s \in {Top} |-> Root], 0, Top)
        ELSE IF p \in 1..N
          THEN LeafNode(leaves[p], Sep(p - 1), Sep(p), IF p = N THEN NoPage ELSE p + 1)
        ELSE IF p = Root
          THEN InnerNode([s \in {Sep(i) : i \in 1..N} |-> CHOOSE i \in 1..N : Sep(i) = s], 0, Top)
        ELSE LeafNode({}, 0, 0, NoPage)]

Init == /\ \E leaves \in Trees :
             /\ nodes = Build(leaves)
             /\ made = IF Len(leaves) = 1 THEN 1 ELSE Len(leaves) + 1
        /\ xHeld = [p \in Pages |-> {}] /\ readers = [p \in Pages |-> {}]
        /\ pc = [t \in Threads |-> "idle"]
        /\ \E plan \in Plans : /\ op = [t \in Threads |-> plan[t][1]]
                             /\ key = [t \in Threads |-> plan[t][2]]
        /\ goal = [t \in Threads |-> 0] /\ toSplit = [t \in Threads |-> NoPage]
        /\ par = [t \in Threads |-> NoPage] /\ node = [t \in Threads |-> NoPage]
        /\ fresh = [t \in Threads |-> {}]
        /\ held = [t \in Threads |-> NoPage] /\ seen = [t \in Threads |-> {}]
        /\ sure = [t \in Threads |-> {}] /\ maybe = [t \in Threads |-> {}]

-------------------------------------------------------------------------------
(* Guards. *)

Goto(t, from, to) == pc[t] = from /\ pc' = [pc EXCEPT ![t] = to]

Active(t) == pc[t] \notin {"idle", "found", "missing"}

Locked(p) == xHeld[p] # {}
Free(p) == xHeld[p] = {} /\ readers[p] = {}

\* checkVersionAndRestart does not throw.
Valid(t, p) == p \in fresh[t] /\ ~Locked(p)

\* Variant: readers are not waited for.
LockXShared(t, p) == /\ p \in fresh[t] /\ ~Locked(p)
                     /\ xHeld' = [xHeld EXCEPT ![p] = {t}]
                     /\ UNCHANGED <<tree, readers, call, goal, toSplit, guards, fresh, scan, history>>
\* GuardX(GuardO&&): waits while p is held at the version it knows.
LockX(t, p) == /\ p \in fresh[t] /\ Free(p)
               /\ xHeld' = [xHeld EXCEPT ![p] = {t}]
               /\ UNCHANGED <<tree, readers, call, goal, toSplit, guards, fresh, scan, history>>

\* All exclusive guards of t end, and those of pages it held for this step only.
Unlock(t, others) ==
  LET mine == {p \in Pages : xHeld[p] = {t}} \cup others IN
  /\ xHeld' = [p \in Pages |-> IF p \in mine THEN {} ELSE xHeld[p]]
  /\ fresh' = [u \in Threads |-> IF u = t THEN {} ELSE fresh[u] \ mine]

\* The call returns, having taken keys out of the tree or put them in.
Finish(t, others, gone, come) ==
  /\ Unlock(t, others)
  /\ sure' = [u \in Threads |-> IF u = t THEN {} ELSE sure[u] \ gone]
  /\ maybe' = [u \in Threads |-> IF u = t \/ ~Active(u) THEN {} ELSE maybe[u] \cup come]
  /\ readers' = [p \in Pages |-> readers[p] \ {t}]
  /\ op' = [op EXCEPT ![t] = "none"] /\ key' = [key EXCEPT ![t] = 0]
  /\ goal' = [goal EXCEPT ![t] = 0]
  /\ par' = [par EXCEPT ![t] = NoPage] /\ node' = [node EXCEPT ![t] = NoPage]
  /\ held' = [held EXCEPT ![t] = NoPage] /\ seen' = [seen EXCEPT ![t] = {}]
  /\ UNCHANGED toSplit

-------------------------------------------------------------------------------
(* Descent. *)

\* insert does not look for the key: callers insert keys that are not in the tree.
Begin(t) ==
  /\ op[t] = "insert" => /\ key[t] \notin Contents
                         /\ \A u \in Threads : ~(Active(u) /\ <<op[u], key[u]>> = <<op[t], key[t]>>)
  /\ op[t] # "none" /\ Goto(t, "idle", "start")
  /\ goal' = [goal EXCEPT ![t] = key[t]]
  /\ sure' = [sure EXCEPT ![t] = Contents] /\ maybe' = [maybe EXCEPT ![t] = Contents]
  /\ UNCHANGED <<tree, latches, call, toSplit, guards, fresh, scan>>

\* GuardO of the metadata page.
Start(t) == /\ ~Locked(Meta) /\ Goto(t, "start", "inside")
            /\ node' = [node EXCEPT ![t] = Meta]
            /\ fresh' = [fresh EXCEPT ![t] = {Meta}]
            /\ UNCHANGED <<tree, latches, call, goal, toSplit, par, scan, history>>

AtLeaf(t) == nodes[node[t]].leaf

\* The child is read and the page it is read from checked ...
Descend(t) == /\ Goto(t, "inside", "acquire") /\ ~AtLeaf(t) /\ Valid(t, node[t])
              /\ par' = [par EXCEPT ![t] = node[t]]
              /\ node' = [node EXCEPT ![t] = Child(node[t], goal[t])]
              /\ fresh' = [fresh EXCEPT ![t] = {node[t]}]
              /\ UNCHANGED <<tree, latches, call, goal, toSplit, scan, history>>

\* ... then the child's version is taken: GuardO::init waits while it is locked ...
Acquire(t) == /\ Goto(t, "acquire", "arrived") /\ ~Locked(node[t])
              /\ fresh' = [fresh EXCEPT ![t] = @ \cup {node[t]}]
              /\ UNCHANGED <<tree, latches, call, goal, toSplit, guards, scan, history>>

\* ... and then the parent is checked again, before it is let go.  At the leaf, insert
\* and remove keep it.
Keeps(t) == \/ op[t] \in {"insert", "remove"} /\ AtLeaf(t)
            \/ node[t] = toSplit[t]
\* Variant: the parent is not checked again.
LetGoUnchecked(t) == ~Keeps(t)
LetGo(t) == ~Keeps(t) /\ Valid(t, par[t])
Validate(t) == /\ Goto(t, "arrived", "inside") /\ LetGo(t)
               /\ fresh' = [fresh EXCEPT ![t] = @ \ {par[t]}]
               /\ UNCHANGED <<tree, latches, call, goal, toSplit, guards, scan, history>>

-------------------------------------------------------------------------------
(* lookup and updateInPlace. *)

Answer(t, found) == IF found THEN "found" ELSE "missing"

Lookup(t) == /\ pc[t] = "inside" /\ op[t] = "lookup" /\ AtLeaf(t) /\ Valid(t, node[t])
             /\ Goto(t, "inside", Answer(t, key[t] \in nodes[node[t]].keys))
             /\ Finish(t, {}, {}, {}) /\ UNCHANGED tree

\* The payload changes, which no property is about, and with it the page's version.
Update(t) == /\ pc[t] = "inside" /\ op[t] = "update" /\ AtLeaf(t) /\ Valid(t, node[t])
             /\ \/ /\ key[t] \in nodes[node[t]].keys /\ Free(node[t])
                   /\ Goto(t, "inside", "found") /\ Finish(t, {node[t]}, {}, {})
                \/ /\ key[t] \notin nodes[node[t]].keys
                   /\ Goto(t, "inside", "missing") /\ Finish(t, {}, {}, {})
             /\ UNCHANGED tree

-------------------------------------------------------------------------------
(* What insert, remove and ensureSpace find at the node that they keep.         *)

HasSpace(n) == IF nodes[n].leaf THEN Cardinality(nodes[n].keys) < LeafCap
               ELSE Cardinality(Seps(n)) < InnerCap
Ensuring(t) == toSplit[t] # NoPage

\* The leaf is a quarter full without the key, and its right neighbour is below the
\* same parent and not its last child.
RightSlots(t) == {s \in Seps(par[t]) : s > Slot(par[t], key[t])}
Merges(t) == /\ op[t] = "remove" /\ AtLeaf(t) /\ key[t] \in nodes[node[t]].keys
             /\ 4 * (Cardinality(nodes[node[t]].keys) - 1) <= LeafCap
             /\ par[t] # Meta /\ RightSlots(t) # {}
Right(t) == nodes[par[t]].kids[Min(RightSlots(t))]

\* remove finds nothing; ensureSpace finds space, or no longer finds the node.
Leaves(t) == \/ op[t] = "remove" /\ key[t] \notin nodes[node[t]].keys
             \/ Ensuring(t) /\ (AtLeaf(t) \/ HasSpace(node[t]))
\* Variant: insert locks the parent of a full leaf first, too.
ParentFirstAlways(t) == \/ Merges(t)
                        \/ Ensuring(t) /\ ~Leaves(t)
                        \/ op[t] = "insert" /\ AtLeaf(t) /\ ~HasSpace(node[t])
ParentFirst(t) == \/ Merges(t)
                  \/ Ensuring(t) /\ ~Leaves(t)
NodeFirst(t) == ~Leaves(t) /\ ~ParentFirst(t)

\* The guards end: first the node's version is checked, then the parent's.
CheckNode(t) == /\ Goto(t, "arrived", "leaving") /\ Keeps(t) /\ Leaves(t) /\ Valid(t, node[t])
                /\ UNCHANGED <<tree, latches, call, goal, toSplit, guards, fresh, scan, history>>

CheckParent(t) ==
  /\ pc[t] = "leaving" /\ Valid(t, par[t])
  /\ \/ /\ ~Ensuring(t) /\ Goto(t, "leaving", "missing")
        /\ Finish(t, {}, {}, {}) /\ UNCHANGED tree
     \/ /\ Ensuring(t) /\ Goto(t, "leaving", "start")
        /\ toSplit' = [toSplit EXCEPT ![t] = NoPage]
        /\ goal' = [goal EXCEPT ![t] = key[t]]
        /\ fresh' = [fresh EXCEPT ![t] = {}]
        /\ UNCHANGED <<tree, latches, call, guards, scan, history>>

LockLeaf(t) == /\ Goto(t, "arrived", "holding") /\ Keeps(t) /\ NodeFirst(t) /\ LockX(t, node[t])

LockFull(t) == /\ Goto(t, "holding", "split") /\ op[t] = "insert" /\ ~HasSpace(node[t])
               /\ LockX(t, par[t])

LockParent(t) == /\ Goto(t, "arrived", "lockNode") /\ Keeps(t) /\ ParentFirst(t)
                 /\ LockX(t, par[t])

LockNode(t) == /\ Goto(t, "lockNode", IF op[t] = "remove" THEN "lockRight" ELSE "split")
               /\ LockX(t, node[t])

\* OLCRestartException: what is held is unlocked, and the operation starts again.
Stale(t) ==
  \/ pc[t] = "arrived" /\ ~Keeps(t) /\ ~Valid(t, par[t])
  \/ pc[t] = "arrived" /\ Keeps(t) /\ Leaves(t) /\ ~Valid(t, node[t])
  \/ pc[t] = "arrived" /\ Keeps(t) /\ NodeFirst(t) /\ node[t] \notin fresh[t]
  \/ pc[t] = "arrived" /\ Keeps(t) /\ ParentFirst(t) /\ par[t] \notin fresh[t]
  \/ pc[t] = "inside" /\ ~(op[t] = "update" /\ AtLeaf(t)) /\ ~Valid(t, node[t])
  \/ pc[t] = "inside" /\ op[t] = "update" /\ AtLeaf(t) /\ node[t] \notin fresh[t]
  \/ pc[t] = "leaving" /\ ~Valid(t, par[t])
  \/ pc[t] = "holding" /\ (op[t] = "remove" \/ HasSpace(node[t])) /\ ~Valid(t, par[t])
  \/ pc[t] = "holding" /\ par[t] \notin fresh[t]
  \/ pc[t] = "lockNode" /\ node[t] \notin fresh[t]

Restart(t) == /\ Stale(t) /\ Goto(t, pc[t], "start") /\ Unlock(t, {})
              /\ UNCHANGED <<tree, readers, call, goal, toSplit, guards, scan, history>>

-------------------------------------------------------------------------------
(* insert, which answers nothing. *)

Insert(t) ==
  /\ Goto(t, "holding", "idle") /\ op[t] = "insert" /\ HasSpace(node[t]) /\ Valid(t, par[t])
  /\ Finish(t, {}, {}, {key[t]})
  /\ nodes' = [nodes EXCEPT ![node[t]].keys = @ \cup {key[t]}]
  /\ UNCHANGED made

\* findSeparator: the last slot of the left half, or the separator that moves up.
SplitSlot(S, isLeaf) ==
  LET i == IF isLeaf THEN (Cardinality(S) - 1) \div 2 ELSE Cardinality(S) \div 2
  IN CHOOSE s \in S : Cardinality({r \in S : r < s}) = i

\* A leaf's separator may be a truncated key: any value between the halves.
Separators(n) ==
  IF nodes[n].leaf
    THEN LET s == SplitSlot(nodes[n].keys, TRUE)
         IN s..(Min({k \in nodes[n].keys : k > s}) - 1)
    ELSE {SplitSlot(Seps(n), FALSE)}

\* Variant: the left half still points past the new leaf.
LeftHalfKept(n, sep, right) ==
  LET old == nodes[n] IN
  IF old.leaf THEN LeafNode({k \in old.keys : k <= sep}, old.lo, sep, old.next)
  ELSE InnerNode([s \in {r \in Seps(n) : r < sep} \cup {Top} |->
                    old.kids[IF s = Top THEN sep ELSE s]], old.lo, sep)
LeftHalf(n, sep, right) ==
  LET old == nodes[n] IN
  IF old.leaf THEN LeafNode({k \in old.keys : k <= sep}, old.lo, sep, right)
  ELSE InnerNode([s \in {r \in Seps(n) : r < sep} \cup {Top} |->
                    old.kids[IF s = Top THEN sep ELSE s]], old.lo, sep)
RightHalf(n, sep) ==
  LET old == nodes[n] IN
  IF old.leaf THEN LeafNode({k \in old.keys : k > sep}, sep, old.hi, old.next)
  ELSE InnerNode(Restrict(old.kids, {s \in DOMAIN old.kids : s > sep}), sep, old.hi)

\* The slot the node had is the right half's, and a new one the left half's.
SplitKids(kids, n, sep, right) ==
  LET slot == Min({s \in DOMAIN kids : s >= sep})
  IN [s \in DOMAIN kids \cup {sep} |->
        IF s = sep THEN n ELSE IF s = slot THEN right ELSE kids[s]]

\* trySplit ends: the guards end, and insert starts again.
Splits(t, page) == /\ Goto(t, "split", "start") /\ Unlock(t, {})
                   /\ toSplit' = [toSplit EXCEPT ![t] = page]
                   /\ UNCHANGED <<readers, call, guards, scan, history>>

\* The node is the root: there is a new one above it.
SplitRoot(t) == LET n == node[t] IN
  /\ Splits(t, NoPage) /\ goal' = [goal EXCEPT ![t] = key[t]]
  /\ par[t] = Meta /\ made + 2 <= MaxPages /\ made' = made + 2
  /\ \E sep \in Separators(n) :
       nodes' = [nodes EXCEPT
         ![Meta].kids[Top] = made + 1,
         ![made + 1] = InnerNode(SplitKids([s \in {Top} |-> n], n, sep, made + 2), 0, Top),
         ![made + 2] = RightHalf(n, sep),
         ![n] = LeftHalf(n, sep, made + 2)]

SplitNode(t) == LET n == node[t] IN
  /\ Splits(t, NoPage) /\ goal' = [goal EXCEPT ![t] = key[t]]
  /\ par[t] # Meta /\ HasSpace(par[t]) /\ made + 1 <= MaxPages /\ made' = made + 1
  /\ \E sep \in Separators(n) :
       nodes' = [nodes EXCEPT
         ![par[t]].kids = SplitKids(@, n, sep, made + 1),
         ![made + 1] = RightHalf(n, sep),
         ![n] = LeftHalf(n, sep, made + 1)]

\* No space in the parent: both are released, and ensureSpace splits the parent.
SplitParent(t) == /\ pc[t] = "split" /\ par[t] # Meta /\ ~HasSpace(par[t])
                  /\ Splits(t, par[t])
                  /\ \E sep \in Separators(node[t]) : goal' = [goal EXCEPT ![t] = sep]
                  /\ UNCHANGED tree

-------------------------------------------------------------------------------
(* remove. *)

Remove(t) == /\ Goto(t, "holding", "found") /\ op[t] = "remove" /\ Valid(t, par[t])
             /\ Finish(t, {}, {key[t]}, {})
             /\ nodes' = [nodes EXCEPT ![node[t]].keys = @ \ {key[t]}]
             /\ UNCHANGED made

\* mergeNodes: the right neighbour's slot becomes the node's.
MergedKids(kids, slot, rightSlot, n) ==
  [s \in DOMAIN kids \ {slot} |-> IF s = rightSlot THEN n ELSE kids[s]]

\* Variant: the leaf is merged before the entry is removed.
MergedLeafFull(t, right) ==
  LeafNode(nodes[node[t]].keys \cup right.keys, nodes[node[t]].lo, right.hi, right.next)
\* Variant: the merged leaf keeps its neighbour.
MergedLeafKept(t, right) ==
  LeafNode((nodes[node[t]].keys \ {key[t]}) \cup right.keys, nodes[node[t]].lo, right.hi,
           nodes[node[t]].next)
MergedLeaf(t, right) ==
  LeafNode((nodes[node[t]].keys \ {key[t]}) \cup right.keys, nodes[node[t]].lo, right.hi,
           right.next)

\* fixX waits for the right neighbour; a neighbour that is at most three quarters full
\* is merged in unless longer keys (a shorter prefix) do not fit.
RemoveUnderfull(t) == LET n == node[t] IN
  /\ Goto(t, "lockRight", "found") /\ Free(Right(t)) /\ Finish(t, {Right(t)}, {key[t]}, {})
  /\ \/ nodes' = [nodes EXCEPT ![n].keys = @ \ {key[t]}]
     \/ /\ 4 * Cardinality(nodes[Right(t)].keys) <= 3 * LeafCap
        /\ nodes' = [nodes EXCEPT
             ![n] = MergedLeaf(t, nodes[Right(t)]),
             ![par[t]].kids = MergedKids(@, Slot(par[t], key[t]), Min(RightSlots(t)), n)]
  /\ UNCHANGED made

-------------------------------------------------------------------------------
(* scanAsc and scanDesc. *)

\* What the first leaf reports: from the lower bound of the key on, or down from it.
Reported(t) ==
  LET ks == nodes[node[t]].keys
      above == {k \in ks : k >= key[t]}
  IN CASE op[t] = "asc" -> above
       [] op[t] = "desc" /\ held[t] = NoPage /\ above # {} -> {k \in ks : k <= Min(above)}
       [] OTHER -> ks

Hold(t, p) == /\ held' = [held EXCEPT ![t] = p]
              /\ readers' = [q \in Pages |-> IF q = p THEN readers[q] \cup {t} ELSE readers[q] \ {t}]

\* GuardS(GuardO&&): tryLockS on the version the guard knows.
LockS(t) == /\ Goto(t, "inside", "scan") /\ op[t] \in {"asc", "desc"} /\ AtLeaf(t)
            /\ Valid(t, node[t]) /\ Hold(t, node[t])
            /\ seen' = [seen EXCEPT ![t] = @ \cup Reported(t)]
            /\ fresh' = [fresh EXCEPT ![t] = {}]
            /\ UNCHANGED <<tree, xHeld, call, goal, toSplit, guards, history>>

\* It also fails if the word counts another reader than before.
LockSFails(t) == /\ Goto(t, "inside", "start") /\ op[t] \in {"asc", "desc"} /\ AtLeaf(t)
                 /\ readers[node[t]] # {} /\ Unlock(t, {})
                 /\ UNCHANGED <<tree, readers, call, goal, toSplit, guards, scan, history>>

\* fixS on the right neighbour, while the leaf is still held.
ScanRight(t) == LET next == nodes[held[t]].next IN
  /\ Goto(t, "scan", "scan") /\ op[t] = "asc" /\ next # NoPage /\ ~Locked(next)
  /\ Hold(t, next)
  /\ seen' = [seen EXCEPT ![t] = @ \cup nodes[next].keys]
  /\ UNCHANGED <<tree, xHeld, call, goal, toSplit, guards, fresh, history>>

\* To the left there is no pointer: findLeafS(lower fence), while the leaf is still held.
ScanLeft(t) == /\ Goto(t, "scan", "start") /\ op[t] = "desc" /\ nodes[held[t]].lo # 0
               /\ goal' = [goal EXCEPT ![t] = nodes[held[t]].lo]
               /\ UNCHANGED <<tree, latches, call, toSplit, guards, fresh, scan, history>>

\* The last leaf, or the callback has enough.
ScanEnd(t) == Goto(t, "scan", "idle") /\ Finish(t, {}, {}, {}) /\ UNCHANGED tree

-------------------------------------------------------------------------------
Step(t) == \/ Start(t) \/ Descend(t) \/ Acquire(t) \/ Validate(t) \/ Restart(t)
           \/ Lookup(t) \/ Update(t)
           \/ CheckNode(t) \/ CheckParent(t)
           \/ LockLeaf(t) \/ LockFull(t) \/ LockParent(t) \/ LockNode(t)
           \/ Insert(t) \/ SplitRoot(t) \/ SplitNode(t) \/ SplitParent(t)
           \/ Remove(t) \/ RemoveUnderfull(t)
           \/ LockS(t) \/ LockSFails(t) \/ ScanRight(t) \/ ScanLeft(t) \/ ScanEnd(t)

Next == \E t \in Threads : Begin(t) \/ Step(t)

Spec == Init /\ [][Next]_vars

(* Threads keep running: waiting is a spin, and nothing is assumed of new calls. *)
FairSpec == Spec /\ \A t \in Threads : WF_vars(Step(t))

-------------------------------------------------------------------------------
Steps == {"idle", "start", "inside", "acquire", "arrived", "leaving", "holding", "split",
          "lockNode", "lockRight", "scan", "found", "missing"}

(* Every variable keeps its type, and a page held exclusively has no readers.   *)
TypeOK ==
  /\ \A p \in Pages : /\ nodes[p].keys \subseteq Keys
                      /\ nodes[p].leaf \/ Range(nodes[p].kids) \subseteq 1..made
                      /\ nodes[p].next \in (1..made) \cup {NoPage}
                      /\ Locked(p) => Cardinality(xHeld[p]) = 1 /\ readers[p] = {}
                      /\ readers[p] \subseteq Threads
  /\ made \in Pages
  /\ pc \in [Threads -> Steps]
  /\ \A t \in Threads : fresh[t] \subseteq {par[t], node[t]} /\ seen[t] \subseteq Keys

(* Whatever splits and merges have done, a descent for a key ends at the leaf   *)
(* whose fences enclose it, that leaf has only keys between its fences, and its *)
(* right neighbour is the leaf at which a descent for the next greater key      *)
(* ends: readers of fences and of nextLeafNode see what descents see.           *)
LeavesChained ==
  \A k \in Keys :
    LET n == nodes[LeafOf(k)] IN
    /\ n.lo < k /\ k <= n.hi
    /\ \A j \in n.keys : n.lo < j /\ j <= n.hi
    /\ n.next = IF n.hi < Top THEN LeafOf(n.hi + 1) ELSE NoPage

(* The tree implements the set of keys: an insert that returns and a remove     *)
(* that answers "found" have changed it once, at one instant of the call, and   *)
(* nothing else does: no split, merge or restart.  The other answers of lookup, *)
(* update and remove are true of an instant of the call.                        *)
Calls(t) == Active(t) /\ op[t] \in {"insert", "remove", "lookup", "update"}
Asked(t) == <<IF op[t] = "update" THEN "lookup" ELSE op[t], key[t]>>
Todo == [t \in Threads |-> IF pc[t] \in {"found", "missing"} THEN <<pc[t], 0>>
                          ELSE IF Calls(t) THEN Asked(t) ELSE <<"none", 0>>]
Was == [t \in Threads |-> IF Calls(t) THEN {b \in BOOLEAN : IF b THEN key[t] \in maybe[t]
                                                                 ELSE key[t] \notin sure[t]}
                         ELSE {}]
KS == INSTANCE KeySet WITH
        Callers <- Threads, keys <- Contents, todo <- Todo, was <- Was
ImplementsKeySet == KS!Spec

(* A lookup, an update or a remove says that it found a key only if the key was *)
(* in the tree at some instant of the call, and that it is missing only if it   *)
(* was not all the time: no descent that raced with a split or a merge ends at  *)
(* the wrong leaf.                                                              *)
AnswersAtomic ==
  [][\A t \in Threads : Active(t) /\ op[t] \in {"lookup", "update", "remove"} =>
       /\ pc'[t] = "found" => key[t] \in maybe[t]
       /\ pc'[t] = "missing" => key[t] \notin sure[t]]_vars

(* A scan that has come to a leaf has reported every key of its range up to     *)
(* that leaf's far fence that was in the tree since the scan began, and none    *)
(* that never was.                                                              *)
ScansComplete ==
  \A t \in Threads : held[t] # NoPage =>
    /\ seen[t] \subseteq maybe[t]
    /\ {k \in sure[t] : IF op[t] = "asc" THEN key[t] <= k /\ k <= nodes[held[t]].hi
                                         ELSE nodes[held[t]].lo < k /\ k <= key[t]}
         \subseteq seen[t]

(* Of every set of threads that wait for each other's latches, one is a remove  *)
(* about to merge: without merges, latch coupling would be free of deadlock.    *)
WaitsFor(t, p) ==
  \/ pc[t] = "acquire" /\ p = node[t] /\ Locked(p)
  \/ pc[t] = "start" /\ p = Meta /\ Locked(p)
  \/ pc[t] = "scan" /\ op[t] = "asc" /\ p = nodes[held[t]].next /\ p # NoPage /\ Locked(p)
  \/ pc[t] = "arrived" /\ Keeps(t) /\ NodeFirst(t) /\ p = node[t] /\ ~Free(p)
  \/ pc[t] = "arrived" /\ Keeps(t) /\ ParentFirst(t) /\ p = par[t] /\ ~Free(p)
  \/ pc[t] = "holding" /\ op[t] = "insert" /\ ~HasSpace(node[t]) /\ p = par[t] /\ ~Free(p)
  \/ pc[t] = "lockNode" /\ p = node[t] /\ ~Free(p)
  \/ pc[t] = "lockRight" /\ p = Right(t) /\ ~Free(p)
Holds(t, p) == xHeld[p] = {t} \/ t \in readers[p]
CyclesMerge ==
  \A waiting \in (SUBSET Threads) \ {{}} :
    (\A t \in waiting : \E p \in Pages, u \in waiting : WaitsFor(t, p) /\ Holds(u, p))
      => \E t \in waiting : op[t] = "remove" /\ xHeld[par[t]] = {t}

-------------------------------------------------------------------------------
(* btree.cpp, line 87, "return; // success", and line 93, "insert hasn't        *)
(* happened, restart from root": a call of insert comes back, after so many     *)
(* restarts.                                                                    *)
Inserting == \E t \in Threads : Active(t) /\ op[t] = "insert"
InsertsReturn == Inserting ~> ~Inserting
=============================================================================
