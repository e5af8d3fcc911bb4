----------------------------- MODULE BTreeProofs ------------------------------
(***************************************************************************)
(* The B+-tree under concurrent operations: what threads know of the tree  *)
(* while they hold nothing, and what no step of another thread takes from  *)
(* them.  BTreeShape has the tree itself.                                  *)
(***************************************************************************)
EXTENDS BTreeShape

-------------------------------------------------------------------------------
(* The invariant.                                                           *)

Types ==
  /\ pc \in [Threads -> Steps] /\ op \in [Threads -> Operations \cup {"none"}]
  /\ key \in [Threads -> Keys \cup {0}] /\ goal \in [Threads -> 0..Top]
  /\ toSplit \in [Threads -> Pages \cup {NoPage}] /\ par \in [Threads -> Pages \cup {NoPage}]
  /\ node \in [Threads -> Pages \cup {NoPage}] /\ held \in [Threads -> Pages \cup {NoPage}]
  /\ fresh \in [Threads -> SUBSET Pages] /\ seen \in [Threads -> SUBSET Keys]
  /\ sure \in [Threads -> SUBSET Keys] /\ maybe \in [Threads -> SUBSET Keys]
  /\ xHeld \in [Pages -> SUBSET Threads] /\ readers \in [Pages -> SUBSET Threads]

\* One thread holds a page exclusively, or threads share it.
LatchInv ==
  \A p \in Pages : /\ xHeld[p] = {} \/ \E t \in Threads : xHeld[p] = {t}
                   /\ xHeld[p] # {} => readers[p] = {}

\* Callers insert different keys.
Distinct ==
  \A t, u \in Threads : t # u /\ Active(t) /\ Active(u) /\ op[t] = "insert" /\ op[u] = "insert"
                          => key[t] # key[u]

Guarded == {"acquire", "arrived", "leaving", "holding", "split", "lockNode", "lockRight"}
Writing == {"leaving", "holding", "split", "lockNode", "lockRight"}

\* The call of a thread, and the key that its descent is for.
CallInv(t) ==
  /\ op[t] # "none" => key[t] \in Keys
  /\ Active(t) => op[t] # "none" /\ goal[t] \in Places
  /\ Ensuring(t) => op[t] = "insert" /\ Active(t)
  /\ ~Ensuring(t) /\ Active(t) /\ (op[t] = "desc" => held[t] = NoPage) => goal[t] = key[t]
  /\ pc[t] \in Writing => op[t] \in {"insert", "remove"}
  /\ pc[t] = "scan" => op[t] \in {"asc", "desc"} /\ held[t] # NoPage
  /\ held[t] # NoPage => op[t] \in {"asc", "desc"} /\ Active(t) /\ (op[t] = "asc" => pc[t] = "scan")
  /\ seen[t] # {} => held[t] # NoPage

\* What it has latched.
OwnInv(t) ==
  \A p \in Pages :
    /\ xHeld[p] = {t} => \/ pc[t] = "holding" /\ p = node[t]
                         \/ pc[t] = "lockNode" /\ p = par[t]
                         \/ pc[t] \in {"split", "lockRight"} /\ p \in {par[t], node[t]}
    /\ (t \in readers[p]) <=> (held[t] = p)

\* The leaf of a scan is in the tree; the scan has seen what it has passed.
HeldInv(t) == held[t] # NoPage =>
  /\ held[t] \in 0..made /\ \E k \in Places : held[t] = LeafOf(k)
  /\ op[t] = "desc" /\ pc[t] # "scan" => goal[t] = nodes[held[t]].lo
  /\ seen[t] \subseteq maybe[t]
  /\ \A k \in sure[t] : (IF op[t] = "asc" THEN key[t] <= k /\ k <= nodes[held[t]].hi
                                          ELSE nodes[held[t]].lo < k /\ k <= key[t])
                          => k \in seen[t]

\* The pages that a descent goes by: as long as a version is fresh, the page is on the way.
OnPath(n, k) == IF nodes[n].leaf THEN n = LeafOf(k) ELSE nodes[n].lo < k /\ k <= nodes[n].hi
GuardInv(t) ==
  /\ fresh[t] \subseteq {par[t], node[t]}
  /\ pc[t] \in {"idle", "start", "scan", "found", "missing"} => fresh[t] = {}
  /\ pc[t] = "inside" => node[t] \in 0..made /\ (node[t] \in fresh[t] => OnPath(node[t], goal[t]))
  /\ pc[t] \in Guarded => /\ par[t] \in 0..made /\ node[t] \in 1..made /\ par[t] # node[t]
                          /\ ~nodes[par[t]].leaf
                          /\ par[t] \in fresh[t] => Coupled(nodes, par[t], node[t], goal[t])

\* What an insert or a remove has found and locked.
LockInv(t) ==
  /\ pc[t] = "leaving" => /\ op[t] = "remove" \/ Ensuring(t)
                          /\ op[t] = "remove" /\ par[t] \in fresh[t] => key[t] \notin sure[t]
  /\ pc[t] = "holding" => /\ xHeld[node[t]] = {t} /\ node[t] \in fresh[t] /\ AtLeaf(t) /\ ~Ensuring(t)
                          /\ op[t] = "remove" => key[t] \in nodes[node[t]].keys
  /\ pc[t] = "lockNode" => /\ xHeld[par[t]] = {t} /\ par[t] \in fresh[t]
                           /\ op[t] = "insert" => ~AtLeaf(t)
                           /\ node[t] \in fresh[t] => ParentFirst(t)
  /\ pc[t] \in {"split", "lockRight"} => /\ xHeld[par[t]] = {t} /\ xHeld[node[t]] = {t}
                                         /\ par[t] \in fresh[t] /\ node[t] \in fresh[t]
  /\ pc[t] = "lockRight" => op[t] = "remove" /\ Merges(t)
  /\ pc[t] = "split" => op[t] = "insert" /\ ~HasSpace(node[t])

\* The keys that were in the tree all the time, and those that were at some time.
HistoryInv(t) ==
  Active(t) => /\ sure[t] \subseteq Contents /\ Contents \subseteq maybe[t]
               /\ op[t] = "insert" => key[t] \notin Contents

ThreadInv(t) == /\ CallInv(t) /\ OwnInv(t) /\ HeldInv(t) /\ GuardInv(t) /\ LockInv(t)
                /\ HistoryInv(t)

Inv == /\ Types /\ Tree(nodes, made) /\ LatchInv /\ Distinct
       /\ \A t \in Threads : ThreadInv(t)

-------------------------------------------------------------------------------
(* What a step of t leaves to another thread u.                             *)
Spares(u, C, gone, come) ==
  /\ pc'[u] = pc[u] /\ op'[u] = op[u] /\ key'[u] = key[u] /\ goal'[u] = goal[u]
  /\ toSplit'[u] = toSplit[u] /\ par'[u] = par[u] /\ node'[u] = node[u]
  /\ held'[u] = held[u] /\ seen'[u] = seen[u]
  /\ fresh'[u] \subseteq fresh[u] /\ sure'[u] = sure[u] \ gone
  /\ Active(u) => maybe'[u] = maybe[u] \cup come
  /\ \A p \in Pages : /\ (xHeld'[p] = {u}) <=> (xHeld[p] = {u})
                      /\ (u \in readers'[p]) <=> (u \in readers[p])
                      /\ xHeld[p] = {u} /\ p \in fresh[u] => p \in fresh'[u]
  /\ \A p \in C : p \notin fresh'[u] /\ xHeld[p] # {u} /\ held[u] # p

\* The set of keys changes by what has gone and what has come.
LEMMA ContentsEffect ==
  ASSUME NEW C, NEW gone, NEW come, come \subseteq Keys,
         Effect(nodes, made, nodes', made', C, gone, come)
  PROVE  Contents' = (Contents \ gone) \cup come
  <1>1. \A k \in Keys : k \in nodes'[EndOf(nodes', k)].keys
                          <=> (k \in nodes[EndOf(nodes, k)].keys /\ k \notin gone) \/ k \in come
    BY DEF Effect
  <1>2. QED BY <1>1, TreeOf

\* What a thread knows survives the steps of the others: pages it has a fresh version of, or
\* holds, are not among those that change.
LEMMA OthersKeep ==
  ASSUME Inv, NEW u \in Threads, NEW C \in SUBSET Int, NEW gone, NEW come, come \subseteq Keys,
         Effect(nodes, made, nodes', made', C, gone, come), Spares(u, C, gone, come),
         Active(u) /\ op[u] = "insert" => key[u] \notin come
  PROVE  ThreadInv(u)'
  <1>1. ThreadInv(u) /\ Types BY DEF Inv
  <1>2. /\ pc'[u] = pc[u] /\ op'[u] = op[u] /\ key'[u] = key[u] /\ goal'[u] = goal[u]
        /\ toSplit'[u] = toSplit[u] /\ par'[u] = par[u] /\ node'[u] = node[u]
        /\ held'[u] = held[u] /\ seen'[u] = seen[u]
        /\ (Active(u)' <=> Active(u)) /\ (Ensuring(u)' <=> Ensuring(u))
    BY DEF Spares, Active, Ensuring
  <1>3. /\ fresh'[u] \subseteq fresh[u] /\ sure'[u] \subseteq sure[u]
        /\ Active(u) => maybe[u] \subseteq maybe'[u]
        /\ \A p \in C : p \notin fresh'[u] /\ xHeld[p] # {u} /\ held[u] # p
        /\ \A p \in Pages : /\ (xHeld'[p] = {u}) <=> (xHeld[p] = {u})
                            /\ (u \in readers'[p]) <=> (u \in readers[p])
                            /\ xHeld[p] = {u} /\ p \in fresh[u] => p \in fresh'[u]
    BY DEF Spares
  <1>4. /\ made \in Nat /\ made' \in Nat /\ made <= made' /\ \A p \in 0..made : p \in 0..made'
        /\ \A p \in 1..made : p \in 1..made' /\ p \in 0..made
        /\ \A p \in 0..made : p \in Pages
    BY RootFacts, PagesFacts DEF Effect
  <1>5. /\ \A p \in 0..made : p \notin C => nodes'[p] = nodes[p]
        /\ \A p \in 0..made : nodes'[p].leaf <=> nodes[p].leaf
        /\ \A k \in Places : LeafOf(k) \notin C => LeafOf(k)' = LeafOf(k)
    BY TreeOf DEF Effect
  <1>6. CallInv(u)' BY <1>1, <1>2 DEF ThreadInv, CallInv
  <1>7. OwnInv(u)' BY <1>1, <1>2, <1>3 DEF ThreadInv, OwnInv
  <1>8. HeldInv(u)'
    <2> SUFFICES ASSUME held[u] # NoPage PROVE HeldInv(u)' BY <1>2 DEF HeldInv
    <2>1. /\ held[u] \in 0..made /\ held[u] \in 0..made' /\ nodes'[held[u]] = nodes[held[u]]
          /\ held[u] \notin C /\ Active(u)
      BY <1>1, <1>3, <1>4, <1>5 DEF ThreadInv, HeldInv, CallInv
    <2>2. \E k \in Places : held'[u] = LeafOf(k)'
      <3>1. PICK k \in Places : held[u] = LeafOf(k) BY <1>1 DEF ThreadInv, HeldInv
      <3>2. LeafOf(k)' = LeafOf(k) BY <2>1, <3>1, <1>5
      <3>3. QED BY <3>1, <3>2, <1>2
    <2>3. op[u] = "desc" /\ pc[u] # "scan" => goal[u] = nodes'[held[u]].lo
      BY <1>1, <2>1 DEF ThreadInv, HeldInv
    <2>4. seen[u] \subseteq maybe'[u] BY <1>1, <1>3, <2>1 DEF ThreadInv, HeldInv
    <2>5. \A k \in sure'[u] : (IF op[u] = "asc" THEN key[u] <= k /\ k <= nodes'[held[u]].hi
                                                ELSE nodes'[held[u]].lo < k /\ k <= key[u])
                                => k \in seen[u]
      BY <1>1, <1>3, <2>1 DEF ThreadInv, HeldInv
    <2>6. QED BY <2>1, <2>2, <2>3, <2>4, <2>5, <1>2 DEF HeldInv
  <1>9. GuardInv(u)'
    <2>1. fresh'[u] \subseteq {par[u], node[u]} BY <1>1, <1>3 DEF ThreadInv, GuardInv
    <2>2. pc[u] \in {"idle", "start", "scan", "found", "missing"} => fresh'[u] = {}
      BY <1>1, <1>3 DEF ThreadInv, GuardInv
    <2>3. ASSUME pc[u] = "inside"
          PROVE  node[u] \in 0..made' /\ (node[u] \in fresh'[u] => OnPath(node[u], goal[u])')
      <3>1. node[u] \in 0..made /\ (node[u] \in fresh[u] => OnPath(node[u], goal[u]))
        BY <1>1, <2>3 DEF ThreadInv, GuardInv
      <3>2. goal[u] \in Places BY <1>1, <2>3 DEF ThreadInv, CallInv, Active
      <3>3. ASSUME node[u] \in fresh'[u] PROVE OnPath(node[u], goal[u])'
        <4>1. node[u] \notin C /\ node[u] \in fresh[u] BY <1>3, <3>3
        <4>2. nodes'[node[u]] = nodes[node[u]] BY <1>5, <3>1, <4>1
        <4>3. CASE nodes[node[u]].leaf
          <5>1. node[u] = LeafOf(goal[u]) BY <3>1, <4>1, <4>3 DEF OnPath
          <5>2. LeafOf(goal[u])' = LeafOf(goal[u]) BY <5>1, <4>1, <3>2, <1>2, <1>5
          <5>3. QED BY <5>1, <5>2, <4>2, <4>3, <1>2 DEF OnPath
        <4>4. CASE ~nodes[node[u]].leaf BY <4>1, <4>2, <4>4, <3>1, <1>2 DEF OnPath
        <4>5. QED BY <4>3, <4>4
      <3>4. QED BY <3>1, <3>3, <1>4
    <2>4. ASSUME pc[u] \in Guarded
          PROVE  /\ par[u] \in 0..made' /\ node[u] \in 1..made' /\ par[u] # node[u]
                 /\ ~nodes'[par[u]].leaf
                 /\ par[u] \in fresh'[u] => Coupled(nodes', par[u], node[u], goal[u])
      <3>1. /\ par[u] \in 0..made /\ node[u] \in 1..made /\ ~nodes[par[u]].leaf /\ par[u] # node[u]
            /\ par[u] \in fresh[u] => Coupled(nodes, par[u], node[u], goal[u])
        BY <1>1, <2>4 DEF ThreadInv, GuardInv
      <3>2. ASSUME par[u] \in fresh'[u] PROVE Coupled(nodes', par[u], node[u], goal[u])
        <4>1. par[u] \notin C /\ par[u] \in fresh[u] BY <1>3, <3>2
        <4>2. nodes'[par[u]] = nodes[par[u]] BY <1>5, <3>1, <4>1
        <4>3. QED BY <3>1, <4>1, <4>2 DEF Coupled, KidFor
      <3>3. QED BY <3>1, <3>2, <1>4, <1>5
    <2>5. QED BY <2>1, <2>2, <2>3, <2>4, <1>2 DEF GuardInv
  <1>10. LockInv(u)'
    <2>1. ASSUME pc[u] \in Writing
          PROVE  /\ par[u] \in 0..made /\ node[u] \in 0..made /\ par[u] \in Pages /\ node[u] \in Pages
                 /\ nodes'[node[u]].leaf <=> nodes[node[u]].leaf
                 /\ par[u] \notin C => nodes'[par[u]] = nodes[par[u]]
                 /\ node[u] \notin C => nodes'[node[u]] = nodes[node[u]]
      BY <1>1, <1>4, <1>5, <2>1 DEF ThreadInv, GuardInv, Guarded, Writing
    <2>2. ASSUME pc[u] \in Writing, par[u] \notin C, node[u] \notin C
          PROVE  /\ (HasSpace(node[u])' <=> HasSpace(node[u])) /\ (AtLeaf(u)' <=> AtLeaf(u))
                 /\ (Merges(u)' <=> Merges(u)) /\ (ParentFirst(u)' <=> ParentFirst(u))
      <3>1. nodes'[par[u]] = nodes[par[u]] /\ nodes'[node[u]] = nodes[node[u]] BY <2>1, <2>2
      <3>2. HasSpace(node[u])' <=> HasSpace(node[u]) BY <3>1, <1>2 DEF HasSpace, Seps
      <3>3. AtLeaf(u)' <=> AtLeaf(u) BY <3>1, <1>2 DEF AtLeaf
      <3>4. RightSlots(u)' = RightSlots(u) BY <3>1, <1>2 DEF RightSlots, Seps, Slot
      <3>5. Merges(u)' <=> Merges(u) BY <3>1, <3>3, <3>4, <1>2 DEF Merges
      <3>6. Leaves(u)' <=> Leaves(u) BY <3>1, <3>2, <3>3, <1>2 DEF Leaves
      <3>7. QED BY <3>2, <3>3, <3>5, <3>6, <1>2 DEF ParentFirst
    <2>3. LockInv(u) BY <1>1 DEF ThreadInv
    <2>4. ASSUME pc[u] = "leaving"
          PROVE  /\ op[u] = "remove" \/ Ensuring(u)
                 /\ op[u] = "remove" /\ par[u] \in fresh'[u] => key[u] \notin sure'[u]
      BY <2>3, <2>4, <1>3 DEF LockInv
    <2>5. ASSUME pc[u] = "holding"
          PROVE  /\ xHeld'[node[u]] = {u} /\ node[u] \in fresh'[u] /\ nodes'[node[u]].leaf
                 /\ ~Ensuring(u) /\ (op[u] = "remove" => key[u] \in nodes'[node[u]].keys)
      <3>1. /\ xHeld[node[u]] = {u} /\ node[u] \in fresh[u] /\ nodes[node[u]].leaf /\ ~Ensuring(u)
            /\ op[u] = "remove" => key[u] \in nodes[node[u]].keys
        BY <2>3, <2>5 DEF LockInv, AtLeaf
      <3>2. node[u] \notin C /\ node[u] \in Pages BY <3>1, <2>1, <2>5, <1>3 DEF Writing
      <3>3. QED BY <3>1, <3>2, <2>1, <2>5, <1>3 DEF Writing
    <2>6. ASSUME pc[u] = "lockNode"
          PROVE  /\ xHeld'[par[u]] = {u} /\ par[u] \in fresh'[u]
                 /\ op[u] = "insert" => ~nodes'[node[u]].leaf
                 /\ node[u] \in fresh'[u] => ParentFirst(u)'
      <3>1. /\ xHeld[par[u]] = {u} /\ par[u] \in fresh[u]
            /\ op[u] = "insert" => ~nodes[node[u]].leaf
            /\ node[u] \in fresh[u] => ParentFirst(u)
        BY <2>3, <2>6 DEF LockInv, AtLeaf
      <3>2. par[u] \notin C /\ xHeld'[par[u]] = {u} /\ par[u] \in fresh'[u]
        BY <3>1, <2>1, <2>6, <1>3 DEF Writing
      <3>3. op[u] = "insert" => ~nodes'[node[u]].leaf BY <3>1, <2>1, <2>6 DEF Writing
      <3>4. ASSUME node[u] \in fresh'[u] PROVE ParentFirst(u)'
        <4>1. node[u] \notin C /\ node[u] \in fresh[u] BY <1>3, <3>4
        <4>2. QED BY <4>1, <3>1, <3>2, <2>2, <2>6 DEF Writing
      <3>5. QED BY <3>2, <3>3, <3>4
    <2>7. ASSUME pc[u] \in {"split", "lockRight"}
          PROVE  /\ xHeld'[par[u]] = {u} /\ xHeld'[node[u]] = {u}
                 /\ par[u] \in fresh'[u] /\ node[u] \in fresh'[u]
                 /\ pc[u] = "lockRight" => op[u] = "remove" /\ Merges(u)'
                 /\ pc[u] = "split" => op[u] = "insert" /\ ~HasSpace(node[u])'
      <3>1. /\ xHeld[par[u]] = {u} /\ xHeld[node[u]] = {u}
            /\ par[u] \in fresh[u] /\ node[u] \in fresh[u]
            /\ pc[u] = "lockRight" => op[u] = "remove" /\ Merges(u)
            /\ pc[u] = "split" => op[u] = "insert" /\ ~HasSpace(node[u])
        BY <2>3, <2>7 DEF LockInv
      <3>2. par[u] \notin C /\ node[u] \notin C /\ xHeld'[par[u]] = {u} /\ xHeld'[node[u]] = {u}
        BY <3>1, <2>1, <2>7, <1>3 DEF Writing
      <3>3. par[u] \in fresh'[u] /\ node[u] \in fresh'[u]
        BY <3>1, <2>1, <2>7, <1>3 DEF Writing
      <3>4. QED BY <3>1, <3>2, <3>3, <2>2, <2>7 DEF Writing
    <2>8. QED BY <2>4, <2>5, <2>6, <2>7, <1>2 DEF LockInv, AtLeaf
  <1>11. HistoryInv(u)'
    <2> SUFFICES ASSUME Active(u)
                 PROVE  /\ sure'[u] \subseteq Contents' /\ Contents' \subseteq maybe'[u]
                        /\ op[u] = "insert" => key[u] \notin Contents'
      BY <1>2 DEF HistoryInv
    <2>1. Contents' = (Contents \ gone) \cup come BY ContentsEffect
    <2>2. sure'[u] = sure[u] \ gone /\ maybe'[u] = maybe[u] \cup come BY DEF Spares
    <2>3. /\ sure[u] \subseteq Contents /\ Contents \subseteq maybe[u]
          /\ op[u] = "insert" => key[u] \notin Contents
      BY <1>1 DEF ThreadInv, HistoryInv
    <2>4. QED BY <2>1, <2>2, <2>3
  <1>12. QED BY <1>6, <1>7, <1>8, <1>9, <1>10, <1>11 DEF ThreadInv

-------------------------------------------------------------------------------
(* From the other threads' facts and its own to the whole invariant.        *)
LEMMA StepKeeps ==
  ASSUME Inv, NEW t \in Threads, NEW C \in SUBSET Int, NEW gone, NEW come, come \subseteq Keys,
         Effect(nodes, made, nodes', made', C, gone, come),
         \A u \in Threads : u # t => Spares(u, C, gone, come),
         \A u \in Threads : u # t /\ Active(u) /\ op[u] = "insert" => key[u] \notin come,
         Types', LatchInv', ThreadInv(t)',
         Active(t)' /\ op'[t] = "insert" =>
           \A u \in Threads : u # t /\ Active(u) /\ op[u] = "insert" => key[u] # key'[t]
  PROVE  Inv'
  <1>1. \A u \in Threads : ThreadInv(u)'
    <2>1. ASSUME NEW u \in Threads, u # t PROVE ThreadInv(u)' BY <2>1, OthersKeep
    <2>2. QED BY <2>1
  <1>2. \A u \in Threads : u # t => /\ Active(u)' <=> Active(u)
                                    /\ op'[u] = op[u] /\ key'[u] = key[u]
    BY DEF Spares, Active
  <1>3. Distinct' BY <1>2 DEF Inv, Distinct
  <1>4. Tree(nodes, made)' BY DEF Effect
  <1>5. QED BY <1>1, <1>3, <1>4 DEF Inv

\* A step that changes no page and whose thread stays in the same call.
LEMMA QuietKeeps ==
  ASSUME Inv, NEW t \in Threads, UNCHANGED <<nodes, made, op, key, maybe>>,
         \A u \in Threads : u # t => Spares(u, {}, {}, {}),
         Types', LatchInv', ThreadInv(t)', Active(t)' => Active(t)
  PROVE  Inv'
  <1>1. Effect(nodes, made, nodes', made', {}, {}, {}) BY EffectNone DEF Inv
  <1>2. Active(t)' /\ op'[t] = "insert" =>
          \A u \in Threads : u # t /\ Active(u) /\ op[u] = "insert" => key[u] # key'[t]
    BY DEF Inv, Distinct
  <1>3. QED BY <1>1, <1>2, StepKeeps

\* Nothing that is latched or in the tree changes, and t goes on with no page held.
Wanders(t) ==
  /\ UNCHANGED <<nodes, made, xHeld, readers, op, key, held, seen, sure, maybe>>
  /\ \A u \in Threads : u # t => /\ pc'[u] = pc[u] /\ goal'[u] = goal[u] /\ toSplit'[u] = toSplit[u]
                                 /\ par'[u] = par[u] /\ node'[u] = node[u] /\ fresh'[u] = fresh[u]
  /\ pc[t] \notin {"idle", "found", "missing", "holding", "lockNode", "split", "lockRight"}

LEMMA WandersKeeps ==
  ASSUME Inv, NEW t \in Threads, Wanders(t), Types', pc'[t] \notin {"idle", "found", "missing"},
         CallInv(t)', HeldInv(t)', GuardInv(t)', LockInv(t)'
  PROVE  Inv'
  <1>1. \A u \in Threads : u # t => Spares(u, {}, {}, {}) BY DEF Inv, Types, Wanders, Spares
  <1>2. LatchInv' BY DEF Inv, LatchInv, Wanders
  <1>3. OwnInv(t)' BY DEF Inv, ThreadInv, OwnInv, Wanders
  <1>4. HistoryInv(t)'
    <2>1. Contents' = Contents BY TreeOf DEF Wanders
    <2>2. QED BY <2>1 DEF Inv, ThreadInv, HistoryInv, Active, Wanders
  <1>5. QED BY <1>1, <1>2, <1>3, <1>4, QuietKeeps DEF ThreadInv, Active, Wanders

\* A scan that waits keeps its leaf.
LEMMA HeldStays ==
  ASSUME NEW t, HeldInv(t), UNCHANGED <<nodes, made>>, held'[t] = held[t], op'[t] = op[t],
         key'[t] = key[t], seen'[t] = seen[t], sure'[t] = sure[t], maybe'[t] = maybe[t],
         held[t] # NoPage /\ op[t] = "desc" => goal'[t] = goal[t] /\ (pc'[t] = "scan" \/ pc[t] # "scan")
  PROVE  HeldInv(t)'
  <1>1. \A k : LeafOf(k)' = LeafOf(k) BY TreeOf
  <1>2. (\E k \in Places : held[t] = LeafOf(k)) => \E k \in Places : held'[t] = LeafOf(k)'
    BY <1>1
  <1>3. QED BY <1>2 DEF HeldInv

LEMMA StartKeeps ==
  ASSUME Inv, NEW t \in Threads, Start(t)
  PROVE  Inv'
  <1>1. /\ pc[t] = "start" /\ pc' = [pc EXCEPT ![t] = "inside"]
        /\ node' = [node EXCEPT ![t] = Meta] /\ fresh' = [fresh EXCEPT ![t] = {Meta}]
        /\ UNCHANGED <<nodes, made, xHeld, readers, op, key, goal, toSplit, par, held, seen, sure, maybe>>
    BY DEF Start, Goto, tree, latches, call, scan, history
  <1>2. Types /\ ThreadInv(t) BY DEF Inv
  <1>3. /\ pc'[t] = "inside" /\ node'[t] = Meta /\ fresh'[t] = {Meta} BY <1>1, <1>2 DEF Types
  <1>4. Meta \in 0..made /\ ~nodes[Meta].leaf /\ nodes[Meta].lo = 0 /\ nodes[Meta].hi = Top /\ Meta \in Pages
    BY RootFacts, PagesFacts DEF Inv
  <1>5. Types' BY <1>1, <1>2, <1>4 DEF Types, Steps
  <1>6. Wanders(t) BY <1>1, <1>2 DEF Types, Wanders
  <1>7. CallInv(t)' BY <1>1, <1>2, <1>3 DEF ThreadInv, CallInv, Active, Ensuring, Writing
  <1>8. HeldInv(t)' BY <1>1, <1>2, HeldStays DEF ThreadInv
  <1>9. GuardInv(t)'
    <2>1. goal[t] \in Places BY <1>1, <1>2 DEF ThreadInv, CallInv, Active
    <2>2. 0 < goal[t] /\ goal[t] <= Top BY <2>1, TopFacts DEF Places
    <2>3. OnPath(Meta, goal[t])' BY <1>1, <1>4, <2>2 DEF OnPath
    <2>4. QED BY <2>3, <1>1, <1>3, <1>4 DEF GuardInv, Guarded
  <1>10. LockInv(t)' BY <1>3 DEF LockInv
  <1>11. QED BY <1>3, <1>5, <1>6, <1>7, <1>8, <1>9, <1>10, WandersKeeps

LEMMA AcquireKeeps ==
  ASSUME Inv, NEW t \in Threads, Acquire(t)
  PROVE  Inv'
  <1>1. /\ pc[t] = "acquire" /\ pc' = [pc EXCEPT ![t] = "arrived"]
        /\ fresh' = [fresh EXCEPT ![t] = @ \cup {node[t]}]
        /\ UNCHANGED <<nodes, made, xHeld, readers, op, key, goal, toSplit, par, node, held, seen, sure, maybe>>
    BY DEF Acquire, Goto, tree, latches, call, scan, history, guards
  <1>2. Types /\ ThreadInv(t) BY DEF Inv
  <1>3. pc'[t] = "arrived" /\ fresh'[t] = fresh[t] \cup {node[t]} BY <1>1, <1>2 DEF Types
  <1>4. made \in Nat /\ \A p \in 0..made : p \in Pages BY RootFacts, PagesFacts DEF Inv
  <1>5. /\ par[t] \in 0..made /\ node[t] \in 1..made /\ par[t] # node[t] /\ ~nodes[par[t]].leaf
        /\ fresh[t] \subseteq {par[t], node[t]}
        /\ par[t] \in fresh[t] => Coupled(nodes, par[t], node[t], goal[t])
    BY <1>1, <1>2 DEF ThreadInv, GuardInv, Guarded
  <1>6. Types' BY <1>1, <1>2, <1>4, <1>5 DEF Types, Steps
  <1>7. Wanders(t) BY <1>1, <1>2 DEF Types, Wanders
  <1>8. CallInv(t)' BY <1>1, <1>2, <1>3 DEF ThreadInv, CallInv, Active, Ensuring, Writing
  <1>9. HeldInv(t)' BY <1>1, <1>2, HeldStays DEF ThreadInv
  <1>10. GuardInv(t)' BY <1>1, <1>3, <1>5 DEF GuardInv, Guarded
  <1>11. LockInv(t)' BY <1>3 DEF LockInv
  <1>12. QED BY <1>3, <1>6, <1>7, <1>8, <1>9, <1>10, <1>11, WandersKeeps

LEMMA BeginKeeps ==
  ASSUME Inv, NEW t \in Threads, Begin(t)
  PROVE  Inv'
  <1>1. /\ pc[t] = "idle" /\ op[t] # "none" /\ pc' = [pc EXCEPT ![t] = "start"]
        /\ goal' = [goal EXCEPT ![t] = key[t]]
        /\ sure' = [sure EXCEPT ![t] = Contents] /\ maybe' = [maybe EXCEPT ![t] = Contents]
        /\ UNCHANGED <<nodes, made, xHeld, readers, op, key, toSplit, par, node, fresh, held, seen>>
        /\ op[t] = "insert" =>
             /\ key[t] \notin Contents
             /\ \A u \in Threads : ~(Active(u) /\ <<op[u], key[u]>> = <<op[t], key[t]>>)
    BY DEF Begin, Goto, tree, latches, call, guards, scan
  <1>2. Types /\ ThreadInv(t) BY DEF Inv
  <1>3. /\ pc'[t] = "start" /\ goal'[t] = key[t] /\ sure'[t] = Contents /\ maybe'[t] = Contents
    BY <1>1, <1>2 DEF Types
  <1>4. key[t] \in Keys /\ key[t] \in Places /\ key[t] \in 0..Top /\ Contents \subseteq Keys
    BY <1>1, <1>2, TopFacts DEF ThreadInv, CallInv, Contents, Places
  <1>5. ~Active(t) /\ ~Ensuring(t) /\ held[t] = NoPage /\ seen[t] = {} /\ fresh[t] = {}
    BY <1>1, <1>2 DEF ThreadInv, CallInv, GuardInv, Active
  <1>6. Types' BY <1>1, <1>2, <1>4 DEF Types, Steps
  <1>7. \A u \in Threads : u # t => Spares(u, {}, {}, {}) BY <1>1, <1>2 DEF Types, Spares
  <1>8. LatchInv' BY <1>1 DEF Inv, LatchInv
  <1>9. CallInv(t)' BY <1>1, <1>2, <1>3, <1>4, <1>5 DEF ThreadInv, CallInv, Active, Ensuring, Writing
  <1>10. OwnInv(t)' BY <1>1, <1>2, <1>3 DEF ThreadInv, OwnInv
  <1>11. HeldInv(t)' BY <1>1, <1>5 DEF HeldInv
  <1>12. GuardInv(t)' BY <1>1, <1>3, <1>5 DEF GuardInv, Guarded
  <1>13. LockInv(t)' BY <1>3 DEF LockInv
  <1>14. HistoryInv(t)'
    <2>1. Contents' = Contents BY <1>1, TreeOf
    <2>2. QED BY <2>1, <1>1, <1>3 DEF HistoryInv
  <1>15. Effect(nodes, made, nodes', made', {}, {}, {}) BY <1>1, EffectNone DEF Inv
  <1>16. op'[t] = "insert" =>
           \A u \in Threads : u # t /\ Active(u) /\ op[u] = "insert" => key[u] # key'[t]
    BY <1>1
  <1>17. QED
    BY <1>6, <1>7, <1>8, <1>9, <1>10, <1>11, <1>12, <1>13, <1>14, <1>15, <1>16, StepKeeps DEF ThreadInv

LEMMA DescendKeeps ==
  ASSUME Inv, NEW t \in Threads, Descend(t)
  PROVE  Inv'
  <1>1. /\ pc[t] = "inside" /\ pc' = [pc EXCEPT ![t] = "acquire"]
        /\ ~nodes[node[t]].leaf /\ node[t] \in fresh[t]
        /\ par' = [par EXCEPT ![t] = node[t]]
        /\ node' = [node EXCEPT ![t] = KidFor(nodes, node[t], goal[t])]
        /\ fresh' = [fresh EXCEPT ![t] = {node[t]}]
        /\ UNCHANGED <<nodes, made, xHeld, readers, op, key, goal, toSplit, held, seen, sure, maybe>>
    BY TreeOf DEF Descend, Goto, AtLeaf, Valid, tree, latches, call, scan, history
  <1>2. Types /\ ThreadInv(t) BY DEF Inv
  <1>3. /\ pc'[t] = "acquire" /\ par'[t] = node[t] /\ fresh'[t] = {node[t]}
        /\ node'[t] = KidFor(nodes, node[t], goal[t])
    BY <1>1, <1>2 DEF Types
  <1>4. made \in Nat /\ \A p \in 0..made : p \in Pages BY RootFacts, PagesFacts DEF Inv
  <1>5. /\ node[t] \in 0..made /\ nodes[node[t]].lo < goal[t] /\ goal[t] <= nodes[node[t]].hi
        /\ goal[t] \in Places
    BY <1>1, <1>2 DEF ThreadInv, GuardInv, CallInv, OnPath, Active
  <1>6. /\ node'[t] \in 1..made /\ node'[t] \in Pages /\ node'[t] # node[t]
        /\ Coupled(nodes, node[t], node'[t], goal[t])
    BY <1>1, <1>3, <1>4, <1>5, ChildFacts DEF Inv, Coupled
  <1>7. Types' BY <1>1, <1>2, <1>3, <1>4, <1>5, <1>6 DEF Types, Steps
  <1>8. Wanders(t) BY <1>1, <1>2 DEF Types, Wanders
  <1>9. CallInv(t)' BY <1>1, <1>2, <1>3 DEF ThreadInv, CallInv, Active, Ensuring, Writing
  <1>10. HeldInv(t)' BY <1>1, <1>2, HeldStays DEF ThreadInv
  <1>11. GuardInv(t)' BY <1>1, <1>3, <1>5, <1>6 DEF GuardInv, Guarded
  <1>12. LockInv(t)' BY <1>3 DEF LockInv
  <1>13. QED BY <1>3, <1>7, <1>8, <1>9, <1>10, <1>11, <1>12, WandersKeeps

LEMMA ValidateKeeps ==
  ASSUME Inv, NEW t \in Threads, Validate(t)
  PROVE  Inv'
  <1>1. /\ pc[t] = "arrived" /\ pc' = [pc EXCEPT ![t] = "inside"] /\ par[t] \in fresh[t]
        /\ fresh' = [fresh EXCEPT ![t] = @ \ {par[t]}]
        /\ UNCHANGED <<nodes, made, xHeld, readers, op, key, goal, toSplit, par, node, held, seen, sure, maybe>>
    BY DEF Validate, LetGo, Goto, Valid, tree, latches, call, scan, history, guards
  <1>2. Types /\ ThreadInv(t) BY DEF Inv
  <1>3. pc'[t] = "inside" /\ fresh'[t] = fresh[t] \ {par[t]} BY <1>1, <1>2 DEF Types
  <1>4. /\ node[t] \in 1..made /\ fresh[t] \subseteq {par[t], node[t]}
        /\ Coupled(nodes, par[t], node[t], goal[t])
    BY <1>1, <1>2 DEF ThreadInv, GuardInv, Guarded
  <1>5. made \in Nat BY RootFacts DEF Inv
  <1>6. Types' BY <1>1, <1>2 DEF Types, Steps
  <1>7. Wanders(t) BY <1>1, <1>2 DEF Types, Wanders
  <1>8. CallInv(t)' BY <1>1, <1>2, <1>3 DEF ThreadInv, CallInv, Active, Ensuring, Writing
  <1>9. HeldInv(t)' BY <1>1, <1>2, HeldStays DEF ThreadInv
  <1>10. GuardInv(t)'
    <2>1. /\ nodes[node[t]].lo < goal[t] /\ goal[t] <= nodes[node[t]].hi
          /\ nodes[node[t]].leaf => node[t] = LeafOf(goal[t])
      BY <1>4, ChildFacts, TreeOf DEF Inv, Coupled
    <2>2. OnPath(node[t], goal[t])'
      <3>1. LeafOf(goal[t])' = LeafOf(goal[t]) BY <1>1, TreeOf
      <3>2. QED BY <2>1, <3>1, <1>1 DEF OnPath
    <2>3. QED BY <2>2, <1>1, <1>3, <1>4, <1>5 DEF GuardInv, Guarded
  <1>11. LockInv(t)' BY <1>3 DEF LockInv
  <1>12. QED BY <1>3, <1>6, <1>7, <1>8, <1>9, <1>10, <1>11, WandersKeeps

\* What a thread that keeps its guards knows.
LEMMA KeepsFacts ==
  ASSUME Inv, NEW t \in Threads, pc[t] = "arrived", Keeps(t)
  PROVE  /\ op[t] \in {"insert", "remove"} /\ (op[t] = "remove" => AtLeaf(t) /\ ~Ensuring(t))
         /\ (~Ensuring(t) => AtLeaf(t) /\ goal[t] = key[t]) /\ key[t] \in Keys
         /\ held[t] = NoPage
  <1>1. /\ node[t] \in 1..made /\ made \in Nat
    BY RootFacts DEF Inv, ThreadInv, GuardInv, Guarded
  <1>2. toSplit[t] = node[t] => Ensuring(t) BY <1>1 DEF Ensuring, NoPage
  <1>3. QED BY <1>2 DEF Inv, ThreadInv, CallInv, Keeps, Active

LEMMA CheckNodeKeeps ==
  ASSUME Inv, NEW t \in Threads, CheckNode(t)
  PROVE  Inv'
  <1>1. /\ pc[t] = "arrived" /\ pc' = [pc EXCEPT ![t] = "leaving"] /\ Keeps(t) /\ Leaves(t)
        /\ UNCHANGED <<nodes, made, xHeld, readers, op, key, goal, toSplit, par, node, fresh, held, seen,
                       sure, maybe>>
    BY DEF CheckNode, Goto, tree, latches, call, scan, history, guards
  <1>2. Types /\ ThreadInv(t) BY DEF Inv
  <1>3. pc'[t] = "leaving" BY <1>1, <1>2 DEF Types
  <1>4. /\ op[t] \in {"insert", "remove"} /\ (op[t] = "remove" => AtLeaf(t) /\ ~Ensuring(t))
        /\ (~Ensuring(t) => AtLeaf(t) /\ goal[t] = key[t]) /\ key[t] \in Keys
    BY <1>1, KeepsFacts
  <1>5. Types' BY <1>1, <1>2 DEF Types, Steps
  <1>6. Wanders(t) BY <1>1, <1>2 DEF Types, Wanders
  <1>7. CallInv(t)' BY <1>1, <1>2, <1>3, <1>4 DEF ThreadInv, CallInv, Active, Ensuring, Writing
  <1>8. HeldInv(t)' BY <1>1, <1>2, HeldStays DEF ThreadInv
  <1>9. GuardInv(t)' BY <1>1, <1>2, <1>3 DEF ThreadInv, GuardInv, Guarded
  <1>10. LockInv(t)'
    <2>1. ASSUME op[t] = "remove", par[t] \in fresh[t] PROVE key[t] \notin sure[t]
      <3>1. Coupled(nodes, par[t], node[t], key[t])
        BY <1>1, <1>2, <1>4, <2>1 DEF ThreadInv, GuardInv, Guarded
      <3>2. node[t] = LeafOf(key[t])
        BY <3>1, <1>4, <2>1, ChildFacts, TreeOf DEF Inv, Coupled, AtLeaf
      <3>3. key[t] \notin Contents BY <1>1, <1>4, <2>1, <3>2 DEF Leaves, Contents
      <3>4. QED BY <1>1, <1>2, <3>3 DEF ThreadInv, HistoryInv, Active
    <2>2. op[t] = "remove" \/ Ensuring(t) BY <1>1 DEF Leaves
    <2>3. QED BY <2>1, <2>2, <1>1, <1>3 DEF LockInv, Ensuring
  <1>11. QED BY <1>3, <1>5, <1>6, <1>7, <1>8, <1>9, <1>10, WandersKeeps

LEMMA ScanLeftKeeps ==
  ASSUME Inv, NEW t \in Threads, ScanLeft(t)
  PROVE  Inv'
  <1>1. /\ pc[t] = "scan" /\ pc' = [pc EXCEPT ![t] = "start"] /\ op[t] = "desc"
        /\ nodes[held[t]].lo # 0 /\ goal' = [goal EXCEPT ![t] = nodes[held[t]].lo]
        /\ UNCHANGED <<nodes, made, xHeld, readers, op, key, toSplit, par, node, fresh, held, seen,
                       sure, maybe>>
    BY DEF ScanLeft, Goto, tree, latches, call, scan, history, guards
  <1>2. Types /\ ThreadInv(t) BY DEF Inv
  <1>3. pc'[t] = "start" /\ goal'[t] = nodes[held[t]].lo BY <1>1, <1>2 DEF Types
  <1>4. held[t] # NoPage /\ \E k \in Places : held[t] = LeafOf(k)
    BY <1>1, <1>2 DEF ThreadInv, CallInv, HeldInv
  <1>5. nodes[held[t]].lo \in 0..Top BY <1>4, EndFacts, TreeOf DEF Inv
  <1>6. goal'[t] \in Places /\ goal'[t] \in 0..Top BY <1>1, <1>3, <1>5, TopFacts DEF Places
  <1>7. Types' BY <1>1, <1>2, <1>5 DEF Types, Steps
  <1>8. Wanders(t) BY <1>1, <1>2 DEF Types, Wanders
  <1>9. CallInv(t)'
    BY <1>1, <1>2, <1>3, <1>4, <1>6 DEF ThreadInv, CallInv, Active, Ensuring, Writing
  <1>10. HeldInv(t)'
    <2>1. \A k : LeafOf(k)' = LeafOf(k) BY <1>1, TreeOf
    <2>2. \E k \in Places : held'[t] = LeafOf(k)' BY <2>1, <1>1, <1>4
    <2>3. QED BY <2>2, <1>1, <1>2, <1>3, <1>4 DEF ThreadInv, HeldInv
  <1>11. GuardInv(t)' BY <1>1, <1>2, <1>3 DEF ThreadInv, GuardInv, Guarded
  <1>12. LockInv(t)' BY <1>3 DEF LockInv
  <1>13. QED BY <1>3, <1>7, <1>8, <1>9, <1>10, <1>11, <1>12, WandersKeeps

-------------------------------------------------------------------------------
(* The steps that latch a page exclusively.                                 *)
LEMMA FindsStays ==
  ASSUME NEW t, UNCHANGED <<nodes, op, key, par, node, toSplit>>
  PROVE  /\ HasSpace(node[t])' <=> HasSpace(node[t])
         /\ Merges(t)' <=> Merges(t)
         /\ ParentFirst(t)' <=> ParentFirst(t)
  <1>1. HasSpace(node[t])' <=> HasSpace(node[t]) BY DEF HasSpace, Seps
  <1>2. RightSlots(t)' = RightSlots(t) BY DEF RightSlots, Seps, Slot
  <1>3. Merges(t)' <=> Merges(t) BY <1>2 DEF Merges, AtLeaf
  <1>4. Leaves(t)' <=> Leaves(t) BY <1>1 DEF Leaves, AtLeaf, Ensuring
  <1>5. ParentFirst(t)' <=> ParentFirst(t) BY <1>3, <1>4 DEF ParentFirst, Ensuring
  <1>6. QED BY <1>1, <1>3, <1>5

\* What a page that is latched needs of its thread afterwards.
Latching(t, p) == xHeld' = [xHeld EXCEPT ![p] = {t}] /\ p \in fresh[t] /\ Free(p)

\* A page that is latched, at the version the thread knows.
LEMMA LatchingKeeps ==
  ASSUME Inv, NEW t \in Threads, NEW p \in Pages, Latching(t, p),
         UNCHANGED <<nodes, made, readers, op, key, goal, toSplit, par, node, fresh, held, seen, sure, maybe>>,
         NEW x \in Writing, pc' = [pc EXCEPT ![t] = x],
         pc[t] \in Guarded, op[t] \in {"insert", "remove"},
         \A q \in Pages : q = p \/ xHeld[q] = {t} =>
            \/ x = "holding" /\ q = node[t]
            \/ x = "lockNode" /\ q = par[t]
            \/ x \in {"split", "lockRight"} /\ q \in {par[t], node[t]},
         LockInv(t)'
  PROVE  Inv'
  <1>1. Types /\ ThreadInv(t) /\ LatchInv BY DEF Inv
  <1>2. pc'[t] = x /\ \A q \in Pages : xHeld'[q] = IF q = p THEN {t} ELSE xHeld[q]
    BY <1>1 DEF Types, Latching
  <1>3. Types' BY <1>1 DEF Types, Steps, Latching, Writing
  <1>4. ASSUME NEW u \in Threads, u # t PROVE Spares(u, {}, {}, {})
    <2>1. {t} # {u} BY <1>4
    <2>2. \A q \in Pages : (xHeld'[q] = {u}) <=> (xHeld[q] = {u}) BY <1>2, <2>1 DEF Latching, Free
    <2>3. QED BY <1>1, <1>4, <2>2 DEF Types, Spares
  <1>5. LatchInv' BY <1>1, <1>2 DEF LatchInv, Latching, Free
  <1>6. CallInv(t)' BY <1>1, <1>2 DEF ThreadInv, CallInv, Active, Ensuring, Writing, Guarded
  <1>7. OwnInv(t)' BY <1>1, <1>2 DEF ThreadInv, OwnInv
  <1>8. HeldInv(t)' BY <1>1 DEF ThreadInv, CallInv, HeldInv
  <1>9. GuardInv(t)' BY <1>1, <1>2 DEF ThreadInv, GuardInv, Guarded, Writing
  <1>10. HistoryInv(t)'
    <2>1. Contents' = Contents BY TreeOf
    <2>2. QED BY <2>1, <1>1 DEF ThreadInv, HistoryInv, Active, Guarded
  <1>11. QED BY <1>3, <1>4, <1>5, <1>6, <1>7, <1>8, <1>9, <1>10, QuietKeeps
            DEF ThreadInv, Active, Guarded

LEMMA LockLeafKeeps ==
  ASSUME Inv, NEW t \in Threads, LockLeaf(t)
  PROVE  Inv'
  <1>1. /\ pc[t] = "arrived" /\ pc' = [pc EXCEPT ![t] = "holding"] /\ Keeps(t) /\ NodeFirst(t)
        /\ Latching(t, node[t])
        /\ UNCHANGED <<nodes, made, readers, op, key, goal, toSplit, par, node, fresh, held, seen, sure, maybe>>
    BY DEF LockLeaf, LockX, Latching, Goto, tree, call, scan, history, guards
  <1>2. Types /\ ThreadInv(t) BY DEF Inv
  <1>3. /\ op[t] \in {"insert", "remove"} /\ (~Ensuring(t) => AtLeaf(t))
    BY <1>1, KeepsFacts
  <1>4. node[t] \in Pages /\ node[t] \in fresh[t] BY <1>1, <1>2 DEF Latching, Types
  <1>5. ~Ensuring(t) /\ (op[t] = "remove" => key[t] \in nodes[node[t]].keys)
    BY <1>1 DEF NodeFirst, Leaves, ParentFirst
  <1>6. LockInv(t)'
    <2>1. pc'[t] = "holding" /\ xHeld'[node[t]] = {t} BY <1>1, <1>2, <1>4 DEF Types, Latching
    <2>2. QED BY <2>1, <1>1, <1>3, <1>4, <1>5 DEF LockInv, AtLeaf, Ensuring
  <1>7. \A q \in Pages : xHeld[q] # {t} BY <1>1, <1>2 DEF ThreadInv, OwnInv
  <1>8. QED BY <1>1, <1>3, <1>4, <1>6, <1>7, LatchingKeeps DEF Writing, Guarded

LEMMA LockFullKeeps ==
  ASSUME Inv, NEW t \in Threads, LockFull(t)
  PROVE  Inv'
  <1>1. /\ pc[t] = "holding" /\ pc' = [pc EXCEPT ![t] = "split"] /\ op[t] = "insert"
        /\ ~HasSpace(node[t]) /\ Latching(t, par[t])
        /\ UNCHANGED <<nodes, made, readers, op, key, goal, toSplit, par, node, fresh, held, seen, sure, maybe>>
    BY DEF LockFull, LockX, Latching, Goto, tree, call, scan, history, guards
  <1>2. Types /\ ThreadInv(t) BY DEF Inv
  <1>3. par[t] \in Pages /\ par[t] \in fresh[t] BY <1>1, <1>2 DEF Latching, Types
  <1>4. xHeld[node[t]] = {t} /\ node[t] \in fresh[t] /\ node[t] \in Pages
    BY <1>1, <1>2 DEF ThreadInv, LockInv, Types
  <1>5. LockInv(t)'
    <2>1. pc'[t] = "split" /\ xHeld'[par[t]] = {t} /\ xHeld'[node[t]] = {t}
      BY <1>1, <1>2, <1>3, <1>4 DEF Types, Latching
    <2>2. ~HasSpace(node[t])' BY <1>1, FindsStays
    <2>3. QED BY <2>1, <2>2, <1>1, <1>3, <1>4 DEF LockInv
  <1>6. \A q \in Pages : xHeld[q] = {t} => q = node[t] BY <1>1, <1>2 DEF ThreadInv, OwnInv
  <1>7. QED BY <1>1, <1>3, <1>5, <1>6, LatchingKeeps DEF Writing, Guarded

LEMMA LockParentKeeps ==
  ASSUME Inv, NEW t \in Threads, LockParent(t)
  PROVE  Inv'
  <1>1. /\ pc[t] = "arrived" /\ pc' = [pc EXCEPT ![t] = "lockNode"] /\ Keeps(t) /\ ParentFirst(t)
        /\ Latching(t, par[t])
        /\ UNCHANGED <<nodes, made, readers, op, key, goal, toSplit, par, node, fresh, held, seen, sure, maybe>>
    BY DEF LockParent, LockX, Latching, Goto, tree, call, scan, history, guards
  <1>2. Types /\ ThreadInv(t) BY DEF Inv
  <1>3. op[t] \in {"insert", "remove"} BY <1>1, KeepsFacts
  <1>4. par[t] \in Pages /\ par[t] \in fresh[t] BY <1>1, <1>2 DEF Latching, Types
  <1>5. op[t] = "insert" => ~AtLeaf(t) BY <1>1 DEF ParentFirst, Merges, Leaves
  <1>6. LockInv(t)'
    <2>1. pc'[t] = "lockNode" /\ xHeld'[par[t]] = {t} BY <1>1, <1>2, <1>4 DEF Types, Latching
    <2>2. ParentFirst(t)' BY <1>1, FindsStays
    <2>3. QED BY <2>1, <2>2, <1>1, <1>4, <1>5 DEF LockInv, AtLeaf
  <1>7. \A q \in Pages : xHeld[q] # {t} BY <1>1, <1>2 DEF ThreadInv, OwnInv
  <1>8. QED BY <1>1, <1>3, <1>4, <1>6, <1>7, LatchingKeeps DEF Writing, Guarded

LEMMA LockNodeKeeps ==
  ASSUME Inv, NEW t \in Threads, LockNode(t)
  PROVE  Inv'
  <1> DEFINE x == IF op[t] = "remove" THEN "lockRight" ELSE "split"
  <1>1. /\ pc[t] = "lockNode" /\ pc' = [pc EXCEPT ![t] = x] /\ Latching(t, node[t])
        /\ UNCHANGED <<nodes, made, readers, op, key, goal, toSplit, par, node, fresh, held, seen, sure, maybe>>
    BY DEF LockNode, LockX, Latching, Goto, tree, call, scan, history, guards
  <1>2. Types /\ ThreadInv(t) BY DEF Inv
  <1>3. op[t] \in {"insert", "remove"} BY <1>1, <1>2 DEF ThreadInv, CallInv, Writing
  <1>4. node[t] \in Pages /\ node[t] \in fresh[t] BY <1>1, <1>2 DEF Latching, Types
  <1>5. xHeld[par[t]] = {t} /\ par[t] \in fresh[t] /\ par[t] \in Pages /\ ParentFirst(t)
    BY <1>1, <1>2, <1>4 DEF ThreadInv, LockInv, Types
  <1>6. /\ op[t] = "remove" => Merges(t)
        /\ op[t] = "insert" => ~HasSpace(node[t])
    BY <1>2, <1>5 DEF ParentFirst, Leaves, Merges, ThreadInv, CallInv
  <1>7. LockInv(t)'
    <2>1. pc'[t] = x /\ xHeld'[par[t]] = {t} /\ xHeld'[node[t]] = {t}
      BY <1>1, <1>2, <1>4, <1>5 DEF Types, Latching
    <2>2. /\ op[t] = "remove" => Merges(t)'
          /\ op[t] = "insert" => ~HasSpace(node[t])'
      BY <1>1, <1>6, FindsStays
    <2>3. QED BY <2>1, <2>2, <1>1, <1>3, <1>4, <1>5 DEF LockInv
  <1>8. \A q \in Pages : xHeld[q] = {t} => q = par[t] BY <1>1, <1>2 DEF ThreadInv, OwnInv
  <1>9. x \in Writing /\ x \in {"split", "lockRight"} BY DEF Writing
  <1> HIDE DEF x
  <1>10. QED BY <1>1, <1>3, <1>4, <1>7, <1>8, <1>9, LatchingKeeps DEF Guarded

-------------------------------------------------------------------------------
(* The steps that unlock and start again.                                   *)
LEMMA UnlockFacts ==
  ASSUME Inv, NEW t \in Threads, NEW others \in SUBSET Pages, \A p \in others : Free(p),
         Unlock(t, others)
  PROVE  /\ xHeld' \in [Pages -> SUBSET Threads] /\ fresh' \in [Threads -> SUBSET Pages]
         /\ fresh'[t] = {}
         /\ \A p \in Pages : xHeld'[p] # {t} /\ (xHeld'[p] = {} \/ xHeld'[p] = xHeld[p])
         /\ \A u \in Threads : u # t =>
              /\ fresh'[u] \subseteq fresh[u]
              /\ \A p \in Pages :
                   /\ (xHeld'[p] = {u}) <=> (xHeld[p] = {u})
                   /\ xHeld[p] = {u} /\ p \in fresh[u] => p \in fresh'[u]
                   /\ xHeld[p] = {t} \/ p \in others => p \notin fresh'[u] /\ xHeld[p] # {u} /\ held[u] # p
  <1> DEFINE mine == {p \in Pages : xHeld[p] = {t}} \cup others
  <1>1. /\ xHeld' = [p \in Pages |-> IF p \in mine THEN {} ELSE xHeld[p]]
        /\ fresh' = [u \in Threads |-> IF u = t THEN {} ELSE fresh[u] \ mine]
    BY DEF Unlock
  <1>2. Types /\ LatchInv BY DEF Inv
  <1>3. mine \subseteq Pages /\ \A p \in Pages : p \in mine <=> xHeld[p] = {t} \/ p \in others OBVIOUS
  <1> HIDE DEF mine
  <1>4. xHeld' \in [Pages -> SUBSET Threads] /\ fresh' \in [Threads -> SUBSET Pages] /\ fresh'[t] = {}
    BY <1>1, <1>2 DEF Types
  <1>5. \A p \in Pages : xHeld'[p] = IF p \in mine THEN {} ELSE xHeld[p] BY <1>1
  <1>6. \A p \in Pages : xHeld'[p] # {t} /\ (xHeld'[p] = {} \/ xHeld'[p] = xHeld[p]) BY <1>3, <1>5
  <1>7. ASSUME NEW u \in Threads, u # t
        PROVE  /\ fresh'[u] \subseteq fresh[u]
               /\ \A p \in Pages :
                    /\ (xHeld'[p] = {u}) <=> (xHeld[p] = {u})
                    /\ xHeld[p] = {u} /\ p \in fresh[u] => p \in fresh'[u]
                    /\ xHeld[p] = {t} \/ p \in others => p \notin fresh'[u] /\ xHeld[p] # {u} /\ held[u] # p
    <2>1. fresh'[u] = fresh[u] \ mine BY <1>1, <1>7
    <2>2. {t} # {u} BY <1>7
    <2>3. ASSUME NEW p \in Pages, p \in mine PROVE xHeld[p] # {u} /\ held[u] # p
      <3>1. xHeld[p] = {t} \/ xHeld[p] = {} BY <1>3, <2>3 DEF Free
      <3>2. readers[p] = {} BY <1>2, <1>3, <2>3 DEF Free, LatchInv
      <3>3. held[u] # p BY <3>2 DEF Inv, ThreadInv, OwnInv
      <3>4. QED BY <2>2, <3>1, <3>3
    <2>4. QED BY <1>3, <1>5, <2>1, <2>2, <2>3
  <1>8. QED BY <1>4, <1>6, <1>7

\* The guards of t end and its call starts again, looking for g; it may have changed pages C.
Again(t, C, g, s) ==
  /\ C \in SUBSET Pages /\ (\A p \in C : xHeld[p] = {t})
  /\ Effect(nodes, made, nodes', made', C, {}, {}) /\ Unlock(t, {})
  /\ UNCHANGED <<readers, op, key, par, node, held, seen, sure, maybe>>
  /\ pc' = [pc EXCEPT ![t] = "start"] /\ pc[t] \notin {"idle", "found", "missing", "scan"}
  /\ g \in Places /\ goal' = [goal EXCEPT ![t] = g]
  /\ s \in Pages \cup {NoPage} /\ toSplit' = [toSplit EXCEPT ![t] = s]
  /\ s # NoPage => op[t] = "insert"
  /\ s = NoPage /\ (op[t] = "desc" => held[t] = NoPage) => g = key[t]
  /\ held[t] # NoPage => nodes' = nodes /\ made' = made /\ g = goal[t]

LEMMA AgainKeeps ==
  ASSUME Inv, NEW t \in Threads, NEW C, NEW g, NEW s, Again(t, C, g, s)
  PROVE  Inv'
  <1>0. /\ C \in SUBSET Pages /\ (\A p \in C : xHeld[p] = {t})
        /\ Effect(nodes, made, nodes', made', C, {}, {}) /\ Unlock(t, {})
        /\ UNCHANGED <<readers, op, key, par, node, held, seen, sure, maybe>>
        /\ pc' = [pc EXCEPT ![t] = "start"] /\ pc[t] \notin {"idle", "found", "missing", "scan"}
        /\ g \in Places /\ goal' = [goal EXCEPT ![t] = g]
        /\ s \in Pages \cup {NoPage} /\ toSplit' = [toSplit EXCEPT ![t] = s]
        /\ s # NoPage => op[t] = "insert"
        /\ s = NoPage /\ (op[t] = "desc" => held[t] = NoPage) => g = key[t]
        /\ held[t] # NoPage => nodes' = nodes /\ made' = made /\ g = goal[t]
    BY DEF Again
  <1>1. Types /\ ThreadInv(t) /\ LatchInv BY <1>0 DEF Inv
  <1>2. /\ xHeld' \in [Pages -> SUBSET Threads] /\ fresh' \in [Threads -> SUBSET Pages]
        /\ fresh'[t] = {}
        /\ \A p \in Pages : xHeld'[p] # {t} /\ (xHeld'[p] = {} \/ xHeld'[p] = xHeld[p])
        /\ \A u \in Threads : u # t =>
             /\ fresh'[u] \subseteq fresh[u]
             /\ \A p \in Pages :
                  /\ (xHeld'[p] = {u}) <=> (xHeld[p] = {u})
                  /\ xHeld[p] = {u} /\ p \in fresh[u] => p \in fresh'[u]
                  /\ xHeld[p] = {t} => p \notin fresh'[u] /\ xHeld[p] # {u} /\ held[u] # p
    BY <1>0, UnlockFacts
  <1>3. pc'[t] = "start" /\ goal'[t] = g /\ toSplit'[t] = s BY <1>0, <1>1 DEF Types
  <1>4. g \in 0..Top /\ C \in SUBSET Int BY <1>0, TopFacts, PagesFacts DEF Places, Pages, Meta
  <1>5. Types' BY <1>0, <1>1, <1>2, <1>4 DEF Types, Steps
  <1>6. ASSUME NEW u \in Threads, u # t PROVE Spares(u, C, {}, {})
    <2>1. \A p \in C : p \notin fresh'[u] /\ xHeld[p] # {u} /\ held[u] # p BY <1>0, <1>2, <1>6
    <2>2. /\ pc'[u] = pc[u] /\ goal'[u] = goal[u] /\ toSplit'[u] = toSplit[u]
          /\ sure'[u] = sure[u] \ {} /\ maybe'[u] = maybe[u] \cup {}
      BY <1>0, <1>1, <1>6 DEF Types
    <2>3. QED BY <2>1, <2>2, <1>0, <1>2, <1>6 DEF Spares
  <1>7. LatchInv' BY <1>0, <1>1, <1>2 DEF LatchInv
  <1>8. CallInv(t)'
    BY <1>0, <1>1, <1>3 DEF ThreadInv, CallInv, Active, Ensuring, Writing
  <1>9. OwnInv(t)' BY <1>0, <1>1, <1>2 DEF ThreadInv, OwnInv
  <1>10. HeldInv(t)'
    <2>1. CASE held[t] = NoPage BY <1>0, <2>1 DEF HeldInv
    <2>2. CASE held[t] # NoPage BY <1>0, <2>2, <1>1, <1>3, HeldStays DEF ThreadInv
    <2>3. QED BY <1>0, <2>1, <2>2
  <1>11. GuardInv(t)' BY <1>0, <1>2, <1>3 DEF GuardInv, Guarded
  <1>12. LockInv(t)' BY <1>0, <1>3 DEF LockInv
  <1>13. HistoryInv(t)'
    <2>1. Contents' = (Contents \ {}) \cup {}
      <3>1. Effect(nodes, made, nodes', made', C, {}, {}) /\ {} \subseteq Keys BY <1>0
      <3>2. QED BY <3>1, ContentsEffect
    <2>2. Contents' = Contents BY <2>1
    <2>3. QED BY <2>2, <1>0, <1>1 DEF ThreadInv, HistoryInv, Active
  <1>14. Active(t) /\ Active(t)' /\ op'[t] = "insert" =>
           \A u \in Threads : u # t /\ Active(u) /\ op[u] = "insert" => key[u] # key'[t]
    BY <1>0 DEF Inv, Distinct
  <1>15. Active(t) BY <1>0 DEF Active
  <1>16. QED
    BY <1>0, <1>4, <1>5, <1>6, <1>7, <1>8, <1>9, <1>10, <1>11, <1>12, <1>13, <1>14, <1>15, StepKeeps
       DEF ThreadInv

\* Restarts.
LEMMA RestartKeeps ==
  ASSUME Inv, NEW t \in Threads, Restart(t) \/ LockSFails(t)
  PROVE  Inv'
  <1>1. /\ pc[t] \notin {"idle", "found", "missing", "scan"} /\ pc' = [pc EXCEPT ![t] = "start"]
        /\ Unlock(t, {})
        /\ UNCHANGED <<nodes, made, readers, op, key, goal, toSplit, par, node, held, seen, sure, maybe>>
    BY DEF Restart, LockSFails, Stale, Goto, tree, call, scan, history, guards
  <1>2. Types /\ ThreadInv(t) BY DEF Inv
  <1>3. /\ goal' = [goal EXCEPT ![t] = goal[t]] /\ toSplit' = [toSplit EXCEPT ![t] = toSplit[t]]
        /\ goal[t] \in Places /\ toSplit[t] \in Pages \cup {NoPage}
    BY <1>1, <1>2 DEF Types, ThreadInv, CallInv, Active
  <1>4. Effect(nodes, made, nodes', made', {}, {}, {}) BY <1>1, EffectNone DEF Inv
  <1>5. /\ toSplit[t] # NoPage => op[t] = "insert"
        /\ toSplit[t] = NoPage /\ (op[t] = "desc" => held[t] = NoPage) => goal[t] = key[t]
    BY <1>1, <1>2 DEF ThreadInv, CallInv, Ensuring, Active
  <1>6. Again(t, {}, goal[t], toSplit[t]) BY <1>1, <1>3, <1>4, <1>5 DEF Again
  <1>7. QED BY <1>6, AgainKeeps

\* A thread about to split.
LEMMA SplitFacts ==
  ASSUME Inv, NEW t \in Threads, pc[t] = "split"
  PROVE  /\ op[t] = "insert" /\ key[t] \in Keys /\ key[t] \in Places /\ held[t] = NoPage
         /\ Coupled(nodes, par[t], node[t], goal[t]) /\ ~HasSpace(node[t])
         /\ xHeld[par[t]] = {t} /\ xHeld[node[t]] = {t} /\ par[t] \in Pages /\ node[t] \in Pages
  <1>1. ThreadInv(t) /\ Types BY DEF Inv
  <1>2. /\ op[t] = "insert" /\ par[t] \in fresh[t] /\ node[t] \in fresh[t] /\ ~HasSpace(node[t])
        /\ xHeld[par[t]] = {t} /\ xHeld[node[t]] = {t}
    BY <1>1 DEF ThreadInv, LockInv
  <1>3. Coupled(nodes, par[t], node[t], goal[t]) BY <1>1, <1>2 DEF ThreadInv, GuardInv, Guarded
  <1>4. QED BY <1>1, <1>2, <1>3, TopFacts DEF ThreadInv, CallInv, Types

LEMMA SplitKeeps ==
  ASSUME Inv, NEW t \in Threads, SplitRoot(t) \/ SplitNode(t)
  PROVE  Inv'
  <1>1. /\ pc[t] = "split" /\ pc' = [pc EXCEPT ![t] = "start"] /\ Unlock(t, {})
        /\ toSplit' = [toSplit EXCEPT ![t] = NoPage] /\ goal' = [goal EXCEPT ![t] = key[t]]
        /\ UNCHANGED <<readers, op, key, par, node, held, seen, sure, maybe>>
    BY DEF SplitRoot, SplitNode, Splits, Goto, call, scan, history, guards
  <1>2. Effect(nodes, made, nodes', made', {node[t], par[t]}, {}, {})
    BY <1>1, SplitFacts, SplitRootEffect, SplitNodeEffect DEF Inv
  <1>3. Again(t, {node[t], par[t]}, key[t], NoPage) BY <1>1, <1>2, SplitFacts DEF Again
  <1>4. QED BY <1>3, AgainKeeps

LEMMA SplitParentKeeps ==
  ASSUME Inv, NEW t \in Threads, SplitParent(t)
  PROVE  Inv'
  <1>1. PICK sep \in Separators(node[t]) : goal' = [goal EXCEPT ![t] = sep] BY DEF SplitParent
  <1>2. /\ pc[t] = "split" /\ pc' = [pc EXCEPT ![t] = "start"] /\ Unlock(t, {})
        /\ toSplit' = [toSplit EXCEPT ![t] = par[t]]
        /\ UNCHANGED <<nodes, made, readers, op, key, par, node, held, seen, sure, maybe>>
    BY DEF SplitParent, Splits, Goto, tree, call, scan, history, guards
  <1>3. sep \in Places BY <1>2, SplitFacts, SeparatorOf DEF Inv
  <1>4. Effect(nodes, made, nodes', made', {}, {}, {}) BY <1>2, EffectNone DEF Inv
  <1>5. par[t] # NoPage /\ par[t] \in Pages BY <1>2, SplitFacts DEF Pages, Meta, NoPage
  <1>6. Again(t, {}, sep, par[t]) BY <1>1, <1>2, <1>3, <1>4, <1>5, SplitFacts DEF Again
  <1>7. QED BY <1>6, AgainKeeps

LEMMA FoundSpaceKeeps ==
  ASSUME Inv, NEW t \in Threads, CheckParent(t), Ensuring(t)
  PROVE  Inv'
  <1>1. /\ pc[t] = "leaving" /\ pc' = [pc EXCEPT ![t] = "start"]
        /\ toSplit' = [toSplit EXCEPT ![t] = NoPage] /\ goal' = [goal EXCEPT ![t] = key[t]]
        /\ fresh' = [fresh EXCEPT ![t] = {}]
        /\ UNCHANGED <<nodes, made, xHeld, readers, op, key, par, node, held, seen, sure, maybe>>
    BY DEF CheckParent, Goto, tree, latches, call, scan, history, guards
  <1>2. Types /\ ThreadInv(t) BY DEF Inv
  <1>3. /\ pc'[t] = "start" /\ toSplit'[t] = NoPage /\ goal'[t] = key[t] /\ fresh'[t] = {}
    BY <1>1, <1>2 DEF Types
  <1>4. op[t] = "insert" /\ key[t] \in Keys /\ key[t] \in Places /\ key[t] \in 0..Top /\ held[t] = NoPage
    BY <1>2, TopFacts DEF ThreadInv, CallInv, Places
  <1>5. Types' BY <1>1, <1>2, <1>4 DEF Types, Steps
  <1>6. Wanders(t) BY <1>1, <1>2 DEF Types, Wanders
  <1>7. CallInv(t)'
    BY <1>1, <1>2, <1>3, <1>4 DEF ThreadInv, CallInv, Active, Ensuring, Writing
  <1>8. HeldInv(t)' BY <1>1, <1>4 DEF HeldInv
  <1>9. GuardInv(t)' BY <1>3 DEF GuardInv, Guarded
  <1>10. LockInv(t)' BY <1>3 DEF LockInv
  <1>11. QED BY <1>3, <1>5, <1>6, <1>7, <1>8, <1>9, <1>10, WandersKeeps

-------------------------------------------------------------------------------
(* The steps with which a call returns.                                     *)
Returns(t, others, C, gone, come, x) ==
  /\ others \in SUBSET Pages /\ (\A p \in others : Free(p))
  /\ C \in SUBSET Pages /\ (\A p \in C : xHeld[p] = {t} \/ p \in others)
  /\ come \subseteq Keys /\ Effect(nodes, made, nodes', made', C, gone, come)
  /\ Finish(t, others, gone, come)
  /\ pc' = [pc EXCEPT ![t] = x] /\ x \in {"idle", "found", "missing"} /\ ~Ensuring(t)
  /\ \A u \in Threads : u # t /\ Active(u) /\ op[u] = "insert" => key[u] \notin come

LEMMA ReturnKeeps ==
  ASSUME Inv, NEW t \in Threads, NEW others, NEW C, NEW gone, NEW come, NEW x,
         Returns(t, others, C, gone, come, x)
  PROVE  Inv'
  <1>1. /\ others \in SUBSET Pages /\ (\A p \in others : Free(p))
        /\ C \in SUBSET Pages /\ (\A p \in C : xHeld[p] = {t} \/ p \in others)
        /\ come \subseteq Keys /\ Effect(nodes, made, nodes', made', C, gone, come)
        /\ pc' = [pc EXCEPT ![t] = x] /\ x \in {"idle", "found", "missing"} /\ ~Ensuring(t)
        /\ \A u \in Threads : u # t /\ Active(u) /\ op[u] = "insert" => key[u] \notin come
    BY DEF Returns
  <1>2. /\ Unlock(t, others)
        /\ sure' = [u \in Threads |-> IF u = t THEN {} ELSE sure[u] \ gone]
        /\ maybe' = [u \in Threads |-> IF u = t \/ ~Active(u) THEN {} ELSE maybe[u] \cup come]
        /\ readers' = [p \in Pages |-> readers[p] \ {t}]
        /\ op' = [op EXCEPT ![t] = "none"] /\ key' = [key EXCEPT ![t] = 0]
        /\ goal' = [goal EXCEPT ![t] = 0]
        /\ par' = [par EXCEPT ![t] = NoPage] /\ node' = [node EXCEPT ![t] = NoPage]
        /\ held' = [held EXCEPT ![t] = NoPage] /\ seen' = [seen EXCEPT ![t] = {}]
        /\ toSplit' = toSplit
    BY DEF Returns, Finish
  <1>3. Types /\ ThreadInv(t) /\ LatchInv BY DEF Inv
  <1>4. /\ xHeld' \in [Pages -> SUBSET Threads] /\ fresh' \in [Threads -> SUBSET Pages]
        /\ fresh'[t] = {}
        /\ \A p \in Pages : xHeld'[p] # {t} /\ (xHeld'[p] = {} \/ xHeld'[p] = xHeld[p])
        /\ \A u \in Threads : u # t =>
             /\ fresh'[u] \subseteq fresh[u]
             /\ \A p \in Pages :
                  /\ (xHeld'[p] = {u}) <=> (xHeld[p] = {u})
                  /\ xHeld[p] = {u} /\ p \in fresh[u] => p \in fresh'[u]
                  /\ xHeld[p] = {t} \/ p \in others => p \notin fresh'[u] /\ xHeld[p] # {u} /\ held[u] # p
    BY <1>1, <1>2, UnlockFacts
  <1>5. /\ pc'[t] = x /\ op'[t] = "none" /\ key'[t] = 0 /\ held'[t] = NoPage /\ seen'[t] = {}
        /\ toSplit'[t] = NoPage
    BY <1>1, <1>2, <1>3 DEF Types, Ensuring
  <1>6. Types'
    <2>1. sure' \in [Threads -> SUBSET Keys] /\ maybe' \in [Threads -> SUBSET Keys]
      BY <1>1, <1>2, <1>3 DEF Types
    <2>2. readers' \in [Pages -> SUBSET Threads] BY <1>2, <1>3 DEF Types
    <2>3. 0 \in 0..Top BY TopFacts
    <2>4. /\ pc' \in [Threads -> Steps] /\ op' \in [Threads -> Operations \cup {"none"}]
          /\ key' \in [Threads -> Keys \cup {0}] /\ goal' \in [Threads -> 0..Top]
      BY <1>1, <1>2, <1>3, <2>3 DEF Types, Steps
    <2>5. QED BY <1>2, <1>3, <1>4, <2>1, <2>2, <2>4 DEF Types
  <1>7. ASSUME NEW u \in Threads, u # t PROVE Spares(u, C, gone, come)
    <2>1. \A p \in C : p \notin fresh'[u] /\ xHeld[p] # {u} /\ held[u] # p BY <1>1, <1>4, <1>7
    <2>2. /\ pc'[u] = pc[u] /\ op'[u] = op[u] /\ key'[u] = key[u] /\ goal'[u] = goal[u]
          /\ par'[u] = par[u] /\ node'[u] = node[u] /\ held'[u] = held[u] /\ seen'[u] = seen[u]
      BY <1>1, <1>2, <1>3, <1>7 DEF Types
    <2>3. sure'[u] = sure[u] \ gone /\ (Active(u) => maybe'[u] = maybe[u] \cup come) BY <1>2, <1>7
    <2>4. \A p \in Pages : (u \in readers'[p]) <=> (u \in readers[p]) BY <1>2, <1>7
    <2>5. QED BY <2>1, <2>2, <2>3, <2>4, <1>2, <1>4, <1>7 DEF Spares
  <1>8. LatchInv' BY <1>2, <1>3, <1>4 DEF LatchInv
  <1>9. CallInv(t)' BY <1>1, <1>5 DEF CallInv, Active, Ensuring, Writing
  <1>10. OwnInv(t)'
    <2>1. \A p \in Pages : p # NoPage BY PagesFacts DEF Pages, Meta, NoPage
    <2>2. QED BY <2>1, <1>2, <1>4, <1>5 DEF OwnInv
  <1>11. HeldInv(t)' BY <1>5 DEF HeldInv
  <1>12. GuardInv(t)' BY <1>1, <1>4, <1>5 DEF GuardInv, Guarded
  <1>13. LockInv(t)' BY <1>1, <1>5 DEF LockInv
  <1>14. ~Active(t)' BY <1>1, <1>5 DEF Active
  <1>15. HistoryInv(t)' BY <1>14 DEF HistoryInv
  <1>16. C \in SUBSET Int BY <1>1, PagesFacts DEF Pages, Meta
  <1>17. QED
    BY <1>1, <1>6, <1>7, <1>8, <1>9, <1>10, <1>11, <1>12, <1>13, <1>14, <1>15, <1>16, StepKeeps
       DEF ThreadInv

\* lookup, updateInPlace, a remove that finds nothing, and the end of a scan.
LEMMA AnswerKeeps ==
  ASSUME Inv, NEW t \in Threads,
         Lookup(t) \/ Update(t) \/ ScanEnd(t) \/ (CheckParent(t) /\ ~Ensuring(t))
  PROVE  Inv'
  <1>1. /\ nodes' = nodes /\ made' = made /\ Active(t) /\ ~Ensuring(t)
        /\ \E x \in {"idle", "found", "missing"} : pc' = [pc EXCEPT ![t] = x]
        /\ \/ Finish(t, {}, {}, {})
           \/ Finish(t, {node[t]}, {}, {}) /\ Free(node[t]) /\ node[t] \in fresh[t]
    <2>1. CASE Lookup(t)
      BY <2>1 DEF Inv, ThreadInv, CallInv, Lookup, Goto, Answer, tree, Active
    <2>2. CASE Update(t)
      BY <2>2 DEF Inv, ThreadInv, CallInv, Update, Goto, tree, Active, Valid
    <2>3. CASE ScanEnd(t)
      BY <2>3 DEF Inv, ThreadInv, CallInv, ScanEnd, Goto, tree, Active
    <2>4. CASE CheckParent(t) /\ ~Ensuring(t) BY <2>4 DEF CheckParent, Goto, tree, Active
    <2>5. QED BY <2>1, <2>2, <2>3, <2>4
  <1>2. PICK x \in {"idle", "found", "missing"} : pc' = [pc EXCEPT ![t] = x] BY <1>1
  <1>3. Effect(nodes, made, nodes', made', {}, {}, {}) BY <1>1, EffectNone DEF Inv
  <1>4. node[t] \in fresh[t] => node[t] \in Pages BY DEF Inv, Types
  <1>5. \/ Returns(t, {}, {}, {}, {}, x)
        \/ Returns(t, {node[t]}, {}, {}, {}, x)
    BY <1>1, <1>2, <1>3, <1>4 DEF Returns
  <1>6. QED BY <1>5, ReturnKeeps

\* What a thread knows that has locked its leaf, and finds its parent's version current.
LEMMA LeafFacts ==
  ASSUME Inv, NEW t \in Threads, pc[t] \in {"holding", "lockRight"}, par[t] \in fresh[t],
         pc[t] = "lockRight" => ~Ensuring(t)
  PROVE  /\ key[t] \in Keys /\ node[t] \in Pages /\ par[t] \in Pages
         /\ xHeld[node[t]] = {t} /\ AtLeaf(t) /\ ~Ensuring(t)
         /\ Coupled(nodes, par[t], node[t], key[t]) /\ node[t] = LeafOf(key[t])
  <1>1. ThreadInv(t) /\ Types BY DEF Inv
  <1>2. /\ xHeld[node[t]] = {t} /\ node[t] \in fresh[t] /\ AtLeaf(t) /\ ~Ensuring(t)
    BY <1>1 DEF ThreadInv, LockInv, Merges
  <1>3. key[t] \in Keys /\ goal[t] = key[t] BY <1>1, <1>2 DEF ThreadInv, CallInv, Active, Writing
  <1>4. Coupled(nodes, par[t], node[t], key[t])
    BY <1>1, <1>3 DEF ThreadInv, GuardInv, Guarded
  <1>5. node[t] = LeafOf(key[t]) BY <1>2, <1>4, ChildFacts, TreeOf DEF Inv, Coupled, AtLeaf
  <1>6. QED BY <1>1, <1>2, <1>3, <1>4, <1>5 DEF Types

LEMMA InsertKeeps ==
  ASSUME Inv, NEW t \in Threads, Insert(t)
  PROVE  Inv'
  <1>1. /\ pc[t] = "holding" /\ pc' = [pc EXCEPT ![t] = "idle"] /\ op[t] = "insert"
        /\ par[t] \in fresh[t] /\ Finish(t, {}, {}, {key[t]})
    BY DEF Insert, Goto, Valid
  <1>2. /\ key[t] \in Keys /\ node[t] \in Pages /\ xHeld[node[t]] = {t} /\ ~Ensuring(t)
        /\ node[t] = LeafOf(key[t])
    BY <1>1, LeafFacts
  <1>3. Effect(nodes, made, nodes', made', {node[t]}, {}, {key[t]}) BY <1>2, InsertEffect DEF Inv
  <1>4. \A u \in Threads : u # t /\ Active(u) /\ op[u] = "insert" => key[u] \notin {key[t]}
    BY <1>1 DEF Inv, Distinct, Active
  <1>5. Returns(t, {}, {node[t]}, {}, {key[t]}, "idle") BY <1>1, <1>2, <1>3, <1>4 DEF Returns
  <1>6. QED BY <1>5, ReturnKeeps

LEMMA RemoveKeeps ==
  ASSUME Inv, NEW t \in Threads, Remove(t)
  PROVE  Inv'
  <1>1. /\ pc[t] = "holding" /\ pc' = [pc EXCEPT ![t] = "found"]
        /\ par[t] \in fresh[t] /\ Finish(t, {}, {key[t]}, {})
        /\ made' = made /\ nodes' = [nodes EXCEPT ![node[t]].keys = @ \ {key[t]}]
    BY DEF Remove, Goto, Valid
  <1>2. /\ key[t] \in Keys /\ node[t] \in Pages /\ xHeld[node[t]] = {t} /\ ~Ensuring(t)
        /\ node[t] = LeafOf(key[t])
    BY <1>1, LeafFacts
  <1>3. Effect(nodes, made, nodes', made', {node[t]}, {key[t]}, {})
    BY <1>1, <1>2, RemoveEffect DEF Inv
  <1>4. Returns(t, {}, {node[t]}, {key[t]}, {}, "found") BY <1>1, <1>2, <1>3 DEF Returns
  <1>5. QED BY <1>4, ReturnKeeps

\* The right neighbour that remove takes is a page of the tree.
LEMMA RightIs ==
  ASSUME NEW t, Tree(nodes, made), Coupled(nodes, par[t], node[t], key[t]), RightSlots(t) # {}
  PROVE  Right(t) \in 1..made /\ Right(t) \in Pages
  <1> DEFINE p == par[t]
             s == Min(RightSlots(t))
  <1>1. PICK h, at : Shape(nodes, made, h, at) BY DEF Tree
  <1>2. p \in Pages /\ ~nodes[p].leaf BY DEF Coupled
  <1>3. /\ DOMAIN nodes[p].kids \subseteq Places
        /\ \A d \in DOMAIN nodes[p].kids : d # Top => nodes[p].lo < d /\ d < nodes[p].hi
    BY <1>1, <1>2 DEF Shape, Slots
  <1>4. RightSlots(t) \subseteq DOMAIN nodes[p].kids /\ Top \notin RightSlots(t)
    BY DEF RightSlots, Seps
  <1>5. s \in RightSlots(t)
    <2>1. RightSlots(t) \subseteq Nat BY <1>3, <1>4, TopFacts DEF Places
    <2>2. QED BY <2>1, MinIs
  <1>6. s \in Places /\ s \in DOMAIN nodes[p].kids /\ nodes[p].lo < s /\ s <= nodes[p].hi
    <2>1. nodes[p].hi \in Nat /\ s \in Nat BY <1>1, <1>2, <1>3, <1>4, <1>5, TopFacts DEF Shape, Records, Places
    <2>2. QED BY <2>1, <1>3, <1>4, <1>5
  <1> HIDE DEF s, p
  <1>7. SlotIn(nodes[p].kids, s) = s
    <2>1. s >= s /\ \A d \in DOMAIN nodes[p].kids : d >= s => s <= d
      BY <1>3, <1>6, TopFacts DEF Places
    <2>2. QED BY <2>1, <1>3, <1>6, SlotEquals
  <1>8. KidFor(nodes, p, s) \in 1..made /\ KidFor(nodes, p, s) \in Pages BY <1>2, <1>6, ChildFacts
  <1>9. KidFor(nodes, p, s) = Right(t) BY <1>7 DEF KidFor, Right, s, p
  <1>10. QED BY <1>8, <1>9

\* A remove about to merge or not: what it holds, and what it does.
LEMMA UnderfullFacts ==
  ASSUME Inv, NEW t \in Threads, RemoveUnderfull(t)
  PROVE  /\ node[t] \in Pages /\ par[t] \in Pages /\ Right(t) \in Pages /\ ~Ensuring(t)
         /\ xHeld[node[t]] = {t} /\ xHeld[par[t]] = {t}
         /\ \/ Effect(nodes, made, nodes', made', {node[t]}, {key[t]}, {})
            \/ Effect(nodes, made, nodes', made', {node[t], par[t], Right(t)}, {key[t]}, {})
  <1>1. /\ pc[t] = "lockRight" /\ pc' = [pc EXCEPT ![t] = "found"] /\ Free(Right(t))
        /\ Finish(t, {Right(t)}, {key[t]}, {}) /\ made' = made
        /\ \/ nodes' = [nodes EXCEPT ![node[t]].keys = @ \ {key[t]}]
           \/ nodes' = [nodes EXCEPT
                ![node[t]] = MergedLeaf(t, nodes[Right(t)]),
                ![par[t]].kids = MergedKids(@, Slot(par[t], key[t]), Min(RightSlots(t)), node[t])]
    BY DEF RemoveUnderfull, Goto
  <1>2. /\ par[t] \in fresh[t] /\ xHeld[par[t]] = {t} /\ Merges(t) /\ op[t] = "remove" /\ ~Ensuring(t)
    BY <1>1 DEF Inv, ThreadInv, LockInv, CallInv
  <1>3. /\ key[t] \in Keys /\ node[t] \in Pages /\ par[t] \in Pages /\ xHeld[node[t]] = {t}
        /\ AtLeaf(t) /\ Coupled(nodes, par[t], node[t], key[t]) /\ node[t] = LeafOf(key[t])
    BY <1>1, <1>2, LeafFacts
  <1>4. par[t] # Meta /\ RightSlots(t) # {} BY <1>2 DEF Merges
  <1>5. Right(t) \in Pages BY <1>3, <1>4, RightIs DEF Inv
  <1>6. Right(t) # node[t] BY <1>1, <1>3 DEF Free
  <1>7. \/ Effect(nodes, made, nodes', made', {node[t]}, {key[t]}, {})
        \/ Effect(nodes, made, nodes', made', {node[t], par[t], Right(t)}, {key[t]}, {})
    <2>1. CASE nodes' = [nodes EXCEPT ![node[t]].keys = @ \ {key[t]}]
      BY <1>1, <1>3, <2>1, RemoveEffect DEF Inv
    <2>2. CASE nodes' = [nodes EXCEPT
                ![node[t]] = MergedLeaf(t, nodes[Right(t)]),
                ![par[t]].kids = MergedKids(@, Slot(par[t], key[t]), Min(RightSlots(t)), node[t])]
      <3>1. TakesRight(t) BY <1>1, <1>3, <1>4, <1>6, <2>2 DEF TakesRight, AtLeaf
      <3>2. QED BY <3>1, UnderfullEffect DEF Inv
    <2>3. QED BY <1>1, <2>1, <2>2
  <1>8. QED BY <1>2, <1>3, <1>5, <1>7

LEMMA UnderfullKeeps ==
  ASSUME Inv, NEW t \in Threads, RemoveUnderfull(t)
  PROVE  Inv'
  <1>1. /\ pc' = [pc EXCEPT ![t] = "found"] /\ Free(Right(t)) /\ Finish(t, {Right(t)}, {key[t]}, {})
    BY DEF RemoveUnderfull, Goto
  <1>2. /\ node[t] \in Pages /\ par[t] \in Pages /\ Right(t) \in Pages /\ ~Ensuring(t)
        /\ xHeld[node[t]] = {t} /\ xHeld[par[t]] = {t}
        /\ \/ Effect(nodes, made, nodes', made', {node[t]}, {key[t]}, {})
           \/ Effect(nodes, made, nodes', made', {node[t], par[t], Right(t)}, {key[t]}, {})
    BY UnderfullFacts
  <1>3. \/ Returns(t, {Right(t)}, {node[t]}, {key[t]}, {}, "found")
        \/ Returns(t, {Right(t)}, {node[t], par[t], Right(t)}, {key[t]}, {}, "found")
    BY <1>1, <1>2 DEF Returns
  <1>4. QED BY <1>3, ReturnKeeps

-------------------------------------------------------------------------------
(* The steps of scans that take a leaf.                                     *)
Takes(t, p, R) ==
  /\ p \in Pages /\ ~Locked(p) /\ Hold(t, p) /\ R \subseteq Keys
  /\ seen' = [seen EXCEPT ![t] = @ \cup R] /\ fresh' = [fresh EXCEPT ![t] = {}]
  /\ pc' = [pc EXCEPT ![t] = "scan"] /\ pc[t] \in {"inside", "scan"} /\ op[t] \in {"asc", "desc"}
  /\ UNCHANGED <<nodes, made, xHeld, op, key, goal, toSplit, par, node, sure, maybe>>

LEMMA TakesKeeps ==
  ASSUME Inv, NEW t \in Threads, NEW p, NEW R, Takes(t, p, R), HeldInv(t)'
  PROVE  Inv'
  <1>1. /\ p \in Pages /\ xHeld[p] = {} /\ R \subseteq Keys
        /\ held' = [held EXCEPT ![t] = p]
        /\ readers' = [q \in Pages |-> IF q = p THEN readers[q] \cup {t} ELSE readers[q] \ {t}]
        /\ seen' = [seen EXCEPT ![t] = @ \cup R] /\ fresh' = [fresh EXCEPT ![t] = {}]
        /\ pc' = [pc EXCEPT ![t] = "scan"] /\ pc[t] \in {"inside", "scan"} /\ op[t] \in {"asc", "desc"}
        /\ UNCHANGED <<nodes, made, xHeld, op, key, goal, toSplit, par, node, sure, maybe>>
    BY DEF Takes, Hold, Locked
  <1>2. Types /\ ThreadInv(t) /\ LatchInv BY DEF Inv
  <1>3. pc'[t] = "scan" /\ fresh'[t] = {} /\ held'[t] = p /\ p # NoPage
    BY <1>1, <1>2, PagesFacts DEF Types
  <1>4. Types'
    <2>1. readers' \in [Pages -> SUBSET Threads] BY <1>1, <1>2 DEF Types
    <2>2. seen' \in [Threads -> SUBSET Keys] BY <1>1, <1>2 DEF Types
    <2>3. QED BY <1>1, <1>2, <2>1, <2>2 DEF Types, Steps
  <1>5. ASSUME NEW u \in Threads, u # t PROVE Spares(u, {}, {}, {})
    <2>1. \A q \in Pages : (u \in readers'[q]) <=> (u \in readers[q]) BY <1>1, <1>5
    <2>2. QED BY <2>1, <1>1, <1>2, <1>5 DEF Types, Spares
  <1>6. LatchInv' BY <1>1, <1>2 DEF LatchInv
  <1>7. CallInv(t)' BY <1>1, <1>2, <1>3 DEF ThreadInv, CallInv, Active, Ensuring, Writing
  <1>8. OwnInv(t)' BY <1>1, <1>2, <1>3 DEF ThreadInv, OwnInv
  <1>9. GuardInv(t)' BY <1>3 DEF GuardInv, Guarded
  <1>10. LockInv(t)' BY <1>3 DEF LockInv
  <1>11. HistoryInv(t)'
    <2>1. Contents' = Contents BY <1>1, TreeOf
    <2>2. QED BY <2>1, <1>1, <1>2 DEF ThreadInv, HistoryInv, Active
  <1>12. QED BY <1>1, <1>4, <1>5, <1>6, <1>7, <1>8, <1>9, <1>10, <1>11, QuietKeeps DEF ThreadInv, Active

\* The keys between the fences of a leaf are in the tree if, and only if, they are in it.
LEMMA LeafContents ==
  ASSUME Tree(nodes, made), NEW k \in Places, NEW n, n = LeafOf(k)
  PROVE  /\ n \in 1..made /\ n \in Pages /\ nodes[n].lo \in Nat /\ nodes[n].hi \in Nat
         /\ nodes[n].lo < k /\ k <= nodes[n].hi
         /\ nodes[n].keys \subseteq Contents
         /\ \A j \in Contents : nodes[n].lo < j /\ j <= nodes[n].hi => j \in nodes[n].keys
  <1>1. n = EndOf(nodes, k) BY TreeOf
  <1>2. /\ n \in 1..made /\ n \in Pages /\ nodes[n].lo \in 0..Top /\ nodes[n].hi \in Places
        /\ nodes[n].lo < k /\ k <= nodes[n].hi /\ nodes[n].keys \subseteq Keys
        /\ \A j \in nodes[n].keys : nodes[n].lo < j /\ j <= nodes[n].hi
        /\ \A j \in Places : nodes[n].lo < j /\ j <= nodes[n].hi => EndOf(nodes, j) = n
    BY <1>1, EndFacts
  <1>3. \A j \in Keys : j \in Places BY TopFacts
  <1>4. \A j \in Contents : j \in Keys /\ j \in nodes[EndOf(nodes, j)].keys BY TreeOf
  <1>5. nodes[n].keys \subseteq Contents
    <2>1. \A j \in nodes[n].keys : j \in Keys /\ EndOf(nodes, j) = n BY <1>2, <1>3
    <2>2. QED BY <2>1, TreeOf
  <1>6. nodes[n].lo \in Nat /\ nodes[n].hi \in Nat BY <1>2, TopFacts DEF Places
  <1>7. QED BY <1>2, <1>3, <1>4, <1>5, <1>6

\* What a leaf reports has every key of the range that is in it.
LEMMA ReportedIs ==
  ASSUME NEW t, op[t] \in {"asc", "desc"}, key[t] \in Nat, nodes[node[t]].keys \subseteq Keys
  PROVE  /\ Reported(t) \subseteq nodes[node[t]].keys
         /\ \A k \in nodes[node[t]].keys :
              IF op[t] = "asc" THEN k >= key[t] => k \in Reported(t)
              ELSE k <= key[t] \/ held[t] # NoPage => k \in Reported(t)
  <1> DEFINE ks == nodes[node[t]].keys
             above == {k \in ks : k >= key[t]}
  <1>1. ks \subseteq Nat BY KeysAssumption
  <1>2. CASE op[t] = "asc"
    <2>1. Reported(t) = above BY <1>2 DEF Reported
    <2>2. QED BY <2>1, <1>2
  <1>3. CASE op[t] = "desc" /\ held[t] = NoPage /\ above # {}
    <2>1. Reported(t) = {k \in ks : k <= Min(above)} BY <1>3 DEF Reported
    <2>2. Min(above) \in above BY <1>1, <1>3, MinIs
    <2>3. ASSUME NEW k \in ks, k <= key[t] PROVE k <= Min(above)
      <3>1. CASE k = key[t]
        <4>1. k \in above BY <1>1, <2>2, <3>1
        <4>2. QED BY <1>1, <2>2, <3>1
      <3>2. CASE k # key[t]
        <4> DEFINE m == Min(above)
        <4>1. m \in Nat /\ k \in Nat /\ m >= key[t] BY <1>1, <2>2
        <4> HIDE DEF m
        <4>2. k <= m BY <2>3, <4>1
        <4>3. QED BY <4>2 DEF m
      <3>3. QED BY <3>1, <3>2
    <2>4. QED BY <2>1, <2>3, <1>3
  <1>4. CASE op[t] = "desc" /\ ~(held[t] = NoPage /\ above # {})
    <2>1. Reported(t) = ks BY <1>4 DEF Reported
    <2>2. QED BY <2>1, <1>4
  <1>5. QED BY <1>2, <1>3, <1>4

LEMMA LockSKeeps ==
  ASSUME Inv, NEW t \in Threads, LockS(t)
  PROVE  Inv'
  <1> DEFINE n == node[t]
             R == Reported(t)
  <1>1. /\ pc[t] = "inside" /\ pc' = [pc EXCEPT ![t] = "scan"] /\ op[t] \in {"asc", "desc"}
        /\ nodes[n].leaf /\ n \in fresh[t] /\ ~Locked(n) /\ Hold(t, n)
        /\ seen' = [seen EXCEPT ![t] = @ \cup R] /\ fresh' = [fresh EXCEPT ![t] = {}]
        /\ UNCHANGED <<nodes, made, xHeld, op, key, goal, toSplit, par, node, sure, maybe>>
    BY DEF LockS, Goto, AtLeaf, Valid, tree, call, guards, history
  <1>2. Types /\ ThreadInv(t) BY DEF Inv
  <1>3. goal[t] \in Places /\ n = LeafOf(goal[t]) /\ ~Ensuring(t) /\ Active(t) /\ key[t] \in Keys
    BY <1>1, <1>2 DEF ThreadInv, GuardInv, CallInv, OnPath, Active
  <1>4. /\ n \in 1..made /\ n \in Pages /\ nodes[n].lo \in Nat /\ nodes[n].hi \in Nat
        /\ nodes[n].lo < goal[t] /\ goal[t] <= nodes[n].hi
        /\ nodes[n].keys \subseteq Contents
        /\ \A j \in Contents : nodes[n].lo < j /\ j <= nodes[n].hi => j \in nodes[n].keys
    BY <1>3, LeafContents DEF Inv
  <1>5. Contents \subseteq Keys /\ nodes[n].keys \subseteq Keys /\ Keys \subseteq Nat
    BY <1>4, KeysAssumption DEF Contents
  <1>8. goal[t] \in Nat /\ key[t] \in Nat
    <2>1. \A k \in Places : k \in Nat BY TopFacts DEF Places
    <2>2. QED BY <2>1, <1>3, <1>5
  <1>6. /\ R \subseteq nodes[n].keys
        /\ \A k \in nodes[n].keys :
              IF op[t] = "asc" THEN k >= key[t] => k \in R ELSE k <= key[t] \/ held[t] # NoPage => k \in R
    BY <1>1, <1>5, <1>8, ReportedIs
  <1>7. sure[t] \subseteq Contents /\ Contents \subseteq maybe[t] BY <1>2, <1>3 DEF ThreadInv, HistoryInv
  <1> HIDE DEF n, R
  <1>9. Takes(t, n, R) BY <1>1, <1>4, <1>5, <1>6 DEF Takes
  <1>10. held'[t] = n /\ seen'[t] = seen[t] \cup R /\ pc'[t] = "scan"
    BY <1>1, <1>2 DEF Types, Hold
  <1>11. seen[t] \cup R \subseteq maybe[t]
    <2>1. seen[t] \subseteq maybe[t] BY <1>2 DEF ThreadInv, CallInv, HeldInv
    <2>2. QED BY <2>1, <1>4, <1>6, <1>7
  <1>12. ASSUME NEW k \in sure[t], IF op[t] = "asc" THEN key[t] <= k /\ k <= nodes[n].hi
                                                     ELSE nodes[n].lo < k /\ k <= key[t]
         PROVE  k \in seen[t] \cup R
    <2>1. k \in Contents /\ k \in Nat BY <1>5, <1>7
    <2>2. CASE op[t] = "asc"
      <3>1. goal[t] = key[t] BY <2>2, <1>2, <1>3 DEF ThreadInv, CallInv
      <3>2. k \in nodes[n].keys BY <3>1, <2>1, <2>2, <1>4, <1>8, <1>12
      <3>3. QED BY <3>2, <2>1, <2>2, <1>6, <1>8, <1>12
    <2>3. CASE op[t] = "desc" /\ held[t] = NoPage
      <3>1. goal[t] = key[t] BY <2>3, <1>2, <1>3 DEF ThreadInv, CallInv
      <3>2. k \in nodes[n].keys BY <3>1, <2>1, <2>3, <1>4, <1>8, <1>12
      <3>3. QED BY <3>2, <2>1, <2>3, <1>6, <1>8, <1>12
    <2>4. CASE op[t] = "desc" /\ held[t] # NoPage
      <3>1. /\ goal[t] = nodes[held[t]].lo
            /\ nodes[held[t]].lo < k /\ k <= key[t] => k \in seen[t]
        BY <1>1, <1>2, <2>4 DEF ThreadInv, HeldInv
      <3>2. CASE goal[t] < k BY <3>1, <3>2, <2>4, <1>12
      <3>3. CASE k <= goal[t]
        <4>1. k \in nodes[n].keys BY <3>3, <2>1, <2>4, <1>4, <1>8, <1>12
        <4>2. QED BY <4>1, <2>4, <1>6
      <3>4. QED BY <3>2, <3>3, <2>1, <1>8
    <2>5. QED BY <2>2, <2>3, <2>4, <1>1
  <1>13. HeldInv(t)'
    <2>1. LeafOf(goal[t])' = LeafOf(goal[t]) BY <1>1, TreeOf
    <2>2. \E k \in Places : held'[t] = LeafOf(k)' BY <2>1, <1>1, <1>3, <1>10 DEF n
    <2>3. made \in Nat BY RootFacts DEF Inv
    <2>4. n \in 0..made' BY <2>3, <1>1, <1>4
    <2>5. \A k \in sure'[t] : (IF op'[t] = "asc" THEN key'[t] <= k /\ k <= nodes'[n].hi
                                                  ELSE nodes'[n].lo < k /\ k <= key'[t])
                                => k \in seen'[t]
      BY <1>1, <1>10, <1>12
    <2>6. seen'[t] \subseteq maybe'[t] BY <1>1, <1>10, <1>11
    <2>7. QED BY <2>2, <2>4, <2>5, <2>6, <1>10 DEF HeldInv
  <1>14. QED BY <1>9, <1>13, TakesKeeps

LEMMA ScanRightKeeps ==
  ASSUME Inv, NEW t \in Threads, ScanRight(t)
  PROVE  Inv'
  <1> DEFINE m == held[t]
             n == nodes[m].next
  <1>1. /\ pc[t] = "scan" /\ pc' = [pc EXCEPT ![t] = "scan"] /\ op[t] = "asc"
        /\ n # NoPage /\ ~Locked(n) /\ Hold(t, n)
        /\ seen' = [seen EXCEPT ![t] = @ \cup nodes[n].keys] /\ fresh' = fresh
        /\ UNCHANGED <<nodes, made, xHeld, op, key, goal, toSplit, par, node, sure, maybe>>
    BY DEF ScanRight, Goto, tree, call, guards, history
  <1>2. Types /\ ThreadInv(t) BY DEF Inv
  <1>3. m # NoPage BY <1>1, <1>2 DEF ThreadInv, CallInv
  <1>4. PICK k0 \in Places : m = LeafOf(k0) BY <1>2, <1>3 DEF ThreadInv, HeldInv
  <1>5. m = EndOf(nodes, k0) BY <1>4, TreeOf
  <1>6. /\ nodes[m].hi \in Places /\ nodes[m].hi + 1 \in Places
        /\ n = EndOf(nodes, nodes[m].hi + 1)
    BY <1>1, <1>5, EndFacts DEF Inv
  <1>7. n = LeafOf(nodes[m].hi + 1) BY <1>6, TreeOf
  <1>8. /\ n \in 1..made /\ n \in Pages /\ nodes[n].lo \in Nat /\ nodes[n].hi \in Nat
        /\ nodes[n].lo < nodes[m].hi + 1
        /\ nodes[n].keys \subseteq Contents
        /\ \A j \in Contents : nodes[n].lo < j /\ j <= nodes[n].hi => j \in nodes[n].keys
    BY <1>6, <1>7, LeafContents DEF Inv
  <1>9. Contents \subseteq Keys /\ nodes[n].keys \subseteq Keys /\ Keys \subseteq Nat
    BY <1>8, KeysAssumption DEF Contents
  <1>10. sure[t] \subseteq Contents /\ Contents \subseteq maybe[t]
    BY <1>1, <1>2 DEF ThreadInv, HistoryInv, Active
  <1>11. fresh[t] = {} BY <1>1, <1>2 DEF ThreadInv, GuardInv
  <1>12. nodes[m].hi \in Nat /\ key[t] \in Nat
    BY <1>1, <1>2, <1>6, <1>9, TopFacts DEF Places, ThreadInv, CallInv
  <1> HIDE DEF n, m
  <1>13. fresh' = [fresh EXCEPT ![t] = {}] BY <1>1, <1>2, <1>11 DEF Types
  <1>14. Takes(t, n, nodes[n].keys) BY <1>1, <1>8, <1>9, <1>13 DEF Takes
  <1>15. held'[t] = n /\ seen'[t] = seen[t] \cup nodes[n].keys /\ pc'[t] = "scan"
    BY <1>1, <1>2 DEF Types, Hold
  <1>16. seen[t] \cup nodes[n].keys \subseteq maybe[t]
    BY <1>2, <1>3, <1>8, <1>10 DEF ThreadInv, HeldInv, m
  <1>17. ASSUME NEW k \in sure[t], key[t] <= k, k <= nodes[n].hi
         PROVE  k \in seen[t] \cup nodes[n].keys
    <2>1. k \in Contents /\ k \in Nat BY <1>9, <1>10
    <2>2. CASE k <= nodes[m].hi BY <2>2, <1>1, <1>2, <1>3, <1>17 DEF ThreadInv, HeldInv, m
    <2>3. CASE nodes[m].hi < k
      <3>1. nodes[n].lo < k BY <2>1, <2>3, <1>8, <1>12
      <3>2. QED BY <3>1, <2>1, <1>8, <1>17
    <2>4. QED BY <2>1, <2>2, <2>3, <1>12
  <1>18. HeldInv(t)'
    <2>1. \E k \in Places : held'[t] = LeafOf(k)'
      <3>1. \A k : LeafOf(k)' = LeafOf(k) BY <1>1, TreeOf
      <3>2. QED BY <3>1, <1>6, <1>7, <1>15
    <2>2. made \in Nat BY RootFacts DEF Inv
    <2>3. n \in 0..made' BY <2>2, <1>1, <1>8
    <2>4. \A k \in sure'[t] : (IF op'[t] = "asc" THEN key'[t] <= k /\ k <= nodes'[n].hi
                                                  ELSE nodes'[n].lo < k /\ k <= key'[t])
                                => k \in seen'[t]
      BY <1>1, <1>15, <1>17
    <2>5. seen'[t] \subseteq maybe'[t] BY <1>1, <1>15, <1>16
    <2>6. QED BY <2>1, <2>3, <2>4, <2>5, <1>15 DEF HeldInv
  <1>19. QED BY <1>14, <1>18, TakesKeeps

-------------------------------------------------------------------------------
(* The invariant of the specification.                                      *)
LEMMA InitInv ==
  ASSUME Init
  PROVE  Inv
  <1>1. PICK leaves \in Trees : nodes = Build(leaves) /\ made = BuiltMade(leaves)
    BY DEF Init, BuiltMade
  <1>2. Tree(nodes, made) BY <1>1, BuildShape DEF Tree
  <1>3. PICK plan \in Plans : /\ op = [t \in Threads |-> plan[t][1]]
                              /\ key = [t \in Threads |-> plan[t][2]]
    BY DEF Init
  <1>4. ASSUME NEW t \in Threads
        PROVE  /\ op[t] \in Operations \cup {"none"} /\ key[t] \in Keys \cup {0}
               /\ op[t] # "none" => key[t] \in Keys
    <2>1. op[t] = plan[t][1] /\ key[t] = plan[t][2] BY <1>3
    <2>2. plan[t] \in {<<"none", 0>>} \cup (Operations \X Keys) BY PlansAssumption
    <2>3. CASE plan[t] = <<"none", 0>> BY <2>1, <2>3
    <2>4. CASE plan[t] \in Operations \X Keys BY <2>1, <2>4
    <2>5. QED BY <2>2, <2>3, <2>4
  <1>5. op = [t \in Threads |-> op[t]] /\ key = [t \in Threads |-> key[t]] BY <1>3
  <1>6. /\ xHeld = [p \in Pages |-> {}] /\ readers = [p \in Pages |-> {}]
        /\ pc = [t \in Threads |-> "idle"]
        /\ goal = [t \in Threads |-> 0] /\ toSplit = [t \in Threads |-> NoPage]
        /\ par = [t \in Threads |-> NoPage] /\ node = [t \in Threads |-> NoPage]
        /\ fresh = [t \in Threads |-> {}]
        /\ held = [t \in Threads |-> NoPage] /\ seen = [t \in Threads |-> {}]
        /\ sure = [t \in Threads |-> {}] /\ maybe = [t \in Threads |-> {}]
    BY DEF Init
  <1>7. 0 \in 0..Top BY TopFacts
  <1>8. Types
    <2>1. op \in [Threads -> Operations \cup {"none"}] /\ key \in [Threads -> Keys \cup {0}]
      BY <1>4, <1>5
    <2>2. QED BY <2>1, <1>6, <1>7 DEF Types, Steps
  <1>9. LatchInv BY <1>6 DEF LatchInv
  <1>10. Distinct BY <1>6 DEF Distinct, Active
  <1>11. ASSUME NEW t \in Threads PROVE ThreadInv(t)
    <2>1. CallInv(t) BY <1>4, <1>6 DEF CallInv, Active, Ensuring, Writing
    <2>2. OwnInv(t) BY <1>6, PagesFacts DEF OwnInv
    <2>3. HeldInv(t) BY <1>6 DEF HeldInv
    <2>4. GuardInv(t) BY <1>6 DEF GuardInv, Guarded
    <2>5. LockInv(t) BY <1>6 DEF LockInv
    <2>6. HistoryInv(t) BY <1>6 DEF HistoryInv, Active
    <2>7. QED BY <2>1, <2>2, <2>3, <2>4, <2>5, <2>6 DEF ThreadInv
  <1>12. QED BY <1>2, <1>8, <1>9, <1>10, <1>11 DEF Inv

LEMMA StutterInv ==
  ASSUME Inv, UNCHANGED vars
  PROVE  Inv'
  <1>1. UNCHANGED <<nodes, made, xHeld, readers, pc, op, key, goal, toSplit, par, node, fresh, held, seen,
                    sure, maybe>>
    BY DEF vars, tree, latches, call, guards, scan, history
  <1>2. Effect(nodes, made, nodes', made', {}, {}, {}) BY <1>1, EffectNone DEF Inv
  <1>3. \A u \in Threads : Spares(u, {}, {}, {}) BY <1>1 DEF Spares
  <1>4. \A u \in Threads : ThreadInv(u)' BY <1>2, <1>3, OthersKeep
  <1>5. Types' BY <1>1 DEF Inv, Types
  <1>6. LatchInv' BY <1>1 DEF Inv, LatchInv
  <1>7. Distinct' BY <1>1 DEF Inv, Distinct, Active
  <1>8. Tree(nodes, made)' BY <1>2 DEF Effect
  <1>9. QED BY <1>4, <1>5, <1>6, <1>7, <1>8 DEF Inv

\* Every step keeps the invariant.
LEMMA StepInv ==
  ASSUME Inv, NEW t \in Threads, Step(t)
  PROVE  Inv'
  <1>1. CASE Start(t) BY <1>1, StartKeeps
  <1>2. CASE Descend(t) BY <1>2, DescendKeeps
  <1>3. CASE Acquire(t) BY <1>3, AcquireKeeps
  <1>4. CASE Validate(t) BY <1>4, ValidateKeeps
  <1>5. CASE Restart(t) BY <1>5, RestartKeeps
  <1>6. CASE Lookup(t) BY <1>6, AnswerKeeps
  <1>7. CASE Update(t) BY <1>7, AnswerKeeps
  <1>8. CASE CheckNode(t) BY <1>8, CheckNodeKeeps
  <1>9. CASE CheckParent(t) BY <1>9, AnswerKeeps, FoundSpaceKeeps
  <1>10. CASE LockLeaf(t) BY <1>10, LockLeafKeeps
  <1>11. CASE LockFull(t) BY <1>11, LockFullKeeps
  <1>12. CASE LockParent(t) BY <1>12, LockParentKeeps
  <1>13. CASE LockNode(t) BY <1>13, LockNodeKeeps
  <1>14. CASE Insert(t) BY <1>14, InsertKeeps
  <1>15. CASE SplitRoot(t) BY <1>15, SplitKeeps
  <1>16. CASE SplitNode(t) BY <1>16, SplitKeeps
  <1>17. CASE SplitParent(t) BY <1>17, SplitParentKeeps
  <1>18. CASE Remove(t) BY <1>18, RemoveKeeps
  <1>19. CASE RemoveUnderfull(t) BY <1>19, UnderfullKeeps
  <1>20. CASE LockS(t) BY <1>20, LockSKeeps
  <1>21. CASE LockSFails(t) BY <1>21, RestartKeeps
  <1>22. CASE ScanRight(t) BY <1>22, ScanRightKeeps
  <1>23. CASE ScanLeft(t) BY <1>23, ScanLeftKeeps
  <1>24. CASE ScanEnd(t) BY <1>24, AnswerKeeps
  <1>25. QED
    BY <1>1, <1>2, <1>3, <1>4, <1>5, <1>6, <1>7, <1>8, <1>9, <1>10, <1>11, <1>12, <1>13, <1>14, <1>15,
       <1>16, <1>17, <1>18, <1>19, <1>20, <1>21, <1>22, <1>23, <1>24
       DEF Step

LEMMA NextInv ==
  ASSUME Inv, [Next]_vars
  PROVE  Inv'
  BY StutterInv, BeginKeeps, StepInv DEF Next

\* So it holds all the time.
LEMMA Invariance == Spec => []Inv
  <1>1. Init => Inv BY InitInv
  <1>2. Inv /\ [Next]_vars => Inv' BY NextInv
  <1>3. QED BY <1>1, <1>2, PTL DEF Spec

-------------------------------------------------------------------------------
(* What the invariant gives.                                                *)
LEMMA KidsInTree ==
  ASSUME NEW nd, NEW mk, Tree(nd, mk), NEW p \in Pages, ~nd[p].leaf, NEW s \in DOMAIN nd[p].kids
  PROVE  nd[p].kids[s] \in 1..mk
  <1>1. PICK h, at : Shape(nd, mk, h, at) BY DEF Tree
  <1>2. /\ DOMAIN nd[p].kids \subseteq Places /\ Top \in DOMAIN nd[p].kids
        /\ \A d \in DOMAIN nd[p].kids : d # Top => nd[p].lo < d /\ d < nd[p].hi
        /\ nd[p].lo \in 0..Top /\ nd[p].hi \in 0..Top
    BY <1>1 DEF Shape, Slots, Records
  <1>3. \E k \in Places : nd[p].lo < k /\ k <= nd[p].hi
    <2>1. PICK l \in 0..h, k \in Places : p = at[l][k] BY <1>1 DEF Shape, Kinds
    <2>2. QED BY <1>1, <2>1 DEF Shape, Fences
  <1>4. /\ nd[p].lo \in Nat /\ nd[p].hi \in Nat /\ nd[p].hi \in Places /\ nd[p].hi <= Top
        /\ nd[p].lo < nd[p].hi /\ Top \in Nat
    BY <1>2, <1>3, TopFacts DEF Places
  <1>5. \A d \in DOMAIN nd[p].kids : d \in Nat /\ d <= Top BY <1>2, TopFacts DEF Places
  <1>6. CASE s = Top
    <2>1. \A d \in DOMAIN nd[p].kids : d >= nd[p].hi => Top <= d BY <1>2, <1>4, <1>5
    <2>2. SlotIn(nd[p].kids, nd[p].hi) = Top BY <2>1, <1>2, <1>4, SlotEquals
    <2>3. KidFor(nd, p, nd[p].hi) \in 1..mk BY <1>4, ChildFacts
    <2>4. QED BY <2>2, <2>3, <1>6 DEF KidFor
  <1>7. CASE s # Top
    <2>1. s \in Places /\ s \in Nat /\ nd[p].lo < s /\ s <= nd[p].hi BY <1>2, <1>4, <1>5, <1>7
    <2>2. \A d \in DOMAIN nd[p].kids : d >= s => s <= d BY <1>5, <2>1
    <2>3. SlotIn(nd[p].kids, s) = s BY <2>1, <2>2, <1>2, SlotEquals
    <2>4. KidFor(nd, p, s) \in 1..mk BY <2>1, ChildFacts
    <2>5. QED BY <2>3, <2>4 DEF KidFor
  <1>8. QED BY <1>6, <1>7

\* The types of pages, latches and threads are part of it.
LEMMA InvTypeOK == Inv => TypeOK
  <1> SUFFICES ASSUME Inv PROVE TypeOK OBVIOUS
  <1>1. PICK h, at : Shape(nodes, made, h, at) BY DEF Inv, Tree
  <1>2. Types /\ LatchInv /\ Tree(nodes, made) BY DEF Inv
  <1>3. ASSUME NEW p \in Pages
        PROVE  /\ nodes[p].keys \subseteq Keys
               /\ nodes[p].leaf \/ Range(nodes[p].kids) \subseteq 1..made
               /\ nodes[p].next \in (1..made) \cup {NoPage}
               /\ Locked(p) => Cardinality(xHeld[p]) = 1 /\ readers[p] = {}
               /\ readers[p] \subseteq Threads
    <2>1. nodes[p].keys \subseteq Keys /\ nodes[p].next \in (1..made) \cup {NoPage}
      BY <1>1 DEF Shape, Records
    <2>2. ~nodes[p].leaf => Range(nodes[p].kids) \subseteq 1..made
      BY <1>2, KidsInTree DEF Range
    <2>3. ASSUME Locked(p) PROVE Cardinality(xHeld[p]) = 1 /\ readers[p] = {}
      <3>1. PICK t \in Threads : xHeld[p] = {t} BY <1>2, <2>3 DEF LatchInv, Locked
      <3>2. QED BY <3>1, <2>3, <1>2, FS_Singleton DEF LatchInv, Locked
    <2>4. QED BY <2>1, <2>2, <2>3, <1>2 DEF Types
  <1>4. made \in Pages BY <1>2, RootFacts
  <1>5. \A t \in Threads : fresh[t] \subseteq {par[t], node[t]} BY DEF Inv, ThreadInv, GuardInv
  <1>6. QED BY <1>2, <1>3, <1>4, <1>5 DEF TypeOK, Types

\* The leaves of descents are chained, by the shape of the tree.
LEMMA InvLeavesChained == Inv => LeavesChained
  <1> SUFFICES ASSUME Inv, NEW k \in Keys
               PROVE  LET n == nodes[LeafOf(k)]
                      IN /\ n.lo < k /\ k <= n.hi
                         /\ \A j \in n.keys : n.lo < j /\ j <= n.hi
                         /\ n.next = IF n.hi < Top THEN LeafOf(n.hi + 1) ELSE NoPage
    BY DEF LeavesChained
  <1>1. k \in Places BY TopFacts
  <1>2. QED BY <1>1, EndFacts, TreeOf DEF Inv

\* What a scan has reported is part of what is known of its leaf.
LEMMA InvScansComplete == Inv => ScansComplete
  <1> SUFFICES ASSUME Inv, NEW t \in Threads, held[t] # NoPage
               PROVE  /\ seen[t] \subseteq maybe[t]
                      /\ \A k \in sure[t] :
                           (IF op[t] = "asc" THEN key[t] <= k /\ k <= nodes[held[t]].hi
                                             ELSE nodes[held[t]].lo < k /\ k <= key[t])
                             => k \in seen[t]
    BY DEF ScansComplete
  <1>1. QED BY DEF Inv, ThreadInv, HeldInv

-------------------------------------------------------------------------------
(* What a call returns.                                                     *)
LEMMA OneMoves ==
  ASSUME NEW t, Begin(t) \/ Step(t)
  PROVE  \E x : pc' = [pc EXCEPT ![t] = x]
  <1>1. CASE Begin(t) BY <1>1 DEF Begin, Goto
  <1>2. CASE Start(t) \/ Descend(t) \/ Acquire(t) \/ Validate(t) \/ Restart(t) \/ CheckNode(t)
    BY <1>2 DEF Start, Descend, Acquire, Validate, Restart, CheckNode, Goto
  <1>3. CASE Lookup(t) \/ Update(t) \/ CheckParent(t) \/ Insert(t) \/ Remove(t) \/ RemoveUnderfull(t)
    BY <1>3 DEF Lookup, Update, CheckParent, Insert, Remove, RemoveUnderfull, Goto
  <1>4. CASE LockLeaf(t) \/ LockFull(t) \/ LockParent(t) \/ LockNode(t)
    BY <1>4 DEF LockLeaf, LockFull, LockParent, LockNode, Goto
  <1>5. CASE SplitRoot(t) \/ SplitNode(t) \/ SplitParent(t)
    BY <1>5 DEF SplitRoot, SplitNode, SplitParent, Splits, Goto
  <1>6. CASE LockS(t) \/ LockSFails(t) \/ ScanRight(t) \/ ScanLeft(t) \/ ScanEnd(t)
    BY <1>6 DEF LockS, LockSFails, ScanRight, ScanLeft, ScanEnd, Goto
  <1>7. QED BY <1>1, <1>2, <1>3, <1>4, <1>5, <1>6 DEF Step

\* lookup and updateInPlace answer from the leaf of the key.
LEMMA LookupFacts ==
  ASSUME Inv, NEW t \in Threads, Lookup(t) \/ Update(t)
  PROVE  /\ pc'[t] = "found" => key[t] \in maybe[t]
         /\ pc'[t] = "missing" => key[t] \notin sure[t]
  <1>1. /\ pc[t] = "inside" /\ op[t] \in {"lookup", "update"} /\ AtLeaf(t) /\ node[t] \in fresh[t]
        /\ pc' = [pc EXCEPT ![t] = IF key[t] \in nodes[node[t]].keys THEN "found" ELSE "missing"]
    BY DEF Lookup, Update, Goto, Answer, Valid
  <1>2. Types /\ ThreadInv(t) BY DEF Inv
  <1>3. key[t] \in Keys /\ goal[t] = key[t] BY <1>1, <1>2 DEF ThreadInv, CallInv, Active
  <1>4. node[t] = LeafOf(key[t]) BY <1>1, <1>2, <1>3 DEF ThreadInv, GuardInv, OnPath, AtLeaf
  <1>5. key[t] \in nodes[node[t]].keys <=> key[t] \in Contents BY <1>3, <1>4 DEF Contents
  <1>6. sure[t] \subseteq Contents /\ Contents \subseteq maybe[t]
    BY <1>1, <1>2 DEF ThreadInv, HistoryInv, Active
  <1>7. pc'[t] = IF key[t] \in nodes[node[t]].keys THEN "found" ELSE "missing"
    BY <1>1, <1>2 DEF Types
  <1>8. QED BY <1>5, <1>6, <1>7

\* remove takes the key out of the leaf of the key, where it is.
LEMMA RemoveFacts ==
  ASSUME Inv, NEW t \in Threads, Remove(t) \/ RemoveUnderfull(t)
  PROVE  op[t] = "remove" /\ key[t] \in Contents /\ key[t] \in maybe[t] /\ Active(t)
  <1>1. pc[t] \in {"holding", "lockRight"} /\ (pc[t] = "holding" => op[t] = "remove" /\ par[t] \in fresh[t])
    BY DEF Remove, RemoveUnderfull, Goto, Valid
  <1>2. ThreadInv(t) BY DEF Inv
  <1>3. par[t] \in fresh[t] /\ op[t] = "remove" BY <1>1, <1>2 DEF ThreadInv, LockInv
  <1>4. ~Ensuring(t) BY <1>2, <1>3 DEF ThreadInv, CallInv
  <1>5. key[t] \in Keys /\ node[t] = LeafOf(key[t]) BY <1>1, <1>3, <1>4, LeafFacts
  <1>6. key[t] \in nodes[node[t]].keys BY <1>1, <1>2, <1>3 DEF ThreadInv, LockInv, Merges
  <1>7. key[t] \in Contents BY <1>5, <1>6 DEF Contents
  <1>8. QED BY <1>1, <1>2, <1>3, <1>7 DEF ThreadInv, HistoryInv, Active

\* Of the steps of a call, those that return give the answer of an instant.
LEMMA AnswerSteps ==
  ASSUME Inv, NEW t \in Threads, Step(t), op[t] \in {"lookup", "update", "remove"}
  PROVE  /\ pc'[t] = "found" => key[t] \in maybe[t]
         /\ pc'[t] = "missing" => key[t] \notin sure[t]
  <1>1. Types /\ ThreadInv(t) BY DEF Inv
  <1>2. CASE Lookup(t) \/ Update(t) BY <1>2, LookupFacts
  <1>3. CASE Remove(t) \/ RemoveUnderfull(t)
    <2>1. pc'[t] = "found" BY <1>1, <1>3 DEF Types, Remove, RemoveUnderfull, Goto
    <2>2. QED BY <2>1, <1>3, RemoveFacts
  <1>4. CASE CheckParent(t)
    <2>1. /\ pc[t] = "leaving" /\ par[t] \in fresh[t]
          /\ ~Ensuring(t) => pc' = [pc EXCEPT ![t] = "missing"]
      BY <1>4 DEF CheckParent, Goto, Valid
    <2>2. ~Ensuring(t) /\ op[t] = "remove" BY <2>1, <1>1 DEF ThreadInv, CallInv, Writing
    <2>3. key[t] \notin sure[t] BY <2>1, <2>2, <1>1 DEF ThreadInv, LockInv
    <2>4. pc'[t] = "missing" BY <2>1, <2>2, <1>1 DEF Types
    <2>5. QED BY <2>3, <2>4
  <1>5. CASE Start(t) \/ Descend(t) \/ Acquire(t) \/ Validate(t) \/ Restart(t) \/ CheckNode(t)
    BY <1>1, <1>5 DEF Types, Start, Descend, Acquire, Validate, Restart, CheckNode, Goto
  <1>6. CASE LockLeaf(t) \/ LockFull(t) \/ LockParent(t) \/ LockNode(t)
    BY <1>1, <1>6 DEF Types, LockLeaf, LockFull, LockParent, LockNode, Goto
  <1>7. CASE SplitRoot(t) \/ SplitNode(t) \/ SplitParent(t)
    BY <1>1, <1>7 DEF Types, SplitRoot, SplitNode, SplitParent, Splits, Goto
  <1>8. CASE LockS(t) \/ LockSFails(t) \/ ScanRight(t) \/ ScanLeft(t)
    BY <1>1, <1>8 DEF Types, LockS, LockSFails, ScanRight, ScanLeft, Goto
  <1>9. CASE Insert(t) \/ ScanEnd(t)
    <2>1. op[t] = "insert" \/ pc[t] = "scan" BY <1>9 DEF Insert, ScanEnd, Goto
    <2>2. QED BY <2>1, <1>1 DEF ThreadInv, CallInv
  <1>10. QED BY <1>2, <1>3, <1>4, <1>5, <1>6, <1>7, <1>8, <1>9 DEF Step

LEMMA NextAnswers ==
  ASSUME Inv, Next, NEW t \in Threads, Active(t), op[t] \in {"lookup", "update", "remove"}
  PROVE  /\ pc'[t] = "found" => key[t] \in maybe[t]
         /\ pc'[t] = "missing" => key[t] \notin sure[t]
  <1>1. PICK u \in Threads : Begin(u) \/ Step(u) BY DEF Next
  <1>2. CASE u # t
    <2>1. PICK x : pc' = [pc EXCEPT ![u] = x] BY <1>1, OneMoves
    <2>2. pc'[t] = pc[t] BY <2>1, <1>2 DEF Inv, Types
    <2>3. QED BY <2>2 DEF Active
  <1>3. CASE u = t
    <2>1. Step(t) BY <1>1, <1>3 DEF Begin, Goto, Active
    <2>2. QED BY <2>1, AnswerSteps
  <1>4. QED BY <1>2, <1>3

-------------------------------------------------------------------------------
(* The set of keys.                                                         *)

\* A step of a call that goes on, and the step with which it returns, with the keys that
\* have gone from the tree or come into it.
GoesOn(t) == UNCHANGED <<op, key, sure, maybe>> /\ Active(t) /\ Active(t)' /\ Contents' = Contents
Reset(t, gone, come) ==
  /\ op' = [op EXCEPT ![t] = "none"] /\ key' = [key EXCEPT ![t] = 0]
  /\ sure' = [u \in Threads |-> IF u = t THEN {} ELSE sure[u] \ gone]
  /\ maybe' = [u \in Threads |-> IF u = t \/ ~Active(u) THEN {} ELSE maybe[u] \cup come]
Ends(t, gone, come) ==
  /\ Reset(t, gone, come) /\ Active(t) /\ Contents' = (Contents \ gone) \cup come
  /\ \/ ~Calls(t) /\ pc'[t] = "idle" /\ gone = {} /\ come = {}
     \/ op[t] = "insert" /\ pc'[t] = "idle" /\ gone = {} /\ come = {key[t]} /\ key[t] \notin Contents
     \/ op[t] = "remove" /\ pc'[t] = "found" /\ gone = {key[t]} /\ come = {} /\ key[t] \in Contents
     \/ /\ op[t] \in {"lookup", "update"} /\ pc'[t] = "found" /\ key[t] \in maybe[t]
        /\ gone = {} /\ come = {}
     \/ /\ op[t] \in {"lookup", "update", "remove"} /\ pc'[t] = "missing" /\ key[t] \notin sure[t]
        /\ gone = {} /\ come = {}

\* A step of a call goes on or ends it, and takes effect in the latter case only.
LEMMA StepKinds ==
  ASSUME Inv, NEW t \in Threads, Step(t)
  PROVE  GoesOn(t) \/ \E gone, come : Ends(t, gone, come)
  <1>1. Types /\ ThreadInv(t) /\ Tree(nodes, made) BY DEF Inv
  <1>2. nodes' = nodes => Contents' = Contents BY TreeOf
  <1>3. ASSUME NEW others, NEW gone, NEW come, Finish(t, others, gone, come)
        PROVE  Reset(t, gone, come)
    BY <1>3 DEF Finish, Reset
  <1>4. CASE Lookup(t) \/ Update(t)
    <2>1. /\ nodes' = nodes /\ pc[t] = "inside" /\ op[t] \in {"lookup", "update"}
          /\ \E others : Finish(t, others, {}, {})
      BY <1>4 DEF Lookup, Update, tree
    <2>2. pc'[t] \in {"found", "missing"}
      BY <1>1, <1>4 DEF Types, Lookup, Update, Answer, Goto
    <2>3. /\ pc'[t] = "found" => key[t] \in maybe[t]
          /\ pc'[t] = "missing" => key[t] \notin sure[t]
      BY <1>4, LookupFacts
    <2>4. Contents' = (Contents \ {}) \cup {} BY <2>1, <1>2
    <2>5. Ends(t, {}, {}) BY <2>1, <2>2, <2>3, <2>4, <1>3 DEF Ends, Active
    <2>6. QED BY <2>5
  <1>5. CASE ScanEnd(t)
    <2>1. /\ nodes' = nodes /\ pc[t] = "scan" /\ pc' = [pc EXCEPT ![t] = "idle"]
          /\ Finish(t, {}, {}, {})
      BY <1>5 DEF ScanEnd, Goto, tree
    <2>2. op[t] \in {"asc", "desc"} /\ pc'[t] = "idle" BY <2>1, <1>1 DEF Types, ThreadInv, CallInv
    <2>3. Contents' = (Contents \ {}) \cup {} BY <2>1, <1>2
    <2>4. Ends(t, {}, {}) BY <2>1, <2>2, <2>3, <1>3 DEF Ends, Active, Calls
    <2>5. QED BY <2>4
  <1>6. CASE CheckParent(t)
    <2>1. pc[t] = "leaving" /\ nodes' = nodes /\ par[t] \in fresh[t]
      BY <1>6 DEF CheckParent, Goto, tree, Valid
    <2>2. CASE Ensuring(t)
      <3>1. UNCHANGED <<op, key, sure, maybe>> /\ pc' = [pc EXCEPT ![t] = "start"]
        BY <1>6, <2>2 DEF CheckParent, Goto, call, history
      <3>2. QED BY <3>1, <2>1, <1>1, <1>2 DEF GoesOn, Active, Types
    <2>3. CASE ~Ensuring(t)
      <3>1. Finish(t, {}, {}, {}) /\ pc' = [pc EXCEPT ![t] = "missing"]
        BY <1>6, <2>3 DEF CheckParent, Goto
      <3>2. op[t] = "remove" /\ key[t] \notin sure[t] BY <2>1, <2>3, <1>1 DEF ThreadInv, LockInv
      <3>3. pc'[t] = "missing" /\ Active(t) BY <3>1, <2>1, <1>1 DEF Types, Active
      <3>4. Contents' = (Contents \ {}) \cup {} BY <2>1, <1>2
      <3>5. Ends(t, {}, {}) BY <3>1, <3>2, <3>3, <3>4, <1>3 DEF Ends
      <3>6. QED BY <3>5
    <2>4. QED BY <2>2, <2>3
  <1>7. CASE Insert(t)
    <2>1. /\ pc[t] = "holding" /\ op[t] = "insert" /\ par[t] \in fresh[t]
          /\ pc' = [pc EXCEPT ![t] = "idle"] /\ Finish(t, {}, {}, {key[t]})
      BY <1>7 DEF Insert, Goto, Valid
    <2>2. key[t] \in Keys /\ node[t] = LeafOf(key[t]) BY <2>1, LeafFacts
    <2>3. Effect(nodes, made, nodes', made', {node[t]}, {}, {key[t]}) /\ {key[t]} \subseteq Keys
      BY <2>2, <1>1, <1>7, InsertEffect
    <2>4. Contents' = (Contents \ {}) \cup {key[t]} BY <2>3, ContentsEffect
    <2>5. Active(t) /\ key[t] \notin Contents /\ pc'[t] = "idle"
      BY <2>1, <1>1 DEF ThreadInv, HistoryInv, Active, Types
    <2>6. Ends(t, {}, {key[t]}) BY <2>1, <2>4, <2>5, <1>3 DEF Ends
    <2>7. QED BY <2>6
  <1>8. CASE Remove(t) \/ RemoveUnderfull(t)
    <2>1. op[t] = "remove" /\ key[t] \in Contents /\ Active(t) BY <1>8, RemoveFacts
    <2>2. (\E others : Finish(t, others, {key[t]}, {})) /\ pc' = [pc EXCEPT ![t] = "found"]
      BY <1>8 DEF Remove, RemoveUnderfull, Goto
    <2>3. \E C : Effect(nodes, made, nodes', made', C, {key[t]}, {})
      <3>1. CASE Remove(t)
        <4>1. /\ pc[t] = "holding" /\ par[t] \in fresh[t] /\ made' = made
              /\ nodes' = [nodes EXCEPT ![node[t]].keys = @ \ {key[t]}]
          BY <3>1 DEF Remove, Goto, Valid
        <4>2. key[t] \in Keys /\ node[t] = LeafOf(key[t]) BY <4>1, LeafFacts
        <4>3. QED BY <4>1, <4>2, <1>1, RemoveEffect
      <3>2. CASE RemoveUnderfull(t) BY <3>2, UnderfullFacts
      <3>3. QED BY <3>1, <3>2, <1>8
    <2>4. Contents' = (Contents \ {key[t]}) \cup {}
      <3>1. {} \subseteq Keys OBVIOUS
      <3>2. QED BY <3>1, <2>3, ContentsEffect
    <2>5. pc'[t] = "found" BY <2>2, <1>1 DEF Types
    <2>6. Ends(t, {key[t]}, {}) BY <2>1, <2>2, <2>4, <2>5, <1>3 DEF Ends
    <2>7. QED BY <2>6
  <1>9. CASE SplitRoot(t) \/ SplitNode(t)
    <2>1. pc[t] = "split" /\ UNCHANGED <<op, key, sure, maybe>> /\ pc' = [pc EXCEPT ![t] = "start"]
      BY <1>9 DEF SplitRoot, SplitNode, Splits, Goto, call, history
    <2>2. Effect(nodes, made, nodes', made', {node[t], par[t]}, {}, {}) /\ {} \subseteq Keys
      BY <2>1, <1>1, <1>9, SplitFacts, SplitRootEffect, SplitNodeEffect
    <2>3. Contents' = (Contents \ {}) \cup {} BY <2>2, ContentsEffect
    <2>4. Contents' = Contents BY <2>3
    <2>5. QED BY <2>1, <2>4, <1>1 DEF GoesOn, Active, Types
  <1>10. CASE Start(t) \/ Descend(t) \/ Acquire(t) \/ Validate(t) \/ Restart(t) \/ CheckNode(t)
    <2>1. nodes' = nodes /\ UNCHANGED <<op, key, sure, maybe>> /\ Active(t) /\ Active(t)'
      BY <1>1, <1>10 DEF Types, Start, Descend, Acquire, Validate, Restart, Stale, CheckNode, Goto, tree, call,
                         history, Active
    <2>2. QED BY <2>1, <1>2 DEF GoesOn
  <1>11. CASE LockLeaf(t) \/ LockFull(t) \/ LockParent(t) \/ LockNode(t)
    <2>1. nodes' = nodes /\ UNCHANGED <<op, key, sure, maybe>> /\ Active(t) /\ Active(t)'
      BY <1>1, <1>11 DEF Types, LockLeaf, LockFull, LockParent, LockNode, LockX, Goto, tree, call,
                         history, Active
    <2>2. QED BY <2>1, <1>2 DEF GoesOn
  <1>12. CASE LockS(t) \/ LockSFails(t) \/ ScanRight(t) \/ ScanLeft(t) \/ SplitParent(t)
    <2>1. nodes' = nodes /\ UNCHANGED <<op, key, sure, maybe>> /\ Active(t) /\ Active(t)'
      BY <1>1, <1>12 DEF Types, LockS, LockSFails, ScanRight, ScanLeft, SplitParent, Splits, Goto, tree,
                         call, history, Active
    <2>2. QED BY <2>1, <1>2 DEF GoesOn
  <1>13. QED BY <1>4, <1>5, <1>6, <1>7, <1>8, <1>9, <1>10, <1>11, <1>12 DEF Step

\* Nobody else's call changes.
LEMMA OthersCall ==
  ASSUME Inv, NEW t \in Threads, Begin(t) \/ Step(t),
         \/ UNCHANGED <<op, key>>
         \/ op' = [op EXCEPT ![t] = "none"] /\ key' = [key EXCEPT ![t] = 0]
  PROVE  /\ \A u \in Threads \ {t} : pc'[u] = pc[u] /\ op'[u] = op[u] /\ key'[u] = key[u]
         /\ Todo' = [Todo EXCEPT ![t] = Todo'[t]]
  <1>1. PICK x : pc' = [pc EXCEPT ![t] = x] BY OneMoves
  <1>2. \A u \in Threads : u # t => pc'[u] = pc[u] /\ op'[u] = op[u] /\ key'[u] = key[u]
    BY <1>1 DEF Inv, Types
  <1>3. \A u \in Threads : u # t => Todo'[u] = Todo[u] BY <1>2 DEF Todo, Asked, Calls, Active
  <1>4. Todo = [u \in Threads |-> Todo[u]] /\ Todo' = [u \in Threads |-> Todo'[u]] BY DEF Todo
  <1> HIDE DEF Todo
  <1>5. QED BY <1>2, <1>3, <1>4

\* Two sets of truth values that hold the same.
LEMMA SameTruths ==
  ASSUME NEW A, NEW B, A \subseteq BOOLEAN, B \subseteq BOOLEAN,
         TRUE \in A <=> TRUE \in B, FALSE \in A <=> FALSE \in B
  PROVE  A = B
  <1>1. \A x \in BOOLEAN : x = TRUE \/ x = FALSE OBVIOUS
  <1>2. \A x : x \in A <=> x \in B BY <1>1, Zenon
  <1>3. QED BY <1>2

LEMMA WasHolds ==
  ASSUME NEW u \in Threads, Calls(u)
  PROVE  /\ Was[u] \subseteq BOOLEAN
         /\ TRUE \in Was[u] <=> key[u] \in maybe[u]
         /\ FALSE \in Was[u] <=> key[u] \notin sure[u]
  BY DEF Was

LEMMA WasHoldsNext ==
  ASSUME NEW u \in Threads, Calls(u)'
  PROVE  /\ Was'[u] \subseteq BOOLEAN
         /\ TRUE \in Was'[u] <=> key'[u] \in maybe'[u]
         /\ FALSE \in Was'[u] <=> key'[u] \notin sure'[u]
  BY DEF Was

\* A set of truth values that has seen one more instant.
Sees(A, B, k, S) == A = B \cup {(k \in S)}

\* It holds what it held and the truth of that instant.
LEMMA SeesAlso ==
  ASSUME NEW A, NEW B, NEW k, NEW S, A \subseteq BOOLEAN, B \subseteq BOOLEAN,
         TRUE \in A <=> TRUE \in B \/ k \in S, FALSE \in A <=> FALSE \in B \/ k \notin S
  PROVE  Sees(A, B, k, S)
  <1>1. CASE k \in S
    <2>1. (k \in S) = TRUE BY <1>1
    <2>2. {(k \in S)} = {TRUE} BY <2>1
    <2>3. A = B \cup {TRUE}
      <3>1. B \cup {TRUE} \subseteq BOOLEAN /\ TRUE \in B \cup {TRUE} OBVIOUS
      <3>2. FALSE \in B \cup {TRUE} <=> FALSE \in B OBVIOUS
      <3>3. QED BY <3>1, <3>2, <1>1, SameTruths
    <2>4. QED BY <2>2, <2>3 DEF Sees
  <1>2. CASE k \notin S
    <2>1. (k \in S) = FALSE BY <1>2
    <2>2. {(k \in S)} = {FALSE} BY <2>1
    <2>3. A = B \cup {FALSE}
      <3>1. B \cup {FALSE} \subseteq BOOLEAN /\ FALSE \in B \cup {FALSE} OBVIOUS
      <3>2. TRUE \in B \cup {FALSE} <=> TRUE \in B OBVIOUS
      <3>3. QED BY <3>1, <3>2, <1>2, SameTruths
    <2>4. QED BY <2>2, <2>3 DEF Sees
  <1>3. QED BY <1>1, <1>2

\* The others stay where they are, and their histories see the keys gone and come; the
\* thread itself is not in a call afterwards, or has just begun one.
OthersSee(t, gone, come) ==
  \A u \in Threads \ {t} : /\ pc'[u] = pc[u] /\ op'[u] = op[u] /\ key'[u] = key[u]
                           /\ Active(u) => /\ sure'[u] = sure[u] \ gone
                                           /\ maybe'[u] = maybe[u] \cup come
BeginsOrEnds(t) ==
  Calls(t)' => ~Calls(t) /\ sure'[t] = Contents' /\ maybe'[t] = Contents'

\* The histories sure and maybe tell whether the key of a call was in the tree at the
\* instants since its beginning.
LEMMA Observed ==
  ASSUME Inv', NEW t \in Threads, NEW gone, NEW come, gone \cap Contents' = {}, come \subseteq Contents',
         OthersSee(t, gone, come), BeginsOrEnds(t)
  PROVE  KS!Observe
  <1>1. ASSUME NEW u \in Threads, Calls(u)'
        PROVE  Todo'[u][1] \in KS!Calls /\ Todo'[u][2] = key'[u]
    BY <1>1 DEF Todo, Asked, Calls, Active, KS!Calls
  <1>2. ASSUME NEW u \in Threads, ~Calls(u)'
        PROVE  Todo'[u][1] \notin KS!Calls /\ Was'[u] = {}
    <2>1. Todo'[u] \in {<<"found", 0>>, <<"missing", 0>>, <<"none", 0>>} BY <1>2 DEF Todo
    <2>2. QED BY <2>1, <1>2 DEF KS!Calls, Was
  <1>3. ASSUME NEW u \in Threads, Calls(u)'
        PROVE  Was'[u] = Was[u] \cup {(key'[u] \in Contents')}
    <2>1. sure'[u] \subseteq Contents' /\ Contents' \subseteq maybe'[u]
      BY <1>3 DEF Inv, ThreadInv, HistoryInv, Calls
    <2>2. CASE u = t
      <3>1. Was[u] = {} BY <2>2, <1>3 DEF Was, BeginsOrEnds
      <3>2. sure'[u] = Contents' /\ maybe'[u] = Contents' BY <2>2, <1>3 DEF BeginsOrEnds
      <3>3. Was'[u] \subseteq BOOLEAN /\ Was[u] \subseteq BOOLEAN BY <3>1, <1>3, WasHoldsNext
      <3>4. TRUE \in Was'[u] <=> TRUE \in Was[u] \/ key'[u] \in Contents'
        BY <3>1, <3>2, <1>3, WasHoldsNext
      <3>5. FALSE \in Was'[u] <=> FALSE \in Was[u] \/ key'[u] \notin Contents'
        BY <3>1, <3>2, <1>3, WasHoldsNext
      <3>6. Sees(Was'[u], Was[u], key'[u], Contents') BY <3>3, <3>4, <3>5, SeesAlso
      <3>7. QED BY <3>6 DEF Sees
    <2>3. CASE u # t
      <3>1. Calls(u) /\ key'[u] = key[u] BY <2>3, <1>3 DEF Calls, Active, OthersSee
      <3>2. sure'[u] = sure[u] \ gone /\ maybe'[u] = maybe[u] \cup come
        BY <2>3, <3>1 DEF Calls, OthersSee
      <3>3. TRUE \in Was'[u] <=> TRUE \in Was[u] \/ key'[u] \in Contents'
        BY <3>1, <3>2, <2>1, <1>3, WasHolds, WasHoldsNext
      <3>4. FALSE \in Was'[u] <=> FALSE \in Was[u] \/ key'[u] \notin Contents'
        BY <3>1, <3>2, <2>1, <1>3, WasHolds, WasHoldsNext
      <3>5. Was'[u] \subseteq BOOLEAN /\ Was[u] \subseteq BOOLEAN BY <3>1, <1>3, WasHolds, WasHoldsNext
      <3>6. Sees(Was'[u], Was[u], key'[u], Contents') BY <3>3, <3>4, <3>5, SeesAlso
      <3>7. QED BY <3>6 DEF Sees
    <2>4. QED BY <2>2, <2>3
  <1>4. Was' = [u \in Threads |-> Was'[u]] BY DEF Was
  <1> HIDE DEF Was, Todo
  <1>5. QED BY <1>1, <1>2, <1>3, <1>4 DEF KS!Observe

\* Without a change of the keys, of calls and of histories, nothing is observed.
LEMMA WasStays ==
  ASSUME \A u \in Threads : /\ Calls(u)' <=> Calls(u)
                            /\ Calls(u) => /\ key'[u] = key[u] /\ sure'[u] = sure[u]
                                           /\ maybe'[u] = maybe[u]
  PROVE  Was' = Was
  <1>1. \A u \in Threads : Was'[u] = Was[u] BY DEF Was
  <1>2. Was = [u \in Threads |-> Was[u]] /\ Was' = [u \in Threads |-> Was'[u]] BY DEF Was
  <1> HIDE DEF Was
  <1>3. QED BY <1>1, <1>2

LEMMA KeySetInit == ASSUME Init PROVE KS!Init
  <1>1. Contents \subseteq Keys BY DEF Contents
  <1>2. \A t \in Threads : pc[t] = "idle" /\ ~Calls(t) BY DEF Init, Calls, Active
  <1>3. Todo = [t \in Threads |-> <<"none", 0>>] /\ Was = [t \in Threads |-> {}]
    BY <1>2 DEF Todo, Was
  <1>4. QED BY <1>1, <1>3 DEF KS!Init, KS!Nothing

\* A call begins.
LEMMA BeginCalls ==
  ASSUME Inv, Inv', NEW t \in Threads, Begin(t)
  PROVE  KS!Next \/ UNCHANGED <<Contents, Todo, Was>>
  <1>1. /\ UNCHANGED <<nodes, op, key>> /\ pc[t] = "idle" /\ op[t] # "none"
        /\ sure' = [sure EXCEPT ![t] = Contents] /\ maybe' = [maybe EXCEPT ![t] = Contents]
        /\ pc' = [pc EXCEPT ![t] = "start"]
    BY DEF Begin, Goto, tree, call
  <1>2. Contents' = Contents BY <1>1, TreeOf
  <1>3. ~Calls(t) /\ (Calls(t)' => key[t] \in Keys) /\ Todo[t] = <<"none", 0>>
    BY <1>1 DEF Calls, Active, Inv, ThreadInv, CallInv, Todo
  <1>4. /\ \A u \in Threads \ {t} : pc'[u] = pc[u] /\ op'[u] = op[u] /\ key'[u] = key[u]
        /\ Todo' = [Todo EXCEPT ![t] = Todo'[t]]
    BY <1>1, OthersCall
  <1>5. \A u \in Threads \ {t} : sure'[u] = sure[u] /\ maybe'[u] = maybe[u]
    BY <1>1 DEF Inv, Types
  <1>6. CASE Calls(t)'
    <2>1. PICK what, k : what = Asked(t)[1] /\ k = key[t] OBVIOUS
    <2>2. Todo'[t] = <<what, k>> BY <1>1, <1>6, <2>1 DEF Todo, Asked, Calls, Active
    <2>3. what \in KS!Calls /\ k \in Keys BY <1>1, <1>3, <1>6, <2>1 DEF KS!Calls, Asked, Calls
    <2>4. KS!Call(t, what, k)
      <3> HIDE DEF Todo
      <3>1. QED BY <1>2, <1>3, <1>4, <2>2 DEF KS!Call, KS!Nothing, KS!Answer
    <2>5. KS!Observe
      <3>1. sure'[t] = Contents' /\ maybe'[t] = Contents' BY <1>1, <1>2 DEF Inv, Types
      <3>2. \A u \in Threads \ {t} : sure'[u] = sure[u] \ {} /\ maybe'[u] = maybe[u] \cup {} BY <1>5
      <3>3. {} \cap Contents' = {} /\ {} \subseteq Contents' OBVIOUS
      <3>4. OthersSee(t, {}, {}) BY <1>4, <3>2 DEF OthersSee
      <3>5. BeginsOrEnds(t) BY <1>3, <3>1 DEF BeginsOrEnds
      <3>6. QED BY <3>3, <3>4, <3>5, Observed
    <2>6. QED BY <2>3, <2>4, <2>5 DEF KS!Next, KS!Step
  <1>7. CASE ~Calls(t)'
    <2>1. pc'[t] = "start" BY <1>1 DEF Inv, Types
    <2>2. Todo'[t] = <<"none", 0>> BY <1>7, <2>1 DEF Todo
    <2>3. Todo' = Todo
      <3>1. Todo = [u \in Threads |-> Todo[u]] BY DEF Todo
      <3> HIDE DEF Todo
      <3>2. QED BY <1>3, <1>4, <2>2, <3>1
    <2>4. Was' = Was BY <1>3, <1>4, <1>5, <1>7, WasStays DEF Calls, Active
    <2>5. QED BY <1>2, <2>3, <2>4
  <1>8. QED BY <1>6, <1>7

\* A call ends.
LEMMA EndAnswers ==
  ASSUME Inv, Inv', NEW t \in Threads, Step(t), NEW gone, NEW come, Ends(t, gone, come)
  PROVE  KS!Next \/ UNCHANGED <<Contents, Todo, Was>>
  <1>1. /\ op' = [op EXCEPT ![t] = "none"] /\ key' = [key EXCEPT ![t] = 0] /\ Active(t)
        /\ sure' = [u \in Threads |-> IF u = t THEN {} ELSE sure[u] \ gone]
        /\ maybe' = [u \in Threads |-> IF u = t \/ ~Active(u) THEN {} ELSE maybe[u] \cup come]
        /\ Contents' = (Contents \ gone) \cup come
    BY DEF Ends, Reset
  <1>2. op'[t] = "none" /\ ~Calls(t)' BY <1>1 DEF Calls, Inv, Types
  <1>3. /\ \A u \in Threads \ {t} : pc'[u] = pc[u] /\ op'[u] = op[u] /\ key'[u] = key[u]
        /\ Todo' = [Todo EXCEPT ![t] = Todo'[t]]
    BY <1>1, OthersCall
  <1>4. \A u \in Threads \ {t} : Active(u) => sure'[u] = sure[u] \ gone /\ maybe'[u] = maybe[u] \cup come
    BY <1>1
  <1>5. Todo'[t] = IF pc'[t] \in {"found", "missing"} THEN <<pc'[t], 0>> ELSE <<"none", 0>>
    BY <1>2 DEF Todo
  <1>6. Todo[t] = IF Calls(t) THEN Asked(t) ELSE <<"none", 0>> BY <1>1 DEF Todo, Active
  <1>7. ASSUME gone \cap Contents' = {}, come \subseteq Contents' PROVE KS!Observe
    <2>1. OthersSee(t, gone, come) BY <1>3, <1>4 DEF OthersSee
    <2>2. BeginsOrEnds(t) BY <1>2 DEF BeginsOrEnds
    <2>3. QED BY <1>7, <2>1, <2>2, Observed
  <1> HIDE DEF Todo
  <1>8. CASE ~Calls(t) /\ pc'[t] = "idle" /\ gone = {} /\ come = {}
    <2>1. Todo = [u \in Threads |-> Todo[u]] BY DEF Todo
    <2>2. Todo' = Todo BY <1>3, <1>5, <1>6, <1>8, <2>1
    <2>3. Was' = Was
      <3>1. \A u \in Threads \ {t} : Calls(u) => sure'[u] = sure[u] /\ maybe'[u] = maybe[u]
        BY <1>4, <1>8 DEF Calls
      <3>2. QED BY <3>1, <1>2, <1>3, <1>8, WasStays DEF Calls, Active
    <2>4. Contents' = Contents BY <1>1, <1>8
    <2>5. QED BY <2>2, <2>3, <2>4
  <1>9. CASE op[t] = "insert" /\ pc'[t] = "idle" /\ gone = {} /\ come = {key[t]} /\ key[t] \notin Contents
    <2>1. Todo[t] = <<"insert", key[t]>> BY <1>1, <1>6, <1>9 DEF Calls, Asked
    <2>2. Contents' = Contents \cup {key[t]} BY <1>1, <1>9
    <2>3. KS!Insert(t) BY <2>1, <2>2, <1>3, <1>5, <1>9 DEF KS!Insert, KS!Nothing, KS!Answer
    <2>4. KS!Observe BY <1>7, <1>9, <2>2
    <2>5. QED BY <2>3, <2>4 DEF KS!Next, KS!Step
  <1>10. CASE op[t] = "remove" /\ pc'[t] = "found" /\ gone = {key[t]} /\ come = {} /\ key[t] \in Contents
    <2>1. Todo[t] = <<"remove", key[t]>> BY <1>1, <1>6, <1>10 DEF Calls, Asked
    <2>2. Contents' = Contents \ {key[t]} BY <1>1, <1>10
    <2>3. KS!Remove(t) BY <2>1, <2>2, <1>3, <1>5, <1>10 DEF KS!Remove, KS!Answer
    <2>4. KS!Observe BY <1>7, <1>10, <2>2
    <2>5. QED BY <2>3, <2>4 DEF KS!Next, KS!Step
  <1>11. CASE /\ op[t] \in {"lookup", "update"} /\ pc'[t] = "found" /\ key[t] \in maybe[t]
              /\ gone = {} /\ come = {}
    <2>1. Todo[t] = <<"lookup", key[t]>> /\ Calls(t) BY <1>1, <1>6, <1>11 DEF Calls, Asked
    <2>2. TRUE \in Was[t] BY <2>1, <1>11, WasHolds
    <2>3. Contents' = Contents BY <1>1, <1>11
    <2>4. KS!Found(t)
      <3>1. Todo'[t] = <<"found", 0>> BY <1>5, <1>11
      <3>2. Todo' = [Todo EXCEPT ![t] = <<"found", 0>>] BY <3>1, <1>3
      <3>3. Todo[t][1] = "lookup" BY <2>1
      <3> HIDE DEF Was
      <3>4. QED BY <2>2, <2>3, <3>2, <3>3 DEF KS!Found, KS!Answer
    <2>5. KS!Observe
      <3>1. gone \cap Contents' = {} /\ come \subseteq Contents' BY <1>11
      <3>2. QED BY <3>1, <1>7
    <2>6. QED BY <2>4, <2>5 DEF KS!Next, KS!Step
  <1>12. CASE /\ op[t] \in {"lookup", "update", "remove"} /\ pc'[t] = "missing" /\ key[t] \notin sure[t]
              /\ gone = {} /\ come = {}
    <2>1. Todo[t][1] \in {"lookup", "remove"} /\ Calls(t) BY <1>1, <1>6, <1>12 DEF Calls, Asked
    <2>2. FALSE \in Was[t] BY <2>1, <1>12, WasHolds
    <2>3. Contents' = Contents BY <1>1, <1>12
    <2>4. KS!Missing(t)
      <3> HIDE DEF Was
      <3>1. QED BY <2>1, <2>2, <2>3, <1>3, <1>5, <1>12 DEF KS!Missing, KS!Answer
    <2>5. KS!Observe
      <3>1. gone \cap Contents' = {} /\ come \subseteq Contents' BY <1>12
      <3>2. QED BY <3>1, <1>7
    <2>6. QED BY <2>4, <2>5 DEF KS!Next, KS!Step
  <1>13. QED BY <1>8, <1>9, <1>10, <1>11, <1>12 DEF Ends

\* Every step is one of KeySet's, or none.
LEMMA KeySetNext ==
  ASSUME Inv, Inv', Next
  PROVE  KS!Next \/ UNCHANGED <<Contents, Todo, Was>>
  <1>1. PICK t \in Threads : Begin(t) \/ Step(t) BY DEF Next
  <1>2. CASE Begin(t) BY <1>2, BeginCalls
  <1>3. CASE Step(t) /\ GoesOn(t)
    <2>1. Active(t) /\ Active(t)' /\ UNCHANGED <<Contents, op, key, sure, maybe>> BY <1>3 DEF GoesOn
    <2>2. /\ \A u \in Threads \ {t} : pc'[u] = pc[u] /\ op'[u] = op[u] /\ key'[u] = key[u]
          /\ Todo' = [Todo EXCEPT ![t] = Todo'[t]]
      BY <1>3, <2>1, OthersCall
    <2>3. \A u \in Threads : Calls(u)' <=> Calls(u) BY <2>1, <2>2 DEF Calls, Active
    <2>4. Was' = Was BY <2>1, <2>3, WasStays
    <2>5. Todo'[t] = Todo[t] BY <2>1, <2>3 DEF Todo, Asked, Active
    <2>6. Todo = [u \in Threads |-> Todo[u]] BY DEF Todo
    <2> HIDE DEF Todo, Was
    <2>7. QED BY <2>1, <2>2, <2>4, <2>5, <2>6
  <1>4. CASE Step(t) /\ \E gone, come : Ends(t, gone, come) BY <1>4, EndAnswers
  <1>5. QED BY <1>1, <1>2, <1>3, <1>4, StepKinds

LEMMA KeySetStutter ==
  ASSUME UNCHANGED vars
  PROVE  UNCHANGED <<Contents, Todo, Was>>
  <1>1. UNCHANGED <<nodes, pc, op, key, sure, maybe>> BY DEF vars, tree, call, history
  <1>2. Contents' = Contents BY <1>1, TreeOf
  <1>3. QED BY <1>1, <1>2 DEF Todo, Was, Asked, Calls, Active

-------------------------------------------------------------------------------
(* What the specification promises, for any number of keys, threads and pages.  *)

\* Pages, latches and threads keep their types; the children of a page are pages of the
\* tree, and a page that is held exclusively has one holder and no readers.
THEOREM TypeCorrect == Spec => []TypeOK
  BY Invariance, InvTypeOK, PTL

\* After any splits and merges, the leaf at which the descent for a key ends is the one
\* whose fences enclose it, and its next leaf the one of the next greater key.
THEOREM LeavesStayChained == Spec => []LeavesChained
  BY Invariance, InvLeavesChained, PTL

\* A scan has reported all of its range up to its leaf's far fence that has been there
\* since it began, and nothing else, whatever splits, merges and updates went on.
THEOREM ScansAreComplete == Spec => []ScansComplete
  BY Invariance, InvScansComplete, PTL

\* lookup, updateInPlace and remove answer as the tree was at some instant of the call.
THEOREM AnswersAreAtomic == Spec => AnswersAtomic
  <1>1. ASSUME Inv, [Next]_vars
        PROVE  [\A t \in Threads : Active(t) /\ op[t] \in {"lookup", "update", "remove"} =>
                  /\ pc'[t] = "found" => key[t] \in maybe[t]
                  /\ pc'[t] = "missing" => key[t] \notin sure[t]]_vars
    BY <1>1, NextAnswers
  <1>2. QED BY <1>1, Invariance, PTL DEF Spec, AnswersAtomic

\* Every insert that returns has put its key in once, every remove that answers "found" has
\* taken it out once, no split, merge or restart changes the set of keys, and every other
\* answer is true of an instant of the call.
THEOREM TreeIsKeySet == Spec => ImplementsKeySet
  <1>1. Init => KS!Init BY KeySetInit
  <1>2. ASSUME Inv, Inv', [Next]_vars
        PROVE  [KS!Next]_<<Contents, Todo, Was>>
    <2>1. CASE Next BY <2>1, <1>2, KeySetNext
    <2>2. CASE UNCHANGED vars BY <2>2, KeySetStutter
    <2>3. QED BY <2>1, <2>2, <1>2
  <1>3. QED BY <1>1, <1>2, Invariance, PTL DEF Spec, ImplementsKeySet, KS!Spec

-------------------------------------------------------------------------------
(* Who can wait for whom.  Without a remove that is about to merge, the     *)
(* threads that hold a page exclusively and wait are inserts; those that    *)
(* hold a parent wait for a page one level below.                           *)
LEMMA HolderWaits ==
  ASSUME Inv, NEW t \in Threads, NEW p \in Pages, xHeld[p] = {t}, NEW q, WaitsFor(t, q),
         ~(op[t] = "remove" /\ xHeld[par[t]] = {t})
  PROVE  \/ pc[t] = "holding" /\ p = node[t] /\ nodes[p].leaf /\ q = par[t] /\ ~nodes[q].leaf
         \/ pc[t] = "lockNode" /\ p = par[t] /\ q = node[t] /\ ~nodes[q].leaf
  <1>1. ThreadInv(t) BY DEF Inv
  <1>2. pc[t] \in {"holding", "lockNode", "lockRight"}
    <2>1. pc[t] \in {"holding", "lockNode", "split", "lockRight"} BY <1>1 DEF ThreadInv, OwnInv
    <2>2. QED BY <2>1 DEF WaitsFor
  <1>3. pc[t] # "lockRight" BY <1>1 DEF ThreadInv, LockInv
  <1>4. CASE pc[t] = "holding"
    <2>1. p = node[t] /\ nodes[p].leaf BY <1>1, <1>4 DEF ThreadInv, OwnInv, LockInv, AtLeaf
    <2>2. q = par[t] /\ ~nodes[q].leaf BY <1>1, <1>4 DEF WaitsFor, ThreadInv, GuardInv, Guarded
    <2>3. QED BY <2>1, <2>2, <1>4
  <1>5. CASE pc[t] = "lockNode"
    <2>1. p = par[t] /\ q = node[t] BY <1>1, <1>5 DEF ThreadInv, OwnInv, WaitsFor
    <2>2. op[t] = "insert" BY <1>1, <1>5 DEF ThreadInv, CallInv, LockInv, Writing
    <2>3. ~nodes[q].leaf BY <1>1, <1>5, <2>1, <2>2 DEF ThreadInv, LockInv, AtLeaf
    <2>4. QED BY <2>1, <2>3, <1>5
  <1>6. QED BY <1>2, <1>3, <1>4, <1>5

\* Readers hold leaves, and for scans.
LEMMA ReadersAtLeaves ==
  ASSUME Inv, NEW t \in Threads, NEW p \in Pages, t \in readers[p]
  PROVE  nodes[p].leaf /\ op[t] \in {"asc", "desc"} /\ ~Locked(p)
  <1>1. held[t] = p /\ p # NoPage BY PagesFacts DEF Inv, ThreadInv, OwnInv
  <1>2. PICK k \in Places : p = LeafOf(k) BY <1>1 DEF Inv, ThreadInv, HeldInv
  <1>3. nodes[p].leaf BY <1>2, EndFacts, TreeOf DEF Inv
  <1>4. op[t] \in {"asc", "desc"} BY <1>1 DEF Inv, ThreadInv, CallInv
  <1>5. ~Locked(p) BY DEF Inv, LatchInv, Locked
  <1>6. QED BY <1>3, <1>4, <1>5

\* Holders of parents wait level by level, down to a lowest one that waits for none.
LEMMA NoParentHeld ==
  ASSUME Inv, NEW W \in SUBSET Threads,
         \A t \in W : \E p \in Pages, u \in W : WaitsFor(t, p) /\ Holds(u, p),
         \A t \in W : ~(op[t] = "remove" /\ xHeld[par[t]] = {t})
  PROVE  \A t \in W : pc[t] # "lockNode"
  <1>1. PICK h, at : Shape(nodes, made, h, at) BY DEF Inv, Tree
  <1> DEFINE S == {l \in Nat : \E t \in W, k \in Places :
                                 l \in 0..h /\ pc[t] = "lockNode" /\ par[t] = at[l][k]}
  <1>2. ASSUME NEW t \in W, pc[t] = "lockNode"
        PROVE  \E l \in 0..h : /\ l < h /\ l \in Nat /\ l + 1 \in S
                               /\ par[t] = at[l + 1][goal[t]] /\ node[t] = at[l][goal[t]]
                               /\ goal[t] \in Places
    <2>1. Coupled(nodes, par[t], node[t], goal[t])
      BY <1>2 DEF Inv, ThreadInv, LockInv, GuardInv, Guarded
    <2>2. PICK l \in 0..h : l < h /\ at[l + 1][goal[t]] = par[t] /\ node[t] = at[l][goal[t]]
      BY <2>1, <1>1, ChildAt DEF Coupled
    <2>3. h \in Nat /\ l \in Nat /\ l + 1 \in 0..h /\ l + 1 \in Nat BY <1>1, <2>2 DEF Shape, Levels
    <2>4. goal[t] \in Places BY <2>1 DEF Coupled
    <2>5. l + 1 \in S BY <1>2, <2>2, <2>3, <2>4
    <2>6. QED BY <2>2, <2>3, <2>4, <2>5
  <1>3. ASSUME NEW t \in W, pc[t] = "lockNode"
        PROVE  \E u \in W : pc[u] = "lockNode" /\ par[u] = node[t]
    <2>1. PICK p \in Pages, u \in W : WaitsFor(t, p) /\ Holds(u, p) OBVIOUS
    <2>2. xHeld[par[t]] = {t} /\ par[t] \in Pages
      BY <1>3 DEF Inv, Types, ThreadInv, LockInv
    <2>3. p = node[t] /\ ~nodes[p].leaf
      <3>1. t \in Threads OBVIOUS
      <3>2. QED BY <3>1, <1>3, <2>1, <2>2, HolderWaits
    <2>4. xHeld[p] = {u} BY <2>1, <2>3, ReadersAtLeaves DEF Holds
    <2>5. PICK q \in Pages : WaitsFor(u, q) OBVIOUS
    <2>6. pc[u] = "lockNode" /\ p = par[u]
      <3>1. u \in Threads OBVIOUS
      <3>2. QED BY <3>1, <2>3, <2>4, <2>5, HolderWaits
    <2>7. QED BY <2>3, <2>6
  <1>4. SUFFICES ASSUME NEW t \in W, pc[t] = "lockNode" PROVE FALSE OBVIOUS
  <1>5. S # {} BY <1>2, <1>4
  <1>6. S \subseteq Nat OBVIOUS
  <1>7. PICK m \in S : \A n \in S : m <= n BY <1>5, <1>6, LeastElement
  <1>8. PICK a \in W, k \in Places : m \in 0..h /\ pc[a] = "lockNode" /\ par[a] = at[m][k] BY <1>7
  <1>9. PICK l \in 0..h : /\ l < h /\ l \in Nat /\ l + 1 \in S
                          /\ par[a] = at[l + 1][goal[a]] /\ node[a] = at[l][goal[a]]
                          /\ goal[a] \in Places
    BY <1>2, <1>8
  <1>10. l + 1 = m
    <2>1. h \in Nat /\ l + 1 \in 0..h BY <1>1, <1>9 DEF Shape, Levels
    <2>2. at[l + 1][goal[a]] = at[m][k] BY <1>8, <1>9
    <2>3. QED BY <2>1, <2>2, <1>1, <1>8, <1>9 DEF Shape, Levels
  <1>11. PICK u \in W : pc[u] = "lockNode" /\ par[u] = node[a] BY <1>3, <1>8
  <1>12. l \in S BY <1>9, <1>11
  <1>13. QED BY <1>7, <1>9, <1>10, <1>12

\* Nor do holders of leaves wait, then, nor readers.
LEMMA InvCyclesMerge == Inv => CyclesMerge
  <1> SUFFICES ASSUME Inv, NEW W \in (SUBSET Threads) \ {{}},
                      \A t \in W : \E p \in Pages, u \in W : WaitsFor(t, p) /\ Holds(u, p)
               PROVE  \E t \in W : op[t] = "remove" /\ xHeld[par[t]] = {t}
    BY DEF CyclesMerge
  <1> SUFFICES ASSUME \A t \in W : ~(op[t] = "remove" /\ xHeld[par[t]] = {t}) PROVE FALSE
    OBVIOUS
  <1> W \in SUBSET Threads /\ W # {} OBVIOUS
  <1>1. \A t \in W : pc[t] # "lockNode" BY NoParentHeld
  <1>2. ASSUME NEW t \in W, NEW p \in Pages, xHeld[p] = {t} PROVE FALSE
    <2>1. PICK q \in Pages, u \in W : WaitsFor(t, q) /\ Holds(u, q) OBVIOUS
    <2>2. ~nodes[q].leaf BY <2>1, <1>2, HolderWaits
    <2>3. xHeld[q] = {u} BY <2>1, <2>2, ReadersAtLeaves DEF Holds
    <2>4. PICK r \in Pages : WaitsFor(u, r) OBVIOUS
    <2>5. pc[u] = "lockNode" BY <2>2, <2>3, <2>4, HolderWaits
    <2>6. QED BY <2>5, <1>1
  <1>3. ASSUME NEW t \in W PROVE \E p \in Pages, u \in W : WaitsFor(t, p) /\ u \in readers[p]
    BY <1>2 DEF Holds
  <1>4. ASSUME NEW t \in W PROVE op[t] \in {"insert", "remove"}
    <2>1. PICK p \in Pages, u \in W : WaitsFor(t, p) /\ u \in readers[p] BY <1>3
    <2>2. ~Locked(p) BY <2>1, ReadersAtLeaves
    <2>3. pc[t] \in {"holding", "lockNode", "lockRight"} \/ (pc[t] = "arrived" /\ Keeps(t))
      BY <2>1, <2>2 DEF WaitsFor
    <2>4. CASE pc[t] \in {"holding", "lockNode", "lockRight"}
      BY <2>4 DEF Inv, ThreadInv, CallInv, Writing
    <2>5. CASE pc[t] = "arrived" /\ Keeps(t) BY <2>5, KeepsFacts
    <2>6. QED BY <2>3, <2>4, <2>5
  <1>5. PICK t \in W : TRUE OBVIOUS
  <1>6. PICK p \in Pages, u \in W : u \in readers[p] BY <1>3, <1>5
  <1>7. op[u] \in {"asc", "desc"} BY <1>6, ReadersAtLeaves
  <1>8. QED BY <1>4, <1>7

\* Whenever threads wait for each other in a cycle, there is a remove about to merge, which
\* holds its leaf's parent: without merges, latches are taken in an order.
THEOREM WaitsAreForMerges == Spec => []CyclesMerge
  BY Invariance, InvCyclesMerge, PTL
===============================================================================
