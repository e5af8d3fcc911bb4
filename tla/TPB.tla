--------------------------------- MODULE TPB ---------------------------------
(***************************************************************************)
(* The throughput-probed bandit of cbp.hpp: once per window the stat       *)
(* thread hands tpbOnWindow the number of transactions of the window, and  *)
(* the controller moves the promotion chance 1/2^lc that every worker      *)
(* reads.  Every ProbeEvery windows it runs a sandwich: a window at the    *)
(* base, one at the probe, one at the base again; the probe is adopted if  *)
(* the two baselines agree and it beats their average by half a percent.   *)
(* The doubles of the code are exact here (2000 * probe > 1005 * sum); the *)
(* moving average tpb_base_ewma is left out: nothing but the final dump    *)
(* reads it.                                                               *)
(***************************************************************************)
EXTENDS Integers

CONSTANTS MinLog, MaxLog,  \* MIN_LOG, MAX_LOG: the rungs of the ladder
          Start,           \* TPB_INIT_LC, or CBP_LOG, or DEFAULT_LOG
          ProbeEvery,      \* TPB_PROBE_EVERY
          PhaseTol,        \* TPB_PHASE_TOL, in percent
          Loads            \* workloads: the throughputs each rung may yield

Chances == MinLog..MaxLog

ASSUME LadderAssumption ==
  MinLog \in Nat /\ MaxLog \in Nat /\ MinLog < MaxLog /\ Start \in Chances
ASSUME CadenceAssumption ==
  ProbeEvery \in Nat /\ ProbeEvery >= 2 /\ PhaseTol \in Nat \ {0}
ASSUME LoadsAssumption ==
  \A load \in Loads : \A lc \in Chances : \A tps \in load[lc] : tps \in Nat

VARIABLES
  lcActive,    \* the rung the workers use
  lcBase,      \* the best known rung
  lcProbe,     \* the rung of the sandwich
  probing,     \* in the second or third window of a sandwich
  windowIdx,   \* modulo ProbeEvery, all the code reads of it
  basePre,     \* throughput of the first window
  probeTps,    \* throughput of the second window, 0 until it is measured
  lastDir,     \* direction of the next probe
  workload,    \* the member of Loads that runs
  measuredAt   \* history: the rung in force in the window probeTps is from

vars == <<lcActive, lcBase, lcProbe, probing, windowIdx, basePre, probeTps,
          lastDir, workload, measuredAt>>

Init ==
  /\ lcActive = Start /\ lcBase = Start /\ lcProbe = Start
  /\ probing = FALSE
  /\ windowIdx = 0
  /\ basePre = 0 /\ probeTps = 0
  /\ lastDir = -1
  /\ workload \in Loads
  /\ measuredAt = Start

-----------------------------------------------------------------------------
(* Second window: keep its throughput, go back to the base. *)
\* Variant: the third window stays at the probe.
MeasureProbeStay(tps) ==
  /\ probing /\ probeTps = 0
  /\ probeTps' = tps /\ measuredAt' = lcActive
  /\ UNCHANGED <<lcActive, lcBase, lcProbe, probing, basePre, lastDir>>

MeasureProbe(tps) ==
  /\ probing /\ probeTps = 0
  /\ probeTps' = tps /\ measuredAt' = lcActive
  /\ lcActive' = lcBase
  /\ UNCHANGED <<lcBase, lcProbe, probing, basePre, lastDir>>

(* Third window: decide. *)
PhaseStable(post) ==
  LET drift == IF basePre > post THEN basePre - post ELSE post - basePre
  IN basePre > 0 /\ 100 * drift < PhaseTol * basePre

\* Variant: no margin, and a tie wins.
ProbeWinsTies(post) == PhaseStable(post) /\ 2000 * probeTps >= 1000 * (basePre + post)
ProbeWins(post) == PhaseStable(post) /\ 2000 * probeTps > 1005 * (basePre + post)

\* Variant: go on in the direction that paid.
AcceptOnward ==
  /\ lcBase' = lcProbe
  /\ UNCHANGED lastDir

Accept ==
  /\ lcBase' = lcProbe
  /\ lastDir' = IF lcProbe > lcBase THEN -1 ELSE 1

Decide(post) ==
  /\ probing /\ probeTps # 0
  /\ \/ ProbeWins(post) /\ Accept
     \/ ~ProbeWins(post) /\ UNCHANGED <<lcBase, lastDir>>
  /\ lcActive' = lcBase'
  /\ probing' = FALSE /\ probeTps' = 0
  /\ UNCHANGED <<lcProbe, basePre, measuredAt>>

(* First window: every ProbeEvery-th window opens a sandwich. *)
Direction == IF lcBase + lastDir \in Chances THEN lastDir ELSE -lastDir

\* Variant: the workers are not told of the probe.
OpenSandwichQuietly(tps) ==
  /\ ~probing /\ windowIdx' = 0
  /\ basePre' = tps
  /\ lastDir' = Direction
  /\ lcProbe' = lcBase + Direction
  /\ probing' = TRUE /\ probeTps' = 0
  /\ UNCHANGED <<lcActive, lcBase, measuredAt>>

OpenSandwich(tps) ==
  /\ ~probing /\ windowIdx' = 0
  /\ basePre' = tps
  /\ lastDir' = Direction
  /\ lcProbe' = lcBase + Direction /\ lcActive' = lcBase + Direction
  /\ probing' = TRUE /\ probeTps' = 0
  /\ UNCHANGED <<lcBase, measuredAt>>

Baseline ==
  /\ ~probing /\ windowIdx' # 0
  /\ lcActive' = lcBase
  /\ UNCHANGED <<lcBase, lcProbe, probing, basePre, probeTps, lastDir, measuredAt>>

Window(tps) ==
  /\ windowIdx' = (windowIdx + 1) % ProbeEvery
  /\ MeasureProbe(tps) \/ Decide(tps) \/ OpenSandwich(tps) \/ Baseline
  /\ UNCHANGED workload

Next == \E tps \in workload[lcActive] : Window(tps)

Spec == Init /\ [][Next]_vars

-----------------------------------------------------------------------------
(* Every variable has its type: the rungs stay on the ladder.                   *)
TypeOK ==
  /\ lcActive \in Chances /\ lcBase \in Chances /\ lcProbe \in Chances
  /\ measuredAt \in Chances
  /\ probing \in BOOLEAN
  /\ windowIdx \in 0..(ProbeEvery - 1)
  /\ basePre \in Nat /\ probeTps \in Nat
  /\ lastDir \in {-1, 1}
  /\ workload \in Loads

(* Workloads in which every window completes some transaction. *)
Busy == \A load \in Loads : \A lc \in Chances : 0 \notin load[lc]

(* The workers are off the base in the second window of a sandwich and at no
   other time, and the probe is the rung next to the base.  (For workloads
   that are busy: a window without a transaction looks like one that is yet
   to be measured.) *)
SandwichShape ==
  /\ probing => lcProbe - lcBase = lastDir
  /\ probing => lcActive = IF probeTps = 0 THEN lcProbe ELSE lcBase
  /\ ~probing => lcActive = lcBase /\ probeTps = 0

(* A new base is a rung whose throughput was measured: the number compared
   with the baselines comes from a window that ran at it. *)
AdoptsWhatItMeasured == [][lcBase' # lcBase => measuredAt = lcBase']_vars

(* All the rungs the controller can ever settle on: the first probe goes down
   (up from the lowest rung), each adoption turns the direction to the rung
   just left and a rejection keeps it, so that no third rung is ever tried. *)
Pair == IF Start = MinLog THEN {Start, Start + 1} ELSE {Start - 1, Start}
BaseNearStart == lcBase \in Pair

(* A steady workload: its throughput depends on the rung alone. *)
Steady == \A lc \in Chances : \A a, b \in workload[lc] : a = b

Throughput(lc) == CHOOSE tps \in workload[lc] : TRUE
Unbeaten(lc, rungs) ==
  \A other \in rungs : 1000 * Throughput(other) <= 1005 * Throughput(lc)
SettledOn(lc) == Steady => lcBase = lc /\ Unbeaten(lc, Pair)
=============================================================================
