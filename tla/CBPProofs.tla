------------------------------ MODULE CBPProofs -------------------------------
(***************************************************************************)
(* What the controllers promise: TPB for every ladder, cadence, tolerance  *)
(* and workload, and all modes for any number of workers.  Each mode has   *)
(* an invariant of its own: the modes share no variable but the places     *)
(* and locals of the workers.                                              *)
(***************************************************************************)
EXTENDS CBP, FiniteSetTheorems, TLAPS

-------------------------------------------------------------------------------
(* TPB.  The argument behind BaseNearStart: the direction always points into    *)
(* the pair (Inward); a rejected probe leaves base and direction alone, and an  *)
(* adopted one swaps the two rungs of the pair and turns around.                *)

\* Base and next probe are the two rungs of the pair.
Inward == lcBase + Direction \in Pair
Aimed == probing => lcProbe = lcBase + lastDir /\ lcProbe \in Pair

IInv == TypeOK /\ BaseNearStart /\ Inward /\ Aimed

\* Where the throughput that will be compared was measured.
Measured == probing /\ probeTps # 0 => measuredAt = lcProbe

\* The pair is on the ladder.
LEMMA PairOnLadder == Pair \subseteq Chances /\ Chances \subseteq Int
  BY LadderAssumption DEF Pair, Chances

\* The windows of the code are counted modulo a positive number.
LEMMA IndexInRange == ASSUME NEW i \in 0..(ProbeEvery - 1)
                      PROVE  (i + 1) % ProbeEvery \in 0..(ProbeEvery - 1)
  <1>1. (i + 1) \in Int /\ ProbeEvery \in Int /\ ProbeEvery > 0
    BY CadenceAssumption
  <1>2. QED BY <1>1, CadenceAssumption

\* The initial state is where the argument starts: the first probe goes down, or
\* up from the lowest rung.
LEMMA InitInv == Init => IInv
  <1> SUFFICES ASSUME Init PROVE IInv OBVIOUS
  <1> USE LadderAssumption, CadenceAssumption DEF Init, Chances
  <1>1. TypeOK
    <2>1. probing \in BOOLEAN BY Zenon
    <2>2. windowIdx \in 0..(ProbeEvery - 1) OBVIOUS
    <2>3. QED BY <2>1, <2>2 DEF TypeOK
  <1>2. BaseNearStart /\ Inward BY DEF BaseNearStart, Inward, Pair, Direction
  <1>3. Aimed BY DEF Aimed
  <1>4. QED BY <1>1, <1>2, <1>3 DEF IInv

\* Each of the four kinds of window keeps the argument going.
LEMMA NextInv == IInv /\ [Next]_vars => IInv'
  <1> SUFFICES ASSUME IInv, [Next]_vars PROVE IInv' OBVIOUS
  <1> USE PairOnLadder
  <1> USE DEF IInv
  <1>1. CASE UNCHANGED vars
    BY <1>1 DEF vars, TypeOK, BaseNearStart, Inward, Direction, Aimed
  <1>2. CASE Next
    <2>1. PICK tps \in workload[lcActive] : Window(tps) BY <1>2 DEF Next
    <2>2. tps \in Nat /\ workload' = workload
          /\ windowIdx' \in 0..(ProbeEvery - 1)
      BY <2>1, LoadsAssumption, IndexInRange DEF TypeOK, Window
    <2>3. CASE MeasureProbe(tps)
      BY <2>2, <2>3 DEF MeasureProbe, TypeOK, BaseNearStart, Inward, Direction, Aimed
    <2>4. CASE Decide(tps)
      <3>1. TypeOK' /\ BaseNearStart' /\ Aimed'
        BY <2>2, <2>4 DEF Decide, Accept, TypeOK, BaseNearStart, Aimed
      <3>2. CASE UNCHANGED <<lcBase, lastDir>>
        BY <3>1, <3>2 DEF Inward, Direction
      <3>3. CASE Accept
        <4>1. lcBase' + lastDir' = lcBase
          <5>1. lcBase \in Int /\ lastDir \in {-1, 1} BY DEF TypeOK
          <5>2. lcProbe = lcBase + lastDir BY <2>4 DEF Decide, Aimed
          <5>3. lcBase' = lcProbe /\ lastDir' = -lastDir
            BY <3>3, <5>1, <5>2 DEF Accept
          <5>4. QED BY <5>1, <5>2, <5>3
        <4>2. QED BY <3>1, <4>1 DEF Inward, Direction, TypeOK, BaseNearStart
      <3>4. QED BY <2>4, <3>1, <3>2, <3>3 DEF Decide
    <2>5. CASE OpenSandwich(tps)
      <3>1. Direction \in {-1, 1} BY DEF TypeOK, Direction
      <3>2. TypeOK' /\ BaseNearStart' /\ Aimed'
        BY <2>2, <2>5, <3>1 DEF OpenSandwich, TypeOK, BaseNearStart, Inward, Aimed
      <3>3. Direction' = Direction
        BY <2>5, <3>1 DEF OpenSandwich, Direction, Inward
      <3>4. QED BY <2>5, <3>2, <3>3 DEF OpenSandwich, Inward
    <2>6. CASE Baseline
      BY <2>2, <2>6 DEF Baseline, TypeOK, BaseNearStart, Inward, Direction, Aimed
    <2>7. QED BY <2>1, <2>3, <2>4, <2>5, <2>6 DEF Window
  <1>3. QED BY <1>1, <1>2

\* Every reachable state satisfies the inductive invariant.
THEOREM Inductive == Spec => []IInv
  BY InitInv, NextInv, PTL DEF Spec

\* The controller stays on the ladder: tpb_lc_active is always a rung between
\* MIN_LOG and MAX_LOG, so that the mask 2^lc - 1 the workers compute is one of
\* the ladder's.
THEOREM TypeCorrect == Spec => []TypeOK
  <1>1. IInv => TypeOK BY DEF IInv
  <1>2. QED BY <1>1, Inductive, PTL

\* Whatever throughputs tpbOnWindow is given, the base is one of the two rungs
\* the controller started between: it cannot climb to a better rung further away.
THEOREM StaysNearStart == Spec => []BaseNearStart
  <1>1. IInv => BaseNearStart BY DEF IInv
  <1>2. QED BY <1>1, Inductive, PTL

-----------------------------------------------------------------------------
\* On busy workloads the sandwich keeps its shape, and what it compares was
\* measured where it says.
LEMMA BusyStep ==
  ASSUME Busy, IInv, SandwichShape, Measured, [Next]_vars
  PROVE  SandwichShape' /\ Measured' /\ (lcBase' # lcBase => measuredAt = lcBase')
  <1> USE PairOnLadder
  <1>1. CASE UNCHANGED vars
    BY <1>1 DEF vars, SandwichShape, Measured
  <1>2. CASE Next
    <2>1. PICK tps \in workload[lcActive] : Window(tps) BY <1>2 DEF Next
    <2>2. tps # 0 /\ tps \in Nat
      BY <2>1, LoadsAssumption DEF Busy, IInv, TypeOK
    <2>3. CASE MeasureProbe(tps)
      BY <2>2, <2>3 DEF MeasureProbe, SandwichShape, Measured
    <2>4. CASE Decide(tps)
      BY <2>4 DEF Decide, Accept, SandwichShape, Measured
    <2>5. CASE OpenSandwich(tps)
      <3>1. Direction \in {-1, 1} /\ lcBase \in Int
        BY DEF IInv, TypeOK, Direction
      <3>2. QED BY <2>5, <3>1 DEF OpenSandwich, SandwichShape, Measured
    <2>6. CASE Baseline
      BY <2>6 DEF Baseline, SandwichShape, Measured
    <2>7. QED BY <2>1, <2>3, <2>4, <2>5, <2>6 DEF Window
  <1>3. QED BY <1>1, <1>2

\* When every window completes some transaction, the workers run at the probe in
\* the second window of a sandwich and at the base in all others.
THEOREM SandwichHolds == ASSUME Busy PROVE Spec => []SandwichShape
  <1>1. Init => SandwichShape /\ Measured BY DEF Init, SandwichShape, Measured
  <1>2. IInv /\ SandwichShape /\ Measured /\ [Next]_vars
          => (SandwichShape /\ Measured)'
    BY BusyStep
  <1>3. QED BY <1>1, <1>2, Inductive, PTL DEF Spec

\* When every window completes some transaction, the controller only adopts a
\* rung on a throughput that was measured at that rung.
THEOREM AdoptsMeasured == ASSUME Busy PROVE Spec => AdoptsWhatItMeasured
  <1>1. Init => SandwichShape /\ Measured BY DEF Init, SandwichShape, Measured
  <1>2. IInv /\ SandwichShape /\ Measured /\ [Next]_vars
          => (SandwichShape /\ Measured)' /\ [lcBase' # lcBase => measuredAt = lcBase']_vars
    BY BusyStep
  <1>3. QED BY <1>1, <1>2, Inductive, PTL DEF Spec, AdoptsWhatItMeasured

-------------------------------------------------------------------------------
(* The interface. *)

\* Behind the interface, TPB runs unchanged.
LEMMA RunsTPB == CBPSpec => Spec
  <1>1. CBPInit => Init BY DEF CBPInit
  <1>2. [CBPNext]_allVars => [Next]_vars
    BY DEF CBPNext, TPBNext, allVars
  <1>3. QED BY <1>1, <1>2, PTL DEF CBPSpec, Spec

\* init has picked one of the modes.
ModeOK == mode \in {"tpb", "v4", "v3", "static"}

LEMMA ModeStays == CBPSpec => []ModeOK
  <1>1. CBPInit => ModeOK BY DEF CBPInit, ModeOK
  <1>2. ModeOK /\ [CBPNext]_allVars => ModeOK'
    BY DEF ModeOK, CBPNext, TPBNext, allVars
  <1>3. QED BY <1>1, <1>2, PTL DEF CBPSpec

\* What workers are, whatever the mode.
LocalsOK == /\ pc = [w \in Workers |-> pc[w]]
            /\ local = [w \in Workers |-> local[w]]

-------------------------------------------------------------------------------
(* v4.  A worker that adapts the arms alone is about to store neighbours, and   *)
(* what it has stored is the first of them; the epochs only grow, so that a sum *)
(* read after a decision has reached its mark.                                  *)

Epochs == epoch[0] + epoch[1]
Sums == /\ epoch \in [Arms -> Nat] /\ lastDecision \in Nat /\ lastDecision <= Epochs
        /\ \A w \in Workers :
             /\ pc[w] \in {"hits", "epoch"} => local[w][1] \in Arms
             /\ pc[w] = "sum1" => local[w][1] \in Nat /\ local[w][1] <= epoch[0]
             /\ pc[w] \in {"check", "cas"} => local[w][1] \in Nat /\ local[w][1] <= Epochs

\* A call that no other decision has passed.
Timely == \A w \in Workers \ late :
            /\ pc[w] = "sum1" => lastDecision <= local[w][1] + epoch[1]
            /\ pc[w] \in {"check", "cas"} => lastDecision <= local[w][1]
            /\ pc[w] = "cas" => Due(local[w][1], local[w][2])

ArmsKept == /\ armStart \in Chances /\ DOMAIN armLc = Arms
            /\ armLc[0] \in Chances /\ armLc[1] \in Chances \cup {armStart + 1}
            /\ \A w \in Workers : pc[w] \in {"low", "high"} =>
                 /\ local[w][1] \in Chances /\ local[w][2] \in Chances
                 /\ local[w][2] = local[w][1] + 1

High == {w \in Workers : pc[w] = "high"}
Together == overlapped \/ /\ \A v, w \in Adapting : v = w
                          /\ High = {} => armLc[1] = armLc[0] + 1
                          /\ \A w \in High : armLc[0] = local[w][1]

V4Inv == mode = "v4" => LocalsOK /\ Sums /\ Timely /\ ArmsKept /\ Together

\* The arms that a decision moves to are neighbours on the ladder.
LEMMA NewArmsNeighbours ==
  ASSUME ArmsKept, NEW dir, NewArms(dir) # <<>>
  PROVE  /\ NewArms(dir)[1] \in Chances /\ NewArms(dir)[2] \in Chances
         /\ NewArms(dir)[2] = NewArms(dir)[1] + 1
  <1>1. /\ armStart \in Chances /\ armLc[0] \in Chances
        /\ armLc[1] \in Chances \cup {armStart + 1}
    BY DEF ArmsKept
  <1>2. CASE dir = "down" /\ armLc[0] > MinLog
    <2>1. NewArms(dir) = <<armLc[0] - 1, armLc[0]>> BY <1>2 DEF NewArms
    <2>2. QED BY <1>1, <1>2, <2>1, LadderAssumption DEF Chances
  <1>3. CASE dir = "up" /\ armLc[1] < MaxLog
    <2>1. NewArms(dir) = <<armLc[1], armLc[1] + 1>> BY <1>3 DEF NewArms
    <2>2. QED BY <1>1, <1>3, <2>1, LadderAssumption DEF Chances
  <1>4. QED BY <1>2, <1>3 DEF NewArms

LEMMA V4Init == CBPInit => V4Inv
  <1> SUFFICES ASSUME CBPInit, mode = "v4"
               PROVE  LocalsOK /\ Sums /\ Timely /\ ArmsKept /\ Together
    BY DEF V4Inv
  <1> USE DEF CBPInit
  <1>1. LocalsOK BY DEF LocalsOK
  <1>2. Sums BY DEF Sums, Epochs, Arms
  <1>3. ArmsKept BY ArmAssumption DEF ArmsKept, Arms
  <1>4. Together
    <2>1. Adapting = {} /\ High = {} BY DEF Adapting, High
    <2>2. armLc[1] = armLc[0] + 1 BY ArmAssumption, LadderAssumption DEF Arms, Chances
    <2>3. QED BY <2>1, <2>2 DEF Together
  <1>5. Timely BY DEF Timely
  <1>6. QED BY <1>1, <1>2, <1>3, <1>4, <1>5

\* Each step of a worker, conjunct by conjunct.
LEMMA V4LocalsOK == ASSUME LocalsOK, NEW w \in Workers, V4(w) PROVE LocalsOK'
  BY DEF LocalsOK, V4, Flush, FlushHits, FlushEpoch, SumEpochs, SumEpochs1, Check, Cas, Sample4,
         ReadArms, StoreArm, ResetTotals, ResetHits, At

LEMMA V4Sums == ASSUME LocalsOK, Sums, NEW w \in Workers, V4(w) PROVE Sums'
  <1> USE DEF LocalsOK, Sums, Epochs, Arms, At, v4vars
  <1>1. CASE \E a \in Arms, h \in {0, 1} : Flush(w, a, h) BY <1>1 DEF Flush
  <1>2. CASE FlushHits(w) BY <1>2 DEF FlushHits
  <1>3. CASE FlushEpoch(w)
    <2>1. local[w][1] \in Arms /\ epoch' = [epoch EXCEPT ![local[w][1]] = @ + 1]
      BY <1>3 DEF FlushEpoch
    <2>2. epoch' \in [Arms -> Nat] /\ epoch[0] <= epoch'[0] /\ epoch[1] <= epoch'[1]
      BY <2>1
    <2>3. lastDecision' = lastDecision BY <1>3 DEF FlushEpoch
    <2>4. epoch[0] \in Nat /\ epoch[1] \in Nat /\ epoch'[0] \in Nat /\ epoch'[1] \in Nat
      BY <2>2
    <2>5. lastDecision' <= Epochs' BY <2>2, <2>3, <2>4
    <2>6. pc'[w] = "sum" /\ \A v \in Workers \ {w} : pc'[v] = pc[v] /\ local'[v] = local[v]
      BY <1>3 DEF FlushEpoch
    <2>7. ASSUME NEW v \in Workers
          PROVE  /\ pc'[v] \in {"hits", "epoch"} => local'[v][1] \in Arms
                 /\ pc'[v] = "sum1" => local'[v][1] \in Nat /\ local'[v][1] <= epoch'[0]
                 /\ pc'[v] \in {"check", "cas"} => local'[v][1] \in Nat /\ local'[v][1] <= Epochs'
      BY <2>2, <2>4, <2>6
    <2>8. QED BY <2>2, <2>3, <2>5, <2>7
  <1>4. CASE SumEpochs(w) BY <1>4 DEF SumEpochs
  <1>5. CASE SumEpochs1(w) BY <1>5 DEF SumEpochs1
  <1>6. CASE Check(w) BY <1>6 DEF Check
  <1>7. CASE Cas(w) BY <1>7 DEF Cas, Decision
  <1>8. CASE Sample4(w) BY <1>8 DEF Sample4
  <1>9. CASE ReadArms(w) BY <1>9 DEF ReadArms
  <1>10. CASE StoreArm(w, "low", "high", 0) \/ StoreArm(w, "high", "reset", 1)
    BY <1>10 DEF StoreArm
  <1>11. CASE ResetTotals(w) \/ ResetHits(w) BY <1>11 DEF ResetTotals, ResetHits
  <1>12. QED BY <1>1, <1>2, <1>3, <1>4, <1>5, <1>6, <1>7, <1>8, <1>9, <1>10, <1>11 DEF V4

LEMMA V4Timely == ASSUME LocalsOK, Sums, Timely, NEW w \in Workers, V4(w) PROVE Timely'
  <1> SUFFICES ASSUME NEW v \in Workers, v \notin late'
               PROVE  /\ pc'[v] = "sum1" => lastDecision' <= local'[v][1] + epoch'[1]
                      /\ pc'[v] \in {"check", "cas"} => lastDecision' <= local'[v][1]
                      /\ pc'[v] = "cas" => Due(local'[v][1], local'[v][2])
    BY DEF Timely, Due
  <1>1. ASSUME NEW here, NEW there, NEW l, At(w, here, there, l)
        PROVE  /\ pc[w] = here /\ pc'[w] = there
               /\ \A u \in Workers \ {w} : pc'[u] = pc[u] /\ local'[u] = local[u]
    BY <1>1 DEF At, LocalsOK
  <1>2. CASE \E a \in Arms, h \in {0, 1} : Flush(w, a, h)
    BY <1>1, <1>2 DEF Flush, Timely
  <1>3. CASE FlushHits(w) BY <1>1, <1>3 DEF FlushHits, Timely
  <1>4. CASE FlushEpoch(w)
    <2>1. local[w][1] \in Arms /\ epoch' = [epoch EXCEPT ![local[w][1]] = @ + 1]
      BY <1>1, <1>4 DEF FlushEpoch, Sums
    <2>2. epoch[1] \in Nat /\ epoch'[1] \in Nat /\ epoch[1] <= epoch'[1]
      BY <2>1 DEF Sums, Arms
    <2>3. /\ pc'[w] = "sum" /\ lastDecision' = lastDecision /\ late' = late
          /\ \A u \in Workers \ {w} : pc'[u] = pc[u] /\ local'[u] = local[u]
      BY <1>1, <1>4 DEF FlushEpoch
    <2>4. lastDecision \in Nat /\ (pc[v] = "sum1" => local[v][1] \in Nat) BY DEF Sums
    <2>5. QED BY <2>2, <2>3, <2>4 DEF Timely
  <1>5. CASE SumEpochs(w)
    <2>1. local'[w][1] = epoch[0] BY <1>5 DEF SumEpochs, At, LocalsOK
    <2>2. QED BY <1>1, <1>5, <2>1 DEF SumEpochs, v4vars, Timely, Sums, Epochs
  <1>6. CASE SumEpochs1(w)
    <2>1. local'[w][1] = local[w][1] + epoch[1] BY <1>6 DEF SumEpochs1, At, LocalsOK
    <2>2. QED BY <1>1, <1>6, <2>1 DEF SumEpochs1, v4vars, Timely
  <1>7. CASE Check(w)
    <2>1. CASE Due(local[w][1], lastDecision)
      <3>1. local'[w] = <<local[w][1], lastDecision>> BY <1>7, <2>1 DEF Check, At, LocalsOK
      <3>2. QED BY <1>1, <1>7, <2>1, <3>1 DEF Check, Timely
    <2>2. CASE ~Due(local[w][1], lastDecision)
      BY <1>1, <1>7, <2>2 DEF Check, Timely
    <2>3. QED BY <2>1, <2>2
  <1>8. CASE Cas(w)
    <2>1. CASE pc'[w] = "sample"
      <3>1. late' = (late \cup Deciding) \ {w} BY <1>1, <1>8, <2>1 DEF Cas
      <3>2. \A u \in Workers \ {w} : pc'[u] = pc[u] BY <1>1, <1>8 DEF Cas
      <3>3. QED BY <2>1, <3>1, <3>2 DEF Deciding
    <2>2. CASE pc'[w] # "sample"
      BY <1>1, <1>8, <2>2 DEF Cas, Timely
    <2>3. QED BY <2>1, <2>2
  <1>9. CASE Sample4(w) BY <1>1, <1>9 DEF Sample4, v4vars, Timely
  <1>10. CASE ReadArms(w) BY <1>1, <1>10 DEF ReadArms, v4vars, Timely
  <1>11. CASE StoreArm(w, "low", "high", 0) \/ StoreArm(w, "high", "reset", 1)
    BY <1>1, <1>11 DEF StoreArm, Timely
  <1>12. CASE ResetTotals(w) \/ ResetHits(w)
    BY <1>1, <1>12 DEF ResetTotals, ResetHits, Timely
  <1>13. QED
    BY <1>2, <1>3, <1>4, <1>5, <1>6, <1>7, <1>8, <1>9, <1>10, <1>11, <1>12 DEF V4

LEMMA V4ArmsKept ==
  ASSUME LocalsOK, ArmsKept, armStart' = armStart, NEW w \in Workers, V4(w) PROVE ArmsKept'
  <1> USE DEF LocalsOK, ArmsKept, Arms, At, v4vars
  <1>1. CASE ReadArms(w)
    <2>1. NewArms(local[w][1]) # <<>> =>
            /\ NewArms(local[w][1])[1] \in Chances /\ NewArms(local[w][1])[2] \in Chances
            /\ NewArms(local[w][1])[2] = NewArms(local[w][1])[1] + 1
      BY NewArmsNeighbours
    <2>2. QED BY <1>1, <2>1 DEF ReadArms
  <1>2. CASE StoreArm(w, "low", "high", 0) \/ StoreArm(w, "high", "reset", 1)
    BY <1>2 DEF StoreArm
  <1>3. CASE Sample4(w) BY <1>3 DEF Sample4
  <1>4. CASE Cas(w) \/ Check(w) BY <1>4 DEF Cas, Check
  <1>5. CASE SumEpochs(w) \/ SumEpochs1(w) BY <1>5 DEF SumEpochs, SumEpochs1
  <1>6. CASE FlushHits(w) \/ FlushEpoch(w) BY <1>6 DEF FlushHits, FlushEpoch
  <1>7. CASE \E a \in Arms, h \in {0, 1} : Flush(w, a, h) BY <1>7 DEF Flush
  <1>8. CASE ResetTotals(w) \/ ResetHits(w) BY <1>8 DEF ResetTotals, ResetHits
  <1>9. QED BY <1>1, <1>2, <1>3, <1>4, <1>5, <1>6, <1>7, <1>8 DEF V4

\* A step that neither enters the adaptation nor touches the arms, by a worker
\* that is not between its two stores before or after.
LEMMA Aside ==
  ASSUME LocalsOK, Together, NEW w \in Workers,
         overlapped' = overlapped, armLc' = armLc,
         pc[w] # "high", pc'[w] # "high", w \in Adapting' => w \in Adapting,
         \A v \in Workers \ {w} : pc'[v] = pc[v] /\ local'[v] = local[v]
  PROVE  Together'
  <1>1. Adapting' \subseteq Adapting BY DEF Adapting
  <1>2. High' = High BY DEF High
  <1>3. \A v \in High : local'[v] = local[v] BY DEF High
  <1>4. QED BY <1>1, <1>2, <1>3 DEF Together

LEMMA V4Together == ASSUME LocalsOK, ArmsKept, Together, NEW w \in Workers, V4(w) PROVE Together'
  <1>1. ASSUME NEW here, NEW there, NEW l, At(w, here, there, l)
        PROVE  /\ pc[w] = here /\ pc'[w] = there
               /\ \A v \in Workers \ {w} : pc'[v] = pc[v] /\ local'[v] = local[v]
    BY <1>1 DEF At, LocalsOK
  <1>2. CASE StoreArm(w, "low", "high", 0)
    <2>1. /\ pc[w] = "low" /\ pc'[w] = "high"
          /\ \A v \in Workers \ {w} : pc'[v] = pc[v] /\ local'[v] = local[v]
      BY <1>1, <1>2 DEF StoreArm
    <2>2. local'[w] = local[w] BY <1>2 DEF StoreArm, At, LocalsOK
    <2>3. armLc'[0] = local[w][1] /\ overlapped' = overlapped
      BY <1>2 DEF StoreArm, ArmsKept, Arms
    <2>4. Adapting' = Adapting /\ w \in Adapting BY <2>1 DEF Adapting
    <2>5. High' = High \cup {w} BY <2>1 DEF High
    <2>6. High \subseteq Adapting BY DEF High, Adapting
    <2>7. ASSUME ~overlapped PROVE High' = {w}
      BY <2>4, <2>5, <2>6, <2>7 DEF Together
    <2>8. QED BY <2>2, <2>3, <2>4, <2>7 DEF Together
  <1>3. CASE StoreArm(w, "high", "reset", 1)
    <2>1. /\ pc[w] = "high" /\ pc'[w] = "reset"
          /\ \A v \in Workers \ {w} : pc'[v] = pc[v] /\ local'[v] = local[v]
      BY <1>1, <1>3 DEF StoreArm
    <2>2. /\ armLc'[1] = local[w][2] /\ armLc'[0] = armLc[0] /\ overlapped' = overlapped
      BY <1>3 DEF StoreArm, ArmsKept, Arms
    <2>3. local[w][2] = local[w][1] + 1 BY <2>1 DEF ArmsKept
    <2>4. Adapting' = Adapting /\ w \in Adapting /\ w \in High BY <2>1 DEF Adapting, High
    <2>5. High' = High \ {w} BY <2>1 DEF High
    <2>6. High \subseteq Adapting BY DEF High, Adapting
    <2>7. ASSUME ~overlapped PROVE High' = {} /\ armLc'[1] = armLc'[0] + 1
      BY <2>2, <2>3, <2>4, <2>5, <2>6, <2>7 DEF Together
    <2>8. QED BY <2>2, <2>4, <2>7 DEF Together
  <1>4. CASE Cas(w)
    <2>1. CASE pc'[w] = "sample"
      <3>1. /\ pc[w] = "cas"
            /\ \A v \in Workers \ {w} : pc'[v] = pc[v] /\ local'[v] = local[v]
        BY <1>1, <1>4 DEF Cas
      <3>2. armLc' = armLc /\ overlapped' = (overlapped \/ Adapting # {})
        BY <1>1, <1>4, <2>1 DEF Cas
      <3>3. Adapting' = Adapting \cup {w} BY <2>1, <3>1 DEF Adapting
      <3>4. High' = High /\ High \subseteq Adapting BY <2>1, <3>1 DEF High, Adapting
      <3>5. QED BY <3>2, <3>3, <3>4 DEF Together
    <2>2. CASE pc'[w] # "sample"
      <3>1. /\ At(w, "cas", "idle", <<>>) /\ armLc' = armLc /\ overlapped' = overlapped
        BY <1>1, <1>4, <2>2 DEF Cas
      <3>2. QED BY <1>1, <3>1, Aside DEF Adapting
    <2>3. QED BY <2>1, <2>2
  <1>5. CASE \E a \in Arms, h \in {0, 1} : Flush(w, a, h)
    BY <1>1, <1>5, Aside DEF Flush, Adapting
  <1>6. CASE FlushHits(w) BY <1>1, <1>6, Aside DEF FlushHits, Adapting
  <1>7. CASE FlushEpoch(w) BY <1>1, <1>7, Aside DEF FlushEpoch, Adapting
  <1>8. CASE SumEpochs(w) \/ SumEpochs1(w)
    BY <1>1, <1>8, Aside DEF SumEpochs, SumEpochs1, v4vars, Adapting
  <1>9. CASE Check(w) BY <1>1, <1>9, Aside DEF Check, v4vars, Adapting
  <1>10. CASE Sample4(w) BY <1>1, <1>10, Aside DEF Sample4, v4vars, Adapting
  <1>11. CASE ReadArms(w) BY <1>1, <1>11, Aside DEF ReadArms, v4vars, Adapting
  <1>12. CASE ResetTotals(w) \/ ResetHits(w)
    BY <1>1, <1>12, Aside DEF ResetTotals, ResetHits, Adapting
  <1>13. QED
    BY <1>2, <1>3, <1>4, <1>5, <1>6, <1>7, <1>8, <1>9, <1>10, <1>11, <1>12 DEF V4

THEOREM V4Correct == CBPSpec => []V4Inv
  <1>1. CBPInit => V4Inv BY V4Init
  <1>2. V4Inv /\ [CBPNext]_allVars => V4Inv'
    <2> SUFFICES ASSUME V4Inv, [CBPNext]_allVars, mode' = "v4"
                 PROVE  LocalsOK' /\ Sums' /\ Timely' /\ ArmsKept' /\ Together'
      BY DEF V4Inv
    <2>1. mode = "v4" BY DEF CBPNext, TPBNext, allVars
    <2>2. LocalsOK /\ Sums /\ Timely /\ ArmsKept /\ Together BY <2>1 DEF V4Inv
    <2>3. CASE UNCHANGED allVars
      BY <2>2, <2>3 DEF allVars, v4vars, LocalsOK, Sums, Epochs, Timely, Due, ArmsKept, Together,
                        Adapting, High
    <2>4. CASE \E w \in Workers : V4(w) /\ armStart' = armStart
      BY <2>2, <2>4, V4LocalsOK, V4Sums, V4Timely, V4ArmsKept, V4Together
    <2>5. QED BY <2>1, <2>3, <2>4 DEF CBPNext, TPBNext
  <1>3. QED BY <1>1, <1>2, PTL DEF CBPSpec

-------------------------------------------------------------------------------
(* v3 and static.  A sample is in the class's total, in a closed window, or on  *)
(* the way from the one counter to the other.                                   *)

Counting == {w \in Workers : pc[w] = "count"}
Climbing == /\ clLog \in Chances
            /\ \A w \in Workers : pc[w] = "store" => local[w][1] \in Chances
Counted == /\ samples \in Nat /\ clTotal \in Nat /\ windowed \in Nat
           /\ \A w \in Workers : pc[w] # "zero"
           /\ samples = clTotal + windowed + Cardinality(Counting)

V3Inv == mode \in {"v3", "static"} => /\ LocalsOK /\ Climbing
                                      /\ mode = "v3" => Counted

LEMMA V3Init == CBPInit => V3Inv
  <1> SUFFICES ASSUME CBPInit PROVE LocalsOK /\ Climbing /\ Counted
    BY DEF V3Inv
  <1> USE DEF CBPInit
  <1>1. LocalsOK BY DEF LocalsOK
  <1>2. Climbing BY ArmAssumption DEF Climbing
  <1>3. Counting = {} /\ Cardinality({}) = 0 BY FS_EmptySet DEF Counting
  <1>4. Counted BY <1>3 DEF Counted
  <1>5. QED BY <1>1, <1>2, <1>4

LEMMA V3LocalsOK == ASSUME LocalsOK, NEW w \in Workers, V3(w) PROVE LocalsOK'
  BY DEF LocalsOK, V3, NoteHit, Attempt, Count, Zero, Close, Take, Climb, StoreLog, StoreDir, At

LEMMA V3Climbing == ASSUME LocalsOK, Climbing, NEW w \in Workers, V3(w) PROVE Climbing'
  <1> USE DEF LocalsOK, Climbing, At
  <1>1. CASE \E h \in {0, 1} : NoteHit(w, h) BY <1>1 DEF NoteHit
  <1>2. CASE Attempt(w) BY <1>2 DEF Attempt
  <1>3. CASE Count(w) BY <1>3 DEF Count
  <1>4. CASE Zero(w) BY <1>4 DEF Zero
  <1>5. CASE Close(w) BY <1>5 DEF Close
  <1>6. CASE Take(w) BY <1>6 DEF Take
  <1>7. CASE Climb(w)
    <2>1. clLog' = clLog /\ \A v \in Workers \ {w} : pc'[v] = pc[v] /\ local'[v] = local[v]
      BY <1>7 DEF Climb, v3vars
    <2>2. local'[w][1] \in Chances BY <1>7 DEF Climb
    <2>3. QED BY <2>1, <2>2
  <1>8. CASE StoreLog(w) BY <1>8 DEF StoreLog
  <1>9. CASE StoreDir(w) BY <1>9 DEF StoreDir
  <1>10. QED BY <1>1, <1>2, <1>3, <1>4, <1>5, <1>6, <1>7, <1>8, <1>9 DEF V3

LEMMA V3Counted ==
  ASSUME mode = "v3", LocalsOK, Counted, NEW w \in Workers, V3(w) PROVE Counted'
  <1> USE DEF LocalsOK, Counted
  <1>1. ASSUME NEW here, NEW there, NEW l, At(w, here, there, l)
        PROVE  pc[w] = here /\ pc'[w] = there /\ \A v \in Workers \ {w} : pc'[v] = pc[v]
    BY <1>1 DEF At
  <1>2. IsFiniteSet(Counting) /\ Cardinality(Counting) \in Nat
    BY WorkersAssumption, FS_Subset, FS_CardinalityType DEF Counting
  <1>3. CASE \E h \in {0, 1} : NoteHit(w, h)
    <2>1. pc[w] = "idle" /\ pc'[w] = "count" /\ \A v \in Workers \ {w} : pc'[v] = pc[v]
      BY <1>1, <1>3 DEF NoteHit
    <2>2. w \notin Counting /\ Counting' = Counting \cup {w} BY <2>1 DEF Counting
    <2>3. Cardinality(Counting') = Cardinality(Counting) + 1 BY <1>2, <2>2, FS_AddElement
    <2>4. samples' = samples + 1 /\ clTotal' = clTotal /\ windowed' = windowed
      BY <1>3 DEF NoteHit
    <2>5. QED BY <1>2, <2>1, <2>3, <2>4
  <1>4. CASE Count(w)
    <2>1. /\ pc[w] = "count" /\ pc'[w] \in {"idle", "close"}
          /\ \A v \in Workers \ {w} : pc'[v] = pc[v]
      BY <1>1, <1>4 DEF Count
    <2>2. w \in Counting /\ Counting' = Counting \ {w} BY <2>1 DEF Counting
    <2>3. Cardinality(Counting') = Cardinality(Counting) - 1 BY <1>2, <2>2, FS_RemoveElement
    <2>4. samples' = samples /\ clTotal' = clTotal + 1 /\ windowed' = windowed
      BY <1>4 DEF Count
    <2>5. QED BY <1>2, <2>1, <2>3, <2>4
  <1>5. CASE Close(w)
    <2>1. /\ pc[w] = "close" /\ pc'[w] \in {"take", "idle"}
          /\ \A v \in Workers \ {w} : pc'[v] = pc[v]
      BY <1>1, <1>5 DEF Close
    <2>2. Counting' = Counting BY <2>1 DEF Counting
    <2>3. /\ samples' = samples
          /\ \/ clTotal' = clTotal /\ windowed' = windowed
             \/ clTotal' = 0 /\ windowed' = windowed + clTotal
      BY <1>5 DEF Close, Closes
    <2>4. QED BY <1>2, <2>1, <2>2, <2>3
  <1>6. CASE Attempt(w)
    BY <1>6 DEF Attempt, Counting
  <1>7. CASE Zero(w) BY <1>1, <1>7 DEF Zero
  <1>8. CASE Take(w) \/ Climb(w) \/ StoreLog(w) \/ StoreDir(w)
    <2>1. /\ pc[w] # "count" /\ pc'[w] \notin {"count", "zero"}
          /\ \A v \in Workers \ {w} : pc'[v] = pc[v]
      BY <1>1, <1>8 DEF Take, Climb, StoreLog, StoreDir
    <2>2. Counting' = Counting BY <2>1 DEF Counting
    <2>3. samples' = samples /\ clTotal' = clTotal /\ windowed' = windowed
      BY <1>8 DEF Take, Climb, StoreLog, StoreDir, v3vars
    <2>4. QED BY <1>2, <2>1, <2>2, <2>3
  <1>9. QED BY <1>3, <1>4, <1>5, <1>6, <1>7, <1>8 DEF V3

THEOREM V3Correct == CBPSpec => []V3Inv
  <1>1. CBPInit => V3Inv BY V3Init
  <1>2. V3Inv /\ [CBPNext]_allVars => V3Inv'
    <2> SUFFICES ASSUME V3Inv, [CBPNext]_allVars, mode' \in {"v3", "static"}
                 PROVE  LocalsOK' /\ Climbing' /\ (mode' = "v3" => Counted')
      BY DEF V3Inv
    <2>1. mode' = mode BY DEF CBPNext, TPBNext, allVars
    <2>2. LocalsOK /\ Climbing /\ (mode = "v3" => Counted) BY <2>1 DEF V3Inv
    <2>3. CASE UNCHANGED allVars
      BY <2>2, <2>3 DEF allVars, v3vars, LocalsOK, Climbing, Counted, Counting
    <2>4. CASE \E w \in Workers : V3(w)
      BY <2>1, <2>2, <2>4, V3LocalsOK, V3Climbing, V3Counted
    <2>5. QED BY <2>1, <2>3, <2>4 DEF CBPNext, TPBNext
  <1>3. QED BY <1>1, <1>2, PTL DEF CBPSpec

-------------------------------------------------------------------------------
\* A mode leaves the counters of the others where init has put them.
Untouched == armStart \in Chances /\ (mode # "v4" => armLc = [a \in Arms |-> armStart + a])

LEMMA OthersStay == CBPSpec => []Untouched
  <1>1. CBPInit => Untouched BY ArmAssumption DEF CBPInit, Untouched
  <1>2. Untouched /\ [CBPNext]_allVars => Untouched'
    BY DEF Untouched, CBPNext, TPBNext, allVars, v4vars
  <1>3. QED BY <1>1, <1>2, PTL DEF CBPSpec

\* Whatever the controllers race for, maskFor stays on the ladder, but for the upper
\* arm that init itself may have put past its end: no interleaving of the two stores of
\* arm_lc, or of the store of log_chance, leads off it.
THEOREM ChancesOnLadder == CBPSpec => []ChanceOnLadder
  <1>1. ModeOK /\ TypeOK /\ V4Inv /\ V3Inv => ChanceOnLadder
    <2> SUFFICES ASSUME ModeOK, TypeOK, V4Inv, V3Inv, NEW c \in {0, 1}
                 PROVE  \/ Log(c) \in Chances
                        \/ mode = "v4" /\ c = 1 /\ Log(c) = armStart + 1
      BY DEF ChanceOnLadder
    <2>1. CASE mode = "tpb" BY <2>1 DEF Log, TypeOK
    <2>2. CASE mode = "v4"
      <3>1. armLc[0] \in Chances /\ armLc[1] \in Chances \cup {armStart + 1}
        BY <2>2 DEF V4Inv, ArmsKept
      <3>2. c % 2 = c OBVIOUS
      <3>3. Log(c) = armLc[c] BY <2>2, <3>2 DEF Log
      <3>4. QED BY <2>2, <3>1, <3>3
    <2>3. CASE mode \in {"v3", "static"} BY <2>3 DEF Log, V3Inv, Climbing
    <2>4. QED BY <2>1, <2>2, <2>3 DEF ModeOK
  <1>2. CBPSpec => []TypeOK BY RunsTPB, TypeCorrect, PTL
  <1>3. QED BY <1>1, <1>2, ModeStays, V4Correct, V3Correct, PTL

\* A decision moves the mark by NUM_DECISION_EPOCHS flushes or more, however many
\* workers read the two epochs, and compare and exchange, at once; unless its worker
\* read the epochs before another's decision, and so counts flushes twice.
THEOREM DecisionsAreSpaced == CBPSpec => DecisionsSpaced
  <1>1. V4Inv /\ [CBPNext]_allVars =>
          [lastDecision' # lastDecision =>
             \/ lastDecision' - lastDecision >= DecisionEpochs
             \/ \E w \in late : pc[w] = "cas" /\ pc'[w] = "sample"]_allVars
    <2> SUFFICES ASSUME V4Inv, CBPNext, lastDecision' # lastDecision,
                        ~ \E w \in late : pc[w] = "cas" /\ pc'[w] = "sample"
                 PROVE  lastDecision' - lastDecision >= DecisionEpochs
      OBVIOUS
    <2>1. PICK w \in Workers : V4(w) /\ mode = "v4"
      BY DEF CBPNext, TPBNext, v4vars
    <2>2. Cas(w)
      BY <2>1 DEF V4, Flush, FlushHits, FlushEpoch, SumEpochs, SumEpochs1, Check, Sample4, ReadArms,
                  StoreArm, ResetTotals, ResetHits, v4vars
    <2>3. LocalsOK /\ Sums /\ Timely BY <2>1 DEF V4Inv
    <2>4. /\ pc[w] = "cas" /\ pc'[w] = "sample"
          /\ lastDecision = local[w][2] /\ lastDecision' = local[w][1]
      BY <2>2, <2>3 DEF Cas, Decision, At, LocalsOK
    <2>5. w \notin late BY <2>4
    <2>6. lastDecision <= local[w][1] /\ Due(local[w][1], local[w][2])
      BY <2>3, <2>4, <2>5 DEF Timely
    <2>7. local[w][1] \in Nat /\ lastDecision \in Nat BY <2>3, <2>4 DEF Sums
    <2>8. QED BY <2>4, <2>6, <2>7 DEF Due
  <1>2. QED BY <1>1, V4Correct, PTL DEF CBPSpec, DecisionsSpaced

\* Unless two workers have adapted at once, arm_lc holds neighbours whenever
\* nobody is between its two stores.
THEOREM ArmsStayTogether == CBPSpec => []ArmsTogether
  <1>1. V4Inv /\ Untouched => ArmsTogether
    <2> SUFFICES ASSUME V4Inv, Untouched, ~overlapped, Adapting = {} PROVE armLc[1] = armLc[0] + 1
      BY DEF ArmsTogether, Apart
    <2>1. High = {} BY DEF High, Adapting
    <2>2. CASE mode = "v4" BY <2>1, <2>2 DEF V4Inv, Together
    <2>3. CASE mode # "v4" BY <2>3, ArmAssumption, LadderAssumption DEF Untouched, Arms, Chances
    <2>4. QED BY <2>2, <2>3
  <1>2. QED BY <1>1, V4Correct, OthersStay, PTL

\* v3 counts each sampled access in one window, whichever worker's
\* compare-exchange closes it.
THEOREM SamplesAreConserved == CBPSpec => []SamplesConserved
  <1>1. V3Inv => SamplesConserved BY DEF V3Inv, Counted, Counting, SamplesConserved
  <1>2. QED BY <1>1, V3Correct, PTL
=============================================================================
