--------------------------------- MODULE CBP ---------------------------------
(***************************************************************************)
(* The promotion controllers of cbp.hpp behind one interface: init picks a *)
(* mode, maskFor gives the promotion chance, noteAccess and noteAttempt    *)
(* feed it.  Mode "tpb" is the module TPB.  Mode "v4" compares two arms    *)
(* that workers fill by bulk flushes; mode "v3" climbs a hill per class    *)
(* (one class here); "static" counts as v3 and never adapts.               *)
(*                                                                         *)
(* Every access to an atomic is a step, but for loads or stores of one     *)
(* kind that follow each other (the sums of both arms, the arms, their     *)
(* totals, their hits) and the exchanges that take a window of v3.         *)
(* The unit of the v4 counters is a flush, V4_FLUSH accesses.              *)
(***************************************************************************)
EXTENDS TPB, FiniteSets

CONSTANTS Workers,
          ArmStarts,       \* CBP_LOG or DEFAULT_LOG: where v3 and v4 may start
          DecisionEpochs,  \* NUM_DECISION_EPOCHS
          Window3,         \* WINDOW, of v3
          Warmup,          \* windows v3 lets pass: 3
          WarmupMod,       \* 2^8: warmup is a byte
          MaxFlushes,      \* bound: the flushes of v4
          MaxSamples       \* bound: the samples of v3, with Window3 attempts per window

ASSUME ArmAssumption == ArmStarts \subseteq Chances
ASSUME WorkersAssumption == IsFiniteSet(Workers)

Arms == {0, 1}

VARIABLES
  mode, armStart,              \* what init has picked
  pc, local,                   \* a worker's place in noteAccess, and its locals
  total, hits, epoch,          \* g_arm
  lastDecision,                \* g_last_decision_epoch
  late,                        \* history: workers whose call saw another's decision pass
  armLc,                       \* arm_lc
  overlapped,                  \* history: two workers have adapted the arms at once
  clTotal, clHits, clAttempts, \* a class: total, in_pref, promotes
  clLog, clDir, clWarm, clScore, \* log_chance, last_dir, warmup, last_score_q
  samples, windowed            \* history: the samples taken, and those in closed windows

v4vars == <<total, hits, epoch, lastDecision, late, armLc, overlapped>>
v3vars == <<clTotal, clHits, clAttempts, clLog, clDir, clWarm, clScore, samples, windowed>>
allVars == <<vars, mode, armStart, pc, local, v4vars, v3vars>>

CBPInit == /\ Init
           /\ mode \in {"tpb", "v4", "v3", "static"} /\ armStart \in ArmStarts
           \* What the mode does not look at is fixed.
           /\ IF mode = "tpb" THEN armStart = CHOOSE lc \in ArmStarts : TRUE
                              ELSE workload = CHOOSE load \in Loads : TRUE
           /\ pc = [w \in Workers |-> "idle"] /\ local = [w \in Workers |-> <<>>]
           /\ total = [a \in Arms |-> 0] /\ hits = [a \in Arms |-> 0]
           /\ epoch = [a \in Arms |-> 0] /\ lastDecision = 0 /\ late = {}
           /\ armLc = [a \in Arms |-> armStart + a] /\ overlapped = FALSE
           /\ clTotal = 0 /\ clHits = 0 /\ clAttempts = 0
           /\ clLog = armStart /\ clDir = 0 /\ clWarm = 0 /\ clScore = 0
           /\ samples = 0 /\ windowed = 0

\* maskFor: a page of class c is promoted with chance 1 / 2^Log(c).
Log(c) == CASE mode = "tpb" -> lcActive
            [] mode = "v4" -> armLc[c % 2]
            [] OTHER -> clLog

At(w, here, there, l) == /\ pc[w] = here /\ pc' = [pc EXCEPT ![w] = there]
                         /\ local' = [local EXCEPT ![w] = IF there = "idle" THEN <<>> ELSE l]

-------------------------------------------------------------------------------
(* v4: noteAccessV4. *)

\* A worker's accumulator of an arm is full: all hits, or none.
Flush(w, a, h) == /\ epoch[0] + epoch[1] + Cardinality({v \in Workers : pc[v] # "idle"}) < MaxFlushes
                  /\ At(w, "idle", "hits", <<a, h>>)
                  /\ total' = [total EXCEPT ![a] = @ + 1]
                  /\ UNCHANGED <<hits, epoch, lastDecision, late, armLc, overlapped>>

FlushHits(w) == /\ At(w, "hits", "epoch", local[w])
                /\ hits' = [hits EXCEPT ![local[w][1]] = @ + local[w][2]]
                /\ UNCHANGED <<total, epoch, lastDecision, late, armLc, overlapped>>

FlushEpoch(w) == /\ At(w, "epoch", "sum", <<>>)
                 /\ epoch' = [epoch EXCEPT ![local[w][1]] = @ + 1]
                 /\ UNCHANGED <<total, hits, lastDecision, late, armLc, overlapped>>

SumEpochs(w) == At(w, "sum", "sum1", <<epoch[0]>>) /\ UNCHANGED v4vars
SumEpochs1(w) == At(w, "sum1", "check", <<local[w][1] + epoch[1]>>) /\ UNCHANGED v4vars

\* total_epochs - last is unsigned: a last that has passed the sum is due, too.
Due(sum, last) == sum < last \/ sum - last >= DecisionEpochs
Check(w) == LET sum == local[w][1]
                due == Due(sum, lastDecision) IN
  /\ At(w, "check", IF due THEN "cas" ELSE "idle", <<sum, lastDecision>>)
  /\ late' = IF due THEN late ELSE late \ {w}
  /\ UNCHANGED <<total, hits, epoch, lastDecision, armLc, overlapped>>

Deciding == {w \in Workers : pc[w] \in {"sum1", "check", "cas"}}
Adapting == {w \in Workers : pc[w] \in {"sample", "arms", "low", "high", "reset", "reset1"}}

\* Variant: the next decision is set, instead of this one.
DecisionAhead(w) == local[w][1] + DecisionEpochs
Decision(w) == local[w][1]
Cas(w) == /\ \/ /\ At(w, "cas", "sample", <<>>) /\ lastDecision = local[w][2]
                /\ lastDecision' = Decision(w) /\ late' = (late \cup Deciding) \ {w}
                /\ overlapped' = (overlapped \/ Adapting # {})
             \/ /\ At(w, "cas", "idle", <<>>) /\ lastDecision # local[w][2]
                /\ late' = late \ {w} /\ UNCHANGED <<lastDecision, overlapped>>
          /\ UNCHANGED <<total, hits, epoch, armLc>>

\* hr0 - hr1 > 0.005, multiplied out, or the reverse.
Winner == LET lead == 200 * (hits[0] * total[1] - hits[1] * total[0])
              margin == total[0] * total[1]
          IN IF lead > margin THEN "down" ELSE IF -lead > margin THEN "up" ELSE "none"
Sample4(w) == /\ At(w, "sample", IF total[0] = 0 \/ total[1] = 0 THEN "idle" ELSE "arms", <<Winner>>)
              /\ UNCHANGED v4vars

\* Variant: the clamp looks at the lower arm.
NewArmsLow(dir) ==
  CASE dir = "down" /\ armLc[0] > MinLog -> <<armLc[0] - 1, armLc[0]>>
    [] dir = "up" /\ armLc[0] < MaxLog -> <<armLc[1], armLc[1] + 1>>
    [] OTHER -> <<>>
\* Variant: shifting down forgets the upper arm.
NewArmsApart(dir) ==
  CASE dir = "down" /\ armLc[0] > MinLog -> <<armLc[0] - 1, armLc[1]>>
    [] dir = "up" /\ armLc[1] < MaxLog -> <<armLc[1], armLc[1] + 1>>
    [] OTHER -> <<>>
NewArms(dir) ==
  CASE dir = "down" /\ armLc[0] > MinLog -> <<armLc[0] - 1, armLc[0]>>
    [] dir = "up" /\ armLc[1] < MaxLog -> <<armLc[1], armLc[1] + 1>>
    [] OTHER -> <<>>
ReadArms(w) == LET new == NewArms(local[w][1]) IN
  At(w, "arms", IF new = <<>> THEN "reset" ELSE "low", new) /\ UNCHANGED v4vars
StoreArm(w, here, there, a) == /\ At(w, here, there, local[w])
                               /\ armLc' = [armLc EXCEPT ![a] = local[w][a + 1]]
                               /\ UNCHANGED <<total, hits, epoch, lastDecision, late, overlapped>>

ResetTotals(w) == /\ At(w, "reset", "reset1", <<>>) /\ total' = [a \in Arms |-> 0]
                  /\ UNCHANGED <<hits, epoch, lastDecision, late, armLc, overlapped>>
ResetHits(w) == /\ At(w, "reset1", "idle", <<>>) /\ hits' = [a \in Arms |-> 0]
                /\ UNCHANGED <<total, epoch, lastDecision, late, armLc, overlapped>>

V4(w) == \/ \E a \in Arms, h \in {0, 1} : Flush(w, a, h)
         \/ FlushHits(w) \/ FlushEpoch(w) \/ SumEpochs(w) \/ SumEpochs1(w)
         \/ Check(w) \/ Cas(w) \/ Sample4(w) \/ ReadArms(w)
         \/ StoreArm(w, "low", "high", 0) \/ StoreArm(w, "high", "reset", 1)
         \/ ResetTotals(w) \/ ResetHits(w)

-------------------------------------------------------------------------------
(* v3: noteAttempt, and the sampled accesses of noteAccess. *)

Attempt(w) == /\ clAttempts < Window3 /\ clAttempts' = clAttempts + 1
              /\ UNCHANGED <<pc, local, clTotal, clHits, clLog, clDir, clWarm, clScore, samples, windowed>>

NoteHit(w, h) == /\ samples < MaxSamples /\ samples' = samples + 1
                 /\ At(w, "idle", "count", <<>>) /\ clHits' = clHits + h
                 /\ UNCHANGED <<clTotal, clAttempts, clLog, clDir, clWarm, clScore, windowed>>

Count(w) == /\ At(w, "count", IF clTotal + 1 < Window3 THEN "idle"
                              ELSE IF mode = "static" THEN "zero" ELSE "close", <<clTotal + 1>>)
            /\ clTotal' = clTotal + 1
            /\ UNCHANGED <<clHits, clAttempts, clLog, clDir, clWarm, clScore, samples, windowed>>

\* static: three stores, whatever has been counted in between.
Zero(w) == /\ At(w, "zero", "idle", <<>>) /\ clTotal' = 0 /\ clHits' = 0 /\ clAttempts' = 0
           /\ UNCHANGED <<clLog, clDir, clWarm, clScore, samples, windowed>>

\* Variant: the total is set to 0 without looking again.
ClosesAlways(w) == TRUE
Closes(w) == clTotal = local[w][1]
Close(w) == /\ \/ /\ At(w, "close", "take", local[w]) /\ Closes(w)
                  /\ clTotal' = 0 /\ windowed' = windowed + local[w][1]
               \/ /\ At(w, "close", "idle", <<>>) /\ ~Closes(w)
                  /\ UNCHANGED <<clTotal, windowed>>
            /\ UNCHANGED <<clHits, clAttempts, clLog, clDir, clWarm, clScore, samples>>

\* hits and promotes are taken; the score is hit_rate - 0.2 * prom_rate, in millionths.
Take(w) == LET score == (200000 * (5 * clHits - clAttempts)) \div local[w][1] IN
  /\ At(w, "take", IF clWarm < Warmup THEN "idle" ELSE "climb", <<score - clScore>>)
  /\ clHits' = 0 /\ clAttempts' = 0
  /\ clWarm' = (clWarm + 1) % WarmupMod /\ clScore' = score
  /\ UNCHANGED <<clTotal, clLog, clDir, samples, windowed>>

\* The class has an even number: it starts upwards.
Climb(w) == LET gain == local[w][1]
                old == IF clDir = 0 THEN 1 ELSE clDir
                dir == IF gain < -5000 THEN -old ELSE old
                lc == IF (gain > 5000 \/ gain < -5000) /\ clLog + dir \in Chances
                        THEN clLog + dir ELSE clLog IN
  At(w, "climb", "store", <<lc, dir>>) /\ UNCHANGED v3vars
StoreLog(w) == /\ At(w, "store", "dir", local[w]) /\ clLog' = local[w][1]
               /\ UNCHANGED <<clTotal, clHits, clAttempts, clDir, clWarm, clScore, samples, windowed>>
StoreDir(w) == /\ At(w, "dir", "idle", <<>>) /\ clDir' = local[w][2]
               /\ UNCHANGED <<clTotal, clHits, clAttempts, clLog, clWarm, clScore, samples, windowed>>

V3(w) == \/ \E h \in {0, 1} : NoteHit(w, h)
         \/ Attempt(w) \/ Count(w) \/ Zero(w) \/ Close(w) \/ Take(w) \/ Climb(w)
         \/ StoreLog(w) \/ StoreDir(w)

-------------------------------------------------------------------------------
TPBNext == mode = "tpb" /\ Next /\ UNCHANGED <<mode, armStart, pc, local, v4vars, v3vars>>
CBPNext == \/ TPBNext
           \/ mode = "v4" /\ \E w \in Workers : V4(w) /\ UNCHANGED <<vars, mode, armStart, v3vars>>
           \/ mode \in {"v3", "static"} /\ \E w \in Workers : V3(w) /\ UNCHANGED <<vars, mode, armStart, v4vars>>

(* The stat thread keeps reporting windows; nothing is assumed of the workers.  *)
CBPSpec == CBPInit /\ [][CBPNext]_allVars /\ WF_allVars(TPBNext)

-------------------------------------------------------------------------------
(* Whatever the controllers race for, the chance that maskFor derives is on the *)
(* ladder.  One chance may lie past its end: the one at which init itself puts  *)
(* the upper arm of v4 when CBP_LOG is MAX_LOG.                                 *)
ChanceOnLadder ==
  \A c \in {0, 1} : Log(c) \in Chances \/ (mode = "v4" /\ c = 1 /\ Log(c) = armStart + 1)

(* The arms are adapted every NUM_DECISION_EPOCHS flushes: a decision that comes *)
(* sooner after the one before, or sets the mark back, is one of a worker that  *)
(* read the epochs before that one and is late with its compare-exchange.       *)
DecisionsSpaced ==
  [][lastDecision' # lastDecision =>
       \/ lastDecision' - lastDecision >= DecisionEpochs
       \/ \E w \in late : pc[w] = "cas" /\ pc'[w] = "sample"]_allVars

(* As long as no two workers have adapted at once, the arms are neighbours      *)
(* whenever nobody adapts them.                                                 *)
Apart == Adapting = {} /\ armLc[1] # armLc[0] + 1
ArmsTogether == overlapped \/ ~Apart

(* v3 counts each sample in exactly one window: none is lost between the        *)
(* increment and the compare-exchange that closes the window, none is counted   *)
(* in two.                                                                      *)
SamplesConserved ==
  mode = "v3" => samples = clTotal + windowed + Cardinality({w \in Workers : pc[w] = "count"})

(* Under a steady workload the base of TPB in the end stays on a rung of the    *)
(* pair that the other one does not beat by the margin.                         *)
TPBSettledOn(lc) == mode = "tpb" => SettledOn(lc)
TPBSettles == \E lc \in Pair : <>[]TPBSettledOn(lc)
===============================================================================
