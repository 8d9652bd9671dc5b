------------------------ MODULE RefinementLoopProofs ------------------------
(***************************************************************************)
(* Machine-checked proofs about RefinementLoop, for any number of stages,   *)
(* any budgets, knobs and proposals.                                        *)
(***************************************************************************)
EXTENDS RefinementLoop, FiniteSetTheorems, WellFoundedInduction, TLAPS

\* A proposal is under examination; the loop has an outcome when it is done.
Shape ==
    /\ pc \in {"propose", "rejected"} => proposal \in Proposal
    /\ pc # "done" => terminal = "none"

\* The stages before the current one succeeded with the current knobs.
RoundFits == \A s \in Stage : s < stage => fitted[s] = knobs

\* In a round the stages up to the current one have run once more than the
\* ones to come, and every accepted proposal has cost a round.
Busy == pc \in {"stage", "propose", "rejected"}
RoundRuns ==
    /\ pc = "run" /\ stage # 1 => runs[stage] < runs[stage - 1]
    /\ Busy /\ stage # N => runs[stage + 1] < runs[stage]
    /\ Busy \/ (pc = "run" /\ stage # 1) => Len(log.accepted) < runs[1]

IInv == TypeOK /\ Shape /\ RoundFits /\ ConvergedFits /\ BudgetsBalance /\ RoundRuns

-----------------------------------------------------------------------------
(* Applying the changes of a proposal. *)

LEMMA LeastNatural ==
    ASSUME NEW T, T \subseteq Nat, T # {}
    PROVE  \E m \in T : \A k \in T : m <= k
<1>1. PICK m \in T : \A k \in T : ~ (<<k, m>> \in OpToRel(<, Nat))
  BY NatLessThanWellFounded, WFMin
<1>2. \A k \in T : ~ (k < m)
  BY <1>1 DEF OpToRel
<1> QED
  BY <1>2

LEMMA LastForLast ==
    ASSUME NEW p \in Seq(Change), NEW x, Touches(p, x)
    PROVE  /\ LastFor(p, x) \in DOMAIN p
           /\ p[LastFor(p, x)].knob = x
<1> DEFINE T == {Len(p) - i : i \in {j \in DOMAIN p : p[j].knob = x}}
<1>1. T \subseteq Nat /\ T # {}
  BY DEF Touches
<1>2. PICK m \in T : \A k \in T : m <= k
  BY <1>1, LeastNatural
<1>3. PICK i \in DOMAIN p : p[i].knob = x /\ m = Len(p) - i
  BY <1>2
<1>4. \A j \in DOMAIN p : p[j].knob = x => j <= i
  <2> SUFFICES ASSUME NEW j \in DOMAIN p, p[j].knob = x
               PROVE  j <= i
    OBVIOUS
  <2>1. Len(p) - j \in T
    OBVIOUS
  <2>2. Len(p) - i <= Len(p) - j
    BY <1>2, <1>3, <2>1
  <2> QED
    BY <2>2
<1> QED
  BY <1>3, <1>4 DEF LastFor

\* What a change of each knob carries.
LEMMA ChangeType ==
    ASSUME NEW c \in Change
    PROVE  /\ c.knob \in Ladder \cup Overriding => c.to \in Nat
           /\ c.knob = "pressure" => c.to \in Limit
           /\ c.knob \in Growing => c.to \in SUBSET Item
<1>1. "pressure" \notin Growing \cup Overriding /\ Growing \cap Overriding = {}
  BY DEF Growing, Overriding
<1>2. Ladder \cap (Growing \cup Overriding \cup {"pressure"}) = {}
  BY ConstantsAssumption
<1>3. CASE c \in [knob : Ladder \cup Overriding, to : Nat]
  BY <1>1, <1>2, <1>3
<1>4. CASE c \in [knob : {"pressure"}, to : Limit]
  BY <1>1, <1>2, <1>4
<1>5. CASE c \in [knob : Growing, to : SUBSET Item]
  BY <1>1, <1>2, <1>5
<1> QED
  BY <1>3, <1>4, <1>5 DEF Change

LEMMA ApplyDeltaType ==
    ASSUME NEW p \in Seq(Change), NEW k \in Knobs
    PROVE  ApplyDelta(p, k) \in Knobs
<1> DEFINE r == [x \in Ladder |-> IF Touches(p, x) THEN p[LastFor(p, x)].to ELSE k.rank[x]]
           l == IF Touches(p, "pressure") THEN p[LastFor(p, "pressure")].to ELSE k.limit
           s == [x \in Growing |->
                   k.set[x] \cup UNION {p[i].to : i \in {j \in DOMAIN p : p[j].knob = x}}]
           o == [x \in Overriding |-> IF Touches(p, x) THEN p[LastFor(p, x)].to ELSE k.over[x]]
<1>0. /\ k.rank \in [Ladder -> Nat] /\ k.limit \in Limit
      /\ k.set \in [Growing -> SUBSET Item] /\ k.over \in [Overriding -> Nat]
  BY DEF Knobs
<1>a. \A i \in DOMAIN p : p[i] \in Change
  OBVIOUS
<1>1. r \in [Ladder -> Nat]
  <2> SUFFICES ASSUME NEW x \in Ladder, Touches(p, x)
               PROVE  p[LastFor(p, x)].to \in Nat
    BY <1>0
  <2> QED
    BY <1>a, LastForLast, ChangeType
<1>2. l \in Limit
  BY <1>0, <1>a, LastForLast, ChangeType
<1>3. s \in [Growing -> SUBSET Item]
  <2> SUFFICES ASSUME NEW x \in Growing, NEW i \in DOMAIN p, p[i].knob = x
               PROVE  p[i].to \subseteq Item
    BY <1>0
  <2> QED
    BY <1>a, ChangeType
<1>4. o \in [Overriding -> Nat]
  <2> SUFFICES ASSUME NEW x \in Overriding, Touches(p, x)
               PROVE  p[LastFor(p, x)].to \in Nat
    BY <1>0
  <2> QED
    BY <1>a, LastForLast, ChangeType
<1>5. ApplyDelta(p, k) = [rank |-> r, limit |-> l, set |-> s, over |-> o]
  BY DEF ApplyDelta
<1> HIDE DEF r, l, s, o
<1> QED
  BY <1>1, <1>2, <1>3, <1>4, <1>5 DEF Knobs

-----------------------------------------------------------------------------
(* Counting the runs of the stages. *)

LEMMA SlotsFinite ==
    ASSUME NEW f
    PROVE  IsFiniteSet(Slots(f)) /\ Cardinality(Slots(f)) \in Nat
<1>1. IsFiniteSet(Stage) /\ IsFiniteSet(1..MaxByte)
  BY ConstantsAssumption, FS_Interval DEF Stage
<1>2. IsFiniteSet(Stage \X (1..MaxByte))
  BY <1>1, FS_Product
<1>3. Slots(f) \in SUBSET (Stage \X (1..MaxByte))
  BY DEF Slots
<1> QED
  BY <1>2, <1>3, FS_Subset, FS_CardinalityType

LEMMA TotalType == TotalSaturating(Ceiling) \in 0..MaxByte
<1>1. Cardinality(Slots(Ceiling)) \in Nat
  BY SlotsFinite
<1> QED
  BY <1>1, ConstantsAssumption DEF TotalSaturating, Sat

LEMMA SlotsNone ==
    ASSUME NEW f, \A s \in Stage : f[s] = 0
    PROVE  Cardinality(Slots(f)) = 0
<1>1. Slots(f) = {}
  BY DEF Slots
<1> QED
  BY <1>1, FS_EmptySet

LEMMA SlotsOneMore ==
    ASSUME NEW f \in [Stage -> 0..MaxByte], NEW s \in Stage, f[s] < MaxByte
    PROVE  Cardinality(Slots([f EXCEPT ![s] = f[s] + 1])) = Cardinality(Slots(f)) + 1
<1> DEFINE g == [f EXCEPT ![s] = f[s] + 1]
           q == <<s, f[s] + 1>>
<1>1. q \in Stage \X (1..MaxByte) /\ q \notin Slots(f)
  BY ConstantsAssumption DEF Slots
<1>2. Slots(g) = Slots(f) \cup {q}
  <2>1. \A p \in Stage \X (1..MaxByte) : p[2] <= g[p[1]] <=> (p[2] <= f[p[1]] \/ p = q)
    <3> SUFFICES ASSUME NEW a \in Stage, NEW i \in 1..MaxByte
                 PROVE  i <= g[a] <=> (i <= f[a] \/ <<a, i>> = q)
      OBVIOUS
    <3>1. CASE a = s
      BY <3>1, ConstantsAssumption
    <3>2. CASE a # s
      BY <3>2
    <3> QED
      BY <3>1, <3>2
  <2> QED
    BY <1>1, <2>1 DEF Slots
<1> QED
  BY <1>1, <1>2, SlotsFinite, FS_AddElement

-----------------------------------------------------------------------------
(* The invariant. *)

LEMMA ByteFacts ==
    /\ N \in Nat \ {0} /\ MaxByte \in Nat \ {0} /\ MaxRefine \in Nat
    /\ Ceiling \in [Stage -> 0..MaxByte] /\ 1 \in Stage
BY ConstantsAssumption DEF Stage

LEMMA InitIInv == Init => IInv
<1> SUFFICES ASSUME Init PROVE IInv
  OBVIOUS
<1> USE ConstantsAssumption DEF Init
<1>1. TypeOK
  BY TotalType DEF TypeOK, Stage, NoKnobs, NoRecord
<1>2. Shape /\ RoundFits /\ ConvergedFits /\ RoundRuns
  BY DEF Shape, RoundFits, ConvergedFits, RoundRuns, Busy, Stage, Terminal
<1>3. BudgetsBalance
  <2>1. Cardinality(Slots(runs)) = 0
    BY SlotsNone
  <2>2. \A s \in Stage \ {1} : s - 1 \in Stage
    BY DEF Stage
  <2> QED
    BY <2>1, <2>2, TotalType DEF BudgetsBalance, Stage
<1> QED
  BY <1>1, <1>2, <1>3 DEF IInv

\* A step that leaves the knobs, the budgets and the log alone.
LEMMA QuietStep ==
    ASSUME IInv, Answered, UNCHANGED <<stage, fitted>>,
           proposal' \in Proposal \/ UNCHANGED proposal,
           pc' \in {"propose", "rejected"} => proposal' \in Proposal,
           \/ Busy /\ pc' \in {"propose"} /\ UNCHANGED terminal
           \/ pc' = "done" /\ terminal' \in Terminal \ {"Converged"}
    PROVE  IInv'
<1> USE DEF Answered
<1>1. TypeOK'
  BY DEF IInv, TypeOK
<1>2. Shape'
  BY DEF IInv, Shape, Busy
<1>3. RoundFits' /\ BudgetsBalance'
  BY DEF IInv, RoundFits, BudgetsBalance
<1>4. ConvergedFits'
  BY DEF IInv, ConvergedFits, Shape, Busy, Terminal
<1>5. RoundRuns'
  BY DEF IInv, RoundRuns, Busy
<1> QED
  BY <1>1, <1>2, <1>3, <1>4, <1>5 DEF IInv

LEMMA RunStageIInv == IInv /\ RunStage => IInv'
<1> SUFFICES ASSUME IInv, RunStage PROVE IInv'
  OBVIOUS
<1> USE ByteFacts DEF RunStage
<1>0. TypeOK /\ BudgetsBalance /\ RoundRuns /\ Shape
  BY DEF IInv
<1>1. runs[stage] < MaxByte /\ runs' = [runs EXCEPT ![stage] = runs[stage] + 1]
  <2>1. /\ stage \in Stage /\ runs[stage] \in 0..MaxByte /\ left[stage] \in 0..MaxByte
        /\ Ceiling[stage] \in 0..MaxByte
    BY <1>0 DEF TypeOK
  <2>2. runs[stage] < MaxByte
    BY <1>0, <2>1 DEF BudgetsBalance
  <2>3. Sat(runs[stage] + 1) = runs[stage] + 1
    BY <2>1, <2>2 DEF Sat
  <2> QED
    BY <2>2, <2>3
<1>2. TypeOK'
  BY <1>0, <1>1 DEF TypeOK
<1>3. Shape' /\ RoundFits' /\ ConvergedFits'
  BY DEF IInv, Shape, RoundFits, ConvergedFits
<1>4. runs'[stage] = runs[stage] + 1 /\ \A s \in Stage : s # stage => runs'[s] = runs[s]
  BY <1>0, <1>1 DEF TypeOK
<1>5. BudgetsBalance'
  <2>1. Cardinality(Slots(runs')) = TotalSaturating(Ceiling)' - global'
    <3>1. Cardinality(Slots(runs')) = Cardinality(Slots(runs)) + 1
      BY <1>0, <1>1, SlotsOneMore DEF TypeOK
    <3> QED
      BY <1>0, <3>1, TotalType DEF TypeOK, BudgetsBalance
  <2>2. \A s \in Stage : runs'[s] + left'[s] = Ceiling[s]
    BY <1>0, <1>4 DEF TypeOK, BudgetsBalance
  <2>3. \A s \in Stage \ {1} : runs'[s] <= runs'[s - 1]
    <3> SUFFICES ASSUME NEW s \in Stage \ {1} PROVE runs'[s] <= runs'[s - 1]
      OBVIOUS
    <3>1. s - 1 \in Stage /\ runs[s] <= runs[s - 1] /\ runs[s] \in Nat /\ runs[s - 1] \in Nat
      <4>1. s - 1 \in Stage
        BY DEF Stage
      <4> QED
        BY <1>0, <4>1 DEF TypeOK, BudgetsBalance
    <3>2. CASE s = stage
      BY <1>0, <1>4, <3>1, <3>2 DEF RoundRuns
    <3>3. CASE s # stage
      BY <1>4, <3>1, <3>3
    <3> QED
      BY <3>2, <3>3
  <2>4. Len(log'.accepted) <= runs'[1]
    <3>1. runs[1] \in Nat /\ runs[1] <= runs'[1]
      BY <1>0, <1>4 DEF TypeOK
    <3>2. Len(log.accepted) \in Nat /\ Len(log.accepted) <= runs[1] /\ runs'[1] \in Nat
      BY <1>0, <1>2 DEF TypeOK, BudgetsBalance
    <3> QED
      BY <3>1, <3>2
  <2>5. Len(log'.accepted) = MaxRefine - acceptLeft'
    BY <1>0 DEF BudgetsBalance
  <2> QED
    BY <2>1, <2>2, <2>3, <2>4, <2>5 DEF BudgetsBalance, TotalSaturating, Slots, Sat
<1>6. RoundRuns'
  <2>1. stage # N => runs'[stage + 1] < runs'[stage]
    <3> SUFFICES ASSUME stage # N PROVE runs'[stage + 1] < runs'[stage]
      OBVIOUS
    <3>1. stage + 1 \in Stage \ {1} /\ stage + 1 # stage /\ stage = (stage + 1) - 1
      BY <1>0 DEF TypeOK, Stage
    <3>2. runs[stage + 1] <= runs[stage]
      BY <1>0, <3>1 DEF BudgetsBalance
    <3> QED
      BY <1>0, <1>4, <3>1, <3>2 DEF TypeOK
  <2>2. Len(log.accepted) < runs'[1]
    <3>1. CASE stage = 1
      BY <1>0, <1>4, <3>1 DEF TypeOK, BudgetsBalance
    <3>2. CASE stage # 1
      BY <1>0, <1>4, <3>2 DEF TypeOK, RoundRuns, Stage
    <3> QED
      BY <3>1, <3>2
  <2> QED
    BY <2>1, <2>2 DEF RoundRuns, Busy
<1> QED
  BY <1>2, <1>3, <1>5, <1>6 DEF IInv

LEMMA SucceededIInv == IInv /\ Succeeded => IInv'
<1> SUFFICES ASSUME IInv, Succeeded PROVE IInv'
  OBVIOUS
<1> USE ByteFacts DEF Succeeded, Answered
<1>0. TypeOK /\ RoundFits /\ BudgetsBalance /\ RoundRuns /\ Shape
  BY DEF IInv
<1>1. TypeOK'
  <2>1. stage' \in Stage
    BY <1>0, SMTT(40) DEF TypeOK, Stage, Finish
  <2>2. fitted' \in [Stage -> Knobs \cup {NoKnobs}]
    BY <1>0 DEF TypeOK
  <2>3. pc' \in {"run", "done"} /\ terminal' \in Terminal \cup {"none"}
    BY <1>0 DEF TypeOK, Finish, Terminal
  <2> QED
    BY <1>0, <2>1, <2>2, <2>3 DEF TypeOK
<1>2. Shape' /\ BudgetsBalance'
  BY <1>0 DEF Shape, BudgetsBalance, Finish
<1>3. \A s \in Stage : s <= stage => fitted'[s] = knobs
  BY <1>0 DEF TypeOK, RoundFits, Stage
<1>4. RoundFits' /\ ConvergedFits'
  BY <1>0, <1>3, SMTT(40) DEF RoundFits, ConvergedFits, Finish, TypeOK, Shape, Stage
<1>5. RoundRuns'
  <2>1. CASE stage = N
    BY <2>1 DEF RoundRuns, Busy, Finish
  <2>2. CASE stage # N
    <3>1. pc' = "run" /\ stage' = stage + 1 /\ (stage + 1) - 1 = stage
      BY <1>0, <2>2 DEF TypeOK, Stage
    <3>2. runs[stage + 1] < runs[stage] /\ Len(log.accepted) < runs[1]
      BY <1>0, <2>2 DEF RoundRuns, Busy
    <3> QED
      BY <3>1, <3>2 DEF RoundRuns, Busy
  <2> QED
    BY <2>1, <2>2
<1> QED
  BY <1>0, <1>1, <1>2, <1>4, <1>5 DEF IInv

LEMMA RejectIInv == IInv /\ Reject => IInv'
<1> SUFFICES ASSUME IInv, Reject PROVE IInv'
  OBVIOUS
<1> USE ByteFacts DEF Reject, Record
<1>0. TypeOK /\ Shape /\ BudgetsBalance
  BY DEF IInv
<1>1. Iter \in 1..MaxByte
  BY <1>0 DEF TypeOK, Iter, Sat
<1>2. FirstRejection(proposal, knobs) \in Reason
  <2>1. Blocked(proposal, knobs) # {}
    BY DEF FirstRejection
  <2> DEFINE B == Blocked(proposal, knobs)
             i == CHOOSE j \in B : \A l \in B : j <= l
  <2>2. FirstRejection(proposal, knobs) = Rejection(proposal[i], knobs)
    BY <2>1 DEF FirstRejection
  <2> QED
    BY <2>2 DEF Rejection, Reason
<1>3. log' \in [accepted : Seq(Acceptance), rejected : Refusal \cup {NoRecord}]
  BY <1>0, <1>1, <1>2 DEF TypeOK, Shape, Refusal
<1>4. TypeOK'
  BY <1>0, <1>3 DEF TypeOK
<1>5. log'.accepted = log.accepted
  BY <1>0 DEF TypeOK
<1>6. Shape' /\ RoundFits' /\ ConvergedFits'
  BY DEF IInv, Shape, RoundFits, ConvergedFits
<1>7. BudgetsBalance' /\ RoundRuns'
  BY <1>5 DEF IInv, BudgetsBalance, RoundRuns, Busy, TotalSaturating, Slots, Sat
<1> QED
  BY <1>4, <1>6, <1>7 DEF IInv

LEMMA NoBudgetIInv == IInv /\ NoBudget => IInv'
<1> SUFFICES ASSUME IInv, NoBudget PROVE IInv'
  OBVIOUS
<1> USE ByteFacts DEF NoBudget, Record, Finish
<1>0. TypeOK /\ Shape /\ BudgetsBalance
  BY DEF IInv
<1>1. Iter \in 1..MaxByte
  BY <1>0 DEF TypeOK, Iter, Sat
<1>3. log' \in [accepted : Seq(Acceptance), rejected : Refusal \cup {NoRecord}]
  BY <1>0, <1>1 DEF TypeOK, Shape, Refusal, Reason
<1>4. TypeOK'
  BY <1>0, <1>3 DEF TypeOK, Terminal
<1>5. log'.accepted = log.accepted
  BY <1>0 DEF TypeOK
<1>6. Shape' /\ RoundFits' /\ ConvergedFits'
  BY DEF IInv, Shape, RoundFits, ConvergedFits
<1>7. BudgetsBalance' /\ RoundRuns'
  BY <1>5 DEF IInv, BudgetsBalance, RoundRuns, Busy, TotalSaturating, Slots, Sat
<1> QED
  BY <1>4, <1>6, <1>7 DEF IInv

LEMMA AcceptIInv == IInv /\ Accept => IInv'
<1> SUFFICES ASSUME IInv, Accept PROVE IInv'
  OBVIOUS
<1> USE ByteFacts DEF Accept, Accepted
<1>0. TypeOK /\ Shape /\ BudgetsBalance /\ RoundRuns
  BY DEF IInv
<1>1. Iter \in 1..MaxByte
  BY <1>0, SMTT(40) DEF TypeOK, Iter, Sat
<1>2. knobs' \in Knobs
  <2>1. proposal \in Seq(Change)
    BY <1>0, ConstantsAssumption DEF Shape
  <2> QED
    BY <1>0, <2>1, ApplyDeltaType DEF TypeOK
<1>3. /\ log'.accepted = Append(log.accepted, Summary)
      /\ log' \in [accepted : Seq(Acceptance), rejected : Refusal \cup {NoRecord}]
  <2>1. log \in [accepted : Seq(Acceptance), rejected : Refusal \cup {NoRecord}]
    BY <1>0 DEF TypeOK
  <2>2. Summary \in Acceptance
    BY <1>0, <1>1, <1>2 DEF Shape, Summary, Acceptance, TypeOK
  <2>3. log' = [log EXCEPT !.accepted = Append(log.accepted, Summary)]
    OBVIOUS
  <2>4. Append(log.accepted, Summary) \in Seq(Acceptance)
    BY <2>1, <2>2
  <2> QED
    BY <2>1, <2>3, <2>4
<1>4. TypeOK'
  <2>1. acceptLeft' \in 0..MaxRefine
    BY <1>0, SMTT(40) DEF TypeOK
  <2>2. /\ global' \in 0..MaxByte /\ left' \in [Stage -> 0..MaxByte]
        /\ runs' \in [Stage -> 0..MaxByte] /\ terminal' \in Terminal \cup {"none"}
        /\ fitted' \in [Stage -> Knobs \cup {NoKnobs}]
    BY <1>0 DEF TypeOK
  <2> QED
    BY <1>2, <1>3, <2>1, <2>2 DEF TypeOK
<1>5. Len(log'.accepted) = Len(log.accepted) + 1
  BY <1>0, <1>3 DEF TypeOK
<1>6. Shape' /\ RoundFits' /\ ConvergedFits'
  BY <1>0 DEF Shape, RoundFits, ConvergedFits, Stage
<1>7. BudgetsBalance'
  <2>1. Len(log.accepted) + 1 <= runs[1]
    BY <1>0 DEF TypeOK, RoundRuns, Busy
  <2>2. Len(log'.accepted) = MaxRefine - acceptLeft'
    BY <1>0, <1>5 DEF TypeOK, BudgetsBalance
  <2> QED
    BY <1>0, <1>5, <2>1, <2>2 DEF BudgetsBalance, TotalSaturating, Slots, Sat
<1>8. RoundRuns'
  BY DEF RoundRuns, Busy
<1> QED
  BY <1>4, <1>6, <1>7, <1>8 DEF IInv

LEMMA NextIInv == IInv /\ [Next]_vars => IInv'
<1> SUFFICES ASSUME IInv, [Next]_vars PROVE IInv'
  OBVIOUS
<1>1. CASE Exhausted
  BY <1>1, QuietStep DEF Exhausted, Finish, Answered, Terminal
<1>2. CASE RunStage
  BY <1>2, RunStageIInv
<1>3. CASE Succeeded
  BY <1>3, SucceededIInv
<1>4. CASE Unrepairable
  BY <1>4, QuietStep DEF Unrepairable, Finish, Terminal
<1>5. CASE Mismatch
  BY <1>5, QuietStep DEF Mismatch, Finish, Terminal
<1>6. CASE Reject
  BY <1>6, RejectIInv
<1>7. CASE NoAlternative
  BY <1>7, QuietStep DEF NoAlternative, Finish, Terminal
<1>8. CASE NoBudget
  BY <1>8, NoBudgetIInv
<1>9. CASE Accept
  BY <1>9, AcceptIInv
<1>10. ASSUME NEW p \in Proposal, Propose(p) \/ Alternative(p) PROVE IInv'
  BY <1>10, QuietStep DEF Propose, Alternative, Busy
<1>11. CASE UNCHANGED vars
  <2> USE <1>11 DEF vars
  <2>1. TypeOK' /\ Shape' /\ RoundFits' /\ ConvergedFits'
    BY DEF IInv, TypeOK, Shape, RoundFits, ConvergedFits
  <2>2. BudgetsBalance' /\ RoundRuns'
    BY DEF IInv, BudgetsBalance, RoundRuns, Busy, TotalSaturating, Slots, Sat
  <2> QED
    BY <2>1, <2>2 DEF IInv
<1> QED
  BY <1>1, <1>2, <1>3, <1>4, <1>5, <1>6, <1>7, <1>8, <1>9, <1>10, <1>11
     DEF Next, Step, Offer, Done

LEMMA SpecIInv == Spec => []IInv
BY InitIInv, NextIInv, PTL DEF Spec

\* Type correctness of LoopState and its history, for any stages, budgets,
\* knobs and proposals: no budget underflows, and applying a proposal gives
\* well-formed knobs (refinement_loop.rs, run_refinement_loop).
THEOREM SpecTypeOK == Spec => []TypeOK
<1>1. IInv => TypeOK
  BY DEF IInv
<1> QED
  BY <1>1, SpecIInv, PTL

\* A converged loop returns knobs with which every stage has succeeded.
THEOREM SpecConvergedFits == Spec => []ConvergedFits
<1>1. IInv => ConvergedFits
  BY DEF IInv
<1> QED
  BY <1>1, SpecIInv, PTL

\* The figures of the repair report agree with the budgets, saturation of
\* the global one included.
THEOREM SpecBudgetsBalance == Spec => []BudgetsBalance
<1>1. IInv => BudgetsBalance
  BY DEF IInv
<1> QED
  BY <1>1, SpecIInv, PTL

-----------------------------------------------------------------------------
(* What the report says of the accepted proposals. *)

\* Accepting a proposal adds one link to the chain.
LEMMA AcceptExplains == IInv /\ LogExplains /\ Accept => LogExplains'
<1> SUFFICES ASSUME IInv, LogExplains, Accept PROVE LogExplains'
  OBVIOUS
<1> DEFINE a == log.accepted
           b == log'.accepted
<1>1. a \in Seq(Acceptance) /\ Summary \in Acceptance
  <2>1. TypeOK /\ Shape
    BY DEF IInv
  <2>2. Iter \in 1..MaxByte
    BY <2>1, ByteFacts DEF TypeOK, Iter, Sat
  <2>3. proposal \in Proposal /\ ApplyDelta(proposal, knobs) \in Knobs
    BY <2>1, ConstantsAssumption, ApplyDeltaType DEF Accept, Accepted, Shape, TypeOK
  <2> QED
    BY <2>1, <2>2, <2>3 DEF TypeOK, Summary, Acceptance
<1>2. b = Append(a, Summary)
  BY DEF Accept, Accepted, IInv, TypeOK
<1>3. /\ Len(b) = Len(a) + 1 /\ b # <<>> /\ b[Len(b)] = Summary
      /\ \A i \in DOMAIN a : i \in DOMAIN b /\ b[i] = a[i]
      /\ \A i \in DOMAIN b : i \in DOMAIN a \/ i = Len(a) + 1
      /\ Len(a) \in Nat /\ DOMAIN a = 1..Len(a)
  BY <1>1, <1>2
<1>4. /\ Summary.before = knobs /\ Summary.changes = proposal /\ Summary.iter = Sat(Len(a) + 1)
      /\ Summary.after = ApplyDelta(proposal, knobs) /\ knobs' = ApplyDelta(proposal, knobs)
      /\ FirstRejection(proposal, knobs) = "none"
  BY DEF Summary, Iter, Accept, Accepted
<1>5. knobs = IF a = <<>> THEN Initial ELSE a[Len(a)].after
  BY DEF LogExplains
<1>6. ASSUME NEW i \in DOMAIN b
      PROVE  /\ b[i].before = IF i = 1 THEN Initial ELSE b[i - 1].after
             /\ FirstRejection(b[i].changes, b[i].before) = "none"
             /\ b[i].after = ApplyDelta(b[i].changes, b[i].before)
             /\ b[i].iter = Sat(i)
  <2>1. CASE i \in DOMAIN a
    <3>1. /\ a[i].before = IF i = 1 THEN Initial ELSE a[i - 1].after
          /\ FirstRejection(a[i].changes, a[i].before) = "none"
          /\ a[i].after = ApplyDelta(a[i].changes, a[i].before)
          /\ a[i].iter = Sat(i)
      BY <2>1 DEF LogExplains
    <3>2. b[i] = a[i] /\ (i # 1 => b[i - 1] = a[i - 1])
      BY <1>3, <2>1
    <3> HIDE DEF a, b
    <3> QED
      BY <3>1, <3>2
  <2>2. CASE i = Len(a) + 1
    <3>1. b[i] = Summary
      BY <1>3, <2>2
    <3>2. i = 1 <=> a = <<>>
      BY <1>1, <2>2
    <3>3. i # 1 => b[i - 1] = a[Len(a)]
      BY <1>3, <2>2
    <3> HIDE DEF a, b
    <3> QED
      BY <1>4, <1>5, <2>2, <3>1, <3>2, <3>3
  <2> QED
    BY <1>3, <2>1, <2>2
<1>7. knobs' = IF b = <<>> THEN Initial ELSE b[Len(b)].after
  BY <1>3, <1>4
<1> QED
  BY <1>6, <1>7 DEF LogExplains

\* The knobs and the accepted proposals explain each other: a rejected
\* proposal, or part of one, never reaches the knobs, and none is applied to
\* knobs other than the ones it was checked against (refinement_loop.rs,
\* run_refinement_loop and KnobDeltaSummary::from_delta).
THEOREM SpecLogExplains == Spec => []LogExplains
<1>1. Init => LogExplains
  BY DEF Init, LogExplains
<1>2. IInv /\ LogExplains /\ [Next]_vars => LogExplains'
  <2> SUFFICES ASSUME IInv, LogExplains, [Next]_vars, ~Accept PROVE LogExplains'
    BY AcceptExplains
  <2>1. knobs' = knobs /\ log'.accepted = log.accepted
    BY DEF IInv, TypeOK, Next, Step, Offer, Done, vars, Exhausted, RunStage, Succeeded,
           Unrepairable, Mismatch, Reject, NoAlternative, NoBudget, Propose, Alternative,
           Answered, Record
  <2> QED
    BY <2>1 DEF LogExplains
<1> QED
  BY <1>1, <1>2, SpecIInv, PTL DEF Spec

-----------------------------------------------------------------------------
(* What an accepted proposal may change. *)

LEMMA NoneBlocked ==
    ASSUME NEW p \in Seq(Change), NEW k, FirstRejection(p, k) = "none"
    PROVE  \A i \in DOMAIN p : Rejection(p[i], k) = "none"
<1> SUFFICES ASSUME Blocked(p, k) # {} PROVE FALSE
  BY DEF Blocked
<1> DEFINE B == Blocked(p, k)
           i == CHOOSE j \in B : \A l \in B : j <= l
<1>1. B \subseteq Nat
  BY DEF Blocked
<1>2. i \in B
  BY <1>1, LeastNatural
<1>3. FirstRejection(p, k) = Rejection(p[i], k)
  BY DEF FirstRejection
<1> QED
  BY <1>2, <1>3 DEF Blocked

LEMMA Admitted ==
    ASSUME NEW c, NEW k, Rejection(c, k) = "none"
    PROVE  /\ KnobId(c.knob) \notin Locked /\ Toggle(c) \notin Disabled
           /\ InBounds(c) /\ Advances(c, k)
           /\ c.knob = "recompute" => c.to \subseteq Pure
           /\ ~(Invariant /\ c.knob \in Observed)
BY DEF Rejection

\* A change that is admitted is not one of a frozen knob.
LEMMA AdmittedNotFrozen ==
    ASSUME NEW c, NEW k, Rejection(c, k) = "none"
    PROVE  ~Frozen(c.knob)
<1>1. Toggle([knob |-> c.knob, to |-> 0]) \in {Toggle(c), "always"}
  <2> DEFINE d == [knob |-> c.knob, to |-> 0]
  <2>1. d.knob = c.knob /\ d.to = 0
    OBVIOUS
  <2> HIDE DEF d
  <2>2. Toggle(d) \in {Toggle(c), "always"}
    BY <2>1 DEF Toggle, WramOverlay, Observed
  <2> QED
    BY <2>2 DEF d
<1>2. "always" \notin Disabled
  BY ConstantsAssumption
<1> QED
  BY <1>1, <1>2, Admitted DEF Frozen

LEMMA AcceptAdvances ==
    ASSUME NEW p \in Seq(Change), NEW k \in Knobs, FirstRejection(p, k) = "none",
           NEW n, n = ApplyDelta(p, k)
    PROVE  /\ \A x \in Ladder : \/ n.rank[x] = k.rank[x]
                                \/ ~Frozen(x) /\ k.rank[x] < n.rank[x] /\ n.rank[x] <= Bound[x]
           /\ \/ n.limit = k.limit
              \/ /\ ~Frozen("pressure")
                 /\ k.limit.soft <= n.limit.soft /\ n.limit.soft <= n.limit.hard
                 /\ k.limit.hard <= n.limit.hard /\ n.limit.hard <= MaxLimit.hard
           /\ \A x \in Growing : k.set[x] \subseteq n.set[x] /\ (Frozen(x) => n.set[x] = k.set[x])
           /\ n.set["recompute"] \subseteq k.set["recompute"] \cup Pure
           /\ \A x \in Overriding : Frozen(x) => n.over[x] = k.over[x]
<1>1. \A i \in DOMAIN p : p[i] \in Change /\ Rejection(p[i], k) = "none"
  BY NoneBlocked
<1>0. /\ \A x \in Ladder : n.rank[x] = IF Touches(p, x) THEN p[LastFor(p, x)].to ELSE k.rank[x]
      /\ n.limit = IF Touches(p, "pressure") THEN p[LastFor(p, "pressure")].to ELSE k.limit
      /\ \A x \in Growing : n.set[x] =
            k.set[x] \cup UNION {p[i].to : i \in {j \in DOMAIN p : p[j].knob = x}}
      /\ \A x \in Overriding : n.over[x] = IF Touches(p, x) THEN p[LastFor(p, x)].to ELSE k.over[x]
  BY DEF ApplyDelta
<1>2. ASSUME NEW x, Touches(p, x)
      PROVE  /\ p[LastFor(p, x)].knob = x
             /\ Rejection(p[LastFor(p, x)], k) = "none" /\ ~Frozen(x)
  BY <1>1, <1>2, LastForLast, AdmittedNotFrozen
<1>3. ASSUME NEW x \in Ladder
      PROVE  \/ n.rank[x] = k.rank[x]
             \/ ~Frozen(x) /\ k.rank[x] < n.rank[x] /\ n.rank[x] <= Bound[x]
  <2> SUFFICES ASSUME Touches(p, x)
               PROVE  ~Frozen(x) /\ k.rank[x] < n.rank[x] /\ n.rank[x] <= Bound[x]
    BY <1>0
  <2> DEFINE c == p[LastFor(p, x)]
  <2>1. c.knob = x /\ InBounds(c) /\ Advances(c, k) /\ ~Frozen(x)
    BY <1>2, Admitted
  <2>2. c \in Change /\ c.to \in Nat /\ n.rank[x] = c.to /\ k.rank[x] \in Nat
    BY <1>0, <1>1, LastForLast, ChangeType, <2>1 DEF Knobs
  <2>3. x \notin {"ceiling", "pressure", "tiles"} \cup Growing
    BY ConstantsAssumption DEF Growing, Overriding
  <2>4. Bound[x] \in Nat
    BY ConstantsAssumption
  <2> HIDE DEF c
  <2>5. c.to <= Bound[x] /\ c.to > k.rank[x]
    BY <2>1, <2>3 DEF InBounds, Advances
  <2> QED
    BY <2>1, <2>2, <2>4, <2>5
<1>4. \/ n.limit = k.limit
      \/ /\ ~Frozen("pressure")
         /\ k.limit.soft <= n.limit.soft /\ n.limit.soft <= n.limit.hard
         /\ k.limit.hard <= n.limit.hard /\ n.limit.hard <= MaxLimit.hard
  <2> SUFFICES ASSUME Touches(p, "pressure")
               PROVE  /\ ~Frozen("pressure")
                      /\ k.limit.soft <= n.limit.soft /\ n.limit.soft <= n.limit.hard
                      /\ k.limit.hard <= n.limit.hard /\ n.limit.hard <= MaxLimit.hard
    BY <1>0
  <2> DEFINE c == p[LastFor(p, "pressure")]
  <2>1. c.knob = "pressure" /\ InBounds(c) /\ Advances(c, k) /\ ~Frozen("pressure")
    BY <1>2, Admitted
  <2>2. c \in Change /\ c.to \in Limit /\ n.limit = c.to /\ k.limit \in Limit
    BY <1>0, <1>1, LastForLast, ChangeType, <2>1 DEF Knobs
  <2>3. "pressure" \notin Ladder /\ MaxLimit \in Limit
    BY ConstantsAssumption
  <2> HIDE DEF c
  <2>4. /\ c.to.soft <= c.to.hard /\ c.to.hard <= MaxLimit.hard
        /\ c.to.soft >= k.limit.soft /\ c.to.hard >= k.limit.hard
    BY <2>1, <2>3 DEF InBounds, Advances, Growing
  <2> QED
    BY <2>1, <2>2, <2>3, <2>4 DEF Limit
<1>5. ASSUME NEW x \in Growing
      PROVE  k.set[x] \subseteq n.set[x] /\ (Frozen(x) => n.set[x] = k.set[x])
  <2>1. Frozen(x) => {j \in DOMAIN p : p[j].knob = x} = {}
    BY <1>1, AdmittedNotFrozen
  <2>2. n.set[x] = k.set[x] \cup UNION {p[i].to : i \in {j \in DOMAIN p : p[j].knob = x}}
    BY <1>0
  <2>3. CASE Frozen(x)
    BY <2>1, <2>2, <2>3
  <2>4. CASE ~Frozen(x)
    BY <2>2, <2>4
  <2> QED
    BY <2>3, <2>4
<1>6. n.set["recompute"] \subseteq k.set["recompute"] \cup Pure
  <2>1. \A i \in DOMAIN p : p[i].knob = "recompute" => p[i].to \subseteq Pure
    BY <1>1, Admitted
  <2> QED
    BY <1>0, <2>1 DEF Growing
<1>7. ASSUME NEW x \in Overriding, Frozen(x)
      PROVE  n.over[x] = k.over[x]
  BY <1>0, <1>2, <1>7
<1> QED
  BY <1>3, <1>4, <1>5, <1>6, <1>7

\* No accepted proposal takes a rank, a threshold or a member of a set back,
\* exceeds a bound, or changes what a lock, a toggle or invariant observability
\* protects (compile.rs, check_delta_admissible_with_recompute_purity).  Of an
\* override it says only the last.
THEOREM SpecKnobsAdvance == Spec => KnobsAdvance
<1> DEFINE A ==
        /\ \A x \in Ladder :
              \/ knobs'.rank[x] = knobs.rank[x]
              \/ ~Frozen(x) /\ knobs.rank[x] < knobs'.rank[x] /\ knobs'.rank[x] <= Bound[x]
        /\ \/ knobs'.limit = knobs.limit
           \/ /\ ~Frozen("pressure")
              /\ knobs.limit.soft <= knobs'.limit.soft /\ knobs'.limit.soft <= knobs'.limit.hard
              /\ knobs.limit.hard <= knobs'.limit.hard /\ knobs'.limit.hard <= MaxLimit.hard
        /\ \A x \in Growing : /\ knobs.set[x] \subseteq knobs'.set[x]
                              /\ Frozen(x) => knobs'.set[x] = knobs.set[x]
        /\ knobs'.set["recompute"] \subseteq knobs.set["recompute"] \cup Pure
        /\ \A x \in Overriding : Frozen(x) => knobs'.over[x] = knobs.over[x]
<1>1. IInv /\ [Next]_vars => [A]_vars
  <2> SUFFICES ASSUME IInv, Next PROVE A
    OBVIOUS
  <2>1. CASE Accept
    <3>1. proposal \in Seq(Change) /\ knobs \in Knobs
      BY <2>1, ConstantsAssumption DEF IInv, TypeOK, Shape, Accept, Accepted
    <3>2. FirstRejection(proposal, knobs) = "none" /\ knobs' = ApplyDelta(proposal, knobs)
      BY <2>1 DEF Accept, Accepted
    <3> QED
      BY <3>1, <3>2, AcceptAdvances
  <2>2. CASE ~Accept
    <3>1. knobs' = knobs
      BY <2>2 DEF Next, Step, Offer, Done, vars, Exhausted, RunStage, Succeeded, Unrepairable,
            Mismatch, Reject, NoAlternative, NoBudget, Propose, Alternative, Answered
    <3> QED
      BY <3>1
  <2> QED
    BY <2>1, <2>2
<1> QED
  BY <1>1, SpecIInv, PTL DEF Spec, KnobsAdvance
=============================================================================
