--------------------------- MODULE RefinementLoop ---------------------------
(***************************************************************************)
(* The feasibility-refinement loop of the compiler                          *)
(* (src/gbf-codegen/src/refinement_loop.rs) and the admissibility check it  *)
(* rests on (src/gbf-policy/src/compile.rs).  Planning stages run in order; *)
(* a stage that does not fit proposes changes to the compile knobs, and the *)
(* driver alone applies them, within three budgets, and starts over.        *)
(*                                                                          *)
(* The pipeline is a trait: what a stage answers is chosen freely.          *)
(***************************************************************************)
EXTENDS Integers, Sequences, FiniteSets

CONSTANTS
    N,          \* the number of WRAPPED_PLANNING_STAGES, run as 1..N
    Ceiling,    \* StageIterationCeilings: runs allowed for each stage
    MaxRefine,  \* RepairPolicy::max_refinement_iters
    MaxByte,    \* u8::MAX
    Ladder,     \* knobs whose value is a rank (MonotoneKnob)
    Bound,      \* CompileKnobBounds: the last admissible rank of each
    MaxLimit,   \* ... and the largest admissible pressure threshold
    Item,       \* probes and values, the members of the two growing sets
    Pure,       \* RecomputePurityFacts: values that may be recomputed
    Locked,     \* KnobLockSet: the locked knob_ids
    Disabled,   \* the toggles of RepairPolicy that are off
    Invariant,  \* BOOLEAN: ObservabilityMode::Invariant
    Initial,    \* the compile knobs given to the loop
    Proposal    \* lists of changes that stages may propose (ConstraintDelta)

Stage == 1..N

\* The two sets only grow; the overrides are maps that an insert replaces,
\* here with the one selector that matters.  0 is "no override".
Growing    == {"probes", "recompute"}
Overriding == {"ceiling", "residency", "tiles"}
Observed   == {"demotion", "probes"}
Limit      == [soft : Nat, hard : Nat]
Knobs == [rank : [Ladder -> Nat], limit : Limit,
          set : [Growing -> SUBSET Item], over : [Overriding -> Nat]]

\* KnobDelta: one change of one knob.
Change == [knob : Ladder \cup Overriding, to : Nat] \cup [knob : {"pressure"}, to : Limit]
          \cup [knob : Growing, to : SUBSET Item]

ASSUME ConstantsAssumption ==
    /\ N \in Nat \ {0} /\ MaxByte \in Nat \ {0}
    /\ Ceiling \in [Stage -> 0..MaxByte] /\ MaxRefine \in 0..MaxByte
    /\ Ladder \cap (Growing \cup Overriding \cup {"pressure"}) = {}
    /\ "range" \in Ladder /\ "always" \notin Disabled
    /\ Bound \in [Ladder -> Nat] /\ MaxLimit \in Limit /\ Invariant \in BOOLEAN
    /\ Initial \in Knobs /\ Proposal \subseteq Seq(Change)

-----------------------------------------------------------------------------
(* check_delta_admissible_with_recompute_purity. *)

\* knob_id: a ceiling for one selector is a change of the reduction ceiling.
KnobId(knob) == IF knob = "ceiling" THEN "range" ELSE knob

\* disabled_policy_toggle: the toggle a change depends on; for a kernel's
\* residency, only the move into the WRAM overlay (the variants of
\* KernelResidency count from 1 here, 0 being "no override").
WramOverlay == 4
Toggle(c) ==
    CASE c.knob = "placement" -> "placement"
      [] c.knob \in Observed  -> "trace"
      [] c.knob \in {"materialization", "recompute"} -> "recompute"
      [] c.knob = "overlay" \/ (c.knob = "residency" /\ c.to = WramOverlay) -> "overlay"
      [] OTHER -> "always"

\* check_delta_bounds.
InBounds(c) ==
    CASE c.knob \in Ladder    -> c.to <= Bound[c.knob]
      [] c.knob = "ceiling"   -> c.to <= Bound["range"]
      [] c.knob = "pressure"  -> /\ c.to.soft <= c.to.hard
                                 /\ c.to.soft <= MaxLimit.soft /\ c.to.hard <= MaxLimit.hard
      [] OTHER -> TRUE

\* The hard limit not looked at.
MutantAdvances(c, k) ==
    CASE c.knob \in Ladder    -> c.to > k.rank[c.knob]
      [] c.knob = "pressure" -> c.to.soft >= k.limit.soft /\ c.to # k.limit
      [] OTHER -> TRUE

\* check_delta_monotone.  A per-selector ceiling is compared with the global
\* one, a set with nothing but the empty set, a residency with nothing.
Advances(c, k) ==
    CASE c.knob \in Ladder    -> c.to > k.rank[c.knob]
      [] c.knob = "ceiling"   -> c.to > k.rank["range"]
      [] c.knob = "pressure"  -> /\ c.to.soft >= k.limit.soft /\ c.to.hard >= k.limit.hard
                                 /\ c.to # k.limit
      [] c.knob \in Growing   -> c.to # {}
      [] c.knob = "tiles"     -> c.to # 0
      [] OTHER -> TRUE

\* The checks in the order of the code: the first that fails is the reason.
Rejection(c, k) ==
    IF KnobId(c.knob) \in Locked      THEN "KnobLocked"
    ELSE IF Toggle(c) \in Disabled    THEN "PolicyToggleDisabled"
    ELSE IF ~InBounds(c)              THEN "BeyondBounds"
    ELSE IF ~Advances(c, k)           THEN "NotMonotone"
    ELSE IF c.knob = "recompute" /\ ~(c.to \subseteq Pure) THEN "EffectfulRecompute"
    ELSE IF Invariant /\ c.knob \in Observed THEN "InvariantObservabilityViolation"
    ELSE "none"

\* first_rejection: every change of a proposal against the same knobs.
Blocked(p, k) == {i \in DOMAIN p : Rejection(p[i], k) # "none"}
FirstRejection(p, k) ==
    LET i == CHOOSE j \in Blocked(p, k) : \A l \in Blocked(p, k) : j <= l
    IN  IF Blocked(p, k) = {} THEN "none" ELSE Rejection(p[i], k)

\* apply_constraint_delta: the last change of a knob wins, the sets add up.
LastFor(p, knob) == CHOOSE i \in DOMAIN p :
    p[i].knob = knob /\ \A j \in DOMAIN p : p[j].knob = knob => j <= i
Touches(p, knob) == \E i \in DOMAIN p : p[i].knob = knob
ApplyDelta(p, k) ==
    [rank  |-> [x \in Ladder |-> IF Touches(p, x) THEN p[LastFor(p, x)].to ELSE k.rank[x]],
     limit |-> IF Touches(p, "pressure") THEN p[LastFor(p, "pressure")].to ELSE k.limit,
     set   |-> [x \in Growing |->
                   k.set[x] \cup UNION {p[i].to : i \in {j \in DOMAIN p : p[j].knob = x}}],
     over  |-> [x \in Overriding |-> IF Touches(p, x) THEN p[LastFor(p, x)].to ELSE k.over[x]]]

-----------------------------------------------------------------------------
VARIABLES
    knobs,      \* LoopState::knobs
    global,     \* global_iters_remaining
    left,       \* stage_iters_remaining
    acceptLeft, \* accepted_iters_remaining
    runs,       \* history.stage_iteration_counts
    log,        \* history.proposals: the accepted ones in order, and the
                \* rejection recorded last
    stage,      \* the stage of the for loop
    proposal,   \* the proposal under examination
    pc, terminal,
    fitted      \* history: the knobs with which each stage last succeeded

vars == <<knobs, global, left, acceptLeft, runs, log, stage, proposal, pc, terminal, fitted>>

Reason == {"KnobLocked", "PolicyToggleDisabled", "BeyondBounds", "NotMonotone",
           "EffectfulRecompute", "InvariantObservabilityViolation",
           "AcceptedRefinementBudgetExhausted"}
Terminal == {"Converged", "AcceptedRefinementBudgetExhausted", "GlobalBudgetExhausted",
             "StageBudgetExhausted", "StagedFailureUnrepairable", "ProposalStageMismatch"}
NoKnobs  == [none |-> TRUE]
NoRecord == [none |-> TRUE]

\* RepairProposalRecord, by outcome: an accepted proposal carries the
\* KnobDeltaSummary with the knobs before and after it.
Acceptance == [iter : 1..MaxByte, changes : Proposal, before : Knobs, after : Knobs]
Refusal    == [iter : 1..MaxByte, changes : Proposal, reason : Reason]

TypeOK ==
    /\ knobs \in Knobs
    /\ global \in 0..MaxByte /\ acceptLeft \in 0..MaxRefine
    /\ left \in [Stage -> 0..MaxByte] /\ runs \in [Stage -> 0..MaxByte]
    /\ log \in [accepted : Seq(Acceptance), rejected : Refusal \cup {NoRecord}]
    /\ stage \in Stage /\ proposal \in Proposal \cup {<<>>}
    /\ pc \in {"run", "stage", "propose", "rejected", "done"}
    /\ terminal \in Terminal \cup {"none"}
    /\ fitted \in [Stage -> Knobs \cup {NoKnobs}]

\* saturating_add of u8; and total_saturating over the stages, the sum as the
\* number of pairs of a stage and a run of it.
Sat(n)   == IF n > MaxByte THEN MaxByte ELSE n
Slots(f) == {p \in Stage \X (1..MaxByte) : p[2] <= f[p[1]]}
TotalSaturating(f) == Sat(Cardinality(Slots(f)))

\* LoopState::from_profile.
Init ==
    /\ knobs = Initial
    /\ left = Ceiling /\ global = TotalSaturating(Ceiling) /\ acceptLeft = MaxRefine
    /\ runs = [s \in Stage |-> 0]
    /\ log = [accepted |-> <<>>, rejected |-> NoRecord]
    /\ stage = 1 /\ proposal = <<>>
    /\ pc = "run" /\ terminal = "none"
    /\ fitted = [s \in Stage |-> NoKnobs]

\* Every way out of the loop.
Finish(t) == pc' = "done" /\ terminal' = t

Exhausted ==
    /\ pc = "run"
    /\ \/ global = 0 /\ Finish("GlobalBudgetExhausted")
       \/ global # 0 /\ left[stage] = 0 /\ Finish("StageBudgetExhausted")
    /\ UNCHANGED <<knobs, global, left, acceptLeft, runs, log, stage, proposal, fitted>>

\* The stage counted against its own budget only.
MutantRunStage ==
    /\ pc = "run" /\ global # 0 /\ left[stage] # 0
    /\ left' = [left EXCEPT ![stage] = @ - 1]
    /\ runs' = [runs EXCEPT ![stage] = Sat(@ + 1)]
    /\ pc' = "stage"
    /\ UNCHANGED <<knobs, global, acceptLeft, log, stage, proposal, terminal, fitted>>

RunStage ==
    /\ pc = "run" /\ global # 0 /\ left[stage] # 0
    /\ global' = global - 1
    /\ left' = [left EXCEPT ![stage] = @ - 1]
    /\ runs' = [runs EXCEPT ![stage] = Sat(@ + 1)]
    /\ pc' = "stage"
    /\ UNCHANGED <<knobs, acceptLeft, log, stage, proposal, terminal, fitted>>

\* What run_stage returns.
Answered == UNCHANGED <<knobs, global, left, acceptLeft, runs, log>>

Succeeded ==
    /\ pc = "stage"
    /\ fitted' = [fitted EXCEPT ![stage] = knobs]
    /\ IF stage = N THEN Finish("Converged") /\ UNCHANGED stage
       ELSE pc' = "run" /\ stage' = stage + 1 /\ UNCHANGED terminal
    /\ Answered /\ UNCHANGED proposal

Unrepairable ==
    /\ pc = "stage"
    /\ Finish("StagedFailureUnrepairable")
    /\ Answered /\ UNCHANGED <<stage, proposal, fitted>>

Propose(p) ==
    /\ pc = "stage"
    /\ pc' = "propose" /\ proposal' = p
    /\ Answered /\ UNCHANGED <<stage, terminal, fitted>>

\* A proposal or an alternative that names another stage ends the loop with
\* an error before it is looked at, as does an error of the pipeline.
Mismatch ==
    /\ pc \in {"stage", "rejected"}
    /\ Finish("ProposalStageMismatch")
    /\ Answered /\ UNCHANGED <<stage, proposal, fitted>>

\* iter_emitted.
Iter == Sat(Len(log.accepted) + 1)
Record(reason) ==
    log' = [log EXCEPT !.rejected = [iter |-> Iter, changes |-> proposal, reason |-> reason]]

\* `continue` with the rejected proposal itself.
MutantReject ==
    /\ pc = "propose"
    /\ FirstRejection(proposal, knobs) # "none"
    /\ Record(FirstRejection(proposal, knobs))
    /\ UNCHANGED <<knobs, global, left, acceptLeft, runs, stage, proposal, pc, terminal, fitted>>

Reject ==
    /\ pc = "propose"
    /\ FirstRejection(proposal, knobs) # "none"
    /\ Record(FirstRejection(proposal, knobs))
    /\ pc' = "rejected"
    /\ UNCHANGED <<knobs, global, left, acceptLeft, runs, stage, proposal, terminal, fitted>>

\* handle_rejected_repair: the stage may answer with another proposal, which
\* is examined in the same attempt ...
Alternative(p) ==
    /\ pc = "rejected"
    /\ pc' = "propose" /\ proposal' = p
    /\ Answered /\ UNCHANGED <<stage, terminal, fitted>>

\* ... or give up.
NoAlternative ==
    /\ pc = "rejected"
    /\ Finish("StagedFailureUnrepairable")
    /\ Answered /\ UNCHANGED <<stage, proposal, fitted>>

NoBudget ==
    /\ pc = "propose"
    /\ FirstRejection(proposal, knobs) = "none" /\ acceptLeft = 0
    /\ Record("AcceptedRefinementBudgetExhausted")
    /\ Finish("AcceptedRefinementBudgetExhausted")
    /\ UNCHANGED <<knobs, global, left, acceptLeft, runs, stage, proposal, fitted>>

\* record_accepted: KnobDeltaSummary::from_delta with the knobs cloned before
\* and after apply_constraint_delta.
Summary == [iter |-> Iter, changes |-> proposal,
            before |-> knobs, after |-> ApplyDelta(proposal, knobs)]

\* The budget for accepted proposals not looked at.
MutantAccepted ==
    /\ pc = "propose"
    /\ FirstRejection(proposal, knobs) = "none"
    /\ knobs' = ApplyDelta(proposal, knobs)
    /\ acceptLeft' = acceptLeft - 1
    /\ log' = [log EXCEPT !.accepted = Append(@, Summary)]

Accepted ==
    /\ pc = "propose"
    /\ FirstRejection(proposal, knobs) = "none" /\ acceptLeft # 0
    /\ knobs' = ApplyDelta(proposal, knobs)
    /\ acceptLeft' = acceptLeft - 1
    /\ log' = [log EXCEPT !.accepted = Append(@, Summary)]

\* The loop goes on with the stage that proposed.
MutantAccept ==
    /\ Accepted
    /\ pc' = "run" /\ UNCHANGED <<stage, proposal>>
    /\ UNCHANGED <<global, left, runs, terminal, fitted>>

\* The knobs change, and the proposal is not recorded.
MutantAcceptSilently ==
    /\ pc = "propose"
    /\ FirstRejection(proposal, knobs) = "none" /\ acceptLeft # 0
    /\ knobs' = ApplyDelta(proposal, knobs)
    /\ acceptLeft' = acceptLeft - 1
    /\ pc' = "run" /\ stage' = 1 /\ proposal' = <<>>
    /\ UNCHANGED <<global, left, runs, log, terminal, fitted>>

\* The changes take effect, and the stages start over with the first.
Accept ==
    /\ Accepted
    /\ pc' = "run" /\ stage' = 1 /\ proposal' = <<>>
    /\ UNCHANGED <<global, left, runs, terminal, fitted>>

Offer == \E p \in Proposal : Alternative(p)
Step  == \/ Exhausted \/ RunStage \/ Succeeded \/ Unrepairable \/ Mismatch
         \/ Reject \/ NoAlternative \/ NoBudget \/ Accept
         \/ \E p \in Proposal : Propose(p)
Done  == pc = "done" /\ UNCHANGED vars
Next  == Step \/ Offer \/ Done

Spec == Init /\ [][Next]_vars

\* The driver is one thread that is never blocked, and stages return.
FairSpec == Spec /\ WF_vars(Step \/ Offer)

-----------------------------------------------------------------------------
(* Properties. *)

\* Converged is a promise about the final knobs: every stage succeeded with
\* exactly these, none with the knobs of an earlier round ('restart).
ConvergedFits == terminal = "Converged" => \A s \in Stage : fitted[s] = knobs

\* The figures of repair_report_body agree: the runs of the stages add up to
\* global_iters_used, no budget is overdrawn, every accepted change was paid
\* for; and since every round starts with the first stage, a stage never ran
\* more often than an earlier one.
BudgetsBalance ==
    /\ Cardinality(Slots(runs)) = TotalSaturating(Ceiling) - global
    /\ \A s \in Stage : runs[s] + left[s] = Ceiling[s]
    /\ Len(log.accepted) = MaxRefine - acceptLeft
    /\ \A s \in Stage \ {1} : runs[s] <= runs[s - 1]
    /\ Len(log.accepted) <= runs[1]

\* The report explains the knobs: from the initial ones on, every accepted
\* proposal was admissible for the knobs its predecessor left and led to the
\* knobs recorded with it, the last of which are the current ones; rejected
\* proposals have left no trace.
LogExplains ==
    LET a == log.accepted
    IN  /\ knobs = IF a = <<>> THEN Initial ELSE a[Len(a)].after
        /\ \A i \in DOMAIN a :
              /\ a[i].before = IF i = 1 THEN Initial ELSE a[i - 1].after
              /\ FirstRejection(a[i].changes, a[i].before) = "none"
              /\ a[i].after = ApplyDelta(a[i].changes, a[i].before)
              /\ a[i].iter = Sat(i)

\* Accepting a proposal takes no rank, no threshold and no member of a set
\* back: ranks and thresholds only rise and stay within their bounds, the sets
\* only grow and recompute only what is pure; and whatever is locked, depends
\* on a toggle that is off, or is observed under invariant observability keeps
\* its value, the overrides included.  An override that is not so protected
\* may move either way: OverridesAdvance.
Frozen(x) == \/ KnobId(x) \in Locked \/ Toggle([knob |-> x, to |-> 0]) \in Disabled
             \/ Invariant /\ x \in Observed
KnobsAdvance ==
    [][ /\ \A x \in Ladder :
              \/ knobs'.rank[x] = knobs.rank[x]
              \/ ~Frozen(x) /\ knobs.rank[x] < knobs'.rank[x] /\ knobs'.rank[x] <= Bound[x]
        /\ \/ knobs'.limit = knobs.limit
           \/ /\ ~Frozen("pressure")
              /\ knobs.limit.soft <= knobs'.limit.soft /\ knobs'.limit.soft <= knobs'.limit.hard
              /\ knobs.limit.hard <= knobs'.limit.hard /\ knobs'.limit.hard <= MaxLimit.hard
        /\ \A x \in Growing : /\ knobs.set[x] \subseteq knobs'.set[x]
                              /\ Frozen(x) => knobs'.set[x] = knobs.set[x]
        /\ knobs'.set["recompute"] \subseteq knobs.set["recompute"] \cup Pure
        /\ \A x \in Overriding : Frozen(x) => knobs'.over[x] = knobs.over[x] ]_vars

\* RFC F-B16, "Override monotonicity": a ceiling or a residency that has been
\* set for a selector may be moved to a later rank, never back or away.  The
\* code compares a ceiling with the global one and a residency with nothing
\* (check_delta_monotone).
OverridesAdvance ==
    [][\A x \in {"ceiling", "residency"} :
          knobs.over[x] # 0 => knobs'.over[x] >= knobs.over[x]]_vars

\* The loop returns, whatever the stages answer, as long as they do not
\* answer rejections with further proposals for ever: that loop has no
\* budget of its own.
Returns == <>[][~Offer]_vars => <>(pc = "done")
=============================================================================
