------------------------------- MODULE DrawRules -------------------------------
(***************************************************************************)
(* Who may be given a chore, and with which chance: the pure rules of      *)
(* domain/assignment/eligibility.ts, weights.ts and strategies.ts.         *)
(*                                                                         *)
(* A candidate is a record of the code's EligibilityCandidate; `Null'      *)
(* stands for null.  The code's fractions are integers here: coefficients  *)
(* are tenths, and a weight carries one positive factor for the whole      *)
(* candidate set, which changes no comparison and no probability.          *)
(* A definition marked "wrong" is a plausible slip in the code; no other   *)
(* definition uses it.                                                     *)
(***************************************************************************)
EXTENDS Lists, Integers, Sequences, FiniteSets, SequencesExt, FiniteSetsExt

Null == -1
Nobody == "nobody"

(* The reason of the first rule that applies. *)
FirstReason(rules) ==
    LET hits == {i \in DOMAIN rules : rules[i][1]}
    IN  IF hits = {} THEN "none" ELSE rules[Min(hits)][2]

(* Never relaxed; the only rules a volunteer meets. *)
HardReason(c, options) ==
    FirstReason(<<
        <<~c.active, "MEMBER_INACTIVE">>,
        <<c.absent, "MEMBER_ABSENT">>,
        <<c.excluded, "EXCLUDED_FROM_TASK">>,
        <<options.hasAllowlist /\ ~c.inAllowlist, "NOT_IN_ALLOWLIST">>,
        <<c.categoryExcluded, "CATEGORY_EXCLUDED">>,
        <<options.requiredRole \notin {"any", c.role}, "ROLE_NOT_ELIGIBLE">>,
        <<options.adminSlotReserved /\ c.role # "ADMIN", "ADMIN_SLOT_RESERVED">>>>)

CanVolunteer(c, options) == HardReason(c, options) = "none"

(* wrong: the cooldown lasts one cycle longer than it says. *)
InCooldownThrough(cfg, c) ==
    /\ cfg.preventImmediateReassignment
    /\ c.cyclesSince # Null
    /\ c.cyclesSince <= cfg.reassignmentCooldownCycles

InCooldown(cfg, c) ==
    /\ cfg.preventImmediateReassignment
    /\ c.cyclesSince # Null
    /\ c.cyclesSince < cfg.reassignmentCooldownCycles

AtCap(c) == c.cap # Null /\ c.randomThisWeek >= c.cap

SoftReason(cfg, c, relaxed) ==
    FirstReason(<<
        <<"IMMEDIATE_REASSIGNMENT" \notin relaxed /\ InCooldown(cfg, c), "IMMEDIATE_REASSIGNMENT">>,
        <<"ASSIGNMENT_CAP" \notin relaxed /\ AtCap(c), "ASSIGNMENT_CAP">>>>)

Reason(cfg, c, options, relaxed) ==
    LET hard == HardReason(c, options)
    IN  IF hard # "none" THEN hard
        ELSE IF c.immune THEN "MEMBER_IMMUNE"
        ELSE SoftReason(cfg, c, relaxed)

Eligible(cfg, candidates, options, relaxed) ==
    Filtered(candidates,
             {i \in DOMAIN candidates : Reason(cfg, candidates[i], options, relaxed) = "none"})

(* wrong: the ladder starts with the weekly cap. *)
LadderFromTheCap == <<"ASSIGNMENT_CAP", "IMMEDIATE_REASSIGNMENT">>

Ladder == <<"IMMEDIATE_REASSIGNMENT", "ASSIGNMENT_CAP">>

(* One turn of the loop: the first rung still in place that blocks somebody. *)
NextRung(cfg, candidates, options, dropped) ==
    LET relaxed  == Range(dropped)
        blocking == {Reason(cfg, candidates[i], options, relaxed) : i \in DOMAIN candidates}
        usable   == {k \in DOMAIN Ladder : Ladder[k] \in blocking \ relaxed}
    IN  IF \/ Eligible(cfg, candidates, options, relaxed) # <<>>
           \/ ~cfg.relaxWhenNoCandidates
           \/ usable = {}
        THEN dropped
        ELSE Append(dropped, Ladder[Min(usable)])

(* The rungs resolveEligibility drops, in the order it drops them. *)
ConstraintsRelaxed(cfg, candidates, options) ==
    LET after[k \in 0 .. Len(Ladder)] ==
            IF k = 0 THEN <<>> ELSE NextRung(cfg, candidates, options, after[k - 1])
    IN  after[Len(Ladder)]

--------------------------------------------------------------------------------
Total(f(_), cs) == MapThenSumSet(LAMBDA i : f(cs[i]), DOMAIN cs)
Largest(f(_), cs) == Max({0} \cup {f(cs[i]) : i \in DOMAIN cs})

Randoms(c) == c.metrics.randomAssignments
Volunteered(c) == c.metrics.voluntaryCompletions

(* The least common multiple of 1 .. 8: 1/(1 + days) is exact for days <= 7. *)
RecencyUnit == 840
RecencyFactor(c) == RecencyUnit \div (1 + c.metrics.daysSinceLastRandom)

Floored(f, unit, raw) == Max({f.weightFloor * unit, raw})

(* weightedFairnessWeight over the set's averages, times 10 * RecencyUnit * |cs|. *)
FairnessWeight(cfg, c, cs) ==
    LET n == Len(cs)
        f == cfg.fairness
        deviation == f.randomAssignmentWeight * (Total(Randoms, cs) - n * Randoms(c))
                     + f.voluntaryWorkWeight * (n * Volunteered(c) - Total(Volunteered, cs))
        preferred == IF c.preferred THEN n * f.preferredAssigneeWeight ELSE 0
    IN  Floored(f, n * RecencyUnit,
                RecencyUnit * (10 * n + deviation + preferred)
                - n * f.recentAssignmentPenalty * RecencyFactor(c))

(* weightedRandomWeight over the set's maxima, times 10 * RecencyUnit * both maxima. *)
NormalisedWeight(cfg, c, cs) ==
    LET f  == cfg.fairness
        mr == Largest(Randoms, cs)
        mv == Largest(Volunteered, cs)
        r  == Max({mr, 1})
        v  == Max({mv, 1})
    IN  Floored(f, r * v * RecencyUnit,
                RecencyUnit * (10 * r * v
                               + f.randomAssignmentWeight * (r - Randoms(c)) * v
                               + f.voluntaryWorkWeight * Volunteered(c) * r)
                - r * v * f.recentAssignmentPenalty * RecencyFactor(c))

LeastAssignedWeight(c, cs) ==
    IF \A i \in DOMAIN cs : Randoms(c) <= Randoms(cs[i]) THEN 1 ELSE 0

(* wrong: the comparison is turned round, the most assigned go first. *)
WeightsTurned(cfg, cs) ==
    [i \in DOMAIN cs |->
        IF \A j \in DOMAIN cs : Randoms(cs[j]) <= Randoms(cs[i]) THEN 1 ELSE 0]

Weights(cfg, cs) ==
    [i \in DOMAIN cs |->
        CASE cfg.strategy = "PURE_RANDOM"          -> 1
          [] cfg.strategy = "WEIGHTED_RANDOM"      -> NormalisedWeight(cfg, cs[i], cs)
          [] cfg.strategy = "LEAST_ASSIGNED_FIRST" -> LeastAssignedWeight(cs[i], cs)
          [] cfg.strategy = "WEIGHTED_FAIRNESS"    -> FairnessWeight(cfg, cs[i], cs)]

--------------------------------------------------------------------------------
(* drawWeighted.  The generator's number in [0, 1), times the total, falls   *)
(* into one of the intervals between the partial sums.                       *)
SumBefore(ws, k) == MapThenSumSet(LAMBDA j : ws[j], 1 .. (k - 1))

DrawIndex(ws, point) ==
    Min({k \in DOMAIN ws : k = Len(ws) \/ point < SumBefore(ws, k + 1)})

Drawable(ws) ==
    LET total  == SumBefore(ws, Len(ws) + 1)
        points == {p \in {SumBefore(ws, k) : k \in DOMAIN ws} : p < total}
    IN  IF total <= 0 THEN DOMAIN ws ELSE {DrawIndex(ws, p) : p \in points}

(* The outcomes of selectAssignee, one per number the generator may return:  *)
(* the member, or Nobody when nobody is left, with the part of the trace that  *)
(* explains the choice.                                                      *)
Selections(cfg, candidates, options) ==
    LET dropped  == ConstraintsRelaxed(cfg, candidates, options)
        eligible == Eligible(cfg, candidates, options, Range(dropped))
        trace(m) == [member |-> m, relaxed |-> dropped,
                     included |-> {eligible[i].member : i \in DOMAIN eligible}]
    IN  IF eligible = <<>> THEN {trace(Nobody)}
        ELSE {trace(eligible[i].member) : i \in Drawable(Weights(cfg, eligible))}
================================================================================
