------------------------------ MODULE ConfigRules ------------------------------
(***************************************************************************)
(* What a household configuration may be (packages/shared/src/config) and  *)
(* what the administrator is told about one before it is saved             *)
(* (app/config/validateConfig.ts).                                         *)
(*                                                                         *)
(* A configuration is a record of its sections.  Decimals are in tenths;   *)
(* the legacy aliases of normalizeLegacyConfigInput are left out.          *)
(* A definition marked "wrong" is a plausible slip in the code; no other   *)
(* definition uses it.                                                     *)
(***************************************************************************)
EXTENDS ValueRules

CONSTANTS ProbeCurrentValues, ProbeBaseValues, ProbeBuyoutCounts,
          SampleBaseValue,  \* 4 in the code
          ChainSteps        \* 3 in the code

Counts == 0 .. MaxSafeInteger
AnyInteger == -MaxSafeInteger .. MaxSafeInteger
OrUnset(S) == {Unset} \cup S
Roundings == {"CEIL", "FLOOR", "ROUND"}
FormulaTexts == Seq(STRING)

MinutesPerFortnight == 20160
MinutesPerWeek == 10080
MaxPercentage == 100000
MaxMultiplier == 1000
MaxPointsPerInterval == 1000
MaxNotifyPoints == 10000

--------------------------------------------------------------------------------
(* HouseholdConfigShape, section by section.  strictObject: no other field.  *)
TasksShape == [maxOpenInstancesPerDefinition : 1 .. 20]

VoluntaryShape ==
    [rewardEnabled : BOOLEAN, rewardMultiplier : 0 .. 100, rewardTiming : {"ON_COMPLETE", "ON_ACCEPT"},
     rewardRounding : Roundings, allowRelease : BOOLEAN]

AssignmentShape ==
    [strategy : {"PURE_RANDOM", "WEIGHTED_RANDOM", "LEAST_ASSIGNED_FIRST", "WEIGHTED_FAIRNESS"},
     preventImmediateReassignment : BOOLEAN, reassignmentCooldownCycles : 0 .. 52,
     offerDurationMinutes : 1 .. MinutesPerFortnight, leadMinutesBeforeDue : 0 .. MinutesPerFortnight,
     maxRandomAssignmentsPerInstance : OrUnset(1 .. MaxSafeInteger),
     relaxConstraintsWhenNoCandidates : BOOLEAN]

BuyoutShape ==
    [enabled : BOOLEAN, costStrategy : {"FIXED", "CURRENT_TASK_VALUE", "MULTIPLIER", "FORMULA"},
     fixedCost : Counts, multiplier : 0 .. MaxMultiplier, costFormula : FormulaTexts, costRounding : Roundings,
     allowNegativeBalance : BOOLEAN, minimumBalance : AnyInteger, maximumDebt : OrUnset(Counts),
     maximumBuyoutsPerWeek : OrUnset(1 .. MaxSafeInteger),
     maximumConsecutiveBuyouts : OrUnset(1 .. MaxSafeInteger)]

ExpiryShape == [enabled : BOOLEAN, penaltyIncrement : Counts]

ValueIncreaseShape ==
    [strategy : {"FIXED_INCREMENT", "PERCENTAGE", "MULTIPLIER", "CUSTOM_FORMULA"},
     increment : Counts, percentage : 0 .. MaxPercentage, multiplier : 0 .. MaxMultiplier, formula : FormulaTexts,
     rounding : Roundings, minimumIncrease : 1 .. MaxSafeInteger,
     maximumValue : OrUnset(1 .. MaxSafeInteger)]

ValueGrowthShape ==
    [enabled : BOOLEAN, pointsPerInterval : 1 .. MaxPointsPerInterval, intervalMinutes : 5 .. MinutesPerWeek,
     notifyAfterPoints : 0 .. MaxNotifyPoints]

RewardsShape ==
    [enabled : BOOLEAN, allowNegativeBalance : BOOLEAN, minimumBalance : AnyInteger,
     maximumDebt : OrUnset(Counts)]

CompletionShape ==
    [resetStrategy : {"BASE_VALUE", "DECREASE_PERCENTAGE", "KEEP_CURRENT"}, decreasePercentage : 1 .. 99]

DecayShape ==
    [enabled : BOOLEAN, type : {"NONE", "PERCENTAGE", "FIXED", "MAX_BALANCE"}, value : Counts,
     intervalDays : 1 .. 365, minimumBalance : AnyInteger]

StreakShape == [enabled : BOOLEAN, baseRate : 0 .. 1000]

FairnessShape ==
    [randomAssignmentWeight : 0 .. 1000, voluntaryWorkWeight : 0 .. 1000,
     recentAssignmentPenalty : 0 .. 1000, windowDays : 7 .. 365, weightFloor : 1 .. 10,
     preferredAssigneeWeight : 0 .. 1000]

NotificationsShape ==
    [inAppEnabled : BOOLEAN, dueSoonLeadMinutes : 0 .. MinutesPerFortnight,
     dueSoonDurationMultiplier : 0 .. 1000, pushEnabled : BOOLEAN]

TodoistShape == [enabled : BOOLEAN, priority : OrUnset(1 .. 4)]

HouseholdConfigShape ==
    [tasks : TasksShape, voluntary : VoluntaryShape, assignment : AssignmentShape, buyout : BuyoutShape,
     expiry : ExpiryShape, valueIncrease : ValueIncreaseShape, valueGrowth : ValueGrowthShape,
     completion : CompletionShape, rewards : RewardsShape, points : [decay : DecayShape],
     streak : StreakShape, fairness : FairnessShape, notifications : NotificationsShape,
     integrations : [todoist : TodoistShape]]

(* DEFAULT_CONFIG: what a field left out of the input becomes. *)
DefaultConfig ==
    [tasks |-> [maxOpenInstancesPerDefinition |-> 1],
     voluntary |-> [rewardEnabled |-> TRUE, rewardMultiplier |-> 10, rewardTiming |-> "ON_COMPLETE",
                    rewardRounding |-> "ROUND", allowRelease |-> TRUE],
     assignment |-> [strategy |-> "WEIGHTED_FAIRNESS", preventImmediateReassignment |-> TRUE,
                     reassignmentCooldownCycles |-> 1, offerDurationMinutes |-> 60,
                     leadMinutesBeforeDue |-> 1440, maxRandomAssignmentsPerInstance |-> 1,
                     relaxConstraintsWhenNoCandidates |-> TRUE],
     buyout |-> [enabled |-> TRUE, costStrategy |-> "CURRENT_TASK_VALUE", fixedCost |-> 5,
                 multiplier |-> 10, costFormula |-> <<>>, costRounding |-> "CEIL",
                 allowNegativeBalance |-> FALSE, minimumBalance |-> 0, maximumDebt |-> Unset,
                 maximumBuyoutsPerWeek |-> Unset, maximumConsecutiveBuyouts |-> Unset],
     expiry |-> [enabled |-> TRUE, penaltyIncrement |-> 1],
     valueIncrease |-> [strategy |-> "MULTIPLIER", increment |-> 2, percentage |-> 500,
                        multiplier |-> 15, formula |-> <<>>, rounding |-> "CEIL",
                        minimumIncrease |-> 1, maximumValue |-> Unset],
     valueGrowth |-> [enabled |-> TRUE, pointsPerInterval |-> 1, intervalMinutes |-> 60,
                      notifyAfterPoints |-> 5],
     completion |-> [resetStrategy |-> "BASE_VALUE", decreasePercentage |-> 25],
     rewards |-> [enabled |-> TRUE, allowNegativeBalance |-> FALSE, minimumBalance |-> 0,
                  maximumDebt |-> Unset],
     points |-> [decay |-> [enabled |-> FALSE, type |-> "NONE", value |-> 0, intervalDays |-> 7,
                            minimumBalance |-> 0]],
     streak |-> [enabled |-> TRUE, baseRate |-> 5],
     fairness |-> [randomAssignmentWeight |-> 10, voluntaryWorkWeight |-> 0,
                   recentAssignmentPenalty |-> 10, windowDays |-> 28, weightFloor |-> 1,
                   preferredAssigneeWeight |-> 10],
     notifications |-> [inAppEnabled |-> TRUE, dueSoonLeadMinutes |-> 120,
                        dueSoonDurationMultiplier |-> 20, pushEnabled |-> FALSE],
     integrations |-> [todoist |-> [enabled |-> FALSE, priority |-> Unset]]]

--------------------------------------------------------------------------------
(* probeFormula: the points of the grid where the formula fails or, for a    *)
(* value increase, returns less than the current value.                      *)
Context(value, base, buyouts) == [currentValue |-> value, baseValue |-> base, buyoutCount |-> buyouts]

Grid == {Context(v, b, n) : v \in ProbeCurrentValues, b \in ProbeBaseValues, n \in ProbeBuyoutCounts}

Failing(formula) == {p \in Grid : FormulaResult(formula, p).den = 0}

Shrinking(formula) ==
    {p \in Grid \ Failing(formula) :
        FormulaResult(formula, p).num < p.currentValue * FormulaResult(formula, p).den}

(* The samples are evaluated outside the try: a formula that is broken there *)
(* throws out of the validation instead of being reported.                   *)
SamplesThrow(formula) ==
    \E v \in ProbeCurrentValues : FormulaResult(formula, Context(v, SampleBaseValue, 0)).den = 0

(* What the prices of a chore are computed from is accepted. *)
PricedBy(cfg) ==
    /\ cfg.buyout \in BuyoutShape
    /\ cfg.valueIncrease \in ValueIncreaseShape
    /\ cfg.valueGrowth \in ValueGrowthShape
    /\ cfg.completion \in CompletionShape

NeedsCostFormula(cfg) == cfg.buyout.costStrategy = "FORMULA"
NeedsValueFormula(cfg) == cfg.valueIncrease.strategy = "CUSTOM_FORMULA"

FormulaFields(cfg) ==
    LET cost  == cfg.buyout.costFormula
        value == cfg.valueIncrease.formula
    IN  {field \in {"costFormula"} : NeedsCostFormula(cfg) /\ (cost = <<>> \/ Failing(cost) # {})}
        \cup {field \in {"formula"} :
                 /\ NeedsValueFormula(cfg)
                 /\ value = <<>> \/ Failing(value) # {} \/ Shrinking(value) # {}}

--------------------------------------------------------------------------------
(* crossFieldRules: the fields that break a rule. *)
DebtFields(section) ==
    {field \in {"minimumBalance"} : ~section.allowNegativeBalance /\ section.minimumBalance < 0}
    \cup {field \in {"maximumDebt"} : section.allowNegativeBalance /\ section.maximumDebt <= 0}

IncreaseFields(vi) ==
    {field \in {"multiplier"} : vi.strategy = "MULTIPLIER" /\ vi.multiplier <= 10}
    \cup {field \in {"percentage"} : vi.strategy = "PERCENTAGE" /\ vi.percentage <= 0}
    \cup {field \in {"increment"} : vi.strategy = "FIXED_INCREMENT" /\ vi.increment < 1}
    \cup {field \in {"maximumValue"} : vi.maximumValue # Unset /\ vi.maximumValue < vi.minimumIncrease}

CrossFieldErrors(cfg) ==
    {field \in {"fixedCost"} : cfg.buyout.costStrategy = "FIXED" /\ cfg.buyout.fixedCost < 1}
    \cup {field \in {"multiplier"} : cfg.buyout.costStrategy = "MULTIPLIER" /\ cfg.buyout.multiplier <= 0}
    \cup DebtFields(cfg.buyout) \cup DebtFields(cfg.rewards)
    \cup IncreaseFields(cfg.valueIncrease)
    \cup {field \in {"type"} : cfg.points.decay.enabled /\ cfg.points.decay.type = "NONE"}
    \cup {field \in {"value"} : cfg.points.decay.enabled /\ cfg.points.decay.value <= 0}
    \cup FormulaFields(cfg)

(* superRefine runs the cross-field rules only on a value of the right shape. *)
ValidationThrows(cfg) ==
    /\ cfg \in HouseholdConfigShape
    /\ \/ NeedsCostFormula(cfg) /\ cfg.buyout.costFormula # <<>> /\ SamplesThrow(cfg.buyout.costFormula)
       \/ NeedsValueFormula(cfg) /\ cfg.valueIncrease.formula # <<>> /\ SamplesThrow(cfg.valueIncrease.formula)

(* wrong: the formulas are not probed when the configuration is saved. *)
ValidUnprobed(cfg) == cfg \in HouseholdConfigShape

Valid(cfg) ==
    /\ cfg \in HouseholdConfigShape
    /\ ~ValidationThrows(cfg)
    /\ CrossFieldErrors(cfg) = {}

--------------------------------------------------------------------------------
(* Whether the numbers of an occurrence can be computed, or a FormulaError is *)
(* thrown.                                                                    *)
CostFinite(cfg, ctx) == NeedsCostFormula(cfg) => FormulaResult(cfg.buyout.costFormula, ctx).den # 0

IncreaseFinite(cfg, ctx) ==
    NeedsValueFormula(cfg) /\ ~AtValueCap(cfg, ctx.currentValue) =>
        FormulaResult(cfg.valueIncrease.formula, ctx).den # 0

(* escalationChain: the contexts of ChainSteps buyouts in a row, fewer at the *)
(* cap or where the formula fails.                                           *)
Stuck(cfg, ctx) == AtValueCap(cfg, ctx.currentValue) \/ ~IncreaseFinite(cfg, ctx)

Extended(cfg, chain, ctx) ==
    IF Stuck(cfg, ctx) THEN chain
    ELSE Append(chain, Context(IncreasedValue(cfg, ctx), ctx.baseValue, Len(chain)))

(* wrong: every step of the chain is computed as the first buyout. *)
EscalatedAfresh(cfg, chain) == Extended(cfg, chain, [chain[Len(chain)] EXCEPT !.buyoutCount = 0])
Escalated(cfg, chain) == Extended(cfg, chain, chain[Len(chain)])

EscalationChain(cfg, base) ==
    LET after[k \in 0 .. ChainSteps] ==
            IF k = 0 THEN <<Context(base, base, 0)>> ELSE Escalated(cfg, after[k - 1])
    IN  after[ChainSteps]

PreviewThrows(cfg, base) ==
    \E ctx \in Range(EscalationChain(cfg, base)) :
        \/ ~CostFinite(cfg, ctx)
        \/ ctx.buyoutCount < ChainSteps /\ ~IncreaseFinite(cfg, ctx)

(* buildPreview: what each buyout of the chain would cost, and what a         *)
(* completion would reset the value to (shown for the last one only).         *)
(* decayProjection is an illustration nothing else computes.                  *)
Preview(cfg, base) ==
    {[before |-> ctx, cost |-> BuyoutCost(cfg, ctx), reset |-> ResetValue(cfg, ctx)] :
        ctx \in Range(EscalationChain(cfg, base))}
================================================================================
