------------------------------ MODULE ValueRules -------------------------------
(***************************************************************************)
(* What a chore is worth: domain/task/value.ts, domain/buyout/cost.ts and  *)
(* domain/buyout/rules.ts as operators of a configuration and the numbers  *)
(* of one occurrence.                                                      *)
(*                                                                         *)
(* A configured decimal is in tenths.  The result of a formula is a        *)
(* fraction [num, den]; den = 0 is a FormulaError.  `Unset' stands for     *)
(* null.                                                                   *)
(* A definition marked "wrong" is a plausible slip in the code; no other   *)
(* definition uses it.                                                     *)
(***************************************************************************)
EXTENDS Integers, Sequences, FiniteSetsExt

CONSTANTS FormulaResult(_, _),  \* a formula's value in an environment
          MaxSafeInteger        \* 2^53 - 1 in the code

ASSUME SafeIntegers == MaxSafeInteger \in Nat \ {0}

Unset == -1

Fraction(n, d) == [num |-> n, den |-> d]
Whole(n) == Fraction(n, 1)
Times(n, tenths) == Fraction(n * tenths, 10)

ApplyRounding(f, rounding) ==
    CASE rounding = "CEIL"  -> -((-f.num) \div f.den)
      [] rounding = "FLOOR" -> f.num \div f.den
      [] rounding = "ROUND" -> (2 * f.num + f.den) \div (2 * f.den)

Larger(a, b) == IF a >= b THEN a ELSE b
Smaller(a, b) == IF a <= b THEN a ELSE b

ClampToSafe(value, minimum) == Smaller(Larger(value, minimum), MaxSafeInteger)

(* A ceiling of null caps nothing. *)
UnderCap(cfg, value) ==
    IF cfg.valueIncrease.maximumValue = Unset THEN value
    ELSE Smaller(value, cfg.valueIncrease.maximumValue)

AtValueCap(cfg, value) ==
    /\ cfg.valueIncrease.maximumValue # Unset
    /\ value >= cfg.valueIncrease.maximumValue

--------------------------------------------------------------------------------
(* increasedValue, below the cap (at it the code throws BUYOUT_AT_VALUE_CAP). *)
RawIncrease(vi, ctx) ==
    CASE vi.strategy = "FIXED_INCREMENT" -> Whole(ctx.currentValue + vi.increment)
      [] vi.strategy = "PERCENTAGE"      -> Fraction(ctx.currentValue * (1000 + vi.percentage), 1000)
      [] vi.strategy = "MULTIPLIER"      -> Times(ctx.currentValue, vi.multiplier)
      [] vi.strategy = "CUSTOM_FORMULA"  -> FormulaResult(vi.formula, ctx)

IncreasedValue(cfg, ctx) ==
    LET vi     == cfg.valueIncrease
        raised == Larger(ApplyRounding(RawIncrease(vi, ctx), vi.rounding),
                         ctx.currentValue + vi.minimumIncrease)
    IN  ClampToSafe(UnderCap(cfg, raised), ctx.currentValue + 1)

(* buyoutCost: never below one point. *)
BuyoutCost(cfg, ctx) ==
    LET b   == cfg.buyout
        raw == CASE b.costStrategy = "FIXED"              -> Whole(b.fixedCost)
                 [] b.costStrategy = "CURRENT_TASK_VALUE" -> Whole(ctx.currentValue)
                 [] b.costStrategy = "MULTIPLIER"         -> Times(ctx.currentValue, b.multiplier)
                 [] b.costStrategy = "FORMULA"            -> FormulaResult(b.costFormula, ctx)
    IN  ClampToSafe(ApplyRounding(raw, b.costRounding), 1)

ResetValue(cfg, ctx) ==
    CASE cfg.completion.resetStrategy = "BASE_VALUE" -> ClampToSafe(ctx.baseValue, 0)
      [] cfg.completion.resetStrategy = "DECREASE_PERCENTAGE" ->
            ClampToSafe(Larger(ctx.baseValue,
                               ApplyRounding(Fraction(ctx.currentValue
                                                        * (100 - cfg.completion.decreasePercentage), 100),
                                             "CEIL")), 0)
      [] cfg.completion.resetStrategy = "KEEP_CURRENT" -> ClampToSafe(ctx.currentValue, 0)

VoluntaryReward(cfg, kind, currentValue, timing) ==
    IF kind # "VOLUNTARY" \/ ~cfg.voluntary.rewardEnabled \/ cfg.voluntary.rewardTiming # timing
    THEN 0
    ELSE Larger(0, ApplyRounding(Times(currentValue, cfg.voluntary.rewardMultiplier),
                                 cfg.voluntary.rewardRounding))

--------------------------------------------------------------------------------
(* wrong: the anchor moves to now and the unfinished interval is lost. *)
GrownValueFromNow(cfg, value, anchor, now) ==
    LET vg    == cfg.valueGrowth
        steps == (now - anchor) \div vg.intervalMinutes
        grown == UnderCap(cfg, value + steps * vg.pointsPerInterval)
    IN  IF ~vg.enabled \/ steps < 1
        THEN [value |-> value, steps |-> 0, anchor |-> anchor, capped |-> FALSE]
        ELSE [value |-> Larger(grown, value), steps |-> steps, anchor |-> now,
              capped |-> AtValueCap(cfg, grown)]

(* grownValue: whole intervals are credited, the remainder stays in the anchor. *)
GrownValue(cfg, value, anchor, now) ==
    LET vg    == cfg.valueGrowth
        steps == (now - anchor) \div vg.intervalMinutes
        full  == UnderCap(cfg, value + steps * vg.pointsPerInterval)
    IN  IF ~vg.enabled \/ now - anchor < vg.intervalMinutes
        THEN [value |-> value, steps |-> 0, anchor |-> anchor, capped |-> FALSE]
        ELSE IF AtValueCap(cfg, value)
        THEN [value |-> value, steps |-> steps,
              anchor |-> anchor + steps * vg.intervalMinutes, capped |-> TRUE]
        ELSE [value |-> ClampToSafe(full, value), steps |-> steps,
              anchor |-> anchor + steps * vg.intervalMinutes,
              capped |-> AtValueCap(cfg, ClampToSafe(full, value))]

BandOf(cfg, base, value) ==
    IF value < base THEN 0 ELSE (value - base) \div cfg.valueGrowth.notifyAfterPoints

(* wrong: any step past the first band is told. *)
GrowthBandAgain(cfg, base, before, after) ==
    IF \/ cfg.valueGrowth.notifyAfterPoints <= 0
       \/ after <= before
       \/ BandOf(cfg, base, after) = 0
    THEN Unset
    ELSE base + BandOf(cfg, base, after) * cfg.valueGrowth.notifyAfterPoints

(* growthNotificationBand: the highest band a step crossed, Unset for none. *)
GrowthBand(cfg, base, before, after) ==
    IF \/ cfg.valueGrowth.notifyAfterPoints <= 0
       \/ after <= before
       \/ BandOf(cfg, base, after) <= BandOf(cfg, base, before)
    THEN Unset
    ELSE base + BandOf(cfg, base, after) * cfg.valueGrowth.notifyAfterPoints

--------------------------------------------------------------------------------
(* Buyout permission, in the order the reasons are explained. *)
MinimumAllowedBalance(cfg) ==
    IF cfg.buyout.allowNegativeBalance THEN -Larger(cfg.buyout.maximumDebt, 0)
    ELSE cfg.buyout.minimumBalance

Reached(limit, used) == limit # Unset /\ used >= limit

BuyoutDenial(cfg, b) ==
    LET rules == <<
            <<b.kind # "RANDOM", "NOT_RANDOM_ASSIGNMENT">>,
            <<~cfg.buyout.enabled, "BUYOUT_DISABLED_GLOBALLY">>,
            <<~b.enabledForTask, "BUYOUT_DISABLED_FOR_TASK">>,
            <<AtValueCap(cfg, b.currentValue), "VALUE_CAP_REACHED">>,
            <<Reached(cfg.buyout.maximumBuyoutsPerWeek, b.thisWeek), "WEEKLY_LIMIT_REACHED">>,
            <<Reached(cfg.buyout.maximumConsecutiveBuyouts, b.consecutive),
              "CONSECUTIVE_LIMIT_REACHED">>,
            <<b.balance - b.cost < MinimumAllowedBalance(cfg), "INSUFFICIENT_POINTS">>>>
        hits  == {i \in DOMAIN rules : rules[i][1]}
    IN  IF hits = {} THEN "none" ELSE rules[Min(hits)][2]
================================================================================
