------------------------------ MODULE MCHouseRules -----------------------------
(***************************************************************************)
(* The sequential rules of the house side by side for TLC: a behaviour     *)
(* steps one of the machines, its topic, and the others rest in one of     *)
(* their initial states.                                                   *)
(***************************************************************************)
EXTENDS Draws, Simulation, Formulas, Prices, Audit, Series, Pages, Reminders

CONSTANT Topics

VARIABLE topic

One(S) == CHOOSE x \in S : TRUE

RulesInit ==
    /\ topic \in Topics
    /\ DrawsInit   /\ (topic # "draws" => caps = One(CapTables))
    /\ SimInit     /\ (topic # "simulation" => simConfig = One(SimConfigs))
    /\ FormulaInit /\ (topic # "formulas" => keyboard = One(Keyboards))
    /\ PriceInit   /\ (topic # "prices" => versions = One({<<d>> : d \in Acceptable}))
    /\ AuditInit
    /\ SeriesInit  /\ (topic # "series" => seriesRule = One(RecurrenceRules) /\ seriesZone = One(Zones))
    /\ PagesInit   /\ (topic # "pages" => listing = One(Listings) /\ asked = One(AskedLimits))
    /\ RemindersInit
    /\ topic # "reminders" => /\ estimate = One(Estimates)
                              /\ multiplier = One(Multipliers)
                              /\ teamSize = One(TeamSizes)

RulesNext ==
    \/ /\ topic = "draws" /\ DrawsNext
       /\ UNCHANGED <<topic, simVars, formulaVars, priceVars, auditVars, seriesVars, pageVars, reminderVars>>
    \/ /\ topic = "simulation" /\ SimNext
       /\ UNCHANGED <<topic, drawVars, formulaVars, priceVars, auditVars, seriesVars, pageVars, reminderVars>>
    \/ /\ topic = "formulas" /\ FormulaNext
       /\ UNCHANGED <<topic, drawVars, simVars, priceVars, auditVars, seriesVars, pageVars, reminderVars>>
    \/ /\ topic = "prices" /\ PriceNext
       /\ UNCHANGED <<topic, drawVars, simVars, formulaVars, auditVars, seriesVars, pageVars, reminderVars>>
    \/ /\ topic = "audit" /\ AuditNext
       /\ UNCHANGED <<topic, drawVars, simVars, formulaVars, priceVars, seriesVars, pageVars, reminderVars>>
    \/ /\ topic = "series" /\ SeriesNext
       /\ UNCHANGED <<topic, drawVars, simVars, formulaVars, priceVars, auditVars, pageVars, reminderVars>>
    \/ /\ topic = "pages" /\ PagesNext
       /\ UNCHANGED <<topic, drawVars, simVars, formulaVars, priceVars, auditVars, seriesVars, reminderVars>>
    \/ /\ topic = "reminders" /\ RemindersNext
       /\ UNCHANGED <<topic, drawVars, simVars, formulaVars, priceVars, auditVars, seriesVars, pageVars>>

rulesVars == <<topic, drawVars, simVars, formulaVars, priceVars, auditVars, seriesVars, pageVars, reminderVars>>

RulesSpec == RulesInit /\ [][RulesNext]_rulesVars

--------------------------------------------------------------------------------
(* Draws *)
MCRoster == <<"ada", "ben", "cleo">>
MCCapTables == {[m \in Range(MCRoster) |-> 1], [m \in Range(MCRoster) |-> IF m = "ada" THEN 1 ELSE Null]}

MCFairness == [randomAssignmentWeight |-> 5, voluntaryWorkWeight |-> 0, recentAssignmentPenalty |-> 10,
               weightFloor |-> 1, preferredAssigneeWeight |-> 0, windowDays |-> 7]

MCDrawConfig(strategy, cooldown, relax) ==
    [strategy |-> strategy, preventImmediateReassignment |-> cooldown > 0,
     reassignmentCooldownCycles |-> cooldown, relaxWhenNoCandidates |-> relax, fairness |-> MCFairness]

MCDrawConfigs == {MCDrawConfig("WEIGHTED_FAIRNESS", 1, TRUE), MCDrawConfig("LEAST_ASSIGNED_FIRST", 2, TRUE),
                  MCDrawConfig("WEIGHTED_RANDOM", 1, FALSE)}

(* Simulation *)
MCSimTasks == <<[base |-> 2, buyoutEnabled |-> TRUE], [base |-> 3, buyoutEnabled |-> TRUE]>>

MCSimConfig(strategy, cooldown, allowance, cap, debt, reset) ==
    [strategy |-> strategy, preventImmediateReassignment |-> cooldown > 0,
     reassignmentCooldownCycles |-> cooldown, relaxWhenNoCandidates |-> TRUE,
     maxRandomAssignmentsPerInstance |-> allowance,
     fairness |-> MCFairness,
     valueIncrease |-> [DefaultConfig.valueIncrease EXCEPT !.maximumValue = cap],
     buyout |-> [DefaultConfig.buyout EXCEPT !.allowNegativeBalance = debt > 0, !.maximumDebt = debt,
                                             !.maximumConsecutiveBuyouts = 2],
     completion |-> [resetStrategy |-> reset, decreasePercentage |-> 50],
     valueGrowth |-> [DefaultConfig.valueGrowth EXCEPT !.notifyAfterPoints = 2],
     voluntary |-> DefaultConfig.voluntary]

(* Nobody earns points here, so that nobody can buy out: only the loads move. *)
MCLoadConfig(cooldown) ==
    [MCSimConfig("LEAST_ASSIGNED_FIRST", cooldown, Null, 6, 0, "BASE_VALUE")
        EXCEPT !.voluntary.rewardEnabled = FALSE]

MCLoadConfigs == {MCLoadConfig(1), MCLoadConfig(2)}

MCSimConfigs == {MCSimConfig("LEAST_ASSIGNED_FIRST", 1, 1, 6, 4, "BASE_VALUE"),
                 MCSimConfig("LEAST_ASSIGNED_FIRST", 2, Null, Unset, 0, "DECREASE_PERCENTAGE"),
                 MCSimConfig("WEIGHTED_FAIRNESS", 1, Null, 5, 3, "KEEP_CURRENT")}
                \cup MCLoadConfigs

MCCycles == [c \in MCSimConfigs |-> IF c \in MCLoadConfigs THEN 9 ELSE 5]

(* Formulas: one letter names each function and each variable. *)
MCArity == [f |-> 1, c |-> 1, r |-> 1, l |-> 2, m |-> 2]
MCKeyboards == {{"2", ".", "v", " ", "-", "#"}, {"v", "-", "/", "(", ")"}, {"v", "m", "c", "(", ")", ","}}

(* Prices: the formulas of the drafts. *)
MCCostFormula     == <<"m", "(", "v", "-", "2", ",", "1", ")">>
MCCountingFormula == <<"v", "+", "n", "+", "1">>
MCPoleFormula     == <<"m", "(", "v", ",", "1", "/", "(", "v", "-", "8", ")", ")">>
MCShrinkFormula   == <<"v", "-", "1">>
MCThrowingFormula == <<"9", "/", "(", "v", "-", "7", ")">>
MCTexts == {MCCostFormula, MCCountingFormula, MCPoleFormula, MCShrinkFormula, MCThrowingFormula}
(* What the drafts' formulas compute, in closed form; MeaningOfDrafts says    *)
(* that the parser and the evaluator agree.                                   *)
MCFormulaResult(f, ctx) ==
    LET v == ctx.currentValue
    IN  CASE f = MCCostFormula     -> Exact(Max({v - 2, 1}), 1)
          [] f = MCCountingFormula -> Exact(v + ctx.buyoutCount + 1, 1)
          [] f = MCPoleFormula     -> IF v = 8 THEN NotFinite ELSE Exact(v, 1)
          [] f = MCShrinkFormula   -> Exact(v - 1, 1)
          [] f = MCThrowingFormula -> Exact(9, v - 7)

ASSUME MeaningOfDrafts ==
    \A f \in MCTexts, v \in ProbeCurrentValues \cup 0 .. 60, n \in ProbeBuyoutCounts \cup 0 .. 4 :
        /\ Parsed(f) # {}
        /\ Evaluated(One(Parsed(f)).node, [v |-> v, b |-> SampleBaseValue, n |-> n])
                = MCFormulaResult(f, Context(v, SampleBaseValue, n))

MCGrowing == [DefaultConfig EXCEPT !.valueGrowth.intervalMinutes = 5, !.valueGrowth.notifyAfterPoints = 2]
MCCapped == [MCGrowing EXCEPT !.valueIncrease.maximumValue = 9]
MCRaisedBy(f) == [MCGrowing EXCEPT !.valueIncrease.strategy = "CUSTOM_FORMULA", !.valueIncrease.formula = f]
MCPricedBy(f) == [MCGrowing EXCEPT !.buyout.costStrategy = "FORMULA", !.buyout.costFormula = f]

MCDrafts ==
    [standard  |-> MCCapped,
     shut      |-> [MCCapped EXCEPT !.valueGrowth.enabled = FALSE],
     keeping   |-> [MCPricedBy(MCCostFormula) EXCEPT !.completion.resetStrategy = "KEEP_CURRENT",
                                                     !.valueGrowth.notifyAfterPoints = 3],
     counted   |-> [MCRaisedBy(MCCountingFormula) EXCEPT !.valueGrowth.enabled = FALSE],
     pole      |-> MCRaisedBy(MCPoleFormula),
     shrinking |-> MCRaisedBy(MCShrinkFormula),
     throwing  |-> MCPricedBy(MCThrowingFormula),
     negative  |-> [MCGrowing EXCEPT !.buyout.minimumBalance = -3]]

(* Audit *)
MCAmounts == {-1, 1, 2}

(* Series *)
MCRule(type, n, weekdays, dayOfMonth, hour) ==
    [type |-> type, interval |-> n, weekdays |-> weekdays, dayOfMonth |-> dayOfMonth, hour |-> hour,
     dueAfter |-> IF hour = 6 THEN 12 ELSE Never]

MCRecurrenceRules ==
    {MCRule("ONCE", 1, <<>>, Never, 6)}
    \cup UNION {{MCRule("DAILY", 1, <<>>, Never, h), MCRule("EVERY_N_DAYS", 3, <<>>, Never, h),
                 MCRule("WEEKDAYS", 1, <<1, 4, 7>>, Never, h), MCRule("WEEKLY", 1, <<>>, Never, h),
                 MCRule("WEEKLY", 1, <<7>>, Never, h), MCRule("MONTHLY", 1, <<>>, Never, h),
                 MCRule("MONTHLY", 1, <<>>, 30, h)} : h \in {0, 2, 6}}

(* Berlin and New York; both changes of the clocks fall into two weeks. *)
MCZones == {[standard |-> 1, summer |-> 2, from |-> 24 * 3 + 1, to |-> 24 * 9 + 1],
            [standard |-> -5, summer |-> -4, from |-> 24 * 4 + 7, to |-> 24 * 8 + 6]}
MCMonthLengths == <<5, 29, 31, 30, 31, 30>>

(* Pages *)
MCListings == {"points", "history", "notifications", "unread"}
MCAskedLimits == {NoLimit, 0, 1, 9}
MCDefaultLimit == [l \in MCListings |-> IF l \in {"points", "history"} THEN 2 ELSE 3]
================================================================================
