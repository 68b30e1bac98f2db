------------------------------ MODULE Simulation -------------------------------
(***************************************************************************)
(* simulation/simulate.ts: the household the fairness of a configuration   *)
(* is judged by.  One step is one cycle of runSimulation, which offers the *)
(* tasks in turn; the random generator is a choice over every number it    *)
(* may return, so a behaviour is one seed.                                 *)
(* A definition marked "wrong" is a plausible slip in the code; no other   *)
(* definition uses it.                                                     *)
(***************************************************************************)
EXTENDS DrawRules, LedgerChecks, ConfigRules

CONSTANTS SimMembers,   \* sequence of member ids
          SimTasks,     \* sequence of [base, buyoutEnabled]
          SimConfigs,   \* the configurations a run may use
          GrowthIntervalsPerOffer,
          Cycles        \* options.cycles of the run under each configuration

(* The offers a price may be computed for. *)
Offers == [currentValue : Counts, baseValue : Counts, buyoutCount : Nat]

WorksOnOffers(formula) == \A ctx \in Offers : FormulaResult(formula, ctx) \in [num : Int, den : Nat \ {0}]

(* A HouseholdConfig, of which the rules of the draw have the settings they   *)
(* read at hand.  A formula that fails stops the run (FormulaError).  Who     *)
(* starts with nothing is below a minimum that is more.                       *)
RunsOn(c) ==
    /\ PricedBy(c)
    /\ c.voluntary \in VoluntaryShape
    /\ c.fairness.windowDays \in Nat
    /\ NeedsCostFormula(c) => WorksOnOffers(c.buyout.costFormula)
    /\ NeedsValueFormula(c) => WorksOnOffers(c.valueIncrease.formula)
    /\ c.buyout.allowNegativeBalance \/ c.buyout.minimumBalance <= 0

ASSUME SimulationAssumption ==
    /\ SimMembers # <<>> /\ SimTasks # <<>>
    /\ SimTasks \in Seq([base : Counts, buyoutEnabled : BOOLEAN])
    /\ GrowthIntervalsPerOffer \in Nat
    /\ \A c \in SimConfigs : RunsOn(c)

VARIABLES simConfig,    \* the run's configuration
          cycle,        \* offers made so far
          memberState,  \* member id -> balance, metrics and buyout counters
          taskState,    \* per task: value, allowance and counters
          lastRandom,   \* (member, task) -> index of the offer last drawn for
          simLedger     \* the rows posted, a set ordered by id

simVars == <<simConfig, cycle, memberState, taskState, lastRandom, simLedger>>

Sims == Range(SimMembers)
Tasks == DOMAIN SimTasks

FreshMember(c) ==
    [balance |-> 0, tail |-> NoPrevious, buyoutsThisWeek |-> 0, consecutiveBuyouts |-> 0, buyouts |-> 0,
     completedTasks |-> 0, randomAssignments |-> 0, voluntaryCompletions |-> 0,
     daysSinceLastRandom |-> c.fairness.windowDays]

FreshTask(t) ==
    [currentValue |-> SimTasks[t].base, maxValueReached |-> SimTasks[t].base, buyoutCount |-> 0,
     offerCount |-> 0, timesCompleted |-> 0, timesLeftOnMarket |-> 0, growthPointsAdded |-> 0,
     randomThisInstance |-> 0]

SimInit ==
    /\ simConfig \in SimConfigs
    /\ cycle = 0
    /\ memberState = [m \in Sims |-> FreshMember(simConfig)]
    /\ taskState = [t \in Tasks |-> FreshTask(t)]
    /\ lastRandom = [m \in Sims, t \in Tasks |-> Null]
    /\ simLedger = {}

--------------------------------------------------------------------------------
(* The task on offer in this cycle. *)
Turn == (cycle % Len(SimTasks)) + 1
OnOffer == taskState[Turn]

(* postLedgerEntry *)
PostingInput(m, type, kind, amount) ==
    [member |-> m, amount |-> amount, type |-> type, kind |-> kind,
     assignment |-> Cardinality(simLedger) + 1, redemption |-> NoLink]

PostLedgerEntry(p) ==
    simLedger \cup {Posted(p, Cardinality(simLedger) + 1, memberState[p.member].tail,
                           memberState[p.member].balance)}

Paid(m, amount) == [memberState EXCEPT ![m].balance = @ + amount, ![m].tail = Cardinality(simLedger) + 1]

(* tickRecency: one cycle is one day. *)
Ticked(ms, drawnMember) ==
    [m \in Sims |-> [ms[m] EXCEPT !.daysSinceLastRandom =
                        IF m = drawnMember THEN 0 ELSE Smaller(simConfig.fairness.windowDays, @ + 1)]]

(* applyGrowth: the declared number of intervals passes between two offers. *)
ApplyGrowth(task) ==
    LET step == GrownValue(simConfig, task.currentValue, 0,
                           simConfig.valueGrowth.intervalMinutes * GrowthIntervalsPerOffer)
    IN  [task EXCEPT !.currentValue = step.value,
                     !.growthPointsAdded = @ + step.value - task.currentValue,
                     !.maxValueReached = Larger(@, step.value)]

(* Completion ends the occurrence: the next one has its own allowance. *)
Completed(task) ==
    [task EXCEPT !.currentValue = ResetValue(simConfig, [currentValue |-> task.currentValue,
                                                   baseValue |-> SimTasks[Turn].base]),
                 !.timesCompleted = @ + 1,
                 !.randomThisInstance = 0]

Offered(task) == taskState' = [taskState EXCEPT ![Turn] = [task EXCEPT !.offerCount = @ + 1]]

Allowance == simConfig.maxRandomAssignmentsPerInstance
AllowanceSpent == Allowance # Null /\ OnOffer.randomThisInstance >= Allowance

EndOfCycle == cycle' = cycle + 1 /\ UNCHANGED simConfig

--------------------------------------------------------------------------------
(* Somebody takes the chore of their own accord. *)
Volunteers(m) ==
    LET reward == VoluntaryReward(simConfig, "VOLUNTARY", OnOffer.currentValue, simConfig.voluntary.rewardTiming)
        richer == IF reward > 0 THEN Paid(m, reward) ELSE memberState
    IN  /\ simLedger' = IF reward > 0
                        THEN PostLedgerEntry(PostingInput(m, "VOLUNTARY_TASK_REWARD", "VOLUNTARY", reward))
                        ELSE simLedger
        /\ memberState' = Ticked([richer EXCEPT ![m].voluntaryCompletions = @ + 1,
                                            ![m].completedTasks = @ + 1], Nobody)
        /\ Offered(Completed(OnOffer))
        /\ UNCHANGED lastRandom

(* The allowance is spent: only the rising price can move the chore. *)
LeftOnMarket ==
    /\ AllowanceSpent
    /\ Offered(ApplyGrowth([OnOffer EXCEPT !.timesLeftOnMarket = @ + 1]))
    /\ memberState' = Ticked(memberState, Nobody)
    /\ UNCHANGED <<lastRandom, simLedger>>

SimCandidate(m) ==
    [member |-> m, role |-> "MEMBER", preferred |-> FALSE, active |-> TRUE, absent |-> FALSE,
     immune |-> FALSE, excluded |-> FALSE, inAllowlist |-> TRUE, categoryExcluded |-> FALSE,
     randomThisWeek |-> 0, cap |-> Null,
     cyclesSince |-> IF lastRandom[m, Turn] = Null THEN Null
                     ELSE OnOffer.offerCount - lastRandom[m, Turn] - 1,
     metrics |-> [randomAssignments    |-> memberState[m].randomAssignments,
                  voluntaryCompletions |-> memberState[m].voluntaryCompletions,
                  daysSinceLastRandom  |-> memberState[m].daysSinceLastRandom]]

SimOptions == [hasAllowlist |-> FALSE, requiredRole |-> "any", adminSlotReserved |-> FALSE]

Chosen == Selections(simConfig, [i \in DOMAIN SimMembers |-> SimCandidate(SimMembers[i])], SimOptions)

BuyoutContext == [currentValue |-> OnOffer.currentValue, baseValue |-> SimTasks[Turn].base,
                  buyoutCount |-> OnOffer.buyoutCount]

Cost == BuyoutCost(simConfig, BuyoutContext)

(* evaluateBuyoutRules for the member drawn. *)
MayBuyOut(m) ==
    BuyoutDenial(simConfig, [kind |-> "RANDOM", enabledForTask |-> SimTasks[Turn].buyoutEnabled,
                       balance |-> memberState[m].balance, cost |-> Cost,
                       currentValue |-> OnOffer.currentValue,
                       thisWeek |-> memberState[m].buyoutsThisWeek,
                       consecutive |-> memberState[m].consecutiveBuyouts]) = "none"

DrawnTask == [OnOffer EXCEPT !.randomThisInstance = @ + 1]

(* The member drawn accepts and does the chore: no points. *)
DrawnAndDone(m) ==
    /\ ~AllowanceSpent
    /\ m \in {choice.member : choice \in Chosen}
    /\ memberState' = Ticked([memberState EXCEPT ![m].randomAssignments = @ + 1, ![m].completedTasks = @ + 1,
                                         ![m].consecutiveBuyouts = 0], m)
    /\ Offered(Completed(DrawnTask))
    /\ lastRandom' = [lastRandom EXCEPT ![<<m, Turn>>] = OnOffer.offerCount]
    /\ UNCHANGED simLedger

(* The member drawn pays; the chore goes back at a higher value and waits. *)
DrawnAndBoughtOut(m) ==
    /\ ~AllowanceSpent
    /\ m \in {choice.member : choice \in Chosen}
    /\ MayBuyOut(m)
    /\ simLedger' = PostLedgerEntry(PostingInput(m, "BUYOUT", "RANDOM", -Cost))
    /\ memberState' = Ticked([Paid(m, -Cost) EXCEPT ![m].randomAssignments = @ + 1, ![m].buyouts = @ + 1,
                                                ![m].buyoutsThisWeek = @ + 1,
                                                ![m].consecutiveBuyouts = @ + 1], m)
    /\ LET raised == IncreasedValue(simConfig, BuyoutContext)
       IN  Offered(ApplyGrowth([DrawnTask EXCEPT !.currentValue = raised, !.buyoutCount = @ + 1,
                                           !.maxValueReached = Larger(@, raised)]))
    /\ lastRandom' = [lastRandom EXCEPT ![<<m, Turn>>] = OnOffer.offerCount]

SimNext ==
    /\ cycle < Cycles[simConfig]
    /\ EndOfCycle
    /\ \/ LeftOnMarket
       \/ \E m \in Sims : Volunteers(m) \/ DrawnAndDone(m) \/ DrawnAndBoughtOut(m)

SimSpec == SimInit /\ [][SimNext]_simVars

--------------------------------------------------------------------------------
(* Whatever the seed and the configuration, the run's ledger verifies: no    *)
(* violation at any cycle, and without debts no balance below the minimum.   *)
Balances == [m \in Sims |-> memberState[m].balance]

SimulatedLedgerIsSound ==
    /\ Violations(simLedger, Balances) = {}
    /\ ~simConfig.buyout.allowNegativeBalance =>
          Warnings(simLedger, Balances, simConfig.buyout.minimumBalance) = {}

(* Under LEAST_ASSIGNED_FIRST the random loads of two members stay together, *)
(* although the cooldown of each chore may forbid the member whose turn it   *)
(* is and volunteers take rounds out of order: no seed drives them apart by  *)
(* more than the cycles of the cooldown, or by more than one without it.     *)
LoadsStayTogether ==
    simConfig.strategy = "LEAST_ASSIGNED_FIRST" =>
        \A m, n \in Sims : memberState[m].randomAssignments - memberState[n].randomAssignments
                              <= Max({1, simConfig.reassignmentCooldownCycles})

(* What the simulator reports is fit to judge a configuration by. *)
SimulationIsSound == SimulatedLedgerIsSound /\ LoadsStayTogether
================================================================================
