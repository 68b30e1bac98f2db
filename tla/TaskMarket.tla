----------------------------- MODULE TaskMarket -----------------------------
(* The market of one chore: the occurrences (task_instances) of one definition,*)
(* the assignment rows members hold on them, and the points those rows move.   *)
(*                                                                             *)
(* Every use-case runs in one transaction that first locks the instance row    *)
(* (app/tx.ts, level 1) and keeps it to the end, so a handler is one action.   *)
(* The clock is not a variable: an offer window or a deadline may pass between *)
(* any two steps, so a guard on now is a step that simply is not taken yet.    *)
(* Who is absent, excluded, immune or over a cap changes as freely and is      *)
(* treated the same way; roles are fixed.  Of the points shop only the        *)
(* multiplier is here, because a completion spends it; RewardShop has the rest.*)
(*                                                                             *)
(* A definition marked "wrong" is a bug the code could have had: no other      *)
(* definition uses it, and the properties are shown to notice it.              *)
EXTENDS TaskEvents, Integers, FiniteSets, Sequences

CONSTANTS
    Members, Admins,        \* the household, and its members with role ADMIN
    Instances,              \* occurrences of the definition that may be created
    MaxAssignments,         \* bound: assignment rows that may be created
    AdminRequests,          \* admin requests that may create an occurrence
    None,                   \* null
    Mode, WorkerCount,      \* workerCountMode, workerCount
    MinAdminSlots,          \* minAdminSlots (0 stands for null)
    BaseValue, ValueCap,    \* baseValue, valueIncrease.maximumValue
    GrowthStep,             \* valueGrowth.pointsPerInterval, 0 when disabled
    MaxOpen,                \* tasks.maxOpenInstancesPerDefinition
    MaxRandom,              \* assignment.maxRandomAssignmentsPerInstance
    KeepValue,              \* completion.resetStrategy is KEEP_CURRENT
    AllowRelease,           \* voluntary.allowRelease
    ExpiryEnabled, PenaltyIncrement,    \* expiry.*
    OpeningBalance,         \* points every member starts from
    Floor,                  \* minimumAllowedBalance
    RewardRules,            \* the voluntary.reward* settings, version by version
    EffectCost, EffectCharges,  \* the reward multiplier on sale: cost, effectCharges,
    EffectMultiplier,       \* and effectMultiplier, in tenths
    RewardsFloor,           \* minimumAllowedRewardsBalance
    Buyers, MaxSpent        \* bounds: who buys multipliers, and for how many points

Timings == {"ON_COMPLETE", "ON_ACCEPT"}
Roundings == {"FLOOR", "CEIL", "ROUND"}

(* rewardEnabled, rewardTiming, rewardMultiplier (in tenths), rewardRounding.  *)
Rule == [enabled : BOOLEAN, timing : Timings, multiplier : Nat, rounding : Roundings]

ASSUME MarketAssumption ==
    /\ Admins \subseteq Members
    /\ None \notin Members \cup Instances
    /\ MaxAssignments \in Nat
    /\ Mode \in {"EXACTLY", "AT_LEAST", "AT_MOST"}
    /\ WorkerCount \in Nat \ {0} /\ MinAdminSlots \in Nat
    /\ BaseValue \in Nat /\ ValueCap \in Nat /\ GrowthStep \in Nat
    /\ MaxOpen \in Nat /\ MaxRandom \in Nat
    /\ KeepValue \in BOOLEAN /\ AllowRelease \in BOOLEAN
    /\ ExpiryEnabled \in BOOLEAN /\ PenaltyIncrement \in Nat
    /\ OpeningBalance \in Int /\ Floor \in Int
    /\ RewardRules \in Seq(Rule) /\ RewardRules # <<>>
    /\ EffectCost \in Nat \ {0} /\ EffectCharges \in Nat \ {0}
    /\ EffectMultiplier \in Nat \ {0}
    /\ RewardsFloor \in Int /\ MaxSpent \in Nat /\ Buyers \subseteq Members

Assignments == 1 .. MaxAssignments
Slots == 0 .. MaxAssignments
Sweep == "sweep"                        \* the scheduled sweep, as a requester
Requests == AdminRequests \cup {Sweep}

VARIABLES
    status,     \* task_instances.status, or NONE before the row exists
    value,      \* task_instances.current_value
    slotCount,  \* task_instances.active_slot_count, a cache no handler trusts
    penalised,  \* an EXPIRY_PENALTY history event exists for the instance
    carried,    \* task_definitions.carried_value
    asg,        \* the task_assignments rows
    ledger,     \* point_transactions, by the assignment in their idempotency key
    balance,    \* household_members.points_cache
    version,    \* the current configuration version
    offer,      \* what a request that has read the definition will create at
    charges,    \* charges left on each member's unexpired MULTIPLIER effects
    spent       \* each member's purchases of multipliers, in points

instanceVars == <<status, value, slotCount, penalised>>
shopVars == <<charges, spent>>
vars == <<status, value, slotCount, penalised, carried, asg, ledger, balance,
          version, offer, charges, spent>>

-----------------------------------------------------------------------------
(* Assignment rows.  The history event that opened a row tells a redo from an *)
(* ordinary takeover; the kind column only tells RANDOM from VOLUNTARY.        *)

RowStatuses == {"ACTIVE", "COMPLETED", "BOUGHT_OUT", "RELEASED", "REVOKED",
                "EXPIRED", "REJECTED"}
Origins == {"VOLUNTEERED", "RANDOMLY_ASSIGNED", "REOPENED_TO_ASSIGNEE"}

Row == [status : RowStatuses, inst : Instances, member : Members,
        origin : Origins, slot : Slots, configVersion : DOMAIN RewardRules, valueAt : Nat]

NoRow == [status |-> "NONE", inst |-> None, member |-> None,
          origin |-> "VOLUNTEERED", slot |-> 0, configVersion |-> 1, valueAt |-> 0]

NewRow(i, m, o, s) == [status |-> "ACTIVE", inst |-> i, member |-> m, origin |-> o,
                       slot |-> s, configVersion |-> version, valueAt |-> value[i]]

Voluntary(a) == asg[a].origin # "RANDOMLY_ASSIGNED"     \* kind = VOLUNTARY

(* configFor: a decision about a row follows the version it is pinned to.      *)
CurrentRule == RewardRules[version]
Pinned(a) == RewardRules[asg[a].configVersion]

RowsIn(i, s) == {a \in Assignments : asg[a].inst = i /\ asg[a].status = s}

(* lockActiveAssignmentsOfInstance: the source of truth for every slot count. *)
Active(i) == RowsIn(i, "ACTIVE")
Holders(i) == {asg[a].member : a \in Active(i)}
Occupied(i) == {asg[a].slot : a \in Active(i)}
Used == {a \in Assignments : asg[a].status # "NONE"}

(* nextFreeSlotIndex, and the order in which rows are created.                *)
Lowest(n, from, taken) == n \notin taken /\ from .. (n - 1) \subseteq taken
InOrder(n, from, taken, all) ==
    {f \in [1 .. n -> {x \in all : x \notin taken}] :
        \A k \in 1 .. n : Lowest(f[k], from, taken \cup {f[j] : j \in 1 .. (k - 1)})}

(* worker-slots.ts                                                            *)
MinRequired == IF Mode = "AT_MOST" THEN 1 ELSE WorkerCount
Full(n) == Mode # "AT_LEAST" /\ n >= WorkerCount

(* The admin-slot reservation over a set of holders: how many admins are still *)
(* owed, and whether every remaining slot is needed for them.                  *)
AdminDeficit(held) ==
    LET owed == MinAdminSlots - Cardinality(held \cap Admins)
    IN  IF owed > 0 THEN owed ELSE 0
AdminSlotReserved(held) ==
    LET remaining == MinRequired - Cardinality(held)
    IN  remaining > 0 /\ AdminDeficit(held) > 0 /\ AdminDeficit(held) >= remaining

OpenInstances == {i \in Instances : status[i] \in OpenStatuses}
UnderCap == Cardinality(OpenInstances) < MaxOpen

(* resolve() through the transition table, and a status written directly.      *)
SetStatus(i, t) == status' = [status EXCEPT ![i] = t]
Move(i, event, t) == MayMove(status[i], event, t) /\ SetStatus(i, t)

Close(a, s) == asg' = [asg EXCEPT ![a].status = s]
-----------------------------------------------------------------------------
(* Points.  A posting is keyed "<kind>:<assignment>": posting a key twice      *)
(* returns the first entry, and an amount of zero writes no row.               *)

Entry == [reward : Nat, clawback : Nat, buyout : Nat, penalty : Nat]
NoEntry == [reward |-> 0, clawback |-> 0, buyout |-> 0, penalty |-> 0]

(* applyRounding, of an amount in tenths.                                      *)
Rounded(tenths, rounding) ==
    CASE rounding = "CEIL"  -> (tenths + 9) \div 10
      [] rounding = "ROUND" -> (tenths + 5) \div 10
      [] OTHER              -> tenths \div 10

(* voluntaryReward, of a voluntary row; 0 writes no entry.                     *)
VoluntaryReward(rule, v, moment) ==
    IF rule.enabled /\ rule.timing = moment
    THEN Rounded(v * rule.multiplier, rule.rounding)
    ELSE 0

RewardDueUnpinned(a, moment) ==                                    \* wrong
    IF Voluntary(a) THEN VoluntaryReward(CurrentRule, value[asg[a].inst], moment) ELSE 0
RewardDue(a, moment) ==
    IF Voluntary(a) THEN VoluntaryReward(Pinned(a), value[asg[a].inst], moment) ELSE 0

(* applyRewardMultiplier, and whether a completion of m that owes this much    *)
(* finds an effect to spend a charge of.                                       *)
Multiplied(award) == Rounded(award * EffectMultiplier, "ROUND")
SpendsOnNothing(m, award) == charges[m] > 0                        \* wrong
SpendsCharge(m, award) == award > 0 /\ charges[m] > 0

DebitToFloor(m, n) ==                                              \* wrong
    balance' = [balance EXCEPT ![m] = IF @ - n < Floor THEN Floor ELSE @ - n]
Debit(m, n) == balance' = [balance EXCEPT ![m] = @ - n]

PostReward(a, m, amount) ==
    IF ledger[a].reward # 0 \/ amount = 0
    THEN UNCHANGED <<ledger, balance>>
    ELSE ledger' = [ledger EXCEPT ![a].reward = amount] /\ Debit(m, -amount)

(* reverseIfPresent: the reward the row was paid, unless already reversed.     *)
Reversible(a) == IF ledger[a].clawback = 0 THEN ledger[a].reward ELSE 0

Clawback(a) ==
    /\ ledger' = [ledger EXCEPT ![a].clawback = @ + Reversible(a)]
    /\ Debit(asg[a].member, Reversible(a))

(* The debits of one member when several rows of an instance are charged.      *)
ChargeOf(m, rows, amount) ==
    IF \E a \in rows : asg[a].member = m
    THEN amount[CHOOSE a \in rows : asg[a].member = m]
    ELSE 0

BuyoutCost(v) == IF v > 1 THEN v ELSE 1             \* CURRENT_TASK_VALUE
IncreasedValue(v) == IF v + 1 > ValueCap THEN ValueCap ELSE v + 1
ResetValue(v) == IF KeepValue THEN v ELSE BaseValue
CarriedAfter(v) == IF KeepValue THEN v ELSE None
StartValue == IF carried = None THEN BaseValue ELSE carried
-----------------------------------------------------------------------------
Init ==
    /\ status = [i \in Instances |-> "NONE"]
    /\ value = [i \in Instances |-> BaseValue]
    /\ slotCount = [i \in Instances |-> 0]
    /\ penalised = [i \in Instances |-> FALSE]
    /\ carried = None
    /\ asg = [a \in Assignments |-> NoRow]
    /\ ledger = [a \in Assignments |-> NoEntry]
    /\ balance = [m \in Members |-> OpeningBalance]
    /\ version = 1
    /\ offer = [r \in Requests |-> None]
    /\ charges = [m \in Members |-> 0]
    /\ spent = [m \in Members |-> 0]

rowVars == <<asg, ledger, balance>>

(* The definition is read, and for an admin the open occurrences are counted,  *)
(* before and outside the step that creates the occurrence.                    *)
ReadDefinition(r) ==
    /\ offer[r] = None
    /\ r \in AdminRequests => UnderCap
    /\ offer' = [offer EXCEPT ![r] = StartValue]
    /\ UNCHANGED <<instanceVars, rowVars, carried, version, shopVars>>

Create(i, r, s) ==
    /\ status[i] = "NONE"
    /\ SetStatus(i, s)
    /\ value' = [value EXCEPT ![i] = offer[r]]
    /\ offer' = [offer EXCEPT ![r] = None]
    /\ UNCHANGED <<slotCount, penalised, rowVars, carried, version, shopVars>>

(* T1: the sweep counts again under its lock, and skips when the cap is met.   *)
MaterializeDue(i) == offer[Sweep] # None /\ UnderCap /\ Create(i, Sweep, "AVAILABLE")

SkipDue ==
    /\ offer[Sweep] # None /\ ~UnderCap
    /\ offer' = [offer EXCEPT ![Sweep] = None]
    /\ UNCHANGED <<instanceVars, rowVars, carried, version, shopVars>>

(* POST materialize, with publishImmediately or as a draft.                    *)
AdminMaterialize(i, r) ==
    /\ r \in AdminRequests /\ offer[r] # None
    /\ \E s \in {"AVAILABLE", "DRAFT"} : Create(i, r, s)

(* instanceAction: the version it read is compared when it writes, so the step *)
(* that takes effect is atomic; nothing but the status moves.                  *)
InstanceAction(i, from, to) ==
    /\ status[i] \in from
    /\ SetStatus(i, to)
    /\ UNCHANGED <<value, slotCount, penalised, rowVars, carried, version, offer, shopVars>>

Publish(i) == InstanceAction(i, {"DRAFT"}, "AVAILABLE")     \* also T2
PauseByTable(i) ==                                                 \* wrong
    InstanceAction(i, {"DRAFT", "AVAILABLE", "ASSIGNED"}, "PAUSED")
Pause(i) == InstanceAction(i, {"DRAFT", "AVAILABLE"}, "PAUSED")
Resume(i) == InstanceAction(i, {"PAUSED"}, "AVAILABLE")

-----------------------------------------------------------------------------
(* volunteerForTask: joining does not wait for AVAILABLE, a staffed occurrence *)
(* recruits on until it is full, and only the join that reaches the minimum    *)
(* moves the status.                                                           *)
MayVolunteerTwice(i, m) ==                                         \* wrong
    /\ status[i] \in {"AVAILABLE", "ASSIGNED"}
    /\ ~Full(Cardinality(Active(i)))
    /\ AdminSlotReserved(Holders(i)) => m \in Admins
MayVolunteerWhenFull(i, m) ==                                      \* wrong
    /\ status[i] \in {"AVAILABLE", "ASSIGNED"}
    /\ m \notin Holders(i)
MayVolunteer(i, m) ==
    /\ status[i] \in {"AVAILABLE", "ASSIGNED"}
    /\ m \notin Holders(i)
    /\ ~Full(Cardinality(Active(i)))
    /\ AdminSlotReserved(Holders(i)) => m \in Admins

Volunteer(i, m) ==
    LET count == Cardinality(Active(i)) + 1 IN
    /\ MayVolunteer(i, m)
    /\ \E a \in Assignments, s \in Slots :
          /\ Lowest(a, 1, Used) /\ Lowest(s, 0, Occupied(i))
          /\ asg' = [asg EXCEPT ![a] = NewRow(i, m, "VOLUNTEERED", s)]
          /\ PostReward(a, m, VoluntaryReward(CurrentRule, value[i], "ON_ACCEPT"))
    /\ IF status[i] = "AVAILABLE" /\ count >= MinRequired
       THEN Move(i, "VOLUNTEER", "ASSIGNED")
       ELSE UNCHANGED status
    /\ slotCount' = [slotCount EXCEPT ![i] = count]
    /\ UNCHANGED <<value, penalised, carried, version, offer, shopVars>>

(* The random draw.  pick[k] is the k-th member drawn, out of the eligible     *)
(* members who hold no slot.  The loop stops at the minimum, or when nobody    *)
(* eligible is left; the reservation is respected throughout iff after all     *)
(* picks it can still be met (or no pick was a non-admin).                     *)
RandomRows(i) == {a \in Assignments : asg[a].inst = i /\ ~Voluntary(a)}

Picks(i, n, eligible) ==
    {p \in [1 .. n -> eligible] :
        /\ \A j, k \in 1 .. n : j # k => p[j] # p[k]
        /\ LET held == Holders(i) \cup {p[k] : k \in 1 .. n}
               left == MinRequired - Cardinality(held)
               short == AdminDeficit(held)
               more == eligible \ held
           IN  /\ short <= left \/ short = 0 \/ \A k \in 1 .. n : p[k] \in Admins
               /\ left = 0 \/ more = {} \/ (AdminSlotReserved(held) /\ more \cap Admins = {})}

MayDraw(i) ==
    /\ status[i] = "AVAILABLE"
    /\ Cardinality(RandomRows(i)) < MaxRandom
    /\ Cardinality(Active(i)) < MinRequired

DrawFrom(i, eligible) ==
    LET count == Cardinality(Active(i)) IN
    /\ MayDraw(i)
    /\ \E n \in 0 .. (MinRequired - count) :
       \E pick \in Picks(i, n, eligible) :
       \E row \in InOrder(n, 1, Used, Assignments), slot \in InOrder(n, 0, Occupied(i), Slots) :
          /\ asg' = [a \in Assignments |->
                       IF \E k \in 1 .. n : row[k] = a
                       THEN LET k == CHOOSE k \in 1 .. n : row[k] = a
                            IN  NewRow(i, pick[k], "RANDOMLY_ASSIGNED", slot[k])
                       ELSE asg[a]]
          /\ IF count + n = MinRequired THEN SetStatus(i, "ASSIGNED") ELSE UNCHANGED status
          /\ slotCount' = IF n = 0 THEN slotCount ELSE [slotCount EXCEPT ![i] = count + n]
    /\ UNCHANGED <<value, penalised, carried, ledger, balance, version, offer, shopVars>>

Draw(i) == \E eligible \in SUBSET (Members \ Holders(i)) : DrawFrom(i, eligible)

-----------------------------------------------------------------------------
(* completeTask: a slot completes on its own; only the last one completes the  *)
(* occurrence and resets its value.                                            *)
FirstSlot(i, a) == a \in Active(i)                                 \* wrong
LastSlot(i, a) == Active(i) = {a}

Complete(i, a) ==
    LET m == asg[a].member
        award == RewardDue(a, "ON_COMPLETE")
    IN
    /\ status[i] = "ASSIGNED" /\ a \in Active(i)
    /\ Close(a, "COMPLETED")
    /\ PostReward(a, m, IF SpendsCharge(m, award) THEN Multiplied(award) ELSE award)
    /\ charges' = IF SpendsCharge(m, award) THEN [charges EXCEPT ![m] = @ - 1] ELSE charges
    /\ IF LastSlot(i, a)
       THEN /\ Move(i, "COMPLETE", "COMPLETED")
            /\ value' = [value EXCEPT ![i] = ResetValue(@)]
            /\ slotCount' = [slotCount EXCEPT ![i] = 0]
            /\ carried' = CarriedAfter(value[i])
       ELSE /\ slotCount' = [slotCount EXCEPT ![i] = Cardinality(Active(i)) - 1]
            /\ UNCHANGED <<status, value, carried>>
    /\ UNCHANGED <<penalised, version, offer, spent>>

(* A holder leaves a slot without completing it: the occurrence stays staffed, *)
(* goes back to the market, or never left it.                                  *)
Leave(i, event) ==
    LET remaining == Cardinality(Active(i)) - 1 IN
    /\ remaining >= MinRequired => status[i] = "ASSIGNED"
    /\ IF remaining < MinRequired /\ status[i] = "ASSIGNED"
       THEN Move(i, event, "AVAILABLE")
       ELSE UNCHANGED status
    /\ slotCount' = [slotCount EXCEPT ![i] = remaining]

MayBuyOut(a) ==
    /\ ~Voluntary(a)
    /\ value[asg[a].inst] < ValueCap
    /\ balance[asg[a].member] - BuyoutCost(value[asg[a].inst]) >= Floor

Buyout(i, a) ==
    /\ status[i] = "ASSIGNED" /\ a \in Active(i) /\ MayBuyOut(a)
    /\ Close(a, "BOUGHT_OUT")
    /\ ledger' = [ledger EXCEPT ![a].buyout = BuyoutCost(value[i])]
    /\ Debit(asg[a].member, BuyoutCost(value[i]))
    /\ value' = [value EXCEPT ![i] = IncreasedValue(@)]
    /\ Leave(i, "BUYOUT")
    /\ UNCHANGED <<penalised, carried, version, offer, shopVars>>

(* releaseOrRevokeAssignment: only a reward paid on acceptance is reversed.    *)
ClawbackIfNowOnAccept(a) ==                                        \* wrong
    IF CurrentRule.timing = "ON_ACCEPT" THEN Clawback(a) ELSE UNCHANGED <<ledger, balance>>
ClawbackIfPaidOnAccept(a) ==
    IF Pinned(a).timing = "ON_ACCEPT" THEN Clawback(a) ELSE UNCHANGED <<ledger, balance>>

GiveBack(i, a, event, closed) ==
    /\ status[i] \in {"ASSIGNED", "AVAILABLE"} /\ a \in Active(i)
    /\ Close(a, closed)
    /\ ClawbackIfPaidOnAccept(a)
    /\ Leave(i, event)
    /\ UNCHANGED <<value, penalised, carried, version, offer, shopVars>>

Release(i, a) == AllowRelease /\ Voluntary(a) /\ GiveBack(i, a, "RELEASE", "RELEASED")
Revoke(i, a) == GiveBack(i, a, "REVOKE", "REVOKED")

(* rejectCompletion: the redo is a new row in the slot of the rejected one,    *)
(* under the current configuration; the cached slot count is not written.      *)
RejectReassign(i, a) ==
    /\ a \in RowsIn(i, "COMPLETED")
    /\ Move(i, "REOPEN_TO_ASSIGNEE", "ASSIGNED")
    /\ Clawback(a)
    /\ \E b \in Assignments :
          /\ Lowest(b, 1, Used)
          /\ asg' = [asg EXCEPT
                ![a].status = "REJECTED",
                ![b] = NewRow(i, asg[a].member, "REOPENED_TO_ASSIGNEE", asg[a].slot)]
    /\ UNCHANGED <<value, slotCount, penalised, carried, version, offer, shopVars>>

RejectReoffer(i, a) ==
    /\ a \in RowsIn(i, "COMPLETED")
    /\ Move(i, "REOPEN_TO_MARKET", "AVAILABLE")
    /\ Clawback(a)
    /\ Close(a, "REJECTED")
    /\ UNCHANGED <<value, slotCount, penalised, carried, version, offer, shopVars>>
-----------------------------------------------------------------------------
(* The occurrence ends uncompleted: its escalated value is discarded.          *)
End(i, s) ==
    /\ SetStatus(i, s)
    /\ value' = [value EXCEPT ![i] = BaseValue]
    /\ slotCount' = [slotCount EXCEPT ![i] = 0]
    /\ carried' = None
    /\ UNCHANGED <<penalised, version, offer, shopVars>>

CloseAll(rows, s) ==
    asg' = [a \in Assignments |->
             IF a \in rows THEN [asg[a] EXCEPT !.status = s] ELSE asg[a]]

(* cancelInstance, and each step of cancelOpenInstancesOfDefinition.           *)
Cancel(i) ==
    LET undo == [a \in Assignments |->
                  IF Pinned(a).timing = "ON_ACCEPT" THEN Reversible(a) ELSE 0]
    IN
    /\ status[i] \in OpenStatuses
    /\ CloseAll(Active(i), "REVOKED")
    /\ ledger' = [a \in Assignments |->
                    IF a \in Active(i) THEN [ledger[a] EXCEPT !.clawback = @ + undo[a]]
                    ELSE ledger[a]]
    /\ balance' = [m \in Members |-> balance[m] - ChargeOf(m, Active(i), undo)]
    /\ End(i, "CANCELLED")

(* T16-T18.  Whether the deadline costs the holders and re-offers the chore.   *)
Penalises(i) == status[i] = "ASSIGNED" /\ Active(i) # {} /\ ExpiryEnabled

MayExpireAgain(i) == status[i] \in OpenStatuses                    \* wrong
MayExpireOnMarket(i) ==                                            \* wrong
    status[i] \in {"AVAILABLE", "ASSIGNED"} /\ ~penalised[i]
MayExpire(i) == status[i] \in OpenStatuses /\ ~penalised[i]

(* The rows an expiry loads: only those of an ASSIGNED occurrence.             *)
Expiring(i) == IF status[i] = "ASSIGNED" THEN Active(i) ELSE {}

Expire(i) ==
    /\ MayExpire(i) /\ ~Penalises(i)
    /\ CloseAll(Expiring(i), "EXPIRED")
    /\ UNCHANGED <<ledger, balance>>
    /\ End(i, "EXPIRED")

PenaltyOf(i, m) ==
    LET requested == value[i] + PenaltyIncrement
        room == IF balance[m] > Floor THEN balance[m] - Floor ELSE 0
    IN  IF requested < room THEN requested ELSE room

ExpirePenalty(i) ==
    LET fine == [a \in Assignments |->
                  IF a \in Active(i) THEN PenaltyOf(i, asg[a].member) ELSE 0]
    IN
    /\ MayExpire(i) /\ Penalises(i)
    /\ CloseAll(Active(i), "EXPIRED")
    /\ ledger' = [a \in Assignments |->
                    IF a \in Active(i) THEN [ledger[a] EXCEPT !.penalty = fine[a]]
                    ELSE ledger[a]]
    /\ balance' = [m \in Members |-> balance[m] - ChargeOf(m, Active(i), fine)]
    /\ SetStatus(i, "AVAILABLE")
    /\ slotCount' = [slotCount EXCEPT ![i] = 0]
    /\ penalised' = [penalised EXCEPT ![i] = TRUE]
    /\ UNCHANGED <<value, carried, version, offer, shopVars>>

(* runValueGrowthSweep, one interval of an unclaimed occurrence.               *)
Grow(i) ==
    /\ status[i] = "AVAILABLE" /\ value[i] < ValueCap /\ GrowthStep > 0
    /\ value' = [value EXCEPT ![i] = IF @ + GrowthStep > ValueCap THEN ValueCap
                                     ELSE @ + GrowthStep]
    /\ UNCHANGED <<status, slotCount, penalised, carried, rowVars, version, offer, shopVars>>

(* updateConfig: the next configuration version, with another reward rule.     *)
SaveConfig ==
    /\ version < Len(RewardRules)
    /\ version' = version + 1
    /\ UNCHANGED <<instanceVars, rowVars, carried, offer, shopVars>>

(* purchaseReward of a MULTIPLIER, and the end of its time (expiresAt).        *)
BuyMultiplier(m) ==
    /\ m \in Buyers /\ spent[m] + EffectCost <= MaxSpent
    /\ balance[m] - EffectCost >= RewardsFloor
    /\ charges' = [charges EXCEPT ![m] = @ + EffectCharges]
    /\ spent' = [spent EXCEPT ![m] = @ + EffectCost]
    /\ Debit(m, EffectCost)
    /\ UNCHANGED <<instanceVars, carried, asg, ledger, version, offer>>

EffectExpires(m) ==
    /\ \E left \in 0 .. charges[m] - 1 : charges' = [charges EXCEPT ![m] = left]
    /\ UNCHANGED <<instanceVars, rowVars, carried, version, offer, spent>>

InstanceStep(i) ==
    \/ MaterializeDue(i) \/ \E r \in Requests : AdminMaterialize(i, r)
    \/ Publish(i) \/ Pause(i) \/ Resume(i)
    \/ \E m \in Members : Volunteer(i, m)
    \/ Draw(i)
    \/ \E a \in Assignments :
          \/ Complete(i, a) \/ Buyout(i, a) \/ Release(i, a) \/ Revoke(i, a)
          \/ RejectReassign(i, a) \/ RejectReoffer(i, a)
    \/ Cancel(i) \/ Expire(i) \/ ExpirePenalty(i)
    \/ Grow(i)

Next ==
    \/ \E i \in Instances : InstanceStep(i)
    \/ \E r \in Requests : ReadDefinition(r)
    \/ SkipDue
    \/ SaveConfig
    \/ \E m \in Members : BuyMultiplier(m) \/ EffectExpires(m)

Spec == Init /\ [][Next]_vars

(* The sweep runs every minute and every dated deadline passes in the end, so  *)
(* an expiry that stays possible is carried out.                               *)
DeadlinesPass == \A i \in Instances : WF_vars(Expire(i) \/ ExpirePenalty(i))

(* The sweep keeps drawing, and nobody is excluded or away for ever.           *)
DrawsGoOn == \A i \in Instances : WF_vars(DrawFrom(i, Members \ Holders(i)))

FairSpec == Spec /\ DeadlinesPass
DrawSpec == Spec /\ DrawsGoOn
-----------------------------------------------------------------------------
(* Types.  A posting's amount is never negative: the sign is in its kind.      *)
TypeOK ==
    /\ status \in [Instances -> Statuses \cup {"NONE"}]
    /\ value \in [Instances -> Nat] /\ slotCount \in [Instances -> Nat]
    /\ penalised \in [Instances -> BOOLEAN]
    /\ carried \in Nat \cup {None}
    /\ asg \in [Assignments -> Row \cup {NoRow}]
    /\ ledger \in [Assignments -> Entry]
    /\ balance \in [Members -> Int]
    /\ version \in DOMAIN RewardRules
    /\ offer \in [Requests -> Nat \cup {None}]
    /\ charges \in [Members -> Nat] /\ spent \in [Members -> Nat]

(* The workers of an occurrence hold different slots and are different people, *)
(* whichever of takeover, draw and redo gave them their slot (activeSlotKey;   *)
(* nothing in the database forbids the same member twice).                     *)
SlotsExclusive ==
    \A i \in Instances : \A a, b \in Active(i) :
        a # b => asg[a].slot # asg[b].slot /\ asg[a].member # asg[b].member

(* Takeovers, draws and redos together never put more people on an occurrence  *)
(* at once than its mode allows (maxAllowed).                                  *)
HeadcountWithinMax ==
    \A i \in Instances : Mode # "AT_LEAST" => Cardinality(Active(i)) <= WorkerCount

(* The status tells the truth about the rows: no work is held on an occurrence *)
(* that is not offered, was cancelled or is done; an ASSIGNED one has a worker *)
(* and an AVAILABLE one still lacks some.                                      *)
StaffingMatchesStatus ==
    \A i \in Instances :
        /\ status[i] \in {"NONE", "DRAFT", "COMPLETED", "CANCELLED"} => Active(i) = {}
        /\ status[i] = "ASSIGNED" => Active(i) # {}
        /\ status[i] = "AVAILABLE" => Cardinality(Active(i)) < MinRequired

(* Rows, slots and status of an occurrence agree.                              *)
TeamsAddUp == SlotsExclusive /\ HeadcountWithinMax /\ StaffingMatchesStatus

(* A randomly assigned chore never pays, whatever the timing is changed to.    *)
RandomNeverPaid == \A a \in Assignments : ~Voluntary(a) => ledger[a].reward = 0

(* Work that was given back, taken away or rejected leaves its member with no  *)
(* reward, however the reward rule moved between takeover and return.          *)
ReturnedWorkEarnsNothing ==
    \A a \in Assignments :
        asg[a].status \in {"RELEASED", "REVOKED", "REJECTED", "BOUGHT_OUT"}
            => ledger[a].reward = ledger[a].clawback

(* What the row's pinned rule gave for the value its member was shown when     *)
(* taking the work over.                                                       *)
Promised(a) == VoluntaryReward(Pinned(a), asg[a].valueAt, Pinned(a).timing)

(* A takeover whose completion stands is not reversed and was paid at least    *)
(* what was promised, or that much times a multiplier: growth and the buyouts  *)
(* of colleagues may only have raised it, and no later rule touches it.  A     *)
(* rule that pays on acceptance, or is switched off, paid exactly its promise. *)
CompletedTakeoverIsPaid ==
    \A a \in Assignments :
        asg[a].status = "COMPLETED" /\ asg[a].origin = "VOLUNTEERED" =>
            /\ ledger[a].clawback = 0
            /\ \/ ledger[a].reward >= Promised(a)
               \/ ledger[a].reward >= Multiplied(Promised(a))
            /\ Pinned(a).timing = "ON_ACCEPT" \/ ~Pinned(a).enabled
                  => ledger[a].reward = Promised(a)

(* The cached balance of a member is the opening balance and every entry of    *)
(* the ledger, also when one step charges several rows.  Purchases are entries *)
(* of no row.                                                                  *)
LedgerTotal(m) ==
    LET net[a \in 0 .. MaxAssignments] ==
            IF a = 0 THEN 0
            ELSE net[a - 1] +
                 IF asg[a].member # m THEN 0
                 ELSE ledger[a].reward - ledger[a].clawback - ledger[a].buyout - ledger[a].penalty
    IN  net[MaxAssignments]
BalanceIsLedgerSum == \A m \in Members : balance[m] = OpeningBalance + LedgerTotal(m) - spent[m]

(* The points and the rows of the market agree.                                *)
PointsAddUp == CompletedTakeoverIsPaid /\ BalanceIsLedgerSum

(* One deadline is acted on once: a penalised occurrence never expires later,  *)
(* and no member is fined twice on it.                                         *)
DeadlineChargedOnce ==
    \A i \in Instances : penalised[i] =>
        /\ status[i] # "EXPIRED"
        /\ \A a, b \in Assignments :
              /\ asg[a].inst = i /\ asg[b].inst = i /\ asg[a].member = asg[b].member
              /\ ledger[a].penalty > 0 /\ ledger[b].penalty > 0
              => a = b
-----------------------------------------------------------------------------
(* A row never moves to another occurrence, member, slot or pinned version, a  *)
(* closed row never becomes work again, and only a completion can be rejected  *)
(* (executeBuyout reads a row's instance unlocked because of this).            *)
OnlyCloses(a) ==
    asg[a].status # "NONE" =>
        /\ [asg'[a] EXCEPT !.status = "NONE"] = [asg[a] EXCEPT !.status = "NONE"]
        /\ asg'[a].status # asg[a].status =>
              \/ asg[a].status = "ACTIVE" /\ asg'[a].status # "REJECTED"
              \/ asg[a].status = "COMPLETED" /\ asg'[a].status = "REJECTED"
RowsOnlyClose == [][\A a \in Assignments : OnlyCloses(a)]_vars

(* Every occurrence whose deadline passes is closed, or penalised and offered  *)
(* again: a pause, a return, a redo or a draw at the wrong time cannot keep    *)
(* the sweep from it.                                                          *)
DeadlineIsActedOn ==
    \A i \in Instances :
        status[i] \in OpenStatuses ~>
            (penalised[i] \/ status[i] \in {"COMPLETED", "EXPIRED", "CANCELLED"})

(* One worker: the market implements SoloTask, occurrence by occurrence.       *)
Holder(i) == IF Active(i) = {} THEN None ELSE asg[CHOOSE a \in Active(i) : TRUE].member
Doer(i) ==
    IF status[i] = "COMPLETED" THEN asg[CHOOSE a \in RowsIn(i, "COMPLETED") : TRUE].member
    ELSE None
Solo == INSTANCE SoloTask
        WITH Tasks <- Instances, st <- status,
             holder <- [i \in Instances |-> Holder(i)], doer <- [i \in Instances |-> Doer(i)]
ImplementsSoloTask == Solo!Spec
=============================================================================
