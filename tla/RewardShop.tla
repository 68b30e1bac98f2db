----------------------------- MODULE RewardShop -----------------------------
(***************************************************************************)
(* The points shop, the effects it sells and the daily completion streak:   *)
(* everything that changes a member's points besides the task market.       *)
(*                                                                          *)
(* purchaseReward.ts sells a reward for points.  A reward is fulfilled by   *)
(* an administrator, or it is a virtual effect that is active at once: a    *)
(* multiplier with a number of charges, which completeTask.ts spends on     *)
(* voluntary completions.  The same completion extends the member's streak  *)
(* and may pay a bonus for it; rejectCompletion.ts takes both payments back *)
(* and, when the task goes to the market, ends the streak; and the streak   *)
(* sweep ends the streaks of members who were idle for a day.               *)
(*                                                                          *)
(* Each use case is one transaction that holds the member's row (lockMember)*)
(* while it reads and writes the member's columns, so it is one action.     *)
(* What is read before that lock is a step of its own: the instant of a     *)
(* completion (calls) and the sweep's day and candidates (sweep).           *)
(*                                                                          *)
(* A definition marked "wrong" is a plausible slip in the code; no other    *)
(* definition uses it.                                                      *)
(***************************************************************************)
EXTENDS Integers, Sequences, FiniteSets, FiniteSetsExt

CONSTANTS
    Members,
    Award,          \* points of one voluntary completion, before a multiplier
    RateHalves,     \* cfg.streak.baseRate, in halves (the default 0.5 is 1)
    Costs,          \* prices an administrator may set
    Factor,         \* effectMultiplier of the multiplier on sale
    Charges,        \* its effectCharges
    Lasts,          \* its effectDurationMinutes, in days
    Floor,          \* minimumAllowedRewardsBalance
    OpeningBalance,
    MaxDay,         \* bound: days the clock runs
    MaxWorks,       \* bound: assignments
    MaxPurchases,   \* bound: redemptions
    MaxChanges      \* bound: changes of a price or of the configuration

ASSUME ShopAssumption ==
    /\ Award \in Nat \ {0} /\ RateHalves \in Nat
    /\ Costs \subseteq Nat \ {0} /\ Costs # {}
    /\ Factor \in Nat \ {0} /\ Charges \in Nat \ {0} /\ Lasts \in Nat \ {0}
    /\ Floor \in Int /\ OpeningBalance \in Int
    /\ MaxDay \in Nat \ {0} /\ MaxWorks \in Nat
    /\ MaxPurchases \in Nat /\ MaxChanges \in Nat

VARIABLES
    today,        \* the household's civil day
    streakOn,     \* cfg.streak.enabled of the current configuration
    offers,       \* RewardDefinition: price and isActive, by kind
    changes,      \* changes of the configuration and the prices so far
    works,        \* TaskAssignment rows, as far as points and streak go
    calls,        \* completions under way: the row and the day of `now`
    redemptions,  \* RewardRedemption rows
    effects,      \* MemberEffect rows of type MULTIPLIER, oldest first
    streak,       \* the three streak columns of each member
    balance,      \* pointsCache of each member
    sweep         \* the streak sweep under way

vars == <<today, streakOn, offers, changes, works, calls, redemptions,
          effects, streak, balance, sweep>>

Kinds == {"MANUAL_FULFILLMENT", "VIRTUAL_EFFECT"}

\* A day a member has never been active on, and the effect of no completion.
NoDay    == 0
NoEffect == 0

ZeroStreak == [length |-> 0, lastActive |-> NoDay, bonusPaid |-> NoDay]

Idle == [day |-> NoDay, todo |-> {}]

Init ==
    /\ today = 1
    /\ streakOn = TRUE
    /\ offers = [kind \in Kinds |-> [cost |-> Min(Costs), active |-> TRUE]]
    /\ changes = 0
    /\ works = <<>>
    /\ calls = {}
    /\ redemptions = <<>>
    /\ effects = <<>>
    /\ streak = [m \in Members |-> ZeroStreak]
    /\ balance = [m \in Members |-> OpeningBalance]
    /\ sweep = Idle

-----------------------------------------------------------------------------
(***************************************************************************)
(* Streak arithmetic (domain/streak/streak.ts)                              *)
(***************************************************************************)

\* streakBonusFor: floor(baseRate * length).
StreakBonus(length) == (RateHalves * length) \div 2

\* Wrong: any later day extends the streak.
LengthAfterAnyGap(s, d) ==
    CASE s.lastActive = d -> s.length
      [] s.lastActive # NoDay /\ d > s.lastActive -> s.length + 1
      [] OTHER -> 1

\* applyCompletionToStreak: the length after a completion on day d.
LengthAfter(s, d) ==
    CASE s.lastActive = d -> s.length
      [] s.lastActive # NoDay /\ d - s.lastActive = 1 -> s.length + 1
      [] OTHER -> 1

\* The bonus that completion pays: only a voluntary one, once a day.
BonusOf(s, kind, d) ==
    IF kind = "VOLUNTARY" /\ s.bonusPaid # d
    THEN StreakBonus(LengthAfter(s, d)) ELSE 0

AfterCompletion(s, kind, d) ==
    [length     |-> LengthAfter(s, d),
     lastActive |-> d,
     bonusPaid  |-> IF BonusOf(s, kind, d) > 0 THEN d ELSE s.bonusPaid]

\* isStreakStale: a whole day has passed without a completion.
Stale(lastActive, d) == d - lastActive > 1

\* clearBonusForDay: that day may pay again.
ClearBonus(s, d) == IF s.bonusPaid = d THEN [s EXCEPT !.bonusPaid = NoDay] ELSE s

-----------------------------------------------------------------------------
(***************************************************************************)
(* Purchases (purchaseReward.ts, fulfillRedemption.ts, admin.ts)            *)
(***************************************************************************)

\* assertRewardPurchaseAllowed, canAffordReward.
Affordable(m, cost) == balance[m] - cost >= Floor

Purchase(m, kind) ==
    LET cost == offers[kind].cost IN
    /\ Len(redemptions) < MaxPurchases
    /\ offers[kind].active
    /\ Affordable(m, cost)
    /\ redemptions' = Append(redemptions,
           [member |-> m, kind |-> kind, cost |-> cost,
            status |-> IF kind = "VIRTUAL_EFFECT" THEN "FULFILLED" ELSE "PENDING"])
    /\ balance' = [balance EXCEPT ![m] = @ - cost]
    /\ effects' = IF kind = "VIRTUAL_EFFECT"
                  THEN Append(effects, [member |-> m, left |-> Charges,
                                        expires |-> today + Lasts])
                  ELSE effects
    /\ UNCHANGED <<today, streakOn, offers, changes, works, calls, streak, sweep>>

\* fulfillRedemption: the update is guarded by the status it expects.
Fulfil(i) ==
    /\ redemptions[i].status = "PENDING"
    /\ redemptions' = [redemptions EXCEPT ![i].status = "FULFILLED"]
    /\ UNCHANGED <<today, streakOn, offers, changes, works, calls, effects,
                   streak, balance, sweep>>

\* PUT /admin/rewards/:id, which what is already bought does not follow.
EditReward(kind, cost, active) ==
    /\ changes < MaxChanges
    /\ offers[kind] # [cost |-> cost, active |-> active]
    /\ offers' = [offers EXCEPT ![kind] = [cost |-> cost, active |-> active]]
    /\ changes' = changes + 1
    /\ UNCHANGED <<today, streakOn, works, calls, redemptions, effects, streak,
                   balance, sweep>>

\* updateConfig: the switch of the whole mechanism.
ToggleStreak ==
    /\ changes < MaxChanges
    /\ streakOn' = ~streakOn
    /\ changes' = changes + 1
    /\ UNCHANGED <<today, offers, works, calls, redemptions, effects, streak,
                   balance, sweep>>

-----------------------------------------------------------------------------
(***************************************************************************)
(* Completions and rejections                                               *)
(***************************************************************************)

\* A takeover or a draw, pinned to the configuration it is made under.
NewWork(m, kind) ==
    [member |-> m, kind |-> kind, pinnedOn |-> streakOn, status |-> "ACTIVE",
     day |-> NoDay, nth |-> 0, paid |-> 0, bonus |-> 0, effect |-> NoEffect]

Assign(m, kind) ==
    /\ Len(works) < MaxWorks
    /\ works' = Append(works, NewWork(m, kind))
    /\ UNCHANGED <<today, streakOn, offers, changes, calls, redemptions,
                   effects, streak, balance, sweep>>

\* completeTask: the instant is taken before the transaction waits for locks.
BeginComplete(i) ==
    /\ works[i].status = "ACTIVE"
    /\ \A c \in calls : c.row # i
    /\ calls' = calls \cup {[row |-> i, day |-> today]}
    /\ UNCHANGED <<today, streakOn, offers, changes, works, redemptions,
                   effects, streak, balance, sweep>>

\* Wrong: an effect is spent although its time has run out.
SpendableExpired(m, d) ==
    {e \in DOMAIN effects : effects[e].member = m /\ effects[e].left > 0}

\* The effects a voluntary completion of m on day d may spend.
Spendable(m, d) ==
    {e \in DOMAIN effects : /\ effects[e].member = m
                            /\ effects[e].expires > d
                            /\ effects[e].left > 0}

\* The oldest of them, for a completion that pays at all.
EffectFor(m, kind, d) ==
    IF kind = "VOLUNTARY" /\ Spendable(m, d) # {}
    THEN CHOOSE e \in Spendable(m, d) : \A f \in Spendable(m, d) : e <= f
    ELSE NoEffect

\* voluntaryReward and applyRewardMultiplier: nothing for a drawn task.
RewardOf(kind, effect) ==
    CASE kind # "VOLUNTARY" -> 0
      [] kind = "VOLUNTARY" /\ effect = NoEffect -> Award
      [] OTHER -> Award * Factor

Completions == Cardinality({i \in DOMAIN works : works[i].nth > 0})

Complete(c) ==
    LET w     == works[c.row]
        s     == streak[w.member]
        e     == EffectFor(w.member, w.kind, c.day)
        paid  == RewardOf(w.kind, e)
        bonus == IF w.pinnedOn THEN BonusOf(s, w.kind, c.day) ELSE 0
    IN
    /\ calls' = calls \ {c}
    /\ works' = [works EXCEPT ![c.row] =
                    [w EXCEPT !.status = "COMPLETED", !.day = c.day,
                              !.nth = Completions + 1, !.paid = paid,
                              !.bonus = bonus, !.effect = e]]
    /\ effects' = IF e = NoEffect THEN effects
                  ELSE [effects EXCEPT ![e].left = @ - 1]
    /\ balance' = [balance EXCEPT ![w.member] = @ + paid + bonus]
    /\ streak' = IF w.pinnedOn
                 THEN [streak EXCEPT ![w.member] = AfterCompletion(s, w.kind, c.day)]
                 ELSE streak
    /\ UNCHANGED <<today, streakOn, offers, changes, redemptions, sweep>>

\* Wrong: the streak bonus of a rejected completion is kept.
ReversalOfReward(w) == w.paid

\* clawback: what the two ledger rows of the assignment paid.
Reversal(w) == w.paid + w.bonus

\* The streak columns after a rejection, by its outcome.
AfterRejection(s, w, outcome) ==
    IF outcome = "REOFFER_MARKET" THEN ZeroStreak
    ELSE IF w.bonus > 0 THEN ClearBonus(s, w.day) ELSE s

\* rejectCompletion; REASSIGN_TO_MEMBER opens a voluntary redo.
Reject(i, outcome) ==
    LET w == works[i] IN
    /\ w.status = "COMPLETED"
    /\ outcome = "REASSIGN_TO_MEMBER" => Len(works) < MaxWorks
    /\ works' = LET closed == [works EXCEPT ![i].status = "REJECTED"]
                IN  IF outcome = "REASSIGN_TO_MEMBER"
                    THEN Append(closed, NewWork(w.member, "VOLUNTARY"))
                    ELSE closed
    /\ balance' = [balance EXCEPT ![w.member] = @ - Reversal(w)]
    /\ streak' = [streak EXCEPT ![w.member] = AfterRejection(@, w, outcome)]
    /\ UNCHANGED <<today, streakOn, offers, changes, calls, redemptions,
                   effects, sweep>>

-----------------------------------------------------------------------------
(***************************************************************************)
(* The streak sweep (runStreakSweep.ts) and the clock                       *)
(***************************************************************************)

\* The switch, the day and the candidates are read once, without a lock.
SweepScan ==
    /\ sweep = Idle
    /\ streakOn
    /\ sweep' = [day |-> today, todo |-> {m \in Members : streak[m].length > 0}]
    /\ sweep'.todo # {}
    /\ UNCHANGED <<today, streakOn, offers, changes, works, calls, redemptions,
                   effects, streak, balance>>

\* Wrong: the sweep trusts the scan that found the candidate.
BreaksOnSight(m) == streak[m].length > 0

\* The sweep decides from the row it has locked.
Breaks(m) == /\ streak[m].lastActive # NoDay
             /\ Stale(streak[m].lastActive, sweep.day)

SweepMember(m) ==
    /\ m \in sweep.todo
    /\ streak' = IF Breaks(m) THEN [streak EXCEPT ![m] = ZeroStreak] ELSE streak
    /\ sweep' = IF sweep.todo = {m} THEN Idle ELSE [sweep EXCEPT !.todo = @ \ {m}]
    /\ UNCHANGED <<today, streakOn, offers, changes, works, calls, redemptions,
                   effects, balance>>

\* A process that stops in the middle of a sweep leaves the rest for the next.
SweepDies ==
    /\ sweep # Idle
    /\ sweep' = Idle
    /\ UNCHANGED <<today, streakOn, offers, changes, works, calls, redemptions,
                   effects, streak, balance>>

Midnight ==
    /\ today < MaxDay
    /\ today' = today + 1
    /\ UNCHANGED <<streakOn, offers, changes, works, calls, redemptions,
                   effects, streak, balance, sweep>>

Next ==
    \/ \E m \in Members, kind \in Kinds : Purchase(m, kind)
    \/ \E i \in DOMAIN redemptions : Fulfil(i)
    \/ \E kind \in Kinds, cost \in Costs, active \in BOOLEAN :
           EditReward(kind, cost, active)
    \/ ToggleStreak
    \/ \E m \in Members, kind \in {"VOLUNTARY", "RANDOM"} : Assign(m, kind)
    \/ \E i \in DOMAIN works : BeginComplete(i)
    \/ \E c \in calls : Complete(c)
    \/ \E i \in DOMAIN works, outcome \in {"REASSIGN_TO_MEMBER", "REOFFER_MARKET"} :
           Reject(i, outcome)
    \/ SweepScan
    \/ \E m \in Members : SweepMember(m)
    \/ SweepDies
    \/ Midnight

Spec == Init /\ [][Next]_vars

-----------------------------------------------------------------------------
(***************************************************************************)
(* Properties                                                               *)
(***************************************************************************)

StreakState == [length : 0..MaxDay, lastActive : 0..MaxDay, bonusPaid : 0..MaxDay]

\* The types of the variables.
TypeOK ==
    /\ today \in 1..MaxDay /\ streakOn \in BOOLEAN /\ changes \in 0..MaxChanges
    /\ offers \in [Kinds -> [cost : Costs, active : BOOLEAN]]
    /\ \A i \in DOMAIN works :
           /\ works[i].member \in Members
           /\ works[i].status \in {"ACTIVE", "COMPLETED", "REJECTED"}
           /\ works[i].effect \in {NoEffect} \cup DOMAIN effects
    /\ calls \subseteq [row : DOMAIN works, day : 1..MaxDay]
    /\ \A i \in DOMAIN redemptions :
           /\ redemptions[i].kind \in Kinds
           /\ redemptions[i].status \in {"PENDING", "FULFILLED"}
    /\ streak \in [Members -> StreakState]
    /\ balance \in [Members -> Int]
    /\ sweep.day \in 0..MaxDay /\ sweep.todo \subseteq Members

Sold(m)  == {i \in DOMAIN redemptions : redemptions[i].member = m}
Done(m)  == {i \in DOMAIN works : works[i].member = m /\ works[i].nth > 0}
Stood(m) == {i \in Done(m) : works[i].status = "COMPLETED"}

\* The sum of the first n amounts of a list.
Total(amount, n) ==
    LET sum[i \in 0..n] == IF i = 0 THEN 0 ELSE sum[i - 1] + amount[i] IN sum[n]

\* A member's points are explained by what stands: the opening balance, the
\* rewards and bonuses of completions nobody rejected, multiplied or not, less
\* the prices at which the member bought.  It relates purchases, effects,
\* completions and clawback.ts, which have to reverse exactly what was paid.
PointsMatchTheRows ==
    \A m \in Members :
        LET earned == [i \in 1..MaxWorks |->
                          IF i \in Stood(m) THEN works[i].paid + works[i].bonus ELSE 0]
            spent  == [i \in 1..MaxPurchases |->
                          IF i \in Sold(m) THEN redemptions[i].cost ELSE 0]
        IN  balance[m] = OpeningBalance + Total(earned, MaxWorks) - Total(spent, MaxPurchases)

\* Every charge of a multiplier is left over or was spent on one completion by
\* its buyer, before it expired, that was paid for and paid more for it.
ChargesMatchTheRows ==
    \A e \in DOMAIN effects :
        LET spent == {i \in DOMAIN works : works[i].effect = e} IN
        /\ effects[e].left >= 0
        /\ effects[e].left + Cardinality(spent) = Charges
        /\ \A i \in spent : /\ works[i].member = effects[e].member
                             /\ works[i].day < effects[e].expires
                             /\ works[i].paid = Award * Factor

\* Purchases, potions, completions and clawbacks add up, in points and charges.
PointsAndChargesMatch == PointsMatchTheRows /\ ChargesMatchTheRows

\* A streak is never longer than it was earned: on each of the days it counts
\* the member completed a task that was pinned to a streak that is on.  It
\* holds however completions, rejections, sweeps, midnights and the switch
\* interleave, a completion that waited past midnight included.
StreakIsEarned ==
    \A m \in Members :
        LET s == streak[m] IN
        \A d \in (s.lastActive - s.length + 1)..s.lastActive :
            \E i \in Done(m) : works[i].pinnedOn /\ works[i].day = d

\* The completion of m that was counted last.
LastCounted(m) ==
    LET counted == {i \in Done(m) : works[i].pinnedOn}
    IN  {i \in counted : \A j \in counted : works[j].nth <= works[i].nth}

\* The sweep ends a streak only for a member whose latest counted completion
\* lies a whole idle day back, although it chose its candidates and its day
\* before it held any lock (runStreakSweep.ts: a completion racing in between
\* cannot be lost).
SweepSparesTheActive ==
    [][ \A m \in Members : SweepMember(m) /\ streak'[m] # streak[m] =>
            \A i \in LastCounted(m) : sweep.day - works[i].day > 1 ]_vars

=============================================================================
