-------------------------- MODULE RewardShopProofs --------------------------
(* Theorems about RewardShop, for every household, price, multiplier and       *)
(* streak rate.                                                                *)
EXTENDS RewardShop, RunningTotals, FiniteSetTheorems, SequenceTheorems

(* The types of the rows.                                                      *)
Work == [member : Members, kind : {"VOLUNTARY", "RANDOM"}, pinnedOn : BOOLEAN,
         status : {"ACTIVE", "COMPLETED", "REJECTED"}, day : Nat, nth : Nat, paid : Int,
         bonus : Int, effect : Nat]
Sale == [member : Members, kind : Kinds, cost : Nat, status : {"PENDING", "FULFILLED"}]
Effect == [member : Members, left : Int, expires : Int]
Streak == [length : Nat, lastActive : Nat, bonusPaid : Nat]

TypeInv ==
    /\ today \in Nat
    /\ offers \in [Kinds -> [cost : Costs, active : BOOLEAN]]
    /\ streakOn \in BOOLEAN
    /\ works \in Seq(Work) /\ Len(works) <= MaxWorks
    /\ redemptions \in Seq(Sale) /\ Len(redemptions) <= MaxPurchases
    /\ effects \in Seq(Effect)
    /\ streak \in [Members -> Streak]
    /\ balance \in [Members -> Int]
    /\ sweep \in [day : Nat, todo : SUBSET Members]
    /\ \A c \in calls : /\ c.row \in DOMAIN works /\ c.day \in Nat
                        /\ works[c.row].status = "ACTIVE"
    /\ \A c, e \in calls : c.row = e.row => c = e

(* What a completion pays, spends and leaves in its row.                       *)
SpentBy(c) == EffectFor(works[c.row].member, works[c.row].kind, c.day)
PaidFor(c) == RewardOf(works[c.row].kind, SpentBy(c))
BonusFor(c) ==
    LET w == works[c.row] IN
    IF w.pinnedOn THEN BonusOf(streak[w.member], w.kind, c.day) ELSE 0
DoneRow(c) ==
    [works[c.row] EXCEPT !.status = "COMPLETED", !.day = c.day, !.nth = Completions + 1,
                         !.paid = PaidFor(c), !.bonus = BonusFor(c), !.effect = SpentBy(c)]

(* The streak arithmetic stays within the numbers.                             *)
LEMMA StreakTypes ==
    ASSUME NEW s \in Streak, NEW kind, NEW d \in Nat
    PROVE  /\ LengthAfter(s, d) \in Nat /\ BonusOf(s, kind, d) \in Int
           /\ AfterCompletion(s, kind, d) \in Streak /\ ClearBonus(s, d) \in Streak
           /\ ZeroStreak \in Streak
<1>1. LengthAfter(s, d) \in Nat
  BY DEF LengthAfter, Streak
<1>2. RateHalves * LengthAfter(s, d) \in Nat
  BY <1>1, ShopAssumption
<1>3. StreakBonus(LengthAfter(s, d)) \in Int
  BY <1>2 DEF StreakBonus
<1>4. BonusOf(s, kind, d) \in Int
  BY <1>3 DEF BonusOf
<1>5. AfterCompletion(s, kind, d) \in Streak
  BY <1>1, <1>4 DEF AfterCompletion, Streak
<1>6. ClearBonus(s, d) \in Streak /\ ZeroStreak \in Streak
  BY DEF ClearBonus, ZeroStreak, NoDay, Streak
<1> QED  BY <1>1, <1>4, <1>5, <1>6

(* The oldest effect that may be spent exists, if there is any.                *)
LEMMA OldestEffect ==
    ASSUME TypeInv, NEW m \in Members, NEW kind, NEW d \in Nat
    PROVE  /\ EffectFor(m, kind, d) \in Nat
           /\ EffectFor(m, kind, d) # NoEffect =>
                 kind = "VOLUNTARY" /\ EffectFor(m, kind, d) \in Spendable(m, d)
<1>1. CASE kind = "VOLUNTARY" /\ Spendable(m, d) # {}
  <2>1. Spendable(m, d) \in SUBSET Nat
    BY DEF Spendable, TypeInv
  <2>2. \E e \in Spendable(m, d) : \A f \in Spendable(m, d) : e <= f
    BY <1>1, <2>1, SmallestOf
  <2>3. EffectFor(m, kind, d) = CHOOSE e \in Spendable(m, d) : \A f \in Spendable(m, d) : e <= f
    BY <1>1 DEF EffectFor
  <2>4. EffectFor(m, kind, d) \in Spendable(m, d)
    BY <2>2, <2>3
  <2> QED  BY <1>1, <2>1, <2>4
<1>2. CASE ~(kind = "VOLUNTARY" /\ Spendable(m, d) # {})
  BY <1>2 DEF EffectFor, NoEffect
<1> QED  BY <1>1, <1>2

(* The completions counted so far.                                             *)
Counted(rows) == {i \in DOMAIN rows : rows[i].nth > 0}

LEMMA CompletionsType ==
    ASSUME TypeInv
    PROVE  IsFiniteSet(Counted(works)) /\ Completions = Cardinality(Counted(works))
           /\ Completions \in Nat
<1>1. IsFiniteSet(DOMAIN works)
  BY FS_Interval DEF TypeInv
<1>2. IsFiniteSet(Counted(works))
  BY <1>1, FS_Subset DEF Counted
<1> QED  BY <1>2, FS_CardinalityType DEF Completions, Counted

LEMMA CompleteRow ==
    ASSUME TypeInv, NEW c \in calls
    PROVE  /\ c.row \in DOMAIN works /\ works[c.row] \in Work /\ works[c.row].status = "ACTIVE"
           /\ works[c.row].member \in Members /\ c.day \in Nat
           /\ SpentBy(c) \in Nat /\ PaidFor(c) \in Int /\ BonusFor(c) \in Int
           /\ DoneRow(c) \in Work
           /\ LET new == DoneRow(c) w == works[c.row] IN
              /\ new.member = w.member /\ new.kind = w.kind /\ new.pinnedOn = w.pinnedOn
              /\ new.status = "COMPLETED" /\ new.day = c.day /\ new.nth = Completions + 1
              /\ new.paid = PaidFor(c) /\ new.bonus = BonusFor(c) /\ new.effect = SpentBy(c)
<1>1. c.row \in DOMAIN works /\ works[c.row].status = "ACTIVE" /\ c.day \in Nat
  BY DEF TypeInv
<1>2. works[c.row] \in Work
  BY <1>1, ElementOfSeq DEF TypeInv
<1>3. works[c.row].member \in Members /\ works[c.row].kind \in {"VOLUNTARY", "RANDOM"}
  BY <1>2 DEF Work
<1>4. SpentBy(c) \in Nat
  BY <1>1, <1>3, OldestEffect DEF SpentBy
<1>5. PaidFor(c) \in Int
  <2>1. Award * Factor \in Int /\ Award \in Int
    BY ShopAssumption
  <2> QED  BY <2>1 DEF PaidFor, RewardOf
<1>6. BonusFor(c) \in Int
  <2>1. streak[works[c.row].member] \in Streak
    BY <1>3 DEF TypeInv
  <2> QED  BY <1>1, <2>1, StreakTypes DEF BonusFor
<1>7. Completions + 1 \in Nat
  BY CompletionsType
<1> DEFINE w == works[c.row]
<1>8. w \in Work
  BY <1>2
<1> HIDE DEF w
<1>9. DoneRow(c) = [w EXCEPT !.status = "COMPLETED", !.day = c.day, !.nth = Completions + 1,
                      !.paid = PaidFor(c), !.bonus = BonusFor(c), !.effect = SpentBy(c)]
  BY DEF DoneRow, w
<1>10. DoneRow(c) \in Work
  BY <1>1, <1>4, <1>5, <1>6, <1>7, <1>8, <1>9 DEF Work
<1>11. LET new == DoneRow(c) IN
       /\ new.member = w.member /\ new.kind = w.kind /\ new.pinnedOn = w.pinnedOn
       /\ new.status = "COMPLETED" /\ new.day = c.day /\ new.nth = Completions + 1
       /\ new.paid = PaidFor(c) /\ new.bonus = BonusFor(c) /\ new.effect = SpentBy(c)
  BY <1>8, <1>9 DEF Work
<1> QED  BY <1>1, <1>2, <1>3, <1>4, <1>5, <1>6, <1>10, <1>11 DEF w

(* What a step does to the rows of completions.                                *)
RowKept(i) == i \in DOMAIN works /\ works'[i] = works[i]
RowNew(i) ==
    /\ i \notin DOMAIN works
    /\ \E m \in Members, kind \in {"VOLUNTARY", "RANDOM"} : works'[i] = NewWork(m, kind)
RowDone(i) ==
    /\ i \in DOMAIN works
    /\ \E c \in calls : Complete(c) /\ c.row = i /\ works'[i] = DoneRow(c)
RowRejected(i) ==
    /\ i \in DOMAIN works /\ works[i].status = "COMPLETED"
    /\ works'[i] = [works[i] EXCEPT !.status = "REJECTED"]
    /\ \E outcome \in {"REASSIGN_TO_MEMBER", "REOFFER_MARKET"} : Reject(i, outcome)

LEMMA NewWorkType ==
    ASSUME streakOn \in BOOLEAN, NEW m \in Members, NEW kind \in {"VOLUNTARY", "RANDOM"}
    PROVE  NewWork(m, kind) \in Work
BY DEF NewWork, Work, NoDay, NoEffect

LEMMA RejectedRow ==
    ASSUME NEW w \in Work
    PROVE  LET new == [w EXCEPT !.status = "REJECTED"] IN
           /\ new \in Work /\ new.status = "REJECTED" /\ new.member = w.member
           /\ new.kind = w.kind /\ new.pinnedOn = w.pinnedOn /\ new.day = w.day
           /\ new.nth = w.nth /\ new.paid = w.paid /\ new.bonus = w.bonus
           /\ new.effect = w.effect
BY DEF Work

LEMMA RowSteps ==
    ASSUME TypeInv, [Next]_vars
    PROVE  /\ works' \in Seq(Work) /\ Len(works') <= MaxWorks
           /\ DOMAIN works \subseteq DOMAIN works'
           /\ \A i \in DOMAIN works' : RowKept(i) \/ RowNew(i) \/ RowDone(i) \/ RowRejected(i)
<1> DEFINE Goal == /\ works' \in Seq(Work) /\ Len(works') <= MaxWorks
                   /\ DOMAIN works \subseteq DOMAIN works'
                   /\ \A i \in DOMAIN works' :
                         RowKept(i) \/ RowNew(i) \/ RowDone(i) \/ RowRejected(i)
<1>0. works \in Seq(Work) /\ Len(works) <= MaxWorks /\ Len(works) \in Nat /\ MaxWorks \in Nat
  BY ShopAssumption DEF TypeInv
<1>1. CASE works' = works
  BY <1>0, <1>1 DEF RowKept
<1>2. ASSUME NEW m \in Members, NEW kind \in {"VOLUNTARY", "RANDOM"}, Assign(m, kind)
      PROVE  Goal
  <2> DEFINE x == NewWork(m, kind)
  <2>1. x \in Work
    BY NewWorkType DEF TypeInv
  <2>2. works' = Append(works, x) /\ Len(works) < MaxWorks
    BY <1>2 DEF Assign
  <2>3. \A i \in DOMAIN works' : i \notin DOMAIN works => works'[i] = x
    <3> HIDE DEF x
    <3> QED  BY <1>0, <2>1, <2>2
  <2>4. \A i \in DOMAIN works' : i \notin DOMAIN works => RowNew(i)
    BY <2>3 DEF RowNew
  <2> HIDE DEF x
  <2>5. /\ works' \in Seq(Work) /\ Len(works') <= MaxWorks
        /\ DOMAIN works \subseteq DOMAIN works'
        /\ \A i \in DOMAIN works : works'[i] = works[i]
    BY <1>0, <2>1, <2>2
  <2> QED  BY <2>4, <2>5 DEF RowKept
<1>3. ASSUME NEW c \in calls, Complete(c)
      PROVE  Goal
  <2>1. works' = [works EXCEPT ![c.row] = DoneRow(c)]
    BY <1>3 DEF Complete, DoneRow, SpentBy, PaidFor, BonusFor
  <2>2. c.row \in DOMAIN works /\ DoneRow(c) \in Work
    BY CompleteRow
  <2>3. /\ works' \in Seq(Work) /\ Len(works') = Len(works) /\ DOMAIN works' = DOMAIN works
        /\ \A i \in DOMAIN works : works'[i] = IF i = c.row THEN DoneRow(c) ELSE works[i]
    BY <1>0, <2>1, <2>2, ExceptSeq, LenProperties
  <2>4. RowDone(c.row)
    BY <1>3, <2>2, <2>3 DEF RowDone
  <2> QED  BY <1>0, <2>3, <2>4 DEF RowKept
<1>4. ASSUME NEW i \in DOMAIN works, NEW outcome \in {"REASSIGN_TO_MEMBER", "REOFFER_MARKET"},
             Reject(i, outcome)
      PROVE  Goal
  <2> DEFINE r == [works[i] EXCEPT !.status = "REJECTED"]
             closed == [works EXCEPT ![i].status = "REJECTED"]
             x == NewWork(works[i].member, "VOLUNTARY")
  <2>1. works[i] \in Work /\ works[i].status = "COMPLETED"
    BY <1>0, <1>4, ElementOfSeq DEF Reject
  <2>2. r \in Work /\ x \in Work
    <3>1. works[i].member \in Members
      BY <2>1 DEF Work
    <3> QED  BY <2>1, <3>1, RejectedRow, NewWorkType DEF TypeInv
  <2>3. closed = [works EXCEPT ![i] = r]
    OBVIOUS
  <2>4. \/ works' = closed
        \/ works' = Append(closed, x) /\ Len(works) < MaxWorks
    BY <1>4 DEF Reject
  <2>5. RowRejected(i) \/ works'[i] # r
    BY <1>4, <2>1 DEF RowRejected
  <2>6. \A j : j \notin DOMAIN works /\ works'[j] = x => RowNew(j)
    <3>1. works[i].member \in Members
      BY <2>1 DEF Work
    <3> QED  BY <3>1 DEF RowNew
  <2> HIDE DEF r, closed, x
  <2>7. /\ closed \in Seq(Work) /\ Len(closed) = Len(works) /\ DOMAIN closed = DOMAIN works
        /\ \A j \in DOMAIN works : closed[j] = IF j = i THEN r ELSE works[j]
    BY <1>0, <2>2, <2>3, ExceptSeq, LenProperties
  <2>8. CASE works' = closed
    BY <1>0, <2>5, <2>7, <2>8 DEF RowKept
  <2>9. CASE works' = Append(closed, x) /\ Len(works) < MaxWorks
    <3>1. /\ works' \in Seq(Work) /\ Len(works') <= MaxWorks
          /\ DOMAIN works \subseteq DOMAIN works'
          /\ \A j \in DOMAIN works : works'[j] = closed[j]
          /\ \A j \in DOMAIN works' : j \notin DOMAIN works => works'[j] = x
      BY <1>0, <2>2, <2>7, <2>9
    <3> QED  BY <2>5, <2>6, <2>7, <3>1 DEF RowKept
  <2> QED  BY <2>4, <2>8, <2>9
<1>5. \/ works' = works
      \/ \E m \in Members, kind \in {"VOLUNTARY", "RANDOM"} : Assign(m, kind)
      \/ \E c \in calls : Complete(c)
      \/ \E i \in DOMAIN works, outcome \in {"REASSIGN_TO_MEMBER", "REOFFER_MARKET"} :
            Reject(i, outcome)
  BY DEF Next, Purchase, Fulfil, EditReward, ToggleStreak, BeginComplete, SweepScan, SweepMember,
         SweepDies, Midnight, vars
<1> QED  BY <1>1, <1>2, <1>3, <1>4, <1>5

(* What a step does to a member's streak.                                      *)
LEMMA StreakSteps ==
    ASSUME TypeInv, [Next]_vars, NEW m \in Members
    PROVE  \/ streak'[m] = streak[m]
           \/ streak'[m] = ZeroStreak
           \/ \E d \in Nat : streak'[m] = ClearBonus(streak[m], d)
           \/ \E c \in calls :
                 /\ Complete(c) /\ works[c.row].member = m /\ works[c.row].pinnedOn
                 /\ streak'[m] = AfterCompletion(streak[m], works[c.row].kind, c.day)
<1>0. streak \in [Members -> Streak]
  BY DEF TypeInv
<1>1. CASE streak' = streak
  BY <1>1
<1>2. ASSUME NEW c \in calls, Complete(c), streak'[m] # streak[m]
      PROVE  /\ works[c.row].member = m /\ works[c.row].pinnedOn
             /\ streak'[m] = AfterCompletion(streak[m], works[c.row].kind, c.day)
  <2> DEFINE w == works[c.row]
             next == AfterCompletion(streak[w.member], w.kind, c.day)
  <2>1. w.pinnedOn /\ streak' = [streak EXCEPT ![w.member] = next]
    BY <1>2 DEF Complete
  <2> HIDE DEF next
  <2>2. w.member = m /\ streak'[m] = next
    <3> HIDE DEF w
    <3> QED  BY <1>0, <1>2, <2>1
  <2> QED  BY <2>1, <2>2 DEF next
<1>3. ASSUME NEW i \in DOMAIN works, NEW outcome \in {"REASSIGN_TO_MEMBER", "REOFFER_MARKET"},
             Reject(i, outcome)
      PROVE  \/ streak'[m] \in {streak[m], ZeroStreak}
             \/ \E d \in Nat : streak'[m] = ClearBonus(streak[m], d)
  <2> DEFINE w == works[i]
             next == AfterRejection(streak[w.member], w, outcome)
  <2>1. w \in Work
    BY <1>3, ElementOfSeq DEF TypeInv
  <2>2. streak' = [streak EXCEPT ![w.member] = next]
    BY <1>3 DEF Reject
  <2>3. w.member \in Members /\ w.day \in Nat
    BY <2>1 DEF Work
  <2>4. \/ next \in {streak[w.member], ZeroStreak}
        \/ next = ClearBonus(streak[w.member], w.day)
    BY DEF AfterRejection
  <2> HIDE DEF next, w
  <2>5. streak'[m] = IF m = w.member THEN next ELSE streak[m]
    BY <1>0, <2>2
  <2> QED  BY <2>3, <2>4, <2>5
<1>4. ASSUME NEW n \in Members, SweepMember(n)
      PROVE  streak'[m] \in {streak[m], ZeroStreak}
  BY <1>0, <1>4 DEF SweepMember
<1>5. \/ streak' = streak
      \/ \E c \in calls : Complete(c)
      \/ \E i \in DOMAIN works, outcome \in {"REASSIGN_TO_MEMBER", "REOFFER_MARKET"} :
            Reject(i, outcome)
      \/ \E n \in Members : SweepMember(n)
  BY DEF Next, Purchase, Fulfil, EditReward, ToggleStreak, Assign, BeginComplete, SweepScan,
         SweepDies, Midnight, vars
<1> QED  BY <1>1, <1>2, <1>3, <1>4, <1>5

(* What a step does to the effects: one is bought, or a charge of one is spent. *)
EffectKept(e) == e \in DOMAIN effects /\ effects'[e] = effects[e]
EffectBought(e) ==
    /\ e \notin DOMAIN effects
    /\ \E m \in Members, d \in Int :
          effects'[e] = [member |-> m, left |-> Charges, expires |-> d]
EffectSpent(e) ==
    /\ e \in DOMAIN effects
    /\ \E c \in calls : Complete(c) /\ SpentBy(c) = e
    /\ effects'[e] = [effects[e] EXCEPT !.left = effects[e].left - 1]

LEMMA EffectSteps ==
    ASSUME TypeInv, [Next]_vars
    PROVE  /\ effects' \in Seq(Effect) /\ DOMAIN effects \subseteq DOMAIN effects'
           /\ \A e \in DOMAIN effects' : EffectKept(e) \/ EffectBought(e) \/ EffectSpent(e)
           /\ \A c \in calls : Complete(c) =>
                 \A e \in DOMAIN effects' :
                    e \in DOMAIN effects /\ (e = SpentBy(c) => EffectSpent(e))
<1>0. effects \in Seq(Effect) /\ Len(effects) \in Nat /\ DOMAIN effects = 1 .. Len(effects)
  BY DEF TypeInv
<1> DEFINE Goal ==
             /\ effects' \in Seq(Effect) /\ DOMAIN effects \subseteq DOMAIN effects'
             /\ \A e \in DOMAIN effects' : EffectKept(e) \/ EffectBought(e) \/ EffectSpent(e)
<1>1. ASSUME effects' = effects PROVE Goal
  <2>1. effects' \in Seq(Effect) /\ DOMAIN effects \subseteq DOMAIN effects'
    BY <1>0, <1>1
  <2>2. \A e \in DOMAIN effects' : e \in DOMAIN effects /\ effects'[e] = effects[e]
    BY <1>1
  <2>3. \A e \in DOMAIN effects' : EffectKept(e)
    BY <2>2 DEF EffectKept
  <2> QED  BY <2>1, <2>3
<1>2. ASSUME NEW m \in Members, NEW kind \in Kinds, Purchase(m, kind), effects' # effects
      PROVE  Goal
  <2> DEFINE x == [member |-> m, left |-> Charges, expires |-> today + Lasts]
  <2>1. effects' = Append(effects, x)
    BY <1>2 DEF Purchase
  <2>2. x \in Effect /\ today + Lasts \in Int
    <3>1. today + Lasts \in Int /\ Charges \in Int
      BY ShopAssumption DEF TypeInv
    <3> QED  BY <3>1 DEF Effect
  <2>3. /\ effects' \in Seq(Effect) /\ DOMAIN effects \subseteq DOMAIN effects'
        /\ \A e \in DOMAIN effects : effects'[e] = effects[e]
        /\ \A e \in DOMAIN effects' : e \notin DOMAIN effects => effects'[e] = x
    <3> HIDE DEF x
    <3> QED  BY <1>0, <2>1, <2>2
  <2>4. \A e \in DOMAIN effects' : e \notin DOMAIN effects => EffectBought(e)
    BY <2>2, <2>3 DEF EffectBought
  <2>5. \A e \in DOMAIN effects : EffectKept(e)
    BY <2>3 DEF EffectKept
  <2> QED  BY <2>3, <2>4, <2>5
<1>3. ASSUME NEW c \in calls, Complete(c)
      PROVE  /\ Goal /\ DOMAIN effects' = DOMAIN effects
             /\ SpentBy(c) \in DOMAIN effects => EffectSpent(SpentBy(c))
  <2> DEFINE e == SpentBy(c)
             x == [effects[e] EXCEPT !.left = effects[e].left - 1]
  <2>1. CASE e = NoEffect
    <3>1. effects' = effects /\ e \notin DOMAIN effects
      BY <1>0, <1>3, <2>1 DEF Complete, SpentBy, NoEffect
    <3>2. Goal
      BY <1>1, <3>1
    <3> HIDE DEF Goal
    <3> QED  BY <3>1, <3>2
  <2>2. CASE e # NoEffect
    <3>1. e \in DOMAIN effects
      <4>1. works[c.row].member \in Members /\ c.day \in Nat
        BY CompleteRow
      <4>2. e \in Spendable(works[c.row].member, c.day)
        BY <2>2, <4>1, OldestEffect DEF SpentBy
      <4> QED  BY <4>2 DEF Spendable
    <3>2. effects[e] \in Effect
      BY <1>0, <3>1, ElementOfSeq
    <3>3. x \in Effect /\ x.left = effects[e].left - 1
      BY <3>2 DEF Effect
    <3>4. effects' = [effects EXCEPT ![e] = x]
      BY <1>3, <2>2 DEF Complete, SpentBy
    <3>5. /\ effects' \in Seq(Effect) /\ Len(effects') = Len(effects)
          /\ \A f \in DOMAIN effects : effects'[f] = IF f = e THEN x ELSE effects[f]
      <4> HIDE DEF x, e
      <4> QED  BY <1>0, <3>1, <3>3, <3>4, ExceptSeq
    <3>6. DOMAIN effects' = DOMAIN effects
      BY <1>0, <3>5, LenProperties
    <3>7. EffectSpent(e)
      BY <1>3, <3>1, <3>5 DEF EffectSpent
    <3>8. \A f \in DOMAIN effects : f # e => EffectKept(f)
      BY <3>5 DEF EffectKept
    <3> QED  BY <3>5, <3>6, <3>7, <3>8
  <2> QED  BY <2>1, <2>2
<1>4. \/ effects' = effects
      \/ \E m \in Members, kind \in Kinds : Purchase(m, kind)
      \/ \E c \in calls : Complete(c)
  BY DEF Next, Fulfil, EditReward, ToggleStreak, Assign, BeginComplete, Reject, SweepScan,
         SweepMember, SweepDies, Midnight, vars
<1>5. Goal
  <2> HIDE DEF Goal
  <2> QED  BY <1>1, <1>2, <1>3, <1>4
<1>6. ASSUME NEW c \in calls, Complete(c), NEW e \in DOMAIN effects'
      PROVE  e \in DOMAIN effects /\ (e = SpentBy(c) => EffectSpent(e))
  <2> HIDE DEF Goal
  <2> QED  BY <1>3, <1>6
<1> QED  BY <1>5, <1>6

(* Balances: a purchase, a completion and a rejection post what they post.     *)
LEMMA BalanceType ==
    ASSUME TypeInv, [Next]_vars
    PROVE  balance' \in [Members -> Int]
<1>0. balance \in [Members -> Int]
  BY DEF TypeInv
<1>1. ASSUME NEW m \in Members, NEW kind \in Kinds, Purchase(m, kind)
      PROVE  balance' \in [Members -> Int]
  <2>1. offers[kind].cost \in Nat
    BY <1>1, ShopAssumption DEF TypeInv
  <2> QED  BY <1>0, <1>1, <2>1 DEF Purchase
<1>2. ASSUME NEW c \in calls, Complete(c)
      PROVE  balance' \in [Members -> Int]
  <2>1. balance' = [balance EXCEPT ![works[c.row].member] =
                       balance[works[c.row].member] + PaidFor(c) + BonusFor(c)]
    BY <1>2 DEF Complete, PaidFor, BonusFor, SpentBy
  <2>2. works[c.row].member \in Members /\ PaidFor(c) \in Int /\ BonusFor(c) \in Int
    BY CompleteRow
  <2> QED  BY <1>0, <2>1, <2>2
<1>3. ASSUME NEW i \in DOMAIN works, NEW outcome \in {"REASSIGN_TO_MEMBER", "REOFFER_MARKET"},
             Reject(i, outcome)
      PROVE  balance' \in [Members -> Int]
  <2>1. works[i] \in Work
    BY <1>3, ElementOfSeq DEF TypeInv
  <2>2. works[i].member \in Members /\ Reversal(works[i]) \in Int
    BY <2>1 DEF Work, Reversal
  <2>3. balance' = [balance EXCEPT ![works[i].member] =
                       balance[works[i].member] - Reversal(works[i])]
    BY <1>3 DEF Reject
  <2> QED  BY <1>0, <2>2, <2>3
<1>4. \/ balance' = balance
      \/ \E m \in Members, kind \in Kinds : Purchase(m, kind)
      \/ \E c \in calls : Complete(c)
      \/ \E i \in DOMAIN works, outcome \in {"REASSIGN_TO_MEMBER", "REOFFER_MARKET"} :
            Reject(i, outcome)
  BY DEF Next, Fulfil, EditReward, ToggleStreak, Assign, BeginComplete, SweepScan, SweepMember,
         SweepDies, Midnight, vars
<1> QED  BY <1>0, <1>1, <1>2, <1>3, <1>4

(* Sales: one is added, or one is fulfilled.                                   *)
LEMMA SaleSteps ==
    ASSUME TypeInv, [Next]_vars
    PROVE  /\ redemptions' \in Seq(Sale) /\ Len(redemptions') <= MaxPurchases
           /\ DOMAIN redemptions \subseteq DOMAIN redemptions'
           /\ \A i \in DOMAIN redemptions :
                 /\ redemptions'[i].member = redemptions[i].member
                 /\ redemptions'[i].cost = redemptions[i].cost
           /\ \/ DOMAIN redemptions' = DOMAIN redemptions
              \/ \E m \in Members, kind \in Kinds :
                    /\ Purchase(m, kind)
                    /\ DOMAIN redemptions' = DOMAIN redemptions \cup {Len(redemptions) + 1}
                    /\ Len(redemptions) + 1 \in 1 .. MaxPurchases
                    /\ redemptions'[Len(redemptions) + 1].member = m
                    /\ redemptions'[Len(redemptions) + 1].cost = offers[kind].cost
<1>0. /\ redemptions \in Seq(Sale) /\ Len(redemptions) <= MaxPurchases
      /\ Len(redemptions) \in Nat /\ MaxPurchases \in Nat
  BY ShopAssumption DEF TypeInv
<1>1. CASE redemptions' = redemptions
  BY <1>0, <1>1
<1>2. ASSUME NEW m \in Members, NEW kind \in Kinds, Purchase(m, kind)
      PROVE  /\ redemptions' \in Seq(Sale) /\ Len(redemptions') <= MaxPurchases
             /\ \A i \in DOMAIN redemptions : redemptions'[i] = redemptions[i]
             /\ DOMAIN redemptions' = DOMAIN redemptions \cup {Len(redemptions) + 1}
             /\ Len(redemptions) + 1 \in 1 .. MaxPurchases
             /\ redemptions'[Len(redemptions) + 1].member = m
             /\ redemptions'[Len(redemptions) + 1].cost = offers[kind].cost
  <2> DEFINE x == [member |-> m, kind |-> kind, cost |-> offers[kind].cost,
                   status |-> IF kind = "VIRTUAL_EFFECT" THEN "FULFILLED" ELSE "PENDING"]
  <2>1. offers[kind].cost \in Nat
    BY <1>2, ShopAssumption DEF TypeInv
  <2>2. x \in Sale /\ x.member = m /\ x.cost = offers[kind].cost
    BY <2>1 DEF Sale
  <2>3. redemptions' = Append(redemptions, x) /\ Len(redemptions) < MaxPurchases
    BY <1>2 DEF Purchase
  <2> HIDE DEF x
  <2> QED  BY <1>0, <2>2, <2>3
<1>3. ASSUME NEW i \in DOMAIN redemptions, Fulfil(i)
      PROVE  /\ redemptions' \in Seq(Sale) /\ Len(redemptions') = Len(redemptions)
             /\ DOMAIN redemptions' = DOMAIN redemptions
             /\ \A j \in DOMAIN redemptions :
                   /\ redemptions'[j].member = redemptions[j].member
                   /\ redemptions'[j].cost = redemptions[j].cost
  <2> DEFINE x == [redemptions[i] EXCEPT !.status = "FULFILLED"]
  <2>1. redemptions[i] \in Sale
    BY <1>0, <1>3, ElementOfSeq
  <2>2. x \in Sale /\ x.member = redemptions[i].member /\ x.cost = redemptions[i].cost
    BY <2>1 DEF Sale
  <2>3. redemptions' = [redemptions EXCEPT ![i] = x]
    BY <1>3 DEF Fulfil
  <2> HIDE DEF x
  <2>4. /\ redemptions' \in Seq(Sale) /\ Len(redemptions') = Len(redemptions)
        /\ \A j \in DOMAIN redemptions : redemptions'[j] = IF j = i THEN x ELSE redemptions[j]
    BY <1>0, <1>3, <2>2, <2>3, ExceptSeq
  <2> QED  BY <1>0, <2>2, <2>4, LenProperties
<1>4. \/ redemptions' = redemptions
      \/ \E m \in Members, kind \in Kinds : Purchase(m, kind)
      \/ \E i \in DOMAIN redemptions : Fulfil(i)
  BY DEF Next, EditReward, ToggleStreak, Assign, BeginComplete, Complete, Reject, SweepScan,
         SweepMember, SweepDies, Midnight, vars
<1> QED  BY <1>0, <1>1, <1>2, <1>3, <1>4

(* A completion under way is of a row that is still active, and no other is.   *)
LEMMA CallSteps ==
    ASSUME TypeInv, [Next]_vars, NEW c \in calls'
    PROVE  /\ c.row \in DOMAIN works' /\ c.day \in Nat /\ works'[c.row].status = "ACTIVE"
           /\ \A e \in calls' : c.row = e.row => c = e
<1>1. \/ c \in calls
      \/ \E i \in DOMAIN works : BeginComplete(i) /\ c = [row |-> i, day |-> today]
  BY DEF Next, Purchase, Fulfil, EditReward, ToggleStreak, Assign, BeginComplete, Complete,
         Reject, SweepScan, SweepMember, SweepDies, Midnight, vars
<1>2. ASSUME NEW e \in calls, e \in calls'
      PROVE  e.row \in DOMAIN works' /\ e.day \in Nat /\ works'[e.row].status = "ACTIVE"
  <2>1. e.row \in DOMAIN works /\ works[e.row].status = "ACTIVE" /\ e.day \in Nat
    BY DEF TypeInv
  <2>2. e.row \in DOMAIN works' /\ (RowKept(e.row) \/ RowNew(e.row) \/ RowDone(e.row)
                                       \/ RowRejected(e.row))
    BY <2>1, RowSteps
  <2>3. ~RowNew(e.row) /\ ~RowRejected(e.row)
    BY <2>1 DEF RowNew, RowRejected
  <2>4. ~RowDone(e.row)
    <3>1. SUFFICES ASSUME NEW d \in calls, Complete(d), d.row = e.row PROVE FALSE
      BY DEF RowDone
    <3>2. d = e
      BY <3>1 DEF TypeInv
    <3> QED  BY <1>2, <3>1, <3>2 DEF Complete
  <2> QED  BY <2>1, <2>2, <2>3, <2>4 DEF RowKept
<1>3. ASSUME NEW i \in DOMAIN works, BeginComplete(i)
      PROVE  /\ works' = works /\ works[i].status = "ACTIVE" /\ today \in Nat
             /\ calls' = calls \cup {[row |-> i, day |-> today]}
             /\ \A e \in calls : e.row # i
  BY <1>3 DEF BeginComplete, TypeInv
<1>4. CASE c \in calls
  <2>1. \A e \in calls : c.row = e.row => c = e
    BY <1>4 DEF TypeInv
  <2>2. ASSUME NEW e \in calls', e \notin calls PROVE c.row # e.row
    <3>1. PICK i \in DOMAIN works : BeginComplete(i) /\ e = [row |-> i, day |-> today]
      BY <2>2 DEF Next, Purchase, Fulfil, EditReward, ToggleStreak, Assign, BeginComplete,
                  Complete, Reject, SweepScan, SweepMember, SweepDies, Midnight, vars
    <3> QED  BY <1>3, <1>4, <3>1
  <2> QED  BY <1>2, <1>4, <2>1, <2>2
<1>5. ASSUME NEW i \in DOMAIN works, BeginComplete(i), c = [row |-> i, day |-> today]
      PROVE  /\ c.row \in DOMAIN works' /\ c.day \in Nat /\ works'[c.row].status = "ACTIVE"
             /\ \A e \in calls' : c.row = e.row => c = e
  BY <1>3, <1>5
<1> QED  BY <1>1, <1>4, <1>5

LEMMA TypeStep ==
    ASSUME TypeInv, [Next]_vars
    PROVE  TypeInv'
<1>1. today' \in Nat
  <2>1. today' = today \/ today' = today + 1
    BY DEF Next, Purchase, Fulfil, EditReward, ToggleStreak, Assign, BeginComplete, Complete,
           Reject, SweepScan, SweepMember, SweepDies, Midnight, vars
  <2> QED  BY <2>1 DEF TypeInv
<1>2. offers' \in [Kinds -> [cost : Costs, active : BOOLEAN]]
  <2>1. CASE offers' = offers
    BY <2>1 DEF TypeInv
  <2>2. ASSUME NEW kind \in Kinds, NEW cost \in Costs, NEW active \in BOOLEAN,
               EditReward(kind, cost, active)
        PROVE  offers' \in [Kinds -> [cost : Costs, active : BOOLEAN]]
    BY <2>2 DEF EditReward, TypeInv
  <2> QED  BY <2>1, <2>2
           DEF Next, Purchase, Fulfil, ToggleStreak, Assign, BeginComplete, Complete,
               Reject, SweepScan, SweepMember, SweepDies, Midnight, vars
<1>3. streakOn' \in BOOLEAN
  BY DEF TypeInv, Next, Purchase, Fulfil, EditReward, ToggleStreak, Assign, BeginComplete,
         Complete, Reject, SweepScan, SweepMember, SweepDies, Midnight, vars
<1>4. streak' \in [Members -> Streak]
  <2>1. \A m \in Members : streak'[m] \in Streak
    <3> SUFFICES ASSUME NEW m \in Members PROVE streak'[m] \in Streak
      OBVIOUS
    <3>1. streak[m] \in Streak
      BY DEF TypeInv
    <3>2. \A c \in calls : c.day \in Nat
      BY DEF TypeInv
    <3> QED  BY <3>1, <3>2, StreakSteps, StreakTypes
  <2>2. \E f : streak' = [m \in Members |-> f[m]]
    <3>1. streak \in [Members -> Streak]
      BY DEF TypeInv
    <3>2. streak = [m \in Members |-> streak[m]]
      BY <3>1
    <3>3. streak' = streak \/ \E m, x : streak' = [streak EXCEPT ![m] = x]
      BY DEF Next, Purchase, Fulfil, EditReward, ToggleStreak, Assign, BeginComplete, Complete,
             Reject, SweepScan, SweepMember, SweepDies, Midnight, vars
    <3>4. DOMAIN streak' = Members /\ streak' = [m \in DOMAIN streak' |-> streak'[m]]
      BY <3>1, <3>3
    <3> QED  BY <3>4
  <2> QED  BY <2>1, <2>2
<1>5. sweep' \in [day : Nat, todo : SUBSET Members]
  <2>1. sweep \in [day : Nat, todo : SUBSET Members] /\ today \in Nat
    BY DEF TypeInv
  <2>2. CASE SweepScan
    BY <2>1, <2>2 DEF SweepScan
  <2>3. ASSUME NEW m \in Members, SweepMember(m)
        PROVE  sweep' \in [day : Nat, todo : SUBSET Members]
    BY <2>1, <2>3 DEF SweepMember, Idle, NoDay
  <2>4. CASE SweepDies
    BY <2>4 DEF SweepDies, Idle, NoDay
  <2> QED  BY <2>1, <2>2, <2>3, <2>4
           DEF Next, Purchase, Fulfil, EditReward, ToggleStreak, Assign, BeginComplete, Complete,
               Reject, Midnight, vars
<1> QED  BY <1>1, <1>2, <1>3, <1>4, <1>5, RowSteps, EffectSteps, BalanceType, SaleSteps,
            CallSteps DEF TypeInv

LEMMA TypeInit == Init => TypeInv
<1> SUFFICES ASSUME Init PROVE TypeInv
  OBVIOUS
<1>1. Min(Costs) \in Costs
  <2>1. \E n \in Costs : \A m \in Costs : n <= m
    BY ShopAssumption, SmallestOf
  <2> QED  BY <2>1 DEF Min
<1> QED  BY <1>1, ShopAssumption
         DEF Init, TypeInv, Idle, NoDay, ZeroStreak, Streak
-----------------------------------------------------------------------------
(* Rows and completions: a row is counted from its completion on, and what is  *)
(* active has nothing yet.                                                     *)
RowsInv ==
    \A i \in DOMAIN works :
        IF works[i].status = "ACTIVE"
        THEN works[i].nth = 0 /\ works[i].effect = NoEffect
        ELSE works[i].nth \in 1 .. Completions

LEMMA CompletionsStep ==
    ASSUME TypeInv, RowsInv, [Next]_vars
    PROVE  /\ Completions \in Nat
           /\ Completions' = IF \E c \in calls : Complete(c) THEN Completions + 1
                             ELSE Completions
<1>1. /\ IsFiniteSet(Counted(works)) /\ Completions = Cardinality(Counted(works))
      /\ Completions' = Cardinality(Counted(works')) /\ Completions \in Nat
  BY CompletionsType DEF Completions, Counted
<1>2. /\ DOMAIN works \subseteq DOMAIN works'
      /\ \A i \in DOMAIN works' : RowKept(i) \/ RowNew(i) \/ RowDone(i) \/ RowRejected(i)
  BY RowSteps
<1>3. \A i \in DOMAIN works : works[i] \in Work
  BY ElementOfSeq DEF TypeInv
<1>4. ASSUME NEW i \in DOMAIN works'
      PROVE  /\ RowKept(i) => (i \in Counted(works') <=> i \in Counted(works))
             /\ RowNew(i) => i \notin Counted(works') /\ i \notin Counted(works)
             /\ RowRejected(i) => (i \in Counted(works') <=> i \in Counted(works))
  <2>1. RowRejected(i) => works'[i].nth = works[i].nth
    BY <1>3, RejectedRow DEF RowRejected
  <2>2. RowNew(i) => works'[i].nth = 0
    BY DEF RowNew, NewWork
  <2> QED  BY <1>2, <2>1, <2>2 DEF Counted, RowKept, RowNew, RowRejected
<1>5. ASSUME NEW c \in calls, Complete(c)
      PROVE  Completions' = Completions + 1
  <2>1. c.row \in DOMAIN works /\ works[c.row].status = "ACTIVE"
    BY DEF TypeInv
  <2>2. c.row \notin Counted(works)
    BY <2>1 DEF RowsInv, Counted
  <2>3. \A i \in DOMAIN works' : RowDone(i) => i = c.row
    <3>1. works' = [works EXCEPT ![c.row] = DoneRow(c)]
      BY <1>5 DEF Complete, DoneRow, SpentBy, PaidFor, BonusFor
    <3>2. ASSUME NEW i \in DOMAIN works', RowDone(i), i # c.row PROVE FALSE
      <4>1. PICK e \in calls : Complete(e) /\ e.row = i /\ works'[i] = DoneRow(e)
        BY <3>2 DEF RowDone
      <4>2. works'[i] = works[i] /\ i \in DOMAIN works
        BY <3>1, <3>2 DEF RowDone, TypeInv
      <4>3. works[i].status = "ACTIVE" /\ DoneRow(e).status = "COMPLETED"
        BY <4>1, CompleteRow
      <4> QED  BY <4>1, <4>2, <4>3
    <3> QED  BY <3>2
  <2>4. works'[c.row] = DoneRow(c) /\ DoneRow(c).nth = Completions + 1
    <3>1. works' = [works EXCEPT ![c.row] = DoneRow(c)]
      BY <1>5 DEF Complete, DoneRow, SpentBy, PaidFor, BonusFor
    <3> QED  BY <2>1, <3>1, CompleteRow DEF TypeInv
  <2>5. c.row \in Counted(works')
    BY <1>1, <1>2, <2>1, <2>4 DEF Counted
  <2>6. Counted(works') = Counted(works) \cup {c.row}
    <3>1. \A i \in Counted(works') : i \in Counted(works) \/ i = c.row
      BY <1>2, <1>4, <2>3 DEF Counted
    <3>2. \A i \in Counted(works) : i \in Counted(works')
      BY <1>2, <1>4, <2>3, <2>5 DEF Counted
    <3> QED  BY <2>5, <3>1, <3>2
  <2> QED  BY <1>1, <2>2, <2>6, FS_AddElement
<1>6. ASSUME ~\E c \in calls : Complete(c)
      PROVE  Completions' = Completions
  <2>1. \A i : ~RowDone(i)
    BY <1>6 DEF RowDone
  <2>2. Counted(works') = Counted(works)
    BY <1>2, <1>4, <2>1 DEF Counted
  <2> QED  BY <1>1, <2>2
<1> QED  BY <1>1, <1>5, <1>6

LEMMA RowsStep ==
    ASSUME TypeInv, RowsInv, [Next]_vars
    PROVE  RowsInv'
<1> SUFFICES ASSUME NEW i \in DOMAIN works'
             PROVE  IF works'[i].status = "ACTIVE"
                    THEN works'[i].nth = 0 /\ works'[i].effect = NoEffect
                    ELSE works'[i].nth \in 1 .. Completions'
  BY DEF RowsInv
<1>1. /\ Completions \in Nat /\ Completions' \in Nat /\ Completions <= Completions'
      /\ \A c \in calls : Complete(c) => Completions' = Completions + 1
  BY CompletionsStep
<1>2. CASE RowKept(i)
  BY <1>1, <1>2 DEF RowKept, RowsInv
<1>3. CASE RowNew(i)
  BY <1>3 DEF RowNew, NewWork
<1>4. CASE RowDone(i)
  BY <1>1, <1>4, CompleteRow DEF RowDone
<1>5. CASE RowRejected(i)
  <2>1. works[i] \in Work
    BY <1>5, ElementOfSeq DEF RowRejected, TypeInv
  <2>2. works'[i].status = "REJECTED" /\ works'[i].nth = works[i].nth
    BY <1>5, <2>1, RejectedRow DEF RowRejected
  <2> QED  BY <1>1, <1>5, <2>2 DEF RowsInv, RowRejected
<1> QED  BY <1>2, <1>3, <1>4, <1>5, RowSteps

(* A counted row keeps what it was counted for; a completion adds its row.     *)
LEMMA CountedRows ==
    ASSUME TypeInv, RowsInv, [Next]_vars
    PROVE  /\ \A i \in DOMAIN works : works[i].nth > 0 =>
                 /\ i \in DOMAIN works' /\ works'[i].member = works[i].member
                 /\ works'[i].pinnedOn = works[i].pinnedOn /\ works'[i].day = works[i].day
                 /\ works'[i].nth = works[i].nth /\ works'[i].paid = works[i].paid
                 /\ works'[i].effect = works[i].effect
           /\ \A i \in DOMAIN works' :
                 \/ works'[i].nth = 0 /\ works'[i].effect = NoEffect
                 \/ i \in DOMAIN works /\ works[i].nth > 0
                 \/ \E c \in calls : Complete(c) /\ c.row = i
           /\ \A c \in calls : Complete(c) =>
                 /\ works' = [works EXCEPT ![c.row] = DoneRow(c)]
                 /\ works'[c.row] = DoneRow(c) /\ works[c.row].nth = 0
                 /\ c.row \in DOMAIN works /\ c.row \in DOMAIN works'
<1>1. \A i \in DOMAIN works : works[i] \in Work
  BY ElementOfSeq DEF TypeInv
<1>2. ASSUME NEW i \in DOMAIN works, RowRejected(i)
      PROVE  /\ works'[i].member = works[i].member
             /\ works'[i].pinnedOn = works[i].pinnedOn /\ works'[i].day = works[i].day
             /\ works'[i].nth = works[i].nth /\ works'[i].paid = works[i].paid
             /\ works'[i].effect = works[i].effect
             /\ works[i].nth > 0
  <2>1. works[i].nth \in 1 .. Completions
    BY <1>2 DEF RowRejected, RowsInv
  <2> QED  BY <1>1, <1>2, <2>1, CompletionsType, RejectedRow DEF RowRejected
<1>3. ASSUME NEW i \in DOMAIN works, works[i].nth > 0
      PROVE  ~RowDone(i) /\ ~RowNew(i)
  <2>1. works[i].status # "ACTIVE"
    BY <1>3 DEF RowsInv
  <2> QED  BY <1>3, <2>1, CompleteRow DEF RowDone, RowNew
<1>4. ASSUME NEW c \in calls, Complete(c)
      PROVE  /\ works' = [works EXCEPT ![c.row] = DoneRow(c)]
             /\ works'[c.row] = DoneRow(c) /\ works[c.row].nth = 0
             /\ c.row \in DOMAIN works /\ c.row \in DOMAIN works'
  <2>1. works' = [works EXCEPT ![c.row] = DoneRow(c)]
    BY <1>4 DEF Complete, DoneRow, SpentBy, PaidFor, BonusFor
  <2>2. c.row \in DOMAIN works /\ works[c.row].status = "ACTIVE"
    BY CompleteRow
  <2>3. works'[c.row] = DoneRow(c) /\ DOMAIN works' = DOMAIN works
    BY <2>1, <2>2 DEF TypeInv
  <2> QED  BY <2>1, <2>2, <2>3 DEF RowsInv
<1>5. ASSUME NEW i \in DOMAIN works, works[i].nth > 0
      PROVE  /\ i \in DOMAIN works' /\ works'[i].member = works[i].member
             /\ works'[i].pinnedOn = works[i].pinnedOn /\ works'[i].day = works[i].day
             /\ works'[i].nth = works[i].nth /\ works'[i].paid = works[i].paid
             /\ works'[i].effect = works[i].effect
  BY <1>2, <1>3, <1>5, RowSteps DEF RowKept
<1>6. ASSUME NEW i \in DOMAIN works'
      PROVE  \/ works'[i].nth = 0 /\ works'[i].effect = NoEffect
             \/ i \in DOMAIN works /\ works[i].nth > 0
             \/ \E c \in calls : Complete(c) /\ c.row = i
  <2>1. CASE RowKept(i)
    <3>1. CASE works[i].status = "ACTIVE"
      BY <2>1, <3>1 DEF RowKept, RowsInv
    <3>2. CASE works[i].status # "ACTIVE"
      <4>1. works[i].nth \in 1 .. Completions
        BY <2>1, <3>2 DEF RowKept, RowsInv
      <4> QED  BY <2>1, <4>1, CompletionsType DEF RowKept
    <3> QED  BY <3>1, <3>2
  <2>2. CASE RowNew(i)
    BY <2>2 DEF RowNew, NewWork
  <2>3. CASE RowDone(i)
    BY <2>3 DEF RowDone
  <2>4. CASE RowRejected(i)
    BY <1>2, <2>4 DEF RowRejected
  <2> QED  BY <2>1, <2>2, <2>3, <2>4, RowSteps
<1> QED  BY <1>4, <1>5, <1>6

LEMMA ShopInit == Init => TypeInv /\ RowsInv
BY TypeInit DEF Init, RowsInv

LEMMA ShopTypes == Spec => [](TypeInv /\ RowsInv)
BY ShopInit, TypeStep, RowsStep, PTL DEF Spec
-----------------------------------------------------------------------------
(* The streak as a completion leaves it.                                       *)
LEMMA CompletedStreak ==
    ASSUME TypeInv, NEW c \in calls, Complete(c), works[c.row].pinnedOn
    PROVE  LET m == works[c.row].member s == streak'[m] IN
           s.lastActive = c.day /\ s.length = LengthAfter(streak[m], c.day)
<1> DEFINE m == works[c.row].member
           next == AfterCompletion(streak[m], works[c.row].kind, c.day)
<1>1. streak' = [streak EXCEPT ![m] = next]
  BY DEF Complete
<1>2. m \in Members /\ streak \in [Members -> Streak]
  BY CompleteRow DEF TypeInv
<1>3. next.lastActive = c.day /\ next.length = LengthAfter(streak[m], c.day)
  BY DEF AfterCompletion
<1> HIDE DEF next, m
<1>4. streak'[m] = next
  BY <1>1, <1>2
<1> QED  BY <1>3, <1>4 DEF m

LEMMA EarnedStep ==
    ASSUME TypeInv, RowsInv, StreakIsEarned, [Next]_vars
    PROVE  StreakIsEarned'
<1> DEFINE Earned(m, d) == \E i \in Done(m) : works[i].pinnedOn /\ works[i].day = d
           EarnedNow(m, d) ==
             \E i \in DOMAIN works' : /\ works'[i].member = m /\ works'[i].nth > 0
                                      /\ works'[i].pinnedOn /\ works'[i].day = d
           Days(s) == (s.lastActive - s.length + 1) .. s.lastActive
<1> SUFFICES ASSUME NEW m \in Members, NEW d \in Days(streak'[m])
             PROVE  EarnedNow(m, d)
  BY DEF StreakIsEarned, Done
<1>1. streak[m] \in Streak /\ streak[m].lastActive \in Nat /\ streak[m].length \in Nat
  BY DEF TypeInv, Streak
<1>2. \A x : Earned(m, x) => EarnedNow(m, x)
  BY CountedRows DEF Done
<1>3. \A x \in Days(streak[m]) : Earned(m, x)
  BY DEF StreakIsEarned
<1> HIDE DEF Earned, EarnedNow
<1>4. CASE streak'[m] = streak[m]
  BY <1>2, <1>3, <1>4
<1>5. CASE streak'[m] = ZeroStreak
  BY <1>5 DEF ZeroStreak, NoDay
<1>6. ASSUME NEW x \in Nat, streak'[m] = ClearBonus(streak[m], x)
      PROVE  EarnedNow(m, d)
  <2>1. streak'[m].length = streak[m].length /\ streak'[m].lastActive = streak[m].lastActive
    BY <1>1, <1>6 DEF ClearBonus, Streak
  <2> QED  BY <1>2, <1>3, <2>1
<1>7. ASSUME NEW c \in calls, Complete(c), works[c.row].member = m, works[c.row].pinnedOn
      PROVE  EarnedNow(m, d)
  <2>1. /\ streak'[m].lastActive = c.day /\ c.day \in Nat
        /\ streak'[m].length = LengthAfter(streak[m], c.day)
    BY <1>7, CompletedStreak, CompleteRow
  <2>2. EarnedNow(m, c.day)
    <3>1. c.row \in DOMAIN works' /\ works'[c.row] = DoneRow(c)
      BY <1>7, CountedRows
    <3>2. Completions + 1 > 0
      BY CompletionsType
    <3> QED  BY <1>7, <3>1, <3>2, CompleteRow DEF EarnedNow
  <2>3. d = c.day \/ d \in Days(streak[m])
    BY <1>1, <2>1 DEF LengthAfter
  <2> QED  BY <1>2, <1>3, <2>2, <2>3
<1> QED  BY <1>4, <1>5, <1>6, <1>7, StreakSteps

(* A member's streak is never longer than the days it was earned on, however   *)
(* completions, rejections, sweeps and midnights interleave (streak.ts).       *)
THEOREM StreaksAreEarned == Spec => []StreakIsEarned
<1>1. Init => StreakIsEarned
  BY DEF Init, StreakIsEarned, ZeroStreak, NoDay
<1> QED  BY <1>1, EarnedStep, ShopTypes, PTL DEF Spec

(* A streak that goes on was last extended by the completion counted last.     *)
LastInv ==
    \A m \in Members : \A i \in LastCounted(m) :
        streak[m].lastActive \in {NoDay, works[i].day}

LEMMA LastStep ==
    ASSUME TypeInv, RowsInv, LastInv, [Next]_vars
    PROVE  LastInv'
<1> DEFINE Pinned(rows, m, i) == /\ i \in DOMAIN rows /\ rows[i].member = m
                                 /\ rows[i].nth > 0 /\ rows[i].pinnedOn
           Last(rows, m, i) == /\ Pinned(rows, m, i)
                               /\ \A j : Pinned(rows, m, j) => rows[j].nth <= rows[i].nth
<1>0. /\ \A m, i : i \in LastCounted(m) <=> Last(works, m, i)
      /\ \A m, i : i \in LastCounted(m)' <=> Last(works', m, i)
  BY DEF LastCounted, Done
<1> SUFFICES ASSUME NEW m \in Members, NEW i, Last(works', m, i)
             PROVE  streak'[m].lastActive \in {NoDay, works'[i].day}
  BY <1>0 DEF LastInv
<1>1. streak[m] \in Streak
  BY DEF TypeInv
<1>2. ASSUME NEW c \in calls, Complete(c), works[c.row].member = m, works[c.row].pinnedOn
      PROVE  streak'[m].lastActive = works'[i].day
  <2>1. streak'[m].lastActive = c.day
    BY <1>2, CompletedStreak
  <2>2. /\ works' = [works EXCEPT ![c.row] = DoneRow(c)] /\ works'[c.row] = DoneRow(c)
        /\ c.row \in DOMAIN works /\ c.row \in DOMAIN works'
    BY <1>2, CountedRows
  <2>3. /\ works'[c.row].nth = Completions + 1 /\ works'[c.row].day = c.day
        /\ works'[c.row].member = m /\ works'[c.row].pinnedOn
    BY <1>2, <2>2, CompleteRow
  <2>4. Completions \in Nat
    BY CompletionsType
  <2>5. Completions + 1 <= works'[i].nth
    BY <2>2, <2>3, <2>4
  <2>6. ASSUME i # c.row PROVE FALSE
    <3>1. i \in DOMAIN works /\ works'[i] = works[i]
      BY <2>2, <2>6 DEF TypeInv
    <3>2. works[i].nth = 0 \/ works[i].nth \in 1 .. Completions
      BY <3>1 DEF RowsInv
    <3> QED  BY <2>4, <2>5, <3>1, <3>2
  <2> QED  BY <2>1, <2>3, <2>6
<1>3. ASSUME ~ \E c \in calls : Complete(c) /\ works[c.row].member = m /\ works[c.row].pinnedOn
      PROVE  Last(works, m, i) /\ works'[i].day = works[i].day
  <2>1. ASSUME NEW j, Pinned(works, m, j)
        PROVE  /\ Pinned(works', m, j) /\ works'[j].nth = works[j].nth
               /\ works'[j].day = works[j].day
    BY <2>1, CountedRows
  <2>2. ASSUME NEW j, Pinned(works', m, j) PROVE Pinned(works, m, j)
    <3>1. CASE j \in DOMAIN works /\ works[j].nth > 0
      BY <2>2, <3>1, CountedRows
    <3>2. ASSUME NEW c \in calls, Complete(c), c.row = j PROVE FALSE
      <4>1. works'[j] = DoneRow(c)
        BY <3>2, CountedRows
      <4>2. works[c.row].member = m /\ works[c.row].pinnedOn
        BY <2>2, <4>1, CompleteRow
      <4> QED  BY <1>3, <3>2, <4>2
    <3> QED  BY <2>2, <3>1, <3>2, CountedRows
  <2> HIDE DEF Pinned
  <2> QED  BY <2>1, <2>2
<1>4. ASSUME ~ \E c \in calls : Complete(c) /\ works[c.row].member = m /\ works[c.row].pinnedOn
      PROVE  streak'[m].lastActive \in {NoDay, streak[m].lastActive}
  <2>1. \A x : ClearBonus(streak[m], x).lastActive = streak[m].lastActive
    BY <1>1 DEF ClearBonus, Streak
  <2> QED  BY <1>4, <2>1, StreakSteps DEF ZeroStreak
<1> HIDE DEF Last
<1>5. Last(works, m, i) => streak[m].lastActive \in {NoDay, works[i].day}
  BY <1>0 DEF LastInv
<1> QED  BY <1>2, <1>3, <1>4, <1>5

(* The sweep never ends the streak of a member who was active on the last day  *)
(* or is active today, although it chose the member before it held the lock    *)
(* (runStreakSweep.ts).                                                        *)
THEOREM SweepAlwaysSparesTheActive == Spec => SweepSparesTheActive
<1>1. Init => LastInv
  BY DEF Init, LastInv, ZeroStreak
<1>2. Spec => [](TypeInv /\ RowsInv /\ LastInv)
  BY <1>1, LastStep, ShopTypes, PTL DEF Spec
<1>3. TypeInv /\ LastInv /\ [Next]_vars =>
         [\A m \in Members : SweepMember(m) /\ streak'[m] # streak[m] =>
             \A i \in LastCounted(m) : sweep.day - works[i].day > 1]_vars
  <2> SUFFICES ASSUME TypeInv, LastInv, NEW m \in Members, SweepMember(m),
                      streak'[m] # streak[m], NEW i \in LastCounted(m)
               PROVE  sweep.day - works[i].day > 1
    OBVIOUS
  <2>1. Breaks(m)
    BY DEF SweepMember
  <2>2. streak[m].lastActive \in {NoDay, works[i].day}
    BY DEF LastInv
  <2> QED  BY <2>1, <2>2 DEF Breaks, Stale
<1> QED  BY <1>2, <1>3, PTL DEF Spec, SweepSparesTheActive
-----------------------------------------------------------------------------
(* A completion spends an effect that exists, of which nothing was left over    *)
(* or spent twice.                                                             *)
ChargesInv ==
    /\ ChargesMatchTheRows
    /\ \A i \in DOMAIN works : works[i].effect \in {NoEffect} \cup DOMAIN effects

Spenders(rows, e) == {i \in DOMAIN rows : rows[i].effect = e}

LEMMA ChargesStep ==
    ASSUME TypeInv, RowsInv, ChargesInv, [Next]_vars
    PROVE  ChargesInv'
<1>0. /\ DOMAIN works \subseteq DOMAIN works' /\ DOMAIN effects \subseteq DOMAIN effects'
      /\ \A i \in DOMAIN works : works[i] \in Work
      /\ \A e \in DOMAIN effects : effects[e] \in Effect /\ e # NoEffect
  <2>1. \A e \in DOMAIN effects : effects[e] \in Effect /\ e # NoEffect
    BY ElementOfSeq DEF TypeInv, NoEffect
  <2> QED  BY <2>1, RowSteps, EffectSteps, ElementOfSeq DEF TypeInv
<1>1. ASSUME NEW c \in calls, Complete(c), SpentBy(c) # NoEffect
      PROVE  /\ SpentBy(c) \in DOMAIN effects
             /\ effects[SpentBy(c)].member = works[c.row].member
             /\ c.day < effects[SpentBy(c)].expires /\ effects[SpentBy(c)].left > 0
             /\ PaidFor(c) = Award * Factor
  <2>1. works[c.row].member \in Members /\ c.day \in Nat
    BY CompleteRow
  <2>2. works[c.row].kind = "VOLUNTARY" /\ SpentBy(c) \in Spendable(works[c.row].member, c.day)
    BY <1>1, <2>1, OldestEffect DEF SpentBy
  <2>3. SpentBy(c) \in DOMAIN effects /\ effects[SpentBy(c)] \in Effect
    BY <1>0, <2>2 DEF Spendable
  <2>4. PaidFor(c) = Award * Factor
    BY <1>1, <2>2 DEF PaidFor, RewardOf
  <2> QED  BY <2>1, <2>2, <2>3, <2>4 DEF Spendable, Effect
<1>2. ASSUME NEW i \in DOMAIN works'
      PROVE  works'[i].effect \in {NoEffect} \cup DOMAIN effects'
  <2>1. CASE works'[i].effect = NoEffect
    BY <2>1
  <2>2. CASE i \in DOMAIN works /\ works[i].nth > 0
    <3>1. works'[i].effect = works[i].effect
      BY <2>2, CountedRows
    <3> QED  BY <1>0, <2>2, <3>1 DEF ChargesInv
  <2>3. ASSUME NEW c \in calls, Complete(c), c.row = i
        PROVE  works'[i].effect \in {NoEffect} \cup DOMAIN effects'
    <3>1. works'[i].effect = SpentBy(c)
      BY <2>3, CountedRows, CompleteRow
    <3> QED  BY <1>0, <1>1, <2>3, <3>1
  <2> QED  BY <2>1, <2>2, <2>3, CountedRows
<1>3. ASSUME NEW e \in DOMAIN effects'
      PROVE  /\ effects'[e].left >= 0
             /\ effects'[e].left + Cardinality(Spenders(works', e)) = Charges
             /\ \A i \in Spenders(works', e) :
                   /\ works'[i].member = effects'[e].member
                   /\ works'[i].day < effects'[e].expires
                   /\ works'[i].paid = Award * Factor
  <2>1. e # NoEffect
    BY EffectSteps DEF NoEffect
  <2>2. ASSUME NEW i \in Spenders(works, e)
        PROVE  /\ i \in Spenders(works', e) /\ works'[i].member = works[i].member
               /\ works'[i].day = works[i].day /\ works'[i].paid = works[i].paid
    <3>1. i \in DOMAIN works /\ works[i].effect = e
      BY <2>2 DEF Spenders
    <3>2. works[i].nth > 0
      BY <2>1, <3>1, CompletionsType DEF RowsInv
    <3> QED  BY <1>0, <3>1, <3>2, CountedRows DEF Spenders
  <2>3. ASSUME NEW i \in Spenders(works', e), i \notin Spenders(works, e)
        PROVE  \E c \in calls : Complete(c) /\ SpentBy(c) = e /\ i = c.row
    <3>1. i \in DOMAIN works' /\ works'[i].effect = e
      BY <2>3 DEF Spenders
    <3>2. ASSUME i \in DOMAIN works, works[i].nth > 0 PROVE FALSE
      BY <2>3, <3>1, <3>2, CountedRows DEF Spenders
    <3>3. PICK c \in calls : Complete(c) /\ c.row = i
      BY <2>1, <3>1, <3>2, CountedRows
    <3>4. works'[i] = DoneRow(c)
      BY <3>3, CountedRows
    <3> QED  BY <3>1, <3>3, <3>4, CompleteRow
  <2>4. IsFiniteSet(Spenders(works, e))
    <3>1. IsFiniteSet(DOMAIN works)
      BY FS_Interval DEF TypeInv
    <3> QED  BY <3>1, FS_Subset DEF Spenders
  <2>5. e \in DOMAIN effects =>
           /\ effects[e].left >= 0 /\ effects[e] \in Effect
           /\ effects[e].left + Cardinality(Spenders(works, e)) = Charges
           /\ \A i \in Spenders(works, e) :
                 /\ works[i].member = effects[e].member
                 /\ works[i].day < effects[e].expires
                 /\ works[i].paid = Award * Factor
    BY <1>0 DEF ChargesInv, ChargesMatchTheRows, Spenders
  <2>6. ASSUME NEW c \in calls, Complete(c), SpentBy(c) = e
        PROVE  /\ effects'[e].left >= 0
               /\ effects'[e].left + Cardinality(Spenders(works', e)) = Charges
               /\ \A i \in Spenders(works', e) :
                     /\ works'[i].member = effects'[e].member
                     /\ works'[i].day < effects'[e].expires
                     /\ works'[i].paid = Award * Factor
    <3>1. e \in DOMAIN effects /\ effects[e] \in Effect
      BY <1>0, <1>1, <2>1, <2>6
    <3>2. EffectSpent(e)
      BY <2>6, EffectSteps
    <3>3. /\ effects'[e].left = effects[e].left - 1
          /\ effects'[e].member = effects[e].member /\ effects'[e].expires = effects[e].expires
      BY <3>1, <3>2 DEF EffectSpent, Effect
    <3>4. c.row \notin Spenders(works, e)
      <4>1. c.row \in DOMAIN works /\ works[c.row].status = "ACTIVE"
        BY CompleteRow
      <4> QED  BY <2>1, <4>1 DEF RowsInv, Spenders
    <3>5. /\ c.row \in Spenders(works', e) /\ works'[c.row].member = works[c.row].member
          /\ works'[c.row].day = c.day /\ works'[c.row].paid = PaidFor(c)
      BY <2>6, CountedRows, CompleteRow DEF Spenders
    <3>6. Spenders(works', e) = Spenders(works, e) \cup {c.row}
      <4>1. \A i \in Spenders(works', e) : i \in Spenders(works, e) \/ i = c.row
        <5>1. \A d \in calls : Complete(d) => d.row = c.row
          <6>1. SUFFICES ASSUME NEW d \in calls, Complete(d), d.row # c.row PROVE FALSE
            OBVIOUS
          <6>2. works'[d.row] = DoneRow(d) /\ works'[d.row] = works[d.row]
            BY <2>6, <6>1, CountedRows DEF TypeInv
          <6> QED  BY <6>1, <6>2, CompleteRow
        <5> QED  BY <2>3, <5>1
      <4>2. \A i \in Spenders(works, e) : i \in Spenders(works', e)
        BY <2>2
      <4> QED  BY <3>5, <4>1, <4>2
    <3>7. Cardinality(Spenders(works', e)) = Cardinality(Spenders(works, e)) + 1
          /\ Cardinality(Spenders(works, e)) \in Nat
      BY <2>4, <3>4, <3>6, FS_AddElement, FS_CardinalityType
    <3>8. effects[e].left \in Int /\ effects[e].left > 0 /\ Charges \in Nat
      BY <1>1, <2>1, <2>6, <3>1, ShopAssumption DEF Effect
    <3>9. /\ effects'[e].left >= 0
          /\ effects'[e].left + Cardinality(Spenders(works', e)) = Charges
      BY <2>5, <3>1, <3>3, <3>7, <3>8
    <3>10. \A i \in Spenders(works', e) :
              /\ works'[i].member = effects'[e].member
              /\ works'[i].day < effects'[e].expires
              /\ works'[i].paid = Award * Factor
      BY <1>1, <2>1, <2>2, <2>5, <2>6, <3>1, <3>3, <3>5, <3>6
    <3> QED  BY <3>9, <3>10
  <2>7. ASSUME ~ \E c \in calls : Complete(c) /\ SpentBy(c) = e
        PROVE  /\ effects'[e].left >= 0
               /\ effects'[e].left + Cardinality(Spenders(works', e)) = Charges
               /\ \A i \in Spenders(works', e) :
                     /\ works'[i].member = effects'[e].member
                     /\ works'[i].day < effects'[e].expires
                     /\ works'[i].paid = Award * Factor
    <3>1. Spenders(works', e) = Spenders(works, e)
      BY <2>2, <2>3, <2>7
    <3>2. CASE EffectKept(e)
      BY <2>2, <2>5, <3>1, <3>2 DEF EffectKept
    <3>3. CASE EffectBought(e)
      <4>1. Spenders(works, e) = {}
        BY <2>1, <3>3 DEF EffectBought, ChargesInv, Spenders
      <4>2. effects'[e].left = Charges /\ Cardinality(Spenders(works', e)) = 0
        BY <3>1, <3>3, <4>1, FS_EmptySet DEF EffectBought
      <4> QED  BY <3>1, <4>1, <4>2, ShopAssumption
    <3> QED  BY <2>7, <3>2, <3>3, EffectSteps DEF EffectSpent
  <2> QED  BY <2>6, <2>7
<1> QED  BY <1>2, <1>3 DEF ChargesInv, ChargesMatchTheRows, Spenders
-----------------------------------------------------------------------------
(* Sums over rows.                                                             *)
LEMMA TotalRuns ==
    ASSUME NEW N \in Nat, NEW d \in [1 .. N -> Int]
    PROVE  \E f \in [0 .. N -> Int] : Runs(f, N, d) /\ Total(d, N) = f[N]
<1> DEFINE Sum(f) == f = [i \in 0 .. N |-> IF i = 0 THEN 0 ELSE f[i - 1] + d[i]]
           sum == CHOOSE f : Sum(f)
<1>1. PICK f \in [0 .. N -> Int] : Runs(f, N, d)
  BY RunningTotal
<1>2. Total(d, N) = sum[N]
  BY DEF Total
<1>3. sum = f
  <2>1. Sum(f)
    BY <1>1 DEF Runs
  <2>2. Sum(sum)
    <3> HIDE DEF Sum
    <3> QED  BY <2>1
  <2>3. Runs(sum, N, d)
    BY <2>2 DEF Runs
  <2> HIDE DEF sum
  <2> QED  BY <1>1, <2>3, RunningSame
<1> HIDE DEF sum
<1> QED  BY <1>1, <1>2, <1>3

LEMMA TotalMoves ==
    ASSUME NEW N \in Nat, NEW d \in [1 .. N -> Int], NEW e \in [1 .. N -> Int],
           NEW b \in 1 .. N, NEW x \in Int, e[b] = d[b] + x,
           \A a \in 1 .. N : a # b => e[a] = d[a]
    PROVE  Total(d, N) \in Int /\ Total(e, N) = Total(d, N) + x
<1>1. PICK f \in [0 .. N -> Int] : Runs(f, N, d) /\ Total(d, N) = f[N]
  BY TotalRuns
<1>2. PICK g \in [0 .. N -> Int] : Runs(g, N, e) /\ Total(e, N) = g[N]
  BY TotalRuns
<1>3. g[N] = f[N] + x
  BY <1>1, <1>2, RunningChange
<1>4. f[N] \in Int
  OBVIOUS
<1> QED  BY <1>1, <1>2, <1>3, <1>4

LEMMA TotalOfNothing ==
    ASSUME NEW N \in Nat, NEW d \in [1 .. N -> Int], \A a \in 1 .. N : d[a] = 0
    PROVE  Total(d, N) = 0
<1>1. PICK f \in [0 .. N -> Int] : Runs(f, N, d) /\ Total(d, N) = f[N]
  BY TotalRuns
<1> DEFINE g == [i \in 0 .. N |-> 0]
<1>2. Runs(g, N, d)
  BY DEF Runs
<1>3. g = f
  <2> HIDE DEF g
  <2> QED  BY <1>1, <1>2, RunningSame
<1> QED  BY <1>1, <1>3

(* What the rows of completions and of sales mean for a member's points.       *)
Earnings(rows, m) ==
    [i \in 1 .. MaxWorks |->
        IF i \in DOMAIN rows /\ rows[i].member = m /\ rows[i].nth > 0
             /\ rows[i].status = "COMPLETED"
        THEN rows[i].paid + rows[i].bonus ELSE 0]
Bills(rows, m) ==
    [i \in 1 .. MaxPurchases |->
        IF i \in DOMAIN rows /\ rows[i].member = m THEN rows[i].cost ELSE 0]

PointsOf(m) ==
    balance[m] = OpeningBalance + Total(Earnings(works, m), MaxWorks)
                                - Total(Bills(redemptions, m), MaxPurchases)

LEMMA PointsAreSums == PointsMatchTheRows <=> \A m \in Members : PointsOf(m)
<1>1. ASSUME NEW m \in Members
      PROVE  /\ Earnings(works, m) = [i \in 1 .. MaxWorks |->
                    IF i \in Stood(m) THEN works[i].paid + works[i].bonus ELSE 0]
             /\ Bills(redemptions, m) = [i \in 1 .. MaxPurchases |->
                    IF i \in Sold(m) THEN redemptions[i].cost ELSE 0]
  BY DEF Earnings, Bills, Stood, Done, Sold
<1> QED  BY <1>1 DEF PointsMatchTheRows, PointsOf

LEMMA AmountTypes ==
    ASSUME TypeInv, NEW m \in Members
    PROVE  /\ Earnings(works, m) \in [1 .. MaxWorks -> Int]
           /\ Bills(redemptions, m) \in [1 .. MaxPurchases -> Int]
           /\ MaxWorks \in Nat /\ MaxPurchases \in Nat
           /\ DOMAIN works \subseteq 1 .. MaxWorks
<1>1. \A i \in DOMAIN works : works[i].paid + works[i].bonus \in Int
  <2>1. \A i \in DOMAIN works : works[i] \in Work
    BY ElementOfSeq DEF TypeInv
  <2> QED  BY <2>1 DEF Work
<1>2. \A i \in DOMAIN redemptions : redemptions[i].cost \in Int
  <2>1. \A i \in DOMAIN redemptions : redemptions[i] \in Sale
    BY ElementOfSeq DEF TypeInv
  <2> QED  BY <2>1 DEF Sale
<1>3. MaxWorks \in Nat /\ MaxPurchases \in Nat /\ DOMAIN works \subseteq 1 .. MaxWorks
  BY ShopAssumption DEF TypeInv
<1> QED  BY <1>1, <1>2, <1>3 DEF Earnings, Bills

(* Rows earn as before unless one is completed or rejected.                    *)
LEMMA EarningsKept ==
    ASSUME TypeInv, RowsInv, [Next]_vars, NEW m \in Members, NEW i \in 1 .. MaxWorks,
           ~RowDone(i), ~RowRejected(i)
    PROVE  Earnings(works', m)[i] = Earnings(works, m)[i]
<1>1. CASE i \in DOMAIN works' /\ RowKept(i)
  BY <1>1 DEF RowKept, Earnings
<1>2. CASE i \in DOMAIN works' /\ RowNew(i)
  BY <1>2 DEF RowNew, NewWork, Earnings
<1>3. CASE i \notin DOMAIN works'
  BY <1>3, RowSteps DEF Earnings
<1> QED  BY <1>1, <1>2, <1>3, RowSteps

LEMMA PointsComplete ==
    ASSUME TypeInv, TypeInv', RowsInv, [Next]_vars, NEW m \in Members, PointsOf(m),
           NEW c \in calls, Complete(c)
    PROVE  PointsOf(m)'
<1> DEFINE w == works[c.row]
           x == PaidFor(c) + BonusFor(c)
<1>1. w.member \in Members /\ x \in Int /\ PaidFor(c) \in Int /\ BonusFor(c) \in Int
  BY CompleteRow
<1>2. balance' = [balance EXCEPT ![w.member] = balance[w.member] + PaidFor(c) + BonusFor(c)]
  BY DEF Complete, PaidFor, BonusFor, SpentBy
<1>3. balance \in [Members -> Int]
  BY DEF TypeInv
<1>4. redemptions' = redemptions
  BY DEF Complete
<1>5. ASSUME NEW i \in 1 .. MaxWorks, i # c.row
      PROVE  Earnings(works', m)[i] = Earnings(works, m)[i]
  <2>1. works'[i] = works[i]
    <3>1. works' = [works EXCEPT ![c.row] = DoneRow(c)]
      BY CountedRows
    <3> QED  BY <1>5, <3>1 DEF TypeInv
  <2>2. ~RowDone(i)
    <3>1. SUFFICES ASSUME NEW e \in calls, Complete(e), e.row = i PROVE FALSE
      BY DEF RowDone
    <3>2. works'[i] = DoneRow(e)
      BY <3>1, CountedRows
    <3> QED  BY <2>1, <3>1, <3>2, CompleteRow
  <2>3. ~RowRejected(i)
    BY DEF RowRejected, Reject, Complete
  <2> QED  BY <2>2, <2>3, EarningsKept
<1>6. /\ c.row \in 1 .. MaxWorks
      /\ w.member = m => Earnings(works', m)[c.row] = Earnings(works, m)[c.row] + x
      /\ w.member # m => Earnings(works', m)[c.row] = Earnings(works, m)[c.row]
  <2>1. /\ works'[c.row] = DoneRow(c) /\ works[c.row].nth = 0
        /\ c.row \in DOMAIN works /\ c.row \in DOMAIN works' /\ c.row \in 1 .. MaxWorks
    BY CountedRows, AmountTypes
  <2>2. Earnings(works, m)[c.row] = 0
    BY <2>1 DEF Earnings
  <2>3. /\ works'[c.row].member = w.member /\ works'[c.row].nth = Completions + 1
        /\ works'[c.row].status = "COMPLETED" /\ works'[c.row].paid = PaidFor(c)
        /\ works'[c.row].bonus = BonusFor(c) /\ Completions \in Nat
    BY <2>1, CompleteRow, CompletionsType
  <2>4. Earnings(works', m)[c.row] = IF w.member = m THEN x ELSE 0
    BY <2>1, <2>3 DEF Earnings
  <2> QED  BY <1>1, <2>1, <2>2, <2>4
<1>7. /\ Earnings(works, m) \in [1 .. MaxWorks -> Int] /\ MaxWorks \in Nat
      /\ Earnings(works', m) \in [1 .. MaxWorks -> Int]
      /\ Total(Bills(redemptions, m), MaxPurchases) \in Int
  <2>1. Earnings(works', m) \in [1 .. MaxWorks -> Int]
    <3>1. \A i \in DOMAIN works' : works'[i] \in Work
      BY ElementOfSeq DEF TypeInv
    <3>2. \A i \in DOMAIN works' : works'[i].paid + works'[i].bonus \in Int
      BY <3>1 DEF Work
    <3> QED  BY <3>2 DEF Earnings
  <2>2. PICK f \in [0 .. MaxPurchases -> Int] :
           Total(Bills(redemptions, m), MaxPurchases) = f[MaxPurchases]
    BY AmountTypes, TotalRuns
  <2> QED  BY <2>1, <2>2, AmountTypes
<1> HIDE DEF x, w
<1>8. CASE w.member = m
  <2>1. /\ Total(Earnings(works, m), MaxWorks) \in Int
        /\ Total(Earnings(works', m), MaxWorks) = Total(Earnings(works, m), MaxWorks) + x
    BY <1>1, <1>5, <1>6, <1>7, <1>8, TotalMoves
  <2>2. balance'[m] = balance[m] + x /\ balance[m] \in Int
    BY <1>1, <1>2, <1>3, <1>8 DEF x
  <2> QED  BY <1>1, <1>4, <1>7, <2>1, <2>2, ShopAssumption DEF PointsOf
<1>9. CASE w.member # m
  <2>1. Earnings(works', m) = Earnings(works, m)
    BY <1>5, <1>6, <1>7, <1>9
  <2>2. balance'[m] = balance[m]
    BY <1>2, <1>3, <1>9
  <2> QED  BY <1>4, <2>1, <2>2 DEF PointsOf
<1> QED  BY <1>8, <1>9

LEMMA PointsReject ==
    ASSUME TypeInv, TypeInv', RowsInv, [Next]_vars, NEW m \in Members, PointsOf(m),
           NEW r \in DOMAIN works, NEW outcome \in {"REASSIGN_TO_MEMBER", "REOFFER_MARKET"},
           Reject(r, outcome)
    PROVE  PointsOf(m)'
<1> DEFINE w == works[r]
           x == w.paid + w.bonus
<1>1. w \in Work /\ w.status = "COMPLETED"
  BY ElementOfSeq DEF TypeInv, Reject
<1>2. w.member \in Members /\ x \in Int /\ w.paid \in Int /\ w.bonus \in Int
  BY <1>1 DEF Work
<1>3. balance' = [balance EXCEPT ![w.member] = balance[w.member] - x]
  BY DEF Reject, Reversal
<1>4. balance \in [Members -> Int] /\ redemptions' = redemptions
  BY DEF TypeInv, Reject
<1>5. /\ works'[r] = [w EXCEPT !.status = "REJECTED"] /\ r \in DOMAIN works'
      /\ \A i \in DOMAIN works : i # r => works'[i] = works[i]
  <2> DEFINE x1 == [w EXCEPT !.status = "REJECTED"]
             closed == [works EXCEPT ![r].status = "REJECTED"]
             new == NewWork(w.member, "VOLUNTARY")
  <2>1. closed = [works EXCEPT ![r] = x1]
    OBVIOUS
  <2>2. works' = closed \/ works' = Append(closed, new)
    BY DEF Reject
  <2>3. x1 \in Work
    BY <1>1, RejectedRow
  <2> HIDE DEF closed, x1, new
  <2>4. /\ closed \in Seq(Work) /\ Len(closed) = Len(works) /\ DOMAIN closed = DOMAIN works
        /\ \A i \in DOMAIN works : closed[i] = IF i = r THEN x1 ELSE works[i]
    BY <2>1, <2>3, ExceptSeq, LenProperties DEF TypeInv
  <2>5. \A i \in DOMAIN works : works'[i] = closed[i] /\ i \in DOMAIN works'
    BY <2>2, <2>4
  <2> QED  BY <2>4, <2>5 DEF x1
<1>6. ASSUME NEW i \in 1 .. MaxWorks, i # r
      PROVE  Earnings(works', m)[i] = Earnings(works, m)[i]
  <2>1. ~RowDone(i)
    BY DEF RowDone, Complete, Reject
  <2>2. ~RowRejected(i)
    <3>1. SUFFICES ASSUME RowRejected(i) PROVE FALSE
      OBVIOUS
    <3>2. works'[i].status = "REJECTED" /\ works[i].status = "COMPLETED"
      <4>1. works[i] \in Work
        BY <3>1, ElementOfSeq DEF RowRejected, TypeInv
      <4> QED  BY <3>1, <4>1, RejectedRow DEF RowRejected
    <3> QED  BY <1>5, <1>6, <3>1, <3>2 DEF RowRejected
  <2> QED  BY <2>1, <2>2, EarningsKept
<1>7. /\ r \in 1 .. MaxWorks
      /\ w.member = m => Earnings(works', m)[r] = Earnings(works, m)[r] + (0 - x)
      /\ w.member # m => Earnings(works', m)[r] = Earnings(works, m)[r]
  <2>1. r \in 1 .. MaxWorks
    BY AmountTypes
  <2>2. w.nth \in 1 .. Completions
    BY <1>1 DEF RowsInv
  <2>3. Earnings(works, m)[r] = IF w.member = m THEN x ELSE 0
    BY <1>1, <2>1, <2>2, CompletionsType DEF Earnings
  <2>4. works'[r].status = "REJECTED"
    BY <1>1, <1>5, RejectedRow
  <2>5. Earnings(works', m)[r] = 0
    BY <1>5, <2>1, <2>4 DEF Earnings
  <2> HIDE DEF x
  <2> QED  BY <1>2, <2>1, <2>3, <2>5
<1>8. /\ Earnings(works, m) \in [1 .. MaxWorks -> Int] /\ MaxWorks \in Nat
      /\ Earnings(works', m) \in [1 .. MaxWorks -> Int]
      /\ Total(Bills(redemptions, m), MaxPurchases) \in Int
  <2>1. Earnings(works', m) \in [1 .. MaxWorks -> Int]
    <3>1. \A i \in DOMAIN works' : works'[i] \in Work
      BY ElementOfSeq DEF TypeInv
    <3>2. \A i \in DOMAIN works' : works'[i].paid + works'[i].bonus \in Int
      BY <3>1 DEF Work
    <3> QED  BY <3>2 DEF Earnings
  <2>2. PICK f \in [0 .. MaxPurchases -> Int] :
           Total(Bills(redemptions, m), MaxPurchases) = f[MaxPurchases]
    BY AmountTypes, TotalRuns
  <2> QED  BY <2>1, <2>2, AmountTypes
<1> HIDE DEF x, w
<1>9. CASE w.member = m
  <2>1. 0 - x \in Int
    BY <1>2
  <2>2. /\ Total(Earnings(works, m), MaxWorks) \in Int
        /\ Total(Earnings(works', m), MaxWorks) = Total(Earnings(works, m), MaxWorks) + (0 - x)
    BY <1>6, <1>7, <1>8, <1>9, <2>1, TotalMoves
  <2>3. balance'[m] = balance[m] - x /\ balance[m] \in Int
    BY <1>2, <1>3, <1>4, <1>9
  <2> QED  BY <1>2, <1>4, <1>8, <2>2, <2>3, ShopAssumption DEF PointsOf
<1>10. CASE w.member # m
  <2>1. Earnings(works', m) = Earnings(works, m)
    BY <1>6, <1>7, <1>8, <1>10
  <2>2. balance'[m] = balance[m]
    BY <1>3, <1>4, <1>10
  <2> QED  BY <1>4, <2>1, <2>2 DEF PointsOf
<1> QED  BY <1>9, <1>10

LEMMA PointsPurchase ==
    ASSUME TypeInv, TypeInv', [Next]_vars, NEW m \in Members, PointsOf(m),
           NEW n \in Members, NEW kind \in Kinds, Purchase(n, kind)
    PROVE  PointsOf(m)'
<1> DEFINE x == offers[kind].cost
           b == Len(redemptions) + 1
           new == [member |-> n, kind |-> kind, cost |-> x,
                   status |-> IF kind = "VIRTUAL_EFFECT" THEN "FULFILLED" ELSE "PENDING"]
<1>1. /\ redemptions' = Append(redemptions, new)
      /\ Len(redemptions) < MaxPurchases /\ works' = works
      /\ balance' = [balance EXCEPT ![n] = balance[n] - x]
  BY DEF Purchase
<1>2. x \in Nat /\ balance \in [Members -> Int] /\ redemptions \in Seq(Sale)
  BY ShopAssumption DEF TypeInv
<1>3. new.member = n /\ new.cost = x /\ new \in Sale
  BY <1>2 DEF Sale
<1> HIDE DEF new
<1>4. /\ b \in 1 .. MaxPurchases /\ b \notin DOMAIN redemptions
      /\ DOMAIN redemptions' = DOMAIN redemptions \cup {b} /\ redemptions'[b] = new
      /\ \A i \in DOMAIN redemptions : redemptions'[i] = redemptions[i]
  BY <1>1, <1>2, <1>3, ShopAssumption
<1> HIDE DEF b, x
<1>5. /\ Bills(redemptions', m)[b] = Bills(redemptions, m)[b] + (IF n = m THEN x ELSE 0)
      /\ \A i \in 1 .. MaxPurchases : i # b =>
            Bills(redemptions', m)[i] = Bills(redemptions, m)[i]
  BY <1>2, <1>3, <1>4 DEF Bills
<1>6. /\ Bills(redemptions, m) \in [1 .. MaxPurchases -> Int] /\ MaxPurchases \in Nat
      /\ Bills(redemptions', m) \in [1 .. MaxPurchases -> Int]
      /\ Total(Earnings(works, m), MaxWorks) \in Int
  <2>1. Bills(redemptions', m) \in [1 .. MaxPurchases -> Int]
    <3>1. \A i \in DOMAIN redemptions' : redemptions'[i] \in Sale
      BY ElementOfSeq DEF TypeInv
    <3>2. \A i \in DOMAIN redemptions' : redemptions'[i].cost \in Int
      BY <3>1 DEF Sale
    <3> QED  BY <3>2 DEF Bills
  <2>2. PICK f \in [0 .. MaxWorks -> Int] :
           Total(Earnings(works, m), MaxWorks) = f[MaxWorks]
    BY AmountTypes, TotalRuns
  <2> QED  BY <2>1, <2>2, AmountTypes
<1>7. (IF n = m THEN x ELSE 0) \in Int
  BY <1>2
<1>8. /\ Total(Bills(redemptions, m), MaxPurchases) \in Int
      /\ Total(Bills(redemptions', m), MaxPurchases)
            = Total(Bills(redemptions, m), MaxPurchases) + (IF n = m THEN x ELSE 0)
  BY <1>4, <1>5, <1>6, <1>7, TotalMoves
<1>9. balance'[m] = balance[m] - (IF n = m THEN x ELSE 0) /\ balance[m] \in Int
  BY <1>1, <1>2
<1> QED  BY <1>1, <1>2, <1>6, <1>8, <1>9, ShopAssumption DEF PointsOf

LEMMA PointsStep ==
    ASSUME TypeInv, TypeInv', RowsInv, [Next]_vars, NEW m \in Members, PointsOf(m)
    PROVE  PointsOf(m)'
<1>1. CASE \/ \E c \in calls : Complete(c)
           \/ \E i \in DOMAIN works, outcome \in {"REASSIGN_TO_MEMBER", "REOFFER_MARKET"} :
                 Reject(i, outcome)
           \/ \E n \in Members, kind \in Kinds : Purchase(n, kind)
  BY <1>1, PointsComplete, PointsReject, PointsPurchase
<1>2. CASE /\ ~ \E c \in calls : Complete(c)
           /\ ~ \E i \in DOMAIN works, outcome \in {"REASSIGN_TO_MEMBER", "REOFFER_MARKET"} :
                   Reject(i, outcome)
           /\ ~ \E n \in Members, kind \in Kinds : Purchase(n, kind)
  <2>1. balance' = balance
    BY <1>2 DEF Next, Fulfil, EditReward, ToggleStreak, Assign, BeginComplete, SweepScan,
                SweepMember, SweepDies, Midnight, vars
  <2>2. Earnings(works', m) = Earnings(works, m)
    <3>1. \A i : ~RowDone(i) /\ ~RowRejected(i)
      BY <1>2 DEF RowDone, RowRejected
    <3>2. \A i \in 1 .. MaxWorks : Earnings(works', m)[i] = Earnings(works, m)[i]
      BY <3>1, EarningsKept
    <3> QED  BY <3>2 DEF Earnings
  <2>3. Bills(redemptions', m) = Bills(redemptions, m)
    <3>1. /\ DOMAIN redemptions' = DOMAIN redemptions
          /\ \A i \in DOMAIN redemptions :
                /\ redemptions'[i].member = redemptions[i].member
                /\ redemptions'[i].cost = redemptions[i].cost
      BY <1>2, SaleSteps
    <3> QED  BY <3>1 DEF Bills
  <2> QED  BY <2>1, <2>2, <2>3 DEF PointsOf
<1> QED  BY <1>1, <1>2

(* Points and charges add up: every balance is the opening balance, what stands *)
(* and what was bought, and every charge of a multiplier is left over or was   *)
(* spent on one completion that it multiplied (completeTask.ts, clawback.ts,   *)
(* purchaseReward.ts).                                                         *)
THEOREM PointsAndChargesAlwaysMatch == Spec => []PointsAndChargesMatch
<1> DEFINE Sums == \A m \in Members : PointsOf(m)
           Inv == TypeInv /\ RowsInv
<1>1. ASSUME Init PROVE Sums /\ ChargesInv
  <2>1. ChargesInv
    BY <1>1 DEF Init, ChargesInv, ChargesMatchTheRows
  <2>2. ASSUME NEW m \in Members PROVE PointsOf(m)
    <3>1. /\ Earnings(works, m) = [i \in 1 .. MaxWorks |-> 0]
          /\ Bills(redemptions, m) = [i \in 1 .. MaxPurchases |-> 0]
      BY <1>1 DEF Init, Earnings, Bills
    <3>2. /\ Total(Earnings(works, m), MaxWorks) = 0
          /\ Total(Bills(redemptions, m), MaxPurchases) = 0
      BY <3>1, TotalOfNothing, ShopAssumption
    <3> QED  BY <1>1, <2>2, <3>2, ShopAssumption DEF Init, PointsOf
  <2> QED  BY <2>1, <2>2
<1>2. Inv /\ Sums /\ [Next]_vars => Sums'
  <2> SUFFICES ASSUME Inv, Sums, [Next]_vars, NEW m \in Members PROVE PointsOf(m)'
    OBVIOUS
  <2> QED  BY TypeStep, PointsStep
<1>3. Inv /\ ChargesInv /\ [Next]_vars => ChargesInv'
  BY ChargesStep
<1>4. Sums /\ ChargesInv => PointsAndChargesMatch
  BY PointsAreSums DEF PointsAndChargesMatch, ChargesInv
<1>5. Spec => []Inv
  BY ShopTypes
<1> HIDE DEF Sums, Inv
<1> QED  BY <1>1, <1>2, <1>3, <1>4, <1>5, PTL DEF Spec
=============================================================================
