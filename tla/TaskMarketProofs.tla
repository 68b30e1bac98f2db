-------------------------- MODULE TaskMarketProofs --------------------------
(* Theorems about TaskMarket, for every household, every number of workers and *)
(* every value of the settings MarketAssumption allows: rows and their points, *)
(* the team of an occurrence and its status, deadlines, what the pages of      *)
(* TaskViews show, the promise of SoloTask, and the points as a whole.         *)
EXTENDS TaskViews, RunningTotals, FunctionTheorems, FiniteSetTheorems

(* The rows of an occurrence are finitely many, so they can be counted.        *)
LEMMA ActiveCount ==
    ASSUME TypeOK, NEW i \in Instances
    PROVE  /\ IsFiniteSet(Active(i)) /\ Cardinality(Active(i)) \in Nat
           /\ \A a \in Active(i) : Cardinality(Active(i)) - 1 \in Nat
<1>1. IsFiniteSet(Active(i))
  <2>1. IsFiniteSet(Assignments)
    BY MarketAssumption, FS_Interval DEF Assignments
  <2>2. Active(i) \subseteq Assignments
    BY DEF Active, RowsIn
  <2> QED  BY <2>1, <2>2, FS_Subset
<1>2. Cardinality(Active(i)) \in Nat
  BY <1>1, FS_CardinalityType
<1>3. ASSUME NEW a \in Active(i) PROVE Cardinality(Active(i)) - 1 \in Nat
  <2>1. Cardinality(Active(i)) # 0
    BY <1>1, <1>3, FS_EmptySet
  <2> QED  BY <1>2, <2>1
<1> QED  BY <1>1, <1>2, <1>3

(* Every amount the market computes is a number of points.                     *)
LEMMA Amounts ==
    ASSUME TypeOK
    PROVE  /\ \A a \in Assignments : Reversible(a) \in Nat
           /\ \A v \in Nat : /\ BuyoutCost(v) \in Nat /\ IncreasedValue(v) \in Nat
                             /\ ResetValue(v) \in Nat /\ CarriedAfter(v) \in Nat \cup {None}
           /\ StartValue \in Nat
           /\ \A i \in Instances, m \in Members : PenaltyOf(i, m) \in Nat
<1>1. \A a \in Assignments : Reversible(a) \in Nat
  BY DEF TypeOK, Reversible, Entry
<1>2. \A v \in Nat : /\ BuyoutCost(v) \in Nat /\ IncreasedValue(v) \in Nat
                     /\ ResetValue(v) \in Nat /\ CarriedAfter(v) \in Nat \cup {None}
  BY MarketAssumption DEF BuyoutCost, IncreasedValue, ResetValue, CarriedAfter
<1>3. StartValue \in Nat
  BY MarketAssumption DEF TypeOK, StartValue
<1>4. \A i \in Instances, m \in Members : PenaltyOf(i, m) \in Nat
  BY MarketAssumption DEF TypeOK, PenaltyOf
<1> QED  BY <1>1, <1>2, <1>3, <1>4

(* A reward is a number of points, whatever the rule, the value and the        *)
(* multiplier; PaidOut is what completing a row posts.                         *)
PaidOut(a) ==
    LET award == RewardDue(a, "ON_COMPLETE")
    IN  IF SpendsCharge(asg[a].member, award) THEN Multiplied(award) ELSE award

LEMMA RoundedType ==
    ASSUME NEW n \in Nat, NEW rounding
    PROVE  Rounded(n, rounding) \in Nat
BY DEF Rounded

LEMMA RewardTypes ==
    ASSUME TypeOK
    PROVE  /\ CurrentRule \in Rule /\ \A a \in Assignments : Pinned(a) \in Rule
           /\ \A rule \in Rule, v \in Nat, moment \in Timings :
                 VoluntaryReward(rule, v, moment) \in Nat
           /\ \A n \in Nat : Multiplied(n) \in Nat
           /\ \A i \in Instances : VoluntaryReward(CurrentRule, value[i], "ON_ACCEPT") \in Nat
           /\ \A a \in Assignments : asg[a] \in Row =>
                 RewardDue(a, "ON_COMPLETE") \in Nat /\ PaidOut(a) \in Nat
<1>1. \A k \in DOMAIN RewardRules : RewardRules[k] \in Rule
  BY MarketAssumption
<1>2. 1 \in DOMAIN RewardRules
  BY MarketAssumption
<1>3. CurrentRule \in Rule
  BY <1>1 DEF CurrentRule, TypeOK
<1>4. ASSUME NEW a \in Assignments PROVE Pinned(a) \in Rule
  <2>1. asg[a].configVersion \in DOMAIN RewardRules
    BY <1>2 DEF TypeOK, Row, NoRow
  <2> QED  BY <1>1, <2>1 DEF Pinned
<1>5. ASSUME NEW rule \in Rule, NEW v \in Nat, NEW moment \in Timings
      PROVE  VoluntaryReward(rule, v, moment) \in Nat
  <2>1. v * rule.multiplier \in Nat
    BY DEF Rule
  <2> QED  BY <2>1, RoundedType DEF VoluntaryReward
<1>6. ASSUME NEW n \in Nat PROVE Multiplied(n) \in Nat
  <2>1. n * EffectMultiplier \in Nat
    BY MarketAssumption
  <2> QED  BY <2>1, RoundedType DEF Multiplied
<1>7. ASSUME NEW i \in Instances
      PROVE  VoluntaryReward(CurrentRule, value[i], "ON_ACCEPT") \in Nat
  BY <1>3, <1>5 DEF TypeOK, Timings
<1>8. ASSUME NEW a \in Assignments, asg[a] \in Row
      PROVE  RewardDue(a, "ON_COMPLETE") \in Nat /\ PaidOut(a) \in Nat
  <2>1. value[asg[a].inst] \in Nat
    BY <1>8 DEF Row, TypeOK
  <2>2. RewardDue(a, "ON_COMPLETE") \in Nat
    BY <1>4, <1>5, <2>1 DEF RewardDue, Timings
  <2> QED  BY <1>6, <2>2 DEF PaidOut
<1> QED  BY <1>3, <1>4, <1>5, <1>6, <1>7, <1>8

(* A posting changes the points it concerns and keeps their types.             *)
LEMMA DebitType ==
    ASSUME TypeOK, NEW m, NEW n \in Int, Debit(m, n)
    PROVE  balance' \in [Members -> Int]
<1>1. balance \in [Members -> Int] /\ balance' = [balance EXCEPT ![m] = balance[m] - n]
  BY DEF TypeOK, Debit
<1>2. CASE m \in Members
  BY <1>1, <1>2
<1>3. CASE m \notin Members
  BY <1>1, <1>3
<1> QED  BY <1>2, <1>3

LEMMA PostRewardTypes ==
    ASSUME TypeOK, NEW a \in Assignments, NEW m, NEW n \in Nat, PostReward(a, m, n)
    PROVE  ledger' \in [Assignments -> Entry] /\ balance' \in [Members -> Int]
<1>1. CASE ledger[a].reward # 0 \/ n = 0
  BY <1>1 DEF PostReward, TypeOK
<1>2. CASE ~(ledger[a].reward # 0 \/ n = 0)
  <2>1. ledger' = [ledger EXCEPT ![a].reward = n] /\ Debit(m, -n)
    BY <1>2 DEF PostReward
  <2>2. ledger' \in [Assignments -> Entry]
    BY <2>1 DEF TypeOK, Entry
  <2> QED  BY <2>1, <2>2, DebitType
<1> QED  BY <1>1, <1>2

LEMMA ClawbackTypes ==
    ASSUME TypeOK, NEW a \in Assignments, Clawback(a) \/ ClawbackIfPaidOnAccept(a)
    PROVE  ledger' \in [Assignments -> Entry] /\ balance' \in [Members -> Int]
<1>1. CASE Clawback(a)
  <2>1. Reversible(a) \in Nat
    BY Amounts
  <2>2. ledger' = [ledger EXCEPT ![a].clawback = @ + Reversible(a)]
    BY <1>1 DEF Clawback
  <2>3. ledger' \in [Assignments -> Entry]
    BY <2>1, <2>2 DEF TypeOK, Entry
  <2>4. Debit(asg[a].member, Reversible(a))
    BY <1>1 DEF Clawback
  <2> QED  BY <2>1, <2>3, <2>4, DebitType
<1>2. CASE UNCHANGED <<ledger, balance>>
  BY <1>2 DEF TypeOK
<1> QED  BY <1>1, <1>2 DEF ClawbackIfPaidOnAccept

(* A return keeps the types: it is made by a holder, so the count stays above 0. *)
LEMMA LeaveTypes ==
    ASSUME TypeOK, NEW i \in Instances, NEW a \in Active(i), NEW e, Leave(i, e)
    PROVE  /\ status' \in [Instances -> Statuses \cup {"NONE"}]
           /\ slotCount' \in [Instances -> Nat]
<1>1. Cardinality(Active(i)) - 1 \in Nat
  BY ActiveCount
<1> QED  BY <1>1 DEF TypeOK, Leave, Move, SetStatus, Statuses

(* Rows in use name a member and an occurrence; closing one keeps that.        *)
LEMMA RowTypes ==
    ASSUME TypeOK
    PROVE  /\ \A a \in Assignments : asg[a].status # "NONE" => asg[a] \in Row
           /\ \A i \in Instances, m \in Members, o \in Origins, s \in Slots :
                 NewRow(i, m, o, s) \in Row
           /\ \A rows \in SUBSET Used, s \in RowStatuses : CloseAll(rows, s)
                 => asg' \in [Assignments -> Row \cup {NoRow}]
           /\ \A a \in Used, s \in RowStatuses : Close(a, s) =>
                 asg' \in [Assignments -> Row \cup {NoRow}]
           /\ \A i \in Instances : Active(i) \in SUBSET Used /\ Expiring(i) \in SUBSET Used
           /\ \A i \in Instances, s \in RowStatuses : \A a \in RowsIn(i, s) :
                 a \in Used /\ asg[a] \in Row /\ asg[a].inst = i /\ asg[a].status = s
<1>1. ASSUME NEW a \in Assignments, asg[a].status # "NONE" PROVE asg[a] \in Row
  BY <1>1 DEF TypeOK, NoRow
<1>2. ASSUME NEW i \in Instances, NEW m \in Members, NEW o \in Origins, NEW s \in Slots
      PROVE  NewRow(i, m, o, s) \in Row
  BY DEF TypeOK, NewRow, Row, RowStatuses
<1>3. ASSUME NEW a \in Used, NEW s \in RowStatuses
      PROVE  [asg[a] EXCEPT !.status = s] \in Row
  BY <1>1 DEF Used, Row
<1>4. ASSUME NEW rows \in SUBSET Used, NEW s \in RowStatuses, CloseAll(rows, s)
      PROVE  asg' \in [Assignments -> Row \cup {NoRow}]
  BY <1>3, <1>4 DEF CloseAll, TypeOK
<1>5. ASSUME NEW a \in Used, NEW s \in RowStatuses, Close(a, s)
      PROVE  asg' \in [Assignments -> Row \cup {NoRow}]
  <2>1. asg' = [b \in Assignments |-> IF b = a THEN [asg[b] EXCEPT !.status = s] ELSE asg[b]]
    BY <1>5 DEF Close, TypeOK
  <2> QED  BY <1>3, <2>1 DEF TypeOK
<1>6. ASSUME NEW i \in Instances, NEW s \in RowStatuses, NEW a \in RowsIn(i, s)
      PROVE  a \in Used /\ asg[a] \in Row /\ asg[a].inst = i /\ asg[a].status = s
  BY <1>1 DEF RowsIn, Used, RowStatuses
<1>7. ASSUME NEW i \in Instances
      PROVE  Active(i) \in SUBSET Used /\ Expiring(i) \in SUBSET Used
  BY <1>6 DEF Active, Expiring, RowStatuses
<1> QED  BY <1>1, <1>2, <1>4, <1>5, <1>6, <1>7

(* Every step of the market keeps the types.                                   *)
LEMMA TypeInit == Init => TypeOK
BY MarketAssumption DEF Init, TypeOK, NoEntry, Entry, NoRow, Row, Slots, Origins, Requests

LEMMA TypeCreation ==
    ASSUME TypeOK
    PROVE  /\ \A r \in Requests : ReadDefinition(r) => TypeOK'
           /\ \A i \in Instances : MaterializeDue(i) => TypeOK'
           /\ \A i \in Instances, r \in Requests : AdminMaterialize(i, r) => TypeOK'
           /\ SkipDue \/ SaveConfig => TypeOK'
           /\ \A m \in Members : BuyMultiplier(m) \/ EffectExpires(m) => TypeOK'
<1> USE DEF instanceVars, rowVars, shopVars
<1>1. ASSUME NEW r \in Requests, ReadDefinition(r) PROVE TypeOK'
  BY <1>1, Amounts DEF ReadDefinition, TypeOK
<1>2. ASSUME NEW i \in Instances, NEW r \in Requests, NEW s \in {"AVAILABLE", "DRAFT"},
             offer[r] # None, Create(i, r, s)
      PROVE  TypeOK'
  BY <1>2 DEF Create, SetStatus, Statuses, TypeOK
<1>3. ASSUME NEW i \in Instances, MaterializeDue(i) PROVE TypeOK'
  BY <1>2, <1>3 DEF MaterializeDue, Requests
<1>4. ASSUME NEW i \in Instances, NEW r \in Requests, AdminMaterialize(i, r) PROVE TypeOK'
  BY <1>2, <1>4 DEF AdminMaterialize
<1>5. ASSUME SkipDue PROVE TypeOK'
  BY <1>5 DEF SkipDue, TypeOK
<1>6. ASSUME SaveConfig PROVE TypeOK'
  <2>1. version + 1 \in DOMAIN RewardRules
    BY <1>6, MarketAssumption DEF SaveConfig, TypeOK
  <2> QED  BY <1>6, <2>1 DEF SaveConfig, TypeOK
<1>7. ASSUME NEW m \in Members, BuyMultiplier(m) PROVE TypeOK'
  <2>1. /\ charges' = [charges EXCEPT ![m] = charges[m] + EffectCharges]
        /\ spent' = [spent EXCEPT ![m] = spent[m] + EffectCost]
    BY <1>7 DEF BuyMultiplier
  <2>2. charges' \in [Members -> Nat] /\ spent' \in [Members -> Nat]
    BY <2>1, MarketAssumption DEF TypeOK
  <2>3. balance' \in [Members -> Int]
    BY <1>7, DebitType, MarketAssumption DEF BuyMultiplier
  <2> QED  BY <1>7, <2>2, <2>3 DEF BuyMultiplier, TypeOK
<1>8. ASSUME NEW m \in Members, EffectExpires(m) PROVE TypeOK'
  <2>1. PICK left \in 0 .. charges[m] - 1 : charges' = [charges EXCEPT ![m] = left]
    BY <1>8 DEF EffectExpires
  <2>2. charges' \in [Members -> Nat]
    BY <2>1 DEF TypeOK
  <2> QED  BY <1>8, <2>2 DEF EffectExpires, TypeOK
<1> QED  BY <1>1, <1>3, <1>4, <1>5, <1>6, <1>7, <1>8

LEMMA TypeMoves ==
    ASSUME TypeOK, NEW i \in Instances,
           Publish(i) \/ Pause(i) \/ Resume(i) \/ Grow(i)
    PROVE  TypeOK'
<1>1. CASE Publish(i) \/ Pause(i) \/ Resume(i)
  BY <1>1 DEF Publish, Pause, Resume, InstanceAction, SetStatus, Statuses, rowVars, shopVars,
                 TypeOK
<1>2. CASE Grow(i)
  <2>1. \A v \in Nat : (IF v + GrowthStep > ValueCap THEN ValueCap ELSE v + GrowthStep) \in Nat
    BY MarketAssumption
  <2> QED  BY <1>2, <2>1 DEF Grow, rowVars, shopVars, TypeOK
<1> QED  BY <1>1, <1>2

LEMMA TypeVolunteer ==
    ASSUME TypeOK, NEW i \in Instances, NEW m \in Members, Volunteer(i, m)
    PROVE  TypeOK'
<1> DEFINE count == Cardinality(Active(i)) + 1
           paid == VoluntaryReward(CurrentRule, value[i], "ON_ACCEPT")
<1>1. count \in Nat /\ paid \in Nat
  BY ActiveCount, RewardTypes
<1>2. PICK a \in Assignments, s \in Slots :
         /\ asg' = [asg EXCEPT ![a] = NewRow(i, m, "VOLUNTEERED", s)]
         /\ PostReward(a, m, paid)
  BY DEF Volunteer
<1>3. asg' \in [Assignments -> Row \cup {NoRow}]
  BY <1>2, RowTypes DEF TypeOK, Origins
<1>4. ledger' \in [Assignments -> Entry] /\ balance' \in [Members -> Int]
  BY <1>1, <1>2, PostRewardTypes
<1>5. status' \in [Instances -> Statuses \cup {"NONE"}]
  BY DEF Volunteer, Move, SetStatus, TypeOK, Statuses
<1>6. slotCount' = [slotCount EXCEPT ![i] = count]
  BY DEF Volunteer
<1>7. UNCHANGED <<value, penalised, carried, version, offer, charges, spent>>
  BY DEF Volunteer, shopVars
<1> QED  BY <1>1, <1>3, <1>4, <1>5, <1>6, <1>7 DEF TypeOK

(* What a draw does to the rows: it fills unused ones, with members who hold no *)
(* slot yet and slots that are free, and never two with the same.              *)
LEMMA DrawRows ==
    ASSUME TypeOK, NEW i \in Instances, Draw(i)
    PROVE  /\ asg' = [a \in Assignments |-> asg'[a]]
           /\ \A a \in Assignments : asg'[a] # asg[a] =>
                 /\ a \notin Used
                 /\ \E m \in Members \ Holders(i), s \in Slots \ Occupied(i) :
                       asg'[a] = NewRow(i, m, "RANDOMLY_ASSIGNED", s)
           /\ \A a, b \in Assignments :
                 a # b /\ asg'[a] # asg[a] /\ asg'[b] # asg[b] =>
                    asg'[a].member # asg'[b].member /\ asg'[a].slot # asg'[b].slot
           /\ status[i] = "AVAILABLE"
           /\ \/ SetStatus(i, "ASSIGNED")
              \/ UNCHANGED status
           /\ slotCount' \in [Instances -> Nat]
           /\ UNCHANGED <<value, penalised, carried, ledger, balance, version, offer, shopVars>>
<1> DEFINE count == Cardinality(Active(i))
<1>1. count \in Nat
  BY ActiveCount
<1>2. PICK eligible \in SUBSET (Members \ Holders(i)) : DrawFrom(i, eligible)
  BY DEF Draw
<1>3. PICK n \in 0 .. (MinRequired - count) : \E pick \in Picks(i, n, eligible) :
       \E row \in InOrder(n, 1, Used, Assignments), slot \in InOrder(n, 0, Occupied(i), Slots) :
         /\ asg' = [a \in Assignments |->
                      IF \E k \in 1 .. n : row[k] = a
                      THEN LET k == CHOOSE k \in 1 .. n : row[k] = a
                           IN  NewRow(i, pick[k], "RANDOMLY_ASSIGNED", slot[k])
                      ELSE asg[a]]
         /\ IF count + n = MinRequired THEN SetStatus(i, "ASSIGNED") ELSE UNCHANGED status
         /\ slotCount' = IF n = 0 THEN slotCount ELSE [slotCount EXCEPT ![i] = count + n]
  BY <1>2 DEF DrawFrom
<1>4. PICK pick \in Picks(i, n, eligible), row \in InOrder(n, 1, Used, Assignments),
           slot \in InOrder(n, 0, Occupied(i), Slots) :
         /\ asg' = [a \in Assignments |->
                      IF \E k \in 1 .. n : row[k] = a
                      THEN LET k == CHOOSE k \in 1 .. n : row[k] = a
                           IN  NewRow(i, pick[k], "RANDOMLY_ASSIGNED", slot[k])
                      ELSE asg[a]]
         /\ IF count + n = MinRequired THEN SetStatus(i, "ASSIGNED") ELSE UNCHANGED status
         /\ slotCount' = IF n = 0 THEN slotCount ELSE [slotCount EXCEPT ![i] = count + n]
  BY <1>3
<1>5. n \in Nat
  BY <1>1, MarketAssumption DEF MinRequired
<1>6. /\ pick \in [1 .. n -> Members \ Holders(i)]
      /\ \A j, k \in 1 .. n : j # k => pick[j] # pick[k]
  BY DEF Picks
<1>7. /\ slot \in [1 .. n -> Slots \ Occupied(i)] /\ row \in [1 .. n -> Assignments \ Used]
      /\ \A k \in 1 .. n : slot[k] \notin {slot[j] : j \in 1 .. (k - 1)}
  BY DEF InOrder, Lowest
<1>8. \A j, k \in 1 .. n : j # k => slot[j] # slot[k]
  <2>1. \A j, k \in 1 .. n : j < k => slot[j] # slot[k]
    BY <1>5, <1>7
  <2>2. \A j, k \in 1 .. n : j # k => j < k \/ k < j
    BY <1>5
  <2> QED  BY <2>1, <2>2
<1>9. ASSUME NEW a \in Assignments, asg'[a] # asg[a]
      PROVE  \E k \in 1 .. n : /\ row[k] = a
                              /\ asg'[a] = NewRow(i, pick[k], "RANDOMLY_ASSIGNED", slot[k])
  <2>1. \E k \in 1 .. n : row[k] = a
    BY <1>4, <1>9
  <2> DEFINE c == CHOOSE k \in 1 .. n : row[k] = a
  <2>2. c \in 1 .. n /\ row[c] = a
    BY <2>1
  <2>3. asg'[a] = NewRow(i, pick[c], "RANDOMLY_ASSIGNED", slot[c])
    BY <1>4, <2>1
  <2> QED  BY <2>2, <2>3
<1>10. ASSUME NEW a \in Assignments, asg'[a] # asg[a]
       PROVE  /\ a \notin Used
              /\ \E m \in Members \ Holders(i), s \in Slots \ Occupied(i) :
                    asg'[a] = NewRow(i, m, "RANDOMLY_ASSIGNED", s)
  BY <1>6, <1>7, <1>9, <1>10
<1>11. ASSUME NEW a \in Assignments, NEW b \in Assignments, a # b,
              asg'[a] # asg[a], asg'[b] # asg[b]
       PROVE  asg'[a].member # asg'[b].member /\ asg'[a].slot # asg'[b].slot
  <2>1. PICK j \in 1 .. n : row[j] = a /\ asg'[a] = NewRow(i, pick[j], "RANDOMLY_ASSIGNED", slot[j])
    BY <1>9, <1>11
  <2>2. PICK k \in 1 .. n : row[k] = b /\ asg'[b] = NewRow(i, pick[k], "RANDOMLY_ASSIGNED", slot[k])
    BY <1>9, <1>11
  <2>3. j # k
    BY <1>11, <2>1, <2>2
  <2>4. /\ asg'[a].member = pick[j] /\ asg'[a].slot = slot[j]
        /\ asg'[b].member = pick[k] /\ asg'[b].slot = slot[k]
    BY <2>1, <2>2 DEF NewRow
  <2> QED  BY <1>6, <1>8, <2>3, <2>4
<1>12. slotCount' \in [Instances -> Nat]
  BY <1>1, <1>4, <1>5 DEF TypeOK
<1>13. /\ status[i] = "AVAILABLE"
       /\ UNCHANGED <<value, penalised, carried, ledger, balance, version, offer, shopVars>>
  BY <1>2 DEF DrawFrom, MayDraw
<1>14. /\ asg' = [a \in Assignments |-> asg'[a]]
       /\ SetStatus(i, "ASSIGNED") \/ UNCHANGED status
  BY <1>4
<1> QED  BY <1>10, <1>11, <1>12, <1>13, <1>14

LEMMA TypeDraw ==
    ASSUME TypeOK, NEW i \in Instances, Draw(i)
    PROVE  TypeOK'
<1>1. asg' \in [Assignments -> Row \cup {NoRow}]
  <2>1. ASSUME NEW a \in Assignments PROVE asg'[a] \in Row \cup {NoRow}
    <3>1. CASE asg'[a] = asg[a]
      BY <3>1 DEF TypeOK
    <3>2. CASE asg'[a] # asg[a]
      BY <3>2, DrawRows, RowTypes DEF Origins
    <3> QED  BY <3>1, <3>2
  <2> QED  BY <2>1, DrawRows
<1>2. status' \in [Instances -> Statuses \cup {"NONE"}]
  BY DrawRows DEF SetStatus, TypeOK, Statuses
<1> QED  BY <1>1, <1>2, DrawRows DEF TypeOK, shopVars

LEMMA TypeComplete ==
    ASSUME TypeOK, NEW i \in Instances, NEW a \in Assignments, Complete(i, a)
    PROVE  TypeOK'
<1>1. a \in Active(i) /\ Cardinality(Active(i)) - 1 \in Nat
  BY ActiveCount DEF Complete
<1>2. asg' \in [Assignments -> Row \cup {NoRow}]
  BY RowTypes DEF Complete, RowStatuses
<1>3. PaidOut(a) \in Nat /\ asg[a].member \in Members
  <2>1. asg[a] \in Row
    BY <1>1, RowTypes DEF Active, RowsIn
  <2> QED  BY <2>1, RewardTypes DEF Row
<1>4. ledger' \in [Assignments -> Entry] /\ balance' \in [Members -> Int]
  <2>1. PostReward(a, asg[a].member, PaidOut(a))
    BY DEF Complete, PaidOut
  <2> QED  BY <1>3, <2>1, PostRewardTypes
<1>5. value[i] \in Nat /\ ResetValue(value[i]) \in Nat /\ CarriedAfter(value[i]) \in Nat \cup {None}
  BY Amounts DEF TypeOK
<1>6. /\ status' \in [Instances -> Statuses \cup {"NONE"}]
      /\ value' \in [Instances -> Nat] /\ slotCount' \in [Instances -> Nat]
      /\ carried' \in Nat \cup {None}
  BY <1>1, <1>5 DEF Complete, Move, SetStatus, TypeOK, Statuses
<1>7. UNCHANGED <<penalised, version, offer, spent>>
  BY DEF Complete
<1>8. charges' \in [Members -> Nat]
  <2>1. \A m \in Members : charges[m] > 0 => charges[m] - 1 \in Nat
    BY DEF TypeOK
  <2>2. \/ charges' = charges
        \/ /\ charges[asg[a].member] > 0
           /\ charges' = [charges EXCEPT ![asg[a].member] = charges[asg[a].member] - 1]
    BY DEF Complete, SpendsCharge
  <2> QED  BY <1>3, <2>1, <2>2 DEF TypeOK
<1> QED  BY <1>2, <1>4, <1>6, <1>7, <1>8 DEF TypeOK

LEMMA TypeBuyout ==
    ASSUME TypeOK, NEW i \in Instances, NEW a \in Assignments, Buyout(i, a)
    PROVE  TypeOK'
<1>1. /\ status' \in [Instances -> Statuses \cup {"NONE"}]
      /\ slotCount' \in [Instances -> Nat]
  BY LeaveTypes DEF Buyout
<1>2. asg' \in [Assignments -> Row \cup {NoRow}]
  BY RowTypes DEF Buyout, RowStatuses
<1>3. BuyoutCost(value[i]) \in Nat /\ IncreasedValue(value[i]) \in Nat
  BY Amounts DEF TypeOK
<1>4. balance' \in [Members -> Int]
  BY <1>3, DebitType DEF Buyout
<1>5. ledger' \in [Assignments -> Entry]
  BY <1>3 DEF Buyout, TypeOK, Entry
<1>6. value' \in [Instances -> Nat]
  BY <1>3 DEF Buyout, TypeOK
<1>7. UNCHANGED <<penalised, carried, version, offer, charges, spent>>
  BY DEF Buyout, shopVars
<1> QED  BY <1>1, <1>2, <1>4, <1>5, <1>6, <1>7 DEF TypeOK

LEMMA TypeGiveBack ==
    ASSUME TypeOK, NEW i \in Instances, NEW a \in Assignments, NEW e,
           NEW s \in {"RELEASED", "REVOKED"}, GiveBack(i, a, e, s)
    PROVE  TypeOK'
<1>1. /\ status' \in [Instances -> Statuses \cup {"NONE"}]
      /\ slotCount' \in [Instances -> Nat]
  BY LeaveTypes DEF GiveBack
<1>2. asg' \in [Assignments -> Row \cup {NoRow}]
  BY RowTypes DEF GiveBack, RowStatuses
<1>3. ledger' \in [Assignments -> Entry] /\ balance' \in [Members -> Int]
  BY ClawbackTypes DEF GiveBack
<1>4. UNCHANGED <<value, penalised, carried, version, offer, charges, spent>>
  BY DEF GiveBack, shopVars
<1> QED  BY <1>1, <1>2, <1>3, <1>4 DEF TypeOK

LEMMA TypeReject ==
    ASSUME TypeOK, NEW i \in Instances, NEW a \in Assignments,
           RejectReassign(i, a) \/ RejectReoffer(i, a)
    PROVE  TypeOK'
<1>1. status' \in [Instances -> Statuses \cup {"NONE"}]
  BY DEF RejectReassign, RejectReoffer, Move, SetStatus, TypeOK, Statuses
<1>2. ledger' \in [Assignments -> Entry] /\ balance' \in [Members -> Int]
  BY ClawbackTypes DEF RejectReassign, RejectReoffer
<1>3. asg' \in [Assignments -> Row \cup {NoRow}]
  <2>1. CASE RejectReoffer(i, a)
    BY <2>1, RowTypes DEF RejectReoffer, RowStatuses
  <2>2. CASE RejectReassign(i, a)
    <3>1. PICK b \in Assignments :
             asg' = [asg EXCEPT
                       ![a].status = "REJECTED",
                       ![b] = NewRow(i, asg[a].member, "REOPENED_TO_ASSIGNEE", asg[a].slot)]
      BY <2>2 DEF RejectReassign
    <3>2. a \in Used /\ asg[a] \in Row /\ asg[a].member \in Members /\ asg[a].slot \in Slots
      BY <2>2, RowTypes DEF RejectReassign, Row, RowStatuses
    <3>3. NewRow(i, asg[a].member, "REOPENED_TO_ASSIGNEE", asg[a].slot) \in Row
      BY <3>2, RowTypes DEF Origins
    <3>4. [asg[a] EXCEPT !.status = "REJECTED"] \in Row
      BY <3>2 DEF Row, RowStatuses
    <3> QED  BY <3>1, <3>3, <3>4 DEF TypeOK
  <2> QED  BY <2>1, <2>2
<1>4. UNCHANGED <<value, slotCount, penalised, carried, version, offer, charges, spent>>
  BY DEF RejectReassign, RejectReoffer, shopVars
<1> QED  BY <1>1, <1>2, <1>3, <1>4 DEF TypeOK

LEMMA ChargeType ==
    ASSUME NEW m, NEW rows \in SUBSET Assignments, NEW amount \in [Assignments -> Nat]
    PROVE  ChargeOf(m, rows, amount) \in Nat
BY DEF ChargeOf

LEMMA EndTypes ==
    ASSUME TypeOK, NEW i \in Instances, NEW s \in Statuses, End(i, s)
    PROVE  /\ status' \in [Instances -> Statuses \cup {"NONE"}]
           /\ value' \in [Instances -> Nat] /\ slotCount' \in [Instances -> Nat]
           /\ carried' \in Nat \cup {None}
           /\ UNCHANGED <<penalised, version, offer, charges, spent>>
BY MarketAssumption DEF End, SetStatus, TypeOK, shopVars

LEMMA TypeCancel ==
    ASSUME TypeOK, NEW i \in Instances, Cancel(i)
    PROVE  TypeOK'
<1> DEFINE undo == [a \in Assignments |->
                      IF Pinned(a).timing = "ON_ACCEPT" THEN Reversible(a) ELSE 0]
<1>1. undo \in [Assignments -> Nat]
  BY Amounts
<1>2. /\ CloseAll(Active(i), "REVOKED")
      /\ ledger' = [a \in Assignments |->
                      IF a \in Active(i) THEN [ledger[a] EXCEPT !.clawback = @ + undo[a]]
                      ELSE ledger[a]]
      /\ balance' = [m \in Members |-> balance[m] - ChargeOf(m, Active(i), undo)]
      /\ End(i, "CANCELLED")
  BY DEF Cancel
<1>3. asg' \in [Assignments -> Row \cup {NoRow}]
  BY <1>2, RowTypes DEF RowStatuses
<1>4. ledger' \in [Assignments -> Entry]
  BY <1>1, <1>2 DEF TypeOK, Entry
<1>5. balance' \in [Members -> Int]
  <2>1. \A m \in Members : ChargeOf(m, Active(i), undo) \in Nat
    BY <1>1, RowTypes, ChargeType DEF Used
  <2> QED  BY <1>2, <2>1 DEF TypeOK
<1> QED  BY <1>2, <1>3, <1>4, <1>5, EndTypes DEF Statuses, TypeOK

LEMMA TypeExpire ==
    ASSUME TypeOK, NEW i \in Instances, Expire(i) \/ ExpirePenalty(i)
    PROVE  TypeOK'
<1>1. CASE Expire(i)
  <2>1. asg' \in [Assignments -> Row \cup {NoRow}]
    BY <1>1, RowTypes DEF Expire, RowStatuses
  <2>2. End(i, "EXPIRED") /\ UNCHANGED <<ledger, balance>>
    BY <1>1 DEF Expire
  <2> QED  BY <2>1, <2>2, EndTypes DEF Statuses, TypeOK
<1>2. CASE ExpirePenalty(i)
  <2> DEFINE fine == [a \in Assignments |->
                        IF a \in Active(i) THEN PenaltyOf(i, asg[a].member) ELSE 0]
  <2>1. /\ CloseAll(Active(i), "EXPIRED")
        /\ ledger' = [a \in Assignments |->
                        IF a \in Active(i) THEN [ledger[a] EXCEPT !.penalty = fine[a]]
                        ELSE ledger[a]]
        /\ balance' = [m \in Members |-> balance[m] - ChargeOf(m, Active(i), fine)]
        /\ SetStatus(i, "AVAILABLE")
        /\ slotCount' = [slotCount EXCEPT ![i] = 0]
        /\ penalised' = [penalised EXCEPT ![i] = TRUE]
        /\ UNCHANGED <<value, carried, version, offer, charges, spent>>
    BY <1>2 DEF ExpirePenalty, shopVars
  <2>2. fine \in [Assignments -> Nat]
    <3>1. \A a \in Active(i) : asg[a].member \in Members
      BY RowTypes DEF Active, RowStatuses, Row
    <3> QED  BY <3>1, Amounts
  <2>3. asg' \in [Assignments -> Row \cup {NoRow}]
    BY <2>1, RowTypes DEF RowStatuses
  <2>4. ledger' \in [Assignments -> Entry]
    BY <2>1, <2>2 DEF TypeOK, Entry
  <2>5. balance' \in [Members -> Int]
    <3>1. \A m \in Members : ChargeOf(m, Active(i), fine) \in Nat
      BY <2>2, RowTypes, ChargeType DEF Used
    <3> QED  BY <2>1, <3>1 DEF TypeOK
  <2> QED  BY <2>1, <2>3, <2>4, <2>5 DEF SetStatus, Statuses, TypeOK
<1> QED  BY <1>1, <1>2

(* The steps that are about no occurrence.                                     *)
ElsewhereStep ==
    \/ \E r \in Requests : ReadDefinition(r)
    \/ SkipDue
    \/ SaveConfig
    \/ \E m \in Members : BuyMultiplier(m) \/ EffectExpires(m)

(* Every step keeps the types.                                                 *)
LEMMA TypeStep ==
    ASSUME TypeOK, [Next]_vars
    PROVE  TypeOK'
<1>1. CASE \E i \in Instances : InstanceStep(i)
  <2>1. PICK i \in Instances : InstanceStep(i)
    BY <1>1
  <2>2. CASE MaterializeDue(i) \/ \E r \in Requests : AdminMaterialize(i, r)
    BY <2>2, TypeCreation
  <2>3. CASE Publish(i) \/ Pause(i) \/ Resume(i) \/ Grow(i)
    BY <2>3, TypeMoves
  <2>4. CASE \E m \in Members : Volunteer(i, m)
    BY <2>4, TypeVolunteer
  <2>5. CASE Draw(i)
    BY <2>5, TypeDraw
  <2>6. ASSUME NEW a \in Assignments,
               \/ Complete(i, a) \/ Buyout(i, a) \/ Release(i, a) \/ Revoke(i, a)
               \/ RejectReassign(i, a) \/ RejectReoffer(i, a)
        PROVE  TypeOK'
    BY <2>6, TypeComplete, TypeBuyout, TypeGiveBack, TypeReject DEF Release, Revoke
  <2>7. CASE Cancel(i) \/ Expire(i) \/ ExpirePenalty(i)
    BY <2>7, TypeCancel, TypeExpire
  <2> QED  BY <2>1, <2>2, <2>3, <2>4, <2>5, <2>6, <2>7 DEF InstanceStep
<1>2. CASE ElsewhereStep
  BY <1>2, TypeCreation DEF ElsewhereStep
<1>3. CASE UNCHANGED vars
  BY <1>3 DEF vars, TypeOK
<1> QED  BY <1>1, <1>2, <1>3 DEF Next, ElsewhereStep

(* Every reachable state is well typed: in particular no count goes below zero *)
(* and no row outgrows the slots.                                              *)
THEOREM TypeSafety == Spec => []TypeOK
<1>1. TypeOK /\ [Next]_vars => TypeOK'
  BY TypeStep
<1> QED  BY <1>1, TypeInit, PTL DEF Spec
-----------------------------------------------------------------------------
(* What each step does to the rows.  A row is kept, closed, or opened in place *)
(* of an unused one; every later proof about rows starts from these cases.     *)
Kept(a) == asg'[a] = asg[a]
Closed(a, from, to) ==
    asg[a].status = from /\ asg'[a] = [asg[a] EXCEPT !.status = to]
Opened(a, i, m, o, s) ==
    asg[a].status = "NONE" /\ asg'[a] = NewRow(i, m, o, s)

LEMMA CloseRow ==
    ASSUME TypeOK, NEW a \in Used, NEW s \in RowStatuses, Close(a, s)
    PROVE  /\ Closed(a, asg[a].status, s)
           /\ \A b \in Assignments \ {a} : Kept(b)
BY DEF Close, Closed, Kept, TypeOK, Used

LEMMA CloseRows ==
    ASSUME TypeOK, NEW rows \in SUBSET Used, NEW s \in RowStatuses, CloseAll(rows, s)
    PROVE  /\ \A a \in rows : Closed(a, asg[a].status, s)
           /\ \A b \in Assignments \ rows : Kept(b)
BY DEF CloseAll, Closed, Kept, TypeOK, Used

(* The steps that touch one row.                                               *)
OneRowStep(i, a) ==
    \/ Complete(i, a) \/ Buyout(i, a) \/ Release(i, a) \/ Revoke(i, a) \/ RejectReoffer(i, a)

LEMMA OneRow ==
    ASSUME TypeOK, NEW i \in Instances, NEW a \in Assignments, OneRowStep(i, a)
    PROVE  /\ \A b \in Assignments \ {a} : Kept(b)
           /\ Complete(i, a) => Closed(a, "ACTIVE", "COMPLETED")
           /\ Buyout(i, a) => Closed(a, "ACTIVE", "BOUGHT_OUT")
           /\ Release(i, a) => Closed(a, "ACTIVE", "RELEASED")
           /\ Revoke(i, a) => Closed(a, "ACTIVE", "REVOKED")
           /\ RejectReoffer(i, a) => Closed(a, "COMPLETED", "REJECTED")
           /\ asg[a] \in Row /\ asg[a].inst = i
<1>1. \/ /\ Complete(i, a) /\ a \in RowsIn(i, "ACTIVE") /\ Close(a, "COMPLETED")
      \/ /\ Buyout(i, a) /\ a \in RowsIn(i, "ACTIVE") /\ Close(a, "BOUGHT_OUT")
      \/ /\ Release(i, a) /\ a \in RowsIn(i, "ACTIVE") /\ Close(a, "RELEASED")
      \/ /\ Revoke(i, a) /\ a \in RowsIn(i, "ACTIVE") /\ Close(a, "REVOKED")
      \/ /\ RejectReoffer(i, a) /\ a \in RowsIn(i, "COMPLETED") /\ Close(a, "REJECTED")
  BY DEF OneRowStep, Complete, Buyout, Release, Revoke, GiveBack, RejectReoffer, Active
<1>2. a \in Used /\ asg[a] \in Row /\ asg[a].inst = i
  BY <1>1, RowTypes DEF RowStatuses
<1>3. \A b \in Assignments \ {a} : Kept(b)
  BY <1>1, <1>2, CloseRow DEF RowStatuses
<1>4. Complete(i, a) => Closed(a, "ACTIVE", "COMPLETED")
  <2>1. Complete(i, a) => a \in RowsIn(i, "ACTIVE") /\ Close(a, "COMPLETED")
    BY DEF Complete, Active
  <2> QED  BY <2>1, <1>2, CloseRow DEF RowStatuses, RowsIn
<1>5. Buyout(i, a) => Closed(a, "ACTIVE", "BOUGHT_OUT")
  <2>1. Buyout(i, a) => a \in RowsIn(i, "ACTIVE") /\ Close(a, "BOUGHT_OUT")
    BY DEF Buyout, Active
  <2> QED  BY <2>1, <1>2, CloseRow DEF RowStatuses, RowsIn
<1>6. /\ Release(i, a) => Closed(a, "ACTIVE", "RELEASED")
      /\ Revoke(i, a) => Closed(a, "ACTIVE", "REVOKED")
  <2>1. /\ Release(i, a) => a \in RowsIn(i, "ACTIVE") /\ Close(a, "RELEASED")
        /\ Revoke(i, a) => a \in RowsIn(i, "ACTIVE") /\ Close(a, "REVOKED")
    BY DEF Release, Revoke, GiveBack, Active
  <2> QED  BY <2>1, <1>2, CloseRow DEF RowStatuses, RowsIn
<1>7. RejectReoffer(i, a) => Closed(a, "COMPLETED", "REJECTED")
  <2>1. RejectReoffer(i, a) => a \in RowsIn(i, "COMPLETED") /\ Close(a, "REJECTED")
    BY DEF RejectReoffer
  <2> QED  BY <2>1, <1>2, CloseRow DEF RowStatuses, RowsIn
<1> QED  BY <1>2, <1>3, <1>4, <1>5, <1>6, <1>7

LEMMA VolunteerRow ==
    ASSUME TypeOK, NEW i \in Instances, NEW m \in Members, Volunteer(i, m)
    PROVE  \E a \in Assignments, s \in Slots \ Occupied(i) :
              /\ Opened(a, i, m, "VOLUNTEERED", s)
              /\ PostReward(a, m, VoluntaryReward(CurrentRule, value[i], "ON_ACCEPT"))
              /\ \A b \in Assignments \ {a} : Kept(b)
<1>1. PICK a \in Assignments, s \in Slots :
         /\ Lowest(a, 1, Used) /\ Lowest(s, 0, Occupied(i))
         /\ asg' = [asg EXCEPT ![a] = NewRow(i, m, "VOLUNTEERED", s)]
         /\ PostReward(a, m, VoluntaryReward(CurrentRule, value[i], "ON_ACCEPT"))
  BY DEF Volunteer
<1>2. asg[a].status = "NONE" /\ s \notin Occupied(i)
  BY <1>1 DEF Lowest, Used
<1>3. Opened(a, i, m, "VOLUNTEERED", s) /\ \A b \in Assignments \ {a} : Kept(b)
  BY <1>1, <1>2 DEF Opened, Kept, TypeOK
<1> QED  BY <1>1, <1>2, <1>3

LEMMA ReassignRows ==
    ASSUME TypeOK, NEW i \in Instances, NEW a \in Assignments, RejectReassign(i, a)
    PROVE  /\ Closed(a, "COMPLETED", "REJECTED") /\ asg[a] \in Row /\ asg[a].inst = i
           /\ \E b \in Assignments \ {a} :
                 /\ Opened(b, i, asg[a].member, "REOPENED_TO_ASSIGNEE", asg[a].slot)
                 /\ \A c \in Assignments \ {a, b} : Kept(c)
<1>1. PICK b \in Assignments :
         /\ Lowest(b, 1, Used)
         /\ asg' = [asg EXCEPT
                       ![a].status = "REJECTED",
                       ![b] = NewRow(i, asg[a].member, "REOPENED_TO_ASSIGNEE", asg[a].slot)]
  BY DEF RejectReassign
<1>2. /\ a \in Used /\ asg[a] \in Row /\ asg[a].inst = i /\ asg[a].status = "COMPLETED"
  BY RowTypes DEF RejectReassign, RowStatuses
<1>3. b # a /\ asg[b].status = "NONE"
  BY <1>1, <1>2 DEF Lowest, Used
<1>4. Closed(a, "COMPLETED", "REJECTED")
  BY <1>1, <1>2, <1>3 DEF Closed, TypeOK
<1>5. Opened(b, i, asg[a].member, "REOPENED_TO_ASSIGNEE", asg[a].slot)
  BY <1>1, <1>3 DEF Opened, TypeOK
<1>6. \A c \in Assignments \ {a, b} : Kept(c)
  BY <1>1 DEF Kept, TypeOK
<1> QED  BY <1>2, <1>3, <1>4, <1>5, <1>6

LEMMA EndedRows ==
    ASSUME TypeOK, NEW i \in Instances, Cancel(i) \/ Expire(i) \/ ExpirePenalty(i)
    PROVE  /\ \A a \in Assignments \ Active(i) : Kept(a)
           /\ Cancel(i) => \A a \in Active(i) : Closed(a, "ACTIVE", "REVOKED")
           /\ ExpirePenalty(i) => \A a \in Active(i) : Closed(a, "ACTIVE", "EXPIRED")
           /\ Expire(i) => \A a \in Active(i) : Kept(a) \/ Closed(a, "ACTIVE", "EXPIRED")
<1>1. /\ Active(i) \in SUBSET Used /\ Expiring(i) \in SUBSET Used
      /\ \A a \in Active(i) : asg[a].status = "ACTIVE"
      /\ Expiring(i) = Active(i) \/ Expiring(i) = {}
  BY RowTypes DEF Active, Expiring, RowStatuses
<1>2. CASE Cancel(i)
  <2>1. CloseAll(Active(i), "REVOKED")
    BY <1>2 DEF Cancel
  <2>2. ~Expire(i) /\ ~ExpirePenalty(i)
    <3>1. status'[i] = "CANCELLED"
      BY <1>2 DEF Cancel, End, SetStatus, TypeOK
    <3>2. Expire(i) => status'[i] = "EXPIRED"
      BY DEF Expire, End, SetStatus, TypeOK
    <3>3. ExpirePenalty(i) => status'[i] = "AVAILABLE"
      BY DEF ExpirePenalty, SetStatus, TypeOK
    <3> QED  BY <3>1, <3>2, <3>3
  <2> QED  BY <1>1, <2>1, <2>2, CloseRows DEF RowStatuses
<1>3. CASE Expire(i) /\ ~Cancel(i)
  <2>1. CloseAll(Expiring(i), "EXPIRED") /\ ~ExpirePenalty(i)
    BY <1>3 DEF Expire, ExpirePenalty
  <2>2. /\ \A a \in Expiring(i) : asg[a].status = "ACTIVE"
        /\ \A a \in Expiring(i) : Closed(a, asg[a].status, "EXPIRED")
        /\ \A a \in Assignments \ Expiring(i) : Kept(a)
    BY <1>1, <2>1, CloseRows DEF RowStatuses
  <2>3. \A a \in Expiring(i) : Closed(a, "ACTIVE", "EXPIRED")
    BY <2>2
  <2>4. \A a \in Active(i) : a \in Assignments
    BY <1>1 DEF Used
  <2> QED  BY <1>1, <1>3, <2>1, <2>2, <2>3, <2>4
<1>4. CASE ExpirePenalty(i) /\ ~Cancel(i)
  <2>1. CloseAll(Active(i), "EXPIRED") /\ ~Expire(i)
    BY <1>4 DEF Expire, ExpirePenalty
  <2> QED  BY <1>1, <1>4, <2>1, CloseRows DEF RowStatuses
<1> QED  BY <1>2, <1>3, <1>4

(* The steps that touch no row.                                                *)
RowlessStep(i) ==
    \/ MaterializeDue(i) \/ (\E r \in Requests : AdminMaterialize(i, r))
    \/ Publish(i) \/ Pause(i) \/ Resume(i) \/ Grow(i)

(* Steps that touch no row leave rows and ledger alone, and balances too       *)
(* unless a multiplier is bought.                                              *)
LEMMA Rowless ==
    /\ \A i \in Instances : RowlessStep(i) => UNCHANGED <<asg, ledger, balance>>
    /\ ElsewhereStep \/ UNCHANGED vars =>
          /\ UNCHANGED <<asg, ledger, status, value, slotCount, penalised>>
          /\ UNCHANGED <<balance, spent>> \/ \E m \in Members : BuyMultiplier(m)
<1> USE DEF rowVars, instanceVars, shopVars
<1>1. \A i \in Instances : RowlessStep(i) => UNCHANGED <<asg, ledger, balance>>
  BY DEF RowlessStep, MaterializeDue, AdminMaterialize, Create, Publish, Pause, Resume,
         InstanceAction, Grow
<1>2. ASSUME ElsewhereStep \/ UNCHANGED vars
      PROVE  /\ UNCHANGED <<asg, ledger, status, value, slotCount, penalised>>
             /\ UNCHANGED <<balance, spent>> \/ \E m \in Members : BuyMultiplier(m)
  BY <1>2 DEF ElsewhereStep, ReadDefinition, SkipDue, SaveConfig, BuyMultiplier, EffectExpires,
              vars
<1> QED  BY <1>1, <1>2

(* No step moves a row, reopens one or rejects anything but a completion.      *)
LEMMA StepCloses ==
    ASSUME TypeOK, [Next]_vars, NEW a \in Assignments
    PROVE  OnlyCloses(a)
<1>1. Kept(a) => OnlyCloses(a)
  BY DEF Kept, OnlyCloses
<1>2. \A to \in RowStatuses \ {"REJECTED"} : Closed(a, "ACTIVE", to) => OnlyCloses(a)
  <2>1. ASSUME NEW to \in RowStatuses, Closed(a, "ACTIVE", to), to # "REJECTED"
        PROVE  OnlyCloses(a)
    <3>1. asg[a] \in Row /\ asg'[a] = [asg[a] EXCEPT !.status = to]
      BY <2>1, RowTypes DEF Closed
    <3> QED  BY <2>1, <3>1 DEF Closed, OnlyCloses, Row
  <2> QED  BY <2>1
<1>3. Closed(a, "COMPLETED", "REJECTED") => OnlyCloses(a)
  <2>1. ASSUME Closed(a, "COMPLETED", "REJECTED")
        PROVE  OnlyCloses(a)
    <3>1. asg[a] \in Row /\ asg'[a] = [asg[a] EXCEPT !.status = "REJECTED"]
      BY <2>1, RowTypes DEF Closed
    <3> QED  BY <2>1, <3>1 DEF Closed, OnlyCloses, Row
  <2> QED  BY <2>1
<1>4. asg[a].status = "NONE" => OnlyCloses(a)
  BY DEF OnlyCloses
<1>5. CASE \E i \in Instances : InstanceStep(i)
  <2>1. PICK i \in Instances : InstanceStep(i)
    BY <1>5
  <2>2. CASE RowlessStep(i)
    BY <1>1, <2>2, Rowless DEF Kept
  <2>3. CASE \E m \in Members : Volunteer(i, m)
    BY <1>1, <1>4, <2>3, VolunteerRow DEF Opened
  <2>4. CASE Draw(i)
    BY <1>1, <1>4, <2>4, DrawRows DEF Kept, Used
  <2>5. CASE \E b \in Assignments : OneRowStep(i, b)
    BY <1>1, <1>2, <1>3, <2>5, OneRow DEF OneRowStep, RowStatuses
  <2>6. CASE \E b \in Assignments : RejectReassign(i, b)
    BY <1>1, <1>3, <1>4, <2>6, ReassignRows DEF Opened
  <2>7. CASE Cancel(i) \/ Expire(i) \/ ExpirePenalty(i)
    BY <1>1, <1>2, <2>7, EndedRows DEF RowStatuses
  <2> QED  BY <2>1, <2>2, <2>3, <2>4, <2>5, <2>6, <2>7 DEF InstanceStep, RowlessStep, OneRowStep
<1>6. CASE ElsewhereStep \/ UNCHANGED vars
  BY <1>1, <1>6, Rowless DEF Kept
<1> QED  BY <1>5, <1>6 DEF Next, ElsewhereStep

(* A row never moves to another occurrence, member, slot or pinned version, a  *)
(* closed row never becomes work again, and only a completion is ever          *)
(* rejected, for every step of every household.                                *)
THEOREM RowsOnlyEverClose == Spec => RowsOnlyClose
<1>1. TypeOK /\ [Next]_vars => [\A a \in Assignments : OnlyCloses(a)]_vars
  BY StepCloses
<1> QED  BY <1>1, TypeSafety, PTL DEF Spec, RowsOnlyClose
-----------------------------------------------------------------------------
(* The points of a row follow its life.  Nothing is posted before it opens,    *)
(* nothing is reversed while its work stands, nothing is charged while it is   *)
(* open, an open row is paid only when it pays on acceptance, and a row that   *)
(* ended without its work standing is even.                                    *)
(* The last two parts are what the household cares about; they need the others *)
(* because a reversal reverses whatever was paid, unless already reversed.     *)
Settled(a) ==
    /\ asg[a].status = "NONE" => ledger[a] = NoEntry
    /\ asg[a].status \in {"ACTIVE", "COMPLETED"} => ledger[a].clawback = 0
    /\ asg[a].status = "ACTIVE" => ledger[a].buyout = 0 /\ ledger[a].penalty = 0
    /\ asg[a].status = "ACTIVE" /\ Pinned(a).timing = "ON_COMPLETE" => ledger[a].reward = 0
    /\ ~Voluntary(a) => ledger[a].reward = 0
    /\ asg[a].status \in {"RELEASED", "REVOKED", "REJECTED", "BOUGHT_OUT"}
          => ledger[a].reward = ledger[a].clawback

SettledInv == TypeOK /\ \A a \in Assignments : Settled(a)

SamePoints(a) == ledger'[a] = ledger[a]

LEMMA KeptSettled ==
    ASSUME SettledInv, NEW a \in Assignments, Kept(a), SamePoints(a)
    PROVE  Settled(a)'
BY DEF SettledInv, Settled, Kept, SamePoints, Voluntary, Pinned

(* What a reversal does to the points of the row, and of no other.             *)
LEMMA ClawbackPoints ==
    ASSUME TypeOK, NEW a \in Assignments, Clawback(a)
    PROVE  /\ ledger[a].clawback = 0 =>
                 ledger'[a].clawback = ledger[a].reward /\ ledger'[a].reward = ledger[a].reward
           /\ \A b \in Assignments \ {a} : SamePoints(b)
<1>1. ledger' = [ledger EXCEPT ![a].clawback = @ + Reversible(a)]
  BY DEF Clawback
<1>2. \A b \in Assignments \ {a} : SamePoints(b)
  BY <1>1 DEF SamePoints, TypeOK
<1>3. ASSUME ledger[a].clawback = 0
      PROVE  ledger'[a].clawback = ledger[a].reward /\ ledger'[a].reward = ledger[a].reward
  <2>1. Reversible(a) = ledger[a].reward
    BY <1>3 DEF Reversible
  <2>2. ledger[a] \in Entry
    BY DEF TypeOK
  <2>3. ledger'[a] = [ledger[a] EXCEPT !.clawback = ledger[a].clawback + Reversible(a)]
    BY <1>1 DEF TypeOK
  <2> QED  BY <1>3, <2>1, <2>2, <2>3 DEF Entry
<1> QED  BY <1>2, <1>3

LEMMA PostRewardPoints ==
    ASSUME TypeOK, NEW a \in Assignments, NEW m, NEW n \in Nat, PostReward(a, m, n)
    PROVE  /\ \/ SamePoints(a)
              \/ n # 0 /\ ledger'[a] = [ledger[a] EXCEPT !.reward = n]
           /\ \A b \in Assignments \ {a} : SamePoints(b)
BY DEF PostReward, SamePoints, TypeOK

LEMMA SettledVolunteer ==
    ASSUME SettledInv, NEW i \in Instances, NEW m \in Members, Volunteer(i, m),
           NEW c \in Assignments
    PROVE  Settled(c)'
<1> DEFINE paid == VoluntaryReward(CurrentRule, value[i], "ON_ACCEPT")
<1>1. TypeOK /\ paid \in Nat
  BY RewardTypes DEF SettledInv
<1>2. PICK a \in Assignments, s \in Slots :
         /\ Opened(a, i, m, "VOLUNTEERED", s) /\ PostReward(a, m, paid)
         /\ \A b \in Assignments \ {a} : Kept(b)
  BY <1>1, VolunteerRow
<1>3. CASE c # a
  BY <1>1, <1>2, <1>3, PostRewardPoints, KeptSettled
<1>4. CASE c = a
  <2>1. /\ ledger[a] \in Entry /\ ledger[a].reward = 0 /\ ledger[a].clawback = 0
        /\ ledger[a].buyout = 0 /\ ledger[a].penalty = 0
    <3>1. ledger[a] = NoEntry
      BY <1>2 DEF Opened, SettledInv, Settled
    <3> QED  BY <1>1, <3>1 DEF NoEntry, TypeOK
  <2>2. /\ ledger'[a].clawback = 0 /\ (ledger'[a].reward = 0 \/ ledger'[a].reward = paid)
        /\ ledger'[a].buyout = 0 /\ ledger'[a].penalty = 0
    <3>1. \/ ledger'[a] = ledger[a]
          \/ ledger'[a] = [ledger[a] EXCEPT !.reward = paid]
      BY <1>1, <1>2, PostRewardPoints DEF SamePoints
    <3> QED  BY <2>1, <3>1 DEF Entry
  <2>3. /\ asg'[a].status = "ACTIVE" /\ asg'[a].configVersion = version
        /\ asg'[a].origin = "VOLUNTEERED"
    BY <1>2 DEF Opened, NewRow
  <2>4. Pinned(a)' = CurrentRule
    BY <2>3 DEF Pinned, CurrentRule
  <2>5. CurrentRule.timing = "ON_COMPLETE" => paid = 0
    BY DEF VoluntaryReward
  <2> QED  BY <1>4, <2>2, <2>3, <2>4, <2>5 DEF Settled, Voluntary
<1> QED  BY <1>3, <1>4

LEMMA SettledOneRow ==
    ASSUME SettledInv, NEW i \in Instances, NEW a \in Assignments, OneRowStep(i, a),
           NEW c \in Assignments
    PROVE  Settled(c)'
<1>1. TypeOK /\ Settled(a) /\ asg[a] \in Row /\ ledger[a] \in Entry
  BY OneRow DEF SettledInv, TypeOK
<1>2. \A b \in Assignments \ {a} : Kept(b)
  BY <1>1, OneRow
<1>3. CASE Complete(i, a)
  <2> DEFINE due == PaidOut(a)
  <2>1. due \in Nat /\ (~Voluntary(a) => due = 0)
    BY <1>1, RewardTypes DEF PaidOut, RewardDue, SpendsCharge
  <2>2. PostReward(a, asg[a].member, due)
    BY <1>3 DEF Complete, PaidOut
  <2> HIDE DEF due
  <2>3. CASE c # a
    BY <1>1, <1>2, <2>1, <2>2, <2>3, PostRewardPoints, KeptSettled
  <2>4. CASE c = a
    <3>1. Closed(a, "ACTIVE", "COMPLETED")
      BY <1>1, <1>3, OneRow
    <3>2. /\ asg'[a].status = "COMPLETED" /\ asg'[a].origin = asg[a].origin
          /\ ledger[a].clawback = 0 /\ (~Voluntary(a) => ledger[a].reward = 0)
      BY <1>1, <3>1 DEF Closed, Row, Settled
    <3>3. /\ ledger'[a].clawback = 0
          /\ ledger'[a].reward = ledger[a].reward \/ due # 0
      BY <1>1, <2>1, <2>2, <3>2, PostRewardPoints DEF SamePoints, Entry
    <3> QED  BY <2>1, <2>4, <3>2, <3>3 DEF Settled, Voluntary
  <2> QED  BY <2>3, <2>4
<1>4. CASE Buyout(i, a)
  <2>1. ledger' = [ledger EXCEPT ![a].buyout = BuyoutCost(value[i])]
    BY <1>4 DEF Buyout
  <2>2. CASE c # a
    <3>1. SamePoints(c)
      BY <2>1, <2>2 DEF SamePoints, SettledInv, TypeOK
    <3> QED  BY <1>2, <2>2, <3>1, KeptSettled
  <2>3. CASE c = a
    <3>1. Closed(a, "ACTIVE", "BOUGHT_OUT") /\ ~Voluntary(a)
      BY <1>1, <1>4, OneRow DEF Buyout, MayBuyOut
    <3>2. /\ asg'[a].status = "BOUGHT_OUT"
          /\ ledger[a].reward = 0 /\ ledger[a].clawback = 0
      BY <1>1, <3>1 DEF Closed, Row, Settled
    <3>3. ledger'[a] = [ledger[a] EXCEPT !.buyout = BuyoutCost(value[i])]
      BY <1>1, <2>1 DEF TypeOK
    <3>4. ledger'[a].reward = 0 /\ ledger'[a].clawback = 0
      BY <1>1, <3>2, <3>3 DEF Entry
    <3> QED  BY <2>3, <3>2, <3>4 DEF Settled
  <2> QED  BY <2>2, <2>3
<1>5. CASE Release(i, a) \/ Revoke(i, a)
  <2>1. ClawbackIfPaidOnAccept(a)
    BY <1>5 DEF Release, Revoke, GiveBack
  <2>2. CASE c # a
    <3>1. SamePoints(c)
      BY <1>1, <2>1, <2>2, ClawbackPoints DEF ClawbackIfPaidOnAccept, SamePoints
    <3> QED  BY <1>2, <2>2, <3>1, KeptSettled
  <2>3. CASE c = a
    <3>1. Closed(a, "ACTIVE", "RELEASED") \/ Closed(a, "ACTIVE", "REVOKED")
      BY <1>1, <1>5, OneRow
    <3>2. /\ asg'[a].status \in {"RELEASED", "REVOKED"} /\ asg'[a].origin = asg[a].origin
          /\ asg[a].status = "ACTIVE" /\ Pinned(a).timing \in {"ON_COMPLETE", "ON_ACCEPT"}
      BY <1>1, <3>1, RewardTypes DEF Closed, Row, Rule, Timings
    <3>3. /\ ledger[a].clawback = 0 /\ (~Voluntary(a) => ledger[a].reward = 0)
          /\ Pinned(a).timing = "ON_COMPLETE" => ledger[a].reward = 0
      BY <1>1, <3>2 DEF Settled
    <3>4. ledger'[a].reward = ledger[a].reward /\ ledger'[a].clawback = ledger[a].reward
      BY <1>1, <2>1, <3>2, <3>3, ClawbackPoints DEF ClawbackIfPaidOnAccept
    <3> QED  BY <2>3, <3>2, <3>3, <3>4 DEF Settled, Voluntary
  <2> QED  BY <2>2, <2>3
<1>6. CASE RejectReoffer(i, a)
  <2>1. Clawback(a)
    BY <1>6 DEF RejectReoffer
  <2>2. CASE c # a
    BY <1>1, <1>2, <2>1, <2>2, ClawbackPoints, KeptSettled
  <2>3. CASE c = a
    <3>1. Closed(a, "COMPLETED", "REJECTED")
      BY <1>1, <1>6, OneRow
    <3>2. /\ asg'[a].status = "REJECTED" /\ asg'[a].origin = asg[a].origin
          /\ ledger[a].clawback = 0 /\ (~Voluntary(a) => ledger[a].reward = 0)
      BY <1>1, <3>1 DEF Closed, Row, Settled
    <3> QED  BY <1>1, <2>1, <2>3, <3>2, ClawbackPoints DEF Settled, Voluntary
  <2> QED  BY <2>2, <2>3
<1> QED  BY <1>3, <1>4, <1>5, <1>6 DEF OneRowStep

LEMMA SettledReassign ==
    ASSUME SettledInv, NEW i \in Instances, NEW a \in Assignments, RejectReassign(i, a),
           NEW c \in Assignments
    PROVE  Settled(c)'
<1>1. TypeOK /\ Settled(a) /\ Clawback(a)
  BY DEF SettledInv, RejectReassign
<1>2. Closed(a, "COMPLETED", "REJECTED") /\ asg[a] \in Row
  BY <1>1, ReassignRows
<1>3. PICK b \in Assignments \ {a} :
         /\ Opened(b, i, asg[a].member, "REOPENED_TO_ASSIGNEE", asg[a].slot)
         /\ \A d \in Assignments \ {a, b} : Kept(d)
  BY <1>1, ReassignRows
<1>4. CASE c \notin {a, b}
  BY <1>1, <1>3, <1>4, ClawbackPoints, KeptSettled
<1>5. CASE c = a
  <2>1. /\ asg'[a].status = "REJECTED" /\ asg'[a].origin = asg[a].origin
        /\ ledger[a].clawback = 0 /\ (~Voluntary(a) => ledger[a].reward = 0)
    BY <1>1, <1>2 DEF Closed, Row, Settled
  <2> QED  BY <1>1, <1>5, <2>1, ClawbackPoints DEF Settled, Voluntary
<1>6. CASE c = b
  <2>1. ledger[b] = NoEntry
    BY <1>3 DEF Opened, SettledInv, Settled
  <2>2. /\ ledger'[b].reward = 0 /\ ledger'[b].clawback = 0
        /\ ledger'[b].buyout = 0 /\ ledger'[b].penalty = 0
    BY <1>1, <1>3, <2>1, ClawbackPoints DEF SamePoints, NoEntry
  <2>3. asg'[b].status = "ACTIVE" /\ asg'[b].origin = "REOPENED_TO_ASSIGNEE"
    BY <1>3 DEF Opened, NewRow
  <2> QED  BY <1>6, <2>2, <2>3 DEF Settled, Voluntary
<1> QED  BY <1>4, <1>5, <1>6

LEMMA SettledDraw ==
    ASSUME SettledInv, NEW i \in Instances, Draw(i), NEW c \in Assignments
    PROVE  Settled(c)'
<1>1. TypeOK /\ SamePoints(c)
  BY DrawRows DEF SettledInv, SamePoints
<1>2. CASE Kept(c)
  BY <1>1, <1>2, KeptSettled
<1>3. CASE ~Kept(c)
  <2>1. PICK m \in Members \ Holders(i), s \in Slots \ Occupied(i) :
           c \notin Used /\ asg'[c] = NewRow(i, m, "RANDOMLY_ASSIGNED", s)
    BY <1>1, <1>3, DrawRows DEF Kept
  <2>2. ledger[c] = NoEntry
    BY <2>1 DEF Used, SettledInv, Settled
  <2>3. /\ ledger'[c].reward = 0 /\ ledger'[c].clawback = 0
        /\ ledger'[c].buyout = 0 /\ ledger'[c].penalty = 0
    BY <1>1, <2>2 DEF SamePoints, NoEntry
  <2>4. asg'[c].status = "ACTIVE"
    BY <2>1 DEF NewRow
  <2> QED  BY <2>3, <2>4 DEF Settled
<1> QED  BY <1>2, <1>3

LEMMA SettledEnd ==
    ASSUME SettledInv, NEW i \in Instances, Cancel(i) \/ Expire(i) \/ ExpirePenalty(i),
           NEW c \in Assignments
    PROVE  Settled(c)'
<1>1. TypeOK /\ Settled(c) /\ ledger[c] \in Entry
  BY DEF SettledInv, TypeOK
<1>2. CASE c \notin Active(i)
  <2>1. SamePoints(c)
    BY <1>2 DEF Cancel, Expire, ExpirePenalty, SamePoints
  <2>2. Kept(c)
    BY <1>1, <1>2, EndedRows
  <2> QED  BY <2>1, <2>2, KeptSettled
<1>3. CASE c \in Active(i)
  <2>1. /\ asg[c] \in Row /\ asg[c].status = "ACTIVE" /\ ledger[c].clawback = 0
        /\ ~Voluntary(c) => ledger[c].reward = 0
        /\ Pinned(c).timing # "ON_ACCEPT" => ledger[c].reward = 0
    BY <1>1, <1>3, RowTypes, RewardTypes DEF Active, RowStatuses, Row, Settled, Rule, Timings
  <2>2. CASE Cancel(i)
    <3>1. asg'[c] = [asg[c] EXCEPT !.status = "REVOKED"]
      BY <1>1, <1>3, <2>2, EndedRows DEF Closed
    <3>2. asg'[c].status = "REVOKED" /\ asg'[c].origin = asg[c].origin
      BY <2>1, <3>1 DEF Row
    <3>3. ledger'[c] = [ledger[c] EXCEPT !.clawback =
                         @ + (IF Pinned(c).timing = "ON_ACCEPT" THEN Reversible(c) ELSE 0)]
      BY <1>3, <2>2 DEF Cancel
    <3>4. ledger'[c].reward = ledger[c].reward /\ ledger'[c].clawback = ledger[c].reward
      BY <1>1, <2>1, <3>3 DEF Reversible, Entry
    <3> QED  BY <2>1, <3>2, <3>4 DEF Settled, Voluntary
  <2>3. CASE Expire(i)
    <3>1. SamePoints(c)
      BY <2>3 DEF Expire, SamePoints
    <3>2. CASE Kept(c)
      BY <3>1, <3>2, KeptSettled
    <3>3. CASE Closed(c, "ACTIVE", "EXPIRED")
      <4>1. asg'[c].status = "EXPIRED" /\ asg'[c].origin = asg[c].origin
        BY <2>1, <3>3 DEF Closed, Row
      <4> QED  BY <2>1, <3>1, <4>1 DEF Settled, Voluntary, SamePoints
    <3> QED  BY <1>1, <1>3, <2>3, <3>2, <3>3, EndedRows
  <2>4. CASE ExpirePenalty(i)
    <3>1. asg'[c] = [asg[c] EXCEPT !.status = "EXPIRED"]
      BY <1>1, <1>3, <2>4, EndedRows DEF Closed
    <3>2. asg'[c].status = "EXPIRED" /\ asg'[c].origin = asg[c].origin
      BY <2>1, <3>1 DEF Row
    <3>3. ledger'[c] = [ledger[c] EXCEPT !.penalty = PenaltyOf(i, asg[c].member)]
      BY <1>3, <2>4 DEF ExpirePenalty
    <3>4. ledger'[c].reward = ledger[c].reward
      BY <1>1, <3>3 DEF Entry
    <3> QED  BY <2>1, <3>2, <3>4 DEF Settled, Voluntary
  <2> QED  BY <2>2, <2>3, <2>4
<1> QED  BY <1>2, <1>3

(* The points of every row follow its life in every history: an assignment is  *)
(* paid, charged and reversed only in the order its status allows (settlement  *)
(* in completeTask, releaseOrRevoke, rejectCompletion and                      *)
(* runAssignmentSweep).                                                        *)
THEOREM PointsFollowRows == Spec => []SettledInv
<1>1. Init => SettledInv
  <2>1. Init => \A a \in Assignments : asg[a] = NoRow /\ ledger[a] = NoEntry
    BY DEF Init
  <2> QED  BY <2>1, TypeInit DEF SettledInv, Settled, NoRow, NoEntry, Voluntary
<1>2. SettledInv /\ TypeOK' /\ [Next]_vars => SettledInv'
  <2> SUFFICES ASSUME SettledInv, [Next]_vars, NEW c \in Assignments PROVE Settled(c)'
    BY DEF SettledInv, Assignments
  <2>1. UNCHANGED <<asg, ledger>> => Settled(c)'
    BY KeptSettled DEF Kept, SamePoints
  <2>2. CASE \E i \in Instances : InstanceStep(i)
    <3>1. PICK i \in Instances : InstanceStep(i)
      BY <2>2
    <3>2. CASE RowlessStep(i)
      BY <2>1, <3>2, Rowless
    <3>3. CASE \E m \in Members : Volunteer(i, m)
      BY <3>3, SettledVolunteer
    <3>4. CASE Draw(i)
      BY <3>4, SettledDraw
    <3>5. CASE \E a \in Assignments : OneRowStep(i, a)
      BY <3>5, SettledOneRow
    <3>6. CASE \E a \in Assignments : RejectReassign(i, a)
      BY <3>6, SettledReassign
    <3>7. CASE Cancel(i) \/ Expire(i) \/ ExpirePenalty(i)
      BY <3>7, SettledEnd
    <3> QED  BY <3>1, <3>2, <3>3, <3>4, <3>5, <3>6, <3>7 DEF InstanceStep, RowlessStep, OneRowStep
  <2>3. CASE ElsewhereStep \/ UNCHANGED vars
    BY <2>1, <2>3, Rowless
  <2> QED  BY <2>2, <2>3 DEF Next, ElsewhereStep
<1> QED  BY <1>1, <1>2, TypeSafety, PTL DEF Spec

(* A randomly assigned chore never pays, whatever is done with it and however  *)
(* the reward rule is configured meanwhile.                                    *)
THEOREM RandomWorkNeverPays == Spec => []RandomNeverPaid
<1>1. SettledInv => RandomNeverPaid
  BY DEF SettledInv, Settled, RandomNeverPaid
<1> QED  BY <1>1, PointsFollowRows, PTL

(* Returned, revoked, rejected or bought-out work leaves its member exactly    *)
(* even with the reward, in every household and every history.                 *)
THEOREM ReturnedWorkIsEven == Spec => []ReturnedWorkEarnsNothing
<1>1. SettledInv => ReturnedWorkEarnsNothing
  BY DEF SettledInv, Settled, ReturnedWorkEarnsNothing
<1> QED  BY <1>1, PointsFollowRows, PTL

-----------------------------------------------------------------------------
(* Rows, slots and status of one occurrence.  Beyond what the runs check, a    *)
(* paused occurrence is as short of workers as an offered one: resuming offers *)
(* it as it is.                                                                *)
Apart(i) ==
    \A a, b \in Active(i) :
        a # b => asg[a].slot # asg[b].slot /\ asg[a].member # asg[b].member
Team(i) ==
    /\ Apart(i)
    /\ Mode # "AT_LEAST" => Cardinality(Active(i)) <= WorkerCount
    /\ status[i] \in {"NONE", "DRAFT", "COMPLETED", "CANCELLED"} => Active(i) = {}
    /\ status[i] = "ASSIGNED" => Active(i) # {}
    /\ status[i] \in {"AVAILABLE", "PAUSED"} => Cardinality(Active(i)) < MinRequired

TeamInv == TypeOK /\ \A i \in Instances : Team(i)

(* The minimum of the slot modes is at least one worker and at most            *)
(* workerCount.                                                                *)
LEMMA MinRequiredType ==
    /\ MinRequired \in Nat \ {0} /\ MinRequired <= WorkerCount
    /\ MinAdminSlots \in Nat /\ WorkerCount \in Nat
BY MarketAssumption DEF MinRequired

(* An unused row belongs to no occurrence.                                     *)
LEMMA UnusedRow ==
    ASSUME TypeOK, NEW a \in Assignments
    PROVE  /\ asg[a].status = "NONE" => asg[a] = NoRow /\ asg[a].inst \notin Instances
           /\ asg[a].status # "NONE" => asg[a].inst \in Instances
<1>1. asg[a] \in Row \/ asg[a] = NoRow
  BY DEF TypeOK
<1>2. asg[a] \in Row => asg[a].status # "NONE" /\ asg[a].inst \in Instances
  BY DEF Row, RowStatuses
<1>3. NoRow.status = "NONE" /\ NoRow.inst = None /\ None \notin Instances
  BY MarketAssumption DEF NoRow
<1> QED  BY <1>1, <1>2, <1>3

(* The rows of an occurrence that a step does not touch.                       *)
SameTeam(i) == \A a \in Assignments : asg[a].inst = i \/ asg'[a].inst = i => Kept(a)

(* The rows of an occurrence that no step touches are its rows afterwards.     *)
LEMMA SameTeamActive ==
    ASSUME NEW i \in Instances, SameTeam(i)
    PROVE  Active(i)' = Active(i) /\ \A a \in Active(i) : Kept(a)
BY DEF SameTeam, Kept, Active, RowsIn

(* An occurrence whose rows and status a step leaves alone keeps its team.     *)
LEMMA TeamKept ==
    ASSUME NEW i \in Instances, Team(i), SameTeam(i), status'[i] = status[i]
    PROVE  Team(i)'
<1>1. Active(i)' = Active(i) /\ \A a \in Active(i) : asg'[a] = asg[a]
  BY SameTeamActive DEF Kept
<1>2. Cardinality(Active(i))' = Cardinality(Active(i))
  BY <1>1
<1> QED  BY <1>1, <1>2 DEF Team, Apart, MinRequired

(* A team that loses members stays a team; how many are left decides about     *)
(* the status.                                                                 *)
LEMMA TeamShrinks ==
    ASSUME TeamInv, NEW i \in Instances,
           Active(i)' \subseteq Active(i), \A a \in Active(i)' : Kept(a)
    PROVE  /\ Apart(i)' /\ IsFiniteSet(Active(i)')
           /\ Cardinality(Active(i)') \in Nat
           /\ Cardinality(Active(i)') <= Cardinality(Active(i))
           /\ Mode # "AT_LEAST" => Cardinality(Active(i)') <= WorkerCount
<1>1. IsFiniteSet(Active(i)) /\ Cardinality(Active(i)) \in Nat
  BY ActiveCount DEF TeamInv
<1>2. /\ IsFiniteSet(Active(i)') /\ Cardinality(Active(i)') \in Nat
      /\ Cardinality(Active(i)') <= Cardinality(Active(i))
  BY <1>1, FS_Subset, FS_CardinalityType
<1>3. Apart(i)'
  BY DEF TeamInv, Team, Apart, Kept
<1> QED  BY <1>1, <1>2, <1>3, MinRequiredType DEF TeamInv, Team

(* An occurrence without rows has a team as long as it is not ASSIGNED.        *)
LEMMA TeamDissolves ==
    ASSUME NEW i \in Instances, Active(i)' = {}, status'[i] # "ASSIGNED"
    PROVE  Team(i)'
<1>1. Cardinality(Active(i)') = 0
  BY FS_EmptySet
<1> QED  BY <1>1, MinRequiredType DEF Team, Apart, MinRequired

(* Closing one row of an occurrence takes one worker off it, and off no other. *)
LEMMA OneRowTeams ==
    ASSUME TypeOK, NEW i \in Instances, NEW a \in Assignments, OneRowStep(i, a)
    PROVE  /\ \A j \in Instances \ {i} : SameTeam(j)
           /\ RejectReoffer(i, a) => Active(i)' = Active(i) /\ \A b \in Active(i) : Kept(b)
           /\ ~RejectReoffer(i, a) =>
                 /\ a \in Active(i) /\ Active(i)' = Active(i) \ {a}
                 /\ Cardinality(Active(i)') = Cardinality(Active(i)) - 1
           /\ \A b \in Assignments \ {a} : Kept(b)
<1>1. /\ asg[a] \in Row /\ asg[a].inst = i /\ a \in Used
      /\ \A b \in Assignments \ {a} : Kept(b)
      /\ \/ RejectReoffer(i, a) /\ Closed(a, "COMPLETED", "REJECTED")
         \/ /\ ~RejectReoffer(i, a)
            /\ \E to \in RowStatuses \ {"ACTIVE"} : Closed(a, "ACTIVE", to)
  <2>1. asg[a] \in Row /\ asg[a].inst = i
    BY OneRow
  <2>2. \/ RejectReoffer(i, a) /\ Closed(a, "COMPLETED", "REJECTED")
        \/ /\ ~RejectReoffer(i, a)
           /\ \E to \in RowStatuses \ {"ACTIVE"} : Closed(a, "ACTIVE", to)
    BY OneRow DEF OneRowStep, RowStatuses
  <2>3. a \in Used
    BY <2>1 DEF Used, Row, RowStatuses
  <2> QED  BY <2>1, <2>2, <2>3, OneRow
<1>2. asg'[a].inst = i /\ asg'[a].status # "ACTIVE"
  BY <1>1 DEF Closed, Row
<1>3. \A j \in Instances \ {i} : SameTeam(j)
  BY <1>1, <1>2 DEF SameTeam
<1>4. CASE RejectReoffer(i, a)
  <2>1. asg[a].status = "COMPLETED"
    BY <1>1, <1>4 DEF Closed
  <2>2. Active(i)' = Active(i)
    BY <1>1, <1>2, <2>1 DEF Active, RowsIn, Kept
  <2> QED  BY <1>1, <1>3, <1>4, <2>1, <2>2 DEF Active, RowsIn
<1>5. CASE ~RejectReoffer(i, a)
  <2>1. a \in Active(i)
    BY <1>1, <1>5 DEF Closed, Active, RowsIn
  <2>2. Active(i)' = Active(i) \ {a}
    BY <1>1, <1>2 DEF Active, RowsIn, Kept
  <2>3. Cardinality(Active(i) \ {a}) = Cardinality(Active(i)) - 1
    BY <2>1, ActiveCount, FS_RemoveElement
  <2> QED  BY <1>1, <1>3, <1>5, <2>1, <2>2, <2>3
<1> QED  BY <1>4, <1>5

(* Completing, buying out, returning, revoking or reopening to the market      *)
(* keeps the team; how many workers are left decides where the status goes.    *)
LEMMA TeamOneRow ==
    ASSUME TeamInv, NEW i \in Instances, NEW a \in Assignments, OneRowStep(i, a),
           NEW j \in Instances
    PROVE  Team(j)'
<1>1. TypeOK /\ Team(j) /\ Team(i)
  BY DEF TeamInv
<1>2. status' = [status EXCEPT ![i] = status'[i]]
  BY <1>1 DEF OneRowStep, Complete, Buyout, Release, Revoke, GiveBack, Leave, RejectReoffer,
              Move, SetStatus, TypeOK
<1>3. CASE j # i
  BY <1>1, <1>2, <1>3, OneRowTeams, TeamKept DEF TypeOK
<1>4. CASE j = i
  <2> DEFINE n == Cardinality(Active(i))
             left == Cardinality(Active(i)')
  <2>1. n \in Nat /\ IsFiniteSet(Active(i))
    BY <1>1, ActiveCount
  <2>2. CASE RejectReoffer(i, a)
    <3>1. status[i] = "COMPLETED" /\ status'[i] = "AVAILABLE"
      BY <1>1, <2>2 DEF RejectReoffer, Move, MayMove, Transitions, SetStatus, TypeOK
    <3>2. Active(i)' = {}
      BY <1>1, <2>2, <3>1, OneRowTeams DEF Team
    <3> QED  BY <1>4, <3>1, <3>2, TeamDissolves
  <2>3. CASE ~RejectReoffer(i, a)
    <3>1. /\ a \in Active(i) /\ Active(i)' = Active(i) \ {a} /\ left = n - 1
          /\ \A b \in Active(i)' : Kept(b)
      BY <1>1, <2>3, OneRowTeams DEF Active, RowsIn
    <3>2. /\ Apart(i)' /\ IsFiniteSet(Active(i)') /\ left \in Nat
          /\ Mode # "AT_LEAST" => left <= WorkerCount
      BY <3>1, TeamShrinks
    <3>3. left = 0 <=> Active(i)' = {}
      BY <3>2, FS_EmptySet
    <3>4. CASE Complete(i, a)
      <4>1. status[i] = "ASSIGNED"
        BY <3>4 DEF Complete
      <4>2. CASE LastSlot(i, a)
        <5>1. status'[i] = "COMPLETED" /\ Active(i)' = {}
          BY <1>1, <3>1, <3>4, <4>2 DEF Complete, LastSlot, Move, SetStatus, TypeOK
        <5> QED  BY <1>4, <5>1, TeamDissolves
      <4>3. CASE ~LastSlot(i, a)
        <5>1. status'[i] = "ASSIGNED" /\ Active(i)' # {}
          BY <3>1, <3>4, <4>1, <4>3 DEF Complete, LastSlot
        <5> QED  BY <1>4, <3>2, <5>1 DEF Team
      <4> QED  BY <4>2, <4>3
    <3>5. CASE ~Complete(i, a)
      <4>1. status[i] \in {"ASSIGNED", "AVAILABLE"} /\ \E e : Leave(i, e)
        BY <2>3, <3>5 DEF OneRowStep, Buyout, Release, Revoke, GiveBack
      <4>2. left \in Nat /\ MinRequired \in Nat \ {0}
        BY <3>2, MinRequiredType
      <4>3. /\ left >= MinRequired => status[i] = "ASSIGNED" /\ status'[i] = "ASSIGNED"
            /\ left < MinRequired => status'[i] = "AVAILABLE"
        BY <1>1, <2>1, <3>1, <4>1, <4>2 DEF Leave, Move, SetStatus, TypeOK
      <4>4. CASE left >= MinRequired
        BY <1>4, <3>2, <3>3, <4>2, <4>3, <4>4 DEF Team
      <4>5. CASE left < MinRequired
        BY <1>4, <3>2, <4>2, <4>3, <4>5 DEF Team, MinRequired
      <4> QED  BY <3>2, <4>2, <4>4, <4>5
    <3> QED  BY <3>4, <3>5
  <2> QED  BY <2>2, <2>3
<1> QED  BY <1>3, <1>4

(* A takeover adds one worker, in a free slot, who holds none there yet.       *)
LEMMA TeamVolunteer ==
    ASSUME TeamInv, NEW i \in Instances, NEW m \in Members, Volunteer(i, m),
           NEW j \in Instances
    PROVE  Team(j)'
<1>1. TypeOK /\ Team(j) /\ Team(i)
  BY DEF TeamInv
<1>2. PICK a \in Assignments, s \in Slots \ Occupied(i) :
         /\ Opened(a, i, m, "VOLUNTEERED", s) /\ \A b \in Assignments \ {a} : Kept(b)
  BY <1>1, VolunteerRow
<1>3. /\ asg[a].status = "NONE" /\ asg[a].inst \notin Instances
      /\ asg'[a].status = "ACTIVE" /\ asg'[a].inst = i
      /\ asg'[a].member = m /\ asg'[a].slot = s
  BY <1>1, <1>2, UnusedRow DEF Opened, NewRow
<1>4. status' = [status EXCEPT ![i] = status'[i]]
  BY <1>1 DEF Volunteer, Move, SetStatus, TypeOK
<1>5. CASE j # i
  <2>1. SameTeam(j)
    BY <1>2, <1>3, <1>5 DEF SameTeam
  <2> QED  BY <1>1, <1>4, <1>5, <2>1, TeamKept DEF TypeOK
<1>6. CASE j = i
  <2> DEFINE n == Cardinality(Active(i))
             more == Cardinality(Active(i)')
  <2>1. n \in Nat /\ IsFiniteSet(Active(i))
    BY <1>1, ActiveCount
  <2>2. Active(i)' = Active(i) \cup {a} /\ a \notin Active(i)
    BY <1>2, <1>3 DEF Active, RowsIn, Kept
  <2>3. more = n + 1 /\ Active(i)' # {}
    BY <2>1, <2>2, FS_AddElement
  <2>4. \A b \in Active(i) : asg'[b] = asg[b]
    BY <1>2, <2>2 DEF Kept, Active, RowsIn
  <2>5. \A b \in Active(i) : asg[b].slot # s /\ asg[b].member # m
    BY <1>2 DEF Occupied, Holders, Volunteer, MayVolunteer
  <2>6. Apart(i)'
    <3>1. \A b \in Active(i)' : b = a \/ b \in Active(i)
      BY <2>2
    <3> QED  BY <1>1, <1>3, <2>4, <2>5, <3>1 DEF Team, Apart
  <2>7. Mode # "AT_LEAST" => more <= WorkerCount
    BY <2>1, <2>3, MinRequiredType DEF Volunteer, MayVolunteer, Full
  <2>8. /\ status[i] \in {"AVAILABLE", "ASSIGNED"}
        /\ IF status[i] = "AVAILABLE" /\ more >= MinRequired
           THEN status'[i] = "ASSIGNED" ELSE status'[i] = status[i]
    BY <1>1, <2>3 DEF Volunteer, MayVolunteer, Move, SetStatus, TypeOK
  <2>9. status'[i] = "ASSIGNED" \/ (status'[i] = "AVAILABLE" /\ more < MinRequired)
    BY <2>1, <2>3, <2>8, MinRequiredType
  <2> QED  BY <1>6, <2>3, <2>6, <2>7, <2>9 DEF Team, MinRequired
<1> QED  BY <1>5, <1>6

(* A redo reopens the one slot of an occurrence that nobody works on.          *)
LEMMA TeamReassign ==
    ASSUME TeamInv, NEW i \in Instances, NEW a \in Assignments, RejectReassign(i, a),
           NEW j \in Instances
    PROVE  Team(j)'
<1>1. TypeOK /\ Team(j) /\ Team(i)
  BY DEF TeamInv
<1>2. Closed(a, "COMPLETED", "REJECTED") /\ asg[a] \in Row /\ asg[a].inst = i
  BY <1>1, ReassignRows
<1>3. PICK b \in Assignments \ {a} :
         /\ Opened(b, i, asg[a].member, "REOPENED_TO_ASSIGNEE", asg[a].slot)
         /\ \A c \in Assignments \ {a, b} : Kept(c)
  BY <1>1, ReassignRows
<1>4. /\ asg'[a].inst = i /\ asg'[a].status = "REJECTED" /\ asg[a].status = "COMPLETED"
      /\ asg[b].inst \notin Instances /\ asg'[b].inst = i /\ asg'[b].status = "ACTIVE"
  BY <1>1, <1>2, <1>3, UnusedRow DEF Closed, Opened, NewRow, Row
<1>5. /\ status[i] = "COMPLETED" /\ status'[i] = "ASSIGNED"
      /\ \A k \in Instances \ {i} : status'[k] = status[k]
  BY <1>1 DEF RejectReassign, Move, MayMove, Transitions, SetStatus, TypeOK
<1>6. CASE j # i
  <2>1. SameTeam(j)
    BY <1>2, <1>3, <1>4, <1>6 DEF SameTeam
  <2> QED  BY <1>1, <1>5, <1>6, <2>1, TeamKept
<1>7. CASE j = i
  <2>1. Active(i) = {}
    BY <1>1, <1>5 DEF Team
  <2>2. Active(i)' = {b}
    BY <1>3, <1>4, <2>1 DEF Active, RowsIn, Kept
  <2>3. Cardinality(Active(i)') = 1
    BY <2>2, FS_Singleton
  <2> QED  BY <1>5, <1>7, <2>2, <2>3, MinRequiredType, MarketAssumption DEF Team, Apart
<1> QED  BY <1>6, <1>7

(* Cancelling and expiring an occurrence leave nobody on it, unless it expires *)
(* off the market, where the rows of a short team stay.                        *)
LEMMA TeamEnds ==
    ASSUME TeamInv, NEW i \in Instances, Cancel(i) \/ Expire(i) \/ ExpirePenalty(i),
           NEW j \in Instances
    PROVE  Team(j)'
<1>1. TypeOK /\ Team(j) /\ Team(i)
  BY DEF TeamInv
<1>2. /\ Cancel(i) => status' = [status EXCEPT ![i] = "CANCELLED"]
      /\ Expire(i) => status' = [status EXCEPT ![i] = "EXPIRED"]
      /\ ExpirePenalty(i) => status' = [status EXCEPT ![i] = "AVAILABLE"]
  BY DEF Cancel, Expire, ExpirePenalty, End, SetStatus
<1>3. /\ \A a \in Assignments \ Active(i) : Kept(a)
      /\ \A a \in Active(i) : /\ asg[a] \in Row /\ asg[a].inst = i /\ asg[a].status = "ACTIVE"
                              /\ Kept(a) \/ \E to \in {"REVOKED", "EXPIRED"} : Closed(a, "ACTIVE", to)
                              /\ ~Expire(i) => ~Kept(a)
  <2>1. \A a \in Active(i) : asg[a] \in Row /\ asg[a].inst = i /\ asg[a].status = "ACTIVE"
    BY <1>1, RowTypes DEF Active, RowStatuses
  <2>2. \A a \in Active(i), to \in {"REVOKED", "EXPIRED"} : Closed(a, "ACTIVE", to) => ~Kept(a)
    BY <2>1 DEF Closed, Kept, Row
  <2> QED  BY <1>1, <2>1, <2>2, EndedRows
<1>4. \A a \in Active(i) : asg'[a].inst = i /\ (asg'[a].status = "ACTIVE" => Kept(a))
  <2>1. ASSUME NEW a \in Active(i), NEW to \in {"REVOKED", "EXPIRED"}, Closed(a, "ACTIVE", to)
        PROVE  asg'[a].inst = i /\ asg'[a].status # "ACTIVE"
    <3>1. asg[a] \in Row /\ asg[a].inst = i /\ asg'[a] = [asg[a] EXCEPT !.status = to]
      BY <1>3, <2>1 DEF Closed
    <3> QED  BY <3>1 DEF Row
  <2>2. \A a \in Active(i) : Kept(a) => asg'[a].inst = i
    BY <1>3 DEF Kept
  <2> QED  BY <1>3, <2>1, <2>2
<1>5. CASE j # i
  <2>1. SameTeam(j)
    BY <1>3, <1>4, <1>5 DEF SameTeam
  <2>2. status'[j] = status[j]
    BY <1>1, <1>2, <1>5 DEF TypeOK
  <2> QED  BY <1>1, <2>1, <2>2, TeamKept
<1>6. CASE j = i
  <2>1. \A a \in Active(i)' : a \in Active(i) /\ Kept(a)
    BY <1>3, <1>4 DEF Active, RowsIn, Kept
  <2>2. /\ Apart(i)' /\ Cardinality(Active(i)') \in Nat
        /\ Mode # "AT_LEAST" => Cardinality(Active(i)') <= WorkerCount
    BY <2>1, TeamShrinks
  <2>3. CASE Expire(i) /\ ~Cancel(i)
    <3>1. status'[i] = "EXPIRED"
      BY <1>1, <1>2, <2>3 DEF TypeOK
    <3> QED  BY <1>6, <2>2, <3>1 DEF Team
  <2>4. CASE ~Expire(i) \/ Cancel(i)
    <3>1. status'[i] \in {"CANCELLED", "AVAILABLE"}
      BY <1>1, <1>2, <2>4 DEF TypeOK
    <3>2. Active(i)' = {}
      <4>1. CASE ~Expire(i)
        BY <1>3, <2>1, <4>1
      <4>2. CASE Cancel(i)
        <5>1. \A a \in Active(i) : Closed(a, "ACTIVE", "REVOKED")
          BY <1>1, <4>2, EndedRows
        <5>2. \A a \in Active(i) : ~Kept(a)
          BY <1>3, <5>1 DEF Closed, Kept, Row
        <5> QED  BY <2>1, <5>2
      <4> QED  BY <2>4, <4>1, <4>2
    <3> QED  BY <1>6, <3>1, <3>2, TeamDissolves
  <2> QED  BY <2>3, <2>4
<1> QED  BY <1>5, <1>6

(* A draw fills as many rows as it has picks, and stops at the minimum.        *)
LEMMA DrawCount ==
    ASSUME TypeOK, NEW i \in Instances, Draw(i)
    PROVE  \E drawn \in SUBSET (Assignments \ Used) :
              /\ \A a \in Assignments \ drawn : Kept(a)
              /\ \A a \in drawn : asg'[a].inst = i /\ asg'[a].status = "ACTIVE" /\ ~Kept(a)
              /\ IsFiniteSet(drawn)
              /\ LET n == Cardinality(Active(i)) + Cardinality(drawn)
                 IN  /\ n <= MinRequired
                     /\ IF n = MinRequired THEN SetStatus(i, "ASSIGNED") ELSE UNCHANGED status
                     /\ slotCount' = IF Cardinality(drawn) = 0 THEN slotCount
                                     ELSE [slotCount EXCEPT ![i] = n]
<1> DEFINE count == Cardinality(Active(i))
<1>1. count \in Nat /\ MinRequired \in Nat
  BY ActiveCount, MinRequiredType
<1>2. PICK eligible \in SUBSET (Members \ Holders(i)) : DrawFrom(i, eligible)
  BY DEF Draw
<1>3. PICK n \in 0 .. (MinRequired - count) : \E pick \in Picks(i, n, eligible) :
       \E row \in InOrder(n, 1, Used, Assignments), slot \in InOrder(n, 0, Occupied(i), Slots) :
         /\ asg' = [a \in Assignments |->
                      IF \E k \in 1 .. n : row[k] = a
                      THEN LET k == CHOOSE k \in 1 .. n : row[k] = a
                           IN  NewRow(i, pick[k], "RANDOMLY_ASSIGNED", slot[k])
                      ELSE asg[a]]
         /\ IF count + n = MinRequired THEN SetStatus(i, "ASSIGNED") ELSE UNCHANGED status
         /\ slotCount' = IF n = 0 THEN slotCount ELSE [slotCount EXCEPT ![i] = count + n]
  BY <1>2 DEF DrawFrom
<1>4. PICK pick \in Picks(i, n, eligible), row \in InOrder(n, 1, Used, Assignments),
           slot \in InOrder(n, 0, Occupied(i), Slots) :
         /\ asg' = [a \in Assignments |->
                      IF \E k \in 1 .. n : row[k] = a
                      THEN LET k == CHOOSE k \in 1 .. n : row[k] = a
                           IN  NewRow(i, pick[k], "RANDOMLY_ASSIGNED", slot[k])
                      ELSE asg[a]]
         /\ IF count + n = MinRequired THEN SetStatus(i, "ASSIGNED") ELSE UNCHANGED status
         /\ slotCount' = IF n = 0 THEN slotCount ELSE [slotCount EXCEPT ![i] = count + n]
  BY <1>3
<1> DEFINE drawn == {row[k] : k \in 1 .. n}
<1>5. n \in Nat /\ count + n <= MinRequired
  BY <1>1
<1>6. /\ row \in [1 .. n -> Assignments \ Used]
      /\ \A k \in 1 .. n : row[k] \notin {row[j] : j \in 1 .. (k - 1)}
  BY DEF InOrder, Lowest
<1>7. \A j, k \in 1 .. n : row[j] = row[k] => j = k
  <2>1. \A j, k \in 1 .. n : j < k => row[j] # row[k]
    BY <1>5, <1>6
  <2>2. \A j, k \in 1 .. n : j # k => j < k \/ k < j
    BY <1>5
  <2> QED  BY <2>1, <2>2
<1>8. drawn \in SUBSET (Assignments \ Used)
  BY <1>6
<1>9. IsFiniteSet(drawn) /\ Cardinality(drawn) = n
  <2>1. row \in Bijection(1 .. n, drawn)
    <3>1. row \in [1 .. n -> drawn] /\ \A t \in drawn : \E k \in 1 .. n : row[k] = t
      BY <1>6
    <3> QED  BY <1>7, <3>1, Fun_IsBij
  <2>2. ExistsBijection(1 .. n, drawn)
    BY <2>1 DEF ExistsBijection
  <2>3. IsFiniteSet(1 .. n)
    BY <1>5, FS_Interval
  <2> QED  BY <1>5, <2>2, <2>3, FS_Bijection, FS_CountingElements
<1>10. \A a \in Assignments \ drawn : Kept(a)
  BY <1>4 DEF Kept
<1>11. ASSUME NEW a \in drawn
       PROVE  asg'[a].inst = i /\ asg'[a].status = "ACTIVE" /\ ~Kept(a)
  <2>1. \E k \in 1 .. n : row[k] = a
    BY <1>11
  <2>2. a \in Assignments /\ asg[a].status = "NONE"
    BY <1>8, <1>11 DEF Used
  <2>3. \E m, s : asg'[a] = NewRow(i, m, "RANDOMLY_ASSIGNED", s)
    BY <1>4, <2>1, <2>2
  <2> QED  BY <2>2, <2>3 DEF NewRow, Kept
<1> QED  BY <1>4, <1>5, <1>8, <1>9, <1>10, <1>11

(* A step on one occurrence leaves the others as they are.                     *)
LEMMA OthersKept ==
    ASSUME TypeOK, NEW i \in Instances, InstanceStep(i), NEW j \in Instances \ {i}
    PROVE  /\ SameTeam(j)
           /\ status'[j] = status[j] /\ slotCount'[j] = slotCount[j] /\ value'[j] = value[j]
<1> USE DEF TypeOK, SetStatus, Move
<1>1. CASE RowlessStep(i)
  <2>1. SameTeam(j)
    BY <1>1, Rowless DEF SameTeam, Kept
  <2> QED  BY <1>1, <2>1 DEF RowlessStep, MaterializeDue, AdminMaterialize, Create, Publish,
                             Pause, Resume, InstanceAction, Grow
<1>2. CASE \E m \in Members : Volunteer(i, m)
  <2>1. PICK m \in Members : Volunteer(i, m)
    BY <1>2
  <2>2. PICK a \in Assignments, s \in Slots \ Occupied(i) :
           Opened(a, i, m, "VOLUNTEERED", s) /\ \A b \in Assignments \ {a} : Kept(b)
    BY <2>1, VolunteerRow
  <2>3. asg[a].inst \notin Instances /\ asg'[a].inst = i
    BY <2>2, UnusedRow DEF Opened, NewRow
  <2>4. SameTeam(j)
    BY <2>2, <2>3 DEF SameTeam
  <2> QED  BY <2>1, <2>4 DEF Volunteer
<1>3. CASE Draw(i)
  <2>1. PICK drawn \in SUBSET (Assignments \ Used) :
           /\ \A a \in Assignments \ drawn : Kept(a)
           /\ \A a \in drawn : asg'[a].inst = i
           /\ SetStatus(i, "ASSIGNED") \/ UNCHANGED status
           /\ UNCHANGED slotCount \/ \E n : slotCount' = [slotCount EXCEPT ![i] = n]
    BY <1>3, DrawCount
  <2>2. \A a \in drawn : asg[a].inst \notin Instances
    BY <2>1, UnusedRow DEF Used
  <2>3. SameTeam(j)
    BY <2>1, <2>2 DEF SameTeam
  <2> QED  BY <1>3, <2>1, <2>3, DrawRows
<1>4. CASE \E a \in Assignments : OneRowStep(i, a)
  <2>1. SameTeam(j)
    BY <1>4, OneRowTeams
  <2> QED  BY <1>4, <2>1 DEF OneRowStep, Complete, Buyout, Release, Revoke, GiveBack, Leave,
                             RejectReoffer
<1>5. CASE \E a \in Assignments : RejectReassign(i, a)
  <2>1. PICK a \in Assignments : RejectReassign(i, a)
    BY <1>5
  <2>2. Closed(a, "COMPLETED", "REJECTED") /\ asg[a] \in Row /\ asg[a].inst = i
    BY <2>1, ReassignRows
  <2>3. PICK b \in Assignments \ {a} :
           /\ Opened(b, i, asg[a].member, "REOPENED_TO_ASSIGNEE", asg[a].slot)
           /\ \A c \in Assignments \ {a, b} : Kept(c)
    BY <2>1, ReassignRows
  <2>4. asg'[a].inst = i /\ asg[b].inst \notin Instances /\ asg'[b].inst = i
    BY <2>2, <2>3, UnusedRow DEF Closed, Opened, NewRow, Row
  <2>5. SameTeam(j)
    BY <2>2, <2>3, <2>4 DEF SameTeam
  <2> QED  BY <2>1, <2>5 DEF RejectReassign
<1>6. CASE Cancel(i) \/ Expire(i) \/ ExpirePenalty(i)
  <2>1. \A a \in Assignments \ Active(i) : Kept(a)
    BY <1>6, EndedRows
  <2>2. \A a \in Active(i) : asg[a] \in Row /\ asg[a].inst = i
    BY RowTypes DEF Active, RowStatuses
  <2>3. \A a \in Active(i) : Kept(a) \/ Closed(a, "ACTIVE", "REVOKED") \/ Closed(a, "ACTIVE", "EXPIRED")
    BY <1>6, EndedRows
  <2>4. \A a \in Active(i) : asg'[a].inst = i
    BY <2>2, <2>3 DEF Kept, Closed, Row
  <2>5. SameTeam(j)
    BY <2>1, <2>2, <2>4 DEF SameTeam
  <2> QED  BY <1>6, <2>5 DEF Cancel, Expire, ExpirePenalty, End
<1> QED  BY <1>1, <1>2, <1>3, <1>4, <1>5, <1>6 DEF InstanceStep, RowlessStep, OneRowStep

(* Drawn members are different people in different free slots, and as many as  *)
(* were short of the minimum.                                                  *)
LEMMA TeamDraw ==
    ASSUME TeamInv, NEW i \in Instances, Draw(i), NEW j \in Instances
    PROVE  Team(j)'
<1>1. TypeOK /\ Team(j) /\ Team(i) /\ status[i] = "AVAILABLE"
  BY DrawRows DEF TeamInv
<1>2. PICK drawn \in SUBSET (Assignments \ Used) :
         /\ \A a \in Assignments \ drawn : Kept(a)
         /\ \A a \in drawn : asg'[a].inst = i /\ asg'[a].status = "ACTIVE" /\ ~Kept(a)
         /\ IsFiniteSet(drawn)
         /\ LET n == Cardinality(Active(i)) + Cardinality(drawn)
            IN  /\ n <= MinRequired
                /\ IF n = MinRequired THEN SetStatus(i, "ASSIGNED") ELSE UNCHANGED status
  BY <1>1, DrawCount
<1>3. \A a \in drawn : asg[a].status = "NONE" /\ asg[a].inst \notin Instances
  BY <1>1, <1>2, UnusedRow DEF Used
<1>4. CASE j # i
  <2>1. SameTeam(j)
    BY <1>2, <1>3, <1>4 DEF SameTeam
  <2>2. status'[j] = status[j]
    BY <1>1, <1>2, <1>4 DEF SetStatus, TypeOK
  <2> QED  BY <1>1, <2>1, <2>2, TeamKept
<1>5. CASE j = i
  <2> DEFINE count == Cardinality(Active(i))
             more == Cardinality(Active(i)')
  <2>1. count \in Nat /\ IsFiniteSet(Active(i)) /\ Cardinality(drawn) \in Nat
    BY <1>1, <1>2, ActiveCount, FS_CardinalityType
  <2>2. Active(i)' = Active(i) \cup drawn /\ Active(i) \cap drawn = {}
    BY <1>2, <1>3 DEF Active, RowsIn, Kept
  <2>3. IsFiniteSet(Active(i)') /\ more = count + Cardinality(drawn)
    <3>1. Cardinality(Active(i) \cap drawn) = 0
      BY <2>2, FS_EmptySet
    <3>2. /\ IsFiniteSet(Active(i) \cup drawn)
          /\ Cardinality(Active(i) \cup drawn)
                = count + Cardinality(drawn) - Cardinality(Active(i) \cap drawn)
      BY <1>2, <2>1, FS_Union
    <3> QED  BY <2>1, <2>2, <3>1, <3>2
  <2>4. Apart(i)'
    <3>1. ASSUME NEW a \in Active(i)', NEW b \in Active(i)', a # b
          PROVE  asg'[a].slot # asg'[b].slot /\ asg'[a].member # asg'[b].member
      <4>1. \A c \in Active(i)' : c \in Assignments /\ (c \in drawn \/ (c \in Active(i) /\ Kept(c)))
        BY <1>2, <2>2 DEF Active, RowsIn
      <4>2. \A c \in drawn : \E m \in Members \ Holders(i), s \in Slots \ Occupied(i) :
               asg'[c].member = m /\ asg'[c].slot = s
        <5>1. ASSUME NEW c \in drawn
              PROVE  \E m \in Members \ Holders(i), s \in Slots \ Occupied(i) :
                        asg'[c] = NewRow(i, m, "RANDOMLY_ASSIGNED", s)
          <6>1. c \in Assignments /\ asg'[c] # asg[c]
            BY <1>2, <5>1 DEF Kept
          <6> QED  BY <1>1, <6>1, DrawRows
        <5>2. \A m, s : /\ NewRow(i, m, "RANDOMLY_ASSIGNED", s).member = m
                        /\ NewRow(i, m, "RANDOMLY_ASSIGNED", s).slot = s
          BY DEF NewRow
        <5> HIDE DEF NewRow
        <5> QED  BY <5>1, <5>2
      <4>3. \A c \in Active(i) : asg[c].member \in Holders(i) /\ asg[c].slot \in Occupied(i)
        BY DEF Holders, Occupied
      <4>4. CASE a \in drawn /\ b \in drawn
        BY <1>1, <1>2, <3>1, <4>1, <4>4, DrawRows DEF Kept
      <4>5. CASE a \in drawn /\ b \in Active(i) /\ Kept(b)
        BY <4>2, <4>3, <4>5 DEF Kept
      <4>6. CASE b \in drawn /\ a \in Active(i) /\ Kept(a)
        BY <4>2, <4>3, <4>6 DEF Kept
      <4>7. CASE a \in Active(i) /\ Kept(a) /\ b \in Active(i) /\ Kept(b)
        BY <1>1, <3>1, <4>7 DEF Team, Apart, Kept
      <4> QED  BY <4>1, <4>4, <4>5, <4>6, <4>7
    <3> QED  BY <3>1 DEF Apart
  <2>5. /\ more <= MinRequired /\ more \in Nat
        /\ IF more = MinRequired THEN status'[i] = "ASSIGNED" ELSE status'[i] = "AVAILABLE"
    BY <1>1, <1>2, <2>1, <2>3 DEF SetStatus, TypeOK
  <2>6. Active(i)' = {} => more = 0
    BY FS_EmptySet
  <2>7. /\ Mode # "AT_LEAST" => more <= WorkerCount
        /\ status'[i] = "ASSIGNED" => Active(i)' # {}
        /\ status'[i] = "ASSIGNED" \/ (status'[i] = "AVAILABLE" /\ more < MinRequired)
    BY <2>5, <2>6, MinRequiredType
  <2> HIDE DEF more
  <2> QED  BY <1>5, <2>4, <2>7 DEF Team, MinRequired, more
<1> QED  BY <1>4, <1>5

(* A step that opens or closes no row moves an occurrence only while nobody is *)
(* on it, or from one status with a free place to another.                     *)
LEMMA TeamRowless ==
    ASSUME TeamInv, NEW i \in Instances, RowlessStep(i), NEW j \in Instances
    PROVE  Team(j)'
<1>1. TypeOK /\ Team(j) /\ UNCHANGED asg
  BY Rowless DEF TeamInv
<1>2. SameTeam(j) /\ Active(j)' = Active(j)
  BY <1>1 DEF SameTeam, Kept, Active, RowsIn
<1>3. CASE status'[j] = status[j]
  BY <1>1, <1>2, <1>3, TeamKept
<1>4. CASE status'[j] # status[j]
  <2>1. /\ status[j] \in {"NONE", "DRAFT", "AVAILABLE", "PAUSED"}
        /\ status'[j] \in {"AVAILABLE", "PAUSED", "DRAFT"}
        /\ status'[j] = "DRAFT" => status[j] = "NONE"
    BY <1>1, <1>4 DEF RowlessStep, MaterializeDue, AdminMaterialize, Create, Publish, Pause,
         Resume, InstanceAction, Grow, SetStatus, TypeOK
  <2>2. Cardinality(Active(j)) < MinRequired
    BY <1>1, <2>1, FS_EmptySet, MinRequiredType DEF Team
  <2>3. Cardinality(Active(j))' = Cardinality(Active(j)) /\ Apart(j)'
    BY <1>1, <1>2 DEF Team, Apart
  <2> QED  BY <1>1, <1>2, <2>1, <2>2, <2>3 DEF Team, MinRequired
<1> QED  BY <1>3, <1>4

(* Takeovers, draws, returns, redos, endings and moves on and off the market,  *)
(* in any order, keep rows, slots, headcount and status in agreement.          *)
THEOREM TeamsInvariant == Spec => []TeamInv
<1>1. Init => TeamInv
  <2>1. Init => \A i \in Instances : Active(i) = {} /\ status[i] = "NONE"
    BY DEF Init, Active, RowsIn, NoRow
  <2>2. Init => \A i \in Instances : Team(i)
    BY <2>1, FS_EmptySet, MinRequiredType DEF Team, Apart
  <2> QED  BY <2>2, TypeInit DEF TeamInv
<1>2. TeamInv /\ TypeOK' /\ [Next]_vars => TeamInv'
  <2> SUFFICES ASSUME TeamInv, [Next]_vars, NEW j \in Instances PROVE Team(j)'
    BY DEF TeamInv
  <2>1. CASE \E i \in Instances : InstanceStep(i)
    <3>1. PICK i \in Instances : InstanceStep(i)
      BY <2>1
    <3>2. CASE RowlessStep(i)
      BY <3>2, TeamRowless
    <3>3. CASE \E m \in Members : Volunteer(i, m)
      BY <3>3, TeamVolunteer
    <3>4. CASE Draw(i)
      BY <3>4, TeamDraw
    <3>5. CASE \E a \in Assignments : OneRowStep(i, a)
      BY <3>5, TeamOneRow
    <3>6. CASE \E a \in Assignments : RejectReassign(i, a)
      BY <3>6, TeamReassign
    <3>7. CASE Cancel(i) \/ Expire(i) \/ ExpirePenalty(i)
      BY <3>7, TeamEnds
    <3> QED  BY <3>1, <3>2, <3>3, <3>4, <3>5, <3>6, <3>7 DEF InstanceStep, RowlessStep, OneRowStep
  <2>2. CASE ElsewhereStep \/ UNCHANGED vars
    <3>1. UNCHANGED <<asg, status>>
      BY <2>2, Rowless
    <3>2. SameTeam(j) /\ status'[j] = status[j] /\ Team(j)
      BY <3>1 DEF SameTeam, Kept, TeamInv
    <3> QED  BY <3>2, TeamKept
  <2> QED  BY <2>1, <2>2 DEF Next, ElsewhereStep
<1> QED  BY <1>1, <1>2, TypeSafety, PTL DEF Spec

(* The workers of an occurrence hold different slots and are different         *)
(* people, never more than its mode allows, and its status says whether it is  *)
(* staffed, whichever of takeover, draw, return, redo, pause and expiry came   *)
(* before (worker-slots.ts, activeSlotKey).                                    *)
THEOREM TeamsAlwaysAddUp == Spec => []TeamsAddUp
<1>1. TeamInv => TeamsAddUp
  BY DEF TeamInv, Team, Apart, TeamsAddUp, SlotsExclusive, HeadcountWithinMax,
         StaffingMatchesStatus
<1> QED  BY <1>1, TeamsInvariant, PTL
-----------------------------------------------------------------------------
(* A deadline.  Until an occurrence is penalised none of its rows has a fine;  *)
(* afterwards it does not expire and no member has two.                        *)
Deadline(i) ==
    /\ ~penalised[i] => \A a \in Assignments : asg[a].inst = i => ledger[a].penalty = 0
    /\ penalised[i] =>
         /\ status[i] # "EXPIRED"
         /\ \A a, b \in Assignments :
               /\ asg[a].inst = i /\ asg[b].inst = i /\ asg[a].member = asg[b].member
               /\ ledger[a].penalty > 0 /\ ledger[b].penalty > 0
               => a = b

DeadlineInv == \A i \in Instances : Deadline(i)

(* Only a penalising expiry writes fines, and only on the rows it closes.      *)
LEMMA Fines ==
    ASSUME TypeOK, [Next]_vars
    PROVE  \/ \E i \in Instances : ExpirePenalty(i)
           \/ /\ penalised' = penalised
              /\ \A a \in Assignments : ledger'[a].penalty = ledger[a].penalty
              /\ \A i \in Instances : status'[i] = "EXPIRED" =>
                    status[i] = "EXPIRED" \/ ~penalised[i]
<1> DEFINE NoFine == /\ penalised' = penalised
                     /\ \A a \in Assignments : ledger'[a].penalty = ledger[a].penalty
           NoExpiry == \A i \in Instances : status'[i] = "EXPIRED" =>
                          status[i] = "EXPIRED" \/ ~penalised[i]
<1>1. \A a \in Assignments : ledger[a] \in Entry
  BY DEF TypeOK
<1>2. \A a \in Assignments, n \in Nat :
         /\ [ledger[a] EXCEPT !.reward = n].penalty = ledger[a].penalty
         /\ [ledger[a] EXCEPT !.clawback = n].penalty = ledger[a].penalty
         /\ [ledger[a] EXCEPT !.buyout = n].penalty = ledger[a].penalty
  <2>1. ASSUME NEW e \in Entry, NEW n \in Nat
        PROVE  /\ [e EXCEPT !.reward = n].penalty = e.penalty
               /\ [e EXCEPT !.clawback = n].penalty = e.penalty
               /\ [e EXCEPT !.buyout = n].penalty = e.penalty
    BY DEF Entry
  <2> QED  BY <1>1, <2>1
<1>3. UNCHANGED <<asg, ledger>> =>
         \A a \in Assignments : ledger'[a].penalty = ledger[a].penalty
  OBVIOUS
<1>4. ASSUME NEW a \in Assignments, NEW m, NEW n \in Nat, PostReward(a, m, n)
      PROVE  \A b \in Assignments : ledger'[b].penalty = ledger[b].penalty
  <2>1. ledger'[a] = ledger[a] \/ ledger'[a] = [ledger[a] EXCEPT !.reward = n]
    BY <1>4, PostRewardPoints DEF SamePoints
  <2>2. ledger'[a].penalty = ledger[a].penalty
    BY <1>2, <2>1
  <2> QED  BY <1>4, <2>2, PostRewardPoints DEF SamePoints
<1>5. ASSUME NEW a \in Assignments, Clawback(a)
      PROVE  \A b \in Assignments : ledger'[b].penalty = ledger[b].penalty
  <2>1. Reversible(a) \in Nat /\ ledger[a].clawback \in Nat
    BY <1>1, Amounts DEF Entry
  <2>2. ledger'[a] = [ledger[a] EXCEPT !.clawback = ledger[a].clawback + Reversible(a)]
    BY <1>5 DEF Clawback, TypeOK
  <2>3. ledger'[a].penalty = ledger[a].penalty
    BY <1>2, <2>1, <2>2
  <2> QED  BY <1>5, <2>3, ClawbackPoints DEF SamePoints
<1>6. CASE \E i \in Instances : InstanceStep(i) /\ ~ExpirePenalty(i)
  <2>1. PICK i \in Instances : InstanceStep(i) /\ ~ExpirePenalty(i)
    BY <1>6
  <2>2. CASE RowlessStep(i)
    <3>1. penalised' = penalised /\ NoExpiry
      BY <2>2 DEF RowlessStep, MaterializeDue, AdminMaterialize, Create, Publish, Pause, Resume,
                  InstanceAction, Grow, SetStatus, TypeOK
    <3> QED  BY <1>3, <2>2, <3>1, Rowless
  <2>3. CASE \E m \in Members : Volunteer(i, m)
    <3>1. PICK m \in Members : Volunteer(i, m)
      BY <2>3
    <3>2. penalised' = penalised /\ NoExpiry
      BY <3>1 DEF Volunteer, Move, SetStatus, TypeOK
    <3>3. VoluntaryReward(CurrentRule, value[i], "ON_ACCEPT") \in Nat
      BY RewardTypes
    <3> QED  BY <1>4, <3>1, <3>2, <3>3, VolunteerRow
  <2>4. CASE Draw(i)
    BY <2>4, DrawRows DEF SetStatus, TypeOK
  <2>5. ASSUME NEW a \in Assignments, OneRowStep(i, a) PROVE NoFine /\ NoExpiry
    <3>1. asg[a] \in Row /\ asg[a].inst = i
      BY <2>5, OneRow
    <3>2. CASE Complete(i, a)
      <4>1. penalised' = penalised /\ NoExpiry
        BY <3>2 DEF Complete, Move, SetStatus, TypeOK
      <4>2. PaidOut(a) \in Nat /\ PostReward(a, asg[a].member, PaidOut(a))
        BY <3>1, <3>2, RewardTypes DEF Complete, PaidOut
      <4> QED  BY <1>4, <4>1, <4>2
    <3>3. CASE Buyout(i, a)
      <4>1. penalised' = penalised /\ NoExpiry
        BY <3>3 DEF Buyout, Leave, Move, SetStatus, TypeOK
      <4>2. BuyoutCost(value[i]) \in Nat
        BY Amounts DEF TypeOK
      <4>3. /\ ledger'[a] = [ledger[a] EXCEPT !.buyout = BuyoutCost(value[i])]
            /\ \A b \in Assignments \ {a} : ledger'[b] = ledger[b]
        BY <3>3 DEF Buyout, TypeOK
      <4>4. ledger'[a].penalty = ledger[a].penalty
        BY <1>2, <4>2, <4>3
      <4> QED  BY <4>1, <4>3, <4>4
    <3>4. CASE Release(i, a) \/ Revoke(i, a)
      <4>1. penalised' = penalised /\ NoExpiry /\ ClawbackIfPaidOnAccept(a)
        BY <3>4 DEF Release, Revoke, GiveBack, Leave, Move, SetStatus, TypeOK
      <4> QED  BY <1>5, <4>1 DEF ClawbackIfPaidOnAccept
    <3>5. CASE RejectReoffer(i, a)
      <4>1. penalised' = penalised /\ NoExpiry /\ Clawback(a)
        BY <3>5 DEF RejectReoffer, Move, SetStatus, TypeOK
      <4> QED  BY <1>5, <4>1
    <3> QED  BY <2>5, <3>2, <3>3, <3>4, <3>5 DEF OneRowStep
  <2>6. CASE \E a \in Assignments : RejectReassign(i, a)
    <3>1. penalised' = penalised /\ NoExpiry
      BY <2>6 DEF RejectReassign, Move, SetStatus, TypeOK
    <3> QED  BY <1>5, <2>6, <3>1 DEF RejectReassign
  <2>7. CASE Cancel(i)
    <3>1. penalised' = penalised /\ NoExpiry
      BY <2>7 DEF Cancel, End, SetStatus, TypeOK
    <3> DEFINE undo == [a \in Assignments |->
                          IF Pinned(a).timing = "ON_ACCEPT" THEN Reversible(a) ELSE 0]
    <3>2. \A a \in Assignments : ledger[a].clawback + undo[a] \in Nat
      BY <1>1, Amounts DEF Entry
    <3>3. \A a \in Assignments :
             \/ ledger'[a] = ledger[a]
             \/ ledger'[a] = [ledger[a] EXCEPT !.clawback = ledger[a].clawback + undo[a]]
      BY <2>7 DEF Cancel
    <3> HIDE DEF undo
    <3> QED  BY <1>2, <3>1, <3>2, <3>3
  <2>8. CASE Expire(i)
    BY <2>8 DEF Expire, MayExpire, End, SetStatus, TypeOK
  <2> QED  BY <2>1, <2>2, <2>3, <2>4, <2>5, <2>6, <2>7, <2>8
           DEF InstanceStep, RowlessStep, OneRowStep
<1>7. CASE ElsewhereStep \/ UNCHANGED vars
  BY <1>7, Rowless
<1> QED  BY <1>6, <1>7 DEF Next, ElsewhereStep

(* A fine is only written on an occurrence that is not penalised yet, to the   *)
(* holders of its open rows, who are different people.                         *)
LEMMA DeadlineStep ==
    ASSUME TeamInv, SettledInv, DeadlineInv, [Next]_vars, NEW j \in Instances
    PROVE  Deadline(j)'
<1>1. TypeOK /\ Deadline(j)
  BY DEF TeamInv, DeadlineInv
<1>2. \A a \in Assignments :
         /\ asg[a].status = "NONE" => ledger[a].penalty = 0
         /\ asg[a].status # "NONE" => asg'[a].inst = asg[a].inst /\ asg'[a].member = asg[a].member
  <2>1. ASSUME NEW a \in Assignments, asg[a].status = "NONE" PROVE ledger[a].penalty = 0
    BY <2>1 DEF SettledInv, Settled, NoEntry
  <2>2. ASSUME NEW a \in Assignments, asg[a].status # "NONE"
        PROVE  asg'[a].inst = asg[a].inst /\ asg'[a].member = asg[a].member
    <3>1. [asg'[a] EXCEPT !.status = "NONE"] = [asg[a] EXCEPT !.status = "NONE"]
      BY <1>1, <2>2, StepCloses DEF OnlyCloses
    <3>2. asg[a] \in Row
      BY <1>1, <2>2, RowTypes
    <3> QED  BY <3>1, <3>2 DEF Row
  <2> QED  BY <2>1, <2>2
<1>3. CASE \E i \in Instances : ExpirePenalty(i)
  <2>1. PICK i \in Instances : ExpirePenalty(i)
    BY <1>3
  <2>2. /\ ~penalised[i] /\ penalised' = [penalised EXCEPT ![i] = TRUE]
        /\ status' = [status EXCEPT ![i] = "AVAILABLE"]
        /\ \A a \in Assignments \ Active(i) : ledger'[a] = ledger[a]
    BY <2>1 DEF ExpirePenalty, MayExpire, SetStatus
  <2>3. \A a \in Active(i) : asg[a].status # "NONE" /\ asg[a].inst = i
    BY DEF Active, RowsIn
  <2>4. \A a \in Assignments : asg[a].inst = i => ledger[a].penalty = 0
    BY <2>2 DEF DeadlineInv, Deadline
  <2>5. CASE j = i
    <3>1. penalised'[i] /\ status'[i] # "EXPIRED"
      BY <1>1, <2>2 DEF TypeOK
    <3>2. ASSUME NEW a \in Assignments, asg'[a].inst = i, ledger'[a].penalty > 0
          PROVE  a \in Active(i) /\ asg'[a].member = asg[a].member
      BY <1>2, <2>2, <2>3, <2>4, <3>2
    <3> QED  BY <1>1, <2>5, <3>1, <3>2 DEF TeamInv, Team, Apart, Deadline
  <2>6. CASE j # i
    <3>1. penalised'[j] = penalised[j] /\ status'[j] = status[j]
      BY <1>1, <2>2, <2>6 DEF TypeOK
    <3>2. \A a \in Assignments : asg'[a].inst = j => ledger'[a] = ledger[a]
      BY <1>2, <2>2, <2>3, <2>6
    <3> QED  BY <1>1, <1>2, <3>1, <3>2 DEF Deadline
  <2> QED  BY <2>5, <2>6
<1>4. CASE /\ penalised' = penalised
           /\ \A a \in Assignments : ledger'[a].penalty = ledger[a].penalty
           /\ \A i \in Instances : status'[i] = "EXPIRED" =>
                 status[i] = "EXPIRED" \/ ~penalised[i]
  BY <1>1, <1>2, <1>4 DEF Deadline
<1> QED  BY <1>1, <1>3, <1>4, Fines

(* One deadline is acted on once, whatever happens to the chore after it was   *)
(* missed: it is neither expired later nor charged to a member again.          *)
THEOREM DeadlineIsChargedOnce == Spec => []DeadlineChargedOnce
<1>1. Init => DeadlineInv
  BY DEF Init, DeadlineInv, Deadline, NoEntry
<1>2. TeamInv /\ SettledInv /\ DeadlineInv /\ [Next]_vars => DeadlineInv'
  BY DeadlineStep DEF DeadlineInv
<1>3. DeadlineInv => DeadlineChargedOnce
  BY DEF DeadlineInv, Deadline, DeadlineChargedOnce
<1> QED  BY <1>1, <1>2, <1>3, TeamsInvariant, PointsFollowRows, PTL DEF Spec

-----------------------------------------------------------------------------
(* What members are shown.  The cached count never exceeds the workers and is  *)
(* exact except while a redo is under way; an expired occurrence's is not used.*)
Counted(i) ==
    status[i] # "EXPIRED" =>
        /\ slotCount[i] <= Cardinality(Active(i))
        /\ slotCount[i] = Cardinality(Active(i)) \/ RedoUnderWay(i)

CountInv == \A i \in Instances : Counted(i)

(* An occurrence a step leaves alone keeps an honest count.                    *)
LEMMA CountKept ==
    ASSUME NEW i \in Instances, Counted(i), Active(i)' = Active(i), \A a \in Active(i) : Kept(a),
           slotCount'[i] = slotCount[i], status[i] # "EXPIRED"
    PROVE  Counted(i)'
<1>1. Cardinality(Active(i))' = Cardinality(Active(i))
  OBVIOUS
<1>2. RedoUnderWay(i)' <=> RedoUnderWay(i)
  BY DEF RedoUnderWay, Kept
<1> QED  BY <1>1, <1>2 DEF Counted

(* A count that was just written from the rows is honest.                      *)
LEMMA CountExact ==
    ASSUME NEW i \in Instances, slotCount'[i] = Cardinality(Active(i)'),
           Cardinality(Active(i)') \in Nat
    PROVE  Counted(i)'
BY DEF Counted

(* A count that stays with the rows it counted is honest.                      *)
LEMMA CountSame ==
    ASSUME NEW i \in Instances, Counted(i), SameTeam(i),
           slotCount'[i] = slotCount[i], status'[i] = status[i]
    PROVE  Counted(i)'
<1>1. Active(i)' = Active(i) /\ \A a \in Active(i) : Kept(a)
  BY SameTeamActive
<1>2. CASE status[i] = "EXPIRED"
  BY <1>2 DEF Counted
<1> QED  BY <1>1, <1>2, CountKept

(* Every step keeps the cached count honest, though redos do not write it.     *)
LEMMA CountStep ==
    ASSUME TeamInv, CountInv, NEW i \in Instances, InstanceStep(i)
    PROVE  Counted(i)'
<1> DEFINE count == Cardinality(Active(i))
<1>1. /\ TypeOK /\ Team(i) /\ Counted(i)
      /\ slotCount \in [Instances -> Nat] /\ count \in Nat /\ IsFiniteSet(Active(i))
  BY ActiveCount DEF TeamInv, CountInv, TypeOK
<1>2. Cardinality(Active(i)') \in Nat
  <2>1. MaxAssignments \in Nat
    BY MarketAssumption
  <2>2. Active(i)' \subseteq Assignments
    BY DEF Active, RowsIn
  <2>3. IsFiniteSet(Assignments)
    BY <2>1, FS_Interval DEF Assignments
  <2> QED  BY <2>2, <2>3, FS_Subset, FS_CardinalityType
<1>3. CASE RowlessStep(i)
  <2>1. /\ slotCount'[i] = slotCount[i]
        /\ status[i] # "EXPIRED" \/ status'[i] = status[i]
    BY <1>1, <1>3 DEF RowlessStep, MaterializeDue, AdminMaterialize, Create, Publish, Pause,
         Resume, InstanceAction, Grow, SetStatus
  <2>2. SameTeam(i) /\ Active(i)' = Active(i) /\ \A a \in Active(i) : Kept(a)
    BY <1>3, Rowless DEF SameTeam, Kept, Active, RowsIn
  <2> QED  BY <1>1, <2>1, <2>2, CountKept, CountSame
<1>4. CASE \E m \in Members : Volunteer(i, m)
  <2>1. PICK m \in Members : Volunteer(i, m)
    BY <1>4
  <2>2. PICK a \in Assignments, s \in Slots \ Occupied(i) :
           Opened(a, i, m, "VOLUNTEERED", s) /\ \A b \in Assignments \ {a} : Kept(b)
    BY <1>1, <2>1, VolunteerRow
  <2>3. asg[a].status = "NONE" /\ asg'[a].status = "ACTIVE" /\ asg'[a].inst = i
    BY <2>2 DEF Opened, NewRow
  <2>4. Active(i)' = Active(i) \cup {a} /\ a \notin Active(i)
    BY <2>2, <2>3 DEF Active, RowsIn, Kept
  <2>5. Cardinality(Active(i)') = count + 1
    BY <1>1, <2>4, FS_AddElement
  <2>6. slotCount'[i] = count + 1
    BY <1>1, <2>1 DEF Volunteer
  <2> QED  BY <1>2, <2>5, <2>6, CountExact
<1>5. CASE Draw(i)
  <2>1. PICK drawn \in SUBSET (Assignments \ Used) :
           /\ \A a \in Assignments \ drawn : Kept(a)
           /\ \A a \in drawn : asg'[a].inst = i /\ asg'[a].status = "ACTIVE"
           /\ IsFiniteSet(drawn)
           /\ slotCount' = IF Cardinality(drawn) = 0 THEN slotCount
                           ELSE [slotCount EXCEPT ![i] = count + Cardinality(drawn)]
    BY <1>1, <1>5, DrawCount
  <2>2. Active(i)' = Active(i) \cup drawn /\ Active(i) \cap drawn = {}
    BY <2>1 DEF Active, RowsIn, Kept, Used
  <2>3. CASE Cardinality(drawn) = 0
    <3>1. drawn = {}
      BY <2>1, <2>3, FS_EmptySet
    <3>2. Active(i)' = Active(i) /\ \A a \in Active(i) : Kept(a)
      BY <2>1, <2>2, <3>1 DEF Active, RowsIn
    <3>3. slotCount'[i] = slotCount[i] /\ status[i] # "EXPIRED"
      BY <1>1, <1>5, <2>1, <2>3, DrawRows
    <3> QED  BY <1>1, <3>2, <3>3, CountKept
  <2>4. CASE Cardinality(drawn) # 0
    <3>1. slotCount'[i] = count + Cardinality(drawn) /\ Cardinality(drawn) \in Nat
      BY <1>1, <2>1, <2>4, FS_CardinalityType
    <3>2. Cardinality(Active(i) \cup drawn)
             = count + Cardinality(drawn) - Cardinality(Active(i) \cap drawn)
      BY <1>1, <2>1, FS_Union
    <3>3. Cardinality(Active(i) \cap drawn) = 0
      BY <2>2, FS_EmptySet
    <3>4. Cardinality(Active(i)') = count + Cardinality(drawn)
      BY <1>1, <2>2, <3>1, <3>2, <3>3
    <3> QED  BY <1>2, <3>1, <3>4, CountExact
  <2> QED  BY <2>3, <2>4
<1>6. ASSUME NEW a \in Assignments, OneRowStep(i, a) PROVE Counted(i)'
  <2>1. CASE RejectReoffer(i, a)
    <3>1. Active(i)' = Active(i) /\ \A b \in Active(i) : Kept(b)
      BY <1>1, <1>6, <2>1, OneRowTeams
    <3>2. slotCount'[i] = slotCount[i] /\ status[i] # "EXPIRED"
      BY <2>1 DEF RejectReoffer, Move, MayMove, Transitions
    <3> QED  BY <1>1, <3>1, <3>2, CountKept
  <2>2. CASE ~RejectReoffer(i, a)
    <3>1. a \in Active(i) /\ Cardinality(Active(i)') = count - 1
      BY <1>1, <1>6, <2>2, OneRowTeams
    <3>2. LastSlot(i, a) => count = 1
      BY FS_Singleton DEF LastSlot
    <3>3. slotCount'[i] = count - 1
      BY <1>1, <1>6, <2>2, <3>2 DEF OneRowStep, Complete, Buyout, Release, Revoke, GiveBack, Leave
    <3> QED  BY <1>2, <3>1, <3>3, CountExact
  <2> QED  BY <2>1, <2>2
<1>7. CASE \E a \in Assignments : RejectReassign(i, a)
  <2>1. PICK a \in Assignments : RejectReassign(i, a)
    BY <1>7
  <2>2. PICK b \in Assignments \ {a} : Opened(b, i, asg[a].member, "REOPENED_TO_ASSIGNEE", asg[a].slot)
    BY <1>1, <2>1, ReassignRows
  <2>3. b \in Active(i)' /\ asg'[b].origin = "REOPENED_TO_ASSIGNEE"
    BY <2>2 DEF Opened, NewRow, Active, RowsIn
  <2>4. status[i] = "COMPLETED" /\ slotCount'[i] = slotCount[i]
    BY <2>1 DEF RejectReassign, Move, MayMove, Transitions
  <2>5. Active(i) = {} /\ count = 0
    BY <1>1, <2>4, FS_EmptySet DEF Team
  <2>6. slotCount[i] = 0
    BY <1>1, <2>4, <2>5 DEF Counted
  <2> QED  BY <1>2, <2>3, <2>4, <2>6 DEF Counted, RedoUnderWay
<1>8. CASE Cancel(i) \/ Expire(i) \/ ExpirePenalty(i)
  <2>1. CASE Expire(i)
    <3>1. status'[i] = "EXPIRED"
      BY <1>1, <2>1 DEF Expire, End, SetStatus, TypeOK
    <3> QED  BY <3>1 DEF Counted
  <2>2. CASE Cancel(i) \/ ExpirePenalty(i)
    <3>1. slotCount'[i] = 0
      BY <1>1, <2>2 DEF Cancel, ExpirePenalty, End
    <3>2. \A a \in Active(i) : Closed(a, "ACTIVE", "REVOKED") \/ Closed(a, "ACTIVE", "EXPIRED")
      BY <1>1, <2>2, EndedRows
    <3>3. /\ \A a \in Active(i) : asg[a] \in Row
          /\ \A a \in Assignments \ Active(i) : Kept(a)
      BY <1>1, <2>2, EndedRows, RowTypes DEF Active, RowStatuses
    <3>4. \A a \in Active(i) : asg'[a].status # "ACTIVE"
      BY <3>2, <3>3 DEF Closed, Row
    <3>5. Active(i)' = {}
      BY <3>3, <3>4 DEF Active, RowsIn, Kept
    <3> QED  BY <1>2, <3>1, <3>5, FS_EmptySet, CountExact
  <2> QED  BY <1>8, <2>1, <2>2
<1> QED  BY <1>3, <1>4, <1>5, <1>6, <1>7, <1>8 DEF InstanceStep, RowlessStep, OneRowStep

(* The cached active_slot_count never exceeds the number of workers and is     *)
(* exact unless a redo is under way, until the occurrence expires: the page    *)
(* that reads the cache may offer a slot that is taken, and never hides one    *)
(* that is free.                                                               *)
THEOREM CountsAreHonest == Spec => []CountInv
<1>1. Init => CountInv
  <2>1. Init => \A i \in Instances : Active(i) = {} /\ slotCount[i] = 0
    BY DEF Init, Active, RowsIn, NoRow
  <2> QED  BY <2>1, FS_EmptySet DEF CountInv, Counted
<1>2. TeamInv /\ CountInv /\ [Next]_vars => CountInv'
  <2> SUFFICES ASSUME TeamInv, CountInv, [Next]_vars, NEW j \in Instances PROVE Counted(j)'
    BY DEF CountInv
  <2>1. CASE InstanceStep(j)
    BY <2>1, CountStep
  <2>2. CASE \E i \in Instances \ {j} : InstanceStep(i)
    BY <2>2, OthersKept, CountSame DEF TeamInv, CountInv
  <2>3. CASE ElsewhereStep \/ UNCHANGED vars
    <3>1. UNCHANGED <<asg, status, slotCount>>
      BY <2>3, Rowless
    <3>2. SameTeam(j) /\ status'[j] = status[j] /\ slotCount'[j] = slotCount[j] /\ Counted(j)
      BY <3>1 DEF SameTeam, Kept, CountInv
    <3> QED  BY <3>2, CountSame
  <2> QED  BY <2>1, <2>2, <2>3 DEF Next, ElsewhereStep
<1> QED  BY <1>1, <1>2, TeamsInvariant, PTL DEF Spec

(* The workers of an occurrence are as many people as rows.                    *)
LEMMA HoldersCount ==
    ASSUME TeamInv, NEW i \in Instances
    PROVE  Cardinality(Holders(i)) = Cardinality(Active(i))
<1> DEFINE who == [a \in Active(i) |-> asg[a].member]
<1>1. who \in Bijection(Active(i), Holders(i))
  <2>1. who \in [Active(i) -> Holders(i)] /\ \A m \in Holders(i) : \E a \in Active(i) : who[a] = m
    BY DEF Holders
  <2>2. \A a, b \in Active(i) : who[a] = who[b] => a = b
    BY DEF TeamInv, Team, Apart
  <2> HIDE DEF who
  <2> QED  BY <2>1, <2>2, Fun_IsBij
<1>2. ExistsBijection(Active(i), Holders(i)) /\ IsFiniteSet(Active(i))
  BY <1>1, ActiveCount DEF ExistsBijection, TeamInv
<1> QED  BY <1>2, FS_Bijection

(* The reservation a viewer is shown is never weaker than the one enforced,    *)
(* and the same while no administrator is on the job.                          *)
LEMMA ReservationShown ==
    ASSUME TeamInv, NEW i \in Instances
    PROVE  /\ AdminSlotReserved(Holders(i)) => ReservedForViewer(i)
           /\ Holders(i) \cap Admins = {} =>
                (ReservedForViewer(i) => AdminSlotReserved(Holders(i)))
<1> DEFINE on == Cardinality(Holders(i) \cap Admins)
           remaining == MinRequired - Cardinality(Active(i))
<1>1. Cardinality(Active(i)) \in Nat /\ remaining \in Int
  BY ActiveCount, MinRequiredType DEF TeamInv
<1>2. on \in Nat /\ (Holders(i) \cap Admins = {} => on = 0)
  <2>1. IsFiniteSet(Holders(i))
    <3>1. Holders(i) \subseteq Members /\ IsFiniteSet(Active(i))
      BY ActiveCount, RowTypes DEF TeamInv, Holders, Active, Row, RowStatuses
    <3> DEFINE who == [a \in Active(i) |-> asg[a].member]
    <3>2. who \in Surjection(Active(i), Holders(i))
      <4>1. who \in [Active(i) -> Holders(i)]
            /\ \A m \in Holders(i) : \E a \in Active(i) : who[a] = m
        BY DEF Holders
      <4> HIDE DEF who
      <4> QED  BY <4>1, Fun_IsSurj
    <3> QED  BY <3>1, <3>2, FS_Surjection
  <2>2. IsFiniteSet(Holders(i) \cap Admins)
    BY <2>1, FS_Subset
  <2> QED  BY <2>2, FS_CardinalityType, FS_EmptySet
<1>3. AdminsSeen(i) = {} /\ Cardinality({}) = 0
  BY FS_EmptySet DEF AdminsSeen, Candidates
<1>4. DeficitSeen(i) = IF MinAdminSlots > 0 THEN MinAdminSlots ELSE 0
  BY <1>3, MinRequiredType DEF DeficitSeen
<1>5. AdminDeficit(Holders(i)) = IF MinAdminSlots - on > 0 THEN MinAdminSlots - on ELSE 0
  BY DEF AdminDeficit
<1>6. /\ AdminSlotReserved(Holders(i)) <=>
            /\ remaining > 0 /\ AdminDeficit(Holders(i)) > 0
            /\ AdminDeficit(Holders(i)) >= remaining
      /\ ReservedForViewer(i) <=>
            remaining > 0 /\ DeficitSeen(i) > 0 /\ DeficitSeen(i) >= remaining
  BY HoldersCount DEF AdminSlotReserved, ReservedForViewer
<1> HIDE DEF on, remaining
<1> QED  BY <1>1, <1>2, <1>4, <1>5, <1>6, MinRequiredType

(* The page and the use-cases agree, in every household.                       *)
THEOREM OffersAreAlwaysHonoured == Spec => []OffersAreHonoured
<1>1. TeamInv /\ CountInv => OffersAreHonoured
  <2> SUFFICES ASSUME TeamInv, CountInv, NEW i \in Instances, NEW m \in Members
               PROVE  /\ VolunteerButton(i, m) => MayVolunteer(i, m) \/ RedoUnderWay(i)
                      /\ \A a \in Assignments :
                            /\ CompleteButton(i, m, a) => Completable(i, a)
                            /\ BuyoutButton(i, m, a) => Completable(i, a) /\ MayBuyOut(a)
                            /\ ReleaseButton(i, m, a) => Returnable(i, a)
    BY DEF OffersAreHonoured
  <2>1. ASSUME VolunteerButton(i, m), ~RedoUnderWay(i) PROVE MayVolunteer(i, m)
    <3>1. /\ status[i] \in {"AVAILABLE", "ASSIGNED"} /\ m \notin Holders(i)
          /\ status[i] = "ASSIGNED" => ~Full(slotCount[i])
          /\ ReservedForViewer(i) => m \in Admins
      BY <2>1 DEF VolunteerButton, CanVolunteer, HasOpenSlot, Eligible, Candidates
    <3>2. slotCount[i] = Cardinality(Active(i)) /\ Cardinality(Active(i)) \in Nat
      BY <2>1, <3>1, ActiveCount DEF CountInv, Counted, TeamInv
    <3>3. status[i] = "AVAILABLE" => Cardinality(Active(i)) < MinRequired
      BY DEF TeamInv, Team
    <3>4. ~Full(Cardinality(Active(i)))
      BY <3>1, <3>2, <3>3, MinRequiredType DEF Full
    <3> QED  BY <3>1, <3>4, ReservationShown DEF MayVolunteer
  <2>2. ASSUME NEW a \in OwnButtons(i, m) PROVE Completable(i, a) /\ Returnable(i, a)
    BY DEF OwnButtons, Mine, Completable, Returnable
  <2> QED  BY <2>1, <2>2 DEF CompleteButton, BuyoutButton, ReleaseButton, QuoteAllowed
<1> QED  BY <1>1, TeamsInvariant, CountsAreHonest, PTL

(* A slot that volunteerForTask would grant is shown to the member, and every  *)
(* holder sees the chore among their own, unless it is paused or expired.      *)
THEOREM FreeSlotsAreAlwaysOffered == Spec => []FreeSlotsAreOffered
<1>1. TeamInv /\ CountInv => FreeSlotsAreOffered
  <2> SUFFICES ASSUME TeamInv, CountInv, NEW i \in Instances, NEW m \in Members
               PROVE  /\ MayVolunteer(i, m) /\ ~CanVolunteer(i, m) =>
                            m \notin Admins /\ Holders(i) \cap Admins # {}
                      /\ MayVolunteer(i, m) => i \in AvailableTasks(m, FALSE)
                      /\ CanVolunteer(i, m) => i \in AvailableTasks(m, TRUE)
                      /\ m \in Holders(i) =>
                            i \in AssignedToMe(m) \/ status[i] \in {"PAUSED", "EXPIRED"}
    BY DEF FreeSlotsAreOffered
  <2>1. ASSUME MayVolunteer(i, m) PROVE HasOpenSlot(i)
    <3>1. status[i] \in {"AVAILABLE", "ASSIGNED"} /\ ~Full(Cardinality(Active(i)))
      BY <2>1 DEF MayVolunteer
    <3>2. /\ slotCount[i] <= Cardinality(Active(i))
          /\ slotCount[i] \in Nat /\ Cardinality(Active(i)) \in Nat
      BY <3>1, ActiveCount DEF CountInv, Counted, TeamInv, TypeOK
    <3> QED  BY <3>1, <3>2, MinRequiredType DEF HasOpenSlot, Full
  <2>2. ASSUME MayVolunteer(i, m), ~CanVolunteer(i, m)
        PROVE  m \notin Admins /\ Holders(i) \cap Admins # {}
    <3>1. m \notin Holders(i) /\ (AdminSlotReserved(Holders(i)) => m \in Admins)
      BY <2>2 DEF MayVolunteer
    <3>2. ReservedForViewer(i) /\ m \notin Admins
      BY <2>1, <2>2, <3>1 DEF CanVolunteer, Eligible, Candidates
    <3> QED  BY <3>1, <3>2, ReservationShown
  <2>3. MayVolunteer(i, m) => i \in AvailableTasks(m, FALSE)
    BY <2>1 DEF HasOpenSlot, AvailableTasks
  <2>4. CanVolunteer(i, m) => i \in AvailableTasks(m, TRUE)
    BY DEF CanVolunteer, HasOpenSlot, AvailableTasks
  <2>5. ASSUME m \in Holders(i)
        PROVE  i \in AssignedToMe(m) \/ status[i] \in {"PAUSED", "EXPIRED"}
    <3>1. Mine(i, m) # {} /\ Active(i) # {}
      BY <2>5 DEF Holders, Mine
    <3>2. status[i] \in {"AVAILABLE", "ASSIGNED", "PAUSED", "EXPIRED"}
      BY <3>1 DEF TeamInv, Team, TypeOK, Statuses
    <3> QED  BY <3>1, <3>2 DEF AssignedToMe
  <2> QED  BY <2>2, <2>3, <2>4, <2>5
<1> QED  BY <1>1, TeamsInvariant, CountsAreHonest, PTL

(* What the page promises for a row is what completing it posts.               *)
LEMMA Completing ==
    ASSUME TypeOK, [Next]_vars, NEW a \in Assignments,
           asg[a].status = "ACTIVE", asg'[a].status = "COMPLETED"
    PROVE  \E i \in Instances : Complete(i, a)
<1>1. ~Kept(a) /\ asg[a] \in Row /\ a \in Used
  BY RowTypes DEF Kept, Used
<1>2. \A s \in {"BOUGHT_OUT", "RELEASED", "REVOKED", "REJECTED", "EXPIRED"}, from \in RowStatuses :
         ~Closed(a, from, s)
  BY <1>1 DEF Closed, Row
<1>3. ~UNCHANGED asg
  BY <1>1 DEF Kept
<1>4. PICK i \in Instances : InstanceStep(i)
  BY <1>3, Rowless DEF Next, ElsewhereStep
<1>5. CASE RowlessStep(i)
  BY <1>3, <1>5, Rowless
<1>6. CASE \E m \in Members : Volunteer(i, m)
  BY <1>1, <1>6, VolunteerRow DEF Opened, Used
<1>7. CASE Draw(i)
  BY <1>1, <1>7, DrawRows DEF Kept
<1>8. ASSUME NEW b \in Assignments, OneRowStep(i, b) PROVE Complete(i, a)
  <2>1. b = a
    BY <1>1, <1>8, OneRow
  <2> QED  BY <1>2, <1>8, <2>1, OneRow DEF OneRowStep, RowStatuses
<1>9. CASE \E b \in Assignments : RejectReassign(i, b)
  BY <1>1, <1>2, <1>9, ReassignRows DEF Opened, Used, RowStatuses
<1>10. CASE Cancel(i) \/ Expire(i) \/ ExpirePenalty(i)
  BY <1>1, <1>2, <1>10, EndedRows DEF RowStatuses
<1> QED  BY <1>4, <1>5, <1>6, <1>7, <1>8, <1>9, <1>10 DEF InstanceStep, RowlessStep, OneRowStep

(* What completing an unpaid row posts on it.                                  *)
LEMMA CompletePosts ==
    ASSUME TypeOK, NEW i \in Instances, NEW a \in Assignments, Complete(i, a)
    PROVE  /\ ledger[a].reward = 0 => ledger'[a].reward = PaidOut(a)
           /\ PaidOut(a) = 0 => ledger' = ledger
<1>1. ledger[a] \in Entry /\ asg[a] \in Row
  BY OneRow DEF OneRowStep, TypeOK
<1>2. PaidOut(a) \in Nat
  BY <1>1, RewardTypes
<1>3. PostReward(a, asg[a].member, PaidOut(a))
  BY DEF Complete, PaidOut
<1>4. PaidOut(a) = 0 => ledger' = ledger
  BY <1>3 DEF PostReward
<1>5. ASSUME ledger[a].reward = 0, PaidOut(a) # 0
      PROVE  ledger'[a].reward = PaidOut(a)
  <2>1. ledger' = [ledger EXCEPT ![a].reward = PaidOut(a)]
    BY <1>3, <1>5 DEF PostReward
  <2>2. ledger'[a] = [ledger[a] EXCEPT !.reward = PaidOut(a)]
    BY <2>1 DEF TypeOK
  <2> QED  BY <1>1, <2>2 DEF Entry
<1> QED  BY <1>4, <1>5

(* Completing an open takeover that pays on completion posts the reward its    *)
(* page shows, or that reward times the multiplier when the member has a       *)
(* charge open, and spends the charge, whatever happened before.               *)
THEOREM PromisesAreKept == Spec => PromisedIsPaid
<1> DEFINE AsShown(a) ==
      LET m == asg[a].member
          shown == RewardOnCompletion(a)
      IN  /\ asg[a].status = "ACTIVE" /\ asg'[a].status = "COMPLETED"
          /\ Pinned(a).timing = "ON_COMPLETE"
          => /\ ledger'[a].reward = IF charges[m] > 0 THEN Multiplied(shown) ELSE shown
             /\ charges'[m] = IF charges[m] > 0 /\ shown > 0 THEN charges[m] - 1
                              ELSE charges[m]
<1>1. ASSUME SettledInv, [Next]_vars, NEW a \in Assignments, asg[a].status = "ACTIVE",
             asg'[a].status = "COMPLETED", Pinned(a).timing = "ON_COMPLETE"
      PROVE  AsShown(a)
  <2> DEFINE m == asg[a].member
             shown == RewardOnCompletion(a)
  <2>1. TypeOK /\ ledger[a] \in Entry /\ ledger[a].reward = 0 /\ asg[a] \in Row
    BY <1>1, RowTypes DEF SettledInv, Settled, TypeOK
  <2>2. PICK i \in Instances : Complete(i, a)
    BY <1>1, <2>1, Completing
  <2>3. RewardDue(a, "ON_COMPLETE") = shown
    BY <1>1 DEF RewardDue, RewardOnCompletion
  <2>4. /\ shown \in Nat /\ PaidOut(a) \in Nat /\ m \in Members
        /\ charges \in [Members -> Nat] /\ charges[m] \in Nat
    BY <2>1, <2>3, RewardTypes DEF Row, TypeOK
  <2>5. Multiplied(0) = 0
    BY MarketAssumption DEF Multiplied, Rounded
  <2>6. PaidOut(a) = IF charges[m] > 0 THEN Multiplied(shown) ELSE shown
    <3>1. PaidOut(a) = IF shown > 0 /\ charges[m] > 0 THEN Multiplied(shown) ELSE shown
      BY <2>3 DEF PaidOut, SpendsCharge
    <3>2. shown = 0 => Multiplied(shown) = shown
      BY <2>5
    <3> HIDE DEF shown, m
    <3> QED  BY <2>4, <3>1, <3>2
  <2>7. ledger'[a].reward = PaidOut(a)
    BY <2>1, <2>2, CompletePosts
  <2>8. charges' = IF shown > 0 /\ charges[m] > 0 THEN [charges EXCEPT ![m] = charges[m] - 1]
                   ELSE charges
    BY <2>2, <2>3 DEF Complete, SpendsCharge
  <2>9. charges'[m] = IF charges[m] > 0 /\ shown > 0 THEN charges[m] - 1 ELSE charges[m]
    <3> HIDE DEF shown, m
    <3> QED  BY <2>4, <2>8
  <2> QED  BY <2>6, <2>7, <2>9
<1>2. SettledInv /\ [Next]_vars => [\A a \in Assignments : AsShown(a)]_vars
  BY <1>1
<1>3. [][\A a \in Assignments : AsShown(a)]_vars => PromisedIsPaid
  BY PTL DEF PromisedIsPaid
<1> QED  BY <1>2, <1>3, PointsFollowRows, PTL DEF Spec
-----------------------------------------------------------------------------
(* One worker: the market implements SoloTask.  A completed occurrence has one *)
(* completed row, any other has none, so the doer of SoloTask is well defined. *)
OneDoer(i) ==
    IF status[i] = "COMPLETED" THEN \E a \in Assignments : RowsIn(i, "COMPLETED") = {a}
    ELSE RowsIn(i, "COMPLETED") = {}

SoloInv == \A i \in Instances : OneDoer(i)

(* With one worker the status says whether there is a holder.                  *)
LEMMA SoloTeam ==
    ASSUME Mode = "EXACTLY", WorkerCount = 1, TeamInv, NEW i \in Instances
    PROVE  /\ status[i] = "ASSIGNED" =>
                 \E a \in Assignments : /\ Active(i) = {a} /\ asg[a].status = "ACTIVE"
                                        /\ asg[a].member \in Members
                                        /\ Holder(i) = asg[a].member
           /\ status[i] \notin {"ASSIGNED", "EXPIRED"} => Active(i) = {}
           /\ Active(i) = {} => Holder(i) = None
<1>1. /\ Cardinality(Active(i)) \in Nat /\ IsFiniteSet(Active(i)) /\ MinRequired = 1
      /\ status[i] \in Statuses \cup {"NONE"}
  BY ActiveCount DEF TeamInv, MinRequired, TypeOK
<1>2. Active(i) = {} => Holder(i) = None
  BY DEF Holder
<1>3. ASSUME status[i] \notin {"ASSIGNED", "EXPIRED"} PROVE Active(i) = {}
  <2>1. status[i] \in {"AVAILABLE", "PAUSED"} => Cardinality(Active(i)) = 0
    BY <1>1 DEF TeamInv, Team
  <2> QED  BY <1>1, <1>3, <2>1, FS_EmptySet DEF TeamInv, Team, Statuses
<1>4. ASSUME status[i] = "ASSIGNED"
      PROVE  \E a \in Assignments : /\ Active(i) = {a} /\ asg[a].status = "ACTIVE"
                                    /\ asg[a].member \in Members
                                    /\ Holder(i) = asg[a].member
  <2>1. Active(i) # {} /\ Cardinality(Active(i)) <= 1
    BY <1>4 DEF TeamInv, Team
  <2>2. Cardinality(Active(i)) = 1
    BY <1>1, <2>1, FS_EmptySet
  <2>3. PICK a : Active(i) = {a}
    BY <1>1, <2>2, FS_Singleton
  <2>4. a \in Assignments /\ asg[a].status = "ACTIVE"
    BY <2>3 DEF Active, RowsIn
  <2>5. asg[a].member \in Members
    BY <2>4, RowTypes DEF TeamInv, Row
  <2>6. Holder(i) = asg[a].member
    BY <2>3 DEF Holder
  <2> QED  BY <2>3, <2>4, <2>5, <2>6
<1> QED  BY <1>2, <1>3, <1>4

(* The holder and the doer after a step, read off the rows after it.           *)
LEMMA NextHolder ==
    ASSUME NEW i \in Instances
    PROVE  /\ Active(i)' = {} => Holder(i)' = None
           /\ \A a : Active(i)' = {a} => Holder(i)' = asg'[a].member
           /\ status'[i] # "COMPLETED" => Doer(i)' = None
           /\ \A a : status'[i] = "COMPLETED" /\ RowsIn(i, "COMPLETED")' = {a} =>
                 Doer(i)' = asg'[a].member
BY DEF Holder, Doer

(* What a step does to the occurrence it is about, seen as SoloTask sees it.   *)
Looks(i, s, h, d) == status'[i] = s /\ Holder(i)' = h /\ Doer(i)' = d

SoloStep(i) ==
    \/ Looks(i, status[i], Holder(i), Doer(i))
    \/ status[i] = "NONE" /\ \E s \in {"DRAFT", "AVAILABLE"} : Looks(i, s, None, None)
    \/ /\ Holder(i) = None
       /\ \E e \in {"PUBLISH", "PAUSE", "RESUME"}, s \in {"AVAILABLE", "PAUSED"} :
             MayMove(status[i], e, s) /\ Looks(i, s, None, None)
    \/ /\ status[i] = "AVAILABLE" /\ Holder(i) = None
       /\ \E m \in Members : Looks(i, "ASSIGNED", m, None)
    \/ status[i] = "ASSIGNED" /\ Looks(i, "AVAILABLE", None, None)
    \/ status[i] = "ASSIGNED" /\ Looks(i, "COMPLETED", None, Holder(i))
    \/ /\ status[i] = "COMPLETED"
       /\ Looks(i, "ASSIGNED", Doer(i), None) \/ Looks(i, "AVAILABLE", None, None)
    \/ /\ status[i] \in OpenStatuses
       /\ \E s \in {"CANCELLED", "EXPIRED"} : Looks(i, s, None, None)

(* Creating, publishing, pausing, resuming and growing name no holder.         *)
LEMMA SoloRowless ==
    ASSUME Mode = "EXACTLY", WorkerCount = 1, TeamInv, SoloInv, NEW i \in Instances,
           RowlessStep(i)
    PROVE  OneDoer(i)' /\ SoloStep(i)
<1>1. /\ Active(i)' = Active(i) /\ Holder(i)' = Holder(i)
      /\ RowsIn(i, "COMPLETED")' = RowsIn(i, "COMPLETED")
  <2>1. UNCHANGED asg
    BY Rowless
  <2>2. Active(i)' = Active(i) /\ RowsIn(i, "COMPLETED")' = RowsIn(i, "COMPLETED")
    BY <2>1 DEF Active, RowsIn
  <2> QED  BY <2>1, <2>2 DEF Holder
<1>2. OneDoer(i) /\ status \in [Instances -> Statuses \cup {"NONE"}]
  BY DEF SoloInv, TeamInv, TypeOK
<1>3. CASE Grow(i)
  <2>1. status' = status /\ status[i] = "AVAILABLE"
    BY <1>3 DEF Grow
  <2>2. Doer(i)' = None /\ Doer(i) = None
    BY <2>1 DEF Doer
  <2> QED  BY <1>1, <1>2, <2>1, <2>2 DEF SoloStep, Looks, OneDoer
<1>4. CASE ~Grow(i)
  <2>1. \/ status[i] = "NONE" /\ status'[i] \in {"DRAFT", "AVAILABLE"}
        \/ status[i] = "DRAFT" /\ status'[i] = "AVAILABLE"
        \/ status[i] \in {"DRAFT", "AVAILABLE"} /\ status'[i] = "PAUSED"
        \/ status[i] = "PAUSED" /\ status'[i] = "AVAILABLE"
    BY <1>2, <1>4 DEF RowlessStep, MaterializeDue, AdminMaterialize, Create, Publish, Pause,
         Resume, InstanceAction, SetStatus
  <2>2. Holder(i) = None /\ Holder(i)' = None /\ Doer(i)' = None
    BY <1>1, <2>1, SoloTeam, NextHolder
  <2>3. OneDoer(i)'
    BY <1>1, <1>2, <2>1 DEF OneDoer
  <2>4. /\ MayMove("DRAFT", "PUBLISH", "AVAILABLE") /\ MayMove("PAUSED", "RESUME", "AVAILABLE")
        /\ MayMove("DRAFT", "PAUSE", "PAUSED") /\ MayMove("AVAILABLE", "PAUSE", "PAUSED")
    BY DEF MayMove, Transitions
  <2> QED  BY <2>1, <2>2, <2>3, <2>4 DEF SoloStep, Looks
<1> QED  BY <1>3, <1>4

(* A takeover and a draw give the one slot of an offered occurrence to         *)
(* somebody.                                                                   *)
LEMMA SoloTake ==
    ASSUME Mode = "EXACTLY", WorkerCount = 1, TeamInv, SoloInv, NEW i \in Instances,
           Draw(i) \/ \E m \in Members : Volunteer(i, m)
    PROVE  OneDoer(i)' /\ SoloStep(i)
<1>1. /\ TypeOK /\ OneDoer(i) /\ MinRequired = 1
      /\ Cardinality(Active(i)) \in Nat /\ IsFiniteSet(Active(i))
  BY ActiveCount DEF SoloInv, TeamInv, MinRequired
<1>2. status[i] = "AVAILABLE" /\ Active(i) = {} /\ Cardinality(Active(i)) = 0
  <2>1. CASE Draw(i)
    BY <1>1, <2>1, DrawRows, SoloTeam, FS_EmptySet
  <2>2. CASE \E m \in Members : Volunteer(i, m)
    <3>1. status[i] \in {"AVAILABLE", "ASSIGNED"} /\ Cardinality(Active(i)) < 1
      BY <1>1, <2>2 DEF Volunteer, MayVolunteer, Full
    <3>2. Active(i) = {} /\ Cardinality(Active(i)) = 0
      BY <1>1, <3>1, FS_EmptySet
    <3> QED  BY <3>1, <3>2, SoloTeam
  <2> QED  BY <2>1, <2>2
<1>3. Holder(i) = None /\ Doer(i) = None
  BY <1>2, SoloTeam DEF Doer
<1>4. ASSUME NEW a \in Assignments, NEW m \in Members, asg[a].status = "NONE",
             asg'[a].inst = i, asg'[a].status = "ACTIVE", asg'[a].member = m,
             \A b \in Assignments \ {a} : Kept(b), status'[i] = "ASSIGNED"
      PROVE  OneDoer(i)' /\ SoloStep(i)
  <2>1. Active(i)' = {a}
    BY <1>2, <1>4 DEF Active, RowsIn, Kept
  <2>2. RowsIn(i, "COMPLETED")' = RowsIn(i, "COMPLETED")
    BY <1>4 DEF RowsIn, Kept
  <2>3. Holder(i)' = m /\ Doer(i)' = None
    BY <1>4, <2>1, NextHolder
  <2> QED  BY <1>1, <1>2, <1>3, <1>4, <2>2, <2>3 DEF OneDoer, SoloStep, Looks
<1>5. CASE \E m \in Members : Volunteer(i, m)
  <2>1. PICK m \in Members : Volunteer(i, m)
    BY <1>5
  <2>2. PICK a \in Assignments, s \in Slots \ Occupied(i) :
           Opened(a, i, m, "VOLUNTEERED", s) /\ \A b \in Assignments \ {a} : Kept(b)
    BY <1>1, <2>1, VolunteerRow
  <2>3. /\ asg[a].status = "NONE" /\ asg'[a].inst = i /\ asg'[a].status = "ACTIVE"
        /\ asg'[a].member = m
    BY <2>2 DEF Opened, NewRow
  <2>4. status'[i] = "ASSIGNED"
    BY <1>1, <1>2, <2>1 DEF Volunteer, Move, SetStatus, TypeOK
  <2> QED  BY <1>4, <2>2, <2>3, <2>4
<1>6. CASE Draw(i)
  <2>1. PICK drawn \in SUBSET (Assignments \ Used) :
           /\ \A a \in Assignments \ drawn : Kept(a)
           /\ \A a \in drawn : asg'[a].inst = i /\ asg'[a].status = "ACTIVE" /\ ~Kept(a)
           /\ IsFiniteSet(drawn)
           /\ Cardinality(Active(i)) + Cardinality(drawn) <= 1
           /\ IF Cardinality(Active(i)) + Cardinality(drawn) = 1
              THEN SetStatus(i, "ASSIGNED") ELSE UNCHANGED status
    BY <1>1, <1>6, DrawCount
  <2>2. Cardinality(drawn) = 0 \/ Cardinality(drawn) = 1
    BY <1>2, <2>1, FS_CardinalityType
  <2>3. CASE Cardinality(drawn) = 0
    <3>1. drawn = {} /\ status'[i] = status[i]
      BY <1>2, <2>1, <2>3, FS_EmptySet
    <3>2. /\ Active(i)' = Active(i)
          /\ RowsIn(i, "COMPLETED")' = RowsIn(i, "COMPLETED")
      BY <2>1, <3>1 DEF Active, RowsIn, Kept
    <3>3. Holder(i)' = None /\ Doer(i)' = None
      BY <1>2, <3>1, <3>2, NextHolder
    <3> QED  BY <1>1, <1>2, <1>3, <3>1, <3>2, <3>3 DEF OneDoer, SoloStep, Looks
  <2>4. CASE Cardinality(drawn) = 1
    <3>1. PICK a : drawn = {a}
      BY <2>1, <2>4, FS_Singleton
    <3>2. a \in Assignments /\ asg[a].status = "NONE" /\ ~Kept(a)
      BY <2>1, <3>1 DEF Used
    <3>3. PICK m \in Members, s \in Slots : asg'[a] = NewRow(i, m, "RANDOMLY_ASSIGNED", s)
      BY <1>1, <1>6, <3>2, DrawRows DEF Kept
    <3>4. asg'[a].member = m /\ status'[i] = "ASSIGNED"
      BY <1>1, <1>2, <2>1, <2>4, <3>3 DEF NewRow, SetStatus, TypeOK
    <3> QED  BY <1>4, <2>1, <3>1, <3>2, <3>4
  <2> QED  BY <2>2, <2>3, <2>4
<1> QED  BY <1>5, <1>6

(* The holder completes the chore or it goes back to the market.               *)
LEMMA SoloLeave ==
    ASSUME Mode = "EXACTLY", WorkerCount = 1, TeamInv, SoloInv, NEW i \in Instances,
           NEW a \in Assignments, OneRowStep(i, a) \/ RejectReassign(i, a)
    PROVE  OneDoer(i)' /\ SoloStep(i)
<1>1. TypeOK /\ OneDoer(i) /\ MinRequired = 1
  BY DEF SoloInv, TeamInv, MinRequired
<1>2. CASE RejectReassign(i, a) \/ RejectReoffer(i, a)
  <2>1. /\ status[i] = "COMPLETED" /\ a \in RowsIn(i, "COMPLETED")
        /\ status'[i] = IF RejectReassign(i, a) THEN "ASSIGNED" ELSE "AVAILABLE"
    BY <1>1, <1>2 DEF RejectReassign, RejectReoffer, Move, MayMove, Transitions, SetStatus, TypeOK
  <2>2. RowsIn(i, "COMPLETED") = {a} /\ Active(i) = {}
    BY <1>1, <2>1, SoloTeam DEF OneDoer
  <2>3. Doer(i) = asg[a].member
    BY <2>1, <2>2 DEF Doer
  <2>4. CASE RejectReassign(i, a)
    <3>1. Closed(a, "COMPLETED", "REJECTED") /\ asg[a] \in Row
      BY <1>1, <2>4, ReassignRows
    <3>2. PICK b \in Assignments \ {a} :
             /\ Opened(b, i, asg[a].member, "REOPENED_TO_ASSIGNEE", asg[a].slot)
             /\ \A c \in Assignments \ {a, b} : Kept(c)
      BY <1>1, <2>4, ReassignRows
    <3>3. /\ asg'[a].status = "REJECTED" /\ asg[a].status = "COMPLETED"
          /\ asg[b].status = "NONE" /\ asg'[b].status = "ACTIVE" /\ asg'[b].inst = i
          /\ asg'[b].member = asg[a].member
      BY <3>1, <3>2 DEF Closed, Opened, NewRow, Row
    <3>4. Active(i)' = {b}
      BY <2>2, <3>2, <3>3 DEF Active, RowsIn, Kept
    <3>5. RowsIn(i, "COMPLETED")' = {}
      BY <2>2, <3>2, <3>3 DEF RowsIn, Kept
    <3>6. Holder(i)' = Doer(i) /\ Doer(i)' = None
      BY <2>1, <2>3, <2>4, <3>3, <3>4, NextHolder
    <3> QED  BY <2>1, <2>4, <3>5, <3>6 DEF OneDoer, SoloStep, Looks
  <2>5. CASE RejectReoffer(i, a) /\ ~RejectReassign(i, a)
    <3>1. /\ Closed(a, "COMPLETED", "REJECTED") /\ asg[a] \in Row
          /\ \A b \in Assignments \ {a} : Kept(b)
      BY <1>1, <2>5, OneRow DEF OneRowStep
    <3>2. asg'[a].status = "REJECTED"
      BY <3>1 DEF Closed, Row
    <3>3. Active(i)' = {} /\ RowsIn(i, "COMPLETED")' = {}
      BY <2>2, <3>1, <3>2 DEF Active, RowsIn, Kept
    <3>4. Holder(i)' = None /\ Doer(i)' = None
      BY <2>1, <2>5, <3>3, NextHolder
    <3> QED  BY <2>1, <2>5, <3>3, <3>4 DEF OneDoer, SoloStep, Looks
  <2> QED  BY <1>2, <2>4, <2>5
<1>3. CASE Complete(i, a) \/ Buyout(i, a) \/ Release(i, a) \/ Revoke(i, a)
  <2>1. a \in Active(i) /\ status[i] \in {"ASSIGNED", "AVAILABLE"} /\ ~RejectReoffer(i, a)
    <3>1. a \in Active(i) /\ status[i] \in {"ASSIGNED", "AVAILABLE"}
      BY <1>3 DEF Complete, Buyout, Release, Revoke, GiveBack
    <3> QED  BY <3>1 DEF RejectReoffer, Active, RowsIn
  <2>2. /\ status[i] = "ASSIGNED" /\ Active(i) = {a} /\ Holder(i) = asg[a].member
        /\ Cardinality(Active(i)) = 1
    BY <2>1, SoloTeam, FS_Singleton
  <2>3. Active(i)' = {} /\ \A b \in Assignments \ {a} : Kept(b)
    BY <1>1, <1>3, <2>1, <2>2, OneRowTeams DEF OneRowStep
  <2>4. RowsIn(i, "COMPLETED") = {} /\ asg[a] \in Row /\ asg[a].inst = i
    BY <1>1, <1>3, <2>2, OneRow DEF OneDoer, OneRowStep
  <2>5. CASE Complete(i, a)
    <3>1. Closed(a, "ACTIVE", "COMPLETED")
      BY <1>1, <2>5, OneRow DEF OneRowStep
    <3>2. asg'[a].status = "COMPLETED" /\ asg'[a].inst = i /\ asg'[a].member = asg[a].member
      BY <2>4, <3>1 DEF Closed, Row
    <3>3. RowsIn(i, "COMPLETED")' = {a}
      BY <2>3, <2>4, <3>2 DEF RowsIn, Kept
    <3>4. status'[i] = "COMPLETED"
      BY <1>1, <2>2, <2>5 DEF Complete, LastSlot, Move, SetStatus, TypeOK
    <3>5. Holder(i)' = None /\ Doer(i)' = Holder(i)
      BY <2>2, <2>3, <3>2, <3>3, <3>4, NextHolder
    <3> QED  BY <2>2, <3>3, <3>4, <3>5 DEF OneDoer, SoloStep, Looks
  <2>6. CASE ~Complete(i, a)
    <3>1. status'[i] = "AVAILABLE"
      BY <1>1, <1>3, <2>2, <2>6 DEF Buyout, Release, Revoke, GiveBack, Leave, Move, SetStatus, TypeOK
    <3>2. \E s \in {"BOUGHT_OUT", "RELEASED", "REVOKED"} : Closed(a, "ACTIVE", s)
      BY <1>1, <1>3, <2>6, OneRow DEF OneRowStep
    <3>3. asg'[a].status # "COMPLETED"
      BY <2>4, <3>2 DEF Closed, Row
    <3>4. RowsIn(i, "COMPLETED")' = {}
      BY <2>3, <2>4, <3>3 DEF RowsIn, Kept
    <3>5. Holder(i)' = None /\ Doer(i)' = None
      BY <2>3, <3>1, NextHolder
    <3> QED  BY <2>2, <3>1, <3>4, <3>5 DEF OneDoer, SoloStep, Looks
  <2> QED  BY <2>5, <2>6
<1> QED  BY <1>2, <1>3 DEF OneRowStep

(* A cancelled or expired occurrence has neither holder nor doer; a penalised  *)
(* one is offered again.                                                       *)
LEMMA SoloEnd ==
    ASSUME Mode = "EXACTLY", WorkerCount = 1, TeamInv, SoloInv, NEW i \in Instances,
           Cancel(i) \/ Expire(i) \/ ExpirePenalty(i)
    PROVE  OneDoer(i)' /\ SoloStep(i)
<1>1. TypeOK /\ OneDoer(i)
  BY DEF SoloInv, TeamInv
<1>2. \A a \in Active(i) : asg[a] \in Row /\ asg[a].status = "ACTIVE" /\ a \in Used
  BY <1>1, RowTypes DEF Active, RowStatuses
<1>3. /\ status[i] \in OpenStatuses
      /\ \/ status'[i] = "CANCELLED" \/ status'[i] = "EXPIRED"
         \/ status[i] = "ASSIGNED" /\ status'[i] = "AVAILABLE"
  BY <1>1 DEF Cancel, Expire, ExpirePenalty, End, MayExpire, Penalises, SetStatus, TypeOK
<1>4. \A a \in Active(i) : Closed(a, "ACTIVE", "REVOKED") \/ Closed(a, "ACTIVE", "EXPIRED")
  <2>1. CASE Cancel(i) \/ ExpirePenalty(i)
    BY <1>1, <2>1, EndedRows
  <2>2. CASE Expire(i)
    <3>1. Active(i) # {} => status[i] = "ASSIGNED"
      BY <1>3, SoloTeam DEF OpenStatuses
    <3>2. Expiring(i) = Active(i)
      BY <3>1 DEF Expiring
    <3>3. CloseAll(Active(i), "EXPIRED") /\ Active(i) \in SUBSET Used
      BY <1>2, <2>2, <3>2 DEF Expire
    <3> QED  BY <1>1, <1>2, <3>3, CloseRows DEF RowStatuses
  <2> QED  BY <2>1, <2>2
<1>5. \A a \in Active(i) : asg'[a].status \in {"REVOKED", "EXPIRED"}
  BY <1>2, <1>4 DEF Closed, Row
<1>6. \A a \in Assignments \ Active(i) : Kept(a)
  BY <1>1, EndedRows
<1>7. Active(i)' = {}
  BY <1>5, <1>6 DEF Active, RowsIn, Kept
<1>8. RowsIn(i, "COMPLETED")' = RowsIn(i, "COMPLETED")
  BY <1>2, <1>5, <1>6 DEF RowsIn, Kept
<1>9. Holder(i)' = None /\ Doer(i)' = None
  BY <1>3, <1>7, NextHolder
<1>10. OneDoer(i)'
  BY <1>1, <1>3, <1>8 DEF OneDoer, OpenStatuses
<1> QED  BY <1>3, <1>9, <1>10 DEF SoloStep, Looks

(* The other occurrences look as before.                                       *)
LEMMA SoloOther ==
    ASSUME NEW j \in Instances, OneDoer(j), SameTeam(j), status'[j] = status[j]
    PROVE  Looks(j, status[j], Holder(j), Doer(j)) /\ OneDoer(j)'
<1>1. /\ Active(j)' = Active(j) /\ \A a \in Active(j) : Kept(a)
      /\ RowsIn(j, "COMPLETED")' = RowsIn(j, "COMPLETED")
      /\ \A a \in RowsIn(j, "COMPLETED") : Kept(a)
  BY DEF SameTeam, Active, RowsIn, Kept
<1>2. Holder(j)' = Holder(j)
  BY <1>1 DEF Holder, Kept
<1>3. Doer(j)' = Doer(j)
  <2>1. CASE status[j] = "COMPLETED"
    <3>1. PICK a \in Assignments : RowsIn(j, "COMPLETED") = {a}
      BY <2>1 DEF OneDoer
    <3>2. Doer(j) = asg[a].member /\ Doer(j)' = asg'[a].member /\ Kept(a)
      BY <1>1, <2>1, <3>1, NextHolder DEF Doer
    <3> QED  BY <3>2 DEF Kept
  <2>2. CASE status[j] # "COMPLETED"
    BY <2>2 DEF Doer
  <2> QED  BY <2>1, <2>2
<1>4. OneDoer(j)'
  BY <1>1 DEF OneDoer
<1> QED  BY <1>2, <1>3, <1>4 DEF Looks

(* Each step of the market on one occurrence is a step of SoloTask on it, or   *)
(* one SoloTask does not see.                                                  *)
LEMMA SoloMaps ==
    ASSUME NEW i \in Instances, SoloStep(i), status \in [Instances -> Statuses \cup {"NONE"}],
           status' = [status EXCEPT ![i] = status'[i]],
           \A j \in Instances \ {i} : Holder(j)' = Holder(j) /\ Doer(j)' = Doer(j)
    PROVE  Solo!Next \/ UNCHANGED Solo!vars
<1> DEFINE held == [j \in Instances |-> Holder(j)]
           done == [j \in Instances |-> Doer(j)]
<1>1. ASSUME NEW s, NEW h, NEW d, Looks(i, s, h, d) PROVE Solo!Becomes(i, s, h, d)
  <2>1. /\ status' = [status EXCEPT ![i] = s]
        /\ [j \in Instances |-> Holder(j)'] = [held EXCEPT ![i] = h]
        /\ [j \in Instances |-> Doer(j)'] = [done EXCEPT ![i] = d]
    BY <1>1 DEF Looks
  <2> QED  BY <2>1 DEF Solo!Becomes
<1>2. held[i] = Holder(i) /\ done[i] = Doer(i)
  OBVIOUS
<1>3. CASE Looks(i, status[i], Holder(i), Doer(i))
  <2>1. status' = status
    BY <1>3 DEF Looks
  <2>2. /\ [j \in Instances |-> Holder(j)'] = held
        /\ [j \in Instances |-> Doer(j)'] = done
    BY <1>3 DEF Looks
  <2> QED  BY <2>1, <2>2 DEF Solo!vars
<1> HIDE DEF held, done
<1>4. CASE status[i] = "NONE" /\ \E s \in {"DRAFT", "AVAILABLE"} : Looks(i, s, None, None)
  BY <1>1, <1>4 DEF Solo!Next, Solo!Appear
<1>5. CASE /\ Holder(i) = None
           /\ \E e \in {"PUBLISH", "PAUSE", "RESUME"}, s \in {"AVAILABLE", "PAUSED"} :
                 MayMove(status[i], e, s) /\ Looks(i, s, None, None)
  <2>1. \E e \in {"PUBLISH", "PAUSE", "RESUME"}, s \in {"AVAILABLE", "PAUSED"} :
           Solo!MayMove(status[i], e, s) /\ Solo!Becomes(i, s, None, None)
    BY <1>1, <1>5 DEF MayMove, Transitions, OpenStatuses,
                      Solo!MayMove, Solo!Transitions, Solo!OpenStatuses
  <2> QED  BY <1>2, <1>5, <2>1 DEF held, Solo!Next, Solo!Shelve
<1>6. CASE /\ status[i] = "AVAILABLE" /\ Holder(i) = None
           /\ \E m \in Members : Looks(i, "ASSIGNED", m, None)
  BY <1>1, <1>2, <1>6 DEF held, Solo!Next, Solo!Take
<1>7. CASE status[i] = "ASSIGNED" /\ Looks(i, "AVAILABLE", None, None)
  BY <1>1, <1>7 DEF Solo!Next, Solo!GiveUp
<1>8. CASE status[i] = "ASSIGNED" /\ Looks(i, "COMPLETED", None, Holder(i))
  BY <1>1, <1>2, <1>8 DEF held, Solo!Next, Solo!Finish
<1>9. CASE /\ status[i] = "COMPLETED"
           /\ Looks(i, "ASSIGNED", Doer(i), None) \/ Looks(i, "AVAILABLE", None, None)
  BY <1>1, <1>2, <1>9 DEF done, Solo!Next, Solo!Reject
<1>10. CASE /\ status[i] \in OpenStatuses
            /\ \E s \in {"CANCELLED", "EXPIRED"} : Looks(i, s, None, None)
  BY <1>1, <1>10 DEF OpenStatuses, Solo!OpenStatuses, Solo!Next, Solo!End
<1> QED  BY <1>3, <1>4, <1>5, <1>6, <1>7, <1>8, <1>9, <1>10 DEF SoloStep

(* With one worker per occurrence the whole market, with its rows, slots,      *)
(* points and sweeps, keeps the simple promise of SoloTask.                    *)
THEOREM OneWorkerMarketIsSolo ==
    ASSUME Mode = "EXACTLY", WorkerCount = 1
    PROVE  Spec => ImplementsSoloTask
<1>1. Init => SoloInv /\ Solo!Init
  <2>1. Init => \A i \in Instances : /\ status[i] = "NONE" /\ Active(i) = {}
                                     /\ RowsIn(i, "COMPLETED") = {}
    BY DEF Init, Active, RowsIn, NoRow
  <2>2. Init => SoloInv
    BY <2>1 DEF SoloInv, OneDoer
  <2>3. Init => \A i \in Instances : Holder(i) = None /\ Doer(i) = None
    BY <2>1 DEF Holder, Doer
  <2>4. Init => status = [i \in Instances |-> "NONE"]
    BY DEF Init
  <2> QED  BY <2>2, <2>3, <2>4 DEF Solo!Init
<1>2. TeamInv /\ SoloInv /\ [Next]_vars => SoloInv' /\ [Solo!Next]_(Solo!vars)
  <2> SUFFICES ASSUME TeamInv, SoloInv, [Next]_vars
               PROVE  SoloInv' /\ (Solo!Next \/ UNCHANGED Solo!vars)
    OBVIOUS
  <2>1. CASE \E i \in Instances : InstanceStep(i)
    <3>1. PICK i \in Instances : InstanceStep(i)
      BY <2>1
    <3>2. OneDoer(i)' /\ SoloStep(i)
      <4>1. CASE RowlessStep(i)
        BY <4>1, SoloRowless
      <4>2. CASE Draw(i) \/ \E m \in Members : Volunteer(i, m)
        BY <4>2, SoloTake
      <4>3. CASE \E a \in Assignments : OneRowStep(i, a) \/ RejectReassign(i, a)
        BY <4>3, SoloLeave
      <4>4. CASE Cancel(i) \/ Expire(i) \/ ExpirePenalty(i)
        BY <4>4, SoloEnd
      <4> QED  BY <3>1, <4>1, <4>2, <4>3, <4>4 DEF InstanceStep, RowlessStep, OneRowStep
    <3>3. ASSUME NEW j \in Instances \ {i}
          PROVE  /\ OneDoer(j)' /\ status'[j] = status[j]
                 /\ Holder(j)' = Holder(j) /\ Doer(j)' = Doer(j)
      <4>1. SameTeam(j) /\ status'[j] = status[j] /\ OneDoer(j)
        BY <3>1, OthersKept DEF TeamInv, SoloInv
      <4> QED  BY <4>1, SoloOther DEF Looks
    <3>4. /\ status \in [Instances -> Statuses \cup {"NONE"}]
          /\ status' = [status EXCEPT ![i] = status'[i]]
      <4>1. TypeOK /\ TypeOK'
        BY <3>1, TypeStep DEF TeamInv, Next
      <4> QED  BY <3>3, <4>1 DEF TypeOK
    <3> QED  BY <3>2, <3>3, <3>4, SoloMaps DEF SoloInv
  <2>2. CASE ElsewhereStep \/ UNCHANGED vars
    <3>1. UNCHANGED <<asg, status>>
      BY <2>2, Rowless
    <3>2. ASSUME NEW j \in Instances
          PROVE  OneDoer(j)' /\ Holder(j)' = Holder(j) /\ Doer(j)' = Doer(j)
      <4>1. SameTeam(j) /\ status'[j] = status[j] /\ OneDoer(j)
        BY <3>1 DEF SameTeam, Kept, SoloInv
      <4> QED  BY <4>1, SoloOther DEF Looks
    <3> QED  BY <3>1, <3>2 DEF SoloInv, Solo!vars
  <2> QED  BY <2>1, <2>2 DEF Next, ElsewhereStep
<1> QED  BY <1>1, <1>2, TeamsInvariant, PTL DEF Spec, ImplementsSoloTask, Solo!Spec

-----------------------------------------------------------------------------
(* What a row contributes to the points of a member, before or after a step:   *)
(* the rows and the ledger are arguments, so that both can be asked.           *)
NetOf(e) == e.reward - e.clawback - e.buyout - e.penalty
Shares(rows, books, m) ==
    [a \in Assignments |-> IF rows[a].member # m THEN 0 ELSE NetOf(books[a])]
TotalOf(rows, books, m) ==
    LET net[a \in 0 .. MaxAssignments] ==
            IF a = 0 THEN 0
            ELSE net[a - 1] +
                 IF rows[a].member # m THEN 0
                 ELSE books[a].reward - books[a].clawback - books[a].buyout - books[a].penalty
    IN  net[MaxAssignments]

(* The ledger total of a member is the last of the running totals of their     *)
(* shares.                                                                     *)
LEMMA TotalRuns ==
    ASSUME NEW rows, NEW books, NEW m, NEW d \in [Assignments -> Int],
           d = Shares(rows, books, m)
    PROVE  \E f \in [0 .. MaxAssignments -> Int] :
              Runs(f, MaxAssignments, d) /\ TotalOf(rows, books, m) = f[MaxAssignments]
<1> DEFINE Net(f) ==
             f = [a \in 0 .. MaxAssignments |->
                    IF a = 0 THEN 0
                    ELSE f[a - 1] +
                         IF rows[a].member # m THEN 0
                         ELSE books[a].reward - books[a].clawback - books[a].buyout
                              - books[a].penalty]
           net == CHOOSE f : Net(f)
<1>1. \A f : Net(f) <=> Runs(f, MaxAssignments, d)
  <2>1. \A a \in 0 .. MaxAssignments : a # 0 => a \in Assignments
    BY MarketAssumption DEF Assignments
  <2>2. \A a \in Assignments : d[a] = IF rows[a].member # m THEN 0
                         ELSE books[a].reward - books[a].clawback - books[a].buyout
                              - books[a].penalty
    BY DEF Shares, NetOf
  <2> QED  BY <2>1, <2>2 DEF Runs
<1>2. PICK f \in [0 .. MaxAssignments -> Int] : Runs(f, MaxAssignments, d)
  BY RunningTotal, MarketAssumption DEF Assignments
<1>3. TotalOf(rows, books, m) = net[MaxAssignments]
  BY DEF TotalOf
<1>4. net = f
  <2>1. Net(f)
    BY <1>1, <1>2
  <2>2. Net(net)
    <3> HIDE DEF Net
    <3> QED  BY <2>1
  <2>3. Runs(net, MaxAssignments, d)
    BY <1>1, <2>2
  <2> HIDE DEF net
  <2> QED  BY <1>2, <2>3, RunningSame, MarketAssumption DEF Assignments
<1> HIDE DEF net
<1> QED  BY <1>2, <1>3, <1>4

(* Totals follow the shares: equal shares give equal totals, and a share that  *)
(* grows by x makes the total grow by x.                                       *)
LEMMA TotalSame ==
    ASSUME NEW rows, NEW books, NEW rows2, NEW books2, NEW m,
           Shares(rows, books, m) \in [Assignments -> Int],
           Shares(rows2, books2, m) = Shares(rows, books, m)
    PROVE  TotalOf(rows2, books2, m) = TotalOf(rows, books, m)
<1>1. PICK f \in [0 .. MaxAssignments -> Int] :
         Runs(f, MaxAssignments, Shares(rows, books, m))
         /\ TotalOf(rows, books, m) = f[MaxAssignments]
  BY TotalRuns
<1>2. PICK g \in [0 .. MaxAssignments -> Int] :
         Runs(g, MaxAssignments, Shares(rows, books, m))
         /\ TotalOf(rows2, books2, m) = g[MaxAssignments]
  BY TotalRuns
<1>3. g = f
  BY <1>1, <1>2, RunningSame, MarketAssumption DEF Assignments
<1> QED  BY <1>1, <1>2, <1>3

(* A share that grows by x makes the total grow by x.                          *)
LEMMA TotalChange ==
    ASSUME NEW rows, NEW books, NEW rows2, NEW books2, NEW m,
           NEW b \in Assignments, NEW x \in Int,
           Shares(rows, books, m) \in [Assignments -> Int],
           Shares(rows2, books2, m) \in [Assignments -> Int],
           Shares(rows2, books2, m)[b] = Shares(rows, books, m)[b] + x,
           \A a \in Assignments \ {b} : Shares(rows2, books2, m)[a] = Shares(rows, books, m)[a]
    PROVE  /\ TotalOf(rows, books, m) \in Int
           /\ TotalOf(rows2, books2, m) = TotalOf(rows, books, m) + x
<1> DEFINE d == Shares(rows, books, m)
           e == Shares(rows2, books2, m)
<1>1. PICK f \in [0 .. MaxAssignments -> Int] :
         Runs(f, MaxAssignments, d) /\ TotalOf(rows, books, m) = f[MaxAssignments]
  BY TotalRuns
<1>2. PICK g \in [0 .. MaxAssignments -> Int] :
         Runs(g, MaxAssignments, e) /\ TotalOf(rows2, books2, m) = g[MaxAssignments]
  BY TotalRuns
<1>3. /\ d \in [1 .. MaxAssignments -> Int] /\ e \in [1 .. MaxAssignments -> Int]
      /\ b \in 1 .. MaxAssignments /\ e[b] = d[b] + x
      /\ \A a \in 1 .. MaxAssignments : a # b => e[a] = d[a]
      /\ MaxAssignments \in Nat /\ MaxAssignments \in 0 .. MaxAssignments
  BY MarketAssumption DEF Assignments
<1> HIDE DEF d, e
<1>4. g[MaxAssignments] = f[MaxAssignments] + x
  <2>1. Runs(f, MaxAssignments, d) /\ Runs(g, MaxAssignments, e)
    BY <1>1, <1>2
  <2> QED  BY ONLY <1>3, <2>1, RunningChange, x \in Int,
               f \in [0 .. MaxAssignments -> Int], g \in [0 .. MaxAssignments -> Int]
<1>5. f[MaxAssignments] \in Int
  BY <1>3
<1> QED  BY <1>1, <1>2, <1>4, <1>5

-----------------------------------------------------------------------------
(* Every balance is the opening balance and the total of its ledger, less what *)
(* the member paid for multipliers.                                            *)
Balanced(m) == balance[m] = OpeningBalance + LedgerTotal(m) - spent[m]
BalanceInv == TeamInv /\ SettledInv /\ \A m \in Members : Balanced(m)

(* A step changes a member's points by what it posts on the rows of the        *)
(* member: a used row never changes hands, and an unused one has no entry.     *)
Posted(a, m) ==
    IF asg'[a].member = m THEN NetOf(ledger'[a]) - NetOf(ledger[a]) ELSE 0

(* Shares before and after a step differ by what was posted.                   *)
LEMMA SharesMove ==
    ASSUME SettledInv, [Next]_vars, NEW m \in Members
    PROVE  /\ Shares(asg, ledger, m) \in [Assignments -> Int]
           /\ Shares(asg', ledger', m) \in [Assignments -> Int]
           /\ \A a \in Assignments :
                 /\ Posted(a, m) \in Int
                 /\ Shares(asg', ledger', m)[a] = Shares(asg, ledger, m)[a] + Posted(a, m)
<1>1. TypeOK /\ TypeOK'
  BY TypeStep DEF SettledInv
<1>2. \A e \in Entry : NetOf(e) \in Int
  BY DEF Entry, NetOf
<1>3. \A a \in Assignments : NetOf(ledger[a]) \in Int /\ NetOf(ledger'[a]) \in Int
  BY <1>1, <1>2 DEF TypeOK
<1>4. ASSUME NEW a \in Assignments, asg[a].status = "NONE"
      PROVE  NetOf(ledger[a]) = 0
  <2>1. ledger[a] = NoEntry
    BY <1>4 DEF SettledInv, Settled
  <2> QED  BY <2>1 DEF NetOf, NoEntry
<1>5. ASSUME NEW a \in Assignments, asg[a].status # "NONE"
      PROVE  asg'[a].member = asg[a].member
  <2>1. OnlyCloses(a)
    BY <1>1, StepCloses
  <2>2. [asg'[a] EXCEPT !.status = "NONE"] = [asg[a] EXCEPT !.status = "NONE"]
    BY <1>5, <2>1 DEF OnlyCloses
  <2>3. asg[a] \in Row \cup {NoRow} /\ asg'[a] \in Row \cup {NoRow}
    BY <1>1 DEF TypeOK
  <2>4. \A r \in Row \cup {NoRow} : [r EXCEPT !.status = "NONE"].member = r.member
    BY DEF Row, NoRow
  <2>5. /\ [asg'[a] EXCEPT !.status = "NONE"].member = asg'[a].member
        /\ [asg[a] EXCEPT !.status = "NONE"].member = asg[a].member
    BY <2>3, <2>4
  <2> QED  BY <2>2, <2>5
<1>6. /\ Shares(asg, ledger, m) \in [Assignments -> Int]
      /\ Shares(asg', ledger', m) \in [Assignments -> Int]
  BY <1>3 DEF Shares
<1>7. ASSUME NEW a \in Assignments
      PROVE  /\ Posted(a, m) \in Int
             /\ Shares(asg', ledger', m)[a] = Shares(asg, ledger, m)[a] + Posted(a, m)
  BY <1>3, <1>4, <1>5 DEF Shares, Posted
<1> QED  BY <1>6, <1>7

(* A balance that moves by what was posted on one row stays the ledger's sum.  *)
LEMMA BalanceMoves ==
    ASSUME SettledInv, [Next]_vars, NEW m \in Members, NEW b \in Assignments,
           Balanced(m), spent'[m] = spent[m],
           \A a \in Assignments \ {b} : SamePoints(a) \/ asg'[a].member # m,
           balance'[m] = balance[m] + Posted(b, m)
    PROVE  Balanced(m)'
<1>1. /\ Shares(asg, ledger, m) \in [Assignments -> Int]
      /\ Shares(asg', ledger', m) \in [Assignments -> Int]
      /\ \A a \in Assignments :
            /\ Posted(a, m) \in Int
            /\ Shares(asg', ledger', m)[a] = Shares(asg, ledger, m)[a] + Posted(a, m)
  BY SharesMove
<1>2. ASSUME NEW a \in Assignments \ {b}
      PROVE  Shares(asg', ledger', m)[a] = Shares(asg, ledger, m)[a]
  <2>1. NetOf(ledger[a]) \in Int
    BY DEF SettledInv, TypeOK, NetOf, Entry
  <2>2. Posted(a, m) = 0
    BY <2>1 DEF Posted, SamePoints
  <2>3. Shares(asg, ledger, m)[a] \in Int
    BY <1>1
  <2> QED  BY <1>1, <2>2, <2>3
<1>3. /\ TotalOf(asg, ledger, m) \in Int
      /\ TotalOf(asg', ledger', m) = TotalOf(asg, ledger, m) + Posted(b, m)
  BY <1>1, <1>2, TotalChange
<1>4. LedgerTotal(m) = TotalOf(asg, ledger, m) /\ LedgerTotal(m)' = TotalOf(asg', ledger', m)
  BY DEF LedgerTotal, TotalOf
<1>5. spent[m] \in Nat /\ Posted(b, m) \in Int
  BY <1>1 DEF SettledInv, TypeOK
<1> QED  BY <1>3, <1>4, <1>5, MarketAssumption DEF Balanced

(* Where nothing was posted the total stays, and so does the balance.          *)
LEMMA TotalStays ==
    ASSUME SettledInv, [Next]_vars, NEW m \in Members,
           \A a \in Assignments : SamePoints(a) \/ asg'[a].member # m
    PROVE  LedgerTotal(m) \in Int /\ LedgerTotal(m)' = LedgerTotal(m)
<1>1. /\ Shares(asg, ledger, m) \in [Assignments -> Int]
      /\ Shares(asg', ledger', m) \in [Assignments -> Int]
      /\ \A a \in Assignments :
            Shares(asg', ledger', m)[a] = Shares(asg, ledger, m)[a] + Posted(a, m)
  BY SharesMove
<1>2. ASSUME NEW a \in Assignments
      PROVE  Shares(asg', ledger', m)[a] = Shares(asg, ledger, m)[a]
  <2>1. NetOf(ledger[a]) \in Int
    BY DEF SettledInv, TypeOK, NetOf, Entry
  <2>2. Posted(a, m) = 0
    BY <2>1 DEF Posted, SamePoints
  <2>3. Shares(asg, ledger, m)[a] \in Int
    BY <1>1
  <2> QED  BY <1>1, <2>2, <2>3
<1>3. Shares(asg', ledger', m) = Shares(asg, ledger, m)
  BY <1>1, <1>2 DEF Shares
<1>4. TotalOf(asg', ledger', m) = TotalOf(asg, ledger, m)
  BY <1>1, <1>3, TotalSame
<1>5. LedgerTotal(m) = TotalOf(asg, ledger, m) /\ LedgerTotal(m)' = TotalOf(asg', ledger', m)
  BY DEF LedgerTotal, TotalOf
<1>6. TotalOf(asg, ledger, m) \in Int
  <2>1. PICK f \in [0 .. MaxAssignments -> Int] : TotalOf(asg, ledger, m) = f[MaxAssignments]
    BY <1>1, TotalRuns
  <2> QED  BY <2>1, MarketAssumption
<1> QED  BY <1>4, <1>5, <1>6

LEMMA BalanceStays ==
    ASSUME SettledInv, [Next]_vars, NEW m \in Members, Balanced(m), spent'[m] = spent[m],
           \A a \in Assignments : SamePoints(a) \/ asg'[a].member # m,
           balance'[m] = balance[m]
    PROVE  Balanced(m)'
<1>1. LedgerTotal(m)' = LedgerTotal(m)
  BY TotalStays
<1> QED  BY <1>1 DEF Balanced


(* What a debit does to every balance.                                         *)
LEMMA Debited ==
    ASSUME TypeOK, NEW n \in Members, NEW x \in Int, Debit(n, x), NEW m \in Members
    PROVE  balance'[m] = balance[m] + (IF n = m THEN - x ELSE 0)
<1>1. balance \in [Members -> Int]
  BY DEF TypeOK
<1>2. balance[m] \in Int /\ balance[n] \in Int
  BY <1>1
<1>3. balance' = [balance EXCEPT ![n] = balance[n] - x]
  BY DEF Debit
<1>4. balance'[m] = IF n = m THEN balance[n] - x ELSE balance[m]
  BY <1>1, <1>3
<1> QED  BY <1>2, <1>4

(* One row is posted on, and its member's balance moves by as much.            *)
LEMMA BalanceOneRow ==
    ASSUME BalanceInv, [Next]_vars, spent' = spent, NEW b \in Assignments, NEW n \in Members, NEW x \in Int,
           asg'[b].member = n, \A a \in Assignments \ {b} : SamePoints(a),
           \/ Debit(n, x) /\ NetOf(ledger'[b]) = NetOf(ledger[b]) - x
           \/ UNCHANGED <<ledger, balance>>,
           NEW m \in Members
    PROVE  Balanced(m)'
<1>1. TypeOK /\ SettledInv /\ Balanced(m) /\ balance[m] \in Int
  BY DEF BalanceInv, SettledInv, TypeOK
<1>2. NetOf(ledger[b]) \in Int
  BY <1>1 DEF TypeOK, Entry, NetOf
<1>3. balance'[m] = balance[m] + Posted(b, m)
  <2>1. CASE UNCHANGED <<ledger, balance>>
    BY <1>1, <1>2, <2>1 DEF Posted
  <2>2. CASE Debit(n, x) /\ NetOf(ledger'[b]) = NetOf(ledger[b]) - x
    <3>1. balance'[m] = balance[m] + (IF n = m THEN - x ELSE 0)
      BY <1>1, <2>2, Debited
    <3>2. Posted(b, m) = IF n = m THEN - x ELSE 0
      BY <1>2, <2>2 DEF Posted
    <3> QED  BY <3>1, <3>2
  <2> QED  BY <2>1, <2>2
<1> QED  BY <1>1, <1>3, BalanceMoves

(* What each kind of posting takes from a row, and that it touches no other.   *)
LEMMA PostingNets ==
    ASSUME TypeOK, NEW a \in Assignments
    PROVE  /\ \A m \in Members, n \in Nat : PostReward(a, m, n) =>
                 \/ UNCHANGED <<ledger, balance>>
                 \/ Debit(m, -n) /\ NetOf(ledger'[a]) = NetOf(ledger[a]) - (-n)
           /\ Clawback(a) =>
                 /\ Debit(asg[a].member, Reversible(a))
                 /\ NetOf(ledger'[a]) = NetOf(ledger[a]) - Reversible(a)
           /\ \A n \in Nat :
                 ledger' = [ledger EXCEPT ![a].buyout = n] /\ ledger[a].buyout = 0 =>
                 NetOf(ledger'[a]) = NetOf(ledger[a]) - n
<1>1. ledger[a] \in Entry /\ ledger \in [Assignments -> Entry]
  BY DEF TypeOK
<1>2. ASSUME NEW e \in Entry, NEW n \in Nat
      PROVE  /\ e.reward = 0 => NetOf([e EXCEPT !.reward = n]) = NetOf(e) - (-n)
             /\ e.buyout = 0 => NetOf([e EXCEPT !.buyout = n]) = NetOf(e) - n
             /\ NetOf([e EXCEPT !.clawback = e.clawback + n]) = NetOf(e) - n
  BY DEF Entry, NetOf
<1>3. ASSUME NEW m \in Members, NEW n \in Nat, PostReward(a, m, n)
      PROVE  \/ UNCHANGED <<ledger, balance>>
             \/ Debit(m, -n) /\ NetOf(ledger'[a]) = NetOf(ledger[a]) - (-n)
  <2>1. CASE ledger[a].reward # 0 \/ n = 0
    BY <1>3, <2>1 DEF PostReward
  <2>2. CASE ~(ledger[a].reward # 0 \/ n = 0)
    <3>1. ledger' = [ledger EXCEPT ![a].reward = n] /\ Debit(m, -n) /\ ledger[a].reward = 0
      BY <1>3, <2>2 DEF PostReward
    <3>2. ledger'[a] = [ledger[a] EXCEPT !.reward = n]
      BY <1>1, <3>1
    <3> QED  BY <1>1, <1>2, <3>1, <3>2
  <2> QED  BY <2>1, <2>2
<1>4. ASSUME Clawback(a)
      PROVE  /\ Debit(asg[a].member, Reversible(a))
             /\ NetOf(ledger'[a]) = NetOf(ledger[a]) - Reversible(a)
  <2>1. ledger'[a] = [ledger[a] EXCEPT !.clawback = ledger[a].clawback + Reversible(a)]
    BY <1>1, <1>4 DEF Clawback
  <2> QED  BY <1>1, <1>2, <1>4, <2>1, Amounts DEF Clawback
<1>5. ASSUME NEW n \in Nat, ledger' = [ledger EXCEPT ![a].buyout = n], ledger[a].buyout = 0
      PROVE  NetOf(ledger'[a]) = NetOf(ledger[a]) - n
  <2>1. ledger'[a] = [ledger[a] EXCEPT !.buyout = n]
    BY <1>1, <1>5
  <2> QED  BY <1>1, <1>2, <1>5, <2>1
<1> QED  BY <1>3, <1>4, <1>5

(* A takeover pays its member what the current rule pays on acceptance.        *)
LEMMA BalanceVolunteer ==
    ASSUME BalanceInv, [Next]_vars, spent' = spent, NEW i \in Instances, NEW n \in Members, Volunteer(i, n),
           NEW m \in Members
    PROVE  Balanced(m)'
<1>1. TypeOK
  BY DEF BalanceInv, SettledInv
<1> DEFINE pay == VoluntaryReward(CurrentRule, value[i], "ON_ACCEPT")
<1>2. pay \in Nat
  BY <1>1, RewardTypes
<1>3. PICK a \in Assignments, s \in Slots \ Occupied(i) :
         Opened(a, i, n, "VOLUNTEERED", s) /\ PostReward(a, n, pay)
  BY <1>1, VolunteerRow
<1>4. asg'[a].member = n
  BY <1>3 DEF Opened, NewRow
<1> HIDE DEF pay
<1>5. \A b \in Assignments \ {a} : SamePoints(b)
  BY <1>1, <1>2, <1>3, PostRewardPoints
<1>6. \/ UNCHANGED <<ledger, balance>>
      \/ Debit(n, -pay) /\ NetOf(ledger'[a]) = NetOf(ledger[a]) - (-pay)
  BY <1>1, <1>2, <1>3, PostingNets
<1> QED  BY <1>2, <1>4, <1>5, <1>6, BalanceOneRow

(* Completions, buyouts, returns and rejections post on the row they close.    *)
LEMMA BalanceOneRowStep ==
    ASSUME BalanceInv, [Next]_vars, spent' = spent, NEW i \in Instances, NEW a \in Assignments,
           OneRowStep(i, a) \/ RejectReassign(i, a), NEW m \in Members
    PROVE  Balanced(m)'
<1>1. TypeOK /\ SettledInv /\ Settled(a)
  BY DEF BalanceInv, SettledInv
<1>2. asg[a] \in Row /\ asg[a].inst = i /\ asg'[a].member = asg[a].member
  <2>1. CASE OneRowStep(i, a)
    <3>1. asg[a] \in Row /\ asg[a].inst = i
      BY <1>1, <2>1, OneRow
    <3>2. \E s \in RowStatuses : asg'[a] = [asg[a] EXCEPT !.status = s]
      BY <1>1, <2>1, OneRow DEF OneRowStep, Closed, RowStatuses
    <3> QED  BY <3>1, <3>2 DEF Row
  <2>2. CASE RejectReassign(i, a)
    <3>1. asg[a] \in Row /\ asg[a].inst = i /\ asg'[a] = [asg[a] EXCEPT !.status = "REJECTED"]
      BY <1>1, <2>2, ReassignRows DEF Closed
    <3> QED  BY <3>1 DEF Row
  <2> QED  BY <2>1, <2>2
<1>3. asg[a].member \in Members
  BY <1>2 DEF Row
<1>4. CASE Complete(i, a)
  <2>1. PaidOut(a) \in Nat
    BY <1>1, <1>2, RewardTypes
  <2>2. PostReward(a, asg[a].member, PaidOut(a))
    BY <1>4 DEF Complete, PaidOut
  <2>3. \A b \in Assignments \ {a} : SamePoints(b)
    BY <1>1, <2>1, <2>2, PostRewardPoints
  <2>4. \/ UNCHANGED <<ledger, balance>>
        \/ /\ Debit(asg[a].member, -PaidOut(a))
           /\ NetOf(ledger'[a]) = NetOf(ledger[a]) - (-PaidOut(a))
    BY <1>1, <1>3, <2>1, <2>2, PostingNets
  <2>5. -PaidOut(a) \in Int
    BY <2>1
  <2> QED  BY <1>2, <1>3, <2>3, <2>4, <2>5, BalanceOneRow
<1>5. CASE Buyout(i, a)
  <2>1. BuyoutCost(value[i]) \in Nat
    BY <1>1, Amounts DEF TypeOK
  <2>2. /\ ledger' = [ledger EXCEPT ![a].buyout = BuyoutCost(value[i])]
        /\ Debit(asg[a].member, BuyoutCost(value[i]))
    BY <1>5 DEF Buyout
  <2>3. ledger[a].buyout = 0
    BY <1>1, <1>5, OneRow DEF Settled, OneRowStep, Closed
  <2>4. \A b \in Assignments \ {a} : SamePoints(b)
    BY <1>1, <2>2 DEF SamePoints, TypeOK
  <2>5. NetOf(ledger'[a]) = NetOf(ledger[a]) - BuyoutCost(value[i])
    BY <1>1, <2>1, <2>2, <2>3, PostingNets
  <2> QED  BY <1>2, <1>3, <2>1, <2>2, <2>4, <2>5, BalanceOneRow
<1>6. CASE Clawback(a)
  <2>1. Reversible(a) \in Nat
    BY <1>1, Amounts
  <2>2. /\ Debit(asg[a].member, Reversible(a))
        /\ NetOf(ledger'[a]) = NetOf(ledger[a]) - Reversible(a)
    BY <1>1, <1>6, PostingNets
  <2>3. \A b \in Assignments \ {a} : SamePoints(b)
    BY <1>1, <1>6, ClawbackPoints
  <2> QED  BY <1>2, <1>3, <2>1, <2>2, <2>3, BalanceOneRow
<1>7. CASE UNCHANGED <<ledger, balance>>
  BY <1>1, <1>7, BalanceStays DEF BalanceInv, SamePoints
<1>8. (Release(i, a) \/ Revoke(i, a)) => Clawback(a) \/ UNCHANGED <<ledger, balance>>
  BY DEF Release, Revoke, GiveBack, ClawbackIfPaidOnAccept
<1>9. (RejectReoffer(i, a) \/ RejectReassign(i, a)) => Clawback(a)
  BY DEF RejectReoffer, RejectReassign
<1> QED  BY <1>4, <1>5, <1>6, <1>7, <1>8, <1>9 DEF OneRowStep

(* A step that charges the holders of an occurrence charges each of them once, *)
(* because no member holds two of its rows.                                    *)
LEMMA BalanceCharged ==
    ASSUME BalanceInv, [Next]_vars, spent' = spent, NEW i \in Instances,
           \A a \in Assignments : asg'[a].member = asg[a].member,
           NEW amount \in [Assignments -> Nat],
           \A a \in Active(i) : NetOf(ledger'[a]) = NetOf(ledger[a]) - amount[a],
           \A a \in Assignments \ Active(i) : SamePoints(a),
           NEW m \in Members, balance'[m] = balance[m] - ChargeOf(m, Active(i), amount)
    PROVE  Balanced(m)'
<1>1. TypeOK /\ SettledInv /\ Balanced(m) /\ balance[m] \in Int /\ Apart(i)
  BY DEF BalanceInv, SettledInv, TypeOK, TeamInv, Team
<1>2. CASE \E a \in Active(i) : asg[a].member = m
  <2> DEFINE b == CHOOSE a \in Active(i) : asg[a].member = m
  <2>1. b \in Active(i) /\ asg[b].member = m
    BY <1>2
  <2>2. ChargeOf(m, Active(i), amount) = amount[b]
    BY <1>2 DEF ChargeOf
  <2> HIDE DEF b
  <2>3. b \in Assignments /\ amount[b] \in Nat
    BY <2>1 DEF Active, RowsIn
  <2>4. NetOf(ledger[b]) \in Int
    BY <1>1, <2>3 DEF TypeOK, Entry, NetOf
  <2>5. Posted(b, m) = - amount[b]
    BY <2>1, <2>3, <2>4 DEF Posted
  <2>6. balance'[m] = balance[m] + Posted(b, m)
    BY <1>1, <2>2, <2>3, <2>5
  <2>7. \A a \in Assignments \ {b} : SamePoints(a) \/ asg'[a].member # m
    BY <1>1, <2>1 DEF Apart
  <2> QED  BY <1>1, <2>3, <2>6, <2>7, BalanceMoves
<1>3. CASE ~ \E a \in Active(i) : asg[a].member = m
  <2>1. ChargeOf(m, Active(i), amount) = 0
    BY <1>3 DEF ChargeOf
  <2>2. \A a \in Assignments : SamePoints(a) \/ asg'[a].member # m
    BY <1>3
  <2> QED  BY <1>1, <2>1, <2>2, BalanceStays
<1> QED  BY <1>2, <1>3

(* Cancellations reverse, and penalising expiries fine, every holder once.     *)
LEMMA BalanceEnd ==
    ASSUME BalanceInv, [Next]_vars, spent' = spent, NEW i \in Instances,
           Cancel(i) \/ Expire(i) \/ ExpirePenalty(i), NEW m \in Members
    PROVE  Balanced(m)'
<1>1. TypeOK /\ SettledInv
  BY DEF BalanceInv, SettledInv
<1>2. ASSUME NEW a \in Assignments PROVE asg'[a].member = asg[a].member
  <2>1. asg'[a] = asg[a] \/ \E s \in RowStatuses : asg'[a] = [asg[a] EXCEPT !.status = s]
    BY <1>1, EndedRows DEF Kept, Closed, RowStatuses
  <2>2. asg[a] \in Row \cup {NoRow}
    BY <1>1 DEF TypeOK
  <2> QED  BY <2>1, <2>2 DEF Row, NoRow
<1>3. \A e \in Entry, n \in Nat :
         /\ NetOf([e EXCEPT !.clawback = e.clawback + n]) = NetOf(e) - n
         /\ e.penalty = 0 => NetOf([e EXCEPT !.penalty = n]) = NetOf(e) - n
  <2>1. ASSUME NEW e \in Entry, NEW n \in Nat
        PROVE  /\ NetOf([e EXCEPT !.clawback = e.clawback + n]) = NetOf(e) - n
               /\ e.penalty = 0 => NetOf([e EXCEPT !.penalty = n]) = NetOf(e) - n
    BY DEF Entry, NetOf
  <2> QED  BY <2>1
<1>4. Active(i) \subseteq Assignments /\ \A a \in Assignments : ledger[a] \in Entry
  BY <1>1 DEF Active, RowsIn, TypeOK
<1>5. CASE Cancel(i)
  <2> DEFINE undo == [a \in Assignments |->
                        IF Pinned(a).timing = "ON_ACCEPT" THEN Reversible(a) ELSE 0]
  <2>1. undo \in [Assignments -> Nat]
    BY <1>1, Amounts
  <2>2. /\ ledger' = [a \in Assignments |->
                        IF a \in Active(i) THEN [ledger[a] EXCEPT !.clawback = @ + undo[a]]
                        ELSE ledger[a]]
        /\ balance' = [n \in Members |-> balance[n] - ChargeOf(n, Active(i), undo)]
    BY <1>5 DEF Cancel
  <2> HIDE DEF undo
  <2>3. \A a \in Active(i) : NetOf(ledger'[a]) = NetOf(ledger[a]) - undo[a]
    <3>1. \A a \in Active(i) :
             ledger'[a] = [ledger[a] EXCEPT !.clawback = ledger[a].clawback + undo[a]]
      BY <1>4, <2>2
    <3>2. \A a \in Active(i) : ledger[a] \in Entry /\ undo[a] \in Nat
      BY <1>4, <2>1
    <3> QED  BY <1>3, <3>1, <3>2
  <2>4. \A a \in Assignments \ Active(i) : SamePoints(a)
    BY <2>2 DEF SamePoints
  <2>5. balance'[m] = balance[m] - ChargeOf(m, Active(i), undo)
    BY <2>2
  <2> QED  BY <1>2, <2>1, <2>3, <2>4, <2>5, BalanceCharged
<1>6. CASE ExpirePenalty(i)
  <2> DEFINE fine == [a \in Assignments |->
                        IF a \in Active(i) THEN PenaltyOf(i, asg[a].member) ELSE 0]
  <2>1. fine \in [Assignments -> Nat]
    <3>1. \A a \in Active(i) : asg[a].member \in Members
      BY <1>1, RowTypes DEF Active, RowStatuses, Row
    <3> QED  BY <1>1, <3>1, Amounts
  <2>2. /\ ledger' = [a \in Assignments |->
                        IF a \in Active(i) THEN [ledger[a] EXCEPT !.penalty = fine[a]]
                        ELSE ledger[a]]
        /\ balance' = [n \in Members |-> balance[n] - ChargeOf(n, Active(i), fine)]
    BY <1>6 DEF ExpirePenalty
  <2> HIDE DEF fine
  <2>3. \A a \in Active(i) : NetOf(ledger'[a]) = NetOf(ledger[a]) - fine[a]
    <3>1. \A a \in Active(i) : ledger'[a] = [ledger[a] EXCEPT !.penalty = fine[a]]
      BY <1>4, <2>2
    <3>2. \A a \in Active(i) : ledger[a] \in Entry /\ fine[a] \in Nat /\ ledger[a].penalty = 0
      BY <1>1, <1>4, <2>1 DEF SettledInv, Settled, Active, RowsIn
    <3> QED  BY <1>3, <3>1, <3>2
  <2>4. \A a \in Assignments \ Active(i) : SamePoints(a)
    BY <2>2 DEF SamePoints
  <2>5. balance'[m] = balance[m] - ChargeOf(m, Active(i), fine)
    BY <2>2
  <2> QED  BY <1>2, <2>1, <2>3, <2>4, <2>5, BalanceCharged
<1>7. CASE Expire(i)
  BY <1>1, <1>7, BalanceStays DEF BalanceInv, SamePoints, Expire
<1> QED  BY <1>5, <1>6, <1>7

(* Only a purchase spends, and it takes the price off the buyer's balance.     *)
LEMMA OnlyPurchasesSpend ==
    ASSUME NEW i \in Instances, InstanceStep(i)
    PROVE  spent' = spent
BY DEF InstanceStep, MaterializeDue, AdminMaterialize, Create, Publish, Pause, Resume,
       InstanceAction, Volunteer, Draw, DrawFrom, Complete, Buyout, Release, Revoke, GiveBack,
       RejectReassign, RejectReoffer, Cancel, Expire, ExpirePenalty, End, Grow, shopVars

LEMMA BalancePurchase ==
    ASSUME BalanceInv, [Next]_vars, NEW n \in Members, BuyMultiplier(n), NEW m \in Members
    PROVE  Balanced(m)'
<1>1. /\ TypeOK /\ SettledInv /\ Balanced(m)
      /\ balance[m] \in Int /\ spent \in [Members -> Nat] /\ spent[m] \in Nat
      /\ EffectCost \in Nat /\ OpeningBalance \in Int
  BY MarketAssumption DEF BalanceInv, SettledInv, TypeOK
<1>2. UNCHANGED <<asg, ledger>> /\ Debit(n, EffectCost)
  BY DEF BuyMultiplier
<1>3. LedgerTotal(m) \in Int /\ LedgerTotal(m)' = LedgerTotal(m)
  BY <1>1, <1>2, TotalStays DEF SamePoints
<1>4. balance'[m] = balance[m] + (IF n = m THEN - EffectCost ELSE 0)
  BY <1>1, <1>2, Debited
<1>5. spent'[m] = spent[m] + (IF n = m THEN EffectCost ELSE 0)
  BY <1>1 DEF BuyMultiplier
<1> QED  BY <1>1, <1>3, <1>4, <1>5 DEF Balanced

(* Every step keeps every balance the sum of its ledger.                       *)
LEMMA BalanceStep ==
    ASSUME BalanceInv, [Next]_vars, NEW m \in Members
    PROVE  Balanced(m)'
<1>1. CASE UNCHANGED <<ledger, balance, spent>>
  BY <1>1, BalanceStays DEF BalanceInv, SamePoints
<1>2. CASE \E i \in Instances : InstanceStep(i)
  <2>1. PICK i \in Instances : InstanceStep(i)
    BY <1>2
  <2>2. spent' = spent
    BY <2>1, OnlyPurchasesSpend
  <2>3. RowlessStep(i) \/ Draw(i) => UNCHANGED <<ledger, balance>>
    BY Rowless DEF Draw, DrawFrom
  <2> QED  BY <1>1, <2>1, <2>2, <2>3, BalanceVolunteer, BalanceOneRowStep, BalanceEnd
           DEF InstanceStep, RowlessStep, OneRowStep
<1>3. CASE ElsewhereStep \/ UNCHANGED vars
  BY <1>1, <1>3, Rowless, BalancePurchase
<1> QED  BY <1>2, <1>3 DEF Next, ElsewhereStep

(* The cached balance of every member is the opening balance and every entry   *)
(* of the member's ledger, whatever takeovers, draws, returns, redos, buyouts, *)
(* cancellations, fines and purchases of multipliers came in between           *)
(* (household_members.points_cache).                                           *)
THEOREM BalancesAreLedgerSums == Spec => []BalanceIsLedgerSum
<1>1. ASSUME Init PROVE BalanceIsLedgerSum
  <2>1. /\ asg = [a \in Assignments |-> NoRow] /\ ledger = [a \in Assignments |-> NoEntry]
        /\ balance = [m \in Members |-> OpeningBalance]
        /\ spent = [m \in Members |-> 0]
    BY <1>1 DEF Init
  <2>2. ASSUME NEW m \in Members PROVE LedgerTotal(m) = 0
    <3>1. Shares(asg, ledger, m) = [a \in Assignments |-> 0]
      BY <2>1 DEF Shares, NoEntry, NetOf
    <3>2. PICK f \in [0 .. MaxAssignments -> Int] :
             /\ Runs(f, MaxAssignments, [a \in Assignments |-> 0])
             /\ TotalOf(asg, ledger, m) = f[MaxAssignments]
      BY <3>1, TotalRuns
    <3> DEFINE g == [a \in 0 .. MaxAssignments |-> 0]
    <3>3. Runs(g, MaxAssignments, [a \in Assignments |-> 0])
      BY MarketAssumption DEF Runs, Assignments
    <3>4. f = g
      <4> HIDE DEF g
      <4> QED  BY <3>2, <3>3, RunningSame, MarketAssumption DEF Assignments
    <3>5. TotalOf(asg, ledger, m) = 0
      BY <3>2, <3>4, MarketAssumption
    <3> QED  BY <3>5 DEF LedgerTotal, TotalOf
  <2> QED  BY <2>1, <2>2, MarketAssumption DEF BalanceIsLedgerSum
<1>2. TeamInv /\ SettledInv /\ BalanceIsLedgerSum /\ [Next]_vars => BalanceIsLedgerSum'
  <2>1. BalanceInv /\ [Next]_vars => \A m \in Members : Balanced(m)'
    BY BalanceStep
  <2>2. BalanceIsLedgerSum <=> \A m \in Members : Balanced(m)
    BY DEF BalanceIsLedgerSum, Balanced
  <2>3. BalanceIsLedgerSum' <=> \A m \in Members : Balanced(m)'
    BY DEF BalanceIsLedgerSum, Balanced
  <2> QED  BY <2>1, <2>2, <2>3 DEF BalanceInv
<1> QED  BY <1>1, <1>2, TeamsInvariant, PointsFollowRows, PTL DEF Spec
-----------------------------------------------------------------------------
(* What a takeover is paid.  The promise is made at the value of the day, and  *)
(* as long as the row is open the value of its occurrence does not fall; a row *)
(* that pays on acceptance has its reward at once.                             *)
Shown(a) ==
    asg[a].status = "ACTIVE" /\ status[asg[a].inst] # "EXPIRED" =>
        asg[a].valueAt <= value[asg[a].inst]

Earned(a) ==
    asg[a].origin = "VOLUNTEERED" =>
        /\ asg[a].status = "ACTIVE" /\ Pinned(a).timing = "ON_ACCEPT" =>
              ledger[a].reward = Promised(a)
        /\ asg[a].status = "COMPLETED" =>
              /\ \/ ledger[a].reward >= Promised(a)
                 \/ ledger[a].reward >= Multiplied(Promised(a))
              /\ Pinned(a).timing = "ON_ACCEPT" \/ ~Pinned(a).enabled
                    => ledger[a].reward = Promised(a)

(* A larger value earns no smaller reward, and a larger reward no smaller      *)
(* multiple.                                                                   *)
LEMMA RoundedRises ==
    ASSUME NEW n \in Nat, NEW k \in Nat, n <= k, NEW rounding
    PROVE  Rounded(n, rounding) <= Rounded(k, rounding)
BY DEF Rounded

LEMMA RewardsRise ==
    ASSUME NEW rule \in Rule, NEW v \in Nat, NEW w \in Nat, v <= w, NEW moment
    PROVE  VoluntaryReward(rule, v, moment) <= VoluntaryReward(rule, w, moment)
<1>1. /\ v * rule.multiplier \in Nat /\ w * rule.multiplier \in Nat
      /\ v * rule.multiplier <= w * rule.multiplier
  BY DEF Rule
<1> QED  BY <1>1, RoundedRises DEF VoluntaryReward

LEMMA MultiplesRise ==
    ASSUME NEW n \in Nat, NEW k \in Nat, n <= k
    PROVE  Multiplied(n) <= Multiplied(k)
<1>1. EffectMultiplier \in Nat
  BY MarketAssumption
<1>2. /\ n * EffectMultiplier \in Nat /\ k * EffectMultiplier \in Nat
      /\ n * EffectMultiplier <= k * EffectMultiplier
  BY <1>1
<1> QED  BY <1>2, RoundedRises DEF Multiplied

(* What a step can do to a row, with the points it posts when it opens one.    *)
Taken(a, i, m, o) ==
    /\ \E s \in Slots : Opened(a, i, m, o, s)
    /\ value' = value
    /\ o = "VOLUNTEERED" =>
          PostReward(a, m, VoluntaryReward(CurrentRule, value[i], "ON_ACCEPT"))

LEMMA RowFate ==
    ASSUME TypeOK, [Next]_vars, NEW a \in Assignments
    PROVE  \/ Kept(a)
           \/ \E i \in Instances, m \in Members, o \in Origins : Taken(a, i, m, o)
           \/ \E i \in Instances : Complete(i, a)
           \/ \E from, to \in RowStatuses :
                 Closed(a, from, to) /\ to \notin {"ACTIVE", "COMPLETED"}
<1> DEFINE Gone == \E from, to \in RowStatuses :
                      Closed(a, from, to) /\ to \notin {"ACTIVE", "COMPLETED"}
<1>1. CASE \E i \in Instances : InstanceStep(i)
  <2>1. PICK i \in Instances : InstanceStep(i)
    BY <1>1
  <2>2. CASE RowlessStep(i)
    BY <2>2, Rowless DEF Kept
  <2>3. ASSUME NEW m \in Members, Volunteer(i, m)
        PROVE  Kept(a) \/ Taken(a, i, m, "VOLUNTEERED")
    <3>1. value' = value
      BY <2>3 DEF Volunteer
    <3> QED  BY <2>3, <3>1, VolunteerRow DEF Taken
  <2>4. CASE Draw(i)
    BY <2>4, DrawRows DEF Kept, Taken, Opened, Used, Origins
  <2>5. ASSUME NEW b \in Assignments, OneRowStep(i, b) PROVE Kept(a) \/ Complete(i, a) \/ Gone
    BY <2>5, OneRow DEF OneRowStep, RowStatuses
  <2>6. ASSUME NEW b \in Assignments, RejectReassign(i, b)
        PROVE  Kept(a) \/ Gone \/ \E m \in Members : Taken(a, i, m, "REOPENED_TO_ASSIGNEE")
    <3>1. /\ Closed(b, "COMPLETED", "REJECTED") /\ asg[b] \in Row
          /\ \E c \in Assignments \ {b} :
                /\ Opened(c, i, asg[b].member, "REOPENED_TO_ASSIGNEE", asg[b].slot)
                /\ \A d \in Assignments \ {b, c} : Kept(d)
      BY <2>6, ReassignRows
    <3>2. asg[b].member \in Members /\ asg[b].slot \in Slots /\ value' = value
      BY <2>6, <3>1 DEF Row, RejectReassign
    <3> QED  BY <3>1, <3>2 DEF Taken, RowStatuses
  <2>7. CASE Cancel(i) \/ Expire(i) \/ ExpirePenalty(i)
    BY <2>7, EndedRows DEF RowStatuses
  <2> QED  BY <2>1, <2>2, <2>3, <2>4, <2>5, <2>6, <2>7
           DEF InstanceStep, RowlessStep, OneRowStep, Origins
<1>2. CASE ElsewhereStep \/ UNCHANGED vars
  BY <1>2, Rowless DEF Kept
<1> QED  BY <1>1, <1>2 DEF Next, ElsewhereStep

(* While work is held on an occurrence its value only rises: increases and     *)
(* growth stop at a cap that was above the value, and the resets close every   *)
(* row.  An expired occurrence stays expired.                                  *)
LEMMA ValueHolds ==
    ASSUME TeamInv, [Next]_vars, NEW i \in Instances, NEW a \in Active(i), Kept(a),
           status'[i] # "EXPIRED"
    PROVE  status[i] # "EXPIRED" /\ value[i] <= value'[i]
<1>1. /\ TypeOK /\ Team(i) /\ value[i] \in Nat /\ ValueCap \in Nat /\ GrowthStep \in Nat
      /\ asg[a].status = "ACTIVE" /\ asg[a].inst = i /\ a \in Assignments
  BY MarketAssumption DEF TeamInv, TypeOK, Active, RowsIn
<1>2. CASE status'[i] = status[i] /\ value'[i] = value[i]
  BY <1>1, <1>2
<1>3. ASSUME InstanceStep(i) PROVE status[i] # "EXPIRED" /\ value[i] <= value'[i]
  <2>1. status[i] # "NONE"
    BY <1>1 DEF Team
  <2>2. CASE RowlessStep(i) /\ ~Grow(i)
    BY <1>1, <2>1, <2>2 DEF RowlessStep, MaterializeDue, AdminMaterialize, Create, Publish,
       Pause, Resume, InstanceAction
  <2>3. CASE Grow(i)
    <3>1. /\ value[i] < ValueCap /\ status[i] = "AVAILABLE"
          /\ value'[i] = IF value[i] + GrowthStep > ValueCap THEN ValueCap
                         ELSE value[i] + GrowthStep
      BY <1>1, <2>3 DEF Grow, TypeOK
    <3> QED  BY <1>1, <3>1
  <2>4. CASE (\E m \in Members : Volunteer(i, m)) \/ Draw(i)
    BY <1>1, <2>4 DEF Volunteer, MayVolunteer, Draw, DrawFrom, MayDraw
  <2>5. ASSUME NEW b \in Assignments, Complete(i, b)
        PROVE  status[i] # "EXPIRED" /\ value[i] <= value'[i]
    <3>1. ~LastSlot(i, b)
      <4>1. b # a
        <5>1. asg[b] \in Row /\ Closed(b, "ACTIVE", "COMPLETED")
          BY <1>1, <2>5, OneRow DEF OneRowStep
        <5> QED  BY <5>1 DEF Closed, Kept, Row
      <4> QED  BY <4>1 DEF LastSlot
    <3> QED  BY <1>1, <2>5, <3>1 DEF Complete
  <2>6. ASSUME NEW b \in Assignments, Buyout(i, b)
        PROVE  status[i] # "EXPIRED" /\ value[i] <= value'[i]
    <3>1. value[i] < ValueCap /\ status[i] = "ASSIGNED"
      BY <2>6 DEF Buyout, MayBuyOut, Active, RowsIn
    <3>2. value'[i] = IncreasedValue(value[i])
      BY <1>1, <2>6 DEF Buyout, TypeOK
    <3> QED  BY <1>1, <3>1, <3>2 DEF IncreasedValue
  <2>7. ASSUME NEW b \in Assignments,
               \/ Release(i, b) \/ Revoke(i, b) \/ RejectReassign(i, b) \/ RejectReoffer(i, b)
        PROVE  status[i] # "EXPIRED" /\ value[i] <= value'[i]
    BY <1>1, <2>7 DEF Release, Revoke, GiveBack, RejectReassign, RejectReoffer, Move, MayMove,
       Transitions
  <2>8. CASE Cancel(i) \/ ExpirePenalty(i)
    <3>1. \A s \in RowStatuses \ {"ACTIVE"} : ~Closed(a, "ACTIVE", s)
      <4>1. asg[a] \in Row
        BY <1>1, RowTypes
      <4> QED  BY <1>1, <4>1 DEF Closed, Kept, Row
    <3> QED  BY <1>1, <2>8, <3>1, EndedRows DEF RowStatuses
  <2>9. ~Expire(i)
    BY <1>1 DEF Expire, End, SetStatus, TypeOK
  <2> QED  BY <1>3, <2>2, <2>3, <2>4, <2>5, <2>6, <2>7, <2>8, <2>9 DEF InstanceStep, RowlessStep
<1>4. ASSUME NEW j \in Instances \ {i}, InstanceStep(j)
      PROVE  status'[i] = status[i] /\ value'[i] = value[i]
  BY <1>1, <1>4 DEF InstanceStep, MaterializeDue, AdminMaterialize, Create, SetStatus, Publish,
     Pause, Resume, InstanceAction, Volunteer, Draw, DrawFrom, Move, Complete, Buyout, Release,
     Revoke, GiveBack, Leave, RejectReassign, RejectReoffer, Cancel, Expire, ExpirePenalty, End,
     Grow, TypeOK
<1>5. CASE ElsewhereStep \/ UNCHANGED vars
  BY <1>2, <1>5, Rowless
<1> QED  BY <1>2, <1>3, <1>4, <1>5 DEF Next, ElsewhereStep

(* A row that a step leaves alone keeps the reward it was paid.                *)
LEMMA RewardsKept ==
    ASSUME TypeOK, [Next]_vars, NEW c \in Assignments, Kept(c)
    PROVE  ledger'[c].reward = ledger[c].reward
<1>1. \A a \in Assignments : ledger[a] \in Entry
  BY DEF TypeOK
<1>2. ASSUME NEW a \in Assignments, NEW n \in Nat
      PROVE  /\ [ledger[a] EXCEPT !.clawback = n].reward = ledger[a].reward
             /\ [ledger[a] EXCEPT !.penalty = n].reward = ledger[a].reward
             /\ [ledger[a] EXCEPT !.buyout = n].reward = ledger[a].reward
  <2>1. ledger[a] \in Entry
    BY <1>1
  <2> QED  BY <2>1 DEF Entry
<1>3. ASSUME NEW a \in Assignments \ {c}, NEW m, NEW n, PostReward(a, m, n)
      PROVE  ledger'[c].reward = ledger[c].reward
  BY <1>3 DEF PostReward, TypeOK
<1>4. ASSUME NEW a \in Assignments, Clawback(a) \/ ClawbackIfPaidOnAccept(a)
      PROVE  ledger'[c].reward = ledger[c].reward
  <2>1. ledger[a].clawback + Reversible(a) \in Nat
    BY <1>1, Amounts DEF Entry
  <2>2. CASE Clawback(a)
    <3>1. \/ ledger'[c] = ledger[c]
          \/ c = a /\ ledger'[c] = [ledger[c] EXCEPT !.clawback = ledger[a].clawback + Reversible(a)]
      BY <2>2 DEF Clawback, TypeOK
    <3> QED  BY <1>2, <2>1, <3>1
  <2> QED  BY <1>4, <2>2 DEF ClawbackIfPaidOnAccept
<1>5. CASE UNCHANGED ledger
  BY <1>5
<1>6. CASE \E i \in Instances : InstanceStep(i)
  <2>1. PICK i \in Instances : InstanceStep(i)
    BY <1>6
  <2>2. CASE RowlessStep(i) \/ Draw(i)
    BY <1>5, <2>2, Rowless DEF Draw, DrawFrom
  <2>3. ASSUME NEW m \in Members, Volunteer(i, m) PROVE ledger'[c].reward = ledger[c].reward
    <3>1. PICK b \in Assignments, s \in Slots :
             /\ Opened(b, i, m, "VOLUNTEERED", s)
             /\ PostReward(b, m, VoluntaryReward(CurrentRule, value[i], "ON_ACCEPT"))
      BY <2>3, VolunteerRow
    <3>2. b # c
      BY <3>1 DEF Opened, NewRow, Kept
    <3> QED  BY <1>3, <3>1, <3>2
  <2>4. ASSUME NEW b \in Assignments, Complete(i, b) PROVE ledger'[c].reward = ledger[c].reward
    <3>1. asg[b] \in Row /\ Closed(b, "ACTIVE", "COMPLETED")
      BY <2>4, OneRow DEF OneRowStep
    <3>2. b # c
      BY <3>1 DEF Closed, Kept, Row
    <3> QED  BY <1>3, <2>4, <3>2 DEF Complete
  <2>5. ASSUME NEW a \in Assignments, Buyout(i, a) PROVE ledger'[c].reward = ledger[c].reward
    <3>1. BuyoutCost(value[i]) \in Nat
      BY Amounts DEF TypeOK
    <3>2. \/ ledger'[c] = ledger[c]
          \/ ledger'[c] = [ledger[c] EXCEPT !.buyout = BuyoutCost(value[i])]
      BY <2>5 DEF Buyout, TypeOK
    <3> QED  BY <1>2, <3>1, <3>2
  <2>6. CASE \E a \in Assignments :
                Release(i, a) \/ Revoke(i, a) \/ RejectReassign(i, a) \/ RejectReoffer(i, a)
    BY <1>4, <2>6 DEF Release, Revoke, GiveBack, RejectReassign, RejectReoffer
  <2>7. CASE Cancel(i)
    <3> DEFINE undo == [a \in Assignments |->
                          IF Pinned(a).timing = "ON_ACCEPT" THEN Reversible(a) ELSE 0]
    <3>1. ledger[c].clawback + undo[c] \in Nat
      BY <1>1, Amounts DEF Entry
    <3>2. \/ ledger'[c] = ledger[c]
          \/ ledger'[c] = [ledger[c] EXCEPT !.clawback = ledger[c].clawback + undo[c]]
      BY <2>7 DEF Cancel
    <3> HIDE DEF undo
    <3> QED  BY <1>2, <3>1, <3>2
  <2>8. CASE Expire(i)
    BY <1>5, <2>8 DEF Expire
  <2>9. CASE ExpirePenalty(i)
    <3>1. \A a \in Active(i) : asg[a].member \in Members
      BY RowTypes DEF Active, RowStatuses, Row
    <3>2. \/ ledger'[c] = ledger[c]
          \/ c \in Active(i)
             /\ ledger'[c] = [ledger[c] EXCEPT !.penalty = PenaltyOf(i, asg[c].member)]
      BY <2>9 DEF ExpirePenalty
    <3> QED  BY <1>2, <3>1, <3>2, Amounts
  <2> QED  BY <2>1, <2>2, <2>3, <2>4, <2>5, <2>6, <2>7, <2>8, <2>9
           DEF InstanceStep, RowlessStep
<1>7. CASE ElsewhereStep \/ UNCHANGED vars
  BY <1>5, <1>7, Rowless
<1> QED  BY <1>6, <1>7 DEF Next, ElsewhereStep

(* The three facts about a row's reward are kept by every step.                *)
PaidInv == TeamInv /\ SettledInv /\ \A a \in Assignments : Shown(a) /\ Earned(a)

LEMMA ShownStep ==
    ASSUME PaidInv, [Next]_vars, NEW a \in Assignments
    PROVE  Shown(a)'
<1>1. TypeOK /\ TypeOK' /\ TeamInv /\ Shown(a)
  BY TypeStep DEF PaidInv, TeamInv
<1>2. CASE Kept(a)
  <2>1. SUFFICES ASSUME asg[a].status = "ACTIVE", status'[asg[a].inst] # "EXPIRED"
                 PROVE  asg[a].valueAt <= value'[asg[a].inst]
    BY <1>2 DEF Kept, Shown
  <2>2. asg[a] \in Row
    BY <1>1, <2>1, RowTypes
  <2>3. a \in Active(asg[a].inst)
    BY <2>1 DEF Active, RowsIn
  <2>4. status[asg[a].inst] # "EXPIRED" /\ value[asg[a].inst] <= value'[asg[a].inst]
    BY <1>1, <1>2, <2>1, <2>2, <2>3, ValueHolds DEF Row
  <2>5. /\ asg[a].valueAt \in Nat /\ value[asg[a].inst] \in Nat
        /\ value'[asg[a].inst] \in Nat
    BY <1>1, <2>2 DEF Row, TypeOK
  <2> QED  BY <1>1, <2>1, <2>4, <2>5 DEF Shown
<1>3. ASSUME NEW i \in Instances, NEW m, NEW o, Taken(a, i, m, o) PROVE Shown(a)'
  BY <1>1, <1>3 DEF Taken, Opened, NewRow, Shown, TypeOK
<1>4. ASSUME NEW from \in RowStatuses, NEW to \in RowStatuses, to # "ACTIVE", Closed(a, from, to)
      PROVE  Shown(a)'
  <2>1. asg[a] \in Row
    BY <1>1, <1>4, RowTypes DEF Closed, RowStatuses
  <2> QED  BY <1>4, <2>1 DEF Closed, Row, Shown
<1>5. ASSUME NEW i \in Instances, Complete(i, a) PROVE Shown(a)'
  BY <1>1, <1>4, <1>5, OneRow DEF OneRowStep, RowStatuses
<1> QED  BY <1>1, <1>2, <1>3, <1>4, <1>5, RowFate

(* A takeover is paid when it opens or when it completes.                      *)
LEMMA EarnedStep ==
    ASSUME PaidInv, [Next]_vars, NEW a \in Assignments
    PROVE  Earned(a)'
<1>1. TypeOK /\ Settled(a) /\ Shown(a) /\ Earned(a) /\ Pinned(a) \in Rule
  BY RewardTypes DEF PaidInv, TeamInv, SettledInv
<1>2. CASE Kept(a)
  <2>1. ledger'[a].reward = ledger[a].reward
    BY <1>1, <1>2, RewardsKept
  <2>2. Promised(a)' = Promised(a) /\ Pinned(a)' = Pinned(a) /\ asg'[a] = asg[a]
    BY <1>2 DEF Kept, Promised, Pinned
  <2> QED  BY <1>1, <2>1, <2>2 DEF Earned
<1>3. ASSUME NEW i \in Instances, NEW m \in Members, NEW o \in Origins, Taken(a, i, m, o)
      PROVE  Earned(a)'
  <2>1. /\ asg[a].status = "NONE" /\ asg'[a].status = "ACTIVE" /\ asg'[a].origin = o
        /\ asg'[a].configVersion = version /\ asg'[a].valueAt = value[i]
    BY <1>3 DEF Taken, Opened, NewRow
  <2>2. SUFFICES ASSUME o = "VOLUNTEERED", Pinned(a)'.timing = "ON_ACCEPT"
                 PROVE  ledger'[a].reward = Promised(a)'
    BY <2>1 DEF Earned
  <2> DEFINE pay == VoluntaryReward(CurrentRule, value[i], "ON_ACCEPT")
  <2>3. Pinned(a)' = CurrentRule
    BY <2>1 DEF Pinned, CurrentRule
  <2>4. Promised(a)' = pay
    BY <2>1, <2>2, <2>3 DEF Promised
  <2>5. ledger[a] = NoEntry /\ ledger[a] \in Entry /\ ledger[a].reward = 0 /\ pay \in Nat
    BY <1>1, <2>1, RewardTypes DEF Settled, NoEntry, TypeOK
  <2>6. PostReward(a, m, pay)
    BY <1>3, <2>2 DEF Taken
  <2> HIDE DEF pay
  <2>7. CASE pay = 0
    BY <2>4, <2>5, <2>6, <2>7 DEF PostReward
  <2>8. CASE pay # 0
    <3>1. ledger'[a] = [ledger[a] EXCEPT !.reward = pay]
      BY <1>1, <2>5, <2>6, <2>8 DEF PostReward, TypeOK
    <3> QED  BY <2>4, <2>5, <3>1 DEF Entry
  <2> QED  BY <2>7, <2>8
<1>4. ASSUME NEW i \in Instances, Complete(i, a), asg[a].origin = "VOLUNTEERED"
      PROVE  Earned(a)'
  <2>1. /\ Closed(a, "ACTIVE", "COMPLETED") /\ asg[a] \in Row /\ asg[a].inst = i
        /\ status[i] = "ASSIGNED" /\ Voluntary(a)
    BY <1>1, <1>4, OneRow DEF OneRowStep, Complete, Voluntary
  <2>2. /\ asg'[a].status = "COMPLETED" /\ asg[a].status = "ACTIVE"
        /\ asg'[a].configVersion = asg[a].configVersion /\ asg'[a].valueAt = asg[a].valueAt
    BY <2>1 DEF Closed, Row
  <2>3. Promised(a)' = Promised(a) /\ Pinned(a)' = Pinned(a)
    BY <2>2 DEF Promised, Pinned
  <2>4. /\ value[i] \in Nat /\ asg[a].valueAt \in Nat /\ asg[a].valueAt <= value[i]
        /\ Pinned(a).timing \in Timings
    BY <1>1, <2>1, <2>2 DEF Row, Shown, TypeOK, Rule
  <2>5. RewardDue(a, "ON_COMPLETE") = VoluntaryReward(Pinned(a), value[i], "ON_COMPLETE")
    BY <2>1 DEF RewardDue
  <2>6. CASE Pinned(a).timing = "ON_ACCEPT"
    <3>1. RewardDue(a, "ON_COMPLETE") = 0
      BY <2>5, <2>6 DEF VoluntaryReward
    <3>2. PaidOut(a) = 0
      BY <3>1 DEF PaidOut, SpendsCharge
    <3>3. ledger'[a].reward = Promised(a)
      BY <1>1, <1>4, <2>2, <2>6, <3>2, CompletePosts DEF Earned
    <3>4. Promised(a) \in Nat
      BY <1>1, <2>4, RewardTypes DEF Promised
    <3> QED  BY <2>2, <2>3, <3>3, <3>4 DEF Earned
  <2>7. CASE Pinned(a).timing = "ON_COMPLETE"
    <3> DEFINE award == RewardDue(a, "ON_COMPLETE")
    <3>1. ledger'[a].reward = PaidOut(a)
      BY <1>1, <1>4, <2>2, <2>7, CompletePosts DEF Settled
    <3>2. award \in Nat /\ Promised(a) \in Nat /\ Promised(a) <= award
      BY <1>1, <2>1, <2>4, <2>5, <2>7, RewardTypes, RewardsRise DEF Promised
    <3>3. PaidOut(a) = award \/ PaidOut(a) = Multiplied(award)
      BY DEF PaidOut
    <3>4. Multiplied(award) \in Nat /\ Multiplied(Promised(a)) \in Nat
          /\ Multiplied(Promised(a)) <= Multiplied(award)
      <4> HIDE DEF award
      <4> QED  BY <1>1, <3>2, RewardTypes, MultiplesRise
    <3>5. ~Pinned(a).enabled => PaidOut(a) = 0 /\ Promised(a) = 0
      BY <2>5 DEF PaidOut, SpendsCharge, Promised, VoluntaryReward
    <3> HIDE DEF award
    <3>6. /\ ledger'[a].reward >= Promised(a) \/ ledger'[a].reward >= Multiplied(Promised(a))
          /\ ~Pinned(a).enabled => ledger'[a].reward = Promised(a)
      BY <3>1, <3>2, <3>3, <3>4, <3>5
    <3> QED  BY <2>2, <2>3, <2>7, <3>6 DEF Earned, Multiplied
  <2> QED  BY <2>4, <2>6, <2>7 DEF Timings
<1>5. ASSUME NEW i \in Instances, Complete(i, a), asg[a].origin # "VOLUNTEERED"
      PROVE  Earned(a)'
  <2>1. Closed(a, "ACTIVE", "COMPLETED") /\ asg[a] \in Row
    BY <1>1, <1>5, OneRow DEF OneRowStep
  <2> QED  BY <1>5, <2>1 DEF Closed, Row, Earned
<1>6. ASSUME NEW from \in RowStatuses, NEW to \in RowStatuses, Closed(a, from, to),
             to \notin {"ACTIVE", "COMPLETED"}
      PROVE  Earned(a)'
  <2>1. asg[a] \in Row
    BY <1>1, <1>6, RowTypes DEF Closed, RowStatuses
  <2> QED  BY <1>6, <2>1 DEF Closed, Row, Earned
<1> QED  BY <1>1, <1>2, <1>3, <1>4, <1>5, <1>6, RowFate

(* A takeover whose completion stands is not reversed and was paid its promise *)
(* or more, or a multiple of that, and the cached balances are the sums of the *)
(* ledger, for every sequence of reward rules (switched off, multiplied and    *)
(* rounded in any way) and every base value: completeTask posts what the row's *)
(* pinned rule owes, and only a rejection, which ends the completion, reverses *)
(* it.                                                                         *)
THEOREM PointsAlwaysAddUp == Spec => []PointsAddUp
<1>1. Init => \A a \in Assignments : Shown(a) /\ Earned(a)
  BY DEF Init, Shown, Earned, NoRow
<1>2. PaidInv /\ [Next]_vars => \A a \in Assignments : Shown(a)' /\ Earned(a)'
  BY ShownStep, EarnedStep
<1>3. TeamInv /\ SettledInv /\ (\A a \in Assignments : Shown(a) /\ Earned(a)) /\ [Next]_vars
        => (\A a \in Assignments : Shown(a) /\ Earned(a))'
  BY <1>2 DEF PaidInv
<1>4. SettledInv /\ (\A a \in Assignments : Shown(a) /\ Earned(a)) => CompletedTakeoverIsPaid
  BY DEF SettledInv, Settled, Earned, CompletedTakeoverIsPaid
<1>5. CompletedTakeoverIsPaid /\ BalanceIsLedgerSum <=> PointsAddUp
  BY DEF PointsAddUp
<1> QED  BY <1>1, <1>3, <1>4, <1>5, TeamsInvariant, PointsFollowRows, BalancesAreLedgerSums, PTL
         DEF Spec
=============================================================================
