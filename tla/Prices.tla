-------------------------------- MODULE Prices ---------------------------------
(***************************************************************************)
(* The price of one chore over time: configuration versions saved by       *)
(* administrators, the growth sweep that beats at any moment, random draws *)
(* that pin a version, buyouts, and the end of an occurrence with the      *)
(* next one published at the reset value.                                  *)
(*                                                                         *)
(* Time is in minutes.  The member drawn can always pay; who may buy out   *)
(* otherwise is BuyoutDenial, which Simulation uses.                       *)
(* A definition marked "wrong" is a plausible slip in the code; no other   *)
(* definition uses it.                                                     *)
(***************************************************************************)
EXTENDS ConfigRules

CONSTANTS Drafts,        \* name -> a configuration administrators try to save
          BaseValue,     \* the chore's base value
          TickMinutes,   \* the clock's step
          LastMinute,    \* bound on the clock
          MaxVersions,   \* bound on the versions
          MaxBuyoutsSeen, \* bound on the buyouts of one occurrence
          MaxValueSeen    \* bound on the value a buyout starts from

(* What a buyout is computed from in this model, and what the probes try.    *)
BuyoutContexts ==
    Grid \cup {Context(v, BaseValue, n) : v \in 0 .. MaxValueSeen, n \in 0 .. MaxBuyoutsSeen}

FractionOrError(formula) ==
    \A ctx \in BuyoutContexts : FormulaResult(formula, ctx) \in [num : Int, den : Nat]

ASSUME PricesAssumption ==
    /\ BaseValue \in 0 .. MaxSafeInteger
    /\ {TickMinutes, ChainSteps} \subseteq Nat
    /\ {LastMinute, MaxBuyoutsSeen, MaxValueSeen} \subseteq Int
    /\ ProbeCurrentValues \subseteq Nat
    /\ \A d \in DOMAIN Drafts :
          /\ NeedsCostFormula(Drafts[d]) => FractionOrError(Drafts[d].buyout.costFormula)
          /\ NeedsValueFormula(Drafts[d]) => FractionOrError(Drafts[d].valueIncrease.formula)

VARIABLES versions,  \* the saved configurations by version number: names of drafts
          chore,     \* the open occurrence: status, value, buyoutCount, valueGrowthAt, configVersion
          row,       \* the active assignment: its pinned version and the first quote shown
          minute,    \* the clock
          spell,     \* history: where the growth clock last started, and with which rule
          trail,     \* history: the buyouts of this occurrence
          told       \* history: the bands this occurrence's growth messages named

priceVars == <<versions, chore, row, minute, spell, trail, told>>

Latest == Len(versions)
ConfigVersion(v) == Drafts[versions[v]]
Current == ConfigVersion(Latest)
OnMarket == chore.status = "AVAILABLE"

--------------------------------------------------------------------------------
(* valueGrowthDto: the next rise a card discloses. *)
NoRise == [points |-> 0, nextAt |-> Unset]

DisclosedRise ==
    LET vg == Current.valueGrowth
    IN  IF ~vg.enabled \/ ~OnMarket \/ chore.anchor = Unset \/ AtValueCap(Current, chore.value)
        THEN NoRise
        ELSE [points |-> vg.pointsPerInterval, nextAt |-> chore.anchor + vg.intervalMinutes]

(* configVersionFor: which version decides. *)
AssignmentPinned == {"BUYOUT_COST", "VALUE_INCREASE_ON_BUYOUT", "VOLUNTARY_REWARD", "RESET_ON_COMPLETION", "CLAWBACK"}
InstancePinned == {"OFFER_DURATION", "EXPIRY_DEADLINE", "RESET_ON_EXPIRY"}

(* wrong: every decision follows the administrator's latest intent. *)
ConfigVersionLatest(decision, r) == Latest

ConfigVersionFor(decision, r) ==
    CASE decision \in AssignmentPinned -> IF r.version # Unset THEN r.version ELSE chore.version
      [] decision \in InstancePinned   -> chore.version
      [] OTHER                         -> Latest

ConfigFor(decision, r) == ConfigVersion(ConfigVersionFor(decision, r))

(* buildQuote: at the cap the value stays, and the buyout is denied.         *)
NoQuote == [cost |-> Unset, newValue |-> Unset]

QuoteFrom(cfg, ctx) ==
    IF ~CostFinite(cfg, ctx) \/ ~IncreaseFinite(cfg, ctx) THEN NoQuote
    ELSE [cost     |-> BuyoutCost(cfg, ctx),
          newValue |-> IF AtValueCap(cfg, ctx.currentValue) THEN ctx.currentValue
                       ELSE IncreasedValue(cfg, ctx)]

Now == Context(chore.value, BaseValue, chore.buyouts)
Quote(r) == QuoteFrom(ConfigFor("BUYOUT_COST", r), Now)

--------------------------------------------------------------------------------
NoRow == [version |-> Unset, shown |-> NoQuote]

Offer(value, version, anchor) ==
    [status |-> "AVAILABLE", value |-> value, buyouts |-> 0, anchor |-> anchor, version |-> version]

(* History: the growth clock starts, under the growth rule in force.         *)
Rule(cfg) == [growth |-> [cfg.valueGrowth EXCEPT !.enabled = TRUE, !.notifyAfterPoints = 0],
              cap |-> cfg.valueIncrease.maximumValue]
SpellFrom(value, start) == [value |-> value, start |-> start, rule |-> Rule(Current), same |-> TRUE]

(* validateAndPreview of every draft: the others are refused. *)
Acceptable == {d \in DOMAIN Drafts : Valid(Drafts[d]) /\ ~PreviewThrows(Drafts[d], SampleBaseValue)}

PriceInit ==
    /\ versions \in {<<d>> : d \in Acceptable}
    /\ chore = Offer(BaseValue, 1, 0)
    /\ row = NoRow
    /\ minute = 0
    /\ spell = SpellFrom(BaseValue, 0)
    /\ trail = <<>>
    /\ told = <<>>

(* PUT /admin/config: nothing is saved when validation or the preview fails. *)
Saves(draft) ==
    /\ Latest < MaxVersions
    /\ draft \in Acceptable
    /\ versions' = Append(versions, draft)
    /\ spell' = [spell EXCEPT !.same = @ /\ Rule(Drafts[draft]) = spell.rule]
    /\ UNCHANGED <<chore, row, minute, trail, told>>

(* runValueGrowthSweep.  An occurrence without an anchor is seeded unless it  *)
(* is at the cap; one that reaches the cap loses its anchor.                 *)
Seeds ==
    /\ OnMarket
    /\ Current.valueGrowth.enabled
    /\ chore.anchor = Unset
    /\ ~AtValueCap(Current, chore.value)
    /\ chore' = [chore EXCEPT !.anchor = minute]
    /\ spell' = SpellFrom(chore.value, minute)
    /\ UNCHANGED <<versions, row, minute, trail, told>>

Grows ==
    /\ OnMarket
    /\ chore.anchor # Unset
    /\ LET step == GrownValue(Current, chore.value, chore.anchor, minute)
           band == GrowthBand(Current, BaseValue, chore.value, step.value)
       IN  /\ step.steps > 0
           /\ chore' = [chore EXCEPT !.value = step.value,
                                     !.anchor = IF step.capped THEN Unset ELSE step.anchor]
           /\ told' = IF band = Unset THEN told ELSE Append(told, band)
    /\ UNCHANGED <<versions, row, minute, spell, trail>>

(* A random draw pins the current version; the page then shows a quote.      *)
Assigns ==
    LET pinned == [version |-> Latest, shown |-> NoQuote]
    IN  /\ OnMarket
        /\ chore' = [chore EXCEPT !.status = "ASSIGNED"]
        /\ row' = [pinned EXCEPT !.shown = Quote(pinned)]
        /\ UNCHANGED <<versions, minute, spell, trail, told>>

(* executeBuyout, with the numbers the member was shown. *)
BuysOut ==
    LET quote == Quote(row)
    IN  /\ ~OnMarket
        /\ chore.buyouts < MaxBuyoutsSeen
        /\ chore.value <= MaxValueSeen
        /\ quote # NoQuote
        /\ ConfigFor("BUYOUT_COST", row).buyout.enabled
        /\ ~AtValueCap(ConfigFor("BUYOUT_COST", row), chore.value)
        /\ quote = row.shown
        /\ chore' = [chore EXCEPT !.status = "AVAILABLE", !.value = quote.newValue,
                                  !.buyouts = @ + 1, !.anchor = minute]
        /\ trail' = Append(trail, [version |-> row.version, cost |-> quote.cost,
                                 from |-> chore.value, to |-> quote.newValue])
        /\ spell' = SpellFrom(quote.newValue, minute)
        /\ row' = NoRow
        /\ UNCHANGED <<versions, minute, told>>

(* Release, revocation or rejection: back on the market, the clock restarts. *)
Returns ==
    /\ ~OnMarket
    /\ chore' = [chore EXCEPT !.status = "AVAILABLE", !.anchor = minute]
    /\ spell' = SpellFrom(chore.value, minute)
    /\ row' = NoRow
    /\ UNCHANGED <<versions, minute, trail, told>>

(* Completion resets the value; the next occurrence is published with it.    *)
ValueAfter(r) == ResetValue(ConfigFor("RESET_ON_COMPLETION", r), Now)

Completes ==
    LET value == ValueAfter(row)
    IN  /\ ~OnMarket
        /\ chore' = Offer(value, Latest, minute)
        /\ spell' = SpellFrom(value, minute)
        /\ row' = NoRow
        /\ trail' = <<>>
        /\ told' = <<>>
        /\ UNCHANGED <<versions, minute>>

Passes ==
    /\ minute + TickMinutes <= LastMinute
    /\ minute' = minute + TickMinutes
    /\ UNCHANGED <<versions, chore, row, spell, trail, told>>

PriceNext ==
    \/ \E draft \in DOMAIN Drafts : Saves(draft)
    \/ Seeds \/ Grows \/ Assigns \/ BuysOut \/ Returns \/ Completes \/ Passes

PriceSpec == PriceInit /\ [][PriceNext]_priceVars

--------------------------------------------------------------------------------
(* "A number that was quoted to a person is honoured": as long as the member *)
(* holds the chore, the quote computed anew is the one first shown, whatever *)
(* versions are saved and however often the growth sweep beats; and at the   *)
(* values the probe tried, a formula that was saved does give a quote.       *)
QuoteIsHonoured ==
    ~OnMarket =>
        /\ Quote(row) = row.shown
        /\ Now \in Grid => row.shown # NoQuote

(* The value an occurrence reaches on the market does not depend on when and *)
(* how often the sweep ran: sweeping now gives what a single sweep over the  *)
(* whole spell would have given (no interval lost, none paid twice), unless  *)
(* an administrator changed the growth rule in between.                      *)
GrowthIgnoresTheBeat ==
    OnMarket /\ spell.same /\ Current.valueGrowth.enabled =>
        IF chore.anchor = Unset THEN AtValueCap(Current, chore.value)
        ELSE GrownValue(Current, chore.value, chore.anchor, minute).value
                 = GrownValue(Current, spell.value, spell.start, minute).value

(* A band is told at most once in an occurrence, in rising order, and never  *)
(* before the value has reached it.                                          *)
BandsToldOnce ==
    \A i \in DOMAIN told :
        /\ told[i] <= chore.value
        /\ \A j \in 1 .. (i - 1) : told[j] < told[i]

(* "so the UI never promises a rise that will not come" (taskDto.ts): a rise *)
(* that is disclosed comes with the first sweep at or after its time, by the *)
(* points named or up to the ceiling, and none comes before it or unsaid.    *)
(* Only the largest integer the code counts with stops it.                   *)
RisesAsDisclosed ==
    LET ValueAt(m) == GrownValue(Current, chore.value, chore.anchor, m).value
        rise == DisclosedRise
    IN  IF rise = NoRise
        THEN OnMarket /\ chore.anchor # Unset =>
                \A m \in minute .. LastMinute : ValueAt(m) = chore.value
        ELSE /\ \A m \in minute .. (rise.nextAt - 1) : ValueAt(m) = chore.value
             /\ ValueAt(rise.nextAt) = Smaller(UnderCap(Current, chore.value + rise.points), MaxSafeInteger)
             /\ chore.value < MaxSafeInteger => ValueAt(rise.nextAt) > chore.value

(* What growth pays and what it tells, at whatever beat the sweep runs. *)
GrowthPaysAndTellsOnce == GrowthIgnoresTheBeat /\ BandsToldOnce /\ RisesAsDisclosed

(* The preview of a saved configuration comes true: when an occurrence is    *)
(* bought out again and again under one version, from the sample value and   *)
(* with no growth in between, every cost and value is the chain's, the chain *)
(* does not end before the buyouts do, and a completion resets the value as  *)
(* the example shows.                                                        *)
OnlyBuyouts(v) ==
    \A i \in DOMAIN trail :
        /\ trail[i].version = v
        /\ trail[i].from = IF i = 1 THEN SampleBaseValue ELSE trail[i - 1].to

Previews == [d \in Acceptable |-> Preview(Drafts[d], SampleBaseValue)]

PreviewComesTrue ==
    \A v \in {u \in DOMAIN versions : BaseValue = SampleBaseValue /\ OnlyBuyouts(u)} :
        /\ \A i \in DOMAIN trail : i <= ChainSteps =>
              /\ \E r \in Previews[versions[v]] :
                    r.before = Context(trail[i].from, BaseValue, i - 1) /\ r.cost = trail[i].cost
              /\ \E r \in Previews[versions[v]] : r.before = Context(trail[i].to, BaseValue, i)
        /\ \A r \in Previews[versions[v]] :
              row.version = v /\ Now = r.before => ValueAfter(row) = r.reset
================================================================================
