--------------------------------- MODULE Series --------------------------------
(***************************************************************************)
(* When a recurring chore comes up: the rules of                           *)
(* domain/recurrence/next-occurrence.ts over the civil days and time zones *)
(* of packages/shared time/week.ts, and the two writers of next_due_at,    *)
(* the sweep and completeTask.                                             *)
(*                                                                         *)
(* Instants are hours of UTC, civil dates are numbers of days, 0 being the *)
(* first day of the first month; `east' is a zone's offset in hours.       *)
(* A definition marked "wrong" is a plausible slip in the code; no other   *)
(* definition uses it.                                                     *)
(***************************************************************************)
EXTENDS Integers, Sequences, FiniteSets, SequencesExt, FiniteSetsExt

CONSTANTS RecurrenceRules,  \* the rules considered
          Zones,            \* the zones considered, [standard, summer, from, to]
          MonthLengths,     \* days of the months the calendar runs through
          FirstWeekday,     \* ISO weekday of day 0
          LeadHours,        \* assignment.leadMinutesBeforeDue
          MaxSteps,         \* 400 in the code
          TickHours,        \* how far the clock moves
          LastHour          \* bound on the clock

ASSUME CalendarIsLongEnough == LastHour \in Nat /\ TickHours \in Nat \ {0}

Never == -1

--------------------------------------------------------------------------------
(* Civil days. *)
Date(day) ==
    LET before(m) == MapThenSumSet(LAMBDA i : MonthLengths[i], 1 .. (m - 1))
        month == Max({m \in DOMAIN MonthLengths : before(m) <= day})
    IN  [month |-> month, day |-> day - before(month) + 1]

DayOf(date) ==
    MapThenSumSet(LAMBDA i : MonthLengths[i], 1 .. (date.month - 1)) + date.day - 1

IsoWeekday(day) == ((day + FirstWeekday - 1) % 7) + 1

East(zone, instant) ==
    IF zone.from <= instant /\ instant < zone.to THEN zone.summer ELSE zone.standard

Wall(zone, instant) == instant + East(zone, instant)
CivilDateIn(zone, instant) == Wall(zone, instant) \div 24

(* wrong: the first guess is not corrected. *)
CivilToInstantGuessed(zone, day, hour) == 24 * day + hour - East(zone, 24 * day + hour)

(* The offset is looked up at the wall clock read as UTC, then once more.    *)
CivilToInstant(zone, day, hour) ==
    LET wall  == 24 * day + hour
        guess == wall - East(zone, wall)
    IN  wall - East(zone, guess)

--------------------------------------------------------------------------------
(* nextCandidate: the step-th day a rule names after a day, Never for none.  *)
NextCandidate(rule, from, step) ==
    CASE rule.type \in {"ONCE", "MANUAL"} -> Never
      [] rule.type = "DAILY"        -> from + step
      [] rule.type = "EVERY_N_DAYS" -> from + Max({1, rule.interval}) * step
      [] rule.type = "WEEKDAYS" ->
            LET listed == {d \in (from + 1) .. (from + 7 * step + 7) : IsoWeekday(d) \in Range(rule.weekdays)}
                nth    == {d \in listed : Cardinality({e \in listed : e <= d}) = step}
            IN  IF nth = {} THEN Never ELSE Min(nth)
      [] rule.type = "WEEKLY" ->
            IF rule.weekdays = <<>> THEN from + 7 * step
            ELSE 7 * (step - 1)
                 + (CHOOSE d \in (from + 1) .. (from + 7) : IsoWeekday(d) = rule.weekdays[1])
      [] rule.type = "MONTHLY" ->
            LET date == Date(from)
                day  == IF rule.dayOfMonth = Never THEN date.day ELSE rule.dayOfMonth
            IN  DayOf([month |-> date.month + step, day |-> Min({day, 28})])

(* nextOccurrence: the first candidate strictly after an instant. *)
NextOccurrence(rule, after, zone) ==
    LET candidate(k) == NextCandidate(rule, CivilDateIn(zone, after), k)
        instant(k)   == CivilToInstant(zone, candidate(k), rule.hour)
        usable == {k \in 1 .. MaxSteps : candidate(k) # Never /\ instant(k) > after}
    IN  IF usable = {} THEN Never ELSE instant(Min(usable))

DueAtFor(rule, occurrence) == IF rule.dueAfter = Never THEN Never ELSE occurrence + rule.dueAfter

OfferExpiresAt(published, dueAt) ==
    IF dueAt = Never THEN Never ELSE Max({published, dueAt - LeadHours})

ExpiryDeadline(rule, occurrence, zone) ==
    IF occurrence.dueAt # Never THEN occurrence.dueAt
    ELSE NextOccurrence(rule, occurrence.scheduledFor, zone)

--------------------------------------------------------------------------------
VARIABLES seriesRule,  \* the chore's rule
          seriesZone,  \* the household's zone
          clock,       \* the hour
          nextDue,     \* next_due_at
          open,        \* the occurrence on the market, or NoOccurrence
          previous     \* when the occurrence before nextDue was scheduled; Never if a
                       \* completion has set nextDue since

seriesVars == <<seriesRule, seriesZone, clock, nextDue, open, previous>>

NoOccurrence == [scheduledFor |-> Never]

(* The chore is defined now (routes/admin.ts:330); nothing came before. *)
SeriesInit ==
    /\ seriesRule \in RecurrenceRules
    /\ seriesZone \in Zones
    /\ clock = 24
    /\ nextDue = NextOccurrence(seriesRule, 24, seriesZone)
    /\ open = NoOccurrence
    /\ previous = Never

(* materialize, with one open occurrence allowed at a time. *)
Materializes ==
    /\ open = NoOccurrence
    /\ nextDue # Never
    /\ nextDue <= clock
    /\ LET dueAt == DueAtFor(seriesRule, nextDue)
       IN  open' = [scheduledFor |-> nextDue, dueAt |-> dueAt,
                    offerExpiresAt |-> OfferExpiresAt(clock, dueAt)]
    /\ nextDue' = NextOccurrence(seriesRule, nextDue, seriesZone)
    /\ previous' = nextDue
    /\ UNCHANGED <<seriesRule, seriesZone, clock>>

(* wrong: the series goes on from the occurrence that was done. *)
CompletesOnSchedule ==
    /\ open # NoOccurrence
    /\ open' = NoOccurrence
    /\ nextDue' = NextOccurrence(seriesRule, open.scheduledFor, seriesZone)
    /\ previous' = Never
    /\ UNCHANGED <<seriesRule, seriesZone, clock>>

(* completeTask, when the last slot completes: the series goes on from now. *)
CompletesChore ==
    /\ open # NoOccurrence
    /\ open' = NoOccurrence
    /\ nextDue' = NextOccurrence(seriesRule, clock, seriesZone)
    /\ previous' = Never
    /\ UNCHANGED <<seriesRule, seriesZone, clock>>

(* cancelInstance *)
CancelsChore ==
    /\ open # NoOccurrence
    /\ open' = NoOccurrence
    /\ UNCHANGED <<seriesRule, seriesZone, clock, nextDue, previous>>

(* The sweep closes what is past its deadline: the due date, or else the     *)
(* rule's next occurrence.                                                   *)
ExpiresUndone ==
    /\ open # NoOccurrence
    /\ LET deadline == ExpiryDeadline(seriesRule, open, seriesZone)
       IN  deadline # Never /\ deadline < clock
    /\ open' = NoOccurrence
    /\ UNCHANGED <<seriesRule, seriesZone, clock, nextDue, previous>>

ClockMoves ==
    /\ clock + TickHours <= LastHour
    /\ clock' = clock + TickHours
    /\ UNCHANGED <<seriesRule, seriesZone, nextDue, open, previous>>

SeriesNext == Materializes \/ CompletesChore \/ CancelsChore \/ ExpiresUndone \/ ClockMoves

--------------------------------------------------------------------------------
(* The household's reading of a rule: the days that may follow a day. *)
Follows(rule, d, e) ==
    CASE rule.type = "DAILY"        -> TRUE
      [] rule.type = "EVERY_N_DAYS" -> e - d = rule.interval
      [] rule.type = "WEEKDAYS"     -> IsoWeekday(e) \in Range(rule.weekdays)
      [] rule.type = "WEEKLY"       -> IF rule.weekdays = <<>> THEN e - d = 7
                                       ELSE IsoWeekday(e) = rule.weekdays[1]
      [] rule.type = "MONTHLY" ->
            /\ Date(e).month = Date(d).month + 1
            /\ Date(e).day = Min({28, IF rule.dayOfMonth = Never THEN Date(d).day ELSE rule.dayOfMonth})

(* The clock of the zone shows the hour on that day.  Where it springs over  *)
(* the hour, the code takes the hour before or after, east or west of UTC.   *)
AtTheHour(instant, hour) ==
    LET shown == Wall(seriesZone, instant) % 24
    IN  \/ shown = hour
        \/ shown = hour + 1 /\ instant = seriesZone.from
        \/ shown = hour - 1 /\ instant + 1 = seriesZone.from

(* While the sweep alone moves the series, the next occurrence is on the     *)
(* first day after the previous one that the rule names, at the rule's hour, *)
(* however late the sweep runs, how many occurrences it has to catch up      *)
(* with, and across both changes of the clocks (runAssignmentSweep.ts:238).  *)
SweptSeriesKeepsStep ==
    previous # Never /\ nextDue # Never =>
        LET d == CivilDateIn(seriesZone, previous)
            e == CivilDateIn(seriesZone, nextDue)
        IN  /\ d < e
            /\ Follows(seriesRule, d, e)
            /\ \A f \in (d + 1) .. (e - 1) : ~Follows(seriesRule, d, f)
            /\ AtTheHour(nextDue, seriesRule.hour)

(* A completion drops what came due while the chore was open and lets the    *)
(* series go on after now: nothing is due at once, and no occurrence is      *)
(* brought forward, so nobody is asked twice for one day (completeTask.ts:335). *)
CompletionDropsTheMissed ==
    [][open # NoOccurrence /\ open' = NoOccurrence /\ previous' = Never =>
          nextDue' = Never \/ (nextDue' > clock /\ nextDue' >= nextDue)]_seriesVars
================================================================================
