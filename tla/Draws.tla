--------------------------------- MODULE Draws ---------------------------------
(***************************************************************************)
(* The assignment rows of one household and the draws made from them:      *)
(* app/assignment/candidates.ts turns the rows, the absences and the       *)
(* effects into candidates, DrawRules chooses, and the sweep's fill loop   *)
(* writes the next row.                                                    *)
(*                                                                         *)
(* A definition marked "wrong" is a plausible slip in the code; no other   *)
(* definition uses it.                                                     *)
(* Time is counted in civil days; the code's windowDays is at least a week *)
(* (schema.ts), and so is FairnessDays.                                    *)
(***************************************************************************)
EXTENDS DrawRules

CONSTANTS Roster,        \* the members in the order of their ids
          Chores,        \* the task definitions
          CapTables,     \* the weekly caps considered, member by member (Null: none)
          DrawConfigs,   \* the configurations considered
          DaysPerWeek,   \* 7 in the code
          FairnessDays,  \* fairness.windowDays
          RecentRows,    \* the random rows of a chore that are read: 50 in the code
          LastDay,       \* bound on the day
          MaxRows,       \* bound on the number of assignment rows
          MaxOut         \* bound on the members away, and on those shielded, at a time

ASSUME WindowCoversAWeek ==
    /\ DaysPerWeek \in Nat \ {0}
    /\ FairnessDays \in Nat /\ FairnessDays >= DaysPerWeek

ASSUME RecentRowsAssumption == RecentRows \in Nat

ASSUME RosterIsASequence == Roster \in Seq(Range(Roster))

VARIABLES today,        \* the household's civil day
          assignments,  \* assignment rows, oldest first
          caps,         \* maxRandomAssignmentsPerWeek
          drawn         \* the draw just made: what it was made for, and its trace

drawVars == <<today, assignments, caps, drawn>>

People == Range(Roster)
Week(d) == d \div DaysPerWeek

--------------------------------------------------------------------------------
(* loadCandidates: what the database says of every member. *)
Mine(m) == {i \in DOMAIN assignments : assignments[i].member = m}

InWindow(i) == assignments[i].on >= today - FairnessDays

RandomRows(m) == {i \in Mine(m) : InWindow(i) /\ assignments[i].kind = "RANDOM"}

Metrics(m) ==
    [randomAssignments    |-> Cardinality(RandomRows(m)),
     voluntaryCompletions |-> Cardinality({i \in Mine(m) : /\ InWindow(i)
                                                           /\ assignments[i].kind = "VOLUNTARY"
                                                           /\ assignments[i].status = "COMPLETED"}),
     daysSinceLastRandom  |-> IF RandomRows(m) = {} THEN FairnessDays
                              ELSE today - assignments[Max(RandomRows(m))].on]

(* The random rows of this chore, of which the latest are read, latest first: *)
(* a member's index among them is what rule 7 takes for the number of cycles.  *)
RandomOf(ch) == {i \in DOMAIN assignments : /\ assignments[i].kind = "RANDOM"
                                            /\ assignments[i].chore = ch}

LatestOf(ch) == {i \in RandomOf(ch) : Cardinality({j \in RandomOf(ch) : j > i}) < RecentRows}

RandomOfTask(ch) == Reverse(Filtered(assignments, LatestOf(ch)))

(* wrong: the oldest rows are read, oldest first. *)
CyclesSinceFirst(m, ch) ==
    LET oldest == {i \in RandomOf(ch) : Cardinality({j \in RandomOf(ch) : j < i}) < RecentRows}
        rows   == Filtered(assignments, oldest)
        hits   == {k \in DOMAIN rows : rows[k].member = m}
    IN  IF hits = {} THEN Null ELSE Min(hits) - 1

CyclesSince(m, ch) ==
    LET hits == {k \in DOMAIN RandomOfTask(ch) : RandomOfTask(ch)[k].member = m}
    IN  IF hits = {} THEN Null ELSE Min(hits) - 1

(* wrong: the cap is counted per day. *)
RandomToday(m) == Cardinality({i \in RandomRows(m) : assignments[i].on = today})

RandomThisWeek(m) == Cardinality({i \in RandomRows(m) : Week(assignments[i].on) = Week(today)})

(* `away' has an absence window over now, `shielded' an unexpired IMMUNITY.   *)
Candidate(m, ch, away, shielded) ==
    [member |-> m, role |-> "MEMBER", preferred |-> FALSE, active |-> TRUE,
     absent |-> m \in away, immune |-> m \in shielded,
     excluded |-> FALSE, inAllowlist |-> TRUE, categoryExcluded |-> FALSE,
     randomThisWeek |-> RandomThisWeek(m), cap |-> caps[m],
     cyclesSince |-> CyclesSince(m, ch), metrics |-> Metrics(m)]

(* Every member except those who hold a slot of the occurrence. *)
NotHolding(ch) ==
    LET holding == {assignments[i].member : i \in {j \in DOMAIN assignments : assignments[j].chore = ch
                                                             /\ assignments[j].status = "ACTIVE"}}
    IN  Filtered(Roster, {i \in DOMAIN Roster : Roster[i] \notin holding})

Candidates(ch, away, shielded) ==
    [i \in DOMAIN NotHolding(ch) |-> Candidate(NotHolding(ch)[i], ch, away, shielded)]

Options == [hasAllowlist |-> FALSE, requiredRole |-> "any", adminSlotReserved |-> FALSE]

--------------------------------------------------------------------------------
NoDraw == [member |-> Nobody]

DrawsInit ==
    /\ today = 0
    /\ assignments = <<>>
    /\ caps \in CapTables
    /\ drawn = NoDraw

Row(m, ch, kind) == [member |-> m, chore |-> ch, kind |-> kind, status |-> "ACTIVE", on |-> today]

(* One turn of the sweep's fill loop: select, and write the row.             *)
Draw(ch, cfg, away, shielded) ==
    /\ drawn = NoDraw
    /\ Len(assignments) < MaxRows
    /\ \E choice \in Selections(cfg, Candidates(ch, away, shielded), Options) :
          /\ assignments' = IF choice.member = Nobody THEN assignments
                     ELSE Append(assignments, Row(choice.member, ch, "RANDOM"))
          /\ drawn' = [member |-> choice.member, chore |-> ch, cfg |-> cfg,
                       pool |-> Range(NotHolding(ch)) \ (away \cup shielded),
                       relaxed |-> choice.relaxed]
    /\ UNCHANGED <<today, caps>>

(* The transaction of the draw ends. *)
Commits ==
    /\ drawn # NoDraw
    /\ drawn' = NoDraw
    /\ UNCHANGED <<today, assignments, caps>>

(* A volunteer meets the hard rules only: neither cap nor cooldown nor shield. *)
Takes(m, ch, away, shielded) ==
    /\ drawn = NoDraw
    /\ Len(assignments) < MaxRows
    /\ m \in Range(NotHolding(ch))
    /\ CanVolunteer(Candidate(m, ch, away, shielded), Options)
    /\ assignments' = Append(assignments, Row(m, ch, "VOLUNTARY"))
    /\ UNCHANGED <<today, caps, drawn>>

(* Completion, buyout and the other ends of an assignment. *)
Closes(i, status) ==
    /\ drawn = NoDraw
    /\ assignments[i].status = "ACTIVE"
    /\ assignments' = [assignments EXCEPT ![i].status = status]
    /\ UNCHANGED <<today, caps, drawn>>

NextDay ==
    /\ drawn = NoDraw
    /\ today < LastDay
    /\ today' = today + 1
    /\ UNCHANGED <<assignments, caps, drawn>>

FewPeople == {S \in SUBSET People : Cardinality(S) <= MaxOut}

DrawsNext ==
    \/ \E ch \in Chores, away, shielded \in FewPeople :
          \/ \E cfg \in DrawConfigs : Draw(ch, cfg, away, shielded)
          \/ \E m \in People : Takes(m, ch, away, shielded)
    \/ \E i \in DOMAIN assignments, status \in {"COMPLETED", "BOUGHT_OUT"} : Closes(i, status)
    \/ Commits
    \/ NextDay

DrawsSpec == DrawsInit /\ [][DrawsNext]_drawVars

--------------------------------------------------------------------------------
(* What the household sees of the last draw, counted from the rows and the   *)
(* calendar and not by the code: how often a member had been drawn in that   *)
(* calendar week, and who had this chore most recently.                      *)
Before == 1 .. (Len(assignments) - 1)

HadThisWeek(m) ==
    Cardinality({i \in Before : /\ assignments[i].member = m
                                /\ assignments[i].kind = "RANDOM"
                                /\ Week(assignments[i].on) = Week(today)})

OverCap(m) == caps[m] # Null /\ HadThisWeek(m) >= caps[m]

(* Fewer than `cooldown' random assignments of the chore came after m's last,  *)
(* and few enough for the draw to have read it: a longer cooldown, which the   *)
(* schema allows, lasts RecentRows assignments and no more.                    *)
JustHadIt(m) ==
    LET past  == {i \in Before : assignments[i].kind = "RANDOM" /\ assignments[i].chore = drawn.chore}
        own   == {i \in past : assignments[i].member = m}
        since == Cardinality({i \in past : i > Max(own)})
    IN  /\ drawn.cfg.preventImmediateReassignment
        /\ own # {}
        /\ since < drawn.cfg.reassignmentCooldownCycles
        /\ since < RecentRows

(* The relaxation ladder imposes no more than it must.  Whoever is drawn is  *)
(* present and unshielded; a member is drawn beyond the weekly cap only when *)
(* every member who could be drawn is at the cap, and inside the cooldown    *)
(* only when every one of them is in the cooldown or at the cap; either      *)
(* exception is allowed by the configuration and named in the trace.         *)
ImposesTheLeast ==
    drawn.member # Nobody =>
        /\ drawn.member \in drawn.pool
        /\ OverCap(drawn.member) =>
              /\ \A m \in drawn.pool : OverCap(m)
              /\ drawn.cfg.relaxWhenNoCandidates
              /\ "ASSIGNMENT_CAP" \in Range(drawn.relaxed)
        /\ JustHadIt(drawn.member) =>
              /\ \A m \in drawn.pool : JustHadIt(m) \/ OverCap(m)
              /\ drawn.cfg.relaxWhenNoCandidates
              /\ "IMMEDIATE_REASSIGNMENT" \in Range(drawn.relaxed)
================================================================================
