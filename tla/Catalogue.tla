------------------------------ MODULE Catalogue -----------------------------
(***************************************************************************)
(* What administrators edit and the sweep materializes: task definitions    *)
(* with their schedule, and the versions of the household's configuration.  *)
(*                                                                          *)
(* The handlers of admin.ts read in one statement and write in another,     *)
(* without a lock; a call remembers what it read.  The sweep reads the due  *)
(* definitions once, without a lock, and materializes them one transaction  *)
(* at a time, each under the advisory lock of tx.ts: that orders two sweeps, *)
(* and no admin request.  Configuration versions are appended in a          *)
(* transaction that compares the newest version with the one the editor     *)
(* saw; the unique key decides between two that compared at the same time.  *)
(*                                                                          *)
(* A definition marked "Wrong" is a plausible slip in the code; no other    *)
(* definition uses it.                                                      *)
(***************************************************************************)
EXTENDS Integers, Sequences, FiniteSets

CONSTANTS
    Definitions,
    Calls,          \* requests the server can have under way
    Sweeps,         \* sweeps under way: the interval worker and a manual run
    Caps,           \* values of tasks.maxOpenInstancesPerDefinition
    FirstCap,       \* its value in the household's first version
    MaxDay,         \* bound: days the clock runs
    MaxInstances,   \* bound: occurrences
    MaxVersions,    \* bound: configuration versions
    MaxUnderway,    \* bound: calls and sweeps under way at the same time
    MaxEdits        \* bound: edits of definitions

ASSUME CatalogueAssumption ==
    /\ IsFiniteSet(Definitions)
    /\ Caps \subseteq Nat \ {0} /\ FirstCap \in Caps
    /\ MaxDay \in Nat \ {0} /\ MaxInstances \in Nat
    /\ MaxVersions \in Nat \ {0} /\ MaxUnderway \in Nat /\ MaxEdits \in Nat

VARIABLES
    today,      \* the civil day
    defs,       \* TaskDefinition rows
    instances,  \* TaskInstance rows
    rules,      \* eligibility rows of each definition, by the save that wrote them
    configs,    \* HouseholdConfiguration rows, by version
    edits,      \* edits of definitions so far
    calls,      \* the requests under way
    sweeps,     \* the sweeps under way
    lock        \* who holds the sweep's advisory lock

vars == <<today, defs, instances, rules, configs, edits, calls, sweeps, lock>>

Free   == [at |-> "FREE"]
Resting == [at |-> "RESTING"]
Nobody == "NOBODY"

\* nextDueAt of a definition that is not scheduled.
Never == 0

\* nextOccurrence of a daily rule; MANUAL and ONCE never recur.
NextOccurrence(recurs, after) == IF recurs THEN after + 1 ELSE Never

\* POST /admin/task-definitions.  scheduledAs and overlapped record history: the
\* rule that gave nextDue, and whether a sweep acted on a due date that had moved
\* or a completion on a day that was over.
NewDefinition(recurs) ==
    [recurs |-> recurs, active |-> TRUE, archived |-> FALSE,
     nextDue |-> NextOccurrence(recurs, 0), scheduledAs |-> recurs, overlapped |-> FALSE]

Init ==
    /\ today = 1
    /\ \E recurs \in BOOLEAN : defs = [d \in Definitions |-> NewDefinition(recurs)]
    /\ instances = <<>>
    /\ rules = [d \in Definitions |-> {}]
    /\ configs = <<[cap |-> FirstCap, base |-> 0, copied |-> 0]>>
    /\ edits = 0
    /\ calls = [c \in Calls |-> Free]
    /\ sweeps = [s \in Sweeps |-> Resting]
    /\ lock = Nobody

Current == Len(configs)

OpenOf(d) == Cardinality({i \in DOMAIN instances :
                              instances[i].def = d /\ instances[i].open})

\* The bound MaxUnderway: how many calls and sweeps may overlap.
MayStart == Cardinality({c \in Calls : calls[c] # Free}
                        \cup {s \in Sweeps : sweeps[s] # Resting}) < MaxUnderway

Reply(c) == calls' = [calls EXCEPT ![c] = Free]

NewInstance(d, day, auto) ==
    [def |-> d, scheduledFor |-> day, auto |-> auto, open |-> TRUE, version |-> Current]

-----------------------------------------------------------------------------
(***************************************************************************)
(* Task definitions                                                         *)
(***************************************************************************)

\* PUT /admin/task-definitions/:id writes the whole body in one statement.
\* The body holds the rule and the switch; nextDueAt and archivedAt are left.
EditDefinition(d, recurs, active) ==
    /\ edits < MaxEdits
    /\ edits' = edits + 1
    /\ defs' = [defs EXCEPT ![d].recurs = recurs, ![d].active = active]
    /\ UNCHANGED <<today, instances, rules, configs, calls, sweeps, lock>>

\* DELETE: open occurrences are counted, and the row is archived if none is.
ArchiveCheck(c, d) ==
    /\ calls[c] = Free /\ MayStart
    /\ edits < MaxEdits
    /\ OpenOf(d) = 0
    /\ calls' = [calls EXCEPT ![c] = [at |-> "ARCHIVING", def |-> d]]
    /\ UNCHANGED <<today, defs, instances, rules, configs, edits, sweeps, lock>>

ArchiveWrite(c) ==
    /\ calls[c].at = "ARCHIVING"
    /\ edits' = edits + 1
    /\ defs' = [defs EXCEPT ![calls[c].def] =
                   [@ EXCEPT !.archived = TRUE, !.active = FALSE, !.nextDue = Never]]
    /\ Reply(c)
    /\ UNCHANGED <<today, instances, rules, configs, sweeps, lock>>

\* POST reactivate: the rule is read, and scheduled from now.
ReactivateCheck(c, d) ==
    /\ calls[c] = Free /\ MayStart
    /\ defs[d].archived
    /\ calls' = [calls EXCEPT ![c] =
           [at |-> "REACTIVATING", def |-> d, recurs |-> defs[d].recurs]]
    /\ UNCHANGED <<today, defs, instances, rules, configs, edits, sweeps, lock>>

\* Wrong: the schedule is left for somebody to enter.
ScheduleLeftOpen(recurs) == Never

ScheduleFromNow(recurs) == NextOccurrence(recurs, today)

\* The update finds the row only while it is still archived.
ReactivateWrite(c) ==
    LET r == calls[c] IN
    /\ r.at = "REACTIVATING"
    /\ defs' = IF defs[r.def].archived
               THEN [defs EXCEPT ![r.def] =
                        [@ EXCEPT !.archived = FALSE, !.active = TRUE,
                                  !.nextDue = ScheduleFromNow(r.recurs),
                                  !.scheduledAs = r.recurs]]
               ELSE defs
    /\ Reply(c)
    /\ UNCHANGED <<today, instances, rules, configs, edits, sweeps, lock>>

\* PUT eligibility (and PUT a member's restrictions) replaces all rows in one
\* transaction: the deletion covers the rows that are committed when it starts.
ReplaceDelete(c, d) ==
    /\ calls[c] = Free /\ MayStart
    /\ edits < MaxEdits
    /\ calls' = [calls EXCEPT ![c] = [at |-> "REPLACING", def |-> d, seen |-> rules[d]]]
    /\ UNCHANGED <<today, defs, instances, rules, configs, edits, sweeps, lock>>

\* Wrong: the new rows are added to those of the save before.
AddedTo(old, seen, save) == old \cup {save}

Replaced(old, seen, save) == (old \ seen) \cup {save}

ReplaceCommit(c) ==
    LET r == calls[c] IN
    /\ r.at = "REPLACING"
    /\ edits' = edits + 1
    /\ rules' = [rules EXCEPT ![r.def] = Replaced(@, r.seen, edits + 1)]
    /\ Reply(c)
    /\ UNCHANGED <<today, defs, instances, configs, sweeps, lock>>

\* Wrong: the cap is checked as if it counted the occurrence to come.
OneMoreFits(open, cap) == open <= cap

\* maxOpenInstancesPerDefinition, as both creators check it.
Fits(open, cap) == open < cap

\* POST materialize: definition, configuration and count are read.
MaterializeCheck(c, d) ==
    /\ calls[c] = Free /\ MayStart
    /\ ~defs[d].archived
    /\ Fits(OpenOf(d), configs[Current].cap)
    /\ calls' = [calls EXCEPT ![c] = [at |-> "MATERIALIZING", def |-> d,
                     open |-> OpenOf(d), version |-> Current]]
    /\ UNCHANGED <<today, defs, instances, rules, configs, edits, sweeps, lock>>

MaterializeCreate(c) ==
    LET r == calls[c] IN
    /\ r.at = "MATERIALIZING"
    /\ Len(instances) < MaxInstances
    /\ instances' = Append(instances,
           [NewInstance(r.def, today, FALSE) EXCEPT !.version = r.version])
    /\ Reply(c)
    /\ UNCHANGED <<today, defs, rules, configs, edits, sweeps, lock>>

\* The transactions that hold the occurrence's row to complete it.
Completing(i) == {c \in Calls : calls[c].at = "COMPLETING" /\ calls[c].occurrence = i}

\* The last slot's completion takes the time, locks the occurrence and reads the
\* rule of its definition, whose row it does not lock.
CompleteStart(c, i) ==
    /\ calls[c] = Free /\ MayStart
    /\ instances[i].open /\ Completing(i) = {}
    /\ calls' = [calls EXCEPT ![c] =
           [at |-> "COMPLETING", occurrence |-> i,
            recurs |-> defs[instances[i].def].recurs, day |-> today]]
    /\ UNCHANGED <<today, defs, instances, rules, configs, edits, sweeps, lock>>

\* It commits, and schedules the definition from what it read.
CompleteCommit(c, i) ==
    LET r == calls[c] d == instances[i].def IN
    /\ c \in Completing(i)
    /\ instances' = [instances EXCEPT ![i].open = FALSE]
    /\ defs' = [defs EXCEPT ![d].nextDue = NextOccurrence(r.recurs, r.day),
                            ![d].scheduledAs = r.recurs,
                            ![d].overlapped = @ \/ r.day # today]
    /\ Reply(c)
    /\ UNCHANGED <<today, rules, configs, edits, sweeps, lock>>

\* The market cancels or expires the occurrence.
Close(i) ==
    /\ instances[i].open /\ Completing(i) = {}
    /\ instances' = [instances EXCEPT ![i].open = FALSE]
    /\ UNCHANGED <<today, defs, rules, configs, edits, calls, sweeps, lock>>

-----------------------------------------------------------------------------
(***************************************************************************)
(* Configuration versions                                                   *)
(***************************************************************************)

\* GET /admin/config: the form an administrator edits, for as long as it takes.
OpenForm(c) ==
    /\ calls[c] = Free /\ MayStart
    /\ Current < MaxVersions
    /\ calls' = [calls EXCEPT ![c] = [at |-> "EDITING", expected |-> Current]]
    /\ UNCHANGED <<today, defs, instances, rules, configs, edits, sweeps, lock>>

\* Wrong: a version that was read before the newest one is as good.
ExpectedExists(expected) == expected <= Current

\* CONFIG_VERSION_CONFLICT unless nobody saved since.
ExpectedIsCurrent(expected) == expected = Current

\* PUT /admin/config: the comparison, in the transaction that will insert.
SaveCheck(c, cap) ==
    LET r == calls[c] IN
    /\ r.at = "EDITING"
    /\ IF ExpectedIsCurrent(r.expected)
       THEN calls' = [calls EXCEPT ![c] =
                [at |-> "SAVING", version |-> Current + 1,
                 values |-> [cap |-> cap, base |-> r.expected, copied |-> 0]]]
       ELSE Reply(c)
    /\ UNCHANGED <<today, defs, instances, rules, configs, edits, sweeps, lock>>

\* POST rollback: an old version is read, and so is the newest number.
RollbackCheck(c, v) ==
    /\ calls[c] = Free /\ MayStart
    /\ Current < MaxVersions
    /\ calls' = [calls EXCEPT ![c] =
           [at |-> "SAVING", version |-> Current + 1,
            values |-> [cap |-> configs[v].cap, base |-> Current, copied |-> v]]]
    /\ UNCHANGED <<today, defs, instances, rules, configs, edits, sweeps, lock>>

\* The insert; @@unique([householdId, version]) refuses the slower of two.
SaveInsert(c) ==
    LET r == calls[c] IN
    /\ r.at = "SAVING"
    /\ configs' = IF r.version = Current + 1 THEN Append(configs, r.values) ELSE configs
    /\ Reply(c)
    /\ UNCHANGED <<today, defs, instances, rules, edits, sweeps, lock>>

-----------------------------------------------------------------------------
(***************************************************************************)
(* The sweep (runAssignmentSweep.ts, T1)                                    *)
(***************************************************************************)

Due(d) == /\ defs[d].active /\ ~defs[d].archived
          /\ defs[d].nextDue # Never /\ defs[d].nextDue <= today

\* The due definitions are read with their rule and their due date.
SweepStart(s) ==
    /\ sweeps[s] = Resting /\ MayStart
    /\ \E d \in Definitions : Due(d)
    /\ sweeps' = [sweeps EXCEPT ![s] =
           [at |-> "SCANNED", todo |-> {d \in Definitions : Due(d)},
            read |-> defs, def |-> Nobody, open |-> 0, cap |-> 0]]
    /\ UNCHANGED <<today, defs, instances, rules, configs, edits, calls, lock>>

Advance(s, d) ==
    LET w == sweeps[s] IN
    sweeps' = [sweeps EXCEPT ![s] =
                  IF w.todo = {d} THEN Resting
                  ELSE [w EXCEPT !.at = "SCANNED", !.todo = w.todo \ {d}]]

\* The next one's transaction: the lock, the configuration and the count.
SweepCount(s, d) ==
    LET w == sweeps[s] cap == configs[Current].cap IN
    /\ w.at = "SCANNED" /\ d \in w.todo
    /\ lock = Nobody
    /\ IF Fits(OpenOf(d), cap)
       THEN /\ lock' = s
            /\ sweeps' = [sweeps EXCEPT ![s] = [w EXCEPT !.at = "COUNTED", !.def = d,
                                                         !.open = OpenOf(d), !.cap = cap]]
       ELSE Advance(s, d) /\ UNCHANGED lock
    /\ UNCHANGED <<today, defs, instances, rules, configs, edits, calls>>

\* Wrong: the occurrence that was just created counts as the next one.
SweptToSame(row) == NextOccurrence(row.recurs, row.nextDue - 1)

\* The series steps on from the occurrence that was due.
NextAfterSweep(row) == NextOccurrence(row.recurs, row.nextDue)

\* The occurrence is created and the definition scheduled, from what the scan
\* read; the row is not looked at again.
SweepCreate(s) ==
    LET w == sweeps[s] d == w.def row == w.read[d] IN
    /\ w.at = "COUNTED"
    /\ Len(instances) < MaxInstances
    /\ instances' = Append(instances, NewInstance(d, row.nextDue, TRUE))
    /\ defs' = [defs EXCEPT ![d].nextDue = NextAfterSweep(row),
                            ![d].scheduledAs = row.recurs,
                            ![d].overlapped = @ \/ row.nextDue # defs[d].nextDue]
    /\ Advance(s, d)
    /\ lock' = Nobody
    /\ UNCHANGED <<today, rules, configs, edits, calls>>

Midnight ==
    /\ today < MaxDay
    /\ today' = today + 1
    /\ UNCHANGED <<defs, instances, rules, configs, edits, calls, sweeps, lock>>

\* The server stops; open transactions roll back and release the lock.
Crash ==
    /\ (\E c \in Calls : calls[c] # Free) \/ (\E s \in Sweeps : sweeps[s] # Resting)
    /\ calls' = [c \in Calls |-> Free]
    /\ sweeps' = [s \in Sweeps |-> Resting]
    /\ lock' = Nobody
    /\ UNCHANGED <<today, defs, instances, rules, configs, edits>>

Next ==
    \/ \E d \in Definitions, recurs, active \in BOOLEAN : EditDefinition(d, recurs, active)
    \/ \E c \in Calls :
         \/ \E d \in Definitions : ArchiveCheck(c, d)
         \/ ArchiveWrite(c)
         \/ \E d \in Definitions : ReactivateCheck(c, d)
         \/ ReactivateWrite(c)
         \/ \E d \in Definitions : ReplaceDelete(c, d)
         \/ ReplaceCommit(c)
         \/ \E d \in Definitions : MaterializeCheck(c, d)
         \/ MaterializeCreate(c)
         \/ OpenForm(c)
         \/ \E cap \in Caps : SaveCheck(c, cap)
         \/ \E v \in DOMAIN configs : RollbackCheck(c, v)
         \/ SaveInsert(c)
    \/ \E i \in DOMAIN instances :
         \/ \E c \in Calls : CompleteStart(c, i) \/ CompleteCommit(c, i)
         \/ Close(i)
    \/ \E s \in Sweeps :
         \/ SweepStart(s)
         \/ \E d \in Definitions : SweepCount(s, d)
         \/ SweepCreate(s)
    \/ Midnight
    \/ Crash

Spec == Init /\ [][Next]_vars

-----------------------------------------------------------------------------
(***************************************************************************)
(* Properties                                                               *)
(***************************************************************************)

\* The types of the variables.
TypeOK ==
    /\ today \in 1..MaxDay /\ edits \in 0..(MaxEdits + Cardinality(Calls))
    /\ defs \in [Definitions -> [recurs : BOOLEAN, active : BOOLEAN, archived : BOOLEAN,
                                 nextDue : 0..(MaxDay + 1), scheduledAs : BOOLEAN, overlapped : BOOLEAN]]
    /\ \A i \in DOMAIN instances :
           /\ instances[i].def \in Definitions
           /\ instances[i].version \in 1..Current
    /\ \A v \in DOMAIN configs : configs[v].cap \in Caps
    /\ lock \in Sweeps \cup {Nobody}

\* The rules in force come from one save: rows of two saves mix only when the
\* second began before the first had committed.
RulesMixOnlyInOverlap ==
    [][ \A d \in Definitions : Cardinality(rules[d]) <= 1 /\ Cardinality(rules[d])' > 1 =>
          \E c \in Calls : ReplaceCommit(c) /\ calls[c].def = d
                              /\ calls[c].seen # rules[d] ]_vars

Exceeded(d) == OpenOf(d) >= configs[Current].cap

\* A creation that takes a definition past the cap acts on a stale count or on
\* a configuration that was replaced since it was read: an admin's request and
\* a sweep, or two requests, that overlapped (admin.ts counts and creates in
\* separate statements).  Creations that do not overlap respect the cap.
CapYieldsOnlyToOverlap ==
    [][ \A d \in Definitions : Exceeded(d) /\ OpenOf(d)' > OpenOf(d) =>
          \/ \E c \in Calls :
                /\ MaterializeCreate(c) /\ calls[c].def = d
                /\ calls[c].open < OpenOf(d) \/ calls[c].version < Current
          \/ \E s \in Sweeps :
                /\ SweepCreate(s) /\ sweeps[s].def = d
                /\ sweeps[s].open < OpenOf(d) \/ sweeps[s].cap # configs[Current].cap ]_vars

\* An active definition that recurs has a next due date, so that the sweep will
\* find it again, through materializing, archiving, reactivating and crashes;
\* it lacks one only after an edit that made it recur, because PUT does not
\* touch nextDueAt (admin.ts warns of stranding a definition).
OnlyEditsStrand ==
    \A d \in Definitions :
        /\ defs[d].active /\ ~defs[d].archived /\ defs[d].recurs
        /\ defs[d].nextDue = Never
        => ~defs[d].scheduledAs

\* The sweep materializes an occurrence a second time only where a sweep acted
\* on a due date that had moved since its scan: another sweep got there first,
\* which the advisory lock orders but does not tell, or the definition was
\* completed, or archived and reactivated, in between; or where a completion
\* that had taken the time before midnight set the due date back after it.
OccurrencesRepeatOnlyAfterOverlap ==
    \A i, j \in DOMAIN instances :
        /\ i # j /\ instances[i].auto /\ instances[j].auto
        /\ instances[i].def = instances[j].def
        /\ instances[i].scheduledFor = instances[j].scheduledFor
        => defs[instances[i].def].overlapped

\* What two administrators and two sweeps do one after the other obeys the cap,
\* the rules of one save and one occurrence per due date; only steps that
\* overlap break them, in the three ways above.
OnlyOverlapMisleads ==
    /\ RulesMixOnlyInOverlap
    /\ CapYieldsOnlyToOverlap
    /\ []OccurrencesRepeatOnlyAfterOverlap

\* Whatever two administrators do at once, a version that was edited builds on
\* the version its editor saw, a version that was rolled back to is an exact
\* copy, and every occurrence keeps the version it was created under, so no
\* save is lost and no price changes under a running task (updateConfig.ts).
EditsBuildOnWhatWasSeen ==
    /\ \A v \in DOMAIN configs :
           /\ configs[v].base = v - 1
           /\ configs[v].copied # 0 =>
                  configs[v].copied < v /\ configs[v].cap = configs[configs[v].copied].cap
    /\ \A i \in DOMAIN instances : instances[i].version \in DOMAIN configs

=============================================================================
