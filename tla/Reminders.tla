------------------------------- MODULE Reminders -------------------------------
(***************************************************************************)
(* The due-soon reminders of app/assignment/runAssignmentSweep.ts: one     *)
(* occurrence with a due date, the workers that come and go, an            *)
(* administrator who edits the estimate and the warning time, and passes   *)
(* of the sweep (the worker's and those asked for by POST /sweep/run) that *)
(* overlap.  A pass takes its clock, reads the candidates, reads the       *)
(* configuration and only then takes the locks.                            *)
(* A definition marked "wrong" is a plausible slip in the code; no other   *)
(* definition uses it.                                                     *)
(***************************************************************************)
EXTENDS Integers, Sequences, FiniteSets

CONSTANTS SweepPasses,  \* the sweeps that may overlap
          DueAt,        \* the occurrence's due date
          Estimates,    \* estimatedMinutes an administrator may set
          Multipliers,  \* notifications.dueSoonDurationMultiplier
          TeamSizes,    \* the worker counts considered
          MaxHoldings   \* bound on the assignments of the occurrence

NoEstimate == 0
NoPass == [at |-> "idle"]

VARIABLES moment,      \* the clock
          estimate,    \* the definition's estimatedMinutes, or NoEstimate
          multiplier,  \* the current configuration's multiplier
          teamSize,    \* EXACTLY this many workers
          finished,    \* the occurrence is completed
          holdings,    \* its assignments: [active, reminded (how often)]
          pass,        \* what each pass has read
          owed         \* history: the rows each pass found due and has seen undisturbed since

reminderVars == <<moment, estimate, multiplier, teamSize, finished, holdings, pass, owed>>

RemindersInit ==
    /\ moment = 0
    /\ estimate \in Estimates
    /\ multiplier \in Multipliers
    /\ teamSize \in TeamSizes
    /\ finished = FALSE
    /\ holdings = <<>>
    /\ pass = [p \in SweepPasses |-> NoPass]
    /\ owed = [p \in SweepPasses |-> {}]

--------------------------------------------------------------------------------
ActiveHoldings == {h \in DOMAIN holdings : holdings[h].active}
Staffed == Cardinality(ActiveHoldings) >= teamSize
Assigned == ~finished /\ Staffed

Unreminded == {h \in ActiveHoldings : holdings[h].reminded = 0}

(* now >= dueAt - multiplier * estimatedMinutes *)
Ripe(now, factor, minutes) == minutes # NoEstimate /\ now >= DueAt - factor * minutes

(* The where clause of the outer query. *)
CandidatesAt(now) ==
    IF Assigned /\ now < DueAt /\ estimate # NoEstimate THEN Unreminded ELSE {}

--------------------------------------------------------------------------------
(* Volunteering, the draw, and a redo: each makes a new row. *)
TakesOver ==
    /\ ~finished /\ ~Staffed
    /\ Len(holdings) < MaxHoldings
    /\ holdings' = Append(holdings, [active |-> TRUE, reminded |-> 0])
    /\ UNCHANGED <<moment, estimate, multiplier, teamSize, finished, pass, owed>>

(* Release, revocation or buyout: the row is closed, the team is short. *)
GivesUp(h) ==
    /\ ~finished /\ holdings[h].active
    /\ holdings' = [holdings EXCEPT ![h].active = FALSE]
    /\ owed' = [p \in SweepPasses |-> {}]
    /\ UNCHANGED <<moment, estimate, multiplier, teamSize, finished, pass>>

(* The last worker completes. *)
Finishes ==
    /\ Assigned
    /\ finished' = TRUE
    /\ holdings' = [h \in DOMAIN holdings |-> [holdings[h] EXCEPT !.active = FALSE]]
    /\ owed' = [p \in SweepPasses |-> {}]
    /\ UNCHANGED <<moment, estimate, multiplier, teamSize, pass>>

(* PUT /admin/task-definitions/:id, read live by the sweep. *)
EditsEstimate(e) ==
    /\ e # estimate
    /\ estimate' = e
    /\ owed' = [p \in SweepPasses |-> {}]
    /\ UNCHANGED <<moment, multiplier, teamSize, finished, holdings, pass>>

(* PUT /admin/config; a pass that has read the configuration keeps its own. *)
EditsMultiplier(f) ==
    /\ f # multiplier
    /\ multiplier' = f
    /\ owed' = [p \in SweepPasses |-> {}]
    /\ UNCHANGED <<moment, estimate, teamSize, finished, holdings, pass>>

TimePasses ==
    /\ moment < DueAt
    /\ moment' = moment + 1
    /\ UNCHANGED <<estimate, multiplier, teamSize, finished, holdings, pass, owed>>

--------------------------------------------------------------------------------
(* runAssignmentSweep takes its clock first. *)
Starts(p) ==
    /\ pass[p] = NoPass
    /\ pass' = [pass EXCEPT ![p] = [at |-> "started", now |-> moment]]
    /\ owed' = [owed EXCEPT ![p] = {}]
    /\ UNCHANGED <<moment, estimate, multiplier, teamSize, finished, holdings>>

(* dueSoonCandidates, with the estimate of that moment. *)
Scans(p) ==
    /\ pass[p].at = "started"
    /\ LET now   == pass[p].now
           found == CandidatesAt(now)
       IN  /\ pass' = [pass EXCEPT ![p] = IF found = {} THEN NoPass
                                          ELSE [at |-> "scanned", now |-> now, minutes |-> estimate]]
           /\ owed' = [owed EXCEPT ![p] = IF Ripe(now, multiplier, estimate) THEN found ELSE {}]
    /\ UNCHANGED <<moment, estimate, multiplier, teamSize, finished, holdings>>

(* dueSoonConfig and ripeInstanceIds. *)
Reckons(p) ==
    /\ pass[p].at = "scanned"
    /\ pass' = [pass EXCEPT ![p] = IF Ripe(pass[p].now, multiplier, pass[p].minutes)
                                   THEN [at |-> "ripe", now |-> pass[p].now, factor |-> multiplier]
                                   ELSE NoPass]
    /\ UNCHANGED <<moment, estimate, multiplier, teamSize, finished, holdings, owed>>

(* wrong: one flag for the occurrence, as its other deadlines have. *)
NotifiableOnce == IF \E h \in DOMAIN holdings : holdings[h].reminded > 0 THEN {} ELSE ActiveHoldings

(* wrong: the flag is left to the outer query. *)
NotifiableByScan == ActiveHoldings

(* Read again under the locks: every holder, also of another slot. *)
Notifiable == Unreminded

(* The transaction: sweep lock, occurrence, rows; flags and notifications.   *)
Reminds(p) ==
    /\ pass[p].at = "ripe"
    /\ pass' = [pass EXCEPT ![p] = NoPass]
    /\ holdings' = IF Assigned /\ pass[p].now < DueAt /\ Ripe(pass[p].now, pass[p].factor, estimate)
                   THEN [h \in DOMAIN holdings |->
                            IF h \in Notifiable THEN [holdings[h] EXCEPT !.reminded = @ + 1] ELSE holdings[h]]
                   ELSE holdings
    /\ UNCHANGED <<moment, estimate, multiplier, teamSize, finished, owed>>

(* The worker dies; what a transaction has not committed is gone. *)
PassDies(p) ==
    /\ pass[p] # NoPass
    /\ pass' = [pass EXCEPT ![p] = NoPass]
    /\ owed' = [owed EXCEPT ![p] = {}]
    /\ UNCHANGED <<moment, estimate, multiplier, teamSize, finished, holdings>>

RemindersNext ==
    \/ TakesOver \/ Finishes \/ TimePasses
    \/ \E h \in DOMAIN holdings : GivesUp(h)
    \/ \E e \in Estimates : EditsEstimate(e)
    \/ \E f \in Multipliers : EditsMultiplier(f)
    \/ \E p \in SweepPasses : Starts(p) \/ Scans(p) \/ Reckons(p) \/ Reminds(p) \/ PassDies(p)

RemindersSpec == RemindersInit /\ [][RemindersNext]_reminderVars

--------------------------------------------------------------------------------
(* Every holder is reminded once and not twice, however many passes overlap: *)
(* a pass that ends has reminded whom it found due, unless that work changed *)
(* hands or the rule changed under it, and a new holder after a buyout gets  *)
(* a reminder of their own ("each new holder their own chance to be warned", *)
(* runAssignmentSweep.ts:709-711).                                           *)
HoldersAreRemindedOnce ==
    /\ \A h \in DOMAIN holdings : holdings[h].reminded <= 1
    /\ \A p \in SweepPasses : pass[p] = NoPass => \A h \in owed[p] : holdings[h].reminded = 1
================================================================================
