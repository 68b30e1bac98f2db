--------------------------------- MODULE Audit ---------------------------------
(***************************************************************************)
(* What the audit of app/points/verifyLedgerIntegrity.ts notices.  A       *)
(* ledger grows by postings; then one row is damaged behind the program's  *)
(* back, and an administrator may ask for the caches to be repaired before *)
(* anybody looks.                                                          *)
(***************************************************************************)
EXTENDS LedgerChecks

CONSTANTS Payees,         \* the members
          PostedAmounts,  \* amounts posted, and written by a damage
          MaxPostings     \* bound on the number of rows

ASSUME AmountsAreWhole == PostedAmounts \subseteq Int

VARIABLES ledger,   \* the ledger
          cached,   \* member -> points_cache
          damage,   \* what happened to the ledger
          repaired  \* the caches were repaired after it

auditVars == <<ledger, cached, damage, repaired>>

Intact == [kind |-> "none"]

AuditInit ==
    /\ ledger = {}
    /\ cached = [m \in Payees |-> 0]
    /\ damage = Intact
    /\ repaired = FALSE

Newest(m) == Max({NoPrevious} \cup {e.id : e \in {d \in ledger : d.member = m}})

(* A posting of each kind the code makes for itself; each has its own        *)
(* assignment.                                                               *)
Request(m, amount) ==
    [member |-> m, amount |-> amount, redemption |-> NoLink, assignment |-> Cardinality(ledger) + 1,
     type |-> IF amount > 0 THEN "VOLUNTARY_TASK_REWARD" ELSE "BUYOUT",
     kind |-> IF amount > 0 THEN "VOLUNTARY" ELSE "RANDOM"]

(* computePosting accepts the request and the row is written. *)
Books(m, amount) ==
    /\ damage = Intact
    /\ Cardinality(ledger) < MaxPostings
    /\ Postable(Request(m, amount))
    /\ ledger' = ledger \cup {Posted(Request(m, amount), Cardinality(ledger) + 1, Newest(m), cached[m])}
    /\ cached' = [cached EXCEPT ![m] = @ + amount]
    /\ UNCHANGED <<damage, repaired>>

(* Every damage names its row, and whether it was its owner's latest. *)
Damages(kind, e, after) ==
    /\ damage = Intact
    /\ ledger' = after
    /\ ledger' # ledger
    /\ damage' = [kind |-> kind, latest |-> e.id = Newest(e.member)]
    /\ UNCHANGED <<cached, repaired>>

Replacing(e, d) == (ledger \ {e}) \cup {d}

LosesRow(e)        == Damages("lost", e, ledger \ {e})
ChangesAmount(e, n) == Damages("amount", e, Replacing(e, [e EXCEPT !.amount = n]))
ShiftsRow(e, n)    == Damages("shifted", e, Replacing(e, [e EXCEPT !.balanceBefore = @ + n,
                                                                   !.balanceAfter = @ + n]))
MovesRow(e, m)     == Damages("moved", e, Replacing(e, [e EXCEPT !.member = m]))
RewritesRow(e, n)  == Damages("rewritten", e, Replacing(e, [e EXCEPT !.amount = n,
                                                                     !.balanceAfter = e.balanceBefore + n]))

(* repairCache: the ledger is believed, the caches are set to its sums. *)
RepairsCaches ==
    /\ damage # Intact
    /\ cached' = [m \in Payees |-> BalanceFromEntries(ledger, m)]
    /\ repaired' = TRUE
    /\ UNCHANGED <<ledger, damage>>

AuditNext ==
    \/ \E m \in Payees, n \in PostedAmounts : Books(m, n)
    \/ \E e \in ledger :
          \/ LosesRow(e)
          \/ \E n \in PostedAmounts : ChangesAmount(e, n) \/ ShiftsRow(e, n) \/ RewritesRow(e, n)
          \/ \E m \in Payees : MovesRow(e, m)
    \/ RepairsCaches

AuditSpec == AuditInit /\ [][AuditNext]_auditVars

--------------------------------------------------------------------------------
(* A ledger nobody touched verifies.  A damage to one row is reported, and   *)
(* stays reported when the caches are repaired to agree with it, unless the  *)
(* row was its owner's latest: what a repair hides is an ending, never a     *)
(* middle (verifyLedgerIntegrity in domain/points/ledger-math.ts).           *)
OneChangeIsReported ==
    /\ damage = Intact => Violations(ledger, cached) = {}
    /\ damage # Intact =>
          Violations(ledger, cached) # {} \/ (repaired /\ damage.latest)
================================================================================
