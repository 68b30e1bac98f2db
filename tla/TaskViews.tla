------------------------------ MODULE TaskViews ------------------------------
(* What one member sees of the market and which buttons are offered: the DTOs *)
(* of queries/taskDto.ts, the quote, and the page that turns them into         *)
(* buttons.  Each offer is computed a second time, apart from the guard of the *)
(* use-case behind it; the properties compare the two in every state the       *)
(* market can reach.  Responses to a draw (accept) move nothing and are left   *)
(* out, so a drawn member is taken to have answered or not, as it suits.       *)
EXTENDS TaskMarket

-----------------------------------------------------------------------------
(* loadCandidates with an instance: its slot holders are not candidates.       *)
Candidates(i) == Members \ Holders(i)

(* viewerEligibility looks the holders' roles up among those candidates.       *)
AdminsSeen(i) == {m \in Holders(i) : m \in Candidates(i) /\ m \in Admins}

DeficitSeen(i) ==
    LET owed == MinAdminSlots - Cardinality(AdminsSeen(i))
    IN  IF owed > 0 THEN owed ELSE 0

ReservedForViewer(i) ==
    LET remaining == MinRequired - Cardinality(Active(i))
    IN  remaining > 0 /\ DeficitSeen(i) > 0 /\ DeficitSeen(i) >= remaining

Eligible(i, m) ==
    /\ m \in Candidates(i)
    /\ ReservedForViewer(i) => m \in Admins

(* toAvailableDto: recruiting is judged by the cached count.                   *)
HasOpenSlotOnMarket(i) == status[i] = "AVAILABLE"                   \* wrong
HasOpenSlot(i) ==
    \/ status[i] = "AVAILABLE"
    \/ status[i] = "ASSIGNED" /\ ~Full(slotCount[i])

CanVolunteer(i, m) == HasOpenSlot(i) /\ Eligible(i, m)

(* listAvailableTasks; a staffed occurrence is listed while a slot is free.      *)
AvailableTasksOnMarket(m, eligibleOnly) ==                                \* wrong
    {i \in Instances : status[i] = "AVAILABLE" /\ (eligibleOnly => CanVolunteer(i, m))}
AvailableTasks(m, eligibleOnly) ==
    {i \in Instances : /\ status[i] \in {"AVAILABLE", "ASSIGNED"}
                       /\ ~(status[i] = "ASSIGNED" /\ Full(slotCount[i]))
                       /\ eligibleOnly => CanVolunteer(i, m)}

(* The viewer's own row among the assignments of the page.                      *)
Mine(i, m) == {a \in Active(i) : asg[a].member = m}

(* listAssignedToMe; a short team's members hold rows of an AVAILABLE one.      *)
AssignedToMeWhenStaffed(m) ==                                             \* wrong
    {i \in Instances : status[i] = "ASSIGNED" /\ Mine(i, m) # {}}
AssignedToMe(m) ==
    {i \in Instances : status[i] \in {"AVAILABLE", "ASSIGNED"} /\ Mine(i, m) # {}}

(* toAssignmentSummary: what completing the row is said to be worth, by the    *)
(* configuration the row is pinned to.                                         *)
RewardOfAnyKind(a) ==                                              \* wrong
    VoluntaryReward(Pinned(a), value[asg[a].inst], Pinned(a).timing)
RewardOnCompletion(a) ==
    IF Voluntary(a)
    THEN VoluntaryReward(Pinned(a), value[asg[a].inst], Pinned(a).timing)
    ELSE 0

(* buildQuote, asked at any time; it does not look at the occurrence's status. *)
QuoteAllowed(a) == asg[a].status = "ACTIVE" /\ MayBuyOut(a)

-----------------------------------------------------------------------------
(* TaskDetailPage: the buttons of the page of occurrence i.                    *)
VolunteerButton(i, m) == CanVolunteer(i, m)
OwnButtonsAtOnce(i, m) == Mine(i, m)                               \* wrong
OwnButtons(i, m) == IF status[i] = "ASSIGNED" THEN Mine(i, m) ELSE {}
CompleteButton(i, m, a) == a \in OwnButtons(i, m)
BuyoutButton(i, m, a) == a \in OwnButtons(i, m) /\ QuoteAllowed(a)
ReleaseButton(i, m, a) == a \in OwnButtons(i, m) /\ Voluntary(a)
-----------------------------------------------------------------------------
(* A redo is under way: rejectCompletion gave a worker the slot back without   *)
(* writing the cached count.                                                   *)
RedoUnderWay(i) == \E a \in Active(i) : asg[a].origin = "REOPENED_TO_ASSIGNEE"

(* What completeTask and executeBuyout, and release, require of the row.       *)
Completable(i, a) == status[i] = "ASSIGNED" /\ a \in Active(i)
Returnable(i, a) == status[i] \in {"ASSIGNED", "AVAILABLE"} /\ a \in Active(i)

(* A button of a fresh page is not refused, although the quote never looks at  *)
(* the occurrence and the page never at the rules.  The exception is a full    *)
(* chore that is shown as open while a redo leaves the cached count at zero.   *)
OffersAreHonoured ==
    \A i \in Instances, m \in Members :
        /\ VolunteerButton(i, m) => MayVolunteer(i, m) \/ RedoUnderWay(i)
        /\ \A a \in Assignments :
              /\ CompleteButton(i, m, a) => Completable(i, a)
              /\ BuyoutButton(i, m, a) => Completable(i, a) /\ MayBuyOut(a)
              /\ ReleaseButton(i, m, a) => Returnable(i, a)

(* A slot the server would give to a member is offered to that member ("a     *)
(* single implementation rather than a second copy that could disagree with    *)
(* the one the mutation enforces", taskDto.ts:171).  The two do disagree where *)
(* an admin holds a slot: admins on the job are looked up among those who are  *)
(* not, so the reservation is shown although it is met.  The lists agree: a    *)
(* free slot is listed for everyone who may take it, and for everyone who is    *)
(* told so; whoever holds work finds it among the tasks assigned to them,       *)
(* unless the occurrence was paused or expired over a team that was short.      *)
FreeSlotsAreOffered ==
    \A i \in Instances, m \in Members :
        /\ MayVolunteer(i, m) /\ ~CanVolunteer(i, m) =>
              /\ m \notin Admins
              /\ Holders(i) \cap Admins # {}
        /\ MayVolunteer(i, m) => i \in AvailableTasks(m, FALSE)
        /\ CanVolunteer(i, m) => i \in AvailableTasks(m, TRUE)
        /\ m \in Holders(i) => i \in AssignedToMe(m) \/ status[i] \in {"PAUSED", "EXPIRED"}

(* "the number on the screen and the number in the ledger cannot disagree"     *)
(* (taskDto.ts:285-286) holds up to the multiplier the page does not show:     *)
(* completing a row that is paid on completion posts what the page showed, or  *)
(* its multiple if the member has a charge open, also for a redo and after     *)
(* growth, buyout or a change of the rule; and the charge is spent just when   *)
(* there was something to multiply.                                            *)
PromisedIsPaid ==
    [][\A a \in Assignments :
          LET m == asg[a].member
              shown == RewardOnCompletion(a)
          IN  /\ asg[a].status = "ACTIVE" /\ asg'[a].status = "COMPLETED"
              /\ Pinned(a).timing = "ON_COMPLETE"
              => /\ ledger'[a].reward = IF charges[m] > 0 THEN Multiplied(shown) ELSE shown
                 /\ charges'[m] = IF charges[m] > 0 /\ shown > 0 THEN charges[m] - 1
                                  ELSE charges[m]]_vars
=============================================================================
