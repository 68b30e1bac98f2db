------------------------------ MODULE WebClient ------------------------------
(* One browser tab: the query cache of the web client, the requests and        *)
(* mutations under way, and the forced reload when the server runs a newer     *)
(* build.  A cached answer is abstracted to what it lacks: the own mutations   *)
(* and the changes of others that it does not show yet.  The cache itself is   *)
(* TanStack Query, modelled by how hooks.ts and main.tsx use it.               *)
(*                                                                            *)
(* A definition marked "wrong" is a plausible slip in the code; no other       *)
(* definition uses it.                                                         *)
EXTENDS Naturals, FiniteSets, SequencesExt

CONSTANTS
    Pages,          \* the pages of this instance, among DOMAIN Mounted
    MaxChanges,     \* bound: changes by others, expiries and deployments
    MaxPresses,     \* bound: buttons the member decides to press, logins apart
    MaxVisits,      \* bound: navigations and refreshes
    Trouble         \* bound: failed requests and purges

ASSUME ClientAssumption ==
    /\ {"login", "dashboard", "detail"} \subseteq Pages
    /\ {MaxChanges, MaxPresses, MaxVisits, Trouble} \subseteq Nat

-----------------------------------------------------------------------------
(* The query keys of hooks.ts; one occurrence "t", one definition "d".         *)
Session == <<"session">>
Dashboard == <<"dashboard">>
Available == <<"tasks", "available">>
AssignedToMe == <<"tasks", "assigned-to-me">>
Detail == <<"tasks", "t">>
History == <<"history">>
MemberMe == <<"members", "me">>
MemberList == <<"members">>
Ledger == <<"members", "me", "transactions">>
PublicConfig == <<"config", "public">>
RewardShop == <<"rewards">>
Todoist == <<"integrations", "todoist">>
AdminConfig == <<"admin", "config">>
AdminMembers == <<"admin", "members">>
AdminCategories == <<"admin", "categories">>
AdminDefinitions == <<"admin", "task-definitions">>
AdminDefinition == <<"admin", "task-definitions", "d">>
AdminRewards == <<"admin", "rewards">>
AdminRedemptions == <<"admin", "rewards", "redemptions">>
Tasks == <<"tasks">>                          \* a prefix, no query of its own

(* What the pages show of the server's answers, as its handlers build them; a  *)
(* quote that comes with a task's detail is shown by no page.                  *)
SessionAnswer == {"session", "profile"}
DashboardAnswer == {"tasks", "points", "profile", "definitions", "effects"}
TaskListAnswer == {"tasks", "definitions"}
DetailAnswer == {"tasks", "definitions"}
MemberAnswer == {"points", "profile"}
ShelfAnswer == {"shelf"}
PublicRulesAnswer == {"rules"}
AdminMembersAnswer == {"profile", "points", "eligibility", "absences"}
DefinitionsAnswer == {"definitions", "categories", "eligibility"}
DefinitionAnswer == DefinitionsAnswer \cup {"tasks"}
CategoriesAnswer == {"categories"}
AllRewardsAnswer == {"shelf"}
RedemptionsAnswer == {"redemptions"}

(* What a query shows.                                                         *)
MemberReads(q) ==
    CASE q = Session -> SessionAnswer
      [] q = Dashboard -> DashboardAnswer
      [] q \in {Available, AssignedToMe} -> TaskListAnswer
      [] q = Detail -> DetailAnswer
      [] q = History -> {"history"}
      [] q \in {MemberMe, MemberList} -> MemberAnswer
      [] q = Ledger -> {"points"}
      [] q = PublicConfig -> PublicRulesAnswer
      [] q = RewardShop -> ShelfAnswer
      [] q = Todoist -> {"todoist"}
      [] OTHER -> {}

AdminReads(q) ==
    CASE q = AdminConfig -> {"rules"}
      [] q = AdminMembers -> AdminMembersAnswer
      [] q = AdminCategories -> CategoriesAnswer
      [] q = AdminDefinitions -> DefinitionsAnswer
      [] q = AdminDefinition -> DefinitionAnswer
      [] q = AdminRewards -> AllRewardsAnswer
      [] q = AdminRedemptions -> RedemptionsAnswer
      [] OTHER -> {}

Reads(q) == MemberReads(q) \cup AdminReads(q)

(* The queries a page mounts, the session of Protected and Layout among them.   *)
(* Left out: the household tab of the list, and what the detail page mounts for *)
(* the own assignment only, its quote (polled) and its explanation; no mutation *)
(* invalidates those two.                                                       *)
MemberPages ==
    [login |-> {Session}, dashboard |-> {Session, Dashboard},
     list |-> {Session, Available, AssignedToMe},
     detail |-> {Session, Detail, MemberMe, MemberList},
     history |-> {Session, History}, ledger |-> {Session, Ledger},
     account |-> {Session, MemberMe, PublicConfig, Todoist},
     shop |-> {Session, MemberMe, RewardShop}]
AdminPages ==
    [settings |-> {Session, AdminConfig},
     members |-> {Session, AdminMembers, AdminCategories, AdminDefinitions},
     chores |-> {Session, AdminDefinitions, AdminDefinition, AdminCategories, AdminMembers},
     categories |-> {Session, AdminCategories},
     rewards |-> {Session, AdminRewards, AdminRedemptions}]
Mounted == [p \in DOMAIN MemberPages \cup DOMAIN AdminPages |->
               IF p \in DOMAIN MemberPages THEN MemberPages[p] ELSE AdminPages[p]]

ASSUME PagesAreKnown == Pages \subseteq DOMAIN Mounted

(* The mutations the pages offer, what each writes on the server ...           *)
DetailButtons == {"Volunteer", "CompleteTask", "Buyout", "AcceptAssignment",
                  "ReleaseAssignment", "RevokeAssignment"}
AccountButtons == {"Logout", "ConnectTodoist", "UpdateTodoist", "DisconnectTodoist"}
PeopleButtons == {"CreateMember", "UpdateMember", "UpdateMemberRestrictions",
                  "AdjustMemberPoints"}
CategoryButtons == {"CreateCategory", "UpdateCategory", "DeleteCategory",
                    "ReorderCategories"}
DefinitionButtons == {"CreateTaskDefinition", "UpdateTaskDefinition",
                      "ArchiveTaskDefinition", "ReactivateTaskDefinition"}
ChoreButtons == DefinitionButtons \cup {"RunSweep", "UpdateTaskEligibility",
    "MaterializeTaskDefinition", "CancelInstance", "CancelOpenInstancesOfDefinition",
    "RevokeAssignment"}
RewardButtons == {"CreateReward", "UpdateReward", "FulfillRedemption"}
SettingsButtons == {"SaveConfig"}
Buttons ==
    [login |-> {"Login"}, dashboard |-> {"RejectCompletion"}, list |-> {},
     detail |-> DetailButtons, history |-> {}, ledger |-> {},
     account |-> AccountButtons, shop |-> {"PurchaseReward"}, settings |-> SettingsButtons,
     members |-> PeopleButtons, chores |-> ChoreButtons, categories |-> CategoryButtons,
     rewards |-> RewardButtons]

MemberWrites(m) ==
    CASE m \in {"Login", "Logout"} -> {"session"}
      [] m = "CompleteTask" -> {"tasks", "points", "history", "definitions", "effects"}
      [] m = "AcceptAssignment" -> {"tasks", "history"}
      [] m \in DetailButtons \ {"CompleteTask", "AcceptAssignment"}
            -> {"tasks", "history", "points"}
      [] m = "PurchaseReward" -> {"points", "effects", "redemptions"}
      [] m \in AccountButtons \ {"Logout"} -> {"todoist"}
      [] OTHER -> {}

RejectionWrites == {"tasks", "points", "history"}
SweepWrites == {"tasks", "points", "history", "definitions"}
CategoryWrites == {"categories"}
ShelfWrites == {"shelf"}
AdjustmentWrites == {"points", "history"}
ConfigWrites == {"rules"}

AdminWrites(m) ==
    CASE m = "RejectCompletion" -> RejectionWrites
      [] m \in {"CancelInstance", "CancelOpenInstancesOfDefinition"}
            -> {"tasks", "points", "history"}
      [] m = "RunSweep" -> SweepWrites
      [] m = "MaterializeTaskDefinition" -> {"tasks", "history"}
      [] m \in DefinitionButtons -> {"definitions"}
      [] m = "UpdateTaskEligibility" -> {"eligibility"}
      [] m \in CategoryButtons -> CategoryWrites
      [] m \in {"CreateReward", "UpdateReward"} -> ShelfWrites
      [] m = "FulfillRedemption" -> {"redemptions"}
      [] m \in {"CreateMember", "UpdateMember"} -> {"profile"}
      [] m = "UpdateMemberRestrictions" -> {"absences", "eligibility"}
      [] m = "AdjustMemberPoints" -> AdjustmentWrites
      [] m \in SettingsButtons -> ConfigWrites
      [] OTHER -> {}

Writes(m) == MemberWrites(m) \cup AdminWrites(m)

(* ... and the keys its onSuccess (or onSettled) invalidates.                  *)
MemberKeys(m) ==
    CASE m = "Login" -> {Dashboard}
      [] m \in {"Volunteer", "AcceptAssignment", "ReleaseAssignment"}
            -> {Dashboard, Tasks, History}
      [] m \in {"CompleteTask", "Buyout"} -> {Dashboard, Tasks, MemberMe, History}
      [] m = "PurchaseReward" -> {Dashboard, MemberMe, RewardShop}
      [] m \in {"ConnectTodoist", "UpdateTodoist", "DisconnectTodoist"} -> {Todoist}
      [] OTHER -> {}

OccurrenceKeys(m) ==
    CASE m = "RejectCompletion" -> {Dashboard, MemberList, History, Tasks}
      [] m = "RevokeAssignment" -> {Dashboard, Tasks, MemberList, History, AdminDefinitions}
      [] m = "RunSweep" -> {Dashboard, Tasks, History}
      [] m = "SaveConfig" -> {AdminConfig, PublicConfig, Tasks, Dashboard}
      [] OTHER -> {}

CatalogueKeys(m) ==
    CASE m \in DefinitionButtons \cup {"UpdateTaskEligibility"} -> {AdminDefinitions}
      [] m \in {"CancelInstance", "CancelOpenInstancesOfDefinition",
                "MaterializeTaskDefinition"} -> {Dashboard, Tasks, History, AdminDefinitions}
      [] m \in CategoryButtons -> {AdminCategories, AdminDefinitions}
      [] OTHER -> {}

PeopleKeys(m) ==
    CASE m \in PeopleButtons -> {AdminMembers}
      [] m \in {"CreateReward", "UpdateReward"} -> {AdminRewards}
      [] m = "FulfillRedemption" -> {AdminRedemptions}
      [] OTHER -> {}

Keys(m) == MemberKeys(m) \cup OccurrenceKeys(m) \cup CatalogueKeys(m) \cup PeopleKeys(m)

(* onError of the two mutations that send expectedVersion, and onSettled.      *)
ErrorKeysForgotten(m) ==                                           \* wrong
    IF m = "ReorderCategories" THEN Keys(m) ELSE {}
ErrorKeys(m) ==
    CASE m \in {"Volunteer", "CompleteTask"} -> {Detail}
      [] m = "ReorderCategories" -> Keys(m)
      [] OTHER -> {}

Versioned == {"Volunteer", "CompleteTask"}
Mutations == UNION {Buttons[p] : p \in Pages}
Queries == UNION {Mounted[p] : p \in Pages}

VARIABLES
    page,       \* the route
    held,       \* queries with an answer in the cache
    lacks,      \* what the cached answer does not show yet
    flight,     \* the request of a query: none, sent, read, refused
    misses,     \* what the answer under way does not show
    invalid,    \* marked by an invalidation
    failed,     \* the last request failed; the copy waits for another trigger
    signedIn,   \* the session of the cookie is valid
    knows,      \* the cached session names a member
    told,       \* the session answer under way names a member
    want,       \* the button the member means to press
    op,         \* the mutation under way
    ended,      \* history: how the session before this one ended
    build,      \* build of the page
    deployed,   \* build of the server
    worker,     \* build that the service worker serves, 0 when it is gone
    overlay,    \* the update overlay is up
    changes, presses, visits, trouble

cache == <<held, lacks, flight, misses, invalid, failed, knows, told>>
update == <<build, deployed, worker, overlay>>
counters == <<changes, presses, visits, trouble>>
clientVars == <<page, cache, signedIn, want, op, ended, update, counters>>

NoOp == [m |-> "none", phase |-> "idle", current |-> TRUE]
Empty == [q \in Queries |-> {}]
GoesWrong == trouble < Trouble /\ trouble' = trouble + 1

ClientInit ==
    /\ page \in Pages \ {"login"}
    /\ held = Mounted[page] /\ lacks = Empty /\ misses = Empty
    /\ flight = [q \in Queries |-> "none"]
    /\ invalid = {} /\ failed = {}
    /\ signedIn = TRUE /\ knows = TRUE /\ told = TRUE
    /\ want = "none" /\ op = NoOp /\ ended = "no"
    /\ build = 1 /\ deployed = 1 /\ worker = 1 /\ overlay = FALSE
    /\ changes = 0 /\ presses = 0 /\ visits = 0 /\ trouble = 0
-----------------------------------------------------------------------------
(* Protected renders the page only once the session names a member.            *)
Active == IF page = "login" \/ ~knows THEN {Session} ELSE Mounted[page]

(* The listener of versionCheck hears every answer.                            *)
Heard == overlay' = (overlay \/ build # deployed)
SameBuild == UNCHANGED <<build, deployed, worker>>

Ask(S) ==
    /\ flight' = [q \in Queries |-> IF q \in S THEN "sent" ELSE flight[q]]
    /\ misses' = [q \in Queries |-> IF q \in S THEN {} ELSE misses[q]]
    /\ failed' = failed \ S

tabFrame == UNCHANGED <<page, signedIn, want, op, ended, changes, presses>>
queryFrame == tabFrame /\ UNCHANGED visits

(* The mounted queries without a valid copy are fetched when the page renders. *)
Mount ==
    /\ LET S == {q \in Active \ failed : flight[q] = "none" /\ q \notin held \ invalid}
       IN S # {} /\ Ask(S)
    /\ UNCHANGED <<held, lacks, invalid, knows, told, update, trouble>> /\ queryFrame

(* A focus, a poll or a mount past the stale time; where the answer could not  *)
(* differ from the copy, nothing is asked.                                     *)
Refresh(q) ==
    /\ q \in Active /\ flight[q] = "none"
    /\ \/ q \in failed \/ lacks[q] # {}
       \/ q = Session /\ (page = "login" \/ knows # signedIn)
    /\ visits < MaxVisits /\ visits' = visits + 1
    /\ Ask({q})
    /\ UNCHANGED <<held, lacks, invalid, knows, told, update, trouble>> /\ tabFrame

ServerReads(q) ==
    /\ flight[q] = "sent"
    /\ flight' = [flight EXCEPT ![q] = IF signedIn \/ q = Session THEN "read" ELSE "refused"]
    /\ told' = IF q = Session THEN signedIn ELSE told
    /\ UNCHANGED <<held, lacks, misses, invalid, failed, knows, update, trouble>>
    /\ queryFrame

Arrive(q) ==
    /\ flight[q] = "read"
    /\ held' = held \cup {q}
    /\ lacks' = [lacks EXCEPT ![q] = misses[q]]
    /\ misses' = [misses EXCEPT ![q] = {}]
    /\ invalid' = invalid \ {q}
    /\ flight' = [flight EXCEPT ![q] = "none"]
    /\ knows' = IF q = Session THEN told ELSE knows
    /\ Heard /\ SameBuild
    /\ UNCHANGED <<failed, told, trouble>> /\ queryFrame

(* Refused, or failed after the retries: an old copy stays.                    *)
FetchFails(q) ==
    /\ \/ flight[q] = "refused" /\ Heard /\ UNCHANGED trouble
       \/ flight[q] = "sent" /\ GoesWrong /\ UNCHANGED overlay
    /\ flight' = [flight EXCEPT ![q] = "none"]
    /\ misses' = [misses EXCEPT ![q] = {}]
    /\ failed' = failed \cup {q}
    /\ UNCHANGED <<held, lacks, invalid, knows, told>> /\ SameBuild /\ queryFrame

(* The queries an invalidation reaches: those on the page that have a copy are *)
(* asked again in place of a request under way; a first request is joined.     *)
Hit(keys) == {q \in Queries : \E k \in keys : IsPrefix(k, q)}
RestartedIdle(keys) ==                                             \* wrong
    {q \in Hit(keys) \cap Active : flight[q] = "none"}
Restarted(keys) ==
    {q \in Hit(keys) \cap Active : q \in held \/ flight[q] = "none"}

(* From here on a copy counts as lacking an own write only if it is open or    *)
(* will be asked again; other copies are merely old.                           *)
Old(S, m) == IF m \in S THEN (S \ {m}) \cup {"others"} ELSE S
Aged(m, keys, copies) == [q \in Queries |->
    IF q \in Active \cup Hit(keys) THEN copies[q] ELSE Old(copies[q], m)]
AgedAnswer(m, keys) == [q \in Queries |->
    CASE q \in Restarted(keys) -> {}
      [] q \in (Active \cap held) \ Restarted(keys) -> misses[q]
      [] OTHER -> Old(misses[q], m)]
-----------------------------------------------------------------------------
(* The member.                                                                 *)
Navigate(p) ==
    /\ visits < MaxVisits /\ ~overlay /\ knows
    /\ p \in Pages \ {page, "login"}
    /\ page' = p /\ visits' = visits + 1 /\ want' = "none"
    /\ UNCHANGED <<cache, signedIn, op, ended, update, changes, presses, trouble>>

(* Protected redirects, and LoginPage leaves once there is a member: for the   *)
(* dashboard, since it looks for "next" where Protected does not put it.       *)
Redirect ==
    /\ page # "login" /\ ~knows /\ Session \in held \cup failed /\ flight[Session] = "none"
    /\ page' = "login" /\ want' = "none"
    /\ UNCHANGED <<cache, signedIn, op, ended, update, counters>>

EnterFromLogin ==
    /\ page = "login" /\ knows
    /\ page' = "dashboard"
    /\ UNCHANGED <<cache, signedIn, want, op, ended, update, counters>>

Decide(m) ==
    /\ want = "none" /\ op = NoOp /\ ~overlay
    /\ m \in Buttons[page] /\ Active = Mounted[page] /\ Active \subseteq held
    /\ IF m = "Login" THEN ~knows /\ UNCHANGED presses
                      ELSE presses < MaxPresses /\ presses' = presses + 1
    /\ want' = m
    /\ UNCHANGED <<page, cache, signedIn, op, ended, update, changes, visits, trouble>>

(* expectedVersion is the version of the copy on the page.  Reordering replaces *)
(* the list by what it will be and stops the requests for it.                  *)
Press ==
    /\ want # "none" /\ op = NoOp /\ ~overlay /\ Active = Mounted[page]
    /\ op' = [m |-> want, phase |-> "sent",
              current |-> want \in Versioned => lacks[Detail] = {}]
    /\ IF want = "ReorderCategories"
       THEN /\ lacks' = [lacks EXCEPT ![AdminCategories] = {want}]
            /\ flight' = [flight EXCEPT ![AdminCategories] = "none"]
            /\ misses' = [misses EXCEPT ![AdminCategories] = {}]
       ELSE UNCHANGED <<lacks, flight, misses>>
    /\ UNCHANGED <<page, held, invalid, failed, knows, told, signedIn, want, ended,
                   update, counters>>
-----------------------------------------------------------------------------
(* The server.  A write makes every copy and every answer under way that shows *)
(* what was written lack it.                                                   *)
Shows(q, w) == Reads(q) \cap w # {}
Wrote(m, w) ==
    /\ lacks' = [q \in Queries |-> IF q \in held /\ Shows(q, w) THEN lacks[q] \cup {m} ELSE lacks[q]]
    /\ misses' = [q \in Queries |->
                     IF flight[q] = "read" /\ Shows(q, w) THEN misses[q] \cup {m} ELSE misses[q]]

OthersAct ==
    /\ changes < MaxChanges /\ changes' = changes + 1
    /\ Wrote("others", {"tasks"})
    /\ op' = IF op.phase = "sent" /\ op.m \in Versioned THEN [op EXCEPT !.current = FALSE] ELSE op
    /\ UNCHANGED <<page, held, flight, invalid, failed, knows, told, signedIn, want,
                   ended, update, presses, visits, trouble>>

SessionExpires ==
    /\ signedIn /\ changes < MaxChanges /\ changes' = changes + 1
    /\ signedIn' = FALSE /\ ended' = "expired"
    /\ UNCHANGED <<page, cache, want, op, update, presses, visits, trouble>>

serverFrame == UNCHANGED <<page, held, flight, invalid, failed, knows, told, want,
                           update, changes, presses, visits>>

ServerDoes ==
    /\ op.phase = "sent"
    /\ IF \/ ~signedIn /\ op.m # "Login"
          \/ ~op.current
       THEN /\ op' = [op EXCEPT !.phase = IF signedIn THEN "conflict" ELSE "broken"]
            /\ UNCHANGED <<lacks, misses, signedIn>>
       ELSE /\ op' = [op EXCEPT !.phase = "done"]
            /\ IF op.m = "Login"            \* every answer so far was for another session
               THEN /\ lacks' = [q \in Queries |-> IF q \in held THEN lacks[q] \cup {op.m} ELSE {}]
                    /\ misses' = [q \in Queries |->
                                    IF flight[q] = "read" THEN misses[q] \cup {op.m} ELSE {}]
               ELSE Wrote(op.m, Writes(op.m))
            /\ signedIn' = (op.m # "Logout")
    /\ ended' = IF op.m = "Login" /\ signedIn THEN "replaced" ELSE ended
    /\ UNCHANGED trouble /\ serverFrame

(* Some of the PUTs of a reordering succeed.                                   *)
ServerDoesHalf ==
    /\ op.phase = "sent" /\ op.m = "ReorderCategories" /\ signedIn /\ GoesWrong
    /\ op' = [op EXCEPT !.phase = "broken"]
    /\ Wrote(op.m, Writes(op.m))
    /\ UNCHANGED <<signedIn, ended>> /\ serverFrame

(* The request or its answer is lost; what was done stays done.                *)
CallLost ==
    /\ op.phase \in {"sent", "done"} /\ op.m \notin {"Login", "Logout"} /\ GoesWrong
    /\ op' = [op EXCEPT !.phase = "broken"]
    /\ lacks' = [q \in Queries |-> Old(lacks[q], op.m)]
    /\ misses' = [q \in Queries |-> Old(misses[q], op.m)]
    /\ UNCHANGED <<signedIn, ended>> /\ serverFrame
-----------------------------------------------------------------------------
(* The handlers of a mutation.                                                 *)
Invalidate(m, keys, copies) ==
    /\ flight' = [q \in Queries |-> IF q \in Restarted(keys) THEN "sent" ELSE flight[q]]
    /\ misses' = AgedAnswer(m, keys)
    /\ lacks' = Aged(m, keys, copies)
    /\ invalid' = invalid \cup (Hit(keys) \cap held)
    /\ failed' = failed \ Restarted(keys)

answered == op' = NoOp /\ Heard /\ SameBuild
settleFrame == UNCHANGED <<page, told, signedIn, changes, presses, visits, trouble>>

Succeeds ==
    /\ op.phase = "done" /\ op.m \notin {"Login", "Logout"}
    /\ Invalidate(op.m, Keys(op.m), lacks)
    /\ want' = "none" /\ answered
    /\ UNCHANGED <<held, knows, ended>> /\ settleFrame

(* setQueryData replaces the session; a request for it goes on.                *)
LoginSucceeds ==
    /\ op.phase = "done" /\ op.m = "Login"
    /\ held' = held \cup {Session} /\ knows' = TRUE
    /\ lacks' = [lacks EXCEPT ![Session] = {}]
    /\ invalid' = (invalid \cup (Hit(Keys(op.m)) \cap held)) \ {Session}
    /\ want' = "none" /\ answered
    /\ UNCHANGED <<flight, misses, failed, ended>> /\ settleFrame

LogoutForgotten == held' = held /\ lacks' = lacks                  \* wrong
LogoutClears == held' = {} /\ lacks' = Empty
LogoutSucceeds ==
    /\ op.phase = "done" /\ op.m = "Logout"
    /\ LogoutClears
    /\ knows' = FALSE
    /\ flight' = [q \in Queries |-> "none"] /\ misses' = Empty
    /\ invalid' = {} /\ failed' = {}
    /\ ended' = "logout" /\ want' = "none" /\ answered /\ settleFrame

(* A conflict is pressed again; any other error ends the attempt.  The copy put *)
(* back after a failed reordering lacks what was written of it.                 *)
Fails ==
    /\ op.phase \in {"conflict", "broken"}
    /\ Invalidate(op.m, ErrorKeys(op.m), lacks)
    /\ want' = IF op.phase = "conflict" THEN want ELSE "none"
    /\ answered
    /\ UNCHANGED <<held, knows, ended>> /\ settleFrame
-----------------------------------------------------------------------------
(* A new build.                                                                *)
Deploy ==
    /\ deployed = 1 /\ deployed' = 2
    /\ changes < MaxChanges /\ changes' = changes + 1
    /\ UNCHANGED <<page, cache, signedIn, want, op, ended, build, worker, overlay,
                   presses, visits, trouble>>

(* The bell of every signed-in page asks every thirty seconds.                 *)
BellPolls ==
    /\ page # "login" /\ knows /\ ~overlay /\ build # deployed
    /\ Heard /\ SameBuild
    /\ UNCHANGED <<page, cache, signedIn, want, op, ended, counters>>

(* The shell of the next navigation: a worker still registered serves its own  *)
(* build; the page then registers the worker of the build it runs.             *)
Reload(served) ==
    /\ build' = served /\ worker' = served /\ overlay' = FALSE
    /\ held' = {} /\ lacks' = Empty /\ misses' = Empty
    /\ flight' = [q \in Queries |-> "none"] /\ invalid' = {} /\ failed' = {}
    /\ knows' = FALSE /\ told' = FALSE
    /\ want' = "none" /\ op' = NoOp
    /\ UNCHANGED <<page, signedIn, ended, deployed, changes, presses, visits>>

(* The waiting worker takes over within the grace period ...                   *)
WorkerTakesOver ==
    /\ overlay /\ worker # deployed
    /\ Reload(deployed) /\ UNCHANGED trouble

(* ... or the worker is unregistered and its caches deleted before the reload, *)
(* each of which may fail.                                                     *)
ServedUnpurged == worker                                           \* wrong
ServedWhenPurged == deployed
PurgeAndReload ==
    /\ overlay
    /\ \/ Reload(ServedWhenPurged) /\ UNCHANGED trouble
       \/ GoesWrong /\ Reload(worker)
-----------------------------------------------------------------------------
NetworkStep ==
    \/ Mount \/ \E q \in Queries : ServerReads(q) \/ Arrive(q) \/ FetchFails(q)
    \/ ServerDoes \/ ServerDoesHalf \/ CallLost
    \/ Succeeds \/ LoginSucceeds \/ LogoutSucceeds \/ Fails

UpdateStep == BellPolls \/ WorkerTakesOver \/ PurgeAndReload

ClientNext ==
    \/ NetworkStep \/ UpdateStep \/ Redirect \/ Press
    \/ \E q \in Queries : Refresh(q)
    \/ EnterFromLogin \/ \E p \in Pages : Navigate(p)
    \/ \E m \in Mutations : Decide(m)
    \/ OthersAct \/ SessionExpires \/ Deploy

ClientSpec == ClientInit /\ [][ClientNext]_clientVars

(* Requests are answered or fail, the bell polls, timers fire, React redirects, *)
(* and a member who means to press a button presses it; nothing refocuses.     *)
(* Strong: a conflict restarts the request for the occurrence, and the member  *)
(* does not press each time before its answer is there.                        *)
FairClient ==
    /\ ClientSpec /\ WF_clientVars(NetworkStep) /\ WF_clientVars(UpdateStep)
    /\ WF_clientVars(Redirect) /\ WF_clientVars(Press)
    /\ WF_clientVars(ServerReads(Detail)) /\ SF_clientVars(Arrive(Detail))
-----------------------------------------------------------------------------
ClientTypeOK ==
    /\ page \in Pages /\ held \subseteq Queries /\ invalid \subseteq held
    /\ lacks \in [Queries -> SUBSET (Mutations \cup {"others"})]
    /\ misses \in [Queries -> SUBSET (Mutations \cup {"others"})]
    /\ flight \in [Queries -> {"none", "sent", "read", "refused"}]
    /\ {signedIn, knows, told, overlay} \subseteq BOOLEAN
    /\ want \in Mutations \cup {"none"}

(* What the hooks leave out: the only writes of its own buttons a page may go   *)
(* on not showing.  useLogin stops no request for the session, whose answer of  *)
(* before the login may arrive after it.                                       *)
Unshown ==
    {<<"Login", Session>>,
     <<"Volunteer", MemberMe>>, <<"Volunteer", MemberList>>,
     <<"ReleaseAssignment", MemberMe>>, <<"ReleaseAssignment", MemberList>>,
     <<"CompleteTask", MemberList>>, <<"Buyout", MemberList>>,
     <<"UpdateMember", Session>>, <<"CreateMember", Session>>,
     <<"UpdateMemberRestrictions", AdminDefinitions>>,
     <<"UpdateTaskEligibility", AdminMembers>>, <<"RunSweep", AdminMembers>>,
     <<"RunSweep", AdminDefinitions>>, <<"RunSweep", AdminDefinition>>,
     <<"CancelInstance", AdminMembers>>, <<"RevokeAssignment", AdminMembers>>,
     <<"CancelOpenInstancesOfDefinition", AdminMembers>>}

(* A page with nothing under way shows every write of its own buttons that      *)
(* settled, but for the pairs above: no answer read before the write and        *)
(* arriving after it, and no half-done reordering, stays on the page.           *)
OwnWritesAreShown ==
    \A q \in Active \cap held :
        flight[q] = "none" /\ q \notin invalid /\ op = NoOp
            => \A m \in lacks[q] \cap Buttons[page] : <<m, q>> \in Unshown

(* useLogout clears the cache: after a logout no copy of the session before it *)
(* is left, whatever was under way.                                            *)
LogoutForgets ==
    ended = "logout" => \A q \in held \ {Session} : "Login" \notin lacks[q]

(* What the caches hold while somebody is logged in, and after. *)
CachesAreHonest == OwnWritesAreShown /\ LogoutForgets

(* "that member's still-open tab gets 409 STALE_VIEW on its very first retry   *)
(* too, forever, unless the stale task is refetched" (useVolunteer): a member  *)
(* who keeps pressing gets through, without a reload or a focus.               *)
GetsThrough == \A m \in Versioned : want = m ~> want # m

(* "the reload is a genuine network fetch of the new deploy's shell"           *)
(* (VersionMismatchOverlay): an open page ends up on the server's build.       *)
EndsOnServersBuild == build # deployed ~> (build = deployed \/ page = "login")
=============================================================================
