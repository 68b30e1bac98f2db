---------------------------- MODULE TodoistOutbox ----------------------------
(* One member's Todoist account kept level with the chores the member owns:    *)
(* the reconciler that compares the two and queues outbox rows, the dispatcher *)
(* that sends them by HTTP with no transaction open, and the member who        *)
(* connects, disconnects and tests the account meanwhile.                      *)
(*                                                                             *)
(* A transaction, a query outside one, and an HTTP call are each one action of *)
(* the worker; anything may happen between two of them.  The clock is not a    *)
(* variable: a back-off, the cooldown and the 24 hours of the cap each end by  *)
(* an action of their own.  Of the rows of one enqueue key the newest is kept  *)
(* whole, and of the older ones what the three suppression reads see of them.  *)
(* A batch (20 rows) never fills here and the order within it is left open.    *)
(*                                                                             *)
(* A definition marked "wrong" is a bug the code could have had: no other      *)
(* definition uses it, and the properties are shown to notice it.              *)
EXTENDS Naturals, Sequences, FiniteSets, SequencesExt

CONSTANTS
    Chores,         \* the member's assignments
    MaxAttempts,    \* MAX_ATTEMPTS
    DeadCap,        \* DEAD_CAP
    Trouble         \* bound: failed or lost calls, crashes and disconnects

ASSUME OutboxAssumption ==
    MaxAttempts \in Nat \ {0} /\ DeadCap \in Nat \ {0} /\ Trouble \in Nat

Keys == {"CREATE_TASK", "CLOSE_TASK"} \X Chores     \* enqueueKeyFor
Op(k) == k[1]
Chore(k) == k[2]
Create(c) == <<"CREATE_TASK", c>>
Close(c) == <<"CLOSE_TASK", c>>

NoTask == 0
NoKey == <<>>
Tasks == 1 .. (Trouble + 3)             \* Todoist's ids, used again when gone

VARIABLES
    owned,      \* assignments ACTIVE and ASSIGNED whose trigger and household
                \* switch are on: what changes outside this subsystem
    active,     \* household_members.is_active
    conn,       \* member_integrations: status, and whether it holds a token
    row,        \* integration_outbox: the newest row of each key
    recent,     \* keys with a row settled within the cooldown
    dead,       \* per key its DEAD rows within the cap window, oldest first,
                \* each with the notifications its stamp stands for
    link,       \* integration_task_links: the task of the open link
    todo,       \* Todoist: the open tasks made for each assignment
    made,       \* Todoist: the task made for the newest CREATE row's uuid
    worker,     \* where the tick is, and what it has read
    flushed,    \* a disconnect is past its flush and before its transaction
    trouble,    \* what is left of the bound
    writtenOff, \* tasks of rows that ended DEAD or SKIPPED with a lost answer
    left        \* the member has disconnected at least once

account == <<owned, active, conn>>
external == <<todo, made>>
history == <<writtenOff, left>>
vars == <<owned, active, conn, row, recent, dead, link, todo, made, worker,
          flushed, trouble, writtenOff, left>>

LiveStatuses == {"PENDING", "FAILED"}
RowStatuses == LiveStatuses \cup {"SENT", "DEAD", "SKIPPED", "ORPHANED", "NONE"}
Answers == {"NONE", "CREATED", "ACCEPTED_WITHOUT_ID", "CLOSED", "TRANSIENT",
            "PERMANENT_AUTH", "PERMANENT_REQUEST"}

Row == [status : RowStatuses, attempts : 0 .. MaxAttempts, due : BOOLEAN,
        task : Tasks \cup {NoTask}]
Phases == {"idle", "links", "plan", "write", "claim", "next", "call", "settle"}
Tick == [pc : Phases, desired : SUBSET Chores, actual : [Chores -> Tasks \cup {NoTask}],
         items : SUBSET Keys, capped : SUBSET Keys, queue : SUBSET Keys,
         key : Keys \cup {NoKey}, answer : Answers]

NoRow == [status |-> "NONE", attempts |-> 0, due |-> FALSE, task |-> NoTask]
NoLinks == [c \in Chores |-> NoTask]
Idle == [pc |-> "idle", desired |-> {}, actual |-> NoLinks, items |-> {}, capped |-> {},
         queue |-> {}, key |-> NoKey, answer |-> "NONE"]

TypeOK ==
    /\ owned \subseteq Chores /\ active \in BOOLEAN
    /\ conn \in [status : {"NONE", "ACTIVE", "INVALID_CREDENTIALS", "DISABLED"},
                 token : BOOLEAN]
    /\ row \in [Keys -> Row]
    /\ recent \subseteq Keys
    /\ dead \in [Keys -> Seq(Nat)] /\ \A k \in Keys : Len(dead[k]) <= DeadCap
    /\ link \in [Chores -> Tasks \cup {NoTask}]
    /\ todo \in [Chores -> SUBSET Tasks] /\ made \in [Chores -> Tasks \cup {NoTask}]
    /\ worker \in Tick
    /\ flushed \in BOOLEAN /\ trouble \in 0 .. Trouble
    /\ writtenOff \in [Chores -> SUBSET Tasks] /\ left \in BOOLEAN

Init ==
    /\ owned = {} /\ active = TRUE
    /\ conn = [status |-> "NONE", token |-> FALSE]
    /\ row = [k \in Keys |-> NoRow] /\ recent = {} /\ dead = [k \in Keys |-> <<>>]
    /\ link = NoLinks
    /\ todo = [c \in Chores |-> {}] /\ made = [c \in Chores |-> NoTask]
    /\ worker = Idle /\ flushed = FALSE /\ trouble = Trouble
    /\ writtenOff = [c \in Chores |-> {}] /\ left = FALSE

Live(k) == row[k].status \in LiveStatuses
Shown(links) == {c \in Chores : links[c] # NoTask}
Open == Shown(link)
Usable == active /\ conn.status = "ACTIVE" /\ conn.token
SomethingGoesWrong == trouble > 0 /\ trouble' = trouble - 1

-----------------------------------------------------------------------------
(* The reconciler.                                                             *)

ReadDesired ==
    /\ worker.pc = "idle"
    /\ worker' = [worker EXCEPT !.pc = "links", !.desired = IF Usable THEN owned ELSE {}]
    /\ UNCHANGED <<account, row, recent, dead, link, external, flushed, trouble, history>>

ReadLinks ==
    /\ worker.pc = "links"
    /\ worker' = [worker EXCEPT !.actual = link,
                     !.pc = IF worker.desired \cup Open = {} THEN "claim" ELSE "plan"]
    /\ UNCHANGED <<account, row, recent, dead, link, external, flushed, trouble, history>>

(* desired \ actual is created, actual \ desired is closed.                    *)
Difference(desired, actual) ==
    {Create(c) : c \in desired \ actual} \cup {Close(c) : c \in actual \ desired}

(* decide: the order of the tests is the code's.                               *)
AbsorbedNever(k) == FALSE                                          \* wrong
Absorbed(k) == row[k].status = "ORPHANED"
Capped(k) == ~Absorbed(k) /\ ~Live(k) /\ Len(dead[k]) >= DeadCap
SuppressedByCorpse(k) ==                                           \* wrong
    Absorbed(k) \/ Live(k) \/ Capped(k) \/ k \in recent \/ row[k].status = "DEAD"
Suppressed(k) == Absorbed(k) \/ Live(k) \/ Capped(k) \/ k \in recent
Notified(k) == \E i \in DOMAIN dead[k] : dead[k][i] > 0

(* The three suppression reads, and the pure plan made of everything read.     *)
MakePlan ==
    /\ worker.pc = "plan"
    /\ LET wanted == Difference(worker.desired, Shown(worker.actual))
           items == {k \in wanted : ~Suppressed(k)}
           capped == {k \in wanted : Capped(k) /\ ~Notified(k)}
       IN  worker' = [worker EXCEPT !.items = items, !.capped = capped,
                          !.pc = IF items \cup capped = {} THEN "claim" ELSE "write"]
    /\ UNCHANGED <<account, row, recent, dead, link, external, flushed, trouble, history>>

(* createMany under the partial unique index of live keys, then the stamps.    *)
(* The newest row of a capped key is its last DEAD one: none follows the cap.  *)
NewRow(k) == [status |-> "PENDING", attempts |-> 0, due |-> TRUE,
              task |-> IF Op(k) = "CLOSE_TASK" THEN worker.actual[Chore(k)] ELSE NoTask]
KeyTakenByHistory(k) == row[k].status # "NONE"                     \* wrong
KeyTaken(k) == Live(k)
Stamp(s) == [s EXCEPT ![Len(s)] = @ + 1]

WritePlan ==
    /\ worker.pc = "write"
    /\ LET new == {k \in worker.items : ~KeyTaken(k)}
       IN  /\ row' = [k \in Keys |-> IF k \in new THEN NewRow(k) ELSE row[k]]
           /\ made' = [c \in Chores |-> IF Create(c) \in new THEN NoTask ELSE made[c]]
    /\ dead' = [k \in Keys |-> IF k \in worker.capped /\ dead[k] # <<>>
                               THEN Stamp(dead[k]) ELSE dead[k]]
    /\ worker' = [Idle EXCEPT !.pc = "claim"]
    /\ UNCHANGED <<account, recent, link, todo, flushed, trouble, history>>

-----------------------------------------------------------------------------
(* The dispatcher.  Its updates name a row by id and do not look at its        *)
(* status, so an outcome also lands on a row a disconnect has skipped.         *)

Claim ==
    /\ worker.pc = "claim"
    /\ LET claimed == {k \in Keys : Live(k) /\ row[k].due}
       IN  worker' = IF claimed = {} THEN Idle
                     ELSE [Idle EXCEPT !.pc = "next", !.queue = claimed]
    /\ UNCHANGED <<account, row, recent, dead, link, external, flushed, trouble, history>>

Done(k) == IF worker.queue = {k} THEN Idle
           ELSE [Idle EXCEPT !.pc = "next", !.queue = worker.queue \ {k}]

(* settle and retryLater.                                                      *)
Settle(k, s) ==
    /\ row' = [row EXCEPT ![k].status = s, ![k].due = FALSE]
    /\ recent' = recent \cup {k}
    /\ dead' = IF s = "DEAD" THEN [dead EXCEPT ![k] = Append(@, 0)] ELSE dead
    /\ writtenOff' =
         IF s \in {"DEAD", "SKIPPED"} /\ Op(k) = "CREATE_TASK" /\ made[Chore(k)] # NoTask
         THEN [writtenOff EXCEPT ![Chore(k)] = @ \cup {made[Chore(k)]}]
         ELSE writtenOff
    /\ UNCHANGED left

RetryLater(k) ==
    /\ row' = [row EXCEPT ![k].status = "FAILED", ![k].due = FALSE,
                          ![k].attempts = IF @ < MaxAttempts THEN @ + 1 ELSE @]
    /\ UNCHANGED <<recent, dead, history>>

(* The check before the call: member, integration and credential.              *)
SkipRow(k) ==
    /\ worker.pc = "next" /\ k \in worker.queue /\ ~Usable
    /\ Settle(k, "SKIPPED") /\ worker' = Done(k)
    /\ UNCHANGED <<account, link, external, flushed, trouble>>

KeyUnavailable(k) ==
    /\ worker.pc = "next" /\ k \in worker.queue /\ Usable /\ SomethingGoesWrong
    /\ RetryLater(k) /\ worker' = Done(k)
    /\ UNCHANGED <<account, link, external, flushed>>

TakeRow(k) ==
    /\ worker.pc = "next" /\ k \in worker.queue /\ Usable
    /\ worker' = [worker EXCEPT !.pc = "call", !.key = k]
    /\ UNCHANGED <<account, row, recent, dead, link, external, flushed, trouble, history>>

Answer(a) == worker' = [worker EXCEPT !.pc = "settle", !.answer = a]

(* item_add: Todoist runs a command uuid once and repeats the answer.          *)
InUse(c) == todo[c] \cup writtenOff[c] \cup {link[c], row[Close(c)].task}
MakeTask(c) ==
    \E t \in Tasks :
        /\ t \notin InUse(c) /\ 1 .. (t - 1) \subseteq InUse(c)
        /\ made' = [made EXCEPT ![c] = t]
        /\ todo' = [todo EXCEPT ![c] = @ \cup {t}]
RunOnce(c) ==
    \/ made[c] = NoTask /\ MakeTask(c)
    \/ made[c] # NoTask /\ UNCHANGED external

CreateAnswered ==
    /\ worker.pc = "call" /\ Op(worker.key) = "CREATE_TASK"
    /\ RunOnce(Chore(worker.key)) /\ Answer("CREATED")
    /\ UNCHANGED <<account, row, recent, dead, link, flushed, trouble, history>>

(* Accepted, and the answer names no task, or no usable answer arrives.        *)
CreateUnanswered(a) ==
    /\ worker.pc = "call" /\ Op(worker.key) = "CREATE_TASK"
    /\ RunOnce(Chore(worker.key)) /\ SomethingGoesWrong /\ Answer(a)
    /\ UNCHANGED <<account, row, recent, dead, link, flushed, history>>

(* item_close: done and already gone are the same.                             *)
RunClose ==
    LET c == Chore(worker.key)
    IN  todo' = [todo EXCEPT ![c] = @ \ {row[worker.key].task}]

CloseAnswered ==
    /\ worker.pc = "call" /\ Op(worker.key) = "CLOSE_TASK"
    /\ RunClose /\ Answer("CLOSED")
    /\ UNCHANGED <<account, row, recent, dead, link, made, flushed, trouble, history>>

CloseUnanswered ==
    /\ worker.pc = "call" /\ Op(worker.key) = "CLOSE_TASK"
    /\ RunClose /\ SomethingGoesWrong /\ Answer("TRANSIENT")
    /\ UNCHANGED <<account, row, recent, dead, link, made, flushed, history>>

(* The command was not run.                                                    *)
CallFails(a) ==
    /\ worker.pc = "call" /\ SomethingGoesWrong /\ Answer(a)
    /\ UNCHANGED <<account, row, recent, dead, link, external, flushed, history>>

-----------------------------------------------------------------------------
(* Tx B: what the answer does to row, link and integration.                    *)

Settling(a) == worker.pc = "settle" /\ worker.answer = a

RecordCreated ==
    LET k == worker.key
    IN  /\ Settling("CREATED")
        /\ Settle(k, "SENT")
        /\ link' = [link EXCEPT ![Chore(k)] = made[Chore(k)]]
        /\ worker' = Done(k)
        /\ UNCHANGED <<account, external, flushed, trouble>>

RecordOrphaned ==
    /\ Settling("ACCEPTED_WITHOUT_ID")
    /\ Settle(worker.key, "ORPHANED") /\ worker' = Done(worker.key)
    /\ UNCHANGED <<account, link, external, flushed, trouble>>

RecordClosed ==
    LET k == worker.key
    IN  /\ Settling("CLOSED")
        /\ Settle(k, "SENT")
        /\ link' = [link EXCEPT ![Chore(k)] = NoTask]
        /\ worker' = Done(k)
        /\ UNCHANGED <<account, external, flushed, trouble>>

RecordBadToken ==
    /\ Settling("PERMANENT_AUTH")
    /\ Settle(worker.key, "DEAD") /\ worker' = Done(worker.key)
    /\ conn' = [conn EXCEPT !.status = "INVALID_CREDENTIALS"]
    /\ UNCHANGED <<owned, active, link, external, flushed, trouble>>

RecordBadRequest ==
    /\ Settling("PERMANENT_REQUEST")
    /\ Settle(worker.key, "DEAD") /\ worker' = Done(worker.key)
    /\ UNCHANGED <<account, link, external, flushed, trouble>>

LastAttempt(k) == row[k].attempts + 1 >= MaxAttempts

RecordTransient ==
    LET k == worker.key
    IN  /\ Settling("TRANSIENT")
        /\ \/ LastAttempt(k) /\ Settle(k, "DEAD")
           \/ ~LastAttempt(k) /\ RetryLater(k)
        /\ worker' = Done(k)
        /\ UNCHANGED <<account, link, external, flushed, trouble>>

-----------------------------------------------------------------------------
(* The member, the household, and time.                                        *)

OwnershipChanges ==
    /\ owned' \in SUBSET Chores /\ owned' # owned
    /\ UNCHANGED <<active, conn, row, recent, dead, link, external, worker, flushed,
                   trouble, history>>

MemberToggled ==
    /\ active' = ~active
    /\ UNCHANGED <<owned, conn, row, recent, dead, link, external, worker, flushed,
                   trouble, history>>

Connect ==
    /\ conn' = [status |-> "ACTIVE", token |-> TRUE] /\ conn' # conn
    /\ UNCHANGED <<owned, active, row, recent, dead, link, external, worker, flushed,
                   trouble, history>>

(* disconnectTodoist, step 1: close what the links still reach, best effort.   *)
FlushLinks ==
    /\ conn.status # "NONE" /\ ~flushed /\ SomethingGoesWrong
    /\ \E reached \in SUBSET Open :
         /\ (conn.status # "ACTIVE" \/ ~conn.token) => reached = {}
         /\ todo' = [c \in Chores |-> IF c \in reached THEN todo[c] \ {link[c]} ELSE todo[c]]
    /\ flushed' = TRUE /\ left' = TRUE
    /\ UNCHANGED <<account, row, recent, dead, link, made, worker, writtenOff>>

(* Steps 2 and 3, one transaction: scrub, force-close, skip what is queued.    *)
Disconnect ==
    /\ flushed /\ flushed' = FALSE
    /\ conn' = [status |-> "DISABLED", token |-> FALSE]
    /\ link' = NoLinks
    /\ row' = [k \in Keys |-> IF Live(k) THEN [row[k] EXCEPT !.status = "SKIPPED", !.due = FALSE]
                              ELSE row[k]]
    /\ recent' = recent \cup {k \in Keys : Live(k)}
    /\ UNCHANGED <<owned, active, dead, external, worker, trouble, history>>

(* testTodoistConnection marks the row on Todoist's answer.  It read the row    *)
(* before it asked, so by now the account may be in any state but its first.   *)
TestFindsBadToken ==
    /\ conn.status # "NONE" /\ SomethingGoesWrong
    /\ conn' = [conn EXCEPT !.status = "INVALID_CREDENTIALS"]
    /\ UNCHANGED <<owned, active, row, recent, dead, link, external, worker, flushed, history>>

BackoffEnds(k) ==
    /\ row[k].status = "FAILED" /\ ~row[k].due
    /\ row' = [row EXCEPT ![k].due = TRUE]
    /\ UNCHANGED <<account, recent, dead, link, external, worker, flushed, trouble, history>>

CooldownEnds(k) ==
    /\ k \in recent /\ recent' = recent \ {k}
    /\ UNCHANGED <<account, row, dead, link, external, worker, flushed, trouble, history>>

DeadRowAges(k) ==
    /\ dead[k] # <<>> /\ (Len(dead[k]) > 1 \/ k \notin recent)
    /\ dead' = [dead EXCEPT ![k] = Tail(@)]
    /\ UNCHANGED <<account, row, recent, link, external, worker, flushed, trouble, history>>

(* The process stops and starts again; the rows are all it remembers.          *)
Crash ==
    /\ worker.pc # "idle" \/ flushed
    /\ SomethingGoesWrong
    /\ worker' = Idle /\ flushed' = FALSE
    /\ UNCHANGED <<owned, active, conn, row, recent, dead, link, external, history>>

-----------------------------------------------------------------------------
Work ==
    \/ ReadDesired \/ ReadLinks \/ MakePlan \/ WritePlan \/ Claim
    \/ \E k \in Keys : SkipRow(k) \/ KeyUnavailable(k) \/ TakeRow(k)
    \/ CreateAnswered \/ CloseAnswered \/ CloseUnanswered
    \/ \E a \in {"ACCEPTED_WITHOUT_ID", "TRANSIENT"} : CreateUnanswered(a)
    \/ \E a \in {"TRANSIENT", "PERMANENT_AUTH", "PERMANENT_REQUEST"} : CallFails(a)
    \/ RecordCreated \/ RecordOrphaned \/ RecordClosed
    \/ RecordBadToken \/ RecordBadRequest \/ RecordTransient

Member ==
    \/ OwnershipChanges \/ MemberToggled \/ Connect \/ FlushLinks \/ Disconnect
    \/ TestFindsBadToken

TimePasses == \E k \in Keys : BackoffEnds(k) \/ CooldownEnds(k) \/ DeadRowAges(k)

Next == Work \/ Member \/ TimePasses \/ Crash

Spec == Init /\ [][Next]_vars

(* setInterval keeps the worker going, and the clock runs.                     *)
FairSpec ==
    /\ Spec /\ WF_vars(Work)
    /\ \A k \in Keys : /\ WF_vars(BackoffEnds(k)) /\ WF_vars(CooldownEnds(k))
                       /\ WF_vars(DeadRowAges(k))

-----------------------------------------------------------------------------
(* Until the member first disconnects, at most one task of a chore is open in *)
(* Todoist besides those whose row ended DEAD or SKIPPED with a lost answer:  *)
(* crashes, retries and repeated commands do not make a second one.           *)
OneTaskPerChore ==
    ~left => \A c \in Chores : Cardinality(todo[c] \ writtenOff[c]) <= 1

(* Until then no open task is forgotten either: it is the open link's, or was *)
(* made for a row that will be sent again or is kept as ORPHANED, or its row  *)
(* was given up.                                                              *)
EveryTaskAccounted ==
    ~left => \A c \in Chores : \A t \in todo[c] :
        \/ t = link[c] \/ t \in writtenOff[c]
        \/ t = made[c] /\ (Live(Create(c)) \/ Absorbed(Create(c)))

(* What reconcile.ts promises: whatever went wrong, a chore that stays wanted *)
(* on a usable account comes to have its open link and keeps it, or its task  *)
(* exists and is ORPHANED.                                                    *)
WantedIsShown ==
    \A c \in Chores :
        <>[](Usable /\ c \in owned) => <>[](c \in Open \/ Absorbed(Create(c)))

(* And one that stays unwanted comes to have no open link.                    *)
UnwantedIsCleared ==
    \A c \in Chores : <>[](Usable /\ c \notin owned) => <>[](c \notin Open)

(* Nothing addresses Todoist without the token: a disconnected account has no *)
(* open link, since no CLOSE of it can ever be delivered.                     *)
OpenLinkIsDeliverable == Open # {} => conn.token
=============================================================================
