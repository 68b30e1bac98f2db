---------------------------- MODULE OutboxProofs ----------------------------
(* Proofs about the two outboxes of the worker: TodoistOutbox, for any number  *)
(* of chores, attempts and troubles, and PushOutbox, for any number of members, *)
(* browsers, passes and notifications.                                         *)
EXTENDS TodoistOutbox, PushOutbox, RunningTotals, FiniteSetTheorems, TLAPS

Sending == worker.pc \in {"call", "settle"}

(* What the phases of a tick promise of the rows they will touch: a planned or *)
(* claimed key has room for one more DEAD row.                                 *)
RoomForDead ==
    \A k \in Keys : Live(k) \/ k \in worker.items \/ k \in worker.queue
        => Len(dead[k]) < DeadCap
KeyIsClaimed == Sending => worker.key \in worker.queue
TypeInv == TypeOK /\ RoomForDead /\ KeyIsClaimed

-----------------------------------------------------------------------------
LEMMA KeysOfChores ==
    /\ \A c \in Chores : Create(c) \in Keys /\ Close(c) \in Keys
    /\ \A c, d : Create(c) # Close(d)
    /\ \A c, d : Create(c) = Create(d) \/ Close(c) = Close(d) => c = d
    /\ \A c : Op(Create(c)) = "CREATE_TASK" /\ Op(Close(c)) = "CLOSE_TASK"
    /\ \A c : Chore(Create(c)) = c /\ Chore(Close(c)) = c
    /\ \A k \in Keys : Chore(k) \in Chores /\ k \in {Create(Chore(k)), Close(Chore(k))}
BY DEF Keys, Create, Close, Op, Chore

LEMMA NoLinksTyped == NoLinks \in [Chores -> Tasks \cup {NoTask}]
BY DEF NoLinks

LEMMA DoneTyped ==
    ASSUME TypeOK, NEW k
    PROVE  /\ Done(k) \in Tick
           /\ Done(k).queue \subseteq worker.queue \ {k}
           /\ Done(k).items = {} /\ Done(k).pc \in {"idle", "next"}
BY NoLinksTyped DEF TypeOK, Done, Idle, Tick, Phases, Answers

LEMMA SettleTyped ==
    ASSUME TypeInv, NEW k \in worker.queue, NEW s \in RowStatuses \ LiveStatuses,
           Settle(k, s)
    PROVE  /\ row' \in [Keys -> Row] /\ recent' \subseteq Keys
           /\ dead' \in [Keys -> Seq(Nat)] /\ \A j \in Keys : Len(dead'[j]) <= DeadCap
           /\ writtenOff' \in [Chores -> SUBSET Tasks] /\ left' \in BOOLEAN
           /\ ~Live(k)' /\ row'[k].status = s
           /\ \A j \in Keys \ {k} : row'[j] = row[j] /\ dead'[j] = dead[j]
<1>1. k \in Keys /\ Len(dead[k]) < DeadCap
  BY DEF TypeInv, TypeOK, RoomForDead, Tick
<1>2. /\ row' \in [Keys -> Row] /\ row'[k].status = s
      /\ \A j \in Keys \ {k} : row'[j] = row[j]
  <2>1. row[k] \in Row /\ row \in [Keys -> Row]
    BY <1>1 DEF TypeInv, TypeOK
  <2>2. row' = [row EXCEPT ![k] = [row[k] EXCEPT !.status = s, !.due = FALSE]]
    BY <1>1, <2>1 DEF Settle
  <2>3. /\ [row[k] EXCEPT !.status = s, !.due = FALSE] \in Row
        /\ [row[k] EXCEPT !.status = s, !.due = FALSE].status = s
    BY <2>1 DEF Row
  <2> QED
    BY <1>1, <2>1, <2>2, <2>3
<1>3. ~Live(k)'
  BY <1>2 DEF Live
<1>4. /\ dead' \in [Keys -> Seq(Nat)] /\ \A j \in Keys : Len(dead'[j]) <= DeadCap
      /\ \A j \in Keys \ {k} : dead'[j] = dead[j]
  <2>1. CASE s = "DEAD"
    <3>1. dead' = [dead EXCEPT ![k] = Append(dead[k], 0)]
      BY <2>1, <1>1 DEF TypeInv, TypeOK, Settle
    <3>2. dead[k] \in Seq(Nat)
      BY <1>1 DEF TypeInv, TypeOK
    <3>3. Append(dead[k], 0) \in Seq(Nat) /\ Len(Append(dead[k], 0)) = Len(dead[k]) + 1
      BY <3>2
    <3>4. Len(dead[k]) + 1 <= DeadCap
      BY <1>1, <3>2, OutboxAssumption DEF OutboxAssumption
    <3> QED
      BY <3>1, <3>3, <3>4, <1>1 DEF TypeInv, TypeOK
  <2>2. CASE s # "DEAD"
    BY <2>2 DEF TypeInv, TypeOK, Settle
  <2> QED
    BY <2>1, <2>2
<1>5. recent' \subseteq Keys /\ left' \in BOOLEAN
  BY <1>1 DEF TypeInv, TypeOK, Settle
<1>6. writtenOff' \in [Chores -> SUBSET Tasks]
  <2>1. Chore(k) \in Chores
    BY <1>1, KeysOfChores
  <2>2. CASE writtenOff' = writtenOff
    BY <2>2 DEF TypeInv, TypeOK
  <2>3. CASE /\ made[Chore(k)] # NoTask
             /\ writtenOff' = [writtenOff EXCEPT ![Chore(k)] = @ \cup {made[Chore(k)]}]
    <3>1. made[Chore(k)] \in Tasks
      BY <2>1, <2>3 DEF TypeInv, TypeOK
    <3> QED
      BY <2>1, <2>3, <3>1 DEF TypeInv, TypeOK
  <2> QED
    BY <2>2, <2>3 DEF Settle
<1> QED
  BY <1>2, <1>3, <1>4, <1>5, <1>6

LEMMA RetryTyped ==
    ASSUME TypeOK, NEW k \in Keys, RetryLater(k)
    PROVE  /\ row' \in [Keys -> Row] /\ row'[k].status = "FAILED"
           /\ row'[k].task = row[k].task
           /\ \A j \in Keys \ {k} : row'[j] = row[j]
<1>1. row[k] \in Row /\ MaxAttempts \in Nat
  BY OutboxAssumption DEF TypeOK, OutboxAssumption
<1>2. (IF row[k].attempts < MaxAttempts THEN row[k].attempts + 1 ELSE row[k].attempts)
        \in 0 .. MaxAttempts
  BY <1>1 DEF Row
<1> QED
  BY <1>1, <1>2 DEF TypeOK, RetryLater, Row, RowStatuses, LiveStatuses

-----------------------------------------------------------------------------
LEMMA TypeInit == Init => TypeInv
<1> SUFFICES ASSUME Init PROVE TypeInv
  OBVIOUS
<1>1. Idle \in Tick
  BY NoLinksTyped DEF Idle, Tick, Phases, Answers
<1>2. NoRow \in Row
  <2>1. 0 \in 0 .. MaxAttempts
    BY OutboxAssumption DEF OutboxAssumption
  <2> QED
    BY <2>1 DEF NoRow, Row, RowStatuses, LiveStatuses, NoTask
<1>3. dead \in [Keys -> Seq(Nat)] /\ \A k \in Keys : Len(dead[k]) <= DeadCap
  BY OutboxAssumption DEF Init, OutboxAssumption
<1>4. trouble \in 0 .. Trouble
  BY OutboxAssumption DEF Init, OutboxAssumption
<1>5. row \in [Keys -> Row]
  BY <1>2 DEF Init
<1>6. worker \in Tick
  BY <1>1 DEF Init
<1>7. TypeOK
  BY <1>3, <1>4, <1>5, <1>6, NoLinksTyped DEF Init, TypeOK
<1>8. RoomForDead /\ KeyIsClaimed
  BY OutboxAssumption
  DEF Init, RoomForDead, KeyIsClaimed, Sending, Idle, Live, NoRow, LiveStatuses,
      OutboxAssumption
<1> QED
  BY <1>7, <1>8 DEF TypeInv

(* The steps of the reconciler.                                                *)
LEMMA ReconcileTyped ==
    ASSUME TypeInv, ReadDesired \/ ReadLinks \/ MakePlan \/ WritePlan \/ Claim
    PROVE  TypeInv'
<1>0. ASSUME UNCHANGED <<account, row, recent, dead, link, external, flushed, trouble, history>>,
             worker' \in Tick, worker'.pc \notin {"call", "settle"},
             worker'.items = worker.items, worker'.queue = worker.queue
      PROVE  TypeInv'
  BY <1>0 DEF TypeInv, TypeOK, RoomForDead, KeyIsClaimed, Sending, account, external, history,
              Live
<1>1. CASE ReadDesired
  <2>1. owned \subseteq Chores /\ worker \in Tick
    BY DEF TypeInv, TypeOK
  <2>2. (IF Usable THEN owned ELSE {}) \in SUBSET Chores
    BY <2>1
  <2>3. /\ worker' \in Tick /\ worker'.pc = "links"
        /\ worker'.items = worker.items /\ worker'.queue = worker.queue
    BY <1>1, <2>1, <2>2 DEF ReadDesired, Tick, Phases
  <2> QED
    BY <1>0, <1>1, <2>3 DEF ReadDesired
<1>2. CASE ReadLinks
  <2>1. link \in [Chores -> Tasks \cup {NoTask}] /\ worker \in Tick
    BY DEF TypeInv, TypeOK
  <2>2. /\ worker' \in Tick /\ worker'.pc \in {"claim", "plan"}
        /\ worker'.items = worker.items /\ worker'.queue = worker.queue
    BY <1>2, <2>1 DEF ReadLinks, Tick, Phases
  <2> QED
    BY <1>0, <1>2, <2>2 DEF ReadLinks
<1>3. CASE MakePlan
  <2> DEFINE wanted == Difference(worker.desired, Shown(worker.actual))
             items == {k \in wanted : ~Suppressed(k)}
             capped == {k \in wanted : Capped(k) /\ ~Notified(k)}
  <2>1. wanted \subseteq Keys
    BY KeysOfChores DEF Difference, Shown, TypeInv, TypeOK, Tick
  <2>2. \A k \in items : Len(dead[k]) < DeadCap
    <3>1. \A k \in items : ~(Len(dead[k]) >= DeadCap)
      BY DEF Suppressed, Capped
    <3>2. \A k \in items : Len(dead[k]) \in Nat
      BY <2>1 DEF TypeInv, TypeOK
    <3> QED
      BY <3>1, <3>2, OutboxAssumption DEF OutboxAssumption
  <2>3. worker' = [worker EXCEPT !.items = items, !.capped = capped,
                      !.pc = IF items \cup capped = {} THEN "claim" ELSE "write"]
    BY <1>3 DEF MakePlan
  <2> HIDE DEF items, capped, wanted
  <2>4. items \subseteq Keys /\ capped \subseteq Keys
    BY <2>1 DEF items, capped
  <2>5. worker' \in Tick /\ worker'.items = items /\ worker'.queue = worker.queue /\ ~Sending'
    BY <2>3, <2>4 DEF TypeInv, TypeOK, Tick, Phases, Sending
  <2>6. UNCHANGED <<owned, active, conn, row, recent, dead, link, todo, made, flushed,
                    trouble, writtenOff, left>>
    BY <1>3 DEF MakePlan, account, external, history
  <2>7. TypeOK'
    BY <2>5, <2>6 DEF TypeInv, TypeOK
  <2> QED
    BY <2>2, <2>5, <2>6, <2>7 DEF TypeInv, RoomForDead, KeyIsClaimed, Live
<1>4. CASE WritePlan
  <2> DEFINE new == {k \in worker.items : ~KeyTaken(k)}
  <2>1. \A k \in new : k \in Keys /\ NewRow(k) \in Row
    <3>1. \A k \in worker.items : k \in Keys /\ worker.actual[Chore(k)] \in Tasks \cup {NoTask}
      BY KeysOfChores DEF TypeInv, TypeOK, Tick
    <3>2. 0 \in 0 .. MaxAttempts
      BY OutboxAssumption DEF OutboxAssumption
    <3> QED
      BY <3>1, <3>2 DEF NewRow, Row, RowStatuses, LiveStatuses, NoTask
  <2>2. row' = [k \in Keys |-> IF k \in new THEN NewRow(k) ELSE row[k]]
    BY <1>4 DEF WritePlan
  <2>3. /\ worker' = [Idle EXCEPT !.pc = "claim"]
        /\ dead' = [k \in Keys |-> IF k \in worker.capped /\ dead[k] # <<>>
                                   THEN Stamp(dead[k]) ELSE dead[k]]
        /\ made' = [c \in Chores |-> IF Create(c) \in new THEN NoTask ELSE made[c]]
        /\ UNCHANGED <<owned, active, conn, recent, link, todo, flushed, trouble,
                       writtenOff, left>>
    BY <1>4 DEF WritePlan, account, history
  <2> HIDE DEF new
  <2>4. row' \in [Keys -> Row] /\ \A k \in Keys : Live(k)' => Live(k) \/ k \in worker.items
    BY <2>1, <2>2 DEF TypeInv, TypeOK, Live, new
  <2>5. /\ dead' \in [Keys -> Seq(Nat)]
        /\ \A k \in Keys : Len(dead'[k]) = Len(dead[k])
    <3>1. ASSUME NEW q \in Seq(Nat), q # <<>>
          PROVE  Stamp(q) \in Seq(Nat) /\ Len(Stamp(q)) = Len(q)
      BY <3>1 DEF Stamp
    <3>2. dead \in [Keys -> Seq(Nat)]
      BY DEF TypeInv, TypeOK
    <3>3. ASSUME NEW k \in Keys
          PROVE  dead'[k] \in Seq(Nat) /\ Len(dead'[k]) = Len(dead[k])
      BY <2>3, <3>1, <3>2
    <3> QED
      BY <2>3, <3>3
  <2>6. worker' \in Tick /\ worker'.items = {} /\ worker'.queue = {} /\ ~Sending'
    BY <2>3, NoLinksTyped DEF Idle, Tick, Phases, Answers, Sending
  <2>7. made' \in [Chores -> Tasks \cup {NoTask}]
    BY <2>3 DEF TypeInv, TypeOK
  <2>8. TypeOK'
    BY <2>3, <2>4, <2>5, <2>6, <2>7 DEF TypeInv, TypeOK
  <2> QED
    BY <2>4, <2>5, <2>6, <2>8 DEF TypeInv, RoomForDead, KeyIsClaimed
<1>5. CASE Claim
  <2> DEFINE claimed == {k \in Keys : Live(k) /\ row[k].due}
  <2>1. /\ worker' \in Tick /\ ~Sending' /\ worker'.items = {}
        /\ worker'.queue \subseteq {k \in Keys : Live(k)}
    BY <1>5, NoLinksTyped DEF Claim, Idle, Tick, Phases, Answers, Sending
  <2>2. UNCHANGED <<owned, active, conn, row, recent, dead, link, todo, made, flushed,
                    trouble, writtenOff, left>>
    BY <1>5 DEF Claim, account, external, history
  <2> QED
    BY <2>1, <2>2 DEF TypeInv, TypeOK, RoomForDead, KeyIsClaimed, Live
<1> QED
  BY <1>1, <1>2, <1>3, <1>4, <1>5

(* A step of the dispatcher that leaves the rows alone, or ends one of them.   *)
LEMMA CallTyped ==
    ASSUME TypeInv,
           \/ \E k \in Keys : TakeRow(k)
           \/ CreateAnswered \/ CloseAnswered \/ CloseUnanswered
           \/ \E a \in {"ACCEPTED_WITHOUT_ID", "TRANSIENT"} : CreateUnanswered(a)
           \/ \E a \in {"TRANSIENT", "PERMANENT_AUTH", "PERMANENT_REQUEST"} : CallFails(a)
    PROVE  TypeInv'
<1>1. CASE \E k \in Keys : TakeRow(k)
  BY <1>1 DEF TypeInv, TypeOK, RoomForDead, KeyIsClaimed, Sending, TakeRow, Tick, Phases,
              account, external, history, Live
<1>2. CASE ~\E k \in Keys : TakeRow(k)
  <2>1. PICK a \in Answers : Answer(a)
    BY <1>2 DEF CreateAnswered, CloseAnswered, CloseUnanswered, CreateUnanswered, CallFails,
                Answers
  <2>2. /\ worker.pc = "call"
        /\ UNCHANGED <<owned, active, conn, row, recent, dead, link, flushed, writtenOff, left>>
    BY <1>2 DEF CreateAnswered, CloseAnswered, CloseUnanswered, CreateUnanswered, CallFails,
                account, history
  <2>3. trouble' \in 0 .. Trouble
    BY <1>2, OutboxAssumption
    DEF CreateAnswered, CloseAnswered, CloseUnanswered, CreateUnanswered, CallFails,
        SomethingGoesWrong, TypeInv, TypeOK, OutboxAssumption
  <2>4. Chore(worker.key) \in Chores
    BY <2>2, KeysOfChores DEF TypeInv, TypeOK, KeyIsClaimed, Sending, Tick
  <2>5. todo' \in [Chores -> SUBSET Tasks] /\ made' \in [Chores -> Tasks \cup {NoTask}]
    <3>1. CASE RunOnce(Chore(worker.key))
      <4>1. CASE MakeTask(Chore(worker.key))
        BY <2>4, <4>1 DEF MakeTask, TypeInv, TypeOK
      <4>2. CASE UNCHANGED external
        BY <4>2 DEF external, TypeInv, TypeOK
      <4> QED
        BY <3>1, <4>1, <4>2 DEF RunOnce
    <3>2. CASE RunClose /\ UNCHANGED made
      BY <2>4, <3>2 DEF RunClose, TypeInv, TypeOK
    <3>3. CASE UNCHANGED external
      BY <3>3 DEF external, TypeInv, TypeOK
    <3> QED
      BY <1>2, <3>1, <3>2, <3>3
      DEF CreateAnswered, CloseAnswered, CloseUnanswered, CreateUnanswered, CallFails
  <2>6. /\ worker' \in Tick /\ worker'.items = worker.items /\ worker'.queue = worker.queue
        /\ worker'.key = worker.key
    BY <2>1 DEF Answer, TypeInv, TypeOK, Tick, Phases
  <2>7. TypeOK'
    BY <2>2, <2>3, <2>5, <2>6 DEF TypeInv, TypeOK
  <2> QED
    BY <2>2, <2>6, <2>7 DEF TypeInv, RoomForDead, KeyIsClaimed, Sending, Live
<1> QED
  BY <1>1, <1>2

(* A step that ends the row in hand: settled, or to be sent again.             *)
LEMMA OutcomeTyped ==
    ASSUME TypeInv, NEW k \in worker.queue, worker' = Done(k),
           \/ \E s \in RowStatuses \ LiveStatuses : Settle(k, s)
           \/ RetryLater(k),
           owned' \subseteq Chores, active' \in BOOLEAN,
           conn' \in [status : {"NONE", "ACTIVE", "INVALID_CREDENTIALS", "DISABLED"},
                      token : BOOLEAN],
           link' \in [Chores -> Tasks \cup {NoTask}], UNCHANGED <<external, flushed>>,
           trouble' \in 0 .. Trouble
    PROVE  TypeInv'
<1>1. /\ worker' \in Tick /\ worker'.queue \subseteq worker.queue \ {k}
      /\ worker'.items = {} /\ ~Sending'
  BY DoneTyped DEF TypeInv, Sending
<1>2. k \in Keys
  BY DEF TypeInv, TypeOK, Tick
<1>3. CASE RetryLater(k)
  <2>1. /\ row' \in [Keys -> Row]
        /\ \A j \in Keys \ {k} : row'[j] = row[j]
    BY <1>2, <1>3, RetryTyped DEF TypeInv
  <2>2. UNCHANGED <<recent, dead, writtenOff, left>>
    BY <1>3 DEF RetryLater, history
  <2>3. TypeOK'
    BY <1>1, <2>1, <2>2 DEF TypeInv, TypeOK, external
  <2> QED
    BY <1>1, <2>1, <2>2, <2>3 DEF TypeInv, RoomForDead, KeyIsClaimed, Live
<1>4. CASE \E s \in RowStatuses \ LiveStatuses : Settle(k, s)
  <2>1. PICK s \in RowStatuses \ LiveStatuses : Settle(k, s)
    BY <1>4
  <2>2. /\ row' \in [Keys -> Row] /\ recent' \subseteq Keys
        /\ dead' \in [Keys -> Seq(Nat)] /\ \A j \in Keys : Len(dead'[j]) <= DeadCap
        /\ writtenOff' \in [Chores -> SUBSET Tasks] /\ left' \in BOOLEAN
        /\ ~Live(k)'
        /\ \A j \in Keys \ {k} : row'[j] = row[j] /\ dead'[j] = dead[j]
    BY <2>1, SettleTyped
  <2>3. TypeOK'
    BY <1>1, <2>2 DEF TypeInv, TypeOK, external
  <2> QED
    BY <1>1, <2>2, <2>3 DEF TypeInv, RoomForDead, KeyIsClaimed, Live
<1> QED
  BY <1>3, <1>4

RowOutcome ==
    \/ \E k \in Keys : SkipRow(k) \/ KeyUnavailable(k)
    \/ RecordCreated \/ RecordOrphaned \/ RecordClosed
    \/ RecordBadToken \/ RecordBadRequest \/ RecordTransient

(* Every one of these ends a claimed row and leaves what Todoist has.          *)
LEMMA OutcomeEnds ==
    ASSUME TypeInv, RowOutcome
    PROVE  /\ \E k \in worker.queue :
                /\ worker' = Done(k)
                /\ \/ \E s \in RowStatuses \ LiveStatuses : Settle(k, s)
                   \/ RetryLater(k)
           /\ UNCHANGED <<owned, active, external, flushed>>
           /\ trouble' \in 0 .. Trouble
           /\ link' \in [Chores -> Tasks \cup {NoTask}]
           /\ conn' \in [status : {"NONE", "ACTIVE", "INVALID_CREDENTIALS", "DISABLED"},
                         token : BOOLEAN]
<1> DEFINE Ends(k) == /\ worker' = Done(k)
                      /\ \/ \E s \in RowStatuses \ LiveStatuses : Settle(k, s)
                         \/ RetryLater(k)
<1>0. {"SENT", "DEAD", "SKIPPED", "ORPHANED"} \subseteq RowStatuses \ LiveStatuses
  BY DEF RowStatuses, LiveStatuses
<1>1. worker.pc = "settle" => worker.key \in worker.queue
  BY DEF TypeInv, KeyIsClaimed, Sending
<1>2. ASSUME NEW k \in Keys, SkipRow(k)
      PROVE  k \in worker.queue /\ Ends(k) /\ UNCHANGED <<account, link, external, flushed, trouble>>
  BY <1>0, <1>2 DEF SkipRow
<1>3. ASSUME NEW k \in Keys, KeyUnavailable(k)
      PROVE  k \in worker.queue /\ Ends(k) /\ UNCHANGED <<account, link, external, flushed>>
  BY <1>3 DEF KeyUnavailable
<1>4. ASSUME RecordCreated \/ RecordClosed
      PROVE  /\ worker.key \in worker.queue /\ Ends(worker.key)
             /\ UNCHANGED <<account, external, flushed, trouble>>
  BY <1>0, <1>1, <1>4 DEF RecordCreated, RecordClosed, Settling
<1>5. ASSUME RecordOrphaned \/ RecordBadRequest \/ RecordTransient
      PROVE  /\ worker.key \in worker.queue /\ Ends(worker.key)
             /\ UNCHANGED <<account, link, external, flushed, trouble>>
  BY <1>0, <1>1, <1>5 DEF RecordOrphaned, RecordBadRequest, RecordTransient, Settling
<1>6. ASSUME RecordBadToken
      PROVE  /\ worker.key \in worker.queue /\ Ends(worker.key)
             /\ UNCHANGED <<owned, active, link, external, flushed, trouble>>
  BY <1>0, <1>1, <1>6 DEF RecordBadToken, Settling
<1>7. (\E k \in worker.queue : Ends(k)) /\ UNCHANGED <<owned, active, external, flushed>>
  <2> HIDE DEF Ends
  <2> QED
    BY <1>2, <1>3, <1>4, <1>5, <1>6 DEF RowOutcome, account
<1>8. trouble' \in 0 .. Trouble
  <2>1. ASSUME NEW k \in Keys, KeyUnavailable(k) PROVE trouble' \in 0 .. Trouble
    BY <2>1, OutboxAssumption DEF KeyUnavailable, SomethingGoesWrong, TypeInv, TypeOK,
                                  OutboxAssumption
  <2> HIDE DEF Ends
  <2> QED
    BY <1>2, <1>4, <1>5, <1>6, <2>1 DEF RowOutcome, TypeInv, TypeOK
<1>9. link' \in [Chores -> Tasks \cup {NoTask}]
  <2>1. CASE RecordCreated
    <3>1. Chore(worker.key) \in Chores
      BY <1>1, <2>1, KeysOfChores DEF RecordCreated, Settling, TypeInv, TypeOK, Tick
    <3> QED
      BY <2>1, <3>1 DEF RecordCreated, TypeInv, TypeOK
  <2>2. CASE RecordClosed
    BY <2>2 DEF RecordClosed, TypeInv, TypeOK
  <2> HIDE DEF Ends
  <2> QED
    BY <1>2, <1>3, <1>5, <1>6, <2>1, <2>2 DEF RowOutcome, TypeInv, TypeOK
<1>10. conn' \in [status : {"NONE", "ACTIVE", "INVALID_CREDENTIALS", "DISABLED"},
                  token : BOOLEAN]
  <2>1. CASE RecordBadToken
    BY <2>1 DEF RecordBadToken, TypeInv, TypeOK
  <2> HIDE DEF Ends
  <2> QED
    BY <1>2, <1>3, <1>4, <1>5, <2>1 DEF RowOutcome, TypeInv, TypeOK, account
<1> HIDE DEF Ends
<1>11. \E k \in worker.queue : Ends(k)
  BY <1>7
<1> QED
  BY <1>7, <1>8, <1>9, <1>10, <1>11 DEF Ends

LEMMA RowOutcomeTyped == ASSUME TypeInv, RowOutcome PROVE TypeInv'
<1>1. PICK k \in worker.queue :
        /\ worker' = Done(k)
        /\ \/ \E s \in RowStatuses \ LiveStatuses : Settle(k, s)
           \/ RetryLater(k)
  BY OutcomeEnds
<1>2. owned' \subseteq Chores /\ active' \in BOOLEAN
  BY OutcomeEnds DEF TypeInv, TypeOK
<1> QED
  BY <1>1, <1>2, OutcomeEnds, OutcomeTyped

(* The member, the passing of time, and a crash.                               *)
LEMMA MemberTyped == ASSUME TypeInv, Member PROVE TypeInv'
<1>1. CASE OwnershipChanges \/ MemberToggled \/ Connect
  <2>1. UNCHANGED <<row, recent, dead, link, external, worker, flushed, trouble, history>>
    BY <1>1 DEF OwnershipChanges, MemberToggled, Connect
  <2>2. owned' \subseteq Chores
    BY <1>1 DEF OwnershipChanges, MemberToggled, Connect, TypeInv, TypeOK
  <2>3. active' \in BOOLEAN
    <3>1. CASE MemberToggled
      BY <3>1, Zenon DEF MemberToggled
    <3> QED
      BY <1>1, <3>1, Zenon DEF OwnershipChanges, Connect, TypeInv, TypeOK
  <2>4. conn' \in [status : {"NONE", "ACTIVE", "INVALID_CREDENTIALS", "DISABLED"},
                   token : BOOLEAN]
    <3>1. CASE Connect
      BY <3>1 DEF Connect
    <3> QED
      BY <1>1, <3>1, Zenon DEF OwnershipChanges, MemberToggled, TypeInv, TypeOK
  <2> QED
    BY <2>1, <2>2, <2>3, <2>4
       DEF TypeInv, TypeOK, RoomForDead, KeyIsClaimed, Sending, Live, external, history
<1>2. CASE FlushLinks
  <2>1. /\ UNCHANGED <<owned, active, conn, row, recent, dead, link, made, worker, writtenOff>>
        /\ flushed' \in BOOLEAN /\ left' \in BOOLEAN
    BY <1>2 DEF FlushLinks, account
  <2>2. trouble' \in 0 .. Trouble
    BY <1>2, OutboxAssumption DEF FlushLinks, SomethingGoesWrong, TypeInv, TypeOK,
                                  OutboxAssumption
  <2>3. todo' \in [Chores -> SUBSET Tasks]
    BY <1>2 DEF FlushLinks, TypeInv, TypeOK
  <2> QED
    BY <2>1, <2>2, <2>3 DEF TypeInv, TypeOK, RoomForDead, KeyIsClaimed, Sending, Live
<1>3. CASE Disconnect
  <2>1. /\ UNCHANGED <<owned, active, dead, todo, made, worker, trouble, writtenOff, left>>
        /\ flushed' \in BOOLEAN
        /\ conn' \in [status : {"NONE", "ACTIVE", "INVALID_CREDENTIALS", "DISABLED"},
                      token : BOOLEAN]
        /\ link' \in [Chores -> Tasks \cup {NoTask}]
        /\ recent' \subseteq Keys
    BY <1>3, NoLinksTyped DEF Disconnect, external, history, TypeInv, TypeOK
  <2>2. /\ row' \in [Keys -> Row]
        /\ \A k \in Keys : ~Live(k)'
    <3>1. \A r \in Row : /\ [r EXCEPT !.status = "SKIPPED", !.due = FALSE] \in Row
                         /\ [r EXCEPT !.status = "SKIPPED", !.due = FALSE].status = "SKIPPED"
      BY DEF Row, RowStatuses
    <3>2. row' = [k \in Keys |-> IF Live(k)
                                 THEN [row[k] EXCEPT !.status = "SKIPPED", !.due = FALSE]
                                 ELSE row[k]]
      BY <1>3 DEF Disconnect
    <3>3. ASSUME NEW k \in Keys PROVE row'[k] \in Row /\ row'[k].status \notin LiveStatuses
      <4>1. row[k] \in Row
        BY DEF TypeInv, TypeOK
      <4>2. CASE Live(k)
        BY <3>1, <3>2, <4>1, <4>2 DEF LiveStatuses
      <4>3. CASE ~Live(k)
        BY <3>2, <4>1, <4>3 DEF Live
      <4> QED
        BY <4>2, <4>3
    <3> QED
      BY <3>2, <3>3 DEF Live
  <2>3. TypeOK'
    BY <2>1, <2>2 DEF TypeInv, TypeOK
  <2> QED
    BY <2>1, <2>2, <2>3 DEF TypeInv, RoomForDead, KeyIsClaimed, Sending
<1>4. CASE TestFindsBadToken
  <2>1. UNCHANGED <<owned, active, row, recent, dead, link, external, worker, flushed, history>>
    BY <1>4 DEF TestFindsBadToken
  <2>2. trouble' \in 0 .. Trouble
    BY <1>4, OutboxAssumption DEF TestFindsBadToken, SomethingGoesWrong, TypeInv, TypeOK,
                                  OutboxAssumption
  <2>3. conn' \in [status : {"NONE", "ACTIVE", "INVALID_CREDENTIALS", "DISABLED"},
                   token : BOOLEAN]
    BY <1>4 DEF TestFindsBadToken, TypeInv, TypeOK
  <2> QED
    BY <2>1, <2>2, <2>3 DEF TypeInv, TypeOK, RoomForDead, KeyIsClaimed, Sending, Live, external, history
<1> QED
  BY <1>1, <1>2, <1>3, <1>4 DEF Member

LEMMA TimeTyped == ASSUME TypeInv, TimePasses PROVE TypeInv'
<1>1. ASSUME NEW k \in Keys, BackoffEnds(k) PROVE TypeInv'
  <2>1. row[k] \in Row /\ row \in [Keys -> Row]
    BY DEF TypeInv, TypeOK
  <2>2. row' = [row EXCEPT ![k] = [row[k] EXCEPT !.due = TRUE]]
    BY <1>1, <2>1 DEF BackoffEnds
  <2>3. /\ [row[k] EXCEPT !.due = TRUE] \in Row
        /\ [row[k] EXCEPT !.due = TRUE].status = row[k].status
    BY <2>1 DEF Row
  <2>4. row' \in [Keys -> Row] /\ \A j \in Keys : row'[j].status = row[j].status
    BY <2>1, <2>2, <2>3
  <2>5. UNCHANGED <<account, recent, dead, link, external, worker, flushed, trouble, history>>
    BY <1>1 DEF BackoffEnds
  <2> QED
    BY <2>4, <2>5 DEF TypeInv, TypeOK, RoomForDead, KeyIsClaimed, Sending, Live, account,
                      external, history
<1>2. ASSUME NEW k \in Keys, CooldownEnds(k) PROVE TypeInv'
  <2>1. /\ recent' \subseteq Keys
        /\ UNCHANGED <<account, row, dead, link, external, worker, flushed, trouble, history>>
    BY <1>2 DEF CooldownEnds, TypeInv, TypeOK
  <2> QED
    BY <2>1 DEF TypeInv, TypeOK, RoomForDead, KeyIsClaimed, Sending, Live, account, external,
                history
<1>3. ASSUME NEW k \in Keys, DeadRowAges(k) PROVE TypeInv'
  <2>1. dead \in [Keys -> Seq(Nat)] /\ dead[k] \in Seq(Nat) /\ dead[k] # <<>>
    BY <1>3 DEF DeadRowAges, TypeInv, TypeOK
  <2>2. Tail(dead[k]) \in Seq(Nat) /\ Len(Tail(dead[k])) = Len(dead[k]) - 1
        /\ Len(dead[k]) \in Nat
    BY <2>1
  <2>3. dead' = [dead EXCEPT ![k] = Tail(dead[k])]
    BY <1>3, <2>1 DEF DeadRowAges
  <2>4. /\ dead' \in [Keys -> Seq(Nat)]
        /\ \A j \in Keys : Len(dead'[j]) <= Len(dead[j]) /\ Len(dead'[j]) \in Nat
                           /\ Len(dead[j]) \in Nat
    BY <2>1, <2>2, <2>3
  <2>5. UNCHANGED <<account, row, recent, link, external, worker, flushed, trouble, history>>
    BY <1>3 DEF DeadRowAges
  <2>6. (\A j \in Keys : Len(dead'[j]) <= DeadCap) /\ RoomForDead'
    BY <2>4, <2>5, OutboxAssumption DEF OutboxAssumption, TypeInv, TypeOK, RoomForDead, Live
  <2>7. TypeOK'
    BY <2>4, <2>5, <2>6 DEF TypeInv, TypeOK, account, external, history
  <2> QED
    BY <2>5, <2>6, <2>7 DEF TypeInv, KeyIsClaimed, Sending
<1> QED
  BY <1>1, <1>2, <1>3 DEF TimePasses

LEMMA CrashTyped == ASSUME TypeInv, Crash PROVE TypeInv'
<1>1. /\ worker' \in Tick /\ worker'.items = {} /\ worker'.queue = {} /\ ~Sending'
  BY NoLinksTyped DEF Crash, Idle, Tick, Phases, Answers, Sending
<1>2. UNCHANGED <<owned, active, conn, row, recent, dead, link, external, history>>
      /\ flushed' \in BOOLEAN
  BY DEF Crash
<1>3. trouble' \in 0 .. Trouble
  BY OutboxAssumption DEF Crash, SomethingGoesWrong, TypeInv, TypeOK, OutboxAssumption
<1> QED
  BY <1>1, <1>2, <1>3 DEF TypeInv, TypeOK, RoomForDead, KeyIsClaimed, Live, external, history

LEMMA TypeStep == TypeInv /\ [Next]_vars => TypeInv'
<1> SUFFICES ASSUME TypeInv, [Next]_vars PROVE TypeInv'
  OBVIOUS
<1>1. CASE Work
  BY <1>1, ReconcileTyped, CallTyped, RowOutcomeTyped DEF Work, RowOutcome
<1>2. CASE UNCHANGED vars
  BY <1>2 DEF vars, TypeInv, TypeOK, RoomForDead, KeyIsClaimed, Sending, Live
<1> QED
  BY <1>1, <1>2, MemberTyped, TimeTyped, CrashTyped DEF Next

(* Every variable keeps its type in every run, and no key ever has more DEAD   *)
(* rows within the window than the cap (DEAD_CAP in reconcile.ts), although an *)
(* outcome may land on a row that a disconnect has skipped meanwhile.          *)
THEOREM OutboxTypeSafety == Spec => []TypeOK
<1>1. Spec => []TypeInv
  BY TypeInit, TypeStep, PTL DEF Spec
<1>2. TypeInv => TypeOK
  BY DEF TypeInv
<1> QED
  BY <1>1, <1>2, PTL

-----------------------------------------------------------------------------
(* Until the member first disconnects: no task is forgotten, none is doubled.  *)

(* What rows, links and tasks say of each other.                               *)
LinkSettlesCreate == \A c \in Chores : c \in Open => ~Live(Create(c)) /\ ~Absorbed(Create(c))
CloseHasItsLink ==
    \A c \in Chores : Live(Close(c)) => c \in Open /\ row[Close(c)].task = link[c]
Accounted ==
    \A c \in Chores : \A t \in todo[c] :
        \/ t = link[c] \/ t \in writtenOff[c]
        \/ t = made[c] /\ (Live(Create(c)) \/ Absorbed(Create(c)))
Books == LinkSettlesCreate /\ CloseHasItsLink /\ Accounted

(* What the worker has read stays so until it has written, what it has claimed *)
(* stays live until it is settled, and an answer fits the row it is for.       *)
PlanIsCurrent == worker.pc \in {"plan", "write"} => worker.actual = link
ItemsAreNeeded ==
    worker.pc = "write" => \A c \in Chores :
        /\ Create(c) \in worker.items => c \notin Open /\ ~Absorbed(Create(c))
        /\ Close(c) \in worker.items => c \in Open
ClaimsAreLive == \A k \in worker.queue : Live(k)
AnswerFits ==
    worker.pc = "settle" =>
        /\ worker.answer \in {"CREATED", "ACCEPTED_WITHOUT_ID"}
             => Op(worker.key) = "CREATE_TASK" /\ made[Chore(worker.key)] # NoTask
        /\ worker.answer = "CLOSED"
             => /\ Op(worker.key) = "CLOSE_TASK"
                /\ row[worker.key].task \notin todo[Chore(worker.key)]
Duties == PlanIsCurrent /\ ItemsAreNeeded /\ ClaimsAreLive /\ AnswerFits

Steady == ~left => ~flushed /\ Books /\ Duties
SafeInv == TypeInv /\ Steady

-----------------------------------------------------------------------------
(* Books are about these and nothing else.                                     *)
LEMMA BooksFrame ==
    ASSUME Books, UNCHANGED <<link, todo, made, writtenOff>>,
           \A k \in Keys : row'[k].status = row[k].status /\ row'[k].task = row[k].task
    PROVE  Books'
<1>1. \A c \in Chores : Create(c) \in Keys /\ Close(c) \in Keys
  BY KeysOfChores
<1>2. \A k \in Keys : (Live(k)' <=> Live(k)) /\ (Absorbed(k)' <=> Absorbed(k))
  BY DEF Live, Absorbed
<1>3. Open' = Open
  BY DEF Open, Shown
<1> QED
  BY <1>1, <1>2, <1>3 DEF Books, LinkSettlesCreate, CloseHasItsLink, Accounted

(* A worker that is done with a row has its other claims left to do.           *)
LEMMA DoneDuties ==
    ASSUME TypeInv, Duties, NEW k, worker' = Done(k),
           \A j \in worker.queue \ {k} : row'[j].status = row[j].status
    PROVE  Duties'
<1>1. Done(k).queue \subseteq worker.queue \ {k} /\ Done(k).pc \in {"idle", "next"}
  BY DoneTyped DEF TypeInv
<1>2. \A j \in Done(k).queue : row'[j].status \in LiveStatuses
  BY <1>1 DEF Duties, ClaimsAreLive, Live
<1> QED
  BY <1>1, <1>2 DEF Duties, PlanIsCurrent, ItemsAreNeeded, ClaimsAreLive, AnswerFits, Live

LEMMA SettleFacts ==
    ASSUME TypeInv, NEW k \in worker.queue, NEW s \in RowStatuses \ LiveStatuses,
           Settle(k, s)
    PROVE  /\ k \in Keys /\ row'[k].status = s /\ row'[k].task = row[k].task
           /\ \A j \in Keys \ {k} : row'[j] = row[j]
           /\ \A c \in Chores : writtenOff[c] \subseteq writtenOff'[c]
           /\ s \in {"DEAD", "SKIPPED"} /\ Op(k) = "CREATE_TASK" /\ made[Chore(k)] # NoTask
                => made[Chore(k)] \in writtenOff'[Chore(k)]
           /\ left' = left
<1>1. k \in Keys /\ Chore(k) \in Chores
  BY KeysOfChores DEF TypeInv, TypeOK, Tick
<1>2. row'[k].status = s /\ \A j \in Keys \ {k} : row'[j] = row[j]
  BY SettleTyped
<1>3. row'[k].task = row[k].task
  <2>1. row[k] \in Row /\ row \in [Keys -> Row]
    BY <1>1 DEF TypeInv, TypeOK
  <2>2. row' = [row EXCEPT ![k] = [row[k] EXCEPT !.status = s, !.due = FALSE]]
    BY <1>1, <2>1 DEF Settle
  <2>3. [row[k] EXCEPT !.status = s, !.due = FALSE].task = row[k].task
    BY <2>1 DEF Row
  <2> QED
    BY <1>1, <2>1, <2>2, <2>3
<1>4. writtenOff \in [Chores -> SUBSET Tasks]
  BY DEF TypeInv, TypeOK
<1> QED
  BY <1>1, <1>2, <1>3, <1>4 DEF Settle

(* A row that ends DEAD or SKIPPED takes the task it made with it; a row that  *)
(* will be sent again keeps it.                                                *)
LEMMA GivenUp ==
    ASSUME TypeInv, Books, NEW k \in worker.queue, NEW s \in {"DEAD", "SKIPPED"},
           Settle(k, s), UNCHANGED <<link, todo, made>>
    PROVE  Books'
<1>0. s \in RowStatuses \ LiveStatuses
  BY DEF RowStatuses, LiveStatuses
<1>1. /\ k \in Keys /\ row'[k].status = s
      /\ \A j \in Keys \ {k} : row'[j] = row[j]
      /\ \A c \in Chores : writtenOff[c] \subseteq writtenOff'[c]
      /\ Op(k) = "CREATE_TASK" /\ made[Chore(k)] # NoTask
           => made[Chore(k)] \in writtenOff'[Chore(k)]
  BY <1>0, SettleFacts
<1>2. ~Live(k)' /\ ~Absorbed(k)'
  BY <1>1 DEF Live, Absorbed, LiveStatuses
<1>3. \A j \in Keys \ {k} : (Live(j)' <=> Live(j)) /\ (Absorbed(j)' <=> Absorbed(j))
  BY <1>1 DEF Live, Absorbed
<1>4. Open' = Open
  BY DEF Open, Shown
<1>5. LinkSettlesCreate'
  BY <1>2, <1>3, <1>4, KeysOfChores DEF Books, LinkSettlesCreate
<1>6. CloseHasItsLink'
  BY <1>1, <1>2, <1>3, <1>4, KeysOfChores DEF Books, CloseHasItsLink
<1>7. ASSUME NEW c \in Chores, NEW t \in todo'[c]
      PROVE  \/ t = link'[c] \/ t \in writtenOff'[c]
             \/ t = made'[c] /\ (Live(Create(c))' \/ Absorbed(Create(c))')
  <2>1. t \in todo[c] /\ t # NoTask
    BY <1>7 DEF TypeInv, TypeOK, Tasks, NoTask
  <2>2. CASE k = Create(c)
    BY <1>1, <2>1, <2>2, KeysOfChores DEF Books, Accounted
  <2>3. CASE k # Create(c)
    BY <1>1, <1>3, <2>1, <2>3, KeysOfChores DEF Books, Accounted
  <2> QED
    BY <2>2, <2>3
<1> QED
  BY <1>5, <1>6, <1>7 DEF Books, Accounted

LEMMA SentAgain ==
    ASSUME TypeInv, Books, NEW k \in worker.queue, Live(k), RetryLater(k),
           UNCHANGED <<link, todo, made>>
    PROVE  Books'
<1>1. k \in Keys
  BY DEF TypeInv, TypeOK, Tick
<1>2. /\ row'[k].status = "FAILED" /\ row'[k].task = row[k].task
      /\ \A j \in Keys \ {k} : row'[j] = row[j]
  BY <1>1, RetryTyped DEF TypeInv
<1>3. \A j \in Keys : /\ (Live(j)' <=> Live(j)) /\ (Absorbed(j)' <=> Absorbed(j))
                      /\ row'[j].task = row[j].task
  BY <1>2 DEF Live, Absorbed, LiveStatuses
<1>4. Open' = Open /\ writtenOff' = writtenOff
  BY DEF Open, Shown, RetryLater, history
<1> QED
  BY <1>3, <1>4, KeysOfChores DEF Books, LinkSettlesCreate, CloseHasItsLink, Accounted

-----------------------------------------------------------------------------
LEMMA SteadyInit == Init => Steady
<1> SUFFICES ASSUME Init PROVE Steady
  OBVIOUS
<1>1. Books
  <2>1. \A c \in Chores : ~Live(Create(c)) /\ ~Live(Close(c)) /\ todo[c] = {} /\ c \notin Open
    BY KeysOfChores DEF Init, Live, NoRow, LiveStatuses, Open, Shown, NoLinks
  <2> QED
    BY <2>1 DEF Books, LinkSettlesCreate, CloseHasItsLink, Accounted
<1>2. Duties
  BY DEF Init, Idle, Duties, PlanIsCurrent, ItemsAreNeeded, ClaimsAreLive, AnswerFits
<1> QED
  BY <1>1, <1>2 DEF Init, Steady

(* The reconciler: what it has read of the links is still so when it writes.   *)
LEMMA ReconcileSteady ==
    ASSUME SafeInv, ReadDesired \/ ReadLinks \/ MakePlan \/ WritePlan \/ Claim
    PROVE  Steady'
<1> SUFFICES ASSUME ~left' PROVE ~flushed' /\ Books' /\ Duties'
  BY DEF Steady
<1>1. ~left /\ flushed' = flushed
  BY DEF ReadDesired, ReadLinks, MakePlan, WritePlan, Claim, history
<1>2. ~flushed /\ Books /\ Duties /\ TypeInv
  BY <1>1 DEF SafeInv, Steady
<1>3. worker \in Tick
  BY <1>2 DEF TypeInv, TypeOK
<1>4. CASE ReadDesired \/ ReadLinks \/ MakePlan \/ Claim
  <2>1. UNCHANGED <<row, link, todo, made, writtenOff>>
    BY <1>4 DEF ReadDesired, ReadLinks, MakePlan, Claim, external, history
  <2>2. Books'
    BY <1>2, <2>1, BooksFrame
  <2>3. CASE ReadDesired
    <3>1. worker'.pc = "links" /\ worker'.queue = worker.queue
      BY <1>3, <2>3 DEF ReadDesired, Tick
    <3> QED
      BY <1>1, <1>2, <2>1, <2>2, <3>1
      DEF Duties, PlanIsCurrent, ItemsAreNeeded, ClaimsAreLive, AnswerFits, Live
  <2>4. CASE ReadLinks
    <3>1. /\ worker'.pc \in {"claim", "plan"} /\ worker'.queue = worker.queue
          /\ worker'.actual = link
      BY <1>3, <2>4 DEF ReadLinks, Tick
    <3> QED
      BY <1>1, <1>2, <2>1, <2>2, <3>1
      DEF Duties, PlanIsCurrent, ItemsAreNeeded, ClaimsAreLive, AnswerFits, Live
  <2>5. CASE MakePlan
    <3> DEFINE items == {k \in Difference(worker.desired, Shown(worker.actual)) : ~Suppressed(k)}
    <3>1. /\ worker'.pc \in {"claim", "write"} /\ worker'.queue = worker.queue
          /\ worker'.actual = worker.actual /\ worker'.items = items /\ worker.pc = "plan"
      BY <1>3, <2>5 DEF MakePlan, Tick
    <3>2. Shown(worker.actual) = Open
      BY <1>2, <3>1 DEF Duties, PlanIsCurrent, Open
    <3>3. ASSUME NEW c \in Chores
          PROVE  /\ Create(c) \in items => c \notin Open /\ ~Absorbed(Create(c))
                 /\ Close(c) \in items => c \in Open
      <4>1. /\ Create(c) \in Difference(worker.desired, Open) => c \notin Open
            /\ Close(c) \in Difference(worker.desired, Open) => c \in Open
        BY KeysOfChores DEF Difference
      <4> QED
        BY <3>2, <4>1 DEF Suppressed
    <3>4. Open' = Open /\ \A c \in Chores : Absorbed(Create(c))' <=> Absorbed(Create(c))
      BY <2>1 DEF Open, Shown, Absorbed
    <3> HIDE DEF items
    <3>5. PlanIsCurrent' /\ AnswerFits'
      BY <1>2, <2>1, <3>1 DEF Duties, PlanIsCurrent, AnswerFits
    <3>6. ItemsAreNeeded'
      BY <3>1, <3>3, <3>4 DEF ItemsAreNeeded
    <3>7. ClaimsAreLive'
      BY <1>2, <2>1, <3>1 DEF Duties, ClaimsAreLive, Live
    <3> QED
      BY <1>1, <1>2, <2>2, <3>5, <3>6, <3>7 DEF Duties
  <2>6. CASE Claim
    <3>1. /\ worker'.pc \in {"idle", "next"}
          /\ worker'.queue \subseteq {k \in Keys : Live(k)}
      BY <2>6 DEF Claim, Idle
    <3> QED
      BY <1>1, <1>2, <2>1, <2>2, <3>1
      DEF Duties, PlanIsCurrent, ItemsAreNeeded, ClaimsAreLive, AnswerFits, Live
  <2> QED
    BY <1>4, <2>3, <2>4, <2>5, <2>6
<1>5. CASE WritePlan
  <2> DEFINE new == {k \in worker.items : ~KeyTaken(k)}
  <2>1. /\ worker.pc = "write" /\ worker'.pc = "claim" /\ worker'.queue = {}
        /\ row' = [k \in Keys |-> IF k \in new THEN NewRow(k) ELSE row[k]]
        /\ made' = [c \in Chores |-> IF Create(c) \in new THEN NoTask ELSE made[c]]
        /\ UNCHANGED <<link, todo, writtenOff>>
    BY <1>5 DEF WritePlan, Idle, history
  <2>2. Open' = Open
    BY <2>1 DEF Open, Shown
  <2>3. \A c \in Chores :
          /\ Create(c) \in new => c \notin Open /\ ~Absorbed(Create(c)) /\ ~Live(Create(c))
          /\ Close(c) \in new => c \in Open
    BY <1>2, <2>1 DEF Duties, ItemsAreNeeded, KeyTaken
  <2>4. worker.actual = link
    BY <1>2, <2>1 DEF Duties, PlanIsCurrent
  <2>5. \A c \in Chores : Close(c) \in new => row'[Close(c)].task = link[c]
    BY <2>1, <2>4, KeysOfChores DEF NewRow
  <2> HIDE DEF new
  <2>6. \A k \in Keys \ new : row'[k] = row[k]
    BY <2>1
  <2>7. \A k \in Keys \ new : (Live(k)' <=> Live(k)) /\ (Absorbed(k)' <=> Absorbed(k))
    BY <2>6 DEF Live, Absorbed
  <2>8. \A k \in new \cap Keys : ~Absorbed(k)'
    BY <2>1 DEF NewRow, Absorbed
  <2>9. LinkSettlesCreate'
    BY <1>2, <2>2, <2>3, <2>7, KeysOfChores DEF Books, LinkSettlesCreate
  <2>10. CloseHasItsLink'
    <3> SUFFICES ASSUME NEW c \in Chores, Live(Close(c))'
                 PROVE  c \in Open /\ row'[Close(c)].task = link[c]
      BY <2>1, <2>2 DEF CloseHasItsLink
    <3>1. CASE Close(c) \in new
      BY <2>3, <2>5, <3>1
    <3>2. CASE Close(c) \notin new
      BY <1>2, <2>6, <2>7, <3>2, KeysOfChores DEF Books, CloseHasItsLink
    <3> QED
      BY <3>1, <3>2
  <2>11. Accounted'
    <3> SUFFICES ASSUME NEW c \in Chores, NEW t \in todo[c]
                 PROVE  \/ t = link[c] \/ t \in writtenOff[c]
                        \/ t = made'[c] /\ (Live(Create(c))' \/ Absorbed(Create(c))')
      BY <2>1 DEF Accounted
    <3>1. CASE Create(c) \in new
      BY <1>2, <2>3, <3>1 DEF Books, Accounted
    <3>2. CASE Create(c) \notin new
      BY <1>2, <2>1, <2>7, <3>2, KeysOfChores DEF Books, Accounted
    <3> QED
      BY <3>1, <3>2
  <2>12. Duties'
    BY <2>1 DEF Duties, PlanIsCurrent, ItemsAreNeeded, ClaimsAreLive, AnswerFits
  <2> QED
    BY <1>1, <1>2, <2>9, <2>10, <2>11, <2>12 DEF Books
<1> QED
  BY <1>4, <1>5

(* The calls: a repeated command makes no second task, and what it made hangs  *)
(* on a row that is still live.                                                *)
LEMMA TaskOnLiveRow ==
    ASSUME TypeInv, Books, Duties, worker.pc = "call", Op(worker.key) = "CREATE_TASK",
           RunOnce(Chore(worker.key)), UNCHANGED <<row, link, writtenOff>>
    PROVE  Books' /\ made'[Chore(worker.key)] # NoTask
<1> DEFINE c == Chore(worker.key)
<1>1. worker.key \in Keys /\ Live(worker.key)
  BY DEF TypeInv, TypeOK, KeyIsClaimed, Sending, Duties, ClaimsAreLive, Tick
<1>2. c \in Chores /\ worker.key = Create(c)
  BY <1>1, KeysOfChores
<1>3. /\ made \in [Chores -> Tasks \cup {NoTask}] /\ todo \in [Chores -> SUBSET Tasks]
      /\ \A t \in Tasks : t # NoTask
  BY DEF TypeInv, TypeOK, Tasks, NoTask
<1> HIDE DEF c
<1>4. /\ made'[c] # NoTask
      /\ \A d \in Chores \ {c} : made'[d] = made[d] /\ todo'[d] = todo[d]
      /\ \A t \in todo'[c] : t = made'[c] \/ (t \in todo[c] /\ (made[c] = NoTask \/ made'[c] = made[c]))
  <2>1. CASE made[c] # NoTask /\ UNCHANGED external
    BY <1>2, <2>1 DEF external
  <2>2. CASE made[c] = NoTask /\ MakeTask(c)
    <3>1. PICK t \in Tasks : /\ made' = [made EXCEPT ![c] = t]
                             /\ todo' = [todo EXCEPT ![c] = todo[c] \cup {t}]
      BY <1>2, <1>3, <2>2 DEF MakeTask
    <3> QED
      BY <1>2, <1>3, <2>2, <3>1
  <2> QED
    BY <2>1, <2>2 DEF RunOnce, c
<1>5. /\ Open' = Open
      /\ \A k \in Keys : (Live(k)' <=> Live(k)) /\ (Absorbed(k)' <=> Absorbed(k))
  BY DEF Open, Shown, Live, Absorbed
<1>6. LinkSettlesCreate' /\ CloseHasItsLink'
  BY <1>5, KeysOfChores DEF Books, LinkSettlesCreate, CloseHasItsLink
<1>7. ASSUME NEW d \in Chores, NEW t \in todo'[d]
      PROVE  \/ t = link[d] \/ t \in writtenOff[d]
             \/ t = made'[d] /\ (Live(Create(d)) \/ Absorbed(Create(d)))
  <2>1. CASE d # c
    BY <1>4, <1>7, <2>1 DEF Books, Accounted
  <2>2. CASE d = c /\ t = made'[c]
    BY <1>1, <1>2, <2>2
  <2>3. CASE d = c /\ t \in todo[c] /\ (made[c] = NoTask \/ made'[c] = made[c])
    <3>1. t # NoTask
      BY <1>2, <1>3, <2>3
    <3> QED
      BY <1>2, <2>3, <3>1 DEF Books, Accounted
  <2> QED
    BY <1>4, <1>7, <2>1, <2>2, <2>3
<1>8. Accounted'
  BY <1>5, <1>7, KeysOfChores DEF Accounted
<1> QED
  BY <1>4, <1>6, <1>8 DEF Books, c

LEMMA CallSteady ==
    ASSUME SafeInv,
           \/ \E k \in Keys : TakeRow(k)
           \/ CreateAnswered \/ CloseAnswered \/ CloseUnanswered
           \/ \E a \in {"ACCEPTED_WITHOUT_ID", "TRANSIENT"} : CreateUnanswered(a)
           \/ \E a \in {"TRANSIENT", "PERMANENT_AUTH", "PERMANENT_REQUEST"} : CallFails(a)
    PROVE  Steady'
<1> SUFFICES ASSUME ~left' PROVE ~flushed' /\ Books' /\ Duties'
  BY DEF Steady
<1>0. UNCHANGED <<flushed, row, link, history>>
  <2>1. ASSUME NEW k \in Keys, TakeRow(k) PROVE UNCHANGED <<flushed, row, link, history>>
    BY <2>1 DEF TakeRow
  <2>2. ASSUME CreateAnswered \/ CloseAnswered \/ CloseUnanswered
        PROVE  UNCHANGED <<flushed, row, link, history>>
    BY <2>2 DEF CreateAnswered, CloseAnswered, CloseUnanswered
  <2>3. ASSUME NEW a, CreateUnanswered(a) \/ CallFails(a)
        PROVE  UNCHANGED <<flushed, row, link, history>>
    BY <2>3 DEF CreateUnanswered, CallFails
  <2> QED
    BY <2>1, <2>2, <2>3
<1>1. ~left /\ UNCHANGED <<flushed, row, link, writtenOff>>
  BY <1>0 DEF history
<1>2. ~flushed /\ Books /\ Duties /\ TypeInv
  BY <1>1 DEF SafeInv, Steady
<1>3. worker \in Tick
  BY <1>2 DEF TypeInv, TypeOK
<1>4. CASE \E k \in Keys : TakeRow(k)
  <2>1. worker'.pc = "call" /\ worker'.queue = worker.queue /\ UNCHANGED <<todo, made>>
    BY <1>3, <1>4 DEF TakeRow, Tick, external
  <2>2. Books'
    BY <1>1, <1>2, <2>1, BooksFrame
  <2> QED
    BY <1>1, <1>2, <2>1, <2>2
    DEF Duties, PlanIsCurrent, ItemsAreNeeded, ClaimsAreLive, AnswerFits, Live
<1>5. ASSUME NEW a \in Answers, Answer(a), worker.pc = "call", Books',
             a \in {"CREATED", "ACCEPTED_WITHOUT_ID"}
               => Op(worker.key) = "CREATE_TASK" /\ made'[Chore(worker.key)] # NoTask,
             a = "CLOSED" => /\ Op(worker.key) = "CLOSE_TASK"
                             /\ row[worker.key].task \notin todo'[Chore(worker.key)]
      PROVE  ~flushed' /\ Books' /\ Duties'
  <2>1. /\ worker'.pc = "settle" /\ worker'.queue = worker.queue
        /\ worker'.key = worker.key /\ worker'.answer = a
    BY <1>3, <1>5 DEF Answer, Tick
  <2>2. PlanIsCurrent' /\ ItemsAreNeeded'
    BY <2>1 DEF PlanIsCurrent, ItemsAreNeeded
  <2>3. ClaimsAreLive'
    BY <1>1, <1>2, <2>1 DEF Duties, ClaimsAreLive, Live
  <2>4. AnswerFits'
    BY <1>1, <1>5, <2>1 DEF AnswerFits
  <2> QED
    BY <1>1, <1>2, <1>5, <2>2, <2>3, <2>4 DEF Duties
<1>6. CASE CreateAnswered \/ \E a \in {"ACCEPTED_WITHOUT_ID", "TRANSIENT"} : CreateUnanswered(a)
  <2>1. PICK a \in {"CREATED", "ACCEPTED_WITHOUT_ID", "TRANSIENT"} : Answer(a)
    BY <1>6 DEF CreateAnswered, CreateUnanswered
  <2>2. /\ worker.pc = "call" /\ Op(worker.key) = "CREATE_TASK"
        /\ RunOnce(Chore(worker.key))
    BY <1>6 DEF CreateAnswered, CreateUnanswered
  <2>3. Books' /\ made'[Chore(worker.key)] # NoTask
    BY <1>1, <1>2, <2>2, TaskOnLiveRow
  <2> QED
    BY <1>5, <2>1, <2>2, <2>3 DEF Answers
<1>7. CASE CloseAnswered \/ CloseUnanswered
  <2>1. PICK a \in {"CLOSED", "TRANSIENT"} : Answer(a)
    BY <1>7 DEF CloseAnswered, CloseUnanswered
  <2>2. /\ worker.pc = "call" /\ Op(worker.key) = "CLOSE_TASK" /\ RunClose /\ UNCHANGED made
    BY <1>7 DEF CloseAnswered, CloseUnanswered
  <2>3. worker.key \in Keys /\ Chore(worker.key) \in Chores
    BY <1>2, <2>2, KeysOfChores DEF TypeInv, TypeOK, KeyIsClaimed, Sending, Tick
  <2>4. /\ todo \in [Chores -> SUBSET Tasks]
        /\ todo' = [todo EXCEPT ![Chore(worker.key)] =
                      todo[Chore(worker.key)] \ {row[worker.key].task}]
    BY <1>2, <2>2 DEF RunClose, TypeInv, TypeOK
  <2>5. /\ \A c \in Chores : todo'[c] \subseteq todo[c]
        /\ row[worker.key].task \notin todo'[Chore(worker.key)]
    BY <2>3, <2>4
  <2>6. /\ Open' = Open
        /\ \A k \in Keys : (Live(k)' <=> Live(k)) /\ (Absorbed(k)' <=> Absorbed(k))
    BY <1>1 DEF Open, Shown, Live, Absorbed
  <2>7. LinkSettlesCreate' /\ CloseHasItsLink'
    BY <1>1, <1>2, <2>6, KeysOfChores DEF Books, LinkSettlesCreate, CloseHasItsLink
  <2>8. Accounted'
    BY <1>1, <1>2, <2>2, <2>5, <2>6, KeysOfChores DEF Books, Accounted
  <2> QED
    BY <1>5, <2>1, <2>2, <2>5, <2>7, <2>8 DEF Answers, Books
<1>8. CASE \E a \in {"TRANSIENT", "PERMANENT_AUTH", "PERMANENT_REQUEST"} : CallFails(a)
  <2>1. PICK a \in {"TRANSIENT", "PERMANENT_AUTH", "PERMANENT_REQUEST"} : Answer(a)
    BY <1>8 DEF CallFails
  <2>2. worker.pc = "call" /\ UNCHANGED <<todo, made>>
    BY <1>8 DEF CallFails, external
  <2>3. Books'
    BY <1>1, <1>2, <2>2, BooksFrame
  <2> QED
    BY <1>5, <2>1, <2>2, <2>3 DEF Answers
<1> QED
  BY <1>4, <1>6, <1>7, <1>8

(* The outcomes.                                                               *)
LEMMA OutcomeSteady == ASSUME SafeInv, RowOutcome PROVE Steady'
<1> SUFFICES ASSUME ~left' PROVE ~flushed' /\ Books' /\ Duties'
  BY DEF Steady
<1>0. TypeInv /\ UNCHANGED flushed /\ UNCHANGED <<todo, made>>
  BY OutcomeEnds DEF SafeInv, external
<1>1. ~left
  <2>1. PICK k \in worker.queue : \/ \E s \in RowStatuses \ LiveStatuses : Settle(k, s)
                                  \/ RetryLater(k)
    BY <1>0, OutcomeEnds
  <2> QED
    BY <2>1 DEF Settle, RetryLater, history
<1>2. ~flushed /\ Books /\ Duties
  BY <1>1 DEF SafeInv, Steady
<1>3. worker.queue \subseteq Keys
  BY <1>0 DEF TypeInv, TypeOK, Tick
<1>4. ASSUME NEW k \in worker.queue, worker' = Done(k),
             \/ \E s \in RowStatuses \ LiveStatuses : Settle(k, s)
             \/ RetryLater(k)
      PROVE  Duties'
  <2>1. \A j \in Keys \ {k} : row'[j] = row[j]
    BY <1>0, <1>3, <1>4, SettleFacts, RetryTyped DEF TypeInv
  <2> QED
    BY <1>0, <1>2, <1>3, <1>4, <2>1, DoneDuties
<1>5. ASSUME NEW k \in worker.queue, worker' = Done(k), UNCHANGED link,
             (\E s \in {"DEAD", "SKIPPED"} : Settle(k, s)) \/ RetryLater(k)
      PROVE  ~flushed' /\ Books' /\ Duties'
  <2>1. Live(k)
    BY <1>2, <1>5 DEF Duties, ClaimsAreLive
  <2>2. Books'
    BY <1>0, <1>2, <1>5, <2>1, GivenUp, SentAgain
  <2>3. Duties'
    BY <1>4, <1>5 DEF RowStatuses, LiveStatuses
  <2> QED
    BY <1>0, <1>2, <2>2, <2>3
<1>6. worker.pc = "settle" => worker.key \in worker.queue
  BY <1>0 DEF TypeInv, KeyIsClaimed, Sending
<1>7. CASE \E k \in Keys : SkipRow(k)
  <2>1. PICK k \in Keys : SkipRow(k)
    BY <1>7
  <2> QED
    BY <1>5, <2>1 DEF SkipRow
<1>8. CASE \E k \in Keys : KeyUnavailable(k)
  <2>1. PICK k \in Keys : KeyUnavailable(k)
    BY <1>8
  <2> QED
    BY <1>5, <2>1 DEF KeyUnavailable
<1>9. CASE RecordBadToken \/ RecordBadRequest \/ RecordTransient
  BY <1>5, <1>6, <1>9 DEF RecordBadToken, RecordBadRequest, RecordTransient, Settling
<1>10. ASSUME NEW c \in Chores, worker.pc = "settle", worker.key = Create(c),
              NEW s \in {"SENT", "ORPHANED"}, Settle(Create(c), s), worker' = Done(Create(c)),
              made[c] # NoTask,
              link' = IF s = "SENT" THEN [link EXCEPT ![c] = made[c]] ELSE link
       PROVE  Books' /\ Duties'
  <2>1. s \in RowStatuses \ LiveStatuses
    BY DEF RowStatuses, LiveStatuses
  <2>2. Create(c) \in worker.queue /\ Live(Create(c))
    BY <1>2, <1>6, <1>10 DEF Duties, ClaimsAreLive
  <2>3. /\ row'[Create(c)].status = s
        /\ \A j \in Keys \ {Create(c)} : row'[j] = row[j]
        /\ \A d \in Chores : writtenOff[d] \subseteq writtenOff'[d]
    BY <1>0, <1>10, <2>1, <2>2, SettleFacts
  <2>4. ~Live(Create(c))' /\ (Absorbed(Create(c))' <=> s = "ORPHANED")
    BY <1>10, <2>3 DEF Live, Absorbed, LiveStatuses
  <2>5. \A j \in Keys \ {Create(c)} : (Live(j)' <=> Live(j)) /\ (Absorbed(j)' <=> Absorbed(j))
    BY <2>3 DEF Live, Absorbed
  <2>6. c \notin Open /\ link[c] = NoTask /\ ~Live(Close(c))
    BY <1>2, <2>2 DEF Books, LinkSettlesCreate, CloseHasItsLink, Open, Shown
  <2>7. /\ link \in [Chores -> Tasks \cup {NoTask}] /\ todo \in [Chores -> SUBSET Tasks]
        /\ \A t \in Tasks : t # NoTask
    BY <1>0 DEF TypeInv, TypeOK, Tasks, NoTask
  <2>8. /\ \A d \in Chores \ {c} : link'[d] = link[d]
        /\ link'[c] = IF s = "SENT" THEN made[c] ELSE NoTask
    BY <1>10, <2>6, <2>7
  <2>9. /\ \A d \in Chores \ {c} : d \in Open' <=> d \in Open
        /\ c \in Open' <=> s = "SENT"
    BY <1>10, <2>8 DEF Open, Shown
  <2>10. LinkSettlesCreate'
    <3> SUFFICES ASSUME NEW d \in Chores, d \in Open'
                 PROVE  ~Live(Create(d))' /\ ~Absorbed(Create(d))'
      BY DEF LinkSettlesCreate
    <3>1. CASE d = c
      BY <2>4, <2>9, <3>1
    <3>2. CASE d # c
      BY <1>2, <2>5, <2>9, <3>2, KeysOfChores DEF Books, LinkSettlesCreate
    <3> QED
      BY <3>1, <3>2
  <2>11. CloseHasItsLink'
    <3> SUFFICES ASSUME NEW d \in Chores, Live(Close(d))'
                 PROVE  d \in Open' /\ row'[Close(d)].task = link'[d]
      BY DEF CloseHasItsLink
    <3>1. Close(d) \in Keys \ {Create(c)} /\ Live(Close(d)) /\ d # c
      BY <2>5, <2>6, KeysOfChores
    <3> QED
      BY <1>2, <2>3, <2>8, <2>9, <3>1 DEF Books, CloseHasItsLink
  <2>12. Accounted'
    <3> SUFFICES ASSUME NEW d \in Chores, NEW t \in todo[d]
                 PROVE  \/ t = link'[d] \/ t \in writtenOff'[d]
                        \/ t = made[d] /\ (Live(Create(d))' \/ Absorbed(Create(d))')
      BY <1>0 DEF Accounted
    <3>1. t # NoTask
      BY <2>7
    <3>2. CASE d = c
      BY <1>2, <1>10, <2>3, <2>4, <2>6, <2>8, <3>1, <3>2 DEF Books, Accounted
    <3>3. CASE d # c
      BY <1>2, <2>3, <2>5, <2>8, <3>3, KeysOfChores DEF Books, Accounted
    <3> QED
      BY <3>2, <3>3
  <2> QED
    BY <1>4, <1>10, <2>1, <2>2, <2>10, <2>11, <2>12 DEF Books
<1>11. CASE RecordCreated \/ RecordOrphaned
  <2> DEFINE c == Chore(worker.key)
  <2>1. worker.pc = "settle" /\ worker.answer \in {"CREATED", "ACCEPTED_WITHOUT_ID"}
    BY <1>11 DEF RecordCreated, RecordOrphaned, Settling
  <2>2. Op(worker.key) = "CREATE_TASK" /\ made[c] # NoTask
    BY <1>2, <2>1 DEF Duties, AnswerFits
  <2>3. c \in Chores /\ worker.key = Create(c)
    BY <1>3, <1>6, <2>1, <2>2, KeysOfChores
  <2>4. \E s \in {"SENT", "ORPHANED"} :
          /\ Settle(Create(c), s) /\ worker' = Done(Create(c))
          /\ link' = IF s = "SENT" THEN [link EXCEPT ![c] = made[c]] ELSE link
    BY <1>11, <2>3 DEF RecordCreated, RecordOrphaned
  <2> HIDE DEF c
  <2> QED
    BY <1>0, <1>2, <1>10, <2>1, <2>2, <2>3, <2>4
<1>12. CASE RecordClosed
  <2>1. worker.pc = "settle" /\ worker.answer = "CLOSED"
    BY <1>12 DEF RecordClosed, Settling
  <2>2. Op(worker.key) = "CLOSE_TASK" /\ row[worker.key].task \notin todo[Chore(worker.key)]
    BY <1>2, <2>1 DEF Duties, AnswerFits
  <2>3. PICK c \in Chores : worker.key = Close(c) /\ row[Close(c)].task \notin todo[c]
    BY <1>3, <1>6, <2>1, <2>2, KeysOfChores
  <2>4. /\ Settle(Close(c), "SENT") /\ worker' = Done(Close(c))
        /\ link' = [link EXCEPT ![c] = NoTask]
    BY <1>12, <2>3, KeysOfChores DEF RecordClosed
  <2>5. "SENT" \in RowStatuses \ LiveStatuses
    BY DEF RowStatuses, LiveStatuses
  <2>6. Close(c) \in worker.queue /\ Live(Close(c))
    BY <1>2, <1>6, <2>1, <2>3 DEF Duties, ClaimsAreLive
  <2>7. link[c] \notin todo[c] /\ c \in Open
    BY <1>2, <2>2, <2>3, <2>6 DEF Books, CloseHasItsLink
  <2>8. /\ row'[Close(c)].status = "SENT"
        /\ \A j \in Keys \ {Close(c)} : row'[j] = row[j]
        /\ \A d \in Chores : writtenOff[d] \subseteq writtenOff'[d]
    BY <1>0, <2>4, <2>5, <2>6, SettleFacts
  <2>9. /\ ~Live(Close(c))'
        /\ \A j \in Keys \ {Close(c)} : (Live(j)' <=> Live(j)) /\ (Absorbed(j)' <=> Absorbed(j))
    <3>1. "SENT" \notin LiveStatuses
      BY DEF LiveStatuses
    <3> QED
      BY <2>8, <3>1 DEF Live, Absorbed
  <2>10. /\ \A d \in Chores \ {c} : link'[d] = link[d]
         /\ Open' = Open \ {c}
    <3>1. link \in [Chores -> Tasks \cup {NoTask}]
      BY <1>0 DEF TypeInv, TypeOK
    <3> QED
      BY <2>3, <2>4, <3>1 DEF Open, Shown
  <2>11. LinkSettlesCreate'
    BY <1>2, <2>9, <2>10, KeysOfChores DEF Books, LinkSettlesCreate
  <2>12. CloseHasItsLink'
    <3> SUFFICES ASSUME NEW d \in Chores, Live(Close(d))'
                 PROVE  d \in Open' /\ row'[Close(d)].task = link'[d]
      BY DEF CloseHasItsLink
    <3>1. Close(d) \in Keys \ {Close(c)} /\ Live(Close(d)) /\ d # c
      BY <2>9, KeysOfChores
    <3> QED
      BY <1>2, <2>8, <2>10, <3>1 DEF Books, CloseHasItsLink
  <2>13. Accounted'
    <3> SUFFICES ASSUME NEW d \in Chores, NEW t \in todo[d]
                 PROVE  \/ t = link'[d] \/ t \in writtenOff'[d]
                        \/ t = made[d] /\ (Live(Create(d))' \/ Absorbed(Create(d))')
      BY <1>0 DEF Accounted
    <3>1. /\ Live(Create(d))' <=> Live(Create(d))
          /\ Absorbed(Create(d))' <=> Absorbed(Create(d))
      BY <2>9, KeysOfChores
    <3>2. t = link[d] => d # c
      BY <2>7
    <3> QED
      BY <1>2, <2>8, <2>10, <3>1, <3>2 DEF Books, Accounted
  <2> QED
    BY <1>0, <1>2, <1>4, <2>4, <2>5, <2>6, <2>11, <2>12, <2>13 DEF Books
<1> QED
  BY <1>7, <1>8, <1>9, <1>11, <1>12 DEF RowOutcome

(* The member, the passing of time, and a crash.                               *)
LEMMA OthersSteady == ASSUME SafeInv, Member \/ TimePasses \/ Crash PROVE Steady'
<1> SUFFICES ASSUME ~left' PROVE ~flushed' /\ Books' /\ Duties'
  BY DEF Steady
<1>1. ASSUME flushed' => flushed, left' <=> left, UNCHANGED <<link, todo, made, writtenOff>>,
             \A k \in Keys : row'[k].status = row[k].status /\ row'[k].task = row[k].task,
             worker' = worker \/ worker' = Idle
      PROVE  ~flushed' /\ Books' /\ Duties'
  <2>1. ~flushed /\ Books /\ Duties /\ TypeInv
    BY <1>1 DEF SafeInv, Steady
  <2>2. Books'
    BY <1>1, <2>1, BooksFrame
  <2>3. CASE worker' = Idle
    BY <1>1, <2>1, <2>2, <2>3
    DEF Idle, Duties, PlanIsCurrent, ItemsAreNeeded, ClaimsAreLive, AnswerFits
  <2>4. CASE worker' = worker
    <3>1. worker.queue \subseteq Keys /\ \A c \in Chores : Create(c) \in Keys
      BY <2>1, KeysOfChores DEF TypeInv, TypeOK, Tick
    <3>2. Open' = Open /\ \A k \in Keys : (Live(k)' <=> Live(k)) /\ (Absorbed(k)' <=> Absorbed(k))
      BY <1>1 DEF Open, Shown, Live, Absorbed
    <3>3. PlanIsCurrent' /\ ClaimsAreLive'
      BY <1>1, <2>1, <2>4, <3>1, <3>2 DEF Duties, PlanIsCurrent, ClaimsAreLive
    <3>4. ItemsAreNeeded'
      BY <2>1, <2>4, <3>1, <3>2 DEF Duties, ItemsAreNeeded
    <3>5. AnswerFits'
      <4>1. worker.pc = "settle" => worker.key \in Keys
        BY <2>1, <3>1 DEF TypeInv, KeyIsClaimed, Sending
      <4> QED
        BY <1>1, <2>1, <2>4, <4>1 DEF Duties, AnswerFits
    <3> QED
      BY <1>1, <2>1, <2>2, <3>3, <3>4, <3>5 DEF Duties
  <2> QED
    BY <1>1, <2>3, <2>4
<1>2. CASE OwnershipChanges \/ MemberToggled \/ Connect \/ TestFindsBadToken
  <2>1. UNCHANGED <<row, link, external, worker, flushed, history>>
    BY <1>2 DEF OwnershipChanges, MemberToggled, Connect, TestFindsBadToken
  <2> QED
    BY <1>1, <2>1 DEF external, history
<1>3. CASE FlushLinks
  BY <1>3 DEF FlushLinks
<1>4. CASE Disconnect
  BY <1>4 DEF Disconnect, SafeInv, Steady, history
<1>5. CASE TimePasses
  <2>1. ASSUME NEW k \in Keys, BackoffEnds(k) PROVE ~flushed' /\ Books' /\ Duties'
    <3>1. row[k] \in Row /\ row \in [Keys -> Row]
      BY DEF SafeInv, TypeInv, TypeOK
    <3>2. row' = [row EXCEPT ![k] = [row[k] EXCEPT !.due = TRUE]]
      BY <2>1, <3>1 DEF BackoffEnds
    <3>3. /\ [row[k] EXCEPT !.due = TRUE].task = row[k].task
          /\ [row[k] EXCEPT !.due = TRUE].status = row[k].status
      BY <3>1 DEF Row
    <3>4. \A j \in Keys : row'[j].status = row[j].status /\ row'[j].task = row[j].task
      BY <3>1, <3>2, <3>3
    <3> QED
      BY <1>1, <2>1, <3>4 DEF BackoffEnds, external, history
  <2>2. ASSUME NEW k \in Keys, CooldownEnds(k) \/ DeadRowAges(k)
        PROVE  ~flushed' /\ Books' /\ Duties'
    <3>1. UNCHANGED <<row, link, external, worker, flushed, history>>
      BY <2>2 DEF CooldownEnds, DeadRowAges
    <3> QED
      BY <1>1, <3>1 DEF external, history
  <2> QED
    BY <1>5, <2>1, <2>2 DEF TimePasses
<1>6. CASE Crash
  <2>1. UNCHANGED <<row, link, external, history>> /\ worker' = Idle /\ ~flushed'
    BY <1>6 DEF Crash
  <2>2. ~flushed
    BY <2>1 DEF SafeInv, Steady, history
  <2> QED
    BY <1>1, <2>1, <2>2 DEF external, history
<1> QED
  BY <1>2, <1>3, <1>4, <1>5, <1>6 DEF Member

LEMMA SafeStep == SafeInv /\ [Next]_vars => SafeInv'
<1> SUFFICES ASSUME SafeInv, [Next]_vars PROVE Steady'
  BY TypeStep DEF SafeInv
<1>1. CASE Work
  BY <1>1, ReconcileSteady, CallSteady, OutcomeSteady DEF Work, RowOutcome
<1>2. CASE UNCHANGED vars
  <2>1. ~left => ~flushed' /\ Books /\ Duties
    BY <1>2 DEF vars, SafeInv, Steady
  <2>2. Books => Books'
    BY <1>2 DEF vars, Books, LinkSettlesCreate, CloseHasItsLink, Accounted, Open, Shown, Live,
                Absorbed
  <2>3. Duties => Duties'
    BY <1>2 DEF vars, Duties, PlanIsCurrent, ItemsAreNeeded, ClaimsAreLive, AnswerFits, Open,
                Shown, Live, Absorbed
  <2> QED
    BY <1>2, <2>1, <2>2, <2>3 DEF vars, Steady
<1> QED
  BY <1>1, <1>2, OthersSteady DEF Next

LEMMA SafeAlways == Spec => []SafeInv
<1>1. Init => SafeInv
  BY TypeInit, SteadyInit DEF SafeInv
<1> QED
  BY <1>1, SafeStep, PTL DEF Spec

-----------------------------------------------------------------------------
(* Until the first disconnect no open task is forgotten: crashes, lost answers *)
(* and retries leave each one on its link, on a row that will be sent again or *)
(* stays ORPHANED, or with a row that was given up (dispatchOutbox,            *)
(* runReconciliation).                                                         *)
THEOREM NoTaskIsForgotten == Spec => []EveryTaskAccounted
<1>1. SafeInv => EveryTaskAccounted
  BY DEF SafeInv, Steady, Books, Accounted, EveryTaskAccounted
<1> QED
  BY <1>1, SafeAlways, PTL

(* Nor is a second one made: a CREATE row is never queued or kept beside an    *)
(* open link, and a command repeated under its row's uuid makes no task.       *)
THEOREM NoSecondTask == Spec => []OneTaskPerChore
<1>1. ASSUME SafeInv PROVE OneTaskPerChore
  <2> SUFFICES ASSUME ~left, NEW c \in Chores
               PROVE  Cardinality(todo[c] \ writtenOff[c]) <= 1
    BY DEF OneTaskPerChore
  <2>1. Books /\ link \in [Chores -> Tasks \cup {NoTask}]
    BY <1>1 DEF SafeInv, Steady, TypeInv, TypeOK
  <2>2. PICK t : todo[c] \ writtenOff[c] \subseteq {t}
    <3>1. CASE c \in Open
      BY <2>1, <3>1 DEF Books, LinkSettlesCreate, Accounted
    <3>2. CASE c \notin Open
      <4>1. link[c] = NoTask /\ NoTask \notin todo[c]
        BY <1>1, <3>2 DEF Open, Shown, SafeInv, TypeInv, TypeOK, Tasks, NoTask
      <4> QED
        BY <2>1, <4>1 DEF Books, Accounted
    <3> QED
      BY <3>1, <3>2
  <2>3. IsFiniteSet({t}) /\ Cardinality({t}) = 1
    BY FS_Singleton
  <2>4. /\ IsFiniteSet(todo[c] \ writtenOff[c])
        /\ Cardinality(todo[c] \ writtenOff[c]) <= Cardinality({t})
    BY <2>2, <2>3, FS_Subset
  <2> QED
    BY <2>3, <2>4
<1> QED
  BY <1>1, SafeAlways, PTL

-----------------------------------------------------------------------------
(* Push.  The browsers: no two have the same subscription, and one that the    *)
(* push service has not given out has no row.                                  *)
BrowsersInv ==
    /\ LastSubscriberOwns
    /\ \A c, d \in Devices : browser[c] = browser[d] /\ browser[c] # NoEndpoint => c = d
    /\ \A e \in Endpoints : minted < e => owner[e] = None

(* The passes: at most one is under way, and what it holds is still stored.    *)
UnderWay(p) == pass[p].phase # "idle"

OnePassInv ==
    \A p \in Passes :
        /\ UnderWay(p) => running /\ \A q \in Passes \ {p} : ~UnderWay(q)
        /\ ~UnderWay(p) => pass[p] = NoPush
        /\ pass[p].rows \subseteq pass[p].claimed /\ pass[p].claimed \subseteq outbox
        /\ pass[p].phase = "households" => pass[p].rows = {} /\ pass[p].note = 0
        /\ pass[p].phase # "rows" => pass[p].subs = {}
        /\ pass[p].subs # {} => pass[p].note \in pass[p].rows

(* A pass is past pushing a note to an endpoint.                               *)
PastSending(p, n, e) ==
    /\ n \in pass[p].rows
    /\ \/ pass[p].phase = "delete"
       \/ /\ pass[p].phase = "rows"
          /\ n < pass[p].note \/ (n = pass[p].note /\ e \notin pass[p].subs)

(* What was pushed was pushed once, and is deleted or about to be, unless a    *)
(* pass that had claimed it was cut off.                                       *)
SentInv ==
    \A x \in DOMAIN sent :
        /\ x \in (1 .. Len(to)) \X Endpoints /\ sent[x] \in Nat
        /\ x[1] \in hurt \/ ( /\ sent[x] = 1
                              /\ x[1] \in outbox => \E p \in Passes : PastSending(p, x[1], x[2]) )

PushInv == PushTypeOK /\ Len(to) <= MaxNotes /\ BrowsersInv /\ OnePassInv /\ SentInv

PassRecord == [phase : {"idle", "households", "rows", "delete"}, claimed : SUBSET Notes,
               rows : SUBSET Notes, note : 0 .. MaxNotes, subs : SUBSET Endpoints]

LEMMA NoPushTyped ==
    /\ NoPush \in PassRecord /\ NoPush.phase = "idle" /\ NoPush.claimed = {}
    /\ NoPush.rows = {} /\ NoPush.note = 0 /\ NoPush.subs = {}
BY PushAssumption DEF NoPush, PassRecord

LEMMA PushInitially == PushInit => PushInv
<1> SUFFICES ASSUME PushInit PROVE PushInv
  OBVIOUS
<1>1. PushTypeOK /\ Len(to) <= MaxNotes
  <2>1. to = <<>> /\ to \in Seq(Members) /\ Len(to) = 0 /\ outbox \subseteq 1 .. Len(to)
    BY DEF PushInit
  <2>2. pass \in [Passes -> PassRecord]
    BY NoPushTyped DEF PushInit
  <2>3. minted = 0 /\ 0 \in 0 .. MaxEndpoints /\ 0 <= MaxNotes
    BY PushAssumption DEF PushInit
  <2>4. /\ browser \in [Devices -> 0 .. minted] /\ stored \in [Devices -> 0 .. minted]
        /\ posting \in [Devices -> BOOLEAN] /\ running \in BOOLEAN
    <3>1. 0 \in 0 .. minted
      BY <2>3
    <3> QED
      BY <3>1 DEF PushInit, NoEndpoint
  <2>5. /\ enabled \in [Households -> BOOLEAN] /\ owner \in [Endpoints -> Members \cup {None}]
        /\ session \in [Devices -> Members \cup {None}]
        /\ subscriber \in [Devices -> Members \cup {None}]
    BY DEF PushInit
  <2> QED
    BY <2>1, <2>2, <2>3, <2>4, <2>5 DEF PushTypeOK, PassRecord
<1>2. BrowsersInv
  BY DEF PushInit, BrowsersInv, LastSubscriberOwns
<1>3. OnePassInv
  BY NoPushTyped DEF PushInit, OnePassInv, UnderWay
<1>4. SentInv
  BY DEF PushInit, SentInv
<1> QED
  BY <1>1, <1>2, <1>3, <1>4 DEF PushInv

(* A step that moves neither outbox, passes nor what was sent.                 *)
LEMMA WorkerUntouched ==
    ASSUME PushInv, UNCHANGED <<outbox, pass, sent, hurt, running, to>>
    PROVE  OnePassInv' /\ SentInv' /\ Len(to') <= MaxNotes
BY DEF PushInv, OnePassInv, SentInv, UnderWay, PastSending

LEMMA BrowserStepsKeep ==
    ASSUME PushInv, NEW d \in Devices,
           \/ SubscribeBrowser(d) \/ PostSubscription(d) \/ PostFails(d)
           \/ Unsubscribe(d) \/ Logout(d) \/ ForcedReload(d)
           \/ \E m \in Members : Login(d, m)
    PROVE  PushInv'
<1> USE PushAssumption DEF browserFrame, serverVars, NoEndpoint
<1>1. OnePassInv' /\ SentInv' /\ Len(to') <= MaxNotes
  BY WorkerUntouched DEF SubscribeBrowser, PostSubscription, PostFails, Unsubscribe, Logout,
                         ForcedReload, Login
<1>2. CASE SubscribeBrowser(d)
  <2>1. PushTypeOK'
    BY <1>2 DEF PushInv, PushTypeOK, SubscribeBrowser
  <2>2. BrowsersInv'
    <3>1. CASE browser[d] = NoEndpoint
      <4>1. minted' = minted + 1 /\ minted + 1 \in Endpoints /\ minted \in Nat
        BY <1>2, <3>1 DEF PushInv, PushTypeOK, SubscribeBrowser, Endpoints
      <4>2. browser' = [browser EXCEPT ![d] = minted + 1]
        BY <1>2, <3>1 DEF SubscribeBrowser
      <4>3. owner' = owner /\ owner[minted + 1] = None /\ subscriber' = subscriber
        BY <1>2, <4>1 DEF SubscribeBrowser, PushInv, BrowsersInv
      <4>4. \A c \in Devices : browser[c] \in 0 .. minted
        BY DEF PushInv, PushTypeOK
      <4> QED
        BY <4>1, <4>2, <4>3, <4>4 DEF PushInv, PushTypeOK, BrowsersInv, LastSubscriberOwns, Endpoints
    <3>2. CASE browser[d] # NoEndpoint
      BY <1>2, <3>2 DEF PushInv, BrowsersInv, LastSubscriberOwns, SubscribeBrowser
    <3> QED
      BY <3>1, <3>2
  <2> QED
    BY <1>1, <2>1, <2>2 DEF PushInv
<1>3. CASE PostSubscription(d)
  <2>1. browser[d] \in Endpoints /\ browser[d] <= minted /\ session[d] \in Members
    BY <1>3 DEF PushInv, PushTypeOK, PostSubscription, Endpoints
  <2>2. PushTypeOK'
    BY <1>3, <2>1 DEF PushInv, PushTypeOK, PostSubscription, Upsert
  <2>3. BrowsersInv'
    BY <1>3, <2>1 DEF PushInv, PushTypeOK, BrowsersInv, LastSubscriberOwns, PostSubscription, Upsert, Endpoints
  <2> QED
    BY <1>1, <2>2, <2>3 DEF PushInv
<1>4. CASE Unsubscribe(d)
  <2>1. /\ browser' = [browser EXCEPT ![d] = NoEndpoint] /\ minted' = minted
        /\ subscriber' = subscriber
    BY <1>4 DEF Unsubscribe
  <2>2. \/ owner' = owner
        \/ \E e \in Endpoints : owner' = [owner EXCEPT ![e] = None]
    BY <1>4 DEF Unsubscribe, DeleteOwn, PushInv, PushTypeOK, Endpoints
  <2>3. PushTypeOK'
    BY <1>4, <2>1, <2>2 DEF PushInv, PushTypeOK, Unsubscribe
  <2>4. BrowsersInv'
    <3>1. \A e \in Endpoints : owner'[e] = owner[e] \/ owner'[e] = None
      BY <2>2 DEF PushInv, PushTypeOK
    <3>2. \A c \in Devices : browser[c] # NoEndpoint => browser[c] \in Endpoints
      BY DEF PushInv, PushTypeOK, Endpoints
    <3>3. \A c \in Devices : browser'[c] = IF c = d THEN NoEndpoint ELSE browser[c]
      BY <2>1 DEF PushInv, PushTypeOK
    <3> QED
      BY <2>1, <3>1, <3>2, <3>3 DEF PushInv, BrowsersInv, LastSubscriberOwns
  <2> QED
    BY <1>1, <2>3, <2>4 DEF PushInv
<1>5. CASE PostFails(d)
  <2>1. /\ UNCHANGED <<minted, browser, stored, session>> /\ browserFrame
        /\ posting' = [posting EXCEPT ![d] = FALSE]
        /\ \/ UNCHANGED <<owner, subscriber>>
           \/ /\ session[d] # None /\ browser[d] # NoEndpoint
              /\ owner' = [owner EXCEPT ![browser[d]] = session[d]]
              /\ subscriber' = [subscriber EXCEPT ![d] = session[d]]
    BY <1>5 DEF PostFails, Upsert
  <2>2. CASE UNCHANGED <<owner, subscriber>>
    BY <1>1, <2>1, <2>2 DEF PushInv, PushTypeOK, BrowsersInv, LastSubscriberOwns
  <2>3. CASE ~UNCHANGED <<owner, subscriber>>
    <3>1. browser[d] \in Endpoints /\ browser[d] <= minted /\ session[d] \in Members
      BY <2>1, <2>3 DEF PushInv, PushTypeOK, Endpoints
    <3>2. PushTypeOK'
      BY <2>1, <2>3, <3>1 DEF PushInv, PushTypeOK
    <3>3. /\ UNCHANGED <<minted, browser>>
          /\ owner' = [owner EXCEPT ![browser[d]] = session[d]]
          /\ subscriber' = [subscriber EXCEPT ![d] = session[d]]
      BY <2>1, <2>3
    <3>4. /\ owner \in [Endpoints -> Members \cup {None}]
          /\ subscriber \in [Devices -> Members \cup {None}]
          /\ \A c \in Devices : browser[c] # NoEndpoint => browser[c] \in Endpoints
      BY DEF PushInv, PushTypeOK, Endpoints
    <3>5. BrowsersInv'
      <4> DEFINE e == browser[d]
                 m == session[d]
      <4>1. /\ \A c, b \in Devices : browser[c] = browser[b] /\ browser[c] # NoEndpoint => c = b
            /\ \A f \in Endpoints : minted < f => owner[f] = None
            /\ \A c \in Devices : browser[c] # NoEndpoint /\ owner[browser[c]] # None
                  => owner[browser[c]] = subscriber[c]
        BY DEF PushInv, BrowsersInv, LastSubscriberOwns
      <4>2. /\ \A f \in Endpoints : owner'[f] = IF f = e THEN m ELSE owner[f]
            /\ \A c \in Devices : subscriber'[c] = IF c = d THEN m ELSE subscriber[c]
        BY <3>3, <3>4
      <4>3. e # NoEndpoint /\ e \in Endpoints /\ e <= minted /\ minted \in Nat
        BY <2>1, <2>3, <3>1 DEF PushInv, PushTypeOK
      <4>4. ASSUME NEW c \in Devices, browser[c] # NoEndpoint, owner'[browser[c]] # None
            PROVE  owner'[browser[c]] = subscriber'[c]
        <5>1. CASE c = d
          BY <4>2, <4>3, <5>1
        <5>2. CASE c # d
          <6>1. browser[c] # e /\ browser[c] \in Endpoints
            BY <3>4, <4>1, <4>4, <5>2
          <6> QED
            BY <4>1, <4>2, <4>4, <5>2, <6>1
        <5> QED
          BY <5>1, <5>2
      <4>5. \A f \in Endpoints : minted < f => owner'[f] = None
        BY <4>1, <4>2, <4>3 DEF Endpoints
      <4> HIDE DEF e, m
      <4> QED
        BY <3>3, <4>1, <4>4, <4>5 DEF BrowsersInv, LastSubscriberOwns
    <3> QED
      BY <1>1, <3>2, <3>5 DEF PushInv
  <2> QED
    BY <2>2, <2>3
<1>7. CASE ForcedReload(d)
  <2>1. browser' = [browser EXCEPT ![d] = NoEndpoint]
    BY <1>7 DEF ForcedReload
  <2>2. browser' \in [Devices -> 0 .. minted]
    <3>1. minted \in Nat /\ 0 \in 0 .. minted /\ browser \in [Devices -> 0 .. minted]
      BY DEF PushInv, PushTypeOK
    <3> QED
      BY <2>1, <3>1
  <2>3. /\ posting' = [posting EXCEPT ![d] = FALSE]
        /\ UNCHANGED <<owner, minted, stored, session, subscriber>> /\ browserFrame
    BY <1>7 DEF ForcedReload
  <2>4. PushTypeOK'
    BY <2>2, <2>3 DEF PushInv, PushTypeOK
  <2>5. BrowsersInv'
    BY <1>7 DEF PushInv, PushTypeOK, BrowsersInv, LastSubscriberOwns, ForcedReload
  <2> QED
    BY <1>1, <2>4, <2>5 DEF PushInv
<1>6. CASE Logout(d) \/ \E m \in Members : Login(d, m)
  <2>1. PushTypeOK'
    BY <1>6 DEF PushInv, PushTypeOK, Logout, Login
  <2>2. BrowsersInv'
    BY <1>6 DEF PushInv, BrowsersInv, LastSubscriberOwns, Logout, Login
  <2> QED
    BY <1>1, <2>1, <2>2 DEF PushInv
<1> QED
  BY <1>2, <1>3, <1>4, <1>5, <1>6, <1>7

LEMMA NoticesKeep ==
    ASSUME PushInv, (\E m \in Members : Emit(m)) \/ (\E h \in Households : TogglePush(h))
    PROVE  PushInv'
<1> USE PushAssumption DEF deviceVars
<1>1. CASE \E h \in Households : TogglePush(h)
  <2>1. OnePassInv' /\ SentInv' /\ Len(to') <= MaxNotes
    BY <1>1, WorkerUntouched DEF TogglePush
  <2> QED
    BY <1>1, <2>1 DEF PushInv, PushTypeOK, TogglePush, BrowsersInv, LastSubscriberOwns
<1>2. ASSUME NEW m \in Members, Emit(m) PROVE PushInv'
  <2>1. /\ to' \in Seq(Members) /\ Len(to') = Len(to) + 1 /\ Len(to) \in Nat /\ Len(to') <= MaxNotes
        /\ outbox' = outbox \cup {Len(to) + 1}
    BY <1>2 DEF Emit, PushInv, PushTypeOK
  <2>2. UNCHANGED <<enabled, owner, deviceVars, running, pass, sent, hurt>>
    BY <1>2 DEF Emit
  <2>3. PushTypeOK' /\ BrowsersInv'
    <3>1. outbox' \subseteq 1 .. Len(to')
      <4>1. outbox \subseteq 1 .. Len(to)
        BY DEF PushInv, PushTypeOK
      <4>2. ASSUME NEW k \in outbox' PROVE k \in 1 .. Len(to')
        <5>1. CASE k = Len(to) + 1
          BY <2>1, <5>1
        <5>2. CASE k \in outbox
          BY <2>1, <4>1, <5>2
        <5> QED
          BY <2>1, <5>1, <5>2
      <4> QED
        BY <4>2
    <3> QED
      BY <2>1, <2>2, <3>1 DEF PushInv, PushTypeOK, BrowsersInv, LastSubscriberOwns
  <2>4. OnePassInv'
    BY <2>1, <2>2 DEF PushInv, OnePassInv, UnderWay
  <2>5. SentInv'
    BY <2>1, <2>2 DEF PushInv, SentInv, PastSending
  <2> QED
    BY <2>1, <2>3, <2>4, <2>5 DEF PushInv
<1> QED
  BY <1>1, <1>2

(* What a step of one pass leaves of the others.                               *)
LEMMA OthersRest ==
    ASSUME PushInv, NEW p \in Passes, UnderWay(p), NEW r \in PassRecord, Become(p, r)
    PROVE  /\ pass' \in [Passes -> PassRecord] /\ pass'[p] = r
           /\ \A q \in Passes \ {p} : pass'[q] = pass[q] /\ pass[q] = NoPush
BY DEF PushInv, PushTypeOK, OnePassInv, UnderWay, Become, PassRecord

(* A step of the pass under way keeps the invariant when the pass it becomes   *)
(* holds no more than before and is past sending what it was past sending.     *)
LEMMA PassMoves ==
    ASSUME PushInv, NEW p \in Passes, UnderWay(p), NEW r \in PassRecord, Become(p, r),
           UNCHANGED <<outbox, running, sent, hurt>>, dispatchFrame,
           owner' \in [Endpoints -> Members \cup {None}],
           \A e \in Endpoints : owner'[e] = owner[e] \/ owner'[e] = None,
           r.phase # "idle", r.rows \subseteq r.claimed, r.claimed \subseteq pass[p].claimed,
           r.phase = "households" => r.rows = {} /\ r.note = 0,
           r.phase # "rows" => r.subs = {},
           r.subs # {} => r.note \in r.rows,
           \A x \in DOMAIN sent : PastSending(p, x[1], x[2]) => PastSending(p, x[1], x[2])'
    PROVE  PushInv'
<1>1. /\ pass' \in [Passes -> PassRecord] /\ pass'[p] = r
      /\ \A q \in Passes \ {p} : pass'[q] = pass[q] /\ pass[q] = NoPush
  BY OthersRest
<1>2. PushTypeOK' /\ Len(to') <= MaxNotes
  BY <1>1 DEF PushInv, PushTypeOK, PassRecord, dispatchFrame, deviceVars
<1>3. BrowsersInv'
  BY PushAssumption DEF PushInv, PushTypeOK, BrowsersInv, LastSubscriberOwns, dispatchFrame, deviceVars, Endpoints, NoEndpoint
<1>4. OnePassInv'
  <2> SUFFICES ASSUME NEW q \in Passes
               PROVE  /\ UnderWay(q)' => running' /\ \A o \in Passes \ {q} : ~UnderWay(o)'
                      /\ ~UnderWay(q)' => pass'[q] = NoPush
                      /\ pass'[q].rows \subseteq pass'[q].claimed /\ pass'[q].claimed \subseteq outbox'
                      /\ pass'[q].phase = "households" => pass'[q].rows = {} /\ pass'[q].note = 0
                      /\ pass'[q].phase # "rows" => pass'[q].subs = {}
                      /\ pass'[q].subs # {} => pass'[q].note \in pass'[q].rows
    BY DEF OnePassInv, UnderWay
  <2>1. running /\ pass[p].claimed \subseteq outbox
    BY DEF PushInv, OnePassInv
  <2>2. CASE q = p
    BY <1>1, <2>1, <2>2, NoPushTyped DEF UnderWay
  <2>3. CASE q # p
    BY <1>1, <2>3, NoPushTyped DEF UnderWay
  <2> QED
    BY <2>2, <2>3
<1>5. SentInv'
  <2>1. \A q \in Passes \ {p} : \A n, e : ~PastSending(q, n, e)
    BY <1>1, NoPushTyped DEF PastSending
  <2>2. \A x \in DOMAIN sent : x[1] \in hurt \/ ( /\ sent[x] = 1
                                                  /\ x[1] \in outbox => PastSending(p, x[1], x[2]))
    BY <2>1 DEF PushInv, SentInv
  <2> QED
    BY <2>2 DEF PushInv, SentInv, dispatchFrame
<1> QED
  BY <1>2, <1>3, <1>4, <1>5 DEF PushInv

LEMMA ReadEnabledKeeps ==
    ASSUME PushInv, NEW p \in Passes, NEW h \in Households, ReadEnabled(p, h)
    PROVE  PushInv'
<1>1. PICK ph \in {"rows", "delete"} :
           Become(p, [pass[p] EXCEPT !.phase = ph, !.rows = RowsOf(p, h)])
  BY DEF ReadEnabled
<1> DEFINE r == [pass[p] EXCEPT !.phase = ph, !.rows = RowsOf(p, h)]
<1>2. pass[p] \in PassRecord /\ pass[p].phase = "households" /\ pass[p].rows = {} /\ UnderWay(p)
  BY DEF ReadEnabled, PushInv, PushTypeOK, PassRecord, OnePassInv, UnderWay
<1>3. RowsOf(p, h) \subseteq pass[p].claimed
  BY DEF RowsOf
<1>4. /\ r \in PassRecord /\ r.phase = ph /\ r.rows = RowsOf(p, h) /\ r.claimed = pass[p].claimed
      /\ r.note = pass[p].note /\ r.subs = pass[p].subs
  BY <1>2, <1>3 DEF PassRecord
<1>5. pass[p].subs = {}
  BY <1>2 DEF PushInv, OnePassInv
<1>6. UNCHANGED <<outbox, owner, running, sent, hurt>> /\ dispatchFrame
  BY DEF ReadEnabled
<1>7. owner \in [Endpoints -> Members \cup {None}]
  BY DEF PushInv, PushTypeOK
<1>8. \A x \in DOMAIN sent : ~PastSending(p, x[1], x[2])
  BY <1>2 DEF PastSending
<1>9. Become(p, r)
  BY <1>1
<1> QED
  <2> HIDE DEF r
  <2> QED
    BY <1>2, <1>3, <1>4, <1>5, <1>6, <1>7, <1>8, <1>9, PassMoves

LEMMA LoadSubscriptionsKeeps ==
    ASSUME PushInv, NEW p \in Passes, LoadSubscriptions(p)
    PROVE  PushInv'
<1> DEFINE open == {n \in pass[p].rows : n > pass[p].note}
<1>1. /\ pass[p] \in PassRecord /\ pass[p].phase = "rows" /\ pass[p].subs = {} /\ UnderWay(p)
      /\ pass[p].rows \subseteq pass[p].claimed
  BY DEF LoadSubscriptions, PushInv, PushTypeOK, PassRecord, OnePassInv, UnderWay
<1>2. UNCHANGED <<outbox, owner, running, sent, hurt>> /\ dispatchFrame
  BY DEF LoadSubscriptions
<1>3. owner \in [Endpoints -> Members \cup {None}]
  BY DEF PushInv, PushTypeOK
<1>4. CASE open = {}
  <2> DEFINE r == [pass[p] EXCEPT !.phase = "delete"]
  <2>1. Become(p, r)
    BY <1>4 DEF LoadSubscriptions
  <2>2. /\ r \in PassRecord /\ r.phase = "delete" /\ r.rows = pass[p].rows
        /\ r.claimed = pass[p].claimed /\ r.subs = {}
    BY <1>1 DEF PassRecord
  <2>3. pass'[p] = r
    BY <1>1, <2>1, <2>2, OthersRest
  <2>4. \A x \in DOMAIN sent : PastSending(p, x[1], x[2]) => PastSending(p, x[1], x[2])'
    BY <2>2, <2>3 DEF PastSending
  <2> HIDE DEF r
  <2> QED
    BY <1>1, <1>2, <1>3, <2>1, <2>2, <2>4, PassMoves
<1>5. CASE open # {}
  <2> DEFINE n == Oldest(open)
  <2>1. n \in open /\ \A k \in open : n <= k
    <3>1. open \in SUBSET Nat
      BY <1>1 DEF PassRecord, Notes
    <3>2. \E k \in open : \A j \in open : k <= j
      <4> HIDE DEF open
      <4> QED  BY <1>5, <3>1, SmallestOf
    <3> HIDE DEF open
    <3> QED  BY <3>2 DEF Oldest
  <2>2. PICK subs \in SUBSET Endpoints : Become(p, [pass[p] EXCEPT !.note = n, !.subs = subs])
    <3>1. \/ Become(p, [pass[p] EXCEPT !.note = n, !.subs = {e \in Endpoints : owner[e] = to[n]}])
          \/ Become(p, [pass[p] EXCEPT !.note = n])
      BY <1>5 DEF LoadSubscriptions
    <3>2. [pass[p] EXCEPT !.note = n] = [pass[p] EXCEPT !.note = n, !.subs = {}]
      BY <1>1 DEF PassRecord
    <3> QED
      BY <3>1, <3>2
  <2> DEFINE r == [pass[p] EXCEPT !.note = n, !.subs = subs]
  <2> HIDE DEF n
  <2>3. n \in pass[p].rows /\ n > pass[p].note /\ n \in Notes /\ n \in 0 .. MaxNotes /\ n \in Nat
    <3>1. n \in pass[p].rows /\ n > pass[p].note /\ n \in Notes
      BY <2>1, <1>1 DEF PassRecord
    <3> QED
      BY <3>1, PushAssumption DEF Notes
  <2>4. /\ r \in PassRecord /\ r.phase = "rows" /\ r.rows = pass[p].rows
        /\ r.claimed = pass[p].claimed /\ r.subs = subs /\ r.note = n
    BY <1>1, <2>3 DEF PassRecord
  <2> HIDE DEF r
  <2>5. pass'[p] = r
    BY <1>1, <2>2, <2>4, OthersRest DEF r
  <2>6. \A x \in DOMAIN sent : PastSending(p, x[1], x[2]) => PastSending(p, x[1], x[2])'
    <3> SUFFICES ASSUME NEW x \in DOMAIN sent, PastSending(p, x[1], x[2])
                 PROVE  PastSending(p, x[1], x[2])'
      OBVIOUS
    <3>1. x[1] \in pass[p].rows /\ x[1] \in Nat /\ pass[p].note \in Nat /\ x[1] <= pass[p].note
      BY <1>1 DEF PastSending, PassRecord, Notes
    <3> QED
      BY <2>3, <2>4, <2>5, <3>1 DEF PastSending
  <2> QED
    BY <1>1, <1>2, <1>3, <2>2, <2>3, <2>4, <2>6, PassMoves DEF r
<1> QED
  BY <1>4, <1>5

LEMMA SendKeeps ==
    ASSUME PushInv, NEW p \in Passes, NEW e \in Endpoints, Send(p, e)
    PROVE  PushInv'
<1> DEFINE r == [pass[p] EXCEPT !.subs = @ \ {e}]
<1>0. PICK n : n = pass[p].note
  OBVIOUS
<1>1. /\ pass[p] \in PassRecord /\ pass[p].phase = "rows" /\ e \in pass[p].subs /\ UnderWay(p)
      /\ n \in pass[p].rows /\ n \in outbox /\ n \in 1 .. Len(to)
      /\ pass[p].rows \subseteq pass[p].claimed
  BY <1>0 DEF Send, PushInv, PushTypeOK, PassRecord, OnePassInv, UnderWay
<1>2. /\ r \in PassRecord /\ r.phase = "rows" /\ r.rows = pass[p].rows /\ r.note = n
      /\ r.claimed = pass[p].claimed /\ r.subs = pass[p].subs \ {e}
  BY <1>0, <1>1 DEF PassRecord
<1>3. Become(p, r) /\ UNCHANGED <<outbox, running, hurt>> /\ dispatchFrame
  BY DEF Send
<1>4. /\ pass'[p] = r
      /\ \A q \in Passes \ {p} : pass'[q] = pass[q] /\ pass[q] = NoPush
  <2> HIDE DEF r
  <2> QED
    BY <1>1, <1>2, <1>3, OthersRest
<1>5. \A x \in DOMAIN sent : PastSending(p, x[1], x[2]) => PastSending(p, x[1], x[2])'
  <2> HIDE DEF r
  <2> SUFFICES ASSUME NEW x \in DOMAIN sent, PastSending(p, x[1], x[2])
               PROVE  PastSending(p, x[1], x[2])'
    OBVIOUS
  <2> QED
    BY <1>0, <1>1, <1>2, <1>4 DEF PastSending
<1>6. /\ owner' \in [Endpoints -> Members \cup {None}]
      /\ \A f \in Endpoints : owner'[f] = owner[f] \/ owner'[f] = None
  BY DEF Send, PushInv, PushTypeOK
<1>7. CASE UNCHANGED sent
  <2> HIDE DEF r
  <2> QED
    BY <1>0, <1>1, <1>2, <1>3, <1>5, <1>6, <1>7, PassMoves
<1>8. CASE Pushed(n, e) /\ UNCHANGED <<owner, mishaps>>
  <2>1. /\ PushTypeOK' /\ Len(to') <= MaxNotes
    <3>1. pass' \in [Passes -> PassRecord]
      <4> HIDE DEF r
      <4> QED
        BY <1>1, <1>2, <1>3, OthersRest
    <3> QED
      BY <1>3, <1>8, <3>1 DEF PushInv, PushTypeOK, PassRecord, dispatchFrame, deviceVars
  <2>2. BrowsersInv'
    BY <1>3, <1>8 DEF PushInv, BrowsersInv, LastSubscriberOwns, dispatchFrame, deviceVars
  <2>3. OnePassInv'
    <3> HIDE DEF r
    <3>1. running
      BY <1>1 DEF PushInv, OnePassInv
    <3>2. pass[p].claimed \subseteq outbox
      BY DEF PushInv, OnePassInv
    <3>3. n \in r.rows
      BY <1>1, <1>2
    <3>4. ASSUME NEW q \in Passes
          PROVE  /\ UnderWay(q)' => running' /\ \A o \in Passes \ {q} : ~UnderWay(o)'
                 /\ ~UnderWay(q)' => pass'[q] = NoPush
                 /\ pass'[q].rows \subseteq pass'[q].claimed /\ pass'[q].claimed \subseteq outbox'
                 /\ pass'[q].phase = "households" => pass'[q].rows = {} /\ pass'[q].note = 0
                 /\ pass'[q].phase # "rows" => pass'[q].subs = {}
                 /\ pass'[q].subs # {} => pass'[q].note \in pass'[q].rows
      <4>1. CASE q = p
        BY <1>1, <1>2, <1>3, <1>4, <3>1, <3>2, <3>3, <4>1, NoPushTyped DEF UnderWay
      <4>2. CASE q # p
        BY <1>2, <1>3, <1>4, <3>1, <4>2, NoPushTyped DEF UnderWay
      <4> QED
        BY <4>1, <4>2
    <3> QED
      BY <3>4 DEF OnePassInv, UnderWay
  <2>4. SentInv'
    <3> HIDE DEF r
    <3>1. PastSending(p, n, e)'
        BY <1>1, <1>2, <1>4 DEF PastSending
    <3>2. \A q \in Passes : ~PastSending(q, n, e)
      BY <1>0, <1>1, <1>4, NoPushTyped DEF PastSending, PassRecord, Notes
    <3>3. <<n, e>> \in DOMAIN sent => n \in hurt
      BY <1>1, <3>2 DEF PushInv, SentInv
    <3>4. \A x \in DOMAIN sent \ {<<n, e>>} : sent'[x] = sent[x]
      BY <1>8 DEF Pushed
    <3>5. /\ DOMAIN sent' = DOMAIN sent \cup {<<n, e>>}
          /\ sent'[<<n, e>>] = Count(n, e) + 1 /\ Count(n, e) \in Nat
          /\ <<n, e>> \in DOMAIN sent \/ Count(n, e) = 0
      BY <1>8 DEF Pushed, Count, PushInv, SentInv
    <3> SUFFICES ASSUME NEW x \in DOMAIN sent'
                 PROVE  /\ x \in (1 .. Len(to)') \X Endpoints /\ sent'[x] \in Nat
                        /\ x[1] \in hurt' \/ ( /\ sent'[x] = 1
                                               /\ x[1] \in outbox' => \E q \in Passes : PastSending(q, x[1], x[2])' )
      BY DEF SentInv
    <3>6. QED
      <4>0. to' = to /\ hurt' = hurt /\ outbox' = outbox
        BY <1>3 DEF dispatchFrame
      <4>1. CASE x = <<n, e>>
        BY <1>1, <3>1, <3>3, <3>5, <4>0, <4>1
      <4>2. CASE x # <<n, e>>
        <5>1. x \in DOMAIN sent /\ sent'[x] = sent[x]
          BY <3>4, <3>5, <4>2
        <5>2. /\ x \in (1 .. Len(to)) \X Endpoints /\ sent[x] \in Nat
              /\ x[1] \in hurt \/ ( /\ sent[x] = 1
                                    /\ x[1] \in outbox => \E q \in Passes : PastSending(q, x[1], x[2]) )
          BY <5>1 DEF PushInv, SentInv
        <5>3. \A q \in Passes \ {p} : ~PastSending(q, x[1], x[2])
          BY <1>4, NoPushTyped DEF PastSending
        <5> QED
          BY <1>5, <4>0, <5>1, <5>2, <5>3
      <4> QED
        BY <4>1, <4>2
  <2> QED
    BY <2>1, <2>2, <2>3, <2>4 DEF PushInv
<1> QED
  BY <1>0, <1>7, <1>8 DEF Send

(* A pass ends, or what it holds is let go.                                    *)
LEMMA TickKeeps ==
    ASSUME PushInv, NEW p \in Passes, PushTick(p)
    PROVE  PushInv'
<1> DEFINE r == [NoPush EXCEPT !.phase = "households", !.claimed = Claimed]
<1>1. Claimed \subseteq outbox /\ Claimed \subseteq Notes
  <2>1. Claimed \subseteq outbox
    BY DEF Claimed
  <2>2. outbox \subseteq 1 .. Len(to) /\ Len(to) \in Nat /\ Len(to) <= MaxNotes
    BY DEF PushInv, PushTypeOK
  <2> QED
    BY <2>1, <2>2, PushAssumption DEF Notes
<1>2. /\ r \in PassRecord /\ r.phase = "households" /\ r.claimed = Claimed /\ r.rows = {}
      /\ r.note = 0 /\ r.subs = {}
  BY <1>1, NoPushTyped DEF PassRecord
<1>3. /\ \A q \in Passes : ~UnderWay(q) /\ pass[q] = NoPush
      /\ running' = TRUE /\ UNCHANGED <<outbox, owner, sent, hurt>> /\ dispatchFrame
      /\ pass' = [pass EXCEPT ![p] = r]
  BY DEF PushTick, TickAllowed, PushInv, OnePassInv, Become
<1> HIDE DEF r
<1>4. /\ pass' \in [Passes -> PassRecord] /\ pass'[p] = r
      /\ \A q \in Passes \ {p} : pass'[q] = NoPush
  BY <1>2, <1>3, NoPushTyped DEF PushInv, PushTypeOK, PassRecord
<1>5. PushTypeOK' /\ Len(to') <= MaxNotes
  BY <1>3, <1>4 DEF PushInv, PushTypeOK, PassRecord, dispatchFrame, deviceVars
<1>6. BrowsersInv'
  BY <1>3 DEF PushInv, BrowsersInv, LastSubscriberOwns, dispatchFrame, deviceVars
<1>7. OnePassInv'
  BY <1>1, <1>2, <1>3, <1>4, NoPushTyped DEF OnePassInv, UnderWay
<1>8. SentInv'
  <2>1. \A q \in Passes : \A n, e : ~PastSending(q, n, e)
    BY <1>3, NoPushTyped DEF PastSending
  <2> QED
    BY <1>3, <2>1 DEF PushInv, SentInv, dispatchFrame
<1> QED
  BY <1>5, <1>6, <1>7, <1>8 DEF PushInv

(* The household's rows are deleted, or the deletion fails and they are hurt.  *)
LEMMA LetGoKeeps ==
    ASSUME PushInv, NEW p \in Passes, pass[p].phase = "delete", Become(p, LastOfNote(p)),
           UNCHANGED <<owner, running, sent>>, dispatchFrame,
           \/ outbox' = outbox \ pass[p].rows /\ hurt' = hurt
           \/ outbox' = outbox /\ hurt' = hurt \cup pass[p].rows
    PROVE  PushInv'
<1> DEFINE r == LastOfNote(p)
<1>1. /\ pass[p] \in PassRecord /\ UnderWay(p) /\ pass[p].rows \subseteq pass[p].claimed
      /\ pass[p].claimed \subseteq outbox /\ pass[p].subs = {} /\ running
  BY DEF PushInv, PushTypeOK, PassRecord, OnePassInv, UnderWay
<1>2. /\ r \in PassRecord /\ r.phase = "households" /\ r.rows = {} /\ r.note = 0
      /\ r.claimed = pass[p].claimed \ pass[p].rows /\ r.subs = {}
  <2>1. 0 \in 0 .. MaxNotes
    BY PushAssumption
  <2> QED
    BY <1>1, <2>1 DEF LastOfNote, PassRecord
<1> HIDE DEF r
<1>3. /\ pass' \in [Passes -> PassRecord] /\ pass'[p] = r
      /\ \A q \in Passes \ {p} : pass'[q] = pass[q] /\ pass[q] = NoPush
  BY <1>1, <1>2, OthersRest DEF r
<1>4. r.claimed \subseteq outbox' /\ outbox' \subseteq outbox
  BY <1>1, <1>2
<1>5. PushTypeOK' /\ Len(to') <= MaxNotes
  BY <1>3, <1>4 DEF PushInv, PushTypeOK, PassRecord, dispatchFrame, deviceVars
<1>6. BrowsersInv'
  BY DEF PushInv, BrowsersInv, LastSubscriberOwns, dispatchFrame, deviceVars
<1>7. OnePassInv'
  BY <1>1, <1>2, <1>3, <1>4, NoPushTyped DEF OnePassInv, UnderWay
<1>8. SentInv'
  <2>1. ASSUME NEW x \in DOMAIN sent
        PROVE  x[1] \in hurt' \/ (sent[x] = 1 /\ x[1] \notin outbox')
    <3>1. \A q \in Passes : PastSending(q, x[1], x[2]) => x[1] \in pass[p].rows
      BY <1>3, NoPushTyped DEF PastSending
    <3>2. x[1] \in hurt \/ (sent[x] = 1 /\ (x[1] \in outbox => x[1] \in pass[p].rows))
      BY <3>1 DEF PushInv, SentInv
    <3> QED
      BY <3>2, <1>4
  <2> QED
    BY <2>1 DEF PushInv, SentInv, dispatchFrame
<1> QED
  BY <1>5, <1>6, <1>7, <1>8 DEF PushInv

(* The end of a pass, and of all of them when the process stops.               *)
LEMMA AllIdleKeeps ==
    ASSUME PushInv, pass' = [p \in Passes |-> NoPush], running' = FALSE,
           UNCHANGED <<outbox, owner, sent>>, dispatchFrame,
           hurt \cup UNION {pass[p].rows : p \in Passes} \subseteq hurt'
    PROVE  PushInv'
<1>1. PushTypeOK' /\ Len(to') <= MaxNotes
  BY NoPushTyped DEF PushInv, PushTypeOK, PassRecord, dispatchFrame, deviceVars
<1>2. BrowsersInv'
  BY DEF PushInv, BrowsersInv, LastSubscriberOwns, dispatchFrame, deviceVars
<1>3. OnePassInv'
  BY NoPushTyped DEF OnePassInv, UnderWay
<1>4. SentInv'
  <2>1. ASSUME NEW x \in DOMAIN sent
        PROVE  x[1] \in hurt' \/ (sent[x] = 1 /\ x[1] \notin outbox)
    BY <2>1 DEF PushInv, SentInv, PastSending
  <2> QED
    BY <2>1 DEF PushInv, SentInv, dispatchFrame
<1> QED
  BY <1>1, <1>2, <1>3, <1>4 DEF PushInv

LEMMA PassStepKeeps ==
    ASSUME PushInv, NEW p \in Passes, PassStep(p)
    PROVE  PushInv'
<1>1. CASE DeleteRows(p) \/ HouseholdFails(p)
  BY <1>1, LetGoKeeps DEF DeleteRows, HouseholdFails
<1>2. CASE EndPass(p)
  <2>1. pass[p].phase = "households" /\ pass[p].rows = {}
    BY <1>2 DEF EndPass, PushInv, OnePassInv
  <2>2. \A q \in Passes \ {p} : pass[q] = NoPush
    BY <2>1 DEF PushInv, OnePassInv, UnderWay
  <2>3. pass' = [q \in Passes |-> NoPush]
    BY <1>2, <2>2 DEF EndPass, Become, PushInv, PushTypeOK
  <2>4. \A q \in Passes : pass[q].rows = {}
    BY <2>1, <2>2, NoPushTyped
  <2> QED
    BY <1>2, <2>3, <2>4, AllIdleKeeps DEF EndPass
<1> QED
  BY <1>1, <1>2, TickKeeps, ReadEnabledKeeps, LoadSubscriptionsKeeps, SendKeeps DEF PassStep

LEMMA PushStepKeeps ==
    ASSUME PushInv, [PushNext]_pushVars
    PROVE  PushInv'
<1>1. CASE WorkerDies
  <2>1. \A p \in Passes : pass[p].rows \subseteq pass[p].claimed
    BY DEF PushInv, OnePassInv
  <2>2. hurt \cup UNION {pass[p].rows : p \in Passes} \subseteq hurt'
    BY <1>1, <2>1 DEF WorkerDies
  <2> QED
    BY <1>1, <2>2, AllIdleKeeps DEF WorkerDies
<1>2. CASE UNCHANGED pushVars
  <2>1. OnePassInv' /\ SentInv' /\ Len(to') <= MaxNotes
    BY <1>2, WorkerUntouched DEF pushVars
  <2> QED
    BY <1>2, <2>1 DEF pushVars, PushInv, PushTypeOK, BrowsersInv, LastSubscriberOwns
<1> QED
  BY <1>1, <1>2, NoticesKeep, BrowserStepsKeep, PassStepKeeps DEF PushNext

(* The variables keep their types (the outbox of dispatchPushOutbox, the       *)
(* subscriptions and the browsers).                                            *)
THEOREM PushTypeSafety == PushSpec => []PushTypeOK
<1>1. PushInv => PushTypeOK
  BY DEF PushInv
<1> QED
  BY <1>1, PushInitially, PushStepKeeps, PTL DEF PushSpec

(* Whoever is pushed is who subscribed last on that browser, and once, unless  *)
(* a pass was cut off; for any number of members, browsers, passes and         *)
(* notifications (dispatchPushOutbox, useSubscribeToPush).                     *)
THEOREM PushesAlwaysReachTheirOwnerOnce == PushSpec => []PushesReachTheirOwnerOnce
<1>1. PushInv => PushesReachTheirOwnerOnce
  <2> SUFFICES ASSUME PushInv PROVE PushesReachTheirOwnerOnce
    OBVIOUS
  <2>1. RepeatsNeedTrouble
    BY DEF PushInv, SentInv, RepeatsNeedTrouble
  <2>2. LastSubscriberOwns
    BY DEF PushInv, BrowsersInv
  <2> QED
    BY <2>1, <2>2 DEF PushesReachTheirOwnerOnce
<1> QED
  BY <1>1, PushInitially, PushStepKeeps, PTL DEF PushSpec
=============================================================================
