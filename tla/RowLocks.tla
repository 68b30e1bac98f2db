------------------------------ MODULE RowLocks ------------------------------
(* The locks a transaction of the server takes, in order, and keeps until it   *)
(* commits (app/tx.ts).  A handler takes FOR UPDATE by name; PostgreSQL takes  *)
(* FOR KEY SHARE by itself on every row a foreign key of an inserted row names *)
(* (assignments, ledger entries, history, audit, notifications).  What the     *)
(* transactions read and write is TaskMarket's; here a handler is the sequence *)
(* of rows it locks, and only the ways it can run to its end are kept: one     *)
(* that refuses early locks a prefix and lets go.                              *)
(*                                                                             *)
(* One household, one definition; every member is active.  A definition marked *)
(* "wrong" is a bug the code could have had.                                   *)
EXTENDS Integers, Sequences, FiniteSets, SequencesExt

CONSTANTS
    Txns,               \* transactions open at one time
    Members, Admins,    \* ids of members, in the order localeCompare gives
    Instances,          \* occurrences
    UseCases            \* the handlers that run

ASSUME LocksAssumption ==
    /\ Members \subseteq Nat /\ IsFiniteSet(Members) /\ Admins \subseteq Members

VARIABLES
    job,    \* the handler a transaction runs, "none" between transactions
    held,   \* the locks it has been granted
    todo    \* the locks it still asks for, in this order

vars == <<job, held, todo>>
-----------------------------------------------------------------------------
(* Rows, by the level app/tx.ts gives them; the definition row is in no table  *)
(* of levels and is written after all others.  Everything else that is written *)
(* is new, or belongs to a row already locked.                                 *)

SweepLock == [level |-> 0, of |-> <<>>]
InstanceRow(i) == [level |-> 1, of |-> <<i>>]
AssignmentRow(i, m) == [level |-> 2, of |-> <<i, m>>]
MemberRow(m) == [level |-> 3, of |-> <<m>>]
DefinitionRow == [level |-> 4, of |-> <<>>]

Rows == {SweepLock, DefinitionRow}
        \cup {InstanceRow(i) : i \in Instances}
        \cup {AssignmentRow(i, m) : i \in Instances, m \in Members}
        \cup {MemberRow(m) : m \in Members}

(* An advisory lock has no other mode.                                         *)
Request == [row : Rows, mode : {"UPDATE"}]
           \cup [row : Rows \ {SweepLock}, mode : {"KEY SHARE"}]
Update(r) == [row |-> r, mode |-> "UPDATE"]
Share(r) == [row |-> r, mode |-> "KEY SHARE"]

Conflict(p, q) == p.row = q.row /\ "UPDATE" \in {p.mode, q.mode}

(* The same request on several rows.                                           *)
UpdateRows(i, ms) == [k \in DOMAIN ms |-> Update(AssignmentRow(i, ms[k]))]
UpdateMembers(ms) == [k \in DOMAIN ms |-> Update(MemberRow(ms[k]))]
ShareMembers(ms) == [k \in DOMAIN ms |-> Share(MemberRow(ms[k]))]

(* A findMany without orderBy may return its rows in any order.                *)
AnyOrder(S) == SetToSeqs(S)
Crews == UNION {AnyOrder(S) : S \in SUBSET Members}
Except(m) == UNION {AnyOrder(S) : S \in SUBSET (Members \ {m})}
Ascending(S) ==
    {f \in SetToSeqs(S) : \A j, k \in DOMAIN f : j < k => f[j] < f[k]}
-----------------------------------------------------------------------------
(* A transaction asks for its locks one by one, and lets go of all of them at  *)
(* its end.  The advisory lock is a transaction's too (pg_advisory_xact_lock). *)

Wants(t) == todo[t] # <<>>
Want(t) == Head(todo[t])
Blocks(t, u) ==
    t # u /\ Wants(u) /\ \E h \in held[t] : Conflict(h, Want(u))
Blocked(u) == \E t \in Txns : Blocks(t, u)

(* Transactions that wait for each other: all of them wait for one of them,    *)
(* and keep one of them waiting.                                               *)
Knot(S) ==
    /\ S # {}
    /\ \A t \in S : (\E u \in S : Blocks(u, t)) /\ (\E u \in S : Blocks(t, u))

Start(t, name, locks) ==
    /\ name \in UseCases
    /\ job[t] = "none" /\ held[t] = {}
    /\ job' = [job EXCEPT ![t] = name]
    /\ todo' = [todo EXCEPT ![t] = locks]
    /\ UNCHANGED held

Acquire(t) ==
    /\ Wants(t) /\ ~Blocked(t)
    /\ held' = [held EXCEPT ![t] = @ \cup {Want(t)}]
    /\ todo' = [todo EXCEPT ![t] = Tail(@)]
    /\ UNCHANGED job

End(t) ==
    /\ job' = [job EXCEPT ![t] = "none"]
    /\ held' = [held EXCEPT ![t] = {}]
    /\ todo' = [todo EXCEPT ![t] = <<>>]

Commit(t) == job[t] # "none" /\ ~Wants(t) /\ End(t)

(* PostgreSQL rolls one transaction of a knot back (40P01).  The error is not  *)
(* mapped and the request is not repeated.                                     *)
DeadlockVictim(t) == (\E S \in SUBSET Txns : t \in S /\ Knot(S)) /\ End(t)
-----------------------------------------------------------------------------
(* The handlers.  m is the assignee or the caller, others the co-workers whose *)
(* rows are counted under lock, a an administrator, rest whoever is told.  A   *)
(* key share on a row that is locked already is nothing new and left out.      *)

Volunteer(t) ==
    \E i \in Instances, m \in Members :
    \E others \in Except(m), paid \in {<<>>, <<Update(MemberRow(m))>>} :
        Start(t, "volunteer",
              <<Update(InstanceRow(i))>> \o UpdateRows(i, others)
              \o <<Share(MemberRow(m))>> \o paid)

Accept(t) ==
    \E i \in Instances, m \in Members :
        Start(t, "accept",
              <<Update(AssignmentRow(i, m)), Share(InstanceRow(i)), Share(MemberRow(m))>>)

Complete(t) ==
    \E i \in Instances, m \in Members :
    \E others \in Except(m), rest \in AnyOrder(Members \ {m}),
       audit \in {<<>>} \cup {<<Share(MemberRow(a))>> : a \in Admins} :
        Start(t, "complete",
              <<Update(InstanceRow(i)), Update(AssignmentRow(i, m))>>
              \o UpdateRows(i, others) \o <<Update(MemberRow(m))>>
              \o (IF others = <<>> THEN <<Update(DefinitionRow)>> ELSE <<>>)
              \o audit \o (IF others = <<>> THEN ShareMembers(rest) ELSE <<>>))

Buyout(t) ==
    \E i \in Instances, m \in Members :
    \E others \in Except(m), rest \in AnyOrder(Members \ {m}) :
        Start(t, "buyout",
              <<Update(InstanceRow(i)), Update(AssignmentRow(i, m))>>
              \o UpdateRows(i, others) \o <<Update(MemberRow(m))>> \o ShareMembers(rest))

(* Release, and revoke with its audit row: clawback locks the member.          *)
GiveBack(t) ==
    \E i \in Instances, m \in Members :
    \E others \in Except(m), a \in {m} \cup Admins,
       own \in {<<Share(MemberRow(m))>>, <<Update(MemberRow(m))>>} :
        Start(t, "give back",
              <<Update(InstanceRow(i)), Update(AssignmentRow(i, m))>>
              \o UpdateRows(i, others) \o own \o <<Share(MemberRow(a))>>)

Reject(t) ==
    \E i \in Instances, m \in Members, a \in Admins :
        Start(t, "reject",
              <<Update(InstanceRow(i)), Update(AssignmentRow(i, m)),
                Update(MemberRow(m)), Share(MemberRow(a))>>)

(* Members are locked in the order the slots come back, by clawback only.      *)
Cancel(t) ==
    \E i \in Instances, crew \in Crews, a \in Admins :
    \E members \in {UpdateMembers(crew), ShareMembers(crew)} :
        Start(t, "cancel",
              <<Update(InstanceRow(i))>> \o UpdateRows(i, crew) \o members
              \o <<Update(DefinitionRow), Share(MemberRow(a))>>)

Adjust(t) ==
    \E m \in Members, a \in Admins :
        Start(t, "adjust", <<Update(MemberRow(m)), Share(MemberRow(a))>>)

Purchase(t) == \E m \in Members : Start(t, "purchase", <<Update(MemberRow(m))>>)

(* The sweep, one transaction for each occurrence it looks at.                 *)
Materialize(t) ==
    \E told \in Crews :
        Start(t, "sweep",
              <<Update(SweepLock), Update(DefinitionRow)>> \o ShareMembers(told))

(* Publishing, reminding and growing lock nothing but the occurrence, and tell *)
(* members.                                                                    *)
TellLate(t) ==                                                     \* wrong
    \E i \in Instances, told \in Crews :
        Start(t, "sweep",
              <<Update(InstanceRow(i)), Update(SweepLock)>> \o ShareMembers(told))
Tell(t) ==
    \E i \in Instances, told \in Crews :
        Start(t, "sweep",
              <<Update(SweepLock), Update(InstanceRow(i))>> \o ShareMembers(told))

Fine(t) ==
    \E i \in Instances, crew \in Crews \ {<<>>} :
    \E sorted \in Ascending(ToSet(crew)), rest \in AnyOrder(Members \ ToSet(crew)) :
        Start(t, "sweep",
              <<Update(SweepLock), Update(InstanceRow(i))>> \o UpdateRows(i, crew)
              \o UpdateMembers(sorted) \o ShareMembers(rest))

Expire(t) ==
    \E i \in Instances, crew \in Crews :
        Start(t, "sweep",
              <<Update(SweepLock), Update(InstanceRow(i))>> \o UpdateRows(i, crew)
              \o <<Update(DefinitionRow)>>)

Draw(t) ==
    \E i \in Instances, present \in Crews, told \in Crews :
        Start(t, "sweep",
              <<Update(SweepLock), Update(InstanceRow(i))>> \o UpdateRows(i, present)
              \o ShareMembers(told))
-----------------------------------------------------------------------------
Begin(t) ==
    \/ Volunteer(t) \/ Accept(t) \/ Complete(t) \/ Buyout(t) \/ GiveBack(t)
    \/ Reject(t) \/ Cancel(t) \/ Adjust(t) \/ Purchase(t)
    \/ Materialize(t) \/ Tell(t) \/ Fine(t) \/ Expire(t) \/ Draw(t)

Init ==
    /\ job = [t \in Txns |-> "none"]
    /\ held = [t \in Txns |-> {}]
    /\ todo = [t \in Txns |-> <<>>]

Next == \E t \in Txns : Begin(t) \/ Acquire(t) \/ Commit(t) \/ DeadlockVictim(t)

Spec == Init /\ [][Next]_vars
-----------------------------------------------------------------------------
TypeOK ==
    /\ job \in [Txns -> UseCases \cup {"none"}]
    /\ held \in [Txns -> SUBSET Request]
    /\ todo \in [Txns -> Seq(Request)]

(* A request that waits for the sweep lock, or for an occurrence with FOR      *)
(* UPDATE.                                                                     *)
Early(q) == q.mode = "UPDATE" /\ q.row.level < 2

(* What is left of the deadlock argument of app/tx.ts: nobody is ever caught   *)
(* in a knot while waiting for the sweep lock or to lock an occurrence, so     *)
(* "the loser simply blocks on the level-1 row until the winner commits".      *)
KnotsSpareOccurrences ==
    \A S \in SUBSET Txns : Knot(S) => \A t \in S : ~Early(Want(t))

(* "Locks 1 -> 2 -> 3, the same order as the buyout, so the two cannot         *)
(* deadlock" (completeTask).  Both also tell members about it, and the         *)
(* notification's foreign key asks for a key share on the member's row.        *)
CompletionAndBuyoutNeverDeadlock ==
    \A S \in SUBSET Txns : Knot(S) => {job[t] : t \in S} # {"complete", "buyout"}
=============================================================================
