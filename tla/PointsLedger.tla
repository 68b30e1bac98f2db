---------------------------- MODULE PointsLedger ----------------------------
(* The points of a household: point_transactions, an append-only chain for     *)
(* each member, and household_members.points_cache, the balance it justifies.  *)
(* postTransaction is the only writer of both.  Its callers are transactions   *)
(* that may post for several members, several times, with a key that was used  *)
(* before, and may roll back; TaskMarket says when they really do.             *)
(*                                                                             *)
(* A transaction reads what is committed and what it wrote itself (READ        *)
(* COMMITTED).  A definition marked "wrong" is a bug the code could have had.  *)
EXTENDS Integers, FiniteSetsExt

CONSTANTS
    Txns, Members,
    Keys,           \* the assignments and redemptions postings are keyed by
    MemberOf,       \* the member a key belongs to
    Amounts,        \* what is paid, fined, spent or adjusted
    Floor,          \* minimumAllowedBalance
    MaxEntries,     \* bound: values taken from the seq column
    None            \* null

ASSUME LedgerAssumption ==
    /\ MemberOf \in [Keys -> Members] /\ Amounts \subseteq Nat \ {0}
    /\ Floor \in Int /\ MaxEntries \in Nat
    /\ None \notin Txns \cup Members \cup Keys \cup Int

VARIABLES
    entries,    \* point_transactions, committed
    cache,      \* points_cache, committed
    seq,        \* the last value of the seq column handed out; never reused
    owner,      \* the transaction that has a member's row locked
    view,       \* the balance a transaction sees on a row it has locked
    draft,      \* the entries it has inserted and not committed
    audit       \* the administrator's integrity check: what it has read so far

vars == <<entries, cache, seq, owner, view, draft, audit>>
-----------------------------------------------------------------------------
Genesis == 0
Kinds == {"reward", "reversal", "spend", "penalty", "adjust"}

Entry == [id : Nat, member : Members, kind : Kinds, key : Keys \cup {None},
          amount : Int, before : Int, after : Int, prev : Nat]

Of(S, m) == {e \in S : e.member = m}
IsLast(e, S) == \A f \in S : f.id <= e.id
Visible(t) == entries \cup draft[t]

(* previousTransactionIdFor                                                    *)
ChainTail(S) == IF S = {} THEN {Genesis} ELSE {e.id : e \in {l \in S : IsLast(l, S)}}

UnknownKey(t, kind, key) == FALSE                                  \* wrong
Known(t, kind, key) ==
    key # None /\ \E e \in Visible(t) : e.kind = kind /\ e.key = key
-----------------------------------------------------------------------------
(* lockMember: SELECT ... FOR UPDATE waits for the transaction that has the    *)
(* row, and then reads it.                                                     *)
LockUnheld(t, m) ==                                                \* wrong
    /\ view[t][m] = None
    /\ owner' = [owner EXCEPT ![m] = t]
    /\ view' = [view EXCEPT ![t][m] = cache[m]]
    /\ UNCHANGED <<entries, cache, seq, draft, audit>>
Lock(t, m) ==
    /\ view[t][m] = None
    /\ owner[m] = None
    /\ owner' = [owner EXCEPT ![m] = t]
    /\ view' = [view EXCEPT ![t][m] = cache[m]]
    /\ UNCHANGED <<entries, cache, seq, draft, audit>>

(* postTransaction on a locked row.  A known key returns the first entry; a    *)
(* posting of zero is refused.                                                 *)
Post(t, m, kind, key, amount) ==
    /\ view[t][m] # None /\ amount # 0
    /\ ~Known(t, kind, key)
    /\ seq < MaxEntries
    /\ seq' = seq + 1
    /\ \E tail \in ChainTail(Of(Visible(t), m)) :
        draft' = [draft EXCEPT ![t] = @ \cup
            {[id |-> seq + 1, member |-> m, kind |-> kind, key |-> key, amount |-> amount,
              before |-> view[t][m], after |-> view[t][m] + amount, prev |-> tail]}]
    /\ view' = [view EXCEPT ![t][m] = @ + amount]
    /\ UNCHANGED <<entries, cache, owner, audit>>


LetGo(t) ==
    /\ \E m \in Members : view[t][m] # None
    /\ draft' = [draft EXCEPT ![t] = {}]
    /\ view' = [view EXCEPT ![t] = [m \in Members |-> None]]
    /\ owner' = [m \in Members |-> IF owner[m] = t THEN None ELSE owner[m]]
    /\ UNCHANGED <<seq, audit>>

Commit(t) ==
    /\ LetGo(t)
    /\ entries' = entries \cup draft[t]
    /\ cache' = [m \in Members |-> IF view[t][m] # None THEN view[t][m] ELSE cache[m]]

Abort(t) == LetGo(t) /\ UNCHANGED <<entries, cache>>
-----------------------------------------------------------------------------
(* The callers.                                                                *)

Reward(t, k, n) == Post(t, MemberOf[k], "reward", k, n)

(* Undo of what was paid under a key, if anything was.                         *)
ReverseIfPresent(t, k) ==
    \E e \in Visible(t) :
        /\ e.kind = "reward" /\ e.key = k /\ e.amount > 0
        /\ Post(t, MemberOf[k], "reversal", k, -e.amount)

(* executeBuyout and purchaseReward check the balance they have locked.        *)
SpendAtWill(t, k, n) == Post(t, MemberOf[k], "spend", k, -n)       \* wrong
Spend(t, k, n) ==
    /\ view[t][MemberOf[k]] # None
    /\ view[t][MemberOf[k]] - n >= Floor
    /\ Post(t, MemberOf[k], "spend", k, -n)

(* The sweep fines no more than the room above the floor.                      *)
Fine(t, k, n) ==
    LET m == MemberOf[k]
        room == IF view[t][m] > Floor THEN view[t][m] - Floor ELSE 0
    IN  view[t][m] # None /\ Post(t, m, "penalty", k, -(IF n < room THEN n ELSE room))

(* adjustPoints has no key: asked twice, it books twice.                       *)
Adjust(t, m, n) == Post(t, m, "adjust", None, n)
-----------------------------------------------------------------------------
(* verifyLedgerIntegrity with repairCache: reads the rows and the caches by    *)
(* two queries outside any transaction, and overwrites a cache that differs    *)
(* from the sum it has read.                                                   *)

SumOf(S) == MapThenSumSet(LAMBDA e : e.amount, S)
NoAudit == [sums |-> None, caches |-> None, todo |-> {}]

ReadRows ==
    /\ audit.sums = None
    /\ audit' = [audit EXCEPT !.sums = [m \in Members |-> SumOf(Of(entries, m))]]
    /\ UNCHANGED <<entries, cache, seq, owner, view, draft>>

ReadCaches ==
    /\ audit.caches = None
    /\ audit' = [audit EXCEPT !.caches = cache, !.todo = Members]
    /\ UNCHANGED <<entries, cache, seq, owner, view, draft>>

(* The UPDATE waits for the row; members are done one after the other.         *)
RepairCache(m) ==
    /\ audit.sums # None /\ audit.caches # None /\ m \in audit.todo
    /\ IF audit.sums[m] = audit.caches[m]
       THEN UNCHANGED cache
       ELSE owner[m] = None /\ cache' = [cache EXCEPT ![m] = audit.sums[m]]
    /\ audit' = [audit EXCEPT !.todo = @ \ {m}]
    /\ UNCHANGED <<entries, seq, owner, view, draft>>

EndAudit ==
    /\ audit.sums # None /\ audit.caches # None /\ audit.todo = {}
    /\ audit' = NoAudit
    /\ UNCHANGED <<entries, cache, seq, owner, view, draft>>
-----------------------------------------------------------------------------
Init ==
    /\ entries = {} /\ seq = 0
    /\ cache = [m \in Members |-> 0]
    /\ owner = [m \in Members |-> None]
    /\ view = [t \in Txns |-> [m \in Members |-> None]]
    /\ draft = [t \in Txns |-> {}]
    /\ audit = NoAudit

Posting(t) ==
    \/ \E k \in Keys, n \in Amounts : Reward(t, k, n) \/ Spend(t, k, n) \/ Fine(t, k, n)
    \/ \E k \in Keys : ReverseIfPresent(t, k)
    \/ \E m \in Members, n \in Amounts : Adjust(t, m, n) \/ Adjust(t, m, -n)

Next ==
    \E t \in Txns :
        (\E m \in Members : Lock(t, m)) \/ Posting(t) \/ Commit(t) \/ Abort(t)

Audit == ReadRows \/ ReadCaches \/ (\E m \in Members : RepairCache(m)) \/ EndAudit

Spec == Init /\ [][Next]_vars
AuditedSpec == Init /\ [][Next \/ Audit]_vars
-----------------------------------------------------------------------------
TypeOK ==
    /\ entries \subseteq Entry
    /\ cache \in [Members -> Int]
    /\ seq \in Nat
    /\ owner \in [Members -> Txns \cup {None}]
    /\ view \in [Txns -> [Members -> Int \cup {None}]]
    /\ draft \in [Txns -> SUBSET Entry]

(* "t[i].balanceBefore = t[i-1].balanceAfter (chain)", and each entry names    *)
(* the one before it (ledger-math): the entries of a member form one chain     *)
(* from GENESIS, without a fork or a gap, whoever posted them.                 *)
Linked(S) ==
    \A e \in S :
        LET earlier == {f \in S : f.member = e.member /\ f.id < e.id}
        IN  IF earlier = {}
            THEN e.prev = Genesis /\ e.before = 0
            ELSE \E l \in earlier :
                    IsLast(l, earlier) /\ e.prev = l.id /\ e.before = l.after
ChainLinked == Linked(entries)

(* "member.pointsCache = t[last].balanceAfter" (ledger-math).                  *)
Balance(S, m, n) ==
    IF Of(S, m) = {} THEN n = 0
    ELSE \E l \in Of(S, m) : IsLast(l, Of(S, m)) /\ n = l.after
CacheIsBalance == \A m \in Members : Balance(entries, m, cache[m])

(* "A retried caller cannot claw back twice" (clawback), nor be paid, fined or *)
(* charged twice: an idempotency key has one entry.                            *)
KeysUnique(S) ==
    \A e, f \in S : e.key # None /\ e.key = f.key /\ e.kind = f.kind => e = f
KeyOnce == KeysUnique(entries)

(* What is reversed is exactly what was paid, and after it.                    *)
Cancelling(S) ==
    \A e \in S :
        e.kind = "reversal" =>
            \E f \in S : /\ f.kind = "reward" /\ f.key = e.key
                         /\ f.amount = -e.amount /\ f.id < e.id
ReversalsCancel == Cancelling(entries)

(* No buyout, purchase or fine ends below the floor, however many of them are  *)
(* under way.                                                                  *)
Covered(S) == \A e \in S : e.kind \in {"spend", "penalty"} => e.after >= Floor
DebitsKeepFloor == Covered(entries)

(* "Repair rewrites the cache from the ledger and nothing else" (the           *)
(* repair-cache route): with administrators repairing, the chain is as sound   *)
(* as without.  A posting committed between the two reads makes the repair     *)
(* write a stale sum, and the next entry starts from it.                       *)
RepairSparesLedger == Linked(entries)
=============================================================================
