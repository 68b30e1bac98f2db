----------------------------- MODULE PointsProofs -----------------------------
(* Theorems about the points: how they are posted (PointsLedger), what a chore *)
(* is worth and costs (Prices), what the audit of a ledger notices (Audit),    *)
(* and that the simulator's ledger stands it (Simulation).                     *)
EXTENDS PointsLedger, Prices, Audit, Simulation, RunningTotals, SequenceTheorems, FiniteSetTheorems

-----------------------------------------------------------------------------
(* PointsLedger without the repair, for any household, any number of           *)
(* transactions and any callers of postTransaction.  The argument is that of   *)
(* the member lock: what a transaction sees of a member it has locked, the     *)
(* committed entries and its own, is sound as a whole, and no other            *)
(* transaction has an entry of that member under way, so committing it leaves  *)
(* every other transaction's view sound too.                                   *)

Sound(S) == Linked(S) /\ KeysUnique(S) /\ Cancelling(S) /\ Covered(S)

(* Only the owner of a row sees it and has entries for it under way.           *)
Locking ==
    \A t \in Txns : \A m \in Members :
        /\ view[t][m] # None => owner[m] = t
        /\ \A e \in draft[t] : e.member = m => view[t][m] # None

Belongs(S) == \A e \in S : e.id <= seq /\ (e.key # None => e.member = MemberOf[e.key])

LedgerInv ==
    /\ TypeOK
    /\ Locking
    /\ Sound(entries) /\ Belongs(entries)
    /\ \A m \in Members : Balance(entries, m, cache[m])
    /\ \A t \in Txns :
        /\ Sound(Visible(t)) /\ Belongs(Visible(t))
        /\ \A m \in Members : view[t][m] # None => Balance(Visible(t), m, view[t][m])

-----------------------------------------------------------------------------
(* A member's next entry, linked to the last one, keeps a chain sound.         *)
LEMMA NextEntryLinks ==
    ASSUME NEW S \in SUBSET Entry, Linked(S), NEW x \in Entry,
           \A e \in S : e.id < x.id,
           x.prev \in ChainTail(Of(S, x.member)),
           Balance(S, x.member, x.before)
    PROVE  Linked(S \cup {x})
<1> DEFINE T == S \cup {x}
           Earlier(e, U) == {f \in U : f.member = e.member /\ f.id < e.id}
           LinkedAt(e, U) ==
              IF Earlier(e, U) = {} THEN e.prev = Genesis /\ e.before = 0
              ELSE \E l \in Earlier(e, U) :
                      IsLast(l, Earlier(e, U)) /\ e.prev = l.id /\ e.before = l.after
<1>1. \A e \in S : LinkedAt(e, S)
  BY DEF Linked
<1>2. ASSUME NEW e \in S PROVE Earlier(e, T) = Earlier(e, S)
  BY DEF Entry
<1>3. Earlier(x, T) = Of(S, x.member)
  BY DEF Of, Entry
<1>4. LinkedAt(x, T)
  <2>1. CASE Of(S, x.member) = {}
    BY <1>3, <2>1 DEF ChainTail, Balance
  <2>2. CASE Of(S, x.member) # {}
    <3>1. PICK l \in Of(S, x.member) : IsLast(l, Of(S, x.member)) /\ x.prev = l.id
      BY <2>2 DEF ChainTail
    <3>2. PICK k \in Of(S, x.member) : IsLast(k, Of(S, x.member)) /\ x.before = k.after
      BY <2>2 DEF Balance
    <3>3. k.id = l.id
      BY <3>1, <3>2 DEF IsLast, Of, Entry
    <3>4. IsLast(k, Earlier(x, T)) /\ x.prev = k.id /\ k \in Earlier(x, T)
      BY <1>3, <3>1, <3>2, <3>3
    <3> QED
      BY <3>2, <3>4
  <2> QED
    BY <2>1, <2>2
<1>5. ASSUME NEW e \in S PROVE LinkedAt(e, T)
  BY <1>1, <1>2
<1>6. ASSUME NEW e \in T PROVE LinkedAt(e, T)
  <2> HIDE DEF LinkedAt
  <2> QED
    BY <1>4, <1>5
<1> QED
  BY <1>6 DEF Linked

LEMMA NextEntryBalance ==
    ASSUME NEW S \in SUBSET Entry, NEW x \in Entry, \A e \in S : e.id < x.id
    PROVE  /\ Balance(S \cup {x}, x.member, x.after)
           /\ \A m, n : m # x.member /\ Balance(S, m, n) => Balance(S \cup {x}, m, n)
<1>1. x \in Of(S \cup {x}, x.member) /\ IsLast(x, Of(S \cup {x}, x.member))
  BY DEF Of, IsLast, Entry
<1>2. \A m : m # x.member => Of(S \cup {x}, m) = Of(S, m)
  BY DEF Of
<1> QED
  BY <1>1, <1>2 DEF Balance

LEMMA NextEntrySound ==
    ASSUME NEW S \in SUBSET Entry, Sound(S), NEW x \in Entry,
           \A e \in S : e.id < x.id,
           x.prev \in ChainTail(Of(S, x.member)),
           Balance(S, x.member, x.before),
           ~ \E e \in S : x.key # None /\ e.kind = x.kind /\ e.key = x.key,
           x.kind = "reversal" =>
               \E f \in S : f.kind = "reward" /\ f.key = x.key /\ f.amount = -x.amount,
           x.kind \in {"spend", "penalty"} => x.after >= Floor
    PROVE  Sound(S \cup {x})
<1>1. Linked(S \cup {x})
  BY NextEntryLinks DEF Sound
<1>2. KeysUnique(S \cup {x})
  BY DEF Sound, KeysUnique
<1>3. Cancelling(S \cup {x})
  BY DEF Sound, Cancelling
<1>4. Covered(S \cup {x})
  BY DEF Sound, Covered
<1> QED
  BY <1>1, <1>2, <1>3, <1>4 DEF Sound

(* Entries of different members do not disturb each other.                     *)
LEMMA MergeLinks ==
    ASSUME NEW S \in SUBSET Entry, NEW A \in SUBSET Entry, NEW B \in SUBSET Entry,
           Sound(S \cup A), Sound(S \cup B), Belongs(S \cup A), Belongs(S \cup B),
           \A a \in A, b \in B : a.member # b.member
    PROVE  Sound(S \cup A \cup B) /\ Belongs(S \cup A \cup B)
<1> DEFINE T == S \cup A \cup B
           Earlier(e, U) == {f \in U : f.member = e.member /\ f.id < e.id}
           LinkedAt(e, U) ==
              IF Earlier(e, U) = {} THEN e.prev = Genesis /\ e.before = 0
              ELSE \E l \in Earlier(e, U) :
                      IsLast(l, Earlier(e, U)) /\ e.prev = l.id /\ e.before = l.after
<1>1. ASSUME NEW e \in T PROVE LinkedAt(e, T)
  <2>1. CASE \A b \in B : b.member # e.member
    <3>1. e \in S \cup A /\ Earlier(e, T) = Earlier(e, S \cup A)
      BY <2>1
    <3>2. LinkedAt(e, S \cup A)
      BY <3>1 DEF Sound, Linked
    <3> QED
      BY <3>1, <3>2
  <2>2. CASE \E b \in B : b.member = e.member
    <3>1. e \in S \cup B /\ Earlier(e, T) = Earlier(e, S \cup B)
      BY <2>2
    <3>2. LinkedAt(e, S \cup B)
      BY <3>1 DEF Sound, Linked
    <3> QED
      BY <3>1, <3>2
  <2> QED
    BY <2>1, <2>2
<1>2. Linked(T)
  BY <1>1 DEF Linked
<1>3. Belongs(T)
  BY DEF Belongs
<1>4. KeysUnique(T)
  <2> SUFFICES ASSUME NEW e \in T, NEW f \in T,
                      e.key # None, e.key = f.key, e.kind = f.kind
               PROVE  e = f
    BY DEF KeysUnique
  <2>1. e.member = f.member
    BY <1>3 DEF Belongs
  <2>2. (e \in S \cup A /\ f \in S \cup A) \/ (e \in S \cup B /\ f \in S \cup B)
    BY <2>1
  <2> QED
    BY <2>2 DEF Sound, KeysUnique
<1>5. Cancelling(T) /\ Covered(T)
  BY DEF Sound, Cancelling, Covered
<1> QED
  BY <1>2, <1>3, <1>4, <1>5 DEF Sound
-----------------------------------------------------------------------------
LEMMA InitSound == Init => LedgerInv
<1> SUFFICES ASSUME Init PROVE LedgerInv
  OBVIOUS
<1>1. TypeOK /\ Locking
  BY DEF Init, TypeOK, Locking
<1>2. Sound({}) /\ Belongs({})
  BY DEF Sound, Linked, KeysUnique, Cancelling, Covered, Belongs
<1>3. \A m \in Members : Balance({}, m, 0)
  BY DEF Balance, Of
<1>4. \A t \in Txns : Visible(t) = {} /\ \A m \in Members : view[t][m] = None
  BY DEF Init, Visible
<1>5. entries = {} /\ \A m \in Members : cache[m] = 0
  BY DEF Init
<1> QED
  BY <1>1, <1>2, <1>3, <1>4, <1>5 DEF LedgerInv

LEMMA LockKeeps ==
    ASSUME LedgerInv, NEW t \in Txns, NEW m \in Members, Lock(t, m)
    PROVE  LedgerInv'
<1> USE DEF LedgerInv
<1>1. \A u \in Txns : \A n \in Members :
          view'[u][n] = IF u = t /\ n = m THEN cache[m] ELSE view[u][n]
  BY DEF TypeOK, Lock
<1>2. TypeOK'
  BY DEF TypeOK, Lock
<1>3. Locking'
  <2>1. \A n \in Members : owner'[n] = IF n = m THEN t ELSE owner[n]
    BY DEF TypeOK, Lock
  <2>2. cache[m] # None /\ owner[m] = None /\ draft' = draft /\ \A u \in Txns : u # None
    BY LedgerAssumption DEF TypeOK, Lock
  <2> QED
    BY <1>1, <2>1, <2>2 DEF Locking, Lock
<1>4. entries' = entries /\ cache' = cache /\ seq' = seq /\ draft' = draft
  BY DEF Lock
<1>5. \A u \in Txns : Visible(u)' = Visible(u)
  BY <1>4 DEF Visible
<1>6. Of(Visible(t), m) = Of(entries, m)
  <2>1. \A e \in draft[t] : e.member # m
    BY DEF Locking, Lock
  <2> QED
    BY <2>1 DEF Of, Visible
<1>7. Balance(Visible(t), m, cache[m])
  BY <1>6 DEF Balance
<1>8. ASSUME NEW u \in Txns
      PROVE  \A n \in Members : view'[u][n] # None => Balance(Visible(u), n, view'[u][n])
  BY <1>1, <1>7
<1>9. (\A n \in Members : Balance(entries, n, cache[n]))'
  BY <1>4
<1>10. Sound(entries)' /\ Belongs(entries)'
  BY <1>4 DEF Belongs
<1>11. ASSUME NEW u \in Txns PROVE Sound(Visible(u))' /\ Belongs(Visible(u))'
  BY <1>4, <1>5 DEF Belongs
<1> QED
  BY <1>2, <1>3, <1>5, <1>8, <1>9, <1>10, <1>11

(* What each caller of postTransaction guarantees.                             *)
LEMMA PostKeeps ==
    ASSUME LedgerInv, NEW t \in Txns, NEW m \in Members, NEW kind \in Kinds,
           NEW key \in Keys \cup {None}, NEW amount \in Int,
           Post(t, m, kind, key, amount),
           key # None => m = MemberOf[key],
           kind = "reversal" =>
               \E f \in Visible(t) : f.kind = "reward" /\ f.key = key /\ f.amount = -amount,
           kind \in {"spend", "penalty"} => view[t][m] + amount >= Floor
    PROVE  LedgerInv'
<1> USE DEF LedgerInv
<1> DEFINE x(tail) ==
        [id |-> seq + 1, member |-> m, kind |-> kind, key |-> key, amount |-> amount,
         before |-> view[t][m], after |-> view[t][m] + amount, prev |-> tail]
<1>1. PICK tail \in ChainTail(Of(Visible(t), m)) :
          draft' = [draft EXCEPT ![t] = @ \cup {x(tail)}]
  BY DEF Post
<1>2. Visible(t) \in SUBSET Entry
  BY DEF TypeOK, Visible
<1>3. view[t][m] \in Int /\ seq \in Nat
  BY DEF TypeOK, Post
<1>4. tail \in Nat
  <2>1. CASE Of(Visible(t), m) = {}
    BY <1>1, <2>1 DEF ChainTail, Genesis
  <2>2. CASE Of(Visible(t), m) # {}
    <3>1. PICK e \in Of(Visible(t), m) : tail = e.id
      BY <1>1, <2>2 DEF ChainTail
    <3> QED
      BY <1>2, <3>1 DEF Of, Entry
  <2> QED
    BY <2>1, <2>2
<1>5. PICK y : y = x(tail)
  OBVIOUS
<1>6. y \in Entry
  BY <1>3, <1>4, <1>5 DEF Entry
<1>7. /\ y.id = seq + 1 /\ y.member = m /\ y.kind = kind /\ y.key = key /\ y.amount = amount
      /\ y.before = view[t][m] /\ y.after = view[t][m] + amount /\ y.prev = tail
  BY <1>5
<1>8. draft' = [draft EXCEPT ![t] = @ \cup {y}]
  BY <1>1, <1>5
<1> HIDE DEF x
<1>9. /\ entries' = entries /\ cache' = cache /\ owner' = owner /\ seq' = seq + 1
      /\ view' = [view EXCEPT ![t][m] = @ + amount]
  BY DEF Post
<1>10. /\ Visible(t)' = Visible(t) \cup {y}
       /\ \A u \in Txns \ {t} : Visible(u)' = Visible(u) /\ draft'[u] = draft[u]
       /\ draft'[t] = draft[t] \cup {y}
  BY <1>8, <1>9 DEF Visible, TypeOK
<1>11. \A u \in Txns : \A n \in Members :
          view'[u][n] = IF u = t /\ n = m THEN view[t][m] + amount ELSE view[u][n]
  BY <1>9 DEF TypeOK
<1>12. \A e \in Visible(t) : e.id < y.id
  BY <1>2, <1>3, <1>7 DEF Belongs, Entry
<1>13. TypeOK'
  <2>1. \A u \in Txns : draft'[u] \in SUBSET Entry
    BY <1>6, <1>10 DEF TypeOK
  <2>2. draft' \in [Txns -> SUBSET Entry]
    BY <1>8, <2>1 DEF TypeOK
  <2>3. view' \in [Txns -> [Members -> Int \cup {None}]]
    BY <1>3, <1>9 DEF TypeOK
  <2> QED
    BY <1>3, <1>9, <2>2, <2>3 DEF TypeOK
<1>14. Locking'
  <2>1. view[t][m] # None /\ view[t][m] + amount # None
    BY <1>3, LedgerAssumption DEF Post
  <2> QED
    BY <1>7, <1>9, <1>10, <1>11, <2>1 DEF Locking
<1>15. Sound(Visible(t) \cup {y})
  <2>1. Balance(Visible(t), y.member, y.before)
    BY <1>7 DEF Post
  <2>2. ~ \E e \in Visible(t) : y.key # None /\ e.kind = y.kind /\ e.key = y.key
    BY <1>7 DEF Post, Known
  <2>3. Sound(Visible(t)) /\ y.prev \in ChainTail(Of(Visible(t), y.member))
    BY <1>1, <1>7
  <2>4. y.kind = "reversal" =>
           \E f \in Visible(t) : f.kind = "reward" /\ f.key = y.key /\ f.amount = -y.amount
    BY <1>7
  <2>5. y.kind \in {"spend", "penalty"} => y.after >= Floor
    BY <1>7
  <2> QED
    BY <1>2, <1>6, <1>12, <2>1, <2>2, <2>3, <2>4, <2>5, NextEntrySound
<1>16. ASSUME NEW S \in SUBSET Entry, Belongs(S)
       PROVE  \A e \in S : e.id <= seq' /\ (e.key # None => e.member = MemberOf[e.key])
  BY <1>3, <1>9, <1>16 DEF Belongs, Entry
<1>17. Belongs(Visible(t) \cup {y})'
  <2>1. Belongs(Visible(t)) /\ y.id <= seq + 1
    BY <1>3, <1>7
  <2>2. \A e \in Visible(t) : e.id <= seq + 1
    BY <1>2, <1>3 DEF Belongs, Entry
  <2>3. \A e \in Visible(t) : e.key # None => e.member = MemberOf[e.key]
    BY DEF Belongs
  <2> QED
    BY <1>7, <1>9, <1>10, <2>1, <2>2, <2>3 DEF Belongs
<1>18. ASSUME NEW u \in Txns
       PROVE  /\ Sound(Visible(u))' /\ Belongs(Visible(u))'
              /\ (\A n \in Members : view[u][n] # None => Balance(Visible(u), n, view[u][n]))'
  <2>1. CASE u = t
    <3>1. Sound(Visible(t))' /\ Belongs(Visible(t))'
      BY <1>10, <1>15, <1>17 DEF Belongs
    <3>2. ASSUME NEW n \in Members, view'[t][n] # None
          PROVE  Balance(Visible(t) \cup {y}, n, view'[t][n])
      <4>1. CASE n = m
        BY <1>2, <1>6, <1>7, <1>11, <1>12, <4>1, NextEntryBalance
      <4>2. CASE n # m
        <5>1. Balance(Visible(t), n, view'[t][n])
          BY <1>11, <3>2, <4>2
        <5> QED
          BY <1>2, <1>6, <1>7, <1>12, <4>2, <5>1, NextEntryBalance
      <4> QED
        BY <4>1, <4>2
    <3> QED
      BY <1>10, <2>1, <3>1, <3>2
  <2>2. CASE u # t
    <3>1. Visible(u) \in SUBSET Entry /\ Visible(u)' = Visible(u)
      BY <1>10, <2>2 DEF TypeOK, Visible
    <3>2. \A e \in Visible(u) :
              e.id <= seq' /\ (e.key # None => e.member = MemberOf[e.key])
      BY <1>16, <3>1
    <3> QED
      BY <1>11, <2>2, <3>1, <3>2 DEF Belongs
  <2> QED
    BY <2>1, <2>2
<1>19. Sound(entries)' /\ Belongs(entries)'
  <2>1. entries \in SUBSET Entry /\ entries' = entries
    BY <1>9 DEF TypeOK
  <2> QED
    BY <1>16, <2>1 DEF Belongs
<1>20. (\A n \in Members : Balance(entries, n, cache[n]))'
  BY <1>9
<1> QED
  BY <1>13, <1>14, <1>18, <1>19, <1>20

LEMMA CallersKeep ==
    ASSUME LedgerInv, NEW t \in Txns, Posting(t) PROVE LedgerInv'
<1>1. /\ \A k \in Keys : MemberOf[k] \in Members /\ k # None
      /\ \A n \in Amounts : n \in Int /\ n > 0
      /\ Floor \in Int
  BY LedgerAssumption
<1>2. ASSUME NEW k \in Keys, NEW n \in Amounts, Reward(t, k, n) PROVE LedgerInv'
  <2>1. Post(t, MemberOf[k], "reward", k, n)
    BY <1>2 DEF Reward
  <2> QED
    BY <1>1, <2>1, PostKeeps DEF Kinds
<1>3. ASSUME NEW k \in Keys, NEW n \in Amounts, Spend(t, k, n) PROVE LedgerInv'
  <2>1. Post(t, MemberOf[k], "spend", k, -n) /\ view[t][MemberOf[k]] - n >= Floor
    BY <1>3 DEF Spend
  <2>2. view[t][MemberOf[k]] \in Int
    BY <1>1, <1>3 DEF Spend, LedgerInv, TypeOK
  <2>3. -n \in Int /\ view[t][MemberOf[k]] + (-n) >= Floor
    BY <1>1, <2>1, <2>2
  <2> QED
    BY <1>1, <2>1, <2>3, PostKeeps DEF Kinds
<1>4. ASSUME NEW k \in Keys, NEW n \in Amounts, Fine(t, k, n) PROVE LedgerInv'
  <2> DEFINE room == IF view[t][MemberOf[k]] > Floor THEN view[t][MemberOf[k]] - Floor ELSE 0
             fine == IF n < room THEN n ELSE room
  <2>1. Post(t, MemberOf[k], "penalty", k, -fine) /\ view[t][MemberOf[k]] # None
    BY <1>4 DEF Fine
  <2>2. view[t][MemberOf[k]] \in Int /\ -fine # 0
    BY <1>1, <2>1 DEF Post, LedgerInv, TypeOK
  <2>3. PICK v : v = view[t][MemberOf[k]]
    OBVIOUS
  <2>4. fine \in Int /\ (fine > 0 \/ fine < 0)
    <3>1. fine \in Int
      BY <1>1, <2>2
    <3> HIDE DEF fine
    <3> QED
      BY <2>2, <3>1
  <2>5. v > Floor
    BY <1>1, <2>2, <2>3, <2>4
  <2>6. fine <= v - Floor
    BY <1>1, <2>2, <2>3, <2>5
  <2> HIDE DEF fine
  <2>7. -fine \in Int /\ view[t][MemberOf[k]] + (-fine) >= Floor
    BY <1>1, <2>2, <2>3, <2>4, <2>6
  <2> QED
    BY <1>1, <2>1, <2>7, PostKeeps DEF Kinds
<1>5. ASSUME NEW k \in Keys, ReverseIfPresent(t, k) PROVE LedgerInv'
  <2>1. PICK e \in Visible(t) :
            /\ e.kind = "reward" /\ e.key = k
            /\ Post(t, MemberOf[k], "reversal", k, -e.amount)
    BY <1>5 DEF ReverseIfPresent
  <2>2. e.amount \in Int
    BY DEF LedgerInv, TypeOK, Visible, Entry
  <2>3. -e.amount \in Int /\ e.amount = -(-e.amount)
    BY <2>2
  <2> QED
    BY <1>1, <2>1, <2>3, PostKeeps DEF Kinds
<1>6. ASSUME NEW m \in Members, NEW n \in Amounts, Adjust(t, m, n) \/ Adjust(t, m, -n)
      PROVE  LedgerInv'
  <2>1. n \in Int /\ -n \in Int
    BY <1>1
  <2> QED
    BY <1>6, <2>1, PostKeeps DEF Adjust, Kinds
<1> QED
  BY <1>2, <1>3, <1>4, <1>5, <1>6 DEF Posting

LEMMA CommitKeeps ==
    ASSUME LedgerInv, NEW t \in Txns, Commit(t) PROVE LedgerInv'
<1> USE DEF LedgerInv
<1>1. /\ entries' = Visible(t) /\ seq' = seq
      /\ draft' = [draft EXCEPT ![t] = {}]
      /\ view' = [view EXCEPT ![t] = [m \in Members |-> None]]
      /\ owner' = [m \in Members |-> IF owner[m] = t THEN None ELSE owner[m]]
      /\ cache' = [m \in Members |-> IF view[t][m] # None THEN view[t][m] ELSE cache[m]]
  BY DEF Commit, LetGo, Visible
<1>2. TypeOK'
  BY <1>1 DEF TypeOK, Visible
<1>3. \A u \in Txns : \A m \in Members :
          /\ view'[u][m] = IF u = t THEN None ELSE view[u][m]
          /\ draft'[u] = IF u = t THEN {} ELSE draft[u]
  BY <1>1 DEF TypeOK
<1>4. Locking'
  BY <1>1, <1>3 DEF Locking
<1>5. (Sound(entries) /\ Belongs(entries))'
  BY <1>1 DEF Belongs
<1>6. ASSUME NEW m \in Members PROVE Balance(entries', m, cache'[m])
  <2>1. CASE view[t][m] # None
    BY <1>1, <2>1
  <2>2. CASE view[t][m] = None
    <3>1. Of(Visible(t), m) = Of(entries, m)
      BY <2>2 DEF Locking, Of, Visible
    <3> QED
      BY <1>1, <2>2, <3>1 DEF Balance
  <2> QED
    BY <2>1, <2>2
<1>7. ASSUME NEW u \in Txns
      PROVE  /\ Sound(Visible(u))' /\ Belongs(Visible(u))'
             /\ (\A m \in Members : view[u][m] # None => Balance(Visible(u), m, view[u][m]))'
  <2>1. CASE u = t
    <3>1. Visible(u)' = entries' /\ \A m \in Members : view'[u][m] = None
      BY <1>3, <2>1, LedgerAssumption DEF Visible, TypeOK, Commit, LetGo
    <3> QED
      BY <1>5, <3>1 DEF Belongs
  <2>2. CASE u # t
    <3>1. Visible(u)' = entries \cup draft[t] \cup draft[u]
      BY <1>1, <2>2 DEF Visible, TypeOK
    <3>2. \A a \in draft[t], b \in draft[u] : a.member # b.member
      <4>1. \A a \in draft[t] : a.member \in Members
        BY DEF TypeOK, Entry
      <4> QED
        BY <2>2, <4>1 DEF Locking
    <3>3. Sound(Visible(u)') /\ Belongs(entries \cup draft[t] \cup draft[u])
      <4>1. entries \in SUBSET Entry /\ draft[t] \in SUBSET Entry /\ draft[u] \in SUBSET Entry
        BY DEF TypeOK
      <4> QED
        BY <3>1, <3>2, <4>1, MergeLinks DEF Visible
    <3>4. ASSUME NEW m \in Members, view[u][m] # None
          PROVE  Balance(Visible(u)', m, view[u][m])
      <4>1. view[t][m] = None
        BY <2>2, <3>4 DEF Locking
      <4>2. Of(Visible(u)', m) = Of(Visible(u), m)
        BY <3>1, <4>1 DEF Locking, Of, Visible
      <4> QED
        BY <3>4, <4>2 DEF Balance
    <3>5. Sound(Visible(u))'
      BY <3>3
    <3>6. Belongs(Visible(u))'
      BY <1>1, <3>1, <3>3 DEF Belongs
    <3>7. (\A m \in Members : view[u][m] # None => Balance(Visible(u), m, view[u][m]))'
      BY <1>3, <2>2, <3>4
    <3> QED
      BY <3>5, <3>6, <3>7
  <2> QED
    BY <2>1, <2>2
<1> QED
  BY <1>2, <1>4, <1>5, <1>6, <1>7

LEMMA AbortKeeps ==
    ASSUME LedgerInv, NEW t \in Txns, Abort(t) PROVE LedgerInv'
<1> USE DEF LedgerInv
<1>1. /\ entries' = entries /\ cache' = cache /\ seq' = seq
      /\ draft' = [draft EXCEPT ![t] = {}]
      /\ view' = [view EXCEPT ![t] = [m \in Members |-> None]]
      /\ owner' = [m \in Members |-> IF owner[m] = t THEN None ELSE owner[m]]
  BY DEF Abort, LetGo
<1>2. TypeOK'
  BY <1>1 DEF TypeOK
<1>3. \A u \in Txns : \A m \in Members :
          /\ view'[u][m] = IF u = t THEN None ELSE view[u][m]
          /\ draft'[u] = IF u = t THEN {} ELSE draft[u]
  BY <1>1 DEF TypeOK
<1>4. Locking'
  BY <1>1, <1>3 DEF Locking
<1>5. (Sound(entries) /\ Belongs(entries) /\ \A m \in Members : Balance(entries, m, cache[m]))'
  BY <1>1 DEF Belongs
<1>6. ASSUME NEW u \in Txns
      PROVE  /\ Sound(Visible(u))' /\ Belongs(Visible(u))'
             /\ (\A m \in Members : view[u][m] # None => Balance(Visible(u), m, view[u][m]))'
  <2>1. Visible(u)' = IF u = t THEN entries ELSE Visible(u)
    BY <1>1, <1>3 DEF Visible, TypeOK
  <2> QED
    BY <1>1, <1>3, <2>1 DEF Belongs
<1> QED
  BY <1>2, <1>4, <1>5, <1>6

LEMMA LedgerInvHolds == Spec => []LedgerInv
<1>1. LedgerInv /\ [Next]_vars => LedgerInv'
  <2> SUFFICES ASSUME LedgerInv, [Next]_vars PROVE LedgerInv'
    OBVIOUS
  <2>1. ASSUME NEW t \in Txns, NEW m \in Members, Lock(t, m) PROVE LedgerInv'
    BY <2>1, LockKeeps
  <2>2. ASSUME NEW t \in Txns, Posting(t) PROVE LedgerInv'
    BY <2>2, CallersKeep
  <2>3. ASSUME NEW t \in Txns, Commit(t) PROVE LedgerInv'
    BY <2>3, CommitKeeps
  <2>4. ASSUME NEW t \in Txns, Abort(t) PROVE LedgerInv'
    BY <2>4, AbortKeeps
  <2>5. CASE UNCHANGED vars
    BY <2>5 DEF vars, LedgerInv, TypeOK, Locking, Belongs, Visible
  <2> QED
    BY <2>1, <2>2, <2>3, <2>4, <2>5 DEF Next
<1> QED
  BY <1>1, InitSound, PTL DEF Spec
-----------------------------------------------------------------------------
(* The rows keep their types.                                                  *)
THEOREM LedgerTypeSafety == Spec => []TypeOK
<1>1. LedgerInv => TypeOK
  BY DEF LedgerInv
<1> QED
  BY <1>1, LedgerInvHolds, PTL

(* postTransaction: a member's entries are one chain from GENESIS, without a   *)
(* fork or a gap, in every interleaving of the transactions that post.         *)
THEOREM ChainsStayLinked == Spec => []ChainLinked
<1>1. LedgerInv => ChainLinked
  BY DEF LedgerInv, Sound, ChainLinked
<1> QED
  BY <1>1, LedgerInvHolds, PTL

(* points_cache is the balance after a member's last entry: what was read on   *)
(* a locked row is never stale when it is written back.                        *)
THEOREM CacheFollowsLedger == Spec => []CacheIsBalance
<1>1. LedgerInv => CacheIsBalance
  BY DEF LedgerInv, CacheIsBalance
<1> QED
  BY <1>1, LedgerInvHolds, PTL

(* An idempotency key is posted once, however often and from wherever the      *)
(* posting is retried.                                                         *)
THEOREM KeysPostOnce == Spec => []KeyOnce
<1>1. LedgerInv => KeyOnce
  BY DEF LedgerInv, Sound, KeyOnce
<1> QED
  BY <1>1, LedgerInvHolds, PTL

(* reverseIfPresent takes back exactly what was paid.                          *)
THEOREM ReversalsAreExact == Spec => []ReversalsCancel
<1>1. LedgerInv => ReversalsCancel
  BY DEF LedgerInv, Sound, ReversalsCancel
<1> QED
  BY <1>1, LedgerInvHolds, PTL

(* Buyouts, purchases and fines never end below the floor, whatever else is    *)
(* being posted to the same member.                                            *)
THEOREM DebitsStayCovered == Spec => []DebitsKeepFloor
<1>1. LedgerInv => DebitsKeepFloor
  BY DEF LedgerInv, Sound, DebitsKeepFloor
<1> QED
  BY <1>1, LedgerInvHolds, PTL

-----------------------------------------------------------------------------
(* Prices, for any configurations that are accepted, any clock and any number  *)
(* of versions.  The argument: growth in two sweeps is growth in one, a sweep  *)
(* credits whole intervals and leaves the rest in the clock, and a version     *)
(* never changes once saved, so what the draw pinned stays the price.          *)
(* First the numbers: division, rounding, the safe integers.                   *)
LEMMA Division ==
    ASSUME NEW x \in Int, NEW d \in Nat \ {0}
    PROVE  /\ x \div d \in Int
           /\ d * (x \div d) <= x
           /\ x < d * (x \div d) + d
OBVIOUS

LEMMA DivisionIs ==
    ASSUME NEW x \in Int, NEW d \in Nat \ {0}, NEW q \in Int, d * q <= x, x < d * q + d
    PROVE  x \div d = q
<1> DEFINE r == x \div d
           e == r - q
<1>1. r \in Int /\ d * r <= x /\ x < d * r + d
  BY Division
<1>2. e \in Int /\ d * e = d * r - d * q
  <2> HIDE DEF r
  <2>1. d * (r - q) = d * r - d * q
    BY <1>1
  <2> QED  BY <1>1, <2>1
<1>3. d * e < d /\ d * e > -d
  <2> HIDE DEF r, e
  <2> QED  BY <1>1, <1>2
<1>4. ~ (e >= 1) /\ ~ (e <= -1)
  <2> HIDE DEF e
  <2>1. e >= 1 => d * e >= d
    BY <1>2
  <2>2. e <= -1 => d * e <= -d
    BY <1>2
  <2> QED  BY <1>2, <1>3, <2>1, <2>2
<1>5. e = 0
  <2> HIDE DEF e
  <2> QED  BY <1>2, <1>4
<1> QED  BY <1>1, <1>5

LEMMA Clamped ==
    ASSUME NEW a \in Int, NEW b \in Int
    PROVE  /\ ClampToSafe(a, b) \in Int
           /\ ClampToSafe(a, b) = IF a >= b THEN IF a <= MaxSafeInteger THEN a ELSE MaxSafeInteger
                                  ELSE IF b <= MaxSafeInteger THEN b ELSE MaxSafeInteger
           /\ b <= MaxSafeInteger => ClampToSafe(a, b) \in b .. MaxSafeInteger
BY SafeIntegers DEF ClampToSafe, Larger, Smaller

LEMMA RoundedIsWhole ==
    ASSUME NEW f, f.num \in Int, f.den \in Nat \ {0}, NEW rounding \in Roundings
    PROVE  ApplyRounding(f, rounding) \in Int
<1>1. CASE rounding = "CEIL"
  <2>1. -f.num \in Int
    OBVIOUS
  <2>2. (-f.num) \div f.den \in Int
    BY <2>1, Division
  <2> QED  BY <1>1, <2>2 DEF ApplyRounding
<1>2. CASE rounding = "FLOOR"
  <2>1. f.num \div f.den \in Int
    BY Division
  <2> QED  BY <1>2, <2>1 DEF ApplyRounding
<1>3. CASE rounding = "ROUND"
  <2>1. 2 * f.num + f.den \in Int /\ 2 * f.den \in Nat \ {0}
    OBVIOUS
  <2>2. (2 * f.num + f.den) \div (2 * f.den) \in Int
    BY <2>1, Division
  <2> QED  BY <1>3, <2>2 DEF ApplyRounding
<1> QED  BY <1>1, <1>2, <1>3 DEF Roundings

-----------------------------------------------------------------------------
LEMMA ShapedIsPriced == \A cfg \in HouseholdConfigShape : PricedBy(cfg)
BY DEF HouseholdConfigShape, PricedBy

(* What the shape of a configuration says of its numbers.                      *)
LEMMA BuyoutNumbers ==
    ASSUME NEW cfg, PricedBy(cfg)
    PROVE  /\ cfg.buyout.costStrategy \in {"FIXED", "CURRENT_TASK_VALUE", "MULTIPLIER", "FORMULA"}
           /\ cfg.buyout.fixedCost \in Int
           /\ cfg.buyout.multiplier \in Int
           /\ cfg.buyout.costRounding \in Roundings
<1>1. cfg.buyout \in BuyoutShape
  BY DEF PricedBy
<1>2. Counts \subseteq Int
  BY SafeIntegers DEF Counts
<1>3. /\ cfg.buyout.costStrategy \in {"FIXED", "CURRENT_TASK_VALUE", "MULTIPLIER", "FORMULA"}
      /\ cfg.buyout.costRounding \in Roundings
  BY <1>1 DEF BuyoutShape
<1>4. cfg.buyout.fixedCost \in Counts
  BY <1>1 DEF BuyoutShape
<1>5. cfg.buyout.multiplier \in 0 .. MaxMultiplier
  BY <1>1 DEF BuyoutShape
<1>6. cfg.buyout.multiplier \in Int
  <2>1. MaxMultiplier \in Int
    BY DEF MaxMultiplier
  <2> QED  BY <1>5, <2>1
<1> QED  BY <1>2, <1>3, <1>4, <1>6

LEMMA IncreaseNumbers ==
    ASSUME NEW cfg, PricedBy(cfg)
    PROVE  /\ cfg.valueIncrease.strategy \in {"FIXED_INCREMENT", "PERCENTAGE", "MULTIPLIER", "CUSTOM_FORMULA"}
           /\ cfg.valueIncrease.increment \in Int
           /\ cfg.valueIncrease.percentage \in Int
           /\ cfg.valueIncrease.multiplier \in Int
           /\ cfg.valueIncrease.rounding \in Roundings
           /\ cfg.valueIncrease.minimumIncrease \in Nat \ {0}
           /\ cfg.valueIncrease.maximumValue = Unset \/ cfg.valueIncrease.maximumValue \in Nat \ {0}
<1>1. cfg.valueIncrease \in ValueIncreaseShape
  BY DEF PricedBy
<1>2. Counts \subseteq Int /\ 1 .. MaxSafeInteger \subseteq Nat \ {0}
  BY SafeIntegers DEF Counts
<1>3. /\ cfg.valueIncrease.strategy \in {"FIXED_INCREMENT", "PERCENTAGE", "MULTIPLIER", "CUSTOM_FORMULA"}
      /\ cfg.valueIncrease.rounding \in Roundings
  BY <1>1 DEF ValueIncreaseShape
<1>4. cfg.valueIncrease.increment \in Counts
  BY <1>1 DEF ValueIncreaseShape
<1>5. cfg.valueIncrease.percentage \in 0 .. MaxPercentage
  BY <1>1 DEF ValueIncreaseShape
<1>6. cfg.valueIncrease.multiplier \in 0 .. MaxMultiplier
  BY <1>1 DEF ValueIncreaseShape
<1>7. cfg.valueIncrease.minimumIncrease \in 1 .. MaxSafeInteger
  BY <1>1 DEF ValueIncreaseShape
<1>8. cfg.valueIncrease.maximumValue \in OrUnset(1 .. MaxSafeInteger)
  BY <1>1 DEF ValueIncreaseShape
<1>9. cfg.valueIncrease.maximumValue = Unset \/ cfg.valueIncrease.maximumValue \in 1 .. MaxSafeInteger
  BY <1>8 DEF OrUnset
<1>10. cfg.valueIncrease.percentage \in Int /\ cfg.valueIncrease.multiplier \in Int
  <2>1. MaxPercentage \in Int /\ MaxMultiplier \in Int
    BY DEF MaxPercentage, MaxMultiplier
  <2> QED  BY <1>5, <1>6, <2>1
<1> QED  BY <1>2, <1>3, <1>4, <1>7, <1>9, <1>10

LEMMA GrowthNumbers ==
    ASSUME NEW cfg, PricedBy(cfg)
    PROVE  /\ cfg.valueGrowth.enabled \in BOOLEAN
           /\ cfg.valueGrowth.pointsPerInterval \in Nat \ {0}
           /\ cfg.valueGrowth.intervalMinutes \in Nat \ {0}
           /\ cfg.valueGrowth.notifyAfterPoints \in Nat
           /\ cfg.valueGrowth \in ValueGrowthShape
<1>1. cfg.valueGrowth \in ValueGrowthShape
  BY DEF PricedBy
<1>2. cfg.valueGrowth.enabled \in BOOLEAN
  BY <1>1 DEF ValueGrowthShape
<1>3. cfg.valueGrowth.pointsPerInterval \in 1 .. MaxPointsPerInterval
  BY <1>1 DEF ValueGrowthShape
<1>4. cfg.valueGrowth.intervalMinutes \in 5 .. MinutesPerWeek
  BY <1>1 DEF ValueGrowthShape
<1>5. cfg.valueGrowth.notifyAfterPoints \in 0 .. MaxNotifyPoints
  BY <1>1 DEF ValueGrowthShape
<1>6. MaxPointsPerInterval \in Int /\ MinutesPerWeek \in Int /\ MaxNotifyPoints \in Int
  BY DEF MaxPointsPerInterval, MinutesPerWeek, MaxNotifyPoints
<1> QED  BY <1>1, <1>2, <1>3, <1>4, <1>5, <1>6

LEMMA ResetNumbers ==
    ASSUME NEW cfg, PricedBy(cfg)
    PROVE  /\ cfg.completion.resetStrategy \in {"BASE_VALUE", "DECREASE_PERCENTAGE", "KEEP_CURRENT"}
           /\ cfg.completion.decreasePercentage \in Int
<1>1. cfg.completion \in CompletionShape
  BY DEF PricedBy
<1> QED  BY <1>1 DEF CompletionShape

-----------------------------------------------------------------------------
Counted(ctx) == ctx.currentValue \in 0 .. MaxSafeInteger /\ ctx.baseValue \in 0 .. MaxSafeInteger

(* A buyout costs something.                                                   *)
LEMMA CostIsPositive ==
    ASSUME NEW cfg, PricedBy(cfg), NEW ctx, ctx.currentValue \in Int,
           NeedsCostFormula(cfg) => /\ FormulaResult(cfg.buyout.costFormula, ctx).num \in Int
                                    /\ FormulaResult(cfg.buyout.costFormula, ctx).den \in Nat \ {0}
    PROVE  BuyoutCost(cfg, ctx) \in 1 .. MaxSafeInteger
<1> DEFINE b == cfg.buyout
           raw == CASE b.costStrategy = "FIXED"              -> Whole(b.fixedCost)
                    [] b.costStrategy = "CURRENT_TASK_VALUE" -> Whole(ctx.currentValue)
                    [] b.costStrategy = "MULTIPLIER"         -> Times(ctx.currentValue, b.multiplier)
                    [] b.costStrategy = "FORMULA"            -> FormulaResult(b.costFormula, ctx)
<1>1. /\ b.costStrategy \in {"FIXED", "CURRENT_TASK_VALUE", "MULTIPLIER", "FORMULA"}
      /\ b.fixedCost \in Int /\ b.multiplier \in Int /\ b.costRounding \in Roundings
  BY BuyoutNumbers
<1>2. raw.num \in Int /\ raw.den \in Nat \ {0}
  <2>1. CASE b.costStrategy = "FIXED"
    BY <1>1, <2>1 DEF Whole, Fraction
  <2>2. CASE b.costStrategy = "CURRENT_TASK_VALUE"
    BY <1>1, <2>2 DEF Whole, Fraction
  <2>3. CASE b.costStrategy = "MULTIPLIER"
    BY <1>1, <2>3 DEF Times, Fraction
  <2>4. CASE b.costStrategy = "FORMULA"
    BY <1>1, <2>4 DEF NeedsCostFormula
  <2> QED  BY <1>1, <2>1, <2>2, <2>3, <2>4
<1> HIDE DEF raw
<1>3. ApplyRounding(raw, b.costRounding) \in Int
  BY <1>1, <1>2, RoundedIsWhole
<1>4. ClampToSafe(ApplyRounding(raw, b.costRounding), 1) \in 1 .. MaxSafeInteger
  <2>1. 1 \in Int /\ 1 <= MaxSafeInteger
    BY SafeIntegers
  <2> QED  BY <1>3, <2>1, Clamped
<1> QED  BY <1>4 DEF BuyoutCost, raw

LEMMA CapAllows ==
    ASSUME NEW cfg, PricedBy(cfg), NEW value \in Int
    PROVE  /\ UnderCap(cfg, value) \in Int
           /\ UnderCap(cfg, value) <= value
           /\ cfg.valueIncrease.maximumValue = Unset => UnderCap(cfg, value) = value
           /\ cfg.valueIncrease.maximumValue # Unset =>
                  UnderCap(cfg, value) = IF value <= cfg.valueIncrease.maximumValue THEN value
                                         ELSE cfg.valueIncrease.maximumValue
<1>1. cfg.valueIncrease.maximumValue \in Int
  BY IncreaseNumbers DEF Unset
<1> QED  BY <1>1, SafeIntegers DEF UnderCap, Smaller

(* A buyout raises the value, up to the largest integer.                       *)
LEMMA IncreaseRaises ==
    ASSUME NEW cfg, PricedBy(cfg), NEW ctx, ctx.currentValue \in 0 .. MaxSafeInteger,
           NeedsValueFormula(cfg) => /\ FormulaResult(cfg.valueIncrease.formula, ctx).num \in Int
                                     /\ FormulaResult(cfg.valueIncrease.formula, ctx).den \in Nat \ {0}
    PROVE  IncreasedValue(cfg, ctx) \in ctx.currentValue .. MaxSafeInteger
<1> DEFINE vi == cfg.valueIncrease
           raw == RawIncrease(vi, ctx)
           rounded == ApplyRounding(raw, vi.rounding)
<1>1. /\ vi.strategy \in {"FIXED_INCREMENT", "PERCENTAGE", "MULTIPLIER", "CUSTOM_FORMULA"}
      /\ vi.increment \in Int /\ vi.percentage \in Int /\ vi.multiplier \in Int
      /\ vi.rounding \in Roundings /\ vi.minimumIncrease \in Nat \ {0}
  BY IncreaseNumbers
<1>2. raw.num \in Int /\ raw.den \in Nat \ {0}
  <2>1. CASE vi.strategy = "FIXED_INCREMENT"
    BY <1>1, <2>1, SafeIntegers DEF RawIncrease, Whole, Fraction
  <2>2. CASE vi.strategy = "PERCENTAGE"
    BY <1>1, <2>2, SafeIntegers DEF RawIncrease, Fraction
  <2>3. CASE vi.strategy = "MULTIPLIER"
    BY <1>1, <2>3, SafeIntegers DEF RawIncrease, Times, Fraction
  <2>4. CASE vi.strategy = "CUSTOM_FORMULA"
    BY <1>1, <2>4 DEF RawIncrease, NeedsValueFormula
  <2> QED  BY <1>1, <2>1, <2>2, <2>3, <2>4
<1> HIDE DEF raw
<1>3. rounded \in Int
  BY <1>1, <1>2, RoundedIsWhole
<1> HIDE DEF rounded
<1> DEFINE least == ctx.currentValue + vi.minimumIncrease
           raised == Larger(rounded, least)
<1>4. ctx.currentValue \in Int /\ least \in Int /\ ctx.currentValue <= MaxSafeInteger
  BY <1>1, SafeIntegers
<1>5. raised \in Int
  BY <1>3, <1>4 DEF Larger
<1> HIDE DEF raised
<1>6. UnderCap(cfg, raised) \in Int
  BY <1>5, CapAllows
<1> DEFINE capped == UnderCap(cfg, raised)
           value == ClampToSafe(capped, ctx.currentValue + 1)
<1> HIDE DEF capped
<1>7. value = IF capped >= ctx.currentValue + 1
              THEN IF capped <= MaxSafeInteger THEN capped ELSE MaxSafeInteger
              ELSE IF ctx.currentValue + 1 <= MaxSafeInteger THEN ctx.currentValue + 1 ELSE MaxSafeInteger
  <2>1. capped \in Int /\ ctx.currentValue + 1 \in Int
    BY <1>4, <1>6 DEF capped
  <2> QED  BY <2>1, Clamped
<1>8. value \in ctx.currentValue .. MaxSafeInteger
  BY <1>4, <1>6, <1>7, SafeIntegers DEF capped
<1> QED  BY <1>8 DEF IncreasedValue, raw, rounded, raised, capped

LEMMA ResetIsCounted ==
    ASSUME NEW cfg, PricedBy(cfg), NEW ctx,
           ctx.currentValue \in 0 .. MaxSafeInteger, ctx.baseValue \in 0 .. MaxSafeInteger
    PROVE  ResetValue(cfg, ctx) \in 0 .. MaxSafeInteger
<1>1. /\ cfg.completion.resetStrategy \in {"BASE_VALUE", "DECREASE_PERCENTAGE", "KEEP_CURRENT"}
      /\ cfg.completion.decreasePercentage \in Int
  BY ResetNumbers
<1>2. ctx.currentValue \in Int /\ ctx.baseValue \in Int
  BY SafeIntegers
<1>3. \A a \in Int : ClampToSafe(a, 0) \in 0 .. MaxSafeInteger
  <2>1. 0 \in Int /\ 0 <= MaxSafeInteger
    BY SafeIntegers
  <2> QED  BY <2>1, Clamped
<1> DEFINE part == Fraction(ctx.currentValue * (100 - cfg.completion.decreasePercentage), 100)
<1>4. part.num \in Int /\ part.den \in Nat \ {0}
  BY <1>1, <1>2 DEF Fraction
<1> HIDE DEF part
<1>5. ApplyRounding(part, "CEIL") \in Int
  BY <1>4, RoundedIsWhole DEF Roundings
<1>6. Larger(ctx.baseValue, ApplyRounding(part, "CEIL")) \in Int
  BY <1>2, <1>5 DEF Larger
<1> QED  BY <1>1, <1>2, <1>3, <1>6 DEF ResetValue, part
-----------------------------------------------------------------------------
(* The value after so many intervals of growth.                                *)
Grown(cfg, value, intervals) ==
    IF AtValueCap(cfg, value) THEN value
    ELSE ClampToSafe(UnderCap(cfg, value + intervals * cfg.valueGrowth.pointsPerInterval), value)

LEMMA GrownExplicit ==
    ASSUME NEW cfg, PricedBy(cfg), NEW v \in 0 .. MaxSafeInteger, NEW k \in Nat
    PROVE  /\ k * cfg.valueGrowth.pointsPerInterval \in Nat
           /\ Grown(cfg, v, k) \in v .. MaxSafeInteger
           /\ cfg.valueIncrease.maximumValue = Unset =>
                 Grown(cfg, v, k) = Smaller(v + k * cfg.valueGrowth.pointsPerInterval, MaxSafeInteger)
           /\ cfg.valueIncrease.maximumValue # Unset =>
                 Grown(cfg, v, k) = IF v >= cfg.valueIncrease.maximumValue THEN v
                                    ELSE Smaller(Smaller(v + k * cfg.valueGrowth.pointsPerInterval,
                                                         cfg.valueIncrease.maximumValue), MaxSafeInteger)
<1> DEFINE p == cfg.valueGrowth.pointsPerInterval
           cap == cfg.valueIncrease.maximumValue
           x == k * p
           a == UnderCap(cfg, v + x)
<1>1. p \in Nat \ {0} /\ (cap = Unset \/ cap \in Nat \ {0}) /\ MaxSafeInteger \in Nat \ {0}
  BY GrowthNumbers, IncreaseNumbers, SafeIntegers
<1>2. x \in Nat
  BY <1>1
<1>3. v \in Int /\ 0 <= v /\ v <= MaxSafeInteger /\ v + x \in Int /\ v + x >= v
  BY <1>1, <1>2
<1> HIDE DEF x
<1>4. /\ a \in Int
      /\ cap = Unset => a = v + x
      /\ cap # Unset => a = IF v + x <= cap THEN v + x ELSE cap
  BY <1>3, CapAllows
<1> HIDE DEF a
<1>5. /\ ClampToSafe(a, v) = IF a >= v THEN IF a <= MaxSafeInteger THEN a ELSE MaxSafeInteger
                             ELSE IF v <= MaxSafeInteger THEN v ELSE MaxSafeInteger
      /\ ClampToSafe(a, v) \in v .. MaxSafeInteger
  BY <1>3, <1>4, Clamped
<1>6. Grown(cfg, v, k) = IF cap # Unset /\ v >= cap THEN v ELSE ClampToSafe(a, v)
  BY DEF Grown, AtValueCap, a, x
<1>7. Grown(cfg, v, k) \in v .. MaxSafeInteger
  BY <1>3, <1>5, <1>6
<1>8. cap = Unset => Grown(cfg, v, k) = Smaller(v + x, MaxSafeInteger)
  BY <1>1, <1>3, <1>4, <1>5, <1>6 DEF Smaller
<1>9. cap # Unset => Grown(cfg, v, k) = IF v >= cap THEN v ELSE Smaller(Smaller(v + x, cap), MaxSafeInteger)
  BY <1>1, <1>3, <1>4, <1>5, <1>6 DEF Smaller
<1> QED  BY <1>2, <1>7, <1>8, <1>9 DEF x

(* Growth in two steps is growth in one.                                       *)
LEMMA GrownTwice ==
    ASSUME NEW cfg \in HouseholdConfigShape, NEW v \in 0 .. MaxSafeInteger, NEW j \in Nat, NEW k \in Nat
    PROVE  Grown(cfg, Grown(cfg, v, j), k) = Grown(cfg, v, j + k)
<1> DEFINE p == cfg.valueGrowth.pointsPerInterval
           cap == cfg.valueIncrease.maximumValue
           x == j * p
           y == k * p
           z == (j + k) * p
           w == Grown(cfg, v, j)
<1>1. p \in Nat \ {0} /\ (cap = Unset \/ cap \in Nat \ {0}) /\ MaxSafeInteger \in Nat \ {0}
  BY GrowthNumbers, ShapedIsPriced, IncreaseNumbers, SafeIntegers
<1>2. z = x + y
  BY <1>1
<1>3. x \in Nat /\ y \in Nat /\ v \in Nat /\ v <= MaxSafeInteger
  BY <1>1
<1>4. /\ w \in v .. MaxSafeInteger
      /\ cap = Unset => w = Smaller(v + x, MaxSafeInteger)
      /\ cap # Unset => w = IF v >= cap THEN v ELSE Smaller(Smaller(v + x, cap), MaxSafeInteger)
  BY ShapedIsPriced, GrownExplicit
<1>5. w \in 0 .. MaxSafeInteger
  BY <1>1, <1>3, <1>4
<1>6. /\ cap = Unset => Grown(cfg, w, k) = Smaller(w + y, MaxSafeInteger)
      /\ cap # Unset => Grown(cfg, w, k) = IF w >= cap THEN w ELSE Smaller(Smaller(w + y, cap), MaxSafeInteger)
  <2> HIDE DEF w
  <2> QED  BY <1>5, ShapedIsPriced, GrownExplicit
<1>7. /\ cap = Unset => Grown(cfg, v, j + k) = Smaller(v + z, MaxSafeInteger)
      /\ cap # Unset => Grown(cfg, v, j + k) = IF v >= cap THEN v ELSE Smaller(Smaller(v + z, cap), MaxSafeInteger)
  <2>1. j + k \in Nat
    OBVIOUS
  <2> QED  BY <2>1, ShapedIsPriced, GrownExplicit
<1> SUFFICES Grown(cfg, w, k) = Grown(cfg, v, j + k)
  OBVIOUS
<1> HIDE DEF w, x, y, z
<1>8. w \in Nat /\ w <= MaxSafeInteger
  BY <1>1, <1>5
<1>9. CASE cap = Unset
  <2>1. Grown(cfg, w, k) = Smaller(w + y, MaxSafeInteger)
    BY <1>6, <1>9
  <2>2. Grown(cfg, v, j + k) = Smaller(v + z, MaxSafeInteger)
    BY <1>7, <1>9
  <2>3. w = Smaller(v + x, MaxSafeInteger)
    BY <1>4, <1>9
  <2> QED  BY <1>1, <1>2, <1>3, <1>8, <2>1, <2>2, <2>3 DEF Smaller
<1>10. CASE cap # Unset
  <2>1. Grown(cfg, w, k) = IF w >= cap THEN w ELSE Smaller(Smaller(w + y, cap), MaxSafeInteger)
    BY <1>6, <1>10
  <2>2. Grown(cfg, v, j + k) = IF v >= cap THEN v ELSE Smaller(Smaller(v + z, cap), MaxSafeInteger)
    BY <1>7, <1>10
  <2>3. w = IF v >= cap THEN v ELSE Smaller(Smaller(v + x, cap), MaxSafeInteger)
    BY <1>4, <1>10
  <2>4. cap \in Nat
    BY <1>1, <1>10
  <2> HIDE DEF cap
  <2> QED  BY <1>1, <1>2, <1>3, <1>8, <2>1, <2>2, <2>3, <2>4 DEF Smaller
<1> QED  BY <1>9, <1>10

(* What one sweep computes, counted in whole intervals since the anchor.       *)
LEMMA SweptIsGrown ==
    ASSUME NEW cfg \in HouseholdConfigShape, cfg.valueGrowth.enabled,
           NEW v \in 0 .. MaxSafeInteger, NEW anchor \in Int, NEW now \in Int, anchor <= now
    PROVE  LET step == GrownValue(cfg, v, anchor, now)
               n    == (now - anchor) \div cfg.valueGrowth.intervalMinutes
           IN  /\ n \in Nat
               /\ step.value = Grown(cfg, v, n)
               /\ step.steps = n
               /\ step.anchor = anchor + n * cfg.valueGrowth.intervalMinutes
               /\ step.capped => AtValueCap(cfg, step.value)
<1> DEFINE i == cfg.valueGrowth.intervalMinutes
           d == now - anchor
           n == d \div i
           step == GrownValue(cfg, v, anchor, now)
<1>1. i \in Nat \ {0} /\ d \in Nat
  BY ShapedIsPriced, GrowthNumbers
<1>2. n \in Nat /\ (d < i => n = 0)
  <2>1. n \in Int /\ i * n <= d /\ d < i * n + i
    <3>1. d \in Int
      BY <1>1
    <3> HIDE DEF d, i
    <3> QED  BY <1>1, <3>1, Division
  <2>2. n >= 0
    <3> HIDE DEF n
    <3>1. n <= -1 => i * n + i <= 0
      BY <1>1, <2>1
    <3> QED  BY <1>1, <2>1, <3>1
  <2>3. d < i => n = 0
    <3>1. d < i => /\ 0 \in Int
                   /\ i * 0 <= d
                   /\ d < i * 0 + i
      BY <1>1
    <3> QED  BY <1>1, <3>1, DivisionIs
  <2> QED  BY <2>1, <2>2, <2>3
<1> HIDE DEF n, d
<1>3. CASE d < i
  <2>1. step = [value |-> v, steps |-> 0, anchor |-> anchor, capped |-> FALSE]
    BY <1>3 DEF GrownValue, d
  <2>2. Grown(cfg, v, 0) = v
    <3> DEFINE cap == cfg.valueIncrease.maximumValue
               x == 0 * cfg.valueGrowth.pointsPerInterval
    <3>1. x = 0
      BY ShapedIsPriced, GrowthNumbers
    <3>2. cap = Unset \/ cap \in Nat \ {0}
      BY ShapedIsPriced, IncreaseNumbers
    <3>3. /\ cap = Unset => Grown(cfg, v, 0) = Smaller(v + x, MaxSafeInteger)
          /\ cap # Unset => Grown(cfg, v, 0) = IF v >= cap THEN v
                                                ELSE Smaller(Smaller(v + x, cap), MaxSafeInteger)
      <4>1. 0 \in Nat
        OBVIOUS
      <4> QED  BY <4>1, ShapedIsPriced, GrownExplicit
    <3> HIDE DEF x
    <3> QED  BY <3>1, <3>2, <3>3, SafeIntegers DEF Smaller
  <2>3. n = 0 /\ anchor + n * i = anchor
    BY <1>1, <1>2, <1>3
  <2> QED  BY <2>1, <2>2, <2>3 DEF n, d
<1>4. CASE ~ (d < i) /\ AtValueCap(cfg, v)
  <2>1. step = [value |-> v, steps |-> n, anchor |-> anchor + n * i, capped |-> TRUE]
    BY <1>4 DEF GrownValue, n, d
  <2>2. Grown(cfg, v, n) = v
    BY <1>4 DEF Grown
  <2> QED  BY <1>2, <1>4, <2>1, <2>2 DEF n, d
<1>5. CASE ~ (d < i) /\ ~AtValueCap(cfg, v)
  <2>1. step = [value |-> Grown(cfg, v, n), steps |-> n, anchor |-> anchor + n * i,
                capped |-> AtValueCap(cfg, Grown(cfg, v, n))]
    BY <1>5 DEF GrownValue, Grown, n, d
  <2> QED  BY <1>2, <2>1 DEF n, d
<1> QED  BY <1>1, <1>3, <1>4, <1>5

(* A message names a band between the value before and the value after.        *)
LEMMA BandsBetween ==
    ASSUME NEW cfg \in HouseholdConfigShape, NEW base \in Nat, NEW before \in Nat, NEW after \in Nat,
           GrowthBand(cfg, base, before, after) # Unset
    PROVE  /\ GrowthBand(cfg, base, before, after) \in Nat
           /\ before < GrowthBand(cfg, base, before, after)
           /\ GrowthBand(cfg, base, before, after) <= after
<1> DEFINE n == cfg.valueGrowth.notifyAfterPoints
           q == BandOf(cfg, base, after)
           r == BandOf(cfg, base, before)
<1>1. n \in Nat
  BY ShapedIsPriced, GrowthNumbers
<1>2. n > 0 /\ after > before /\ q > r /\ GrowthBand(cfg, base, before, after) = base + q * n
  <2>1. ~ (n <= 0 \/ after <= before \/ q <= r) /\ GrowthBand(cfg, base, before, after) = base + q * n
    BY DEF GrowthBand
  <2>2. q \in Int /\ r \in Int
    <3>1. ~ (n <= 0)
      BY <2>1
    <3>2. n \in Nat \ {0}
      BY <1>1, <3>1
    <3>3. (after - base) \div n \in Int /\ (before - base) \div n \in Int
      BY <3>2, Division
    <3> QED  BY <3>3 DEF BandOf
  <2> QED  BY <1>1, <2>1, <2>2
<1>3. n \in Nat \ {0}
  BY <1>1, <1>2
<1>4. IF before < base THEN r = 0 ELSE r \in Int /\ n * r <= before - base /\ before - base < n * r + n
  <2>1. before - base \in Int
    OBVIOUS
  <2> QED  BY <1>3, <2>1, Division DEF BandOf
<1>5. IF after < base THEN q = 0 ELSE q \in Int /\ n * q <= after - base /\ after - base < n * q + n
  <2>1. after - base \in Int
    OBVIOUS
  <2> QED  BY <1>3, <2>1, Division DEF BandOf
<1> HIDE DEF q, r, n
<1>6. r \in Int /\ q \in Int
  BY <1>4, <1>5
<1>7. n * q >= n * r + n
  <2>1. q = r + 1 + (q - r - 1) /\ q - r - 1 \in Nat
    BY <1>2, <1>6
  <2>2. n * (q - r - 1) >= 0
    BY <1>3, <2>1
  <2>3. n * (q - r - 1) = n * q - n * r - n
    BY <1>3, <1>6
  <2>4. n * q \in Int /\ n * r \in Int
    BY <1>3, <1>6
  <2> QED  BY <1>3, <2>2, <2>3, <2>4
<1>8. ~ (after < base)
  BY <1>2, <1>3, <1>4, <1>5, <1>6, <1>7
<1>9. before - base < n * q /\ n * q <= after - base
  <2>1. n * q \in Int /\ n * r \in Int
    BY <1>3, <1>6
  <2>2. n * q <= after - base
    BY <1>5, <1>8
  <2>3. before - base < n * q
    <3>1. CASE before < base
      <4>1. r = 0 /\ n * r = 0
        BY <1>3, <1>4, <3>1
      <4> QED  BY <1>3, <1>7, <2>1, <3>1, <4>1
    <3>2. CASE ~ (before < base)
      BY <1>3, <1>4, <1>7, <2>1, <3>2
    <3> QED  BY <3>1, <3>2
  <2> QED  BY <2>2, <2>3
<1>10. q * n = n * q /\ n * q \in Int
  BY <1>3, <1>6
<1> QED  BY <1>2, <1>9, <1>10
-----------------------------------------------------------------------------
LEMMA GrownNone ==
    ASSUME NEW cfg \in HouseholdConfigShape, NEW v \in 0 .. MaxSafeInteger
    PROVE  Grown(cfg, v, 0) = v
<1> DEFINE cap == cfg.valueIncrease.maximumValue
           x == 0 * cfg.valueGrowth.pointsPerInterval
<1>1. x = 0
  BY ShapedIsPriced, GrowthNumbers
<1>2. cap = Unset \/ cap \in Nat \ {0}
  BY ShapedIsPriced, IncreaseNumbers
<1>3. /\ cap = Unset => Grown(cfg, v, 0) = Smaller(v + x, MaxSafeInteger)
      /\ cap # Unset => Grown(cfg, v, 0) = IF v >= cap THEN v
                                            ELSE Smaller(Smaller(v + x, cap), MaxSafeInteger)
  <2>1. 0 \in Nat
    OBVIOUS
  <2> QED  BY <2>1, ShapedIsPriced, GrownExplicit
<1> HIDE DEF x
<1> QED  BY <1>1, <1>2, <1>3, SafeIntegers DEF Smaller

(* What the rule of a spell keeps decides how the value grows.                 *)
LEMMA RuleDecides ==
    ASSUME NEW cfg \in HouseholdConfigShape, NEW other \in HouseholdConfigShape,
           Rule(cfg) = Rule(other)
    PROVE  /\ cfg.valueGrowth.intervalMinutes = other.valueGrowth.intervalMinutes
           /\ \A v : AtValueCap(cfg, v) = AtValueCap(other, v)
           /\ \A v, k : Grown(cfg, v, k) = Grown(other, v, k)
<1> DEFINE g(c) == [c.valueGrowth EXCEPT !.enabled = TRUE, !.notifyAfterPoints = 0]
<1>1. cfg.valueGrowth \in ValueGrowthShape /\ other.valueGrowth \in ValueGrowthShape
  BY ShapedIsPriced, GrowthNumbers
<1>2. g(cfg) = g(other) /\ cfg.valueIncrease.maximumValue = other.valueIncrease.maximumValue
  <2>1. \A x, y : [growth |-> x, cap |-> y].growth = x /\ [growth |-> x, cap |-> y].cap = y
    OBVIOUS
  <2>2. \A c : Rule(c).growth = g(c) /\ Rule(c).cap = c.valueIncrease.maximumValue
    BY <2>1 DEF Rule
  <2> HIDE DEF g
  <2> QED  BY <2>2
<1>3. \A s \in ValueGrowthShape :
         LET e == [s EXCEPT !.enabled = TRUE, !.notifyAfterPoints = 0]
         IN  e.intervalMinutes = s.intervalMinutes /\ e.pointsPerInterval = s.pointsPerInterval
  BY DEF ValueGrowthShape
<1>4. /\ cfg.valueGrowth.intervalMinutes = other.valueGrowth.intervalMinutes
      /\ cfg.valueGrowth.pointsPerInterval = other.valueGrowth.pointsPerInterval
  BY <1>1, <1>2, <1>3
<1>5. \A v : AtValueCap(cfg, v) = AtValueCap(other, v)
  BY <1>2 DEF AtValueCap
<1>6. \A v : UnderCap(cfg, v) = UnderCap(other, v)
  BY <1>2 DEF UnderCap
<1>7. \A v, k : Grown(cfg, v, k) = Grown(other, v, k)
  BY <1>4, <1>5, <1>6 DEF Grown
<1> QED  BY <1>4, <1>5, <1>7

-----------------------------------------------------------------------------
(* A saved formula yields a number wherever the probe tried it.                *)
LEMMA SavedFormulasWork ==
    ASSUME NEW d \in Acceptable, NEW ctx \in Grid
    PROVE  CostFinite(Drafts[d], ctx) /\ IncreaseFinite(Drafts[d], ctx)
<1> DEFINE cfg == Drafts[d]
           cost == cfg.buyout.costFormula
           value == cfg.valueIncrease.formula
<1>1. FormulaFields(cfg) = {}
  <2>1. CrossFieldErrors(cfg) = {}
    BY DEF Acceptable, Valid
  <2> QED  BY <2>1 DEF CrossFieldErrors
<1>2. NeedsCostFormula(cfg) => Failing(cost) = {}
  <2>1. "costFormula" \notin FormulaFields(cfg)
    BY <1>1
  <2> QED  BY <2>1 DEF FormulaFields
<1>3. NeedsValueFormula(cfg) => Failing(value) = {}
  <2>1. "formula" \notin FormulaFields(cfg)
    BY <1>1
  <2> QED  BY <2>1 DEF FormulaFields
<1>4. \A f : Failing(f) = {} => FormulaResult(f, ctx).den # 0
  BY DEF Failing
<1> QED  BY <1>2, <1>3, <1>4 DEF CostFinite, IncreaseFinite

LEMMA SavedIsShaped ==
    ASSUME NEW d \in Acceptable
    PROVE  d \in DOMAIN Drafts /\ Drafts[d] \in HouseholdConfigShape
BY DEF Acceptable, Valid

LEMMA BuyoutContextsOnTheMarket ==
    ASSUME NEW v \in 0 .. MaxValueSeen, NEW n \in 0 .. MaxBuyoutsSeen
    PROVE  Context(v, BaseValue, n) \in BuyoutContexts
BY DEF BuyoutContexts

(* A quote is a price, and the value a buyout would leave.                     *)
LEMMA QuotedNumbers ==
    ASSUME NEW d \in Acceptable, NEW v \in 0 .. MaxSafeInteger, NEW n,
           Context(v, BaseValue, n) \in BuyoutContexts,
           CostFinite(Drafts[d], Context(v, BaseValue, n)),
           IncreaseFinite(Drafts[d], Context(v, BaseValue, n))
    PROVE  LET quote == QuoteFrom(Drafts[d], Context(v, BaseValue, n))
           IN  /\ quote # NoQuote
               /\ quote.cost \in 1 .. MaxSafeInteger
               /\ quote.newValue \in v .. MaxSafeInteger
<1> DEFINE cfg == Drafts[d]
           ctx == Context(v, BaseValue, n)
           quote == QuoteFrom(cfg, ctx)
<1>1. cfg \in HouseholdConfigShape /\ d \in DOMAIN Drafts
  BY SavedIsShaped
<1>2. ctx.currentValue = v /\ v \in Int /\ v <= MaxSafeInteger
  BY SafeIntegers DEF Context
<1>3. NeedsCostFormula(cfg) => /\ FormulaResult(cfg.buyout.costFormula, ctx).num \in Int
                               /\ FormulaResult(cfg.buyout.costFormula, ctx).den \in Nat \ {0}
  <2>1. NeedsCostFormula(cfg) => FormulaResult(cfg.buyout.costFormula, ctx) \in [num : Int, den : Nat]
    BY <1>1, PricesAssumption DEF FractionOrError
  <2> QED  BY <2>1 DEF CostFinite
<1>4. NeedsValueFormula(cfg) /\ ~AtValueCap(cfg, v) =>
          /\ FormulaResult(cfg.valueIncrease.formula, ctx).num \in Int
          /\ FormulaResult(cfg.valueIncrease.formula, ctx).den \in Nat \ {0}
  <2>1. NeedsValueFormula(cfg) => FormulaResult(cfg.valueIncrease.formula, ctx) \in [num : Int, den : Nat]
    BY <1>1, PricesAssumption DEF FractionOrError
  <2> QED  BY <1>2, <2>1 DEF IncreaseFinite
<1>5. quote = [cost |-> BuyoutCost(cfg, ctx),
               newValue |-> IF AtValueCap(cfg, v) THEN v ELSE IncreasedValue(cfg, ctx)]
  BY <1>2 DEF QuoteFrom
<1> HIDE DEF ctx, cfg
<1>6. BuyoutCost(cfg, ctx) \in 1 .. MaxSafeInteger
  BY <1>1, <1>2, <1>3, ShapedIsPriced, CostIsPositive
<1>7. ~AtValueCap(cfg, v) => IncreasedValue(cfg, ctx) \in v .. MaxSafeInteger
  BY <1>1, <1>2, <1>4, ShapedIsPriced, IncreaseRaises
<1>8. quote.cost \in 1 .. MaxSafeInteger /\ quote.newValue \in v .. MaxSafeInteger
  BY <1>2, <1>5, <1>6, <1>7, SafeIntegers
<1>9. quote # NoQuote
  BY <1>8, SafeIntegers DEF NoQuote, Unset
<1> QED  BY <1>8, <1>9 DEF ctx, cfg

-----------------------------------------------------------------------------
(* The inductive invariant.                                                    *)
ChoreRecords == [status : {"AVAILABLE", "ASSIGNED"}, value : 0 .. MaxSafeInteger, buyouts : Nat,
                 anchor : Nat \cup {Unset}, version : Nat \ {0}]
SpellRecords == [value : 0 .. MaxSafeInteger, start : Nat, rule : {Rule(Drafts[d]) : d \in Acceptable},
                 same : BOOLEAN]

PriceTypeOK ==
    /\ versions \in Seq(Acceptable) /\ Latest >= 1
    /\ chore \in ChoreRecords
    /\ minute \in Nat
    /\ spell \in SpellRecords

(* A member holds a chore under a saved version, and was shown its quote.      *)
QuoteInv ==
    ~OnMarket => /\ row.version \in DOMAIN versions
                 /\ row.shown = Quote(row)

(* The growth clock is a whole number of intervals past its start, and the     *)
(* value is what they paid; it stops at the cap only.                          *)
ClockInv ==
    /\ chore.anchor # Unset => chore.anchor <= minute
    /\ spell.same => spell.rule = Rule(Current)
    /\ OnMarket /\ spell.same =>
          IF chore.anchor = Unset THEN AtValueCap(Current, chore.value)
          ELSE \E k \in Nat : /\ chore.anchor = spell.start + k * Current.valueGrowth.intervalMinutes
                              /\ chore.value = Grown(Current, spell.value, k)

ToldInv == told \in Seq(Nat) /\ BandsToldOnce

PriceInv == PriceTypeOK /\ QuoteInv /\ ClockInv /\ ToldInv

LEMMA CurrentIsSaved ==
    ASSUME PriceTypeOK
    PROVE  /\ Latest \in DOMAIN versions
           /\ \A v \in DOMAIN versions : versions[v] \in Acceptable /\ v \in Nat \ {0} /\ v <= Latest
           /\ versions[Latest] \in Acceptable
           /\ Current \in HouseholdConfigShape
<1>1. versions \in Seq(Acceptable) /\ Latest >= 1
  BY DEF PriceTypeOK
<1>2. Len(versions) \in Nat /\ DOMAIN versions = 1 .. Len(versions)
  BY <1>1, LenProperties
<1>3. \A v \in 1 .. Len(versions) : versions[v] \in Acceptable
  BY <1>1, ElementOfSeq
<1>4. Latest \in DOMAIN versions
  BY <1>1, <1>2 DEF Latest
<1>5. versions[Latest] \in Acceptable
  BY <1>2, <1>3, <1>4
<1>6. Current \in HouseholdConfigShape
  BY <1>5, SavedIsShaped DEF Current, ConfigVersion
<1> QED  BY <1>2, <1>3, <1>4, <1>5, <1>6 DEF Latest

LEMMA ChoreFields ==
    ASSUME PriceTypeOK
    PROVE  /\ chore.status \in {"AVAILABLE", "ASSIGNED"}
           /\ chore.value \in 0 .. MaxSafeInteger
           /\ chore.value \in Nat /\ chore.value <= MaxSafeInteger
           /\ chore.buyouts \in Nat
           /\ chore.anchor \in Nat \cup {Unset}
           /\ spell.value \in 0 .. MaxSafeInteger
           /\ spell.start \in Nat
           /\ spell.same \in BOOLEAN
BY SafeIntegers DEF PriceTypeOK, ChoreRecords, SpellRecords

(* What pins the quote of a member who holds the chore.                        *)
LEMMA PinnedQuote ==
    ASSUME QuoteInv, PriceTypeOK, ~OnMarket
    PROVE  /\ versions[row.version] \in Acceptable
           /\ ConfigFor("BUYOUT_COST", row) = Drafts[versions[row.version]]
           /\ ConfigFor("RESET_ON_COMPLETION", row) = Drafts[versions[row.version]]
           /\ Quote(row) = QuoteFrom(Drafts[versions[row.version]], Now)
<1>1. row.version \in DOMAIN versions
  BY DEF QuoteInv
<1>2. versions[row.version] \in Acceptable /\ row.version # Unset
  BY <1>1, CurrentIsSaved DEF Unset
<1>3. ConfigVersionFor("BUYOUT_COST", row) = row.version
  <2>1. "BUYOUT_COST" \in AssignmentPinned /\ "BUYOUT_COST" \notin InstancePinned
    BY DEF AssignmentPinned, InstancePinned
  <2> QED  BY <1>2, <2>1 DEF ConfigVersionFor
<1>4. ConfigVersionFor("RESET_ON_COMPLETION", row) = row.version
  <2>1. "RESET_ON_COMPLETION" \in AssignmentPinned /\ "RESET_ON_COMPLETION" \notin InstancePinned
    BY DEF AssignmentPinned, InstancePinned
  <2> QED  BY <1>2, <2>1 DEF ConfigVersionFor
<1> QED  BY <1>2, <1>3, <1>4 DEF Quote, ConfigFor, ConfigVersion

LEMMA ResetValueCounted ==
    ASSUME PriceTypeOK, QuoteInv, ~OnMarket
    PROVE  ValueAfter(row) \in 0 .. MaxSafeInteger
<1>1. Drafts[versions[row.version]] \in HouseholdConfigShape
  BY PinnedQuote, SavedIsShaped
<1>2. Now.currentValue \in 0 .. MaxSafeInteger /\ Now.baseValue \in 0 .. MaxSafeInteger
  BY ChoreFields, PricesAssumption DEF Now, Context
<1> QED  BY <1>1, <1>2, ShapedIsPriced, ResetIsCounted, PinnedQuote DEF ValueAfter

LEMMA PriceStart == PriceInit => PriceInv
<1> SUFFICES ASSUME PriceInit PROVE PriceInv
  OBVIOUS
<1>1. PICK d \in Acceptable : versions = <<d>>
  BY DEF PriceInit
<1>2. versions \in Seq(Acceptable) /\ Len(versions) = 1
  BY <1>1
<1>3. /\ chore = [status |-> "AVAILABLE", value |-> BaseValue, buyouts |-> 0, anchor |-> 0, version |-> 1]
      /\ minute = 0 /\ told = <<>>
      /\ spell = [value |-> BaseValue, start |-> 0, rule |-> Rule(Current), same |-> TRUE]
  BY DEF PriceInit, Offer, SpellFrom
<1>4. Current = Drafts[d]
  BY <1>1, <1>2 DEF Current, ConfigVersion, Latest
<1>5. PriceTypeOK
  <2>1. chore \in ChoreRecords
    BY <1>3, PricesAssumption DEF ChoreRecords
  <2>2. spell \in SpellRecords
    BY <1>3, <1>4, PricesAssumption DEF SpellRecords
  <2> QED  BY <1>2, <1>3, <2>1, <2>2 DEF PriceTypeOK, Latest
<1>6. QuoteInv
  BY <1>3 DEF QuoteInv, OnMarket
<1>7. ClockInv
  <2>1. Grown(Current, BaseValue, 0) = BaseValue
    BY <1>5, CurrentIsSaved, GrownNone, PricesAssumption
  <2>2. Current.valueGrowth.intervalMinutes \in Nat
    BY <1>5, CurrentIsSaved, ShapedIsPriced, GrowthNumbers
  <2>3. chore.anchor = spell.start + 0 * Current.valueGrowth.intervalMinutes
    BY <1>3, <2>2
  <2>4. chore.anchor # Unset /\ chore.anchor <= minute /\ spell.rule = Rule(Current)
    BY <1>3 DEF Unset
  <2>5. chore.value = Grown(Current, spell.value, 0)
    BY <1>3, <2>1
  <2>6. \E k \in Nat : /\ chore.anchor = spell.start + k * Current.valueGrowth.intervalMinutes
                       /\ chore.value = Grown(Current, spell.value, k)
    BY <2>3, <2>5
  <2> QED  BY <2>4, <2>6 DEF ClockInv
<1>8. ToldInv
  BY <1>3 DEF ToldInv, BandsToldOnce
<1> QED  BY <1>5, <1>6, <1>7, <1>8 DEF PriceInv

-----------------------------------------------------------------------------
(* The growth clock has just started.                                          *)
LEMMA ClockStarts ==
    ASSUME PriceTypeOK', (chore.anchor = minute)', (spell = SpellFrom(chore.value, minute))'
    PROVE  ClockInv'
<1>1. Current' \in HouseholdConfigShape
  <2>1. versions' \in Seq(Acceptable) /\ Len(versions') >= 1
    BY DEF PriceTypeOK, Latest
  <2>2. versions'[Len(versions')] \in Acceptable
    BY <2>1, LenProperties, ElementOfSeq
  <2> QED  BY <2>2, SavedIsShaped DEF Current, ConfigVersion, Latest
<1>2. chore'.value \in 0 .. MaxSafeInteger /\ chore'.anchor \in Nat /\ minute' \in Nat
  BY DEF PriceTypeOK, ChoreRecords
<1>3. spell' = [value |-> chore'.value, start |-> minute', rule |-> Rule(Current'), same |-> TRUE]
  BY DEF SpellFrom
<1>4. Current'.valueGrowth.intervalMinutes \in Nat
  BY <1>1, ShapedIsPriced, GrowthNumbers
<1>5. chore'.anchor = spell'.start + 0 * Current'.valueGrowth.intervalMinutes
  BY <1>2, <1>3, <1>4
<1>6. chore'.value = Grown(Current', spell'.value, 0)
  BY <1>1, <1>2, <1>3, GrownNone
<1>7. \E k \in Nat : /\ chore'.anchor = spell'.start + k * Current'.valueGrowth.intervalMinutes
                     /\ chore'.value = Grown(Current', spell'.value, k)
  BY <1>5, <1>6
<1>8. chore'.anchor # Unset /\ chore'.anchor <= minute' /\ spell'.rule = Rule(Current')
  BY <1>2, <1>3 DEF Unset
<1> QED  BY <1>7, <1>8 DEF ClockInv

LEMMA SavesStep ==
    ASSUME PriceInv, NEW chosen \in DOMAIN Drafts, Saves(chosen)
    PROVE  PriceInv'
<1>1. /\ chosen \in Acceptable
      /\ versions' = Append(versions, chosen)
      /\ spell' = [spell EXCEPT !.same = @ /\ Rule(Drafts[chosen]) = spell.rule]
      /\ chore' = chore /\ row' = row /\ minute' = minute /\ told' = told
  BY DEF Saves
<1>2. versions \in Seq(Acceptable) /\ Len(versions) \in Nat /\ Len(versions) >= 1
  BY DEF PriceInv, PriceTypeOK, Latest
<1>3. /\ versions' \in Seq(Acceptable)
      /\ Len(versions') = Len(versions) + 1
      /\ versions'[Len(versions) + 1] = chosen
      /\ \A i \in 1 .. Len(versions) : versions'[i] = versions[i]
  BY <1>1, <1>2, AppendProperties
<1>4. DOMAIN versions' = 1 .. (Len(versions) + 1) /\ DOMAIN versions = 1 .. Len(versions)
  BY <1>2, <1>3, LenProperties
<1>5. Current' = Drafts[chosen]
  BY <1>3 DEF Current, ConfigVersion, Latest
<1>6. PriceTypeOK'
  <2>1. spell' \in SpellRecords
    BY <1>1 DEF PriceInv, PriceTypeOK, SpellRecords
  <2> QED  BY <1>1, <1>2, <1>3, <2>1 DEF PriceInv, PriceTypeOK, Latest
<1>7. QuoteInv'
  <2> SUFFICES ASSUME ~OnMarket'
               PROVE  row'.version \in DOMAIN versions' /\ row'.shown = Quote(row)'
    BY DEF QuoteInv
  <2>1. ~OnMarket
    BY <1>1 DEF OnMarket
  <2>2. row.version \in DOMAIN versions /\ row.shown = Quote(row)
    BY <2>1 DEF PriceInv, QuoteInv
  <2>3. row.version \in DOMAIN versions' /\ versions'[row.version] = versions[row.version]
    BY <1>2, <1>3, <1>4, <2>2
  <2>4. row.version # Unset
    BY <1>2, <1>4, <2>2 DEF Unset
  <2>5. "BUYOUT_COST" \in AssignmentPinned /\ "BUYOUT_COST" \notin InstancePinned
    BY DEF AssignmentPinned, InstancePinned
  <2>6. ConfigVersionFor("BUYOUT_COST", row) = row.version /\ ConfigVersionFor("BUYOUT_COST", row)' = row.version
    BY <1>1, <2>4, <2>5 DEF ConfigVersionFor
  <2>7. Quote(row)' = Quote(row)
    BY <1>1, <2>3, <2>6 DEF Quote, ConfigFor, ConfigVersion, Now
  <2> QED  BY <1>1, <2>2, <2>3, <2>7
<1>8. ClockInv'
  <2>1. spell'.value = spell.value /\ spell'.start = spell.start /\ spell'.rule = spell.rule
    BY <1>1 DEF PriceInv, PriceTypeOK, SpellRecords
  <2>2. spell'.same => spell.same /\ Rule(Drafts[chosen]) = spell.rule
    BY <1>1 DEF PriceInv, PriceTypeOK, SpellRecords
  <2>3. spell.same => spell.rule = Rule(Current)
    BY DEF PriceInv, ClockInv
  <2>4. Current \in HouseholdConfigShape /\ Drafts[chosen] \in HouseholdConfigShape
    BY <1>1, CurrentIsSaved, SavedIsShaped DEF PriceInv
  <2>5. chore'.anchor # Unset => chore'.anchor <= minute'
    BY <1>1 DEF PriceInv, ClockInv
  <2>6. ASSUME spell'.same
        PROVE  /\ spell'.rule = Rule(Current')
               /\ OnMarket' => IF chore'.anchor = Unset THEN AtValueCap(Current', chore'.value)
                               ELSE \E k \in Nat :
                                       /\ chore'.anchor = spell'.start + k * Current'.valueGrowth.intervalMinutes
                                       /\ chore'.value = Grown(Current', spell'.value, k)
    <3>1. Rule(Current) = Rule(Current')
      BY <1>5, <2>2, <2>3, <2>6
    <3>2. /\ Current.valueGrowth.intervalMinutes = Current'.valueGrowth.intervalMinutes
          /\ \A v : AtValueCap(Current, v) = AtValueCap(Current', v)
          /\ \A v, k : Grown(Current, v, k) = Grown(Current', v, k)
      BY <1>5, <2>4, <3>1, RuleDecides
    <3>3. OnMarket' => OnMarket /\ spell.same
      BY <1>1, <2>2, <2>6 DEF OnMarket
    <3>4. OnMarket' =>
             IF chore.anchor = Unset THEN AtValueCap(Current, chore.value)
             ELSE \E k \in Nat : /\ chore.anchor = spell.start + k * Current.valueGrowth.intervalMinutes
                                 /\ chore.value = Grown(Current, spell.value, k)
      BY <3>3 DEF PriceInv, ClockInv
    <3>5. spell'.rule = Rule(Current')
      BY <1>5, <2>1, <2>2, <2>6
    <3> QED  BY <1>1, <2>1, <3>2, <3>4, <3>5
  <2> QED  BY <2>5, <2>6 DEF ClockInv
<1>9. ToldInv'
  BY <1>1 DEF PriceInv, ToldInv, BandsToldOnce
<1> QED  BY <1>6, <1>7, <1>8, <1>9 DEF PriceInv

LEMMA SeedsStep == PriceInv /\ Seeds => PriceInv'
<1> SUFFICES ASSUME PriceInv, Seeds PROVE PriceInv'
  OBVIOUS
<1>1. /\ chore' = [chore EXCEPT !.anchor = minute]
      /\ spell' = SpellFrom(chore.value, minute)
      /\ versions' = versions /\ row' = row /\ minute' = minute /\ told' = told /\ OnMarket
  BY DEF Seeds
<1>2. PriceTypeOK /\ versions[Latest] \in Acceptable /\ Current' = Current
  BY <1>1, CurrentIsSaved DEF PriceInv, Current, ConfigVersion, Latest
<1>3. /\ chore' \in ChoreRecords
      /\ chore'.anchor = minute /\ chore'.value = chore.value /\ chore'.status = chore.status
  BY <1>1, <1>2 DEF PriceTypeOK, ChoreRecords
<1>4. PriceTypeOK'
  <2>1. spell' \in SpellRecords
    BY <1>1, <1>2 DEF PriceTypeOK, SpellRecords, SpellFrom, Current, ConfigVersion, ChoreRecords
  <2> QED  BY <1>1, <1>2, <1>3, <2>1 DEF PriceTypeOK, Latest
<1>5. QuoteInv'
  BY <1>1, <1>3 DEF QuoteInv, OnMarket
<1>6. ClockInv'
  <2>1. (spell = SpellFrom(chore.value, minute))'
    BY <1>1, <1>2, <1>3 DEF SpellFrom
  <2> QED  BY <1>1, <1>3, <1>4, <2>1, ClockStarts
<1>7. ToldInv'
  BY <1>1, <1>3 DEF PriceInv, ToldInv, BandsToldOnce
<1> QED  BY <1>4, <1>5, <1>6, <1>7 DEF PriceInv

LEMMA GrowsStep == PriceInv /\ Grows => PriceInv'
<1> SUFFICES ASSUME PriceInv, Grows PROVE PriceInv'
  OBVIOUS
<1> DEFINE step == GrownValue(Current, chore.value, chore.anchor, minute)
           band == GrowthBand(Current, BaseValue, chore.value, step.value)
           i == Current.valueGrowth.intervalMinutes
           n == (minute - chore.anchor) \div i
<1>1. /\ OnMarket /\ chore.anchor # Unset /\ step.steps > 0
      /\ chore' = [chore EXCEPT !.value = step.value,
                                !.anchor = IF step.capped THEN Unset ELSE step.anchor]
      /\ told' = IF band = Unset THEN told ELSE Append(told, band)
      /\ versions' = versions /\ row' = row /\ minute' = minute /\ spell' = spell
  BY DEF Grows
<1>2. /\ PriceTypeOK /\ Current \in HouseholdConfigShape /\ Current' = Current
      /\ chore.value \in 0 .. MaxSafeInteger /\ chore.value \in Nat
      /\ chore.anchor \in Nat /\ minute \in Nat /\ chore.anchor <= minute
  BY <1>1, CurrentIsSaved, ChoreFields DEF PriceInv, PriceTypeOK, ClockInv, Current, ConfigVersion, Latest
<1>3. Current.valueGrowth.enabled
  <2>1. ~Current.valueGrowth.enabled => step.steps = 0
    BY DEF GrownValue
  <2> QED  BY <1>1, <2>1
<1>4. /\ n \in Nat
      /\ step.value = Grown(Current, chore.value, n)
      /\ step.anchor = chore.anchor + n * i
      /\ step.capped => AtValueCap(Current, step.value)
  <2> HIDE DEF step, n
  <2> QED  BY <1>2, <1>3, SweptIsGrown DEF step, n
<1>5. i \in Nat \ {0}
  BY <1>2, ShapedIsPriced, GrowthNumbers
<1> HIDE DEF step, band, n
<1>6. step.value \in chore.value .. MaxSafeInteger /\ step.value \in Nat /\ step.value >= chore.value
  <2>1. Grown(Current, chore.value, n) \in chore.value .. MaxSafeInteger
    BY <1>2, <1>4, ShapedIsPriced, GrownExplicit
  <2> QED  BY <1>2, <1>4, <2>1
<1>7. n * i \in Nat /\ step.anchor \in Nat /\ step.anchor <= minute
  <2>1. minute - chore.anchor \in Int
    BY <1>2
  <2>2. i * n <= minute - chore.anchor
    BY <1>5, <2>1, Division DEF n
  <2>3. n * i = i * n /\ n * i \in Nat
    BY <1>4, <1>5
  <2> HIDE DEF i
  <2> QED  BY <1>2, <1>4, <2>2, <2>3
<1>8. /\ chore' \in ChoreRecords
      /\ chore'.value = step.value /\ chore'.status = chore.status
      /\ chore'.anchor = IF step.capped THEN Unset ELSE step.anchor
  <2> DEFINE anchor == IF step.capped THEN Unset ELSE step.anchor
  <2>1. chore' = [chore EXCEPT !.value = step.value, !.anchor = anchor]
    BY <1>1
  <2>2. anchor \in Nat \cup {Unset}
    BY <1>7
  <2>3. step.value \in 0 .. MaxSafeInteger
    BY <1>2, <1>6
  <2>4. chore \in ChoreRecords
    BY <1>2 DEF PriceTypeOK
  <2> HIDE DEF anchor
  <2>5. /\ chore' \in ChoreRecords /\ chore'.value = step.value
        /\ chore'.status = chore.status /\ chore'.anchor = anchor
    BY <2>1, <2>2, <2>3, <2>4 DEF ChoreRecords
  <2> QED  BY <2>5 DEF anchor
<1>9. PriceTypeOK'
  BY <1>1, <1>2, <1>8 DEF PriceTypeOK, Latest
<1>10. QuoteInv'
  BY <1>1, <1>8 DEF QuoteInv, OnMarket
<1>11. ClockInv'
  <2>1. chore'.anchor # Unset => chore'.anchor <= minute'
    BY <1>1, <1>7, <1>8
  <2>2. spell'.same => spell'.rule = Rule(Current)'
    BY <1>1, <1>2 DEF PriceInv, ClockInv
  <2>3. ASSUME spell'.same, chore'.anchor = Unset
        PROVE  AtValueCap(Current', chore'.value)
    <3>1. step.capped
      BY <1>7, <1>8, <2>3 DEF Unset
    <3> QED  BY <1>2, <1>4, <1>8, <3>1
  <2>4. ASSUME spell'.same, chore'.anchor # Unset
        PROVE  \E k \in Nat : /\ chore'.anchor = spell'.start + k * Current'.valueGrowth.intervalMinutes
                              /\ chore'.value = Grown(Current', spell'.value, k)
    <3>1. PICK k \in Nat : /\ chore.anchor = spell.start + k * i
                           /\ chore.value = Grown(Current, spell.value, k)
      BY <1>1, <2>4 DEF PriceInv, ClockInv
    <3>2. chore'.value = Grown(Current, spell.value, k + n)
      <4>1. spell.value \in 0 .. MaxSafeInteger
        BY <1>2, ChoreFields
      <4>2. Grown(Current, Grown(Current, spell.value, k), n) = Grown(Current, spell.value, k + n)
        BY <1>2, <1>4, <4>1, GrownTwice
      <4> QED  BY <1>4, <1>8, <3>1, <4>2
    <3>3. chore'.anchor = spell.start + (k + n) * i
      <4>1. chore'.anchor = spell.start + k * i + n * i
        BY <1>4, <1>8, <2>4, <3>1
      <4>2. (k + n) * i = k * i + n * i /\ k * i \in Nat
        BY <1>4, <1>5
      <4>3. spell.start \in Nat
        BY <1>2, ChoreFields
      <4> HIDE DEF i
      <4> QED  BY <1>7, <4>1, <4>2, <4>3
    <3>4. k + n \in Nat
      BY <1>4
    <3> QED  BY <1>1, <1>2, <3>2, <3>3, <3>4
  <2> QED  BY <2>1, <2>2, <2>3, <2>4 DEF ClockInv
<1>12. ToldInv'
  <2>1. told \in Seq(Nat) /\ BandsToldOnce
    BY DEF PriceInv, ToldInv
  <2>2. Len(told) \in Nat /\ DOMAIN told = 1 .. Len(told) /\ \A j \in 1 .. Len(told) : told[j] \in Nat
    BY <2>1, LenProperties, ElementOfSeq
  <2>3. CASE band = Unset
    <3>1. told' = told
      BY <1>1, <2>3
    <3>2. \A j \in DOMAIN told : told[j] <= chore'.value
      BY <1>2, <1>6, <1>8, <2>1, <2>2 DEF BandsToldOnce
    <3> QED  BY <2>1, <3>1, <3>2 DEF ToldInv, BandsToldOnce
  <2>4. CASE band # Unset
    <3>1. band \in Nat /\ chore.value < band /\ band <= step.value
      <4>1. BaseValue \in Nat
        BY PricesAssumption, SafeIntegers
      <4> QED  BY <1>2, <1>6, <2>4, <4>1, BandsBetween DEF band
    <3>2. told' = Append(told, band)
      BY <1>1, <2>4
    <3>3. /\ told' \in Seq(Nat) /\ Len(told') = Len(told) + 1
          /\ told'[Len(told) + 1] = band
          /\ \A j \in 1 .. Len(told) : told'[j] = told[j]
      BY <2>1, <3>1, <3>2, AppendProperties
    <3>4. DOMAIN told' = 1 .. (Len(told) + 1)
      BY <2>2, <3>3, LenProperties
    <3>5. ASSUME NEW a \in 1 .. (Len(told) + 1)
          PROVE  told'[a] <= chore'.value /\ \A b \in 1 .. (a - 1) : told'[b] < told'[a]
      <4>1. CASE a = Len(told) + 1
        <5>1. told'[a] = band /\ band <= chore'.value
          BY <1>8, <3>1, <3>3, <4>1
        <5>2. ASSUME NEW b \in 1 .. (a - 1) PROVE told'[b] < told'[a]
          <6>1. b \in 1 .. Len(told)
            BY <2>2, <4>1
          <6>2. told'[b] = told[b] /\ told[b] \in Nat /\ told[b] <= chore.value
            BY <2>1, <2>2, <3>3, <6>1 DEF BandsToldOnce
          <6> QED  BY <1>2, <3>1, <5>1, <6>2
        <5> QED  BY <5>1, <5>2
      <4>2. CASE a # Len(told) + 1
        <5>1. a \in 1 .. Len(told)
          BY <2>2, <4>2
        <5>2. told'[a] = told[a] /\ told[a] <= chore.value /\ told[a] \in Nat
          BY <2>1, <2>2, <3>3, <5>1 DEF BandsToldOnce
        <5>3. ASSUME NEW b \in 1 .. (a - 1) PROVE told'[b] < told'[a]
          <6>1. b \in 1 .. Len(told)
            BY <2>2, <5>1
          <6> QED  BY <2>1, <2>2, <3>3, <5>1, <5>2, <6>1 DEF BandsToldOnce
        <5> QED  BY <1>2, <1>6, <1>8, <5>2, <5>3
      <4> QED  BY <4>1, <4>2
    <3> QED  BY <3>3, <3>4, <3>5 DEF ToldInv, BandsToldOnce
  <2> QED  BY <2>3, <2>4
<1> QED  BY <1>9, <1>10, <1>11, <1>12 DEF PriceInv

LEMMA AssignsStep == PriceInv /\ Assigns => PriceInv'
<1> SUFFICES ASSUME PriceInv, Assigns PROVE PriceInv'
  OBVIOUS
<1> DEFINE pinned == [version |-> Latest, shown |-> NoQuote]
<1>1. /\ OnMarket
      /\ chore' = [chore EXCEPT !.status = "ASSIGNED"]
      /\ row' = [pinned EXCEPT !.shown = Quote(pinned)]
      /\ versions' = versions /\ minute' = minute /\ spell' = spell /\ told' = told
  BY DEF Assigns
<1>2. PriceTypeOK /\ Latest \in DOMAIN versions /\ Latest \in Nat \ {0} /\ Current' = Current
  BY <1>1, CurrentIsSaved DEF PriceInv, Current, ConfigVersion, Latest
<1>3. /\ chore' \in ChoreRecords
      /\ chore'.value = chore.value /\ chore'.anchor = chore.anchor /\ chore'.buyouts = chore.buyouts
      /\ chore'.status = "ASSIGNED"
  BY <1>1, <1>2 DEF PriceTypeOK, ChoreRecords
<1>4. PriceTypeOK'
  BY <1>1, <1>2, <1>3 DEF PriceTypeOK, Latest
<1>5. QuoteInv'
  <2>1. row'.version = Latest /\ row'.shown = Quote(pinned)
    BY <1>1
  <2>2. Latest # Unset
    BY <1>2 DEF Unset
  <2>3. "BUYOUT_COST" \in AssignmentPinned /\ "BUYOUT_COST" \notin InstancePinned
    BY DEF AssignmentPinned, InstancePinned
  <2>4. ConfigVersionFor("BUYOUT_COST", pinned) = Latest
    <3>1. pinned.version = Latest
      OBVIOUS
    <3> HIDE DEF pinned
    <3> QED  BY <2>2, <2>3, <3>1 DEF ConfigVersionFor
  <2>5. ConfigVersionFor("BUYOUT_COST", row)' = Latest
    BY <2>1, <2>2, <2>3 DEF ConfigVersionFor
  <2>6. Quote(pinned) = QuoteFrom(Drafts[versions[Latest]], Now)
    BY <2>4 DEF Quote, ConfigFor, ConfigVersion
  <2>7. Quote(row)' = QuoteFrom(Drafts[versions[Latest]], Now)
    BY <1>1, <1>3, <2>5 DEF Quote, ConfigFor, ConfigVersion, Now
  <2> QED  BY <1>1, <1>2, <2>1, <2>6, <2>7 DEF QuoteInv
<1>6. ClockInv'
  BY <1>1, <1>2, <1>3 DEF PriceInv, ClockInv, OnMarket
<1>7. ToldInv'
  BY <1>1, <1>3 DEF PriceInv, ToldInv, BandsToldOnce
<1> QED  BY <1>4, <1>5, <1>6, <1>7 DEF PriceInv

LEMMA BuysOutStep == PriceInv /\ BuysOut => PriceInv'
<1> SUFFICES ASSUME PriceInv, BuysOut PROVE PriceInv'
  OBVIOUS
<1> DEFINE quote == Quote(row)
<1>1. /\ ~OnMarket /\ chore.buyouts < MaxBuyoutsSeen /\ chore.value <= MaxValueSeen /\ quote # NoQuote
      /\ chore' = [chore EXCEPT !.status = "AVAILABLE", !.value = quote.newValue,
                                !.buyouts = @ + 1, !.anchor = minute]
      /\ spell' = SpellFrom(quote.newValue, minute)
      /\ versions' = versions /\ minute' = minute /\ told' = told
  BY DEF BuysOut
<1>2. /\ PriceTypeOK /\ versions[Latest] \in Acceptable /\ Current' = Current
      /\ chore.value \in 0 .. MaxSafeInteger /\ chore.value \in Nat /\ chore.buyouts \in Nat /\ minute \in Nat
  BY <1>1, CurrentIsSaved, ChoreFields DEF PriceInv, PriceTypeOK, Current, ConfigVersion, Latest
<1>3. quote.newValue \in chore.value .. MaxSafeInteger
  <2> DEFINE d == versions[row.version]
  <2>1. d \in Acceptable /\ quote = QuoteFrom(Drafts[d], Now)
    BY <1>1, <1>2, PinnedQuote DEF PriceInv
  <2>2. Now = Context(chore.value, BaseValue, chore.buyouts)
    BY DEF Now
  <2>3. Now \in BuyoutContexts
    <3>1. chore.value \in 0 .. MaxValueSeen /\ chore.buyouts \in 0 .. MaxBuyoutsSeen
      BY <1>1, <1>2, PricesAssumption
    <3> QED  BY <2>2, <3>1, BuyoutContextsOnTheMarket
  <2>4. CostFinite(Drafts[d], Now) /\ IncreaseFinite(Drafts[d], Now)
    BY <1>1, <2>1 DEF QuoteFrom
  <2> HIDE DEF d, quote
  <2> QED  BY <1>2, <2>1, <2>2, <2>3, <2>4, QuotedNumbers
<1> HIDE DEF quote
<1>4. quote.newValue \in 0 .. MaxSafeInteger /\ quote.newValue >= chore.value /\ quote.newValue \in Nat
  BY <1>2, <1>3, SafeIntegers
<1>5. /\ chore' \in ChoreRecords /\ chore'.status = "AVAILABLE"
      /\ chore'.value = quote.newValue /\ chore'.anchor = minute
  <2> DEFINE value == quote.newValue
             count == chore.buyouts + 1
  <2>1. /\ chore' = [chore EXCEPT !.status = "AVAILABLE", !.value = value, !.buyouts = count, !.anchor = minute]
        /\ value \in 0 .. MaxSafeInteger /\ count \in Nat /\ minute \in Nat /\ chore \in ChoreRecords
    BY <1>1, <1>2, <1>4 DEF PriceTypeOK
  <2> HIDE DEF value, count
  <2>2. /\ chore' \in ChoreRecords /\ chore'.status = "AVAILABLE"
        /\ chore'.value = value /\ chore'.anchor = minute
    BY <2>1 DEF ChoreRecords
  <2> QED  BY <2>2 DEF value
<1>6. spell' \in SpellRecords
  BY <1>1, <1>2, <1>4 DEF SpellFrom, SpellRecords, Current, ConfigVersion
<1>7. PriceTypeOK'
  BY <1>1, <1>2, <1>5, <1>6 DEF PriceTypeOK, Latest
<1>8. QuoteInv'
  BY <1>5 DEF QuoteInv, OnMarket
<1>9. ClockInv'
  <2>1. (spell = SpellFrom(chore.value, minute))'
    BY <1>1, <1>2, <1>5 DEF SpellFrom
  <2> QED  BY <1>1, <1>5, <1>7, <2>1, ClockStarts
<1>10. ToldInv'
  <2>1. told \in Seq(Nat) /\ BandsToldOnce
    BY DEF PriceInv, ToldInv
  <2>2. DOMAIN told = 1 .. Len(told) /\ \A j \in 1 .. Len(told) : told[j] \in Nat
    BY <2>1, LenProperties, ElementOfSeq
  <2>3. \A j \in DOMAIN told : told[j] <= chore'.value
    BY <1>2, <1>4, <1>5, <2>1, <2>2 DEF BandsToldOnce
  <2> QED  BY <1>1, <2>1, <2>3 DEF ToldInv, BandsToldOnce
<1> QED  BY <1>7, <1>8, <1>9, <1>10 DEF PriceInv

LEMMA ReturnsStep == PriceInv /\ Returns => PriceInv'
<1> SUFFICES ASSUME PriceInv, Returns PROVE PriceInv'
  OBVIOUS
<1>1. /\ chore' = [chore EXCEPT !.status = "AVAILABLE", !.anchor = minute]
      /\ spell' = SpellFrom(chore.value, minute)
      /\ versions' = versions /\ minute' = minute /\ told' = told
  BY DEF Returns
<1>2. PriceTypeOK /\ versions[Latest] \in Acceptable /\ Current' = Current /\ minute \in Nat
  BY <1>1, CurrentIsSaved DEF PriceInv, PriceTypeOK, Current, ConfigVersion, Latest
<1>3. /\ chore' \in ChoreRecords /\ chore'.status = "AVAILABLE"
      /\ chore'.anchor = minute /\ chore'.value = chore.value
  BY <1>1, <1>2 DEF PriceTypeOK, ChoreRecords
<1>4. spell' \in SpellRecords
  BY <1>1, <1>2 DEF PriceTypeOK, ChoreRecords, SpellFrom, SpellRecords, Current, ConfigVersion
<1>5. PriceTypeOK'
  BY <1>1, <1>2, <1>3, <1>4 DEF PriceTypeOK, Latest
<1>6. QuoteInv'
  BY <1>3 DEF QuoteInv, OnMarket
<1>7. ClockInv'
  <2>1. (spell = SpellFrom(chore.value, minute))'
    BY <1>1, <1>2, <1>3 DEF SpellFrom
  <2> QED  BY <1>1, <1>3, <1>5, <2>1, ClockStarts
<1>8. ToldInv'
  BY <1>1, <1>3 DEF PriceInv, ToldInv, BandsToldOnce
<1> QED  BY <1>5, <1>6, <1>7, <1>8 DEF PriceInv

LEMMA CompletesStep == PriceInv /\ Completes => PriceInv'
<1> SUFFICES ASSUME PriceInv, Completes PROVE PriceInv'
  OBVIOUS
<1> DEFINE value == ValueAfter(row)
<1>1. /\ ~OnMarket
      /\ chore' = [status |-> "AVAILABLE", value |-> value, buyouts |-> 0, anchor |-> minute, version |-> Latest]
      /\ spell' = SpellFrom(value, minute)
      /\ versions' = versions /\ minute' = minute /\ told' = <<>>
  BY DEF Completes, Offer
<1>2. /\ PriceTypeOK /\ versions[Latest] \in Acceptable /\ Current' = Current
      /\ minute \in Nat /\ Latest \in Nat \ {0}
  BY <1>1, CurrentIsSaved DEF PriceInv, PriceTypeOK, Current, ConfigVersion, Latest
<1>3. value \in 0 .. MaxSafeInteger
  BY <1>1, ResetValueCounted DEF PriceInv
<1> HIDE DEF value
<1>4. chore' \in ChoreRecords /\ chore'.status = "AVAILABLE" /\ chore'.anchor = minute /\ chore'.value = value
  BY <1>1, <1>2, <1>3 DEF ChoreRecords
<1>5. spell' \in SpellRecords
  BY <1>1, <1>2, <1>3 DEF SpellFrom, SpellRecords, Current, ConfigVersion
<1>6. PriceTypeOK'
  BY <1>1, <1>2, <1>4, <1>5 DEF PriceTypeOK, Latest
<1>7. QuoteInv'
  BY <1>4 DEF QuoteInv, OnMarket
<1>8. ClockInv'
  <2>1. (spell = SpellFrom(chore.value, minute))'
    BY <1>1, <1>2, <1>4 DEF SpellFrom
  <2> QED  BY <1>1, <1>4, <1>6, <2>1, ClockStarts
<1>9. ToldInv'
  BY <1>1 DEF ToldInv, BandsToldOnce
<1> QED  BY <1>6, <1>7, <1>8, <1>9 DEF PriceInv

LEMMA TimeStep == PriceInv /\ (Passes \/ UNCHANGED priceVars) => PriceInv'
<1> SUFFICES ASSUME PriceInv, Passes \/ UNCHANGED priceVars PROVE PriceInv'
  OBVIOUS
<1>1. /\ versions' = versions /\ chore' = chore /\ row' = row /\ spell' = spell /\ told' = told
      /\ minute' = minute \/ minute' = minute + TickMinutes
  BY DEF Passes, priceVars
<1>2. PriceTypeOK /\ minute \in Nat /\ chore.anchor \in Nat \cup {Unset}
  BY ChoreFields DEF PriceInv, PriceTypeOK
<1>3. minute' \in Nat /\ minute <= minute'
  BY <1>1, <1>2, PricesAssumption
<1>4. Current' = Current /\ OnMarket' = OnMarket
  BY <1>1 DEF Current, ConfigVersion, Latest, OnMarket
<1>5. PriceTypeOK'
  BY <1>1, <1>2, <1>3 DEF PriceTypeOK, Latest
<1>6. QuoteInv'
  <2>1. ConfigVersionFor("BUYOUT_COST", row)' = ConfigVersionFor("BUYOUT_COST", row)
    BY <1>1 DEF ConfigVersionFor, Latest
  <2>2. Quote(row)' = Quote(row)
    BY <1>1, <2>1 DEF Quote, ConfigFor, ConfigVersion, Now
  <2> QED  BY <1>1, <1>4, <2>2 DEF PriceInv, QuoteInv
<1>7. ClockInv'
  <2>1. chore'.anchor # Unset => chore'.anchor <= minute'
    BY <1>1, <1>2, <1>3 DEF PriceInv, ClockInv
  <2> QED  BY <1>1, <1>4, <2>1 DEF PriceInv, ClockInv
<1>8. ToldInv'
  BY <1>1 DEF PriceInv, ToldInv, BandsToldOnce
<1> QED  BY <1>5, <1>6, <1>7, <1>8 DEF PriceInv

LEMMA PriceStep == PriceInv /\ [PriceNext]_priceVars => PriceInv'
BY SavesStep, SeedsStep, GrowsStep, AssignsStep, BuysOutStep, ReturnsStep, CompletesStep, TimeStep
   DEF PriceNext

(* The prices and clocks of a chore are what the invariant says, always.       *)
THEOREM PriceInvariant == PriceSpec => []PriceInv
BY PriceStart, PriceStep, PTL DEF PriceSpec

-----------------------------------------------------------------------------
(* A quote once shown stays the price; a saved formula gives one wherever it   *)
(* was tried (buildQuote with the version the draw pinned).                    *)
THEOREM QuotesAreHonoured == PriceSpec => []QuoteIsHonoured
<1>1. PriceInv => QuoteIsHonoured
  <2> SUFFICES ASSUME PriceInv, ~OnMarket
               PROVE  Quote(row) = row.shown /\ (Now \in Grid => row.shown # NoQuote)
    BY DEF QuoteIsHonoured
  <2>1. Quote(row) = row.shown
    BY DEF PriceInv, QuoteInv
  <2>2. ASSUME Now \in Grid PROVE Quote(row) # NoQuote
    <3> DEFINE d == versions[row.version]
    <3>1. d \in Acceptable /\ Quote(row) = QuoteFrom(Drafts[d], Now)
      BY PinnedQuote DEF PriceInv
    <3>2. CostFinite(Drafts[d], Now) /\ IncreaseFinite(Drafts[d], Now)
      BY <2>2, <3>1, SavedFormulasWork
    <3>3. Now = Context(chore.value, BaseValue, chore.buyouts) /\ chore.value \in 0 .. MaxSafeInteger
      BY ChoreFields DEF PriceInv, Now
    <3>4. Now \in BuyoutContexts
      BY <2>2 DEF BuyoutContexts
    <3> HIDE DEF d
    <3> QED  BY <3>1, <3>2, <3>3, <3>4, QuotedNumbers
  <2> QED  BY <2>1, <2>2
<1> QED  BY <1>1, PriceInvariant, PTL

LEMMA BeatIgnored == PriceInv => GrowthIgnoresTheBeat
<1> SUFFICES ASSUME PriceInv, OnMarket, spell.same, Current.valueGrowth.enabled
             PROVE  IF chore.anchor = Unset THEN AtValueCap(Current, chore.value)
                    ELSE GrownValue(Current, chore.value, chore.anchor, minute).value
                             = GrownValue(Current, spell.value, spell.start, minute).value
  BY DEF GrowthIgnoresTheBeat
<1> DEFINE i == Current.valueGrowth.intervalMinutes
<1>1. /\ Current \in HouseholdConfigShape /\ minute \in Nat
      /\ chore.value \in 0 .. MaxSafeInteger /\ chore.anchor \in Nat \cup {Unset}
      /\ spell.value \in 0 .. MaxSafeInteger /\ spell.start \in Nat
  BY CurrentIsSaved, ChoreFields DEF PriceInv, PriceTypeOK
<1>2. chore.anchor = Unset => AtValueCap(Current, chore.value)
  BY DEF PriceInv, ClockInv
<1>3. ASSUME chore.anchor # Unset
      PROVE  GrownValue(Current, chore.value, chore.anchor, minute).value
                 = GrownValue(Current, spell.value, spell.start, minute).value
  <2>1. PICK k \in Nat : chore.anchor = spell.start + k * i /\ chore.value = Grown(Current, spell.value, k)
    BY <1>3 DEF PriceInv, ClockInv
  <2>2. i \in Nat \ {0} /\ k * i \in Nat /\ chore.anchor \in Nat /\ chore.anchor <= minute
    <3>1. i \in Nat \ {0}
      BY <1>1, ShapedIsPriced, GrowthNumbers
    <3>2. chore.anchor \in Nat /\ chore.anchor <= minute
      BY <1>1, <1>3 DEF PriceInv, ClockInv
    <3> QED  BY <3>1, <3>2
  <2> HIDE DEF i
  <2> DEFINE n == (minute - chore.anchor) \div i
             m == (minute - spell.start) \div i
  <2>3. n \in Int /\ i * n <= minute - chore.anchor /\ minute - chore.anchor < i * n + i
    <3>1. minute - chore.anchor \in Int
      BY <1>1, <2>2
    <3> QED  BY <2>2, <3>1, Division
  <2>4. n \in Nat /\ GrownValue(Current, chore.value, chore.anchor, minute).value = Grown(Current, chore.value, n)
    BY <1>1, <2>2, SweptIsGrown DEF i
  <2>5. spell.start <= minute
    BY <1>1, <2>1, <2>2
  <2>6. GrownValue(Current, spell.value, spell.start, minute).value = Grown(Current, spell.value, m)
    BY <1>1, <2>5, SweptIsGrown DEF i
  <2>7. m = k + n
    <3> HIDE DEF n
    <3>1. i * (k + n) = k * i + i * n
      BY <2>2, <2>3
    <3>2. k + n \in Int /\ i * n \in Int /\ minute - spell.start \in Int
      BY <1>1, <2>2, <2>3
    <3>3. i * (k + n) <= minute - spell.start /\ minute - spell.start < i * (k + n) + i
      BY <1>1, <2>1, <2>2, <2>3, <3>1, <3>2
    <3> QED  BY <2>2, <3>2, <3>3, DivisionIs
  <2>8. Grown(Current, chore.value, n) = Grown(Current, spell.value, k + n)
    <3> HIDE DEF n
    <3>1. Grown(Current, Grown(Current, spell.value, k), n) = Grown(Current, spell.value, k + n)
      BY <1>1, <2>4, GrownTwice
    <3> QED  BY <2>1, <3>1
  <2> QED  BY <2>4, <2>6, <2>7, <2>8
<1> QED  BY <1>2, <1>3

LEMMA RisesDisclosed == PriceInv => RisesAsDisclosed
<1> SUFFICES ASSUME PriceInv PROVE RisesAsDisclosed
  OBVIOUS
<1> DEFINE vg == Current.valueGrowth
           i == vg.intervalMinutes
           p == vg.pointsPerInterval
           ValueAt(m) == GrownValue(Current, chore.value, chore.anchor, m).value
           silent == ~vg.enabled \/ ~OnMarket \/ chore.anchor = Unset \/ AtValueCap(Current, chore.value)
<1>1. /\ Current \in HouseholdConfigShape /\ minute \in Nat
      /\ chore.value \in 0 .. MaxSafeInteger /\ chore.anchor \in Nat \cup {Unset}
      /\ chore.value \in Nat /\ chore.value <= MaxSafeInteger
      /\ chore.anchor # Unset => chore.anchor <= minute
  BY CurrentIsSaved, ChoreFields DEF PriceInv, PriceTypeOK, ClockInv
<1>2. i \in Nat \ {0} /\ p \in Nat \ {0} /\ vg.enabled \in BOOLEAN
  BY <1>1, ShapedIsPriced, GrowthNumbers
<1>3. /\ silent => DisclosedRise = NoRise
      /\ ~silent => DisclosedRise = [points |-> p, nextAt |-> chore.anchor + i] /\ DisclosedRise # NoRise
  <2>1. DisclosedRise = IF silent THEN NoRise ELSE [points |-> p, nextAt |-> chore.anchor + i]
    BY DEF DisclosedRise
  <2>2. ~silent => DisclosedRise.points # 0
    <3>1. ~silent => DisclosedRise.points = p
      BY <2>1
    <3> HIDE DEF silent, p
    <3> QED  BY <1>2, <3>1
  <2> HIDE DEF silent
  <2> QED  BY <2>1, <2>2 DEF NoRise
<1>4. ASSUME silent, OnMarket, chore.anchor # Unset, NEW m \in minute .. LastMinute
      PROVE  ValueAt(m) = chore.value
  <2>1. CASE ~vg.enabled
    BY <2>1 DEF GrownValue
  <2>2. CASE vg.enabled
    <3>1. AtValueCap(Current, chore.value)
      BY <1>4, <2>2
    <3>2. m \in Int /\ chore.anchor <= m /\ chore.anchor \in Int
      BY <1>1, <1>4, PricesAssumption
    <3>3. ValueAt(m) = Grown(Current, chore.value, (m - chore.anchor) \div i)
      BY <1>1, <2>2, <3>2, SweptIsGrown
    <3> QED  BY <3>1, <3>3 DEF Grown
  <2> QED  BY <2>1, <2>2
<1>5. ASSUME ~silent PROVE chore.anchor \in Nat /\ chore.anchor <= minute /\ vg.enabled
  BY <1>1, <1>5
<1>6. ASSUME ~silent, NEW m \in minute .. ((chore.anchor + i) - 1)
      PROVE  ValueAt(m) = chore.value
  <2>1. m - chore.anchor < i
    <3> HIDE DEF i
    <3> QED  BY <1>1, <1>2, <1>5, <1>6
  <2> QED  BY <2>1 DEF GrownValue
<1>7. ASSUME ~silent
      PROVE  /\ ValueAt(chore.anchor + i) = Smaller(UnderCap(Current, chore.value + p), MaxSafeInteger)
             /\ chore.value < MaxSafeInteger => ValueAt(chore.anchor + i) > chore.value
  <2> DEFINE now == chore.anchor + i
             raised == UnderCap(Current, chore.value + p)
  <2>1. now \in Int /\ chore.anchor \in Int /\ chore.anchor <= now /\ now - chore.anchor = i
    <3> HIDE DEF i
    <3> QED  BY <1>2, <1>5, <1>7
  <2>2. (now - chore.anchor) \div i = 1
    <3>1. i * 1 <= i /\ i < i * 1 + i /\ i \in Int
      <4> HIDE DEF i
      <4> QED  BY <1>2
    <3>2. i \div i = 1
      <4> HIDE DEF i
      <4> QED  BY <1>2, <3>1, DivisionIs
    <3> HIDE DEF now, i
    <3> QED  BY <2>1, <3>2
  <2>3. ValueAt(now) = Grown(Current, chore.value, 1)
    <3> HIDE DEF now
    <3> QED  BY <1>1, <1>5, <1>7, <2>1, <2>2, SweptIsGrown
  <2>4. 1 * p = p /\ chore.value + p \in Int
    <3> HIDE DEF p
    <3> QED  BY <1>1, <1>2
  <2>5. Grown(Current, chore.value, 1) = ClampToSafe(raised, chore.value)
    BY <1>7, <2>4 DEF Grown
  <2>6. raised \in Int /\ raised > chore.value
    <3> DEFINE cap == Current.valueIncrease.maximumValue
    <3>1. cap # Unset => cap \in Nat /\ chore.value < cap
      <4>1. cap # Unset => cap \in Nat
        BY <1>1, ShapedIsPriced, IncreaseNumbers
      <4> QED  BY <1>1, <1>7, <4>1 DEF AtValueCap
    <3>2. /\ raised \in Int
          /\ cap = Unset => raised = chore.value + p
          /\ cap # Unset => raised = IF chore.value + p <= cap THEN chore.value + p ELSE cap
      BY <1>1, <2>4, ShapedIsPriced, CapAllows
    <3> HIDE DEF cap, raised, p
    <3> QED  BY <1>1, <1>2, <3>1, <3>2
  <2>7. ClampToSafe(raised, chore.value) = Smaller(raised, MaxSafeInteger)
    <3> HIDE DEF raised
    <3>1. chore.value \in Int
      BY <1>1
    <3>2. ClampToSafe(raised, chore.value)
              = IF raised >= chore.value THEN IF raised <= MaxSafeInteger THEN raised ELSE MaxSafeInteger
                ELSE IF chore.value <= MaxSafeInteger THEN chore.value ELSE MaxSafeInteger
      BY <2>6, <3>1, Clamped
    <3> QED  BY <2>6, <3>1, <3>2, SafeIntegers DEF Smaller
  <2>8. chore.value < MaxSafeInteger => Smaller(raised, MaxSafeInteger) > chore.value
    <3> HIDE DEF raised
    <3> QED  BY <1>1, <2>6, SafeIntegers DEF Smaller
  <2> QED  BY <2>3, <2>5, <2>7, <2>8
<1>8. CASE silent
  BY <1>3, <1>4, <1>8 DEF RisesAsDisclosed
<1>9. CASE ~silent
  <2>1. DisclosedRise.points = p /\ DisclosedRise.nextAt = chore.anchor + i /\ DisclosedRise # NoRise
    BY <1>3, <1>9
  <2>2. \A m \in minute .. (DisclosedRise.nextAt - 1) : ValueAt(m) = chore.value
    <3>1. \A m \in minute .. ((chore.anchor + i) - 1) : ValueAt(m) = chore.value
      BY <1>6, <1>9
    <3>2. DisclosedRise.nextAt - 1 = (chore.anchor + i) - 1
      BY <2>1
    <3> HIDE DEF silent, ValueAt, i
    <3> QED  BY <3>1, <3>2
  <2>3. /\ ValueAt(DisclosedRise.nextAt)
              = Smaller(UnderCap(Current, chore.value + DisclosedRise.points), MaxSafeInteger)
        /\ chore.value < MaxSafeInteger => ValueAt(DisclosedRise.nextAt) > chore.value
    <3>1. /\ ValueAt(chore.anchor + i) = Smaller(UnderCap(Current, chore.value + p), MaxSafeInteger)
          /\ chore.value < MaxSafeInteger => ValueAt(chore.anchor + i) > chore.value
      BY <1>7, <1>9
    <3> HIDE DEF silent, ValueAt, i, p
    <3> QED  BY <2>1, <3>1
  <2> HIDE DEF silent
  <2> QED  BY <2>1, <2>2, <2>3 DEF RisesAsDisclosed
<1> QED  BY <1>8, <1>9

(* Growth pays every whole interval once, tells a band once, and rises as the  *)
(* card disclosed, at whatever beat the sweep runs.                            *)
THEOREM GrowthAlwaysPaysAndTellsOnce == PriceSpec => []GrowthPaysAndTellsOnce
<1>1. PriceInv => BandsToldOnce
  BY DEF PriceInv, ToldInv
<1>2. PriceInv => GrowthPaysAndTellsOnce
  BY <1>1, BeatIgnored, RisesDisclosed DEF GrowthPaysAndTellsOnce
<1> QED  BY <1>2, PriceInvariant, PTL

-----------------------------------------------------------------------------
(* The preview's chain, as its first n steps: each is the one before, or that  *)
(* with one context more.                                                      *)
IsChain(c, n, cfg, base) ==
    c = [k \in 0 .. n |-> IF k = 0 THEN <<Context(base, base, 0)>> ELSE Escalated(cfg, c[k - 1])]

LEMMA ChainExists ==
    ASSUME NEW cfg, NEW base, NEW n \in Nat
    PROVE  \E c : IsChain(c, n, cfg, base)
<1> DEFINE T == {k \in Nat : ~ \E c : IsChain(c, k, cfg, base)}
<1>1. SUFFICES ASSUME T # {} PROVE FALSE
  <2>1. T = {}
    BY <1>1
  <2> QED  BY <2>1
<1>2. PICK k \in T : \A j \in T : k <= j
  <2> HIDE DEF T
  <2>1. T \in SUBSET Nat
    BY DEF T
  <2> QED  BY <1>1, <2>1, SmallestOf
<1>3. k \in Nat /\ ~ \E c : IsChain(c, k, cfg, base)
  BY <1>2
<1>4. CASE k = 0
  <2> DEFINE c == [a \in 0 .. 0 |-> <<Context(base, base, 0)>>]
  <2>1. c = [a \in 0 .. 0 |-> IF a = 0 THEN <<Context(base, base, 0)>> ELSE Escalated(cfg, c[a - 1])]
    OBVIOUS
  <2> HIDE DEF c
  <2> QED  BY <1>3, <1>4, <2>1 DEF IsChain
<1>5. CASE k # 0
  <2>1. k - 1 \in Nat /\ k - 1 \notin T
    BY <1>2, <1>3, <1>5
  <2>2. PICK b : IsChain(b, k - 1, cfg, base)
    BY <2>1
  <2> DEFINE c == [a \in 0 .. k |-> IF a = k THEN Escalated(cfg, b[k - 1]) ELSE b[a]]
  <2>3. ASSUME NEW a \in 0 .. k
        PROVE  c[a] = IF a = 0 THEN <<Context(base, base, 0)>> ELSE Escalated(cfg, c[a - 1])
    <3>1. CASE a = k
      <4>1. c[a - 1] = b[k - 1] /\ c[a] = Escalated(cfg, b[k - 1])
        BY <1>3, <1>5, <3>1
      <4> HIDE DEF c
      <4> QED  BY <1>5, <3>1, <4>1
    <3>2. CASE a # k
      <4>1. a \in 0 .. (k - 1) /\ c[a] = b[a] /\ (a # 0 => c[a - 1] = b[a - 1])
        BY <1>3, <3>2
      <4>2. b[a] = IF a = 0 THEN <<Context(base, base, 0)>> ELSE Escalated(cfg, b[a - 1])
        BY <2>2, <4>1 DEF IsChain
      <4> HIDE DEF c
      <4> QED  BY <4>1, <4>2
    <3> QED  BY <3>1, <3>2
  <2>4. c = [a \in 0 .. k |-> IF a = 0 THEN <<Context(base, base, 0)>> ELSE Escalated(cfg, c[a - 1])]
    <3>1. c = [a \in 0 .. k |-> c[a]]
      OBVIOUS
    <3> HIDE DEF c
    <3> QED  BY <2>3, <3>1
  <2> HIDE DEF c
  <2> QED  BY <1>3, <2>4 DEF IsChain
<1> QED  BY <1>4, <1>5

LEMMA ChainOfSteps ==
    ASSUME NEW cfg, NEW base
    PROVE  \E c : IsChain(c, ChainSteps, cfg, base) /\ EscalationChain(cfg, base) = c[ChainSteps]
<1> DEFINE Steps(f) == f = [k \in 0 .. ChainSteps |->
                               IF k = 0 THEN <<Context(base, base, 0)>> ELSE Escalated(cfg, f[k - 1])]
           after == CHOOSE f : Steps(f)
<1>1. PICK c : IsChain(c, ChainSteps, cfg, base)
  BY ChainExists, PricesAssumption
<1>2. EscalationChain(cfg, base) = after[ChainSteps]
  BY DEF EscalationChain
<1>3. Steps(c)
  BY <1>1 DEF IsChain
<1>4. Steps(after)
  <2> HIDE DEF Steps
  <2> QED  BY <1>3
<1>5. IsChain(after, ChainSteps, cfg, base)
  BY <1>4 DEF IsChain
<1> HIDE DEF after
<1> QED  BY <1>2, <1>5

LEMMA OneMore ==
    ASSUME NEW S, NEW s \in Seq(S), NEW x
    PROVE  /\ Append(s, x) \in Seq(S \cup {x})
           /\ Len(Append(s, x)) = Len(s) + 1
           /\ Append(s, x)[Len(s) + 1] = x
           /\ \A i \in 1 .. Len(s) : Append(s, x)[i] = s[i]
           /\ Range(s) \subseteq Range(Append(s, x))
<1>1. s \in Seq(S \cup {x})
  BY SeqDef
<1>2. /\ Append(s, x) \in Seq(S \cup {x}) /\ Len(Append(s, x)) = Len(s) + 1
      /\ Append(s, x)[Len(s) + 1] = x /\ \A i \in 1 .. Len(s) : Append(s, x)[i] = s[i]
  BY <1>1, AppendProperties
<1>3. /\ DOMAIN s = 1 .. Len(s) /\ Len(s) \in Nat
      /\ DOMAIN Append(s, x) = 1 .. (Len(s) + 1)
  BY <1>1, <1>2, LenProperties
<1>4. ASSUME NEW i \in DOMAIN s PROVE s[i] \in Range(Append(s, x))
  <2>1. i \in DOMAIN Append(s, x) /\ Append(s, x)[i] = s[i]
    BY <1>2, <1>3
  <2> QED  BY <2>1 DEF Range
<1> QED  BY <1>2, <1>4 DEF Range

LEMMA ChainStep ==
    ASSUME NEW cfg, NEW base, NEW n \in Nat, NEW c, IsChain(c, n, cfg, base), NEW k \in 1 .. n
    PROVE  c[k] = Escalated(cfg, c[k - 1])
BY DEF IsChain

(* The chain of a later step holds every context of an earlier one.            *)
LEMMA ChainKeeps ==
    ASSUME NEW cfg, NEW base, NEW n \in Nat, NEW c, IsChain(c, n, cfg, base), NEW k \in 0 .. n
    PROVE  \A j \in k .. n : (\E S : c[j] \in Seq(S)) /\ Range(c[k]) \subseteq Range(c[j])
<1> DEFINE T == {j \in Nat : j <= n /\ ~ \E S : c[j] \in Seq(S)}
           U == {j \in Nat : j \in k .. n /\ ~ (Range(c[k]) \subseteq Range(c[j]))}
<1>0. \A j \in 1 .. n : c[j] = Escalated(cfg, c[j - 1])
  BY ChainStep
<1>1. T = {}
  <2> SUFFICES ASSUME T # {} PROVE FALSE
    OBVIOUS
  <2>1. PICK j \in T : \A i \in T : j <= i
    <3> HIDE DEF T
    <3>1. T \in SUBSET Nat
      BY DEF T
    <3> QED  BY <3>1, SmallestOf
  <2>2. j \in Nat /\ j <= n /\ ~ \E S : c[j] \in Seq(S)
    BY <2>1
  <2>3. CASE j = 0
    <3>1. c[0] = <<Context(base, base, 0)>>
      BY DEF IsChain
    <3>2. c[0] \in Seq({Context(base, base, 0)})
      BY <3>1
    <3> QED  BY <2>2, <2>3, <3>2
  <2>4. CASE j # 0
    <3>1. j - 1 \in Nat /\ j - 1 \notin T /\ j - 1 <= n /\ j \in 1 .. n
      BY <2>1, <2>2, <2>4
    <3>2. PICK S : c[j - 1] \in Seq(S)
      BY <3>1
    <3> HIDE DEF T, U
    <3> DEFINE chain == c[j - 1]
               ctx == chain[Len(chain)]
               x == Context(IncreasedValue(cfg, ctx), ctx.baseValue, Len(chain))
    <3>3. c[j] = IF Stuck(cfg, ctx) THEN chain ELSE Append(chain, x)
      <4>1. c[j] = Extended(cfg, chain, ctx)
        BY <1>0, <3>1 DEF Escalated
      <4>2. Extended(cfg, chain, ctx) = IF Stuck(cfg, ctx) THEN chain ELSE Append(chain, x)
        BY DEF Extended
      <4> HIDE DEF chain, ctx, x
      <4> QED  BY <4>1, <4>2
    <3>4. chain \in Seq(S) /\ Append(chain, x) \in Seq(S \cup {x})
      <4> HIDE DEF x
      <4> QED  BY <3>2, OneMore
    <3> HIDE DEF chain, ctx, x
    <3>5. c[j] \in Seq(S) \/ c[j] \in Seq(S \cup {x})
      BY <3>3, <3>4
    <3> QED  BY <2>2, <3>5
  <2> QED  BY <2>3, <2>4
<1>2. \A j \in k .. n : \E S : c[j] \in Seq(S)
  BY <1>1
<1>3. U = {}
  <2> SUFFICES ASSUME U # {} PROVE FALSE
    OBVIOUS
  <2>1. PICK j \in U : \A i \in U : j <= i
    <3> HIDE DEF U
    <3>1. U \in SUBSET Nat
      BY DEF U
    <3> QED  BY <3>1, SmallestOf
  <2>2. j \in Nat /\ j \in k .. n /\ ~ (Range(c[k]) \subseteq Range(c[j]))
    BY <2>1
  <2>3. j # k
    BY <2>2
  <2>4. j - 1 \in Nat /\ j - 1 \in k .. n /\ j \in 1 .. n
    BY <2>2, <2>3
  <2>5. j - 1 \notin U
    BY <2>1, <2>2
  <2>6. Range(c[k]) \subseteq Range(c[j - 1])
    BY <2>4, <2>5
  <2>7. PICK S : c[j - 1] \in Seq(S)
    BY <1>2, <2>4
  <2> HIDE DEF T, U
  <2> DEFINE chain == c[j - 1]
             ctx == chain[Len(chain)]
             x == Context(IncreasedValue(cfg, ctx), ctx.baseValue, Len(chain))
  <2>8. c[j] = IF Stuck(cfg, ctx) THEN chain ELSE Append(chain, x)
    <3>1. c[j] = Extended(cfg, chain, ctx)
      BY <1>0, <2>4 DEF Escalated
    <3>2. Extended(cfg, chain, ctx) = IF Stuck(cfg, ctx) THEN chain ELSE Append(chain, x)
      BY DEF Extended
    <3> HIDE DEF chain, ctx, x
    <3> QED  BY <3>1, <3>2
  <2>9. Range(chain) \subseteq Range(Append(chain, x))
    <3> HIDE DEF x
    <3> QED  BY <2>7, OneMore
  <2>10. Range(c[j - 1]) \subseteq Range(c[j])
    <3> HIDE DEF ctx, x
    <3> QED  BY <2>8, <2>9
  <2> QED  BY <2>2, <2>6, <2>10
<1> QED  BY <1>2, <1>3

-----------------------------------------------------------------------------
(* Each buyout of an occurrence was allowed, and cost and raised what the      *)
(* version the draw had pinned computes of the value and the buyouts before.   *)
BuyoutRecords == [version : Nat \ {0}, cost : Int, from : 0 .. MaxSafeInteger, to : 0 .. MaxSafeInteger]

BuyoutAt(i) == Context(trail[i].from, BaseValue, i - 1)

TrailInv ==
    /\ trail \in Seq(BuyoutRecords)
    /\ Len(trail) = chore.buyouts
    /\ \A i \in DOMAIN trail :
          /\ trail[i].version \in DOMAIN versions
          /\ LET cfg == Drafts[versions[trail[i].version]]
             IN  /\ ~Stuck(cfg, BuyoutAt(i))
                 /\ trail[i].to = IncreasedValue(cfg, BuyoutAt(i))
                 /\ trail[i].cost = BuyoutCost(cfg, BuyoutAt(i))

LEMMA TrailStart == PriceInit => TrailInv
<1> SUFFICES ASSUME PriceInit PROVE TrailInv
  OBVIOUS
<1>1. trail = <<>> /\ chore.buyouts = 0
  BY DEF PriceInit, Offer
<1>2. trail \in Seq(BuyoutRecords) /\ Len(trail) = 0 /\ DOMAIN trail = {}
  BY <1>1
<1> QED  BY <1>1, <1>2 DEF TrailInv

(* Saved versions stay what they are.                                          *)
LEMMA TrailSpared ==
    ASSUME PriceInv, TrailInv, trail' = trail, chore'.buyouts = chore.buyouts,
           \A v \in DOMAIN versions : v \in DOMAIN versions' /\ versions'[v] = versions[v]
    PROVE  TrailInv'
BY DEF TrailInv, BuyoutAt

LEMMA TrailGrows == PriceInv /\ TrailInv /\ BuysOut => TrailInv'
<1> SUFFICES ASSUME PriceInv, TrailInv, BuysOut PROVE TrailInv'
  OBVIOUS
<1> DEFINE quote == Quote(row)
           cfg == Drafts[versions[row.version]]
           bought == [version |-> row.version, cost |-> quote.cost,
                      from |-> chore.value, to |-> quote.newValue]
           n == Len(trail)
<1>1. /\ ~OnMarket /\ chore.buyouts < MaxBuyoutsSeen /\ chore.value <= MaxValueSeen /\ quote # NoQuote
      /\ ~AtValueCap(ConfigFor("BUYOUT_COST", row), chore.value)
      /\ chore' = [chore EXCEPT !.status = "AVAILABLE", !.value = quote.newValue,
                                !.buyouts = @ + 1, !.anchor = minute]
      /\ trail' = Append(trail, bought)
      /\ versions' = versions
  BY DEF BuysOut
<1>2. /\ PriceTypeOK
      /\ chore.value \in 0 .. MaxSafeInteger /\ chore.value \in Nat /\ chore.buyouts \in Nat
      /\ row.version \in DOMAIN versions /\ row.version \in Nat \ {0} /\ versions[row.version] \in Acceptable
      /\ ConfigFor("BUYOUT_COST", row) = cfg /\ quote = QuoteFrom(cfg, Now)
  BY <1>1, CurrentIsSaved, ChoreFields, PinnedQuote DEF PriceInv, QuoteInv
<1>3. trail \in Seq(BuyoutRecords) /\ n = chore.buyouts /\ n \in Nat /\ DOMAIN trail = 1 .. n
  BY LenProperties DEF TrailInv
<1>4. Now = Context(chore.value, BaseValue, n) /\ Now.currentValue = chore.value
  BY <1>3 DEF Now, Context
<1>5. CostFinite(cfg, Now) /\ IncreaseFinite(cfg, Now)
  <2> HIDE DEF cfg
  <2> QED  BY <1>1, <1>2 DEF QuoteFrom
<1>6. /\ quote.cost = BuyoutCost(cfg, Now)
      /\ quote.newValue = IncreasedValue(cfg, Now)
      /\ ~Stuck(cfg, Now)
  <2> HIDE DEF cfg
  <2> QED  BY <1>1, <1>2, <1>4, <1>5 DEF QuoteFrom, Stuck
<1>7. quote.cost \in Int /\ quote.newValue \in 0 .. MaxSafeInteger
  <2>1. Now \in BuyoutContexts
    <3>1. chore.value \in 0 .. MaxValueSeen /\ n \in 0 .. MaxBuyoutsSeen
      BY <1>1, <1>2, <1>3, PricesAssumption
    <3> QED  BY <1>4, <3>1, BuyoutContextsOnTheMarket
  <2>2. quote.cost \in 1 .. MaxSafeInteger /\ quote.newValue \in chore.value .. MaxSafeInteger
    <3> DEFINE d == versions[row.version]
    <3>1. d \in Acceptable /\ quote = QuoteFrom(Drafts[d], Now)
          /\ CostFinite(Drafts[d], Now) /\ IncreaseFinite(Drafts[d], Now)
      BY <1>2, <1>5
    <3> HIDE DEF d, quote, n
    <3> QED  BY <1>2, <1>4, <2>1, <3>1, QuotedNumbers
  <2> HIDE DEF quote
  <2> QED  BY <1>2, <2>2, SafeIntegers
<1>8. bought \in BuyoutRecords
  <2> HIDE DEF quote
  <2> QED  BY <1>2, <1>7 DEF BuyoutRecords
<1>9. /\ bought.version = row.version /\ bought.cost = quote.cost
      /\ bought.from = chore.value /\ bought.to = quote.newValue
  BY ONLY DEF bought
<1>10. chore'.buyouts = n + 1
  BY <1>1, <1>2, <1>3 DEF PriceTypeOK, ChoreRecords
<1> HIDE DEF quote, bought, n, cfg
<1>11. /\ trail' \in Seq(BuyoutRecords) /\ Len(trail') = n + 1
       /\ trail'[n + 1] = bought
       /\ \A i \in 1 .. n : trail'[i] = trail[i]
  BY <1>1, <1>3, <1>8, AppendProperties DEF n
<1>12. DOMAIN trail' = 1 .. (n + 1)
  BY <1>3, <1>11, LenProperties
<1>13. ASSUME NEW i \in 1 .. (n + 1)
       PROVE  /\ trail'[i].version \in DOMAIN versions'
              /\ ~Stuck(Drafts[versions'[trail'[i].version]], BuyoutAt(i)')
              /\ trail'[i].to = IncreasedValue(Drafts[versions'[trail'[i].version]], BuyoutAt(i)')
              /\ trail'[i].cost = BuyoutCost(Drafts[versions'[trail'[i].version]], BuyoutAt(i)')
  <2>1. CASE i = n + 1
    <3>1. trail'[i] = bought
      BY <1>11, <2>1
    <3>2. BuyoutAt(i)' = Now
      <4>1. i - 1 = n
        BY <1>3, <2>1
      <4> QED  BY <1>4, <1>9, <3>1, <4>1 DEF BuyoutAt
    <3>3. Drafts[versions'[trail'[i].version]] = cfg /\ trail'[i].version \in DOMAIN versions'
      BY <1>1, <1>2, <1>9, <3>1 DEF cfg
    <3> QED  BY <1>6, <1>9, <3>1, <3>2, <3>3
  <2>2. CASE i # n + 1
    <3>1. i \in DOMAIN trail /\ trail'[i] = trail[i]
      BY <1>3, <1>11, <2>2
    <3>2. BuyoutAt(i)' = BuyoutAt(i)
      BY <3>1 DEF BuyoutAt
    <3> QED  BY <1>1, <3>1, <3>2 DEF TrailInv
  <2> QED  BY <2>1, <2>2
<1> QED  BY <1>10, <1>11, <1>12, <1>13 DEF TrailInv

LEMMA TrailStep == PriceInv /\ TrailInv /\ [PriceNext]_priceVars => TrailInv'
<1> SUFFICES ASSUME PriceInv, TrailInv, [PriceNext]_priceVars PROVE TrailInv'
  OBVIOUS
<1>1. /\ versions \in Seq(Acceptable) /\ Len(versions) \in Nat /\ DOMAIN versions = 1 .. Len(versions)
      /\ chore \in ChoreRecords
  BY LenProperties DEF PriceInv, PriceTypeOK
<1>2. ASSUME NEW chosen \in DOMAIN Drafts, Saves(chosen) PROVE TrailInv'
  <2>1. chosen \in Acceptable /\ versions' = Append(versions, chosen) /\ chore' = chore /\ trail' = trail
    BY <1>2 DEF Saves
  <2>2. /\ versions' \in Seq(Acceptable) /\ Len(versions') = Len(versions) + 1
        /\ \A i \in 1 .. Len(versions) : versions'[i] = versions[i]
    BY <1>1, <2>1, AppendProperties
  <2>3. DOMAIN versions' = 1 .. (Len(versions) + 1)
    BY <1>1, <2>2, LenProperties
  <2>4. \A v \in DOMAIN versions : v \in DOMAIN versions' /\ versions'[v] = versions[v]
    BY <1>1, <2>2, <2>3
  <2> QED  BY <2>1, <2>4, TrailSpared
<1>3. CASE Seeds \/ Grows \/ Assigns \/ Returns \/ Passes \/ UNCHANGED priceVars
  <2>1. trail' = trail /\ versions' = versions
    BY <1>3 DEF Seeds, Grows, Assigns, Returns, Passes, priceVars
  <2>2. chore'.buyouts = chore.buyouts
    <3>1. CASE Seeds
      BY <1>1, <3>1 DEF Seeds, ChoreRecords
    <3>2. CASE Grows
      <4> DEFINE step == GrownValue(Current, chore.value, chore.anchor, minute)
                 anchor == IF step.capped THEN Unset ELSE step.anchor
      <4>1. chore' = [chore EXCEPT !.value = step.value, !.anchor = anchor]
        BY <3>2 DEF Grows
      <4> HIDE DEF step, anchor
      <4> QED  BY <1>1, <4>1 DEF ChoreRecords
    <3>3. CASE Assigns
      BY <1>1, <3>3 DEF Assigns, ChoreRecords
    <3>4. CASE Returns
      BY <1>1, <3>4 DEF Returns, ChoreRecords
    <3>5. CASE Passes \/ UNCHANGED priceVars
      BY <3>5 DEF Passes, priceVars
    <3> QED  BY <1>3, <3>1, <3>2, <3>3, <3>4, <3>5
  <2> QED  BY <2>1, <2>2, TrailSpared
<1>4. CASE BuysOut
  BY <1>4, TrailGrows
<1>5. CASE Completes
  <2>1. trail' = <<>> /\ chore'.buyouts = 0
    BY <1>5 DEF Completes, Offer
  <2>2. trail' \in Seq(BuyoutRecords) /\ Len(trail') = 0 /\ DOMAIN trail' = {}
    BY <2>1
  <2> QED  BY <2>1, <2>2 DEF TrailInv
<1> QED  BY <1>2, <1>3, <1>4, <1>5 DEF PriceNext

(* With one version, from the sample value and with no growth in between, the  *)
(* buyouts go through the contexts of the chain.                               *)
LEMMA BuyoutsFollowTheChain ==
    ASSUME TrailInv, NEW v \in DOMAIN versions, OnlyBuyouts(v), BaseValue = SampleBaseValue,
           NEW i \in DOMAIN trail, i <= ChainSteps
    PROVE  /\ BuyoutAt(i) \in Range(EscalationChain(Drafts[versions[v]], BaseValue))
           /\ Context(trail[i].to, BaseValue, i) \in Range(EscalationChain(Drafts[versions[v]], BaseValue))
<1> DEFINE cfg == Drafts[versions[v]]
           N == ChainSteps
           chain == EscalationChain(cfg, BaseValue)
<1>1. trail \in Seq(BuyoutRecords) /\ DOMAIN trail = 1 .. Len(trail) /\ Len(trail) \in Nat /\ N \in Nat
  BY LenProperties, PricesAssumption DEF TrailInv
<1>2. ASSUME NEW k \in DOMAIN trail
      PROVE  /\ ~Stuck(cfg, BuyoutAt(k))
             /\ trail[k].to = IncreasedValue(cfg, BuyoutAt(k))
             /\ trail[k].from = IF k = 1 THEN BaseValue ELSE trail[k - 1].to
  BY DEF TrailInv, OnlyBuyouts
<1> HIDE DEF cfg
<1>3. PICK c : IsChain(c, N, cfg, BaseValue) /\ chain = c[N]
  BY ChainOfSteps
<1> HIDE DEF chain
<1>4. \A j \in 1 .. N : c[j] = Escalated(cfg, c[j - 1])
  BY <1>1, <1>3, ChainStep
<1>5. c[0] = <<Context(BaseValue, BaseValue, 0)>>
  BY <1>1, <1>3 DEF IsChain
<1> DEFINE Follows(k) == /\ Len(c[k]) = k + 1
                         /\ k + 1 \in DOMAIN c[k]
                         /\ c[k][k + 1] = Context(IF k = 0 THEN BaseValue ELSE trail[k].to, BaseValue, k)
           Furthest == IF Len(trail) <= N THEN Len(trail) ELSE N
           T == {k \in Nat : k <= Furthest /\ ~Follows(k)}
<1>6. Furthest \in Nat /\ Furthest <= N /\ Furthest <= Len(trail)
  BY <1>1
<1> HIDE DEF Furthest
<1>7. T = {}
  <2> SUFFICES ASSUME T # {} PROVE FALSE
    OBVIOUS
  <2>1. PICK k \in T : \A j \in T : k <= j
    <3> HIDE DEF T
    <3>1. T \in SUBSET Nat
      BY DEF T
    <3> QED  BY <3>1, SmallestOf
  <2>2. k \in Nat /\ k <= Furthest /\ ~Follows(k)
    BY <2>1
  <2>3. CASE k = 0
    <3>1. Len(c[0]) = 1 /\ c[0][1] = Context(BaseValue, BaseValue, 0) /\ 1 \in DOMAIN c[0]
      BY <1>5
    <3>2. Follows(0)
      <4>1. 0 + 1 = 1
        OBVIOUS
      <4> QED  BY <3>1, <4>1
    <3> HIDE DEF Follows
    <3> QED  BY <2>2, <2>3, <3>2
  <2>4. CASE k # 0
    <3>1. k - 1 \in Nat /\ k - 1 \notin T /\ k - 1 <= Furthest /\ k \in 1 .. N /\ k \in DOMAIN trail
      <4> HIDE DEF T, Follows
      <4> QED  BY <1>1, <1>6, <2>1, <2>2, <2>4
    <3>2. Follows(k - 1)
      <4> HIDE DEF Follows
      <4> QED  BY <3>1
    <3> DEFINE s == c[k - 1]
               x == Context(trail[k].to, BaseValue, k)
    <3>3. Len(s) = k /\ s[k] = BuyoutAt(k)
      <4>1. (k - 1) + 1 = k
        BY <3>1
      <4>2. Len(s) = k /\ s[k] = Context(IF k - 1 = 0 THEN BaseValue ELSE trail[k - 1].to, BaseValue, k - 1)
        BY <3>2, <4>1
      <4>3. trail[k].from = IF k = 1 THEN BaseValue ELSE trail[k - 1].to
        BY <1>2, <3>1
      <4>4. k - 1 = 0 <=> k = 1
        BY <3>1
      <4> HIDE DEF s
      <4> QED  BY <4>2, <4>3, <4>4 DEF BuyoutAt
    <3>4. PICK S : s \in Seq(S)
      <4>1. k - 1 \in 0 .. N /\ k - 1 \in (k - 1) .. N
        BY <1>1, <3>1
      <4>2. \A j \in (k - 1) .. N : \E S : c[j] \in Seq(S)
        <5> DEFINE p == k - 1
        <5>1. p \in 0 .. N
          BY <4>1
        <5> HIDE DEF p
        <5>2. \A j \in p .. N : \E S : c[j] \in Seq(S)
          BY <1>1, <1>3, <5>1, ChainKeeps
        <5> QED  BY <5>2 DEF p
      <4> QED  BY <4>1, <4>2
    <3>5. c[k] = Append(s, x)
      <4>1. c[k] = Extended(cfg, s, s[Len(s)])
        BY <1>4, <3>1 DEF Escalated
      <4>2. ~Stuck(cfg, BuyoutAt(k)) /\ trail[k].to = IncreasedValue(cfg, BuyoutAt(k))
        BY <1>2, <3>1
      <4>3. BuyoutAt(k).baseValue = BaseValue
        BY DEF BuyoutAt, Context
      <4> HIDE DEF s
      <4> QED  BY <3>3, <4>1, <4>2, <4>3 DEF Extended
    <3> HIDE DEF s, x
    <3>6. Append(s, x) \in Seq(S \cup {x}) /\ Len(Append(s, x)) = k + 1 /\ Append(s, x)[k + 1] = x
      BY <3>3, <3>4, OneMore
    <3>7. k + 1 \in DOMAIN Append(s, x)
      <4>1. DOMAIN Append(s, x) = 1 .. (k + 1)
        BY <3>6, LenProperties
      <4>2. k + 1 \in 1 .. (k + 1)
        <5> HIDE DEF T, Follows
        <5> QED  BY <2>2, <2>4
      <4> QED  BY <4>1, <4>2
    <3>8. Follows(k)
      <4>1. Len(c[k]) = k + 1 /\ k + 1 \in DOMAIN c[k] /\ c[k][k + 1] = x
        <5> HIDE DEF Follows, T
        <5> QED  BY <3>5, <3>6, <3>7
      <4>2. x = Context(IF k = 0 THEN BaseValue ELSE trail[k].to, BaseValue, k)
        BY <2>4 DEF x
      <4> QED  BY <4>1, <4>2
    <3> HIDE DEF Follows
    <3> QED  BY <2>2, <3>8
  <2> QED  BY <2>3, <2>4
<1>8. ASSUME NEW k \in 0 .. Furthest
      PROVE  Context(IF k = 0 THEN BaseValue ELSE trail[k].to, BaseValue, k) \in Range(chain)
  <2>1. Follows(k)
    <3> HIDE DEF Follows
    <3> QED  BY <1>6, <1>7
  <2>2. Context(IF k = 0 THEN BaseValue ELSE trail[k].to, BaseValue, k) \in Range(c[k])
    BY <2>1 DEF Range
  <2>3. Range(c[k]) \subseteq Range(c[N])
    <3>1. k \in 0 .. N /\ N \in k .. N
      BY <1>1, <1>6
    <3> QED  BY <1>1, <1>3, <3>1, ChainKeeps
  <2> QED  BY <1>3, <2>2, <2>3
<1>9. i \in 0 .. Furthest /\ i - 1 \in 0 .. Furthest /\ i # 0
  BY <1>1, <1>6 DEF Furthest
<1>10. Context(trail[i].to, BaseValue, i) \in Range(chain)
  BY <1>8, <1>9
<1>11. BuyoutAt(i) \in Range(chain)
  <2>1. Context(IF i - 1 = 0 THEN BaseValue ELSE trail[i - 1].to, BaseValue, i - 1) \in Range(chain)
    BY <1>8, <1>9
  <2>2. trail[i].from = IF i = 1 THEN BaseValue ELSE trail[i - 1].to
    BY <1>2
  <2>3. i - 1 = 0 <=> i = 1
    BY <1>1
  <2> QED  BY <2>1, <2>2, <2>3 DEF BuyoutAt
<1> QED  BY <1>10, <1>11 DEF chain, cfg

(* The chain an administrator is shown before saving is what the buyouts of an *)
(* occurrence then cost and leave, and the reset is the one of the example.    *)
THEOREM PreviewsComeTrue == PriceSpec => []PreviewComesTrue
<1>1. PriceInit => PriceInv /\ TrailInv
  BY PriceStart, TrailStart
<1>2. PriceInv /\ TrailInv /\ [PriceNext]_priceVars => (PriceInv /\ TrailInv)'
  BY PriceStep, TrailStep
<1>3. PriceInv /\ TrailInv => PreviewComesTrue
  <2> SUFFICES ASSUME PriceInv, TrailInv, NEW v \in DOMAIN versions,
                      BaseValue = SampleBaseValue, OnlyBuyouts(v)
               PROVE  /\ \A i \in DOMAIN trail : i <= ChainSteps =>
                            /\ \E r \in Previews[versions[v]] :
                                  /\ r.before = Context(trail[i].from, BaseValue, i - 1)
                                  /\ r.cost = trail[i].cost
                            /\ \E r \in Previews[versions[v]] : r.before = Context(trail[i].to, BaseValue, i)
                      /\ \A r \in Previews[versions[v]] :
                            row.version = v /\ Now = r.before => ValueAfter(row) = r.reset
    BY DEF PreviewComesTrue
  <2> DEFINE cfg == Drafts[versions[v]]
             chain == EscalationChain(cfg, SampleBaseValue)
             shown(ctx) == [before |-> ctx, cost |-> BuyoutCost(cfg, ctx), reset |-> ResetValue(cfg, ctx)]
  <2>1. versions[v] \in Acceptable /\ v # Unset
    BY CurrentIsSaved DEF PriceInv, Unset
  <2>2. Previews[versions[v]] = {shown(ctx) : ctx \in Range(chain)}
    BY <2>1 DEF Previews, Preview
  <2>3. \A ctx : /\ shown(ctx).before = ctx
                 /\ shown(ctx).cost = BuyoutCost(cfg, ctx)
                 /\ shown(ctx).reset = ResetValue(cfg, ctx)
    OBVIOUS
  <2>4. ASSUME NEW i \in DOMAIN trail, i <= ChainSteps
        PROVE  /\ \E r \in Previews[versions[v]] :
                     /\ r.before = Context(trail[i].from, BaseValue, i - 1)
                     /\ r.cost = trail[i].cost
               /\ \E r \in Previews[versions[v]] : r.before = Context(trail[i].to, BaseValue, i)
    <3>1. BuyoutAt(i) \in Range(chain) /\ Context(trail[i].to, BaseValue, i) \in Range(chain)
      BY <2>4, BuyoutsFollowTheChain
    <3>2. trail[i].cost = BuyoutCost(cfg, BuyoutAt(i))
      BY DEF TrailInv, OnlyBuyouts
    <3>3. BuyoutAt(i) = Context(trail[i].from, BaseValue, i - 1)
      BY DEF BuyoutAt
    <3> HIDE DEF shown, chain, cfg
    <3>4. shown(BuyoutAt(i)) \in Previews[versions[v]]
          /\ shown(Context(trail[i].to, BaseValue, i)) \in Previews[versions[v]]
      BY <2>2, <3>1
    <3> QED  BY <2>3, <3>2, <3>3, <3>4
  <2>5. ASSUME NEW r \in Previews[versions[v]], row.version = v, Now = r.before
        PROVE  ValueAfter(row) = r.reset
    <3>1. ConfigFor("RESET_ON_COMPLETION", row) = cfg
      <4>1. "RESET_ON_COMPLETION" \in AssignmentPinned /\ "RESET_ON_COMPLETION" \notin InstancePinned
        BY DEF AssignmentPinned, InstancePinned
      <4>2. ConfigVersionFor("RESET_ON_COMPLETION", row) = v
        BY <2>1, <2>5, <4>1 DEF ConfigVersionFor
      <4> QED  BY <4>2 DEF ConfigFor, ConfigVersion
    <3> HIDE DEF shown, chain, cfg
    <3>2. PICK ctx \in Range(chain) : r = shown(ctx)
      BY <2>2
    <3>3. r.reset = ResetValue(cfg, Now)
      BY <2>3, <2>5, <3>2
    <3> QED  BY <3>1, <3>3 DEF ValueAfter
  <2> QED  BY <2>4, <2>5
<1> QED  BY <1>1, <1>2, <1>3, PTL DEF PriceSpec

-----------------------------------------------------------------------------
(* Audit, for any members, amounts and number of rows.  sort: rows whose ids   *)
(* differ come in the order of their ids.                                      *)
Table(S) == /\ IsFiniteSet(S)
            /\ \A e \in S : e.id \in Nat
            /\ \A e, d \in S : e.id = d.id => e = d

IsFirstOf(e, S) == \A d \in S : e.id <= d.id
IsLastOf(e, S) == \A d \in S : d.id <= e.id
NextTo(p, s, S) == p.id < s.id /\ \A d \in S : ~(p.id < d.id /\ d.id < s.id)

LEMMA SortedFacts ==
    ASSUME NEW S, Table(S)
    PROVE  LET q == SortedById(S)
               n == Len(q)
           IN  /\ n \in Nat /\ q \in Seq(S) /\ DOMAIN q = 1 .. n
               /\ \A k \in 1 .. n : q[k] \in S
               /\ \A e \in S : \E k \in 1 .. n : q[k] = e
               /\ \A i, j \in 1 .. n : i < j => q[i].id < q[j].id
               /\ n = 0 <=> S = {}
<1> DEFINE ids == {e.id : e \in S}
           g == [e \in S |-> e.id]
           c == Cardinality(ids)
           q == SortedById(S)
           at(k) == CHOOSE e \in S : Rank(e.id, ids) = k
<1>1. \A i \in ids : i \in Nat /\ \E e \in S : e.id = i
  BY DEF Table
<1>2. IsFiniteSet(ids)
  <2>1. g \in Surjection(S, ids)
    BY DEF Surjection
  <2> HIDE DEF g, ids
  <2> QED  BY <2>1, FS_Surjection DEF Table
<1>3. \A e \in S : e.id \in ids
  OBVIOUS
<1>4. q = [k \in 1 .. c |-> at(k)]
  BY DEF SortedById
<1> HIDE DEF ids, q
<1>5. ids \in SUBSET Nat
  BY <1>1
<1>6. /\ c \in Nat
      /\ \A i \in ids : Rank(i, ids) \in 1 .. c
      /\ \A i, j \in ids : i < j => Rank(i, ids) < Rank(j, ids)
      /\ \A i, j \in ids : Rank(i, ids) = Rank(j, ids) => i = j
      /\ \A k \in 1 .. c : \E i \in ids : Rank(i, ids) = k
  BY <1>2, <1>5, RankGrows
<1>7. c = 0 <=> ids = {}
  BY <1>2, FS_EmptySet
<1> HIDE DEF c
<1>8. \A k \in 1 .. c : at(k) \in S /\ Rank(at(k).id, ids) = k
  <2>1. \A k \in 1 .. c : \E e \in S : Rank(e.id, ids) = k
    BY <1>1, <1>6
  <2> QED  BY <2>1
<1> HIDE DEF at
<1>9. q \in [1 .. c -> S]
  BY <1>4, <1>8
<1>10. q \in Seq(S) /\ Len(q) = c /\ DOMAIN q = 1 .. c
  <2>1. q \in Seq(S)
    BY <1>6, <1>9, SeqDef
  <2> QED  BY <1>6, <1>9, <2>1, LenProperties
<1>11. \A k \in 1 .. c : q[k] \in S /\ Rank(q[k].id, ids) = k
  BY <1>4, <1>8
<1>12. ASSUME NEW e \in S PROVE \E k \in 1 .. c : q[k] = e
  <2>1. e.id \in ids /\ Rank(e.id, ids) \in 1 .. c
    BY <1>3, <1>6
  <2>2. q[Rank(e.id, ids)] \in S /\ Rank(q[Rank(e.id, ids)].id, ids) = Rank(e.id, ids)
    BY <1>11, <2>1
  <2>3. q[Rank(e.id, ids)].id = e.id
    BY <1>3, <1>6, <2>1, <2>2
  <2> QED  BY <2>1, <2>2, <2>3 DEF Table
<1>13. ASSUME NEW i \in 1 .. c, NEW j \in 1 .. c, i < j PROVE q[i].id < q[j].id
  <2>1. q[i].id \in ids /\ q[j].id \in ids /\ Rank(q[i].id, ids) = i /\ Rank(q[j].id, ids) = j
    BY <1>3, <1>11
  <2>2. q[i].id \in Nat /\ q[j].id \in Nat
    BY <1>5, <2>1
  <2>3. ~(q[j].id < q[i].id) /\ q[i].id # q[j].id
    BY <1>6, <1>13, <2>1
  <2> QED  BY <2>2, <2>3
<1>14. ids = {} <=> S = {}
  BY <1>1, <1>3
<1>15. Len(q) = 0 <=> S = {}
  BY <1>7, <1>10, <1>14
<1> QED  BY <1>6, <1>10, <1>11, <1>12, <1>13, <1>15 DEF q

(* Neighbours in the list are neighbours by id.                                *)
LEMMA SortedNeighbours ==
    ASSUME NEW S, Table(S)
    PROVE  LET q == SortedById(S)
               n == Len(q)
           IN  /\ \A k \in 2 .. n : NextTo(q[k - 1], q[k], S)
               /\ \A p, s \in S : NextTo(p, s, S) => \E k \in 2 .. n : q[k - 1] = p /\ q[k] = s
               /\ n # 0 => IsFirstOf(q[1], S) /\ IsLastOf(q[n], S)
               /\ \A e \in S : IsFirstOf(e, S) => n # 0 /\ q[1] = e
               /\ \A e \in S : IsLastOf(e, S) => n # 0 /\ q[n] = e
<1> DEFINE q == SortedById(S)
           n == Len(q)
<1>1. /\ n \in Nat
      /\ \A k \in 1 .. n : q[k] \in S
      /\ \A e \in S : \E k \in 1 .. n : q[k] = e
      /\ \A i, j \in 1 .. n : i < j => q[i].id < q[j].id
      /\ n = 0 <=> S = {}
  BY SortedFacts
<1> HIDE DEF q, n
<1>2. \A k \in 1 .. n : q[k].id \in Nat
  BY <1>1 DEF Table
<1>3. \A i, j \in 1 .. n : q[i].id < q[j].id => i < j
  <2> SUFFICES ASSUME NEW i \in 1 .. n, NEW j \in 1 .. n, ~(i < j) PROVE ~(q[i].id < q[j].id)
    OBVIOUS
  <2>1. CASE i = j
    BY <1>2, <2>1
  <2>2. CASE j < i
    BY <1>1, <1>2, <2>2
  <2> QED  BY <1>1, <2>1, <2>2
<1>4. ASSUME NEW k \in 2 .. n PROVE NextTo(q[k - 1], q[k], S)
  <2>1. k \in 1 .. n /\ k - 1 \in 1 .. n /\ k - 1 < k
    BY <1>1
  <2>2. ASSUME NEW d \in S, q[k - 1].id < d.id, d.id < q[k].id PROVE FALSE
    <3>1. PICK j \in 1 .. n : q[j] = d
      BY <1>1
    <3>2. k - 1 < j /\ j < k
      BY <1>3, <2>1, <2>2, <3>1
    <3> QED  BY <3>2
  <2> QED  BY <1>1, <2>1, <2>2 DEF NextTo
<1>5. ASSUME NEW p \in S, NEW s \in S, NextTo(p, s, S)
      PROVE  \E k \in 2 .. n : q[k - 1] = p /\ q[k] = s
  <2>1. PICK i \in 1 .. n : q[i] = p
    BY <1>1
  <2>2. PICK j \in 1 .. n : q[j] = s
    BY <1>1
  <2>3. i < j
    BY <1>3, <1>5, <2>1, <2>2 DEF NextTo
  <2>4. CASE j = i + 1
    BY <1>1, <2>1, <2>2, <2>4
  <2>5. CASE j # i + 1
    <3>1. i + 1 \in 1 .. n /\ i < i + 1 /\ i + 1 < j
      BY <1>1, <2>3, <2>5
    <3>2. q[i + 1] \in S /\ p.id < q[i + 1].id /\ q[i + 1].id < s.id
      BY <1>1, <2>1, <2>2, <3>1
    <3> QED  BY <1>5, <3>2 DEF NextTo
  <2> QED  BY <2>4, <2>5
<1>6. ASSUME n # 0 PROVE IsFirstOf(q[1], S) /\ IsLastOf(q[n], S)
  <2>1. 1 \in 1 .. n /\ n \in 1 .. n
    BY <1>1, <1>6
  <2>2. ASSUME NEW d \in S PROVE q[1].id <= d.id /\ d.id <= q[n].id
    <3>1. PICK j \in 1 .. n : q[j] = d
      BY <1>1
    <3>2. q[1].id \in Nat /\ q[j].id \in Nat /\ q[n].id \in Nat
      BY <1>2, <2>1
    <3>3. j = 1 \/ 1 < j
      OBVIOUS
    <3>4. j = n \/ j < n
      BY <1>1
    <3>5. q[1].id <= q[j].id
      BY <1>1, <2>1, <3>2, <3>3
    <3>6. q[j].id <= q[n].id
      BY <1>1, <2>1, <3>2, <3>4
    <3> QED  BY <3>1, <3>5, <3>6
  <2> QED  BY <2>2 DEF IsFirstOf, IsLastOf
<1>7. ASSUME NEW e \in S
      PROVE  /\ n # 0 /\ q[1] \in S /\ q[n] \in S
             /\ IsFirstOf(e, S) => q[1] = e
             /\ IsLastOf(e, S) => q[n] = e
  <2>1. n # 0 /\ 1 \in 1 .. n /\ n \in 1 .. n
    BY <1>1
  <2>2. q[1] \in S /\ q[n] \in S
    BY <1>1, <2>1
  <2>3. e.id \in Nat /\ q[1].id \in Nat /\ q[n].id \in Nat
    BY <2>2 DEF Table
  <2>4. IsFirstOf(e, S) => e.id = q[1].id
    BY <1>6, <2>1, <2>2, <2>3 DEF IsFirstOf
  <2>5. IsLastOf(e, S) => e.id = q[n].id
    BY <1>6, <2>1, <2>2, <2>3 DEF IsLastOf
  <2> QED  BY <2>1, <2>2, <2>4, <2>5 DEF Table
<1> QED  BY <1>4, <1>5, <1>6, <1>7 DEF q, n

(* What reduce makes of amounts that a running total runs over.                *)
LEMMA SummedIs ==
    ASSUME NEW N \in Nat, NEW d \in [1 .. N -> Int], NEW f \in [0 .. N -> Int], Runs(f, N, d)
    PROVE  Summed(d, N) = f[N]
<1> DEFINE IsSum(h) == h = [k \in 0 .. N |-> IF k = 0 THEN 0 ELSE h[k - 1] + d[k]]
           sum == CHOOSE h : IsSum(h)
<1>1. Summed(d, N) = sum[N]
  BY DEF Summed
<1>2. sum = f
  <2>1. IsSum(f)
    BY DEF Runs
  <2>2. IsSum(sum)
    <3> HIDE DEF IsSum
    <3> QED  BY <2>1
  <2>3. Runs(sum, N, d)
    BY <2>2 DEF Runs
  <2> HIDE DEF sum
  <2> QED  BY <2>3, RunningSame
<1> HIDE DEF sum
<1> QED  BY <1>1, <1>2


-----------------------------------------------------------------------------
(* A member's rows are linked when each starts from where the one before it    *)
(* ended.                                                                      *)
OwnRows(E, m) == {e \in E : e.member = m}

RowsOf(P) ==
    [id : Nat, member : P, amount : Int,
     type : {"VOLUNTARY_TASK_REWARD", "BUYOUT"}, kind : {"VOLUNTARY", "RANDOM"},
     assignment : Nat, redemption : Nat, previous : Nat, balanceBefore : Int, balanceAfter : Int]

BalancesLinked(S) ==
    /\ \A e \in S : /\ e.balanceAfter = e.balanceBefore + e.amount
                    /\ IsFirstOf(e, S) => e.balanceBefore = 0
    /\ \A p, s \in S : NextTo(p, s, S) => s.balanceBefore = p.balanceAfter

IdsLinked(S) ==
    /\ \A e \in S : IsFirstOf(e, S) => e.previous = NoPrevious
    /\ \A p, s \in S : NextTo(p, s, S) => s.previous = p.id

(* The sum of linked rows is where the last one ended.                         *)
LEMMA LinkedRowsSum ==
    ASSUME NEW E, NEW m, Table(OwnRows(E, m)),
           BalancesLinked(OwnRows(E, m)), NEW P, OwnRows(E, m) \subseteq RowsOf(P)
    PROVE  /\ OwnRows(E, m) = {} => BalanceFromEntries(E, m) = 0
           /\ \A e \in OwnRows(E, m) :
                 IsLastOf(e, OwnRows(E, m)) => BalanceFromEntries(E, m) = e.balanceAfter
<1> DEFINE S == OwnRows(E, m)
           q == SortedById(S)
           n == Len(q)
           d == [k \in 1 .. n |-> q[k].amount]
           f == [k \in 0 .. n |-> IF k = 0 THEN 0 ELSE q[k].balanceAfter]
<1>1. OfMember(E, m) = q
  BY DEF OfMember, OwnRows
<1>2. /\ n \in Nat /\ DOMAIN q = 1 .. n
      /\ \A k \in 1 .. n : q[k] \in S
      /\ n = 0 <=> S = {}
  BY SortedFacts
<1>3. /\ \A k \in 2 .. n : NextTo(q[k - 1], q[k], S)
      /\ n # 0 => IsFirstOf(q[1], S)
      /\ \A e \in S : IsLastOf(e, S) => n # 0 /\ q[n] = e
  BY SortedNeighbours
<1>4. BalanceFromEntries(E, m) = Summed(d, n)
  BY <1>1, <1>2 DEF BalanceFromEntries
<1> HIDE DEF S, q, n
<1>5. \A k \in 1 .. n : q[k].amount \in Int /\ q[k].balanceAfter \in Int /\ q[k].balanceBefore \in Int
  BY <1>2 DEF RowsOf, S
<1>6. d \in [1 .. n -> Int] /\ f \in [0 .. n -> Int]
  BY <1>2, <1>5
<1>7. \A k \in 1 .. n : f[k] = f[k - 1] + d[k]
  <2> SUFFICES ASSUME NEW k \in 1 .. n PROVE f[k] = f[k - 1] + d[k]
    OBVIOUS
  <2>1. f[k] = q[k].balanceAfter /\ d[k] = q[k].amount /\ q[k] \in S
    BY <1>2
  <2>2. q[k].balanceAfter = q[k].balanceBefore + q[k].amount
    BY <2>1 DEF BalancesLinked, S
  <2>3. f[k - 1] = q[k].balanceBefore
    <3>1. CASE k = 1
      <4>1. IsFirstOf(q[1], S) /\ q[1] \in S
        BY <1>2, <1>3, <2>1, <3>1
      <4> QED  BY <1>2, <3>1, <4>1 DEF BalancesLinked, S
    <3>2. CASE k # 1
      <4>1. k \in 2 .. n /\ k - 1 \in 1 .. n
        BY <1>2, <3>2
      <4>2. NextTo(q[k - 1], q[k], S) /\ q[k - 1] \in S
        BY <1>2, <1>3, <4>1
      <4>3. q[k].balanceBefore = q[k - 1].balanceAfter
        BY <2>1, <4>2 DEF BalancesLinked, S
      <4> QED  BY <1>2, <4>1, <4>3
    <3> QED  BY <3>1, <3>2
  <2> HIDE DEF d, f
  <2> QED  BY <2>1, <2>2, <2>3
<1>8. Runs(f, n, d)
  <2>1. f[0] = 0 /\ \A k \in 0 .. n : k # 0 => k \in 1 .. n
    BY <1>2
  <2>2. f = [k \in 0 .. n |-> f[k]]
    OBVIOUS
  <2> HIDE DEF d, f
  <2>3. \A k \in 0 .. n : f[k] = IF k = 0 THEN 0 ELSE f[k - 1] + d[k]
    BY <1>7, <2>1
  <2> QED  BY <2>2, <2>3 DEF Runs
<1>9. BalanceFromEntries(E, m) = f[n]
  <2> HIDE DEF d, f
  <2> QED  BY <1>2, <1>4, <1>6, <1>8, SummedIs
<1>10. S = {} => BalanceFromEntries(E, m) = 0
  BY <1>2, <1>9
<1>11. ASSUME NEW e \in S, IsLastOf(e, S) PROVE BalanceFromEntries(E, m) = e.balanceAfter
  <2>1. n # 0 /\ q[n] = e /\ n \in 0 .. n
    BY <1>2, <1>3, <1>11
  <2> QED  BY <1>9, <2>1
<1> QED  BY <1>10, <1>11 DEF S

(* A row that does not start where the one before it ended is found.           *)
LEMMA BreaksAreFound ==
    ASSUME NEW E, NEW m, Table(OwnRows(E, m))
    PROVE  /\ \A e \in OwnRows(E, m) :
                 IsFirstOf(e, OwnRows(E, m)) /\ e.balanceBefore # 0 => ChainViolations(E, m) # {}
           /\ \A p, s \in OwnRows(E, m) :
                 NextTo(p, s, OwnRows(E, m)) /\ s.balanceBefore # p.balanceAfter
                    => ChainViolations(E, m) # {}
<1> DEFINE S == OwnRows(E, m)
           q == SortedById(S)
           n == Len(q)
           expected(i) == IF i = 1 THEN 0 ELSE q[i - 1].balanceAfter
<1>1. OfMember(E, m) = q
  BY DEF OfMember, OwnRows
<1>2. n \in Nat /\ DOMAIN q = 1 .. n
  BY SortedFacts
<1>3. /\ \A p, s \in S : NextTo(p, s, S) => \E k \in 2 .. n : q[k - 1] = p /\ q[k] = s
      /\ \A e \in S : IsFirstOf(e, S) => n # 0 /\ q[1] = e
  BY SortedNeighbours
<1>4. {[kind |-> "CHAIN_BREAK", id |-> m] :
          i \in {j \in DOMAIN q : q[j].balanceBefore # expected(j)}} \subseteq ChainViolations(E, m)
  BY <1>1 DEF ChainViolations
<1> HIDE DEF S, q, n
<1>5. ASSUME NEW j \in 1 .. n, q[j].balanceBefore # expected(j) PROVE ChainViolations(E, m) # {}
  <2>1. j \in {i \in DOMAIN q : q[i].balanceBefore # expected(i)}
    BY <1>2, <1>5
  <2>2. [kind |-> "CHAIN_BREAK", id |-> m] \in ChainViolations(E, m)
    BY <1>4, <2>1
  <2> QED  BY <2>2
<1>6. ASSUME NEW e \in S, IsFirstOf(e, S), e.balanceBefore # 0 PROVE ChainViolations(E, m) # {}
  <2>1. 1 \in 1 .. n /\ q[1] = e
    BY <1>2, <1>3, <1>6
  <2> QED  BY <1>5, <1>6, <2>1
<1>7. ASSUME NEW p \in S, NEW s \in S, NextTo(p, s, S), s.balanceBefore # p.balanceAfter
      PROVE  ChainViolations(E, m) # {}
  <2>1. PICK k \in 2 .. n : q[k - 1] = p /\ q[k] = s
    BY <1>3, <1>7
  <2>2. k \in 1 .. n /\ k # 1
    BY <1>2
  <2> QED  BY <1>5, <1>7, <2>1, <2>2
<1> QED  BY <1>6, <1>7 DEF S

(* And rows linked in both ways give no cause.                                 *)
LEMMA LinkedRowsAreFine ==
    ASSUME NEW E, NEW m, Table(OwnRows(E, m)), \A e \in OwnRows(E, m) : e.id # NoPrevious,
           BalancesLinked(OwnRows(E, m)), IdsLinked(OwnRows(E, m))
    PROVE  ChainViolations(E, m) = {}
<1> DEFINE S == OwnRows(E, m)
           q == SortedById(S)
           n == Len(q)
           firsts == {i \in DOMAIN q : q[i].previous = NoPrevious}
           expected(i) == IF i = 1 THEN 0 ELSE q[i - 1].balanceAfter
           A == {[kind |-> "MULTIPLE_GENESIS", id |-> m] : i \in {k \in firsts : Cardinality(firsts) > 1}}
           B == {[kind |-> "CHAIN_FORK", id |-> m] :
                   i \in {j \in DOMAIN q : \E k \in DOMAIN q : k # j /\ q[k].previous = q[j].previous}}
           C == {[kind |-> "CHAIN_BREAK", id |-> m] :
                   i \in {j \in DOMAIN q : q[j].balanceBefore # expected(j)}}
<1>1. OfMember(E, m) = q
  BY DEF OfMember, OwnRows
<1>2. /\ n \in Nat /\ DOMAIN q = 1 .. n /\ \A k \in 1 .. n : q[k] \in S
      /\ \A i, j \in 1 .. n : i < j => q[i].id < q[j].id
  BY SortedFacts
<1>3. /\ \A k \in 2 .. n : NextTo(q[k - 1], q[k], S)
      /\ n # 0 => IsFirstOf(q[1], S)
  BY SortedNeighbours
<1>4. ChainViolations(E, m) = A \cup B \cup C
  BY <1>1 DEF ChainViolations
<1> HIDE DEF S, q, n
<1>5. \A k \in 1 .. n : q[k].id \in Nat /\ q[k].id # NoPrevious
  BY <1>2 DEF S, Table
<1>6. ASSUME NEW k \in 1 .. n
      PROVE  /\ k = 1 => q[k].previous = NoPrevious /\ q[k].balanceBefore = 0
             /\ k # 1 => /\ k - 1 \in 1 .. n
                         /\ q[k].previous = q[k - 1].id /\ q[k].balanceBefore = q[k - 1].balanceAfter
  <2>1. q[k] \in S /\ n # 0
    BY <1>2
  <2>2. k = 1 => q[k].previous = NoPrevious /\ q[k].balanceBefore = 0
    BY <1>3, <2>1 DEF BalancesLinked, IdsLinked, S
  <2>3. ASSUME k # 1
        PROVE  k - 1 \in 1 .. n /\ q[k].previous = q[k - 1].id
               /\ q[k].balanceBefore = q[k - 1].balanceAfter
    <3>1. k \in 2 .. n /\ k - 1 \in 1 .. n
      BY <1>2, <2>3
    <3>2. NextTo(q[k - 1], q[k], S) /\ q[k - 1] \in S
      BY <1>2, <1>3, <3>1
    <3> QED  BY <2>1, <3>1, <3>2 DEF BalancesLinked, IdsLinked, S
  <2> QED  BY <2>2, <2>3
<1>7. A = {}
  <2>1. \A i \in firsts : i = 1
    BY <1>2, <1>5, <1>6
  <2>2. CASE firsts = {}
    BY <2>2
  <2>3. CASE firsts # {}
    <3>1. firsts = {1}
      <4> HIDE DEF firsts
      <4> QED  BY <2>1, <2>3
    <3> HIDE DEF firsts
    <3>2. Cardinality(firsts) = 1
      BY <3>1, FS_Singleton
    <3> QED  BY <3>2
  <2> QED  BY <2>2, <2>3
<1>8. B = {}
  <2> SUFFICES ASSUME NEW j \in 1 .. n, NEW k \in 1 .. n, k # j, q[k].previous = q[j].previous
               PROVE  FALSE
    BY <1>2
  <2>1. \A x, y \in 1 .. n : x < y => q[x].previous # q[y].previous
    <3> SUFFICES ASSUME NEW x \in 1 .. n, NEW y \in 1 .. n, x < y PROVE q[x].previous # q[y].previous
      OBVIOUS
    <3>1. y # 1 /\ y - 1 \in 1 .. n /\ q[y].previous = q[y - 1].id
      BY <1>2, <1>6
    <3>2. CASE x = 1
      BY <1>5, <1>6, <3>1, <3>2
    <3>3. CASE x # 1
      <4>1. x - 1 \in 1 .. n /\ q[x].previous = q[x - 1].id /\ x - 1 < y - 1
        BY <1>2, <1>6, <3>3
      <4>2. q[x - 1].id < q[y - 1].id /\ q[x - 1].id \in Nat /\ q[y - 1].id \in Nat
        BY <1>2, <1>5, <3>1, <4>1
      <4> QED  BY <3>1, <4>1, <4>2
    <3> QED  BY <3>2, <3>3
  <2>2. k < j \/ j < k
    BY <1>2
  <2> QED  BY <2>1, <2>2
<1>9. C = {}
  <2>1. \A j \in 1 .. n : q[j].balanceBefore = expected(j)
    BY <1>6
  <2> QED  BY <1>2, <2>1
<1> QED  BY <1>4, <1>7, <1>8, <1>9


-----------------------------------------------------------------------------
(* What a damage does to the rows of one member.                               *)
LEMMA Around ==
    ASSUME NEW S, Table(S), NEW e \in S
    PROVE  /\ IsFirstOf(e, S) \/ \E p \in S : NextTo(p, e, S)
           /\ IsLastOf(e, S) \/ \E s \in S : NextTo(e, s, S)
<1> DEFINE q == SortedById(S)
           n == Len(q)
<1>1. /\ n \in Nat /\ \A k \in 1 .. n : q[k] \in S
      /\ \E k \in 1 .. n : q[k] = e
  BY SortedFacts
<1>2. /\ \A k \in 2 .. n : NextTo(q[k - 1], q[k], S)
      /\ n # 0 => IsFirstOf(q[1], S) /\ IsLastOf(q[n], S)
  BY SortedNeighbours
<1> HIDE DEF q, n
<1>3. PICK k \in 1 .. n : q[k] = e
  BY <1>1
<1>4. k = 1 \/ (k \in 2 .. n /\ k - 1 \in 1 .. n)
  BY <1>1
<1>5. k = n \/ (k + 1 \in 2 .. n /\ k + 1 \in 1 .. n /\ (k + 1) - 1 = k)
  BY <1>1
<1>6. n # 0
  BY <1>1
<1>7. IsFirstOf(e, S) \/ \E p \in S : NextTo(p, e, S)
  BY <1>1, <1>2, <1>3, <1>4, <1>6
<1>8. IsLastOf(e, S) \/ \E s \in S : NextTo(e, s, S)
  <2>1. CASE k = n
    BY <1>2, <1>3, <1>6, <2>1
  <2>2. CASE k # n
    <3>1. NextTo(q[(k + 1) - 1], q[k + 1], S) /\ q[k + 1] \in S /\ (k + 1) - 1 = k
      BY <1>1, <1>2, <1>5, <2>2
    <3> QED  BY <1>3, <3>1
  <2> QED  BY <2>1, <2>2
<1> QED  BY <1>7, <1>8

(* A row that is gone leaves a gap, unless it was the latest.                  *)
LEMMA GapIsFound ==
    ASSUME NEW S, Table(S), S \subseteq RowsOf(Payees), BalancesLinked(S),
           NEW e \in S, e.amount # 0, NEW E, NEW m, OwnRows(E, m) = S \ {e}
    PROVE  /\ ~IsLastOf(e, S) => OwnRows(E, m) # {} /\ ChainViolations(E, m) # {}
           /\ IsLastOf(e, S) => BalanceFromEntries(E, m) # e.balanceAfter
<1> DEFINE R == S \ {e}
<1>1. Table(R)
  BY FS_Subset DEF Table
<1>2. \A d \in S : /\ d.id \in Nat /\ d.balanceBefore \in Int /\ d.balanceAfter \in Int
                   /\ d.amount \in Int
                   /\ d.balanceAfter = d.balanceBefore + d.amount
  BY DEF RowsOf, BalancesLinked
<1>3. e.balanceBefore # e.balanceAfter
  BY <1>2
<1>4. \A p, s \in S : NextTo(p, s, S) => s.balanceBefore = p.balanceAfter
  BY DEF BalancesLinked
<1>5. IsFirstOf(e, S) => e.balanceBefore = 0
  BY DEF BalancesLinked
<1>6. \A d \in S : d # e => d.id # e.id
  BY DEF Table
<1>7. ASSUME ~IsLastOf(e, S) PROVE R # {} /\ ChainViolations(E, m) # {}
  <2>1. PICK s \in S : NextTo(e, s, S)
    BY <1>7, Around
  <2>2. s \in R /\ s.balanceBefore = e.balanceAfter
    BY <1>2, <1>4, <2>1 DEF NextTo
  <2>3. CASE IsFirstOf(e, S)
    <3>1. IsFirstOf(s, R)
      BY <1>2, <1>6, <2>1, <2>3 DEF IsFirstOf, NextTo
    <3>2. s.balanceBefore # 0
      BY <1>3, <1>5, <2>2, <2>3
    <3> QED  BY <1>1, <2>2, <3>1, <3>2, BreaksAreFound
  <2>4. CASE \E p \in S : NextTo(p, e, S)
    <3>1. PICK p \in S : NextTo(p, e, S)
      BY <2>4
    <3>2. p \in R /\ p.balanceAfter = e.balanceBefore
      BY <1>2, <1>4, <3>1 DEF NextTo
    <3>3. p.id < s.id
      BY <1>2, <2>1, <3>1 DEF NextTo
    <3>4. ASSUME NEW d \in R PROVE ~(p.id < d.id /\ d.id < s.id)
      <4>1. d \in S /\ d.id # e.id /\ d.id \in Nat /\ e.id \in Nat /\ p.id \in Nat /\ s.id \in Nat
        BY <1>2, <1>6, <2>1, <3>1
      <4>2. ~(p.id < d.id /\ d.id < e.id) /\ ~(e.id < d.id /\ d.id < s.id)
        BY <2>1, <3>1, <4>1 DEF NextTo
      <4> QED  BY <4>1, <4>2
    <3>5. NextTo(p, s, R)
      BY <3>3, <3>4 DEF NextTo
    <3> QED  BY <1>1, <1>3, <2>2, <3>2, <3>5, BreaksAreFound
  <2> QED  BY <2>3, <2>4, Around
<1>8. ASSUME IsLastOf(e, S) PROVE BalanceFromEntries(E, m) # e.balanceAfter
  <2>1. BalancesLinked(R)
    <3>1. \A d \in R : IsFirstOf(d, R) => IsFirstOf(d, S)
      BY <1>2, <1>8 DEF IsFirstOf, IsLastOf
    <3>2. \A p, s \in R : NextTo(p, s, R) => NextTo(p, s, S)
      <4> SUFFICES ASSUME NEW p \in R, NEW s \in R, NextTo(p, s, R) PROVE NextTo(p, s, S)
        OBVIOUS
      <4>1. ~(e.id < s.id)
        BY <1>2, <1>8 DEF IsLastOf
      <4> QED  BY <4>1 DEF NextTo
    <3> QED  BY <3>1, <3>2 DEF BalancesLinked
  <2>2. BalanceFromEntries(E, m) = e.balanceBefore
    <3>1. CASE IsFirstOf(e, S)
      <4>1. R = {}
        <5> SUFFICES ASSUME NEW d \in R PROVE FALSE
          OBVIOUS
        <5>1. d.id = e.id
          BY <1>2, <1>8, <3>1 DEF IsFirstOf, IsLastOf
        <5> QED  BY <1>6, <5>1
      <4>2. BalanceFromEntries(E, m) = 0
        <5> HIDE DEF R
        <5>1. OwnRows(E, m) = R /\ R \subseteq RowsOf(Payees)
          BY DEF R
        <5> QED  BY <1>1, <2>1, <4>1, <5>1, LinkedRowsSum
      <4> QED  BY <1>5, <3>1, <4>2
    <3>2. CASE \E p \in S : NextTo(p, e, S)
      <4>1. PICK p \in S : NextTo(p, e, S)
        BY <3>2
      <4>2. p \in R /\ p.balanceAfter = e.balanceBefore
        BY <1>2, <1>4, <4>1 DEF NextTo
      <4>3. IsLastOf(p, R)
        <5> SUFFICES ASSUME NEW d \in R PROVE d.id <= p.id
          BY DEF IsLastOf
        <5>1. d.id <= e.id /\ d.id # e.id
          BY <1>6, <1>8 DEF IsLastOf
        <5>2. ~(p.id < d.id /\ d.id < e.id)
          BY <4>1 DEF NextTo
        <5> QED  BY <1>2, <5>1, <5>2
      <4>4. BalanceFromEntries(E, m) = p.balanceAfter
        <5> HIDE DEF R
        <5>1. OwnRows(E, m) = R /\ R \subseteq RowsOf(Payees)
          BY DEF R
        <5> QED  BY <1>1, <2>1, <4>2, <4>3, <5>1, LinkedRowsSum
      <4> QED  BY <4>2, <4>4
    <3> QED  BY <3>1, <3>2, Around
  <2> QED  BY <1>3, <2>2
<1> QED  BY <1>7, <1>8

(* A row that was changed no longer fits its neighbours, unless it is the      *)
(* latest and starts where it did.                                             *)
LEMMA MisfitIsFound ==
    ASSUME NEW S, Table(S), S \subseteq RowsOf(Payees), BalancesLinked(S),
           NEW e \in S, NEW d \in RowsOf(Payees), d.id = e.id,
           NEW E, NEW m, OwnRows(E, m) = (S \ {e}) \cup {d}
    PROVE  /\ d.balanceBefore # e.balanceBefore => ChainViolations(E, m) # {}
           /\ d.balanceAfter # e.balanceAfter /\ ~IsLastOf(e, S) => ChainViolations(E, m) # {}
           /\ /\ IsLastOf(e, S) /\ d.balanceBefore = e.balanceBefore
              /\ d.balanceAfter = d.balanceBefore + d.amount
              => BalanceFromEntries(E, m) = d.balanceAfter
<1> DEFINE R == (S \ {e}) \cup {d}
<1>1. \A x \in S : x # e => x.id # e.id
  BY DEF Table
<1>2. Table(R)
  <2>1. IsFiniteSet(R)
    BY FS_RemoveElement, FS_AddElement DEF Table
  <2>2. \A x \in R : x.id \in Nat
    BY DEF Table, RowsOf
  <2>3. \A x, y \in R : x.id = y.id => x = y
    BY <1>1 DEF Table
  <2> QED  BY <2>1, <2>2, <2>3 DEF Table
<1>3. R \subseteq RowsOf(Payees) /\ d \in R
  OBVIOUS
<1>4. /\ \A x \in S : x.id \in Nat
      /\ \A p, s \in S : NextTo(p, s, S) => s.balanceBefore = p.balanceAfter
      /\ \A x \in S : /\ x.balanceAfter = x.balanceBefore + x.amount
                      /\ IsFirstOf(x, S) => x.balanceBefore = 0
  BY DEF Table, BalancesLinked
<1>5. /\ IsFirstOf(e, S) => IsFirstOf(d, R)
      /\ IsLastOf(e, S) => IsLastOf(d, R)
  BY <1>4 DEF IsFirstOf, IsLastOf
<1>6. \A p \in S : NextTo(p, e, S) => p \in R /\ NextTo(p, d, R)
  BY <1>4 DEF NextTo
<1>7. \A s \in S : NextTo(e, s, S) => s \in R /\ NextTo(d, s, R)
  BY <1>4 DEF NextTo
<1>8. ASSUME d.balanceBefore # e.balanceBefore PROVE ChainViolations(E, m) # {}
  <2>1. CASE IsFirstOf(e, S)
    <3> HIDE DEF R
    <3> QED  BY <1>2, <1>3, <1>4, <1>5, <1>8, <2>1, BreaksAreFound DEF R
  <2>2. CASE \E p \in S : NextTo(p, e, S)
    <3>1. PICK p \in S : NextTo(p, e, S)
      BY <2>2
    <3>2. p \in R /\ NextTo(p, d, R) /\ e.balanceBefore = p.balanceAfter
      BY <1>4, <1>6, <3>1
    <3> QED  BY <1>2, <1>3, <1>8, <3>2, BreaksAreFound
  <2> QED  BY <2>1, <2>2, Around
<1>9. ASSUME d.balanceAfter # e.balanceAfter, ~IsLastOf(e, S) PROVE ChainViolations(E, m) # {}
  <2>1. PICK s \in S : NextTo(e, s, S)
    BY <1>9, Around
  <2>2. s \in R /\ NextTo(d, s, R) /\ s.balanceBefore = e.balanceAfter
    BY <1>4, <1>7, <2>1
  <2> QED  BY <1>2, <1>3, <1>9, <2>2, BreaksAreFound
<1>10. ASSUME IsLastOf(e, S), d.balanceBefore = e.balanceBefore,
              d.balanceAfter = d.balanceBefore + d.amount
       PROVE  BalanceFromEntries(E, m) = d.balanceAfter
  <2>1. IsLastOf(d, R)
    BY <1>5, <1>10
  <2>2. \A x \in R : x.balanceAfter = x.balanceBefore + x.amount
    BY <1>4, <1>10
  <2>3. \A x \in S : x # e => (IsFirstOf(x, R) => IsFirstOf(x, S))
    BY <1>4 DEF IsFirstOf
  <2>4. IsFirstOf(d, R) => IsFirstOf(e, S)
    BY <1>4 DEF IsFirstOf
  <2>5. \A x \in R : IsFirstOf(x, R) => x.balanceBefore = 0
    BY <1>4, <1>10, <2>3, <2>4
  <2>6. ASSUME NEW p \in R, NEW s \in R, NextTo(p, s, R)
        PROVE  s.balanceBefore = p.balanceAfter
    <3>1. p # d
      <4>1. s.id <= d.id /\ s.id \in Nat /\ p.id \in Nat
        BY <1>2, <2>1 DEF IsLastOf, Table
      <4> QED  BY <2>6, <4>1 DEF NextTo
    <3>2. p \in S /\ p # e
      BY <3>1
    <3>3. CASE s = d
      <4>1. NextTo(p, e, S)
        BY <2>6, <3>3 DEF NextTo
      <4> QED  BY <1>4, <1>10, <3>2, <3>3, <4>1
    <3>4. CASE s # d
      <4>1. s \in S /\ NextTo(p, s, S)
        BY <2>6, <3>4 DEF NextTo
      <4> QED  BY <1>4, <3>2, <4>1
    <3> QED  BY <3>3, <3>4
  <2>7. BalancesLinked(R)
    BY <2>2, <2>5, <2>6 DEF BalancesLinked
  <2> HIDE DEF R
  <2>8. OwnRows(E, m) = R
    BY DEF R
  <2> QED  BY <1>2, <1>3, <2>1, <2>7, <2>8, LinkedRowsSum
<1> QED  BY <1>8, <1>9, <1>10


-----------------------------------------------------------------------------
(* Books in order: rows numbered from 1, every posting within the rules and    *)
(* for its own assignment, every member's rows linked, and the cache where the *)
(* last one ended.                                                             *)
IntactRow(e) ==
    /\ e.amount # 0 /\ ~SignRuleViolated(e.type, e.amount)
    /\ e.type \in Payouts => e.kind = "VOLUNTARY"
    /\ e.assignment = e.id

CacheFits(L, C, m) ==
    /\ OwnRows(L, m) = {} => C[m] = 0
    /\ \A e \in OwnRows(L, m) : IsLastOf(e, OwnRows(L, m)) => C[m] = e.balanceAfter

SoundBooks(L, C, P) ==
    /\ L \subseteq RowsOf(P) /\ Table(L) /\ C \in [P -> Int]
    /\ \A e \in L : IntactRow(e) /\ e.id \in 1 .. Cardinality(L)
    /\ \A m \in P : /\ BalancesLinked(OwnRows(L, m))
                    /\ IdsLinked(OwnRows(L, m))
                    /\ CacheFits(L, C, m)

(* What the next posting of a member follows.                                  *)
TailIs(L, m, tail) ==
    /\ OwnRows(L, m) = {} => tail = NoPrevious
    /\ \A e \in OwnRows(L, m) : IsLastOf(e, OwnRows(L, m)) => tail = e.id

WhileIntact == SoundBooks(ledger, cached, Payees)

(* Once something was: the rows alone show it, or it was a latest row and the  *)
(* cache shows it until it is repaired.                                        *)
RowsShowIt ==
    \/ RowViolations(ledger) # {}
    \/ \E m \in {e.member : e \in ledger} : ChainViolations(ledger, m) # {}

CacheShowsIt == \E m \in Payees : cached[m] # BalanceFromEntries(ledger, m)

OnceDamaged == RowsShowIt \/ (damage.latest /\ (repaired \/ CacheShowsIt))

AuditTypes ==
    /\ ledger \subseteq RowsOf(Payees) /\ Table(ledger)
    /\ DOMAIN cached = Payees

AuditInv ==
    /\ AuditTypes
    /\ damage = Intact => WhileIntact
    /\ damage # Intact => OnceDamaged

LEMMA OwnRowsAreATable ==
    ASSUME NEW S, Table(S), NEW m
    PROVE  Table(OwnRows(S, m)) /\ OwnRows(S, m) \subseteq S
<1>1. OwnRows(S, m) \subseteq S
  BY DEF OwnRows
<1>2. IsFiniteSet(OwnRows(S, m))
  BY <1>1, FS_Subset DEF Table
<1> QED  BY <1>1, <1>2 DEF Table

LEMMA LastExists ==
    ASSUME NEW S, Table(S), S # {}
    PROVE  \E e \in S : IsLastOf(e, S)
<1>1. Len(SortedById(S)) # 0 /\ SortedById(S)[Len(SortedById(S))] \in S
  BY SortedFacts
<1> QED  BY <1>1, SortedNeighbours

LEMMA SoundBooksVerify ==
    ASSUME NEW L, NEW C, NEW P, SoundBooks(L, C, P)
    PROVE  /\ Violations(L, C) = {}
           /\ \A m \in P : BalanceFromEntries(L, m) = C[m]
<1>1. \A e \in L : /\ IntactRow(e) /\ e.id \in Nat /\ e.id # 0 /\ e.assignment = e.id
                   /\ e.member \in P /\ e.type \in {"VOLUNTARY_TASK_REWARD", "BUYOUT"}
                   /\ e.type # "REWARD_REDEMPTION"
  BY DEF SoundBooks, RowsOf, IntactRow, Table
<1>2. RowViolations(L) = {}
  <2>1. \A e \in L : e.balanceAfter = e.balanceBefore + e.amount
    <3> SUFFICES ASSUME NEW e \in L PROVE e.balanceAfter = e.balanceBefore + e.amount
      OBVIOUS
    <3>1. e.member \in P /\ e \in OwnRows(L, e.member)
      BY <1>1 DEF OwnRows
    <3> QED  BY <3>1 DEF SoundBooks, BalancesLinked
  <2>2. \A e \in L : /\ e.amount # 0 /\ ~SignRuleViolated(e.type, e.amount)
                     /\ e.assignment # NoLink /\ e.type # "REWARD_REDEMPTION"
                     /\ ~(e.type \in Payouts /\ e.kind # "VOLUNTARY")
    BY <1>1 DEF IntactRow, NoLink
  <2> QED  BY <2>1, <2>2 DEF RowViolations
<1>3. DuplicateViolations(L) = {}
  <2>1. \A d, e \in L : e.id # d.id => e.assignment # d.assignment
    BY <1>1
  <2>2. \A d \in L : d.type # "REWARD_REDEMPTION"
    BY <1>1
  <2> QED  BY <2>1, <2>2 DEF DuplicateViolations, Doubled
<1>4. \A m \in P : /\ Table(OwnRows(L, m)) /\ OwnRows(L, m) \subseteq RowsOf(P)
                  /\ OwnRows(L, m) \subseteq L
  BY OwnRowsAreATable DEF SoundBooks
<1>5. ASSUME NEW m \in P PROVE ChainViolations(L, m) = {}
  <2>1. BalancesLinked(OwnRows(L, m)) /\ IdsLinked(OwnRows(L, m))
    BY DEF SoundBooks
  <2>2. \A e \in OwnRows(L, m) : e.id # NoPrevious
    BY <1>1, <1>4 DEF NoPrevious
  <2> QED  BY <1>4, <2>1, <2>2, LinkedRowsAreFine
<1>6. ASSUME NEW m \in P PROVE C[m] = BalanceFromEntries(L, m)
  <2>1. BalancesLinked(OwnRows(L, m)) /\ CacheFits(L, C, m)
    BY DEF SoundBooks
  <2>2. CASE OwnRows(L, m) = {}
    BY <1>4, <2>1, <2>2, LinkedRowsSum DEF CacheFits
  <2>3. CASE OwnRows(L, m) # {}
    <3>1. \E e \in OwnRows(L, m) : IsLastOf(e, OwnRows(L, m))
      BY <1>4, <2>3, LastExists
    <3> QED  BY <1>4, <2>1, <3>1, LinkedRowsSum DEF CacheFits
  <2> QED  BY <2>2, <2>3
<1>7. \A m \in P : CacheViolations(L, C, m) = {}
  BY <1>6 DEF CacheViolations
<1>8. {e.member : e \in L} \cup DOMAIN C = P
  BY <1>1 DEF SoundBooks
<1> QED  BY <1>2, <1>3, <1>5, <1>6, <1>7, <1>8 DEF Violations

(* A posting within the rules that follows its member's last row.              *)
LEMMA PostingKeepsSound ==
    ASSUME NEW L, NEW C, NEW P, SoundBooks(L, C, P),
           NEW m \in P, NEW tail, TailIs(L, m, tail),
           NEW p, p.member = m, p.amount \in Int, p.assignment = Cardinality(L) + 1,
           p.redemption = NoLink, p.type \in {"VOLUNTARY_TASK_REWARD", "BUYOUT"},
           p.kind \in {"VOLUNTARY", "RANDOM"}, Postable(p)
    PROVE  LET x == Posted(p, Cardinality(L) + 1, tail, C[m])
               M == L \cup {x}
           IN  /\ SoundBooks(M, [C EXCEPT ![m] = @ + p.amount], P)
               /\ TailIs(M, m, x.id)
               /\ \A k \in P : k # m => OwnRows(M, k) = OwnRows(L, k)
<1> DEFINE N == Cardinality(L)
           x == Posted(p, N + 1, tail, C[m])
           M == L \cup {x}
           D == [C EXCEPT ![m] = @ + p.amount]
           S == OwnRows(L, m)
           R == S \cup {x}
<1>3. N \in Nat
  BY FS_CardinalityType DEF SoundBooks, Table
<1>4. C[m] \in Int
  BY DEF SoundBooks
<1>5. Table(S) /\ S \subseteq L /\ S \subseteq RowsOf(P)
  BY OwnRowsAreATable DEF SoundBooks
<1>6. /\ S = {} => tail = NoPrevious
      /\ \A e \in S : IsLastOf(e, S) => tail = e.id
      /\ S # {} => \E e \in S : tail = e.id
  <2>1. S # {} => \E e \in S : IsLastOf(e, S)
    BY <1>5, LastExists
  <2> QED  BY <2>1 DEF TailIs
<1>7. tail \in Nat
  BY <1>5, <1>6 DEF NoPrevious, Table
<1>8. /\ x.id = N + 1 /\ x.member = m /\ x.previous = tail
      /\ x.balanceBefore = C[m] /\ x.balanceAfter = C[m] + p.amount /\ x.amount = p.amount
      /\ x.assignment = N + 1
  BY DEF Posted
<1>9. x \in RowsOf(P)
  <2>1. x = [id |-> N + 1, member |-> m, amount |-> p.amount, type |-> p.type, kind |-> p.kind,
             assignment |-> N + 1, redemption |-> NoLink, previous |-> tail,
             balanceBefore |-> C[m], balanceAfter |-> C[m] + p.amount]
    BY DEF Posted
  <2> HIDE DEF x, N
  <2>2. N + 1 \in Nat /\ C[m] + p.amount \in Int /\ NoLink \in Nat
    BY <1>3, <1>4 DEF NoLink
  <2> QED  BY <1>4, <1>7, <2>1, <2>2 DEF RowsOf
<1>10. IntactRow(x)
  <2>1. x.type = p.type /\ x.kind = p.kind
    BY DEF Posted
  <2> HIDE DEF x
  <2> QED  BY <1>8, <2>1 DEF Postable, IntactRow
<1> HIDE DEF x, N
<1>11. \A d \in L : d.id \in 1 .. N /\ d.id < N + 1
  BY <1>3 DEF SoundBooks, N
<1>12. x \notin L
  BY <1>3, <1>8, <1>11
<1>13. Cardinality(M) = N + 1 /\ IsFiniteSet(M)
  BY <1>12, FS_AddElement DEF SoundBooks, Table, N
<1>14. M \subseteq RowsOf(P) /\ Table(M)
  <2>1. M \subseteq RowsOf(P)
    BY <1>9 DEF SoundBooks
  <2>2. \A d \in M : d.id \in Nat
    BY <2>1 DEF RowsOf
  <2>3. \A d, e \in M : d.id = e.id => d = e
    BY <1>3, <1>8, <1>11 DEF SoundBooks, Table
  <2> QED  BY <1>13, <2>1, <2>2, <2>3 DEF Table
<1>15. \A e \in M : IntactRow(e) /\ e.id \in 1 .. Cardinality(M)
  BY <1>3, <1>8, <1>10, <1>11, <1>13 DEF SoundBooks
<1>16. D \in [P -> Int]
  BY <1>4 DEF SoundBooks
<1>17. OwnRows(M, m) = R /\ \A k \in P : k # m => OwnRows(M, k) = OwnRows(L, k)
  BY <1>8 DEF OwnRows
<1> HIDE DEF S
<1>18. \A d \in S : d.id \in Nat /\ d.id < x.id
  BY <1>5, <1>8, <1>11 DEF Table
<1>19. BalancesLinked(S) /\ IdsLinked(S) /\ (S = {} => C[m] = 0)
       /\ \A e \in S : IsLastOf(e, S) => C[m] = e.balanceAfter
  BY DEF SoundBooks, CacheFits, S
<1>20. \A e \in R : IsFirstOf(e, R) => (e = x /\ S = {}) \/ (e \in S /\ IsFirstOf(e, S))
  <2>1. \A d \in S : ~(x.id <= d.id)
    BY <1>3, <1>8, <1>18
  <2> QED  BY <2>1 DEF IsFirstOf
<1>21. ASSUME NEW q \in R, NEW s \in R, NextTo(q, s, R)
       PROVE  (s = x /\ q \in S /\ IsLastOf(q, S)) \/ (q \in S /\ s \in S /\ NextTo(q, s, S))
  <2>1. q \in S
    BY <1>3, <1>8, <1>18, <1>21 DEF NextTo
  <2>2. CASE s = x
    <3>1. \A d \in S : d.id <= q.id
      BY <1>18, <1>21, <2>1, <2>2 DEF NextTo
    <3> QED  BY <2>1, <2>2, <3>1 DEF IsLastOf
  <2>3. CASE s \in S
    BY <1>21, <2>1, <2>3 DEF NextTo
  <2> QED  BY <2>2, <2>3
<1>22. BalancesLinked(R)
  <2>1. \A e \in R : e.balanceAfter = e.balanceBefore + e.amount
    BY <1>8, <1>19 DEF BalancesLinked
  <2>2. \A e \in R : IsFirstOf(e, R) => e.balanceBefore = 0
    BY <1>8, <1>19, <1>20 DEF BalancesLinked
  <2>3. \A q, s \in R : NextTo(q, s, R) => s.balanceBefore = q.balanceAfter
    BY <1>8, <1>19, <1>21 DEF BalancesLinked
  <2> QED  BY <2>1, <2>2, <2>3 DEF BalancesLinked
<1>23. IdsLinked(R)
  <2>1. \A e \in R : IsFirstOf(e, R) => e.previous = NoPrevious
    BY <1>6, <1>8, <1>19, <1>20 DEF IdsLinked, S
  <2>2. \A q, s \in R : NextTo(q, s, R) => s.previous = q.id
    BY <1>6, <1>8, <1>19, <1>21 DEF IdsLinked, S
  <2> QED  BY <2>1, <2>2 DEF IdsLinked
<1>24. \A e \in R : IsLastOf(e, R) => e = x
  <2>1. \A d \in S : ~(x.id <= d.id)
    BY <1>3, <1>8, <1>18
  <2> QED  BY <2>1 DEF IsLastOf
<1>25. ASSUME NEW k \in P
       PROVE  BalancesLinked(OwnRows(M, k)) /\ IdsLinked(OwnRows(M, k)) /\ CacheFits(M, D, k)
  <2>1. CASE k = m
    <3>1. D[m] = x.balanceAfter
      BY <1>8 DEF SoundBooks
    <3>2. R # {}
      OBVIOUS
    <3> HIDE DEF R
    <3> QED  BY <1>17, <1>22, <1>23, <1>24, <2>1, <3>1, <3>2 DEF CacheFits
  <2>2. CASE k # m
    <3>1. D[k] = C[k] /\ OwnRows(M, k) = OwnRows(L, k)
      BY <1>17, <2>2 DEF SoundBooks
    <3> QED  BY <3>1 DEF SoundBooks, CacheFits
  <2> QED  BY <2>1, <2>2
<1>26. SoundBooks(M, D, P)
  BY <1>14, <1>15, <1>16, <1>25 DEF SoundBooks
<1>27. TailIs(M, m, x.id)
  BY <1>17, <1>24 DEF TailIs
<1>28. \A k \in P : k # m => OwnRows(M, k) = OwnRows(L, k)
  BY <1>17
<1> HIDE DEF S, R
<1> QED  BY <1>26, <1>27, <1>28 DEF N, x

LEMMA SomethingIsFound ==
    ASSUME AuditTypes, RowsShowIt \/ CacheShowsIt
    PROVE  Violations(ledger, cached) # {}
<1> DEFINE named == {e.member : e \in ledger} \cup DOMAIN cached
<1>1. /\ RowViolations(ledger) \subseteq Violations(ledger, cached)
      /\ \A m \in named :
            ChainViolations(ledger, m) \cup CacheViolations(ledger, cached, m)
               \subseteq Violations(ledger, cached)
  BY DEF Violations
<1>2. CASE RowsShowIt
  BY <1>1, <1>2 DEF RowsShowIt
<1>3. CASE CacheShowsIt
  <2>1. PICK m \in Payees : cached[m] # BalanceFromEntries(ledger, m)
    BY <1>3 DEF CacheShowsIt
  <2>2. m \in DOMAIN cached
    BY DEF AuditTypes
  <2>3. CacheViolations(ledger, cached, m) # {}
    BY <2>1, <2>2 DEF CacheViolations
  <2> QED  BY <1>1, <2>2, <2>3
<1> QED  BY <1>2, <1>3

(* The newest row of a member is the last one.                                 *)
LEMMA NewestIs ==
    ASSUME AuditTypes, WhileIntact, NEW m
    PROVE  LET S == OwnRows(ledger, m)
           IN  /\ S = {} => Newest(m) = NoPrevious
               /\ S # {} => \E e \in S : IsLastOf(e, S) /\ Newest(m) = e.id
               /\ \A e \in S : IsLastOf(e, S) <=> Newest(m) = e.id
<1> DEFINE S == OwnRows(ledger, m)
           T == {NoPrevious} \cup {e.id : e \in S}
<1>1. Newest(m) = Max(T)
  BY DEF Newest, OwnRows
<1>2. Table(S) /\ \A e \in S : e.id \in Nat /\ e.id # 0
  BY OwnRowsAreATable DEF AuditTypes, WhileIntact, SoundBooks, Table
<1> HIDE DEF S
<1>3. ASSUME S = {} PROVE Newest(m) = NoPrevious
  <2>1. T = {0}
    BY <1>3 DEF NoPrevious
  <2> HIDE DEF T
  <2> QED  BY <1>1, <2>1 DEF Max, NoPrevious
<1>4. ASSUME NEW e \in S, IsLastOf(e, S) PROVE Newest(m) = e.id
  <2>1. e.id \in T /\ \A x \in T : x \in Nat /\ x <= e.id
    BY <1>2, <1>4 DEF IsLastOf, NoPrevious
  <2> HIDE DEF T
  <2>2. \A x \in T : (\A y \in T : x >= y) => x = e.id
    BY <2>1
  <2> QED  BY <1>1, <2>1, <2>2 DEF Max
<1>5. S # {} => \E e \in S : IsLastOf(e, S)
  BY <1>2, LastExists
<1>6. ASSUME NEW e \in S, Newest(m) = e.id PROVE IsLastOf(e, S)
  <2>1. PICK l \in S : IsLastOf(l, S)
    BY <1>5
  <2>2. l.id = e.id
    BY <1>4, <1>6, <2>1
  <2> QED  BY <1>2, <2>1, <2>2 DEF Table
<1> QED  BY <1>3, <1>4, <1>5, <1>6 DEF S


-----------------------------------------------------------------------------
(* The steps.                                                                  *)
LEMMA BooksKeeps ==
    ASSUME AuditInv, NEW m \in Payees, NEW amount \in PostedAmounts, Books(m, amount)
    PROVE  AuditInv'
<1> DEFINE p == Request(m, amount)
           N == Cardinality(ledger)
<1>1. AuditTypes /\ WhileIntact /\ damage' = damage /\ damage = Intact
  BY DEF AuditInv, Books
<1>2. /\ ledger' = ledger \cup {Posted(p, N + 1, Newest(m), cached[m])}
      /\ cached' = [cached EXCEPT ![m] = @ + amount]
      /\ Postable(p)
  BY DEF Books
<1>3. /\ p.member = m /\ p.amount = amount /\ p.assignment = N + 1 /\ p.redemption = NoLink
      /\ p.type \in {"VOLUNTARY_TASK_REWARD", "BUYOUT"} /\ p.kind \in {"VOLUNTARY", "RANDOM"}
  BY DEF Request
<1>4. amount \in Int
  BY AmountsAreWhole
<1>5. TailIs(ledger, m, Newest(m))
  BY <1>1, NewestIs DEF TailIs
<1> HIDE DEF p
<1>6. SoundBooks(ledger', cached', Payees)
  BY <1>1, <1>2, <1>3, <1>4, <1>5, PostingKeepsSound DEF WhileIntact
<1>7. AuditTypes'
  BY <1>6 DEF SoundBooks, AuditTypes
<1> QED  BY <1>1, <1>6, <1>7 DEF AuditInv, WhileIntact

(* What is known when a row is damaged.                                        *)
LEMMA DamageFacts ==
    ASSUME AuditInv, NEW e \in ledger, NEW kind, kind # "none", NEW after,
           Damages(kind, e, after)
    PROVE  /\ AuditTypes /\ WhileIntact
           /\ ledger' = after /\ ledger' # ledger /\ cached' = cached /\ damage' # Intact
           /\ e.member \in Payees /\ e \in RowsOf(Payees) /\ e.amount # 0 /\ e.amount \in Int
           /\ LET S == OwnRows(ledger, e.member)
              IN  /\ Table(S) /\ S \subseteq RowsOf(Payees) /\ BalancesLinked(S) /\ e \in S
                  /\ damage'.latest <=> IsLastOf(e, S)
                  /\ IsLastOf(e, S) => cached[e.member] = e.balanceAfter
           /\ e.balanceAfter = e.balanceBefore + e.amount
           /\ e.balanceBefore \in Int
<1> DEFINE S == OwnRows(ledger, e.member)
<1>1. AuditTypes /\ WhileIntact /\ ledger' = after /\ ledger' # ledger /\ cached' = cached
  BY DEF AuditInv, Damages
<1>2. damage' # Intact
  <2>1. damage'.kind = kind
    BY DEF Damages
  <2> QED  BY <2>1 DEF Intact
<1>3. e \in RowsOf(Payees) /\ e.member \in Payees /\ e.amount # 0 /\ e.amount \in Int /\ e.balanceBefore \in Int
  BY <1>1 DEF AuditTypes, WhileIntact, SoundBooks, IntactRow, RowsOf
<1>4. Table(S) /\ S \subseteq RowsOf(Payees)
  BY <1>1, OwnRowsAreATable DEF AuditTypes
<1>5. e \in S
  BY DEF OwnRows
<1>6. BalancesLinked(S) /\ CacheFits(ledger, cached, e.member)
  BY <1>1, <1>3 DEF WhileIntact, SoundBooks
<1>7. damage'.latest <=> e.id = Newest(e.member)
  BY DEF Damages
<1>8. IsLastOf(e, S) <=> Newest(e.member) = e.id
  BY <1>1, <1>5, NewestIs
<1>9. IsLastOf(e, S) => cached[e.member] = e.balanceAfter
  BY <1>5, <1>6 DEF CacheFits
<1>10. e.balanceAfter = e.balanceBefore + e.amount
  BY <1>5, <1>6 DEF BalancesLinked
<1> QED  BY <1>1, <1>2, <1>3, <1>4, <1>5, <1>6, <1>7, <1>8, <1>9, <1>10

(* A table with a row replaced, by one of the same id, is a table.             *)
LEMMA ReplacingKeepsTable ==
    ASSUME AuditTypes, NEW e \in ledger, NEW d \in RowsOf(Payees), d.id = e.id,
           ledger' = Replacing(e, d), cached' = cached
    PROVE  AuditTypes'
<1>1. ledger' = (ledger \ {e}) \cup {d}
  BY DEF Replacing
<1>2. IsFiniteSet(ledger')
  <2>1. IsFiniteSet(ledger \ {e})
    BY FS_RemoveElement DEF AuditTypes, Table
  <2> QED  BY <1>1, <2>1, FS_AddElement
<1>3. \A x, y \in ledger' : x.id = y.id => x = y
  BY <1>1 DEF AuditTypes, Table
<1>4. ledger' \subseteq RowsOf(Payees)
  BY <1>1 DEF AuditTypes
<1>5. \A x \in ledger' : x.id \in Nat
  BY <1>4 DEF RowsOf
<1> QED  BY <1>2, <1>3, <1>4, <1>5 DEF AuditTypes, Table

(* A row that left its owner's account, by loss or to another member.          *)
LEMMA LeavingIsShown ==
    ASSUME AuditInv, NEW e \in ledger, NEW kind, kind # "none", NEW after,
           Damages(kind, e, after), OwnRows(after, e.member) = OwnRows(ledger, e.member) \ {e}
    PROVE  OnceDamaged'
<1> DEFINE S == OwnRows(ledger, e.member)
           m == e.member
<1>1. /\ ledger' = after /\ cached' = cached /\ m \in Payees /\ e.amount # 0
      /\ Table(S) /\ S \subseteq RowsOf(Payees) /\ BalancesLinked(S) /\ e \in S
      /\ damage'.latest <=> IsLastOf(e, S)
      /\ IsLastOf(e, S) => cached[m] = e.balanceAfter
  BY DamageFacts
<1>2. OwnRows(ledger', m) = S \ {e}
  BY <1>1
<1> HIDE DEF S, m
<1>3. /\ ~IsLastOf(e, S) => OwnRows(ledger', m) # {} /\ ChainViolations(ledger', m) # {}
      /\ IsLastOf(e, S) => BalanceFromEntries(ledger', m) # e.balanceAfter
  BY <1>1, <1>2, GapIsFound
<1>4. CASE IsLastOf(e, S)
  BY <1>1, <1>3, <1>4 DEF OnceDamaged, CacheShowsIt
<1>5. CASE ~IsLastOf(e, S)
  <2>1. PICK s \in OwnRows(ledger', m) : TRUE
    BY <1>3, <1>5
  <2>2. s \in ledger' /\ s.member = m
    BY DEF OwnRows
  <2>3. m \in {x.member : x \in ledger'}
    BY <2>2
  <2> QED  BY <1>3, <1>5, <2>3 DEF OnceDamaged, RowsShowIt
<1> QED  BY <1>4, <1>5

(* A row that was changed in place.                                            *)
LEMMA ChangeIsShown ==
    ASSUME AuditInv, NEW e \in ledger, NEW kind, kind # "none", NEW d \in RowsOf(Payees),
           d.id = e.id, d.member = e.member, Damages(kind, e, Replacing(e, d))
    PROVE  /\ AuditTypes'
           /\ \/ d.balanceAfter # d.balanceBefore + d.amount
              \/ d.balanceBefore # e.balanceBefore
              \/ d.balanceAfter # e.balanceAfter
              => OnceDamaged'
<1> DEFINE m == e.member
           S == OwnRows(ledger, m)
<1>1. /\ ledger' = Replacing(e, d) /\ cached' = cached /\ m \in Payees /\ AuditTypes
      /\ Table(S) /\ S \subseteq RowsOf(Payees) /\ BalancesLinked(S) /\ e \in S
      /\ damage'.latest <=> IsLastOf(e, S)
      /\ IsLastOf(e, S) => cached[m] = e.balanceAfter
  BY DamageFacts
<1>2. AuditTypes'
  BY <1>1, ReplacingKeepsTable
<1>3. d \in ledger'
  BY <1>1 DEF Replacing
<1>4. OwnRows(ledger', m) = (S \ {e}) \cup {d}
  BY <1>1 DEF OwnRows, Replacing
<1>5. m \in {x.member : x \in ledger'}
  BY <1>3
<1> HIDE DEF S, m
<1>6. /\ d.balanceBefore # e.balanceBefore => ChainViolations(ledger', m) # {}
      /\ d.balanceAfter # e.balanceAfter /\ ~IsLastOf(e, S) => ChainViolations(ledger', m) # {}
      /\ /\ IsLastOf(e, S) /\ d.balanceBefore = e.balanceBefore
         /\ d.balanceAfter = d.balanceBefore + d.amount
         => BalanceFromEntries(ledger', m) = d.balanceAfter
  BY <1>1, <1>4, MisfitIsFound
<1>7. ChainViolations(ledger', m) # {} => OnceDamaged'
  BY <1>5 DEF OnceDamaged, RowsShowIt
<1>8. d.balanceAfter # d.balanceBefore + d.amount => OnceDamaged'
  <2>1. d.balanceAfter # d.balanceBefore + d.amount
           => [kind |-> "ARITHMETIC_BREAK", id |-> d.id] \in RowViolations(ledger')
    BY <1>3 DEF RowViolations
  <2> QED  BY <2>1 DEF OnceDamaged, RowsShowIt
<1>9. /\ IsLastOf(e, S) /\ d.balanceBefore = e.balanceBefore
      /\ d.balanceAfter = d.balanceBefore + d.amount /\ d.balanceAfter # e.balanceAfter
      => OnceDamaged'
  BY <1>1, <1>6 DEF OnceDamaged, CacheShowsIt
<1> QED  BY <1>2, <1>6, <1>7, <1>8, <1>9


LEMMA LosesKeeps ==
    ASSUME AuditInv, NEW e \in ledger, LosesRow(e)
    PROVE  AuditInv'
<1>1. Damages("lost", e, ledger \ {e})
  BY DEF LosesRow
<1>2. AuditTypes /\ ledger' = ledger \ {e} /\ cached' = cached /\ damage' # Intact
  BY <1>1, DamageFacts
<1>3. AuditTypes'
  BY <1>2, FS_RemoveElement DEF AuditTypes, Table
<1>4. OwnRows(ledger \ {e}, e.member) = OwnRows(ledger, e.member) \ {e}
  BY DEF OwnRows
<1>5. OnceDamaged'
  BY <1>1, <1>4, LeavingIsShown
<1> QED  BY <1>2, <1>3, <1>5 DEF AuditInv

LEMMA MovesKeeps ==
    ASSUME AuditInv, NEW e \in ledger, NEW m \in Payees, MovesRow(e, m)
    PROVE  AuditInv'
<1> DEFINE d == [e EXCEPT !.member = m]
<1>1. Damages("moved", e, Replacing(e, d))
  BY DEF MovesRow
<1>2. /\ AuditTypes /\ ledger' = Replacing(e, d) /\ ledger' # ledger /\ cached' = cached
      /\ damage' # Intact /\ e \in RowsOf(Payees)
  BY <1>1, DamageFacts
<1>3. d \in RowsOf(Payees) /\ d.id = e.id /\ d.member = m
  BY <1>2 DEF RowsOf
<1>4. m # e.member
  <2>1. m = e.member => d = e
    BY <1>2 DEF RowsOf
  <2>2. d = e => Replacing(e, d) = ledger
    BY DEF Replacing
  <2> QED  BY <1>2, <2>1, <2>2
<1> HIDE DEF d
<1>5. AuditTypes'
  BY <1>2, <1>3, ReplacingKeepsTable
<1>6. OwnRows(Replacing(e, d), e.member) = OwnRows(ledger, e.member) \ {e}
  BY <1>3, <1>4 DEF OwnRows, Replacing
<1>7. OnceDamaged'
  BY <1>1, <1>6, LeavingIsShown
<1> QED  BY <1>2, <1>5, <1>7 DEF AuditInv

LEMMA ChangesKeep ==
    ASSUME AuditInv, NEW e \in ledger, NEW n \in PostedAmounts,
           ChangesAmount(e, n) \/ ShiftsRow(e, n) \/ RewritesRow(e, n)
    PROVE  AuditInv'
<1> DEFINE a == [e EXCEPT !.amount = n]
           b == [e EXCEPT !.balanceBefore = @ + n, !.balanceAfter = @ + n]
           c == [e EXCEPT !.amount = n, !.balanceAfter = e.balanceBefore + n]
<1>1. n \in Int
  BY AmountsAreWhole
<1>2. PICK kind, d : /\ kind # "none" /\ Damages(kind, e, Replacing(e, d))
                     /\ d = a \/ d = b \/ d = c
  BY DEF ChangesAmount, ShiftsRow, RewritesRow
<1>3. /\ ledger' = Replacing(e, d) /\ ledger' # ledger /\ damage' # Intact /\ e \in RowsOf(Payees)
      /\ e.balanceAfter = e.balanceBefore + e.amount
  BY <1>2, DamageFacts
<1>4. d # e
  <2>1. d = e => Replacing(e, d) = ledger
    BY DEF Replacing
  <2> QED  BY <1>3, <2>1
<1>5. e.amount \in Int /\ e.balanceBefore \in Int /\ e.balanceAfter \in Int
  BY <1>3 DEF RowsOf
<1>6. ASSUME NEW x \in Int, NEW y \in Int, d = [e EXCEPT !.balanceBefore = x, !.balanceAfter = y]
      PROVE  /\ d \in RowsOf(Payees) /\ d.id = e.id /\ d.member = e.member /\ d.balanceBefore = x
             /\ ~(x = e.balanceBefore /\ y = e.balanceAfter)
  BY <1>3, <1>4, <1>6 DEF RowsOf
<1>61. ASSUME NEW x \in Int, NEW y \in Int, d = [e EXCEPT !.amount = x, !.balanceAfter = y]
      PROVE  /\ d \in RowsOf(Payees) /\ d.id = e.id /\ d.member = e.member /\ d.balanceAfter = y
             /\ ~(x = e.amount /\ y = e.balanceAfter)
  BY <1>3, <1>4, <1>61 DEF RowsOf
<1>62. \A i, k, l \in Int : k # l => i + k # i + l
  OBVIOUS
<1>7. CASE d = a
  <2>1. d \in RowsOf(Payees) /\ d.id = e.id /\ d.member = e.member /\ d.amount = n
        /\ d.balanceBefore = e.balanceBefore /\ d.balanceAfter = e.balanceAfter
    BY <1>1, <1>3, <1>7 DEF RowsOf
  <2>2. n # e.amount
    BY <1>3, <1>4, <1>7 DEF RowsOf
  <2> HIDE DEF a
  <2>3. d.balanceAfter # d.balanceBefore + d.amount
    <3>1. e.balanceBefore + e.amount # e.balanceBefore + n
      BY <1>1, <1>5, <1>62, <2>2
    <3> QED  BY <1>3, <2>1, <3>1
  <2> QED  BY <1>2, <1>3, <2>1, <2>3, ChangeIsShown DEF AuditInv
<1>8. CASE d = b
  <2> DEFINE x == e.balanceBefore + n
             y == e.balanceAfter + n
  <2>1. x \in Int /\ y \in Int
    BY <1>1, <1>5
  <2>2. d = [e EXCEPT !.balanceBefore = x, !.balanceAfter = y]
    BY <1>8
  <2>3. n = 0 => x = e.balanceBefore /\ y = e.balanceAfter
    BY <1>5
  <2> HIDE DEF x, y, b
  <2>4. /\ d \in RowsOf(Payees) /\ d.id = e.id /\ d.member = e.member /\ d.balanceBefore = x
        /\ ~(x = e.balanceBefore /\ y = e.balanceAfter)
    BY <1>6, <2>1, <2>2
  <2>5. n # 0
    BY <2>3, <2>4
  <2>6. x # e.balanceBefore
    BY <1>1, <1>5, <2>5 DEF x
  <2> QED  BY <1>2, <1>3, <2>4, <2>6, ChangeIsShown DEF AuditInv
<1>9. CASE d = c
  <2> DEFINE y == e.balanceBefore + n
  <2>1. y \in Int /\ (n = e.amount => y = e.balanceAfter)
    BY <1>1, <1>3, <1>5
  <2>2. d = [e EXCEPT !.amount = n, !.balanceAfter = y]
    BY <1>9
  <2> HIDE DEF y, c
  <2>3. /\ d \in RowsOf(Payees) /\ d.id = e.id /\ d.member = e.member /\ d.balanceAfter = y
        /\ ~(n = e.amount /\ y = e.balanceAfter)
    BY <1>1, <1>61, <2>1, <2>2
  <2>4. n # e.amount
    BY <2>1, <2>3
  <2>5. y # e.balanceAfter
    <3>1. e.balanceBefore + e.amount # e.balanceBefore + n
      BY <1>1, <1>5, <1>62, <2>4
    <3> QED  BY <1>3, <3>1 DEF y
  <2> QED  BY <1>2, <1>3, <2>3, <2>5, ChangeIsShown DEF AuditInv
<1> QED  BY <1>2, <1>7, <1>8, <1>9

LEMMA RepairKeeps ==
    ASSUME AuditInv, RepairsCaches
    PROVE  AuditInv'
<1>1. /\ damage # Intact /\ damage' = damage /\ ledger' = ledger /\ repaired' = TRUE
      /\ cached' = [m \in Payees |-> BalanceFromEntries(ledger, m)]
  BY DEF RepairsCaches
<1>2. AuditTypes'
  BY <1>1 DEF AuditInv, AuditTypes
<1>3. RowsShowIt' <=> RowsShowIt
  BY <1>1 DEF RowsShowIt
<1>4. OnceDamaged'
  BY <1>1, <1>3 DEF AuditInv, OnceDamaged
<1> QED  BY <1>1, <1>2, <1>4 DEF AuditInv

(* An undamaged ledger verifies; a damage to one row is reported, and stays    *)
(* reported when the caches are repaired, unless the row was its owner's       *)
(* latest (verifyLedgerIntegrity in domain/points/ledger-math.ts).             *)
THEOREM OneChangeIsAlwaysReported == AuditSpec => []OneChangeIsReported
<1>1. AuditInit => AuditInv
  <2> SUFFICES ASSUME AuditInit PROVE AuditInv
    OBVIOUS
  <2>1. ledger = {} /\ cached = [m \in Payees |-> 0] /\ damage = Intact
    BY DEF AuditInit
  <2>2. AuditTypes
    BY <2>1, FS_EmptySet DEF AuditTypes, Table
  <2>3. \A m : OwnRows(ledger, m) = {}
    BY <2>1 DEF OwnRows
  <2>4. WhileIntact
    BY <2>1, <2>2, <2>3 DEF AuditTypes, WhileIntact, SoundBooks, BalancesLinked, IdsLinked, CacheFits
  <2> QED  BY <2>1, <2>2, <2>4 DEF AuditInv
<1>2. AuditInv /\ [AuditNext]_auditVars => AuditInv'
  <2> SUFFICES ASSUME AuditInv, [AuditNext]_auditVars PROVE AuditInv'
    OBVIOUS
  <2>1. CASE UNCHANGED auditVars
    <3>1. ledger' = ledger /\ cached' = cached /\ damage' = damage /\ repaired' = repaired
      BY <2>1 DEF auditVars
    <3>2. AuditTypes' <=> AuditTypes
      BY <3>1 DEF AuditTypes
    <3>3. WhileIntact' <=> WhileIntact
      BY <3>1 DEF WhileIntact
    <3>4. OnceDamaged' <=> OnceDamaged
      BY <3>1 DEF OnceDamaged, RowsShowIt, CacheShowsIt
    <3> QED  BY <3>1, <3>2, <3>3, <3>4 DEF AuditInv
  <2> QED  BY <2>1, BooksKeeps, LosesKeeps, MovesKeeps, ChangesKeep, RepairKeeps DEF AuditNext
<1>3. AuditInv => OneChangeIsReported
  <2> SUFFICES ASSUME AuditInv PROVE OneChangeIsReported
    OBVIOUS
  <2>1. damage = Intact => Violations(ledger, cached) = {}
    BY SoundBooksVerify DEF AuditInv, WhileIntact
  <2>2. damage # Intact => Violations(ledger, cached) # {} \/ (repaired /\ damage.latest)
    BY SomethingIsFound DEF AuditInv, OnceDamaged
  <2> QED  BY <2>1, <2>2 DEF OneChangeIsReported
<1> QED  BY <1>1, <1>2, <1>3, PTL DEF AuditSpec

-----------------------------------------------------------------------------
(* Simulation, for any household, chores, cycles and configurations a run can  *)
(* use.  Its books are in order whatever the seed.                             *)
MemberRecord ==
    [balance : Int, tail : Nat, buyoutsThisWeek : Nat, consecutiveBuyouts : Nat, buyouts : Nat,
     completedTasks : Nat, randomAssignments : Nat, voluntaryCompletions : Nat,
     daysSinceLastRandom : Nat]

TaskRecord ==
    [currentValue : Counts, maxValueReached : Counts, buyoutCount : Nat, offerCount : Nat,
     timesCompleted : Nat, timesLeftOnMarket : Nat, growthPointsAdded : Int,
     randomThisInstance : Nat]

SimTypes ==
    /\ simConfig \in SimConfigs /\ cycle \in Nat
    /\ memberState \in [Sims -> MemberRecord]
    /\ taskState \in [Tasks -> TaskRecord]

SimBooks ==
    /\ SoundBooks(simLedger, Balances, Sims)
    /\ \A m \in Sims : TailIs(simLedger, m, memberState[m].tail)

WithinMinimum ==
    ~simConfig.buyout.allowNegativeBalance =>
        \A m \in Sims : memberState[m].balance >= simConfig.buyout.minimumBalance

SimInv == SimTypes /\ SimBooks /\ WithinMinimum

LEMMA RunNumbers ==
    ASSUME SimTypes
    PROVE  /\ PricedBy(simConfig) /\ RunsOn(simConfig)
           /\ simConfig.fairness.windowDays \in Nat
           /\ simConfig.buyout.allowNegativeBalance \in BOOLEAN
           /\ simConfig.buyout.minimumBalance \in Int
           /\ ~simConfig.buyout.allowNegativeBalance => simConfig.buyout.minimumBalance <= 0
           /\ simConfig.voluntary.rewardMultiplier \in Int
           /\ simConfig.voluntary.rewardRounding \in Roundings
<1>1. RunsOn(simConfig)
  BY SimulationAssumption DEF SimTypes
<1>2. simConfig.buyout \in BuyoutShape /\ simConfig.voluntary \in VoluntaryShape
  BY <1>1 DEF RunsOn, PricedBy
<1>3. simConfig.buyout.allowNegativeBalance \in BOOLEAN /\ simConfig.buyout.minimumBalance \in AnyInteger
  BY <1>2 DEF BuyoutShape
<1>4. AnyInteger \subseteq Int
  BY SafeIntegers DEF AnyInteger
<1>5. simConfig.voluntary.rewardMultiplier \in 0 .. 100 /\ simConfig.voluntary.rewardRounding \in Roundings
  BY <1>2 DEF VoluntaryShape
<1>6. simConfig.voluntary.rewardMultiplier \in Int /\ simConfig.buyout.minimumBalance \in Int
  <2>1. simConfig.voluntary.rewardMultiplier \in Int
    BY <1>5
  <2>2. simConfig.buyout.minimumBalance \in Int
    BY <1>3, <1>4
  <2> QED  BY <2>1, <2>2
<1>7. /\ PricedBy(simConfig) /\ simConfig.fairness.windowDays \in Nat
      /\ ~simConfig.buyout.allowNegativeBalance => simConfig.buyout.minimumBalance <= 0
  BY <1>1 DEF RunsOn
<1> QED  BY <1>1, <1>3, <1>5, <1>6, <1>7

LEMMA OfferNumbers ==
    ASSUME SimTypes
    PROVE  /\ Turn \in Tasks /\ OnOffer \in TaskRecord
           /\ SimTasks[Turn].base \in Counts /\ BuyoutContext \in Offers
           /\ Counts = 0 .. MaxSafeInteger /\ Counts \subseteq Int
<1>1. Len(SimTasks) \in Nat \ {0} /\ DOMAIN SimTasks = 1 .. Len(SimTasks)
  BY SimulationAssumption, EmptySeq, LenProperties
<1>2. Turn \in Tasks
  <2>1. cycle % Len(SimTasks) \in 0 .. Len(SimTasks) - 1
    BY <1>1 DEF SimTypes
  <2> QED  BY <1>1, <2>1 DEF Turn, Tasks
<1>3. OnOffer \in TaskRecord
  BY <1>2 DEF OnOffer, SimTypes
<1>4. SimTasks[Turn] \in [base : Counts, buyoutEnabled : BOOLEAN]
  <2>1. SimTasks \in Seq([base : Counts, buyoutEnabled : BOOLEAN]) /\ Turn \in 1 .. Len(SimTasks)
    BY <1>1, <1>2, SimulationAssumption DEF Tasks
  <2> QED  BY <2>1, ElementOfSeq
<1>5. SimTasks[Turn].base \in Counts
  BY <1>4
<1>6. OnOffer.currentValue \in Counts /\ OnOffer.buyoutCount \in Nat
  BY <1>3 DEF TaskRecord
<1>7. BuyoutContext \in Offers
  BY <1>5, <1>6 DEF BuyoutContext, Offers
<1> QED  BY <1>2, <1>3, <1>5, <1>7, SafeIntegers DEF Counts

(* tickRecency leaves the points alone.                                        *)
LEMMA TickedFacts ==
    ASSUME SimTypes, NEW ms \in [Sims -> MemberRecord], NEW who
    PROVE  /\ Ticked(ms, who) \in [Sims -> MemberRecord]
           /\ \A k \in Sims : /\ Ticked(ms, who)[k].balance = ms[k].balance
                              /\ Ticked(ms, who)[k].tail = ms[k].tail
<1>1. ASSUME NEW r \in MemberRecord, NEW d \in Nat
      PROVE  /\ [r EXCEPT !.daysSinceLastRandom = d] \in MemberRecord
             /\ [r EXCEPT !.daysSinceLastRandom = d].balance = r.balance
             /\ [r EXCEPT !.daysSinceLastRandom = d].tail = r.tail
  BY DEF MemberRecord
<1>2. ASSUME NEW k \in Sims
      PROVE  (IF k = who THEN 0 ELSE Smaller(simConfig.fairness.windowDays,
                                             ms[k].daysSinceLastRandom + 1)) \in Nat
  <2>1. ms[k].daysSinceLastRandom \in Nat /\ simConfig.fairness.windowDays \in Nat
    BY RunNumbers DEF MemberRecord
  <2> QED  BY <2>1 DEF Smaller
<1> QED  BY <1>1, <1>2 DEF Ticked

(* What is posted is within the rules, and every cache follows its rows.       *)
LEMMA WorkKeepsSound ==
    ASSUME NEW L, NEW C, NEW P, SoundBooks(L, C, P), NEW m \in P, NEW tail, TailIs(L, m, tail),
           NEW amount \in Int, NEW type, NEW kind,
           \/ type = "VOLUNTARY_TASK_REWARD" /\ kind = "VOLUNTARY" /\ amount > 0
           \/ type = "BUYOUT" /\ kind = "RANDOM" /\ amount < 0
    PROVE  LET p == [member |-> m, amount |-> amount, type |-> type, kind |-> kind,
                     assignment |-> Cardinality(L) + 1, redemption |-> NoLink]
               x == Posted(p, Cardinality(L) + 1, tail, C[m])
               M == L \cup {x}
           IN  /\ SoundBooks(M, [C EXCEPT ![m] = @ + amount], P)
               /\ TailIs(M, m, Cardinality(L) + 1)
<1> DEFINE p == [member |-> m, amount |-> amount, type |-> type, kind |-> kind,
                 assignment |-> Cardinality(L) + 1, redemption |-> NoLink]
           x == Posted(p, Cardinality(L) + 1, tail, C[m])
<1>1. /\ p.member = m /\ p.amount = amount /\ p.type = type /\ p.kind = kind
      /\ p.assignment = Cardinality(L) + 1 /\ p.redemption = NoLink
  OBVIOUS
<1>2. Cardinality(L) \in Nat
  BY FS_CardinalityType DEF SoundBooks, Table
<1>3. x.id = Cardinality(L) + 1
  BY DEF Posted
<1> HIDE DEF p
<1>4. p.type \in {"VOLUNTARY_TASK_REWARD", "BUYOUT"} /\ p.kind \in {"VOLUNTARY", "RANDOM"}
  BY <1>1
<1>5. Postable(p)
  <2>1. ~SignRuleViolated(p.type, p.amount)
    BY <1>1 DEF SignRuleViolated, Payouts
  <2>2. p.assignment # NoLink
    BY <1>1, <1>2 DEF NoLink
  <2> QED  BY <1>1, <2>1, <2>2 DEF Postable, Payouts
<1>6. /\ SoundBooks(L \cup {x}, [C EXCEPT ![m] = @ + p.amount], P)
      /\ TailIs(L \cup {x}, m, x.id)
  BY <1>1, <1>4, <1>5, PostingKeepsSound
<1> HIDE DEF x
<1> QED  BY <1>1, <1>3, <1>6 DEF p, x

LEMMA SimPostingKeeps ==
    ASSUME SimInv, NEW m \in Sims, NEW amount \in Int, NEW type, NEW kind,
           \/ type = "VOLUNTARY_TASK_REWARD" /\ kind = "VOLUNTARY" /\ amount > 0
           \/ type = "BUYOUT" /\ kind = "RANDOM" /\ amount < 0,
           simLedger' = PostLedgerEntry(PostingInput(m, type, kind, amount)),
           memberState' \in [Sims -> MemberRecord],
           \A k \in Sims : /\ memberState'[k].balance = Paid(m, amount)[k].balance
                           /\ memberState'[k].tail = Paid(m, amount)[k].tail
    PROVE  SimBooks'
<1> DEFINE N == Cardinality(simLedger)
           p == [member |-> m, amount |-> amount, type |-> type, kind |-> kind,
                 assignment |-> N + 1, redemption |-> NoLink]
           x == Posted(p, N + 1, memberState[m].tail, Balances[m])
<1>1. /\ SoundBooks(simLedger, Balances, Sims) /\ TailIs(simLedger, m, memberState[m].tail)
      /\ Balances[m] = memberState[m].balance
  BY DEF SimInv, SimBooks, Balances
<1>2. p = PostingInput(m, type, kind, amount) /\ p.member = m
  BY DEF PostingInput
<1>6. /\ SoundBooks(simLedger \cup {x}, [Balances EXCEPT ![m] = @ + amount], Sims)
      /\ TailIs(simLedger \cup {x}, m, N + 1)
      /\ \A k \in Sims : k # m => OwnRows(simLedger \cup {x}, k) = OwnRows(simLedger, k)
  <2>1. SoundBooks(simLedger \cup {x}, [Balances EXCEPT ![m] = @ + amount], Sims)
    BY <1>1, WorkKeepsSound, ZenonT(30)
  <2>2. TailIs(simLedger \cup {x}, m, N + 1)
    BY <1>1, WorkKeepsSound, ZenonT(30)
  <2>3. \A k \in Sims : k # m => OwnRows(simLedger \cup {x}, k) = OwnRows(simLedger, k)
    <3>1. x.member = m
      BY DEF Posted
    <3> HIDE DEF x
    <3> QED  BY <3>1 DEF OwnRows
  <2> QED  BY <2>1, <2>2, <2>3
<1> HIDE DEF p
<1>7. simLedger' = simLedger \cup {x}
  BY <1>1, <1>2 DEF PostLedgerEntry
<1> HIDE DEF x, N
<1>9. \A k \in Sims :
         /\ memberState'[k].balance = IF k = m THEN memberState[k].balance + amount
                                      ELSE memberState[k].balance
         /\ memberState'[k].tail = IF k = m THEN N + 1 ELSE memberState[k].tail
  <2>1. memberState \in [Sims -> MemberRecord]
    BY DEF SimInv, SimTypes
  <2>2. \A k \in Sims : k # m => Paid(m, amount)[k] = memberState[k]
    BY <2>1 DEF Paid
  <2>3. Paid(m, amount)[m] = [memberState[m] EXCEPT !.balance = @ + amount, !.tail = N + 1]
    BY <2>1 DEF Paid, N
  <2>4. \A r \in MemberRecord : LET s == [r EXCEPT !.balance = @ + amount, !.tail = N + 1]
                                IN  s.balance = r.balance + amount /\ s.tail = N + 1
    BY DEF MemberRecord
  <2>5. /\ Paid(m, amount)[m].balance = memberState[m].balance + amount
        /\ Paid(m, amount)[m].tail = N + 1
    BY <2>1, <2>3, <2>4
  <2> QED  BY <2>2, <2>5
<1>10. Balances' = [Balances EXCEPT ![m] = @ + amount]
  BY <1>9 DEF Balances
<1>11. ASSUME NEW k \in Sims PROVE TailIs(simLedger', k, memberState'[k].tail)
  <2>1. CASE k = m
    BY <1>6, <1>7, <1>9, <2>1
  <2>2. CASE k # m
    BY <1>6, <1>7, <1>9, <2>2 DEF TailIs, SimInv, SimBooks
  <2> QED  BY <2>1, <2>2
<1> QED  BY <1>6, <1>7, <1>10, <1>11 DEF SimBooks

(* evaluateBuyoutRules: whoever may pay has the points.                        *)
LEMMA MayBuyOutMeans ==
    ASSUME NEW cfg, NEW b, BuyoutDenial(cfg, b) = "none"
    PROVE  ~(b.balance - b.cost < MinimumAllowedBalance(cfg))
<1> DEFINE rules == <<
        <<b.kind # "RANDOM", "NOT_RANDOM_ASSIGNMENT">>,
        <<~cfg.buyout.enabled, "BUYOUT_DISABLED_GLOBALLY">>,
        <<~b.enabledForTask, "BUYOUT_DISABLED_FOR_TASK">>,
        <<AtValueCap(cfg, b.currentValue), "VALUE_CAP_REACHED">>,
        <<Reached(cfg.buyout.maximumBuyoutsPerWeek, b.thisWeek), "WEEKLY_LIMIT_REACHED">>,
        <<Reached(cfg.buyout.maximumConsecutiveBuyouts, b.consecutive),
          "CONSECUTIVE_LIMIT_REACHED">>,
        <<b.balance - b.cost < MinimumAllowedBalance(cfg), "INSUFFICIENT_POINTS">>>>
           hits == {i \in DOMAIN rules : rules[i][1]}
<1>1. DOMAIN rules = 1 .. 7 /\ \A i \in 1 .. 7 : rules[i][2] # "none"
  OBVIOUS
<1>2. rules[7][1] = (b.balance - b.cost < MinimumAllowedBalance(cfg))
  OBVIOUS
<1>3. (IF hits = {} THEN "none" ELSE rules[Min(hits)][2]) = "none"
  BY DEF BuyoutDenial
<1> HIDE DEF rules
<1>4. hits # {} => Min(hits) \in hits
  <2>1. hits \subseteq 1 .. 7
    BY <1>1
  <2>2. ASSUME hits # {} PROVE \E i \in hits : \A j \in hits : i <= j
    <3> HIDE DEF hits
    <3> QED  BY <2>1, <2>2, SmallestOf
  <2> HIDE DEF hits
  <2> QED  BY <2>2 DEF Min
<1>5. hits = {}
  BY <1>1, <1>3, <1>4
<1>6. ~rules[7][1]
  BY <1>1, <1>5
<1> QED  BY <1>2, <1>6

-----------------------------------------------------------------------------
(* What becomes of the chore on offer keeps to the safe integers.              *)
LEMMA ApplyGrowthFacts ==
    ASSUME SimTypes, NEW task \in TaskRecord
    PROVE  ApplyGrowth(task) \in TaskRecord
<1> DEFINE v == task.currentValue
           till == simConfig.valueGrowth.intervalMinutes * GrowthIntervalsPerOffer
           steps == (till - 0) \div simConfig.valueGrowth.intervalMinutes
           full == UnderCap(simConfig, v + steps * simConfig.valueGrowth.pointsPerInterval)
           step == GrownValue(simConfig, v, 0, till)
<1>1. PricedBy(simConfig) /\ Counts = 0 .. MaxSafeInteger /\ MaxSafeInteger \in Nat \ {0}
  BY RunNumbers, SafeIntegers DEF Counts
<1>2. v \in Counts /\ v \in Int /\ v <= MaxSafeInteger /\ 0 <= v
  <2>1. v \in Counts
    BY DEF TaskRecord
  <2> HIDE DEF v
  <2> QED  BY <1>1, <2>1
<1>3. steps * simConfig.valueGrowth.pointsPerInterval \in Int
  <2>1. /\ simConfig.valueGrowth.intervalMinutes \in Nat \ {0}
        /\ simConfig.valueGrowth.pointsPerInterval \in Nat \ {0}
    BY <1>1, GrowthNumbers
  <2>2. till - 0 \in Int
    BY <2>1, SimulationAssumption
  <2>3. steps \in Int
    <3> HIDE DEF till
    <3> QED  BY <2>1, <2>2, Division
  <2> HIDE DEF steps
  <2> QED  BY <2>1, <2>3
<1> HIDE DEF till, v
<1>4. full \in Int
  <2> HIDE DEF steps
  <2>1. v + steps * simConfig.valueGrowth.pointsPerInterval \in Int
    BY <1>2, <1>3
  <2> QED  BY <1>1, <2>1, CapAllows
<1>5. step.value = v \/ step.value = ClampToSafe(full, v)
  BY DEF GrownValue
<1> HIDE DEF full, steps
<1>6. step.value \in Counts
  <2>1. ClampToSafe(full, v) \in v .. MaxSafeInteger
    BY <1>2, <1>4, Clamped
  <2> HIDE DEF step
  <2> QED  BY <1>1, <1>2, <1>5, <2>1
<1> HIDE DEF step
<1>7. /\ task.growthPointsAdded \in Int /\ task.maxValueReached \in Counts
  BY DEF TaskRecord
<1>8. task.growthPointsAdded + step.value - v \in Int /\ Larger(task.maxValueReached, step.value) \in Counts
  BY <1>1, <1>2, <1>6, <1>7 DEF Larger
<1>9. ApplyGrowth(task) = [task EXCEPT !.currentValue = step.value,
                                       !.growthPointsAdded = @ + step.value - v,
                                       !.maxValueReached = Larger(@, step.value)]
  BY DEF ApplyGrowth, step, v, till
<1>10. \A a \in Counts, b \in Int, c \in Counts :
          [task EXCEPT !.currentValue = a, !.growthPointsAdded = b, !.maxValueReached = c] \in TaskRecord
  BY DEF TaskRecord
<1> QED  BY <1>6, <1>8, <1>9, <1>10

LEMMA CompletedFacts ==
    ASSUME SimTypes, NEW task \in TaskRecord
    PROVE  Completed(task) \in TaskRecord
<1> DEFINE ctx == [currentValue |-> task.currentValue, baseValue |-> SimTasks[Turn].base]
           value == ResetValue(simConfig, ctx)
<1>1. task.currentValue \in Counts /\ task.timesCompleted \in Nat
  BY DEF TaskRecord
<1>2. SimTasks[Turn].base \in Counts /\ Counts = 0 .. MaxSafeInteger
  BY OfferNumbers
<1>3. ctx.currentValue \in 0 .. MaxSafeInteger /\ ctx.baseValue \in 0 .. MaxSafeInteger
  BY <1>1, <1>2
<1>4. PricedBy(simConfig)
  BY RunNumbers
<1> HIDE DEF ctx
<1>5. value \in Counts
  BY <1>2, <1>3, <1>4, ResetIsCounted
<1> HIDE DEF value
<1>6. Completed(task) = [task EXCEPT !.currentValue = value, !.timesCompleted = @ + 1,
                                     !.randomThisInstance = 0]
  BY DEF Completed, value, ctx
<1>7. \A a \in Counts, b \in Nat :
         [task EXCEPT !.currentValue = a, !.timesCompleted = b, !.randomThisInstance = 0] \in TaskRecord
  BY DEF TaskRecord
<1>8. task.timesCompleted + 1 \in Nat
  BY <1>1
<1> QED  BY <1>5, <1>6, <1>7, <1>8

LEMMA OfferedFacts ==
    ASSUME SimTypes, NEW task \in TaskRecord, Offered(task)
    PROVE  taskState' \in [Tasks -> TaskRecord]
<1>1. task.offerCount + 1 \in Nat
  BY DEF TaskRecord
<1>2. \A a \in Nat : [task EXCEPT !.offerCount = a] \in TaskRecord
  BY DEF TaskRecord
<1> QED  BY <1>1, <1>2, OfferNumbers DEF SimTypes, Offered

(* A cycle that posts nothing.                                                 *)
LEMMA SimQuietKeeps ==
    ASSUME SimInv, simLedger' = simLedger, simConfig' = simConfig,
           memberState' \in [Sims -> MemberRecord],
           \A k \in Sims : /\ memberState'[k].balance = memberState[k].balance
                           /\ memberState'[k].tail = memberState[k].tail
    PROVE  SimBooks' /\ WithinMinimum'
<1>1. Balances' = Balances
  BY DEF Balances
<1> QED  BY <1>1 DEF SimInv, SimBooks, WithinMinimum

-----------------------------------------------------------------------------
LEMMA SimStarts == SimInit => SimInv
<1> SUFFICES ASSUME SimInit PROVE SimInv
  OBVIOUS
<1>1. RunsOn(simConfig) /\ simConfig \in SimConfigs
  BY SimulationAssumption DEF SimInit
<1>2. simConfig.fairness.windowDays \in Nat
  BY <1>1 DEF RunsOn
<1>3. FreshMember(simConfig) \in MemberRecord
  BY <1>2 DEF FreshMember, MemberRecord, NoPrevious
<1>4. ASSUME NEW t \in Tasks PROVE FreshTask(t) \in TaskRecord
  <2>1. SimTasks[t] \in [base : Counts, buyoutEnabled : BOOLEAN]
    <3>1. SimTasks \in Seq([base : Counts, buyoutEnabled : BOOLEAN]) /\ t \in 1 .. Len(SimTasks)
      BY SimulationAssumption DEF Tasks
    <3> QED  BY <3>1, ElementOfSeq
  <2>2. SimTasks[t].base \in Counts
    BY <2>1
  <2> QED  BY <2>2 DEF FreshTask, TaskRecord
<1>5. SimTypes
  BY <1>1, <1>3, <1>4 DEF SimInit, SimTypes
<1>6. \A m \in Sims : memberState[m].balance = 0 /\ memberState[m].tail = NoPrevious
  BY DEF SimInit, FreshMember
<1>7. SoundBooks({}, Balances, Sims)
  <2>1. Balances \in [Sims -> Int] /\ \A m \in Sims : Balances[m] = 0
    BY <1>6 DEF Balances
  <2>2. \A m \in Sims : OwnRows({}, m) = {}
    BY DEF OwnRows
  <2>3. Table({})
    BY FS_EmptySet DEF Table
  <2> QED  BY <2>1, <2>2, <2>3 DEF SoundBooks, BalancesLinked, IdsLinked, CacheFits
<1>8. SimBooks
  <2>1. simLedger = {}
    BY DEF SimInit
  <2>2. \A m \in Sims : TailIs(simLedger, m, memberState[m].tail)
    BY <1>6, <2>1 DEF TailIs, OwnRows
  <2> QED  BY <1>7, <2>1, <2>2 DEF SimBooks
<1>9. WithinMinimum
  BY <1>5, <1>6, RunNumbers DEF WithinMinimum
<1> QED  BY <1>5, <1>8, <1>9 DEF SimInv

LEMMA LeftKeeps ==
    ASSUME SimInv, EndOfCycle, LeftOnMarket
    PROVE  SimInv'
<1>1. SimTypes /\ memberState \in [Sims -> MemberRecord]
  BY DEF SimInv, SimTypes
<1> DEFINE task == [OnOffer EXCEPT !.timesLeftOnMarket = @ + 1]
<1>2. task \in TaskRecord
  <2>1. OnOffer \in TaskRecord
    BY <1>1, OfferNumbers
  <2> QED  BY <2>1 DEF TaskRecord
<1>3. taskState' \in [Tasks -> TaskRecord]
  <2> HIDE DEF task
  <2>1. ApplyGrowth(task) \in TaskRecord
    BY <1>1, <1>2, ApplyGrowthFacts
  <2>2. Offered(ApplyGrowth(task))
    BY DEF LeftOnMarket, task
  <2> QED  BY <1>1, <2>1, <2>2, OfferedFacts
<1>4. /\ memberState' \in [Sims -> MemberRecord]
      /\ \A k \in Sims : /\ memberState'[k].balance = memberState[k].balance
                         /\ memberState'[k].tail = memberState[k].tail
  BY <1>1, TickedFacts DEF LeftOnMarket
<1>5. SimTypes'
  BY <1>1, <1>3, <1>4 DEF SimTypes, EndOfCycle
<1>6. SimBooks' /\ WithinMinimum'
  BY <1>4, SimQuietKeeps DEF LeftOnMarket, EndOfCycle
<1> QED  BY <1>5, <1>6 DEF SimInv

(* The counters of one member move; the points do not.                         *)
LEMMA DrawnAndDoneKeeps ==
    ASSUME SimInv, EndOfCycle, NEW m \in Sims, DrawnAndDone(m)
    PROVE  SimInv'
<1>1. SimTypes /\ memberState \in [Sims -> MemberRecord]
  BY DEF SimInv, SimTypes
<1> DEFINE ms == [memberState EXCEPT ![m].randomAssignments = @ + 1, ![m].completedTasks = @ + 1,
                                     ![m].consecutiveBuyouts = 0]
<1>2. /\ ms \in [Sims -> MemberRecord]
      /\ \A k \in Sims : ms[k].balance = memberState[k].balance /\ ms[k].tail = memberState[k].tail
  <2> DEFINE old == memberState[m]
             r == [old EXCEPT !.randomAssignments = @ + 1, !.completedTasks = @ + 1,
                              !.consecutiveBuyouts = 0]
  <2>1. old \in MemberRecord
    BY <1>1
  <2>2. r \in MemberRecord /\ r.balance = old.balance /\ r.tail = old.tail
    <3> HIDE DEF old
    <3>1. old.randomAssignments + 1 \in Nat /\ old.completedTasks + 1 \in Nat
      BY <2>1 DEF MemberRecord
    <3>2. \A a, b \in Nat :
             LET s == [old EXCEPT !.randomAssignments = a, !.completedTasks = b, !.consecutiveBuyouts = 0]
             IN  s \in MemberRecord /\ s.balance = old.balance /\ s.tail = old.tail
      BY <2>1 DEF MemberRecord
    <3> QED  BY <3>1, <3>2
  <2>3. ms = [memberState EXCEPT ![m] = r]
    BY <1>1
  <2> HIDE DEF r, ms
  <2> QED  BY <1>1, <2>2, <2>3
<1> HIDE DEF ms
<1>3. memberState' = Ticked(ms, m)
  BY DEF DrawnAndDone, ms
<1>4. /\ memberState' \in [Sims -> MemberRecord]
      /\ \A k \in Sims : /\ memberState'[k].balance = memberState[k].balance
                         /\ memberState'[k].tail = memberState[k].tail
  BY <1>1, <1>2, <1>3, TickedFacts
<1>5. DrawnTask \in TaskRecord
  <2>1. OnOffer \in TaskRecord
    BY <1>1, OfferNumbers
  <2> QED  BY <2>1 DEF TaskRecord, DrawnTask
<1>6. taskState' \in [Tasks -> TaskRecord]
  <2>1. Completed(DrawnTask) \in TaskRecord
    BY <1>1, <1>5, CompletedFacts
  <2> QED  BY <1>1, <2>1, OfferedFacts DEF DrawnAndDone
<1>7. SimTypes'
  BY <1>1, <1>4, <1>6 DEF SimTypes, EndOfCycle
<1>8. SimBooks' /\ WithinMinimum'
  BY <1>4, SimQuietKeeps DEF DrawnAndDone, EndOfCycle
<1> QED  BY <1>7, <1>8 DEF SimInv

LEMMA PaidFacts ==
    ASSUME SimInv, NEW m \in Sims, NEW amount \in Int
    PROVE  /\ Paid(m, amount) \in [Sims -> MemberRecord]
           /\ \A k \in Sims : Paid(m, amount)[k].balance = IF k = m THEN memberState[k].balance + amount
                                                          ELSE memberState[k].balance
<1> DEFINE N == Cardinality(simLedger)
           old == memberState[m]
           r == [old EXCEPT !.balance = @ + amount, !.tail = N + 1]
<1>1. memberState \in [Sims -> MemberRecord] /\ N \in Nat
  BY FS_CardinalityType DEF SimInv, SimTypes, SimBooks, SoundBooks, Table
<1>2. old \in MemberRecord /\ N + 1 \in Nat
  BY <1>1
<1>3. Paid(m, amount) = [memberState EXCEPT ![m] = r]
  BY <1>1 DEF Paid
<1> HIDE DEF old, N
<1>4. r \in MemberRecord /\ r.balance = old.balance + amount
  <2>1. old.balance + amount \in Int
    BY <1>2 DEF MemberRecord
  <2>2. \A a \in Int, b \in Nat :
           LET s == [old EXCEPT !.balance = a, !.tail = b] IN s \in MemberRecord /\ s.balance = a
    BY <1>2 DEF MemberRecord
  <2> QED  BY <1>2, <2>1, <2>2
<1> HIDE DEF r
<1> QED  BY <1>1, <1>3, <1>4 DEF old

(* A cycle that posts what somebody earned or paid.                            *)
LEMMA PayingKeeps ==
    ASSUME SimInv, EndOfCycle, NEW m \in Sims, NEW amount \in Int, NEW type, NEW kind, NEW who,
           \/ type = "VOLUNTARY_TASK_REWARD" /\ kind = "VOLUNTARY" /\ amount > 0
           \/ type = "BUYOUT" /\ kind = "RANDOM" /\ amount < 0,
           simLedger' = PostLedgerEntry(PostingInput(m, type, kind, amount)),
           NEW ms \in [Sims -> MemberRecord], memberState' = Ticked(ms, who),
           \A k \in Sims : /\ ms[k].balance = Paid(m, amount)[k].balance
                           /\ ms[k].tail = Paid(m, amount)[k].tail,
           \/ amount > 0
           \/ memberState[m].balance + amount >= MinimumAllowedBalance(simConfig)
    PROVE  memberState' \in [Sims -> MemberRecord] /\ SimBooks' /\ WithinMinimum'
<1>1. SimTypes /\ memberState \in [Sims -> MemberRecord]
  BY DEF SimInv, SimTypes
<1>2. /\ memberState' \in [Sims -> MemberRecord]
      /\ \A k \in Sims : /\ memberState'[k].balance = Paid(m, amount)[k].balance
                         /\ memberState'[k].tail = Paid(m, amount)[k].tail
  BY <1>1, TickedFacts
<1>3. SimBooks'
  BY <1>2, SimPostingKeeps
<1>4. ASSUME ~simConfig.buyout.allowNegativeBalance, NEW k \in Sims
      PROVE  memberState'[k].balance >= simConfig.buyout.minimumBalance
  <2>1. /\ memberState[k].balance >= simConfig.buyout.minimumBalance
        /\ memberState[k].balance \in Int /\ simConfig.buyout.minimumBalance \in Int
    BY <1>1, <1>4, RunNumbers DEF SimInv, WithinMinimum, MemberRecord
  <2>2. memberState'[k].balance = IF k = m THEN memberState[k].balance + amount
                                  ELSE memberState[k].balance
    BY <1>2, PaidFacts
  <2>3. MinimumAllowedBalance(simConfig) = simConfig.buyout.minimumBalance
    BY <1>4 DEF MinimumAllowedBalance
  <2> QED  BY <2>1, <2>2, <2>3
<1>5. WithinMinimum'
  BY <1>4 DEF WithinMinimum, EndOfCycle
<1> QED  BY <1>2, <1>3, <1>5

LEMMA VolunteersKeep ==
    ASSUME SimInv, EndOfCycle, NEW m \in Sims, Volunteers(m)
    PROVE  SimInv'
<1> DEFINE reward == VoluntaryReward(simConfig, "VOLUNTARY", OnOffer.currentValue, simConfig.voluntary.rewardTiming)
           richer == IF reward > 0 THEN Paid(m, reward) ELSE memberState
           old == richer[m]
           r == [old EXCEPT !.voluntaryCompletions = @ + 1, !.completedTasks = @ + 1]
           ms == [richer EXCEPT ![m].voluntaryCompletions = @ + 1, ![m].completedTasks = @ + 1]
<1>1. SimTypes /\ memberState \in [Sims -> MemberRecord] /\ OnOffer \in TaskRecord
  BY OfferNumbers DEF SimInv, SimTypes
<1>2. reward \in Int
  <2> DEFINE f == Times(OnOffer.currentValue, simConfig.voluntary.rewardMultiplier)
             rounded == ApplyRounding(f, simConfig.voluntary.rewardRounding)
  <2>1. OnOffer.currentValue \in Int
    <3>1. OnOffer.currentValue \in Counts
      BY <1>1 DEF TaskRecord
    <3> QED  BY <1>1, <3>1, OfferNumbers
  <2>2. f.num \in Int /\ f.den \in Nat \ {0} /\ simConfig.voluntary.rewardRounding \in Roundings
    BY <1>1, <2>1, RunNumbers DEF Times, Fraction
  <2> HIDE DEF f
  <2>3. rounded \in Int
    BY <2>2, RoundedIsWhole
  <2> HIDE DEF rounded
  <2>4. reward = 0 \/ reward = Larger(0, rounded)
    BY DEF VoluntaryReward, rounded, f
  <2> HIDE DEF reward
  <2> QED  BY <2>3, <2>4 DEF Larger
<1>3. /\ simLedger' = IF reward > 0
                      THEN PostLedgerEntry(PostingInput(m, "VOLUNTARY_TASK_REWARD", "VOLUNTARY", reward))
                      ELSE simLedger
      /\ memberState' = Ticked(ms, Nobody)
      /\ Offered(Completed(OnOffer))
  BY DEF Volunteers
<1> HIDE DEF reward
<1>4. richer \in [Sims -> MemberRecord]
  BY <1>1, <1>2, PaidFacts
<1>5. ms = [richer EXCEPT ![m] = r]
  <2> HIDE DEF richer
  <2> QED  BY <1>4
<1> HIDE DEF richer, ms
<1>6. old \in MemberRecord
  BY <1>4
<1>7. r \in MemberRecord /\ r.balance = old.balance /\ r.tail = old.tail
  <2> HIDE DEF old
  <2>1. old.voluntaryCompletions + 1 \in Nat /\ old.completedTasks + 1 \in Nat
    BY <1>6 DEF MemberRecord
  <2>2. \A a, b \in Nat :
           LET s == [old EXCEPT !.voluntaryCompletions = a, !.completedTasks = b]
           IN  s \in MemberRecord /\ s.balance = old.balance /\ s.tail = old.tail
    BY <1>6 DEF MemberRecord
  <2> QED  BY <2>1, <2>2
<1> HIDE DEF r
<1>8. /\ ms \in [Sims -> MemberRecord]
      /\ \A k \in Sims : ms[k].balance = richer[k].balance /\ ms[k].tail = richer[k].tail
  BY <1>4, <1>5, <1>7
<1>9. taskState' \in [Tasks -> TaskRecord]
  BY <1>1, <1>3, CompletedFacts, OfferedFacts
<1>10. memberState' \in [Sims -> MemberRecord] /\ SimBooks' /\ WithinMinimum'
  <2>1. CASE reward > 0
    <3>1. richer = Paid(m, reward)
      BY <2>1 DEF richer
    <3>2. simLedger' = PostLedgerEntry(PostingInput(m, "VOLUNTARY_TASK_REWARD", "VOLUNTARY", reward))
      BY <1>3, <2>1
    <3> QED  BY <1>2, <1>3, <1>8, <2>1, <3>1, <3>2, PayingKeeps
  <2>2. CASE ~(reward > 0)
    <3>1. richer = memberState /\ simLedger' = simLedger
      BY <1>3, <2>2 DEF richer
    <3>2. /\ memberState' \in [Sims -> MemberRecord]
          /\ \A k \in Sims : /\ memberState'[k].balance = memberState[k].balance
                             /\ memberState'[k].tail = memberState[k].tail
      BY <1>1, <1>3, <1>8, <3>1, TickedFacts
    <3> QED  BY <3>1, <3>2, SimQuietKeeps DEF EndOfCycle
  <2> QED  BY <2>1, <2>2
<1>11. SimTypes'
  BY <1>1, <1>9, <1>10 DEF SimTypes, EndOfCycle
<1> QED  BY <1>10, <1>11 DEF SimInv

LEMMA CostFacts ==
    ASSUME SimTypes
    PROVE  Cost \in 1 .. MaxSafeInteger /\ IncreasedValue(simConfig, BuyoutContext) \in Counts
<1>1. /\ RunsOn(simConfig) /\ PricedBy(simConfig) /\ BuyoutContext \in Offers
      /\ Counts = 0 .. MaxSafeInteger
  BY RunNumbers, OfferNumbers
<1>2. BuyoutContext.currentValue \in 0 .. MaxSafeInteger
  BY <1>1 DEF Offers
<1>3. /\ NeedsCostFormula(simConfig) =>
            FormulaResult(simConfig.buyout.costFormula, BuyoutContext) \in [num : Int, den : Nat \ {0}]
      /\ NeedsValueFormula(simConfig) =>
            FormulaResult(simConfig.valueIncrease.formula, BuyoutContext) \in [num : Int, den : Nat \ {0}]
  BY <1>1 DEF RunsOn, WorksOnOffers
<1>4. \A f \in [num : Int, den : Nat \ {0}] : f.num \in Int /\ f.den \in Nat \ {0}
  OBVIOUS
<1>5. Cost \in 1 .. MaxSafeInteger
  <2>1. BuyoutContext.currentValue \in Int
    BY <1>2, SafeIntegers
  <2> QED  BY <1>1, <1>3, <1>4, <2>1, CostIsPositive DEF Cost
<1>6. IncreasedValue(simConfig, BuyoutContext) \in BuyoutContext.currentValue .. MaxSafeInteger
  BY <1>1, <1>2, <1>3, <1>4, IncreaseRaises
<1> QED  BY <1>1, <1>2, <1>5, <1>6, SafeIntegers

LEMMA BoughtOutKeeps ==
    ASSUME SimInv, EndOfCycle, NEW m \in Sims, DrawnAndBoughtOut(m)
    PROVE  SimInv'
<1> DEFINE paid == Paid(m, -Cost)
           old == paid[m]
           r == [old EXCEPT !.randomAssignments = @ + 1, !.buyouts = @ + 1, !.buyoutsThisWeek = @ + 1,
                            !.consecutiveBuyouts = @ + 1]
           ms == [paid EXCEPT ![m].randomAssignments = @ + 1, ![m].buyouts = @ + 1,
                              ![m].buyoutsThisWeek = @ + 1, ![m].consecutiveBuyouts = @ + 1]
           raised == IncreasedValue(simConfig, BuyoutContext)
           task == [DrawnTask EXCEPT !.currentValue = raised, !.buyoutCount = @ + 1,
                                     !.maxValueReached = Larger(@, raised)]
<1>1. SimTypes /\ memberState \in [Sims -> MemberRecord] /\ OnOffer \in TaskRecord
  BY OfferNumbers DEF SimInv, SimTypes
<1>2. -Cost \in Int /\ -Cost < 0 /\ Cost \in Int /\ raised \in Counts
  BY <1>1, CostFacts, SafeIntegers
<1>3. /\ simLedger' = PostLedgerEntry(PostingInput(m, "BUYOUT", "RANDOM", -Cost))
      /\ memberState' = Ticked(ms, m)
      /\ Offered(ApplyGrowth(task))
      /\ MayBuyOut(m)
  BY DEF DrawnAndBoughtOut
<1> HIDE DEF raised
<1>4. memberState[m].balance + -Cost >= MinimumAllowedBalance(simConfig)
  <2> DEFINE b == [kind |-> "RANDOM", enabledForTask |-> SimTasks[Turn].buyoutEnabled,
                   balance |-> memberState[m].balance, cost |-> Cost,
                   currentValue |-> OnOffer.currentValue,
                   thisWeek |-> memberState[m].buyoutsThisWeek,
                   consecutive |-> memberState[m].consecutiveBuyouts]
  <2>1. BuyoutDenial(simConfig, b) = "none"
    BY <1>3 DEF MayBuyOut
  <2>2. b.balance = memberState[m].balance /\ b.cost = Cost
    OBVIOUS
  <2> HIDE DEF b
  <2>3. ~(memberState[m].balance - Cost < MinimumAllowedBalance(simConfig))
    BY <2>1, <2>2, MayBuyOutMeans
  <2>4. memberState[m].balance \in Int /\ MinimumAllowedBalance(simConfig) \in Int
    <3>1. simConfig.buyout \in BuyoutShape
      BY <1>1, RunNumbers DEF PricedBy
    <3>2. simConfig.buyout.maximumDebt \in OrUnset(Counts)
      BY <3>1 DEF BuyoutShape
    <3>3. simConfig.buyout.maximumDebt \in Int
      BY <1>1, <3>2, OfferNumbers DEF OrUnset, Unset
    <3>4. memberState[m].balance \in Int
      BY <1>1 DEF MemberRecord
    <3> QED  BY <1>1, <3>3, <3>4, RunNumbers DEF MinimumAllowedBalance, Larger
  <2> QED  BY <1>2, <2>3, <2>4
<1>5. paid \in [Sims -> MemberRecord]
  BY <1>2, PaidFacts
<1>6. ms = [paid EXCEPT ![m] = r]
  <2> HIDE DEF paid
  <2> QED  BY <1>5
<1> HIDE DEF paid, ms
<1>7. old \in MemberRecord
  BY <1>5
<1>8. r \in MemberRecord /\ r.balance = old.balance /\ r.tail = old.tail
  <2> HIDE DEF old
  <2>1. /\ old.randomAssignments + 1 \in Nat /\ old.buyouts + 1 \in Nat
        /\ old.buyoutsThisWeek + 1 \in Nat /\ old.consecutiveBuyouts + 1 \in Nat
    BY <1>7 DEF MemberRecord
  <2> DEFINE half == [old EXCEPT !.randomAssignments = @ + 1, !.buyouts = @ + 1]
  <2>2. /\ half \in MemberRecord /\ half.balance = old.balance /\ half.tail = old.tail
        /\ half.buyoutsThisWeek = old.buyoutsThisWeek
        /\ half.consecutiveBuyouts = old.consecutiveBuyouts
    BY <1>7, <2>1 DEF MemberRecord
  <2>3. r = [half EXCEPT !.buyoutsThisWeek = old.buyoutsThisWeek + 1,
                         !.consecutiveBuyouts = old.consecutiveBuyouts + 1]
    BY <1>7 DEF MemberRecord
  <2> HIDE DEF half, r
  <2>4. \A c, d \in Nat :
           LET s == [half EXCEPT !.buyoutsThisWeek = c, !.consecutiveBuyouts = d]
           IN  s \in MemberRecord /\ s.balance = half.balance /\ s.tail = half.tail
    BY <2>2 DEF MemberRecord
  <2> QED  BY <2>1, <2>2, <2>3, <2>4
<1> HIDE DEF r
<1>9. /\ ms \in [Sims -> MemberRecord]
      /\ \A k \in Sims : ms[k].balance = paid[k].balance /\ ms[k].tail = paid[k].tail
  BY <1>5, <1>6, <1>8
<1>10. task \in TaskRecord
  <2>1. DrawnTask \in TaskRecord
    BY <1>1 DEF TaskRecord, DrawnTask
  <2>2. DrawnTask.buyoutCount + 1 \in Nat /\ DrawnTask.maxValueReached \in Counts
    BY <2>1 DEF TaskRecord
  <2>3. Larger(DrawnTask.maxValueReached, raised) \in Counts
    BY <1>2, <2>2 DEF Larger
  <2>4. \A a, c \in Counts, b \in Nat :
           [DrawnTask EXCEPT !.currentValue = a, !.buyoutCount = b, !.maxValueReached = c] \in TaskRecord
    BY <2>1 DEF TaskRecord
  <2> QED  BY <1>2, <2>2, <2>3, <2>4
<1> HIDE DEF task
<1>11. taskState' \in [Tasks -> TaskRecord]
  BY <1>1, <1>3, <1>10, ApplyGrowthFacts, OfferedFacts
<1>12. memberState' \in [Sims -> MemberRecord] /\ SimBooks' /\ WithinMinimum'
  BY <1>2, <1>3, <1>4, <1>9, PayingKeeps DEF paid
<1>13. SimTypes'
  BY <1>1, <1>11, <1>12 DEF SimTypes, EndOfCycle
<1> QED  BY <1>12, <1>13 DEF SimInv

LEMMA SimStep == SimInv /\ [SimNext]_simVars => SimInv'
<1> SUFFICES ASSUME SimInv, [SimNext]_simVars PROVE SimInv'
  OBVIOUS
<1>1. CASE SimNext
  <2>1. EndOfCycle
    BY <1>1 DEF SimNext
  <2>2. CASE LeftOnMarket
    BY <2>1, <2>2, LeftKeeps
  <2>3. ASSUME NEW m \in Sims, Volunteers(m) PROVE SimInv'
    BY <2>1, <2>3, VolunteersKeep
  <2>4. ASSUME NEW m \in Sims, DrawnAndDone(m) PROVE SimInv'
    BY <2>1, <2>4, DrawnAndDoneKeeps
  <2>5. ASSUME NEW m \in Sims, DrawnAndBoughtOut(m) PROVE SimInv'
    BY <2>1, <2>5, BoughtOutKeeps
  <2> QED  BY <1>1, <2>2, <2>3, <2>4, <2>5 DEF SimNext
<1>2. CASE UNCHANGED simVars
  BY <1>2 DEF simVars, SimInv, SimTypes, SimBooks, WithinMinimum, Balances
<1> QED  BY <1>1, <1>2

(* The simulator's ledger verifies at every cycle, and without debts no        *)
(* balance falls below the minimum, whatever the seed, the household, the      *)
(* chores and the configuration (runSimulation in simulation/simulate.ts).     *)
THEOREM SimulatedLedgersAreSound == SimSpec => []SimulatedLedgerIsSound
<1>1. SimInit => SimInv
  BY SimStarts
<1>2. SimInv /\ [SimNext]_simVars => SimInv'
  BY SimStep
<1>3. SimInv => SimulatedLedgerIsSound
  <2> SUFFICES ASSUME SimInv PROVE SimulatedLedgerIsSound
    OBVIOUS
  <2>1. SoundBooks(simLedger, Balances, Sims)
    BY DEF SimInv, SimBooks
  <2>2. Violations(simLedger, Balances) = {} /\ \A m \in Sims : BalanceFromEntries(simLedger, m) = Balances[m]
    BY <2>1, SoundBooksVerify
  <2>3. {e.member : e \in simLedger} \cup DOMAIN Balances = Sims
    <3>1. \A e \in simLedger : e.member \in Sims
      BY <2>1 DEF SoundBooks, RowsOf
    <3>2. DOMAIN Balances = Sims
      BY DEF Balances
    <3> QED  BY <3>1, <3>2
  <2>4. ASSUME ~simConfig.buyout.allowNegativeBalance
        PROVE  Warnings(simLedger, Balances, simConfig.buyout.minimumBalance) = {}
    <3>1. ASSUME NEW m \in Sims
          PROVE  ~(BalanceFromEntries(simLedger, m) < simConfig.buyout.minimumBalance)
      <4>1. /\ Balances[m] = memberState[m].balance
            /\ memberState[m].balance >= simConfig.buyout.minimumBalance
            /\ memberState[m].balance \in Int /\ simConfig.buyout.minimumBalance \in Int
        BY <2>4, RunNumbers DEF Balances, SimInv, SimTypes, WithinMinimum, MemberRecord
      <4> QED  BY <2>2, <4>1
    <3> QED  BY <2>3, <3>1 DEF Warnings
  <2> QED  BY <2>2, <2>4 DEF SimulatedLedgerIsSound
<1> QED  BY <1>1, <1>2, <1>3, PTL DEF SimSpec
=============================================================================
