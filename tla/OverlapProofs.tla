---------------------------- MODULE OverlapProofs ----------------------------
(* Theorems about what overlaps: transactions that lock rows, passes of the    *)
(* reminder sweep, and a member who scrolls while rows are written.            *)
EXTENDS RowLocks, Reminders, Pages, FiniteSetTheorems, SequenceTheorems, TLAPS

-----------------------------------------------------------------------------
(* RowLocks, for any number of transactions, occurrences and members.  The     *)
(* argument is the one of app/tx.ts, restricted to what survives the key       *)
(* shares: before a transaction asks for the sweep lock, or to lock an         *)
(* occurrence, it holds only locks of lower levels.  Who waits for the sweep   *)
(* lock then holds nothing, and who waits for an occurrence holds at most the  *)
(* sweep lock; neither can be keeping a member of a knot waiting.              *)

Level(q) == q.row.level

(* A sequence of requests that may still be made.                              *)
Climbs(s) ==
    \A j, k \in 1 .. Len(s) :
        j < k /\ Early(s[k]) => Level(s[j]) < Level(s[k])

(* The whole state: what is held is below the early locks still asked for.     *)
LevelInv ==
    /\ TypeOK
    /\ \A t \in Txns :
        /\ Climbs(todo[t])
        /\ \A h \in held[t], k \in 1 .. Len(todo[t]) :
            Early(todo[t][k]) => Level(h) < Level(todo[t][k])

Late == {q \in Request : ~Early(q)}

-----------------------------------------------------------------------------
(* Helpers of the scripts.                                                     *)

LEMMA Kinds ==
    /\ Update(SweepLock) \in Request /\ Level(Update(SweepLock)) = 0
    /\ Update(DefinitionRow) \in Late
    /\ \A i \in Instances :
        /\ Update(InstanceRow(i)) \in Request /\ Level(Update(InstanceRow(i))) = 1
        /\ Share(InstanceRow(i)) \in Late
        /\ \A m \in Members : Update(AssignmentRow(i, m)) \in Late
    /\ \A m \in Members : Update(MemberRow(m)) \in Late /\ Share(MemberRow(m)) \in Late
    /\ \A q \in Request : Level(q) \in Nat
<1>1. /\ SweepLock \in Rows /\ DefinitionRow \in Rows
      /\ \A i \in Instances : InstanceRow(i) \in Rows
      /\ \A i \in Instances, m \in Members : AssignmentRow(i, m) \in Rows
      /\ \A m \in Members : MemberRow(m) \in Rows
  BY DEF Rows
<1>2. /\ SweepLock.level = 0 /\ DefinitionRow.level = 4
      /\ \A i \in Instances : InstanceRow(i).level = 1
      /\ \A i \in Instances, m \in Members : AssignmentRow(i, m).level = 2
      /\ \A m \in Members : MemberRow(m).level = 3
  BY DEF SweepLock, DefinitionRow, InstanceRow, AssignmentRow, MemberRow
<1>3. \A r \in Rows :
        /\ Update(r) \in Request
        /\ Level(Update(r)) = r.level
        /\ Early(Update(r)) => r.level < 2
  BY DEF Update, Request, Level, Early
<1>4. \A r \in Rows : r.level \in Nat
  BY <1>2 DEF Rows
<1>5. \A q \in Request : Level(q) \in Nat
  BY <1>4 DEF Request, Level
<1>6. \A r \in Rows :
        /\ r.level > 0 => Share(r) \in Late
        /\ r.level >= 2 => Update(r) \in Late
  <2>1. \A r \in Rows : r.level > 0 => Share(r) \in Request /\ ~Early(Share(r))
    BY <1>2 DEF Share, Request, Early
  <2> QED
    BY <1>3, <1>4, <2>1 DEF Late
<1>7. /\ Update(SweepLock) \in Request /\ Level(Update(SweepLock)) = 0
      /\ Update(DefinitionRow) \in Late
  BY <1>1, <1>2, <1>3, <1>6
<1>8. \A i \in Instances :
        /\ Update(InstanceRow(i)) \in Request /\ Level(Update(InstanceRow(i))) = 1
        /\ Share(InstanceRow(i)) \in Late
        /\ \A m \in Members : Update(AssignmentRow(i, m)) \in Late
  BY <1>1, <1>2, <1>3, <1>6
<1>9. \A m \in Members : Update(MemberRow(m)) \in Late /\ Share(MemberRow(m)) \in Late
  BY <1>1, <1>2, <1>6
<1> QED
  BY <1>5, <1>7, <1>8, <1>9

LEMMA Orders ==
    ASSUME NEW S \in SUBSET Members, NEW f \in SetToSeqs(S)
    PROVE  f \in Seq(Members) /\ f \in Seq(S)
<1>1. Cardinality(S) \in Nat
  BY LocksAssumption, FS_Subset, FS_CardinalityType
<1> QED
  BY <1>1 DEF SetToSeqs

LEMMA CrewsAreSeqs == Crews \subseteq Seq(Members)
  BY Orders DEF Crews, AnyOrder

LEMMA ExceptAreSeqs == \A m \in Members : Except(m) \subseteq Seq(Members)
  BY Orders DEF Except, AnyOrder

LEMMA EveryoneAreSeqs ==
    \A S \in SUBSET Members : AnyOrder(S) \subseteq Seq(Members)
  BY Orders DEF AnyOrder

LEMMA AscendingAreSeqs ==
    \A S \in SUBSET Members : Ascending(S) \subseteq Seq(Members)
  BY Orders DEF Ascending

LEMMA LateRows ==
    ASSUME NEW i \in Instances, NEW ms \in Seq(Members)
    PROVE  /\ UpdateRows(i, ms) \in Seq(Late)
           /\ UpdateMembers(ms) \in Seq(Late)
           /\ ShareMembers(ms) \in Seq(Late)
  BY Kinds DEF UpdateRows, UpdateMembers, ShareMembers

LEMMA LateShares ==
    ASSUME NEW ms \in Seq(Members)
    PROVE  ShareMembers(ms) \in Seq(Late)
  BY Kinds DEF ShareMembers

(* A handler's sequence: early locks in their order, then late ones only.      *)
GoodScript(s) == s \in Seq(Request) /\ Climbs(s)

LEMMA Longer ==
    ASSUME NEW p, GoodScript(p), NEW s \in Seq(Late)
    PROVE  GoodScript(p \o s)
<1> DEFINE all == p \o s
<1>1. p \in Seq(Request) /\ s \in Seq(Request)
  BY DEF GoodScript, Late
<1>2. all \in Seq(Request) /\ Len(all) = Len(p) + Len(s)
  BY <1>1
<1>3. \A k \in 1 .. Len(p) : all[k] = p[k]
  BY <1>1
<1>4. \A k \in 1 .. Len(all) : k > Len(p) => all[k] = s[k - Len(p)] /\ k - Len(p) \in 1 .. Len(s)
  BY <1>1, <1>2
<1>5. \A k \in 1 .. Len(all) : k > Len(p) => ~Early(all[k])
  BY <1>4 DEF Late
<1>6. ASSUME NEW j \in 1 .. Len(all), NEW k \in 1 .. Len(all), j < k, Early(all[k])
      PROVE  Level(all[j]) < Level(all[k])
  <2>1. k \in 1 .. Len(p) /\ j \in 1 .. Len(p)
    BY <1>1, <1>2, <1>5, <1>6
  <2> QED
    BY <1>3, <1>6, <2>1 DEF GoodScript, Climbs
<1> QED
  BY <1>2, <1>6 DEF GoodScript, Climbs

LEMMA LateScript ==
    /\ GoodScript(<<>>) /\ <<>> \in Seq(Late)
    /\ \A b \in Late :
        /\ GoodScript(<<b>>) /\ <<b>> \in Seq(Late)
        /\ \A c \in Late : GoodScript(<<b, c>>) /\ <<b, c>> \in Seq(Late)
        /\ \A c, d \in Late : GoodScript(<<b, c, d>>)
<1>1. \A b, c, d \in Late :
        /\ <<b>> \in Seq(Request) /\ <<b, c>> \in Seq(Request) /\ <<b, c, d>> \in Seq(Request)
        /\ ~Early(b) /\ ~Early(c) /\ ~Early(d)
  BY DEF Late
<1> QED
  BY <1>1 DEF GoodScript, Climbs

LEMMA InstanceScript ==
    ASSUME NEW i \in Instances
    PROVE  /\ GoodScript(<<Update(InstanceRow(i))>>)
           /\ \A b \in Late : GoodScript(<<Update(InstanceRow(i)), b>>)
           /\ \A b, c, d \in Late : GoodScript(<<Update(InstanceRow(i)), b, c, d>>)
<1>1. Update(InstanceRow(i)) \in Request
  BY Kinds
<1>2. \A b \in Late : b \in Request /\ ~Early(b)
  BY DEF Late
<1> QED
  BY <1>1, <1>2 DEF GoodScript, Climbs

LEMMA SweepScript ==
    /\ \A b \in Late : GoodScript(<<Update(SweepLock), b>>)
    /\ \A i \in Instances : GoodScript(<<Update(SweepLock), Update(InstanceRow(i))>>)
<1>1. Update(SweepLock) \in Request /\ Level(Update(SweepLock)) = 0
  BY Kinds
<1>2. \A b \in Late : b \in Request /\ ~Early(b)
  BY DEF Late
<1>3. \A i \in Instances :
        Update(InstanceRow(i)) \in Request /\ Level(Update(InstanceRow(i))) = 1
  BY Kinds
<1> QED
  BY <1>1, <1>2, <1>3 DEF GoodScript, Climbs

-----------------------------------------------------------------------------
(* Each handler starts a sequence of that shape.                               *)

GoodStart(t) ==
    \E name \in UseCases : \E s \in Seq(Request) : GoodScript(s) /\ Start(t, name, s)

LEMMA StartsGood ==
    ASSUME NEW t, NEW name, NEW s, GoodScript(s), Start(t, name, s)
    PROVE  GoodStart(t)
  BY DEF GoodScript, GoodStart, Start

LEMMA VolunteerStarts ==
    ASSUME NEW t \in Txns, Volunteer(t)
    PROVE  GoodStart(t)
<1>1. PICK i \in Instances, m \in Members :
            \E others \in Except(m), paid \in {<<>>, <<Update(MemberRow(m))>>} :
            Start(t, "volunteer",
                  <<Update(InstanceRow(i))>>
                  \o UpdateRows(i, others)
                  \o <<Share(MemberRow(m))>>
                  \o paid)
  BY DEF Volunteer
<1>2. PICK others \in Except(m), paid \in {<<>>, <<Update(MemberRow(m))>>} :
            Start(t, "volunteer",
                  <<Update(InstanceRow(i))>>
                  \o UpdateRows(i, others)
                  \o <<Share(MemberRow(m))>>
                  \o paid)
  BY <1>1
<1>3. UpdateRows(i, others) \in Seq(Late)
  BY ExceptAreSeqs, LateRows
<1>4. <<Share(MemberRow(m))>> \in Seq(Late) /\ <<Update(MemberRow(m))>> \in Seq(Late)
  BY Kinds, LateScript
<1>5. paid \in Seq(Late)
  BY <1>4, LateScript
<1>6. GoodScript(<<Update(InstanceRow(i))>>)
  BY Kinds, LateScript, InstanceScript, SweepScript, <1>3, <1>4, <1>5
<1>7. GoodScript(<<Update(InstanceRow(i))>> \o UpdateRows(i, others))
  BY Longer, <1>6, <1>3, <1>4, <1>5
<1>8. GoodScript(<<Update(InstanceRow(i))>> \o UpdateRows(i, others) \o <<Share(MemberRow(m))>>)
  BY Longer, <1>7, <1>3, <1>4, <1>5
<1>9. GoodScript(<<Update(InstanceRow(i))>> \o UpdateRows(i, others) \o <<Share(MemberRow(m))>> \o paid)
  BY Longer, <1>8, <1>3, <1>4, <1>5
<1> QED
  BY <1>2, <1>9, StartsGood

LEMMA AcceptStarts ==
    ASSUME NEW t \in Txns, Accept(t)
    PROVE  GoodStart(t)
<1>1. PICK i \in Instances, m \in Members :
            Start(t, "accept",
                  <<Update(AssignmentRow(i, m)), Share(InstanceRow(i)), Share(MemberRow(m))>>)
  BY DEF Accept
<1>2. GoodScript(<<Update(AssignmentRow(i, m)), Share(InstanceRow(i)), Share(MemberRow(m))>>)
  BY Kinds, LateScript, InstanceScript, SweepScript
<1> QED
  BY <1>1, <1>2, StartsGood

LEMMA CompleteStarts ==
    ASSUME NEW t \in Txns, Complete(t)
    PROVE  GoodStart(t)
<1>1. PICK i \in Instances, m \in Members :
            \E others \in Except(m), rest \in AnyOrder(Members \ {m}),
           audit \in {<<>>} \cup {<<Share(MemberRow(a))>> : a \in Admins} :
            Start(t, "complete",
                  <<Update(InstanceRow(i)), Update(AssignmentRow(i, m))>>
                  \o UpdateRows(i, others)
                  \o <<Update(MemberRow(m))>>
                  \o (IF others = <<>> THEN <<Update(DefinitionRow)>> ELSE <<>>)
                  \o audit
                  \o (IF others = <<>> THEN ShareMembers(rest) ELSE <<>>))
  BY DEF Complete
<1>2. PICK others \in Except(m), rest \in AnyOrder(Members \ {m}),
           audit \in {<<>>} \cup {<<Share(MemberRow(a))>> : a \in Admins} :
            Start(t, "complete",
                  <<Update(InstanceRow(i)), Update(AssignmentRow(i, m))>>
                  \o UpdateRows(i, others)
                  \o <<Update(MemberRow(m))>>
                  \o (IF others = <<>> THEN <<Update(DefinitionRow)>> ELSE <<>>)
                  \o audit
                  \o (IF others = <<>> THEN ShareMembers(rest) ELSE <<>>))
  BY <1>1
<1>3. UpdateRows(i, others) \in Seq(Late)
  BY ExceptAreSeqs, LateRows
<1>4. <<Update(MemberRow(m))>> \in Seq(Late)
  BY Kinds, LateScript
<1>5. (IF others = <<>> THEN <<Update(DefinitionRow)>> ELSE <<>>) \in Seq(Late)
  BY Kinds, LateScript
<1>6. audit \in Seq(Late)
  BY Kinds, LateScript, LocksAssumption
<1>7. ShareMembers(rest) \in Seq(Late)
  BY EveryoneAreSeqs, LateShares
<1>8. (IF others = <<>> THEN ShareMembers(rest) ELSE <<>>) \in Seq(Late)
  BY LateScript, <1>7
<1>9. GoodScript(<<Update(InstanceRow(i)), Update(AssignmentRow(i, m))>>)
  BY Kinds, LateScript, InstanceScript, SweepScript, <1>3, <1>4, <1>5, <1>6, <1>7, <1>8
<1>10. GoodScript(<<Update(InstanceRow(i)), Update(AssignmentRow(i, m))>> \o UpdateRows(i, others))
  BY Longer, <1>9, <1>3, <1>4, <1>5, <1>6, <1>7, <1>8
<1>11. GoodScript(<<Update(InstanceRow(i)), Update(AssignmentRow(i, m))>> \o UpdateRows(i, others) \o <<Update(MemberRow(m))>>)
  BY Longer, <1>10, <1>3, <1>4, <1>5, <1>6, <1>7, <1>8
<1>12. GoodScript(<<Update(InstanceRow(i)), Update(AssignmentRow(i, m))>> \o UpdateRows(i, others) \o <<Update(MemberRow(m))>> \o (IF others = <<>> THEN <<Update(DefinitionRow)>> ELSE <<>>))
  BY Longer, <1>11, <1>3, <1>4, <1>5, <1>6, <1>7, <1>8
<1>13. GoodScript(<<Update(InstanceRow(i)), Update(AssignmentRow(i, m))>> \o UpdateRows(i, others) \o <<Update(MemberRow(m))>> \o (IF others = <<>> THEN <<Update(DefinitionRow)>> ELSE <<>>) \o audit)
  BY Longer, <1>12, <1>3, <1>4, <1>5, <1>6, <1>7, <1>8
<1>14. GoodScript(<<Update(InstanceRow(i)), Update(AssignmentRow(i, m))>> \o UpdateRows(i, others) \o <<Update(MemberRow(m))>> \o (IF others = <<>> THEN <<Update(DefinitionRow)>> ELSE <<>>) \o audit \o (IF others = <<>> THEN ShareMembers(rest) ELSE <<>>))
  BY Longer, <1>13, <1>3, <1>4, <1>5, <1>6, <1>7, <1>8
<1> QED
  BY <1>2, <1>14, StartsGood

LEMMA BuyoutStarts ==
    ASSUME NEW t \in Txns, Buyout(t)
    PROVE  GoodStart(t)
<1>1. PICK i \in Instances, m \in Members :
            \E others \in Except(m), rest \in AnyOrder(Members \ {m}) :
            Start(t, "buyout",
                  <<Update(InstanceRow(i)), Update(AssignmentRow(i, m))>>
                  \o UpdateRows(i, others)
                  \o <<Update(MemberRow(m))>>
                  \o ShareMembers(rest))
  BY DEF Buyout
<1>2. PICK others \in Except(m), rest \in AnyOrder(Members \ {m}) :
            Start(t, "buyout",
                  <<Update(InstanceRow(i)), Update(AssignmentRow(i, m))>>
                  \o UpdateRows(i, others)
                  \o <<Update(MemberRow(m))>>
                  \o ShareMembers(rest))
  BY <1>1
<1>3. UpdateRows(i, others) \in Seq(Late)
  BY ExceptAreSeqs, LateRows
<1>4. <<Update(MemberRow(m))>> \in Seq(Late)
  BY Kinds, LateScript
<1>5. ShareMembers(rest) \in Seq(Late)
  BY EveryoneAreSeqs, LateShares
<1>6. GoodScript(<<Update(InstanceRow(i)), Update(AssignmentRow(i, m))>>)
  BY Kinds, LateScript, InstanceScript, SweepScript, <1>3, <1>4, <1>5
<1>7. GoodScript(<<Update(InstanceRow(i)), Update(AssignmentRow(i, m))>> \o UpdateRows(i, others))
  BY Longer, <1>6, <1>3, <1>4, <1>5
<1>8. GoodScript(<<Update(InstanceRow(i)), Update(AssignmentRow(i, m))>> \o UpdateRows(i, others) \o <<Update(MemberRow(m))>>)
  BY Longer, <1>7, <1>3, <1>4, <1>5
<1>9. GoodScript(<<Update(InstanceRow(i)), Update(AssignmentRow(i, m))>> \o UpdateRows(i, others) \o <<Update(MemberRow(m))>> \o ShareMembers(rest))
  BY Longer, <1>8, <1>3, <1>4, <1>5
<1> QED
  BY <1>2, <1>9, StartsGood

LEMMA GiveBackStarts ==
    ASSUME NEW t \in Txns, GiveBack(t)
    PROVE  GoodStart(t)
<1>1. PICK i \in Instances, m \in Members :
            \E others \in Except(m), a \in {m} \cup Admins,
           own \in {<<Share(MemberRow(m))>>, <<Update(MemberRow(m))>>} :
            Start(t, "give back",
                  <<Update(InstanceRow(i)), Update(AssignmentRow(i, m))>>
                  \o UpdateRows(i, others)
                  \o own
                  \o <<Share(MemberRow(a))>>)
  BY DEF GiveBack
<1>2. PICK others \in Except(m), a \in {m} \cup Admins,
           own \in {<<Share(MemberRow(m))>>, <<Update(MemberRow(m))>>} :
            Start(t, "give back",
                  <<Update(InstanceRow(i)), Update(AssignmentRow(i, m))>>
                  \o UpdateRows(i, others)
                  \o own
                  \o <<Share(MemberRow(a))>>)
  BY <1>1
<1>3. UpdateRows(i, others) \in Seq(Late)
  BY ExceptAreSeqs, LateRows
<1>4. <<Share(MemberRow(m))>> \in Seq(Late) /\ <<Update(MemberRow(m))>> \in Seq(Late)
  BY Kinds, LateScript
<1>5. own \in Seq(Late)
  BY <1>4
<1>6. a \in Members
  BY LocksAssumption
<1>7. <<Share(MemberRow(a))>> \in Seq(Late)
  BY Kinds, LateScript, <1>6
<1>8. GoodScript(<<Update(InstanceRow(i)), Update(AssignmentRow(i, m))>>)
  BY Kinds, LateScript, InstanceScript, SweepScript, <1>3, <1>4, <1>5, <1>6, <1>7
<1>9. GoodScript(<<Update(InstanceRow(i)), Update(AssignmentRow(i, m))>> \o UpdateRows(i, others))
  BY Longer, <1>8, <1>3, <1>4, <1>5, <1>6, <1>7
<1>10. GoodScript(<<Update(InstanceRow(i)), Update(AssignmentRow(i, m))>> \o UpdateRows(i, others) \o own)
  BY Longer, <1>9, <1>3, <1>4, <1>5, <1>6, <1>7
<1>11. GoodScript(<<Update(InstanceRow(i)), Update(AssignmentRow(i, m))>> \o UpdateRows(i, others) \o own \o <<Share(MemberRow(a))>>)
  BY Longer, <1>10, <1>3, <1>4, <1>5, <1>6, <1>7
<1> QED
  BY <1>2, <1>11, StartsGood

LEMMA RejectStarts ==
    ASSUME NEW t \in Txns, Reject(t)
    PROVE  GoodStart(t)
<1>1. PICK i \in Instances, m \in Members, a \in Admins :
            Start(t, "reject",
                  <<Update(InstanceRow(i)), Update(AssignmentRow(i, m)),
                    Update(MemberRow(m)), Share(MemberRow(a))>>)
  BY DEF Reject
<1>2. a \in Members
  BY LocksAssumption
<1>3. GoodScript(<<Update(InstanceRow(i)), Update(AssignmentRow(i, m)),
                    Update(MemberRow(m)), Share(MemberRow(a))>>)
  BY Kinds, LateScript, InstanceScript, SweepScript, <1>2
<1> QED
  BY <1>1, <1>3, StartsGood

LEMMA CancelStarts ==
    ASSUME NEW t \in Txns, Cancel(t)
    PROVE  GoodStart(t)
<1>1. PICK i \in Instances, crew \in Crews, a \in Admins :
            \E members \in {UpdateMembers(crew), ShareMembers(crew)} :
            Start(t, "cancel",
                  <<Update(InstanceRow(i))>>
                  \o UpdateRows(i, crew)
                  \o members
                  \o <<Update(DefinitionRow), Share(MemberRow(a))>>)
  BY DEF Cancel
<1>2. PICK members \in {UpdateMembers(crew), ShareMembers(crew)} :
            Start(t, "cancel",
                  <<Update(InstanceRow(i))>>
                  \o UpdateRows(i, crew)
                  \o members
                  \o <<Update(DefinitionRow), Share(MemberRow(a))>>)
  BY <1>1
<1>3. /\ UpdateRows(i, crew) \in Seq(Late)
      /\ UpdateMembers(crew) \in Seq(Late) /\ ShareMembers(crew) \in Seq(Late)
  BY CrewsAreSeqs, LateRows
<1>4. members \in Seq(Late)
  BY <1>3
<1>5. a \in Members
  BY LocksAssumption
<1>6. <<Update(DefinitionRow), Share(MemberRow(a))>> \in Seq(Late)
  BY Kinds, LateScript, <1>5
<1>7. GoodScript(<<Update(InstanceRow(i))>>)
  BY Kinds, LateScript, InstanceScript, SweepScript, <1>3, <1>4, <1>5, <1>6
<1>8. GoodScript(<<Update(InstanceRow(i))>> \o UpdateRows(i, crew))
  BY Longer, <1>7, <1>3, <1>4, <1>5, <1>6
<1>9. GoodScript(<<Update(InstanceRow(i))>> \o UpdateRows(i, crew) \o members)
  BY Longer, <1>8, <1>3, <1>4, <1>5, <1>6
<1>10. GoodScript(<<Update(InstanceRow(i))>> \o UpdateRows(i, crew) \o members \o <<Update(DefinitionRow), Share(MemberRow(a))>>)
  BY Longer, <1>9, <1>3, <1>4, <1>5, <1>6
<1> QED
  BY <1>2, <1>10, StartsGood

LEMMA AdjustStarts ==
    ASSUME NEW t \in Txns, Adjust(t)
    PROVE  GoodStart(t)
<1>1. PICK m \in Members, a \in Admins :
            Start(t, "adjust",
                  <<Update(MemberRow(m)), Share(MemberRow(a))>>)
  BY DEF Adjust
<1>2. a \in Members
  BY LocksAssumption
<1>3. GoodScript(<<Update(MemberRow(m)), Share(MemberRow(a))>>)
  BY Kinds, LateScript, InstanceScript, SweepScript, <1>2
<1> QED
  BY <1>1, <1>3, StartsGood

LEMMA PurchaseStarts ==
    ASSUME NEW t \in Txns, Purchase(t)
    PROVE  GoodStart(t)
<1>1. PICK m \in Members :
            Start(t, "purchase",
                  <<Update(MemberRow(m))>>)
  BY DEF Purchase
<1>2. GoodScript(<<Update(MemberRow(m))>>)
  BY Kinds, LateScript, InstanceScript, SweepScript
<1> QED
  BY <1>1, <1>2, StartsGood

LEMMA MaterializeStarts ==
    ASSUME NEW t \in Txns, Materialize(t)
    PROVE  GoodStart(t)
<1>1. PICK told \in Crews :
            Start(t, "sweep",
                  <<Update(SweepLock), Update(DefinitionRow)>>
                  \o ShareMembers(told))
  BY DEF Materialize
<1>2. ShareMembers(told) \in Seq(Late)
  BY CrewsAreSeqs, LateShares
<1>3. GoodScript(<<Update(SweepLock), Update(DefinitionRow)>>)
  BY Kinds, LateScript, InstanceScript, SweepScript, <1>2
<1>4. GoodScript(<<Update(SweepLock), Update(DefinitionRow)>> \o ShareMembers(told))
  BY Longer, <1>3, <1>2
<1> QED
  BY <1>1, <1>4, StartsGood

LEMMA TellStarts ==
    ASSUME NEW t \in Txns, Tell(t)
    PROVE  GoodStart(t)
<1>1. PICK i \in Instances, told \in Crews :
            Start(t, "sweep",
                  <<Update(SweepLock), Update(InstanceRow(i))>>
                  \o ShareMembers(told))
  BY DEF Tell
<1>2. ShareMembers(told) \in Seq(Late)
  BY CrewsAreSeqs, LateShares
<1>3. GoodScript(<<Update(SweepLock), Update(InstanceRow(i))>>)
  BY Kinds, LateScript, InstanceScript, SweepScript, <1>2
<1>4. GoodScript(<<Update(SweepLock), Update(InstanceRow(i))>> \o ShareMembers(told))
  BY Longer, <1>3, <1>2
<1> QED
  BY <1>1, <1>4, StartsGood

LEMMA FineStarts ==
    ASSUME NEW t \in Txns, Fine(t)
    PROVE  GoodStart(t)
<1>1. PICK i \in Instances, crew \in Crews \ {<<>>} :
            \E sorted \in Ascending(ToSet(crew)), rest \in AnyOrder(Members \ ToSet(crew)) :
            Start(t, "sweep",
                  <<Update(SweepLock), Update(InstanceRow(i))>>
                  \o UpdateRows(i, crew)
                  \o UpdateMembers(sorted)
                  \o ShareMembers(rest))
  BY DEF Fine
<1>2. PICK sorted \in Ascending(ToSet(crew)), rest \in AnyOrder(Members \ ToSet(crew)) :
            Start(t, "sweep",
                  <<Update(SweepLock), Update(InstanceRow(i))>>
                  \o UpdateRows(i, crew)
                  \o UpdateMembers(sorted)
                  \o ShareMembers(rest))
  BY <1>1
<1>3. UpdateRows(i, crew) \in Seq(Late)
  BY CrewsAreSeqs, LateRows
<1>4. sorted \in Seq(Members)
  BY AscendingAreSeqs, CrewsAreSeqs DEF ToSet
<1>5. UpdateMembers(sorted) \in Seq(Late)
  BY LateRows, <1>4
<1>6. ShareMembers(rest) \in Seq(Late)
  BY EveryoneAreSeqs, LateShares
<1>7. GoodScript(<<Update(SweepLock), Update(InstanceRow(i))>>)
  BY Kinds, LateScript, InstanceScript, SweepScript, <1>3, <1>4, <1>5, <1>6
<1>8. GoodScript(<<Update(SweepLock), Update(InstanceRow(i))>> \o UpdateRows(i, crew))
  BY Longer, <1>7, <1>3, <1>4, <1>5, <1>6
<1>9. GoodScript(<<Update(SweepLock), Update(InstanceRow(i))>> \o UpdateRows(i, crew) \o UpdateMembers(sorted))
  BY Longer, <1>8, <1>3, <1>4, <1>5, <1>6
<1>10. GoodScript(<<Update(SweepLock), Update(InstanceRow(i))>> \o UpdateRows(i, crew) \o UpdateMembers(sorted) \o ShareMembers(rest))
  BY Longer, <1>9, <1>3, <1>4, <1>5, <1>6
<1> QED
  BY <1>2, <1>10, StartsGood

LEMMA ExpireStarts ==
    ASSUME NEW t \in Txns, Expire(t)
    PROVE  GoodStart(t)
<1>1. PICK i \in Instances, crew \in Crews :
            Start(t, "sweep",
                  <<Update(SweepLock), Update(InstanceRow(i))>>
                  \o UpdateRows(i, crew)
                  \o <<Update(DefinitionRow)>>)
  BY DEF Expire
<1>2. UpdateRows(i, crew) \in Seq(Late)
  BY CrewsAreSeqs, LateRows
<1>3. <<Update(DefinitionRow)>> \in Seq(Late)
  BY Kinds, LateScript
<1>4. GoodScript(<<Update(SweepLock), Update(InstanceRow(i))>>)
  BY Kinds, LateScript, InstanceScript, SweepScript, <1>2, <1>3
<1>5. GoodScript(<<Update(SweepLock), Update(InstanceRow(i))>> \o UpdateRows(i, crew))
  BY Longer, <1>4, <1>2, <1>3
<1>6. GoodScript(<<Update(SweepLock), Update(InstanceRow(i))>> \o UpdateRows(i, crew) \o <<Update(DefinitionRow)>>)
  BY Longer, <1>5, <1>2, <1>3
<1> QED
  BY <1>1, <1>6, StartsGood

LEMMA DrawStarts ==
    ASSUME NEW t \in Txns, Draw(t)
    PROVE  GoodStart(t)
<1>1. PICK i \in Instances, atHand \in Crews, told \in Crews :
            Start(t, "sweep",
                  <<Update(SweepLock), Update(InstanceRow(i))>>
                  \o UpdateRows(i, atHand)
                  \o ShareMembers(told))
  BY DEF Draw
<1>2. UpdateRows(i, atHand) \in Seq(Late)
  BY CrewsAreSeqs, LateRows
<1>3. ShareMembers(told) \in Seq(Late)
  BY CrewsAreSeqs, LateShares
<1>4. GoodScript(<<Update(SweepLock), Update(InstanceRow(i))>>)
  BY Kinds, LateScript, InstanceScript, SweepScript, <1>2, <1>3
<1>5. GoodScript(<<Update(SweepLock), Update(InstanceRow(i))>> \o UpdateRows(i, atHand))
  BY Longer, <1>4, <1>2, <1>3
<1>6. GoodScript(<<Update(SweepLock), Update(InstanceRow(i))>> \o UpdateRows(i, atHand) \o ShareMembers(told))
  BY Longer, <1>5, <1>2, <1>3
<1> QED
  BY <1>1, <1>6, StartsGood

LEMMA HandlersStart ==
    ASSUME NEW t \in Txns, Begin(t)
    PROVE  GoodStart(t)
  BY VolunteerStarts, AcceptStarts, CompleteStarts, BuyoutStarts, GiveBackStarts,
     RejectStarts, CancelStarts, AdjustStarts, PurchaseStarts, MaterializeStarts,
     TellStarts, FineStarts, ExpireStarts, DrawStarts DEF Begin

-----------------------------------------------------------------------------
(* The inductive invariant.                                                    *)

LEMMA TailClimbs ==
    ASSUME NEW s \in Seq(Request), s # <<>>, Climbs(s)
    PROVE  /\ Tail(s) \in Seq(Request) /\ Head(s) \in Request
           /\ Climbs(Tail(s))
           /\ \A k \in 1 .. Len(Tail(s)) :
                Early(Tail(s)[k]) => Level(Head(s)) < Level(Tail(s)[k])
<1>1. /\ Tail(s) \in Seq(Request) /\ Len(Tail(s)) = Len(s) - 1
      /\ \A k \in 1 .. Len(Tail(s)) : Tail(s)[k] = s[k + 1] /\ k + 1 \in 1 .. Len(s)
      /\ Head(s) = s[1] /\ 1 \in 1 .. Len(s)
  OBVIOUS
<1> QED
  BY <1>1 DEF Climbs

LEMMA InitLevels == Init => LevelInv
<1>1. \A t \in Txns : Climbs(<<>>)
  BY DEF Climbs
<1> QED
  BY <1>1 DEF Init, LevelInv, TypeOK

LEMMA StartLevels ==
    ASSUME LevelInv, NEW t \in Txns, GoodStart(t)
    PROVE  LevelInv'
<1>1. PICK name \in UseCases : \E s \in Seq(Request) : GoodScript(s) /\ Start(t, name, s)
  BY DEF GoodStart
<1>2. PICK s \in Seq(Request) : GoodScript(s) /\ Start(t, name, s)
  BY <1>1
<1>3. /\ job' = [job EXCEPT ![t] = name] /\ todo' = [todo EXCEPT ![t] = s]
      /\ held' = held /\ held[t] = {}
  BY <1>2 DEF Start
<1>4. TypeOK'
  BY <1>3 DEF LevelInv, TypeOK
<1>5. todo'[t] = s /\ \A u \in Txns : u # t => todo'[u] = todo[u]
  BY <1>3 DEF LevelInv, TypeOK
<1>6. Climbs(s)
  BY <1>2 DEF GoodScript
<1>7. ASSUME NEW u \in Txns
      PROVE  /\ Climbs(todo'[u])
             /\ \A h \in held'[u], k \in 1 .. Len(todo'[u]) :
                    Early(todo'[u][k]) => Level(h) < Level(todo'[u][k])
  BY <1>3, <1>5, <1>6 DEF LevelInv
<1> QED
  BY <1>4, <1>7 DEF LevelInv, Climbs, Early, Level

LEMMA AcquireLevels ==
    ASSUME LevelInv, NEW t \in Txns, Acquire(t)
    PROVE  LevelInv'
<1>1. /\ todo[t] # <<>> /\ todo[t] \in Seq(Request) /\ Climbs(todo[t])
      /\ held' = [held EXCEPT ![t] = @ \cup {Head(todo[t])}]
      /\ todo' = [todo EXCEPT ![t] = Tail(todo[t])]
      /\ job' = job
  BY DEF Acquire, Wants, Want, LevelInv, TypeOK
<1>2. /\ Tail(todo[t]) \in Seq(Request) /\ Head(todo[t]) \in Request
      /\ Climbs(Tail(todo[t]))
      /\ \A k \in 1 .. Len(Tail(todo[t])) :
            Early(Tail(todo[t])[k]) => Level(Head(todo[t])) < Level(Tail(todo[t])[k])
  BY <1>1, TailClimbs
<1>3. TypeOK'
  BY <1>1, <1>2 DEF LevelInv, TypeOK
<1>4. /\ todo'[t] = Tail(todo[t]) /\ held'[t] = held[t] \cup {Head(todo[t])}
      /\ \A u \in Txns : u # t => todo'[u] = todo[u] /\ held'[u] = held[u]
  BY <1>1 DEF LevelInv, TypeOK
<1>5. \A k \in 1 .. Len(Tail(todo[t])) :
        Tail(todo[t])[k] = todo[t][k + 1] /\ k + 1 \in 1 .. Len(todo[t])
  BY <1>1
<1>6. \A h \in held[t], k \in 1 .. Len(Tail(todo[t])) :
        Early(Tail(todo[t])[k]) => Level(h) < Level(Tail(todo[t])[k])
  BY <1>5 DEF LevelInv
<1>7. ASSUME NEW u \in Txns
      PROVE  /\ Climbs(todo'[u])
             /\ \A h \in held'[u], k \in 1 .. Len(todo'[u]) :
                    Early(todo'[u][k]) => Level(h) < Level(todo'[u][k])
  <2>1. CASE u = t
    BY <1>2, <1>4, <1>6, <2>1
  <2>2. CASE u # t
    BY <1>4, <2>2 DEF LevelInv
  <2> QED
    BY <2>1, <2>2
<1> QED
  BY <1>3, <1>7 DEF LevelInv, Climbs, Early, Level

LEMMA EndLevels ==
    ASSUME LevelInv, NEW t \in Txns, End(t)
    PROVE  LevelInv'
<1>1. TypeOK'
  BY DEF LevelInv, TypeOK, End
<1>2. /\ todo'[t] = <<>> /\ held'[t] = {}
      /\ \A u \in Txns : u # t => todo'[u] = todo[u] /\ held'[u] = held[u]
  BY DEF LevelInv, TypeOK, End
<1>3. Climbs(<<>>)
  BY DEF Climbs
<1>4. ASSUME NEW u \in Txns
      PROVE  /\ Climbs(todo'[u])
             /\ \A h \in held'[u], k \in 1 .. Len(todo'[u]) :
                    Early(todo'[u][k]) => Level(h) < Level(todo'[u][k])
  BY <1>2, <1>3 DEF LevelInv
<1> QED
  BY <1>1, <1>4 DEF LevelInv, Climbs, Early, Level

LEMMA NextLevels == LevelInv /\ [Next]_vars => LevelInv'
<1> SUFFICES ASSUME LevelInv, [Next]_vars PROVE LevelInv'
  OBVIOUS
<1>1. ASSUME NEW t \in Txns, Begin(t) PROVE LevelInv'
  BY <1>1, HandlersStart, StartLevels
<1>2. ASSUME NEW t \in Txns, Acquire(t) PROVE LevelInv'
  BY <1>2, AcquireLevels
<1>3. ASSUME NEW t \in Txns, Commit(t) \/ DeadlockVictim(t) PROVE LevelInv'
  BY <1>3, EndLevels DEF Commit, DeadlockVictim
<1>4. CASE UNCHANGED vars
  BY <1>4 DEF LevelInv, TypeOK, vars, Climbs, Early, Level
<1> QED
  BY <1>1, <1>2, <1>3, <1>4 DEF Next

(* Only rows of the household are ever locked or waited for.                   *)
THEOREM LocksTypeSafety == Spec => []TypeOK
<1>1. LevelInv => TypeOK
  BY DEF LevelInv
<1> QED
  BY <1>1, InitLevels, NextLevels, PTL DEF Spec

(* Who waits for a lock keeps another waiting only for a lock above it.        *)
LEMMA WaitersBlockAbove ==
    ASSUME LevelInv, NEW t \in Txns, NEW u \in Txns,
           Wants(t), Early(Want(t)), Blocks(t, u)
    PROVE  Early(Want(u)) /\ Level(Want(u)) < Level(Want(t))
<1>1. PICK h \in held[t] : Conflict(h, Want(u))
  BY DEF Blocks
<1>2. /\ todo[t] \in Seq(Request) /\ todo[u] \in Seq(Request)
      /\ todo[t] # <<>> /\ todo[u] # <<>>
  BY DEF LevelInv, TypeOK, Wants, Blocks
<1>3. Want(t) = todo[t][1] /\ 1 \in 1 .. Len(todo[t]) /\ Want(u) \in Request /\ Want(t) \in Request
  BY <1>2 DEF Want
<1>4. Level(h) < Level(Want(t))
  BY <1>3 DEF LevelInv
<1>5. h.row = Want(u).row /\ Level(h) = Level(Want(u)) /\ h \in Request
  BY <1>1 DEF Conflict, Level, LevelInv, TypeOK
<1>6. Level(Want(u)) < Level(Want(t)) /\ Level(Want(t)) < 2
  BY <1>4, <1>5 DEF Early, Level
<1>7. /\ Level(Want(u)) \in Nat /\ Level(Want(t)) \in Nat
  BY <1>3, Kinds
<1>8. Want(u).row.level = 0
  BY <1>6, <1>7 DEF Level
<1>9. Want(u).mode = "UPDATE"
  <2>1. \A r \in Rows : r.level = 0 => r = SweepLock
    BY DEF Rows, DefinitionRow, InstanceRow, AssignmentRow, MemberRow
  <2> QED
    BY <1>3, <1>8, <2>1 DEF Request
<1> QED
  BY <1>6, <1>7, <1>9 DEF Early, Level

(* Nobody in a knot waits for the sweep lock or to lock an occurrence: the     *)
(* deadlock argument of app/tx.ts as far as it holds with key shares.          *)
THEOREM KnotsAreAboveOccurrences == Spec => []KnotsSpareOccurrences
<1>1. ASSUME LevelInv PROVE KnotsSpareOccurrences
  <2> SUFFICES ASSUME NEW S \in SUBSET Txns, Knot(S), NEW t \in S, Early(Want(t))
               PROVE  FALSE
    BY DEF KnotsSpareOccurrences
  <2>1. \A u \in S : Wants(u) /\ \E v \in S : Blocks(u, v)
    BY DEF Knot, Blocks
  <2>2. PICK u \in S : Blocks(t, u)
    BY <2>1
  <2>3. Early(Want(u)) /\ Level(Want(u)) < Level(Want(t))
    BY <1>1, <2>1, <2>2, WaitersBlockAbove
  <2>4. PICK v \in S : Blocks(u, v)
    BY <2>1
  <2>5. Early(Want(v)) /\ Level(Want(v)) < Level(Want(u))
    BY <1>1, <2>1, <2>3, <2>4, WaitersBlockAbove
  <2>6. \A w \in S : Want(w) \in Request
    BY <1>1, <2>1 DEF LevelInv, TypeOK, Wants, Want
  <2>7. \A w \in S : Level(Want(w)) \in Nat
    BY <2>6, Kinds
  <2>8. Level(Want(t)) < 2
    BY DEF Early, Level
  <2> QED
    BY <2>3, <2>5, <2>7, <2>8
<1> QED
  BY <1>1, InitLevels, NextLevels, PTL DEF Spec

-----------------------------------------------------------------------------
(* Reminders, for any household, estimates and multipliers.  The argument: a   *)
(* pass that has found somebody to remind keeps every other pass out of the    *)
(* rows it read until it writes them, so what it owes stays owed.              *)
PassStates ==
    {NoPass}
        \cup [at : {"started"}, now : Int]
        \cup [at : {"scanned"}, now : Int, minutes : Estimates]
        \cup [at : {"ripe"}, now : Int, factor : Multipliers]

Holding == [active : BOOLEAN, reminded : 0 .. 1]

RemindersTypeOK ==
    /\ moment \in Int
    /\ estimate \in Estimates
    /\ multiplier \in Multipliers
    /\ teamSize \in TeamSizes
    /\ finished \in BOOLEAN
    /\ holdings \in Seq(Holding)
    /\ pass \in [SweepPasses -> PassStates]
    /\ owed \in [SweepPasses -> SUBSET (DOMAIN holdings)]

(* What a pass owes a reminder is, until its transaction, as it was when the   *)
(* pass found it: held, by a full team, before the due date, and ripe by the   *)
(* estimate and the multiplier that hold now.                                  *)
OwedInv ==
    \A p \in SweepPasses : owed[p] # {} =>
        IF pass[p] = NoPass THEN \A h \in owed[p] : holdings[h].reminded = 1
        ELSE /\ Assigned
             /\ owed[p] \subseteq ActiveHoldings
             /\ pass[p].now < DueAt
             /\ Ripe(pass[p].now, multiplier, estimate)
             /\ \/ pass[p].at = "scanned" /\ pass[p].minutes = estimate
                \/ pass[p].at = "ripe" /\ pass[p].factor = multiplier

RemindersInv == RemindersTypeOK /\ OwedInv

(* A table with every row overwritten by another of its kind.                  *)
LEMMA Overwritten ==
    ASSUME NEW S, NEW s \in Seq(S), NEW t, t = [h \in DOMAIN s |-> t[h]],
           \A h \in DOMAIN s : t[h] \in S
    PROVE  t \in Seq(S)
<1>1. Len(s) \in Nat /\ DOMAIN s = 1 .. Len(s)
  BY LenProperties
<1>2. t \in [1 .. Len(s) -> S]
  BY <1>1
<1> QED  BY <1>1, <1>2, SeqDef

LEMMA HoldingRows ==
    ASSUME RemindersTypeOK
    PROVE  \A h \in DOMAIN holdings : holdings[h] \in Holding
BY LenProperties, ElementOfSeq DEF RemindersTypeOK

LEMMA RemindersStart == RemindersInit => RemindersInv
<1> SUFFICES ASSUME RemindersInit PROVE RemindersInv
  OBVIOUS
<1>1. NoPass \in PassStates /\ <<>> \in Seq(Holding)
  BY EmptySeq DEF PassStates
<1>2. \A p \in SweepPasses : owed[p] = {}
  BY DEF RemindersInit
<1>3. RemindersTypeOK
  <2>1. pass \in [SweepPasses -> PassStates] /\ owed \in [SweepPasses -> SUBSET (DOMAIN holdings)]
    BY <1>1 DEF RemindersInit
  <2>2. moment \in Int
    BY DEF RemindersInit
  <2>4. finished \in BOOLEAN
    BY DEF RemindersInit
  <2>3. holdings \in Seq(Holding)
    BY EmptySeq DEF RemindersInit
  <2> QED  BY <2>1, <2>2, <2>3, <2>4 DEF RemindersInit, RemindersTypeOK
<1> QED  BY <1>2, <1>3 DEF RemindersInv, OwedInv

USE DEF NoPass

(* Nothing is owed: what an edit or a hand-over leaves.                        *)
LEMMA NothingOwed ==
    ASSUME RemindersInv, owed' = [p \in SweepPasses |-> {}],
           pass' = pass, moment' = moment,
           estimate' \in Estimates, multiplier' \in Multipliers, teamSize' = teamSize,
           finished' \in BOOLEAN,
           holdings' \in Seq(Holding)
    PROVE  RemindersInv'
BY DEF RemindersInv, RemindersTypeOK, OwedInv

(* The rows that are read when a pass finds its candidates.                    *)
LEMMA CandidatesHeld ==
    ASSUME NEW now
    PROVE  /\ CandidatesAt(now) \subseteq ActiveHoldings
           /\ CandidatesAt(now) # {} => Assigned /\ now < DueAt
BY DEF CandidatesAt, Unreminded

LEMMA RemindersStep == RemindersInv /\ [RemindersNext]_reminderVars => RemindersInv'
<1> SUFFICES ASSUME RemindersInv, [RemindersNext]_reminderVars PROVE RemindersInv'
  OBVIOUS
<1> USE DEF RemindersInv
<1>1. CASE TakesOver
  <2>1. /\ holdings' \in Seq(Holding)
        /\ DOMAIN holdings \subseteq DOMAIN holdings'
        /\ \A h \in DOMAIN holdings : holdings'[h] = holdings[h]
    <3>1. [active |-> TRUE, reminded |-> 0] \in Holding
      BY DEF Holding
    <3> QED  BY <1>1, <3>1, AppendProperties, LenProperties DEF TakesOver, RemindersTypeOK
  <2>2. RemindersTypeOK'
    BY <1>1, <2>1 DEF TakesOver, RemindersTypeOK
  <2>3. \A p \in SweepPasses : owed[p] # {} => pass[p] = NoPass
    BY <1>1 DEF TakesOver, OwedInv, Assigned
  <2>4. OwedInv'
    BY <1>1, <2>1, <2>3 DEF TakesOver, OwedInv, RemindersTypeOK
  <2> QED  BY <2>2, <2>4
<1>2. CASE Finishes
  <2>1. \A h \in DOMAIN holdings : holdings'[h] \in Holding
    BY <1>2, HoldingRows DEF Finishes, Holding
  <2>2. holdings' = [h \in DOMAIN holdings |-> holdings'[h]]
    BY <1>2 DEF Finishes
  <2>3. holdings' \in Seq(Holding)
    BY <2>1, <2>2, Overwritten DEF RemindersTypeOK
  <2> QED  BY <1>2, <2>3, NothingOwed DEF Finishes, RemindersTypeOK
<1>3. CASE TimePasses
  <2>1. RemindersTypeOK'
    BY <1>3 DEF TimePasses, RemindersTypeOK
  <2>2. OwedInv'
    BY <1>3 DEF TimePasses, OwedInv, Assigned, Staffed, ActiveHoldings, Ripe
  <2> QED  BY <2>1, <2>2
<1>4. ASSUME NEW h \in DOMAIN holdings, GivesUp(h) PROVE RemindersInv'
  <2>1. \A k \in DOMAIN holdings : holdings'[k] \in Holding
    BY <1>4, HoldingRows DEF GivesUp, Holding
  <2>2. holdings' = [k \in DOMAIN holdings |-> holdings'[k]]
    BY <1>4 DEF GivesUp
  <2>3. holdings' \in Seq(Holding)
    BY <2>1, <2>2, Overwritten DEF RemindersTypeOK
  <2> QED  BY <1>4, <2>3, NothingOwed DEF GivesUp, RemindersTypeOK
<1>5. ASSUME NEW e \in Estimates, EditsEstimate(e) PROVE RemindersInv'
  BY <1>5, NothingOwed DEF EditsEstimate, RemindersTypeOK
<1>6. ASSUME NEW f \in Multipliers, EditsMultiplier(f) PROVE RemindersInv'
  BY <1>6, NothingOwed DEF EditsMultiplier, RemindersTypeOK
<1>7. ASSUME NEW p \in SweepPasses, Starts(p) PROVE RemindersInv'
  <2>1. RemindersTypeOK'
    <3>1. [at |-> "started", now |-> moment] \in PassStates
      BY DEF RemindersTypeOK, PassStates
    <3> QED  BY <1>7, <3>1 DEF Starts, RemindersTypeOK
  <2>2. OwedInv'
    BY <1>7 DEF Starts, OwedInv, RemindersTypeOK, Assigned, Staffed, ActiveHoldings
  <2> QED  BY <2>1, <2>2
<1>8. ASSUME NEW p \in SweepPasses, Scans(p) PROVE RemindersInv'
  <2> DEFINE now == pass[p].now
             found == CandidatesAt(now)
  <2>1. pass[p] # NoPass /\ pass[p].at = "started" /\ now \in Int
    BY <1>8 DEF Scans, RemindersTypeOK, PassStates
  <2>2. found \subseteq ActiveHoldings /\ (found # {} => Assigned /\ now < DueAt)
    BY CandidatesHeld
  <2>3. /\ pass' = [pass EXCEPT ![p] = IF found = {} THEN NoPass
                                       ELSE [at |-> "scanned", now |-> now, minutes |-> estimate]]
        /\ owed' = [owed EXCEPT ![p] = IF Ripe(now, multiplier, estimate) THEN found ELSE {}]
        /\ UNCHANGED <<moment, estimate, multiplier, teamSize, finished, holdings>>
    BY <1>8 DEF Scans
  <2>4. found \subseteq DOMAIN holdings
    BY <2>2 DEF ActiveHoldings
  <2> HIDE DEF found
  <2>5. RemindersTypeOK'
    <3>1. [at |-> "scanned", now |-> now, minutes |-> estimate] \in PassStates
      BY <2>1 DEF RemindersTypeOK, PassStates
    <3>2. NoPass \in PassStates
      BY DEF PassStates
    <3>3. pass' \in [SweepPasses -> PassStates]
      <4> HIDE DEF now, NoPass
      <4> QED  BY <2>3, <3>1, <3>2 DEF RemindersTypeOK
    <3>4. owed' \in [SweepPasses -> SUBSET DOMAIN holdings]
      BY <2>3, <2>4 DEF RemindersTypeOK
    <3> QED  BY <2>3, <3>3, <3>4 DEF RemindersTypeOK
  <2>6. OwedInv'
    <3> SUFFICES ASSUME NEW q \in SweepPasses, owed'[q] # {}
                 PROVE  IF pass'[q] = NoPass THEN \A h \in owed'[q] : holdings[h].reminded = 1
                        ELSE /\ Assigned
                             /\ owed'[q] \subseteq ActiveHoldings
                             /\ pass'[q].now < DueAt
                             /\ Ripe(pass'[q].now, multiplier, estimate)
                             /\ \/ pass'[q].at = "scanned" /\ pass'[q].minutes = estimate
                                \/ pass'[q].at = "ripe" /\ pass'[q].factor = multiplier
      BY <2>3 DEF OwedInv, Assigned, Staffed, ActiveHoldings, Ripe
    <3>1. CASE q = p
      <4>1. found # {} /\ Ripe(now, multiplier, estimate) /\ owed'[p] = found
        BY <2>3, <3>1 DEF RemindersTypeOK
      <4>2. pass'[p] = [at |-> "scanned", now |-> now, minutes |-> estimate]
        BY <2>3, <4>1 DEF RemindersTypeOK
      <4> QED  BY <2>2, <3>1, <4>1, <4>2
    <3>2. CASE q # p
      BY <2>3, <3>2 DEF RemindersTypeOK, OwedInv
    <3> QED  BY <3>1, <3>2
  <2> QED  BY <2>5, <2>6
<1>9. ASSUME NEW p \in SweepPasses, Reckons(p) PROVE RemindersInv'
  <2>1. pass[p] # NoPass /\ pass[p].at = "scanned" /\ pass[p].now \in Int
    BY <1>9 DEF Reckons, RemindersTypeOK, PassStates
  <2> DEFINE ripe == [at |-> "ripe", now |-> pass[p].now, factor |-> multiplier]
             next == IF Ripe(pass[p].now, multiplier, pass[p].minutes) THEN ripe ELSE NoPass
  <2>2. pass' = [pass EXCEPT ![p] = next]
    BY <1>9 DEF Reckons
  <2>3. next \in PassStates
    BY <2>1 DEF RemindersTypeOK, PassStates
  <2>4. owed[p] # {} => next = ripe
    BY <2>1 DEF OwedInv
  <2>5. ripe.at = "ripe" /\ ripe # NoPass /\ ripe.now = pass[p].now /\ ripe.factor = multiplier
    OBVIOUS
  <2> HIDE DEF next, ripe
  <2>6. RemindersTypeOK'
    BY <1>9, <2>2, <2>3 DEF Reckons, RemindersTypeOK
  <2>7. OwedInv'
    <3> SUFFICES ASSUME NEW q \in SweepPasses, owed[q] # {}
                 PROVE  IF pass'[q] = NoPass THEN \A h \in owed[q] : holdings[h].reminded = 1
                        ELSE /\ Assigned
                             /\ owed[q] \subseteq ActiveHoldings
                             /\ pass'[q].now < DueAt
                             /\ Ripe(pass'[q].now, multiplier, estimate)
                             /\ \/ pass'[q].at = "scanned" /\ pass'[q].minutes = estimate
                                \/ pass'[q].at = "ripe" /\ pass'[q].factor = multiplier
      BY <1>9 DEF Reckons, OwedInv, Assigned, Staffed, ActiveHoldings, Ripe
    <3>1. CASE q = p
      <4>1. pass'[p] = ripe
        BY <2>2, <2>4, <3>1 DEF RemindersTypeOK
      <4> QED  BY <2>1, <2>5, <3>1, <4>1 DEF OwedInv
    <3>2. CASE q # p
      BY <2>2, <3>2 DEF RemindersTypeOK, OwedInv
    <3> QED  BY <3>1, <3>2
  <2> QED  BY <2>6, <2>7
<1>10. ASSUME NEW p \in SweepPasses, Reminds(p) PROVE RemindersInv'
  <2> DEFINE due == Assigned /\ pass[p].now < DueAt /\ Ripe(pass[p].now, pass[p].factor, estimate)
             Row(h) == IF due /\ h \in Unreminded THEN [holdings[h] EXCEPT !.reminded = @ + 1] ELSE holdings[h]
  <2>1. pass[p] # NoPass /\ pass[p].at = "ripe"
    BY <1>10 DEF Reminds
  <2>2. /\ DOMAIN holdings' = DOMAIN holdings
        /\ \A h \in DOMAIN holdings : holdings'[h] = Row(h)
    BY <1>10 DEF Reminds, Notifiable
  <2>3. \A h \in DOMAIN holdings :
          /\ holdings[h] \in Holding
          /\ Row(h) \in Holding
          /\ Row(h).active = holdings[h].active
          /\ Row(h).reminded >= holdings[h].reminded
          /\ due /\ holdings[h].active => Row(h).reminded = 1
    <3> SUFFICES ASSUME NEW h \in DOMAIN holdings
                 PROVE  /\ holdings[h] \in Holding
                        /\ Row(h) \in Holding
                        /\ Row(h).active = holdings[h].active
                        /\ Row(h).reminded >= holdings[h].reminded
                        /\ due /\ holdings[h].active => Row(h).reminded = 1
      OBVIOUS
    <3>1. holdings[h] \in Holding
      BY HoldingRows
    <3> HIDE DEF due
    <3> QED  BY <3>1 DEF Holding, Unreminded, ActiveHoldings
  <2> HIDE DEF Row
  <2>4. holdings' \in Seq(Holding)
    <3>0. holdings = [h \in DOMAIN holdings |-> holdings[h]]
      BY LenProperties DEF RemindersTypeOK
    <3>1. holdings' = [h \in DOMAIN holdings |-> holdings'[h]]
      <4>1. CASE due
        BY <1>10, <4>1 DEF Reminds
      <4>2. CASE ~due
        BY <1>10, <3>0, <4>2 DEF Reminds
      <4> QED  BY <4>1, <4>2
    <3> QED  BY <2>2, <2>3, <3>1, Overwritten DEF RemindersTypeOK
  <2>5. RemindersTypeOK'
    BY <1>10, <2>2, <2>4 DEF Reminds, RemindersTypeOK, PassStates
  <2>6. ActiveHoldings' = ActiveHoldings /\ (Assigned' <=> Assigned)
    <3>1. ActiveHoldings' = ActiveHoldings
      <4> HIDE DEF due
      <4> QED  BY <2>2, <2>3 DEF ActiveHoldings
    <3>2. UNCHANGED <<finished, teamSize>>
      BY <1>10 DEF Reminds
    <3> QED  BY <3>1, <3>2 DEF Assigned, Staffed
  <2>7. OwedInv'
    <3> SUFFICES ASSUME NEW q \in SweepPasses, owed[q] # {}
                 PROVE  IF pass'[q] = NoPass THEN \A h \in owed[q] : holdings'[h].reminded = 1
                        ELSE /\ Assigned
                             /\ owed[q] \subseteq ActiveHoldings
                             /\ pass'[q].now < DueAt
                             /\ Ripe(pass'[q].now, multiplier, estimate)
                             /\ \/ pass'[q].at = "scanned" /\ pass'[q].minutes = estimate
                                \/ pass'[q].at = "ripe" /\ pass'[q].factor = multiplier
      BY <1>10, <2>6 DEF Reminds, OwedInv, Ripe
    <3>0. owed[q] \subseteq DOMAIN holdings
      BY DEF RemindersTypeOK
    <3>1. CASE q = p
      <4>1. due /\ owed[q] \subseteq ActiveHoldings
        BY <2>1, <3>1 DEF OwedInv
      <4>2. pass'[q] = NoPass
        BY <1>10, <3>1 DEF Reminds, RemindersTypeOK
      <4>3. \A h \in owed[q] : holdings'[h].reminded = 1
        <5> HIDE DEF due
        <5> QED  BY <2>2, <2>3, <3>0, <4>1 DEF ActiveHoldings
      <4> QED  BY <4>2, <4>3
    <3>2. CASE q # p /\ pass[q] = NoPass
      <4>1. pass'[q] = pass[q]
        BY <1>10, <3>2 DEF Reminds, RemindersTypeOK
      <4>2. \A h \in owed[q] : holdings'[h] \in Holding
                               /\ holdings'[h].reminded >= holdings[h].reminded
                               /\ holdings[h].reminded = 1
        <5> HIDE DEF due
        <5> QED  BY <2>2, <2>3, <3>0, <3>2 DEF OwedInv
      <4> QED  BY <3>2, <4>1, <4>2 DEF Holding
    <3>3. CASE q # p /\ pass[q] # NoPass
      BY <1>10, <3>3 DEF Reminds, RemindersTypeOK, OwedInv
    <3> QED  BY <3>1, <3>2, <3>3
  <2> QED  BY <2>5, <2>7
<1>11. ASSUME NEW p \in SweepPasses, PassDies(p) PROVE RemindersInv'
  <2>1. RemindersTypeOK'
    BY <1>11 DEF PassDies, RemindersTypeOK, PassStates
  <2>2. OwedInv'
    BY <1>11 DEF PassDies, OwedInv, RemindersTypeOK, Assigned, Staffed, ActiveHoldings
  <2> QED  BY <2>1, <2>2
<1>12. CASE UNCHANGED reminderVars
  <2>1. RemindersTypeOK'
    BY <1>12 DEF reminderVars, RemindersTypeOK
  <2>2. OwedInv'
    BY <1>12 DEF reminderVars, OwedInv, Assigned, Staffed, ActiveHoldings, Ripe
  <2> QED  BY <2>1, <2>2
<1> QED
  BY <1>1, <1>2, <1>3, <1>4, <1>5, <1>6, <1>7, <1>8, <1>9, <1>10, <1>11, <1>12
     DEF RemindersNext

LEMMA RemindersInvariant == RemindersSpec => []RemindersInv
BY RemindersStart, RemindersStep, PTL DEF RemindersSpec

(* The due-soon phase reminds nobody twice for one holding, and a pass that    *)
(* ends has reminded whoever it found due, whatever other passes do.           *)
THEOREM HoldersAlwaysRemindedOnce == RemindersSpec => []HoldersAreRemindedOnce
<1>1. RemindersInv => HoldersAreRemindedOnce
  <2> SUFFICES ASSUME RemindersInv PROVE HoldersAreRemindedOnce
    OBVIOUS
  <2>1. \A h \in DOMAIN holdings : holdings[h].reminded <= 1
    BY HoldingRows DEF RemindersInv, Holding
  <2>2. \A p \in SweepPasses : pass[p] = NoPass => \A h \in owed[p] : holdings[h].reminded = 1
    BY DEF RemindersInv, OwedInv
  <2> QED  BY <2>1, <2>2 DEF HoldersAreRemindedOnce
<1> QED  BY <1>1, RemindersInvariant, PTL

HIDE DEF NoPass

-----------------------------------------------------------------------------
(* Pages, for any listing, limit and page size.  The argument: the cursor is   *)
(* the place of the last row sent, and the rows before it no longer move, so   *)
(* a page starts where the one before it ended.                                *)
LEMMA LeastOfTwo ==
    ASSUME NEW a \in Int, NEW b \in Int
    PROVE  Min({a, b}) = (IF a <= b THEN a ELSE b) /\ Max({a, b}) = (IF a >= b THEN a ELSE b)
BY DEF Min, Max

LEMMA SameInterval ==
    ASSUME NEW m \in Nat, NEW n \in Nat, 1 .. m = 1 .. n
    PROVE  m = n
<1>1. \A k \in Nat : k \in 1 .. m <=> k \in 1 .. n
  OBVIOUS
<1>2. (m >= 1 => m <= n) /\ (n >= 1 => n <= m)
  BY <1>1
<1> QED  BY <1>2

LEMMA SameLength ==
    ASSUME NEW S, NEW s \in Seq(S), NEW t \in Seq(S), DOMAIN s = DOMAIN t
    PROVE  Len(s) = Len(t)
<1>1. /\ Len(s) \in Nat /\ DOMAIN s = 1 .. Len(s)
      /\ Len(t) \in Nat /\ DOMAIN t = 1 .. Len(t)
  BY LenProperties
<1> DEFINE m == Len(s)
           n == Len(t)
<1>2. m \in Nat /\ n \in Nat /\ 1 .. m = 1 .. n
  BY <1>1
<1> HIDE DEF m, n
<1>3. m = n
  BY <1>2, SameInterval
<1> QED  BY <1>3 DEF m, n

LEMMA MultipleModulo ==
    ASSUME NEW L \in Nat \ {0}, NEW q \in Nat
    PROVE  (q * L) % L = 0
<1> DEFINE m == q * L
           d == m \div L
           r == m % L
<1>1. m \in Nat
  OBVIOUS
<1>2. d \in Int /\ r \in 0 .. (L - 1) /\ m = L * d + r
  <2> HIDE DEF m
  <2> QED  BY <1>1
<1> DEFINE e == q - d
<1>3. e \in Int /\ L * e = r
  <2> HIDE DEF d, r
  <2>1. L * (q - d) = L * q - L * d
    BY <1>2
  <2> QED  BY <1>2, <2>1
<1>4. CASE e >= 1
  <2> HIDE DEF e, r
  <2>1. L * e >= L
    BY <1>3, <1>4
  <2> QED  BY <1>2, <1>3, <2>1
<1>5. CASE e <= -1
  <2> HIDE DEF e, r
  <2>1. L * e <= -L
    BY <1>3, <1>5
  <2> QED  BY <1>2, <1>3, <2>1
<1>6. CASE e = 0
  <2> HIDE DEF e, r
  <2>1. r = 0
    BY <1>3, <1>6
  <2> QED  BY <2>1 DEF r
<1> QED  BY <1>3, <1>4, <1>5, <1>6
-----------------------------------------------------------------------------
PageRow == [state : {"pending", "committed", "rolled back"}, at : Nat, read : BOOLEAN]

Ended == {NoCursor, TheEnd}

PagesTypeOK ==
    /\ listing \in Listings
    /\ asked \in AskedLimits
    /\ written \in Seq(PageRow)
    /\ pageClock \in Nat
    /\ cursor \in Nat \cup Ended
    /\ scrolled \in Seq(Visible)
    /\ present \subseteq Visible

(* A page ends on the row the cursor names: what was shown is at or above it,  *)
(* and only whole pages were shown so far.                                     *)
CursorInv ==
    /\ cursor = NoCursor => scrolled = <<>> /\ present = {}
    /\ cursor \in Nat =>
          /\ Len(scrolled) > 0
          /\ Key(scrolled[Len(scrolled)]) = cursor
          /\ \E q \in Nat : Len(scrolled) = q * Limit
          /\ \A k \in DOMAIN scrolled : Key(scrolled[k]) >= cursor

(* A member's rows are written one at a time, so nothing below the cursor can  *)
(* still show that did not show at the first page.                             *)
FrozenInv ==
    listing = "points" =>
        /\ \A i \in Pending : i = Len(written)
        /\ cursor \in Nat => \A i \in DOMAIN written :
              i < cursor => i \in present \/ written[i].state = "rolled back"

PagesInv == PagesTypeOK /\ CursorInv /\ FrozenInv /\ ScrollMissesNothing

-----------------------------------------------------------------------------
LEMMA LimitPositive ==
    ASSUME PagesTypeOK
    PROVE  Limit \in Nat \ {0}
<1> DEFINE wanted == IF asked = NoLimit THEN DefaultLimit[listing] ELSE asked
<1>1. wanted \in Int
  BY PagesAssumption DEF PagesTypeOK
<1> HIDE DEF wanted
<1>2. Max({wanted, 1}) \in Nat \ {0}
  <2>1. Max({wanted, 1}) = IF wanted >= 1 THEN wanted ELSE 1
    BY <1>1, LeastOfTwo
  <2> QED  BY <1>1, <2>1
<1> DEFINE more == Max({wanted, 1})
<1> HIDE DEF more
<1>3. Min({more, MostPerPage}) \in Nat \ {0}
  BY <1>2, LeastOfTwo, PagesAssumption DEF more
<1> QED  BY <1>3 DEF Limit, wanted, more

LEMMA WrittenRows ==
    ASSUME PagesTypeOK
    PROVE  /\ Len(written) \in Nat /\ DOMAIN written = 1 .. Len(written)
           /\ \A i \in DOMAIN written : written[i] \in PageRow /\ Key(i) \in Nat
           /\ Visible \subseteq DOMAIN written /\ Pending \subseteq DOMAIN written
<1>1. Len(written) \in Nat /\ DOMAIN written = 1 .. Len(written)
  BY LenProperties DEF PagesTypeOK
<1>2. \A i \in DOMAIN written : written[i] \in PageRow
  BY <1>1, ElementOfSeq DEF PagesTypeOK
<1>3. \A i \in DOMAIN written : Key(i) \in Nat
  <2> SUFFICES ASSUME NEW i \in DOMAIN written PROVE Key(i) \in Nat
    OBVIOUS
  <2>1. i \in Nat
    BY <1>1
  <2>2. written[i].at \in Nat
    BY <1>2 DEF PageRow
  <2> QED  BY <2>1, <2>2 DEF Key
<1>4. Visible \subseteq DOMAIN written /\ Pending \subseteq DOMAIN written
  BY DEF Visible, Pending
<1> QED  BY <1>1, <1>2, <1>3, <1>4

LEMMA ScrolledRows ==
    ASSUME PagesTypeOK
    PROVE  /\ Len(scrolled) \in Nat /\ DOMAIN scrolled = 1 .. Len(scrolled)
           /\ \A k \in DOMAIN scrolled : scrolled[k] \in Visible
BY LenProperties, ElementOfSeq DEF PagesTypeOK

(* What one page shows: rows that match, none twice, and either all of them,   *)
(* or Limit many whose last one is the cursor, with nothing above it left out. *)
LEMMA FetchedPage ==
    ASSUME PagesTypeOK, NEW rows \in Fetches
    PROVE  LET items == Page(rows).items
               next  == Page(rows).next
           IN  /\ items \in Seq(Matching)
               /\ IsInjective(items)
               /\ \/ next = TheEnd /\ Matching \subseteq Range(items)
                  \/ /\ next \in Nat
                     /\ Len(items) = Limit
                     /\ next = Key(items[Limit])
                     /\ \A k \in DOMAIN items : Key(items[k]) >= next
                     /\ \A i \in Matching \ Range(items) : Key(i) <= next
<1> DEFINE total == Cardinality(Matching)
           size  == Min({Limit + 1, total})
<1>1. Limit \in Nat \ {0}
  BY LimitPositive
<1>2. IsFiniteSet(Matching) /\ total \in Nat
  <2>1. IsFiniteSet(DOMAIN written)
    BY WrittenRows, FS_Interval
  <2>2. Matching \subseteq DOMAIN written
    BY DEF Matching, Visible
  <2>3. IsFiniteSet(Matching)
    BY <2>1, <2>2, FS_Subset
  <2> QED  BY <2>3, FS_CardinalityType
<1>3. \A i \in Matching : i \in Visible /\ Key(i) \in Nat
  BY WrittenRows DEF Matching
<1>4. size \in Nat /\ size = IF Limit + 1 <= total THEN Limit + 1 ELSE total
  BY <1>1, <1>2, LeastOfTwo
<1>5. /\ rows \in [1 .. size -> Matching]
      /\ \A j, k \in 1 .. size : j < k => rows[j] # rows[k] /\ Key(rows[j]) >= Key(rows[k])
      /\ \A i \in Matching \ Range(rows), k \in 1 .. size : Key(i) <= Key(rows[k])
  BY DEF Fetches
<1> HIDE DEF size
<1>6. \A j, k \in 1 .. size : rows[j] = rows[k] => j = k
  BY <1>4, <1>5
<1>7. rows \in Seq(Matching) /\ Len(rows) = size /\ DOMAIN rows = 1 .. size
  <2>1. rows \in Seq(Matching)
    BY <1>4, <1>5, SeqDef
  <2> QED  BY <1>4, <1>5, <2>1, LenProperties
<1>8. CASE size <= Limit
  <2>1. Page(rows).items = rows /\ Page(rows).next = TheEnd
    BY <1>1, <1>4, <1>7, <1>8 DEF Page
  <2>2. size = total
    BY <1>1, <1>2, <1>4, <1>8
  <2>3. rows \in Injection(1 .. size, Matching)
    BY <1>5, <1>6 DEF Injection, IsInjective
  <2>4. Cardinality(1 .. size) = size
    BY <1>4, FS_Interval
  <2>5. rows \in Surjection(1 .. size, Matching)
    BY <1>2, <2>2, <2>3, <2>4, FS_Injection
  <2>6. Matching \subseteq Range(rows)
    BY <2>5 DEF Surjection, Range
  <2> QED  BY <1>6, <1>7, <2>1, <2>6 DEF IsInjective
<1>9. CASE size > Limit
  <2> DEFINE items == SubSeq(rows, 1, Limit)
  <2>1. size = Limit + 1
    BY <1>1, <1>2, <1>4, <1>9
  <2>2. \A k \in 1 .. Limit : rows[k] \in Matching
    BY <1>1, <1>5, <2>1
  <2>3. /\ items \in Seq(Matching)
        /\ Len(items) = Limit
        /\ \A k \in 1 .. Limit : items[k] = rows[k]
    BY <1>1, <2>2, SubSeqProperties
  <2>4. DOMAIN items = 1 .. Limit
    BY <2>3, LenProperties
  <2> HIDE DEF items
  <2>5. Page(rows).items = items /\ Page(rows).next = Key(items[Limit])
    BY <1>1, <1>7, <1>9, <2>3, <1>4 DEF Page, items
  <2>6. IsInjective(items)
    BY <1>1, <1>6, <2>1, <2>3, <2>4 DEF IsInjective
  <2>7. items[Limit] = rows[Limit] /\ Key(rows[Limit]) \in Nat
    BY <1>1, <1>3, <2>2, <2>3
  <2>8. \A k \in DOMAIN items : Key(items[k]) >= Key(items[Limit])
    <3> SUFFICES ASSUME NEW k \in 1 .. Limit PROVE Key(rows[k]) >= Key(rows[Limit])
      BY <1>1, <2>3, <2>4, <2>7
    <3>1. k < Limit => Key(rows[k]) >= Key(rows[Limit])
      BY <1>1, <1>5, <2>1
    <3> QED  BY <1>1, <2>7, <3>1
  <2>9. \A i \in Matching \ Range(items) : Key(i) <= Key(items[Limit])
    <3> SUFFICES ASSUME NEW i \in Matching, i \notin Range(items)
                 PROVE  Key(i) <= Key(rows[Limit])
      BY <2>7
    <3>1. CASE i \notin Range(rows)
      BY <1>1, <1>5, <2>1, <3>1
    <3>2. CASE i \in Range(rows)
      <4>1. PICK k \in 1 .. size : i = rows[k]
        BY <1>7, <3>2 DEF Range
      <4>2. k \notin 1 .. Limit
        BY <2>3, <2>4, <4>1 DEF Range
      <4>3. k = Limit + 1
        BY <1>1, <2>1, <4>2
      <4> QED  BY <1>1, <1>5, <2>1, <4>1, <4>3
    <3> QED  BY <3>1, <3>2
  <2> QED  BY <2>3, <2>5, <2>6, <2>7, <2>8, <2>9
<1> QED  BY <1>1, <1>4, <1>8, <1>9

LEMMA PagesStart == PagesInit => PagesInv
<1> SUFFICES ASSUME PagesInit PROVE PagesInv
  OBVIOUS
<1>1. /\ written = <<>> /\ scrolled = <<>> /\ present = {}
      /\ cursor = NoCursor /\ pageClock = 0
      /\ listing \in Listings /\ asked \in AskedLimits
  BY DEF PagesInit
<1>2. DOMAIN written = {} /\ DOMAIN scrolled = {}
  BY <1>1
<1>3. cursor \notin Nat
  BY <1>1 DEF NoCursor
<1>4. Visible = {} /\ Pending = {} /\ Passed = {} /\ Range(scrolled) = {}
  BY <1>1, <1>2 DEF Visible, Pending, Passed, Range
<1>5. written \in Seq(PageRow) /\ scrolled \in Seq(Visible)
  BY <1>1, EmptySeq
<1>6. PagesTypeOK
  BY <1>1, <1>4, <1>5 DEF PagesTypeOK, Ended
<1>7. ScrollMissesNothing
  BY <1>2, <1>4 DEF ScrollMissesNothing, IsInjective
<1>8. CursorInv /\ FrozenInv
  BY <1>1, <1>3, <1>4 DEF CursorInv, FrozenInv
<1> QED  BY <1>6, <1>7, <1>8 DEF PagesInv

(* Writes that leave alone what can be seen, but for the mark of having been read.   *)
LEMMA WritesSpareTheScroll ==
    ASSUME PagesInv, FrozenInv',
           UNCHANGED <<listing, asked, cursor, scrolled, present>>,
           pageClock' \in Nat, written' \in Seq(PageRow),
           \A i \in Visible :
               /\ i \in DOMAIN written'
               /\ written'[i].state = "committed"
               /\ written'[i].at = written[i].at
               /\ written[i].read => written'[i].read
    PROVE  PagesInv'
<1> USE DEF PagesInv
<1>1. Visible \subseteq Visible'
  BY DEF Visible
<1>2. \A i \in Visible : Key(i)' = Key(i)
  BY DEF Key
<1>3. PagesTypeOK'
  <2>1. scrolled \in Seq(Visible')
    BY <1>1, SeqMonotonic DEF PagesTypeOK
  <2> QED  BY <1>1, <2>1 DEF PagesTypeOK
<1>4. Limit' = Limit
  BY DEF Limit
<1>5. DOMAIN scrolled' = DOMAIN scrolled /\ \A k \in DOMAIN scrolled : Key(scrolled[k])' = Key(scrolled[k])
  <2>1. \A k \in DOMAIN scrolled : scrolled[k] \in Visible /\ scrolled'[k] = scrolled[k]
    BY ScrolledRows
  <2> QED  BY <2>1 DEF Key
<1>6. CursorInv'
  <2>1. cursor \in Nat => Len(scrolled) \in DOMAIN scrolled
    BY ScrolledRows DEF CursorInv
  <2> QED  BY <1>4, <1>5, <2>1 DEF CursorInv
<1>7. Passed' = Passed
  <2>1. \A i \in present : Key(i)' = Key(i)
    BY <1>2 DEF PagesTypeOK
  <2> QED  BY <2>1 DEF Passed
<1>8. \A i \in present : TiesAPageEnd(i) => TiesAPageEnd(i)'
  <2>1. \A i \in present : Key(i)' = Key(i)
    BY <1>2 DEF PagesTypeOK
  <2> QED  BY <1>4, <1>5, <2>1 DEF TiesAPageEnd
<1>9. Passed \subseteq present /\ present \subseteq Visible
  BY DEF Passed, PagesTypeOK
<1>10. ScrollMissesNothing'
  BY <1>7, <1>8, <1>9 DEF ScrollMissesNothing
<1> QED  BY <1>3, <1>6, <1>10

LEMMA PageStep ==
    ASSUME PagesInv, ReadsPage
    PROVE  PagesInv'
<1> USE DEF PagesInv
<1>1. PICK rows \in Fetches :
          /\ scrolled' = scrolled \o Page(rows).items
          /\ cursor' = Page(rows).next
  BY DEF ReadsPage
<1> DEFINE items == Page(rows).items
           next  == Page(rows).next
           n     == Len(scrolled)
           first == cursor = NoCursor
<1>2. /\ scrolled' = scrolled \o items
      /\ cursor' = next
      /\ cursor # TheEnd
      /\ present' = IF first THEN Matching ELSE present
      /\ UNCHANGED <<listing, asked, written, pageClock>>
  BY <1>1 DEF ReadsPage
<1>3. /\ items \in Seq(Matching)
      /\ IsInjective(items)
      /\ \/ next = TheEnd /\ Matching \subseteq Range(items)
         \/ /\ next \in Nat
            /\ Len(items) = Limit
            /\ next = Key(items[Limit])
            /\ \A k \in DOMAIN items : Key(items[k]) >= next
            /\ \A i \in Matching \ Range(items) : Key(i) <= next
  BY FetchedPage
<1> HIDE DEF items, next
<1>4. /\ Visible' = Visible /\ Pending' = Pending /\ Limit' = Limit
      /\ \A i : Key(i)' = Key(i)
  BY <1>2 DEF Visible, Pending, Limit, Key
<1>5. /\ Limit \in Nat \ {0} /\ n \in Nat /\ Len(items) \in Nat
      /\ DOMAIN scrolled = 1 .. n /\ DOMAIN items = 1 .. Len(items)
      /\ \A k \in 1 .. Len(items) : items[k] \in Matching
      /\ \A k \in 1 .. n : scrolled[k] \in Visible
  BY <1>3, LimitPositive, ScrolledRows, LenProperties, ElementOfSeq
<1>6. \A i \in Matching :
          /\ i \in Visible
          /\ Key(i) \in Nat
          /\ cursor \in Nat => Key(i) < cursor
  BY WrittenRows DEF Matching, PagesTypeOK, NoCursor
<1>7. /\ scrolled' \in Seq(Visible)
      /\ Len(scrolled') = n + Len(items)
      /\ DOMAIN scrolled' = 1 .. (n + Len(items))
      /\ \A k \in 1 .. (n + Len(items)) :
             scrolled'[k] = IF k <= n THEN scrolled[k] ELSE items[k - n]
  <2>1. scrolled \in Seq(Visible) /\ items \in Seq(Visible)
    BY <1>3, <1>6, SeqMonotonic DEF PagesTypeOK
  <2>2. scrolled \o items \in Seq(Visible) /\ Len(scrolled \o items) = n + Len(items)
    BY <2>1, ConcatProperties
  <2> QED  BY <1>2, <2>1, <2>2, ConcatProperties, LenProperties
<1>8. Range(scrolled') = Range(scrolled) \cup Range(items)
  <2>1. \A k \in 1 .. n : k \in 1 .. (n + Len(items)) /\ scrolled'[k] = scrolled[k]
    BY <1>5, <1>7
  <2>2. \A k \in 1 .. Len(items) : n + k \in 1 .. (n + Len(items)) /\ scrolled'[n + k] = items[k]
    BY <1>5, <1>7
  <2>3. \A k \in 1 .. (n + Len(items)) : k \in 1 .. n \/ k - n \in 1 .. Len(items)
    BY <1>5
  <2>4. Range(scrolled') \subseteq Range(scrolled) \cup Range(items)
    <3> SUFFICES ASSUME NEW k \in 1 .. (n + Len(items))
                 PROVE  scrolled'[k] \in Range(scrolled) \cup Range(items)
      BY <1>7 DEF Range
    <3>1. CASE k \in 1 .. n
      BY <1>5, <2>1, <3>1 DEF Range
    <3>2. CASE k - n \in 1 .. Len(items)
      <4>1. k \in Int /\ ~(k <= n)
        BY <1>5, <3>2
      <4>2. scrolled'[k] = items[k - n]
        BY <1>7, <4>1
      <4> QED  BY <1>5, <3>2, <4>2 DEF Range
    <3> QED  BY <2>3, <3>1, <3>2
  <2>5. Range(scrolled) \subseteq Range(scrolled') /\ Range(items) \subseteq Range(scrolled')
    BY <1>5, <1>7, <2>1, <2>2 DEF Range
  <2> QED  BY <2>4, <2>5
<1>9. first => n = 0 /\ present = {} /\ Range(scrolled) = {}
  <2>1. first => scrolled = <<>> /\ present = {}
    BY DEF CursorInv
  <2> QED  BY <2>1, EmptySeq DEF Range
<1>10. ~first => cursor \in Nat
  BY <1>2 DEF PagesTypeOK, Ended
<1>11. IsInjective(scrolled')
  <2>1. \A j \in 1 .. n, k \in 1 .. Len(items) : scrolled[j] # items[k]
    <3>1. CASE first
      BY <1>9, <3>1
    <3>2. CASE ~first
      <4>1. \A j \in 1 .. n : Key(scrolled[j]) \in Nat /\ Key(scrolled[j]) >= cursor
        BY <1>5, <1>10, <3>2, WrittenRows DEF CursorInv
      <4>2. \A k \in 1 .. Len(items) : Key(items[k]) \in Nat /\ Key(items[k]) < cursor
        BY <1>5, <1>6, <1>10, <3>2
      <4>3. cursor \in Nat
        BY <1>10, <3>2
      <4> QED  BY <4>1, <4>2, <4>3
    <3> QED  BY <3>1, <3>2
  <2>2. /\ \A j, k \in 1 .. n : scrolled[j] = scrolled[k] => j = k
        /\ \A j, k \in 1 .. Len(items) : items[j] = items[k] => j = k
    BY <1>3, <1>5 DEF ScrollMissesNothing, IsInjective
  <2>3. \A k \in 1 .. (n + Len(items)) : k \in 1 .. n \/ (k - n \in 1 .. Len(items) /\ ~ (k <= n))
    BY <1>5
  <2>4. \A j, k \in 1 .. (n + Len(items)) : scrolled'[j] = scrolled'[k] => j = k
    BY <1>5, <1>7, <2>1, <2>2, <2>3
  <2> QED  BY <1>7, <2>4 DEF IsInjective
<1>12. PagesTypeOK'
  <2>1. present' \subseteq Visible
    BY <1>2, <1>6 DEF PagesTypeOK
  <2>2. cursor' \in Nat \cup Ended
    BY <1>2, <1>3 DEF Ended
  <2> QED  BY <1>2, <1>4, <1>7, <2>1, <2>2 DEF PagesTypeOK
<1>13. next \in Nat =>
          /\ Len(items) = Limit /\ Limit \in 1 .. Len(items)
          /\ scrolled'[n + Limit] = items[Limit]
          /\ items[Limit] \in Matching
          /\ Key(items[Limit]) = next
          /\ n + Limit \in 1 .. (n + Len(items))
  <2> SUFFICES ASSUME next \in Nat
               PROVE  /\ Len(items) = Limit /\ Limit \in 1 .. Len(items)
                      /\ scrolled'[n + Limit] = items[Limit]
                      /\ items[Limit] \in Matching
                      /\ Key(items[Limit]) = next
                      /\ n + Limit \in 1 .. (n + Len(items))
    OBVIOUS
  <2>1. Len(items) = Limit /\ Key(items[Limit]) = next
    BY <1>3 DEF TheEnd
  <2>2. Limit \in 1 .. Len(items) /\ n + Limit \in 1 .. (n + Len(items))
    BY <1>5, <2>1
  <2>3. ~ (n + Limit <= n) /\ (n + Limit) - n = Limit
    BY <1>5
  <2> QED  BY <1>5, <1>7, <2>1, <2>2, <2>3
<1>14. next \in Nat => \E q \in Nat : n + Limit = q * Limit
  <2> SUFFICES ASSUME next \in Nat PROVE \E q \in Nat : n + Limit = q * Limit
    OBVIOUS
  <2>1. PICK q \in Nat : n = q * Limit
    <3>1. CASE first
      <4>1. n = 0 * Limit
        BY <1>5, <1>9, <3>1
      <4> QED  BY <4>1
    <3>2. CASE ~first
      BY <1>10, <3>2 DEF CursorInv
    <3> QED  BY <3>1, <3>2
  <2>2. (q + 1) * Limit = q * Limit + Limit /\ q + 1 \in Nat
    BY <1>5
  <2> QED  BY <2>1, <2>2
<1>15. CursorInv'
  <2>1. cursor' # NoCursor
    BY <1>2, <1>3 DEF NoCursor, TheEnd
  <2>2. ASSUME next \in Nat
        PROVE  \A k \in 1 .. (n + Len(items)) : Key(scrolled'[k]) >= next
    <3> SUFFICES ASSUME NEW k \in 1 .. (n + Len(items)) PROVE Key(scrolled'[k]) >= next
      OBVIOUS
    <3>1. CASE k <= n
      <4>1. k \in 1 .. n /\ scrolled'[k] = scrolled[k] /\ ~first
        BY <1>5, <1>7, <1>9, <3>1
      <4>2. Key(scrolled[k]) >= cursor /\ cursor \in Nat
        BY <1>5, <1>10, <4>1 DEF CursorInv
      <4>3. next < cursor
        BY <1>6, <1>13, <2>2, <4>2
      <4>4. Key(scrolled[k]) \in Nat
        BY <1>5, <4>1, WrittenRows
      <4> QED  BY <2>2, <4>1, <4>2, <4>3, <4>4
    <3>2. CASE ~ (k <= n)
      <4>1. k - n \in 1 .. Len(items) /\ scrolled'[k] = items[k - n]
        BY <1>5, <1>7, <3>2
      <4>2. next # TheEnd
        BY <2>2 DEF TheEnd
      <4>3. Key(items[k - n]) >= next
        BY <1>3, <1>5, <4>1, <4>2
      <4> QED  BY <4>1, <4>3
    <3> QED  BY <3>1, <3>2
  <2>3. next \in Nat => Len(scrolled') = n + Limit /\ n + Limit > 0
    <3>1. n + Limit > 0
      BY <1>5
    <3> QED  BY <1>7, <1>13, <3>1
  <2>4. next \in Nat => Key(scrolled'[Len(scrolled')]) = next
    BY <1>13, <2>3
  <2> QED  BY <1>2, <1>4, <1>7, <1>14, <2>1, <2>2, <2>3, <2>4 DEF CursorInv, Key
<1>16. FrozenInv'
  <2> SUFFICES ASSUME listing = "points"
               PROVE  /\ \A i \in Pending : i = Len(written)
                      /\ next \in Nat => \A i \in DOMAIN written :
                            i < next => i \in present' \/ written[i].state = "rolled back"
    BY <1>2, <1>4 DEF FrozenInv
  <2>1. \A i \in Pending : i = Len(written)
    BY DEF FrozenInv
  <2>2. ASSUME next \in Nat, NEW i \in DOMAIN written, i < next
        PROVE  i \in present' \/ written[i].state = "rolled back"
    <3>1. next \in Matching /\ next \in DOMAIN written
      BY <1>6, <1>13, <2>2, WrittenRows DEF Key
    <3>2. i \in Nat /\ Len(written) \in Nat /\ i # Len(written)
      BY <2>2, <3>1, WrittenRows
    <3>3. CASE first
      <4>1. written[i].state # "pending"
        BY <2>1, <3>2 DEF Pending
      <4>2. written[i].state = "committed" => i \in Matching
        BY <3>3 DEF Matching, Visible
      <4>3. written[i].state \in {"pending", "committed", "rolled back"}
        BY WrittenRows DEF PageRow
      <4> QED  BY <1>2, <3>3, <4>1, <4>2, <4>3
    <3>4. CASE ~first
      <4>1. cursor \in Nat /\ next < cursor
        BY <1>6, <1>10, <1>13, <2>2, <3>4
      <4>2. i < cursor
        BY <2>2, <3>2, <4>1
      <4> QED  BY <1>2, <3>4, <4>1, <4>2 DEF FrozenInv
    <3> QED  BY <3>3, <3>4
  <2> QED  BY <2>1, <2>2
<1>17. ASSUME NEW i \in Passed', i \notin Range(scrolled')
       PROVE  /\ listing \notin {"points", "history"}
              /\ TiesAPageEnd(i)' \/ (listing = "unread" /\ written[i].read)
  <2>1. /\ i \notin Range(scrolled) /\ i \notin Range(items)
        /\ i \in present'
        /\ next = TheEnd \/ Key(i) >= next
    BY <1>2, <1>4, <1>8, <1>17 DEF Passed
  <2>2. CASE i \in Passed
    <3>1. TiesAPageEnd(i) => TiesAPageEnd(i)'
      <4>1. \A k \in 1 .. n : k \in 1 .. (n + Len(items)) /\ scrolled'[k] = scrolled[k]
        BY <1>5, <1>7
      <4> QED  BY <1>4, <1>5, <1>7, <4>1 DEF TiesAPageEnd, Key
    <3> QED  BY <2>1, <2>2, <3>1 DEF ScrollMissesNothing
  <2>3. CASE i \notin Passed /\ i \notin Matching
    <3>1. ~first /\ i \in present
      BY <1>2, <2>1, <2>3
    <3>2. i \in Visible /\ Key(i) \in Nat /\ Key(i) < cursor
      BY <1>10, <2>3, <3>1, WrittenRows DEF Passed, PagesTypeOK
    <3> QED  BY <2>3, <3>2 DEF Matching
  <2>4. CASE i \in Matching
    <3>1. /\ next \in Nat
          /\ Key(i) = next
      BY <1>3, <1>6, <2>1, <2>4 DEF TheEnd
    <3>2. listing \notin {"points", "history"}
      <4>1. listing \in {"points", "history"} => i = items[Limit]
        BY <1>13, <3>1 DEF Key
      <4>2. items[Limit] \in Range(items)
        BY <1>5, <1>13, <3>1 DEF Range
      <4> QED  BY <2>1, <4>1, <4>2
    <3>3. (n + Limit) % Limit = 0
      BY <1>5, <1>14, <3>1, MultipleModulo
    <3>4. TiesAPageEnd(i)'
      <4>1. n + Limit \in DOMAIN scrolled' /\ Key(scrolled'[n + Limit]) = Key(i)
        BY <1>7, <1>13, <3>1
      <4> QED  BY <1>2, <1>4, <3>3, <4>1 DEF TiesAPageEnd, Key
    <3> QED  BY <3>2, <3>4
  <2> QED  BY <2>2, <2>3, <2>4
<1>18. listing = "points" => Range(scrolled') \subseteq present'
  <2> SUFFICES ASSUME listing = "points" PROVE Range(scrolled') \subseteq present'
    OBVIOUS
  <2>1. Range(items) \subseteq Matching
    BY <1>5 DEF Range
  <2>2. CASE first
    BY <1>2, <1>8, <1>9, <2>1, <2>2
  <2>3. CASE ~first
    <3>1. \A i \in Matching : i \in present
      BY <1>6, <1>10, <2>3, WrittenRows DEF FrozenInv, Visible, Key
    <3>2. Range(scrolled) \subseteq present
      BY DEF ScrollMissesNothing
    <3> QED  BY <1>2, <1>8, <2>1, <2>3, <3>1, <3>2
  <2> QED  BY <2>2, <2>3
<1>19. ScrollMissesNothing'
  BY <1>2, <1>11, <1>17, <1>18 DEF ScrollMissesNothing
<1> QED  BY <1>12, <1>15, <1>16, <1>19

LEMMA PagesStep == PagesInv /\ [PagesNext]_pageVars => PagesInv'
<1> SUFFICES ASSUME PagesInv, [PagesNext]_pageVars PROVE PagesInv'
  OBVIOUS
<1>0. /\ PagesTypeOK /\ FrozenInv
      /\ Len(written) \in Nat /\ DOMAIN written = 1 .. Len(written)
      /\ \A i \in DOMAIN written : written[i] \in PageRow
      /\ Visible \subseteq DOMAIN written /\ Pending \subseteq DOMAIN written
  BY WrittenRows DEF PagesInv
<1>1. CASE InsertsRow
  <2> DEFINE new == [state |-> "pending", at |-> pageClock, read |-> FALSE]
  <2>1. new \in PageRow
    BY <1>0 DEF PagesTypeOK, PageRow
  <2>2. written' = Append(written, new) /\ UNCHANGED <<listing, asked, pageClock, cursor, scrolled, present>>
    BY <1>1 DEF InsertsRow
  <2>3. new.state = "pending"
    OBVIOUS
  <2> HIDE DEF new
  <2>4. /\ written' \in Seq(PageRow)
        /\ Len(written') = Len(written) + 1
        /\ DOMAIN written' = 1 .. (Len(written) + 1)
        /\ \A i \in DOMAIN written : written'[i] = written[i]
        /\ written'[Len(written) + 1] = new
    <3>1. written \in Seq(PageRow)
      BY <1>0 DEF PagesTypeOK
    <3>2. /\ written' \in Seq(PageRow)
          /\ Len(written') = Len(written) + 1
          /\ \A i \in 1 .. Len(written) : written'[i] = written[i]
          /\ written'[Len(written) + 1] = new
      BY <2>1, <2>2, <3>1, AppendProperties
    <3> QED  BY <1>0, <3>2, LenProperties
  <2>5. FrozenInv'
    <3> SUFFICES ASSUME listing = "points"
                 PROVE  /\ \A i \in Pending' : i = Len(written')
                        /\ cursor \in Nat => \A i \in DOMAIN written' :
                              i < cursor => i \in present \/ written'[i].state = "rolled back"
      BY <2>2 DEF FrozenInv
    <3>1. Pending = {}
      BY <1>1 DEF InsertsRow
    <3>2. \A i \in DOMAIN written' : i \in DOMAIN written \/ i = Len(written) + 1
      BY <1>0, <2>4
    <3>3. \A i \in Pending' : i = Len(written')
      BY <2>4, <3>1, <3>2 DEF Pending
    <3>4. cursor \in Nat => Len(written) + 1 >= cursor
      <4> SUFFICES ASSUME cursor \in Nat PROVE Len(written) + 1 >= cursor
        OBVIOUS
      <4>1. Key(scrolled[Len(scrolled)]) = cursor /\ Len(scrolled) \in DOMAIN scrolled
        BY <1>0, ScrolledRows DEF PagesInv, CursorInv
      <4>2. scrolled[Len(scrolled)] \in DOMAIN written
        BY <1>0, <4>1, ScrolledRows
      <4> QED  BY <1>0, <4>1, <4>2 DEF Key
    <3>5. ASSUME cursor \in Nat, NEW i \in DOMAIN written', i < cursor
          PROVE  i \in present \/ written'[i].state = "rolled back"
      <4>1. i \in DOMAIN written
        BY <1>0, <3>2, <3>4, <3>5
      <4> QED  BY <1>0, <2>4, <3>5, <4>1 DEF FrozenInv
    <3> QED  BY <3>3, <3>5
  <2>6. \A i \in Visible : i \in DOMAIN written' /\ written'[i] = written[i]
    BY <1>0, <2>4
  <2>7. pageClock' \in Nat
    BY <1>0, <2>2 DEF PagesTypeOK
  <2> QED  BY <2>2, <2>4, <2>5, <2>6, <2>7, WritesSpareTheScroll DEF Visible
<1>2. ASSUME NEW i \in DOMAIN written, NEW state \in {"committed", "rolled back"}, EndsRow(i, state)
      PROVE  PagesInv'
  <2>1. /\ DOMAIN written' = DOMAIN written
        /\ written' = [k \in DOMAIN written |-> written'[k]]
        /\ \A k \in DOMAIN written : k # i => written'[k] = written[k]
        /\ written'[i] = [written[i] EXCEPT !.state = state]
        /\ UNCHANGED <<listing, asked, pageClock, cursor, scrolled, present>>
        /\ i \in Pending
    BY <1>2 DEF EndsRow, Pending
  <2>2. \A k \in DOMAIN written : written'[k] \in PageRow
    BY <1>0, <2>1 DEF PageRow
  <2>3. written' \in Seq(PageRow)
    <3>1. written' \in [1 .. Len(written) -> PageRow]
      BY <1>0, <2>1, <2>2
    <3> QED  BY <1>0, <3>1, SeqDef
  <2>4. written'[i].state = state
    BY <1>0, <2>1 DEF PageRow
  <2>5. Pending' \subseteq Pending
    BY <2>1, <2>4 DEF Pending
  <2>6. Len(written') = Len(written)
    BY <1>0, <2>1, <2>3, SameLength DEF PagesTypeOK
  <2>7. FrozenInv'
    <3> SUFFICES ASSUME listing = "points"
                 PROVE  /\ \A k \in Pending' : k = Len(written')
                        /\ cursor \in Nat => \A k \in DOMAIN written :
                              k < cursor => k \in present \/ written'[k].state = "rolled back"
      BY <2>1 DEF FrozenInv
    <3>1. \A k \in Pending' : k = Len(written')
      BY <1>0, <2>5, <2>6 DEF FrozenInv
    <3>2. ASSUME cursor \in Nat, NEW k \in DOMAIN written, k < cursor
          PROVE  k \in present \/ written'[k].state = "rolled back"
      <4>1. k \in present \/ written[k].state = "rolled back"
        BY <1>0, <3>2 DEF FrozenInv
      <4>2. present \subseteq Visible
        BY <1>0 DEF PagesTypeOK
      <4>3. k # i
        BY <2>1, <4>1, <4>2 DEF Pending, Visible
      <4> QED  BY <2>1, <4>1, <4>3
    <3> QED  BY <3>1, <3>2
  <2>8. \A k \in Visible : k \in DOMAIN written' /\ written'[k] = written[k]
    <3>1. i \notin Visible
      BY <2>1 DEF Pending, Visible
    <3> QED  BY <1>0, <2>1, <3>1
  <2>9. pageClock' \in Nat
    BY <1>0, <2>1 DEF PagesTypeOK
  <2> QED  BY <2>1, <2>3, <2>7, <2>8, <2>9, WritesSpareTheScroll DEF Visible
<1>3. ASSUME NEW i \in DOMAIN written, MarksRead(i) PROVE PagesInv'
  <2>1. /\ DOMAIN written' = DOMAIN written
        /\ written' = [k \in DOMAIN written |-> written'[k]]
        /\ \A k \in DOMAIN written : k # i => written'[k] = written[k]
        /\ written'[i] = [written[i] EXCEPT !.read = TRUE]
        /\ UNCHANGED <<listing, asked, pageClock, cursor, scrolled, present>>
        /\ listing # "points"
    BY <1>3 DEF MarksRead
  <2>2. \A k \in DOMAIN written : written'[k] \in PageRow
    BY <1>0, <2>1 DEF PageRow
  <2>3. written' \in Seq(PageRow)
    <3>1. written' \in [1 .. Len(written) -> PageRow]
      BY <1>0, <2>1, <2>2
    <3> QED  BY <1>0, <3>1, SeqDef
  <2>4. /\ written'[i].state = written[i].state
        /\ written'[i].at = written[i].at
        /\ written'[i].read
    BY <1>0, <2>1 DEF PageRow
  <2>5. FrozenInv'
    BY <2>1 DEF FrozenInv
  <2>6. \A k \in Visible : /\ k \in DOMAIN written'
                           /\ written'[k].state = "committed"
                           /\ written'[k].at = written[k].at
                           /\ written[k].read => written'[k].read
    BY <1>0, <2>1, <2>4 DEF Visible
  <2>7. pageClock' \in Nat
    BY <1>0, <2>1 DEF PagesTypeOK
  <2> QED  BY <2>1, <2>3, <2>5, <2>6, <2>7, WritesSpareTheScroll
<1>4. CASE InstantPasses
  <2>1. UNCHANGED <<listing, asked, written, cursor, scrolled, present>> /\ pageClock' \in Nat
    BY <1>0, <1>4 DEF InstantPasses, PagesTypeOK
  <2>2. FrozenInv'
    BY <1>0, <2>1 DEF FrozenInv, Pending
  <2>3. written' \in Seq(PageRow)
    BY <1>0, <2>1 DEF PagesTypeOK
  <2> QED  BY <1>0, <2>1, <2>2, <2>3, WritesSpareTheScroll DEF Visible
<1>5. CASE ReadsPage
  BY <1>5, PageStep
<1>6. CASE UNCHANGED pageVars
  <2>1. UNCHANGED <<listing, asked, written, cursor, scrolled, present>> /\ pageClock' \in Nat
    BY <1>0, <1>6 DEF pageVars, PagesTypeOK
  <2>2. FrozenInv'
    BY <1>0, <2>1 DEF FrozenInv, Pending
  <2>3. written' \in Seq(PageRow)
    BY <1>0, <2>1 DEF PagesTypeOK
  <2> QED  BY <1>0, <2>1, <2>2, <2>3, WritesSpareTheScroll DEF Visible
<1> QED  BY <1>1, <1>2, <1>3, <1>4, <1>5, <1>6 DEF PagesNext

LEMMA PagesInvariant == PagesSpec => []PagesInv
BY PagesStart, PagesStep, PTL DEF PagesSpec

(* A scroll by cursor over any listing shows no row twice and misses none that *)
(* was there when it began, but for the listings' own losses.                  *)
THEOREM ScrollsNeverMiss == PagesSpec => []ScrollMissesNothing
<1>1. PagesInv => ScrollMissesNothing
  BY DEF PagesInv
<1> QED  BY <1>1, PagesInvariant, PTL
=============================================================================
