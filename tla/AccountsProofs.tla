--------------------------- MODULE AccountsProofs ---------------------------
(* Theorems about the members of a household: their accounts and sessions      *)
(* (Accounts), the client they use (WebClient), and who of them is drawn for a *)
(* chore (Draws).                                                              *)
EXTENDS Accounts, WebClient, Draws, RunningTotals, FiniteSetTheorems, SequenceTheorems

(* The rows of the tables, and the requests under way.                         *)
Roles == {"ADMIN", "MEMBER"}
Member == [household : Households, user : Users, role : Roles, active : BOOLEAN]
StoredSession == [user : Users, household : Households, knows : Nat, overtaken : BOOLEAN,
                  kept : BOOLEAN, live : BOOLEAN]

Registering == [at : {"REGISTERING"}, user : Users]
Verified == [at : {"VERIFIED"}, user : Users, knows : Nat, overtaken : BOOLEAN]
Enrolled == [at : {"ENROLLED"}, user : Users, knows : Nat, overtaken : BOOLEAN,
             household : Households]
AdmittedCall == [at : {"ADMITTED"}, session : Nat, user : Users, household : Households,
                 role : Roles]
Changing == [at : {"HASHING", "REVOKING"}, user : Users, keep : SUBSET Nat]
Adding == [at : {"ADDING", "JOINING"}, user : Users, role : Roles, household : Households]
Checked == [at : {"CHECKED"}, household : Households, target : Nat, change : Changes,
            was : Roles, admins : Nat]

Call == {Free} \cup Registering \cup Verified \cup Enrolled \cup AdmittedCall
           \cup Changing \cup Adding \cup Checked

TypeInv ==
    /\ password \in [Users -> 0 .. issued] /\ issued \in 1 .. MaxPasswords
    /\ members \in Seq(Member)
    /\ sessions \in Seq(StoredSession)
    /\ calls \in [Calls -> Call]
    /\ patches \in 0 .. MaxPatches /\ cutOff \subseteq Users

(* Who holds the hash of an account, and who is in a household.                *)
Account(u) == password[u] # NoAccount
Belongs(u, h) == \E i \in DOMAIN members : members[i].user = u /\ members[i].household = h
Knowing(c) == calls[c].at \in {"VERIFIED", "ENROLLED"}
Revoking(c, u) == calls[c].at = "REVOKING" /\ calls[c].user = u

(* The unique keys, and what the foreign keys promise.                         *)
KeysInv ==
    /\ \A i, j \in DOMAIN members :
          members[i].user = members[j].user /\ members[i].household = members[j].household
             => i = j
    /\ \A i \in DOMAIN members : Account(members[i].user)
    /\ \A s \in DOMAIN sessions : Belongs(sessions[s].user, sessions[s].household)
    /\ \A c \in Calls :
          /\ calls[c].at = "ENROLLED" => Belongs(calls[c].user, calls[c].household)
          /\ calls[c].at = "JOINING" => Account(calls[c].user)
          /\ calls[c].at = "ADMITTED" =>
                /\ calls[c].session \in DOMAIN sessions
                /\ sessions[calls[c].session].user = calls[c].user

(* A login that goes on knows the current password, or has been overtaken.     *)
LoginsInv ==
    \A c \in Calls :
        Knowing(c) =>
            /\ Account(calls[c].user)
            /\ calls[c].overtaken \/ calls[c].knows = password[calls[c].user]

(* A session that a change of password is to spare is one the change may       *)
(* leave open, or a later change will end it.                                  *)
SparedInv ==
    \A c \in Calls, s \in DOMAIN sessions :
        LET u == sessions[s].user IN
        Revoking(c, u) /\ s \in calls[c].keep /\ Live(s) =>
            \/ sessions[s].kept \/ sessions[s].overtaken
            \/ sessions[s].knows = password[u]
            \/ \E d \in Calls : Revoking(d, u) /\ s \notin calls[d].keep

(* What a PATCH that has been checked remembers of its check.                  *)
ChecksInv ==
    \A c \in Calls :
        LET r == calls[c] IN
        r.at = "CHECKED" =>
            /\ r.target \in DOMAIN members
            /\ members[r.target].household = r.household
            /\ r.was = "ADMIN" /\ ("MEMBER" \in r.change.role \/ FALSE \in r.change.active)
                  => r.admins > 1

LEMMA FunctionIsSeq ==
    ASSUME NEW S, NEW n \in Nat, NEW f \in [1 .. n -> S]
    PROVE  f \in Seq(S) /\ Len(f) = n /\ DOMAIN f = 1 .. n
<1>1. f \in Seq(S)
  BY SeqDef
<1> QED  BY <1>1, LenProperties

(* What kind of request a record is shows in its "at".                         *)
LEMMA CallShapes ==
    ASSUME NEW r \in Call
    PROVE  /\ r = Free <=> r.at = "FREE"
           /\ r.at = "REGISTERING" => r \in Registering
           /\ r.at = "VERIFIED" => r \in Verified
           /\ r.at = "ENROLLED" => r \in Enrolled
           /\ r.at = "ADMITTED" => r \in AdmittedCall
           /\ r.at \in {"HASHING", "REVOKING"} => r \in Changing
           /\ r.at \in {"ADDING", "JOINING"} => r \in Adding
           /\ r.at = "CHECKED" => r \in Checked
BY DEF Call, Free, Registering, Verified, Enrolled, AdmittedCall, Changing, Adding, Checked

LEMMA MemberRows ==
    ASSUME TypeInv
    PROVE  /\ Len(members) \in Nat /\ DOMAIN members = 1 .. Len(members)
           /\ \A i \in DOMAIN members : members[i] \in Member
BY LenProperties, ElementOfSeq DEF TypeInv

LEMMA SessionRows ==
    ASSUME TypeInv
    PROVE  /\ Len(sessions) \in Nat /\ DOMAIN sessions = 1 .. Len(sessions)
           /\ \A s \in DOMAIN sessions : sessions[s] \in StoredSession
BY LenProperties, ElementOfSeq DEF TypeInv

(* Rows, a set of row numbers, and Belongs, the question whether it is empty.  *)
LEMMA RowsAndBelongs ==
    ASSUME NEW u, NEW h
    PROVE  Rows(h, u) # {} <=> Belongs(u, h)
BY DEF Rows, Belongs

(* A PATCH leaves the household and the person of a row alone.                 *)
LEMMA PatchedRow ==
    ASSUME NEW row \in Member, NEW change \in Changes
    PROVE  /\ Patched(row, change) \in Member
           /\ Patched(row, change).user = row.user
           /\ Patched(row, change).household = row.household
           /\ Patched(row, change).role # "ADMIN" /\ row.role = "ADMIN"
                 => "MEMBER" \in change.role
           /\ ~Patched(row, change).active /\ row.active => FALSE \in change.active
<1>1. /\ change.role = {} \/ \E x \in Roles : change.role = {x}
      /\ change.active = {} \/ \E x \in BOOLEAN : change.active = {x}
  BY AccountsAssumption DEF Roles
<1> DEFINE role == IF change.role = {} THEN row.role ELSE CHOOSE x \in change.role : TRUE
           active == IF change.active = {} THEN row.active ELSE CHOOSE x \in change.active : TRUE
<1>2. /\ role \in Roles /\ (role = row.role \/ role \in change.role)
      /\ active \in BOOLEAN /\ (active = row.active \/ active \in change.active)
  BY <1>1 DEF Member
<1>3. Patched(row, change) = [row EXCEPT !.role = role, !.active = active]
  BY DEF Patched
<1> HIDE DEF role, active
<1>4. /\ Patched(row, change) \in Member
      /\ Patched(row, change).user = row.user
      /\ Patched(row, change).household = row.household
      /\ Patched(row, change).role = role /\ Patched(row, change).active = active
  BY <1>2, <1>3 DEF Member
<1> QED  BY <1>2, <1>4 DEF Roles, Member

(* What a step does to the rows of members.                                    *)
RowSame(i) == i \in DOMAIN members /\ members'[i] = members[i]
RowPatched(i) ==
    /\ i \in DOMAIN members
    /\ members'[i].user = members[i].user /\ members'[i].household = members[i].household
RowJoined(i) ==
    /\ i = Len(members) + 1 /\ password'[members'[i].user] # NoAccount
    /\ ~Belongs(members'[i].user, members'[i].household)

LEMMA JoinedRow ==
    ASSUME TypeInv, NEW x \in Member, ~Belongs(x.user, x.household), password'[x.user] # NoAccount,
           members' = Append(members, x)
    PROVE  /\ members' \in Seq(Member) /\ DOMAIN members \subseteq DOMAIN members'
           /\ \A i \in DOMAIN members' : RowSame(i) \/ RowJoined(i)
           /\ \A i \in DOMAIN members : members'[i] = members[i]
<1>1. /\ members \in Seq(Member) /\ Len(members) \in Nat
      /\ DOMAIN members = 1 .. Len(members)
  BY MemberRows DEF TypeInv
<1>2. /\ members' \in Seq(Member) /\ DOMAIN members' = 1 .. Len(members) + 1
      /\ \A i \in DOMAIN members : members'[i] = members[i]
      /\ members'[Len(members) + 1] = x
  BY <1>1, AppendProperties, LenProperties
<1>3. RowJoined(Len(members) + 1)
  BY <1>2 DEF RowJoined
<1> QED  BY <1>1, <1>2, <1>3 DEF RowSame

LEMMA MemberSteps ==
    ASSUME TypeInv, KeysInv, [Next]_vars
    PROVE  /\ members' \in Seq(Member) /\ DOMAIN members \subseteq DOMAIN members'
           /\ \A i \in DOMAIN members' : RowSame(i) \/ RowPatched(i) \/ RowJoined(i)
           /\ \/ \A i \in DOMAIN members : members'[i] = members[i]
              \/ \E c \in Calls : PatchWrite(c)
<1> DEFINE Kept == \A i \in DOMAIN members : members'[i] = members[i]
           Goal == /\ members' \in Seq(Member) /\ DOMAIN members \subseteq DOMAIN members'
                   /\ \A i \in DOMAIN members' : RowSame(i) \/ RowPatched(i) \/ RowJoined(i)
<1>1. ASSUME members' = members PROVE Goal /\ Kept
  BY <1>1 DEF RowSame, TypeInv
<1>2. ASSUME NEW c \in Calls, NEW h \in Households, RegisterCommit(c, h) PROVE Goal /\ Kept
  <2> DEFINE r == calls[c]
             x == NewMember(h, r.user, "ADMIN")
  <2>1. r \in Registering
    BY <1>2, CallShapes DEF RegisterCommit, TypeInv
  <2>2. x \in Member /\ x.user = r.user /\ x.household = h
    BY <2>1 DEF NewMember, Member, Registering, Roles
  <2>3. ~Belongs(r.user, h)
    BY <1>2 DEF RegisterCommit, Belongs
  <2>4. CASE password[r.user] # NoAccount
    BY <1>1, <1>2, <2>4 DEF RegisterCommit
  <2>5. CASE password[r.user] = NoAccount
    <3>1. members' = Append(members, x) /\ password' = [password EXCEPT ![r.user] = issued + 1]
      BY <1>2, <2>5 DEF RegisterCommit
    <3>2. password'[r.user] # NoAccount
      BY <2>1, <3>1 DEF TypeInv, NoAccount, Registering
    <3> HIDE DEF x, r
    <3>3. password'[x.user] # NoAccount
      BY <2>2, <3>2 DEF Account
    <3> QED  BY <2>2, <2>3, <3>1, <3>3, JoinedRow
  <2> QED  BY <2>4, <2>5
<1>3. ASSUME NEW c \in Calls, AddMember(c) PROVE Goal /\ Kept
  <2> DEFINE r == calls[c]
             x == NewMember(r.household, r.user, r.role)
  <2>1. r \in Adding /\ Account(r.user)
    BY <1>3, CallShapes DEF AddMember, TypeInv, KeysInv
  <2>2. x \in Member /\ x.user = r.user /\ x.household = r.household
    BY <2>1 DEF NewMember, Member, Adding
  <2>3. password' = password
    BY <1>3 DEF AddMember
  <2>4. \/ members' = members
        \/ members' = Append(members, x) /\ ~Belongs(r.user, r.household)
    BY <1>3, RowsAndBelongs DEF AddMember
  <2> HIDE DEF x, r
  <2>5. password'[x.user] # NoAccount
    BY <2>1, <2>2, <2>3 DEF Account
  <2> QED  BY <1>1, <2>2, <2>4, <2>5, JoinedRow
<1>4. ASSUME NEW c \in Calls, PatchWrite(c) PROVE Goal
  <2> DEFINE r == calls[c]
             new == Patched(members[r.target], r.change)
  <2>1. r \in Checked
    BY <1>4, CallShapes DEF PatchWrite, TypeInv
  <2>2. members' = [members EXCEPT ![r.target] = new]
    BY <1>4 DEF PatchWrite
  <2>3. r.target \in DOMAIN members =>
           /\ new \in Member
           /\ new.user = members[r.target].user /\ new.household = members[r.target].household
    BY <2>1, PatchedRow, MemberRows DEF Checked
  <2> HIDE DEF new, r
  <2>4. /\ members \in [1 .. Len(members) -> Member] /\ Len(members) \in Nat
        /\ DOMAIN members = 1 .. Len(members)
    BY LenProperties DEF TypeInv
  <2>5. members' \in [1 .. Len(members) -> Member]
    BY <2>2, <2>3, <2>4
  <2>6. members' \in Seq(Member) /\ DOMAIN members' = DOMAIN members
    BY <2>4, <2>5, FunctionIsSeq
  <2> QED  BY <2>2, <2>3, <2>4, <2>6 DEF RowSame, RowPatched
<1>5. \/ members' = members
      \/ \E c \in Calls, h \in Households : RegisterCommit(c, h)
      \/ \E c \in Calls : AddMember(c)
      \/ \E c \in Calls : PatchWrite(c)
  BY DEF Next, RegisterStart, LoginStart, LoginMembership, IssueSession, Admit, Logout,
         SwitchHousehold, ChangePassword, ResetPassword, StorePassword, RevokeSessions, AddStart,
         AddUser, PatchCheck, Expire, Crash, vars
<1> QED  BY <1>1, <1>2, <1>3, <1>4, <1>5

(* An account is never lost, and only a change of password changes the         *)
(* password of one that exists.                                                *)
LEMMA PasswordSteps ==
    ASSUME TypeInv, [Next]_vars
    PROVE  /\ password' \in [Users -> 0 .. issued'] /\ issued' \in 1 .. MaxPasswords
           /\ \A u \in Users :
                 /\ Account(u) => password'[u] # NoAccount
                 /\ \/ password'[u] = password[u] \/ ~Account(u)
                    \/ \E c \in Calls : StorePassword(c) /\ calls[c].user = u
<1>0. /\ password \in [Users -> 0 .. issued] /\ issued \in 1 .. MaxPasswords
      /\ MaxPasswords \in Nat
  BY AccountsAssumption DEF TypeInv
<1> DEFINE Set(u) == /\ issued < MaxPasswords /\ issued' = issued + 1
                     /\ password' = [password EXCEPT ![u] = issued + 1]
           Typed == password' \in [Users -> 0 .. issued'] /\ issued' \in 1 .. MaxPasswords
<1>1. ASSUME NEW u \in Users, Set(u)
      PROVE  /\ Typed
             /\ password'[u] # NoAccount
             /\ \A v \in Users : v # u => password'[v] = password[v]
  BY <1>0, <1>1 DEF NoAccount
<1>2. ASSUME NEW c \in Calls, NEW h \in Households, RegisterCommit(c, h)
      PROVE  \/ password' = password /\ issued' = issued
             \/ \E u \in Users : Set(u) /\ ~Account(u)
  <2>1. calls[c].user \in Users
    BY <1>2, CallShapes DEF RegisterCommit, TypeInv, Registering
  <2> QED  BY <1>2, <2>1 DEF RegisterCommit, Account
<1>3. ASSUME NEW c \in Calls, StorePassword(c)
      PROVE  calls[c].user \in Users /\ Set(calls[c].user)
  BY <1>3, CallShapes DEF StorePassword, TypeInv, Changing
<1>4. ASSUME NEW c \in Calls, AddUser(c)
      PROVE  \/ password' = password /\ issued' = issued
             \/ \E u \in Users : Set(u) /\ ~Account(u)
  <2>1. calls[c].user \in Users
    BY <1>4, CallShapes DEF AddUser, TypeInv, Adding
  <2> QED  BY <1>4, <2>1 DEF AddUser, Account
<1>5. \/ password' = password /\ issued' = issued
      \/ \E c \in Calls, h \in Households : RegisterCommit(c, h)
      \/ \E c \in Calls : StorePassword(c)
      \/ \E c \in Calls : AddUser(c)
  BY DEF Next, RegisterStart, LoginStart, LoginMembership, IssueSession, Admit, Logout,
         SwitchHousehold, ChangePassword, ResetPassword, AddMember, RevokeSessions, AddStart,
         PatchWrite, PatchCheck, Expire, Crash, vars
<1>6. \/ password' = password /\ issued' = issued
      \/ \E u \in Users :
            /\ Set(u)
            /\ ~Account(u) \/ \E c \in Calls : StorePassword(c) /\ calls[c].user = u
  BY <1>2, <1>3, <1>4, <1>5
<1> HIDE DEF Set
<1> QED  BY <1>0, <1>1, <1>6 DEF Account

(* What a step does to the session rows.                                       *)
SameLogin(s) ==
    /\ s \in DOMAIN sessions
    /\ sessions'[s].user = sessions[s].user /\ sessions'[s].knows = sessions[s].knows
    /\ sessions'[s].overtaken = sessions[s].overtaken /\ sessions'[s].live = sessions[s].live
SameHouse(s) == sessions'[s].household = sessions[s].household
SessionSame(s) ==
    /\ SameLogin(s) /\ sessions'[s].kept = sessions[s].kept
    /\ SameHouse(s) \/ Belongs(sessions[s].user, sessions'[s].household)
SessionEnded(s) ==
    /\ s \in DOMAIN sessions /\ SameHouse(s)
    /\ ~sessions'[s].live /\ sessions'[s].user = sessions[s].user
SessionJudged(s) ==
    /\ SameLogin(s) /\ SameHouse(s)
    /\ \E c \in Calls : StorePassword(c) /\ calls[c].user = sessions[s].user
SessionOpened(s) ==
    /\ s \notin DOMAIN sessions
    /\ \E c \in Calls :
          /\ IssueSession(c)
          /\ sessions'[s] = NewSession(calls[c].user, calls[c].household, calls[c].knows,
                                       calls[c].overtaken)

SessionMoved(s) ==
    SessionSame(s) \/ SessionEnded(s) \/ SessionJudged(s) \/ SessionOpened(s)

LEMMA EndedRow ==
    ASSUME NEW x \in StoredSession
    PROVE  /\ Ended(x) \in StoredSession /\ ~Ended(x).live
           /\ Ended(x).user = x.user /\ Ended(x).household = x.household
BY DEF Ended, StoredSession, NoAccount

(* A step that maps the rows one by one.                                       *)
LEMMA MappedSessions ==
    ASSUME TypeInv, DOMAIN sessions' = DOMAIN sessions,
           sessions' = [s \in DOMAIN sessions |-> sessions'[s]],
           \A s \in DOMAIN sessions : sessions'[s] \in StoredSession
    PROVE  sessions' \in Seq(StoredSession)
<1>1. sessions' \in [1 .. Len(sessions) -> StoredSession] /\ Len(sessions) \in Nat
  BY SessionRows
<1> QED  BY <1>1, FunctionIsSeq

LEMMA StoreSessions ==
    ASSUME TypeInv, NEW c \in Calls, StorePassword(c)
    PROVE  /\ sessions' \in Seq(StoredSession) /\ DOMAIN sessions' = DOMAIN sessions
           /\ \A s \in DOMAIN sessions :
                 /\ SessionSame(s) \/ SessionJudged(s)
                 /\ sessions[s].user = calls[c].user /\ Live(s) =>
                       sessions'[s].kept = (s \in calls[c].keep)
<1>1. sessions' = [s \in DOMAIN sessions |->
           IF sessions[s].user = calls[c].user /\ Live(s)
           THEN [sessions[s] EXCEPT !.kept = s \in calls[c].keep] ELSE sessions[s]]
  BY DEF StorePassword
<1>2. ASSUME NEW s \in DOMAIN sessions
      PROVE  /\ sessions'[s] \in StoredSession
             /\ SessionSame(s) \/ SessionJudged(s)
             /\ sessions[s].user = calls[c].user /\ Live(s) =>
                   sessions'[s].kept = (s \in calls[c].keep)
  <2>1. sessions[s] \in StoredSession
    BY SessionRows
  <2>2. CASE sessions[s].user = calls[c].user /\ Live(s)
    <3> DEFINE k == s \in calls[c].keep
    <3>1. sessions'[s] = [sessions[s] EXCEPT !.kept = k] /\ k \in BOOLEAN
      BY <1>1, <2>2
    <3> HIDE DEF k
    <3>2. /\ sessions'[s] \in StoredSession /\ sessions'[s].kept = k
          /\ SameLogin(s) /\ SameHouse(s)
      BY <2>1, <3>1 DEF StoredSession, SameLogin, SameHouse
    <3> QED  BY <2>2, <3>2 DEF SessionJudged, k
  <2>3. CASE ~(sessions[s].user = calls[c].user /\ Live(s))
    BY <1>1, <2>1, <2>3 DEF SessionSame, SameLogin, SameHouse
  <2> QED  BY <2>2, <2>3
<1> QED  BY <1>1, <1>2, MappedSessions

LEMMA RevokeEnds ==
    ASSUME TypeInv, NEW c \in Calls, RevokeSessions(c)
    PROVE  /\ sessions' \in Seq(StoredSession) /\ DOMAIN sessions' = DOMAIN sessions
           /\ \A s \in DOMAIN sessions :
                 /\ SessionSame(s) \/ SessionEnded(s)
                 /\ sessions[s].user = calls[c].user /\ s \notin calls[c].keep =>
                       ~sessions'[s].live
<1>1. sessions' = [s \in DOMAIN sessions |->
           IF RevokedBy(c, s) THEN Ended(sessions[s]) ELSE sessions[s]]
  BY DEF RevokeSessions
<1>2. \A s \in DOMAIN sessions : sessions[s] \in StoredSession
  BY SessionRows
<1>3. \A s \in DOMAIN sessions :
         /\ sessions'[s] \in StoredSession
         /\ RevokedBy(c, s) => SessionEnded(s)
         /\ ~RevokedBy(c, s) => SessionSame(s)
  BY <1>1, <1>2, EndedRow DEF SessionEnded, SessionSame, SameLogin, SameHouse
<1> QED  BY <1>1, <1>3, MappedSessions DEF RevokedBy, SessionEnded

(* A single session ends: by logging out, or by its age.                       *)
LEMMA EndsOne ==
    ASSUME TypeInv, NEW i, sessions' = [sessions EXCEPT ![i] = Ended(@)]
    PROVE  /\ sessions' \in Seq(StoredSession) /\ DOMAIN sessions' = DOMAIN sessions
           /\ \A s \in DOMAIN sessions : SessionSame(s) \/ SessionEnded(s)
<1>1. \A s \in DOMAIN sessions : sessions[s] \in StoredSession
  BY SessionRows
<1>2. /\ DOMAIN sessions' = DOMAIN sessions
      /\ \A s \in DOMAIN sessions :
            sessions'[s] = IF s = i THEN Ended(sessions[s]) ELSE sessions[s]
  BY SessionRows
<1>3. \A s \in DOMAIN sessions :
         sessions'[s] \in StoredSession /\ (SessionSame(s) \/ SessionEnded(s))
  BY <1>1, <1>2, EndedRow DEF SessionEnded, SessionSame, SameLogin, SameHouse
<1>4. sessions' = [s \in DOMAIN sessions |-> sessions'[s]]
  OBVIOUS
<1> QED  BY <1>2, <1>3, <1>4, MappedSessions

LEMMA OpensOne ==
    ASSUME TypeInv, NEW c \in Calls, IssueSession(c)
    PROVE  /\ sessions' \in Seq(StoredSession) /\ DOMAIN sessions \subseteq DOMAIN sessions'
           /\ \A s \in DOMAIN sessions' : SessionSame(s) \/ SessionOpened(s)
<1> DEFINE r == calls[c]
           x == NewSession(r.user, r.household, r.knows, r.overtaken)
<1>1. r \in Enrolled
  BY CallShapes DEF IssueSession, TypeInv
<1>2. x \in StoredSession
  BY <1>1 DEF NewSession, StoredSession, Enrolled
<1>3. sessions' = Append(sessions, x)
  BY DEF IssueSession
<1>4. \A s \in DOMAIN sessions' : s \notin DOMAIN sessions /\ sessions'[s] = x => SessionOpened(s)
  BY DEF SessionOpened
<1> HIDE DEF r, x
<1>5. /\ sessions \in Seq(StoredSession) /\ Len(sessions) \in Nat
      /\ DOMAIN sessions = 1 .. Len(sessions)
  BY SessionRows DEF TypeInv
<1>6. /\ sessions' \in Seq(StoredSession) /\ DOMAIN sessions' = 1 .. Len(sessions) + 1
      /\ \A s \in DOMAIN sessions : sessions'[s] = sessions[s]
      /\ sessions'[Len(sessions) + 1] = x
  BY <1>2, <1>3, <1>5, AppendProperties, LenProperties
<1>7. SessionOpened(Len(sessions) + 1)
  BY <1>4, <1>5, <1>6
<1> QED  BY <1>5, <1>6, <1>7 DEF SessionSame, SameLogin, SameHouse

LEMMA SessionSteps ==
    ASSUME TypeInv, KeysInv, [Next]_vars
    PROVE  /\ sessions' \in Seq(StoredSession) /\ DOMAIN sessions \subseteq DOMAIN sessions'
           /\ \A s \in DOMAIN sessions' : SessionMoved(s)
<1> DEFINE Goal == /\ sessions' \in Seq(StoredSession) /\ DOMAIN sessions \subseteq DOMAIN sessions'
                   /\ \A s \in DOMAIN sessions' : SessionMoved(s)
<1>1. ASSUME sessions' = sessions PROVE Goal
  BY <1>1 DEF TypeInv, SessionMoved, SessionSame, SameLogin, SameHouse
<1>2. ASSUME NEW c \in Calls, IssueSession(c) PROVE Goal
  BY <1>2, OpensOne DEF SessionMoved
<1>3. ASSUME NEW c \in Calls, Logout(c) PROVE Goal
  BY <1>3, EndsOne DEF Logout, SessionMoved
<1>4. ASSUME NEW c \in Calls, NEW h \in Households, SwitchHousehold(c, h) PROVE Goal
  <2>1. /\ calls[c].session \in DOMAIN sessions
        /\ sessions[calls[c].session].user = calls[c].user
    BY <1>4 DEF SwitchHousehold, Admitted, KeysInv
  <2>2. Belongs(calls[c].user, h)
    BY <1>4, RowsAndBelongs DEF SwitchHousehold
  <2> DEFINE i == calls[c].session
             x == [sessions[i] EXCEPT !.household = h]
  <2>3. sessions' = [sessions EXCEPT ![i] = x]
    BY <1>4 DEF SwitchHousehold
  <2>4. \A s \in DOMAIN sessions : sessions[s] \in StoredSession
    BY SessionRows
  <2>5. /\ x \in StoredSession /\ x.user = sessions[i].user /\ x.knows = sessions[i].knows
        /\ x.overtaken = sessions[i].overtaken /\ x.live = sessions[i].live
        /\ x.kept = sessions[i].kept /\ x.household = h
    BY <2>1, <2>4 DEF StoredSession
  <2> HIDE DEF x, i
  <2>6. /\ DOMAIN sessions' = DOMAIN sessions
        /\ sessions' = [s \in DOMAIN sessions |-> sessions'[s]]
        /\ \A s \in DOMAIN sessions : sessions'[s] = IF s = i THEN x ELSE sessions[s]
    BY <2>3
  <2>7. \A s \in DOMAIN sessions : sessions'[s] \in StoredSession /\ SessionSame(s)
    BY <2>1, <2>2, <2>4, <2>5, <2>6 DEF SessionSame, SameLogin, SameHouse, i
  <2> QED  BY <2>6, <2>7, MappedSessions DEF SessionMoved
<1>5. ASSUME NEW c \in Calls, StorePassword(c) PROVE Goal
  BY <1>5, StoreSessions DEF SessionMoved
<1>6. ASSUME NEW c \in Calls, RevokeSessions(c) PROVE Goal
  BY <1>6, RevokeEnds DEF SessionMoved
<1>7. ASSUME NEW s \in DOMAIN sessions, Expire(s) PROVE Goal
  BY <1>7, EndsOne DEF Expire, SessionMoved
<1>8. \/ sessions' = sessions
      \/ \E c \in Calls : IssueSession(c) \/ Logout(c) \/ StorePassword(c) \/ RevokeSessions(c)
      \/ \E c \in Calls, h \in Households : SwitchHousehold(c, h)
      \/ \E s \in DOMAIN sessions : Expire(s)
  BY DEF Next, RegisterStart, RegisterCommit, LoginStart, LoginMembership, Admit,
         ChangePassword, ResetPassword, AddMember, AddUser, AddStart, PatchWrite, PatchCheck,
         Crash, vars
<1> QED  BY <1>1, <1>2, <1>3, <1>4, <1>5, <1>6, <1>7, <1>8

(* What a step does to a request.                                              *)
BelongsNext(u, h) ==
    \E i \in DOMAIN members' : members'[i].user = u /\ members'[i].household = h
CallSame(d) == calls'[d] = calls[d]
CallFreed(d) ==
    /\ calls'[d] = Free
    /\ calls[d].at = "REVOKING" => RevokeSessions(d) \/ Crash
CallBegun(d) ==
    /\ ~Knowing(d) /\ calls[d].at # "REVOKING"
    /\ calls'[d].at \in {"REGISTERING", "HASHING", "ADDING"}
CallAdmitted(d) ==
    /\ calls[d] = Free /\ calls'[d].at = "ADMITTED" /\ calls'[d].session \in DOMAIN sessions
    /\ calls'[d].user = sessions[calls'[d].session].user
CallVerified(d) ==
    /\ calls[d] = Free /\ calls'[d].at = "VERIFIED" /\ password' = password
    /\ Account(calls'[d].user) /\ calls'[d].knows = password[calls'[d].user]
CallRegistered(d) ==
    /\ \E h \in Households : RegisterCommit(d, h)
    /\ calls'[d].at = "ENROLLED" /\ password'[calls'[d].user] # NoAccount
    /\ calls'[d].knows = password'[calls'[d].user]
    /\ BelongsNext(calls'[d].user, calls'[d].household)
CallEnrolled(d) ==
    /\ Knowing(d) /\ password' = password
    /\ calls'[d].at = "ENROLLED" /\ calls'[d].user = calls[d].user
    /\ calls'[d].knows = calls[d].knows /\ calls'[d].overtaken = calls[d].overtaken
    /\ Belongs(calls'[d].user, calls'[d].household)
CallOvertaken(d) ==
    /\ Knowing(d) /\ \E c \in Calls : StorePassword(c)
    /\ calls'[d].at = calls[d].at /\ calls'[d].user = calls[d].user /\ calls'[d].overtaken
    /\ calls[d].at = "ENROLLED" => calls'[d].household = calls[d].household
CallStored(d) ==
    /\ StorePassword(d) /\ calls'[d].at = "REVOKING"
    /\ calls'[d].user = calls[d].user /\ calls'[d].keep = calls[d].keep
CallJoining(d) ==
    /\ calls[d].at = "ADDING" /\ calls'[d].at = "JOINING"
    /\ password'[calls'[d].user] # NoAccount
CallChecked(d) ==
    LET r == calls'[d] IN
    /\ calls[d].at = "ADMITTED" /\ r.at = "CHECKED" /\ members' = members
    /\ r.target \in DOMAIN members /\ members[r.target].household = r.household
    /\ r.was = "ADMIN" /\ ("MEMBER" \in r.change.role \/ FALSE \in r.change.active)
          => r.admins > 1

CallMoved(d) ==
    \/ CallSame(d) \/ CallFreed(d) \/ CallBegun(d) \/ CallAdmitted(d) \/ CallVerified(d)
    \/ CallRegistered(d) \/ CallEnrolled(d) \/ CallOvertaken(d) \/ CallStored(d)
    \/ CallJoining(d) \/ CallChecked(d)

LEMMA AdminsCounted ==
    ASSUME TypeInv, NEW h
    PROVE  IsFiniteSet(Admins(h)) /\ Cardinality(Admins(h)) \in Nat
<1>1. IsFiniteSet(DOMAIN members)
  BY MemberRows, FS_Interval
<1>2. Admins(h) \subseteq DOMAIN members
  BY DEF Admins
<1> QED  BY <1>1, <1>2, FS_Subset, FS_CardinalityType

(* The request of a step moves as its action says, and the others wait.        *)
LEMMA OneCall ==
    ASSUME TypeInv, NEW c \in Calls, NEW r \in Call, calls' = [calls EXCEPT ![c] = r],
           calls'[c] = r => CallMoved(c)
    PROVE  calls' \in [Calls -> Call] /\ \A d \in Calls : CallMoved(d)
BY DEF TypeInv, CallMoved, CallSame

LEMMA AnsweredCall ==
    ASSUME TypeInv, NEW c \in Calls, Answer(c), calls[c].at = "REVOKING" => RevokeSessions(c)
    PROVE  calls' \in [Calls -> Call] /\ \A d \in Calls : CallMoved(d)
<1>1. Free \in Call /\ calls' = [calls EXCEPT ![c] = Free]
  BY DEF Answer, Call
<1>2. calls'[c] = Free => CallMoved(c)
  BY DEF CallMoved, CallFreed
<1> QED  BY <1>1, <1>2, OneCall

LEMMA LoginCalls ==
    ASSUME TypeInv, KeysInv, NEW c \in Calls,
           \/ \E u \in Users : RegisterStart(c, u)
           \/ \E h \in Households : RegisterCommit(c, h)
           \/ \E u \in Users : LoginStart(c, u)
           \/ LoginMembership(c) \/ IssueSession(c)
    PROVE  calls' \in [Calls -> Call] /\ \A d \in Calls : CallMoved(d)
<1> DEFINE Goal == calls' \in [Calls -> Call] /\ \A d \in Calls : CallMoved(d)
<1>0. calls \in [Calls -> Call] /\ calls[c] \in Call
  BY DEF TypeInv
<1>1. ASSUME NEW u \in Users, RegisterStart(c, u) PROVE Goal
  <2> DEFINE r == [at |-> "REGISTERING", user |-> u]
  <2>1. r \in Call /\ r.at = "REGISTERING" /\ calls' = [calls EXCEPT ![c] = r]
    BY <1>1 DEF RegisterStart, Call, Registering
  <2>2. calls'[c] = r => CallMoved(c)
    BY <1>1 DEF RegisterStart, CallMoved, CallBegun, Knowing, Free
  <2> QED  BY <2>1, <2>2, OneCall
<1>2. ASSUME NEW h \in Households, RegisterCommit(c, h) PROVE Goal
  <2> DEFINE u == calls[c].user
             r == [at |-> "ENROLLED", user |-> u, household |-> h, knows |-> issued + 1,
                   overtaken |-> FALSE]
             x == NewMember(h, u, "ADMIN")
  <2>1. u \in Users
    BY <1>0, <1>2, CallShapes DEF RegisterCommit, Registering
  <2>2. CASE password[u] # NoAccount
    <3>1. Answer(c) /\ calls[c].at # "REVOKING"
      BY <1>2, <2>2 DEF RegisterCommit
    <3> QED  BY <3>1, AnsweredCall
  <2>3. CASE password[u] = NoAccount
    <3>1. /\ password' = [password EXCEPT ![u] = issued + 1]
          /\ members' = Append(members, x)
          /\ calls' = [calls EXCEPT ![c] = r]
      BY <1>2, <2>3 DEF RegisterCommit
    <3>2. r \in Call
      BY <2>1 DEF Call, Enrolled, TypeInv
    <3>3. password'[u] = issued + 1 /\ issued + 1 # NoAccount
      BY <2>1, <3>1 DEF TypeInv, NoAccount
    <3>4. x \in Member /\ x.user = u /\ x.household = h
      BY <2>1 DEF NewMember, Member, Roles
    <3>5. \E i \in DOMAIN members' : members'[i].user = u /\ members'[i].household = h
      <4> HIDE DEF u, x
      <4>1. /\ members' \in Seq(Member) /\ Len(members') = Len(members) + 1
            /\ members'[Len(members) + 1] = x /\ Len(members) \in Nat
        BY <3>1, <3>4, AppendProperties, LenProperties DEF TypeInv
      <4>2. Len(members) + 1 \in DOMAIN members'
        BY <4>1, LenProperties
      <4> QED  BY <3>4, <4>1, <4>2
    <3>6. calls'[c] = r => CallRegistered(c)
      <4> SUFFICES ASSUME calls'[c] = r PROVE CallRegistered(c)
        OBVIOUS
      <4>1. /\ calls'[c].at = "ENROLLED" /\ calls'[c].user = u /\ calls'[c].household = h
            /\ calls'[c].knows = issued + 1
        OBVIOUS
      <4> HIDE DEF u, r, x
      <4> QED  BY <1>2, <3>3, <3>5, <4>1 DEF CallRegistered, BelongsNext
    <3> HIDE DEF r, u, x
    <3> QED  BY <3>1, <3>2, <3>6, OneCall DEF CallMoved
  <2> QED  BY <2>2, <2>3
<1>3. ASSUME NEW u \in Users, LoginStart(c, u) PROVE Goal
  <2> DEFINE r == [at |-> "VERIFIED", user |-> u, knows |-> password[u], overtaken |-> FALSE]
  <2>1. r \in Call /\ calls' = [calls EXCEPT ![c] = r]
    BY <1>3 DEF LoginStart, Call, Verified, TypeInv
  <2>2. calls'[c] = r => CallVerified(c)
    BY <1>3 DEF LoginStart, CallVerified, Account
  <2> HIDE DEF r
  <2> QED  BY <2>1, <2>2, OneCall DEF CallMoved
<1>4. ASSUME LoginMembership(c) PROVE Goal
  <2> DEFINE mine == {i \in DOMAIN members : members[i].user = calls[c].user /\ members[i].active}
             h == members[Min(mine)].household
             r == [at |-> "ENROLLED", user |-> calls[c].user, knows |-> calls[c].knows,
                   overtaken |-> calls[c].overtaken, household |-> h]
  <2>1. calls[c] \in Verified /\ Knowing(c) /\ calls[c].at = "VERIFIED" /\ password' = password
    BY <1>0, <1>4, CallShapes DEF LoginMembership, Knowing
  <2>2. CASE mine = {}
    <3>1. Answer(c)
      BY <1>4, <2>2 DEF LoginMembership
    <3> QED  BY <2>1, <3>1, AnsweredCall
  <2>3. CASE mine # {}
    <3>1. calls' = [calls EXCEPT ![c] = r]
      BY <1>4, <2>3 DEF LoginMembership
    <3>2. Min(mine) \in mine
      <4>1. mine \subseteq Nat
        BY MemberRows
      <4>2. PICK i \in mine : \A j \in mine : i <= j
        BY <2>3, <4>1, SmallestOf
      <4> HIDE DEF mine
      <4> QED  BY <4>2 DEF Min
    <3>3. h \in Households /\ Belongs(calls[c].user, h)
      BY <3>2, MemberRows DEF Member, Belongs
    <3> HIDE DEF h
    <3>4. r \in Call
      BY <2>1, <3>3 DEF Call, Enrolled, Verified
    <3>5. calls'[c] = r => CallEnrolled(c)
      BY <2>1, <3>3 DEF CallEnrolled
    <3> HIDE DEF r
    <3> QED  BY <3>1, <3>4, <3>5, OneCall DEF CallMoved
  <2> QED  BY <2>2, <2>3
<1>5. ASSUME IssueSession(c) PROVE Goal
  BY <1>5, AnsweredCall DEF IssueSession
<1> QED  BY <1>1, <1>2, <1>3, <1>4, <1>5

LEMMA SessionCalls ==
    ASSUME TypeInv, KeysInv, NEW c \in Calls,
           \/ \E s \in DOMAIN sessions : Admit(c, s)
           \/ Logout(c) \/ \E h \in Households : SwitchHousehold(c, h)
           \/ ChangePassword(c) \/ \E u \in Users : ResetPassword(c, u)
           \/ RevokeSessions(c)
    PROVE  calls' \in [Calls -> Call] /\ \A d \in Calls : CallMoved(d)
<1> DEFINE Goal == calls' \in [Calls -> Call] /\ \A d \in Calls : CallMoved(d)
<1>0. calls \in [Calls -> Call] /\ calls[c] \in Call
  BY DEF TypeInv
<1>1. ASSUME NEW s \in DOMAIN sessions, Admit(c, s) PROVE Goal
  <2>1. PICK i \in ContextOf(s) :
           calls' = [calls EXCEPT ![c] =
               [at |-> "ADMITTED", session |-> s, user |-> sessions[s].user,
                household |-> members[i].household, role |-> members[i].role]]
    BY <1>1 DEF Admit
  <2> DEFINE r == [at |-> "ADMITTED", session |-> s, user |-> sessions[s].user,
                   household |-> members[i].household, role |-> members[i].role]
  <2>2. members[i] \in Member
    BY <2>1, MemberRows DEF ContextOf, Rows
  <2>3. sessions[s] \in StoredSession /\ s \in Nat
    BY SessionRows
  <2>4. r \in Call
    BY <2>2, <2>3 DEF Call, AdmittedCall, Member, StoredSession
  <2>5. calls'[c] = r => CallAdmitted(c)
    BY <1>1 DEF Admit, CallAdmitted
  <2> HIDE DEF r
  <2> QED  BY <2>1, <2>4, <2>5, OneCall DEF CallMoved, r
<1>2. ASSUME Answer(c), calls[c].at = "REVOKING" => RevokeSessions(c) PROVE Goal
  BY <1>2, AnsweredCall
<1>3. ASSUME NEW u \in Users, NEW keep \in SUBSET Nat, calls[c].at = "ADMITTED",
             calls' = [calls EXCEPT ![c] = [at |-> "HASHING", user |-> u, keep |-> keep]]
      PROVE  Goal
  <2> DEFINE r == [at |-> "HASHING", user |-> u, keep |-> keep]
  <2>1. r \in Call
    BY DEF Call, Changing
  <2>2. calls'[c] = r => CallBegun(c)
    BY <1>3 DEF CallBegun, Knowing
  <2> QED  BY <1>3, <2>1, <2>2, OneCall DEF CallMoved
<1>4. ASSUME ChangePassword(c) PROVE Goal
  <2>1. calls[c].at = "ADMITTED" /\ calls[c].user \in Users /\ {calls[c].session} \in SUBSET Nat
    BY <1>0, <1>4, CallShapes DEF ChangePassword, Admitted, AdmittedCall
  <2>2. calls' = [calls EXCEPT ![c] = [at |-> "HASHING", user |-> calls[c].user,
                                       keep |-> {calls[c].session}]]
    BY <1>4 DEF ChangePassword
  <2> QED  BY <1>3, <2>1, <2>2
<1>5. ASSUME NEW u \in Users, ResetPassword(c, u) PROVE Goal
  <2>1. calls' = [calls EXCEPT ![c] = [at |-> "HASHING", user |-> u, keep |-> {}]]
    BY <1>5 DEF ResetPassword
  <2>2. calls[c].at = "ADMITTED" /\ {} \in SUBSET Nat
    BY <1>5 DEF ResetPassword, Admitted
  <2> QED  BY <1>3, <2>1, <2>2
<1>6. ASSUME \/ Logout(c) \/ \E h \in Households : SwitchHousehold(c, h)
             \/ RevokeSessions(c)
      PROVE  Goal
  BY <1>2, <1>6 DEF Logout, SwitchHousehold, RevokeSessions, Admitted
<1> QED  BY <1>1, <1>4, <1>5, <1>6

LEMMA StoredCalls ==
    ASSUME TypeInv, NEW c \in Calls, StorePassword(c)
    PROVE  /\ calls' \in [Calls -> Call] /\ \A d \in Calls : CallMoved(d)
           /\ calls'[c].at = "REVOKING" /\ calls'[c].user = calls[c].user
           /\ calls'[c].keep = calls[c].keep
           /\ \A d \in Calls : Knowing(d) /\ calls[d].user = calls[c].user => calls'[d].overtaken
<1>0. calls \in [Calls -> Call]
  BY DEF TypeInv
<1> DEFINE Lost(d) == Knowing(d) /\ calls[d].user = calls[c].user
<1>1. /\ calls' = [d \in Calls |-> calls'[d]]
      /\ calls'[c] = [calls[c] EXCEPT !.at = "REVOKING"]
      /\ \A d \in Calls \ {c} :
            calls'[d] = IF Lost(d) THEN [calls[d] EXCEPT !.overtaken = TRUE] ELSE calls[d]
  BY DEF StorePassword, Knowing
<1>2. calls[c] \in Changing /\ ~Knowing(c)
  BY <1>0, CallShapes DEF StorePassword, Knowing
<1>3. /\ calls'[c] \in Changing /\ calls'[c].at = "REVOKING"
      /\ calls'[c].user = calls[c].user /\ calls'[c].keep = calls[c].keep
  BY <1>1, <1>2 DEF Changing
<1>4. ASSUME NEW d \in Calls \ {c}, Lost(d)
      PROVE  calls'[d] \in Call /\ CallOvertaken(d) /\ calls'[d].overtaken
  <2>1. calls[d] \in Verified \/ calls[d] \in Enrolled
    BY <1>0, <1>4, CallShapes DEF Knowing
  <2>2. /\ calls'[d] \in Verified \/ calls'[d] \in Enrolled
        /\ calls'[d].at = calls[d].at /\ calls'[d].user = calls[d].user
        /\ calls'[d].overtaken
        /\ calls[d].at = "ENROLLED" => calls'[d].household = calls[d].household
    BY <1>1, <1>4, <2>1 DEF Verified, Enrolled
  <2> QED  BY <1>4, <2>2 DEF CallOvertaken, Call
<1>5. ASSUME NEW d \in Calls \ {c}, ~Lost(d)
      PROVE  calls'[d] \in Call /\ CallSame(d)
  BY <1>0, <1>1, <1>5 DEF CallSame
<1>6. CallStored(c)
  BY <1>3 DEF CallStored
<1>7. \A d \in Calls : calls'[d] \in Call /\ CallMoved(d)
  BY <1>3, <1>4, <1>5, <1>6 DEF CallMoved, Call
<1>8. calls' \in [Calls -> Call]
  BY <1>1, <1>7
<1>9. \A d \in Calls : Lost(d) => calls'[d].overtaken
  BY <1>2, <1>4
<1> QED  BY <1>3, <1>7, <1>8, <1>9

LEMMA MemberCalls ==
    ASSUME TypeInv, KeysInv, NEW c \in Calls,
           \/ \E u \in Users, role \in {"ADMIN", "MEMBER"} : AddStart(c, u, role)
           \/ AddUser(c) \/ AddMember(c)
           \/ \E i \in DOMAIN members, change \in Changes : PatchCheck(c, i, change)
           \/ PatchWrite(c)
    PROVE  calls' \in [Calls -> Call] /\ \A d \in Calls : CallMoved(d)
<1> DEFINE Goal == calls' \in [Calls -> Call] /\ \A d \in Calls : CallMoved(d)
<1>0. calls \in [Calls -> Call] /\ calls[c] \in Call
  BY DEF TypeInv
<1>1. ASSUME NEW u \in Users, NEW role \in {"ADMIN", "MEMBER"}, AddStart(c, u, role) PROVE Goal
  <2> DEFINE h == calls[c].household
             r == [at |-> "ADDING", user |-> u, role |-> role, household |-> h]
  <2>1. h \in Households /\ calls[c].at = "ADMITTED"
    BY <1>0, <1>1, CallShapes DEF AddStart, Admitted, AdmittedCall
  <2>2. calls' = [calls EXCEPT ![c] = r]
    BY <1>1 DEF AddStart
  <2> HIDE DEF h
  <2>3. r \in Call
    BY <2>1 DEF Call, Adding, Roles
  <2>4. calls'[c] = r => CallBegun(c)
    BY <2>1 DEF CallBegun, Knowing
  <2> HIDE DEF r
  <2> QED  BY <2>2, <2>3, <2>4, OneCall DEF CallMoved
<1>2. ASSUME AddUser(c) PROVE Goal
  <2> DEFINE r == [calls[c] EXCEPT !.at = "JOINING"]
             u == calls[c].user
  <2>1. calls[c] \in Adding /\ calls[c].at = "ADDING"
    BY <1>0, <1>2, CallShapes DEF AddUser
  <2>2. r \in Adding /\ r.at = "JOINING" /\ r.user = u /\ u \in Users
    BY <2>1 DEF Adding
  <2>3. password'[u] # NoAccount
    <3>1. /\ password \in [Users -> 0 .. issued] /\ issued \in Nat
          /\ \/ password' = password /\ password[u] # NoAccount
             \/ password' = [password EXCEPT ![u] = issued + 1]
      BY <1>2 DEF AddUser, TypeInv
    <3> HIDE DEF u
    <3> QED  BY <2>2, <3>1 DEF NoAccount
  <2>4. Answer(c) \/ calls' = [calls EXCEPT ![c] = r]
    BY <1>2 DEF AddUser
  <2>5. calls'[c] = r => CallJoining(c)
    BY <2>1, <2>2, <2>3 DEF CallJoining
  <2>6. r \in Call
    BY <2>2 DEF Call
  <2> HIDE DEF r
  <2>7. CASE Answer(c)
    BY <2>1, <2>7, AnsweredCall
  <2>8. CASE calls' = [calls EXCEPT ![c] = r]
    BY <2>5, <2>6, <2>8, OneCall DEF CallMoved
  <2> QED  BY <2>4, <2>7, <2>8
<1>3. ASSUME AddMember(c) \/ PatchWrite(c) PROVE Goal
  BY <1>3, AnsweredCall DEF AddMember, PatchWrite
<1>4. ASSUME NEW i \in DOMAIN members, NEW change \in Changes, PatchCheck(c, i, change)
      PROVE  Goal
  <2> DEFINE h == calls[c].household
             n == Cardinality(Admins(h))
             r == [at |-> "CHECKED", household |-> h, target |-> i, change |-> change,
                   was |-> members[i].role, admins |-> n]
  <2>1. /\ h \in Households /\ calls[c].at = "ADMITTED" /\ members[i].household = h
        /\ members' = members
    BY <1>0, <1>4, CallShapes DEF PatchCheck, Admitted, AdmittedCall
  <2>2. members[i] \in Member /\ i \in Nat /\ n \in Nat
    BY MemberRows, AdminsCounted
  <2>3. \/ Answer(c)
        \/ /\ calls' = [calls EXCEPT ![c] = r]
           /\ ~(LosesAdmin(members[i], change) /\ n <= 1)
    BY <1>4 DEF PatchCheck, CountOfAdmins
  <2> HIDE DEF n, h
  <2>4. r \in Call
    BY <2>1, <2>2 DEF Call, Checked, Member
  <2>5. CASE Answer(c)
    BY <2>1, <2>5, AnsweredCall
  <2>6. CASE /\ calls' = [calls EXCEPT ![c] = r]
             /\ ~(LosesAdmin(members[i], change) /\ n <= 1)
    <3>1. /\ r.at = "CHECKED" /\ r.target = i /\ r.household = h /\ r.was = members[i].role
          /\ r.change = change /\ r.admins = n
      OBVIOUS
    <3> HIDE DEF r
    <3>2. /\ members[i].role = "ADMIN" /\ ("MEMBER" \in change.role \/ FALSE \in change.active)
                => n > 1
      <4>1. ~(n <= 1) => n > 1
        BY <2>2
      <4>2. ~LosesAdmin(members[i], change) \/ ~(n <= 1)
        BY <2>6
      <4> HIDE DEF r
      <4> QED  BY <4>1, <4>2, Zenon DEF LosesAdmin
    <3>3. calls'[c] = r => CallChecked(c)
      BY <2>1, <3>1, <3>2 DEF CallChecked
    <3> QED  BY <2>4, <2>6, <3>3, OneCall DEF CallMoved
  <2> QED  BY <2>3, <2>5, <2>6
<1> QED  BY <1>1, <1>2, <1>3, <1>4

LEMMA CallSteps ==
    ASSUME TypeInv, KeysInv, [Next]_vars
    PROVE  calls' \in [Calls -> Call] /\ \A d \in Calls : CallMoved(d)
<1>1. ASSUME calls' = calls
      PROVE  calls' \in [Calls -> Call] /\ \A d \in Calls : CallMoved(d)
  BY <1>1 DEF TypeInv, CallMoved, CallSame
<1>2. ASSUME Crash
      PROVE  calls' \in [Calls -> Call] /\ \A d \in Calls : CallMoved(d)
  <2>1. calls' = [d \in Calls |-> Free]
    BY <1>2 DEF Crash
  <2> QED  BY <1>2, <2>1 DEF CallMoved, CallFreed, Call
<1>3. \/ calls' = calls \/ Crash
      \/ \E c \in Calls :
           \/ \E u \in Users : RegisterStart(c, u)
           \/ \E h \in Households : RegisterCommit(c, h)
           \/ \E u \in Users : LoginStart(c, u)
           \/ LoginMembership(c) \/ IssueSession(c)
      \/ \E c \in Calls :
           \/ \E s \in DOMAIN sessions : Admit(c, s)
           \/ Logout(c) \/ \E h \in Households : SwitchHousehold(c, h)
           \/ ChangePassword(c) \/ \E u \in Users : ResetPassword(c, u)
           \/ RevokeSessions(c)
      \/ \E c \in Calls : StorePassword(c)
      \/ \E c \in Calls :
           \/ \E u \in Users, role \in {"ADMIN", "MEMBER"} : AddStart(c, u, role)
           \/ AddUser(c) \/ AddMember(c)
           \/ \E i \in DOMAIN members, change \in Changes : PatchCheck(c, i, change)
           \/ PatchWrite(c)
  BY DEF Next, Expire, vars
<1> QED  BY <1>1, <1>2, <1>3, LoginCalls, SessionCalls, StoredCalls, MemberCalls

(* The steps the accounts and their sessions take keep the types.              *)
LEMMA TypeStep ==
    ASSUME TypeInv, KeysInv, [Next]_vars
    PROVE  TypeInv'
<1>1. patches' \in 0 .. MaxPatches
  <2>1. patches' = patches \/ \E c \in Calls : PatchWrite(c)
    BY DEF Next, RegisterStart, RegisterCommit, LoginStart, LoginMembership,
           IssueSession, Admit, Logout, SwitchHousehold, ChangePassword, ResetPassword,
           StorePassword, RevokeSessions, AddStart, AddUser, AddMember, PatchCheck, Expire,
           Crash, vars
  <2>2. patches' = patches \/ (patches < MaxPatches /\ patches' = patches + 1)
    BY <2>1 DEF PatchWrite
  <2> QED  BY <2>2, AccountsAssumption DEF TypeInv
<1>2. cutOff' \subseteq Users
  <2>1. CASE Crash
    <3>1. \A c \in Calls : calls[c].at = "REVOKING" => calls[c].user \in Users
      BY CallShapes DEF TypeInv, Changing
    <3> QED  BY <2>1, <3>1 DEF Crash, TypeInv
  <2>2. CASE ~Crash
    <3>1. cutOff' \subseteq cutOff
      BY <2>2 DEF Next, RegisterStart, RegisterCommit, LoginStart, LoginMembership,
         IssueSession, Admit, Logout, SwitchHousehold, ChangePassword, ResetPassword,
         StorePassword, RevokeSessions, AddStart, AddUser, AddMember, PatchCheck, PatchWrite,
         Expire, vars
    <3> QED  BY <3>1 DEF TypeInv
  <2> QED  BY <2>1, <2>2
<1> QED  BY <1>1, <1>2, PasswordSteps, MemberSteps, SessionSteps, CallSteps DEF TypeInv

(* Memberships are never removed, so whoever was in a household stays in it.   *)
LEMMA BelongingStays ==
    ASSUME TypeInv, KeysInv, [Next]_vars
    PROVE  \A u, h : Belongs(u, h) => BelongsNext(u, h)
<1>1. ASSUME NEW i \in DOMAIN members
      PROVE  /\ i \in DOMAIN members' /\ members'[i].user = members[i].user
             /\ members'[i].household = members[i].household
  <2>1. i \in DOMAIN members' /\ (RowSame(i) \/ RowPatched(i) \/ RowJoined(i))
    BY MemberSteps
  <2>2. ~RowJoined(i)
    BY MemberRows DEF RowJoined
  <2> QED  BY <2>1, <2>2 DEF RowSame, RowPatched
<1> QED  BY <1>1 DEF Belongs, BelongsNext

LEMMA KeysStep ==
    ASSUME TypeInv, KeysInv, [Next]_vars
    PROVE  KeysInv'
<1>1. ASSUME NEW i \in DOMAIN members', NEW j \in DOMAIN members',
             members'[i].user = members'[j].user,
             members'[i].household = members'[j].household
      PROVE  i = j
  <2> DEFINE Stayed(k) == /\ k \in DOMAIN members /\ members'[k].user = members[k].user
                          /\ members'[k].household = members[k].household
  <2>1. /\ Stayed(i) \/ RowJoined(i)
        /\ Stayed(j) \/ RowJoined(j)
    BY MemberSteps DEF RowSame, RowPatched
  <2>2. \A k, l \in DOMAIN members' :
           RowJoined(k) /\ Stayed(l) => \/ members'[l].user # members'[k].user
                                        \/ members'[l].household # members'[k].household
    BY DEF RowJoined, Belongs
  <2>3. CASE Stayed(i) /\ Stayed(j)
    BY <1>1, <2>3 DEF KeysInv
  <2>4. CASE RowJoined(i) /\ RowJoined(j)
    BY <2>4 DEF RowJoined
  <2> QED  BY <1>1, <2>1, <2>2, <2>3, <2>4
<1>2. ASSUME NEW i \in DOMAIN members' PROVE password'[members'[i].user] # NoAccount
  <2>1. RowSame(i) \/ RowPatched(i) \/ RowJoined(i)
    BY MemberSteps
  <2>2. i \in DOMAIN members => members[i].user \in Users /\ Account(members[i].user)
    BY MemberRows DEF KeysInv, Member
  <2> QED  BY <2>1, <2>2, PasswordSteps DEF RowSame, RowPatched, RowJoined
<1>3. ASSUME NEW s \in DOMAIN sessions'
      PROVE  BelongsNext(sessions'[s].user, sessions'[s].household)
  <2>1. SessionMoved(s)
    BY SessionSteps
  <2>2. s \in DOMAIN sessions => Belongs(sessions[s].user, sessions[s].household)
    BY DEF KeysInv
  <2>3. ASSUME SessionOpened(s) PROVE Belongs(sessions'[s].user, sessions'[s].household)
    <3>1. PICK c \in Calls :
             /\ IssueSession(c)
             /\ sessions'[s] = NewSession(calls[c].user, calls[c].household, calls[c].knows,
                                          calls[c].overtaken)
      BY <2>3 DEF SessionOpened
    <3>2. Belongs(calls[c].user, calls[c].household)
      BY <3>1 DEF IssueSession, KeysInv
    <3> QED  BY <3>1, <3>2 DEF NewSession
  <2>4. Belongs(sessions'[s].user, sessions'[s].household)
    BY <2>1, <2>2, <2>3 DEF SessionMoved, SessionSame, SessionEnded, SessionJudged,
                            SameLogin, SameHouse
  <2> QED  BY <2>4, BelongingStays
<1>4. ASSUME NEW d \in Calls, calls'[d].at = "ENROLLED"
      PROVE  BelongsNext(calls'[d].user, calls'[d].household)
  <2>1. CallMoved(d)
    BY CallSteps
  <2>2. \/ CallSame(d) \/ CallRegistered(d) \/ CallEnrolled(d) \/ CallOvertaken(d)
    BY <1>4, <2>1 DEF CallMoved, CallFreed, Free, CallBegun, CallAdmitted, CallVerified,
                      CallStored, CallJoining, CallChecked
  <2>3. calls[d].at = "ENROLLED" => Belongs(calls[d].user, calls[d].household)
    BY DEF KeysInv
  <2>4. \/ Belongs(calls'[d].user, calls'[d].household)
        \/ BelongsNext(calls'[d].user, calls'[d].household)
    BY <1>4, <2>2, <2>3 DEF CallSame, CallRegistered, CallEnrolled, CallOvertaken
  <2> QED  BY <2>4, BelongingStays
<1>5. ASSUME NEW d \in Calls, calls'[d].at = "JOINING"
      PROVE  password'[calls'[d].user] # NoAccount
  <2>1. CallMoved(d)
    BY CallSteps
  <2>2. CallSame(d) \/ CallJoining(d) \/ CallOvertaken(d)
    BY <1>5, <2>1 DEF CallMoved, CallFreed, Free, CallBegun, CallAdmitted, CallVerified,
                      CallStored, CallRegistered, CallEnrolled, CallChecked
  <2>3. calls[d].at = "JOINING" => calls[d].user \in Users /\ Account(calls[d].user)
    BY CallShapes DEF KeysInv, TypeInv, Adding
  <2> QED  BY <1>5, <2>2, <2>3, PasswordSteps DEF CallSame, CallJoining, CallOvertaken, Knowing
<1>6. ASSUME NEW d \in Calls, calls'[d].at = "ADMITTED"
      PROVE  /\ calls'[d].session \in DOMAIN sessions'
             /\ sessions'[calls'[d].session].user = calls'[d].user
  <2>1. CallMoved(d)
    BY CallSteps
  <2>2. CallSame(d) \/ CallAdmitted(d) \/ CallOvertaken(d)
    BY <1>6, <2>1 DEF CallMoved, CallFreed, Free, CallBegun, CallVerified, CallJoining,
                      CallStored, CallRegistered, CallEnrolled, CallChecked
  <2>3. /\ calls'[d].session \in DOMAIN sessions
        /\ sessions[calls'[d].session].user = calls'[d].user
    BY <1>6, <2>2 DEF KeysInv, CallSame, CallAdmitted, CallOvertaken, Knowing
  <2>4. \A s \in DOMAIN sessions :
           s \in DOMAIN sessions' /\ sessions'[s].user = sessions[s].user
    BY SessionSteps DEF SessionMoved, SessionSame, SessionEnded, SessionJudged, SessionOpened,
                        SameLogin
  <2> QED  BY <2>3, <2>4
<1> QED  BY <1>1, <1>2, <1>3, <1>4, <1>5, <1>6 DEF KeysInv, Account, Belongs, BelongsNext

(* Logins, and the sessions they lead to.                                      *)
LEMMA LoginsStep ==
    ASSUME TypeInv, KeysInv, LoginsInv, [Next]_vars
    PROVE  LoginsInv'
<1> SUFFICES ASSUME NEW d \in Calls, calls'[d].at \in {"VERIFIED", "ENROLLED"}
             PROVE  /\ password'[calls'[d].user] # NoAccount
                    /\ \/ calls'[d].overtaken
                       \/ calls'[d].knows = password'[calls'[d].user]
  BY DEF LoginsInv, Knowing, Account
<1>1. \/ CallSame(d) \/ CallVerified(d) \/ CallRegistered(d) \/ CallEnrolled(d)
      \/ CallOvertaken(d)
  <2>1. CallMoved(d)
    BY CallSteps
  <2>2. ~CallFreed(d)
    BY DEF CallFreed, Free
  <2>3. ~CallBegun(d) /\ ~CallAdmitted(d)
    BY DEF CallBegun, CallAdmitted
  <2>4. ~CallStored(d) /\ ~CallJoining(d)
    BY DEF CallStored, CallJoining
  <2>5. ~CallChecked(d)
    BY DEF CallChecked
  <2> QED  BY <2>1, <2>2, <2>3, <2>4, <2>5 DEF CallMoved
<1>2. Knowing(d) => /\ calls[d].user \in Users /\ Account(calls[d].user)
                    /\ calls[d].overtaken \/ calls[d].knows = password[calls[d].user]
  BY CallShapes DEF LoginsInv, TypeInv, Knowing, Verified, Enrolled
<1>3. CASE CallSame(d)
  <2>1. /\ Knowing(d) /\ calls'[d].user = calls[d].user /\ calls'[d].knows = calls[d].knows
        /\ calls'[d].overtaken = calls[d].overtaken
    BY <1>3 DEF CallSame, Knowing
  <2>2. password'[calls[d].user] # NoAccount
    BY <1>2, <2>1, PasswordSteps
  <2>3. \/ password'[calls[d].user] = password[calls[d].user]
        \/ \E c \in Calls : StorePassword(c) /\ calls[c].user = calls[d].user
    BY <1>2, <2>1, PasswordSteps
  <2>4. CASE password'[calls[d].user] = password[calls[d].user]
    BY <1>2, <2>1, <2>2, <2>4
  <2>5. CASE \E c \in Calls : StorePassword(c) /\ calls[c].user = calls[d].user
    <3>1. \A c \in Calls : StorePassword(c) /\ calls[c].user = calls[d].user => calls'[d].overtaken
      BY <2>1, StoredCalls
    <3> QED  BY <2>1, <2>2, <2>5, <3>1
  <2> QED  BY <2>3, <2>4, <2>5
<1>4. CASE CallVerified(d)
  BY <1>4 DEF CallVerified, Account
<1>5. CASE CallRegistered(d)
  BY <1>5 DEF CallRegistered
<1>6. CASE CallEnrolled(d)
  BY <1>2, <1>6 DEF CallEnrolled, Account
<1>7. CASE CallOvertaken(d)
  <2>1. Account(calls[d].user) /\ calls[d].user \in Users
    BY <1>2, <1>7 DEF CallOvertaken
  <2>2. password'[calls[d].user] # NoAccount
    BY <2>1, PasswordSteps
  <2> QED  BY <1>7, <2>2 DEF CallOvertaken
<1> QED  BY <1>1, <1>3, <1>4, <1>5, <1>6, <1>7

(* Where a session stands whose password may be an old one.                    *)
Current(s) == sessions[s].knows = password[sessions[s].user]
CurrentNext(s) == sessions'[s].knows = password'[sessions'[s].user]
Excused(s) == sessions[s].kept \/ sessions[s].overtaken \/ Current(s)
ExcusedNext(s) == sessions'[s].kept \/ sessions'[s].overtaken \/ CurrentNext(s)
RevokingNext(c, u) == calls'[c].at = "REVOKING" /\ calls'[c].user = u

(* A step leaves a live session excused as it was, opens it with the password  *)
(* of the day, or is a change of its password, which judges it.                *)
LEMMA ExcusesStay ==
    ASSUME TypeInv, KeysInv, LoginsInv, [Next]_vars,
           NEW s \in DOMAIN sessions', sessions'[s].live
    PROVE  \/ /\ s \in DOMAIN sessions /\ Live(s) /\ sessions'[s].user = sessions[s].user
              /\ Excused(s) => ExcusedNext(s)
           \/ ExcusedNext(s)
           \/ \E e \in Calls :
                 /\ StorePassword(e) /\ s \in DOMAIN sessions /\ Live(s)
                 /\ sessions'[s].user = sessions[s].user
                 /\ calls[e].user = sessions[s].user
                 /\ sessions'[s].kept = (s \in calls[e].keep)
<1>1. SessionMoved(s)
  BY SessionSteps
<1>2. CASE SessionSame(s)
  <2>1. /\ s \in DOMAIN sessions /\ Live(s) /\ sessions'[s].user = sessions[s].user
        /\ sessions'[s].kept = sessions[s].kept
        /\ sessions'[s].overtaken = sessions[s].overtaken
        /\ sessions'[s].knows = sessions[s].knows
    BY <1>2 DEF SessionSame, SameLogin, Live
  <2>2. sessions[s].user \in Users /\ Account(sessions[s].user)
    <3>1. sessions[s].user \in Users
      BY <2>1, SessionRows DEF StoredSession
    <3>2. \E i \in DOMAIN members : members[i].user = sessions[s].user
      BY <2>1 DEF KeysInv, Belongs
    <3> QED  BY <3>1, <3>2 DEF KeysInv
  <2>3. \/ password'[sessions[s].user] = password[sessions[s].user]
        \/ \E e \in Calls : StorePassword(e) /\ calls[e].user = sessions[s].user
    BY <2>2, PasswordSteps
  <2>4. CASE password'[sessions[s].user] = password[sessions[s].user]
    BY <2>1, <2>4 DEF Excused, ExcusedNext, Current, CurrentNext
  <2>5. CASE \E e \in Calls : StorePassword(e) /\ calls[e].user = sessions[s].user
    BY <2>1, <2>5, StoreSessions
  <2> QED  BY <2>3, <2>4, <2>5
<1>3. CASE SessionEnded(s)
  BY <1>3 DEF SessionEnded
<1>4. CASE SessionJudged(s)
  <2>1. /\ s \in DOMAIN sessions /\ Live(s) /\ sessions'[s].user = sessions[s].user
    BY <1>4 DEF SessionJudged, SameLogin, Live
  <2> QED  BY <1>4, <2>1, StoreSessions DEF SessionJudged
<1>5. CASE SessionOpened(s)
  <2>1. PICK c \in Calls :
           /\ IssueSession(c)
           /\ sessions'[s] = NewSession(calls[c].user, calls[c].household, calls[c].knows,
                                        calls[c].overtaken)
    BY <1>5 DEF SessionOpened
  <2>2. /\ password' = password
        /\ calls[c].overtaken \/ calls[c].knows = password[calls[c].user]
    BY <2>1 DEF IssueSession, LoginsInv, Knowing
  <2>3. /\ sessions'[s].user = calls[c].user /\ sessions'[s].knows = calls[c].knows
        /\ sessions'[s].overtaken = calls[c].overtaken
    BY <2>1 DEF NewSession
  <2> QED  BY <2>2, <2>3 DEF ExcusedNext, CurrentNext
<1> QED  BY <1>1, <1>2, <1>3, <1>4, <1>5 DEF SessionMoved

(* A revocation under way stays, runs, or is lost in a crash.                  *)
LEMMA RevokingStays ==
    ASSUME TypeInv, KeysInv, [Next]_vars, NEW c \in Calls, calls[c].at = "REVOKING"
    PROVE  calls'[c] = calls[c] \/ RevokeSessions(c) \/ Crash
<1>1. CallMoved(c)
  BY CallSteps
<1> QED  BY <1>1 DEF CallMoved, CallSame, CallFreed, Free, CallBegun, CallAdmitted, CallVerified,
                     CallRegistered, RegisterCommit, CallEnrolled, Knowing, CallOvertaken,
                     CallStored, StorePassword, CallJoining, CallChecked

LEMMA SparedStep ==
    ASSUME TypeInv, KeysInv, LoginsInv, SparedInv, [Next]_vars
    PROVE  SparedInv'
<1> SUFFICES ASSUME NEW c \in Calls, NEW s \in DOMAIN sessions',
                    RevokingNext(c, sessions'[s].user), s \in calls'[c].keep, sessions'[s].live
             PROVE  \/ ExcusedNext(s)
                    \/ \E d \in Calls :
                          RevokingNext(d, sessions'[s].user) /\ s \notin calls'[d].keep
  BY DEF SparedInv, Revoking, RevokingNext, Live, ExcusedNext, CurrentNext
<1>1. CallSame(c) \/ CallStored(c)
  <2>1. CallMoved(c) /\ calls'[c].at = "REVOKING"
    BY CallSteps DEF RevokingNext
  <2>2. ~CallFreed(c) /\ ~CallBegun(c)
    BY <2>1 DEF CallFreed, CallBegun, Free
  <2>3. ~CallAdmitted(c) /\ ~CallVerified(c)
    BY <2>1 DEF CallAdmitted, CallVerified
  <2>4. ~CallRegistered(c) /\ ~CallEnrolled(c)
    BY <2>1 DEF CallRegistered, CallEnrolled
  <2>5. ~CallOvertaken(c) /\ ~CallJoining(c)
    BY <2>1 DEF CallOvertaken, CallJoining, Knowing
  <2>6. ~CallChecked(c)
    BY <2>1 DEF CallChecked
  <2> QED  BY <2>1, <2>2, <2>3, <2>4, <2>5, <2>6 DEF CallMoved
<1>2. ASSUME NEW e \in Calls, StorePassword(e), s \in DOMAIN sessions,
             sessions'[s].user = sessions[s].user, calls[e].user = sessions[s].user,
             sessions'[s].kept = (s \in calls[e].keep)
      PROVE  \/ ExcusedNext(s)
             \/ RevokingNext(e, sessions'[s].user) /\ s \notin calls'[e].keep
  <2>1. /\ calls'[e].at = "REVOKING" /\ calls'[e].user = sessions[s].user
        /\ calls'[e].keep = calls[e].keep
    BY <1>2, StoredCalls
  <2> QED  BY <1>2, <2>1 DEF ExcusedNext, RevokingNext
<1>3. CASE CallStored(c)
  <2>1. StorePassword(c) /\ calls[c].user = sessions'[s].user /\ s \in calls[c].keep
    BY <1>3 DEF CallStored, RevokingNext
  <2>2. s \in DOMAIN sessions /\ (SessionSame(s) \/ SessionJudged(s))
    BY <2>1, StoreSessions
  <2>3. Live(s) /\ sessions'[s].user = sessions[s].user
    BY <2>2 DEF SessionSame, SessionJudged, SameLogin, Live
  <2>4. sessions'[s].kept = (s \in calls[c].keep)
    BY <2>1, <2>2, <2>3, StoreSessions
  <2> QED  BY <2>1, <2>4 DEF ExcusedNext
<1>4. CASE CallSame(c)
  <2>1. Revoking(c, sessions'[s].user) /\ s \in calls[c].keep
    BY <1>4 DEF CallSame, Revoking, RevokingNext
  <2>2. ASSUME s \in DOMAIN sessions, Live(s), sessions'[s].user = sessions[s].user,
               ~Excused(s)
        PROVE  \E d \in Calls : RevokingNext(d, sessions'[s].user) /\ s \notin calls'[d].keep
    <3>1. PICK d \in Calls : Revoking(d, sessions[s].user) /\ s \notin calls[d].keep
      BY <2>1, <2>2 DEF SparedInv, Excused, Current
    <3>2. ~RevokeSessions(d)
      BY <2>2, <3>1, RevokeEnds DEF Revoking
    <3>3. ~Crash
      BY <2>1, <1>4 DEF Crash, CallSame, Revoking, Free
    <3>4. calls'[d] = calls[d]
      BY <3>1, <3>2, <3>3, RevokingStays DEF Revoking
    <3> QED  BY <2>2, <3>1, <3>4 DEF Revoking, RevokingNext
  <2> QED  BY <1>2, <2>2, ExcusesStay
<1> QED  BY <1>1, <1>3, <1>4

PendingNext(u) == u \in cutOff' \/ \E c \in Calls : RevokingNext(c, u)

(* A change that has not been carried through goes on, is carried through, or  *)
(* is written off by a crash.                                                  *)
LEMMA PendingStays ==
    ASSUME TypeInv, KeysInv, [Next]_vars
    PROVE  \A u : Pending(u) =>
              PendingNext(u) \/ \E c \in Calls : RevokeSessions(c) /\ calls[c].user = u
<1> SUFFICES ASSUME NEW u, Pending(u),
                    ~ \E c \in Calls : RevokeSessions(c) /\ calls[c].user = u
             PROVE  PendingNext(u)
  OBVIOUS
<1>1. u \in cutOff \/ \E c \in Calls : Revoking(c, u)
  BY DEF Pending, Revoking
<1>2. u \in cutOff => u \in cutOff'
  BY DEF Next, RegisterStart, RegisterCommit, LoginStart, LoginMembership,
         IssueSession, Admit, Logout, SwitchHousehold, ChangePassword, ResetPassword,
         StorePassword, RevokeSessions, AddStart, AddUser, AddMember, PatchCheck, PatchWrite,
         Expire, Crash, vars
<1>3. ASSUME NEW c \in Calls, Revoking(c, u) PROVE PendingNext(u)
  <2>1. calls'[c] = calls[c] \/ Crash
    BY <1>3, RevokingStays DEF Revoking
  <2>2. CASE calls'[c] = calls[c]
    BY <1>3, <2>2 DEF PendingNext, Revoking, RevokingNext
  <2>3. CASE Crash
    <3>1. u \in cutOff'
      BY <1>3, <2>3 DEF Crash, Revoking
    <3> QED  BY <3>1 DEF PendingNext
  <2> QED  BY <2>1, <2>2, <2>3
<1> QED  BY <1>1, <1>2, <1>3 DEF PendingNext

(* OldPasswordsOpenNothing, one session at a time.                             *)
LEMMA OldPasswordsStep ==
    ASSUME TypeInv, KeysInv, LoginsInv, SparedInv, OldPasswordsOpenNothing, [Next]_vars
    PROVE  OldPasswordsOpenNothing'
<1> SUFFICES ASSUME NEW s \in DOMAIN sessions', sessions'[s].live, ~ExcusedNext(s)
             PROVE  PendingNext(sessions'[s].user)
  BY DEF OldPasswordsOpenNothing, Live, ExcusedNext, CurrentNext, PendingNext, Pending,
         RevokingNext
<1>1. ASSUME NEW e \in Calls, StorePassword(e), calls[e].user = sessions'[s].user
      PROVE  PendingNext(sessions'[s].user)
  <2>1. calls'[e].at = "REVOKING" /\ calls'[e].user = calls[e].user
    BY <1>1, StoredCalls
  <2> QED  BY <1>1, <2>1 DEF PendingNext, RevokingNext
<1>2. ASSUME s \in DOMAIN sessions, Live(s), sessions'[s].user = sessions[s].user, ~Excused(s)
      PROVE  PendingNext(sessions'[s].user)
  <2>1. Pending(sessions[s].user)
    BY <1>2 DEF OldPasswordsOpenNothing, Excused, Current
  <2>2. ASSUME NEW c \in Calls, RevokeSessions(c), calls[c].user = sessions[s].user
        PROVE  PendingNext(sessions'[s].user)
    <3>1. s \in calls[c].keep
      BY <1>2, <2>2, RevokeEnds
    <3>2. Revoking(c, sessions[s].user)
      BY <2>2 DEF RevokeSessions, Revoking
    <3>3. PICK d \in Calls : Revoking(d, sessions[s].user) /\ s \notin calls[d].keep
      BY <1>2, <3>1, <3>2 DEF SparedInv, Excused, Current
    <3>4. calls' = [calls EXCEPT ![c] = Free]
      BY <2>2 DEF RevokeSessions, Answer
    <3>5. calls'[d] = calls[d]
      BY <3>1, <3>3, <3>4 DEF TypeInv
    <3> QED  BY <1>2, <3>3, <3>5 DEF PendingNext, Revoking, RevokingNext
  <2> QED  BY <1>2, <2>1, <2>2, PendingStays
<1>3. \/ s \in DOMAIN sessions /\ Live(s) /\ sessions'[s].user = sessions[s].user /\ ~Excused(s)
      \/ \E e \in Calls : StorePassword(e) /\ calls[e].user = sessions'[s].user
  BY ExcusesStay
<1> QED  BY <1>1, <1>2, <1>3

LEMMA ChecksStep ==
    ASSUME TypeInv, KeysInv, ChecksInv, [Next]_vars
    PROVE  ChecksInv'
<1> SUFFICES ASSUME NEW c \in Calls, calls'[c].at = "CHECKED"
             PROVE  LET r == calls'[c] IN
                    /\ r.target \in DOMAIN members'
                    /\ members'[r.target].household = r.household
                    /\ r.was = "ADMIN" /\ ("MEMBER" \in r.change.role \/ FALSE \in r.change.active)
                          => r.admins > 1
  BY DEF ChecksInv
<1>1. CallSame(c) \/ CallChecked(c)
  <2>1. CallMoved(c)
    BY CallSteps
  <2>2. ~CallFreed(c) /\ ~CallBegun(c)
    BY DEF CallFreed, CallBegun, Free
  <2>3. ~CallAdmitted(c) /\ ~CallVerified(c)
    BY DEF CallAdmitted, CallVerified
  <2>4. ~CallRegistered(c) /\ ~CallEnrolled(c)
    BY DEF CallRegistered, CallEnrolled
  <2>5. ~CallOvertaken(c) /\ ~CallJoining(c)
    BY DEF CallOvertaken, CallJoining, Knowing
  <2>6. ~CallStored(c)
    BY DEF CallStored
  <2> QED  BY <2>1, <2>2, <2>3, <2>4, <2>5, <2>6 DEF CallMoved
<1>2. \A i \in DOMAIN members :
         i \in DOMAIN members' /\ members'[i].household = members[i].household
  <2>1. ASSUME NEW i \in DOMAIN members
        PROVE  i \in DOMAIN members' /\ members'[i].household = members[i].household
    <3>1. i \in DOMAIN members' /\ (RowSame(i) \/ RowPatched(i) \/ RowJoined(i))
      BY MemberSteps
    <3>2. ~RowJoined(i)
      BY MemberRows DEF RowJoined
    <3> QED  BY <3>1, <3>2 DEF RowSame, RowPatched
  <2> QED  BY <2>1
<1>3. CASE CallSame(c)
  BY <1>2, <1>3 DEF CallSame, ChecksInv
<1>4. CASE CallChecked(c)
  BY <1>4 DEF CallChecked
<1> QED  BY <1>1, <1>3, <1>4

(* The last administrator goes only with a PATCH, and only with one whose      *)
(* check no longer held.                                                       *)
LEMMA LastAdminStep ==
    ASSUME TypeInv, KeysInv, ChecksInv, [Next]_vars, NEW h \in Households,
           Admins(h) # {}, Admins(h)' = {}
    PROVE  \E c \in Calls :
              /\ PatchWrite(c) /\ calls[c].household = h
              /\ \/ calls[c].was # members[calls[c].target].role
                 \/ calls[c].admins > Cardinality(Admins(h))
<1>0. PICK i \in DOMAIN members :
         members[i].household = h /\ members[i].role = "ADMIN" /\ members[i].active
  BY DEF Admins
<1>1. DOMAIN members \subseteq DOMAIN members'
  BY MemberSteps
<1>2. \A j \in DOMAIN members' :
         ~(members'[j].household = h /\ members'[j].role = "ADMIN" /\ members'[j].active)
  BY DEF Admins
<1>3. PICK c \in Calls : PatchWrite(c)
  BY <1>0, <1>1, <1>2, MemberSteps
<1> DEFINE r == calls[c]
           new == Patched(members[r.target], r.change)
<1>4. r \in Checked /\ r.at = "CHECKED"
  BY <1>3, CallShapes DEF PatchWrite, TypeInv
<1>5. /\ r.target \in DOMAIN members /\ members[r.target].household = r.household
      /\ r.was = "ADMIN" /\ ("MEMBER" \in r.change.role \/ FALSE \in r.change.active)
            => r.admins > 1
  BY <1>4 DEF ChecksInv
<1>6. members' = [members EXCEPT ![r.target] = new]
  BY <1>3 DEF PatchWrite
<1>7. \A j \in DOMAIN members : j # r.target => members'[j] = members[j]
  BY <1>6
<1>8. Admins(h) = {i} /\ i = r.target
  <2>1. \A j \in Admins(h) : j = r.target
    BY <1>1, <1>2, <1>7 DEF Admins
  <2>2. i \in Admins(h)
    BY <1>0 DEF Admins
  <2> QED  BY <2>1, <2>2
<1>9. Cardinality(Admins(h)) = 1
  BY <1>8, FS_Singleton
<1>10. r.household = h
  BY <1>0, <1>5, <1>8
<1>11. ASSUME r.was = members[r.target].role PROVE r.admins > 1
  <2>1. members[r.target] \in Member /\ r.change \in Changes
    BY <1>4, <1>5, MemberRows DEF Checked
  <2>2. members'[r.target] = new
    BY <1>5, <1>6
  <2>3. new.role # "ADMIN" \/ ~new.active
    <3>1. new.household = h
      BY <1>5, <1>10, <2>1, PatchedRow
    <3> HIDE DEF new
    <3> QED  BY <1>1, <1>2, <1>5, <2>2, <3>1
  <2>4. "MEMBER" \in r.change.role \/ FALSE \in r.change.active
    BY <1>0, <1>8, <2>1, <2>3, PatchedRow
  <2> QED  BY <1>0, <1>5, <1>8, <1>11, <2>4
<1> QED  BY <1>3, <1>9, <1>10, <1>11

LEMMA InitSteps == Init => TypeInv /\ KeysInv
<1> SUFFICES ASSUME Init PROVE TypeInv /\ KeysInv
  OBVIOUS
<1>0. /\ Founders \in Seq(Households \X Users) /\ Len(Founders) \in Nat
      /\ DOMAIN Founders = 1 .. Len(Founders)
      /\ \A i \in DOMAIN Founders : Founders[i][1] \in Households /\ Founders[i][2] \in Users
  <2>1. Founders \in Seq(Households \X Users)
    BY AccountsAssumption
  <2>2. \A i \in DOMAIN Founders : Founders[i] \in Households \X Users
    BY <2>1, LenProperties, ElementOfSeq
  <2> QED  BY <2>1, <2>2, LenProperties
<1>1. /\ members = [i \in DOMAIN Founders |->
                       NewMember(Founders[i][1], Founders[i][2], "ADMIN")]
      /\ \A i \in DOMAIN members :
            /\ members[i] \in Member
            /\ members[i].household = Founders[i][1] /\ members[i].user = Founders[i][2]
  BY <1>0 DEF Init, NewMember, Member, Roles
<1>2. members \in Seq(Member) /\ DOMAIN members = DOMAIN Founders
  BY <1>0, <1>1, FunctionIsSeq
<1>3. sessions = <<>> /\ sessions \in Seq(StoredSession) /\ DOMAIN sessions = {}
  BY DEF Init
<1>4. TypeInv
  BY <1>2, <1>3, AccountsAssumption DEF Init, TypeInv, Call, NoAccount
<1>5. \A i, j \in DOMAIN members :
         members[i].user = members[j].user /\ members[i].household = members[j].household
            => i = j
  <2> SUFFICES ASSUME NEW i \in DOMAIN Founders, NEW j \in DOMAIN Founders,
                      Founders[i][1] = Founders[j][1], Founders[i][2] = Founders[j][2]
               PROVE  i = j
    BY <1>1, <1>2
  <2>1. Founders[i] \in Households \X Users /\ Founders[j] \in Households \X Users
    BY <1>0, ElementOfSeq
  <2>2. Founders[i] = Founders[j]
    BY <2>1
  <2> QED  BY <2>2, AccountsAssumption
<1>6. \A i \in DOMAIN members : Account(members[i].user)
  BY <1>0, <1>1, <1>2 DEF Init, Account, NoAccount
<1>7. \A c \in Calls : calls[c] = Free
  BY DEF Init
<1> QED  BY <1>3, <1>4, <1>5, <1>6, <1>7 DEF KeysInv, Free

LEMMA AccountsInvariant == Spec => [](TypeInv /\ KeysInv)
<1>1. Init => TypeInv /\ KeysInv
  BY InitSteps
<1>2. TypeInv /\ KeysInv /\ [Next]_vars => (TypeInv /\ KeysInv)'
  BY TypeStep, KeysStep
<1> QED  BY <1>1, <1>2, PTL DEF Spec

(* The types, and the keys of the tables: a person is in a household once, has *)
(* an account if they are in one, and a session points to a household its user *)
(* belongs to (User.email, the unique key of HouseholdMember, context.ts).     *)
THEOREM AccountTypes == Spec => []TypeOK
<1>1. TypeInv /\ KeysInv => TypeOK
  <2> SUFFICES ASSUME TypeInv, KeysInv PROVE TypeOK
    OBVIOUS
  <2>1. ASSUME NEW i \in DOMAIN members
        PROVE  /\ members[i].role \in {"ADMIN", "MEMBER"} /\ members[i].active \in BOOLEAN
               /\ Rows(members[i].household, members[i].user) = {i}
               /\ password[members[i].user] # NoAccount
    BY MemberRows DEF Member, Roles, KeysInv, Account, Rows
  <2>2. ASSUME NEW s \in DOMAIN sessions
        PROVE  /\ sessions[s].user \in Users /\ sessions[s].household \in Households
               /\ Rows(sessions[s].household, sessions[s].user) # {}
    BY SessionRows, RowsAndBelongs DEF StoredSession, KeysInv
  <2>3. password \in [Users -> 0 .. MaxPasswords]
    BY AccountsAssumption DEF TypeInv
  <2> QED  BY <2>1, <2>2, <2>3 DEF TypeOK, TypeInv
<1> QED  BY <1>1, AccountsInvariant, PTL

(* A replaced password opens nothing: a session opened with one is dead, but   *)
(* for the session that made the change, a login overtaken by it, and a change *)
(* whose revocation is to come or was lost in a crash (auth.ts, admin.ts).     *)
THEOREM OldPasswordsNeverOpen == Spec => []OldPasswordsOpenNothing
<1> DEFINE Inv == TypeInv /\ KeysInv
           Held == LoginsInv /\ SparedInv /\ OldPasswordsOpenNothing
<1>1. Init => Held
  <2> SUFFICES ASSUME Init PROVE Held
    OBVIOUS
  <2>1. /\ DOMAIN sessions = {} /\ \A c \in Calls : calls[c].at = "FREE"
    BY DEF Init, Free
  <2> QED  BY <2>1 DEF LoginsInv, SparedInv, OldPasswordsOpenNothing, Knowing
<1>2. Inv /\ Held /\ [Next]_vars => Held'
  BY LoginsStep, SparedStep, OldPasswordsStep
<1>3. Spec => []Inv
  BY AccountsInvariant
<1>4. Held => OldPasswordsOpenNothing
  OBVIOUS
<1> HIDE DEF Inv, Held
<1> QED  BY <1>1, <1>2, <1>3, <1>4, PTL DEF Spec

(* One change at a time, LAST_ADMIN protects every household: its last active  *)
(* administrator goes only with a PATCH whose check another had overtaken      *)
(* (admin.ts).                                                                 *)
THEOREM LastAdminOnlyLostToARace == Spec => LastAdminIsLostToARace
<1> DEFINE Inv == TypeInv /\ KeysInv
           Lost == \A h \in Households : Admins(h) # {} /\ Admins(h)' = {} =>
                      \E c \in Calls :
                          /\ PatchWrite(c) /\ calls[c].household = h
                          /\ \/ calls[c].was # members[calls[c].target].role
                             \/ calls[c].admins > Cardinality(Admins(h))
<1>1. Init => ChecksInv
  BY DEF Init, ChecksInv, Free
<1>2. Inv /\ ChecksInv /\ [Next]_vars => ChecksInv'
  BY ChecksStep
<1>3. Inv /\ ChecksInv /\ [Next]_vars => Lost
  BY LastAdminStep
<1>4. Spec => []Inv
  BY AccountsInvariant
<1>5. Lost => [Lost]_vars
  OBVIOUS
<1> HIDE DEF Inv, Lost
<1>6. Spec => [][Lost]_vars
  BY <1>1, <1>2, <1>3, <1>4, PTL DEF Spec
<1> QED  BY <1>6 DEF LastAdminIsLostToARace, Lost
-----------------------------------------------------------------------------
(* WebClient, for any set of the client's pages and any number of presses,     *)
(* visits, changes by others and failures.  What a copy lacks of an own write  *)
(* is either going to be seen to (the mutation is still to settle, or the copy *)
(* is marked for a new request) or shown on no page that has the button, but   *)
(* for the pairs of Unshown.  That every hook invalidates what its pages show  *)
(* is the table of hooks.ts, page by page.                                     *)

NeedNotShow(m, q) ==
    \A p \in Pages : m \in Buttons[p] /\ q \in Mounted[p] => <<m, q>> \in Unshown

(* The mutation under way has written, or has changed the copy in advance, and *)
(* its handlers are still to run.                                              *)
ToSettle(m, q) ==
    /\ op.m = m
    /\ op.phase = "done" \/ m = "ReorderCategories"
    /\ Shows(q, Writes(m))

OpRecords ==
    {NoOp} \cup [m : Mutations, phase : {"sent", "done", "conflict", "broken"}, current : BOOLEAN]

ClientTypes == ClientTypeOK /\ op \in OpRecords

ShownInv ==
    /\ \A q \in Queries : lacks[q] # {} => q \in held
    /\ \A q \in Queries : \A m \in lacks[q] :
           m = "others" \/ NeedNotShow(m, q) \/ ToSettle(m, q) \/ q \in invalid
    /\ \A q \in Queries : \A m \in misses[q] :
           m = "others" \/ NeedNotShow(m, q) \/ ToSettle(m, q)
    /\ want = "ReorderCategories" => AdminCategories \in held

(* After a logout nothing is read but the session, until the next login.       *)
LoggingOut == op.m = "Logout" /\ op.phase = "done"

LogoutInv ==
    /\ LoggingOut => ~signedIn
    /\ ended = "logout" =>
          /\ \A q \in Queries \ {Session} : "Login" \notin lacks[q] /\ "Login" \notin misses[q]
          /\ ~signedIn /\ ~LoggingOut =>
                 held \subseteq {Session} /\ \A q \in Queries \ {Session} : flight[q] # "read"

ClientInv == ClientTypes /\ ShownInv /\ LogoutInv

-----------------------------------------------------------------------------
(* The tables of hooks.ts and of the pages.                                    *)
LEMMA PagesMount ==
    /\ Mounted["login"] = {Session}
    /\ Mounted["dashboard"] = {Session, Dashboard}
    /\ Mounted["list"] = {Session, Available, AssignedToMe}
    /\ Mounted["detail"] = {Session, Detail, MemberMe, MemberList}
    /\ Mounted["history"] = {Session, History}
    /\ Mounted["ledger"] = {Session, Ledger}
    /\ Mounted["account"] = {Session, MemberMe, PublicConfig, Todoist}
    /\ Mounted["shop"] = {Session, MemberMe, RewardShop}
    /\ Mounted["settings"] = {Session, AdminConfig}
    /\ Mounted["members"] = {Session, AdminMembers, AdminCategories, AdminDefinitions}
    /\ Mounted["chores"] =
           {Session, AdminDefinitions, AdminDefinition, AdminCategories, AdminMembers}
    /\ Mounted["categories"] = {Session, AdminCategories}
    /\ Mounted["rewards"] = {Session, AdminRewards, AdminRedemptions}
    /\ DOMAIN Mounted = {"login", "dashboard", "list", "detail", "history", "ledger", "account",
                         "shop", "settings", "members", "chores", "categories", "rewards"}
<1>1. DOMAIN MemberPages = {"login", "dashboard", "list", "detail", "history", "ledger", "account", "shop"}
  BY DEF MemberPages
<1>2. DOMAIN AdminPages = {"settings", "members", "chores", "categories", "rewards"}
  BY DEF AdminPages
<1>3. \A p \in DOMAIN MemberPages : Mounted[p] = MemberPages[p]
  BY DEF Mounted
<1>4. \A p \in DOMAIN AdminPages : Mounted[p] = AdminPages[p]
  BY <1>1, <1>2 DEF Mounted
<1>5. /\ Mounted["login"] = {Session}
      /\ Mounted["dashboard"] = {Session, Dashboard}
      /\ Mounted["list"] = {Session, Available, AssignedToMe}
      /\ Mounted["detail"] = {Session, Detail, MemberMe, MemberList}
      /\ Mounted["history"] = {Session, History}
      /\ Mounted["ledger"] = {Session, Ledger}
      /\ Mounted["account"] = {Session, MemberMe, PublicConfig, Todoist}
      /\ Mounted["shop"] = {Session, MemberMe, RewardShop}
  BY <1>1, <1>3 DEF MemberPages
<1>6. /\ Mounted["settings"] = {Session, AdminConfig}
      /\ Mounted["members"] = {Session, AdminMembers, AdminCategories, AdminDefinitions}
      /\ Mounted["chores"] =
             {Session, AdminDefinitions, AdminDefinition, AdminCategories, AdminMembers}
      /\ Mounted["categories"] = {Session, AdminCategories}
      /\ Mounted["rewards"] = {Session, AdminRewards, AdminRedemptions}
  BY <1>2, <1>4 DEF AdminPages
<1>7. DOMAIN Mounted = DOMAIN MemberPages \cup DOMAIN AdminPages
  BY DEF Mounted
<1> QED  BY <1>1, <1>2, <1>5, <1>6, <1>7

LEMMA PagesOffer ==
    /\ Buttons["login"] = {"Login"} /\ Buttons["dashboard"] = {"RejectCompletion"}
    /\ Buttons["list"] = {} /\ Buttons["history"] = {} /\ Buttons["ledger"] = {}
    /\ Buttons["detail"] = DetailButtons /\ Buttons["account"] = AccountButtons
    /\ Buttons["shop"] = {"PurchaseReward"} /\ Buttons["settings"] = {"SaveConfig"}
    /\ Buttons["members"] = PeopleButtons /\ Buttons["chores"] = ChoreButtons
    /\ Buttons["categories"] = CategoryButtons /\ Buttons["rewards"] = RewardButtons
BY DEF Buttons, SettingsButtons

(* What the queries that a page with buttons mounts show.                      *)
LEMMA QueriesShow ==
    /\ Reads(Session) = {"session", "profile"}
    /\ Reads(Dashboard) = {"tasks", "points", "profile", "definitions", "effects"}
    /\ Reads(Detail) = {"tasks", "definitions"}
    /\ Reads(MemberMe) = {"points", "profile"} /\ Reads(MemberList) = {"points", "profile"}
    /\ Reads(PublicConfig) = {"rules"} /\ Reads(Todoist) = {"todoist"}
    /\ Reads(RewardShop) = {"shelf"} /\ Reads(AdminConfig) = {"rules"}
    /\ Reads(AdminMembers) = {"profile", "points", "eligibility", "absences"}
    /\ Reads(AdminCategories) = {"categories"}
    /\ Reads(AdminDefinitions) = {"definitions", "categories", "eligibility"}
    /\ Reads(AdminDefinition) = {"definitions", "categories", "eligibility", "tasks"}
    /\ Reads(AdminRewards) = {"shelf"} /\ Reads(AdminRedemptions) = {"redemptions"}
BY DEF Reads, MemberReads, AdminReads, SessionAnswer, DashboardAnswer, TaskListAnswer,
       DetailAnswer, MemberAnswer, ShelfAnswer, PublicRulesAnswer, AdminMembersAnswer,
       DefinitionsAnswer, DefinitionAnswer, CategoriesAnswer, AllRewardsAnswer, RedemptionsAnswer,
       Session, Dashboard, Available, AssignedToMe, Detail, History, MemberMe, MemberList, Ledger,
       PublicConfig, RewardShop, Todoist, AdminConfig, AdminMembers, AdminCategories,
       AdminDefinitions, AdminDefinition, AdminRewards, AdminRedemptions

LEMMA MembersWrite ==
    /\ Writes("Volunteer") = {"tasks", "history", "points"}
    /\ Writes("CompleteTask") = {"tasks", "points", "history", "definitions", "effects"}
    /\ Writes("Buyout") = {"tasks", "history", "points"}
    /\ Writes("AcceptAssignment") = {"tasks", "history"}
    /\ Writes("ReleaseAssignment") = {"tasks", "history", "points"}
    /\ Writes("RevokeAssignment") = {"tasks", "history", "points"}
    /\ Writes("PurchaseReward") = {"points", "effects", "redemptions"}
    /\ \A m \in {"ConnectTodoist", "UpdateTodoist", "DisconnectTodoist"} : Writes(m) = {"todoist"}
BY DEF Writes, MemberWrites, AdminWrites, DetailButtons, AccountButtons, DefinitionButtons,
       CategoryButtons, SettingsButtons

LEMMA AdminsWrite ==
    /\ Writes("RejectCompletion") = {"tasks", "points", "history"}
    /\ Writes("CancelInstance") = {"tasks", "points", "history"}
    /\ Writes("CancelOpenInstancesOfDefinition") = {"tasks", "points", "history"}
    /\ Writes("RunSweep") = {"tasks", "points", "history", "definitions"}
    /\ Writes("MaterializeTaskDefinition") = {"tasks", "history"}
    /\ \A m \in DefinitionButtons : Writes(m) = {"definitions"}
    /\ Writes("UpdateTaskEligibility") = {"eligibility"}
    /\ \A m \in CategoryButtons : Writes(m) = {"categories"}
    /\ Writes("CreateReward") = {"shelf"} /\ Writes("UpdateReward") = {"shelf"}
    /\ Writes("FulfillRedemption") = {"redemptions"}
    /\ Writes("CreateMember") = {"profile"} /\ Writes("UpdateMember") = {"profile"}
    /\ Writes("UpdateMemberRestrictions") = {"absences", "eligibility"}
    /\ Writes("AdjustMemberPoints") = {"points", "history"}
    /\ Writes("SaveConfig") = {"rules"}
BY DEF Writes, MemberWrites, AdminWrites, DetailButtons, AccountButtons, DefinitionButtons,
       CategoryButtons, SettingsButtons, RejectionWrites, SweepWrites, CategoryWrites, ShelfWrites,
       AdjustmentWrites, ConfigWrites

LEMMA HooksInvalidate ==
    /\ \A m \in DetailButtons : Tasks \in Keys(m)
    /\ MemberMe \in Keys("CompleteTask") /\ MemberMe \in Keys("Buyout")
    /\ {MemberList, AdminDefinitions} \subseteq Keys("RevokeAssignment")
    /\ Dashboard \in Keys("RejectCompletion")
    /\ \A m \in {"ConnectTodoist", "UpdateTodoist", "DisconnectTodoist"} : Todoist \in Keys(m)
    /\ MemberMe \in Keys("PurchaseReward")
    /\ AdminConfig \in Keys("SaveConfig")
    /\ \A m \in PeopleButtons : AdminMembers \in Keys(m)
    /\ \A m \in DefinitionButtons : AdminDefinitions \in Keys(m)
    /\ \A m \in {"UpdateTaskEligibility", "MaterializeTaskDefinition", "CancelInstance",
                 "CancelOpenInstancesOfDefinition"} : AdminDefinitions \in Keys(m)
    /\ \A m \in CategoryButtons : AdminCategories \in Keys(m) /\ AdminDefinitions \in Keys(m)
    /\ \A m \in {"CreateReward", "UpdateReward"} : AdminRewards \in Keys(m)
    /\ AdminRedemptions \in Keys("FulfillRedemption")
<1>1. \A m \in DetailButtons : Tasks \in Keys(m)
  BY DEF Keys, MemberKeys, OccurrenceKeys, DetailButtons
<1>2. /\ MemberMe \in Keys("CompleteTask") /\ MemberMe \in Keys("Buyout")
      /\ MemberMe \in Keys("PurchaseReward")
      /\ \A m \in {"ConnectTodoist", "UpdateTodoist", "DisconnectTodoist"} : Todoist \in Keys(m)
  BY DEF Keys, MemberKeys
<1>3. /\ {MemberList, AdminDefinitions} \subseteq Keys("RevokeAssignment")
      /\ Dashboard \in Keys("RejectCompletion") /\ AdminConfig \in Keys("SaveConfig")
  BY DEF Keys, OccurrenceKeys
<1>4. /\ \A m \in DefinitionButtons : AdminDefinitions \in Keys(m)
      /\ \A m \in {"UpdateTaskEligibility", "MaterializeTaskDefinition", "CancelInstance",
                   "CancelOpenInstancesOfDefinition"} : AdminDefinitions \in Keys(m)
      /\ \A m \in CategoryButtons : AdminCategories \in Keys(m) /\ AdminDefinitions \in Keys(m)
  BY DEF Keys, CatalogueKeys, DefinitionButtons, CategoryButtons
<1>5. /\ \A m \in PeopleButtons : AdminMembers \in Keys(m)
      /\ \A m \in {"CreateReward", "UpdateReward"} : AdminRewards \in Keys(m)
      /\ AdminRedemptions \in Keys("FulfillRedemption")
  BY DEF Keys, PeopleKeys, PeopleButtons
<1> QED  BY <1>1, <1>2, <1>3, <1>4, <1>5

LEMMA KeyReachesItself ==
    ASSUME NEW S, NEW q \in Seq(S)
    PROVE  IsPrefix(q, q)
BY LenProperties DEF IsPrefix

LEMMA KeyReachesLonger ==
    ASSUME NEW S, NEW k \in Seq(S), NEW u \in Seq(S)
    PROVE  IsPrefix(k, k \o u)
<1>1. k \o u \in Seq(S) /\ Len(k \o u) = Len(k) + Len(u) /\ Len(k) \in Nat /\ Len(u) \in Nat
  BY ConcatProperties, LenProperties
<1>2. SubSeq(k \o u, 1, Len(k)) = k
  BY SubSeqOfConcat1, SubSeqFull, <1>1
<1>3. SubSeq(k, 1, Len(k)) = k
  BY SubSeqFull
<1> QED  BY <1>1, <1>2, <1>3 DEF IsPrefix

LEMMA KeysReach ==
    /\ \A q \in {Dashboard, Detail, MemberMe, MemberList, Todoist, RewardShop, AdminConfig,
                 AdminMembers, AdminCategories, AdminDefinitions, AdminRewards, AdminRedemptions} :
           IsPrefix(q, q)
    /\ IsPrefix(Tasks, Detail) /\ IsPrefix(MemberList, MemberMe)
    /\ IsPrefix(AdminDefinitions, AdminDefinition)
<1> DEFINE Words == {"dashboard", "integrations", "todoist", "rewards", "members", "me", "tasks", "t",
                     "admin", "config", "categories", "task-definitions", "d", "redemptions"}
<1>0. /\ \A a \in Words : <<a>> \in Seq(Words)
      /\ \A a, b \in Words : <<a, b>> \in Seq(Words)
      /\ \A a, b, c \in Words : <<a, b, c>> \in Seq(Words)
  <2> HIDE DEF Words
  <2> QED  OBVIOUS
<1>1. /\ Dashboard \in Seq(Words) /\ Todoist \in Seq(Words)
      /\ RewardShop \in Seq(Words) /\ MemberList \in Seq(Words) /\ Tasks \in Seq(Words)
  BY <1>0 DEF Dashboard, Todoist, RewardShop, MemberList, Tasks
<1>2. /\ AdminConfig \in Seq(Words) /\ AdminMembers \in Seq(Words)
      /\ AdminCategories \in Seq(Words) /\ AdminDefinitions \in Seq(Words)
  BY <1>0 DEF AdminConfig, AdminMembers, AdminCategories, AdminDefinitions
<1>3. /\ Detail \in Seq(Words) /\ MemberMe \in Seq(Words)
      /\ AdminRewards \in Seq(Words) /\ AdminRedemptions \in Seq(Words)
  BY <1>0 DEF Detail, MemberMe, AdminRewards, AdminRedemptions
<1>4. <<"t">> \in Seq(Words) /\ <<"me">> \in Seq(Words) /\ <<"d">> \in Seq(Words)
  BY <1>0
<1>5. Detail = Tasks \o <<"t">> /\ MemberMe = MemberList \o <<"me">>
  BY DEF Detail, Tasks, MemberMe, MemberList
<1>6. AdminDefinition = AdminDefinitions \o <<"d">>
  BY DEF AdminDefinition, AdminDefinitions
<1> HIDE DEF Words
<1>7. /\ IsPrefix(Tasks, Tasks \o <<"t">>) /\ IsPrefix(MemberList, MemberList \o <<"me">>)
      /\ IsPrefix(AdminDefinitions, AdminDefinitions \o <<"d">>)
  BY <1>1, <1>2, <1>4, KeyReachesLonger
<1> QED  BY <1>1, <1>2, <1>3, <1>5, <1>6, <1>7, KeyReachesItself

(* A page with a button for m sees to it that q is asked again, or need not.   *)
Reached(m, q) == \E k \in Keys(m) : IsPrefix(k, q)
SeenTo(m, q) == Shows(q, Writes(m)) => Reached(m, q) \/ <<m, q>> \in Unshown

LEMMA DetailSeesTo ==
    \A m \in Buttons["detail"], q \in Mounted["detail"] : SeenTo(m, q)
<1>1. \A m \in DetailButtons : Reached(m, Detail)
  BY HooksInvalidate, KeysReach DEF Reached
<1>2. Reached("CompleteTask", MemberMe) /\ Reached("Buyout", MemberMe)
  BY HooksInvalidate, KeysReach DEF Reached
<1>3. Reached("RevokeAssignment", MemberMe) /\ Reached("RevokeAssignment", MemberList)
  BY HooksInvalidate, KeysReach DEF Reached
<1>4. \A m \in DetailButtons : ~Shows(Session, Writes(m))
  BY QueriesShow, MembersWrite DEF Shows, DetailButtons
<1>5. ~Shows(MemberMe, Writes("AcceptAssignment")) /\ ~Shows(MemberList, Writes("AcceptAssignment"))
  BY QueriesShow, MembersWrite DEF Shows
<1>6. \A m \in DetailButtons : SeenTo(m, MemberMe)
  BY <1>2, <1>3, <1>5 DEF SeenTo, Unshown, DetailButtons
<1>7. \A m \in DetailButtons : SeenTo(m, MemberList)
  BY <1>3, <1>5 DEF SeenTo, Unshown, DetailButtons
<1> QED  BY <1>1, <1>4, <1>6, <1>7, PagesMount, PagesOffer DEF SeenTo

LEMMA ChoresSeeTo ==
    \A m \in Buttons["chores"], q \in Mounted["chores"] : SeenTo(m, q)
<1>1. \A m \in ChoreButtons : ~Shows(Session, Writes(m)) /\ ~Shows(AdminCategories, Writes(m))
  BY QueriesShow, MembersWrite, AdminsWrite DEF Shows, ChoreButtons, DefinitionButtons
<1>2. \A m \in ChoreButtons \ {"RunSweep"} :
          Reached(m, AdminDefinitions) /\ Reached(m, AdminDefinition)
  BY HooksInvalidate, KeysReach DEF Reached, ChoreButtons
<1>3. \A m \in DefinitionButtons \cup {"MaterializeTaskDefinition"} :
          ~Shows(AdminMembers, Writes(m))
  BY QueriesShow, AdminsWrite DEF Shows
<1>4. \A m \in ChoreButtons : SeenTo(m, AdminMembers)
  BY <1>3 DEF SeenTo, Unshown, ChoreButtons
<1>5. SeenTo("RunSweep", AdminDefinitions) /\ SeenTo("RunSweep", AdminDefinition)
  BY DEF SeenTo, Unshown
<1> QED  BY <1>1, <1>2, <1>4, <1>5, PagesMount, PagesOffer DEF SeenTo

LEMMA PeopleSeeTo ==
    \A m \in Buttons["members"], q \in Mounted["members"] : SeenTo(m, q)
<1>1. \A m \in PeopleButtons : Reached(m, AdminMembers)
  BY HooksInvalidate, KeysReach DEF Reached
<1>2. \A m \in PeopleButtons : SeenTo(m, Session)
  BY QueriesShow, AdminsWrite DEF SeenTo, Shows, Unshown, PeopleButtons
<1>3. \A m \in PeopleButtons : ~Shows(AdminCategories, Writes(m))
  BY QueriesShow, AdminsWrite DEF Shows, PeopleButtons
<1>4. \A m \in PeopleButtons : SeenTo(m, AdminDefinitions)
  BY QueriesShow, AdminsWrite DEF SeenTo, Shows, Unshown, PeopleButtons
<1> QED  BY <1>1, <1>2, <1>3, <1>4, PagesMount, PagesOffer DEF SeenTo

LEMMA OthersSeeTo ==
    /\ \A m \in Buttons["dashboard"], q \in Mounted["dashboard"] : SeenTo(m, q)
    /\ \A m \in Buttons["account"] \ {"Logout"}, q \in Mounted["account"] : SeenTo(m, q)
    /\ \A m \in Buttons["shop"], q \in Mounted["shop"] : SeenTo(m, q)
    /\ \A m \in Buttons["settings"], q \in Mounted["settings"] : SeenTo(m, q)
    /\ \A m \in Buttons["categories"], q \in Mounted["categories"] : SeenTo(m, q)
    /\ \A m \in Buttons["rewards"], q \in Mounted["rewards"] : SeenTo(m, q)
<1>1. \A m \in Buttons["dashboard"], q \in Mounted["dashboard"] : SeenTo(m, q)
  <2>1. Reached("RejectCompletion", Dashboard) /\ ~Shows(Session, Writes("RejectCompletion"))
    BY HooksInvalidate, KeysReach, QueriesShow, AdminsWrite DEF Reached, Shows
  <2> QED  BY <2>1, PagesMount, PagesOffer DEF SeenTo
<1>2. \A m \in Buttons["account"] \ {"Logout"}, q \in Mounted["account"] : SeenTo(m, q)
  <2> DEFINE M == {"ConnectTodoist", "UpdateTodoist", "DisconnectTodoist"}
  <2>1. \A m \in M : Reached(m, Todoist)
    BY HooksInvalidate, KeysReach DEF Reached
  <2>2. \A m \in M : \A q \in {Session, MemberMe, PublicConfig} : ~Shows(q, Writes(m))
    BY QueriesShow, MembersWrite DEF Shows
  <2>3. Buttons["account"] \ {"Logout"} \subseteq M
    BY PagesOffer DEF AccountButtons
  <2> QED  BY <2>1, <2>2, <2>3, PagesMount DEF SeenTo
<1>3. \A m \in Buttons["shop"], q \in Mounted["shop"] : SeenTo(m, q)
  <2>1. /\ Reached("PurchaseReward", MemberMe)
        /\ \A q \in {Session, RewardShop} : ~Shows(q, Writes("PurchaseReward"))
    BY HooksInvalidate, KeysReach, QueriesShow, MembersWrite DEF Reached, Shows
  <2> QED  BY <2>1, PagesMount, PagesOffer DEF SeenTo
<1>4. \A m \in Buttons["settings"], q \in Mounted["settings"] : SeenTo(m, q)
  <2>1. Reached("SaveConfig", AdminConfig) /\ ~Shows(Session, Writes("SaveConfig"))
    BY HooksInvalidate, KeysReach, QueriesShow, AdminsWrite DEF Reached, Shows
  <2> QED  BY <2>1, PagesMount, PagesOffer DEF SeenTo
<1>5. \A m \in Buttons["categories"], q \in Mounted["categories"] : SeenTo(m, q)
  <2>1. \A m \in CategoryButtons : Reached(m, AdminCategories) /\ ~Shows(Session, Writes(m))
    BY HooksInvalidate, KeysReach, QueriesShow, AdminsWrite DEF Reached, Shows
  <2> QED  BY <2>1, PagesMount, PagesOffer DEF SeenTo
<1>6. \A m \in Buttons["rewards"], q \in Mounted["rewards"] : SeenTo(m, q)
  <2>1. \A m \in {"CreateReward", "UpdateReward"} :
            Reached(m, AdminRewards) /\ ~Shows(Session, Writes(m)) /\ ~Shows(AdminRedemptions, Writes(m))
    BY HooksInvalidate, KeysReach, QueriesShow, AdminsWrite DEF Reached, Shows
  <2>2. /\ Reached("FulfillRedemption", AdminRedemptions)
        /\ \A q \in {Session, AdminRewards} : ~Shows(q, Writes("FulfillRedemption"))
    BY HooksInvalidate, KeysReach, QueriesShow, AdminsWrite DEF Reached, Shows
  <2> QED  BY <2>1, <2>2, PagesMount, PagesOffer DEF SeenTo, RewardButtons
<1> QED  BY <1>1, <1>2, <1>3, <1>4, <1>5, <1>6

(* Whatever a hook leaves alone need not be shown.                             *)
LEMMA HooksSeeTo ==
    ASSUME NEW m, m # "Logout", NEW q \in Queries, Shows(q, Writes(m))
    PROVE  q \in Hit(Keys(m)) \/ NeedNotShow(m, q)
<1> SUFFICES ASSUME ~Reached(m, q), NEW p \in Pages, m \in Buttons[p], q \in Mounted[p]
             PROVE  <<m, q>> \in Unshown
  BY DEF Hit, NeedNotShow, Reached
<1>1. p \in DOMAIN Mounted
  BY PagesAreKnown
<1>2. p = "login" => <<m, q>> \in Unshown
  BY PagesMount, PagesOffer DEF Unshown
<1>3. p \notin {"list", "history", "ledger"}
  BY PagesOffer
<1>4. p # "login" => SeenTo(m, q)
  BY <1>1, <1>3, DetailSeesTo, ChoresSeeTo, PeopleSeeTo, OthersSeeTo, PagesMount
<1> QED  BY <1>2, <1>4 DEF SeenTo

LEMMA LoginNeedsNothing == \A q : NeedNotShow("Login", q)
<1> SUFFICES ASSUME NEW q, NEW p \in Pages, "Login" \in Buttons[p], q \in Mounted[p]
             PROVE  <<"Login", q>> \in Unshown
  BY DEF NeedNotShow
<1>1. p \in DOMAIN Mounted
  BY PagesAreKnown
<1>2. p = "login"
  BY <1>1, PagesMount, PagesOffer DEF DetailButtons, AccountButtons, PeopleButtons, ChoreButtons,
       DefinitionButtons, CategoryButtons, RewardButtons
<1> QED  BY <1>2, PagesMount DEF Unshown

LEMMA ReorderingHits ==
    /\ Keys("ReorderCategories") = ErrorKeys("ReorderCategories")
    /\ Shows(AdminCategories, Writes("ReorderCategories"))
    /\ \A p \in Pages : "ReorderCategories" \in Buttons[p] => AdminCategories \in Mounted[p]
<1>1. Keys("ReorderCategories") = ErrorKeys("ReorderCategories")
  BY DEF ErrorKeys
<1>2. Shows(AdminCategories, Writes("ReorderCategories"))
  BY QueriesShow, AdminsWrite DEF Shows, CategoryButtons
<1>3. ASSUME NEW p \in Pages, "ReorderCategories" \in Buttons[p] PROVE AdminCategories \in Mounted[p]
  <2>1. p \in DOMAIN Mounted
    BY PagesAreKnown
  <2>2. p = "categories"
    BY <1>3, <2>1, PagesMount, PagesOffer DEF DetailButtons, AccountButtons, PeopleButtons,
         ChoreButtons, DefinitionButtons, RewardButtons
  <2> QED  BY <2>2, PagesMount
<1> QED  BY <1>1, <1>2, <1>3

(* No button has the name of what the others do, or of none.                   *)
LEMMA ButtonsAreNamed == \A p \in Pages : {"others", "none"} \cap Buttons[p] = {}
<1> SUFFICES ASSUME NEW p \in DOMAIN Mounted PROVE {"others", "none"} \cap Buttons[p] = {}
  BY PagesAreKnown
<1> QED  BY PagesMount, PagesOffer DEF DetailButtons, AccountButtons, PeopleButtons, ChoreButtons,
           DefinitionButtons, CategoryButtons, RewardButtons

LEMMA PagesAreMounted ==
    /\ \A p \in Pages : Session \in Mounted[p] /\ Mounted[p] \subseteq Queries
                        /\ Buttons[p] \subseteq Mutations
    /\ Session \in Queries
<1>1. \A p \in DOMAIN Mounted : Session \in Mounted[p]
  BY PagesMount
<1> QED  BY <1>1, PagesAreKnown, ClientAssumption DEF Queries, Mutations

-----------------------------------------------------------------------------
(* Types.                                                                      *)
LEMMA ClientFits ==
    ASSUME ClientTypes
    PROVE  /\ page \in Pages /\ Active \subseteq Mounted[page] /\ Active \subseteq Queries
           /\ held \subseteq Queries /\ invalid \subseteq held
           /\ DOMAIN lacks = Queries /\ DOMAIN misses = Queries /\ DOMAIN flight = Queries
           /\ \A q \in Queries : /\ lacks[q] \subseteq Mutations \cup {"others"}
                                 /\ misses[q] \subseteq Mutations \cup {"others"}
           /\ op # NoOp => op.m \in Mutations /\ op.phase \in {"sent", "done", "conflict", "broken"}
<1>1. page \in Pages /\ Session \in Mounted[page] /\ Mounted[page] \subseteq Queries
  BY PagesAreMounted DEF ClientTypes, ClientTypeOK
<1> QED  BY <1>1 DEF ClientTypes, ClientTypeOK, Active, OpRecords

LEMMA ClientStart == ClientInit => ClientInv
<1> SUFFICES ASSUME ClientInit PROVE ClientInv
  OBVIOUS
<1>1. page \in Pages /\ Mounted[page] \subseteq Queries
  BY PagesAreMounted DEF ClientInit
<1>2. ClientTypes
  BY <1>1 DEF ClientInit, ClientTypes, ClientTypeOK, OpRecords, Empty
<1>3. ShownInv
  BY DEF ClientInit, ShownInv, Empty
<1>4. LogoutInv
  BY DEF ClientInit, LogoutInv, LoggingOut, NoOp
<1> QED  BY <1>2, <1>3, <1>4 DEF ClientInv

LEMMA AgesKeepTypes ==
    ASSUME ClientTypes, NEW m \in Mutations, NEW keys, Invalidate(m, keys, lacks)
    PROVE  /\ lacks' \in [Queries -> SUBSET (Mutations \cup {"others"})]
           /\ misses' \in [Queries -> SUBSET (Mutations \cup {"others"})]
           /\ flight' \in [Queries -> {"none", "sent", "read", "refused"}]
           /\ invalid' = invalid \cup (Hit(keys) \cap held)
           /\ invalid' \subseteq held
<1>1. \A S \in SUBSET (Mutations \cup {"others"}) : Old(S, m) \in SUBSET (Mutations \cup {"others"})
  BY DEF Old
<1>2. \A q \in Queries : /\ lacks[q] \in SUBSET (Mutations \cup {"others"})
                         /\ misses[q] \in SUBSET (Mutations \cup {"others"})
  BY DEF ClientTypes, ClientTypeOK
<1>3. lacks' \in [Queries -> SUBSET (Mutations \cup {"others"})]
  BY <1>1, <1>2 DEF Invalidate, Aged
<1>4. misses' \in [Queries -> SUBSET (Mutations \cup {"others"})]
  BY <1>1, <1>2 DEF Invalidate, AgedAnswer
<1>5. flight' \in [Queries -> {"none", "sent", "read", "refused"}]
  BY DEF Invalidate, ClientTypes, ClientTypeOK
<1> QED  BY <1>3, <1>4, <1>5 DEF Invalidate, ClientTypes, ClientTypeOK

LEMMA WritesKeepTypes ==
    ASSUME ClientTypes, NEW m \in Mutations \cup {"others"}, NEW w, Wrote(m, w)
    PROVE  /\ lacks' \in [Queries -> SUBSET (Mutations \cup {"others"})]
           /\ misses' \in [Queries -> SUBSET (Mutations \cup {"others"})]
           /\ \A q \in Queries : /\ lacks'[q] \subseteq lacks[q] \cup {m}
                                 /\ misses'[q] \subseteq misses[q] \cup {m}
                                 /\ lacks'[q] # lacks[q] => q \in held /\ Shows(q, w)
                                 /\ misses'[q] # misses[q] => Shows(q, w)
BY DEF Wrote, ClientTypes, ClientTypeOK

LEMMA MutationsTyped ==
    ASSUME ClientTypes, op # NoOp
    PROVE  /\ op.m \in Mutations
           /\ \A x \in {"sent", "done", "conflict", "broken"} :
                  [op EXCEPT !.phase = x] \in OpRecords /\ [op EXCEPT !.phase = x] # NoOp
                  /\ [op EXCEPT !.phase = x].m = op.m /\ [op EXCEPT !.phase = x].phase = x
           /\ [op EXCEPT !.current = FALSE] \in OpRecords
           /\ [op EXCEPT !.current = FALSE].m = op.m /\ [op EXCEPT !.current = FALSE].phase = op.phase
BY DEF ClientTypes, OpRecords, NoOp

(* Every step keeps the types.                                                 *)
LEMMA ClientTypesKept == ClientTypes /\ [ClientNext]_clientVars => ClientTypes'
<1> SUFFICES ASSUME ClientTypes, [ClientNext]_clientVars PROVE ClientTypes'
  OBVIOUS
<1> USE DEF ClientTypes, ClientTypeOK
<1>1. ASSUME Mount PROVE ClientTypes'
  BY <1>1 DEF Mount, Ask, queryFrame, tabFrame, update
<1>2. ASSUME NEW q \in Queries, ServerReads(q) PROVE ClientTypes'
  BY <1>2 DEF ServerReads, queryFrame, tabFrame, update
<1>3. ASSUME NEW q \in Queries, Arrive(q) PROVE ClientTypes'
  BY <1>3 DEF Arrive, queryFrame, tabFrame, Heard
<1>4. ASSUME NEW q \in Queries, FetchFails(q) PROVE ClientTypes'
  BY <1>4 DEF FetchFails, queryFrame, tabFrame, Heard
<1>5. ASSUME NEW q \in Queries, Refresh(q) PROVE ClientTypes'
  BY <1>5 DEF Refresh, Ask, tabFrame, update
<1>6. ASSUME ServerDoes PROVE ClientTypes'
  <2>1. op # NoOp
    BY <1>6 DEF ServerDoes, NoOp
  <2>2. UNCHANGED <<page, held, flight, invalid, knows, told, want, overlay>>
    BY <1>6 DEF ServerDoes, serverFrame, update
  <2>3. op' \in OpRecords
    BY <1>6, <2>1, MutationsTyped DEF ServerDoes
  <2>4. signedIn' \in BOOLEAN
    BY <1>6 DEF ServerDoes
  <2>5. /\ lacks' \in [Queries -> SUBSET (Mutations \cup {"others"})]
        /\ misses' \in [Queries -> SUBSET (Mutations \cup {"others"})]
    <3>1. op.m \in Mutations
      BY <2>1, MutationsTyped
    <3>2. CASE UNCHANGED <<lacks, misses>>
      BY <3>2
    <3>3. CASE Wrote(op.m, Writes(op.m))
      BY <3>1, <3>3, WritesKeepTypes
    <3>4. CASE /\ lacks' = [q \in Queries |-> IF q \in held THEN lacks[q] \cup {op.m} ELSE {}]
               /\ misses' = [q \in Queries |-> IF flight[q] = "read" THEN misses[q] \cup {op.m} ELSE {}]
      BY <3>1, <3>4
    <3> QED  BY <1>6, <3>2, <3>3, <3>4 DEF ServerDoes
  <2> QED  BY <2>2, <2>3, <2>4, <2>5
<1>7. ASSUME ServerDoesHalf PROVE ClientTypes'
  <2>1. op # NoOp
    BY <1>7 DEF ServerDoesHalf, NoOp
  <2> QED  BY <1>7, <2>1, MutationsTyped, WritesKeepTypes DEF ServerDoesHalf, serverFrame, update
<1>8. ASSUME CallLost PROVE ClientTypes'
  <2>1. op # NoOp
    BY <1>8 DEF CallLost, NoOp
  <2> QED  BY <1>8, <2>1, MutationsTyped DEF CallLost, serverFrame, update, Old
<1>9. ASSUME Succeeds PROVE ClientTypes'
  <2>1. op # NoOp
    BY <1>9 DEF Succeeds, NoOp
  <2>2. Invalidate(op.m, Keys(op.m), lacks) /\ op.m \in Mutations
    BY <1>9, <2>1, MutationsTyped DEF Succeeds
  <2>3. op' \in OpRecords
    BY <1>9 DEF Succeeds, answered, OpRecords
  <2> QED  BY <1>9, <2>2, <2>3, AgesKeepTypes DEF Succeeds, answered, Heard, settleFrame
<1>10. ASSUME LoginSucceeds PROVE ClientTypes'
  <2>1. op' \in OpRecords
    BY <1>10 DEF LoginSucceeds, answered, OpRecords
  <2> QED  BY <1>10, <2>1, PagesAreMounted DEF LoginSucceeds, answered, Heard, settleFrame
<1>11. ASSUME LogoutSucceeds PROVE ClientTypes'
  <2>1. op' \in OpRecords
    BY <1>11 DEF LogoutSucceeds, answered, OpRecords
  <2> QED
    BY <1>11, <2>1 DEF LogoutSucceeds, LogoutClears, answered, Heard, settleFrame, Empty
<1>12. ASSUME Fails PROVE ClientTypes'
  <2>1. op # NoOp
    BY <1>12 DEF Fails, NoOp
  <2>2. Invalidate(op.m, ErrorKeys(op.m), lacks) /\ op.m \in Mutations
    BY <1>12, <2>1, MutationsTyped DEF Fails
  <2>3. op' \in OpRecords
    BY <1>12 DEF Fails, answered, OpRecords
  <2> QED  BY <1>12, <2>2, <2>3, AgesKeepTypes DEF Fails, answered, Heard, settleFrame
<1>13. ASSUME NEW served, Reload(served) PROVE ClientTypes'
  BY <1>13 DEF Reload, Empty, OpRecords
<1>14. ASSUME BellPolls \/ Redirect \/ EnterFromLogin \/ SessionExpires \/ Deploy PROVE ClientTypes'
  BY <1>14, ClientAssumption
     DEF BellPolls, Redirect, EnterFromLogin, SessionExpires, Deploy, cache, update, Heard
<1>15. ASSUME NEW p \in Pages, Navigate(p) PROVE ClientTypes'
  BY <1>15 DEF Navigate, cache, update
<1>16. ASSUME NEW m \in Mutations, Decide(m) PROVE ClientTypes'
  BY <1>16 DEF Decide, cache, update
<1>17. ASSUME Press PROVE ClientTypes'
  <2>1. op' \in OpRecords
    BY <1>17 DEF Press, OpRecords
  <2>2. UNCHANGED <<page, held, invalid, knows, told, signedIn, want, overlay>> /\ want \in Mutations
    BY <1>17 DEF Press, update
  <2>3. CASE want = "ReorderCategories"
    BY <1>17, <2>1, <2>2, <2>3 DEF Press
  <2>4. CASE want # "ReorderCategories"
    BY <1>17, <2>1, <2>2, <2>4 DEF Press
  <2> QED  BY <2>3, <2>4
<1>18. ASSUME OthersAct PROVE ClientTypes'
  <2>1. op' \in OpRecords
    BY <1>18, MutationsTyped DEF OthersAct, NoOp
  <2> QED  BY <1>18, <2>1, WritesKeepTypes DEF OthersAct, update
<1>19. CASE UNCHANGED clientVars
  BY <1>19 DEF clientVars, cache, update
<1> QED
  BY <1>1, <1>2, <1>3, <1>4, <1>5, <1>6, <1>7, <1>8, <1>9, <1>10, <1>11, <1>12, <1>13, <1>14,
     <1>15, <1>16, <1>17, <1>18, <1>19
     DEF ClientNext, NetworkStep, UpdateStep, WorkerTakesOver, PurgeAndReload

-----------------------------------------------------------------------------
(* What is shown.  The three clauses about the copies and the answers.         *)
CopiesShown ==
    /\ \A q \in Queries : lacks[q] # {} => q \in held
    /\ \A q \in Queries : \A m \in lacks[q] :
           m = "others" \/ NeedNotShow(m, q) \/ ToSettle(m, q) \/ q \in invalid
    /\ \A q \in Queries : \A m \in misses[q] :
           m = "others" \/ NeedNotShow(m, q) \/ ToSettle(m, q)

LEMMA ShownInvParts ==
    ShownInv <=> CopiesShown /\ (want = "ReorderCategories" => AdminCategories \in held)
BY DEF ShownInv, CopiesShown

(* A step that takes no mutation further and writes nothing.                   *)
LEMMA ShownCarried ==
    ASSUME ClientTypes, ShownInv,
           held \subseteq held', invalid \subseteq invalid', op' = op,
           \A q \in Queries : lacks'[q] \subseteq lacks[q] /\ misses'[q] \subseteq misses[q],
           want' = want \/ want' = "none"
    PROVE  ShownInv'
<1>1. \A m, q : ToSettle(m, q) => ToSettle(m, q)'
  BY DEF ToSettle
<1>2. CopiesShown'
  BY <1>1 DEF ShownInv, CopiesShown
<1>3. (want = "ReorderCategories" => AdminCategories \in held)'
  BY DEF ShownInv
<1> QED  BY <1>2, <1>3 DEF ShownInv, CopiesShown

(* A mutation settles: what lacks it is asked again, or need not show it.      *)
LEMMA SettledShown ==
    ASSUME ClientTypes, ShownInv, op # NoOp, NEW keys,
           \A q \in Queries : ToSettle(op.m, q) => q \in Hit(keys) \/ NeedNotShow(op.m, q),
           Invalidate(op.m, keys, lacks), UNCHANGED held
    PROVE  CopiesShown'
<1> DEFINE m0 == op.m
<1>1. m0 \in Mutations /\ m0 # "others"
  BY MutationsTyped, ButtonsAreNamed DEF Mutations
<1>2. ASSUME NEW q \in Queries PROVE lacks'[q] = IF q \in Active \cup Hit(keys) THEN lacks[q] ELSE Old(lacks[q], m0)
  BY <1>2 DEF Invalidate, Aged
<1>3. ASSUME NEW q \in Queries, NEW m \in lacks'[q], m # "others"
      PROVE  m \in lacks[q] /\ (m = m0 => q \in Active \cup Hit(keys))
  BY <1>1, <1>2, <1>3 DEF Old
<1>4. invalid' = invalid \cup (Hit(keys) \cap held)
  BY DEF Invalidate
<1>5. ASSUME NEW m, NEW q, m # m0 PROVE ~ToSettle(m, q)
  BY <1>5 DEF ToSettle
<1>6. ASSUME NEW q \in Queries, NEW m \in lacks'[q]
      PROVE  m = "others" \/ NeedNotShow(m, q) \/ q \in invalid'
  <2>1. CASE m = "others"
    BY <2>1
  <2>2. CASE m # "others" /\ m # m0
    BY <1>3, <1>4, <1>5, <1>6, <2>2 DEF ShownInv
  <2>3. CASE m # "others" /\ m = m0
    <3>1. m \in lacks[q] /\ q \in held
      BY <1>3, <1>6, <2>3 DEF ShownInv
    <3>2. NeedNotShow(m, q) \/ ToSettle(m, q) \/ q \in invalid
      BY <3>1, <2>3 DEF ShownInv
    <3>3. ToSettle(m, q) => q \in Hit(keys) \/ NeedNotShow(m, q)
      BY <2>3
    <3> QED  BY <1>4, <3>1, <3>2, <3>3
  <2> QED  BY <2>1, <2>2, <2>3
<1>7. ASSUME NEW q \in Queries, NEW m \in misses'[q]
      PROVE  m = "others" \/ NeedNotShow(m, q)
  <2>1. misses'[q] = CASE q \in Restarted(keys) -> {}
                       [] q \in (Active \cap held) \ Restarted(keys) -> misses[q]
                       [] OTHER -> Old(misses[q], m0)
    BY DEF Invalidate, AgedAnswer
  <2>2. q \notin Restarted(keys)
    BY <1>7, <2>1
  <2>3. m # "others" => m \in misses[q] /\ (m = m0 => q \in Active \cap held)
    <3>1. CASE q \in Active \cap held
      BY <1>7, <2>1, <2>2, <3>1
    <3>2. CASE q \notin Active \cap held
      <4>1. misses'[q] = Old(misses[q], m0)
        BY <2>1, <2>2, <3>2
      <4> QED  BY <1>1, <1>7, <4>1 DEF Old
    <3> QED  BY <3>1, <3>2
  <2>4. CASE m # "others" /\ m # m0
    BY <1>5, <1>7, <2>3, <2>4 DEF ShownInv
  <2>5. CASE m # "others" /\ m = m0
    <3>1. NeedNotShow(m, q) \/ ToSettle(m, q)
      BY <2>3, <2>5 DEF ShownInv
    <3>2. q \notin Hit(keys)
      BY <2>2, <2>3, <2>5 DEF Restarted
    <3> QED  BY <2>5, <3>1, <3>2
  <2> QED  BY <2>4, <2>5
<1>8. ASSUME NEW q \in Queries, lacks'[q] # {} PROVE q \in held'
  BY <1>2, <1>8 DEF Old, ShownInv
<1>9. \A m, q : NeedNotShow(m, q) => NeedNotShow(m, q)'
  BY DEF NeedNotShow
<1> QED  BY <1>6, <1>7, <1>8, <1>9 DEF CopiesShown

(* A write, by others or by the mutation under way, that goes on.              *)
LEMMA WrittenShown ==
    ASSUME ClientTypes, ShownInv, NEW m0 \in Mutations \cup {"others"}, NEW w, Wrote(m0, w),
           UNCHANGED <<held, invalid>>,
           \A m, q : ToSettle(m, q) => ToSettle(m, q)' \/ m = "others" \/ NeedNotShow(m, q),
           \A q : Shows(q, w) => m0 = "others" \/ ToSettle(m0, q)' \/ NeedNotShow(m0, q)
    PROVE  CopiesShown'
<1>1. \A q \in Queries : /\ lacks'[q] \subseteq lacks[q] \cup {m0}
                         /\ misses'[q] \subseteq misses[q] \cup {m0}
                         /\ lacks'[q] # lacks[q] => q \in held /\ Shows(q, w)
                         /\ misses'[q] # misses[q] => Shows(q, w)
  BY WritesKeepTypes
<1>2. ASSUME NEW q \in Queries, lacks'[q] # {} PROVE q \in held'
  BY <1>1, <1>2 DEF ShownInv
<1>3. ASSUME NEW q \in Queries, NEW m \in lacks'[q]
      PROVE  m = "others" \/ NeedNotShow(m, q) \/ ToSettle(m, q)' \/ q \in invalid'
  BY <1>1, <1>3 DEF ShownInv
<1>4. ASSUME NEW q \in Queries, NEW m \in misses'[q]
      PROVE  m = "others" \/ NeedNotShow(m, q) \/ ToSettle(m, q)'
  BY <1>1, <1>4 DEF ShownInv
<1>5. \A m, q : NeedNotShow(m, q) => NeedNotShow(m, q)'
  BY DEF NeedNotShow
<1> QED  BY <1>2, <1>3, <1>4, <1>5 DEF CopiesShown

(* An answer of the server to the mutation under way.                          *)
LEMMA ServerDoesShown ==
    ASSUME ClientTypes, ShownInv, ServerDoes
    PROVE  CopiesShown'
<1>1. op # NoOp /\ op.phase = "sent"
  BY DEF ServerDoes, NoOp
<1>2. op.m \in Mutations
  BY <1>1, MutationsTyped
<1>3. UNCHANGED <<held, invalid>>
  BY DEF ServerDoes, serverFrame
<1>4. op'.m = op.m
  BY <1>1, MutationsTyped DEF ServerDoes
<1>5. \A m, q : ToSettle(m, q) => ToSettle(m, q)'
  BY <1>1, <1>4 DEF ToSettle
<1>6. CASE UNCHANGED <<lacks, misses>>
  BY <1>3, <1>5, <1>6 DEF CopiesShown, ShownInv, NeedNotShow
<1>7. CASE op.m = "Login" /\ op' = [op EXCEPT !.phase = "done"]
           /\ lacks' = [q \in Queries |-> IF q \in held THEN lacks[q] \cup {op.m} ELSE {}]
           /\ misses' = [q \in Queries |-> IF flight[q] = "read" THEN misses[q] \cup {op.m} ELSE {}]
  <2>1. \A q : NeedNotShow("Login", q)
    BY LoginNeedsNothing
  <2>2. \A q \in Queries : /\ lacks'[q] \subseteq lacks[q] \cup {"Login"}
                           /\ lacks'[q] # {} => q \in held
                           /\ misses'[q] \subseteq misses[q] \cup {"Login"}
    BY <1>7
  <2>3. \A m, q : NeedNotShow(m, q) => NeedNotShow(m, q)'
    BY DEF NeedNotShow
  <2>4. ASSUME NEW q \in Queries, NEW m \in lacks'[q]
        PROVE  m = "others" \/ NeedNotShow(m, q) \/ ToSettle(m, q)' \/ q \in invalid'
    BY <1>3, <1>5, <2>1, <2>2, <2>4 DEF ShownInv
  <2>5. ASSUME NEW q \in Queries, NEW m \in misses'[q]
        PROVE  m = "others" \/ NeedNotShow(m, q) \/ ToSettle(m, q)'
    BY <1>5, <2>1, <2>2, <2>5 DEF ShownInv
  <2> QED  BY <1>3, <2>2, <2>3, <2>4, <2>5 DEF CopiesShown
<1>8. CASE op' = [op EXCEPT !.phase = "done"] /\ Wrote(op.m, Writes(op.m))
  <2>1. op'.phase = "done"
    BY <1>1, <1>8, MutationsTyped
  <2>2. \A q : Shows(q, Writes(op.m)) => ToSettle(op.m, q)'
    BY <1>4, <2>1 DEF ToSettle
  <2> QED  BY <1>2, <1>3, <1>5, <1>8, <2>2, WrittenShown
<1> QED  BY <1>6, <1>7, <1>8 DEF ServerDoes

(* Every step keeps ShownInv.                                                  *)
LEMMA ShownKept == ClientTypes /\ ShownInv /\ [ClientNext]_clientVars => ShownInv'
<1> SUFFICES ASSUME ClientTypes, ShownInv, [ClientNext]_clientVars PROVE ShownInv'
  OBVIOUS
<1> DEFINE Kept == (want = "ReorderCategories" => AdminCategories \in held)'
<1>a. CopiesShown' /\ Kept => ShownInv'
  BY DEF ShownInv, CopiesShown
<1>b. want = "ReorderCategories" => AdminCategories \in held
  BY DEF ShownInv
<1>1. ASSUME Mount PROVE ShownInv'
  BY <1>1, ShownCarried DEF Mount, Ask, queryFrame, tabFrame
<1>2. ASSUME NEW q \in Queries, ServerReads(q) PROVE ShownInv'
  BY <1>2, ShownCarried DEF ServerReads, queryFrame, tabFrame
<1>3. ASSUME NEW q \in Queries, Arrive(q) PROVE ShownInv'
  <2>1. /\ UNCHANGED <<op, want>> /\ held' = held \cup {q} /\ invalid' = invalid \ {q}
        /\ lacks'[q] = misses[q] /\ \A r \in Queries \ {q} : lacks'[r] = lacks[r]
        /\ \A r \in Queries : misses'[r] \subseteq misses[r]
    BY <1>3, ClientFits DEF Arrive, queryFrame, tabFrame
  <2>2. \A m, r : ToSettle(m, r) => ToSettle(m, r)'
    BY <2>1 DEF ToSettle
  <2>3. \A m, r : NeedNotShow(m, r) => NeedNotShow(m, r)'
    BY DEF NeedNotShow
  <2>4. CopiesShown'
    BY <2>1, <2>2, <2>3 DEF CopiesShown, ShownInv
  <2> QED  BY <1>a, <1>b, <2>1, <2>4
<1>4. ASSUME NEW q \in Queries, FetchFails(q) PROVE ShownInv'
  BY <1>4, ShownCarried, ClientFits DEF FetchFails, queryFrame, tabFrame
<1>5. ASSUME NEW q \in Queries, Refresh(q) PROVE ShownInv'
  BY <1>5, ShownCarried DEF Refresh, Ask, tabFrame
<1>6. ASSUME ServerDoes PROVE ShownInv'
  <2>1. UNCHANGED <<want, held>>
    BY <1>6 DEF ServerDoes, serverFrame
  <2> QED  BY <1>6, <1>a, <1>b, <2>1, ServerDoesShown
<1>7. ASSUME ServerDoesHalf PROVE ShownInv'
  <2>1. op # NoOp
    BY <1>7 DEF ServerDoesHalf, NoOp
  <2>2. op.m = "ReorderCategories" /\ op'.m = op.m /\ op.m \in Mutations
    BY <1>7, <2>1, MutationsTyped DEF ServerDoesHalf
  <2>3. UNCHANGED <<want, held, invalid>> /\ Wrote(op.m, Writes(op.m))
    BY <1>7 DEF ServerDoesHalf, serverFrame
  <2>4. \A m, q : ToSettle(m, q) => ToSettle(m, q)'
    BY <2>2 DEF ToSettle
  <2>5. \A q : Shows(q, Writes(op.m)) => ToSettle(op.m, q)'
    BY <2>2 DEF ToSettle
  <2>6. CopiesShown'
    BY <2>2, <2>3, <2>4, <2>5, WrittenShown
  <2> QED  BY <1>a, <1>b, <2>3, <2>6
<1>8. ASSUME CallLost PROVE ShownInv'
  <2>1. op # NoOp
    BY <1>8 DEF CallLost, NoOp
  <2>2. op.m \in Mutations /\ op.m # "others"
    BY <2>1, MutationsTyped, ButtonsAreNamed DEF Mutations
  <2>3. UNCHANGED <<want, held, invalid>>
    BY <1>8 DEF CallLost, serverFrame
  <2>4. \A q \in Queries : lacks'[q] = Old(lacks[q], op.m) /\ misses'[q] = Old(misses[q], op.m)
    BY <1>8 DEF CallLost
  <2>5. \A q \in Queries : /\ \A m \in lacks'[q] : m # op.m /\ (m = "others" \/ m \in lacks[q])
                           /\ \A m \in misses'[q] : m # op.m /\ (m = "others" \/ m \in misses[q])
                           /\ lacks'[q] # {} => lacks[q] # {}
    BY <2>2, <2>4 DEF Old
  <2>6. \A m, q : ToSettle(m, q) => m = op.m
    BY DEF ToSettle
  <2>7. \A m, q : NeedNotShow(m, q) => NeedNotShow(m, q)'
    BY DEF NeedNotShow
  <2>8. CopiesShown'
    BY <2>3, <2>5, <2>6, <2>7 DEF CopiesShown, ShownInv
  <2> QED  BY <1>a, <1>b, <2>3, <2>8
<1>9. ASSUME Succeeds PROVE ShownInv'
  <2>1. op # NoOp
    BY <1>9 DEF Succeeds, NoOp
  <2>2. /\ Invalidate(op.m, Keys(op.m), lacks) /\ UNCHANGED held
        /\ want' = "none" /\ op.m # "Logout"
    BY <1>9 DEF Succeeds
  <2>3. \A q \in Queries : ToSettle(op.m, q) => q \in Hit(Keys(op.m)) \/ NeedNotShow(op.m, q)
    BY <2>2, HooksSeeTo DEF ToSettle
  <2>4. CopiesShown'
    BY <2>1, <2>2, <2>3, SettledShown
  <2> QED  BY <1>a, <2>2, <2>4
<1>10. ASSUME LoginSucceeds PROVE ShownInv'
  <2>1. /\ op.m = "Login" /\ want' = "none" /\ UNCHANGED misses
        /\ held' = held \cup {Session} /\ invalid \ {Session} \subseteq invalid'
        /\ \A q \in Queries : lacks'[q] = IF q = Session THEN {} ELSE lacks[q]
    BY <1>10, ClientFits DEF LoginSucceeds
  <2>2. \A m, q : ToSettle(m, q) => NeedNotShow(m, q)
    BY <2>1, LoginNeedsNothing DEF ToSettle
  <2>3. \A m, q : NeedNotShow(m, q) => NeedNotShow(m, q)'
    BY DEF NeedNotShow
  <2>4. CopiesShown'
    BY <2>1, <2>2, <2>3 DEF CopiesShown, ShownInv
  <2> QED  BY <1>a, <2>1, <2>4
<1>11. ASSUME LogoutSucceeds PROVE ShownInv'
  BY <1>11 DEF LogoutSucceeds, LogoutClears, Empty, ShownInv
<1>12. ASSUME Fails PROVE ShownInv'
  <2>1. op # NoOp /\ op.phase # "done"
    BY <1>12 DEF Fails, NoOp
  <2>2. /\ Invalidate(op.m, ErrorKeys(op.m), lacks) /\ UNCHANGED held
        /\ want' = want \/ want' = "none"
    BY <1>12 DEF Fails
  <2>3. \A q \in Queries : ToSettle(op.m, q) => q \in Hit(ErrorKeys(op.m)) \/ NeedNotShow(op.m, q)
    BY <2>1, HooksSeeTo, ReorderingHits DEF ToSettle
  <2>4. CopiesShown'
    BY <2>1, <2>2, <2>3, SettledShown
  <2> QED  BY <1>a, <1>b, <2>2, <2>4
<1>13. ASSUME NEW served, Reload(served) PROVE ShownInv'
  BY <1>13 DEF Reload, Empty, ShownInv
<1>14. ASSUME BellPolls \/ Redirect \/ EnterFromLogin \/ SessionExpires \/ Deploy PROVE ShownInv'
  BY <1>14, ShownCarried
     DEF BellPolls, Redirect, EnterFromLogin, SessionExpires, Deploy, cache
<1>15. ASSUME NEW p \in Pages, Navigate(p) PROVE ShownInv'
  BY <1>15, ShownCarried DEF Navigate, cache
<1>16. ASSUME NEW m \in Mutations, Decide(m) PROVE ShownInv'
  <2>1. /\ UNCHANGED <<held, lacks, misses, invalid, op>> /\ want' = m
        /\ m \in Buttons[page] /\ Active = Mounted[page] /\ Active \subseteq held
    BY <1>16 DEF Decide, cache
  <2>2. CopiesShown'
    BY <2>1 DEF CopiesShown, ShownInv, NeedNotShow, ToSettle
  <2>3. m = "ReorderCategories" => AdminCategories \in held
    BY <2>1, ClientFits, ReorderingHits
  <2> QED  BY <1>a, <2>1, <2>2, <2>3
<1>17. ASSUME Press PROVE ShownInv'
  <2>1. op = NoOp /\ op'.m = want /\ UNCHANGED <<held, invalid, want>>
    BY <1>17 DEF Press
  <2>2. want # "none"
    BY <1>17 DEF Press
  <2>3. \A m, q : ToSettle(m, q) => m = "none"
    BY <2>1 DEF ToSettle, NoOp
  <2>4. \A m, q : NeedNotShow(m, q) => NeedNotShow(m, q)'
    BY DEF NeedNotShow
  <2>5. \A q \in Queries : "none" \notin lacks[q] /\ "none" \notin misses[q]
    BY ButtonsAreNamed, ClientFits DEF Mutations
  <2>6. \A q \in Queries : misses'[q] \subseteq misses[q]
    BY <1>17, ClientFits DEF Press
  <2>7. \A q \in Queries :
            \/ lacks'[q] = lacks[q]
            \/ want = "ReorderCategories" /\ q = AdminCategories /\ lacks'[q] = {want}
    BY <1>17, ClientFits DEF Press
  <2>8. want = "ReorderCategories" => ToSettle("ReorderCategories", AdminCategories)'
    BY <2>1, ReorderingHits DEF ToSettle
  <2>9. CopiesShown'
    BY <1>b, <2>1, <2>3, <2>4, <2>5, <2>6, <2>7, <2>8 DEF CopiesShown, ShownInv
  <2> QED  BY <1>a, <1>b, <2>1, <2>9
<1>18. ASSUME OthersAct PROVE ShownInv'
  <2>1. op'.m = op.m /\ op'.phase = op.phase
    BY <1>18, MutationsTyped DEF OthersAct, NoOp
  <2>2. \A m, q : ToSettle(m, q) => ToSettle(m, q)'
    BY <2>1 DEF ToSettle
  <2>3. Wrote("others", {"tasks"}) /\ UNCHANGED <<held, invalid, want>>
    BY <1>18 DEF OthersAct
  <2>4. CopiesShown'
    BY <2>2, <2>3, WrittenShown
  <2> QED  BY <1>a, <1>b, <2>3, <2>4
<1>19. CASE UNCHANGED clientVars
  BY <1>19, ShownCarried DEF clientVars, cache
<1> QED
  BY <1>1, <1>2, <1>3, <1>4, <1>5, <1>6, <1>7, <1>8, <1>9, <1>10, <1>11, <1>12, <1>13, <1>14,
     <1>15, <1>16, <1>17, <1>18, <1>19
     DEF ClientNext, NetworkStep, UpdateStep, WorkerTakesOver, PurgeAndReload

-----------------------------------------------------------------------------
(* After a logout.  A step that changes no session and no copy of before it.   *)
LEMMA LogoutCarried ==
    ASSUME ClientTypes, LogoutInv, UNCHANGED <<signedIn, ended>>, ~LoggingOut,
           op'.m # "Logout" \/ op'.phase # "done",
           \A q \in Queries : /\ "Login" \in lacks'[q] => "Login" \in lacks[q]
                              /\ "Login" \in misses'[q] => "Login" \in misses[q]
                              /\ flight'[q] = "read" => flight[q] = "read",
           held' \subseteq held \cup {Session}
    PROVE  LogoutInv'
BY DEF LogoutInv, LoggingOut

LEMMA LogoutKept == ClientTypes /\ LogoutInv /\ [ClientNext]_clientVars => LogoutInv'
<1> SUFFICES ASSUME ClientTypes, LogoutInv, [ClientNext]_clientVars PROVE LogoutInv'
  OBVIOUS
<1>0. \A q \in Queries : lacks[q] \subseteq Mutations \cup {"others"}
  BY ClientFits
<1>1. ASSUME Mount PROVE LogoutInv'
  BY <1>1 DEF Mount, Ask, queryFrame, tabFrame, LogoutInv, LoggingOut
<1>2. ASSUME NEW q \in Queries, ServerReads(q) PROVE LogoutInv'
  <2>1. UNCHANGED <<held, lacks, misses, signedIn, op, ended>>
    BY <1>2 DEF ServerReads, queryFrame, tabFrame
  <2>2. ~signedIn => \A r \in Queries \ {Session} : flight'[r] = "read" => flight[r] = "read"
    BY <1>2, ClientFits DEF ServerReads
  <2> QED  BY <2>1, <2>2 DEF LogoutInv, LoggingOut
<1>3. ASSUME NEW q \in Queries, Arrive(q) PROVE LogoutInv'
  <2>1. /\ UNCHANGED <<signedIn, op, ended>> /\ held' = held \cup {q} /\ flight[q] = "read"
        /\ \A r \in Queries : /\ lacks'[r] = IF r = q THEN misses[r] ELSE lacks[r]
                              /\ misses'[r] \subseteq misses[r]
                              /\ flight'[r] = "read" => flight[r] = "read"
    BY <1>3, ClientFits DEF Arrive, queryFrame, tabFrame
  <2> QED  BY <2>1 DEF LogoutInv, LoggingOut
<1>4. ASSUME NEW q \in Queries, FetchFails(q) PROVE LogoutInv'
  <2>1. /\ UNCHANGED <<signedIn, op, ended, held, lacks>>
        /\ \A r \in Queries : misses'[r] \subseteq misses[r] /\ (flight'[r] = "read" => flight[r] = "read")
    BY <1>4, ClientFits DEF FetchFails, queryFrame, tabFrame
  <2> QED  BY <2>1 DEF LogoutInv, LoggingOut
<1>5. ASSUME NEW q \in Queries, Refresh(q) PROVE LogoutInv'
  BY <1>5 DEF Refresh, Ask, tabFrame, LogoutInv, LoggingOut
<1>6. ASSUME ServerDoes PROVE LogoutInv'
  <2>1. op # NoOp /\ op.phase = "sent" /\ ~LoggingOut
    BY <1>6 DEF ServerDoes, NoOp, LoggingOut
  <2>2. UNCHANGED <<held, flight>> /\ op'.m = op.m
    BY <1>6, <2>1, MutationsTyped DEF ServerDoes, serverFrame
  <2>3. op.m # "others"
    BY <2>1, MutationsTyped, ButtonsAreNamed DEF Mutations
  <2>4. CASE (~signedIn /\ op.m # "Login") \/ ~op.current
    <3>1. UNCHANGED <<lacks, misses, signedIn>> /\ op'.phase # "done"
      BY <1>6, <2>1, <2>4, MutationsTyped DEF ServerDoes
    <3>2. ended' = ended \/ ended' = "replaced"
      BY <1>6 DEF ServerDoes
    <3> QED  BY <2>1, <2>2, <3>1, <3>2 DEF LogoutInv, LoggingOut
  <2>5. CASE op.m = "Login" /\ ~signedIn /\ op.current
    <3>1. /\ \A q \in Queries : lacks'[q] = IF q \in held THEN lacks[q] \cup {op.m} ELSE {}
          /\ \A q \in Queries : misses'[q] = IF flight[q] = "read" THEN misses[q] \cup {op.m} ELSE {}
          /\ ended' = ended /\ signedIn' = TRUE
      BY <1>6, <2>5 DEF ServerDoes
    <3>2. ended = "logout" => held \subseteq {Session}
              /\ \A q \in Queries \ {Session} : flight[q] # "read"
      BY <2>1, <2>5 DEF LogoutInv
    <3>3. \A q \in Queries \ {Session} :
              ended = "logout" => "Login" \notin lacks'[q] /\ "Login" \notin misses'[q]
      BY <3>1, <3>2
    <3> QED  BY <2>2, <2>5, <3>1, <3>3 DEF LogoutInv, LoggingOut
  <2>6. CASE op.m = "Login" /\ signedIn /\ op.current
    <3>1. ended' = "replaced"
      BY <1>6, <2>6 DEF ServerDoes
    <3> QED  BY <2>2, <2>6, <3>1 DEF LogoutInv, LoggingOut
  <2>7. CASE op.m # "Login" /\ signedIn /\ op.current
    <3>1. Wrote(op.m, Writes(op.m)) /\ ended' = ended /\ signedIn' = (op.m # "Logout")
      BY <1>6, <2>7 DEF ServerDoes
    <3>2. \A q \in Queries : /\ "Login" \in lacks'[q] => "Login" \in lacks[q]
                             /\ "Login" \in misses'[q] => "Login" \in misses[q]
      BY <2>7, <3>1, ClientFits DEF Wrote
    <3>3. op'.phase = "done"
      BY <1>6, <2>1, <2>7, MutationsTyped DEF ServerDoes
    <3> QED  BY <2>1, <2>2, <2>7, <3>1, <3>2, <3>3 DEF LogoutInv, LoggingOut
  <2>8. signedIn \in BOOLEAN /\ op.current \in BOOLEAN
    BY <2>1 DEF ClientTypes, ClientTypeOK, OpRecords
  <2> QED  BY <2>4, <2>5, <2>6, <2>7, <2>8
<1>7. ASSUME ServerDoesHalf PROVE LogoutInv'
  <2>1. op # NoOp /\ op.m = "ReorderCategories"
    BY <1>7 DEF ServerDoesHalf, NoOp
  <2>2. Wrote(op.m, Writes(op.m)) /\ UNCHANGED <<signedIn, ended, held, flight>>
    BY <1>7 DEF ServerDoesHalf, serverFrame
  <2>3. op'.m = op.m
    BY <1>7, <2>1, MutationsTyped DEF ServerDoesHalf
  <2>4. \A q \in Queries : /\ "Login" \in lacks'[q] => "Login" \in lacks[q]
                           /\ "Login" \in misses'[q] => "Login" \in misses[q]
    BY <2>1, <2>2, ClientFits DEF Wrote
  <2> QED  BY <2>1, <2>2, <2>3, <2>4 DEF LogoutInv, LoggingOut
<1>8. ASSUME CallLost PROVE LogoutInv'
  <2>1. op # NoOp /\ op.m # "Logout"
    BY <1>8 DEF CallLost, NoOp
  <2>2. UNCHANGED <<signedIn, ended, held, flight>>
    BY <1>8 DEF CallLost, serverFrame
  <2>3. op'.m = op.m
    BY <1>8, <2>1, MutationsTyped DEF CallLost
  <2>4. \A q \in Queries : /\ "Login" \in lacks'[q] => "Login" \in lacks[q]
                           /\ "Login" \in misses'[q] => "Login" \in misses[q]
    BY <1>8, ClientFits DEF CallLost, Old
  <2> QED  BY <2>1, <2>2, <2>3, <2>4 DEF LogoutInv, LoggingOut
<1>9. ASSUME NEW keys, op # NoOp, Invalidate(op.m, keys, lacks), UNCHANGED <<signedIn, ended, held>>,
             ~LoggingOut, op' = NoOp
      PROVE  LogoutInv'
  <2>1. \A q \in Queries : /\ "Login" \in lacks'[q] => "Login" \in lacks[q]
                           /\ flight'[q] = "read" => flight[q] = "read"
    BY <1>9, ClientFits DEF Invalidate, Aged, Old
  <2>2. ASSUME NEW q \in Queries PROVE "Login" \in misses'[q] => "Login" \in misses[q]
    <3>1. misses'[q] = CASE q \in Restarted(keys) -> {}
                         [] q \in (Active \cap held) \ Restarted(keys) -> misses[q]
                         [] OTHER -> Old(misses[q], op.m)
      BY <1>9 DEF Invalidate, AgedAnswer
    <3>2. misses'[q] \in {{}, misses[q], Old(misses[q], op.m)}
      BY <3>1
    <3> QED  BY <3>2 DEF Old
  <2> QED  BY <1>9, <2>1, <2>2, LogoutCarried DEF NoOp
<1>10. ASSUME Succeeds PROVE LogoutInv'
  <2>1. op # NoOp /\ ~LoggingOut
    BY <1>10 DEF Succeeds, NoOp, LoggingOut
  <2> QED  BY <1>9, <1>10, <2>1 DEF Succeeds, answered, settleFrame
<1>11. ASSUME LoginSucceeds PROVE LogoutInv'
  <2>1. ~LoggingOut /\ op' = NoOp
    BY <1>11 DEF LoginSucceeds, LoggingOut, answered
  <2> QED  BY <1>11, <2>1, LogoutCarried, ClientFits DEF LoginSucceeds, settleFrame, NoOp
<1>12. ASSUME LogoutSucceeds PROVE LogoutInv'
  <2>1. op' = NoOp
    BY <1>12 DEF LogoutSucceeds, answered
  <2> QED  BY <1>12, <2>1 DEF LogoutSucceeds, LogoutClears, Empty, LogoutInv, LoggingOut, NoOp
<1>13. ASSUME Fails PROVE LogoutInv'
  <2>1. op # NoOp /\ ~LoggingOut
    BY <1>13 DEF Fails, NoOp, LoggingOut
  <2> QED  BY <1>9, <1>13, <2>1 DEF Fails, answered, settleFrame
<1>14. ASSUME NEW served, Reload(served) PROVE LogoutInv'
  BY <1>14 DEF Reload, Empty, LogoutInv, LoggingOut, NoOp
<1>15. ASSUME BellPolls \/ Redirect \/ EnterFromLogin \/ SessionExpires \/ Deploy PROVE LogoutInv'
  BY <1>15 DEF BellPolls, Redirect, EnterFromLogin, SessionExpires, Deploy, cache, LogoutInv, LoggingOut
<1>16. ASSUME NEW p \in Pages, Navigate(p) PROVE LogoutInv'
  BY <1>16 DEF Navigate, cache, LogoutInv, LoggingOut
<1>17. ASSUME NEW m \in Mutations, Decide(m) PROVE LogoutInv'
  BY <1>17 DEF Decide, cache, LogoutInv, LoggingOut
<1>18. ASSUME Press PROVE LogoutInv'
  <2>1. /\ ~LoggingOut /\ op'.phase = "sent" /\ UNCHANGED <<signedIn, ended, held>>
        /\ \A q \in Queries : /\ "Login" \in lacks'[q] => "Login" \in lacks[q]
                              /\ "Login" \in misses'[q] => "Login" \in misses[q]
                              /\ flight'[q] = "read" => flight[q] = "read"
    BY <1>18, ClientFits DEF Press, LoggingOut, NoOp
  <2> QED  BY <2>1, LogoutCarried
<1>19. ASSUME OthersAct PROVE LogoutInv'
  <2>1. op'.m = op.m /\ op'.phase = op.phase
    BY <1>19, MutationsTyped DEF OthersAct, NoOp
  <2>2. Wrote("others", {"tasks"}) /\ UNCHANGED <<held, flight, signedIn, ended>>
    BY <1>19 DEF OthersAct
  <2>3. \A q \in Queries : /\ "Login" \in lacks'[q] => "Login" \in lacks[q]
                           /\ "Login" \in misses'[q] => "Login" \in misses[q]
    BY <2>2, ClientFits DEF Wrote
  <2> QED  BY <2>1, <2>2, <2>3 DEF LogoutInv, LoggingOut
<1>20. CASE UNCHANGED clientVars
  BY <1>20 DEF clientVars, cache, LogoutInv, LoggingOut
<1> QED
  BY <1>1, <1>2, <1>3, <1>4, <1>5, <1>6, <1>7, <1>8, <1>10, <1>11, <1>12, <1>13, <1>14,
     <1>15, <1>16, <1>17, <1>18, <1>19, <1>20
     DEF ClientNext, NetworkStep, UpdateStep, WorkerTakesOver, PurgeAndReload

LEMMA ClientInvKept == ClientInv /\ [ClientNext]_clientVars => ClientInv'
BY ClientTypesKept, ShownKept, LogoutKept DEF ClientInv

(* What the two properties promise of a state.                                 *)
LEMMA ClientInvShows == ClientInv => CachesAreHonest
<1> SUFFICES ASSUME ClientInv PROVE CachesAreHonest
  OBVIOUS
<1>1. OwnWritesAreShown
  <2> SUFFICES ASSUME NEW q \in Active \cap held, q \notin invalid, op = NoOp,
                      NEW m \in lacks[q] \cap Buttons[page]
               PROVE  <<m, q>> \in Unshown
    BY DEF OwnWritesAreShown
  <2>1. page \in Pages /\ q \in Mounted[page] /\ q \in Queries
    BY ClientFits DEF ClientInv
  <2>2. m # "others" /\ m # "none"
    BY <2>1, ButtonsAreNamed
  <2>3. NeedNotShow(m, q)
    BY <2>1, <2>2 DEF ClientInv, ShownInv, ToSettle, NoOp
  <2> QED  BY <2>1, <2>3 DEF NeedNotShow
<1>2. LogoutForgets
  BY ClientFits DEF LogoutForgets, ClientInv, LogoutInv
<1> QED  BY <1>1, <1>2 DEF CachesAreHonest

(* A page with nothing under way shows every own write that settled, but for    *)
(* the pairs the hooks leave out, and a logout leaves no copy of its session.   *)
THEOREM CachesAreAlwaysHonest == ClientSpec => []CachesAreHonest
<1>1. ClientInit => ClientInv
  BY ClientStart
<1>2. ClientInv /\ [ClientNext]_clientVars => ClientInv'
  BY ClientInvKept
<1>3. ClientInv => CachesAreHonest
  BY ClientInvShows
<1> QED  BY <1>1, <1>2, <1>3, PTL DEF ClientSpec

(* The client's state keeps its types.                                         *)
THEOREM ClientTypeSafety == ClientSpec => []ClientTypeOK
<1>1. ClientInv => ClientTypeOK
  BY DEF ClientInv, ClientTypes
<1> QED  BY <1>1, ClientStart, ClientInvKept, PTL DEF ClientSpec

(* A bounded set of numbers has a largest.                                     *)
LEMMA LargestOf ==
    ASSUME NEW n \in Nat, NEW S \in SUBSET Nat, S # {}, \A i \in S : i <= n
    PROVE  \E i \in S : \A j \in S : j <= i
<1> DEFINE T == {n - i : i \in S}
<1>1. T \in SUBSET Nat /\ T # {}
  <2>1. \A i \in S : i \in Nat /\ i <= n /\ n - i \in Nat
    OBVIOUS
  <2>2. \A i \in S : n - i \in T
    OBVIOUS
  <2> QED  BY <2>1, <2>2
<1> HIDE DEF T
<1>2. PICK t \in T : \A u \in T : t <= u
  BY <1>1, SmallestOf
<1>3. PICK i \in S : t = n - i
  BY <1>2 DEF T
<1>4. \A j \in S : n - j \in T
  BY DEF T
<1>5. \A j \in S : j <= i
  BY <1>2, <1>3, <1>4
<1> QED  BY <1>5
-----------------------------------------------------------------------------
(* Draws, for any roster, configurations, caps and number of rows.             *)

(* filter: what was kept, in the order it had.                                 *)
LEMMA FilteredFacts ==
    ASSUME NEW S, NEW s \in Seq(S), NEW I \in SUBSET DOMAIN s
    PROVE  /\ IsFiniteSet(I) /\ Cardinality(I) \in Nat
           /\ Filtered(s, I) \in Seq(S) /\ Len(Filtered(s, I)) = Cardinality(I)
           /\ DOMAIN Filtered(s, I) = 1 .. Cardinality(I)
           /\ \A i \in I : /\ Rank(i, I) \in 1 .. Cardinality(I)
                           /\ Filtered(s, I)[Rank(i, I)] = s[i]
           /\ \A k \in 1 .. Cardinality(I) : \E i \in I : Rank(i, I) = k /\ Filtered(s, I)[k] = s[i]
           /\ \A i, j \in I : i < j => Rank(i, I) < Rank(j, I)
<1> DEFINE c == Cardinality(I)
           at(k) == CHOOSE i \in I : Rank(i, I) = k
<1>1. Len(s) \in Nat /\ DOMAIN s = 1 .. Len(s) /\ \A i \in DOMAIN s : s[i] \in S
  BY LenProperties, ElementOfSeq
<1>2. IsFiniteSet(I) /\ I \in SUBSET Nat
  <2>1. IsFiniteSet(1 .. Len(s))
    BY <1>1, FS_Interval
  <2>2. IsFiniteSet(I)
    BY <1>1, <2>1, FS_Subset
  <2> QED  BY <1>1, <2>2
<1>3. /\ c \in Nat
      /\ \A i \in I : Rank(i, I) \in 1 .. c
      /\ \A i, j \in I : i < j => Rank(i, I) < Rank(j, I)
      /\ \A i, j \in I : Rank(i, I) = Rank(j, I) => i = j
      /\ \A k \in 1 .. c : \E i \in I : Rank(i, I) = k
  BY <1>2, RankGrows
<1> HIDE DEF c
<1>4. \A k \in 1 .. c : at(k) \in I /\ Rank(at(k), I) = k
  BY <1>3
<1>5. \A i \in I : at(Rank(i, I)) = i
  BY <1>3, <1>4
<1>6. Filtered(s, I) = [k \in 1 .. c |-> s[at(k)]]
  BY DEF Filtered, c
<1> HIDE DEF at
<1>7. \A k \in 1 .. c : s[at(k)] \in S
  BY <1>1, <1>4
<1>8. Filtered(s, I) \in [1 .. c -> S]
  BY <1>6, <1>7
<1>9. Filtered(s, I) \in Seq(S)
  BY <1>3, <1>8, SeqDef
<1>10. Len(Filtered(s, I)) = c /\ DOMAIN Filtered(s, I) = 1 .. c
  BY <1>3, <1>8, <1>9, LenProperties
<1> QED  BY <1>2, <1>3, <1>4, <1>5, <1>6, <1>9, <1>10 DEF c

LEMMA NothingFiltered ==
    ASSUME NEW S, NEW s \in Seq(S), NEW I \in SUBSET DOMAIN s, Filtered(s, I) = <<>>
    PROVE  I = {}
<1>1. Cardinality(I) = 0 /\ IsFiniteSet(I)
  BY FilteredFacts
<1> QED  BY <1>1, FS_EmptySet

-----------------------------------------------------------------------------
(* The rows.                                                                   *)
DrawnRow == [member : People, chore : Chores, kind : {"RANDOM", "VOLUNTARY"},
             status : {"ACTIVE", "COMPLETED", "BOUGHT_OUT"}, on : Nat]

DrawsTypes ==
    /\ today \in Nat
    /\ assignments \in Seq(DrawnRow)
    /\ \A i \in DOMAIN assignments : assignments[i].on <= today

LEMMA RowIsAppended ==
    ASSUME DrawsTypes, NEW added \in DrawnRow, added.on = today,
           assignments' = Append(assignments, added), today' = today
    PROVE  DrawsTypes'
<1> DEFINE n == Len(assignments)
<1>1. n \in Nat /\ DOMAIN assignments = 1 .. n
  BY LenProperties DEF DrawsTypes
<1>2. /\ assignments' \in Seq(DrawnRow) /\ Len(assignments') = n + 1
      /\ \A i \in 1 .. n : assignments'[i] = assignments[i]
      /\ assignments'[n + 1] = added
  BY AppendProperties DEF DrawsTypes
<1>3. DOMAIN assignments' = 1 .. (n + 1)
  BY <1>2, LenProperties
<1> HIDE DEF n
<1>4. \A i \in 1 .. (n + 1) : i \in 1 .. n \/ i = n + 1
  BY <1>1
<1>5. \A i \in DOMAIN assignments' : assignments'[i].on <= today'
  BY <1>1, <1>2, <1>3, <1>4 DEF DrawsTypes
<1> QED  BY <1>2, <1>5 DEF DrawsTypes

(* A day of this week is a day of the window.                                  *)
LEMMA WeekIsInWindow ==
    ASSUME NEW d \in Nat, NEW e \in Nat, d <= e, Week(d) = Week(e)
    PROVE  d >= e - FairnessDays
<1>1. DaysPerWeek \in Nat /\ DaysPerWeek > 0 /\ FairnessDays \in Nat /\ FairnessDays >= DaysPerWeek
  BY WindowCoversAWeek
<1> DEFINE q == d \div DaysPerWeek
<1>2. q \in Int /\ DaysPerWeek * q <= d /\ d < DaysPerWeek * q + DaysPerWeek
  BY <1>1, Z3
<1>3. DaysPerWeek * (e \div DaysPerWeek) <= e /\ e < DaysPerWeek * (e \div DaysPerWeek) + DaysPerWeek
  BY <1>1, Z3
<1>4. e \div DaysPerWeek = q
  BY DEF Week
<1> DEFINE w == DaysPerWeek * q
<1>5. w \in Int
  BY <1>1, <1>2
<1>6. w <= d /\ e < w + DaysPerWeek
  BY <1>2, <1>3, <1>4
<1> HIDE DEF q, w
<1> QED  BY <1>1, <1>5, <1>6

(* The cycles since a member last had a chore are its random rows after the    *)
(* member's last, if that one is among those read.                             *)
OwnOf(m, ch) == {i \in RandomOf(ch) : assignments[i].member = m}
RowsSince(m, ch) == Cardinality({i \in RandomOf(ch) : i > Max(OwnOf(m, ch))})

LEMMA CyclesAreRowsRead ==
    ASSUME DrawsTypes, NEW m, NEW ch
    PROVE  LET own == OwnOf(m, ch) \cap LatestOf(ch)
           IN  /\ own = {} => CyclesSince(m, ch) = Null
               /\ own # {} =>
                     /\ CyclesSince(m, ch) \in Nat
                     /\ CyclesSince(m, ch) = Cardinality({i \in LatestOf(ch) : i > Max(own)})
<1> DEFINE I == LatestOf(ch)
           own == OwnOf(m, ch) \cap LatestOf(ch)
           n == Cardinality(I)
           q == Filtered(assignments, I)
           R == RandomOfTask(ch)
           hits == {k \in DOMAIN R : R[k].member = m}
<1>1. /\ Len(assignments) \in Nat /\ DOMAIN assignments = 1 .. Len(assignments)
      /\ I \in SUBSET DOMAIN assignments /\ own \subseteq I
  BY LenProperties DEF DrawsTypes, RandomOf, LatestOf
<1>2. R = Reverse(q)
  BY DEF RandomOfTask
<1>3. CyclesSince(m, ch) = IF hits = {} THEN Null ELSE Min(hits) - 1
  BY DEF CyclesSince
<1>4. \A i \in I : i \in own <=> assignments[i].member = m
  BY DEF OwnOf, LatestOf
<1> HIDE DEF I, own, R
<1>5. /\ IsFiniteSet(I) /\ n \in Nat /\ Len(q) = n
      /\ \A i \in I : Rank(i, I) \in 1 .. n /\ q[Rank(i, I)] = assignments[i]
      /\ \A k \in 1 .. n : \E i \in I : Rank(i, I) = k /\ q[k] = assignments[i]
      /\ \A i, j \in I : i < j => Rank(i, I) < Rank(j, I)
  BY <1>1, FilteredFacts DEF DrawsTypes
<1> HIDE DEF q, n
<1>6. R = [k \in 1 .. n |-> q[n - k + 1]]
  BY <1>2, <1>5 DEF Reverse
<1>7. hits = {k \in 1 .. n : q[n - k + 1].member = m}
  BY <1>6
<1>8. ASSUME NEW k \in hits
      PROVE  \E i \in own : Rank(i, I) = n - k + 1
  <2>1. k \in 1 .. n /\ n - k + 1 \in 1 .. n
    BY <1>5, <1>7
  <2>2. PICK i \in I : Rank(i, I) = n - k + 1 /\ q[n - k + 1] = assignments[i]
    BY <1>5, <2>1
  <2> QED  BY <1>4, <1>7, <2>2
<1>9. ASSUME NEW i \in own
      PROVE  n - Rank(i, I) + 1 \in hits
  <2>1. i \in I /\ Rank(i, I) \in 1 .. n /\ q[Rank(i, I)].member = m
    BY <1>1, <1>4, <1>5
  <2>2. n - Rank(i, I) + 1 \in 1 .. n /\ n - (n - Rank(i, I) + 1) + 1 = Rank(i, I)
    BY <1>5, <2>1
  <2> QED  BY <1>7, <2>1, <2>2
<1>10. CASE own = {}
  <2>1. hits = {}
    BY <1>8, <1>10
  <2> QED  BY <1>3, <1>10, <2>1 DEF own
<1>11. CASE own # {}
  <2> DEFINE x == Max(own)
  <2>1. x \in own /\ \A i \in own : i <= x
    <3>1. own \in SUBSET Nat /\ own # {} /\ \A i \in own : i <= Len(assignments)
      BY <1>1, <1>11
    <3>2. \E i \in own : \A j \in own : j <= i
      BY <1>1, <3>1, LargestOf
    <3> QED  BY <3>1, <3>2 DEF Max
  <2> HIDE DEF x
  <2> DEFINE r == Rank(x, I)
             k0 == n - r + 1
  <2>2. x \in I /\ r \in 1 .. n
    BY <1>1, <1>5, <2>1
  <2>3. k0 \in hits
    BY <1>9, <2>1
  <2>4. ASSUME NEW k \in hits PROVE k0 <= k
    <3>1. PICK i \in own : Rank(i, I) = n - k + 1
      BY <1>8
    <3>2. i \in I /\ i \in Int /\ x \in Int /\ i <= x
      BY <1>1, <2>1, <2>2
    <3>3. Rank(i, I) <= r /\ Rank(i, I) \in Int
      <4>1. CASE i = x
        BY <2>2, <4>1
      <4>2. CASE i # x
        BY <1>5, <2>2, <3>2, <4>2
      <4> QED  BY <4>1, <4>2
    <3>4. k \in Int
      BY <1>7
    <3> QED  BY <1>5, <2>2, <3>1, <3>3, <3>4
  <2>5. hits \subseteq Int
    BY <1>7
  <2> HIDE DEF hits, k0
  <2>6. Min(hits) = k0
    <3>1. k0 \in Int
      BY <2>3, <2>5
    <3>2. \A k \in hits : (\A j \in hits : k <= j) => k = k0
      BY <2>3, <2>4, <2>5
    <3> QED  BY <2>3, <2>4, <3>2 DEF Min
  <2>7. CyclesSince(m, ch) = n - r
    BY <1>3, <1>5, <2>2, <2>3, <2>6 DEF k0
  <2> DEFINE low == {j \in I : j <= x}
             high == {j \in I : j > x}
  <2>8. high = I \ low /\ I \cap low = low
    BY <1>1, <2>1, <2>2
  <2>9. Cardinality(low) = r
    BY DEF Rank
  <2> HIDE DEF low, high
  <2>10. Cardinality(high) = n - r
    <3>1. Cardinality(I \ low) = Cardinality(I) - Cardinality(I \cap low)
      BY <1>5, FS_Difference
    <3> QED  BY <2>8, <2>9, <3>1 DEF n
  <2>11. n - r \in Nat
    BY <1>5, <2>2
  <2> QED  BY <1>11, <2>7, <2>10, <2>11 DEF high, own, x, I
<1> QED  BY <1>10, <1>11

LEMMA CyclesAreRowsAfter ==
    ASSUME DrawsTypes, NEW m, NEW ch
    PROVE  /\ OwnOf(m, ch) = {} => CyclesSince(m, ch) = Null
           /\ OwnOf(m, ch) # {} =>
                 /\ RowsSince(m, ch) \in Nat
                 /\ RowsSince(m, ch) < RecentRows => CyclesSince(m, ch) = RowsSince(m, ch)
                 /\ RowsSince(m, ch) >= RecentRows => CyclesSince(m, ch) = Null
<1> DEFINE F == RandomOf(ch)
           I == LatestOf(ch)
           own == OwnOf(m, ch)
           after(i) == {j \in F : j > i}
           later(i) == Cardinality(after(i))
           x == Max(own)
<1>1. /\ Len(assignments) \in Nat /\ DOMAIN assignments = 1 .. Len(assignments)
      /\ F \subseteq 1 .. Len(assignments) /\ own \subseteq F
  BY LenProperties DEF DrawsTypes, RandomOf, OwnOf
<1>2. I = {i \in F : later(i) < RecentRows}
  BY DEF LatestOf
<1>3. /\ own \cap I = {} => CyclesSince(m, ch) = Null
      /\ own \cap I # {} => CyclesSince(m, ch) = Cardinality({i \in I : i > Max(own \cap I)})
  BY CyclesAreRowsRead
<1>4. RowsSince(m, ch) = later(x)
  BY DEF RowsSince
<1> HIDE DEF F, I, own
<1>5. F \subseteq Nat /\ IsFiniteSet(F)
  <2>1. IsFiniteSet(1 .. Len(assignments))
    BY <1>1, FS_Interval
  <2>2. F \subseteq Nat
    BY <1>1
  <2>3. IsFiniteSet(F)
    <3>1. F \subseteq 1 .. Len(assignments)
      BY <1>1
    <3> QED  BY <2>1, <3>1, FS_Subset
  <2> QED  BY <2>2, <2>3
<1>6. \A i : IsFiniteSet(after(i)) /\ later(i) \in Nat
  <2> TAKE i
  <2>1. after(i) \subseteq F
    OBVIOUS
  <2> QED  BY <1>5, <2>1, FS_Subset, FS_CardinalityType
<1>7. \A i, j \in F : i <= j => later(j) <= later(i)
  <2> SUFFICES ASSUME NEW i \in F, NEW j \in F, i <= j
               PROVE  later(j) <= later(i)
    OBVIOUS
  <2>1. after(j) \subseteq after(i)
    <3>1. i \in Nat /\ j \in Nat /\ i <= j /\ \A k \in F : k \in Nat
      BY <1>5
    <3>2. \A k \in F : k > j => k > i
      BY <3>1
    <3> QED  BY <3>2
  <2> QED  BY <1>6, <2>1, FS_Subset
<1>8. RecentRows \in Nat
  BY RecentRowsAssumption
<1> HIDE DEF later
<1>9. CASE own # {}
  <2>1. x \in own /\ \A i \in own : i <= x
    <3>1. own \in SUBSET Nat /\ own # {} /\ \A i \in own : i <= Len(assignments)
      BY <1>1, <1>9
    <3>2. \E i \in own : \A j \in own : j <= i
      BY <1>1, <3>1, LargestOf
    <3> QED  BY <3>1, <3>2 DEF Max
  <2> HIDE DEF x
  <2>2. x \in F /\ x \in Nat /\ own \subseteq Nat
    BY <1>1, <1>5, <2>1
  <2>3. CASE later(x) < RecentRows
    <3>1. x \in own \cap I
      BY <1>2, <2>1, <2>2, <2>3
    <3>2. Max(own \cap I) = x
      <4>1. \A i \in own \cap I : (\A j \in own \cap I : j <= i) => i = x
        BY <2>1, <2>2, <3>1
      <4> QED  BY <2>1, <3>1, <4>1 DEF Max
    <3>3. after(x) = {i \in I : i > x}
      <4>1. ASSUME NEW i \in after(x) PROVE i \in I
        <5>1. i \in F /\ i > x
          OBVIOUS
        <5> HIDE DEF after
        <5>2. later(i) <= later(x)
          BY <1>5, <1>7, <2>2, <5>1
        <5> QED  BY <1>2, <1>6, <1>8, <2>3, <5>1, <5>2
      <4> QED  BY <1>2, <4>1
    <3>4. CyclesSince(m, ch) = later(x)
      BY <1>3, <3>1, <3>2, <3>3 DEF later
    <3> HIDE DEF after
    <3>5. ~ later(x) >= RecentRows
      BY <1>6, <1>8, <2>3
    <3> QED  BY <1>4, <1>6, <1>9, <3>4, <3>5 DEF own
  <2>4. CASE later(x) >= RecentRows
    <3> HIDE DEF after
    <3>1. ASSUME NEW i \in own PROVE i \notin I
      <4>1. i \in F /\ later(x) <= later(i)
        BY <1>1, <1>7, <2>1, <2>2
      <4> QED  BY <1>2, <1>6, <1>8, <2>4, <4>1
    <3>2. CyclesSince(m, ch) = Null
      BY <1>3, <3>1
    <3>3. ~ later(x) < RecentRows
      BY <1>6, <1>8, <2>4
    <3> QED  BY <1>4, <1>6, <1>9, <3>2, <3>3 DEF own
  <2> HIDE DEF after
  <2> QED  BY <1>6, <1>8, <2>3, <2>4
<1>10. CASE own = {}
  BY <1>3, <1>10 DEF own
<1> QED  BY <1>9, <1>10
-----------------------------------------------------------------------------
(* The first rule that applies gives the reason.                               *)
LEMMA FirstRule ==
    ASSUME NEW rules, NEW n \in Nat, DOMAIN rules = 1 .. n
    PROVE  /\ (\A i \in 1 .. n : ~ rules[i][1]) => FirstReason(rules) = "none"
           /\ \A k \in 1 .. n :
                 rules[k][1] /\ (\A i \in 1 .. (k - 1) : ~ rules[i][1])
                    => FirstReason(rules) = rules[k][2]
<1> DEFINE hits == {i \in DOMAIN rules : rules[i][1]}
<1>1. FirstReason(rules) = IF hits = {} THEN "none" ELSE rules[Min(hits)][2]
  BY DEF FirstReason
<1>2. (\A i \in 1 .. n : ~ rules[i][1]) => hits = {}
  OBVIOUS
<1>3. ASSUME NEW k \in 1 .. n, rules[k][1], \A i \in 1 .. (k - 1) : ~ rules[i][1]
      PROVE  hits # {} /\ Min(hits) = k
  <2>1. k \in hits /\ k \in Int
    BY <1>3
  <2>2. \A i \in hits : i \in Int /\ k <= i
    BY <1>3
  <2> HIDE DEF hits
  <2>3. \A i \in hits : (\A j \in hits : i <= j) => i = k
    BY <2>1, <2>2
  <2> QED  BY <2>1, <2>2, <2>3 DEF Min
<1> HIDE DEF hits
<1> QED  BY <1>1, <1>2, <1>3

LEMMA HardReasonOf ==
    ASSUME NEW m, NEW ch, NEW away, NEW shielded
    PROVE  HardReason(Candidate(m, ch, away, shielded), Options)
              = IF m \in away THEN "MEMBER_ABSENT" ELSE "none"
<1> DEFINE rules == <<
        <<FALSE, "MEMBER_INACTIVE">>,
        <<m \in away, "MEMBER_ABSENT">>,
        <<FALSE, "EXCLUDED_FROM_TASK">>,
        <<FALSE, "NOT_IN_ALLOWLIST">>,
        <<FALSE, "CATEGORY_EXCLUDED">>,
        <<FALSE, "ROLE_NOT_ELIGIBLE">>,
        <<FALSE, "ADMIN_SLOT_RESERVED">>>>
<1>1. HardReason(Candidate(m, ch, away, shielded), Options) = FirstReason(rules)
  BY DEF HardReason, Candidate, Options
<1>2. /\ DOMAIN rules = 1 .. 7 /\ ~rules[1][1] /\ (rules[2][1] <=> m \in away)
      /\ rules[2][2] = "MEMBER_ABSENT" /\ \A i \in 3 .. 7 : ~rules[i][1]
  <2>1. DOMAIN rules = 1 .. 7
    OBVIOUS
  <2>2. ~rules[1][1] /\ (rules[2][1] <=> m \in away) /\ rules[2][2] = "MEMBER_ABSENT"
    OBVIOUS
  <2>3. ~rules[3][1] /\ ~rules[4][1] /\ ~rules[5][1] /\ ~rules[6][1] /\ ~rules[7][1]
    OBVIOUS
  <2>4. \A i \in 3 .. 7 : i = 3 \/ i = 4 \/ i = 5 \/ i = 6 \/ i = 7
    OBVIOUS
  <2> HIDE DEF rules
  <2> QED  BY <2>1, <2>2, <2>3, <2>4
<1> HIDE DEF rules
<1>3. /\ (\A i \in 1 .. 7 : ~ rules[i][1]) => FirstReason(rules) = "none"
      /\ \A k \in 1 .. 7 : rules[k][1] /\ (\A i \in 1 .. (k - 1) : ~ rules[i][1])
                                => FirstReason(rules) = rules[k][2]
  BY <1>2, FirstRule
<1>4. CASE m \in away
  <2>1. 2 \in 1 .. 7 /\ \A i \in 1 .. (2 - 1) : i = 1
    OBVIOUS
  <2> QED  BY <1>1, <1>2, <1>3, <1>4, <2>1
<1>5. CASE m \notin away
  <2>1. \A i \in 1 .. 7 : i = 1 \/ i = 2 \/ i \in 3 .. 7
    OBVIOUS
  <2> QED  BY <1>1, <1>2, <1>3, <1>5, <2>1
<1> QED  BY <1>4, <1>5

LEMMA SoftReasonOf ==
    ASSUME NEW cfg, NEW c, NEW relaxed
    PROVE  SoftReason(cfg, c, relaxed)
              = IF "IMMEDIATE_REASSIGNMENT" \notin relaxed /\ InCooldown(cfg, c)
                THEN "IMMEDIATE_REASSIGNMENT"
                ELSE IF "ASSIGNMENT_CAP" \notin relaxed /\ AtCap(c) THEN "ASSIGNMENT_CAP"
                ELSE "none"
<1> DEFINE p == "IMMEDIATE_REASSIGNMENT" \notin relaxed /\ InCooldown(cfg, c)
           q == "ASSIGNMENT_CAP" \notin relaxed /\ AtCap(c)
           rules == <<<<p, "IMMEDIATE_REASSIGNMENT">>, <<q, "ASSIGNMENT_CAP">>>>
<1>1. SoftReason(cfg, c, relaxed) = FirstReason(rules)
  BY DEF SoftReason
<1> HIDE DEF p, q
<1>2. /\ DOMAIN rules = 1 .. 2 /\ (rules[1][1] <=> p) /\ (rules[2][1] <=> q)
      /\ rules[1][2] = "IMMEDIATE_REASSIGNMENT" /\ rules[2][2] = "ASSIGNMENT_CAP"
  OBVIOUS
<1> HIDE DEF rules
<1>3. /\ (\A i \in 1 .. 2 : ~ rules[i][1]) => FirstReason(rules) = "none"
      /\ \A k \in 1 .. 2 : rules[k][1] /\ (\A i \in 1 .. (k - 1) : ~ rules[i][1])
                                => FirstReason(rules) = rules[k][2]
  BY <1>2, FirstRule
<1>4. /\ \A i \in 1 .. 2 : i = 1 \/ i = 2
      /\ 1 \in 1 .. 2 /\ 2 \in 1 .. 2 /\ 1 .. (1 - 1) = {} /\ \A i \in 1 .. (2 - 1) : i = 1
  OBVIOUS
<1>5. FirstReason(rules) = IF p THEN "IMMEDIATE_REASSIGNMENT" ELSE IF q THEN "ASSIGNMENT_CAP" ELSE "none"
  BY <1>2, <1>3, <1>4
<1> QED  BY <1>1, <1>5 DEF p, q

(* Why a member of the household is left out of a draw.                        *)
LEMMA ReasonOf ==
    ASSUME NEW cfg, NEW m, NEW ch, NEW away, NEW shielded, NEW relaxed
    PROVE  LET c == Candidate(m, ch, away, shielded)
               r == Reason(cfg, c, Options, relaxed)
           IN  /\ r = "none" <=> /\ m \notin away \cup shielded
                                 /\ "IMMEDIATE_REASSIGNMENT" \in relaxed \/ ~InCooldown(cfg, c)
                                 /\ "ASSIGNMENT_CAP" \in relaxed \/ ~AtCap(c)
               /\ r = "IMMEDIATE_REASSIGNMENT" <=> /\ m \notin away \cup shielded
                                                   /\ "IMMEDIATE_REASSIGNMENT" \notin relaxed
                                                   /\ InCooldown(cfg, c)
<1> DEFINE c == Candidate(m, ch, away, shielded)
<1>1. HardReason(c, Options) = IF m \in away THEN "MEMBER_ABSENT" ELSE "none"
  BY HardReasonOf
<1>2. c.immune <=> m \in shielded
  BY DEF Candidate
<1> HIDE DEF c
<1>3. Reason(cfg, c, Options, relaxed)
         = IF m \in away THEN "MEMBER_ABSENT" ELSE IF m \in shielded THEN "MEMBER_IMMUNE"
           ELSE SoftReason(cfg, c, relaxed)
  BY <1>1, <1>2 DEF Reason
<1> QED  BY <1>3, SoftReasonOf DEF c

-----------------------------------------------------------------------------
(* The ladder: a rule is dropped only when nobody is left, and the cap only    *)
(* when nobody is left without the cooldown either.                            *)
LEMMA RungsDropped ==
    ASSUME NEW cfg, NEW cs, NEW options
    PROVE  LET d == ConstraintsRelaxed(cfg, cs, options)
           IN  d # <<>> =>
                  /\ cfg.relaxWhenNoCandidates
                  /\ Eligible(cfg, cs, options, {}) = <<>>
                  /\ "ASSIGNMENT_CAP" \in Range(d) =>
                        \/ Eligible(cfg, cs, options, {"IMMEDIATE_REASSIGNMENT"}) = <<>>
                        \/ \A i \in DOMAIN cs :
                              Reason(cfg, cs[i], options, {}) # "IMMEDIATE_REASSIGNMENT"
<1> DEFINE Rung(d) == NextRung(cfg, cs, options, d)
           IsAfter(f) == f = [k \in 0 .. Len(Ladder) |-> IF k = 0 THEN <<>> ELSE Rung(f[k - 1])]
           after == CHOOSE f : IsAfter(f)
           g == [k \in 0 .. 2 |-> IF k = 0 THEN <<>> ELSE IF k = 1 THEN Rung(<<>>)
                                  ELSE Rung(Rung(<<>>))]
<1>1. Len(Ladder) = 2 /\ DOMAIN Ladder = 1 .. 2
      /\ Ladder[1] = "IMMEDIATE_REASSIGNMENT" /\ Ladder[2] = "ASSIGNMENT_CAP"
  BY DEF Ladder
<1>2. ConstraintsRelaxed(cfg, cs, options) = after[Len(Ladder)]
  BY DEF ConstraintsRelaxed
<1> HIDE DEF Rung
<1>3. IsAfter(g)
  <2>1. \A k \in 0 .. 2 : g[k] = IF k = 0 THEN <<>> ELSE Rung(g[k - 1])
    OBVIOUS
  <2>2. g = [k \in 0 .. 2 |-> IF k = 0 THEN <<>> ELSE Rung(g[k - 1])]
    BY <2>1
  <2> QED  BY <1>1, <2>2
<1>4. IsAfter(after)
  <2> HIDE DEF g, IsAfter
  <2> QED  BY <1>3
<1>5. after = [k \in 0 .. 2 |-> IF k = 0 THEN <<>> ELSE Rung(after[k - 1])]
  BY <1>1, <1>4
<1> HIDE DEF after
<1>6. after[0] = <<>> /\ after[1] = Rung(after[0]) /\ after[2] = Rung(after[1])
  BY <1>5
<1>7. ConstraintsRelaxed(cfg, cs, options) = Rung(Rung(<<>>))
  BY <1>1, <1>2, <1>6
<1> DEFINE reasons(r) == {Reason(cfg, cs[i], options, r) : i \in DOMAIN cs}
           usable(r) == {k \in DOMAIN Ladder : Ladder[k] \in reasons(r) \ r}
<1>8. ASSUME NEW d, Rung(d) # d
      PROVE  /\ cfg.relaxWhenNoCandidates
             /\ Eligible(cfg, cs, options, Range(d)) = <<>>
             /\ \E k \in 1 .. 2 : /\ Ladder[k] \in reasons(Range(d)) \ Range(d)
                                  /\ k = 2 => Ladder[1] \notin reasons(Range(d)) \ Range(d)
                                  /\ Rung(d) = Append(d, Ladder[k])
  <2>1. /\ Eligible(cfg, cs, options, Range(d)) = <<>> /\ cfg.relaxWhenNoCandidates
        /\ usable(Range(d)) # {} /\ Rung(d) = Append(d, Ladder[Min(usable(Range(d)))])
    BY <1>8 DEF Rung, NextRung
  <2> DEFINE U == usable(Range(d))
             k == Min(U)
  <2>2. U \in SUBSET Nat /\ U # {} /\ U \subseteq 1 .. 2
    BY <1>1, <2>1
  <2>3. k \in U /\ \A j \in U : k <= j
    <3> HIDE DEF U
    <3>1. \E x \in U : \A j \in U : x <= j
      BY <2>2, SmallestOf
    <3> QED  BY <3>1 DEF Min
  <2>4. k \in 1 .. 2 /\ Ladder[k] \in reasons(Range(d)) \ Range(d)
    BY <2>2, <2>3
  <2>5. k = 2 => 1 \notin U
    <3> HIDE DEF U, k
    <3> QED  BY <2>3
  <2>6. k = 2 => Ladder[1] \notin reasons(Range(d)) \ Range(d)
    BY <1>1, <2>5
  <2>7. Rung(d) = Append(d, Ladder[k])
    BY <2>1
  <2> HIDE DEF k
  <2> QED  BY <2>1, <2>4, <2>6, <2>7
<1>9. Range(<<>>) = {} /\ \A x : Append(<<>>, x) = <<x>> /\ Range(<<x>>) = {x}
  <2>1. Range(<<>>) = {}
    BY DEF Range
  <2>2. \A x : Append(<<>>, x) = <<x>>
    OBVIOUS
  <2>3. \A x : Range(<<x>>) = {x}
    BY DEF Range
  <2> QED  BY <2>1, <2>2, <2>3
<1> DEFINE d1 == Rung(<<>>)
           d2 == Rung(d1)
<1>10. CASE d1 = <<>>
  BY <1>7, <1>10
<1>11. CASE d1 # <<>>
  <2>1. /\ cfg.relaxWhenNoCandidates
        /\ Eligible(cfg, cs, options, {}) = <<>>
        /\ \E k \in 1 .. 2 : /\ Ladder[k] \in reasons({})
                             /\ k = 2 => Ladder[1] \notin reasons({})
                             /\ d1 = <<Ladder[k]>>
    <3> HIDE DEF reasons
    <3> QED  BY <1>8, <1>9, <1>11
  <2>2. PICK k \in 1 .. 2 : /\ k = 2 => Ladder[1] \notin reasons({})
                            /\ d1 = <<Ladder[k]>>
    BY <2>1
  <2>3. CASE k = 2
    <3>1. \A i \in DOMAIN cs : Reason(cfg, cs[i], options, {}) # "IMMEDIATE_REASSIGNMENT"
      BY <1>1, <2>2, <2>3
    <3> QED  BY <1>7, <2>1, <3>1
  <2>4. CASE k = 1
    <3>1. d1 = <<"IMMEDIATE_REASSIGNMENT">> /\ Range(d1) = {"IMMEDIATE_REASSIGNMENT"}
      BY <1>1, <1>9, <2>2, <2>4
    <3> HIDE DEF d1
    <3>2. CASE d2 = d1
      BY <1>7, <2>1, <3>1, <3>2 DEF d1
    <3>3. CASE d2 # d1
      <4>1. Eligible(cfg, cs, options, {"IMMEDIATE_REASSIGNMENT"}) = <<>>
        <5> HIDE DEF reasons
        <5> QED  BY <1>8, <3>1, <3>3
      <4> QED  BY <1>7, <2>1, <4>1
    <3> QED  BY <3>2, <3>3
  <2>5. k = 1 \/ k = 2
    OBVIOUS
  <2> QED  BY <2>3, <2>4, <2>5
<1> QED  BY <1>10, <1>11

(* The generator's number falls on somebody.                                   *)
LEMMA DrawableIsThere ==
    ASSUME NEW n \in Nat, n # 0, NEW ws, ws \in Seq({ws[i] : i \in 1 .. n}), DOMAIN ws = 1 .. n
    PROVE  Drawable(ws) \subseteq DOMAIN ws
<1>1. Len(ws) = n
  <2>1. Len(ws) \in Nat /\ DOMAIN ws = 1 .. Len(ws)
    BY LenProperties
  <2> QED  BY <2>1
<1>2. ASSUME NEW p PROVE DrawIndex(ws, p) \in DOMAIN ws
  <2> DEFINE H == {k \in DOMAIN ws : k = Len(ws) \/ p < SumBefore(ws, k + 1)}
  <2>1. H \in SUBSET Nat /\ n \in H
    BY <1>1
  <2>2. \E k \in H : \A j \in H : k <= j
    <3> HIDE DEF H
    <3> QED  BY <2>1, SmallestOf
  <2>3. Min(H) \in H
    <3> HIDE DEF H
    <3> QED  BY <2>2 DEF Min
  <2> QED  BY <2>3 DEF DrawIndex
<1> QED  BY <1>2 DEF Drawable
-----------------------------------------------------------------------------
(* A draw: the members and the candidates it is made from.                     *)
LEMMA WhoIsFree ==
    ASSUME NEW ch
    PROVE  /\ NotHolding(ch) \in Seq(People)
           /\ Len(NotHolding(ch)) \in Nat
           /\ DOMAIN NotHolding(ch) = 1 .. Len(NotHolding(ch))
           /\ \A i \in DOMAIN NotHolding(ch) : NotHolding(ch)[i] \in People
<1> DEFINE holding == {assignments[i].member : i \in {j \in DOMAIN assignments :
                           assignments[j].chore = ch /\ assignments[j].status = "ACTIVE"}}
           I == {i \in DOMAIN Roster : Roster[i] \notin holding}
<1>1. NotHolding(ch) = Filtered(Roster, I)
  BY DEF NotHolding
<1>2. Roster \in Seq(People) /\ I \in SUBSET DOMAIN Roster
  BY RosterIsASequence DEF People
<1> HIDE DEF I
<1>3. NotHolding(ch) \in Seq(People)
  BY <1>1, <1>2, FilteredFacts
<1> QED  BY <1>3, LenProperties, ElementOfSeq

LEMMA CandidatesAre ==
    ASSUME NEW ch, NEW away, NEW shielded
    PROVE  LET cs == Candidates(ch, away, shielded)
           IN  /\ cs \in Seq({cs[i] : i \in DOMAIN NotHolding(ch)})
               /\ DOMAIN cs = DOMAIN NotHolding(ch)
               /\ \A i \in DOMAIN cs :
                     cs[i] = Candidate(NotHolding(ch)[i], ch, away, shielded)
<1> DEFINE cs == Candidates(ch, away, shielded)
           q == NotHolding(ch)
           c(i) == Candidate(q[i], ch, away, shielded)
<1>1. Len(q) \in Nat /\ DOMAIN q = 1 .. Len(q)
  BY WhoIsFree
<1>2. cs = [i \in DOMAIN q |-> c(i)]
  BY DEF Candidates
<1> HIDE DEF cs, q, c
<1>3. cs \in [1 .. Len(q) -> {cs[i] : i \in DOMAIN q}]
  BY <1>1, <1>2
<1>4. cs \in Seq({cs[i] : i \in DOMAIN q})
  BY <1>1, <1>3, SeqDef
<1>5. DOMAIN cs = DOMAIN q /\ \A i \in DOMAIN cs : cs[i] = c(i)
  BY <1>2
<1> QED  BY <1>4, <1>5 DEF cs, q, c

(* Nobody is left only when a reason stands against everybody.                 *)
LEMMA NobodyEligible ==
    ASSUME NEW cfg, NEW ch, NEW away, NEW shielded, NEW relaxed, NEW m
    PROVE  LET c == Candidate(m, ch, away, shielded)
           IN  /\ Eligible(cfg, Candidates(ch, away, shielded), Options, relaxed) = <<>>
               /\ m \in Range(NotHolding(ch)) \ (away \cup shielded)
               => \/ "IMMEDIATE_REASSIGNMENT" \notin relaxed /\ InCooldown(cfg, c)
                  \/ "ASSIGNMENT_CAP" \notin relaxed /\ AtCap(c)
<1> DEFINE cs == Candidates(ch, away, shielded)
           S == {cs[i] : i \in DOMAIN NotHolding(ch)}
<1>1. /\ cs \in Seq(S) /\ DOMAIN cs = DOMAIN NotHolding(ch)
      /\ \A i \in DOMAIN cs : cs[i] = Candidate(NotHolding(ch)[i], ch, away, shielded)
  BY CandidatesAre
<1> SUFFICES ASSUME Eligible(cfg, cs, Options, relaxed) = <<>>,
                    m \in Range(NotHolding(ch)) \ (away \cup shielded)
             PROVE  \/ "IMMEDIATE_REASSIGNMENT" \notin relaxed
                       /\ InCooldown(cfg, Candidate(m, ch, away, shielded))
                    \/ "ASSIGNMENT_CAP" \notin relaxed /\ AtCap(Candidate(m, ch, away, shielded))
  OBVIOUS
<1> DEFINE I == {i \in DOMAIN cs : Reason(cfg, cs[i], Options, relaxed) = "none"}
<1>2. Filtered(cs, I) = <<>>
  BY DEF Eligible
<1> HIDE DEF cs, S
<1>3. I = {}
  <2>1. I \in SUBSET DOMAIN cs
    OBVIOUS
  <2> HIDE DEF I
  <2> QED  BY <1>1, <1>2, <2>1, NothingFiltered
<1>4. PICK i \in DOMAIN NotHolding(ch) : m = NotHolding(ch)[i]
  BY DEF Range
<1>5. Reason(cfg, Candidate(m, ch, away, shielded), Options, relaxed) # "none"
  BY <1>1, <1>3, <1>4
<1> QED  BY <1>5, ReasonOf

LEMMA WeightsPerCandidate ==
    ASSUME NEW cfg, NEW cs
    PROVE  Weights(cfg, cs) = [i \in DOMAIN cs |-> Weights(cfg, cs)[i]]
<1> DEFINE w(i) == CASE cfg.strategy = "PURE_RANDOM"          -> 1
                     [] cfg.strategy = "WEIGHTED_RANDOM"      -> NormalisedWeight(cfg, cs[i], cs)
                     [] cfg.strategy = "LEAST_ASSIGNED_FIRST" -> LeastAssignedWeight(cs[i], cs)
                     [] cfg.strategy = "WEIGHTED_FAIRNESS"    -> FairnessWeight(cfg, cs[i], cs)
<1>1. Weights(cfg, cs) = [i \in DOMAIN cs |-> w(i)]
  BY DEF Weights
<1> HIDE DEF w
<1> QED  BY <1>1

(* Whoever is selected is one of the candidates against whom nothing stands.   *)
LEMMA SelectedIsEligible ==
    ASSUME NEW cfg, NEW ch, NEW away, NEW shielded,
           NEW choice \in Selections(cfg, Candidates(ch, away, shielded), Options)
    PROVE  LET cs == Candidates(ch, away, shielded)
               dropped == ConstraintsRelaxed(cfg, cs, Options)
           IN  /\ choice.relaxed = dropped
               /\ \/ choice.member = Nobody
                  \/ /\ choice.member \in Range(NotHolding(ch))
                     /\ Reason(cfg, Candidate(choice.member, ch, away, shielded),
                               Options, Range(dropped)) = "none"
<1> DEFINE cs == Candidates(ch, away, shielded)
           S == {cs[i] : i \in DOMAIN NotHolding(ch)}
<1>1. /\ cs \in Seq(S) /\ DOMAIN cs = DOMAIN NotHolding(ch)
      /\ \A i \in DOMAIN cs : cs[i] = Candidate(NotHolding(ch)[i], ch, away, shielded)
  BY CandidatesAre
<1> DEFINE dropped == ConstraintsRelaxed(cfg, cs, Options)
           I == {i \in DOMAIN cs : Reason(cfg, cs[i], Options, Range(dropped)) = "none"}
           el == Eligible(cfg, cs, Options, Range(dropped))
           trace(m) == [member |-> m, relaxed |-> dropped,
                        included |-> {el[i].member : i \in DOMAIN el}]
<1>2. el = Filtered(cs, I)
  BY DEF Eligible
<1>3. choice \in IF el = <<>> THEN {trace(Nobody)}
                 ELSE {trace(el[i].member) : i \in Drawable(Weights(cfg, el))}
  BY DEF Selections
<1> HIDE DEF cs, S, dropped, el
<1>4. /\ Cardinality(I) \in Nat /\ DOMAIN el = 1 .. Cardinality(I) /\ Len(el) = Cardinality(I)
      /\ \A k \in 1 .. Cardinality(I) : \E i \in I : el[k] = cs[i]
  <2>1. I \in SUBSET DOMAIN cs
    OBVIOUS
  <2> HIDE DEF I
  <2> QED  BY <1>1, <1>2, <2>1, FilteredFacts
<1> DEFINE n == Cardinality(I)
<1>5. CASE el = <<>>
  <2>1. choice.relaxed = dropped /\ choice.member = Nobody
    BY <1>3, <1>5
  <2> QED  BY <2>1 DEF dropped, cs
<1>6. CASE el # <<>>
  <2> DEFINE ws == Weights(cfg, el)
  <2>1. DOMAIN ws = 1 .. n
    BY <1>4 DEF Weights
  <2>2. ws = [i \in 1 .. n |-> ws[i]]
    <3>1. ws = [i \in DOMAIN el |-> ws[i]]
      BY WeightsPerCandidate
    <3> HIDE DEF ws
    <3> QED  BY <1>4, <3>1
  <2> HIDE DEF ws, n
  <2>3. n \in Nat /\ n # 0
    <3>1. n = 0 => I = {} /\ el = <<>>
      <4>1. n = 0 => Len(el) = 0
        BY <1>4 DEF n
      <4>2. el \in Seq(S)
        <5>1. I \in SUBSET DOMAIN cs
          OBVIOUS
        <5> HIDE DEF I
        <5> QED  BY <1>1, <1>2, <5>1, FilteredFacts
      <4> QED  BY <1>6, <4>1, <4>2, EmptySeq
    <3> QED  BY <1>4, <1>6, <3>1 DEF n
  <2>4. ws \in Seq({ws[i] : i \in 1 .. n})
    <3>1. ws \in [1 .. n -> {ws[i] : i \in 1 .. n}]
      BY <2>2
    <3> QED  BY <2>3, <3>1, SeqDef
  <2>5. Drawable(ws) \subseteq 1 .. n
    BY <2>1, <2>3, <2>4, DrawableIsThere
  <2>6. PICK k \in Drawable(ws) : choice = trace(el[k].member)
    BY <1>3, <1>6 DEF ws
  <2>7. PICK i \in I : el[k] = cs[i]
    BY <1>4, <2>5, <2>6 DEF n
  <2>8. choice.member = el[k].member /\ choice.relaxed = dropped
    BY <2>6
  <2>9. cs[i] = Candidate(NotHolding(ch)[i], ch, away, shielded) /\ i \in DOMAIN NotHolding(ch)
    BY <1>1, <2>7
  <2>10. choice.member = NotHolding(ch)[i]
    BY <2>7, <2>8, <2>9 DEF Candidate
  <2>11. choice.member \in Range(NotHolding(ch))
    BY <2>9, <2>10 DEF Range
  <2>12. Reason(cfg, Candidate(choice.member, ch, away, shielded), Options, Range(dropped)) = "none"
    BY <2>7, <2>9, <2>10
  <2> QED  BY <2>8, <2>11, <2>12 DEF dropped, cs
<1> QED  BY <1>5, <1>6

-----------------------------------------------------------------------------
(* What the draw counted is what the household counts afterwards.              *)
LEMMA CountedAsSeen ==
    ASSUME DrawsTypes, NEW added \in DrawnRow,
           assignments' = Append(assignments, added), today' = today, caps' = caps,
           NEW m, NEW ch, NEW cfg, NEW away, NEW shielded,
           drawn'.chore = ch, drawn'.cfg = cfg
    PROVE  LET c == Candidate(m, ch, away, shielded)
           IN  /\ OverCap(m)' <=> AtCap(c)
               /\ JustHadIt(m)' <=> InCooldown(cfg, c)
<1> DEFINE n == Len(assignments)
           c == Candidate(m, ch, away, shielded)
<1>1. n \in Nat /\ DOMAIN assignments = 1 .. n /\ \A i \in 1 .. n : assignments[i] \in DrawnRow
  BY LenProperties, ElementOfSeq DEF DrawsTypes
<1>2. Len(assignments') = n + 1 /\ \A i \in 1 .. n : assignments'[i] = assignments[i]
  BY AppendProperties DEF DrawsTypes
<1>3. Before' = DOMAIN assignments
  BY <1>1, <1>2 DEF Before
<1>4. HadThisWeek(m)' = RandomThisWeek(m)
  <2> DEFINE seen == {i \in DOMAIN assignments : /\ assignments'[i].member = m
                                                 /\ assignments'[i].kind = "RANDOM"
                                                 /\ Week(assignments'[i].on) = Week(today)}
             counted == {i \in RandomRows(m) : Week(assignments[i].on) = Week(today)}
  <2>1. HadThisWeek(m)' = Cardinality(seen)
    BY <1>3 DEF HadThisWeek, Week
  <2>2. \A i \in DOMAIN assignments : Week(assignments[i].on) = Week(today) => InWindow(i)
    BY <1>1, WeekIsInWindow DEF DrawsTypes, DrawnRow, InWindow
  <2>3. seen = counted
    BY <1>1, <1>2, <2>2 DEF RandomRows, Mine
  <2> QED  BY <2>1, <2>3 DEF RandomThisWeek
<1>5. OverCap(m)' <=> AtCap(c)
  <2>1. c.cap = caps[m] /\ c.randomThisWeek = RandomThisWeek(m)
    BY DEF Candidate
  <2> HIDE DEF c
  <2> QED  BY <1>4, <2>1 DEF OverCap, AtCap
<1>6. JustHadIt(m)' <=> InCooldown(cfg, c)
  <2> DEFINE past == {i \in DOMAIN assignments : assignments'[i].kind = "RANDOM"
                                                 /\ assignments'[i].chore = ch}
             own == {i \in past : assignments'[i].member = m}
             since == Cardinality({i \in past : i > Max(own)})
  <2>1. JustHadIt(m)' <=> /\ cfg.preventImmediateReassignment
                          /\ own # {}
                          /\ since < cfg.reassignmentCooldownCycles
                          /\ since < RecentRows
    BY <1>3 DEF JustHadIt
  <2>2. past = RandomOf(ch)
    BY <1>1, <1>2 DEF RandomOf
  <2>3. own = OwnOf(m, ch)
    BY <1>1, <1>2, <2>2 DEF OwnOf
  <2>4. since = RowsSince(m, ch)
    BY <2>2, <2>3 DEF RowsSince
  <2> HIDE DEF past, own, since
  <2>5. c.cyclesSince = CyclesSince(m, ch)
    BY DEF Candidate
  <2> HIDE DEF c
  <2>6. InCooldown(cfg, c) <=> /\ cfg.preventImmediateReassignment
                               /\ CyclesSince(m, ch) # Null
                               /\ CyclesSince(m, ch) < cfg.reassignmentCooldownCycles
    BY <2>5 DEF InCooldown
  <2>7. \A x \in Nat : x # Null
    BY DEF Null
  <2>8. CASE own = {}
    BY <2>1, <2>3, <2>6, <2>8, CyclesAreRowsAfter
  <2>9. CASE own # {}
    <3>1. /\ since \in Nat /\ RecentRows \in Nat
          /\ since < RecentRows => CyclesSince(m, ch) = since
          /\ since >= RecentRows => CyclesSince(m, ch) = Null
      BY <2>3, <2>4, <2>9, CyclesAreRowsAfter, RecentRowsAssumption
    <3>2. CASE since < RecentRows
      BY <2>1, <2>6, <2>7, <2>9, <3>1, <3>2
    <3>3. CASE since >= RecentRows
      <4>1. ~(since < RecentRows)
        BY <3>1, <3>3
      <4> QED  BY <2>1, <2>6, <3>1, <3>3, <4>1
    <3> QED  BY <3>1, <3>2, <3>3
  <2> QED  BY <2>8, <2>9
<1> QED  BY <1>5, <1>6
-----------------------------------------------------------------------------
(* A draw leaves the household with a fair choice.                             *)
LEMMA DrawImposesTheLeast ==
    ASSUME DrawsTypes, NEW ch \in Chores, NEW cfg, NEW away, NEW shielded,
           Draw(ch, cfg, away, shielded)
    PROVE  DrawsTypes' /\ ImposesTheLeast'
<1> DEFINE cs == Candidates(ch, away, shielded)
           dropped == ConstraintsRelaxed(cfg, cs, Options)
           cand(m) == Candidate(m, ch, away, shielded)
<1>1. PICK choice \in Selections(cfg, cs, Options) :
          /\ assignments' = IF choice.member = Nobody THEN assignments
                            ELSE Append(assignments, Row(choice.member, ch, "RANDOM"))
          /\ drawn' = [member |-> choice.member, chore |-> ch, cfg |-> cfg,
                       pool |-> Range(NotHolding(ch)) \ (away \cup shielded),
                       relaxed |-> choice.relaxed]
  BY DEF Draw
<1>2. today' = today /\ caps' = caps
  BY DEF Draw
<1>3. /\ choice.relaxed = dropped
      /\ \/ choice.member = Nobody
         \/ /\ choice.member \in Range(NotHolding(ch))
            /\ Reason(cfg, cand(choice.member), Options, Range(dropped)) = "none"
  BY SelectedIsEligible
<1>4. /\ drawn'.member = choice.member /\ drawn'.chore = ch /\ drawn'.cfg = cfg
      /\ drawn'.pool = Range(NotHolding(ch)) \ (away \cup shielded)
      /\ drawn'.relaxed = dropped
  BY <1>1, <1>3
<1> HIDE DEF dropped, cs
<1>5. CASE choice.member = Nobody
  <2>1. assignments' = assignments
    BY <1>1, <1>5
  <2>2. DrawsTypes'
    BY <1>2, <2>1 DEF DrawsTypes
  <2> QED  BY <1>4, <1>5, <2>2 DEF ImposesTheLeast
<1>6. CASE choice.member # Nobody
  <2> DEFINE x == choice.member
             added == Row(x, ch, "RANDOM")
  <2>1. x \in Range(NotHolding(ch)) /\ Reason(cfg, cand(x), Options, Range(dropped)) = "none"
    BY <1>3, <1>6
  <2>2. x \in People
    BY <2>1, WhoIsFree DEF Range
  <2>3. added \in DrawnRow /\ added.on = today
    BY <2>2 DEF Row, DrawnRow, DrawsTypes
  <2>4. assignments' = Append(assignments, added)
    BY <1>1, <1>6
  <2>5. DrawsTypes'
    BY <1>2, <2>3, <2>4, RowIsAppended
  <2>6. \A m : (OverCap(m)' <=> AtCap(cand(m))) /\ (JustHadIt(m)' <=> InCooldown(cfg, cand(m)))
    <3> HIDE DEF added
    <3> QED  BY <1>2, <1>4, <2>3, <2>4, CountedAsSeen
  <2> HIDE DEF cand, x
  <2>7. /\ x \notin away \cup shielded
        /\ "IMMEDIATE_REASSIGNMENT" \in Range(dropped) \/ ~InCooldown(cfg, cand(x))
        /\ "ASSIGNMENT_CAP" \in Range(dropped) \/ ~AtCap(cand(x))
    BY <2>1, ReasonOf DEF cand
  <2>8. x \in drawn.pool'
    BY <1>4, <2>1, <2>7
  <2>9. Range(<<>>) = {}
    BY DEF Range
  <2>10. dropped # <<>> =>
            /\ cfg.relaxWhenNoCandidates
            /\ Eligible(cfg, cs, Options, {}) = <<>>
            /\ "ASSIGNMENT_CAP" \in Range(dropped) =>
                  \/ Eligible(cfg, cs, Options, {"IMMEDIATE_REASSIGNMENT"}) = <<>>
                  \/ \A i \in DOMAIN cs :
                        Reason(cfg, cs[i], Options, {}) # "IMMEDIATE_REASSIGNMENT"
    BY RungsDropped DEF dropped
  <2>11. ASSUME NEW m \in drawn.pool', dropped # <<>>
         PROVE  InCooldown(cfg, cand(m)) \/ AtCap(cand(m))
    <3>1. m \in Range(NotHolding(ch)) \ (away \cup shielded)
      BY <1>4
    <3> QED  BY <2>10, <2>11, <3>1, NobodyEligible DEF cand, cs
  <2>12. ASSUME NEW m \in drawn.pool', "ASSIGNMENT_CAP" \in Range(dropped)
         PROVE  AtCap(cand(m))
    <3>1. m \in Range(NotHolding(ch)) \ (away \cup shielded)
      BY <1>4
    <3>2. dropped # <<>>
      BY <2>9, <2>12
    <3>3. CASE Eligible(cfg, cs, Options, {"IMMEDIATE_REASSIGNMENT"}) = <<>>
      BY <3>1, <3>3, NobodyEligible DEF cand, cs
    <3>4. CASE \A i \in DOMAIN cs : Reason(cfg, cs[i], Options, {}) # "IMMEDIATE_REASSIGNMENT"
      <4>1. PICK i \in DOMAIN NotHolding(ch) : m = NotHolding(ch)[i]
        BY <3>1 DEF Range
      <4>2. i \in DOMAIN cs /\ cs[i] = cand(m)
        BY <4>1, CandidatesAre DEF cs, cand
      <4>3. Reason(cfg, cand(m), Options, {}) # "IMMEDIATE_REASSIGNMENT"
        BY <3>4, <4>2
      <4>4. ~InCooldown(cfg, cand(m))
        BY <3>1, <4>3, ReasonOf DEF cand
      <4> QED  BY <2>11, <3>2, <4>4
    <3> QED  BY <2>10, <2>12, <3>2, <3>3, <3>4
  <2>13. OverCap(x)' => /\ \A m \in drawn.pool' : OverCap(m)'
                        /\ cfg.relaxWhenNoCandidates
                        /\ "ASSIGNMENT_CAP" \in Range(dropped)
    BY <2>6, <2>7, <2>9, <2>10, <2>12
  <2>14. JustHadIt(x)' => /\ \A m \in drawn.pool' : JustHadIt(m)' \/ OverCap(m)'
                          /\ cfg.relaxWhenNoCandidates
                          /\ "IMMEDIATE_REASSIGNMENT" \in Range(dropped)
    BY <2>6, <2>7, <2>9, <2>10, <2>11
  <2>15. ImposesTheLeast'
    <3>1. drawn'.member = x
      BY <1>4 DEF x
    <3> HIDE DEF OverCap, JustHadIt
    <3> QED  BY <1>4, <2>8, <2>13, <2>14, <3>1 DEF ImposesTheLeast
  <2> QED  BY <2>5, <2>15
<1> QED  BY <1>5, <1>6

(* Every other step keeps the rows rows, and shows no draw.                    *)
LEMMA DrawsStep ==
    ASSUME DrawsTypes, ImposesTheLeast, [DrawsNext]_drawVars
    PROVE  DrawsTypes' /\ ImposesTheLeast'
<1>1. drawn' = NoDraw => ImposesTheLeast'
  BY DEF ImposesTheLeast, NoDraw
<1>2. ASSUME NEW ch \in Chores, NEW away \in FewPeople, NEW shielded \in FewPeople,
             NEW cfg \in DrawConfigs, Draw(ch, cfg, away, shielded)
      PROVE  DrawsTypes' /\ ImposesTheLeast'
  BY <1>2, DrawImposesTheLeast
<1>3. ASSUME NEW ch \in Chores, NEW away \in FewPeople, NEW shielded \in FewPeople,
             NEW m \in People, Takes(m, ch, away, shielded)
      PROVE  DrawsTypes' /\ ImposesTheLeast'
  <2>1. Row(m, ch, "VOLUNTARY") \in DrawnRow /\ Row(m, ch, "VOLUNTARY").on = today
    BY DEF Row, DrawnRow, DrawsTypes
  <2>2. /\ assignments' = Append(assignments, Row(m, ch, "VOLUNTARY"))
        /\ today' = today /\ drawn' = NoDraw
    BY <1>3 DEF Takes
  <2> QED  BY <1>1, <2>1, <2>2, RowIsAppended
<1>4. ASSUME NEW i \in DOMAIN assignments, NEW status \in {"COMPLETED", "BOUGHT_OUT"},
             Closes(i, status)
      PROVE  DrawsTypes' /\ ImposesTheLeast'
  <2> DEFINE n == Len(assignments)
             r == [assignments[i] EXCEPT !.status = status]
  <2>1. /\ n \in Nat /\ DOMAIN assignments = 1 .. n /\ assignments \in [1 .. n -> DrawnRow]
        /\ \A j \in 1 .. n : assignments[j] \in DrawnRow
    BY LenProperties, ElementOfSeq DEF DrawsTypes
  <2>2. assignments' = [assignments EXCEPT ![i] = r] /\ today' = today /\ drawn' = NoDraw
    BY <1>4 DEF Closes
  <2>3. r \in DrawnRow /\ r.on = assignments[i].on
    BY <2>1 DEF DrawnRow
  <2> HIDE DEF r, n
  <2>4. assignments' \in [1 .. n -> DrawnRow]
    BY <2>1, <2>2, <2>3
  <2>5. assignments' \in Seq(DrawnRow) /\ DOMAIN assignments' = 1 .. n
    BY <2>1, <2>4, SeqDef
  <2>6. \A j \in 1 .. n : assignments'[j].on = assignments[j].on
    BY <2>1, <2>2, <2>3
  <2> QED  BY <1>1, <2>1, <2>2, <2>5, <2>6 DEF DrawsTypes
<1>5. ASSUME Commits
      PROVE  DrawsTypes' /\ ImposesTheLeast'
  BY <1>1, <1>5 DEF Commits, DrawsTypes
<1>6. ASSUME NextDay
      PROVE  DrawsTypes' /\ ImposesTheLeast'
  <2>1. today' = today + 1 /\ assignments' = assignments /\ drawn' = NoDraw
    BY <1>6 DEF NextDay
  <2>2. \A i \in DOMAIN assignments : assignments[i].on \in Nat
    <3>1. DOMAIN assignments = 1 .. Len(assignments)
      BY LenProperties DEF DrawsTypes
    <3>2. \A i \in DOMAIN assignments : assignments[i] \in DrawnRow
      BY <3>1, ElementOfSeq DEF DrawsTypes
    <3> QED  BY <3>2 DEF DrawnRow
  <2> QED  BY <1>1, <2>1, <2>2 DEF DrawsTypes
<1>7. CASE UNCHANGED drawVars
  <2>1. /\ today' = today /\ assignments' = assignments /\ caps' = caps /\ drawn' = drawn
    BY <1>7 DEF drawVars
  <2>2. DrawsTypes'
    BY <2>1 DEF DrawsTypes
  <2>3. ImposesTheLeast'
    <3>1. Before' = Before
      BY <2>1 DEF Before
    <3>2. \A m : HadThisWeek(m)' = HadThisWeek(m)
      BY <2>1, <3>1 DEF HadThisWeek, Week
    <3>3. \A m : OverCap(m)' <=> OverCap(m)
      BY <2>1, <3>2 DEF OverCap
    <3>4. \A m : JustHadIt(m)' <=> JustHadIt(m)
      BY <2>1, <3>1 DEF JustHadIt
    <3> QED  BY <2>1, <3>3, <3>4 DEF ImposesTheLeast
  <2> QED  BY <2>2, <2>3
<1> QED  BY <1>2, <1>3, <1>4, <1>5, <1>6, <1>7 DEF DrawsNext

(* The relaxation ladder never imposes more than it must: whoever is drawn is  *)
(* present and unshielded, goes beyond the weekly cap only when everybody who   *)
(* could be drawn is at the cap, and is inside the cooldown only when each of  *)
(* them is in the cooldown or at the cap.                                      *)
THEOREM DrawsAlwaysImposeTheLeast == DrawsSpec => []ImposesTheLeast
<1>1. DrawsInit => DrawsTypes /\ ImposesTheLeast
  <2> SUFFICES ASSUME DrawsInit PROVE DrawsTypes /\ ImposesTheLeast
    OBVIOUS
  <2>1. today = 0 /\ assignments = <<>> /\ drawn = NoDraw
    BY DEF DrawsInit
  <2>2. <<>> \in Seq(DrawnRow) /\ DOMAIN <<>> = {}
    BY EmptySeq
  <2>3. DrawsTypes
    BY <2>1, <2>2 DEF DrawsTypes
  <2>4. ImposesTheLeast
    BY <2>1 DEF ImposesTheLeast, NoDraw
  <2> QED  BY <2>3, <2>4
<1>2. DrawsTypes /\ ImposesTheLeast /\ [DrawsNext]_drawVars => (DrawsTypes /\ ImposesTheLeast)'
  BY DrawsStep
<1> QED  BY <1>1, <1>2, PTL DEF DrawsSpec
=============================================================================
