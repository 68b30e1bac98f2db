------------------------------ MODULE Accounts ------------------------------
(***************************************************************************)
(* Who may do what: accounts and their passwords, memberships of            *)
(* households, login sessions, and the requests that change them.           *)
(*                                                                          *)
(* A request is admitted once: the preHandler of context.ts reads the       *)
(* session and the membership it points to, and everything the handler does *)
(* afterwards rests on what was read then.  The handlers (auth.ts,          *)
(* register.ts, admin.ts) are chains of separate statements, mostly outside *)
(* a transaction, with a slow password hash between them, so each statement *)
(* that another request could overtake is a step.  A pair of statements is  *)
(* one step where nothing observable can come between: the row of a new     *)
(* session and its CSRF hash (nobody holds the cookie before the reply),    *)
(* and the upsert of a user and the membership check after it (the unique   *)
(* key of the membership repeats the check).                                *)
(*                                                                          *)
(* A definition marked "Wrong" is a plausible slip in the code; no other    *)
(* definition uses it.                                                      *)
(***************************************************************************)
EXTENDS Integers, Sequences, FiniteSets, FiniteSetsExt

CONSTANTS
    Users,         \* e-mail addresses
    Households,
    Founders,      \* <<household, user>>: the admins at the start, in order
    Calls,         \* requests the server can have under way
    Changes,       \* bodies of PATCH /admin/members/:id that touch role, activity or both
    MaxSessions,   \* bound: sessions ever opened
    MaxMembers,    \* bound: memberships
    MaxPasswords,  \* bound: passwords ever set, the founders' included
    MaxPatches     \* bound: member changes that reach the database

ASSUME AccountsAssumption ==
    /\ IsFiniteSet(Users) /\ IsFiniteSet(Households)
    /\ Founders \in Seq(Households \X Users)
    /\ \A i, j \in DOMAIN Founders : Founders[i] = Founders[j] => i = j
    /\ Changes \subseteq [role : {{}, {"ADMIN"}, {"MEMBER"}}, active : {{}, {TRUE}, {FALSE}}]
    /\ MaxSessions \in Nat /\ MaxMembers \in Nat /\ MaxPatches \in Nat
    /\ MaxPasswords \in Nat \ {0}

VARIABLES
    password,  \* User.passwordHash by address: the number of the password, or NoAccount
    issued,    \* passwords set so far
    members,   \* HouseholdMember rows, in the order of joinedAt
    sessions,  \* Session rows
    patches,   \* member changes so far
    cutOff,    \* accounts whose password changed but a crash stopped the revocation
    calls      \* the requests under way

vars == <<password, issued, members, sessions, patches, cutOff, calls>>

NoAccount == 0
Free == [at |-> "FREE"]

NewMember(h, u, role) == [household |-> h, user |-> u, role |-> role, active |-> TRUE]

Init ==
    /\ password = [u \in Users |->
           IF \E i \in DOMAIN Founders : Founders[i][2] = u THEN 1 ELSE NoAccount]
    /\ issued = 1
    /\ members = [i \in DOMAIN Founders |->
                      NewMember(Founders[i][1], Founders[i][2], "ADMIN")]
    /\ sessions = <<>>
    /\ patches = 0
    /\ cutOff = {}
    /\ calls = [c \in Calls |-> Free]

NewSession(u, h, knows, overtaken) ==
    [user |-> u, household |-> h, knows |-> knows, overtaken |-> overtaken,
     kept |-> FALSE, live |-> TRUE]

Rows(h, u) == {i \in DOMAIN members :
                   members[i].household = h /\ members[i].user = u}

Admins(h) == {i \in DOMAIN members :
                  /\ members[i].household = h
                  /\ members[i].role = "ADMIN" /\ members[i].active}

\* Neither revoked nor expired: the code never tells the two apart.
Live(s) == sessions[s].live

\* An ended session never comes back, and the model forgets how it was opened.
Ended(session) == [session EXCEPT !.live = FALSE, !.knows = NoAccount,
                                  !.overtaken = FALSE, !.kept = FALSE]

Answer(c) == calls' = [calls EXCEPT ![c] = Free]

-----------------------------------------------------------------------------
(***************************************************************************)
(* Registration and login                                                   *)
(***************************************************************************)

\* POST /register: the address is free; the password is hashed.
RegisterStart(c, u) ==
    /\ calls[c] = Free
    /\ password[u] = NoAccount
    /\ calls' = [calls EXCEPT ![c] = [at |-> "REGISTERING", user |-> u]]
    /\ UNCHANGED <<password, issued, members, sessions, patches, cutOff>>

\* The transaction: household, configuration, user and admin at once, unless
\* the address was taken in the meantime (User.email is unique).
RegisterCommit(c, h) ==
    LET r == calls[c] IN
    /\ r.at = "REGISTERING"
    /\ issued < MaxPasswords
    /\ Len(members) < MaxMembers
    /\ \A i \in DOMAIN members : members[i].household # h
    /\ IF password[r.user] # NoAccount
       THEN /\ Answer(c)
            /\ UNCHANGED <<password, issued, members>>
       ELSE /\ password' = [password EXCEPT ![r.user] = issued + 1]
            /\ issued' = issued + 1
            /\ members' = Append(members, NewMember(h, r.user, "ADMIN"))
            /\ calls' = [calls EXCEPT ![c] =
                   [at |-> "ENROLLED", user |-> r.user, household |-> h,
                    knows |-> issued + 1, overtaken |-> FALSE]]
    /\ UNCHANGED <<sessions, patches, cutOff>>

\* POST /auth/login: the hash is read, and verifying it takes its time.
LoginStart(c, u) ==
    /\ calls[c] = Free
    /\ password[u] # NoAccount
    /\ calls' = [calls EXCEPT ![c] = [at |-> "VERIFIED", user |-> u,
                                      knows |-> password[u], overtaken |-> FALSE]]
    /\ UNCHANGED <<password, issued, members, sessions, patches, cutOff>>

\* The oldest active membership, or NOT_A_MEMBER.
LoginMembership(c) ==
    LET r    == calls[c]
        mine == {i \in DOMAIN members : members[i].user = r.user /\ members[i].active}
    IN
    /\ r.at = "VERIFIED"
    /\ IF mine = {} THEN Answer(c)
       ELSE calls' = [calls EXCEPT ![c] =
                [at |-> "ENROLLED", user |-> r.user, knows |-> r.knows,
                 overtaken |-> r.overtaken, household |-> members[Min(mine)].household]]
    /\ UNCHANGED <<password, issued, members, sessions, patches, cutOff>>

\* issueSession, shared by both.
IssueSession(c) ==
    LET r == calls[c] IN
    /\ r.at = "ENROLLED"
    /\ Len(sessions) < MaxSessions
    /\ sessions' = Append(sessions,
                        NewSession(r.user, r.household, r.knows, r.overtaken))
    /\ Answer(c)
    /\ UNCHANGED <<password, issued, members, patches, cutOff>>

-----------------------------------------------------------------------------
(***************************************************************************)
(* Requests inside a session                                                *)
(***************************************************************************)

\* resolveSession: a live session and the membership it points to, if active.
ContextOf(s) ==
    IF ~Live(s) THEN {}
    ELSE {i \in Rows(sessions[s].household, sessions[s].user) : members[i].active}

\* The preHandler; requireMember and requireAdmin judge by what it read.
Admit(c, s) ==
    /\ calls[c] = Free
    /\ \E i \in ContextOf(s) :
           calls' = [calls EXCEPT ![c] =
               [at |-> "ADMITTED", session |-> s, user |-> sessions[s].user,
                household |-> members[i].household, role |-> members[i].role]]
    /\ UNCHANGED <<password, issued, members, sessions, patches, cutOff>>

Admitted(c, roles) == calls[c].at = "ADMITTED" /\ calls[c].role \in roles

\* POST /auth/logout
Logout(c) ==
    /\ Admitted(c, {"MEMBER", "ADMIN"})
    /\ sessions' = [sessions EXCEPT ![calls[c].session] = Ended(@)]
    /\ Answer(c)
    /\ UNCHANGED <<password, issued, members, patches, cutOff>>

\* POST /session/household: only within one's own active memberships.
SwitchHousehold(c, h) ==
    /\ Admitted(c, {"MEMBER", "ADMIN"})
    /\ \E i \in Rows(h, calls[c].user) : members[i].active
    /\ sessions' = [sessions EXCEPT ![calls[c].session].household = h]
    /\ Answer(c)
    /\ UNCHANGED <<password, issued, members, patches, cutOff>>

\* POST /auth/password: the current password is verified, the new one hashed.
ChangePassword(c) ==
    /\ Admitted(c, {"MEMBER", "ADMIN"})
    /\ calls' = [calls EXCEPT ![c] = [at |-> "HASHING", user |-> calls[c].user,
                                      keep |-> {calls[c].session}]]
    /\ UNCHANGED <<password, issued, members, sessions, patches, cutOff>>

\* POST /admin/members/:id/reset-password, for a member of one's household.
ResetPassword(c, u) ==
    /\ Admitted(c, {"ADMIN"})
    /\ Rows(calls[c].household, u) # {}
    /\ calls' = [calls EXCEPT ![c] = [at |-> "HASHING", user |-> u, keep |-> {}]]
    /\ UNCHANGED <<password, issued, members, sessions, patches, cutOff>>

\* Both then store the new hash.  A login that has read the old one goes on.
StorePassword(c) ==
    LET u == calls[c].user IN
    /\ calls[c].at = "HASHING"
    /\ issued < MaxPasswords
    /\ password' = [password EXCEPT ![u] = issued + 1]
    /\ issued' = issued + 1
    /\ calls' = [d \in Calls |->
           CASE d = c -> [calls[c] EXCEPT !.at = "REVOKING"]
             [] calls[d].at \in {"VERIFIED", "ENROLLED"} /\ calls[d].user = u
                  -> [calls[d] EXCEPT !.overtaken = TRUE]
             [] OTHER -> calls[d]]
    /\ sessions' = [s \in DOMAIN sessions |->
           IF sessions[s].user = u /\ Live(s)
           THEN [sessions[s] EXCEPT !.kept = s \in calls[c].keep] ELSE sessions[s]]
    /\ UNCHANGED <<members, patches, cutOff>>

\* Wrong: a change of one's own password ends the session it was made in.
RevokedOwn(c, s) == s \in calls[c].keep

\* The sessions that die with the old password.
RevokedBy(c, s) == sessions[s].user = calls[c].user /\ s \notin calls[c].keep

RevokeSessions(c) ==
    /\ calls[c].at = "REVOKING"
    /\ sessions' = [s \in DOMAIN sessions |->
           IF RevokedBy(c, s) THEN Ended(sessions[s])
           ELSE sessions[s]]
    /\ cutOff' = cutOff \ {calls[c].user}
    /\ Answer(c)
    /\ UNCHANGED <<password, issued, members, patches>>

-----------------------------------------------------------------------------
(***************************************************************************)
(* Members (admin.ts)                                                       *)
(***************************************************************************)

\* POST /admin/members: is the address known?
AddStart(c, u, role) ==
    /\ Admitted(c, {"ADMIN"})
    /\ calls' = [calls EXCEPT ![c] = [at |-> "ADDING", user |-> u, role |-> role,
                                      household |-> calls[c].household]]
    /\ UNCHANGED <<password, issued, members, sessions, patches, cutOff>>

\* The upsert creates the account if it is still missing, and leaves one alone.
AddUser(c) ==
    LET r == calls[c] IN
    /\ r.at = "ADDING"
    /\ password[r.user] = NoAccount => issued < MaxPasswords
    /\ IF password[r.user] = NoAccount
       THEN /\ password' = [password EXCEPT ![r.user] = issued + 1]
            /\ issued' = issued + 1
       ELSE UNCHANGED <<password, issued>>
    /\ IF Rows(r.household, r.user) # {} THEN Answer(c)
       ELSE calls' = [calls EXCEPT ![c].at = "JOINING"]
    /\ UNCHANGED <<members, sessions, patches, cutOff>>

\* A second membership of the same pair is refused by the unique key.
AddMember(c) ==
    LET r == calls[c] IN
    /\ r.at = "JOINING"
    /\ Len(members) < MaxMembers
    /\ members' = IF Rows(r.household, r.user) # {} THEN members
                  ELSE Append(members, NewMember(r.household, r.user, r.role))
    /\ Answer(c)
    /\ UNCHANGED <<password, issued, sessions, patches, cutOff>>

LosesAdmin(row, change) ==
    row.role = "ADMIN" /\ ("MEMBER" \in change.role \/ FALSE \in change.active)

\* Wrong: administrators who were deactivated count as well.
CountOfAllAdmins(h) ==
    Cardinality({i \in DOMAIN members : members[i].household = h /\ members[i].role = "ADMIN"})

CountOfAdmins(h) == Cardinality(Admins(h))

\* The target is read and, if it would lose an admin, the admins are counted.
PatchCheck(c, i, change) ==
    LET h == calls[c].household IN
    /\ Admitted(c, {"ADMIN"})
    /\ members[i].household = h
    /\ IF LosesAdmin(members[i], change) /\ CountOfAdmins(h) <= 1 THEN Answer(c)
       ELSE calls' = [calls EXCEPT ![c] =
                [at |-> "CHECKED", household |-> h, target |-> i, change |-> change,
                 was |-> members[i].role, admins |-> Cardinality(Admins(h))]]
    /\ UNCHANGED <<password, issued, members, sessions, patches, cutOff>>

\* The row with what the body names.
Patched(row, change) ==
    [row EXCEPT !.role   = IF change.role = {} THEN @ ELSE CHOOSE x \in change.role : TRUE,
                !.active = IF change.active = {} THEN @ ELSE CHOOSE x \in change.active : TRUE]

\* The update repeats none of it.
PatchWrite(c) ==
    LET r == calls[c] IN
    /\ r.at = "CHECKED"
    /\ patches < MaxPatches
    /\ patches' = patches + 1
    /\ members' = [members EXCEPT ![r.target] = Patched(members[r.target], r.change)]
    /\ Answer(c)
    /\ UNCHANGED <<password, issued, sessions, cutOff>>

-----------------------------------------------------------------------------
\* A session reaches its expiresAt.
Expire(s) ==
    /\ Live(s)
    /\ sessions' = [sessions EXCEPT ![s] = Ended(@)]
    /\ UNCHANGED <<password, issued, members, patches, cutOff, calls>>

\* The server stops: what its requests had not written stays unwritten.
Crash ==
    /\ \E c \in Calls : calls[c] # Free
    /\ calls' = [c \in Calls |-> Free]
    /\ cutOff' = cutOff \cup {calls[c].user : c \in {d \in Calls : calls[d].at = "REVOKING"}}
    /\ UNCHANGED <<password, issued, members, sessions, patches>>

Next ==
    \/ \E c \in Calls :
         \/ \E u \in Users : RegisterStart(c, u)
         \/ \E h \in Households : RegisterCommit(c, h)
         \/ \E u \in Users : LoginStart(c, u)
         \/ LoginMembership(c)
         \/ IssueSession(c)
         \/ \E s \in DOMAIN sessions : Admit(c, s)
         \/ Logout(c)
         \/ \E h \in Households : SwitchHousehold(c, h)
         \/ ChangePassword(c)
         \/ \E u \in Users : ResetPassword(c, u)
         \/ StorePassword(c)
         \/ RevokeSessions(c)
         \/ \E u \in Users, role \in {"ADMIN", "MEMBER"} : AddStart(c, u, role)
         \/ AddUser(c)
         \/ AddMember(c)
         \/ \E i \in DOMAIN members, change \in Changes : PatchCheck(c, i, change)
         \/ PatchWrite(c)
    \/ \E s \in DOMAIN sessions : Expire(s)
    \/ Crash

Spec == Init /\ [][Next]_vars

-----------------------------------------------------------------------------
(***************************************************************************)
(* Properties                                                               *)
(***************************************************************************)

\* The types of the variables, and the two unique keys.
TypeOK ==
    /\ password \in [Users -> 0..MaxPasswords] /\ issued \in 1..MaxPasswords
    /\ \A i \in DOMAIN members :
           /\ members[i].role \in {"ADMIN", "MEMBER"} /\ members[i].active \in BOOLEAN
           /\ Rows(members[i].household, members[i].user) = {i}
           /\ password[members[i].user] # NoAccount
    /\ \A s \in DOMAIN sessions :
           /\ sessions[s].user \in Users /\ sessions[s].household \in Households
           /\ Rows(sessions[s].household, sessions[s].user) # {}
    /\ patches \in 0..MaxPatches /\ cutOff \subseteq Users

\* A household that has an administrator loses the last one only to a race:
\* the PATCH that took the last one away had read the target's role or counted
\* the admins before another change landed.  One change at a time, LAST_ADMIN
\* protects the household (admin.ts: a household with no admin can never be
\* administered again).
LastAdminIsLostToARace ==
    [][ \A h \in Households : Admins(h) # {} /\ Admins(h)' = {} =>
          \E c \in Calls :
              /\ PatchWrite(c) /\ calls[c].household = h
              /\ \/ calls[c].was # members[calls[c].target].role
                 \/ calls[c].admins > Cardinality(Admins(h)) ]_vars

\* The change of u's password has not reached the revocation yet.
Pending(u) == u \in cutOff
                \/ \E c \in Calls : calls[c].at = "REVOKING" /\ calls[c].user = u

\* A session opened with a password that is no longer the account's is dead,
\* but for the session that made the change, a login that had read the old
\* hash when the new one was stored, and a change whose revocation is still to
\* come or was cut off by a crash (auth.ts: every other session of this user
\* dies with the old password).
OldPasswordsOpenNothing ==
    \A s \in DOMAIN sessions :
        LET u == sessions[s].user IN
        Live(s) /\ sessions[s].knows # password[u] =>
            sessions[s].kept \/ sessions[s].overtaken \/ Pending(u)

=============================================================================
