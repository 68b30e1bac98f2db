----------------------------- MODULE PushOutbox -----------------------------
(* Web Push from the use-case that notifies to the browser that shows it:     *)
(* the outbox rows written with the notification, the dispatch pass of the    *)
(* worker (claimed without a lock, deleted after one attempt), the            *)
(* subscriptions on the server and the subscription each browser believes in. *)
(* A browser is used by one member after the other; its subscription outlives  *)
(* a session, and dies with its service worker.                               *)
(*                                                                            *)
(* What one transaction or one HTTP call does is one step.  A definition       *)
(* marked "wrong" is a plausible slip in the code; no other definition uses it.*)
EXTENDS Naturals, FiniteSets, Sequences

CONSTANTS
    Members, Households,
    HouseOf,                \* the household of each member
    Devices,                \* browsers
    MaxPasses,              \* bound: dispatch passes under way at once
    None,                   \* null
    MaxNotes,               \* bound: pushed notifications
    MaxEndpoints,           \* bound: subscriptions the browsers make
    BatchLimit,             \* BATCH_LIMIT
    PushMishaps                 \* bound: failed calls and queries, crashes, reloads

ASSUME PushAssumption ==
    /\ HouseOf \in [Members -> Households]
    /\ None \notin Members
    /\ MaxNotes \in Nat /\ MaxEndpoints \in Nat /\ PushMishaps \in Nat
    /\ BatchLimit \in Nat \ {0} /\ MaxPasses \in Nat

Notes == 1 .. MaxNotes
Endpoints == 1 .. MaxEndpoints
Passes == 1 .. MaxPasses
NoEndpoint == 0

VARIABLES
    to,         \* the member of each PushOutboxItem written so far
    outbox,     \* push_outbox_items: the notes not yet deleted
    enabled,    \* notifications.pushEnabled of the current version
    owner,      \* push_subscriptions: the member of an endpoint's row
    minted,     \* endpoints the push service has given out
    browser,    \* pushManager.getSubscription() of a browser
    stored,     \* the row id a browser keeps in localStorage
    session,    \* who is logged in on a browser
    posting,    \* a browser has subscribed and not yet told the server
    running,    \* the worker's overlap guard
    pass,       \* the dispatch passes
    mishaps,    \* what has gone wrong so far
    sent,       \* history: note and endpoint of each push, with its count
    hurt,       \* history: notes of a pass that stopped before its deletion
    subscriber  \* history: who last subscribed on a browser

serverVars == <<to, outbox, enabled>>
deviceVars == <<minted, browser, stored, session, posting, subscriber>>
pushVars == <<to, outbox, enabled, owner, minted, browser, stored, session, posting,
          running, pass, mishaps, sent, hurt, subscriber>>

NoPush == [phase |-> "idle", claimed |-> {}, rows |-> {}, note |-> 0, subs |-> {}]
Reaches(e) == \E d \in Devices : browser[d] = e
House(n) == HouseOf[to[n]]
Oldest(S) == CHOOSE n \in S : \A k \in S : n <= k
GoesWrong == mishaps < PushMishaps /\ mishaps' = mishaps + 1

PushInit ==
    /\ to = <<>> /\ outbox = {}
    /\ enabled = [h \in Households |-> TRUE]
    /\ owner = [e \in Endpoints |-> None]
    /\ minted = 0
    /\ browser = [d \in Devices |-> NoEndpoint]
    /\ stored = [d \in Devices |-> NoEndpoint]
    /\ session = [d \in Devices |-> None]
    /\ posting = [d \in Devices |-> FALSE]
    /\ running = FALSE
    /\ pass = [p \in Passes |-> NoPush]
    /\ mishaps = 0
    /\ sent = [x \in {} |-> 0] /\ hurt = {}
    /\ subscriber = [d \in Devices |-> None]
-----------------------------------------------------------------------------
(* pushNotifier: the row is written in the use-case's own transaction, so it   *)
(* appears with the notification, when that transaction commits.               *)
Emit(m) ==
    /\ Len(to) < MaxNotes
    /\ to' = Append(to, m)
    /\ outbox' = outbox \cup {Len(to) + 1}
    /\ UNCHANGED <<enabled, owner, deviceVars, running, pass, mishaps, sent, hurt>>

(* A configuration version with the other notifications.pushEnabled.           *)
TogglePush(h) ==
    /\ enabled' = [enabled EXCEPT ![h] = ~@]
    /\ UNCHANGED <<to, outbox, owner, deviceVars, running, pass, mishaps, sent, hurt>>

-----------------------------------------------------------------------------
(* The browser.  Subscribing again hands out the subscription it already has.  *)
browserFrame == UNCHANGED <<serverVars, running, pass, sent, hurt>>

SubscribeBrowser(d) ==
    /\ session[d] # None /\ ~posting[d]
    /\ browser[d] # NoEndpoint \/ minted < MaxEndpoints
    /\ IF browser[d] = NoEndpoint
       THEN /\ minted' = minted + 1
            /\ browser' = [browser EXCEPT ![d] = minted + 1]
       ELSE UNCHANGED <<minted, browser>>
    /\ posting' = [posting EXCEPT ![d] = TRUE]
    /\ UNCHANGED <<owner, stored, session, subscriber, mishaps>> /\ browserFrame

(* POST /members/me/push-subscription: an upsert on the endpoint.              *)
UpsertKeepingOwner(e, m) ==                                        \* wrong
    owner' = [owner EXCEPT ![e] = IF @ = None THEN m ELSE @]
Upsert(e, m) == owner' = [owner EXCEPT ![e] = m]

PostSubscription(d) ==
    /\ posting[d] /\ session[d] # None /\ browser[d] # NoEndpoint
    /\ Upsert(browser[d], session[d])
    /\ stored' = [stored EXCEPT ![d] = browser[d]]
    /\ subscriber' = [subscriber EXCEPT ![d] = session[d]]
    /\ posting' = [posting EXCEPT ![d] = FALSE]
    /\ UNCHANGED <<minted, browser, session, mishaps>> /\ browserFrame

(* The call is lost, or its answer is, or the id cannot be stored: the row may  *)
(* be there without the browser knowing its id.                                *)
PostFails(d) ==
    /\ posting[d] /\ GoesWrong
    /\ \/ UNCHANGED <<owner, subscriber>>
       \/ /\ session[d] # None /\ browser[d] # NoEndpoint
          /\ Upsert(browser[d], session[d])
          /\ subscriber' = [subscriber EXCEPT ![d] = session[d]]
    /\ posting' = [posting EXCEPT ![d] = FALSE]
    /\ UNCHANGED <<minted, browser, stored, session>> /\ browserFrame

(* DELETE .../push-subscription/:id, scoped to the member of the session.      *)
DeleteOwn(e, m) ==
    owner' = IF e # NoEndpoint /\ owner[e] = m THEN [owner EXCEPT ![e] = None] ELSE owner

(* useUnsubscribeFromPush: in the browser first; whether or not the server     *)
(* deletes the row, the id is forgotten.                                       *)
Unsubscribe(d) ==
    /\ session[d] # None /\ browser[d] # NoEndpoint /\ ~posting[d]
    /\ browser' = [browser EXCEPT ![d] = NoEndpoint]
    /\ \/ DeleteOwn(stored[d], session[d]) /\ UNCHANGED mishaps
       \/ GoesWrong /\ UNCHANGED owner
    /\ stored' = [stored EXCEPT ![d] = NoEndpoint]
    /\ UNCHANGED <<minted, session, posting, subscriber>> /\ browserFrame

(* Logging in and out moves neither the subscription nor its row.              *)
Login(d, m) ==
    /\ session[d] = None
    /\ session' = [session EXCEPT ![d] = m]
    /\ UNCHANGED <<owner, minted, browser, stored, posting, subscriber, mishaps>>
    /\ browserFrame

Logout(d) ==
    /\ session[d] # None /\ ~posting[d]
    /\ session' = [session EXCEPT ![d] = None]
    /\ UNCHANGED <<owner, minted, browser, stored, posting, subscriber, mishaps>>
    /\ browserFrame

(* VersionMismatchOverlay: the worker is unregistered, and its subscription    *)
(* with it; the reload ends what the page was doing.                           *)
ForcedReload(d) ==
    /\ browser[d] # NoEndpoint /\ GoesWrong
    /\ browser' = [browser EXCEPT ![d] = NoEndpoint]
    /\ posting' = [posting EXCEPT ![d] = FALSE]
    /\ UNCHANGED <<owner, minted, stored, session, subscriber>> /\ browserFrame

-----------------------------------------------------------------------------
(* The worker.  A tick that meets the guard does nothing.                      *)
dispatchFrame == UNCHANGED <<to, enabled, deviceVars>>
Become(p, r) == pass' = [pass EXCEPT ![p] = r]

TickUnguarded == TRUE                                              \* wrong
TickAllowed == ~running

(* The oldest rows; notes are numbered in the order they are written.           *)
Claimed == {n \in outbox : Cardinality({k \in outbox : k < n}) < BatchLimit}

(* tick, and the claim: the oldest rows of all households, unlocked.           *)
PushTick(p) ==
    /\ TickAllowed /\ outbox # {}
    /\ pass[p].phase = "idle" /\ \A q \in 1 .. (p - 1) : pass[q].phase # "idle"
    /\ running' = TRUE
    /\ Become(p, [NoPush EXCEPT !.phase = "households", !.claimed = Claimed])
    /\ UNCHANGED <<outbox, owner, mishaps, sent, hurt>> /\ dispatchFrame

RowsOf(p, h) == {n \in pass[p].claimed : House(n) = h}

(* isPushEnabled, read when the household's turn comes; an error counts as no. *)
ReadEnabled(p, h) ==
    /\ pass[p].phase = "households" /\ RowsOf(p, h) # {}
    /\ \/ UNCHANGED mishaps
          /\ Become(p, [pass[p] EXCEPT !.phase = IF enabled[h] THEN "rows" ELSE "delete",
                                       !.rows = RowsOf(p, h)])
       \/ GoesWrong
          /\ Become(p, [pass[p] EXCEPT !.phase = "delete", !.rows = RowsOf(p, h)])
    /\ UNCHANGED <<outbox, owner, running, sent, hurt>> /\ dispatchFrame

(* deliverToMember: the member's subscriptions as they are now, or none when   *)
(* they cannot be read.                                                        *)
LoadSubscriptions(p) ==
    /\ pass[p].phase = "rows" /\ pass[p].subs = {}
    /\ LET open == {n \in pass[p].rows : n > pass[p].note} IN
       IF open = {}
       THEN Become(p, [pass[p] EXCEPT !.phase = "delete"]) /\ UNCHANGED mishaps
       ELSE LET n == Oldest(open)
                subs == {e \in Endpoints : owner[e] = to[n]}
            IN  \/ UNCHANGED mishaps
                   /\ Become(p, [pass[p] EXCEPT !.note = n, !.subs = subs])
                \/ GoesWrong /\ Become(p, [pass[p] EXCEPT !.note = n])
    /\ UNCHANGED <<outbox, owner, running, sent, hurt>> /\ dispatchFrame

Count(n, e) == IF <<n, e>> \in DOMAIN sent THEN sent[<<n, e>>] ELSE 0
Pushed(n, e) ==
    sent' = [x \in DOMAIN sent \cup {<<n, e>>} |->
                IF x = <<n, e>> THEN Count(n, e) + 1 ELSE sent[x]]

(* One push: shown, refused for now, or answered 404 or 410, after which the   *)
(* row is deleted, whoever owns it by then (a failed delete is ignored).       *)
Send(p, e) ==
    /\ pass[p].phase = "rows" /\ e \in pass[p].subs
    /\ Become(p, [pass[p] EXCEPT !.subs = @ \ {e}])
    /\ \/ Reaches(e) /\ Pushed(pass[p].note, e) /\ UNCHANGED <<owner, mishaps>>
       \/ ~Reaches(e) /\ owner' = [owner EXCEPT ![e] = None] /\ UNCHANGED <<sent, mishaps>>
       \/ GoesWrong /\ UNCHANGED <<owner, sent>>
    /\ UNCHANGED <<outbox, running, hurt>> /\ dispatchFrame

(* deleteMany: every row of the household that was claimed.                    *)
LastOfNote(p) == [pass[p] EXCEPT !.phase = "households", !.note = 0, !.rows = {},
                                 !.claimed = @ \ pass[p].rows]

DeleteRows(p) ==
    /\ pass[p].phase = "delete"
    /\ outbox' = outbox \ pass[p].rows
    /\ Become(p, LastOfNote(p))
    /\ UNCHANGED <<owner, running, mishaps, sent, hurt>> /\ dispatchFrame

(* The deletion fails: caught for this household, the next one goes on.        *)
HouseholdFailsForGood(p) ==                                        \* wrong
    /\ pass[p].phase = "delete" /\ GoesWrong
    /\ hurt' = hurt \cup pass[p].rows
    /\ Become(p, NoPush)
    /\ UNCHANGED <<outbox, owner, running, sent>> /\ dispatchFrame
HouseholdFails(p) ==
    /\ pass[p].phase = "delete" /\ GoesWrong
    /\ hurt' = hurt \cup pass[p].rows
    /\ Become(p, LastOfNote(p))
    /\ UNCHANGED <<outbox, owner, running, sent>> /\ dispatchFrame

EndPass(p) ==
    /\ pass[p].phase = "households" /\ pass[p].claimed = {}
    /\ Become(p, NoPush)
    /\ running' = FALSE
    /\ UNCHANGED <<outbox, owner, mishaps, sent, hurt>> /\ dispatchFrame

WorkerDies ==
    /\ GoesWrong
    /\ hurt' = hurt \cup UNION {pass[p].claimed : p \in Passes}
    /\ pass' = [p \in Passes |-> NoPush]
    /\ running' = FALSE
    /\ UNCHANGED <<outbox, owner, sent>> /\ dispatchFrame

PassStep(p) ==
    \/ PushTick(p) \/ \E h \in Households : ReadEnabled(p, h)
    \/ LoadSubscriptions(p)
    \/ \E e \in Endpoints : Send(p, e)
    \/ DeleteRows(p) \/ HouseholdFails(p) \/ EndPass(p)

PushNext ==
    \/ \E m \in Members : Emit(m)
    \/ \E h \in Households : TogglePush(h)
    \/ \E d \in Devices :
          \/ SubscribeBrowser(d) \/ PostSubscription(d) \/ PostFails(d)
          \/ Unsubscribe(d) \/ Logout(d) \/ ForcedReload(d)
          \/ \E m \in Members : Login(d, m)
    \/ \E p \in Passes : PassStep(p)
    \/ WorkerDies

PushSpec == PushInit /\ [][PushNext]_pushVars

(* The timer keeps firing and a pass under way goes on; nothing is assumed of  *)
(* members, browsers or the push service.                                      *)
FairPush == PushSpec /\ WF_pushVars(\E p \in Passes : PassStep(p))
-----------------------------------------------------------------------------
PushTypeOK ==
    /\ to \in Seq(Members) /\ outbox \subseteq 1 .. Len(to)
    /\ enabled \in [Households -> BOOLEAN]
    /\ owner \in [Endpoints -> Members \cup {None}]
    /\ minted \in 0 .. MaxEndpoints
    /\ browser \in [Devices -> 0 .. minted] /\ stored \in [Devices -> 0 .. minted]
    /\ session \in [Devices -> Members \cup {None}]
    /\ subscriber \in [Devices -> Members \cup {None}]
    /\ posting \in [Devices -> BOOLEAN] /\ running \in BOOLEAN
    /\ pass \in [Passes -> [phase : {"idle", "households", "rows", "delete"},
                            claimed : SUBSET Notes, rows : SUBSET Notes,
                            note : 0 .. MaxNotes, subs : SUBSET Endpoints]]

(* "every claimed row gets exactly one delivery attempt" (dispatchPushOutbox): *)
(* a browser is pushed the same row twice only when a pass that had claimed it *)
(* was cut off before its deletion took effect, never because two passes meet. *)
RepeatsNeedTrouble == \A x \in DOMAIN sent : sent[x] > 1 => x[1] \in hurt

(* "the most recent subscriber is the one who should receive pushes" to a      *)
(* browser (pushSubscriptions): a row that still reaches a browser belongs to  *)
(* who subscribed there last, through logins, unsubscribing and reloads.       *)
LastSubscriberOwns ==
    \A d \in Devices :
        browser[d] # NoEndpoint /\ owner[browser[d]] # None
            => owner[browser[d]] = subscriber[d]

(* Who is pushed, and how often. *)
PushesReachTheirOwnerOnce == RepeatsNeedTrouble /\ LastSubscriberOwns

(* "a bad config row or a broken query for one household must not stop         *)
(* delivery for the rest": whatever fails, every row leaves the outbox.        *)
OutboxDrains == \A n \in Notes : n \in outbox ~> n \notin outbox
=============================================================================
