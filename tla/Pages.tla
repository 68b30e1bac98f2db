--------------------------------- MODULE Pages ---------------------------------
(***************************************************************************)
(* The paged reads of app/queries/reads.ts: a client scrolls one listing   *)
(* page by page while transactions go on writing rows to it.               *)
(*                                                                         *)
(* listPointTransactions and listHistory page by seq, which a row takes    *)
(* when it is inserted and which shows when it commits; the postings of    *)
(* one member hold that member's row lock until then, history rows do not  *)
(* wait for each other.  listNotifications pages by created_at, which can  *)
(* tie.                                                                    *)
(* A definition marked "wrong" is a plausible slip in the code; no other   *)
(* definition uses it.                                                     *)
(***************************************************************************)
EXTENDS Integers, Sequences, FiniteSets, SequencesExt, FiniteSetsExt

CONSTANTS Listings,    \* of "points", "history", "notifications", "unread"
          AskedLimits, \* the limits a client may ask for; NoLimit for none
          DefaultLimit, \* the limit where none is asked for, by listing
          MostPerPage, \* 100 in the code
          MaxRowsSeen, \* bound on the rows
          MaxInstant   \* bound on the clock, in the precision of created_at

ASSUME PagesAssumption ==
    /\ MostPerPage \in Nat \ {0}
    /\ AskedLimits \subseteq Int
    /\ \A l \in Listings : DefaultLimit[l] \in Nat

NoLimit == -1
NoCursor == -1
TheEnd == -2

VARIABLES listing,    \* what is scrolled
          asked,      \* the limit of every request of the scroll
          written,    \* the listing's rows by seq: [state, at, read]
          pageClock,  \* the clock
          cursor,     \* the next request's cursor; NoCursor before the first page
          scrolled,   \* the seqs shown so far
          present     \* the seqs visible when the first page was read

pageVars == <<listing, asked, written, pageClock, cursor, scrolled, present>>

PagesInit ==
    /\ listing \in Listings
    /\ asked \in AskedLimits
    /\ written = <<>>
    /\ pageClock = 0
    /\ cursor = NoCursor
    /\ scrolled = <<>>
    /\ present = {}

Pending == {i \in DOMAIN written : written[i].state = "pending"}
Visible == {i \in DOMAIN written : written[i].state = "committed"}

(* nextval of seq at the insert; a posting has its member's row locked. *)
InsertsRow ==
    /\ Len(written) < MaxRowsSeen
    /\ listing = "points" => Pending = {}
    /\ written' = Append(written, [state |-> "pending", at |-> pageClock, read |-> FALSE])
    /\ UNCHANGED <<listing, asked, pageClock, cursor, scrolled, present>>

EndsRow(i, state) ==
    /\ written[i].state = "pending"
    /\ written' = [written EXCEPT ![i].state = state]
    /\ UNCHANGED <<listing, asked, pageClock, cursor, scrolled, present>>

(* The member reads a notification between two pages. *)
MarksRead(i) ==
    /\ listing \in {"notifications", "unread"}
    /\ i \in Visible
    /\ written' = [written EXCEPT ![i].read = TRUE]
    /\ UNCHANGED <<listing, asked, pageClock, cursor, scrolled, present>>

InstantPasses ==
    /\ pageClock < MaxInstant
    /\ pageClock' = pageClock + 1
    /\ UNCHANGED <<listing, asked, written, cursor, scrolled, present>>

--------------------------------------------------------------------------------
Limit == Min({Max({IF asked = NoLimit THEN DefaultLimit[listing] ELSE asked, 1}), MostPerPage})

(* What a listing orders by, descending, and compares with the cursor. *)
Key(i) == IF listing \in {"points", "history"} THEN i ELSE written[i].at

(* The where clause. *)
Matching ==
    {i \in Visible : /\ listing = "unread" => ~written[i].read
                     /\ cursor # NoCursor => Key(i) < cursor}

(* orderBy key desc, take limit + 1; rows with one key come in any order.    *)
Fetches ==
    LET size == Min({Limit + 1, Cardinality(Matching)})
    IN  {rows \in [1 .. size -> Matching] :
            /\ \A j, k \in 1 .. size : j < k => rows[j] # rows[k] /\ Key(rows[j]) >= Key(rows[k])
            /\ \A i \in Matching \ Range(rows), k \in 1 .. size : Key(i) <= Key(rows[k])}

(* wrong: the cursor is the row fetched beyond the page. *)
PageToOverfetched(rows) ==
    LET more == Len(rows) > Limit
    IN  [items |-> IF more THEN SubSeq(rows, 1, Limit) ELSE rows,
         next  |-> IF more THEN Key(rows[Len(rows)]) ELSE TheEnd]

(* page: the surplus row only says that there is more. *)
Page(rows) ==
    LET more  == Len(rows) > Limit
        items == IF more THEN SubSeq(rows, 1, Limit) ELSE rows
    IN  [items |-> items,
         next  |-> IF more THEN Key(items[Len(items)]) ELSE TheEnd]

ReadsPage ==
    /\ cursor # TheEnd
    /\ \E rows \in Fetches :
          /\ scrolled' = scrolled \o Page(rows).items
          /\ cursor' = Page(rows).next
    /\ present' = IF cursor = NoCursor THEN Matching ELSE present
    /\ UNCHANGED <<listing, asked, written, pageClock>>

PagesNext ==
    \/ InsertsRow
    \/ \E i \in DOMAIN written, state \in {"committed", "rolled back"} : EndsRow(i, state)
    \/ \E i \in DOMAIN written : MarksRead(i)
    \/ InstantPasses
    \/ ReadsPage

PagesSpec == PagesInit /\ [][PagesNext]_pageVars

--------------------------------------------------------------------------------
(* A scroll shows no row twice and leaves out none that was there when it    *)
(* began, whatever is written meanwhile.  Two losses are the listings' own:  *)
(* a notification with the very instant of the one a page ended on, and an   *)
(* unread one that was read before its page.  A member's points are frozen:  *)
(* the scroll shows the statement as it was at the first page (reads.ts).    *)
Passed == {i \in present : cursor = TheEnd \/ (cursor # NoCursor /\ Key(i) >= cursor)}

TiesAPageEnd(i) ==
    \E k \in DOMAIN scrolled : k % Limit = 0 /\ Key(scrolled[k]) = Key(i)

ScrollMissesNothing ==
    /\ IsInjective(scrolled)
    /\ listing \in {"points", "history"} => Passed \subseteq Range(scrolled)
    /\ \A i \in Passed \ Range(scrolled) :
          TiesAPageEnd(i) \/ (listing = "unread" /\ written[i].read)
    /\ listing = "points" => Range(scrolled) \subseteq present
================================================================================
