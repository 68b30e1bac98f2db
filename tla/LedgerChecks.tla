----------------------------- MODULE LedgerChecks ------------------------------
(***************************************************************************)
(* domain/points/ledger-math.ts: the rules a posting must satisfy and the  *)
(* verification of a whole ledger.                                         *)
(*                                                                         *)
(* An entry is a record of the code's LedgerEntry; an id is its seq, the   *)
(* previous id of a first entry is NoPrevious, and NoLink is null.         *)
(* A definition marked "wrong" is a plausible slip in the code; no other   *)
(* definition uses it.                                                     *)
(***************************************************************************)
EXTENDS Lists, Integers, Sequences, FiniteSets, SequencesExt, FiniteSetsExt

NoPrevious == 0
NoLink == 0

Payouts == {"VOLUNTARY_TASK_REWARD", "STREAK_BONUS"}
WorkTypes == Payouts \cup {"BUYOUT"}

SignRuleViolated(type, amount) ==
    \/ type \in {"BUYOUT", "PENALTY", "REWARD_REDEMPTION"} /\ amount >= 0
    \/ type \in Payouts /\ amount <= 0
    \/ type = "DECAY" /\ amount > 0

(* computePosting throws unless this holds. *)
Postable(p) ==
    /\ p.amount # 0
    /\ ~SignRuleViolated(p.type, p.amount)
    /\ p.type \in Payouts => p.kind = "VOLUNTARY"
    /\ p.type \in WorkTypes => p.assignment # NoLink
    /\ p.type = "REWARD_REDEMPTION" => p.redemption # NoLink

(* wrong: the stored balance is the one before the posting. *)
PostedLate(p, id, tail, balance) ==
    [id |-> id, member |-> p.member, amount |-> p.amount, type |-> p.type, kind |-> p.kind,
     assignment |-> p.assignment, redemption |-> p.redemption, previous |-> tail,
     balanceBefore |-> balance, balanceAfter |-> balance]

(* The row written for a posting that is accepted. *)
Posted(p, id, tail, balance) ==
    [id |-> id, member |-> p.member, amount |-> p.amount, type |-> p.type, kind |-> p.kind,
     assignment |-> p.assignment, redemption |-> p.redemption, previous |-> tail,
     balanceBefore |-> balance, balanceAfter |-> balance + p.amount]

--------------------------------------------------------------------------------
(* verifyLedgerIntegrity.  Entries are a set; seq orders them. *)
OfMember(entries, m) == SortedById({e \in entries : e.member = m})

BalanceFromEntries(entries, m) ==
    LET own == OfMember(entries, m)
    IN  Summed([k \in DOMAIN own |-> own[k].amount], Len(own))

(* Per row. *)
RowViolations(entries) ==
    {[kind |-> "ZERO_AMOUNT", id |-> e.id] : e \in {d \in entries : d.amount = 0}}
    \cup {[kind |-> "ARITHMETIC_BREAK", id |-> e.id] :
             e \in {d \in entries : d.balanceAfter # d.balanceBefore + d.amount}}
    \cup {[kind |-> "SIGN_VIOLATION", id |-> e.id] :
             e \in {d \in entries : SignRuleViolated(d.type, d.amount)}}
    \cup {[kind |-> "ORPHAN_WORK_TX", id |-> e.id] :
             e \in {d \in entries : d.type \in WorkTypes /\ d.assignment = NoLink}}
    \cup {[kind |-> "ORPHAN_REDEMPTION_TX", id |-> e.id] :
             e \in {d \in entries : d.type = "REWARD_REDEMPTION" /\ d.redemption = NoLink}}
    \cup {[kind |-> "PAYOUT_ON_RANDOM", id |-> e.id] :
             e \in {d \in entries : d.type \in Payouts /\ d.kind # "VOLUNTARY"}}

(* Per assignment and per redemption, across members. *)
Doubled(entries, type, key(_)) ==
    {d \in entries : /\ d.type = type
                     /\ key(d) # NoLink
                     /\ \E e \in entries : e.id # d.id /\ e.type = type /\ key(e) = key(d)}

DuplicateViolations(entries) ==
    {[kind |-> "DUPLICATE_WORK_TX", id |-> d.assignment] :
        d \in UNION {Doubled(entries, type, LAMBDA e : e.assignment) : type \in WorkTypes}}
    \cup {[kind |-> "DUPLICATE_REDEMPTION_DEBIT", id |-> d.redemption] :
             d \in Doubled(entries, "REWARD_REDEMPTION", LAMBDA e : e.redemption)}

(* wrong: the chain of balances is taken on trust. *)
ChainViolationsUnchained(entries, m) ==
    LET firsts == {e \in entries : e.member = m /\ e.previous = NoPrevious}
    IN  {[kind |-> "MULTIPLE_GENESIS", id |-> m] : e \in {d \in firsts : Cardinality(firsts) > 1}}

(* Per member: the chain and the cache. *)
ChainViolations(entries, m) ==
    LET own  == OfMember(entries, m)
        firsts == {i \in DOMAIN own : own[i].previous = NoPrevious}
        expected(i) == IF i = 1 THEN 0 ELSE own[i - 1].balanceAfter
    IN  {[kind |-> "MULTIPLE_GENESIS", id |-> m] : i \in {k \in firsts : Cardinality(firsts) > 1}}
        \cup {[kind |-> "CHAIN_FORK", id |-> m] :
                 i \in {j \in DOMAIN own : \E k \in DOMAIN own : k # j /\ own[k].previous = own[j].previous}}
        \cup {[kind |-> "CHAIN_BREAK", id |-> m] :
                 i \in {j \in DOMAIN own : own[j].balanceBefore # expected(j)}}

CacheViolations(entries, cache, m) ==
    IF m \in DOMAIN cache /\ cache[m] # BalanceFromEntries(entries, m)
    THEN {[kind |-> "CACHE_MISMATCH", id |-> m]} ELSE {}

Violations(entries, cache) ==
    LET members == {e.member : e \in entries} \cup DOMAIN cache
    IN  RowViolations(entries)
        \cup DuplicateViolations(entries)
        \cup UNION {ChainViolations(entries, m) \cup CacheViolations(entries, cache, m) : m \in members}

(* BALANCE_BELOW_MINIMUM is a warning: a raised minimum may explain it. *)
Warnings(entries, cache, minimum) ==
    {m \in {e.member : e \in entries} \cup DOMAIN cache : BalanceFromEntries(entries, m) < minimum}
================================================================================
