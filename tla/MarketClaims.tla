---------------------------- MODULE MarketClaims ----------------------------
(* Sentences the repository writes about the market that the code does not    *)
(* keep.  The run expiry_orphans finds the first violated; the second needs    *)
(* fair draws and the third a multiplier, and the README says how to check     *)
(* them.                                                                       *)
EXTENDS MCTaskMarket

(* "an expiring instance closes EVERY currently active slot, not just one"     *)
(* (the sweep): no work is held on an expired occurrence.  The sweep loads the *)
(* rows of an ASSIGNED occurrence only.                                        *)
ExpiryClosesEverySlot == \A i \in Instances : status[i] = "EXPIRED" => Active(i) = {}

(* A starved partial draw "filled what it could, stays AVAILABLE, retries      *)
(* later" (the sweep): while the sweep keeps drawing and everybody is          *)
(* eligible, a half-drawn occurrence does not stay half-drawn for ever.        *)
HalfDrawn(i) ==
    /\ status[i] = "AVAILABLE"
    /\ \E a \in Active(i) : ~Voluntary(a)
StarvedDrawIsRetried == \A i \in Instances : HalfDrawn(i) ~> ~HalfDrawn(i)

(* "the number on the screen and the number in the ledger cannot disagree"     *)
(* (taskDto.ts:285-286): completing a row that is paid on completion posts     *)
(* what the page showed.  completeTask multiplies by an open charge; the page  *)
(* does not.                                                                   *)
ScreenMatchesLedger ==
    [][\A a \in Assignments :
          /\ asg[a].status = "ACTIVE" /\ asg'[a].status = "COMPLETED"
          /\ Pinned(a).timing = "ON_COMPLETE"
          => ledger'[a].reward = RewardOnCompletion(a)]_vars
=============================================================================
