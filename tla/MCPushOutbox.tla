---------------------------- MODULE MCPushOutbox ----------------------------
(* A small instance of PushOutbox for TLC: two members in households of their *)
(* own, who share one browser.                                                *)
EXTENDS PushOutbox, TLC

CONSTANTS m1, m2, h1, h2

HouseOfEach == (m1 :> h1) @@ (m2 :> h2)
=============================================================================
