------------------------------ MODULE SoloTask ------------------------------
(* What occurrences that need exactly one worker promise their household,      *)
(* without rows, slots or points: who holds each, and whose completion stands. *)
(* TaskMarket with EXACTLY(1) is shown to implement it.                        *)
EXTENDS TaskEvents

CONSTANTS Members, Tasks, None

VARIABLES
    st,         \* NONE before the occurrence exists, then its status
    holder,     \* the one member whose job it is, or None
    doer        \* the member whose completion stands, or None

vars == <<st, holder, doer>>

Init ==
    /\ st = [t \in Tasks |-> "NONE"]
    /\ holder = [t \in Tasks |-> None]
    /\ doer = [t \in Tasks |-> None]

Becomes(t, s, h, d) ==
    /\ st' = [st EXCEPT ![t] = s]
    /\ holder' = [holder EXCEPT ![t] = h]
    /\ doer' = [doer EXCEPT ![t] = d]

Appear(t) ==
    st[t] = "NONE" /\ \E s \in {"DRAFT", "AVAILABLE"} : Becomes(t, s, None, None)

(* An administrator moves it on or off the market, but only while nobody holds *)
(* it: nobody's plans change.                                                  *)
Shelve(t) ==
    /\ holder[t] = None
    /\ \E e \in {"PUBLISH", "PAUSE", "RESUME"}, s \in {"AVAILABLE", "PAUSED"} :
          MayMove(st[t], e, s) /\ Becomes(t, s, None, None)

Take(t, m) == st[t] = "AVAILABLE" /\ holder[t] = None /\ Becomes(t, "ASSIGNED", m, None)

GiveUp(t) == st[t] = "ASSIGNED" /\ Becomes(t, "AVAILABLE", None, None)

Finish(t) == st[t] = "ASSIGNED" /\ Becomes(t, "COMPLETED", None, holder[t])

(* A rejected completion goes back to the very member who did it, or to all.   *)
Reject(t) ==
    /\ st[t] = "COMPLETED"
    /\ Becomes(t, "ASSIGNED", doer[t], None) \/ Becomes(t, "AVAILABLE", None, None)

End(t) ==
    /\ st[t] \in OpenStatuses
    /\ \E s \in {"CANCELLED", "EXPIRED"} : Becomes(t, s, None, None)

Next ==
    \E t \in Tasks :
        \/ Appear(t) \/ Shelve(t) \/ (\E m \in Members : Take(t, m))
        \/ GiveUp(t) \/ Finish(t) \/ Reject(t) \/ End(t)

Spec == Init /\ [][Next]_vars
=============================================================================
