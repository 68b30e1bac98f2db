----------------------------- MODULE TaskEvents -----------------------------
(* The states of a TaskInstance and the one table of legal transitions, as    *)
(* domain/task/state-machine.ts declares it.  A handler that goes through      *)
(* resolve() takes its target from this table and fails when the pair is not   *)
(* in it; MayMove(s, e, t) says that resolve(s, e) succeeds with the answer t. *)

Statuses == {"DRAFT", "AVAILABLE", "ASSIGNED", "PAUSED",
             "COMPLETED", "EXPIRED", "CANCELLED"}

OpenStatuses == {"DRAFT", "AVAILABLE", "ASSIGNED", "PAUSED"}

Transitions ==
    {<<"DRAFT", "PUBLISH", "AVAILABLE">>,
     <<"AVAILABLE", "VOLUNTEER", "ASSIGNED">>,
     <<"AVAILABLE", "ASSIGN_RANDOM", "ASSIGNED">>,
     <<"ASSIGNED", "COMPLETE", "COMPLETED">>,
     <<"PAUSED", "RESUME", "AVAILABLE">>,
     <<"COMPLETED", "REOPEN_TO_ASSIGNEE", "ASSIGNED">>,
     <<"COMPLETED", "REOPEN_TO_MARKET", "AVAILABLE">>}
    \cup {<<"ASSIGNED", e, "AVAILABLE">> : e \in {"BUYOUT", "RELEASE", "REVOKE"}}
    \cup {<<s, "PAUSE", "PAUSED">> : s \in {"DRAFT", "AVAILABLE", "ASSIGNED"}}
    \cup {<<s, "CANCEL", "CANCELLED">> : s \in OpenStatuses}
    \cup {<<s, "EXPIRE", "EXPIRED">> : s \in OpenStatuses}

MayMove(s, event, t) == <<s, event, t>> \in Transitions

(* isTerminal: a status without an outgoing event.                             *)
IsTerminal(s) == ~ \E t \in Transitions : t[1] = s
=============================================================================
