--------------------------- MODULE MCRunService ---------------------------
(* Small instances of the service for TLC.                                 *)
EXTENDS RunService, TLC

CONSTANTS r1, r2, k1, k2, t1, a1, w1, w2, c1, c2

(* One task without selectors: agentic navigation is sent to Browser Use   *)
(* unless request-level GET/HEAD only is asked for (agent/router.py).      *)
MCTasks == {"plain"}
MCReasons == {"only"}
MCRouteFor(task, agentic, strict) ==
    [route |-> IF agentic /\ ~strict THEN "browser-use" ELSE "playwright",
     reasons |-> "only"]

Public == [task |-> "plain", tenant |-> NoTenant]
Owned == [task |-> "plain", tenant |-> t1]
PublicRequests == {Public}
OwnedRequests == {Owned}

AllConfirmed == {[scope |-> TRUE, route |-> TRUE]}
ScopeConfirmed == {[scope |-> TRUE, route |-> b] : b \in BOOLEAN}

NoPublisher == {}
OnePublisher == {"notion"}
TwoPublishers == {"notion", "webhook"}
AllManifests == Entry
(* What is left of a workspace when it becomes invalid, or loses its task. *)
Kept(status, tasks) == [status |-> status, owner |-> a1, tasks |-> tasks,
                        integrations |-> {}]
ServiceManifests == {Kept("active", Tasks), Kept("unreadable", Tasks),
                     Kept("active", {})}
(* A workspace that allows both publishers, and then, paused, one of them. *)
OutputManifests ==
    {[status |-> "active", owner |-> a1, tasks |-> Tasks,
      integrations |-> {"notion", "webhook"}],
     [status |-> "paused", owner |-> a1, tasks |-> Tasks,
      integrations |-> {"notion"}]}
MCCallerRows ==
    ({"runtime.dispatched", "metrics.recorded"} \X Routes) \cup OutputRows
Enabled == {TRUE}
EitherSetting == BOOLEAN

Interchangeable == Permutations(Workers)
=============================================================================
