--------------------------- MODULE RuntimeRouter ---------------------------
(***************************************************************************)
(* The routing policy in use: an operator asks for a decision and a plan,  *)
(* changes the request and asks again (router_cli.py, the routing and the  *)
(* planning endpoints).  Consecutive answers are related by what changed.  *)
(***************************************************************************)
EXTENDS RoutingPolicy, Integers

VARIABLES
    asked,      \* the routing context of the last request
    decision,   \* what the router answered
    plan        \* what the planner answered for the same capabilities

routerVars == <<asked, decision, plan>>

Answer(c) ==
    /\ asked' = c
    /\ decision' = Decide(c)
    /\ plan' = PlanOf(c)

RouterInit ==
    /\ asked \in Context
    /\ decision = Decide(asked)
    /\ plan = PlanOf(asked)

RouterNext == \E c \in Context : Answer(c)

RouterSpec == RouterInit /\ [][RouterNext]_routerVars

-----------------------------------------------------------------------------
(* Properties *)

(* How much a route lets the runtime do.                                   *)
Freedom(route) == CASE route = "blocked" -> 0
                    [] route = "playwright" -> 1
                    [] OTHER -> 2

(* The second request asks for at least as much, under at least as strict  *)
(* conditions, as the first.                                               *)
MoreDemanding(c, d) ==
    /\ d.mode = c.mode
    /\ CapabilitiesOf(c) \subseteq CapabilitiesOf(d)
    /\ FormatsOf(c) \subseteq FormatsOf(d)
    /\ c.selectors => d.selectors
    /\ c.strict => d.strict
    /\ d.agentic => c.agentic

(* Asking for more capabilities or formats, adding selectors or the strict *)
(* request policy, or withdrawing the agentic opt-in never leads to a      *)
(* freer runtime: no signal can offset another (BrowserRuntimeRouter).     *)
DemandsNeverWidenTheRoute ==
    [][MoreDemanding(asked, asked')
          => Freedom(decision'.route) <= Freedom(decision.route)]_routerVars

(* The router and the planner, which classify capabilities separately,     *)
(* never contradict each other: a plan with a step that runs a browser is  *)
(* never refused for its capabilities, and a routed request never has a    *)
(* plan that needs an action approval first.                               *)
PlannerAgreesWithRouter ==
    /\ "readonly-runtime" \in plan.steps <=>
          decision.blockers \cap {"consequential-capability",
                                  "unknown-capability"} = {}
    /\ decision.route # "blocked" => plan.status = "ready-for-blueprint-review"

(* A request that is routed is one the chosen runtime accepts and whose    *)
(* every format it produces, although modes and formats are listed         *)
(* separately in the router, the task model and the adapter: a locked run  *)
(* is not lost to a disagreement between them.                             *)
RoutedRequestsAreServed ==
    decision.route # "blocked" => Serves(decision.route, asked)

(* And the converse for task files: whatever the routing request says, a   *)
(* task of a workspace that loads is never blocked, although the modes and *)
(* formats it may have are listed by the validation, the task model and    *)
(* the router each on its own.                                             *)
LoadedTasksAreRouted ==
    IsWorkspaceTask(asked) =>
        Decide(TaskContext(asked, asked.agentic, asked.strict)).route
            # "blocked"

=============================================================================
