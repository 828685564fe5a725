------------------------- MODULE BrowserUseRuntime -------------------------
(***************************************************************************)
(* One run of the agentic read-only runtime                                *)
(* (adapters/browser_use_readonly.py and, in the service worker,           *)
(* adapters/browser_use_observed.py, whose run is the same but for the     *)
(* usage data it adds).  The agent itself is the external Browser Use      *)
(* library: which actions it registers, which it runs, where the browser   *)
(* goes and whether an exception of our step callback stops it are all     *)
(* left open.  What is modelled is the contract the adapter keeps around   *)
(* it: the check of the registered actions before the run, the check of    *)
(* every page during it, and both checks again on the history.             *)
(***************************************************************************)
EXTENDS Integers, FiniteSets

CONSTANTS
    Upstream,       \* every action name the library may register or report
    Excluded,       \* EXCLUDED_DEFAULT_ACTIONS
    Allowed,        \* READ_ONLY_ALLOWED_ACTIONS
    Required,       \* REQUIRED_ACTIONS
    Hosts, Approved,
    Blank,          \* about:blank, or no URL
    MaxSteps

ASSUME AdapterParameters ==
    /\ Required \subseteq Allowed /\ Allowed \subseteq Upstream
    /\ Excluded \subseteq Upstream /\ Excluded \cap Allowed = {}
    /\ Approved \subseteq Hosts /\ Blank \notin Hosts
    /\ MaxSteps \in Nat \ {0}

VARIABLES
    pc,
    registered, \* what Tools() registers, before the exclusions
    steps,      \* steps the agent has taken
    ran,        \* history.action_names()
    went,       \* history.urls()
    visited,    \* visited_urls, collected by the step callback
    errors,     \* history.errors() is not empty
    status      \* of the summary the run returns

adapterVars == <<pc, registered, steps, ran, went, visited, errors, status>>

AdapterInit ==
    /\ pc = "preflight"
    /\ registered \in SUBSET Upstream
    /\ steps = 0 /\ ran = {} /\ went = {} /\ visited = {} /\ errors = FALSE
    /\ status = "none"

(* Mutant: only what is missing is refused.                                *)
WithRequiredActions(names) == Required \subseteq names

(* enforce_read_only_tool_contract on what is left after the exclusions.   *)
WithinContract(names) == names \subseteq Allowed /\ Required \subseteq names

(* The key, the start URLs and the contract; the agent is then handed to   *)
(* the library.                                                            *)
Preflight(ready) ==
    /\ pc = "preflight"
    /\ pc' = IF ready /\ WithinContract(registered \ Excluded)
             THEN "running" ELSE "raised"
    /\ UNCHANGED <<registered, steps, ran, went, visited, errors, status>>

(* The step callback returns early on the blank page.                      *)
Note(url) == visited' = visited \cup ({url} \ {Blank})

(* One step of the agent: it calls validate_step with the page it is on,   *)
(* and acts.  The callback raises PolicyViolation on a page outside the    *)
(* approved domains, or that no longer resolves; the library may let that  *)
(* end the run or note it as an error and go on.                           *)
AgentStep(action, url, resolves) ==
    /\ pc = "running" /\ steps < MaxSteps
    /\ steps' = steps + 1
    /\ ran' = ran \cup {action}
    /\ went' = went \cup {url}
    /\ IF url = Blank \/ (url \in Approved /\ resolves)
       THEN Note(url) /\ UNCHANGED <<pc, errors>>
       ELSE /\ \/ pc' = "raised" /\ UNCHANGED errors
               \/ errors' = TRUE /\ UNCHANGED pc
            /\ UNCHANGED visited
    /\ UNCHANGED <<registered, status>>

(* The library notes an error of its own.                                  *)
AgentErrs ==
    /\ pc = "running"
    /\ errors' = TRUE
    /\ UNCHANGED <<pc, registered, steps, ran, went, visited, status>>

AgentRaises ==
    /\ pc = "running"
    /\ pc' = "raised"
    /\ UNCHANGED <<registered, steps, ran, went, visited, errors, status>>

AgentReturns ==
    /\ pc = "running" /\ steps > 0
    /\ pc' = "verifying"
    /\ UNCHANGED <<registered, steps, ran, went, visited, errors, status>>

(* _verify_executed_actions, then every page of the history again.         *)
Verify(resolves) ==
    /\ pc = "verifying"
    /\ pc' = IF ran \subseteq Allowed /\ went \ {Blank} \subseteq Approved
                /\ (resolves \/ went \subseteq {Blank})
             THEN "writing" ELSE "raised"
    /\ UNCHANGED <<registered, steps, ran, went, visited, errors, status>>

(* Mutant: errors of the agent do not matter once it says it succeeded.    *)
WriteAsJudged(successful, works) ==
    /\ pc = "writing"
    /\ status' = CASE successful = "false" -> "failed"
                   [] successful = "true" -> "completed"
                   [] OTHER -> "completed-with-errors"
    /\ pc' = IF works THEN "returned" ELSE "raised"
    /\ UNCHANGED <<registered, steps, ran, went, visited, errors>>

(* history.is_successful() is True, False or None.                         *)
Write(successful, works) ==
    /\ pc = "writing"
    /\ status' = IF successful = "false" THEN "failed"
                 ELSE IF successful = "true" /\ ~errors THEN "completed"
                 ELSE "completed-with-errors"
    /\ pc' = IF works THEN "returned" ELSE "raised"
    /\ UNCHANGED <<registered, steps, ran, went, visited, errors>>

AdapterStep ==
    \/ \E ready \in BOOLEAN : Preflight(ready)
    \/ \E action \in Upstream, url \in Hosts \cup {Blank}, resolves \in BOOLEAN :
            AgentStep(action, url, resolves)
    \/ AgentErrs \/ AgentRaises \/ AgentReturns
    \/ \E resolves \in BOOLEAN : Verify(resolves)
    \/ \E successful \in {"true", "false", "none"}, works \in BOOLEAN :
            Write(successful, works)

AdapterSpec == AdapterInit /\ [][AdapterStep]_adapterVars

-----------------------------------------------------------------------------
(* Properties *)

(* Type invariant.                                                         *)
AdapterTypeOK ==
    /\ pc \in {"preflight", "running", "verifying", "writing", "returned",
               "raised"}
    /\ registered \subseteq Upstream /\ steps \in 0..MaxSteps
    /\ ran \subseteq Upstream /\ went \subseteq Hosts \cup {Blank}
    /\ visited \subseteq Hosts /\ errors \in BOOLEAN
    /\ status \in {"none", "completed", "completed-with-errors", "failed"}

(* The adapter fails closed: whatever the library registers, runs or       *)
(* swallows, a summary is only returned of a run whose every action was    *)
(* on the allowlist, whose every page was approved, and whose agent never  *)
(* had an action outside the allowlist to choose from.                     *)
OnlyReadOnlyRunsReturn ==
    /\ pc = "returned" => ran \subseteq Allowed /\ went \subseteq Approved \cup {Blank}
    /\ pc \in {"running", "verifying", "writing", "returned"} =>
          Required \subseteq registered \ Excluded
          /\ registered \ Excluded \subseteq Allowed

(* The evidence is clean: the step callback only collects approved pages   *)
(* of the history, and a "completed" run has no page that it did not check *)
(* when the agent was there, because a page it refused stays an error.     *)
EvidenceIsClean ==
    /\ visited \subseteq went \cap Approved
    /\ pc = "returned" /\ status = "completed" => went \ {Blank} = visited

=============================================================================
