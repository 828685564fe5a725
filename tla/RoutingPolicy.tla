--------------------------- MODULE RoutingPolicy ---------------------------
(***************************************************************************)
(* The deterministic policy that chooses a browser runtime                 *)
(* (agent/router.py), the risk classification of the workflow planner      *)
(* (agent/planning.py), and what the runtimes themselves accept            *)
(* (models.py, adapters/browser_use_readonly.py).  The capabilities are    *)
(* listed once, by the planner, from which the router imports them; modes  *)
(* and formats are listed in every file that looks at them.  Only          *)
(* operators here, no state.                                               *)
(***************************************************************************)
CONSTANTS
    Capabilities,   \* what a request may name, known to the policy or not
    Formats,        \* output formats a task may ask for
    Modes           \* task modes

Routes == {"playwright", "browser-use", "blocked"}

(* agent/planning.py, imported by agent/router.py                          *)
ReadOnlyCapabilities == {"navigate", "read", "extract", "screenshot"}
ConsequentialCapabilities ==
    {"click", "fill", "submit", "upload", "send", "publish", "purchase",
     "delete", "cancel", "change-permissions", "account-change"}

(* agent/router.py                                                         *)
SupportedModes == {"research-only", "test"}
PlaywrightFormats == {"json", "csv", "markdown", "screenshots"}
(* Mutant: the adapter is believed to write CSV.                           *)
BrowserUseFormatsWithCsv == {"json", "csv", "markdown", "screenshots"}

BrowserUseFormats == {"json", "markdown", "screenshots"}

(* validation.py                                                           *)
ValidModes == {"research-only", "draft-only", "test", "production"}

(* models.py and adapters/browser_use_readonly.py                          *)
(* Mutant: the runtime learns a mode that the router does not know.        *)
RuntimeModesWithProduction == {"research-only", "test", "production"}

RuntimeModes == {"research-only", "test"}
RuntimeFormats == {"json", "csv", "markdown", "screenshots"}
AdapterModes == {"research-only", "test"}
AdapterArtifacts == {"json", "markdown", "screenshots"}

Context == [mode : Modes, capabilities : SUBSET Capabilities,
            formats : SUBSET Formats, selectors : BOOLEAN,
            agentic : BOOLEAN, strict : BOOLEAN]

(* An empty request is replaced by the defaults before it is looked at.    *)
CapabilitiesOf(c) ==
    IF c.capabilities = {} THEN {"navigate", "extract"} ELSE c.capabilities

FormatsOf(c) ==
    IF c.formats = {} THEN {"json", "markdown", "screenshots"} ELSE c.formats

Known == ReadOnlyCapabilities \cup ConsequentialCapabilities

(* Mutant: one known capability makes up for unknown ones.                 *)
BlockersUnlessSomeKnown(c) ==
    {b \in {"unsupported-mode", "consequential-capability",
            "unknown-capability", "unsupported-output"} :
        \/ b = "unsupported-mode" /\ c.mode \notin SupportedModes
        \/ /\ b = "consequential-capability"
           /\ CapabilitiesOf(c) \cap ConsequentialCapabilities # {}
        \/ b = "unknown-capability" /\ CapabilitiesOf(c) \cap Known = {}
        \/ /\ b = "unsupported-output"
           /\ ~(FormatsOf(c) \subseteq PlaywrightFormats)}

(* Anything here blocks the request.                                       *)
Blockers(c) ==
    {b \in {"unsupported-mode", "consequential-capability",
            "unknown-capability", "unsupported-output"} :
        \/ b = "unsupported-mode" /\ c.mode \notin SupportedModes
        \/ /\ b = "consequential-capability"
           /\ CapabilitiesOf(c) \cap ConsequentialCapabilities # {}
        \/ b = "unknown-capability" /\ ~(CapabilitiesOf(c) \subseteq Known)
        \/ /\ b = "unsupported-output"
           /\ ~(FormatsOf(c) \subseteq PlaywrightFormats)}

(* Anything here keeps an unblocked request on Playwright.                 *)
Obstacles(c) ==
    {o \in {"strict-request-policy-requires-playwright",
            "selectors-require-deterministic-playwright",
            "browser-use-output-gap", "browser-use-not-explicitly-opted-in"} :
        \/ o = "strict-request-policy-requires-playwright" /\ c.strict
        \/ o = "selectors-require-deterministic-playwright" /\ c.selectors
        \/ /\ o = "browser-use-output-gap"
           /\ ~(FormatsOf(c) \subseteq BrowserUseFormats)
        \/ o = "browser-use-not-explicitly-opted-in" /\ ~c.agentic}

RouteOf(c) ==
    IF Blockers(c) # {} THEN "blocked"
    ELSE IF Obstacles(c) = {} THEN "browser-use"
    ELSE "playwright"

ReasonsOf(c) ==
    IF Blockers(c) # {} THEN {"fail-closed-policy"}
    ELSE IF Obstacles(c) = {}
    THEN {"eligible-public-readonly-agentic-navigation"}
    ELSE Obstacles(c)

Decide(c) == [route |-> RouteOf(c), reasons |-> ReasonsOf(c),
              blockers |-> Blockers(c)]

(* What the service asks the router about a task file: always the same two *)
(* capabilities, the rest from the task and the routing request.           *)
TaskContext(task, agentic, strict) ==
    [mode |-> task.mode, capabilities |-> {"navigate", "extract"},
     formats |-> task.formats, selectors |-> task.selectors,
     agentic |-> agentic, strict |-> strict]

-----------------------------------------------------------------------------
(* The workflow planner *)

(* Mutant: what is not consequential is low risk.                          *)
RiskOfConsequential(c) ==
    IF CapabilitiesOf(c) \cap ConsequentialCapabilities # {} THEN "high"
    ELSE "low"

RiskOf(c) ==
    IF CapabilitiesOf(c) \cap ConsequentialCapabilities # {} THEN "high"
    ELSE IF CapabilitiesOf(c) \subseteq Known THEN "low"
    ELSE "medium"

NeedsApproval(c) == RiskOf(c) # "low"

(* A plan that needs an approval has no step that runs a browser.          *)
PlanOf(c) ==
    [status |-> IF NeedsApproval(c) THEN "approval-required"
                ELSE "ready-for-blueprint-review",
     steps |-> {"scope-validation", "blueprint-review", "verification",
                "reporting"}
               \cup {IF NeedsApproval(c) THEN "action-approval"
                     ELSE "readonly-runtime"}]

-----------------------------------------------------------------------------
(* What the runtimes accept *)

(* RuntimeTask.from_dict, on the formats as the task lists them.           *)
IsRuntimeTask(c) == c.mode \in RuntimeModes /\ c.formats \subseteq RuntimeFormats

(* validate_task, on what a route depends on, and then from_dict: a task   *)
(* that fails either keeps the whole workspace from being loaded.          *)
IsWorkspaceTask(c) ==
    c.mode \in ValidModes /\ c.formats # {} /\ IsRuntimeTask(c)

(* Both workers build a RuntimeTask first; the Browser Use adapter checks  *)
(* the mode again and writes a fixed set of artifacts.                     *)
Serves(route, c) ==
    CASE route = "playwright" -> IsRuntimeTask(c)
      [] route = "browser-use" ->
            /\ IsRuntimeTask(c)
            /\ c.mode \in AdapterModes
            /\ c.formats \subseteq AdapterArtifacts
      [] OTHER -> FALSE

=============================================================================
