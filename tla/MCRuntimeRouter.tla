-------------------------- MODULE MCRuntimeRouter --------------------------
(* The router on every pair of requests over a few names of each kind, and *)
(* evaluations of the planner on every dataset of two small cases.         *)
EXTENDS PlannerEvaluation

MCCapabilities == {"read", "click", "teleport"}
MCFormats == {"json", "csv", "pdf"}
MCModes == {"research-only", "production"}

Plain(n) == [name |-> n, shouted |-> FALSE, blank |-> FALSE]
MCTexts == {Plain(n) : n \in MCCapabilities}
              \cup {[Plain("read") EXCEPT !.shouted = TRUE],
                    [Plain("read") EXCEPT !.blank = TRUE]}
MCAnswers == {<<>>} \cup [1..1 -> MCTexts] \cup [1..2 -> MCTexts]

MCCases == [expected : {{t} : t \in MCTexts} \cup {{Plain("read"), Plain("click")}},
            risk : {"low", "medium", "high"}, status : Statuses,
            fixture : {<<Plain("read")>>, <<Plain("read"), Plain("click")>>}]

MCBeside == {[mode |-> "research-only", capabilities |-> {}, formats |-> {},
              selectors |-> FALSE, agentic |-> FALSE, strict |-> FALSE]}
=============================================================================
