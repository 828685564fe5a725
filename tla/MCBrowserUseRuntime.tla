----------------------- MODULE MCBrowserUseRuntime -----------------------
(* A library with one required, one other allowed, one excluded and one    *)
(* new action, for TLC.                                                    *)
EXTENDS ObservedRuntime

CONSTANTS h1, h2, h3

MCUpstream == {"navigate", "wait", "click", "teleport"}
MCExcluded == {"click"}
MCAllowed == {"navigate", "wait"}
MCRequired == {"navigate"}

(* No report, one without a price, a free model, and a paid one.           *)
MCUsages == {NoUsage, [tokens |-> 5, cost |-> Unknown],
             [tokens |-> 5, cost |-> 0], [tokens |-> 5, cost |-> 3]}
=============================================================================
