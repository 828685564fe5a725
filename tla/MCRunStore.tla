---------------------------- MODULE MCRunStore ----------------------------
(* A small instance of the store for TLC.                                  *)
EXTENDS RunStore, TLC

CONSTANTS r1, r2, k1, k2, q1, q2, a1

CONSTANTS
    MaxClock,   \* bound on the clock
    LastCreate, \* bound on the time at which runs are created
    MaxExtras   \* bound on the audit rows that move no run

MCDetails == {"reviewed"}
MCReasons == {"default"}
MCCallerRows == {<<"metrics.recorded", "playwright">>}

(* The rows that move no run: re-routings, test approvals, callers' rows.  *)
Extras == CallerRows \cup ({"routing.updated"} \X Routes)
             \cup ({"approval.approved", "approval.rejected"} \X {"test"})

WithinBounds ==
    /\ clock <= MaxClock
    /\ \A r \in RunIds : \A row \in Extras : log[r][row] <= 1
    /\ Cardinality({e \in RunIds \X Extras : log[e[1]][e[2]] > 0}) <= MaxExtras
    /\ \A r \in RunIds : Exists(r) => runs[r].created <= LastCreate

BoundedSpec == StoreInit /\ [][StoreNext /\ WithinBounds']_storeVars

Interchangeable ==
    Permutations({r1, r2}) \cup Permutations({k1, k2})
        \cup Permutations({q1, q2})
=============================================================================
