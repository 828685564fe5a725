--------------------------- MODULE RunLifecycle ---------------------------
(***************************************************************************)
(* What the run store promises its callers, seen through the only name     *)
(* they choose themselves, the Idempotency-Key.  There is at most one job  *)
(* per key; it is decided once, it runs only on the route it was approved  *)
(* with, it may fall back from running to queued, and it ends once.  Rows, *)
(* identifiers, timestamps, approvals and audit events are not mentioned:  *)
(* they are how service/store.py keeps the promise.                        *)
(***************************************************************************)
CONSTANTS Keys, Requests, Routes, NoJob

VARIABLE job    \* the job of each key

Phases == {"awaiting-blueprint-approval", "rejected", "queued", "running",
           "completed", "failed"}

Job == [request : Requests, phase : Phases, route : Routes]

LifecycleInit == job = [k \in Keys |-> NoJob]

In(k, phases) == job[k] # NoJob /\ job[k].phase \in phases

Submit(k, request, route) ==
    /\ job[k] = NoJob
    /\ job' = [job EXCEPT ![k] =
            [request |-> request, phase |-> "awaiting-blueprint-approval",
             route |-> route]]

Reroute(k, route) ==
    /\ In(k, {"awaiting-blueprint-approval"})
    /\ job' = [job EXCEPT ![k].route = route]

Approve(k) ==
    /\ In(k, {"awaiting-blueprint-approval"})
    /\ job[k].route # "blocked"
    /\ job' = [job EXCEPT ![k].phase = "queued"]

Reject(k) ==
    /\ In(k, {"awaiting-blueprint-approval"})
    /\ job' = [job EXCEPT ![k].phase = "rejected"]

Start(k) ==
    /\ In(k, {"queued"})
    /\ job' = [job EXCEPT ![k].phase = "running"]

(* Lost attempts go back to the queue, possibly several at once.           *)
Return(lost) ==
    /\ \A k \in lost : In(k, {"running"})
    /\ job' = [k \in Keys |-> IF k \in lost
                              THEN [job[k] EXCEPT !.phase = "queued"]
                              ELSE job[k]]

Finish(k, phase) ==
    /\ In(k, {"running"})
    /\ job' = [job EXCEPT ![k].phase = phase]

LifecycleNext ==
    \/ \E k \in Keys :
        \/ \E request \in Requests, route \in Routes : Submit(k, request, route)
        \/ \E route \in Routes : Reroute(k, route)
        \/ Approve(k)
        \/ Reject(k)
        \/ Start(k)
        \/ \E phase \in {"completed", "failed"} : Finish(k, phase)
    \/ \E lost \in SUBSET Keys : Return(lost)

LifecycleSpec == LifecycleInit /\ [][LifecycleNext]_job

=============================================================================
