---------------------------- MODULE RequestGate ----------------------------
(***************************************************************************)
(* The network policy of the deterministic runtime: the handler            *)
(* _install_read_only_policy puts in front of every request of the browser *)
(* context (playwright_runtime.py) and the DomainPolicy it asks            *)
(* (policy.py).  Handlers of many requests run concurrently on one event   *)
(* loop and share the policy's DNS cache and the report's list of blocked  *)
(* requests; between two awaits a handler is atomic.  A handler awaits the *)
(* resolution of a host that is not in the cache, and the fetch of the     *)
(* response, so others run between its look into the cache and its write.  *)
(* The loop that visits the pages checks its URLs with the same policy,    *)
(* while requests of the page before may still be in flight.               *)
(***************************************************************************)
EXTENDS Integers, FiniteSets

CONSTANTS
    Requests,       \* requests of the browser context, and checks of a visit
    Hosts,
    Approved,       \* the task's approved_domains
    AllowPrivate,   \* allow_private_network, which also skips resolution
    BlockedLimit,   \* how many blocked requests the report lists (200)
    NoHost, NoAnswer

(* What resolving a host finds: only global addresses, some other address, *)
(* or no address; the resolver may also fail.                              *)
Answers == {"global", "private", "empty"}

ASSUME GateParameters ==
    /\ Approved \subseteq Hosts /\ IsFiniteSet(Requests)
    /\ AllowPrivate \in BOOLEAN
    /\ BlockedLimit \in Nat
    /\ NoHost \notin Hosts
    /\ NoAnswer \notin Answers

VARIABLES
    handler,    \* the handler of each request
    cache,      \* _dns_cache
    listed,     \* len(report.blocked_requests)
    found       \* what resolutions of a host have ever found

gateVars == <<handler, cache, listed, found>>

(* A handler checks first the URL of the request, then, if the response    *)
(* redirects, the location.                                                *)
Handler == [pc : {"new", "resolving", "fetching", "fulfilled", "refused",
                  "failed", "broken", "checked"},
            visit : BOOLEAN, readonly : BOOLEAN,
            url : Hosts \cup {NoHost}, location : Hosts \cup {NoHost}]

Idle == [pc |-> "new", visit |-> FALSE, readonly |-> FALSE, url |-> NoHost,
         location |-> NoHost]

GateInit ==
    /\ handler = [r \in Requests |-> Idle]
    /\ cache = [h \in Hosts |-> NoAnswer]
    /\ listed = 0
    /\ found = [h \in Hosts |-> {}]

(* The host a handler has last been asked about.                           *)
Checked(h) == IF h.location # NoHost THEN h.location ELSE h.url

(* A request that passes its first check is fetched, one that passes its   *)
(* second goes back to the page.                                           *)
Passed(h) ==
    [h EXCEPT !.pc = CASE h.visit -> "checked"
                       [] h.location # NoHost -> "fulfilled"
                       [] OTHER -> "fetching"]

(* PolicyViolation: the request is listed while there is room, and aborted;*)
(* a visit goes to its own retries (module PlaywrightRuntime).             *)
Refuse(r, h) ==
    /\ handler' = [handler EXCEPT ![r] = [h EXCEPT !.pc = "refused"]]
    /\ listed' = IF ~h.visit /\ listed < BlockedLimit THEN listed + 1
                 ELSE listed

Accept(r, h) ==
    /\ handler' = [handler EXCEPT ![r] = Passed(h)]
    /\ UNCHANGED listed

(* Mutant: a host without any address passes, as all() of nothing does.    *)
JudgeEmptyAsGlobal(r, h, answer) ==
    IF answer # "private" THEN Accept(r, h) ELSE Refuse(r, h)

Judge(r, h, answer) ==
    IF answer = "global" THEN Accept(r, h) ELSE Refuse(r, h)

(* validate_url up to its first await, on the host the handler is asked    *)
(* about; a URL the syntax check refuses counts as a host not approved.    *)
Validate(r, h) ==
    /\ IF Checked(h) \notin Approved THEN Refuse(r, h)
       ELSE IF AllowPrivate THEN Accept(r, h)
       ELSE IF cache[Checked(h)] # NoAnswer
       THEN Judge(r, h, cache[Checked(h)])
       ELSE /\ handler' = [handler EXCEPT ![r] = [h EXCEPT !.pc = "resolving"]]
            /\ UNCHANGED listed
    /\ UNCHANGED <<cache, found>>

(* A WebSocket is refused like a request that is not GET or HEAD.          *)
Arrive(r, readonly, host) ==
    LET h == [Idle EXCEPT !.readonly = readonly, !.url = host]
    IN  /\ handler[r].pc = "new"
        /\ IF readonly THEN Validate(r, h)
           ELSE Refuse(r, h) /\ UNCHANGED <<cache, found>>

(* The visiting loop, one check at a time.                                 *)
VisitChecks(r, host) ==
    /\ handler[r].pc = "new"
    /\ \A q \in Requests : handler[q].visit => handler[q].pc # "resolving"
    /\ Validate(r, [Idle EXCEPT !.visit = TRUE, !.readonly = TRUE,
                                !.url = host])

(* The answer is written to the cache whatever it is, and whatever another *)
(* handler has written there meanwhile, and then judged.                   *)
Resolve(r, answer) ==
    LET h == handler[r]
    IN  /\ h.pc = "resolving"
        /\ cache' = [cache EXCEPT ![Checked(h)] = answer]
        /\ found' = [found EXCEPT ![Checked(h)] = @ \cup {answer}]
        /\ Judge(r, h, answer)

(* Mutant: the failure is aborted but not listed.                          *)
ResolveFailsUnlisted(r) ==
    /\ handler[r].pc = "resolving"
    /\ handler' = [handler EXCEPT ![r].pc = "refused"]
    /\ UNCHANGED <<cache, listed, found>>

(* Mutant: a resolver failure is cached as a host without addresses.       *)
ResolveFailsCached(r) ==
    LET h == handler[r]
    IN  /\ h.pc = "resolving"
        /\ cache' = [cache EXCEPT ![Checked(h)] = "empty"]
        /\ Refuse(r, h)
        /\ UNCHANGED found

(* getaddrinfo fails: nothing is cached.                                   *)
ResolveFails(r) ==
    /\ handler[r].pc = "resolving"
    /\ Refuse(r, handler[r])
    /\ UNCHANGED <<cache, found>>

(* The response redirects to a location, which is checked but not followed.*)
Redirect(r, host) ==
    /\ handler[r].pc = "fetching"
    /\ Validate(r, [handler[r] EXCEPT !.location = host])

Fulfil(r) ==
    /\ handler[r].pc = "fetching"
    /\ handler' = [handler EXCEPT ![r].pc = "fulfilled"]
    /\ UNCHANGED <<cache, listed, found>>

FetchFails(r) ==
    /\ handler[r].pc = "fetching"
    /\ handler' = [handler EXCEPT ![r].pc = "failed"]
    /\ UNCHANGED <<cache, listed, found>>

(* An exception the handler does not catch, such as the ValueError of a    *)
(* location that does not parse: the request is neither aborted nor listed.*)
HandlerBreaks(r) ==
    /\ handler[r].pc \in {"new", "resolving", "fetching"}
    /\ handler' = [handler EXCEPT ![r].pc = "broken"]
    /\ UNCHANGED <<cache, listed, found>>

HandlerStep(r) ==
    \/ \E readonly \in BOOLEAN, host \in Hosts : Arrive(r, readonly, host)
    \/ \E host \in Hosts : VisitChecks(r, host)
    \/ \E answer \in Answers : Resolve(r, answer)
    \/ ResolveFails(r)
    \/ \E host \in Hosts : Redirect(r, host)
    \/ Fulfil(r) \/ FetchFails(r) \/ HandlerBreaks(r)

GateNext == \E r \in Requests : HandlerStep(r)

GateSpec == GateInit /\ [][GateNext]_gateVars

-----------------------------------------------------------------------------
(* Properties *)

(* Type invariant.                                                         *)
GateTypeOK ==
    /\ handler \in [Requests -> Handler]
    /\ cache \in [Hosts -> Answers \cup {NoAnswer}]
    /\ listed \in 0..BlockedLimit
    /\ found \in [Hosts -> SUBSET Answers]

Vetted(host) == host \in Approved /\ (AllowPrivate \/ "global" \in found[host])

(* Nothing reaches the page unvetted: a response that was handed to the    *)
(* page answered a read-only request to an approved host, points to an     *)
(* approved host if it redirects, and each of the two had been found to    *)
(* have only global addresses, unless the policy allows private ones; and  *)
(* so had every page the visiting loop goes to.                            *)
PagesSeeOnlyVettedResponses ==
    \A r \in Requests :
        /\ handler[r].pc \in {"fetching", "fulfilled", "checked"} =>
              handler[r].readonly /\ Vetted(handler[r].url)
        /\ handler[r].pc = "fulfilled" /\ handler[r].location # NoHost =>
              Vetted(handler[r].location)

(* The report lists every refused request until its list is full, with     *)
(* however many handlers refusing at once, and nothing else.               *)
RefusalsAreListed ==
    LET refused == Cardinality({r \in Requests : handler[r].pc = "refused"
                                                 /\ ~handler[r].visit})
    IN  listed = IF refused < BlockedLimit THEN refused ELSE BlockedLimit

(* The cache is consistent with what resolution has found, and once no     *)
(* handler is resolving a host the answer for it is settled: it changes    *)
(* only through a resolution that began before there was an answer.        *)
CachedAnswersSettle ==
    [][\A h \in Hosts :
          /\ cache'[h] # NoAnswer => cache'[h] \in found'[h]
          /\ cache[h] # NoAnswer
             /\ (\A r \in Requests : handler[r].pc = "resolving"
                                        => Checked(handler[r]) # h)
             => /\ cache'[h] = cache[h]
                /\ \A r \in Requests : handler'[r].pc = "resolving"
                                          => Checked(handler'[r]) # h]_gateVars

=============================================================================
