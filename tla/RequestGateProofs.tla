------------------------- MODULE RequestGateProofs -------------------------
(***************************************************************************)
(* What the network policy promises of the pages and of the report, for    *)
(* any hosts and any number of concurrent handlers.                        *)
(***************************************************************************)
EXTENDS RequestGate, FiniteSetTheorems, TLAPS

VettedBy(host, seen) ==
    host \in Approved /\ (AllowPrivate \/ "global" \in seen[host])

(* What is known of a handler, when resolutions have found seen.           *)
HandlerOK(h, seen) ==
    /\ h.visit => h.location = NoHost
    /\ h.pc \in {"resolving", "fetching", "fulfilled", "checked"} => h.readonly
    /\ h.pc \in {"fetching", "fulfilled", "checked"} => VettedBy(h.url, seen)
    /\ h.pc = "fulfilled" /\ h.location # NoHost => VettedBy(h.location, seen)
    /\ h.pc = "fetching" => h.location = NoHost /\ ~h.visit
    /\ h.pc = "resolving" =>
          /\ Checked(h) \in Approved
          /\ h.location # NoHost => VettedBy(h.url, seen)

CacheIsTrue == \A h \in Hosts : cache[h] # NoAnswer => cache[h] \in found[h]

GateInv ==
    /\ GateTypeOK /\ CacheIsTrue
    /\ \A r \in Requests : HandlerOK(handler[r], found)

(* The handler of r becomes y, and is listed if that is a refusal.         *)
Moves(r, y) ==
    /\ handler' = [handler EXCEPT ![r] = y]
    /\ listed' = IF y.pc = "refused" /\ ~y.visit /\ listed < BlockedLimit
                 THEN listed + 1 ELSE listed

(* The ways a step may treat the cache: only a handler that was resolving  *)
(* writes, only at its host and what was found, and one that begins to     *)
(* resolve has seen no answer.                                             *)
Remembers(r, y) ==
    \/ /\ UNCHANGED <<cache, found>>
       /\ y.pc = "resolving" => cache[Checked(y)] = NoAnswer
    \/ /\ handler[r].pc = "resolving" /\ y.pc # "resolving"
       /\ \E answer \in Answers :
             /\ cache' = [cache EXCEPT ![Checked(handler[r])] = answer]
             /\ found' = [found EXCEPT ![Checked(handler[r])] = @ \cup {answer}]

Active == {"new", "resolving", "fetching"}

-----------------------------------------------------------------------------
(* A handler that is asked about a host. *)

LEMMA RefusedMoves ==
    ASSUME NEW r \in Requests, NEW h \in Handler, h.visit => h.location = NoHost,
           Refuse(r, h), NEW seen
    PROVE  \E y \in Handler : /\ Moves(r, y) /\ HandlerOK(y, seen)
                              /\ y.pc = "refused"
<1> DEFINE y == [h EXCEPT !.pc = "refused"]
<1>1. y \in Handler /\ y.pc = "refused" /\ y.visit = h.visit
      /\ y.location = h.location
    BY DEF Handler
<1>2. handler' = [handler EXCEPT ![r] = y]
    BY DEF Refuse
<1>3. listed' = IF ~h.visit /\ listed < BlockedLimit THEN listed + 1 ELSE listed
    BY DEF Refuse
<1> HIDE DEF y
<1> QED
    BY <1>1, <1>2, <1>3 DEF Moves, HandlerOK

(* Acceptance is right if the host asked about is vetted, and so is the    *)
(* host of the first check when this is the second.                        *)
LEMMA AcceptedMoves ==
    ASSUME NEW r \in Requests, NEW h \in Handler, NEW seen,
           h.visit => h.location = NoHost, h.readonly,
           VettedBy(Checked(h), seen),
           h.location # NoHost => VettedBy(h.url, seen),
           Accept(r, h)
    PROVE  \E y \in Handler : /\ Moves(r, y) /\ HandlerOK(y, seen)
                              /\ y.pc \in {"checked", "fulfilled", "fetching"}
<1> DEFINE y == Passed(h)
<1>1. /\ y \in Handler /\ y.visit = h.visit /\ y.location = h.location
      /\ y.url = h.url /\ y.readonly
      /\ y.pc = IF h.visit THEN "checked"
                ELSE IF h.location # NoHost THEN "fulfilled" ELSE "fetching"
    BY DEF Passed, Handler
<1>2. handler' = [handler EXCEPT ![r] = y] /\ listed' = listed
    BY DEF Accept
<1>3. VettedBy(y.url, seen)
    BY <1>1 DEF Checked
<1> HIDE DEF y
<1> QED
    BY <1>1, <1>2, <1>3 DEF Moves, HandlerOK, Checked

LEMMA ValidatedMoves ==
    ASSUME GateInv, NEW r \in Requests, NEW h \in Handler,
           h.visit => h.location = NoHost, h.readonly,
           Checked(h) \in Hosts,
           h.location # NoHost => VettedBy(h.url, found),
           Validate(r, h)
    PROVE  \E y \in Handler : /\ Moves(r, y) /\ HandlerOK(y, found')
                              /\ Remembers(r, y)
<1>1. found' = found /\ cache' = cache
    BY DEF Validate
<1>2. ASSUME Refuse(r, h)
      PROVE  \E y \in Handler : /\ Moves(r, y) /\ HandlerOK(y, found')
                                /\ Remembers(r, y)
    <2>1. PICK y \in Handler : /\ Moves(r, y) /\ HandlerOK(y, found')
                               /\ y.pc = "refused"
        BY <1>2, RefusedMoves
    <2> QED
        BY <1>1, <2>1 DEF Remembers
<1>3. ASSUME Accept(r, h), VettedBy(Checked(h), found)
      PROVE  \E y \in Handler : /\ Moves(r, y) /\ HandlerOK(y, found')
                                /\ Remembers(r, y)
    <2>1. PICK y \in Handler : /\ Moves(r, y) /\ HandlerOK(y, found)
                               /\ y.pc \in {"checked", "fulfilled", "fetching"}
        BY <1>3, AcceptedMoves
    <2> QED
        BY <1>1, <2>1 DEF Remembers
<1>4. CASE Checked(h) \notin Approved
    BY <1>2, <1>4 DEF Validate
<1>5. CASE Checked(h) \in Approved /\ AllowPrivate
    BY <1>3, <1>5 DEF Validate, VettedBy
<1>6. CASE Checked(h) \in Approved /\ ~AllowPrivate /\ cache[Checked(h)] # NoAnswer
    <2>1. Judge(r, h, cache[Checked(h)])
        BY <1>6 DEF Validate
    <2>2. CASE cache[Checked(h)] = "global"
        <3>1. "global" \in found[Checked(h)]
            BY <1>6, <2>2 DEF GateInv, CacheIsTrue
        <3> QED
            BY <1>3, <1>6, <2>1, <2>2, <3>1 DEF Judge, VettedBy
    <2>3. CASE cache[Checked(h)] # "global"
        BY <1>2, <2>1, <2>3 DEF Judge
    <2> QED
        BY <2>2, <2>3
<1>7. CASE Checked(h) \in Approved /\ ~AllowPrivate /\ cache[Checked(h)] = NoAnswer
    <2> DEFINE y == [h EXCEPT !.pc = "resolving"]
    <2>1. handler' = [handler EXCEPT ![r] = y] /\ listed' = listed
        BY <1>7 DEF Validate
    <2>2. /\ y \in Handler /\ y.pc = "resolving" /\ y.visit = h.visit
          /\ y.url = h.url /\ y.location = h.location /\ y.readonly = h.readonly
        BY DEF Handler
    <2> HIDE DEF y
    <2>3. Checked(y) = Checked(h)
        BY <2>2 DEF Checked
    <2>4. Moves(r, y)
        BY <2>1, <2>2 DEF Moves
    <2>5. HandlerOK(y, found')
        BY <1>1, <1>7, <2>2, <2>3 DEF HandlerOK
    <2>6. Remembers(r, y)
        BY <1>1, <1>7, <2>3 DEF Remembers
    <2> QED
        BY <2>2, <2>4, <2>5, <2>6
<1> QED
    BY <1>4, <1>5, <1>6, <1>7

-----------------------------------------------------------------------------
(* Every step moves one handler. *)

LEMMA StepMoves ==
    ASSUME GateInv, NEW r \in Requests, HandlerStep(r)
    PROVE  /\ handler[r].pc \in Active
           /\ \E y \in Handler : /\ Moves(r, y) /\ HandlerOK(y, found')
                                 /\ Remembers(r, y)
<1> DEFINE h == handler[r]
           Goal == /\ h.pc \in Active
                   /\ \E y \in Handler : /\ Moves(r, y) /\ HandlerOK(y, found')
                                         /\ Remembers(r, y)
<1>1. h \in Handler /\ HandlerOK(h, found)
    BY DEF GateInv, GateTypeOK
<1>2. ASSUME NEW readonly \in BOOLEAN, NEW host \in Hosts,
             Arrive(r, readonly, host)
      PROVE  Goal
    <2> DEFINE x == [Idle EXCEPT !.readonly = readonly, !.url = host]
    <2>1. /\ x \in Handler /\ ~x.visit /\ x.location = NoHost
          /\ x.readonly = readonly /\ Checked(x) = host
        BY DEF Idle, Handler, Checked
    <2>2. h.pc = "new" /\ (IF readonly THEN Validate(r, x)
                           ELSE Refuse(r, x) /\ UNCHANGED <<cache, found>>)
        BY <1>2 DEF Arrive
    <2> HIDE DEF x
    <2>3. CASE readonly
        BY <2>1, <2>2, <2>3, ValidatedMoves DEF Active
    <2>4. CASE ~readonly
        <3>1. PICK y \in Handler : /\ Moves(r, y) /\ HandlerOK(y, found')
                                   /\ y.pc = "refused"
            BY <2>1, <2>2, <2>4, RefusedMoves
        <3> QED
            BY <2>2, <2>4, <3>1 DEF Remembers, Active
    <2> QED
        BY <2>3, <2>4
<1>3. ASSUME NEW host \in Hosts, VisitChecks(r, host)
      PROVE  Goal
    <2> DEFINE x == [Idle EXCEPT !.visit = TRUE, !.readonly = TRUE, !.url = host]
    <2>1. x \in Handler /\ x.location = NoHost /\ x.readonly /\ Checked(x) = host
        BY DEF Idle, Handler, Checked
    <2>2. h.pc = "new" /\ Validate(r, x)
        BY <1>3 DEF VisitChecks
    <2> HIDE DEF x
    <2> QED
        BY <1>3, <2>1, <2>2, ValidatedMoves DEF Active
<1>4. ASSUME NEW answer \in Answers, Resolve(r, answer)
      PROVE  Goal
    <2>1. /\ h.pc = "resolving" /\ Judge(r, h, answer)
          /\ cache' = [cache EXCEPT ![Checked(h)] = answer]
          /\ found' = [found EXCEPT ![Checked(h)] = @ \cup {answer}]
        BY <1>4 DEF Resolve
    <2>2. /\ h.readonly /\ Checked(h) \in Approved
          /\ h.visit => h.location = NoHost
          /\ h.location # NoHost => VettedBy(h.url, found)
        BY <1>1, <2>1 DEF HandlerOK
    <2>3. ASSUME NEW y \in Handler, y.pc # "resolving"
          PROVE  Remembers(r, y)
        BY <2>1, <2>3 DEF Remembers
    <2>4. CASE answer = "global"
        <3>1. Accept(r, h)
            BY <2>1, <2>4 DEF Judge
        <3>2. /\ found \in [Hosts -> SUBSET Answers]
              /\ Checked(h) \in Hosts
              /\ Approved \subseteq Hosts
            BY <2>2, GateParameters DEF GateInv, GateTypeOK
        <3>3. "global" \in found'[Checked(h)]
            BY <2>1, <2>4, <3>2
        <3>4. VettedBy(Checked(h), found')
            BY <2>2, <3>3 DEF VettedBy
        <3>5. h.location # NoHost => VettedBy(h.url, found')
            BY <2>1, <2>2, <3>2 DEF VettedBy
        <3>6. PICK y \in Handler : /\ Moves(r, y) /\ HandlerOK(y, found')
                                   /\ y.pc \in {"checked", "fulfilled", "fetching"}
            BY <1>1, <2>2, <3>1, <3>4, <3>5, AcceptedMoves
        <3> QED
            BY <2>1, <2>3, <3>6 DEF Active
    <2>5. CASE answer # "global"
        <3>1. Refuse(r, h)
            BY <2>1, <2>5 DEF Judge
        <3>2. PICK y \in Handler : /\ Moves(r, y) /\ HandlerOK(y, found')
                                   /\ y.pc = "refused"
            BY <1>1, <2>2, <3>1, RefusedMoves
        <3> QED
            BY <2>1, <2>3, <3>2 DEF Active
    <2> QED
        BY <2>4, <2>5
<1>5. CASE ResolveFails(r)
    <2>1. h.pc = "resolving" /\ Refuse(r, h) /\ UNCHANGED <<cache, found>>
        BY <1>5 DEF ResolveFails
    <2>2. PICK y \in Handler : /\ Moves(r, y) /\ HandlerOK(y, found')
                               /\ y.pc = "refused"
        BY <1>1, <2>1, RefusedMoves DEF HandlerOK
    <2> QED
        BY <2>1, <2>2 DEF Remembers, Active
<1>6. ASSUME NEW host \in Hosts, Redirect(r, host)
      PROVE  Goal
    <2> DEFINE x == [h EXCEPT !.location = host]
    <2>1. h.pc = "fetching" /\ Validate(r, x)
        BY <1>6 DEF Redirect
    <2>2. /\ x \in Handler /\ x.visit = h.visit /\ x.readonly = h.readonly
          /\ x.url = h.url /\ x.location = host
        BY <1>1, <1>6 DEF Handler
    <2>3. Checked(x) = host
        BY <1>6, <2>2, GateParameters DEF Checked
    <2> HIDE DEF x
    <2>4. ~x.visit /\ x.readonly /\ VettedBy(x.url, found)
        BY <1>1, <2>1, <2>2 DEF HandlerOK
    <2> QED
        BY <1>6, <2>1, <2>2, <2>3, <2>4, ValidatedMoves DEF Active
<1>7. ASSUME NEW pc \in {"fulfilled", "failed", "broken"},
             handler' = [handler EXCEPT ![r].pc = pc],
             UNCHANGED <<cache, listed, found>>, h.pc \in Active,
             pc = "fulfilled" => h.pc = "fetching"
      PROVE  Goal
    <2> DEFINE y == [h EXCEPT !.pc = pc]
    <2>1. /\ y \in Handler /\ y.pc = pc /\ y.visit = h.visit
          /\ y.url = h.url /\ y.location = h.location
          /\ y.readonly = h.readonly
        BY <1>1, <1>7 DEF Handler
    <2>2. handler' = [handler EXCEPT ![r] = y]
        BY <1>7
    <2> HIDE DEF y
    <2>3. Moves(r, y) /\ Remembers(r, y)
        BY <1>7, <2>1, <2>2 DEF Moves, Remembers
    <2>4. HandlerOK(y, found')
        BY <1>1, <1>7, <2>1 DEF HandlerOK
    <2> QED
        BY <1>7, <2>1, <2>3, <2>4
<1>8. CASE Fulfil(r)
    BY <1>7, <1>8 DEF Fulfil, Active
<1>9. CASE FetchFails(r)
    BY <1>7, <1>9 DEF FetchFails, Active
<1>10. CASE HandlerBreaks(r)
    BY <1>7, <1>10 DEF HandlerBreaks, Active
<1> QED
    BY <1>2, <1>3, <1>4, <1>5, <1>6, <1>8, <1>9, <1>10 DEF HandlerStep

(* What resolutions have found is not forgotten, so that what was vetted   *)
(* stays vetted.                                                           *)
LEMMA MemoryGrows ==
    ASSUME GateInv, NEW r \in Requests, NEW y \in Handler, Remembers(r, y),
           handler[r].pc \in Active
    PROVE  /\ cache' \in [Hosts -> Answers \cup {NoAnswer}]
           /\ found' \in [Hosts -> SUBSET Answers]
           /\ CacheIsTrue'
           /\ \A host \in Hosts : found[host] \subseteq found'[host]
<1>1. /\ cache \in [Hosts -> Answers \cup {NoAnswer}]
      /\ found \in [Hosts -> SUBSET Answers] /\ CacheIsTrue
    BY DEF GateInv, GateTypeOK
<1>2. CASE UNCHANGED <<cache, found>>
    BY <1>1, <1>2 DEF CacheIsTrue
<1>3. CASE ~UNCHANGED <<cache, found>>
    <2>1. PICK answer \in Answers :
             /\ cache' = [cache EXCEPT ![Checked(handler[r])] = answer]
             /\ found' = [found EXCEPT ![Checked(handler[r])] = @ \cup {answer}]
        BY <1>3 DEF Remembers
    <2> QED
        BY <1>1, <2>1 DEF CacheIsTrue
<1> QED
    BY <1>2, <1>3

LEMMA GateStepKeepsInv ==
    ASSUME GateInv, NEW r \in Requests, HandlerStep(r)
    PROVE  GateInv'
<1>1. handler[r].pc \in Active
    BY StepMoves
<1>2. PICK y \in Handler : /\ Moves(r, y) /\ HandlerOK(y, found')
                           /\ Remembers(r, y)
    BY StepMoves
<1>3. /\ cache' \in [Hosts -> Answers \cup {NoAnswer}]
      /\ found' \in [Hosts -> SUBSET Answers]
      /\ CacheIsTrue'
      /\ \A host \in Hosts : found[host] \subseteq found'[host]
    BY <1>1, <1>2, MemoryGrows
<1>4. handler' \in [Requests -> Handler] /\ listed' \in 0..BlockedLimit
    <2>1. /\ handler \in [Requests -> Handler] /\ listed \in 0..BlockedLimit
          /\ BlockedLimit \in Nat
        BY GateParameters DEF GateInv, GateTypeOK
    <2> QED
        BY <1>2, <2>1 DEF Moves
<1>5. ASSUME NEW q \in Requests
      PROVE  HandlerOK(handler'[q], found')
    <2>1. CASE q = r
        <3>1. handler'[q] = y
            BY <1>2, <2>1 DEF Moves, GateInv, GateTypeOK
        <3> QED
            BY <1>2, <3>1
    <2>2. CASE q # r
        <3>1. handler'[q] = handler[q]
            BY <1>2, <2>2 DEF Moves, GateInv, GateTypeOK
        <3>2. HandlerOK(handler[q], found) /\ Approved \subseteq Hosts
            BY GateParameters DEF GateInv
        <3> QED
            BY <1>3, <3>1, <3>2 DEF HandlerOK, VettedBy
    <2> QED
        BY <2>1, <2>2
<1> QED
    BY <1>3, <1>4, <1>5 DEF GateInv, GateTypeOK

LEMMA GateBegins == GateInit => GateInv
<1> SUFFICES ASSUME GateInit PROVE GateInv
    OBVIOUS
<1>1. GateTypeOK
    BY GateParameters DEF GateInit, GateTypeOK, Handler, Idle
<1>2. CacheIsTrue
    BY DEF GateInit, CacheIsTrue
<1>3. \A r \in Requests : HandlerOK(handler[r], found)
    BY DEF GateInit, HandlerOK, Idle
<1> QED
    BY <1>1, <1>2, <1>3 DEF GateInv

LEMMA GateInvariance == GateSpec => []GateInv
<1>1. GateInit => GateInv
    BY GateBegins
<1>2. GateInv /\ [GateNext]_gateVars => GateInv'
    <2>1. ASSUME GateInv, UNCHANGED gateVars PROVE GateInv'
        BY <2>1 DEF GateInv, GateTypeOK, CacheIsTrue, HandlerOK, VettedBy, gateVars
    <2> QED
        BY <2>1, GateStepKeepsInv DEF GateNext
<1> QED
    BY <1>1, <1>2, PTL DEF GateSpec

-----------------------------------------------------------------------------
(* The promises *)

(* Every variable keeps its type.                                          *)
THEOREM GateTypeCorrect == GateSpec => []GateTypeOK
<1>1. GateInv => GateTypeOK
    BY DEF GateInv
<1> QED
    BY <1>1, GateInvariance, PTL

(* No response reaches a page past the policy, however handlers interleave *)
(* and whatever the resolver answers them.                                 *)
THEOREM OnlyVettedResponses == GateSpec => []PagesSeeOnlyVettedResponses
<1>1. ASSUME GateInv, NEW r \in Requests
      PROVE  /\ handler[r].pc \in {"fetching", "fulfilled", "checked"} =>
                   handler[r].readonly /\ Vetted(handler[r].url)
             /\ handler[r].pc = "fulfilled" /\ handler[r].location # NoHost =>
                   Vetted(handler[r].location)
    BY <1>1 DEF GateInv, HandlerOK, VettedBy, Vetted
<1>2. GateInv => PagesSeeOnlyVettedResponses
    BY <1>1 DEF PagesSeeOnlyVettedResponses
<1> QED
    BY <1>2, GateInvariance, PTL

(* Answers settle once nobody is resolving the host any more.              *)
THEOREM AnswersSettle == GateSpec => CachedAnswersSettle
<1>1. ASSUME GateInv, GateInv', [GateNext]_gateVars, NEW h \in Hosts
      PROVE  /\ cache'[h] # NoAnswer => cache'[h] \in found'[h]
             /\ cache[h] # NoAnswer
                /\ (\A r \in Requests : handler[r].pc = "resolving"
                                           => Checked(handler[r]) # h)
                => /\ cache'[h] = cache[h]
                   /\ \A r \in Requests : handler'[r].pc = "resolving"
                                             => Checked(handler'[r]) # h
    <2>1. cache'[h] # NoAnswer => cache'[h] \in found'[h]
        BY <1>1 DEF GateInv, CacheIsTrue
    <2>2. CASE UNCHANGED gateVars
        BY <2>1, <2>2 DEF gateVars
    <2>3. ASSUME NEW r \in Requests, HandlerStep(r), cache[h] # NoAnswer,
                 \A q \in Requests : handler[q].pc = "resolving"
                                        => Checked(handler[q]) # h
          PROVE  /\ cache'[h] = cache[h]
                 /\ \A q \in Requests : handler'[q].pc = "resolving"
                                           => Checked(handler'[q]) # h
        <3>1. PICK y \in Handler : Moves(r, y) /\ Remembers(r, y)
            BY <1>1, <2>3, StepMoves
        <3>2. cache'[h] = cache[h] /\ (y.pc = "resolving" => Checked(y) # h)
            BY <1>1, <2>3, <3>1 DEF Remembers, GateInv, GateTypeOK
        <3>3. \A q \in Requests : handler'[q] = IF q = r THEN y ELSE handler[q]
            BY <1>1, <3>1 DEF Moves, GateInv, GateTypeOK
        <3> QED
            BY <2>3, <3>2, <3>3
    <2> QED
        BY <1>1, <2>1, <2>2, <2>3 DEF GateNext
<1>2. GateInv /\ GateInv' /\ [GateNext]_gateVars =>
        [\A h \in Hosts :
          /\ cache'[h] # NoAnswer => cache'[h] \in found'[h]
          /\ cache[h] # NoAnswer
             /\ (\A r \in Requests : handler[r].pc = "resolving"
                                        => Checked(handler[r]) # h)
             => /\ cache'[h] = cache[h]
                /\ \A r \in Requests : handler'[r].pc = "resolving"
                                          => Checked(handler'[r]) # h]_gateVars
    BY <1>1
<1> QED
    BY <1>2, GateInvariance, PTL DEF GateSpec, CachedAnswersSettle

-----------------------------------------------------------------------------
(* The list of blocked requests *)

Refused == {r \in Requests : handler[r].pc = "refused" /\ ~handler[r].visit}

Shortened(n) == IF n < BlockedLimit THEN n ELSE BlockedLimit

ListInv == GateInv /\ listed = Shortened(Cardinality(Refused))

LEMMA RefusedIsFinite == IsFiniteSet(Refused) /\ Cardinality(Refused) \in Nat
<1>1. Refused \subseteq Requests /\ IsFiniteSet(Requests)
    BY GateParameters DEF Refused
<1> QED
    BY <1>1, FS_Subset, FS_CardinalityType

(* The list names as many refused requests as it has room for.             *)
THEOREM RefusalsAreAllListed == GateSpec => []RefusalsAreListed
<1>1. GateInit => ListInv
    <2> SUFFICES ASSUME GateInit PROVE listed = Shortened(Cardinality(Refused))
        BY GateBegins DEF ListInv
    <2>1. Refused = {}
        BY DEF GateInit, Refused, Idle
    <2>2. Cardinality(Refused) = 0
        BY <2>1, FS_EmptySet
    <2> QED
        BY <2>2, GateParameters DEF GateInit, Shortened
<1>2. ASSUME ListInv, GateInv', [GateNext]_gateVars
      PROVE  ListInv'
    <2>1. CASE UNCHANGED gateVars
        BY <1>2, <2>1 DEF ListInv, Refused, Shortened, gateVars
    <2>2. ASSUME NEW r \in Requests, HandlerStep(r)
          PROVE  ListInv'
        <3>1. PICK y \in Handler : Moves(r, y)
            BY <1>2, <2>2, StepMoves DEF ListInv
        <3>2. handler[r].pc \in Active
            BY <1>2, <2>2, StepMoves DEF ListInv
        <3>3. \A q \in Requests : handler'[q] = IF q = r THEN y ELSE handler[q]
            BY <1>2, <3>1 DEF ListInv, Moves, GateInv, GateTypeOK
        <3>4. r \notin Refused
            BY <3>2 DEF Refused, Active
        <3>5. /\ listed \in Nat /\ BlockedLimit \in Nat
              /\ listed = Shortened(Cardinality(Refused))
            BY <1>2, GateParameters DEF ListInv, GateInv, GateTypeOK
        <3>6. CASE y.pc = "refused" /\ ~y.visit
            <4>1. Refused' = Refused \cup {r}
                BY <3>3, <3>6 DEF Refused
            <4>2. Cardinality(Refused') = Cardinality(Refused) + 1
                BY <3>4, <4>1, RefusedIsFinite, FS_AddElement
            <4>3. listed' = IF listed < BlockedLimit THEN listed + 1 ELSE listed
                BY <3>1, <3>6 DEF Moves
            <4>4. listed' = Shortened(Cardinality(Refused'))
                BY <3>5, <4>2, <4>3, RefusedIsFinite DEF Shortened
            <4> QED
                BY <1>2, <4>4 DEF ListInv, Shortened
        <3>7. CASE ~(y.pc = "refused" /\ ~y.visit)
            <4>1. Refused' = Refused
                BY <3>3, <3>4, <3>7 DEF Refused
            <4>2. listed' = listed
                BY <3>1, <3>7 DEF Moves
            <4> QED
                BY <1>2, <3>5, <4>1, <4>2 DEF ListInv, Shortened
        <3> QED
            BY <3>6, <3>7
    <2> QED
        BY <1>2, <2>1, <2>2 DEF GateNext
<1>3. ListInv => RefusalsAreListed
    BY DEF ListInv, RefusalsAreListed, Shortened, Refused
<1> QED
    BY <1>1, <1>2, <1>3, GateInvariance, PTL DEF GateSpec

=============================================================================
