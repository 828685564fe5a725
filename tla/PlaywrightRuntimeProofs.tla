---------------------- MODULE PlaywrightRuntimeProofs ----------------------
(* Proofs about one run of the deterministic runtime, for any number of    *)
(* pages, retries and values of the duplicate key.                         *)
EXTENDS PlaywrightRuntime, SequenceTheorems, TLAPS

Told(seq) == {seq[i] : i \in DOMAIN seq}

-----------------------------------------------------------------------------
(* Lemmas about the lists of the report *)

LEMMA Appended ==
    ASSUME NEW S, NEW s \in Seq(S), NEW e \in S
    PROVE  /\ Append(s, e) \in Seq(S) /\ Append(s, e) # << >>
           /\ Len(Append(s, e)) = Len(s) + 1
           /\ DOMAIN Append(s, e) = 1..(Len(s) + 1)
           /\ \A i \in DOMAIN s : Append(s, e)[i] = s[i]
           /\ Append(s, e)[Len(s) + 1] = e
           /\ s \o <<e>> = Append(s, e)
<1>1. /\ Append(s, e) \in Seq(S)
      /\ Len(Append(s, e)) = Len(s) + 1
      /\ \A i \in 1..Len(s) : Append(s, e)[i] = s[i]
      /\ Append(s, e)[Len(s) + 1] = e
    BY AppendProperties
<1>2. s \o <<e>> = Append(s, e)
    BY AppendIsConcat
<1>3. DOMAIN Append(s, e) = 1..(Len(s) + 1) /\ DOMAIN s = 1..Len(s)
    BY <1>1
<1>4. Len(s) \in Nat
    OBVIOUS
<1>5. Append(s, e) # << >>
    BY <1>1, <1>4
<1> QED
    BY <1>1, <1>2, <1>3, <1>5

LEMMA ToldAppended ==
    ASSUME NEW S, NEW s \in Seq(S), NEW e \in S
    PROVE  Told(Append(s, e)) = Told(s) \cup {e}
<1>1. /\ DOMAIN Append(s, e) = 1..(Len(s) + 1) /\ DOMAIN s = 1..Len(s)
      /\ \A i \in DOMAIN s : Append(s, e)[i] = s[i]
      /\ Append(s, e)[Len(s) + 1] = e
    BY Appended
<1>2. Len(s) \in Nat
    OBVIOUS
<1>3. 1..(Len(s) + 1) = (1..Len(s)) \cup {Len(s) + 1}
    BY <1>2
<1> QED
    BY <1>1, <1>3 DEF Told

-----------------------------------------------------------------------------
(* Types *)

TypeInv == RuntimeTypeOK /\ (pc = "visiting" => page <= Pages)

LEMMA FailTypes ==
    ASSUME RuntimeTypeOK, NEW where \in 1..Pages \cup {NoPage},
           NEW kind \in {"visit", "missing", "duplicate", "run", "trace"},
           Fail(where, kind)
    PROVE  /\ failures' \in Seq(Failure) /\ failures' # << >>
           /\ Told(failures') =
                Told(failures) \cup {[page |-> where, kind |-> kind]}
<1>1. [page |-> where, kind |-> kind] \in Failure
    BY DEF Failure
<1> QED
    BY <1>1, Appended, ToldAppended DEF Fail, RuntimeTypeOK

LEMMA TurnTypes ==
    ASSUME TypeInv, pc = "visiting", TurnPage, UNCHANGED <<onMissing, expired, status>>,
           items' \in Seq(Item), failures' \in Seq(Failure), seen' \subseteq Values
    PROVE  TypeInv'
<1>1. page' \in 1..(Pages + 1)
    BY RuntimeParameters DEF TurnPage, TypeInv, RuntimeTypeOK
<1>2. pc' = "at-page" /\ attempt' = attempt /\ loads' = loads
    BY DEF TurnPage
<1>3. onMissing' = onMissing /\ expired' = expired /\ status' = status
    OBVIOUS
<1>4. /\ onMissing' \in Policies /\ attempt' \in 0..(MaxRetries + 1)
      /\ expired' \in BOOLEAN /\ loads' \in [1..Pages -> Nat]
      /\ status' \in {"running", "completed", "completed-with-errors", "failed"}
    BY <1>2, <1>3 DEF TypeInv, RuntimeTypeOK
<1> QED
    BY <1>1, <1>2, <1>4 DEF TypeInv, RuntimeTypeOK, Open

LEMMA RetryTypes ==
    ASSUME TypeInv, pc = "visiting", RetryOrReport, UNCHANGED <<onMissing, expired, status>>
    PROVE  TypeInv'
<1>1. CASE attempt <= MaxRetries /\ ~expired
    BY <1>1, RuntimeParameters DEF RetryOrReport, TypeInv, RuntimeTypeOK
<1>2. CASE ~(attempt <= MaxRetries /\ ~expired)
    <2>1. TurnPage /\ Fail(page, "visit") /\ UNCHANGED <<seen, items>>
        BY <1>2 DEF RetryOrReport
    <2>2. page \in 1..Pages
        BY RuntimeParameters DEF TypeInv, RuntimeTypeOK
    <2>3. failures' \in Seq(Failure)
        BY <2>1, <2>2, FailTypes DEF TypeInv
    <2>4. items' \in Seq(Item) /\ seen' \subseteq Values
        BY <2>1 DEF TypeInv, RuntimeTypeOK
    <2> QED
        BY <2>1, <2>3, <2>4, TurnTypes
<1> QED
    BY <1>1, <1>2

LEMMA KeepTypes ==
    ASSUME TypeInv, pc = "visiting", NEW item \in Item,
           NEW reported \in Seq(Failure), Keep(item, reported),
           UNCHANGED <<onMissing, expired, status>>
    PROVE  TypeInv'
<1>1. TurnPage
    BY DEF Keep
<1>2. CASE item.value \in seen
    <2> DEFINE f == [page |-> page, kind |-> "duplicate"]
    <2>1. f \in Failure
        BY RuntimeParameters DEF Failure, TypeInv, RuntimeTypeOK
    <2>2. failures' = reported \o <<f>> /\ UNCHANGED <<seen, items>>
        BY <1>2 DEF Keep
    <2> HIDE DEF f
    <2>3. failures' \in Seq(Failure)
        BY <2>1, <2>2, Appended
    <2>4. items' \in Seq(Item) /\ seen' \subseteq Values
        BY <2>2 DEF TypeInv, RuntimeTypeOK
    <2> QED
        BY <1>1, <2>3, <2>4, TurnTypes
<1>3. CASE item.value \notin seen
    <2>1. items \in Seq(Item) /\ seen \subseteq Values
        BY DEF TypeInv, RuntimeTypeOK
    <2>2. /\ items' = Append(items, item) /\ failures' = reported
          /\ seen' = seen \cup ({item.value} \ {NoValue})
        BY <1>3 DEF Keep
    <2>3. items' \in Seq(Item)
        BY <2>1, <2>2, Appended
    <2>4. seen' \subseteq Values
        BY <2>1, <2>2 DEF Item
    <2> QED
        BY <1>1, <2>2, <2>3, <2>4, TurnTypes
<1> QED
    BY <1>2, <1>3

LEMMA ExtractTypes ==
    ASSUME TypeInv, NEW value \in Values \cup {NoValue}, NEW whole \in BOOLEAN,
           VisitExtracts(value, whole), UNCHANGED onMissing
    PROVE  TypeInv'
<1> DEFINE item == [page |-> page, value |-> value, whole |-> whole]
<1>1. /\ pc = "visiting" /\ UNCHANGED <<onMissing, expired, status>>
      /\ item \in Item /\ [page |-> page, kind |-> "missing"] \in Failure
    BY RuntimeParameters DEF VisitExtracts, TypeInv, RuntimeTypeOK, Item, Failure
<1>2. /\ failures \in Seq(Failure)
      /\ failures \o Missing(page) \in Seq(Failure)
    BY <1>1, Appended DEF Missing, TypeInv, RuntimeTypeOK
<1> HIDE DEF item
<1>3. CASE Keep(item, failures) \/ Keep(item, failures \o Missing(page))
    BY <1>1, <1>2, <1>3, KeepTypes
<1>4. CASE RetryOrReport
    BY <1>1, <1>4, RetryTypes
<1>5. CASE /\ failures' = failures \o Missing(page)
           /\ UNCHANGED <<seen, items>>
           /\ TurnPage
    <2>1. items' \in Seq(Item) /\ seen' \subseteq Values
        BY <1>5 DEF TypeInv, RuntimeTypeOK
    <2> QED
        BY <1>1, <1>2, <1>5, <2>1, TurnTypes
<1> QED
    BY <1>3, <1>4, <1>5 DEF VisitExtracts, item

LEMMA TypeStep == TypeInv /\ [RuntimeNext]_runVars => TypeInv'
<1> SUFFICES ASSUME TypeInv, [RuntimeNext]_runVars PROVE TypeInv'
    OBVIOUS
<1> USE DEF TypeInv, RuntimeTypeOK, reportVars, Open
<1>1. CASE DeadlinePasses \/ UNCHANGED runVars
    BY <1>1 DEF DeadlinePasses, runVars
<1>2. CASE RunStep
    <2>0. UNCHANGED onMissing
        BY <1>2 DEF RunStep
    <2>1. CASE BeginVisit
        BY <2>0, <2>1, RuntimeParameters DEF BeginVisit
    <2>2. CASE NoPagesLeft
        BY <2>0, <2>2 DEF NoPagesLeft
    <2>3. CASE TimeOut \/ VisitRaises
        BY <2>0, <2>3, FailTypes DEF TimeOut, VisitRaises
    <2>4. CASE VisitFails
        BY <2>0, <2>4, RetryTypes DEF VisitFails
    <2>5. ASSUME NEW value \in Values \cup {NoValue}, NEW whole \in BOOLEAN,
                 VisitExtracts(value, whole)
          PROVE  TypeInv'
        BY <2>0, <2>5, ExtractTypes
    <2>6. ASSUME NEW works \in BOOLEAN,
                 Launch(works) \/ Close(works) \/ Finish(works)
          PROVE  TypeInv'
        BY <2>0, <2>6 DEF Launch, Close, Finish
    <2>7. ASSUME NEW works \in BOOLEAN,
                 StartTrace(works) \/ SetUp(works) \/ StopTrace(works)
          PROVE  TypeInv'
        <3>1. failures' \in Seq(Failure)
            BY <2>7, FailTypes DEF StartTrace, SetUp, StopTrace
        <3> QED
            BY <2>0, <2>7, <3>1 DEF StartTrace, SetUp, StopTrace
    <2> QED
        BY <1>2, <2>1, <2>2, <2>3, <2>4, <2>5, <2>6, <2>7 DEF RunStep
<1> QED
    BY <1>1, <1>2 DEF RuntimeNext

LEMMA TypeStarts == RuntimeInit => TypeInv
<1> SUFFICES ASSUME RuntimeInit PROVE TypeInv
    OBVIOUS
<1>1. page \in 1..(Pages + 1) /\ attempt \in 0..(MaxRetries + 1)
    BY RuntimeParameters DEF RuntimeInit
<1>2. loads \in [1..Pages -> Nat] /\ expired \in BOOLEAN /\ seen \subseteq Values
    BY DEF RuntimeInit
<1>3. items \in Seq(Item) /\ failures \in Seq(Failure)
    BY DEF RuntimeInit
<1> QED
    BY <1>1, <1>2, <1>3 DEF RuntimeInit, TypeInv, RuntimeTypeOK

LEMMA TypeInvariance == RuntimeSpec => []TypeInv
BY TypeStarts, TypeStep, PTL DEF RuntimeSpec

(* The run is type correct.                                                *)
THEOREM RuntimeTypeCorrect == RuntimeSpec => []RuntimeTypeOK
<1>1. TypeInv => RuntimeTypeOK
    BY DEF TypeInv
<1> QED
    BY <1>1, TypeInvariance, PTL

-----------------------------------------------------------------------------
(* What the report says of the pages that were passed by *)

PagesHandled ==
    \A p \in 1..Pages :
        p < page => \/ \E i \in DOMAIN items : items[i].page = p
                   \/ \E f \in Told(failures) : f.page = p

ItemsInOrder ==
    /\ \A i \in DOMAIN items : items[i].page < page
    /\ \A i, j \in DOMAIN items : i < j => items[i].page < items[j].page

KeysRemembered ==
    /\ \A i \in DOMAIN items : items[i].value \in seen \cup {NoValue}
    /\ \A i, j \in DOMAIN items :
          i < j /\ items[i].value = items[j].value => items[i].value = NoValue

GapsReported ==
    \A i \in DOMAIN items : ~items[i].whole =>
        /\ onMissing = "include-null-and-report"
        /\ [page |-> items[i].page, kind |-> "missing"] \in Told(failures)

CleanIsWhole ==
    failures = << >> =>
        /\ Len(items) = page - 1
        /\ \A i \in DOMAIN items : items[i].page = i /\ items[i].whole

PageInv == PagesHandled /\ ItemsInOrder /\ KeysRemembered /\ GapsReported
               /\ CleanIsWhole

FailuresGrow ==
    /\ Told(failures) \subseteq Told(failures')
    /\ failures' = << >> => failures = << >>

(* A step that leaves the page in hand and the items alone.                *)
LEMMA SamePage ==
    ASSUME PageInv, FailuresGrow, UNCHANGED <<onMissing, page, seen, items>>
    PROVE  PageInv'
<1> USE DEF FailuresGrow
<1>1. PagesHandled'
    BY DEF PageInv, PagesHandled
<1>2. ItemsInOrder' /\ KeysRemembered'
    BY DEF PageInv, ItemsInOrder, KeysRemembered
<1>3. GapsReported'
    BY DEF PageInv, GapsReported
<1>4. CleanIsWhole'
    BY DEF PageInv, CleanIsWhole
<1> QED
    BY <1>1, <1>2, <1>3, <1>4 DEF PageInv

LEMMA ItemTypes ==
    ASSUME TypeInv
    PROVE  /\ page \in Int /\ items \in Seq(Item) /\ Len(items) \in Nat
           /\ DOMAIN items = 1..Len(items)
           /\ \A i \in DOMAIN items : items[i] \in Item /\ items[i].page \in Int
<1>1. items \in Seq(Item) /\ page \in Int
    BY RuntimeParameters DEF TypeInv, RuntimeTypeOK
<1>2. Len(items) \in Nat /\ DOMAIN items = 1..Len(items)
    BY <1>1
<1>3. \A i \in DOMAIN items : items[i] \in Item
    BY <1>1
<1> QED
    BY <1>1, <1>2, <1>3, RuntimeParameters DEF Item

(* A page is passed by with a failure of its own.                          *)
LEMMA PageReported ==
    ASSUME TypeInv, PageInv, FailuresGrow, page' = page + 1,
           UNCHANGED <<onMissing, seen, items>>,
           \E f \in Told(failures') : f.page = page,
           failures' # << >>
    PROVE  PageInv'
<1> USE DEF FailuresGrow
<1>0. page \in Int /\ \A i \in DOMAIN items : items[i].page \in Int
    BY ItemTypes
<1>1. PagesHandled'
    <2> SUFFICES ASSUME NEW p \in 1..Pages, p < page + 1
                 PROVE  \/ \E i \in DOMAIN items : items[i].page = p
                        \/ \E f \in Told(failures') : f.page = p
        BY DEF PagesHandled
    <2>1. p = page \/ p < page
        BY <1>0
    <2> QED
        BY <2>1 DEF PageInv, PagesHandled
<1>2. ItemsInOrder'
    BY <1>0 DEF PageInv, ItemsInOrder
<1>3. KeysRemembered'
    BY DEF PageInv, KeysRemembered
<1>4. GapsReported'
    BY DEF PageInv, GapsReported
<1>5. CleanIsWhole'
    BY DEF CleanIsWhole
<1> QED
    BY <1>1, <1>2, <1>3, <1>4, <1>5 DEF PageInv

(* A page is passed by with an item.                                       *)
LEMMA PageGathered ==
    ASSUME TypeInv, PageInv, FailuresGrow, page' = page + 1, UNCHANGED onMissing,
           NEW item \in Item, item.page = page, item.value \notin seen,
           items' = Append(items, item),
           seen' = seen \cup ({item.value} \ {NoValue}),
           item.whole \/ /\ onMissing = "include-null-and-report"
                         /\ [page |-> page, kind |-> "missing"] \in Told(failures')
                         /\ failures' # << >>
    PROVE  PageInv'
<1> DEFINE n == Len(items)
<1>0. /\ page \in Int /\ n \in Nat /\ DOMAIN items = 1..n
      /\ \A i \in DOMAIN items : items[i].page \in Int
      /\ items \in Seq(Item)
    BY ItemTypes
<1>1. /\ DOMAIN items' = 1..(n + 1) /\ Len(items') = n + 1
      /\ \A i \in 1..n : items'[i] = items[i]
      /\ items'[n + 1] = item
    BY <1>0, Appended
<1> HIDE DEF n
<1>2. \A i \in DOMAIN items' : i \in 1..n \/ i = n + 1
    BY <1>0, <1>1
<1>3. \A i, j \in DOMAIN items' : i < j => i \in 1..n /\ (j \in 1..n \/ j = n + 1)
    BY <1>0, <1>1
<1>4. PagesHandled'
    <2> SUFFICES ASSUME NEW p \in 1..Pages, p < page + 1
                 PROVE  \/ \E i \in DOMAIN items' : items'[i].page = p
                        \/ \E f \in Told(failures') : f.page = p
        BY DEF PagesHandled
    <2>1. CASE p = page
        BY <1>0, <1>1, <2>1
    <2>2. CASE p < page
        <3>1. \/ \E i \in DOMAIN items : items[i].page = p
              \/ \E f \in Told(failures) : f.page = p
            BY <2>2 DEF PageInv, PagesHandled
        <3>2. \A i \in DOMAIN items : i \in DOMAIN items' /\ items'[i] = items[i]
            BY <1>0, <1>1
        <3> QED
            BY <3>1, <3>2 DEF FailuresGrow
    <2> QED
        BY <1>0, <2>1, <2>2
<1>5. ItemsInOrder'
    <2>1. \A i \in 1..n : items[i].page < page
        BY <1>0 DEF PageInv, ItemsInOrder
    <2>2. \A i \in DOMAIN items' : items'[i].page < page'
        BY <1>0, <1>1, <1>2, <2>1
    <2>3. \A i, j \in DOMAIN items' : i < j => items'[i].page < items'[j].page
        BY <1>0, <1>1, <1>3, <2>1 DEF PageInv, ItemsInOrder
    <2> QED
        BY <2>2, <2>3 DEF ItemsInOrder
<1>6. KeysRemembered'
    <2>1. \A i \in 1..n : items[i].value \in seen \cup {NoValue}
        BY <1>0 DEF PageInv, KeysRemembered
    <2>2. \A i \in DOMAIN items' : items'[i].value \in seen' \cup {NoValue}
        BY <1>1, <1>2, <2>1
    <2>3. \A i, j \in DOMAIN items' :
             i < j /\ items'[i].value = items'[j].value => items'[i].value = NoValue
        BY <1>0, <1>1, <1>3, <2>1 DEF PageInv, KeysRemembered
    <2> QED
        BY <2>2, <2>3 DEF KeysRemembered
<1>7. GapsReported'
    <2> SUFFICES ASSUME NEW i \in DOMAIN items', ~items'[i].whole
                 PROVE  /\ onMissing = "include-null-and-report"
                        /\ [page |-> items'[i].page, kind |-> "missing"]
                               \in Told(failures')
        BY DEF GapsReported
    <2>1. CASE i \in 1..n
        BY <1>0, <1>1, <2>1 DEF PageInv, GapsReported, FailuresGrow
    <2>2. CASE i = n + 1
        BY <1>1, <2>2
    <2> QED
        BY <1>2, <2>1, <2>2
<1>8. CleanIsWhole'
    <2> SUFFICES ASSUME failures' = << >>
                 PROVE  /\ Len(items') = page' - 1
                        /\ \A i \in DOMAIN items' :
                                items'[i].page = i /\ items'[i].whole
        BY DEF CleanIsWhole
    <2>1. /\ n = page - 1 /\ item.whole
          /\ \A i \in DOMAIN items : items[i].page = i /\ items[i].whole
        BY DEF PageInv, CleanIsWhole, FailuresGrow, n
    <2>2. n + 1 = page
        BY <1>0, <2>1
    <2> QED
        BY <1>0, <1>1, <1>2, <2>1, <2>2
<1> QED
    BY <1>4, <1>5, <1>6, <1>7, <1>8 DEF PageInv

-----------------------------------------------------------------------------
(* How each step leaves the page in hand *)

LEMMA FailGrows ==
    ASSUME RuntimeTypeOK, NEW where \in 1..Pages \cup {NoPage},
           NEW kind \in {"visit", "missing", "duplicate", "run", "trace"},
           Fail(where, kind)
    PROVE  /\ FailuresGrow /\ failures' # << >>
           /\ [page |-> where, kind |-> kind] \in Told(failures')
BY FailTypes DEF FailuresGrow

LEMMA RetryPages ==
    ASSUME TypeInv, PageInv, pc = "visiting", RetryOrReport, UNCHANGED onMissing
    PROVE  PageInv'
<1>1. CASE attempt <= MaxRetries /\ ~expired
    <2>1. UNCHANGED <<onMissing, page, seen, items, failures>>
        BY <1>1 DEF RetryOrReport
    <2> QED
        BY <2>1, SamePage DEF FailuresGrow
<1>2. CASE ~(attempt <= MaxRetries /\ ~expired)
    <2>1. TurnPage /\ Fail(page, "visit") /\ UNCHANGED <<seen, items>>
        BY <1>2 DEF RetryOrReport
    <2>2. page \in 1..Pages
        BY RuntimeParameters DEF TypeInv, RuntimeTypeOK
    <2>3. /\ FailuresGrow /\ failures' # << >>
          /\ [page |-> page, kind |-> "visit"] \in Told(failures')
        BY <2>1, <2>2, FailGrows DEF TypeInv
    <2>4. \E f \in Told(failures') : f.page = page
        BY <2>3
    <2> QED
        BY <2>1, <2>3, <2>4, PageReported DEF TurnPage
<1> QED
    BY <1>1, <1>2

LEMMA KeepPages ==
    ASSUME TypeInv, PageInv, pc = "visiting", UNCHANGED onMissing,
           NEW item \in Item, item.page = page,
           NEW reported \in Seq(Failure), Keep(item, reported),
           Told(failures) \subseteq Told(reported),
           reported = << >> => failures = << >>,
           item.whole \/ /\ onMissing = "include-null-and-report"
                         /\ [page |-> page, kind |-> "missing"] \in Told(reported)
                         /\ reported # << >>
    PROVE  PageInv'
<1>1. page' = page + 1
    BY DEF Keep, TurnPage
<1>2. CASE item.value \in seen
    <2> DEFINE f == [page |-> page, kind |-> "duplicate"]
    <2>1. f \in Failure /\ f.page = page
        BY RuntimeParameters DEF Failure, TypeInv, RuntimeTypeOK
    <2>2. failures' = reported \o <<f>> /\ UNCHANGED <<seen, items>>
        BY <1>2 DEF Keep
    <2> HIDE DEF f
    <2>3. failures' = Append(reported, f) /\ failures' # << >>
        BY <2>1, <2>2, Appended
    <2>4. Told(failures') = Told(reported) \cup {f}
        BY <2>1, <2>3, ToldAppended
    <2>5. FailuresGrow /\ \E g \in Told(failures') : g.page = page
        BY <2>1, <2>3, <2>4 DEF FailuresGrow
    <2> QED
        BY <1>1, <2>2, <2>3, <2>5, PageReported
<1>3. CASE item.value \notin seen
    <2>1. /\ items' = Append(items, item) /\ failures' = reported
          /\ seen' = seen \cup ({item.value} \ {NoValue})
        BY <1>3 DEF Keep
    <2>2. FailuresGrow
        BY <2>1 DEF FailuresGrow
    <2> QED
        BY <1>1, <1>3, <2>1, <2>2, PageGathered
<1> QED
    BY <1>2, <1>3

LEMMA ExtractPages ==
    ASSUME TypeInv, PageInv, NEW value \in Values \cup {NoValue},
           NEW whole \in BOOLEAN, VisitExtracts(value, whole), UNCHANGED onMissing
    PROVE  PageInv'
<1> DEFINE item == [page |-> page, value |-> value, whole |-> whole]
           gap == [page |-> page, kind |-> "missing"]
<1>1. /\ pc = "visiting" /\ page \in 1..Pages
      /\ item \in Item /\ item.page = page /\ item.whole = whole
      /\ gap \in Failure /\ gap.page = page
    BY RuntimeParameters DEF VisitExtracts, TypeInv, RuntimeTypeOK, Item, Failure
<1>2. /\ failures \in Seq(Failure)
      /\ failures \o Missing(page) = Append(failures, gap)
      /\ Append(failures, gap) \in Seq(Failure) /\ Append(failures, gap) # << >>
    BY <1>1, Appended DEF Missing, TypeInv, RuntimeTypeOK
<1>3. Told(Append(failures, gap)) = Told(failures) \cup {gap}
    BY <1>1, <1>2, ToldAppended
<1> HIDE DEF item
<1>4. CASE whole /\ Keep(item, failures)
    BY <1>1, <1>2, <1>4, KeepPages
<1>5. CASE /\ ~whole /\ onMissing = "include-null-and-report"
           /\ Keep(item, failures \o Missing(page))
    BY <1>1, <1>2, <1>3, <1>5, KeepPages
<1>6. CASE RetryOrReport
    BY <1>1, <1>6, RetryPages
<1>7. CASE /\ failures' = failures \o Missing(page)
           /\ UNCHANGED <<seen, items>>
           /\ TurnPage
    <2>1. failures' # << >> /\ FailuresGrow
        BY <1>2, <1>3, <1>7 DEF FailuresGrow
    <2>2. \E f \in Told(failures') : f.page = page
        BY <1>1, <1>2, <1>3, <1>7
    <2> QED
        BY <1>7, <2>1, <2>2, PageReported DEF TurnPage
<1> QED
    BY <1>4, <1>5, <1>6, <1>7 DEF VisitExtracts, item

-----------------------------------------------------------------------------
(* The end of the run *)

EndInv ==
    /\ pc \in {"tracing", "closing", "finishing", "returned"} =>
          page > Pages \/ \E f \in Told(failures) : f.kind = "run"
    /\ pc = "returned" =>
          status = IF failures # << >> /\ items = << >> THEN "failed"
                   ELSE IF failures # << >> THEN "completed-with-errors"
                   ELSE "completed"

RunInv == TypeInv /\ PageInv /\ EndInv

(* A visit stays at its page or goes back to the head of the loop.         *)
LEMMA VisitsStay ==
    ASSUME TypeInv, VisitFails \/ \E value \in Values \cup {NoValue},
                                    whole \in BOOLEAN : VisitExtracts(value, whole)
    PROVE  pc' \in {"visiting", "at-page"}
BY DEF VisitFails, VisitExtracts, RetryOrReport, Keep, TurnPage

LEMMA FailureExplains ==
    ASSUME RuntimeTypeOK, Fail(NoPage, "run"), page' = page,
           pc' \in {"tracing", "closing"}
    PROVE  EndInv'
<1>1. [page |-> NoPage, kind |-> "run"] \in Told(failures')
    BY FailGrows
<1>2. \E f \in Told(failures') : f.kind = "run"
    BY <1>1
<1> QED
    BY <1>2 DEF EndInv

LEMMA RunStepKeeps ==
    ASSUME RunInv, [RuntimeNext]_runVars
    PROVE  PageInv' /\ EndInv'
<1>0. TypeInv /\ PageInv /\ EndInv /\ RuntimeTypeOK
    BY DEF RunInv, TypeInv
<1>1. CASE DeadlinePasses \/ UNCHANGED runVars
    <2>1. UNCHANGED <<onMissing, pc, page, seen, items, failures, status>>
        BY <1>1 DEF DeadlinePasses, runVars, reportVars
    <2>2. PageInv'
        BY <1>0, <2>1, SamePage DEF FailuresGrow
    <2> QED
        BY <1>0, <2>1, <2>2 DEF EndInv
<1>2. CASE RunStep
    <2>0. UNCHANGED onMissing
        BY <1>2 DEF RunStep
    <2>1. CASE BeginVisit \/ NoPagesLeft
        <3>1. UNCHANGED <<page, seen, items, failures>>
            BY <2>1 DEF BeginVisit, NoPagesLeft, reportVars
        <3>2. PageInv'
            BY <1>0, <2>0, <3>1, SamePage DEF FailuresGrow
        <3> QED
            BY <2>1, <3>1, <3>2 DEF BeginVisit, NoPagesLeft, EndInv
    <2>2. CASE TimeOut \/ VisitRaises
        <3>1. /\ UNCHANGED <<page, seen, items>> /\ Fail(NoPage, "run")
              /\ pc' = "tracing"
            BY <2>2 DEF TimeOut, VisitRaises
        <3>2. PageInv'
            BY <1>0, <2>0, <3>1, FailGrows, SamePage
        <3> QED
            BY <1>0, <3>1, <3>2, FailureExplains
    <2>3. CASE VisitFails
        <3>1. PageInv'
            BY <1>0, <2>0, <2>3, RetryPages DEF VisitFails
        <3> QED
            BY <1>0, <2>3, <3>1, VisitsStay DEF EndInv
    <2>4. ASSUME NEW value \in Values \cup {NoValue}, NEW whole \in BOOLEAN,
                 VisitExtracts(value, whole)
          PROVE  PageInv' /\ EndInv'
        <3>1. PageInv'
            BY <1>0, <2>0, <2>4, ExtractPages
        <3> QED
            BY <1>0, <2>4, <3>1, VisitsStay DEF EndInv
    <2>5. ASSUME NEW works \in BOOLEAN,
                 Launch(works) \/ Close(works) \/ Finish(works)
          PROVE  PageInv' /\ EndInv'
        <3>1. UNCHANGED <<page, seen, items, failures>>
            BY <2>5 DEF Launch, Close, Finish, reportVars
        <3>2. PageInv'
            BY <1>0, <2>0, <3>1, SamePage DEF FailuresGrow
        <3> QED
            BY <1>0, <2>5, <3>1, <3>2 DEF Launch, Close, Finish, EndInv
    <2>6. ASSUME NEW works \in BOOLEAN, StartTrace(works) \/ SetUp(works)
          PROVE  PageInv' /\ EndInv'
        <3>1. CASE works
            <4>1. UNCHANGED <<page, seen, items, failures>>
                  /\ pc' \in {"setting-up", "at-page"}
                BY <2>6, <3>1 DEF StartTrace, SetUp
            <4>2. PageInv'
                BY <1>0, <2>0, <4>1, SamePage DEF FailuresGrow
            <4> QED
                BY <4>1, <4>2 DEF EndInv
        <3>2. CASE ~works
            <4>1. /\ UNCHANGED <<page, seen, items>> /\ Fail(NoPage, "run")
                  /\ pc' \in {"tracing", "closing"}
                BY <2>6, <3>2 DEF StartTrace, SetUp
            <4>2. PageInv'
                BY <1>0, <2>0, <4>1, FailGrows, SamePage
            <4> QED
                BY <1>0, <4>1, <4>2, FailureExplains
        <3> QED
            BY <3>1, <3>2
    <2>7. ASSUME NEW works \in BOOLEAN, StopTrace(works)
          PROVE  PageInv' /\ EndInv'
        <3>1. /\ UNCHANGED <<page, seen, items>>
              /\ pc = "tracing" /\ pc' = "closing"
            BY <2>7 DEF StopTrace
        <3>2. FailuresGrow
            BY <1>0, <2>7, FailGrows DEF StopTrace, FailuresGrow
        <3>3. PageInv'
            BY <1>0, <2>0, <3>1, <3>2, SamePage
        <3> QED
            BY <1>0, <3>1, <3>2, <3>3 DEF EndInv, FailuresGrow
    <2> QED
        BY <1>2, <2>1, <2>2, <2>3, <2>4, <2>5, <2>6, <2>7 DEF RunStep
<1> QED
    BY <1>1, <1>2 DEF RuntimeNext

(* What the report owes to the pages that were passed by is kept by every  *)
(* step, and the end of the run is explained.                              *)
THEOREM RunInvariance == RuntimeSpec => []RunInv
<1>1. RuntimeInit => RunInv
    <2> SUFFICES ASSUME RuntimeInit PROVE RunInv
        OBVIOUS
    <2>1. page = 1 /\ items = << >> /\ failures = << >> /\ pc = "launching"
        BY DEF RuntimeInit
    <2>2. DOMAIN items = {} /\ Len(items) = 0
        BY <2>1
    <2>3. PageInv /\ EndInv
        BY <2>1, <2>2, RuntimeParameters
        DEF PageInv, PagesHandled, ItemsInOrder, KeysRemembered, GapsReported,
            CleanIsWhole, EndInv
    <2> QED
        BY <2>3, TypeStarts DEF RunInv
<1>2. RunInv /\ [RuntimeNext]_runVars => RunInv'
    BY RunStepKeeps, TypeStep DEF RunInv
<1> QED
    BY <1>1, <1>2, PTL DEF RuntimeSpec

-----------------------------------------------------------------------------
(* What follows *)

LEMMA ToldOf == \A f \in Told(failures) : \E i \in DOMAIN failures : failures[i] = f
BY DEF Told

(* Every page that was passed by has an item or a failure.                 *)
THEOREM PagesAreReported == RuntimeSpec => []NoPageIsLost
<1>1. RunInv => NoPageIsLost
    <2> SUFFICES ASSUME RunInv, NEW p \in 1..Pages
                 PROVE  /\ p < page => Gathered(p) \/ Reported(p)
                        /\ p >= page /\ pc = "returned" => CutShort
        BY DEF NoPageIsLost
    <2>1. p < page => Gathered(p) \/ Reported(p)
        BY ToldOf DEF RunInv, PageInv, PagesHandled, Gathered, Reported
    <2>2. page \in Int /\ p \in Int /\ Pages \in Int /\ p <= Pages
        BY ItemTypes, RuntimeParameters DEF RunInv
    <2>3. ASSUME p >= page, pc = "returned" PROVE CutShort
        <3>1. ~(page > Pages)
            BY <2>2, <2>3
        <3> QED
            BY <2>3, <3>1, ToldOf DEF RunInv, EndInv, CutShort
    <2> QED
        BY <2>1, <2>3
<1> QED
    BY <1>1, RunInvariance, PTL

(* No key twice, no page twice, and no gap that was not asked for.         *)
THEOREM ItemsKeepTheContract == RuntimeSpec => []ItemsAreSound
<1>1. RunInv => ItemsAreSound
    <2> SUFFICES ASSUME RunInv, NEW i \in DOMAIN items, NEW j \in DOMAIN items
                 PROVE  /\ i # j => /\ items[i].page # items[j].page
                                    /\ items[i].value = items[j].value
                                          => items[i].value = NoValue
                        /\ ~items[i].whole =>
                              /\ onMissing = "include-null-and-report"
                              /\ \E k \in DOMAIN failures :
                                    failures[k] = [page |-> items[i].page,
                                                   kind |-> "missing"]
        BY DEF ItemsAreSound
    <2>1. /\ DOMAIN items = 1..Len(items) /\ Len(items) \in Nat
          /\ \A k \in DOMAIN items : items[k].page \in Int
        BY ItemTypes DEF RunInv
    <2>2. i # j => i < j \/ j < i
        BY <2>1
    <2>3. i # j => items[i].page # items[j].page
        BY <2>1, <2>2 DEF RunInv, PageInv, ItemsInOrder
    <2>4. i # j /\ items[i].value = items[j].value => items[i].value = NoValue
        BY <2>2 DEF RunInv, PageInv, KeysRemembered
    <2>5. ~items[i].whole =>
              /\ onMissing = "include-null-and-report"
              /\ \E k \in DOMAIN failures :
                    failures[k] = [page |-> items[i].page, kind |-> "missing"]
        BY ToldOf DEF RunInv, PageInv, GapsReported
    <2> QED
        BY <2>3, <2>4, <2>5
<1> QED
    BY <1>1, RunInvariance, PTL

(* A completed run shows one whole item of every page, in order.           *)
THEOREM StatusTells == RuntimeSpec => []StatusIsHonest
<1>1. RunInv => StatusIsHonest
    <2> SUFFICES ASSUME RunInv, pc = "returned"
                 PROVE  /\ status = "completed" =>
                              /\ Len(items) = Pages
                              /\ \A i \in DOMAIN items :
                                    items[i].page = i /\ items[i].whole
                        /\ status = "failed" <=> items = << >>
        BY DEF StatusIsHonest
    <2>1. ASSUME failures = << >>
          PROVE  /\ Len(items) = Pages
                 /\ \A i \in DOMAIN items : items[i].page = i /\ items[i].whole
        <3>1. Told(failures) = {}
            BY <2>1 DEF Told
        <3>2. page > Pages
            BY <3>1 DEF RunInv, EndInv
        <3>3. page \in 1..(Pages + 1)
            BY DEF RunInv, TypeInv, RuntimeTypeOK
        <3>4. page - 1 = Pages
            BY <3>2, <3>3, RuntimeParameters
        <3> QED
            BY <2>1, <3>4 DEF RunInv, PageInv, CleanIsWhole
    <2>2. items = << >> => failures # << >>
        <3> SUFFICES ASSUME items = << >>, failures = << >> PROVE FALSE
            OBVIOUS
        <3>1. Len(items) = 0
            OBVIOUS
        <3> QED
            BY <2>1, <3>1, RuntimeParameters
    <2>3. status = IF failures # << >> /\ items = << >> THEN "failed"
                   ELSE IF failures # << >> THEN "completed-with-errors"
                   ELSE "completed"
        BY DEF RunInv, EndInv
    <2>4. status = "completed" => failures = << >>
        BY <2>3
    <2>5. status = "failed" <=> items = << >>
        BY <2>2, <2>3
    <2> QED
        BY <2>1, <2>4, <2>5
<1> QED
    BY <1>1, RunInvariance, PTL

-----------------------------------------------------------------------------
(* The budget of visits *)

VisitsCounted ==
    /\ \A p \in 1..Pages : p > page => loads[p] = 0
    /\ pc = "visiting" => loads[page] = attempt
    /\ pc \in {"launching", "untraced", "setting-up", "at-page"}
          /\ page <= Pages => loads[page] = 0

Budgeted ==
    \A p \in 1..Pages : loads'[p] # loads[p] =>
        /\ ~expired
        /\ loads'[p] <= MaxRetries + 1
        /\ \A q \in 1..Pages : q > p => loads[q] = 0

LEMMA LoadsOf ==
    ASSUME TypeInv, NEW k \in 1..Pages, loads' = [loads EXCEPT ![k] = @ + 1]
    PROVE  \A p \in 1..Pages :
              loads'[p] = IF p = k THEN loads[k] + 1 ELSE loads[p]
BY DEF TypeInv, RuntimeTypeOK

LEMMA TurnVisits ==
    ASSUME TypeInv, VisitsCounted, TurnPage
    PROVE  VisitsCounted' /\ UNCHANGED loads
<1>1. page \in Int /\ Pages \in Int /\ page >= 1
    BY RuntimeParameters DEF TypeInv, RuntimeTypeOK
<1>2. pc' = "at-page" /\ page' = page + 1 /\ UNCHANGED loads
    BY DEF TurnPage
<1>3. \A p \in 1..Pages : p > page' => p > page
    BY <1>1, <1>2
<1>4. page' <= Pages => page' \in 1..Pages /\ page' > page
    BY <1>1, <1>2
<1> QED
    BY <1>2, <1>3, <1>4 DEF VisitsCounted

LEMMA RetryVisits ==
    ASSUME TypeInv, VisitsCounted, pc = "visiting", RetryOrReport
    PROVE  VisitsCounted' /\ Budgeted
<1>1. CASE attempt <= MaxRetries /\ ~expired
    <2>1. /\ attempt' = attempt + 1 /\ UNCHANGED <<pc, page>>
          /\ loads' = [loads EXCEPT ![page] = @ + 1]
        BY <1>1 DEF RetryOrReport
    <2>2. page \in 1..Pages /\ attempt \in Int /\ MaxRetries \in Int
        BY RuntimeParameters DEF TypeInv, RuntimeTypeOK
    <2>3. \A p \in 1..Pages :
              loads'[p] = IF p = page THEN attempt + 1 ELSE loads[p]
        BY <2>1, <2>2, LoadsOf DEF VisitsCounted
    <2>4. VisitsCounted'
        BY <2>1, <2>2, <2>3 DEF VisitsCounted
    <2>5. Budgeted
        BY <1>1, <2>2, <2>3 DEF VisitsCounted, Budgeted
    <2> QED
        BY <2>4, <2>5
<1>2. CASE ~(attempt <= MaxRetries /\ ~expired)
    BY <1>2, TurnVisits DEF RetryOrReport, Budgeted
<1> QED
    BY <1>1, <1>2

LEMMA VisitStep ==
    ASSUME TypeInv, VisitsCounted, [RuntimeNext]_runVars
    PROVE  VisitsCounted' /\ Budgeted
<1>1. CASE DeadlinePasses \/ UNCHANGED runVars
    BY <1>1 DEF DeadlinePasses, runVars, reportVars, VisitsCounted, Budgeted
<1>2. CASE BeginVisit
    <2>1. /\ pc' = "visiting" /\ attempt' = 1 /\ page' = page /\ ~expired
          /\ loads' = [loads EXCEPT ![page] = @ + 1]
        BY <1>2 DEF BeginVisit
    <2>2. page \in 1..Pages /\ loads[page] = 0 /\ MaxRetries \in Nat
        BY <1>2, RuntimeParameters DEF BeginVisit, TypeInv, RuntimeTypeOK, VisitsCounted
    <2>3. \A p \in 1..Pages : loads'[p] = IF p = page THEN 1 ELSE loads[p]
        <3>1. \A p \in 1..Pages :
                  loads'[p] = IF p = page THEN loads[page] + 1 ELSE loads[p]
            BY <2>1, <2>2, LoadsOf
        <3>2. loads[page] + 1 = 1
            BY <2>2
        <3> QED
            BY <3>1, <3>2
    <2>4. VisitsCounted'
        BY <2>1, <2>2, <2>3 DEF VisitsCounted
    <2>5. Budgeted
        BY <2>1, <2>2, <2>3 DEF VisitsCounted, Budgeted
    <2> QED
        BY <2>4, <2>5
<1>3. CASE TimeOut \/ NoPagesLeft \/ VisitRaises
    BY <1>3 DEF TimeOut, NoPagesLeft, VisitRaises, VisitsCounted, Budgeted
<1>4. CASE VisitFails
    BY <1>4, RetryVisits DEF VisitFails
<1>5. ASSUME NEW value \in Values \cup {NoValue}, NEW whole \in BOOLEAN,
             VisitExtracts(value, whole)
      PROVE  VisitsCounted' /\ Budgeted
    <2>1. pc = "visiting" /\ (TurnPage \/ RetryOrReport)
        BY <1>5 DEF VisitExtracts, Keep
    <2> QED
        BY <2>1, RetryVisits, TurnVisits DEF Budgeted
<1>6. ASSUME NEW works \in BOOLEAN,
             \/ Launch(works) \/ StartTrace(works) \/ SetUp(works)
             \/ StopTrace(works) \/ Close(works) \/ Finish(works)
      PROVE  VisitsCounted' /\ Budgeted
    BY <1>6 DEF Launch, StartTrace, SetUp, StopTrace, Close, Finish, VisitsCounted,
                Budgeted
<1> QED
    BY <1>1, <1>2, <1>3, <1>4, <1>5, <1>6 DEF RuntimeNext, RunStep

(* No page is visited after the deadline, more often than the task allows, *)
(* or again after a later one.                                             *)
THEOREM VisitsKeepTheBudget == RuntimeSpec => VisitsAreBudgeted
<1>1. RuntimeInit => VisitsCounted
    BY RuntimeParameters DEF RuntimeInit, VisitsCounted
<1>2. TypeInv /\ VisitsCounted /\ [RuntimeNext]_runVars => VisitsCounted'
    BY VisitStep
<1>3. TypeInv /\ VisitsCounted /\ [RuntimeNext]_runVars => [Budgeted]_runVars
    BY VisitStep
<1>4. [][Budgeted]_runVars => VisitsAreBudgeted
    BY DEF Budgeted, VisitsAreBudgeted
<1> QED
    BY <1>1, <1>2, <1>3, <1>4, TypeInvariance, PTL DEF RuntimeSpec

-----------------------------------------------------------------------------
(* Every run is finite *)

(* The steps that the pages from p on can take, at most: a page takes one  *)
(* step to begin its visits and one for each of them.                      *)
Ahead(p) == (Pages + 1 - p) * (MaxRetries + 2)

(* How many steps a run can still take, the passing of the deadline        *)
(* included.                                                               *)
StepsLeft ==
    (IF expired THEN 0 ELSE 1) +
    CASE pc = "launching" -> 7 + Ahead(page)
      [] pc = "untraced" -> 6 + Ahead(page)
      [] pc = "setting-up" -> 5 + Ahead(page)
      [] pc = "at-page" -> 4 + Ahead(page)
      [] pc = "visiting" -> 4 + Ahead(page) - attempt
      [] pc = "tracing" -> 3
      [] pc = "closing" -> 2
      [] pc = "finishing" -> 1
      [] OTHER -> 0

(* Every step of a run, and the deadline, brings it nearer to its end.     *)
RunsShorten == [][StepsLeft' < StepsLeft]_runVars

LEMMA AheadShrinks ==
    ASSUME NEW p \in 1..(Pages + 1)
    PROVE  /\ Ahead(p) \in Nat
           /\ p <= Pages => Ahead(p) = Ahead(p + 1) + MaxRetries + 2
<1> DEFINE k == MaxRetries + 2
           n == Pages + 1 - p
<1>1. n \in Nat /\ k \in Nat /\ Ahead(p) = n * k
    BY RuntimeParameters DEF Ahead
<1>2. n * k \in Nat
    <2> HIDE DEF n, k
    <2> QED
        BY <1>1
<1>3. ASSUME p <= Pages PROVE Ahead(p) = Ahead(p + 1) + MaxRetries + 2
    <2>1. n = (n - 1) + 1 /\ n - 1 \in Nat /\ Ahead(p + 1) = (n - 1) * k
        BY <1>1, <1>3, RuntimeParameters DEF Ahead
    <2>2. n * k = (n - 1) * k + k
        <3> HIDE DEF n, k
        <3> QED
            BY <1>1, <2>1
    <2>3. (n - 1) * k \in Int
        <3> HIDE DEF n, k
        <3> QED
            BY <1>1, <2>1
    <2> QED
        BY <1>1, <2>1, <2>2, <2>3, RuntimeParameters
<1> QED
    BY <1>1, <1>2, <1>3

LEMMA StepsLeftInNat ==
    ASSUME TypeInv
    PROVE  StepsLeft \in Nat
<1>1. /\ page \in 1..(Pages + 1) /\ attempt \in 0..(MaxRetries + 1)
      /\ expired \in BOOLEAN
      /\ pc \in {"setting-up", "untraced", "at-page", "visiting", "tracing", "closing",
                 "launching", "finishing", "returned", "raised"}
      /\ pc = "visiting" => page <= Pages
    BY DEF TypeInv, RuntimeTypeOK, Open
<1>2. Ahead(page) \in Nat
    BY <1>1, AheadShrinks
<1>3. page <= Pages => Ahead(page + 1) \in Nat /\ Ahead(page) = Ahead(page + 1) + MaxRetries + 2
    BY <1>1, AheadShrinks, RuntimeParameters
<1>4. pc = "visiting" => Ahead(page) - attempt \in Nat
    BY <1>1, <1>2, <1>3, RuntimeParameters
<1> QED
    BY <1>1, <1>2, <1>4, RuntimeParameters DEF StepsLeft

(* A page that is given up or done leaves what the later ones can take.    *)
LEMMA TurnShortens ==
    ASSUME TypeInv, pc = "visiting", TurnPage, UNCHANGED expired
    PROVE  StepsLeft' < StepsLeft
<1>1. /\ page \in 1..(Pages + 1) /\ attempt \in 0..(MaxRetries + 1)
      /\ expired \in BOOLEAN /\ page <= Pages
      /\ pc' = "at-page" /\ page' = page + 1
    BY DEF TypeInv, RuntimeTypeOK, TurnPage
<1>2. /\ Ahead(page) \in Nat /\ Ahead(page + 1) \in Nat
      /\ Ahead(page) = Ahead(page + 1) + MaxRetries + 2
    BY <1>1, AheadShrinks, RuntimeParameters
<1>3. StepsLeft = (IF expired THEN 0 ELSE 1) + (4 + Ahead(page) - attempt)
    BY DEF StepsLeft
<1>4. StepsLeft' = (IF expired THEN 0 ELSE 1) + (4 + Ahead(page + 1))
    BY <1>1 DEF StepsLeft, Ahead
<1> QED
    BY <1>1, <1>2, <1>3, <1>4, RuntimeParameters

(* A retry is one of the visits the page had left.                         *)
LEMMA RetryShortens ==
    ASSUME TypeInv, pc = "visiting", RetryOrReport, UNCHANGED expired
    PROVE  StepsLeft' < StepsLeft
<1>1. CASE attempt <= MaxRetries /\ ~expired
    <2>1. attempt' = attempt + 1 /\ pc' = "visiting" /\ page' = page
        BY <1>1 DEF RetryOrReport
    <2>2. /\ page \in 1..(Pages + 1) /\ attempt \in Nat /\ expired \in BOOLEAN
        BY RuntimeParameters DEF TypeInv, RuntimeTypeOK
    <2>3. Ahead(page) \in Nat
        BY <2>2, AheadShrinks
    <2>4. /\ StepsLeft = (IF expired THEN 0 ELSE 1) + (4 + Ahead(page) - attempt)
          /\ StepsLeft' = (IF expired THEN 0 ELSE 1) + (4 + Ahead(page) - (attempt + 1))
        BY <2>1 DEF StepsLeft, Ahead
    <2> QED
        BY <2>2, <2>3, <2>4
<1>2. CASE ~(attempt <= MaxRetries /\ ~expired)
    BY <1>2, TurnShortens DEF RetryOrReport
<1> QED
    BY <1>1, <1>2

LEMMA StepShortens ==
    ASSUME TypeInv, RuntimeNext
    PROVE  StepsLeft' < StepsLeft
<1>1. /\ page \in 1..(Pages + 1) /\ attempt \in 0..(MaxRetries + 1)
      /\ expired \in BOOLEAN
      /\ pc = "visiting" => page <= Pages
    BY DEF TypeInv, RuntimeTypeOK
<1>2. Ahead(page) \in Nat
    BY <1>1, AheadShrinks
<1>3. pc = "visiting" => Ahead(page) > attempt
    BY <1>1, <1>2, AheadShrinks, RuntimeParameters
<1>4. page' = page => Ahead(page)' = Ahead(page)
    BY DEF Ahead
<1>5. CASE DeadlinePasses
    <2>1. ~expired /\ expired' = TRUE /\ pc' = pc /\ page' = page /\ attempt' = attempt
        BY <1>5 DEF DeadlinePasses
    <2>2. StepsLeft' = StepsLeft - 1
        BY <1>1, <1>2, <1>4, <2>1, StepsLeftInNat DEF StepsLeft
    <2> QED
        BY <2>2, StepsLeftInNat
<1>6. CASE BeginVisit \/ TimeOut \/ NoPagesLeft
    BY <1>1, <1>2, <1>4, <1>6, RuntimeParameters
       DEF BeginVisit, TimeOut, NoPagesLeft, reportVars, StepsLeft
<1>7. CASE VisitFails
    BY <1>7, RetryShortens DEF VisitFails
<1>8. CASE VisitRaises
    BY <1>1, <1>2, <1>3, <1>8 DEF VisitRaises, StepsLeft
<1>9. ASSUME NEW value \in Values \cup {NoValue}, NEW whole \in BOOLEAN,
             VisitExtracts(value, whole)
      PROVE  StepsLeft' < StepsLeft
    <2>1. pc = "visiting" /\ (TurnPage \/ RetryOrReport) /\ UNCHANGED expired
        BY <1>9 DEF VisitExtracts, Keep
    <2> QED
        BY <2>1, TurnShortens, RetryShortens
<1>10. ASSUME NEW works \in BOOLEAN,
              \/ Launch(works) \/ StartTrace(works) \/ SetUp(works)
              \/ StopTrace(works) \/ Close(works) \/ Finish(works)
       PROVE  StepsLeft' < StepsLeft
    <2>1. /\ page' = page /\ attempt' = attempt /\ expired' = expired
          /\ \/ pc = "launching" /\ pc' \in {"untraced", "raised"}
             \/ pc = "untraced" /\ pc' \in {"setting-up", "closing"}
             \/ pc = "setting-up" /\ pc' \in {"at-page", "tracing"}
             \/ pc = "tracing" /\ pc' = "closing"
             \/ pc = "closing" /\ pc' \in {"finishing", "raised"}
             \/ pc = "finishing" /\ pc' \in {"returned", "raised"}
        BY <1>10 DEF Launch, StartTrace, SetUp, StopTrace, Close, Finish
    <2> QED
        BY <1>1, <1>2, <1>4, <2>1 DEF StepsLeft
<1> QED
    BY <1>5, <1>6, <1>7, <1>8, <1>9, <1>10 DEF RuntimeNext, RunStep

(* Every run is finite, whatever the browser does and whenever the         *)
(* deadline passes: the steps it has left are a natural number that every  *)
(* step lowers.                                                            *)
THEOREM RunsAreFinite == RuntimeSpec => [](StepsLeft \in Nat) /\ RunsShorten
<1>1. TypeInv => StepsLeft \in Nat
    BY StepsLeftInNat
<1>2. TypeInv /\ [RuntimeNext]_runVars => [StepsLeft' < StepsLeft]_runVars
    BY StepShortens
<1>3. [][StepsLeft' < StepsLeft]_runVars => RunsShorten
    BY DEF RunsShorten
<1> QED
    BY <1>1, <1>2, <1>3, TypeInvariance, PTL DEF RuntimeSpec

=============================================================================
