----------------------------- MODULE PortalLists -----------------------------
(***************************************************************************)
(* The two lists the console UI fetches from the LayerG portal: the         *)
(* collections, and the collectibles of one collection.  They go by page    *)
(* number, with an ngb-pagination bar next to the search form.  The bar     *)
(* has a page of its own (the component's page) beside the form's, counts   *)
(* pages of the component's limit, and corrects its page when the total     *)
(* shrinks below it.                                                        *)
(*                                                                         *)
(* A list is abstracted to how many rows are shown of how many there are.   *)
(***************************************************************************)
EXTENDS Integers, SequencesExt

CONSTANTS Filters,      \* what the search box can hold
          Limit,        \* the component's limit, the page size of the bar
          Limits,       \* what the user can choose as the form's limit
          MaxTotal,     \* bound: items that match a filter
          Visits        \* visits of the two pages: [view, fromUrl, serial, maxQueries]

VARIABLES
    visit,          \* the page; whether its URL may name page and limit; whether the
                    \* user waits for each answer; bound: searches under way
    ready,
    total,          \* the portal: how many items match each filter
    form,           \* the search form; page 0 is the empty field
    page,           \* the bar's page
    rows, count,    \* rows on the screen and the total that came with them
    queries,        \* searches under way
    ongoing,        \* ongoingQuery
    wanted, shown   \* history: the last search and the one that is shown

view       == visit.view
FromUrl    == visit.fromUrl
Serial     == visit.serial
MaxQueries == visit.maxQueries

vars == <<visit, ready, total, form, page, rows, count, queries, ongoing, wanted, shown>>
screen == <<page, rows, count, shown>>

Pages == 1 .. MaxTotal + 1
Searches == [page: Pages, limit: Limits, f: Filters]

TypeOK ==
    /\ visit \in Visits /\ ready \in BOOLEAN
    /\ total \in [Filters -> 0 .. MaxTotal]
    /\ form \in [page: Pages \cup {0}, limit: Limits, f: Filters]
    /\ page \in Pages /\ rows \in 0 .. MaxTotal /\ count \in 0 .. MaxTotal
    /\ queries \in Seq(Searches) /\ Len(queries) <= MaxQueries /\ ongoing \in BOOLEAN
    /\ wanted \in Searches /\ shown \in Searches

-----------------------------------------------------------------------------
(* The portal.                                                             *)

\* Somebody creates or removes items.
Change(f, n) ==
    /\ total' = [total EXCEPT ![f] = n]
    /\ UNCHANGED <<visit, ready, form, screen, queries, ongoing, wanted>>

\* How many rows page q.page of the matching items has.
RowsOf(q) == Max({0, Min({q.limit, total[q.f] - (q.page - 1) * q.limit})})

-----------------------------------------------------------------------------
(* The pagination bar (ngb-pagination), drawn after every answer.           *)

Bar(n) == 1 .. Max({1, (n + Limit - 1) \div Limit})
InRange == page \in Bar(count)

-----------------------------------------------------------------------------
(* Searching.                                                              *)

\* page: this.f.page.value || this.page
Filter(g, p) == [page |-> IF g.page = 0 THEN p ELSE g.page, limit |-> g.limit, f |-> g.f]

\* CollectionsComponent.search: takeUntil(querySubject) drops the one under way.
CollectionsSearch(g, p) ==
    /\ queries' = <<Filter(g, p)>>
    /\ wanted' = Filter(g, p) /\ ongoing' = TRUE

\* CollectionDetail1Component.getListCollectible: no search is dropped.
getListCollectible(g, p) ==
    /\ Len(queries) < MaxQueries
    /\ queries' = Append(queries, Filter(g, p))
    /\ wanted' = Filter(g, p) /\ UNCHANGED ongoing

Search(g, p) == /\ form' = g /\ page' = p
                /\ IF view = "collections" THEN CollectionsSearch(g, p) ELSE getListCollectible(g, p)
                /\ UNCHANGED <<visit, total, rows, count, shown>>

\* ngOnInit of both: the form, from the URL or from the component, and a first search.
CollectionsInit ==
    /\ view = "collections" /\ ~ready /\ ready' = TRUE
    /\ \E p \in IF FromUrl THEN {0} \cup Pages ELSE {0},
          n \in IF FromUrl THEN Limits ELSE {Limit}, f \in Filters :
          Search([page |-> p, limit |-> n, f |-> f], page)
CollectionDetailInit ==
    /\ view = "collectibles" /\ ~ready /\ ready' = TRUE
    /\ \E f \in Filters : Search([page |-> page, limit |-> Limit, f |-> f], page)

MayAct == ready /\ InRange /\ (Serial => queries = <<>>)

\* The search button, with another filter or the same; a modal that reports a
\* change (linkContractUpdated, collectibleCreated, collectibleUpdated) searches
\* the same way.
Submit(f) == MayAct /\ Search([form EXCEPT !.f = f], page) /\ UNCHANGED ready

\* Mutated: no search follows.
onPageChangeOnly(p) ==
    /\ form' = [form EXCEPT !.page = p] /\ page' = p
    /\ UNCHANGED <<visit, ready, total, rows, count, shown, queries, ongoing, wanted>>
onPageChange(p) == Search([form EXCEPT !.page = p], p) /\ UNCHANGED ready

Click(p) == MayAct /\ p \in Bar(count) \ {page} /\ onPageChange(p)

\* The bar finds its page out of range and moves it; nothing comes in between.
Correct == /\ ready /\ ~InRange
           /\ onPageChange(Max(Bar(count)))

\* Only the form's limit: the bar goes on counting pages of the component's.
changeLimit(n) ==
    /\ view = "collectibles" /\ MayAct /\ n # form.limit
    /\ Search([form EXCEPT !.limit = n], page) /\ UNCHANGED ready

\* The answer: rows and total together.
Answered(k) ==
    /\ InRange /\ k \in DOMAIN queries
    /\ rows' = RowsOf(queries[k]) /\ count' = total[queries[k].f] /\ shown' = queries[k]
    /\ queries' = RemoveAt(queries, k)
    /\ ongoing' = FALSE
    /\ UNCHANGED <<visit, ready, total, form, page, wanted>>

Failed(k) ==
    /\ InRange /\ k \in DOMAIN queries
    /\ queries' = RemoveAt(queries, k)
    /\ ongoing' = FALSE
    /\ UNCHANGED <<visit, ready, total, form, screen, wanted>>

cancelQuery ==
    /\ view = "collections" /\ InRange /\ ongoing
    /\ queries' = <<>> /\ ongoing' = FALSE
    /\ UNCHANGED <<visit, ready, total, form, screen, wanted>>

-----------------------------------------------------------------------------
Init ==
    /\ visit \in Visits /\ ready = FALSE
    /\ total \in [Filters -> 0 .. MaxTotal]
    /\ form = [page |-> 0, limit |-> Limit, f |-> CHOOSE f \in Filters : TRUE]
    /\ page = 1 /\ rows = 0 /\ count = 0
    /\ queries = <<>> /\ ongoing = FALSE
    /\ wanted = [form EXCEPT !.page = 1] /\ shown = wanted

Next ==
    \/ CollectionsInit \/ CollectionDetailInit
    \/ \E f \in Filters : Submit(f)
    \/ \E f \in Filters, n \in 0 .. MaxTotal : Change(f, n)
    \/ \E p \in Pages : Click(p)
    \/ Correct
    \/ \E n \in Limits : changeLimit(n)
    \/ \E k \in 1 .. MaxQueries : Answered(k) \/ Failed(k)
    \/ cancelQuery

Spec == Init /\ [][Next]_vars

-----------------------------------------------------------------------------
(* Properties.                                                             *)

\* With nothing under way and the last search shown, and unless the URL named a page or a limit,
\* the bar stands on the page that is shown; and "No collections found", "No
\* collectibles found" is true, the page is never one past the end of a list that
\* another filter made shorter.  (Not so when the form asks for more rows than the bar
\* counts with.)
BarFitsList ==
    ~FromUrl /\ ready /\ InRange /\ queries = <<>> /\ shown = wanted =>
        /\ page = shown.page
        /\ rows = 0 /\ shown.limit <= Limit => count = 0

\* The collections page keeps the promise of LatestSearch, the bar's own searches
\* included.
cancels == view = "collections"
Blank == [page |-> 1, limit |-> Limit, f |-> CHOOSE f \in Filters : TRUE]
Latest == INSTANCE LatestSearch WITH
    wanted <- IF cancels THEN wanted ELSE Blank,
    shown <- IF cancels THEN shown ELSE Blank,
    waiting <- cancels /\ ongoing
LatestCollections == Latest!Spec
=============================================================================
