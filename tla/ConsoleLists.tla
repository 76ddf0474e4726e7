---------------------------- MODULE ConsoleLists ----------------------------
(***************************************************************************)
(* The list pages of the console UI: a list of rows fetched page by page   *)
(* with a cursor, a search form, rows that unfold, and a delete button     *)
(* with a confirmation dialog.  Each page has its own component and its    *)
(* own way of doing this; the actions below are named after them.          *)
(*                                                                         *)
(* A search, and a delete, is a request whose answer comes later.  Several *)
(* can be under way, they are answered in any order, and the dialog does   *)
(* not block the page (backdrop: false): the user can go on searching.     *)
(* A delete remembers the position of its row when the button was clicked. *)
(*                                                                         *)
(* Items are numbers, in the order the server lists them.  A cursor names   *)
(* the item next to which a page ends: 0 is the empty cursor, c > 0 asks    *)
(* for what comes after item c, and -c for what comes before it.  (The      *)
(* leaderboards' cursor is an offset; what the page can delete lies before  *)
(* it, so that it names the same place.)                                    *)
(***************************************************************************)
EXTENDS Integers, FiniteSets, SequencesExt

CONSTANTS N,            \* items of the server: 1 .. N
          Match,        \* Match[f]: the items that satisfy filter f
          Text,         \* Text[f]: filter f of the accounts without "tombstones only"
          Whole,        \* filters of groups and storage that are answered in one piece
          Estimates,    \* totals the database's statistics may give
          PageSize,
          RoleSet,      \* roles of the user
          Visits        \* visits of list pages this instance has

Developer == 2
Maintainer == 3

Items == 1 .. N
All == "all"            \* the empty filter
Cursors == -N .. N

ListViews == {"accounts", "groups", "storage", "leaderboards", "records", "wallet",
              "notifications", "purchases", "subscriptions", "chat"}

\* A visit: the page, the filters the user tries, whether the user waits for each
\* answer before acting again, and the bounds: searches under way, dialogs and deletes
\* under way.
ASSUME ListAssumption ==
    /\ N \in Nat /\ PageSize \in Nat \ {0} /\ RoleSet \subseteq 0 .. 4
    /\ \A f \in DOMAIN Match : Match[f] \subseteq Items
    /\ Text \in [DOMAIN Match -> DOMAIN Match] /\ Estimates \subseteq Nat
    /\ Visits \subseteq [view: ListViews, filters: SUBSET DOMAIN Match, serial: BOOLEAN,
                        maxQueries: Nat, maxDeletes: Nat]
    /\ \A v \in Visits : All \in v.filters /\ \A f \in v.filters : Text[f] \in v.filters

VARIABLES
    visit,       \* the visit this behaviour is about
    role,        \* AuthenticationService.sessionRole
    ready,       \* ngOnInit has run
    filter,      \* the search form
    url,         \* the query parameters: filter, cursor, and whether they are there
    rows,        \* the list on the screen
    nextCursor, prevCursor, count,
    open,        \* positions of the rows that are unfolded (the ...Open arrays)
    queries,     \* searches under way, in the order they were sent
    ongoing,     \* ongoingQuery of the pages that cancel
    dialogs,     \* open delete confirmations: [i: position, item]
    deletes,     \* deletes under way, the same, and whether the server has done it
    sought,      \* the id the form of all users last handed to the list: -1 never, 0 the empty id
    purge,       \* ChatList.deleteData: no, dialog, deleting, or deleted by the server
    gone,        \* what the server has deleted, in that order
    wanted, shown,   \* history: the last search, and the search that is shown
    unfolded,    \* history: the items whose row the user unfolded
    failed,      \* history: some answer was an error
    crossed      \* history: a delete was open beside a search or another delete

view       == visit.view
Filters    == visit.filters
Serial     == visit.serial
MaxQueries == visit.maxQueries
MaxDeletes == visit.maxDeletes

fixed  == <<visit, role, ready, sought>>
list   == <<rows, nextCursor, prevCursor, count, open, shown, unfolded>>
remove == <<dialogs, deletes, purge, gone>>
vars   == <<fixed, filter, url, list, queries, ongoing, remove, wanted, failed,
            crossed>>

\* A search: list filter f from cursor c, or get the one item get # 0; at is how
\* much of gone the server had done when the search was sent.
Searches == [f: DOMAIN Match, c: Cursors, get: 0 .. N]
Query == [f: Filters, c: Cursors, get: 0 .. N, at: Nat]
Row == [i: Nat, item: Items]
Delete == [i: Nat, item: Items, done: BOOLEAN]

TypeOK ==
    /\ visit \in Visits /\ role \in RoleSet /\ ready \in BOOLEAN
    /\ filter \in Filters
    /\ url \in [f: Filters, c: Cursors, set: BOOLEAN]
    /\ rows \in Seq(Items)
    /\ nextCursor \in Cursors /\ prevCursor \in Cursors /\ count \in Int
    /\ open \subseteq Nat
    /\ queries \in Seq(Query) /\ ongoing \in BOOLEAN
    /\ dialogs \in Seq(Row) /\ deletes \in Seq(Delete)
    /\ purge \in {"no", "dialog", "deleting", "deleted"}
    /\ gone \in Seq(Items)
    /\ sought \in -1 .. N
    /\ wanted \in Searches /\ shown \in Searches
    /\ unfolded \subseteq Items
    /\ failed \in BOOLEAN /\ crossed \in BOOLEAN

-----------------------------------------------------------------------------
(* The server's side.                                                      *)

\* What is left after the first n deletes.
Left(n) == Items \ {gone[k] : k \in 1 .. n}

\* The items of S in the order in which the server lists them.
Ascending(S) == [i \in 1 .. Cardinality(S) |-> CHOOSE x \in S : Cardinality({y \in S : y <= x}) = i]

\* Filtered listings of accounts know neither cursors nor further pages, nor do those
\* of groups and storage by an exact name or by user.
Paged(f) == CASE view = "accounts" -> f = All
              [] view \in {"groups", "storage"} -> f \notin Whole
              [] OTHER -> TRUE
Matching(f, n) == Match[f] \cap Left(n)

\* A page of the list: the PageSize items next to the cursor.
Page(f, c, n) ==
    LET from == IF Paged(f) THEN c ELSE 0
        rest == {x \in Matching(f, n) : IF from < 0 THEN x < -from ELSE x > from}
    IN IF ~Paged(f) /\ view # "accounts" THEN rest
       ELSE {x \in rest :
               Cardinality({y \in rest : IF from < 0 THEN y > x ELSE y < x}) < PageSize}
Listing(f, c, n) == Ascending(Page(f, c, n))

\* The cursors that come with it.  A page before a cursor always has a next one, a page
\* after a cursor always a previous one, whether or not there is anything.
NextOf(f, c, n) ==
    LET p == Listing(f, c, n)
    IN IF p # <<>> /\ Paged(f) /\ (c < 0 \/ \E x \in Matching(f, n) : x > p[Len(p)])
       THEN p[Len(p)] ELSE 0
PrevOf(f, c, n) ==
    LET p == Listing(f, c, n)
    IN IF p # <<>> /\ Paged(f) /\ (c > 0 \/ (c < 0 /\ \E x \in Matching(f, n) : x < p[1]))
       THEN -p[1] ELSE 0

-----------------------------------------------------------------------------
(* Asking and being answered.                                              *)

Idle == queries = <<>> /\ dialogs = <<>> /\ deletes = <<>> /\ purge = "no"
MayAct == ready /\ (Serial => Idle)
\* A delete, from its dialog to its answer, is open beside a search or another delete.
Crossing ==
    LET removals == Len(dialogs) + Len(deletes) + IF purge = "no" THEN 0 ELSE 1
    IN removals > 1 \/ (removals = 1 /\ queries # <<>>)

Search(f, c) == [f |-> f, c |-> c, get |-> 0]
Sent(q) == [f |-> q.f, c |-> q.c, get |-> q.get, at |-> Len(gone)]
\* The page buttons; next is off without a next cursor, previous likewise.
CursorOf(state) == IF state = 1 THEN nextCursor ELSE IF state = -1 THEN prevCursor ELSE 0
Enabled(state) == (state = 1 => nextCursor # 0) /\ (state = -1 => prevCursor # 0)

Ask(q) ==
    /\ Len(queries) < MaxQueries
    /\ queries' = Append(queries, Sent(q))
    /\ wanted' = q

\* Mutated: the search under way is not dropped.
AskBeside(q) ==
    /\ Len(queries) < MaxQueries
    /\ queries' = Append(queries, Sent(q))
    /\ ongoing' = TRUE
    /\ wanted' = q

\* takeUntil(querySubject): a search drops the one that is still under way.
AskAlone(q) ==
    /\ queries' = IF ongoing THEN <<Sent(q)>> ELSE Append(queries, Sent(q))
    /\ ongoing' = TRUE
    /\ wanted' = q

Of(q) == [f |-> q.f, c |-> q.c, get |-> q.get]

\* The list is replaced by page q as the server had it after n deletes.
ShowRows(q, n) ==
    /\ rows' = Listing(q.f, q.c, n)
    /\ nextCursor' = NextOf(q.f, q.c, n)
    /\ shown' = Of(q)

\* The total above the list: the leaderboards are counted, for the others the server
\* answers an estimate of the database (countDatabase).
ShowCount(n) ==
    IF view = "leaderboards" THEN count' = Cardinality(Left(n)) ELSE count' \in Estimates
ShowPrev(q, n) == prevCursor' = PrevOf(q.f, q.c, n)

\* The ...Open array is emptied together with the list.
FoldAll == open' = {} /\ unfolded' = {}
KeepOpen == UNCHANGED <<open, unfolded>>

\* router.navigate([], ...): the form as it is now, the cursor that was asked for.
ShowUrl(c) == url' = [f |-> filter, c |-> c, set |-> TRUE]

\* Answer k of the searches under way, with a state of the server's list between
\* the sending and now.
Answer(k, Shows(_, _)) ==
    /\ k \in 1 .. Len(queries)
    /\ \E n \in queries[k].at .. Len(gone) : Shows(queries[k], n)
    /\ queries' = RemoveAt(queries, k)
    /\ UNCHANGED <<fixed, filter, remove, wanted, failed>>

-----------------------------------------------------------------------------
(* Deleting a row.                                                         *)

\* Mutated: one position too far; a hole (delete arr[i]); the array of flags forgotten.
spliceNext(s, i) == IF i + 1 \in DOMAIN s THEN RemoveAt(s, i + 1) ELSE s
spliceHole(s, i) == IF i \in DOMAIN s THEN [s EXCEPT ![i] = 0] ELSE s
spliceOpenNot(i) == open

\* Array.splice(i, 1): a position past the end removes nothing.
splice(s, i) == IF i \in DOMAIN s THEN RemoveAt(s, i) ELSE s
\* The same on the set of positions of an ...Open array.
spliceOpen(i) == {j \in open : j < i} \cup {j - 1 : j \in {h \in open : h > i}}

\* DeleteConfirmService.openDeleteConfirmModal, for the row at position i.
openDeleteConfirmModal(i) ==
    /\ MayAct /\ i \in DOMAIN rows
    /\ Len(dialogs) + Len(deletes) < MaxDeletes
    /\ dialogs' = Append(dialogs, [i |-> i, item |-> rows[i]])
    /\ UNCHANGED <<fixed, filter, url, list, queries, ongoing, deletes, purge, gone, wanted,
                   failed>>

\* DeleteConfirmDialogComponent: confirm runs the callback, which sends the
\* delete, and closes the dialog; cancel and the cross close it.
confirm(k) ==
    /\ k \in DOMAIN dialogs
    /\ deletes' = Append(deletes, [i |-> dialogs[k].i, item |-> dialogs[k].item, done |-> FALSE])
    /\ dialogs' = RemoveAt(dialogs, k)
    /\ UNCHANGED <<fixed, filter, url, list, queries, ongoing, purge, gone, wanted, failed>>

closeModal(k) ==
    /\ k \in DOMAIN dialogs
    /\ dialogs' = RemoveAt(dialogs, k)
    /\ UNCHANGED <<fixed, filter, url, list, queries, ongoing, deletes, purge, gone, wanted,
                   failed>>

\* The server deletes the item; what is gone already stays gone, and there is no
\* account behind a tombstone.
Delete1(x) ==
    IF x \in ToSet(gone) \/ (view = "accounts" /\ x \notin Match[All]) THEN gone ELSE Append(gone, x)
ServerDeletes(k) ==
    /\ k \in DOMAIN deletes /\ ~deletes[k].done
    /\ gone' = Delete1(deletes[k].item)
    /\ deletes' = [deletes EXCEPT ![k].done = TRUE]
    /\ UNCHANGED <<fixed, filter, url, list, queries, ongoing, dialogs, purge, wanted, failed>>

\* Its answer, which may come after listings that no longer have the item.
Done(k) ==
    /\ k \in DOMAIN deletes /\ deletes[k].done
    /\ deletes' = RemoveAt(deletes, k)
    /\ UNCHANGED <<fixed, filter, url, queries, ongoing, dialogs, purge, gone, wanted, failed>>

\* The list after a delete was answered: the row at the remembered position goes.
DropRow(i) == rows' = splice(rows, i) /\ UNCHANGED <<nextCursor, prevCursor, shown>>
DropCounted(i) == DropRow(i) /\ count' = count - 1 /\ KeepOpen
\* Pages with an ...Open array splice it as well; the history follows the row.
DropUnfolded(i) ==
    /\ DropRow(i)
    /\ open' = spliceOpen(i)
    /\ unfolded' = IF i \in DOMAIN rows THEN unfolded \ {rows[i]} ELSE unfolded
    /\ UNCHANGED count

\* A delete that fails, whether or not the server has done it.
DeleteFailed(k) ==
    /\ k \in DOMAIN deletes
    /\ deletes' = RemoveAt(deletes, k)
    /\ failed' = TRUE
    /\ UNCHANGED <<fixed, filter, url, list, queries, ongoing, dialogs, purge, gone, wanted>>

\* A search that fails: the error is shown, the list stays.
SearchFailed(k) ==
    /\ k \in DOMAIN queries
    /\ queries' = RemoveAt(queries, k)
    /\ ongoing' = FALSE
    /\ failed' = TRUE
    /\ UNCHANGED <<fixed, filter, url, list, remove, wanted>>

-----------------------------------------------------------------------------
(* The form and the rows.                                                  *)

\* Typing in the search form sends nothing.
SetFilter(f) ==
    /\ MayAct /\ f # filter
    /\ view \in {"accounts", "groups", "storage", "chat"}
    /\ view = "accounts" => (Text[f] = f <=> Text[filter] = filter)
    /\ filter' = f
    /\ UNCHANGED <<fixed, url, list, queries, ongoing, remove, wanted, failed>>

\* The arrow of a row: its details are unfolded or folded.
Toggle(i) ==
    /\ MayAct /\ i \in DOMAIN rows
    /\ view \in {"records", "wallet", "notifications", "purchases", "subscriptions", "chat"}
    /\ IF i \in open THEN open' = open \ {i} /\ unfolded' = unfolded \ {rows[i]}
                     ELSE open' = open \cup {i} /\ unfolded' = unfolded \cup {rows[i]}
    /\ UNCHANGED <<fixed, filter, url, rows, nextCursor, prevCursor, count, shown,
                   queries, ongoing, remove, wanted, failed>>

-----------------------------------------------------------------------------
(* What the components share.                                              *)

\* ngOnInit: the answer of the page's resolver, the first page of filter f.
FirstPage(f) ==
    /\ rows' = Listing(f, 0, 0)
    /\ nextCursor' = NextOf(f, 0, 0)
    /\ prevCursor' = PrevOf(f, 0, 0)
    /\ shown' = Search(f, 0)
Opened(v) ==
    /\ view = v /\ ~ready
    /\ ready' = TRUE
    /\ KeepOpen
    /\ UNCHANGED <<visit, role, sought, url, remove, failed>>
Untouched == UNCHANGED <<queries, ongoing, wanted>>
\* Lists without a form and a total.
Plain(v) == Opened(v) /\ Untouched /\ UNCHANGED <<filter, count>>

\* Sending a search from page v, without dropping the one under way.
Ask1(v, q) ==
    /\ view = v /\ MayAct
    /\ Ask(q)
    /\ UNCHANGED <<fixed, filter, url, list, ongoing, remove, failed>>
\* search(state) of the pages with a form: the previous-page button is not there.
SearchFrom(v, f, state) == state # -1 /\ Enabled(state) /\ Ask1(v, Search(f, CursorOf(state)))
\* loadData(state): both page buttons, no form.
LoadFrom(v, state) == Enabled(state) /\ Ask1(v, Search(All, CursorOf(state)))

\* The answer to a search: rows, total and URL; prevCursor is left as it was.
Listed(v, k) ==
    /\ view = v
    /\ Answer(k, LAMBDA q, n : ShowRows(q, n) /\ ShowCount(n) /\ ShowUrl(q.c))
    /\ KeepOpen /\ UNCHANGED prevCursor
\* The answer to loadData: rows and both cursors, every row folded.
Loaded(v, k) ==
    /\ view = v
    /\ Answer(k, LAMBDA q, n : ShowRows(q, n) /\ ShowPrev(q, n) /\ FoldAll)
    /\ UNCHANGED <<url, count, ongoing>>
\* The same where the form asks for one item: an item that was fetched replaces
\* the rows and nothing else, the flags and the cursors stay.
FoundOrLoaded(v, k) ==
    /\ view = v
    /\ Answer(k, LAMBDA q, n :
          IF q.get # 0
          THEN /\ q.get \in Matching(q.f, n)
               /\ rows' = <<q.get>> /\ shown' = Of(q)
               /\ UNCHANGED <<nextCursor, prevCursor, open, unfolded>>
          ELSE ShowRows(q, n) /\ ShowPrev(q, n) /\ FoldAll)
    /\ UNCHANGED <<url, count, ongoing>>

-----------------------------------------------------------------------------
(* AccountListComponent.                                                   *)

\* The page writes filter_type, the resolver reads tombstones: it never lists them.
AccountSearchResolver == FirstPage(Text[url.f])

\* The form and the cursor come from the URL; a search for them is sent, then the
\* resolver's first page is shown until the answer comes.
AccountListInit ==
    /\ Opened("accounts")
    /\ filter' = url.f
    /\ IF url.c # 0 \/ url.f # All THEN AskAlone(Search(url.f, url.c)) ELSE Untouched
    /\ AccountSearchResolver /\ ShowCount(0)

\* Search looks for accounts, Tombstones for tombstones; the enter key and the page
\* buttons leave that as it is.
AccountListSearch(state) ==
    /\ view = "accounts" /\ MayAct /\ state # -1 /\ Enabled(state)
    /\ \E f \in Filters :
          /\ IF state = 0 THEN Text[f] = Text[filter] ELSE f = filter
          /\ filter' = f
          /\ AskAlone(Search(f, CursorOf(state)))
    /\ UNCHANGED <<fixed, url, list, remove, failed>>

AccountListed(k) == Listed("accounts", k) /\ ongoing' = FALSE

AccountCancelQuery ==
    /\ view = "accounts" /\ ongoing
    /\ queries' = <<>> /\ ongoing' = FALSE
    /\ UNCHANGED <<fixed, filter, url, list, remove, wanted, failed>>

AccountDeleteAllowed == role <= Developer
AccountDelete(i) == view = "accounts" /\ AccountDeleteAllowed /\ openDeleteConfirmModal(i)
AccountDeleted(k) == view = "accounts" /\ Done(k) /\ DropCounted(deletes[k].i)

-----------------------------------------------------------------------------
(* GroupListComponent: as the accounts, but a search drops nothing.        *)

GroupSearchResolver == FirstPage(url.f)

GroupListInit ==
    /\ Opened("groups")
    /\ filter' = url.f
    /\ IF url.c # 0 \/ url.f # All THEN Ask(Search(url.f, url.c)) /\ UNCHANGED ongoing ELSE Untouched
    /\ GroupSearchResolver /\ ShowCount(0)

GroupListSearch(state) == SearchFrom("groups", filter, state)
GroupListed(k) == Listed("groups", k) /\ UNCHANGED ongoing
GroupDeleteAllowed == role <= Developer
GroupDelete(i) == view = "groups" /\ GroupDeleteAllowed /\ openDeleteConfirmModal(i)
GroupDeleted(k) == view = "groups" /\ Done(k) /\ DropCounted(deletes[k].i)

-----------------------------------------------------------------------------
(* StorageListComponent.                                                   *)

StorageSearchResolver == FirstPage(url.f)

StorageListInit ==
    /\ Opened("storage")
    /\ filter' = url.f
    /\ IF url.c # 0 \/ url.f # All THEN Ask(Search(url.f, url.c)) /\ UNCHANGED ongoing ELSE Untouched
    /\ StorageSearchResolver /\ ShowCount(0)

\* The search button is the form's submit button and has a click handler: both
\* search, so the request goes out twice.  The page buttons search once.
StorageListSearch(state) ==
    LET q == Search(filter, CursorOf(state)) IN
    \/ SearchFrom("storage", filter, state)
    \/ /\ view = "storage" /\ MayAct /\ state = 0 /\ Len(queries) + 1 < MaxQueries
       /\ queries' = queries \o <<Sent(q), Sent(q)>>
       /\ wanted' = q
       /\ UNCHANGED <<fixed, filter, url, list, ongoing, remove, failed>>

\* With a filter that is answered in one piece a cursor is an error.
StorageListed(k) ==
    /\ Listed("storage", k) /\ UNCHANGED ongoing
    /\ queries[k].c # 0 => Paged(queries[k].f)
StorageDeleteAllowed == role <= Maintainer
StorageDelete(i) == view = "storage" /\ StorageDeleteAllowed /\ openDeleteConfirmModal(i)
StorageDeleted(k) == view = "storage" /\ Done(k) /\ DropCounted(deletes[k].i)

-----------------------------------------------------------------------------
(* LeaderboardsComponent: always searches, has no form.                    *)

LeaderboardsInit ==
    /\ Opened("leaderboards")
    /\ nextCursor' = url.c
    /\ Ask(Search(All, url.c))
    /\ UNCHANGED <<filter, rows, prevCursor, count, shown, ongoing>>

LeaderboardsSearch(state) == SearchFrom("leaderboards", All, state)
LeaderboardsListed(k) == Listed("leaderboards", k) /\ UNCHANGED ongoing
LeaderboardDeleteAllowed == role <= Developer
LeaderboardDelete(i) == view = "leaderboards" /\ LeaderboardDeleteAllowed /\ openDeleteConfirmModal(i)
LeaderboardDeleted(k) == view = "leaderboards" /\ Done(k) /\ DropCounted(deletes[k].i)

-----------------------------------------------------------------------------
(* LeaderboardRecordsComponent.                                            *)

LeaderboardRecordsResolver == FirstPage(All)
RecordsInit == Plain("records") /\ LeaderboardRecordsResolver
loadRecords(state) == LoadFrom("records", state)
RecordsLoaded(k) == Loaded("records", k)
RecordDeleteAllowed == role <= Maintainer
RecordDelete(i) == view = "records" /\ RecordDeleteAllowed /\ openDeleteConfirmModal(i)
RecordDeleted(k) == view = "records" /\ Done(k) /\ DropUnfolded(deletes[k].i)

-----------------------------------------------------------------------------
(* WalletComponent, the ledger.                                            *)

WalletLedgerResolver == FirstPage(All)
WalletInit == Plain("wallet") /\ WalletLedgerResolver
WalletLoadData(state) == LoadFrom("wallet", state)
WalletLoaded(k) == Loaded("wallet", k)
LedgerDelete(i) == view = "wallet" /\ role <= Maintainer /\ openDeleteConfirmModal(i)
LedgerDeleted(k) == view = "wallet" /\ Done(k) /\ DropUnfolded(deletes[k].i)

-----------------------------------------------------------------------------
(* NotificationsComponent, PurchasesComponent and SubscriptionsComponent:   *)
(* a list of a user, or of all users below a form that asks for one item.   *)
(* The form's component hands its id over (ngOnChanges): one item is        *)
(* fetched, an empty id loads the first page again.                         *)

\* An id that has not changed is no change, and sends nothing.
Find(v, x) ==
    /\ view = v /\ MayAct /\ x # sought
    /\ sought' = x
    /\ Ask([f |-> All, c |-> 0, get |-> x])
    /\ UNCHANGED <<visit, role, ready, filter, url, list, ongoing, remove, failed>>

NotificationsResolver == FirstPage(All)
NotificationsInit == Plain("notifications") /\ NotificationsResolver
NotificationsLoadData(state) == LoadFrom("notifications", state)
NotificationsFind(x) == Find("notifications", x)
NotificationsLoaded(k) == FoundOrLoaded("notifications", k)
NotificationDelete(i) == view = "notifications" /\ role <= Maintainer /\ openDeleteConfirmModal(i)
\* The rows are spliced, notificationsRowsOpen is not.
NotificationDeleted(k) ==
    view = "notifications" /\ Done(k) /\ DropRow(deletes[k].i) /\ KeepOpen /\ UNCHANGED count

PurchasesResolver == FirstPage(All)
PurchasesInit == Plain("purchases") /\ PurchasesResolver
PurchasesLoadData(state) == LoadFrom("purchases", state)
PurchasesFind(x) == Find("purchases", x)
PurchasesLoaded(k) == FoundOrLoaded("purchases", k)

SubscriptionsResolver == FirstPage(All)
SubscriptionsInit == Plain("subscriptions") /\ SubscriptionsResolver
SubscriptionsLoadData(state) == LoadFrom("subscriptions", state)
SubscriptionsFind(x) == Find("subscriptions", x)
SubscriptionsLoaded(k) == FoundOrLoaded("subscriptions", k)

-----------------------------------------------------------------------------
(* ChatListComponent.  A filter is a channel: its type and its form.        *)

\* Without a type in the URL there is nothing to list; an error leaves the list
\* as it is.
ChatSearchResolver ==
    IF url.set
    THEN \/ /\ rows' = Listing(url.f, url.c, 0)
            /\ nextCursor' = NextOf(url.f, url.c, 0)
            /\ shown' = Search(url.f, url.c)
         \/ nextCursor' = url.c /\ UNCHANGED <<rows, shown>>
    ELSE nextCursor' = url.c /\ UNCHANGED <<rows, shown>>

ChatListInit ==
    /\ Opened("chat") /\ Untouched
    /\ filter' = url.f
    /\ ChatSearchResolver
    /\ UNCHANGED <<prevCursor, count>>

ChatSearch(state) == SearchFrom("chat", filter, state)

postData(k) ==
    /\ view = "chat"
    /\ Answer(k, LAMBDA q, n : ShowRows(q, n) /\ ShowUrl(q.c) /\ FoldAll)
    /\ UNCHANGED <<prevCursor, count, ongoing>>

ChatDeleteAllowed == role <= Maintainer
MessageDelete(i) == view = "chat" /\ ChatDeleteAllowed /\ openDeleteConfirmModal(i)
MessageDeleted(k) == view = "chat" /\ Done(k) /\ DropUnfolded(deletes[k].i)

\* deleteData: everything up to a date, after a dialog of its own.
deleteData ==
    /\ view = "chat" /\ ChatDeleteAllowed /\ MayAct /\ purge = "no"
    /\ purge' = "dialog"
    /\ UNCHANGED <<fixed, filter, url, list, queries, ongoing, dialogs, deletes, gone,
                   wanted, failed>>

deleteDataConfirm(confirmed) ==
    /\ purge = "dialog"
    /\ purge' = IF confirmed THEN "deleting" ELSE "no"
    /\ UNCHANGED <<fixed, filter, url, list, queries, ongoing, dialogs, deletes, gone,
                   wanted, failed>>

\* The server deletes everything up to the date.
ServerDeletesData(upTo) ==
    /\ purge = "deleting"
    /\ purge' = "deleted"
    /\ gone' = gone \o Ascending({x \in Left(Len(gone)) : x <= upTo})
    /\ UNCHANGED <<fixed, filter, url, list, queries, ongoing, dialogs, deletes, wanted, failed>>

\* When it is done the channel the URL names, if it names one, is listed again.
DataDeleted ==
    /\ purge = "deleted"
    /\ purge' = "no"
    /\ IF url.set THEN Ask(Search(url.f, url.c)) ELSE UNCHANGED <<queries, wanted>>
    /\ UNCHANGED <<fixed, filter, url, list, ongoing, dialogs, deletes, gone, failed>>

DataDeleteFailed ==
    /\ purge \in {"deleting", "deleted"}
    /\ purge' = "no" /\ failed' = TRUE
    /\ UNCHANGED <<fixed, filter, url, list, queries, ongoing, dialogs, deletes, gone, wanted>>

-----------------------------------------------------------------------------
Init ==
    /\ visit \in Visits /\ role \in RoleSet /\ ready = FALSE /\ sought = -1
    /\ filter = All
    /\ \/ url = [f |-> All, c |-> 0, set |-> FALSE]
       \/ /\ view \in {"accounts", "groups", "storage", "chat"}
          /\ url \in [f: Filters, c: {0} \cup Match[All], set: {TRUE}]
    /\ rows = <<>> /\ nextCursor = 0 /\ prevCursor = 0 /\ count = 0
    /\ open = {} /\ unfolded = {}
    /\ queries = <<>> /\ ongoing = FALSE
    /\ dialogs = <<>> /\ deletes = <<>> /\ purge = "no" /\ gone = <<>>
    /\ wanted = Search(All, 0) /\ shown = Search(Text[url.f], 0)
    /\ failed = FALSE /\ crossed = FALSE

Inits == AccountListInit \/ GroupListInit \/ StorageListInit \/ LeaderboardsInit
         \/ RecordsInit \/ WalletInit \/ NotificationsInit \/ PurchasesInit
         \/ SubscriptionsInit \/ ChatListInit

Searching ==
    \/ \E f \in Filters : SetFilter(f)
    \/ AccountCancelQuery
    \/ \E s \in {-1, 0, 1} :
          \/ AccountListSearch(s) \/ GroupListSearch(s) \/ StorageListSearch(s)
          \/ LeaderboardsSearch(s) \/ loadRecords(s) \/ WalletLoadData(s) \/ ChatSearch(s)
          \/ NotificationsLoadData(s) \/ PurchasesLoadData(s) \/ SubscriptionsLoadData(s)
    \/ \E x \in 0 .. N : NotificationsFind(x) \/ PurchasesFind(x) \/ SubscriptionsFind(x)
    \/ \E k \in 1 .. MaxQueries :
          \/ AccountListed(k) \/ GroupListed(k) \/ StorageListed(k) \/ LeaderboardsListed(k)
          \/ RecordsLoaded(k) \/ WalletLoaded(k) \/ postData(k)
          \/ NotificationsLoaded(k) \/ PurchasesLoaded(k) \/ SubscriptionsLoaded(k)
          \/ SearchFailed(k)

Removing ==
    \/ \E i \in 1 .. N :
          \/ AccountDelete(i) \/ GroupDelete(i) \/ StorageDelete(i) \/ LeaderboardDelete(i)
          \/ RecordDelete(i) \/ LedgerDelete(i) \/ NotificationDelete(i) \/ MessageDelete(i)
          \/ Toggle(i)
    \/ \E k \in 1 .. MaxDeletes :
          \/ confirm(k) \/ closeModal(k) \/ ServerDeletes(k)
          \/ AccountDeleted(k) \/ GroupDeleted(k) \/ StorageDeleted(k) \/ LeaderboardDeleted(k)
          \/ RecordDeleted(k) \/ LedgerDeleted(k) \/ NotificationDeleted(k) \/ MessageDeleted(k)
          \/ DeleteFailed(k)
    \/ deleteData \/ DataDeleted \/ DataDeleteFailed
    \/ \E b \in BOOLEAN : deleteDataConfirm(b)
    \/ \E x \in Items : ServerDeletesData(x)

Next ==
    /\ Inits \/ Searching \/ Removing
    /\ crossed' = (crossed \/ Crossing')

Spec == Init /\ [][Next]_vars

-----------------------------------------------------------------------------
(* Properties.                                                             *)

\* A page that unfolds rows and splices its ...Open array with them keeps the
\* unfolded ones unfolded: whatever is listed or deleted in between, and at
\* whatever position, the flag stays with its row.
FlagsFollowRows ==
    view \in {"records", "wallet", "chat"} =>
        {i \in DOMAIN rows : i \in open} = {i \in DOMAIN rows : rows[i] \in unfolded}

\* The list is the server's: as long as no delete was open beside a search or another
\* delete, and no answer was an error, a list at rest shows no item that was deleted,
\* and the total of the leaderboards, the one the server counts, is what is left.
ListIsServed ==
    ~crossed /\ ready /\ Idle /\ ~failed =>
        /\ \A i \in DOMAIN rows : rows[i] \in Left(Len(gone))
        /\ view = "leaderboards" => count = Cardinality(Left(Len(gone)))

\* The accounts page keeps the promise of LatestSearch: answers never overtake.  (The
\* other pages do not, and are mapped to a list that never searches.)
cancels == view = "accounts"
Latest == INSTANCE LatestSearch WITH
    wanted <- IF cancels THEN wanted ELSE Search(All, 0),
    shown <- IF cancels THEN shown ELSE Search(All, 0),
    waiting <- cancels /\ ongoing
LatestSearchShown == Latest!Spec

=============================================================================
